------------------------------- MODULE Deployment -------------------------------
(***************************************************************************)
(* The deployment of a release on the one production host:                 *)
(* scripts/deploy_naver.sh, with the checks of app/deployment that it runs *)
(* in containers.  A release is a code SHA, which names the API and the    *)
(* frontend image, and an artifact release.  On disk, every code has a     *)
(* directory with deployment.env, the overlay compose reads, and, once it  *)
(* was promoted, deployment-state; `current` links to one of them.         *)
(*                                                                         *)
(* The script runs under `set -E -e` with an ERR trap that rolls back once *)
(* containers were touched (deployment_mutated).  Two things of the shell  *)
(* matter here.  The trap calls `rollback || true`, which switches errexit *)
(* off inside rollback: a command of it that fails is passed over.  And a  *)
(* command that fails inside $(...) fires the trap in the subshell and     *)
(* then again in the script, so that the rollback runs twice.              *)
(***************************************************************************)
EXTENDS Naturals

CONSTANTS
  Code, Artifact,
  None,
  PreSplit,     \* codes of one combined image, whose API owns the public port
  Works,        \* releases that preflight and become READY on this host's data
  SameCode,     \* may the current code be deployed again with another artifact?
  MaxIgnored    \* bounds the failed commands that one rollback passes over

Release == [code : Code, artifact : Artifact]

ASSUME DeploymentAssumption ==
  /\ None \notin Code \cup Artifact \cup Release
  /\ PreSplit \subseteq Code
  /\ Works \subseteq Release
  /\ SameCode \in BOOLEAN
  /\ MaxIgnored \in Nat

VARIABLES
  current,     \* the code whose directory `current` links to
  state,       \* deployment-state of every code: the artifact it was promoted with
  overlay,     \* deployment.env of every code: the artifact compose would mount
  api,         \* the release the agent-api container was created from
  frontend,    \* the code the frontend container was created from
  pc,          \* the next command of the script
  target,      \* its arguments
  previous,    \* the code `current` linked to when it began
  again,       \* the trap fired in a subshell: another rollback follows
  ignored,     \* failed commands that the last rollback passed over
  verdict      \* how the last script that touched containers ended

onDisk == <<current, state, overlay>>
containers == <<api, frontend>>
script == <<pc, target, previous, again, ignored, verdict>>
vars == <<onDisk, containers, script>>

Recorded(c) == [code |-> c, artifact |-> state[c]]

\* The frontend container a code comes with.
Proxy(c) == IF c \in PreSplit THEN None ELSE c

Serves(release) == api = release /\ frontend = Proxy(release.code)

\* The public port: a pre-split API and a frontend exclude each other.
ApiPortFree(c) == IF c \in PreSplit THEN frontend = None ELSE TRUE
FrontendPortFree == api \notin [code : PreSplit, artifact : Artifact]

Ready ==
  /\ api \in Works
  /\ frontend = None <=> api.code \in PreSplit

\* The commands behind deployment_mutated, those of the rollback included.
Deploying == {"api", "inspect_api", "frontend", "inspect_frontend", "gate",
              "write_state", "link", "record"}
RollingBack == {"rollback", "stop_frontend", "restore_api", "restore_frontend", "verify"}
Touched == Deploying \cup RollingBack

\* Containers after `up --force-recreate`, whatever its exit status.
Recreated(old, new) == {old, None, new}

Init ==
  /\ pc = "idle" /\ again = FALSE /\ ignored = 0 /\ verdict = "promoted"
  /\ target = None /\ previous = None
  /\ \/ /\ current = None /\ api = None /\ frontend = None
        /\ state = [c \in Code |-> None]
     \/ \E first \in Works :
          /\ current = first.code /\ api = first /\ frontend = Proxy(first.code)
          /\ state = [c \in Code |-> IF c = first.code THEN first.artifact ELSE None]
  /\ overlay = state

-----------------------------------------------------------------------------
\* The main flow.

\* The arguments are checked and deployment.env is written, before anything of
\* the release is tried.
Begin(release) ==
  /\ pc = "idle"
  /\ release.code \notin PreSplit
  /\ release.code = current => SameCode \/ release.artifact = state[current]
  /\ target' = release
  /\ previous' = current
  /\ overlay' = [overlay EXCEPT ![release.code] = release.artifact]
  /\ pc' = "rehearse"
  /\ UNCHANGED <<current, state, containers, again, ignored, verdict>>

\* Images, artifact preflight, data services, a full startup in a container
\* beside the live one, the frontend's own test.
Rehearse ==
  /\ pc = "rehearse"
  /\ \/ target \in Works /\ pc' = "api"
     \/ pc' = "idle"
  /\ UNCHANGED <<onDisk, containers, target, previous, again, ignored, verdict>>

ReplaceApi ==
  /\ pc = "api"
  /\ api' \in Recreated(api, target)
  /\ pc' \in {"inspect_api", "rollback"}
  /\ UNCHANGED <<onDisk, frontend, target, previous, again, ignored, verdict>>

\* Fault: `up` is believed.
InspectNothing ==
  /\ pc = "inspect_api" /\ pc' = "frontend"
  /\ UNCHANGED <<onDisk, containers, target, previous, again, ignored, verdict>>

\* Image, artifact mount and environment of the container that runs.
InspectApi ==
  /\ pc = "inspect_api" /\ api = target
  /\ pc' = "frontend"
  /\ UNCHANGED <<onDisk, containers, target, previous, again, ignored, verdict>>

ReplaceFrontend ==
  /\ pc = "frontend"
  /\ frontend' \in Recreated(frontend, target.code)
  /\ pc' \in {"inspect_frontend", "rollback"}
  /\ UNCHANGED <<onDisk, api, target, previous, again, ignored, verdict>>

InspectFrontend ==
  /\ pc = "inspect_frontend" /\ frontend = target.code
  /\ pc' = "gate"
  /\ UNCHANGED <<onDisk, containers, target, previous, again, ignored, verdict>>

\* READY within 40 attempts, the pages, the five-field answer.
Gate ==
  /\ pc = "gate" /\ Ready
  /\ pc' = "write_state"
  /\ UNCHANGED <<onDisk, containers, target, previous, again, ignored, verdict>>

\* A command of the main flow fails: those in $(...) may fire the trap twice.
CommandFails ==
  /\ pc \in Deploying \ {"api", "frontend"}
  /\ pc' = "rollback"
  /\ again' \in IF pc \in {"inspect_api", "inspect_frontend", "gate"}
                  THEN BOOLEAN ELSE {FALSE}
  /\ UNCHANGED <<onDisk, containers, target, previous, ignored, verdict>>

\* Fault: the record is written only once, after the link.
WriteNoState ==
  /\ pc = "write_state" /\ pc' = "link"
  /\ UNCHANGED <<onDisk, containers, target, previous, again, ignored, verdict>>

WriteState ==
  /\ pc = "write_state"
  /\ state' = [state EXCEPT ![target.code] = target.artifact]
  /\ pc' = "link"
  /\ UNCHANGED <<current, overlay, containers, target, previous, again, ignored, verdict>>

Link ==
  /\ pc = "link"
  /\ current' = target.code
  /\ pc' = "record"
  /\ UNCHANGED <<state, overlay, containers, target, previous, again, ignored, verdict>>

Record ==
  /\ pc = "record"
  /\ pc' = "idle" /\ verdict' = "promoted" /\ ignored' = 0
  /\ UNCHANGED <<onDisk, containers, target, previous, again>>

-----------------------------------------------------------------------------
\* The rollback.  Without errexit each command leads to the next one.

\* What the command does, or what is left when it fails and is passed over.
Attempt(done, failed) ==
  \/ done /\ UNCHANGED ignored
  \/ failed /\ ignored < MaxIgnored /\ ignored' = ignored + 1

\* rollback is over: in a subshell the script's own trap is next.
EndRollback(outcome) ==
  /\ pc' = IF again THEN "rollback" ELSE "idle"
  /\ again' = FALSE
  /\ verdict' = outcome

CanRestore == previous # None /\ state[previous] # None

NothingToRestore ==
  /\ pc = "rollback" /\ ~CanRestore
  /\ EndRollback("unknown")
  /\ ignored' = 0
  /\ UNCHANGED <<onDisk, containers, target, previous>>

RestoreOverlay ==
  /\ pc = "rollback" /\ CanRestore
  /\ \/ overlay' = [overlay EXCEPT ![previous] = state[previous]] /\ ignored' = 0
     \/ UNCHANGED overlay /\ MaxIgnored > 0 /\ ignored' = 1
  /\ pc' = IF previous \in PreSplit THEN "stop_frontend" ELSE "restore_api"
  /\ UNCHANGED <<current, state, containers, target, previous, again, verdict>>

StopFrontend ==
  /\ pc = "stop_frontend"
  /\ Attempt(frontend' = None, UNCHANGED frontend)
  /\ pc' = "restore_api"
  /\ UNCHANGED <<onDisk, api, target, previous, again, verdict>>

RestoreApi ==
  /\ pc = "restore_api"
  /\ LET release == [code |-> previous, artifact |-> overlay[previous]] IN
       \/ ApiPortFree(previous) /\ Attempt(api' = release, api' \in Recreated(api, release))
       \/ ~ApiPortFree(previous) /\ api' \in {api, None} /\ UNCHANGED ignored
  /\ pc' = IF previous \in PreSplit THEN "verify" ELSE "restore_frontend"
  /\ UNCHANGED <<onDisk, frontend, target, previous, again, verdict>>

\* Fault: only the API is rolled back.
RestoreNoFrontend ==
  /\ pc = "restore_frontend" /\ pc' = "verify"
  /\ UNCHANGED <<onDisk, containers, target, previous, again, ignored, verdict>>

RestoreFrontend ==
  /\ pc = "restore_frontend"
  /\ \/ /\ FrontendPortFree
        /\ Attempt(frontend' = previous, frontend' \in Recreated(frontend, previous))
     \/ ~FrontendPortFree /\ frontend' \in {frontend, None} /\ UNCHANGED ignored
  /\ pc' = "verify"
  /\ UNCHANGED <<onDisk, api, target, previous, again, verdict>>

\* READY within 20 attempts: of whatever container runs.
Restored ==
  /\ pc = "verify" /\ Ready
  /\ Attempt(current' = previous, UNCHANGED current)
  /\ EndRollback("restored")
  /\ UNCHANGED <<state, overlay, containers, target, previous>>

NotRestored ==
  /\ pc = "verify"
  /\ EndRollback("unknown")
  /\ UNCHANGED <<onDisk, containers, target, previous, ignored>>

-----------------------------------------------------------------------------
\* The ssh session or the host goes away: HUP and KILL fire no trap.
Killed ==
  /\ pc # "idle"
  /\ pc' = "idle" /\ again' = FALSE
  /\ verdict' = IF pc \in Touched THEN "unknown" ELSE verdict
  /\ UNCHANGED <<onDisk, containers, target, previous, ignored>>

\* `compose_prod down` and `up -d` of deploy/README.md: what current's overlay says.
Recreate ==
  /\ pc = "idle" /\ current # None
  /\ ApiPortFree(current) /\ overlay[current] # None
  /\ api' = [code |-> current, artifact |-> overlay[current]]
  /\ frontend' = Proxy(current)
  /\ UNCHANGED <<onDisk, script>>

Next ==
  \/ \E release \in Release : Begin(release)
  \/ Rehearse \/ ReplaceApi \/ InspectApi \/ ReplaceFrontend \/ InspectFrontend
  \/ Gate \/ CommandFails \/ WriteState \/ Link \/ Record
  \/ NothingToRestore \/ RestoreOverlay \/ StopFrontend \/ RestoreApi
  \/ RestoreFrontend \/ Restored \/ NotRestored
  \/ Killed \/ Recreate

DeploymentSpec == Init /\ [][Next]_vars

-----------------------------------------------------------------------------
DeploymentTypeOK ==
  /\ current \in Code \cup {None}
  /\ state \in [Code -> Artifact \cup {None}]
  /\ overlay \in [Code -> Artifact \cup {None}]
  /\ api \in Release \cup {None}
  /\ frontend \in (Code \ PreSplit) \cup {None}
  /\ pc \in {"idle", "rehearse"} \cup Touched
  /\ target \in Release \cup {None}
  /\ previous \in Code \cup {None}
  /\ again \in BOOLEAN
  /\ ignored \in 0 .. MaxIgnored
  /\ verdict \in {"promoted", "restored", "unknown"}

\* What the containers should be when `current` can be believed.
CurrentServes ==
  IF current = None THEN api = None /\ frontend = None ELSE Serves(Recorded(current))

\* Promotion and rollback are true: between deployments, unless the last one
\* was killed, could not roll back or passed over a failed command, the
\* containers run the release that current's deployment-state records, through
\* any failures, rollbacks run twice, migrations from a combined image and
\* recreations by the operator.  Without the condition on ignored commands it
\* fails: a rollback that passes one over may print "rollback restored" while
\* the new release runs (deploy_naver.sh:231, 246).
ServesCurrent ==
  pc = "idle" /\ verdict # "unknown" /\ ignored = 0 => CurrentServes

\* `current` moves only to a release that runs and is READY
\* (docs/m10_9_c3_3_production_deployment.md:118-122).
CurrentIsGated ==
  [][current' # current /\ ignored' = 0 =>
       current' # None /\ (Ready /\ Serves(Recorded(current)))']_vars

\* A deployment that has touched the containers of a release can name what it
\* has to restore, also when an earlier one was killed on the way.
RollbackIsPossible ==
  pc \in Touched /\ previous # None => Recorded(previous) \in Works

=============================================================================
