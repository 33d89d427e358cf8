---------------------------- MODULE Deployment_proofs ----------------------------
(***************************************************************************)
(* Theorems about Deployment, for any codes, artifact releases and number  *)
(* of failed commands.                                                     *)
(***************************************************************************)
EXTENDS Deployment, TLAPS

-----------------------------------------------------------------------------
\* What the disk holds: a state that was written names a release that worked
\* here and has an overlay, and every directory the script may go back to has
\* a state.
DiskInv ==
  /\ DeploymentTypeOK
  /\ \A c \in Code : state[c] # None => Recorded(c) \in Works /\ overlay[c] # None
  /\ current # None => state[current] # None
  /\ previous # None => state[previous] # None
  /\ pc # "idle" => target \in Release /\ target.code \notin PreSplit
                    /\ overlay[target.code] # None
  /\ pc \in Touched => target \in Works
  /\ pc \in {"link", "record"} => state[target.code] # None
  /\ pc \in {"stop_frontend", "restore_api", "restore_frontend", "verify"} => previous # None
  /\ pc = "restore_frontend" => previous \notin PreSplit

\* Initially the disk is empty or holds the first release.
LEMMA DiskInit == Init => DiskInv
<1> SUFFICES ASSUME Init PROVE DiskInv
  OBVIOUS
<1> USE DeploymentAssumption
    DEF Init, DiskInv, DeploymentTypeOK, Touched, Deploying, RollingBack
<1>0. ignored = 0 /\ ignored \in 0 .. MaxIgnored
  OBVIOUS
<1>1. CASE current = None /\ api = None /\ frontend = None /\ state = [c \in Code |-> None]
  <2>1. DeploymentTypeOK
    BY <1>0, <1>1
  <2> QED BY <1>1, <2>1
<1>2. ASSUME NEW first \in Works, current = first.code, api = first,
             frontend = Proxy(first.code),
             state = [c \in Code |-> IF c = first.code THEN first.artifact ELSE None]
      PROVE  DiskInv
  <2>1. /\ first \in Release /\ first.code \in Code /\ first.artifact \in Artifact
        /\ first = [code |-> first.code, artifact |-> first.artifact]
        /\ first.code # None /\ first.artifact # None
    BY DEF Release
  <2>2. \A c \in Code : state[c] # None => Recorded(c) = first
    BY <1>2, <2>1 DEF Recorded
  <2>3. DeploymentTypeOK
    BY <1>0, <1>2, <2>1 DEF Proxy
  <2> QED BY <1>2, <2>1, <2>2, <2>3
<1> QED BY <1>1, <1>2

\* The steps of the main flow keep it.
LEMMA DeployingKeepsDisk ==
  ASSUME DiskInv,
         \/ \E release \in Release : Begin(release)
         \/ Rehearse \/ ReplaceApi \/ InspectApi \/ ReplaceFrontend \/ InspectFrontend
         \/ Gate \/ CommandFails \/ WriteState \/ Link \/ Record
  PROVE  DiskInv'
<1> USE DeploymentAssumption
    DEF DiskInv, DeploymentTypeOK, Recorded, Release, Touched, Deploying, RollingBack,
        onDisk, containers
<1>1. ASSUME NEW release \in Release, Begin(release) PROVE DiskInv'
  BY <1>1 DEF Begin
<1>2. CASE Rehearse
  BY <1>2 DEF Rehearse
<1>3. CASE ReplaceApi
  BY <1>3 DEF ReplaceApi, Recreated
<1>4. CASE InspectApi
  BY <1>4 DEF InspectApi
<1>5. CASE ReplaceFrontend
  BY <1>5 DEF ReplaceFrontend, Recreated
<1>6. CASE InspectFrontend
  BY <1>6 DEF InspectFrontend
<1>7. CASE Gate
  BY <1>7 DEF Gate
<1>8. CASE CommandFails
  BY <1>8 DEF CommandFails
<1>9. CASE WriteState
  BY <1>9 DEF WriteState
<1>10. CASE Link
  BY <1>10 DEF Link
<1>11. CASE Record
  BY <1>11 DEF Record
<1> QED BY <1>1, <1>2, <1>3, <1>4, <1>5, <1>6, <1>7, <1>8, <1>9, <1>10, <1>11

\* So do those of the rollback, the end of the session and the operator.
LEMMA RollingBackKeepsDisk ==
  ASSUME DiskInv,
         \/ NothingToRestore \/ RestoreOverlay \/ StopFrontend \/ RestoreApi
         \/ RestoreFrontend \/ Restored \/ NotRestored \/ Killed \/ Recreate
         \/ UNCHANGED vars
  PROVE  DiskInv'
<1> USE DeploymentAssumption
    DEF DiskInv, DeploymentTypeOK, Recorded, Release, Touched, Deploying, RollingBack,
        onDisk, containers, EndRollback, Attempt
<1>1. CASE NothingToRestore
  <2>1. pc' \in {"rollback", "idle"} /\ again' = FALSE /\ verdict' = "unknown"
    BY <1>1 DEF NothingToRestore
  <2>2. ignored' = 0 /\ ignored' \in 0 .. MaxIgnored
    BY <1>1 DEF NothingToRestore
  <2>3. DeploymentTypeOK'
    BY <1>1, <2>1, <2>2 DEF NothingToRestore
  <2> QED BY <1>1, <2>1, <2>3 DEF NothingToRestore
<1>2. CASE RestoreOverlay
  BY <1>2 DEF RestoreOverlay, CanRestore
<1>3. CASE StopFrontend
  BY <1>3 DEF StopFrontend
<1>4. CASE RestoreApi
  <2>1. [code |-> previous, artifact |-> overlay[previous]] \in Release
    BY <1>4 DEF RestoreApi
  <2>2. api' \in Release \cup {None} /\ ignored' \in 0 .. MaxIgnored
    BY <1>4, <2>1 DEF RestoreApi, Recreated
  <2> QED BY <1>4, <2>2 DEF RestoreApi
<1>5. CASE RestoreFrontend
  BY <1>5 DEF RestoreFrontend, Recreated
<1>6. CASE Restored
  <2>1. pc' \in {"rollback", "idle"} /\ again' = FALSE /\ verdict' = "restored"
    BY <1>6 DEF Restored
  <2>2. current' \in {current, previous} /\ ignored' \in 0 .. MaxIgnored
    BY <1>6 DEF Restored
  <2> QED BY <1>6, <2>1, <2>2 DEF Restored
<1>7. CASE NotRestored
  BY <1>7 DEF NotRestored
<1>8. CASE Killed
  BY <1>8 DEF Killed
<1>9. CASE Recreate
  BY <1>9 DEF Recreate, Proxy, script
<1>10. CASE UNCHANGED vars
  BY <1>10 DEF vars, script
<1> QED BY <1>1, <1>2, <1>3, <1>4, <1>5, <1>6, <1>7, <1>8, <1>9, <1>10

\* DiskInv is inductive.
LEMMA DiskInvHolds == DeploymentSpec => []DiskInv
<1>1. DiskInv /\ [Next]_vars => DiskInv'
  BY DeployingKeepsDisk, RollingBackKeepsDisk DEF Next
<1> QED BY DiskInit, <1>1, PTL DEF DeploymentSpec

\* The variables of the model keep their types.
THEOREM DeploymentTypeCorrect == DeploymentSpec => []DeploymentTypeOK
<1>1. DiskInv => DeploymentTypeOK
  BY DEF DiskInv
<1> QED BY DiskInvHolds, <1>1, PTL

\* Whatever was killed or failed before, a deployment that has touched the
\* containers of a release knows a working release to go back to.
THEOREM RollbackIsPossibleCorrect == DeploymentSpec => []RollbackIsPossible
<1>1. DiskInv => RollbackIsPossible
  BY DeploymentAssumption DEF DiskInv, DeploymentTypeOK, RollbackIsPossible
<1> QED BY DiskInvHolds, <1>1, PTL

-----------------------------------------------------------------------------
\* Unless the current code is deployed with another artifact, the overlays that
\* a rollback or the operator may use agree with the states, ...
OverlayInv ==
  /\ current # None => overlay[current] = state[current]
  /\ pc # "idle" =>
       /\ overlay[target.code] = target.artifact
       /\ target.code = previous => target.artifact = state[previous]
       /\ previous # None => overlay[previous] = state[previous]
       /\ current = previous \/ (current = target.code /\ pc \in {"record"} \cup RollingBack)
  /\ pc \in {"link", "record"} => state[target.code] = target.artifact
  /\ pc = "record" => current = target.code

\* ... and the containers follow the script, as long as it passes over nothing.
ContainerInv ==
  /\ pc \in {"frontend", "inspect_frontend", "gate", "write_state", "link", "record"} =>
       api = target
  /\ pc \in {"gate", "write_state", "link", "record"} => frontend = target.code
  /\ ignored = 0 =>
       /\ pc \in {"restore_api", "restore_frontend", "verify"} /\ previous \in PreSplit =>
            frontend = None
       /\ pc \in {"restore_frontend", "verify"} => api = Recorded(previous)
       /\ pc = "verify" => frontend = Proxy(previous)
       /\ pc \in {"idle", "rehearse"} /\ verdict # "unknown" => CurrentServes

ReleaseInv == OverlayInv /\ ContainerInv

\* What is known of the containers in the initial states.
LEMMA ReleaseInit == Init => ReleaseInv
<1> SUFFICES ASSUME Init PROVE ReleaseInv
  OBVIOUS
<1> USE DEF Init, ReleaseInv, OverlayInv, ContainerInv, CurrentServes, Serves
<1>1. CASE current = None /\ api = None /\ frontend = None /\ state = [c \in Code |-> None]
  BY <1>1
<1>2. ASSUME NEW first \in Works, current = first.code, api = first,
             frontend = Proxy(first.code),
             state = [c \in Code |-> IF c = first.code THEN first.artifact ELSE None]
      PROVE  ReleaseInv
  <2>1. /\ first \in Release /\ first.code \in Code
        /\ first = [code |-> first.code, artifact |-> first.artifact]
        /\ first.code # None
    BY DeploymentAssumption DEF Release
  <2>2. Recorded(current) = first
    BY <1>2, <2>1 DEF Recorded
  <2> QED BY <1>2, <2>1, <2>2
<1> QED BY <1>1, <1>2

\* A release of the current code has the artifact the current state records.
LEMMA OverlayStep ==
  ASSUME ~SameCode, DiskInv, OverlayInv, [Next]_vars
  PROVE  OverlayInv'
<1> USE DeploymentAssumption
    DEF DiskInv, DeploymentTypeOK, OverlayInv, Touched, Deploying, RollingBack, onDisk
<1>1. ASSUME NEW release \in Release, Begin(release) PROVE OverlayInv'
  BY <1>1 DEF Begin, Release
<1>2. CASE Rehearse \/ ReplaceApi \/ InspectApi \/ ReplaceFrontend \/ InspectFrontend
           \/ Gate \/ CommandFails
  BY <1>2 DEF Rehearse, ReplaceApi, InspectApi, ReplaceFrontend, InspectFrontend,
       Gate, CommandFails
<1>3. CASE WriteState
  BY <1>3 DEF WriteState, Release
<1>4. CASE Link
  BY <1>4 DEF Link, Release
<1>5. CASE Record
  BY <1>5 DEF Record
<1>6. CASE RestoreOverlay
  BY <1>6 DEF RestoreOverlay, CanRestore, Release
<1>7. CASE StopFrontend \/ RestoreApi \/ RestoreFrontend
  BY <1>7 DEF StopFrontend, RestoreApi, RestoreFrontend
<1>8. CASE Restored
  <2>1. pc = "verify" /\ pc' \in {"rollback", "idle"} /\ current' \in {current, previous}
    BY <1>8 DEF Restored, EndRollback, Attempt
  <2> QED BY <1>8, <2>1 DEF Restored
<1>9. CASE NothingToRestore \/ NotRestored
  <2>1. pc \in {"rollback", "verify"} /\ pc' \in {"rollback", "idle"}
    BY <1>9 DEF NothingToRestore, NotRestored, EndRollback
  <2> QED BY <1>9, <2>1 DEF NothingToRestore, NotRestored
<1>10. CASE Killed \/ Recreate \/ UNCHANGED vars
  BY <1>10 DEF Killed, Recreate, script, vars
<1> QED BY <1>1, <1>2, <1>3, <1>4, <1>5, <1>6, <1>7, <1>8, <1>9, <1>10 DEF Next

\* The containers follow the script.
LEMMA ContainerStep ==
  ASSUME DiskInv, OverlayInv, ContainerInv, [Next]_vars
  PROVE  ContainerInv'
<1> USE DeploymentAssumption
    DEF DiskInv, DeploymentTypeOK, ContainerInv, Touched, Deploying, RollingBack,
        onDisk, containers, CurrentServes, Serves, Recorded
<1>1. ASSUME NEW release \in Release, Begin(release) PROVE ContainerInv'
  BY <1>1 DEF Begin
<1>2. CASE Rehearse \/ InspectApi \/ InspectFrontend \/ Gate \/ CommandFails
  BY <1>2 DEF Rehearse, InspectApi, InspectFrontend, Gate, CommandFails
<1>3. CASE ReplaceApi \/ ReplaceFrontend
  BY <1>3 DEF ReplaceApi, ReplaceFrontend
<1>4. CASE WriteState \/ Link
  BY <1>4 DEF WriteState, Link
<1>5. CASE Record
  <2>1. /\ Recorded(current) = target /\ current = target.code
        /\ target.code \in Code \ PreSplit
    BY <1>5 DEF Record, OverlayInv, Release
  <2>2. CurrentServes'
    BY <1>5, <2>1 DEF Record, Proxy
  <2> QED BY <1>5, <2>2 DEF Record
<1>6. CASE RestoreOverlay
  BY <1>6 DEF RestoreOverlay
<1>7. CASE StopFrontend
  BY <1>7 DEF StopFrontend, Attempt
<1>8. CASE RestoreApi
  <2>1. overlay[previous] = state[previous]
    BY <1>8 DEF RestoreApi, OverlayInv
  <2>2. ignored' = 0 => ignored = 0 /\ (ApiPortFree(previous) => api' = Recorded(previous))
    BY <1>8, <2>1 DEF RestoreApi, Attempt
  <2>3. ignored' = 0 => ApiPortFree(previous)
    BY <1>8, <2>2 DEF RestoreApi, ApiPortFree
  <2> QED BY <1>8, <2>2, <2>3 DEF RestoreApi, ApiPortFree, Proxy
<1>9. CASE RestoreFrontend
  <2>1. ignored' = 0 => ignored = 0 /\ (FrontendPortFree => frontend' = previous)
    BY <1>9 DEF RestoreFrontend, Attempt
  <2>2. ignored = 0 => FrontendPortFree
    BY <1>9 DEF RestoreFrontend, FrontendPortFree
  <2> QED BY <1>9, <2>1, <2>2 DEF RestoreFrontend, Proxy
<1>10. CASE Restored
  <2>1. pc = "verify" /\ pc' \in {"rollback", "idle"}
    BY <1>10 DEF Restored, EndRollback
  <2>2. ignored' = 0 => ignored = 0 /\ current' = previous
    BY <1>10 DEF Restored, Attempt
  <2> QED BY <1>10, <2>1, <2>2 DEF Restored
<1>11. CASE NothingToRestore \/ NotRestored
  <2>1. pc' \in {"rollback", "idle"} /\ verdict' = "unknown"
    BY <1>11 DEF NothingToRestore, NotRestored, EndRollback
  <2> QED BY <1>11, <2>1 DEF NothingToRestore, NotRestored
<1>12. CASE Killed
  BY <1>12 DEF Killed
<1>13. CASE Recreate
  BY <1>13 DEF Recreate, script, OverlayInv
<1>14. CASE UNCHANGED vars
  BY <1>14 DEF vars, script
<1> QED BY <1>1, <1>2, <1>3, <1>4, <1>5, <1>6, <1>7, <1>8, <1>9, <1>10, <1>11,
           <1>12, <1>13, <1>14 DEF Next

\* ReleaseInv is inductive relative to DiskInv.
LEMMA ReleaseInvHolds == ~SameCode => (DeploymentSpec => []ReleaseInv)
<1> SUFFICES ASSUME ~SameCode PROVE DeploymentSpec => []ReleaseInv
  OBVIOUS
<1>1. DiskInv /\ ReleaseInv /\ [Next]_vars => ReleaseInv'
  BY OverlayStep, ContainerStep DEF ReleaseInv
<1> QED BY ReleaseInit, DiskInvHolds, <1>1, PTL DEF DeploymentSpec

\* Unless the current code is deployed with another artifact, promotions and
\* clean rollbacks leave the containers of the release that current records.
THEOREM ServesCurrentCorrect == ~SameCode => (DeploymentSpec => []ServesCurrent)
<1> SUFFICES ASSUME ~SameCode PROVE DeploymentSpec => []ServesCurrent
  OBVIOUS
<1>1. ReleaseInv => ServesCurrent
  BY DEF ReleaseInv, ContainerInv, ServesCurrent
<1> QED BY ReleaseInvHolds, <1>1, PTL

\* Under the same condition `current` moves only to a release that runs.
THEOREM CurrentIsGatedCorrect == ~SameCode => (DeploymentSpec => CurrentIsGated)
<1> SUFFICES ASSUME ~SameCode PROVE DeploymentSpec => CurrentIsGated
  OBVIOUS
<1> DEFINE Gated == current' # current /\ ignored' = 0 =>
             current' # None /\ (Ready /\ Serves(Recorded(current)))'
<1>1. DiskInv /\ ReleaseInv /\ [Next]_vars => Gated \/ UNCHANGED vars
  <2> SUFFICES ASSUME DiskInv, ReleaseInv, Next, current' # current, ignored' = 0
               PROVE  current' # None /\ (Ready /\ Serves(Recorded(current)))'
    BY DEF vars, onDisk
  <2> USE DeploymentAssumption DEF DiskInv, DeploymentTypeOK, Recorded, Serves, Ready
  <2>1. CASE Link
    <3>1. /\ api' = target /\ frontend' = target.code /\ current' = target.code
          /\ state'[target.code] = target.artifact
      BY <2>1 DEF Link, containers, ReleaseInv, OverlayInv, ContainerInv
    <3>2. /\ target \in Works /\ target.code \in Code \ PreSplit /\ target.code # None
          /\ target = [code |-> target.code, artifact |-> target.artifact]
      BY <2>1 DEF Link, Touched, Deploying, Release
    <3> QED BY <3>1, <3>2 DEF Proxy
  <2>2. CASE Restored
    <3>1. ignored = 0 /\ current' = previous /\ previous # None
      BY <2>2 DEF Restored, Attempt
    <3>2. api = Recorded(previous) /\ frontend = Proxy(previous) /\ Ready
      BY <2>2, <3>1 DEF Restored, ReleaseInv, ContainerInv
    <3> QED BY <2>2, <3>1, <3>2 DEF Restored, containers
  <2> QED BY <2>1, <2>2 DEF Next, Begin, Rehearse, ReplaceApi, InspectApi,
       ReplaceFrontend, InspectFrontend, Gate, CommandFails, WriteState, Record,
       NothingToRestore, RestoreOverlay, StopFrontend, RestoreApi, RestoreFrontend,
       NotRestored, Killed, Recreate, onDisk
<1> QED BY DiskInvHolds, ReleaseInvHolds, <1>1, PTL DEF DeploymentSpec, CurrentIsGated

=============================================================================
