------------------------------ MODULE PlanExecution ------------------------------
(***************************************************************************)
(* What executing a plan promises, without layers, tasks or cancellation:  *)
(* steps are resolved in groups, each step once and after everything it    *)
(* depends on, a step is skipped exactly when something it depends on did  *)
(* not succeed, and the execution either resolves the whole plan and       *)
(* returns the records of the steps no successful transform stands for, or *)
(* is aborted and returns nothing.                                         *)
(***************************************************************************)
EXTENDS Naturals

CONSTANTS N, Plans

Step == 1 .. N

VARIABLES
  plan,     \* the plan under execution
  status,   \* the status of each step, "pending" before it is resolved
  outcome,  \* "open", "returned" or "aborted"
  answer    \* the steps whose records the execution returned

absVars == <<plan, status, outcome, answer>>

Resolved == {s \in Step : status[s] # "pending"}

\* s was computed from a, directly or through other steps.
Below(a, s) ==
  \A C \in SUBSET Step :
    (plan.deps[s] \subseteq C /\ \A c \in C : plan.deps[c] \subseteq C) => a \in C

AbsInit ==
  /\ plan \in Plans
  /\ status = [s \in Step |-> "pending"]
  /\ outcome = "open"
  /\ answer = {}

\* The status a step may get once everything it depends on is resolved.
Verdicts(s) ==
  IF \A d \in plan.deps[s] : status[d] = "SUCCESS"
  THEN {"SUCCESS", "FAILED", "TIMED_OUT"}
  ELSE {"SKIPPED"}

Resolve(S) ==
  /\ outcome = "open"
  /\ \A s \in S : plan.deps[s] \subseteq Resolved
  /\ \A s \in S : status'[s] \in Verdicts(s)
  /\ \A s \in Step \ S : status'[s] = status[s]
  /\ DOMAIN status' = Step
  /\ UNCHANGED <<plan, outcome, answer>>

Complete ==
  /\ outcome = "open"
  /\ Resolved = Step
  /\ outcome' = "returned"
  /\ answer' = {s \in Step :
                  /\ status[s] = "SUCCESS"
                  /\ \A t \in plan.internal : status[t] = "SUCCESS" => ~Below(s, t)}
  /\ UNCHANGED <<plan, status>>

Abort ==
  /\ outcome = "open"
  /\ outcome' = "aborted"
  /\ UNCHANGED <<plan, status, answer>>

AbsNext ==
  \/ \E S \in SUBSET (Step \ Resolved) : Resolve(S)
  \/ Complete
  \/ Abort

AbsSpec == AbsInit /\ [][AbsNext]_absVars

=============================================================================
