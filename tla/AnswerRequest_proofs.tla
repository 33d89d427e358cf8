-------------------------- MODULE AnswerRequest_proofs --------------------------
(***************************************************************************)
(* Proofs about QueryExecutor, and about the AnswerRequest that drives it, *)
(* for every number of steps, every set of plans and every set of          *)
(* deployments.  Of the executor, IInv is inductive; its safety properties *)
(* and the refinement of PlanExecution follow from it.  A request runs an  *)
(* execution of QueryExecutor, so what is proved of the executor holds of  *)
(* it; StageInv and ReplyInv tie the stage of the request to the executor  *)
(* and to what was sent.                                                   *)
(***************************************************************************)
EXTENDS AnswerRequest, WellFoundedInduction, TLAPS

(* The executor. *)

\* The state functions that almost every step below has to expand.
USE DEF Status, InFlight, WorkState, Fault, Recorded, Pending

-----------------------------------------------------------------------------
\* Every variable keeps its type, for every N and every set of plans.
LEMMA TypeInit == Init => TypeOK
  BY PlansAssumption DEF Init, TypeOK

\* No step, of main or of a task, takes a variable out of its type.
LEMMA TypeStep == TypeOK /\ [Next]_vars => TypeOK'
<1> SUFFICES ASSUME TypeOK, [Next]_vars PROVE TypeOK'
  OBVIOUS
<1> USE DEF TypeOK
<1>1. CASE SelectLayer
  <2>1. ReadySteps \subseteq Step
    BY DEF ReadySteps
  <2>2. work' \in [Step -> WorkState]
    BY <1>1 DEF SelectLayer
  <2> QED BY <1>1, <2>1, <2>2 DEF SelectLayer
<1>2. CASE RecordLayer
  BY <1>2 DEF RecordLayer
<1>3. CASE Return
  BY <1>3 DEF Return, FinalSteps
<1>4. CASE RaiseNonExecutable
  BY <1>4 DEF RaiseNonExecutable
<1>5. CASE ObserveError
  BY <1>5 DEF ObserveError, CancelTasks
<1>6. CASE Raise
  BY <1>6 DEF Raise
<1>7. CASE \E s \in Step : StepTask(s)
  BY <1>7 DEF StepTask, StepSucceeds, StepFails, StepTimesOut, StepRaises,
              StepUnwinds, TaskEnds
<1>8. CASE Cancel
  BY <1>8 DEF Cancel, CancelTasks
<1>9. CASE UNCHANGED vars
  BY <1>9 DEF vars
<1> QED BY <1>1, <1>2, <1>3, <1>4, <1>5, <1>6, <1>7, <1>8, <1>9 DEF Next, Main, Done

\* Type correctness of executor.py's state, for every N and every set of plans.
THEOREM TypeCorrect == Spec => []TypeOK
  BY TypeInit, TypeStep, PTL DEF Spec

-----------------------------------------------------------------------------
\* Every nonempty set of naturals has a least member.
LEMMA LeastNatural ==
  ASSUME NEW T \in SUBSET Nat, T # {}
  PROVE  \E m \in T : \A n \in T : m <= n
<1> DEFINE R == OpToRel(<, Nat)
<1>1. IsWellFoundedOn(R, Nat)
  BY NatLessThanWellFounded
<1>2. PICK m \in T : \A n \in T : ~ (<<n, m>> \in R)
  BY <1>1, WFMin, Zenon
<1>3. \A n \in T : ~ (n < m)
  BY <1>2 DEF OpToRel
<1> QED BY <1>3

-----------------------------------------------------------------------------
\* The inductive invariant holds initially.
LEMMA InvInit == Init => IInv
<1> SUFFICES ASSUME Init PROVE IInv
  OBVIOUS
<1>1. TypeOK
  BY TypeInit
<1>2. WorkMatchesResults /\ SkippedIffDependencyFailed /\ MainMatchesWork
  BY DEF Init, WorkMatchesResults, SkippedIffDependencyFailed, MainMatchesWork
<1>3. LayersAreTight
  BY DEF Init, LayersAreTight
<1> QED BY <1>1, <1>2, <1>3 DEF IInv

\* Selecting a layer preserves the invariant.
LEMMA InvSelectLayer == IInv /\ SelectLayer => IInv'
<1> SUFFICES ASSUME IInv, SelectLayer PROVE IInv'
  OBVIOUS
<1> USE DEF IInv, TypeOK
<1>1. TypeOK'
  BY TypeStep DEF Next, Main
<1>2. /\ ReadySteps \subseteq Pending
      /\ ready' = ReadySteps
      /\ ready = {}
      /\ Pending' = Pending /\ Recorded' = Recorded
      /\ \A s \in Step : FailedDeps(s)' = FailedDeps(s)
  BY DEF SelectLayer, ReadySteps, FailedDeps, MainMatchesWork
<1>3. \A s \in Step :
        /\ s \notin ReadySteps => work'[s] = work[s]
        /\ s \in ReadySteps /\ FailedDeps(s) = {} => work'[s] = "running"
        /\ s \in ReadySteps /\ FailedDeps(s) # {} => work'[s] = "SKIPPED"
  BY DEF SelectLayer
<1>4. WorkMatchesResults'
  BY <1>2, <1>3 DEF WorkMatchesResults, SelectLayer
<1>5. SkippedIffDependencyFailed'
  <2> SUFFICES ASSUME NEW s \in (Recorded \cup ReadySteps)
               PROVE  /\ plan.deps[s] \subseteq Recorded
                      /\ work'[s] = "SKIPPED" <=> FailedDeps(s) # {}
    BY <1>2 DEF SkippedIffDependencyFailed, SelectLayer
  <2>1. CASE s \in Recorded
    BY <2>1, <1>2, <1>3 DEF SkippedIffDependencyFailed
  <2>2. CASE s \in ReadySteps
    BY <2>2, <1>2, <1>3 DEF ReadySteps
  <2> QED BY <2>1, <2>2
<1>6. MainMatchesWork'
  BY <1>2, <1>3 DEF MainMatchesWork, SelectLayer, WorkMatchesResults
<1>7. LayersAreTight'
  <2>1. \A s \in Recorded :
          /\ \A d \in plan.deps[s] : recordedIn[d] < recordedIn[s]
          /\ recordedIn[s] = 1 \/ \E d \in plan.deps[s] : recordedIn[s] = recordedIn[d] + 1
    BY <1>2 DEF LayersAreTight
  <2>2. ASSUME NEW s \in ReadySteps
        PROVE  /\ \A d \in plan.deps[s] : recordedIn[d] < round + 1
               /\ round + 1 = 1 \/ \E d \in plan.deps[s] : round + 1 = recordedIn[d] + 1
    <3>1. plan.deps[s] \subseteq Recorded /\ s \in Pending
      BY DEF ReadySteps
    <3>2. \A d \in plan.deps[s] : recordedIn[d] \in 1 .. round
      BY <3>1 DEF LayersAreTight
    <3>3. round = 0 \/ \E d \in plan.deps[s] : recordedIn[d] = round
      BY <3>1 DEF LayersAreTight, SelectLayer
    <3> QED BY <3>1, <3>2, <3>3
  <2>3. \A s \in Pending \ ReadySteps : plan.deps[s] \cap Pending # {}
    BY PlansAssumption DEF ReadySteps, PlanType
  <2>4. \A s \in Recorded : s \notin ReadySteps
    BY <1>2
  <2>5. main' = "gather" /\ UNCHANGED <<plan, round, recordedIn>>
    BY DEF SelectLayer
  <2>6. /\ \A s \in Recorded : recordedIn[s] \in 1 .. round
        /\ \A s \in Pending : recordedIn[s] = 0
    BY DEF LayersAreTight
  <2> QED BY <1>2, <2>1, <2>2, <2>3, <2>4, <2>5, <2>6 DEF LayersAreTight
<1> QED BY <1>1, <1>4, <1>5, <1>6, <1>7

\* Recording a layer preserves the invariant.
LEMMA InvRecordLayer == IInv /\ RecordLayer => IInv'
<1> SUFFICES ASSUME IInv, RecordLayer PROVE IInv'
  OBVIOUS
<1> USE DEF IInv, TypeOK
<1>1. TypeOK'
  BY TypeStep DEF Next, Main
<1>2. /\ ready \subseteq Pending
      /\ ready' = {}
      /\ \A s \in ready : work[s] \in Status /\ results'[s] = work[s] /\ recordedIn'[s] = round + 1
      /\ \A s \in Step \ ready : results'[s] = results[s] /\ recordedIn'[s] = recordedIn[s]
      /\ main = "gather" /\ main' = "select" /\ round' = round + 1
      /\ UNCHANGED <<plan, work, fault, final>>
  BY DEF RecordLayer, WorkMatchesResults
<1>3. Recorded' = Recorded \cup ready /\ Pending' = Pending \ ready
  BY <1>2
<1>4. WorkMatchesResults'
  BY <1>2, <1>3 DEF WorkMatchesResults
<1>5. SkippedIffDependencyFailed'
  <2> SUFFICES ASSUME NEW s \in (Recorded \cup ready)
               PROVE  /\ plan.deps[s] \subseteq Recorded'
                      /\ work[s] = "SKIPPED" <=> FailedDeps(s)' # {}
    BY <1>2, <1>3 DEF SkippedIffDependencyFailed
  <2>1. plan.deps[s] \subseteq Recorded /\ (work[s] = "SKIPPED" <=> FailedDeps(s) # {})
    BY DEF SkippedIffDependencyFailed
  <2>2. FailedDeps(s)' = FailedDeps(s)
    BY <1>2, <2>1 DEF FailedDeps
  <2> QED BY <1>3, <2>1, <2>2
<1>6. MainMatchesWork'
  BY <1>2, <1>3 DEF MainMatchesWork, WorkMatchesResults
<1>7. LayersAreTight'
  <2>1. /\ \A s \in Recorded' : recordedIn'[s] \in 1 .. (round + 1)
        /\ \A s \in Pending' : recordedIn'[s] = 0
    BY <1>2, <1>3 DEF LayersAreTight
  <2>2. ASSUME NEW s \in (Recorded \cup ready)
        PROVE  /\ \A d \in plan.deps[s] : recordedIn'[d] < recordedIn'[s]
               /\ \/ recordedIn'[s] = 1
                  \/ \E d \in plan.deps[s] : recordedIn'[s] = recordedIn'[d] + 1
    <3> DEFINE layer == IF s \in ready THEN round + 1 ELSE recordedIn[s]
    <3>1. /\ \A d \in plan.deps[s] : recordedIn[d] < layer
          /\ layer = 1 \/ \E d \in plan.deps[s] : layer = recordedIn[d] + 1
      BY DEF LayersAreTight
    <3>2. recordedIn'[s] = layer
      BY <1>2
    <3>3. \A d \in plan.deps[s] : recordedIn'[d] = recordedIn[d]
      BY <1>2 DEF SkippedIffDependencyFailed
    <3> QED BY <3>1, <3>2, <3>3
  <2>3. ASSUME NEW s \in Pending'
        PROVE  \E d \in plan.deps[s] : d \in Pending' \/ recordedIn'[d] = round + 1
    <3>1. PICK d \in plan.deps[s] : d \in Pending
      BY <1>2, <1>3 DEF LayersAreTight
    <3> QED BY <1>2, <1>3, <3>1
  <2> QED BY <1>2, <1>3, <2>1, <2>2, <2>3 DEF LayersAreTight
<1> QED BY <1>1, <1>4, <1>5, <1>6, <1>7

\* The ends of an execution preserve the invariant.
LEMMA InvEnd == IInv /\ (Return \/ RaiseNonExecutable \/ Raise) => IInv'
<1> SUFFICES ASSUME IInv, Return \/ RaiseNonExecutable \/ Raise PROVE IInv'
  OBVIOUS
<1> USE DEF IInv, TypeOK
<1>1. TypeOK'
  BY TypeStep DEF Next, Main
<1>2. UNCHANGED <<plan, results, round, recordedIn, ready, work>>
  BY DEF Return, RaiseNonExecutable, Raise
<1>3. main' \in {"returned", "raised"}
  BY DEF Return, RaiseNonExecutable, Raise
<1>4. WorkMatchesResults' /\ SkippedIffDependencyFailed'
  BY <1>2 DEF WorkMatchesResults, SkippedIffDependencyFailed, FailedDeps
<1>5. MainMatchesWork'
  <2>1. CASE Return
    BY <2>1, <1>2 DEF MainMatchesWork, Return, FinalSteps, Superseded
  <2>2. CASE RaiseNonExecutable
    BY <2>2, <1>2 DEF MainMatchesWork, RaiseNonExecutable, ReadySteps, WorkMatchesResults
  <2>3. CASE Raise
    <3>1. \A s \in Step : work[s] \notin InFlight
      BY <2>3 DEF Raise, WorkMatchesResults
    <3> QED BY <2>3, <3>1, <1>2 DEF MainMatchesWork, Raise, Tasks
  <2> QED BY <2>1, <2>2, <2>3
<1>6. LayersAreTight'
  BY <1>2, <1>3 DEF LayersAreTight
<1> QED BY <1>1, <1>4, <1>5, <1>6

\* A step of a task preserves the invariant.
LEMMA InvStepTask ==
  ASSUME IInv, NEW t \in Step, StepTask(t)
  PROVE  IInv'
<1> USE DEF IInv, TypeOK
<1>1. TypeOK'
  BY TypeStep DEF Next
<1>2. PICK outcome \in {"SUCCESS", "FAILED", "TIMED_OUT", "raised", "cancelled"} :
        /\ work' = [work EXCEPT ![t] = outcome]
        /\ \/ work[t] = "cancelling" /\ outcome = "cancelled"
           \/ work[t] = "running" /\ outcome # "cancelled"
  BY DEF StepTask, StepSucceeds, StepFails, StepTimesOut, StepRaises, StepUnwinds, TaskEnds
<1>3. UNCHANGED <<plan, results, round, recordedIn, ready, main, fault, final>>
  BY DEF StepTask, StepSucceeds, StepFails, StepTimesOut, StepRaises, StepUnwinds, TaskEnds
<1>4. Recorded' = Recorded /\ Pending' = Pending
      /\ \A s \in Step : FailedDeps(s)' = FailedDeps(s)
  BY <1>3 DEF FailedDeps
<1>5. t \in ready
  BY <1>2 DEF WorkMatchesResults
<1>6. WorkMatchesResults'
  BY <1>2, <1>3, <1>4, <1>5 DEF WorkMatchesResults
<1>7. SkippedIffDependencyFailed'
  BY <1>2, <1>3, <1>4 DEF SkippedIffDependencyFailed
<1>8. MainMatchesWork'
  <2>1. main \in {"gather", "drain"}
    BY <1>2, <1>5 DEF MainMatchesWork
  <2>2. Tasks # {} => Tasks' # {}
    BY <1>2, <1>3, <1>5 DEF Tasks
  <2>3. (\E s \in Step : work[s] = "raised") => \E s \in Step : work'[s] = "raised"
    BY <1>2
  <2> QED BY <1>2, <1>3, <1>4, <2>1, <2>2, <2>3 DEF MainMatchesWork
<1>9. LayersAreTight'
  BY <1>3, <1>4 DEF LayersAreTight
<1> QED BY <1>1, <1>6, <1>7, <1>8, <1>9

\* Cancelling the tasks of the layer, for either reason, preserves the
\* invariant.
LEMMA InvCancelTasks == IInv /\ (ObserveError \/ Cancel) => IInv'
<1> SUFFICES ASSUME IInv, ObserveError \/ Cancel PROVE IInv'
  OBVIOUS
<1> USE DEF IInv, TypeOK
<1>1. TypeOK'
  BY TypeStep DEF Next, Main
<1>2. /\ \A s \in Step : work[s] = "running" => work'[s] = "cancelling"
      /\ \A s \in Step : work[s] # "running" => work'[s] = work[s]
      /\ main' = "drain" /\ main \in {"gather", "drain"}
      /\ fault' \in {"programmer", "cancelled"}
      /\ UNCHANGED <<plan, results, round, recordedIn, ready, final>>
  BY DEF ObserveError, Cancel, CancelTasks
<1>3. Recorded' = Recorded /\ Pending' = Pending
      /\ \A s \in Step : FailedDeps(s)' = FailedDeps(s)
  BY <1>2 DEF FailedDeps
<1>4. WorkMatchesResults'
  BY <1>2, <1>3 DEF WorkMatchesResults
<1>5. SkippedIffDependencyFailed'
  BY <1>2, <1>3 DEF SkippedIffDependencyFailed
<1>6. MainMatchesWork'
  <2>1. Tasks # {}
    BY DEF Tasks, ObserveError, Cancel
  <2>2. Tasks' # {}
    BY <2>1, <1>2 DEF Tasks
  <2>3. fault' = "programmer" => \E s \in Step : work'[s] = "raised"
    BY <1>2 DEF ObserveError, Cancel
  <2> QED BY <1>2, <1>3, <2>2, <2>3 DEF MainMatchesWork
<1>7. LayersAreTight'
  BY <1>2, <1>3 DEF LayersAreTight
<1> QED BY <1>1, <1>4, <1>5, <1>6, <1>7

\* The inductive invariant speaks of the variables only.
LEMMA InvStutter == IInv /\ UNCHANGED vars => IInv'
  BY DEF IInv, vars, TypeOK, WorkMatchesResults, SkippedIffDependencyFailed,
         FailedDeps, MainMatchesWork, Tasks, ReadySteps, FinalSteps, Superseded,
         LayersAreTight

\* IInv, which ties the recorded results to the layer in progress, holds
\* throughout every execution.
THEOREM Invariance == Spec => []IInv
<1>1. IInv /\ [Next]_vars => IInv'
  BY InvSelectLayer, InvRecordLayer, InvEnd, InvStepTask, InvCancelTasks, InvStutter
     DEF Next, Main, Done
<1> QED BY InvInit, <1>1, PTL DEF Spec

-----------------------------------------------------------------------------
\* Tasks are created only for steps all of whose inputs are recorded.
THEOREM TasksHaveInputsCorrect == Spec => []TasksHaveInputs
<1>1. IInv => TasksHaveInputs
  <2> SUFFICES ASSUME IInv, NEW s \in Step, work[s] \notin {"idle", "SKIPPED"}
               PROVE  \A d \in plan.deps[s] : results[d] = "SUCCESS"
    BY DEF TasksHaveInputs
  <2>1. s \in Recorded \cup ready
    BY DEF IInv, WorkMatchesResults
  <2> QED BY <2>1 DEF IInv, SkippedIffDependencyFailed, FailedDeps
<1> QED BY Invariance, <1>1, PTL

\* No execution, however it ends, leaves one of its tasks running.
THEOREM NoTaskOutlivesExecutionCorrect == Spec => []NoTaskOutlivesExecution
<1>1. IInv => NoTaskOutlivesExecution
  <2> SUFFICES ASSUME IInv, Stopped, NEW s \in Step PROVE work[s] \notin InFlight
    BY DEF NoTaskOutlivesExecution
  <2>1. CASE main = "returned"
    BY <2>1 DEF IInv, TypeOK, MainMatchesWork, WorkMatchesResults
  <2>2. CASE main = "raised"
    BY <2>2 DEF IInv, MainMatchesWork
  <2> QED BY <2>1, <2>2 DEF Stopped
<1> QED BY Invariance, <1>1, PTL

\* A programmer error or a cancellation is never turned into a result.
THEOREM FaultsAreNotHiddenCorrect == Spec => []FaultsAreNotHidden
<1>1. IInv => FaultsAreNotHidden
  <2> SUFFICES ASSUME IInv PROVE FaultsAreNotHidden
    OBVIOUS
  <2> USE DEF IInv, TypeOK, MainMatchesWork, WorkMatchesResults
  <2>1. main = "returned" =>
          fault = "none" /\ \A s \in Step : work[s] = results[s] /\ work[s] \in Status
    OBVIOUS
  <2>2. CASE main = "raised"
    <3>1. fault = "non_executable" => \A s \in Step : work[s] \in Status \cup {"idle"}
      BY <2>2
    <3> QED BY <2>2, <3>1 DEF FaultsAreNotHidden
  <2> QED BY <2>1, <2>2 DEF FaultsAreNotHidden
<1> QED BY Invariance, <1>1, PTL

\* The layer of a result is its depth in the plan, whatever the timing.
THEOREM LayerIsDepthCorrect == Spec => []LayerIsDepth
<1>1. IInv => LayerIsDepth
  <2> SUFFICES ASSUME IInv, NEW s \in Recorded
               PROVE  /\ \A d \in plan.deps[s] : recordedIn[d] < recordedIn[s]
                      /\ \/ recordedIn[s] = 1
                         \/ \E d \in plan.deps[s] : recordedIn[s] = recordedIn[d] + 1
    BY DEF LayerIsDepth
  <2>1. s \notin ready
    BY DEF IInv, WorkMatchesResults
  <2> QED BY <2>1 DEF IInv, LayersAreTight
<1> QED BY Invariance, <1>1, PTL

\* The executor raises "non-executable" on plans with a cycle only, and a plan
\* it completes has none.
THEOREM StopsOnCyclesOnlyCorrect == Spec => []StopsOnCyclesOnly
<1>1. ASSUME IInv, fault = "non_executable" PROVE ~Acyclic(plan.deps)
  <2>1. Pending # {} /\ ReadySteps = {}
    BY <1>1 DEF IInv, MainMatchesWork
  <2>2. plan.deps \in [Step -> SUBSET Step]
    BY <1>1, PlansAssumption DEF IInv, TypeOK, PlanType
  <2>3. \A s \in Pending : plan.deps[s] \cap Pending # {}
    BY <2>1, <2>2 DEF ReadySteps
  <2> QED BY <2>1, <2>3 DEF Acyclic
<1>2. ASSUME IInv, main = "returned" PROVE Acyclic(plan.deps)
  <2> SUFFICES ASSUME NEW C \in (SUBSET Step) \ {{}}
               PROVE  \E s \in C : plan.deps[s] \cap C = {}
    BY DEF Acyclic
  <2>1. /\ Recorded = Step
        /\ ready = {}
    BY <1>2 DEF IInv, TypeOK, MainMatchesWork
  <2>2. {recordedIn[s] : s \in C} \in SUBSET Nat /\ {recordedIn[s] : s \in C} # {}
    BY <1>2 DEF IInv, TypeOK
  <2>3. PICK m \in {recordedIn[s] : s \in C} : \A n \in {recordedIn[s] : s \in C} : m <= n
    BY <2>2, LeastNatural, Zenon
  <2>4. PICK s \in C : m = recordedIn[s]
    BY <2>3
  <2>5. \A d \in plan.deps[s] : d \in Step /\ recordedIn[d] < recordedIn[s]
    <3>1. s \in Recorded
      BY <2>1
    <3>2. plan.deps[s] \subseteq Step
      BY <1>2, <3>1 DEF IInv, SkippedIffDependencyFailed
    <3>3. \A d \in plan.deps[s] : recordedIn[d] < recordedIn[s]
      BY <1>2, <2>1, <3>1 DEF IInv, LayersAreTight
    <3> QED BY <3>2, <3>3
  <2>6. \A d \in C : recordedIn[s] <= recordedIn[d]
    BY <2>3, <2>4
  <2>7. \A d \in plan.deps[s] : d \notin C
    BY <2>5, <2>6, <1>2 DEF IInv, TypeOK
  <2> QED BY <2>4, <2>7
<1>3. IInv => StopsOnCyclesOnly
  BY <1>1, <1>2 DEF StopsOnCyclesOnly
<1> QED BY Invariance, <1>3, PTL

-----------------------------------------------------------------------------
\* The ancestors of a step contain its dependencies, are closed under
\* dependencies, and are the least such set.
LEMMA AncestorsClosed ==
  ASSUME NEW deps \in [Step -> SUBSET Step], NEW s \in Step
  PROVE  /\ deps[s] \subseteq Ancestors(deps, s)
         /\ \A a \in Ancestors(deps, s) : deps[a] \subseteq Ancestors(deps, s)
  BY DEF Ancestors

\* Ancestors is the least such set.
LEMMA AncestorsLeast ==
  ASSUME NEW deps \in [Step -> SUBSET Step], NEW s \in Step,
         NEW C \in SUBSET Step, deps[s] \subseteq C, \A c \in C : deps[c] \subseteq C
  PROVE  Ancestors(deps, s) \subseteq C
  BY DEF Ancestors

\* Being an ancestor is transitive.
LEMMA AncestorsTransitive ==
  ASSUME NEW deps \in [Step -> SUBSET Step], NEW s \in Step, NEW a \in Ancestors(deps, s)
  PROVE  a \in Step /\ Ancestors(deps, a) \subseteq Ancestors(deps, s)
<1>1. a \in Step /\ Ancestors(deps, s) \in SUBSET Step
  BY DEF Ancestors
<1>2. deps[a] \subseteq Ancestors(deps, s)
      /\ \A c \in Ancestors(deps, s) : deps[c] \subseteq Ancestors(deps, s)
  BY AncestorsClosed
<1> QED BY <1>1, <1>2, AncestorsLeast

\* Everything below a recorded step was recorded in an earlier layer.
LEMMA AncestorsAreEarlier ==
  ASSUME IInv, NEW s \in Recorded
  PROVE  \A a \in Ancestors(plan.deps, s) : a \in Recorded /\ recordedIn[a] < recordedIn[s]
<1> DEFINE Earlier == {a \in Recorded : recordedIn[a] < recordedIn[s]}
<1>1. plan.deps \in [Step -> SUBSET Step] /\ recordedIn \in [Step -> Nat]
  BY PlansAssumption DEF IInv, TypeOK, PlanType
<1>2. \A x \in Recorded : \A d \in plan.deps[x] : d \in Recorded /\ recordedIn[d] < recordedIn[x]
  <2> SUFFICES ASSUME NEW x \in Recorded, NEW d \in plan.deps[x]
               PROVE  d \in Recorded /\ recordedIn[d] < recordedIn[x]
    OBVIOUS
  <2>1. x \notin ready
    BY DEF IInv, WorkMatchesResults
  <2>2. d \in Recorded
    BY DEF IInv, SkippedIffDependencyFailed
  <2>3. recordedIn[d] < recordedIn[x]
    BY <2>1 DEF IInv, LayersAreTight
  <2> QED BY <2>2, <2>3
<1>3. plan.deps[s] \subseteq Earlier
  BY <1>2
<1>4. \A c \in Earlier : plan.deps[c] \subseteq Earlier
  BY <1>1, <1>2
<1>5. Ancestors(plan.deps, s) \subseteq Earlier
  BY <1>1, <1>3, <1>4, AncestorsLeast
<1> QED BY <1>5

\* A recorded step is skipped exactly when something upstream of it failed or
\* timed out.
THEOREM SkippedIffUpstreamFailedCorrect == Spec => []SkippedIffUpstreamFailed
<1>1. ASSUME IInv, NEW s \in Recorded
      PROVE  results[s] = "SKIPPED" <=>
               \E a \in Ancestors(plan.deps, s) : results[a] \in {"FAILED", "TIMED_OUT"}
  <2> DEFINE Upstream(x) == \E a \in Ancestors(plan.deps, x) : results[a] \in {"FAILED", "TIMED_OUT"}
             Odd == {x \in Recorded : results[x] = "SKIPPED" /\ ~Upstream(x)}
             Good == {x \in Recorded : results[x] = "SUCCESS"}
  <2>1. plan.deps \in [Step -> SUBSET Step] /\ recordedIn \in [Step -> Nat]
    BY <1>1, PlansAssumption DEF IInv, TypeOK, PlanType
  <2>2. \A x \in Recorded :
          /\ plan.deps[x] \subseteq Recorded
          /\ results[x] = "SKIPPED" <=> \E d \in plan.deps[x] : results[d] # "SUCCESS"
    BY <1>1 DEF IInv, SkippedIffDependencyFailed, WorkMatchesResults, FailedDeps
  <2>3. ASSUME results[s] # "SKIPPED" PROVE ~Upstream(s)
    <3>1. plan.deps[s] \subseteq Good
      BY <2>2, <2>3
    <3>2. \A c \in Good : plan.deps[c] \subseteq Good
      BY <2>2
    <3>3. Ancestors(plan.deps, s) \subseteq Good
      BY <2>1, <3>1, <3>2, AncestorsLeast
    <3> QED BY <3>3
  <2>4. Odd = {}
    <3> SUFFICES ASSUME Odd # {} PROVE FALSE
      OBVIOUS
    <3> DEFINE Layers == {recordedIn[x] : x \in Odd}
    <3>1. Layers \in SUBSET Nat /\ Layers # {}
      BY <2>1
    <3> HIDE DEF Layers
    <3>2. PICK m \in Layers : \A n \in Layers : m <= n
      BY <3>1, LeastNatural, Zenon
    <3>3. PICK x \in Odd : m = recordedIn[x]
      BY <3>2 DEF Layers
    <3>4. PICK d \in plan.deps[x] : results[d] # "SUCCESS"
      BY <3>3, <2>2
    <3>5. d \in Recorded /\ d \in Ancestors(plan.deps, x)
      BY <3>3, <2>1, <2>2, AncestorsClosed
    <3>6. results[d] = "SKIPPED"
      BY <3>3, <3>4, <3>5, <1>1 DEF IInv, TypeOK
    <3>7. ~Upstream(d)
      BY <3>3, <3>5, <2>1, AncestorsTransitive
    <3>8. recordedIn[d] \in Layers
      BY <3>5, <3>6, <3>7 DEF Layers
    <3>9. recordedIn[d] < recordedIn[x]
      BY <3>3, <3>5, <1>1, AncestorsAreEarlier
    <3>10. m \in Nat /\ recordedIn[d] \in Nat /\ m <= recordedIn[d]
      BY <3>1, <3>2, <3>8
    <3>11. recordedIn[d] < m
      BY <3>3, <3>9
    <3> HIDE DEF Odd
    <3> QED BY <3>10, <3>11
  <2> QED BY <2>3, <2>4
<1>2. IInv => SkippedIffUpstreamFailed
  BY <1>1 DEF SkippedIffUpstreamFailed
<1> QED BY Invariance, <1>2, PTL

\* Every success is in the answer or behind a transform that is, and nothing
\* in the answer is behind a transform that is.
THEOREM SuccessesAreRepresentedCorrect == Spec => []SuccessesAreRepresented
<1>1. ASSUME IInv, main = "returned" PROVE
        /\ \A s \in Step : results[s] = "SUCCESS" =>
             \/ s \in final
             \/ \E t \in final \cap plan.internal : s \in Ancestors(plan.deps, t)
        /\ \A t \in final \cap plan.internal : Ancestors(plan.deps, t) \cap final = {}
  <2>1. /\ plan.deps \in [Step -> SUBSET Step] /\ plan.internal \subseteq Step
        /\ recordedIn \in [Step -> Nat] /\ round \in Nat
    BY <1>1, PlansAssumption DEF IInv, TypeOK, PlanType
  <2>2. Recorded = Step /\ final = FinalSteps
    BY <1>1 DEF IInv, TypeOK, MainMatchesWork
  <2>3. \A s \in Step : recordedIn[s] <= round
    BY <1>1, <2>1, <2>2 DEF IInv, LayersAreTight
  <2>4. ASSUME NEW s \in Step, results[s] = "SUCCESS", s \notin final
        PROVE  \E t \in final \cap plan.internal : s \in Ancestors(plan.deps, t)
    <3> DEFINE Late == {t \in plan.internal :
                          results[t] = "SUCCESS" /\ s \in Ancestors(plan.deps, t)}
               Rest == {round - recordedIn[t] : t \in Late}
    <3>1. Late # {}
      BY <2>2, <2>4 DEF FinalSteps, Superseded
    <3>2. Rest \in SUBSET Nat /\ Rest # {}
      BY <3>1, <2>1, <2>3
    <3> HIDE DEF Rest
    <3>3. PICK m \in Rest : \A n \in Rest : m <= n
      BY <3>2, LeastNatural, Zenon
    <3>4. PICK t \in Late : m = round - recordedIn[t]
      BY <3>3 DEF Rest
    <3>5. ASSUME NEW u \in plan.internal, results[u] = "SUCCESS", t \in Ancestors(plan.deps, u)
          PROVE  FALSE
      <4>1. u \in Late
        BY <3>4, <3>5, <2>1, AncestorsTransitive
      <4>2. recordedIn[t] < recordedIn[u]
        BY <3>5, <1>1, <2>1, <2>2, AncestorsAreEarlier
      <4>3. round - recordedIn[t] <= round - recordedIn[u]
        BY <3>3, <3>4, <4>1 DEF Rest
      <4> QED BY <3>4, <4>1, <4>2, <4>3, <2>1
    <3>6. t \in final
      BY <3>4, <3>5, <2>1, <2>2 DEF FinalSteps, Superseded
    <3> QED BY <3>4, <3>6
  <2>5. ASSUME NEW t \in final \cap plan.internal, NEW a \in Ancestors(plan.deps, t)
        PROVE  a \notin final
    BY <2>2 DEF FinalSteps, Superseded, Ancestors
  <2> QED BY <2>4, <2>5
<1>2. IInv => SuccessesAreRepresented
  BY <1>1 DEF SuccessesAreRepresented
<1> QED BY Invariance, <1>2, PTL

-----------------------------------------------------------------------------
\* Recording a layer is one group resolution of the abstract execution.
LEMMA RecordLayerResolves == IInv /\ RecordLayer => Abstract!Resolve(ready)
<1> SUFFICES ASSUME IInv, RecordLayer PROVE Abstract!Resolve(ready)
  OBVIOUS
<1> USE DEF IInv, TypeOK, Abstract!Step, Step
<1>1. Outcome = "open" /\ UNCHANGED <<plan, Outcome, final>>
  BY DEF RecordLayer, Outcome
<1>2. \A s \in ready : plan.deps[s] \subseteq Abstract!Resolved
  BY DEF SkippedIffDependencyFailed, Abstract!Resolved
<1>3. ASSUME NEW s \in ready PROVE results'[s] \in Abstract!Verdicts(s)
  <2>1. results'[s] = work[s] /\ work[s] \in Status
    BY DEF RecordLayer
  <2>2. work[s] = "SKIPPED" <=> ~ \A d \in plan.deps[s] : results[d] = "SUCCESS"
    BY DEF SkippedIffDependencyFailed, FailedDeps
  <2> QED BY <2>1, <2>2 DEF Abstract!Verdicts
<1>4. \A s \in Step \ ready : results'[s] = results[s]
  BY DEF RecordLayer
<1>5. DOMAIN results' = Step
  BY DEF RecordLayer
<1> QED BY <1>1, <1>2, <1>3, <1>4, <1>5 DEF Abstract!Resolve

\* The end of an execution that returns completes the abstract one.
LEMMA ReturnCompletes == IInv /\ Return => Abstract!Complete
<1> SUFFICES ASSUME IInv, Return PROVE Abstract!Complete
  OBVIOUS
<1> USE DEF Abstract!Step, Step
<1>1. /\ Outcome = "open" /\ Outcome' = "returned"
      /\ UNCHANGED <<plan, results>>
  BY DEF Return, Outcome
<1>2. Abstract!Resolved = Abstract!Step
  BY DEF Return, Abstract!Resolved
<1>3. plan.internal \subseteq Step
  BY PlansAssumption DEF IInv, TypeOK, PlanType
<1>4. ASSUME NEW s \in Step
      PROVE  s \in FinalSteps <=>
               /\ results[s] = "SUCCESS"
               /\ \A t \in plan.internal : results[t] = "SUCCESS" => ~Abstract!Below(s, t)
  <2>1. \A t \in Step : s \in Ancestors(plan.deps, t) <=> Abstract!Below(s, t)
    BY DEF Ancestors, Abstract!Below
  <2> QED BY <2>1, <1>3 DEF FinalSteps, Superseded
<1>5. final' = FinalSteps /\ FinalSteps \subseteq Step
  BY DEF Return, FinalSteps
<1> QED BY <1>1, <1>2, <1>4, <1>5 DEF Abstract!Complete

\* The executor implements the abstract plan execution.
THEOREM Refinement == Spec => ImplementsPlanExecution
<1>1. Init => Abstract!AbsInit
  BY DEF Init, Abstract!AbsInit, Outcome, Abstract!Step, Step
<1>2. ASSUME IInv, [Next]_vars PROVE [Abstract!AbsNext]_(Abstract!absVars)
  <2> USE DEF Abstract!absVars, Outcome
  <2>1. CASE RecordLayer
    <3>1. ready \in SUBSET (Abstract!Step \ Abstract!Resolved)
      BY <1>2 DEF IInv, WorkMatchesResults, Abstract!Step, Abstract!Resolved, Step
    <3> QED BY <1>2, <2>1, <3>1, RecordLayerResolves DEF Abstract!AbsNext
  <2>2. CASE Return
    BY <1>2, <2>2, ReturnCompletes DEF Abstract!AbsNext
  <2>3. CASE RaiseNonExecutable
    BY <2>3 DEF RaiseNonExecutable, Abstract!AbsNext, Abstract!Abort
  <2>4. CASE Raise
    BY <2>4 DEF Raise, Abstract!AbsNext, Abstract!Abort
  <2>5. CASE SelectLayer
    BY <2>5 DEF SelectLayer
  <2>6. CASE ObserveError \/ Cancel
    BY <2>6 DEF ObserveError, Cancel
  <2>7. CASE \E s \in Step : StepTask(s)
    BY <2>7 DEF StepTask, StepSucceeds, StepFails, StepTimesOut, StepRaises,
                StepUnwinds, TaskEnds
  <2>8. CASE UNCHANGED vars
    BY <2>8 DEF vars
  <2> QED BY <1>2, <2>1, <2>2, <2>3, <2>4, <2>5, <2>6, <2>7, <2>8 DEF Next, Main, Done
<1> QED BY <1>1, <1>2, Invariance, PTL DEF Spec, ImplementsPlanExecution, Abstract!AbsSpec


(* The request. *)

-----------------------------------------------------------------------------
\* A step of the request is a step of its executor, or leaves it alone.
LEMMA RequestStepsExecutor == [RequestNext]_reqVars => [Next]_vars
<1> SUFFICES ASSUME [RequestNext]_reqVars PROVE [Next]_vars
  OBVIOUS
<1>1. CASE Pipeline
  BY <1>1 DEF Pipeline, Analyze, ParseAccepted, ParseRepaired, ParseFailed, Resolved,
              ResolutionFailed, Validate, Written, WriteFailed, InternalError, Unwound
<1>2. CASE Execute
  BY <1>2 DEF Execute, Next
<1>3. CASE Deadline \/ Shutdown
  BY <1>3 DEF Deadline, DeadlineDuring, Shutdown, Next
<1>4. CASE Over \/ UNCHANGED reqVars
  BY <1>4 DEF Over, reqVars
<1> QED BY <1>1, <1>2, <1>3, <1>4 DEF RequestNext

\* A request drives an execution of the executor, whole and unchanged
\* (service.py's await of execute_with_result).
THEOREM RequestRunsExecutor == RequestSpec => Spec
<1>1. RequestInit => Init
  BY DEF RequestInit
<1> QED BY <1>1, RequestStepsExecutor, PTL DEF RequestSpec, Spec

-----------------------------------------------------------------------------
\* Where the executor is, and what has struck, at each stage of the request.
StageInv ==
  /\ at \in {"analyze", "parse", "resolve"} => main = "select"
  /\ at = "write" => main = "returned" /\ NoBlockingFinding
  /\ at \in {"analyze", "parse", "resolve", "write"} => ~expired /\ ~shutdown
  /\ at = "execute" => (expired \/ shutdown <=> fault = "cancelled")
  /\ at \in Ended => main \in {"select", "returned", "raised"}

\* What was counted and sent at each stage.
ReplyInv ==
  /\ at # "replied" => reply = NoReply
  /\ reply.status \in Answered =>
       main = "returned" /\ NoBlockingFinding /\ (posts.parse > 0 => verdict = "accepted")

\* How the requests sent show in what the code keeps: in the attempt while the
\* parser LLM is asked, in the provenance once there is a parse, and nowhere
\* but in where the request is for the answer call.
CallsInv ==
  /\ at = "analyze" => posts.parse = 0 /\ posts.repair = 0 /\ attempt = 0
  /\ at \in {"analyze", "parse", "resolve", "execute"} => posts.answer = 0
  /\ at = "parse" => posts.parse = 1 /\ posts.repair = attempt
  /\ at \in {"analyze", "resolve", "execute", "write"} =>
       /\ provenance.calls = posts.parse + posts.repair
       /\ provenance.repairs = posts.repair
  /\ at \in {"resolve", "execute", "write"} => (posts.parse > 0 => verdict = "accepted")
  /\ at = "write" => posts.answer = 1 /\ config.writer

RequestInv ==
  /\ RequestTypeOK
  /\ StageInv
  /\ ReplyInv
  /\ CallsInv
  /\ FaultsReachTheClient
  /\ ReportedCallsAreReal

\* The initial states satisfy it.
LEMMA RequestInvInit == RequestInit => RequestInv
<1> SUFFICES ASSUME RequestInit PROVE RequestInv
  OBVIOUS
<1> USE DEF RequestInit, NoReply, NoSummary, Ended, Answered, Declined, Boundary
<1>1. TypeOK
  BY TypeInit
<1>2. RequestTypeOK
  <2>1. reply \in [status : {"none"} \cup Answered \cup Declined \cup Boundary,
                   http : {0, 200},
                   summary : [parser : -1 .. 2, retries : -1 .. 1, writer : -1 .. 1]]
    OBVIOUS
  <2>2. /\ posts \in [parse : Nat, repair : Nat, answer : Nat]
        /\ attempt \in 0 .. 1 /\ verdict \in Verdict
        /\ provenance \in [calls : 0 .. 2, repairs : 0 .. 1]
    BY DEF Verdict
  <2> QED BY <1>1, <2>1, <2>2 DEF RequestTypeOK
<1>3. main = "select" /\ fault = "none"
  BY DEF Init
<1>4. StageInv /\ ReplyInv /\ CallsInv
  BY <1>3 DEF StageInv, ReplyInv, CallsInv
<1>5. FaultsReachTheClient /\ ReportedCallsAreReal
  BY DEF FaultsReachTheClient, ReportedCallsAreReal
<1> QED BY <1>2, <1>4, <1>5 DEF RequestInv

\* Code between two awaits, and the answers of LLMs and of the registry, keep
\* it: the executor has not begun, or has returned.
LEMMA PipelineKeepsInv ==
  ASSUME RequestInv, IInv, TypeOK',
         \/ Analyze \/ ParseAccepted \/ ParseRepaired \/ ParseFailed
         \/ Resolved \/ ResolutionFailed \/ Written \/ WriteFailed
  PROVE  RequestInv'
<1> USE DEF RequestInv, RequestTypeOK, StageInv, ReplyInv, FaultsReachTheClient,
            ReportedCallsAreReal, NoReply, NoSummary, Ended, Awaiting, Answered, Declined,
            Boundary, Respond, FailedParse, Unconfigured, Summary, Declining, CallsPerAnswer,
            CallsInv, parserVars, NoBlockingFinding
<1>1. CASE Analyze
  BY <1>1 DEF Analyze, vars
<1>2. CASE ParseAccepted
  BY <1>2 DEF ParseAccepted, AcceptedProvenance, Verdict, vars
<1>3. CASE ParseRepaired
  BY <1>3 DEF ParseRepaired, MayRepair, Verdict, vars
<1>4. CASE ParseFailed
  BY <1>4 DEF ParseFailed, Verdict, vars
<1>5. CASE Resolved
  <2>1. CASE at' = "execute" /\ UNCHANGED reply
    <3>1. fault = "none"
      BY <1>5 DEF Resolved, IInv, MainMatchesWork
    <3> QED BY <1>5, <2>1, <3>1 DEF Resolved, vars
  <2>2. CASE Respond("unsupported", Declining)
    BY <1>5, <2>2 DEF Resolved, vars
  <2> QED BY <1>5, <2>1, <2>2 DEF Resolved
<1>6. CASE ResolutionFailed
  BY <1>6 DEF ResolutionFailed, vars
<1>7. CASE Written
  BY <1>7 DEF Written, vars
<1>8. CASE WriteFailed
  BY <1>8 DEF WriteFailed, vars
<1> QED BY <1>1, <1>2, <1>3, <1>4, <1>5, <1>6, <1>7, <1>8

\* A step of the executor while the request awaits it: a cancellation that
\* was delivered stays one until the executor has raised it.
LEMMA ExecuteKeepsInv ==
  ASSUME RequestInv, IInv, TypeOK', Execute
  PROVE  RequestInv'
<1>1. at = "execute" /\ UNCHANGED serviceVars /\ (Main \/ \E s \in Step : StepTask(s))
  BY DEF Execute
<1>2. fault' = "cancelled" <=> fault = "cancelled"
  <2>1. CASE Main
    BY <2>1 DEF Main, SelectLayer, RecordLayer, Return, RaiseNonExecutable, ObserveError,
                Raise, IInv, MainMatchesWork
  <2>2. CASE \E s \in Step : StepTask(s)
    BY <2>2 DEF StepTask, StepSucceeds, StepFails, StepTimesOut, StepRaises, StepUnwinds,
                TaskEnds
  <2> QED BY <1>1, <2>1, <2>2
<1>3. RequestTypeOK'
  BY <1>1 DEF RequestInv, RequestTypeOK, serviceVars, parserVars
<1>4. StageInv'
  BY <1>1, <1>2 DEF RequestInv, StageInv, serviceVars, Ended
<1>5. ReplyInv' /\ CallsInv' /\ FaultsReachTheClient' /\ ReportedCallsAreReal'
  BY <1>1 DEF RequestInv, ReplyInv, CallsInv, FaultsReachTheClient, ReportedCallsAreReal,
              serviceVars, parserVars, Ended, Declined, NoReply, NoSummary, Answered
<1> QED BY <1>3, <1>4, <1>5 DEF RequestInv

\* The executor has returned or raised and the pipeline goes on.
LEMMA AfterExecutionKeepsInv ==
  ASSUME RequestInv, IInv, TypeOK', Validate \/ InternalError \/ Unwound
  PROVE  RequestInv'
<1> USE DEF RequestInv, RequestTypeOK, StageInv, ReplyInv, FaultsReachTheClient,
            ReportedCallsAreReal, NoReply, NoSummary, Ended, Awaiting, Answered, Declined,
            Boundary, Respond, FailedParse, Unconfigured, Summary, Declining, CallsPerAnswer,
            CallsInv, parserVars, NoBlockingFinding
<1>1. CASE Validate
  <2>1. at = "execute" /\ main = "returned" /\ fault = "none"
    BY <1>1 DEF Validate, IInv, MainMatchesWork
  <2>2. CASE Respond("unanswerable", Summary(FALSE, FALSE)) /\ UNCHANGED posts
    BY <1>1, <2>1, <2>2 DEF Validate, vars
  <2>3. CASE NoBlockingFinding /\ Respond("partial", Summary(TRUE, TRUE)) /\ UNCHANGED posts
    BY <1>1, <2>1, <2>3 DEF Validate, vars
  <2>4. CASE NoBlockingFinding /\ ~config.writer /\ Respond("success", Summary(TRUE, FALSE)) /\ UNCHANGED posts
    BY <1>1, <2>1, <2>4 DEF Validate, vars
  <2>5. CASE /\ NoBlockingFinding /\ config.writer /\ at' = "write"
             /\ posts' = [posts EXCEPT !.answer = @ + 1] /\ UNCHANGED reply
    BY <1>1, <2>1, <2>5 DEF Validate, vars
  <2>6. CASE /\ Respond("answer_generation_dependency_failure", NoSummary)
             /\ UNCHANGED posts
    BY <1>1, <2>1, <2>6 DEF Validate, vars
  <2> QED BY <1>1, <2>2, <2>3, <2>4, <2>5, <2>6 DEF Validate
<1>2. CASE InternalError
  <2>1. /\ main \in {"select", "returned", "raised"}
        /\ ~expired /\ ~shutdown
    BY <1>2 DEF InternalError, IInv, MainMatchesWork
  <2> QED BY <1>2, <2>1 DEF InternalError, vars
<1>3. CASE Unwound
  BY <1>3 DEF Unwound, CancelledAt, vars
<1> QED BY <1>1, <1>2, <1>3

\* The timer and a cancellation from outside.
LEMMA CancellingKeepsInv ==
  ASSUME RequestInv, IInv, TypeOK', Deadline \/ Shutdown
  PROVE  RequestInv'
<1> USE DEF RequestInv, RequestTypeOK, StageInv, ReplyInv, FaultsReachTheClient,
            ReportedCallsAreReal, CallsInv, parserVars, NoReply, NoSummary, Ended, Awaiting,
            Answered, Declined, Boundary, Respond
<1>1. CASE Deadline
  BY <1>1 DEF Deadline, DeadlineDuring, CancelledAt, Cancel, vars
<1>2. CASE Shutdown
  BY <1>2 DEF Shutdown, CancelledAt, Cancel, vars
<1> QED BY <1>1, <1>2

\* It holds of every reachable state.
LEMMA RequestInvHolds == RequestSpec => []RequestInv
<1>1. RequestInv /\ IInv /\ TypeOK' /\ [RequestNext]_reqVars => RequestInv'
  <2> SUFFICES ASSUME RequestInv, IInv, TypeOK', [RequestNext]_reqVars PROVE RequestInv'
    OBVIOUS
  <2>1. CASE Pipeline
    BY <2>1, PipelineKeepsInv, AfterExecutionKeepsInv DEF Pipeline
  <2>2. CASE Over \/ UNCHANGED reqVars
    <3>1. UNCHANGED <<vars, serviceVars>>
      BY <2>2 DEF Over, reqVars
    <3> QED BY <3>1 DEF vars, serviceVars, parserVars, RequestInv, RequestTypeOK, StageInv, ReplyInv, CallsInv,
              FaultsReachTheClient, ReportedCallsAreReal, NoBlockingFinding
  <2> QED BY <2>1, <2>2, ExecuteKeepsInv, CancellingKeepsInv DEF RequestNext
<1>2. IInv => TypeOK
  BY DEF IInv
<1> QED BY RequestInvInit, <1>1, <1>2, RequestRunsExecutor, Invariance, PTL DEF RequestSpec

-----------------------------------------------------------------------------
\* Type correctness of a request, for any plans and deployments.
THEOREM RequestTypeCorrect == RequestSpec => []RequestTypeOK
<1>1. RequestInv => RequestTypeOK
  BY DEF RequestInv
<1> QED BY RequestInvHolds, <1>1, PTL

\* Every fault reaches the client as what it is (answer.py:34-76).
THEOREM FaultsReachTheClientCorrect == RequestSpec => []FaultsReachTheClient
<1>1. RequestInv => FaultsReachTheClient
  BY DEF RequestInv
<1> QED BY RequestInvHolds, <1>1, PTL

\* The reported LLM calls are the requests sent (service.py's llm_call_summary),
\* although attempt, provenance and verdict are all the code has to tell them by.
THEOREM ReportedCallsAreRealCorrect == RequestSpec => []ReportedCallsAreReal
<1>1. RequestInv => ReportedCallsAreReal
  BY DEF RequestInv
<1> QED BY RequestInvHolds, <1>1, PTL

\* No task of a request outlives it, whatever ended it.
THEOREM NoTaskOutlivesRequestCorrect == RequestSpec => []NoTaskOutlivesRequest
<1>1. RequestInv /\ IInv => NoTaskOutlivesRequest
  <2> SUFFICES ASSUME RequestInv, IInv, at \in Ended, NEW s \in Step
               PROVE  work[s] \notin InFlight
    BY DEF NoTaskOutlivesRequest
  <2>1. CASE main = "raised"
    BY <2>1 DEF IInv, MainMatchesWork
  <2>2. CASE main \in {"select", "returned"}
    <3>1. ready = {}
      BY <2>2 DEF IInv, MainMatchesWork
    <3>2. s \in Recorded => work[s] \in Status
      BY DEF IInv, WorkMatchesResults, TypeOK, Recorded
    <3>3. s \notin Recorded => work[s] = "idle"
      BY <3>1 DEF IInv, WorkMatchesResults, Pending
    <3> QED BY <3>2, <3>3 DEF InFlight, Status
  <2> QED BY <2>1, <2>2 DEF RequestInv, StageInv
<1> QED BY RequestInvHolds, <1>1, RequestRunsExecutor, Invariance, PTL

\* An answer rests on a complete execution, on no step that a transform stands
\* for, and on no proposal the review rejected.
THEOREM AnswersAreBackedCorrect == RequestSpec => []AnswersAreBacked
<1>1. RequestInv /\ IInv => AnswersAreBacked
  <2> SUFFICES ASSUME RequestInv, IInv, reply.status \in Answered
               PROVE  /\ posts.parse > 0 => verdict = "accepted"
                      /\ main = "returned"
                      /\ \A s \in Step : results[s] = "SUCCESS"
                      /\ \A t \in plan.internal : Ancestors(plan.deps, t) \cap final = {}
    BY DEF AnswersAreBacked
  <2>1. /\ main = "returned" /\ \A s \in Step : results[s] = "SUCCESS"
        /\ posts.parse > 0 => verdict = "accepted"
    BY DEF RequestInv, ReplyInv, NoBlockingFinding
  <2>2. \A t \in plan.internal : Ancestors(plan.deps, t) \cap final = {}
    <3>1. final = FinalSteps
      BY <2>1 DEF IInv, MainMatchesWork
    <3>2. plan.internal \subseteq Step
      BY PlansAssumption DEF IInv, TypeOK, PlanType
    <3>3. \A t \in plan.internal : Ancestors(plan.deps, t) \subseteq Superseded
      BY <2>1, <3>2 DEF Superseded, Ancestors
    <3> QED BY <3>1, <3>3 DEF FinalSteps
  <2> QED BY <2>1, <2>2
<1> QED BY RequestInvHolds, <1>1, RequestRunsExecutor, Invariance, PTL

================================================================================
