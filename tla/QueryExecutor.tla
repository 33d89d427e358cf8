------------------------------ MODULE QueryExecutor ------------------------------
(***************************************************************************)
(* The plan executor: app/execution/executor.py, QueryExecutor.            *)
(*                                                                         *)
(* A plan is a list of retrieval and INTERNAL steps with depends_on edges. *)
(* One coroutine ("main") walks the plan layer by layer: every pending     *)
(* step whose dependencies have a result is ready; a ready step with a     *)
(* dependency that did not succeed is SKIPPED, the others run as asyncio   *)
(* tasks side by side, and the layer's results are recorded only when all  *)
(* of its tasks have finished.  A programmer error in one task, or the     *)
(* cancellation of the request, makes main cancel the tasks that are still *)
(* running and wait for them before it propagates the exception.           *)
(*                                                                         *)
(* Steps are the positions 1..N of the plan's list.  Records are           *)
(* abstracted to the step that produced them: final is the set of steps    *)
(* whose records _collect_final_records returns (they are returned in plan *)
(* order, which the set determines).                                       *)
(***************************************************************************)
EXTENDS Naturals, FiniteSets

CONSTANTS
  N,      \* number of steps of a plan
  Plans   \* the plans a run may start with

Step == 1 .. N

\* QueryPlan: the depends_on of each step, and the steps whose source is
\* RetrievalSource.INTERNAL.
PlanType == [deps : [Step -> SUBSET Step], internal : SUBSET Step]

ASSUME NAssumption == N \in Nat
ASSUME PlansAssumption == Plans \subseteq PlanType

\* StepExecutionStatus.
Status == {"SUCCESS", "FAILED", "TIMED_OUT", "SKIPPED"}

\* What the current layer knows of a step: nothing yet, a task in flight, a
\* task that ended in an exception, or the StepExecutionResult it produced.
InFlight == {"running", "cancelling"}
WorkState == {"idle", "raised", "cancelled"} \cup InFlight \cup Status

\* What execute_with_result is propagating, if anything.
Fault == {"none", "programmer", "cancelled", "non_executable"}

VARIABLES
  plan,        \* the plan under execution, fixed for the whole execution
  results,     \* context.step_results: the recorded status, or "pending"
  round,       \* number of layers recorded so far
  recordedIn,  \* the layer (from 1) in which a step was recorded, 0 before
  ready,       \* the steps of the current layer
  work,        \* layer_results and the tasks of the current layer
  main,        \* where the main coroutine is
  fault,       \* the exception main propagates
  final        \* the steps whose records are returned

vars == <<plan, results, round, recordedIn, ready, work, main, fault, final>>

-----------------------------------------------------------------------------
Recorded == {s \in Step : results[s] # "pending"}
Pending == Step \ Recorded

\* The list comprehension at the top of the while loop.
ReadySteps == {s \in Pending : plan.deps[s] \subseteq Recorded}

\* Fault: SKIPPED is not counted among the failures.
FailedDepsButSkipped(s) == {d \in plan.deps[s] : results[d] \in {"FAILED", "TIMED_OUT"}}

FailedDeps(s) == {d \in plan.deps[s] : results[d] # "SUCCESS"}

\* The steps of the current layer that were given a task.
Tasks == {s \in ready : work[s] # "SKIPPED"}

\* The steps that s depends on, directly or through other steps: the least
\* set that contains the dependencies of s and of each of its members.
Ancestors(deps, s) ==
  {a \in Step : \A C \in SUBSET Step :
      (deps[s] \subseteq C /\ \A c \in C : deps[c] \subseteq C) => a \in C}

\* Fault: a transform that failed stands for its upstream steps too.
SupersededByAnyTransform ==
  {a \in Step : \E t \in plan.internal : a \in Ancestors(plan.deps, t)}

Superseded ==
  {a \in Step : \E t \in plan.internal :
      results[t] = "SUCCESS" /\ a \in Ancestors(plan.deps, t)}

\* Fault: nothing is superseded.
AllSuccesses == {s \in Step : results[s] = "SUCCESS"}

\* _collect_final_records: a successful INTERNAL step stands for all of the
\* steps it was computed from.
FinalSteps == {s \in Step : results[s] = "SUCCESS"} \ Superseded

-----------------------------------------------------------------------------
Init ==
  /\ plan \in Plans
  /\ results = [s \in Step |-> "pending"]
  /\ round = 0
  /\ recordedIn = [s \in Step |-> 0]
  /\ ready = {}
  /\ work = [s \in Step |-> "idle"]
  /\ main = "select"
  /\ fault = "none"
  /\ final = {}

\* One pass over the ready steps and the creation of the layer's tasks.
SelectLayer ==
  /\ main = "select"
  /\ ReadySteps # {}
  /\ ready' = ReadySteps
  /\ work' = [s \in Step |->
                IF s \notin ReadySteps THEN work[s]
                ELSE IF FailedDeps(s) = {} THEN "running" ELSE "SKIPPED"]
  /\ main' = "gather"
  /\ UNCHANGED <<plan, results, round, recordedIn, fault, final>>

\* Fault: the first gather has return_exceptions=True, and an exception is
\* recorded as a failed step.
RecordExceptionsAsFailures ==
  /\ main = "gather"
  /\ \A s \in ready : work[s] \in Status \cup {"raised"}
  /\ results' = [s \in Step |->
                   IF s \notin ready THEN results[s]
                   ELSE IF work[s] = "raised" THEN "FAILED" ELSE work[s]]
  /\ round' = round + 1
  /\ recordedIn' = [s \in Step |-> IF s \in ready THEN round + 1 ELSE recordedIn[s]]
  /\ ready' = {}
  /\ main' = "select"
  /\ UNCHANGED <<plan, work, fault, final>>

\* gather has returned every task's result: the layer is recorded as a whole.
RecordLayer ==
  /\ main = "gather"
  /\ \A s \in ready : work[s] \in Status
  /\ results' = [s \in Step |-> IF s \in ready THEN work[s] ELSE results[s]]
  /\ round' = round + 1
  /\ recordedIn' = [s \in Step |-> IF s \in ready THEN round + 1 ELSE recordedIn[s]]
  /\ ready' = {}
  /\ main' = "select"
  /\ UNCHANGED <<plan, work, fault, final>>

Return ==
  /\ main = "select"
  /\ Pending = {}
  /\ final' = FinalSteps
  /\ main' = "returned"
  /\ UNCHANGED <<plan, results, round, recordedIn, ready, work, fault>>

\* RuntimeError: steps are left and none of them can become ready.
RaiseNonExecutable ==
  /\ main = "select"
  /\ Pending # {}
  /\ ReadySteps = {}
  /\ fault' = "non_executable"
  /\ main' = "raised"
  /\ UNCHANGED <<plan, results, round, recordedIn, ready, work, final>>

-----------------------------------------------------------------------------
\* _execute_step in its own task.  An INTERNAL transform never awaits, so the
\* step timer cannot fire inside it.
TaskEnds(s, outcome) ==
  /\ work[s] = "running"
  /\ work' = [work EXCEPT ![s] = outcome]
  /\ UNCHANGED <<plan, results, round, recordedIn, ready, main, fault, final>>

StepSucceeds(s) == TaskEnds(s, "SUCCESS")
StepFails(s) == TaskEnds(s, "FAILED")       \* a RetrievalError
StepTimesOut(s) == s \notin plan.internal /\ TaskEnds(s, "TIMED_OUT")
StepRaises(s) == TaskEnds(s, "raised")      \* any other exception

\* Fault: a retriever swallows CancelledError and keeps running.
StepIgnoresCancel(s) == work[s] = "cancelling" /\ UNCHANGED vars

\* A cancelled task leaves its retriever call.
StepUnwinds(s) ==
  /\ work[s] = "cancelling"
  /\ work' = [work EXCEPT ![s] = "cancelled"]
  /\ UNCHANGED <<plan, results, round, recordedIn, ready, main, fault, final>>

\* task.cancel() on every task of the layer that is not done.
CancelTasks ==
  work' = [s \in Step |-> IF work[s] = "running" THEN "cancelling" ELSE work[s]]

\* Fault: the exception is propagated without the second gather.
ObserveErrorWithoutDrain ==
  /\ main = "gather"
  /\ \E s \in ready : work[s] = "raised"
  /\ CancelTasks
  /\ fault' = "programmer"
  /\ main' = "raised"
  /\ UNCHANGED <<plan, results, round, recordedIn, ready, final>>

\* gather re-raises a task's exception: the except BaseException branch.
ObserveError ==
  /\ main = "gather"
  /\ \E s \in ready : work[s] = "raised"
  /\ CancelTasks
  /\ fault' = "programmer"
  /\ main' = "drain"
  /\ UNCHANGED <<plan, results, round, recordedIn, ready, final>>

\* The caller's timeout or cancellation reaches main.  It is delivered where
\* main awaits: in the first gather, also after all of its tasks are done, or
\* in the second one, where it replaces the exception being propagated.
Cancel ==
  /\ main \in {"gather", "drain"}
  /\ Tasks # {}
  /\ fault # "cancelled"
  /\ CancelTasks
  /\ fault' = "cancelled"
  /\ main' = "drain"
  /\ UNCHANGED <<plan, results, round, recordedIn, ready, final>>

\* The second gather is over: raise.
Raise ==
  /\ main = "drain"
  /\ \A s \in ready : work[s] \notin InFlight
  /\ main' = "raised"
  /\ UNCHANGED <<plan, results, round, recordedIn, ready, work, fault, final>>

-----------------------------------------------------------------------------
StepTask(s) ==
  StepSucceeds(s) \/ StepFails(s) \/ StepTimesOut(s) \/ StepRaises(s) \/ StepUnwinds(s)

Main == SelectLayer \/ RecordLayer \/ Return \/ RaiseNonExecutable \/ ObserveError \/ Raise

Stopped == main \in {"returned", "raised"}

Done == Stopped /\ UNCHANGED vars

Next == Main \/ (\E s \in Step : StepTask(s)) \/ Cancel \/ Done

Spec == Init /\ [][Next]_vars

\* The event loop runs main whenever it can go on, and every task ends: an
\* INTERNAL step is a synchronous call and the step timer bounds the others.
Fairness == WF_vars(Main) /\ \A s \in Step : WF_vars(StepTask(s))

FairSpec == Spec /\ Fairness

-----------------------------------------------------------------------------
TypeOK ==
  /\ plan \in Plans
  /\ results \in [Step -> Status \cup {"pending"}]
  /\ round \in Nat
  /\ recordedIn \in [Step -> Nat]
  /\ ready \in SUBSET Step
  /\ work \in [Step -> WorkState]
  /\ main \in {"select", "gather", "drain", "returned", "raised"}
  /\ fault \in Fault
  /\ final \in SUBSET Step

\* A task exists only for a step all of whose dependencies are recorded as
\* successes, so a retriever or a transform always finds the candidates it
\* reads in context.step_results (transforms.py:25-28).
TasksHaveInputs ==
  \A s \in Step : work[s] \notin {"idle", "SKIPPED"} =>
    \A d \in plan.deps[s] : results[d] = "SUCCESS"

\* Required-dependency semantics (README.md:102): a recorded step is skipped
\* exactly when a failure or a timeout happened somewhere upstream of it,
\* however many skipped steps are in between.
SkippedIffUpstreamFailed ==
  \A s \in Recorded :
    results[s] = "SKIPPED" <=>
      \E a \in Ancestors(plan.deps, s) : results[a] \in {"FAILED", "TIMED_OUT"}

\* The order in which results enter context.step_results does not depend on
\* which task finishes first: a step is recorded in the layer given by the
\* longest chain of dependencies below it.
LayerIsDepth ==
  \A s \in Recorded :
    /\ \A d \in plan.deps[s] : recordedIn[d] < recordedIn[s]
    /\ \/ recordedIn[s] = 1
       \/ \E d \in plan.deps[s] : recordedIn[s] = recordedIn[d] + 1

\* Structured concurrency: when execute_with_result is over, by return or by
\* exception, none of the tasks it created is still running.
NoTaskOutlivesExecution ==
  Stopped => \A s \in Step : work[s] \notin InFlight

\* Programmer errors and cancellation are not hidden (README.md:102): an
\* execution that returns saw neither, and one that raises saw what it raises.
FaultsAreNotHidden ==
  /\ main = "returned" =>
       fault = "none" /\ \A s \in Step : work[s] = results[s] /\ work[s] \in Status
  /\ main = "raised" =>
       \/ fault = "programmer" /\ \E s \in Step : work[s] = "raised"
       \/ fault = "cancelled" /\ Tasks # {}
       \/ fault = "non_executable" /\ \A s \in Step : work[s] \in Status \cup {"idle"}

\* Independent successes are preserved (README.md:102): every success is
\* returned or was consumed by a successful transform that is returned, and no
\* returned transform is accompanied by a step it was computed from.
SuccessesAreRepresented ==
  main = "returned" =>
    /\ \A s \in Step : results[s] = "SUCCESS" =>
         \/ s \in final
         \/ \E t \in final \cap plan.internal : s \in Ancestors(plan.deps, t)
    /\ \A t \in final \cap plan.internal : Ancestors(plan.deps, t) \cap final = {}

\* A plan has no dependency cycle: every set of steps has a member that
\* depends on no member of the set.
Acyclic(deps) ==
  \A C \in (SUBSET Step) \ {{}} : \E s \in C : deps[s] \cap C = {}

\* The executor's own check is exact: it gives up on a plan with a cycle and
\* on no other, and it completes no plan with a cycle.
StopsOnCyclesOnly ==
  /\ fault = "non_executable" => ~Acyclic(plan.deps)
  /\ main = "returned" => Acyclic(plan.deps)

\* Every execution ends, by return or by exception.
Termination == <>Stopped

-----------------------------------------------------------------------------
\* The strengthening that makes the properties above inductive: how work,
\* results and recordedIn are tied together at each point of the main loop.

\* results holds what work held when the layer was recorded, and the steps of
\* the current layer are the only pending ones that have any work.
WorkMatchesResults ==
  /\ ready \subseteq Pending
  /\ \A s \in Recorded : work[s] = results[s]
  /\ \A s \in Pending \ ready : work[s] = "idle"
  /\ \A s \in ready : work[s] # "idle"

\* The direct form of required-dependency semantics.
SkippedIffDependencyFailed ==
  \A s \in Recorded \cup ready :
    /\ plan.deps[s] \subseteq Recorded
    /\ work[s] = "SKIPPED" <=> FailedDeps(s) # {}

\* Which work and which fault each point of the main coroutine allows.
MainMatchesWork ==
  /\ main \in {"select", "returned"} => ready = {} /\ fault = "none"
  /\ main = "gather" =>
       fault = "none" /\ \A s \in Step : work[s] \notin {"cancelling", "cancelled"}
  /\ main = "drain" =>
       /\ fault \in {"programmer", "cancelled"}
       /\ Tasks # {}
       /\ \A s \in Step : work[s] # "running"
  /\ fault = "programmer" => \E s \in Step : work[s] = "raised"
  /\ main = "raised" =>
       /\ \A s \in Step : work[s] \notin InFlight
       /\ fault = "cancelled" => Tasks # {}
       /\ fault = "non_executable" => ready = {} /\ Pending # {} /\ ReadySteps = {}
       /\ fault # "none"
  /\ fault = "non_executable" => main = "raised"
  /\ main = "returned" => Pending = {} /\ final = FinalSteps

\* recordedIn numbers the layers from 1, every layer but the first needs the
\* one before it, and no step that could have been in a layer was left out.
LayersAreTight ==
  /\ \A s \in Recorded : recordedIn[s] \in 1 .. round
  /\ \A s \in Pending : recordedIn[s] = 0
  /\ \A s \in Recorded \cup ready :
       LET layer == IF s \in ready THEN round + 1 ELSE recordedIn[s] IN
       /\ \A d \in plan.deps[s] : recordedIn[d] < layer
       /\ layer = 1 \/ \E d \in plan.deps[s] : layer = recordedIn[d] + 1
  /\ main = "select" => \A s \in Pending :
       \/ round = 0
       \/ \E d \in plan.deps[s] : d \in Pending \/ recordedIn[d] = round
  /\ main = "gather" => \A s \in Pending \ ready : plan.deps[s] \cap Pending # {}

IInv ==
  /\ TypeOK
  /\ WorkMatchesResults
  /\ SkippedIffDependencyFailed
  /\ MainMatchesWork
  /\ LayersAreTight

-----------------------------------------------------------------------------
\* The abstract execution: the layers, the tasks and the fault are hidden.
Outcome ==
  IF main = "returned" THEN "returned"
  ELSE IF main = "raised" THEN "aborted" ELSE "open"

Abstract == INSTANCE PlanExecution
              WITH status <- results, outcome <- Outcome, answer <- final

\* The executor implements the abstract plan execution (PlanExecution.tla):
\* whatever the tasks do and in whatever order they finish, each step is
\* resolved once, after its dependencies, and a result is all or nothing.
ImplementsPlanExecution == Abstract!AbsSpec

=============================================================================
