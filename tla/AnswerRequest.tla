------------------------------ MODULE AnswerRequest ------------------------------
(***************************************************************************)
(* One GET /answer request: app/api/answer.py (the boundary),              *)
(* app/agent/service.py (the pipeline, PipelineAnswerService.answer),      *)
(* app/query/semantic_parser.py (rule parse, LLM parse, one repair),       *)
(* app/evidence/llm_answer.py (the one answer call) and, through           *)
(* QueryExecutor, the execution of the plan.                               *)
(*                                                                         *)
(* The whole pipeline runs in one task under asyncio.timeout.  The timer,  *)
(* and a cancellation that comes from outside (shutdown), can only reach   *)
(* the task where it awaits: an LLM call, an entity lookup, one of the     *)
(* executor's two gathers.  Everything between two awaits is one action.   *)
(*                                                                         *)
(* Data is abstracted to outcomes: what the rule parser, the LLM, the      *)
(* entity registry, the planner and the evidence validator decide.  Three  *)
(* facts are kept exact: what is counted of the LLM calls and where the    *)
(* count travels, which exception reaches which except clause, and that a  *)
(* step that did not succeed is a BLOCKING finding (validator.py:481-517). *)
(*                                                                         *)
(* The requests the LLM clients send are a history variable, posts: the    *)
(* code keeps no such count.  What it reports it derives elsewhere, from   *)
(* the attempt, the parse's provenance and the validator's verdict.        *)
(***************************************************************************)
EXTENDS QueryExecutor, Integers

CONSTANT
  Configs   \* the deployments considered: parser, repair and answer LLMs

Config == [parser : BOOLEAN,   \* the semantic parser LLM is configured
           repair : BOOLEAN,   \* the parser client has a repair method
           writer : BOOLEAN]   \* the answer generator is HyperCLOVA

ASSUME ConfigsAssumption == Configs \subseteq Config

\* think_trace.status of a result, or the reason of a boundary result.
Answered == {"success", "partial"}
Declined == {"unanswerable", "parser_failure", "entity_resolution_failure", "unsupported"}
Boundary == {"request_timeout", "answer_generation_dependency_failure", "safe_internal_error"}

\* llm_call_summary, -1 in a result that carries none.
NoSummary == [parser |-> -1, retries |-> -1, writer |-> -1]
NoReply == [status |-> "none", http |-> 0, summary |-> NoSummary]

\* What became of the last answer of the parser LLM.
Repairable == {"llm_candidate_rejected", "semantic_parse_response_invalid"}
Unavailable == {"semantic_parse_timeout", "semantic_parse_dependency_failure"}
Verdict == {"none", "accepted"} \cup Repairable \cup Unavailable

VARIABLES
  config,     \* the deployment, fixed
  at,         \* where the request's task is
  posts,      \* history: requests sent to propose a parse, repair one, answer
  attempt,    \* the coordinator's loop variable
  verdict,    \* on the last proposal: the coordinator's reason, or accepted
  provenance, \* parse_provenance of the parse: llm_calls, repair_attempts
  expired,    \* asyncio.timeout has fired and cancelled the task
  shutdown,   \* the task was cancelled from outside
  reply       \* the response sent to the client, if any

parserVars == <<attempt, verdict, provenance>>
serviceVars == <<config, at, posts, parserVars, expired, shutdown, reply>>
reqVars == <<vars, serviceVars>>

Ended == {"replied", "cancelled"}
Awaiting == {"parse", "resolve", "execute", "write"}

-----------------------------------------------------------------------------
\* _render_answer_response and its fallback.  Every status is sent as 200.
Respond(status, summary) ==
  /\ at' = "replied"
  /\ \/ reply' = [status |-> status, http |-> 200, summary |-> summary]
     \/ reply' = [status |-> "safe_internal_error", http |-> 200, summary |-> NoSummary]

\* What the summary of a SemanticParseSafetyError says: its llm_calls and
\* repair_attempts.
FailedParse == [parser |-> attempt + 1, retries |-> attempt, writer |-> 0]
Unconfigured == [parser |-> 0, retries |-> 0, writer |-> 0]

\* Fault: the count of the review, which sees one proposal, is left as it is.
OneProposal == [calls |-> 1, repairs |-> 0]

\* The review writes llm_calls = 1 into the provenance; the coordinator
\* replaces it.
AcceptedProvenance == [calls |-> attempt + 1, repairs |-> attempt]

\* model_calls_per_answer of the generator, whatever it was asked to do.
CallsPerAnswer == IF config.writer THEN 1 ELSE 0

\* llm_call_summary of a result: the answer call is inferred from the verdict
\* of the evidence validator.
Summary(answerable, partial) ==
  [parser |-> provenance.calls, retries |-> provenance.repairs,
   writer |-> IF answerable /\ ~partial THEN CallsPerAnswer ELSE 0]
Declining == Summary(FALSE, FALSE)

RequestInit ==
  /\ Init
  /\ config \in Configs
  /\ at = "analyze"
  /\ posts = [parse |-> 0, repair |-> 0, answer |-> 0]
  /\ attempt = 0
  /\ verdict = "none"
  /\ provenance = [calls |-> 0, repairs |-> 0]
  /\ expired = FALSE
  /\ shutdown = FALSE
  /\ reply = NoReply

-----------------------------------------------------------------------------
\* SemanticParserCoordinator.analyze up to its first await.
Analyze ==
  /\ at = "analyze"
  /\ \/ at' = "resolve" /\ UNCHANGED <<posts, reply>>     \* a rule parse
     \/ /\ config.parser
        /\ at' = "parse"
        /\ posts' = [posts EXCEPT !.parse = @ + 1]
        /\ UNCHANGED reply
     \/ /\ ~config.parser                                 \* llm_fallback_not_configured
        /\ Respond("parser_failure", Unconfigured)
        /\ UNCHANGED posts
  /\ UNCHANGED <<vars, config, parserVars, expired, shutdown>>

\* The review accepts the proposal.
ParseAccepted ==
  /\ at = "parse"
  /\ at' = "resolve"
  /\ verdict' = "accepted"
  /\ provenance' = AcceptedProvenance
  /\ UNCHANGED <<vars, config, posts, attempt, expired, shutdown, reply>>

MayRepair(reason) == attempt = 0 /\ config.repair /\ reason \in Repairable

\* A rejected or malformed proposal on the first attempt: the loop continues
\* with repair, which sends a request of its own.
ParseRepaired ==
  /\ at = "parse"
  /\ \E reason \in Repairable : MayRepair(reason) /\ verdict' = reason
  /\ attempt' = 1
  /\ posts' = [posts EXCEPT !.repair = @ + 1]
  /\ UNCHANGED <<vars, config, at, provenance, expired, shutdown, reply>>

\* Every other SemanticParserError or rejection is a SemanticParseSafetyError.
ParseFailed ==
  /\ at = "parse"
  /\ \E reason \in Repairable \cup Unavailable : ~MayRepair(reason) /\ verdict' = reason
  /\ Respond("parser_failure", FailedParse)
  /\ UNCHANGED <<vars, config, posts, attempt, provenance, expired, shutdown>>

\* RegistryEntityResolver.resolve, then grounding, planning and validation of
\* the plan, which do not await.
Resolved ==
  /\ at = "resolve"
  /\ \/ at' = "execute" /\ UNCHANGED reply
     \/ Respond("unsupported", Declining)   \* UnsupportedQuerySemanticsError
  /\ UNCHANGED <<vars, config, posts, parserVars, expired, shutdown>>

ResolutionFailed ==
  /\ at = "resolve"
  /\ Respond("entity_resolution_failure", Declining)
  /\ UNCHANGED <<vars, config, posts, parserVars, expired, shutdown>>

-----------------------------------------------------------------------------
\* The executor runs while the pipeline awaits execute_with_result.
Execute ==
  /\ at = "execute"
  /\ Main \/ \E s \in Step : StepTask(s)
  /\ UNCHANGED serviceVars

\* Fault: only FAILED and SKIPPED steps are reported.
NoFailureFinding == \A s \in Step : results[s] \in {"SUCCESS", "TIMED_OUT"}

\* _execution_findings: no step failed, timed out or was skipped.
NoBlockingFinding == \A s \in Step : results[s] = "SUCCESS"

\* Evidence building, validation and, unless an LLM writes the answer, the
\* answer.  What else the validator finds is left open.
Validate ==
  /\ at = "execute"
  /\ main = "returned"
  /\ \/ Respond("unanswerable", Summary(FALSE, FALSE)) /\ UNCHANGED posts
     \/ NoBlockingFinding /\ Respond("partial", Summary(TRUE, TRUE)) /\ UNCHANGED posts
     \/ NoBlockingFinding /\ ~config.writer /\ Respond("success", Summary(TRUE, FALSE)) /\ UNCHANGED posts
     \/ /\ NoBlockingFinding /\ config.writer
        /\ at' = "write"
        /\ posts' = [posts EXCEPT !.answer = @ + 1]
        /\ UNCHANGED reply
     \/ /\ NoBlockingFinding /\ config.writer           \* evidence over the context budget
        /\ Respond("answer_generation_dependency_failure", NoSummary)
        /\ UNCHANGED posts
  /\ UNCHANGED <<vars, config, parserVars, expired, shutdown>>

\* The model's answer, or the deterministic reference when the model's answer
\* breaks the answer contract.
Written ==
  /\ at = "write"
  /\ Respond("success", Summary(TRUE, FALSE))
  /\ UNCHANGED <<vars, config, posts, parserVars, expired, shutdown>>

\* AnswerGenerationError.
WriteFailed ==
  /\ at = "write"
  /\ Respond("answer_generation_dependency_failure", NoSummary)
  /\ UNCHANGED <<vars, config, posts, parserVars, expired, shutdown>>

\* except Exception: any stage may have a programmer error, and the executor
\* may propagate one or find the plan not executable.
InternalError ==
  /\ \/ at \notin {"execute"} \cup Ended
     \/ at = "execute" /\ main = "returned"
     \/ at = "execute" /\ main = "raised" /\ fault \in {"programmer", "non_executable"}
  /\ Respond("safe_internal_error", NoSummary)
  /\ UNCHANGED <<vars, config, posts, parserVars, expired, shutdown>>

-----------------------------------------------------------------------------
\* Fault: a timer that has fired hides a cancellation from outside.
CancelledIfNoTimer(timer, outside) ==
  IF timer THEN Respond("request_timeout", NoSummary)
  ELSE at' = "cancelled" /\ UNCHANGED reply

\* What the boundary makes of a CancelledError: asyncio.timeout turns it into
\* TimeoutError when its own timer caused it and nobody else cancelled the
\* task; otherwise it propagates and nothing is sent.
CancelledAt(timer, outside) ==
  IF timer /\ ~outside
  THEN Respond("request_timeout", NoSummary)
  ELSE at' = "cancelled" /\ UNCHANGED reply

\* The timer fires while the task awaits in one of the given stages.
DeadlineDuring(stages) ==
  /\ at \in stages
  /\ ~expired
  /\ expired' = TRUE
  /\ \/ at # "execute" /\ CancelledAt(TRUE, shutdown) /\ UNCHANGED vars
     \/ at = "execute" /\ Cancel /\ UNCHANGED <<at, reply>>
     \/ /\ at = "execute" /\ main = "drain" /\ fault = "cancelled"   \* already unwinding
        /\ UNCHANGED <<vars, at, reply>>
  /\ UNCHANGED <<config, posts, parserVars, shutdown>>

\* Fault: the timeout does not cover the answer call.
DeadlineBeforeWrite == DeadlineDuring(Awaiting \ {"write"})

\* Fault: the executor is abandoned instead of being cancelled and drained.
DeadlineAbandonsExecutor ==
  /\ at \in Awaiting
  /\ ~expired
  /\ expired' = TRUE
  /\ CancelledAt(TRUE, shutdown)
  /\ UNCHANGED <<vars, config, posts, parserVars, shutdown>>

Deadline == DeadlineDuring(Awaiting)

\* The server cancels the task while it awaits.
Shutdown ==
  /\ at \in Awaiting
  /\ ~shutdown
  /\ shutdown' = TRUE
  /\ \/ at # "execute" /\ CancelledAt(expired, TRUE) /\ UNCHANGED vars
     \/ at = "execute" /\ Cancel /\ UNCHANGED <<at, reply>>
     \/ /\ at = "execute" /\ main = "drain" /\ fault = "cancelled"
        /\ UNCHANGED <<vars, at, reply>>
  /\ UNCHANGED <<config, posts, parserVars, expired>>

\* The executor has drained its tasks and propagates the cancellation.
Unwound ==
  /\ at = "execute"
  /\ main = "raised"
  /\ fault = "cancelled"
  /\ CancelledAt(expired, shutdown)
  /\ UNCHANGED <<vars, config, posts, parserVars, expired, shutdown>>

-----------------------------------------------------------------------------
Pipeline ==
  \/ Analyze \/ ParseAccepted \/ ParseRepaired \/ ParseFailed
  \/ Resolved \/ ResolutionFailed
  \/ Validate \/ Written \/ WriteFailed
  \/ InternalError \/ Unwound

Over == at \in Ended /\ UNCHANGED reqVars

RequestNext == Pipeline \/ Execute \/ Deadline \/ Shutdown \/ Over

RequestSpec == RequestInit /\ [][RequestNext]_reqVars

\* No fairness is assumed of an LLM, of the entity registry or of a step that
\* was not cancelled.  What is assumed: the timer fires, a cancelled step
\* leaves its retriever, and code that does not await runs to its next await.
RequestFairness ==
  /\ WF_reqVars(Deadline)
  /\ WF_reqVars(at = "execute" /\ Main /\ UNCHANGED serviceVars)
  /\ \A s \in Step :
       WF_reqVars(at = "execute" /\ StepUnwinds(s) /\ UNCHANGED serviceVars)
  /\ WF_reqVars(Analyze \/ Validate \/ Unwound \/ (at = "execute" /\ InternalError))

FairRequestSpec == RequestSpec /\ RequestFairness

-----------------------------------------------------------------------------
RequestTypeOK ==
  /\ TypeOK
  /\ config \in Configs
  /\ at \in {"analyze"} \cup Awaiting \cup Ended
  /\ posts \in [parse : Nat, repair : Nat, answer : Nat]
  /\ attempt \in 0 .. 1
  /\ verdict \in Verdict
  /\ provenance \in [calls : 0 .. 2, repairs : 0 .. 1]
  /\ expired \in BOOLEAN
  /\ shutdown \in BOOLEAN
  /\ reply \in [status : {"none"} \cup Answered \cup Declined \cup Boundary,
                http : {0, 200},
                summary : [parser : -1 .. 2, retries : -1 .. 1, writer : -1 .. 1]]

\* An answer is only ever given on a complete execution: every step of the
\* plan succeeded, and what the client gets is the records of the steps that
\* no successful transform stands for, not the raw candidates of a transform
\* that failed.  And it is given on a reading that stood: when the parser LLM
\* was asked, on a proposal that the review accepted last.
AnswersAreBacked ==
  reply.status \in Answered =>
    /\ posts.parse > 0 => verdict = "accepted"
    /\ main = "returned"
    /\ \A s \in Step : results[s] = "SUCCESS"
    /\ \A t \in plan.internal : Ancestors(plan.deps, t) \cap final = {}

\* Structured concurrency up to the boundary: when the client has its reply,
\* or the request is cancelled, no step of it is still running.
NoTaskOutlivesRequest ==
  at \in Ended => \A s \in Step : work[s] \notin InFlight

\* A fault is reported as what it is: a programmer error in a step as an
\* internal error, the deadline as a timeout, and a cancellation from outside
\* by no reply at all, whichever of them strikes last.
FaultsReachTheClient ==
  at \in Ended =>
    /\ (main = "raised" /\ fault \in {"programmer", "non_executable"}) =>
         reply.status = "safe_internal_error"
    /\ (expired /\ ~shutdown) =>
         reply.status \in {"request_timeout", "safe_internal_error"}
    /\ shutdown <=> at = "cancelled"
    /\ reply.status = "request_timeout" => expired

\* llm_call_summary is the truth although nothing counts the calls: what the
\* service infers from provenance, exception and verdict is what the clients
\* sent, repairs told apart, at most one proposal, one repair of it and one
\* answer.  Every reply of the pipeline itself carries it.
ReportedCallsAreReal ==
  /\ posts.parse <= 1 /\ posts.repair <= posts.parse /\ posts.answer <= 1
  /\ reply.status \in Answered \cup Declined => reply.summary # NoSummary
  /\ reply.summary # NoSummary =>
       reply.summary = [parser |-> posts.parse + posts.repair, retries |-> posts.repair,
                        writer |-> posts.answer]

\* The deadline is enough: every request ends, even if an LLM or a store never
\* answers.
EveryRequestEnds == <>(at \in Ended)

=============================================================================
