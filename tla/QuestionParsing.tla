---------------------------- MODULE QuestionParsing ----------------------------
(***************************************************************************)
(* How one question becomes a parse (src/app/query/semantic_parser.py):    *)
(* rules first, then a language model that may propose a reading and, when *)
(* it was rejected or malformed, repair it once. Every call of the model   *)
(* may fail instead, or answer with what is no candidate at all.           *)
(***************************************************************************)
EXTENDS CandidateReview

CONSTANTS
  Questions,        \* what may be asked, sequences of words
  Candidates(_, _), \* what the language model may propose for a question, its rule parse known to it
  Configured        \* subset of BOOLEAN: whether there is a language model

VARIABLES
  question,
  configured,
  rule,    \* the rule parse, {} before
  calls,   \* calls of the language model
  result,  \* "", "RULE", "LLM_FALLBACK" or the reason it failed
  parsed   \* the parse handed on, {} for none

vars == <<question, configured, rule, calls, result, parsed>>

MaxCalls == 2  \* one proposal and one repair
Failures == {"llm_fallback_not_configured", "semantic_parse_timeout", "semantic_parse_dependency_failure",
             "semantic_parse_response_invalid", "llm_candidate_rejected"}

Init ==
  /\ question \in Questions
  /\ configured \in Configured
  /\ rule = {} /\ calls = 0 /\ result = "" /\ parsed = {}

\* Known but not executable: left to capability validation, not parsed again.
UnderstoodUnsupported ==
  {"dataset_unit_mapping_unverified", "historical_metric_series_unavailable", "holdings_weight_projection_unavailable",
   "peer_selector_unverified", "projection_unavailable", "subjective_execution_unsupported",
   "intent_execution_not_implemented", "true_ambiguity:comparison_metric_missing"}

Complete(p) == p.complete /\ p.residuals = {} /\ Unsupported(p.constraints) = {}
Understood(p) ==
  LET reasons == {c.reason : c \in Unsupported(p.constraints)}
  IN reasons # {} /\ p.residuals = {} /\ reasons \subseteq UnderstoodUnsupported
\* A question searched by meaning is read again where a language model can.
DescriptiveFallback(p) == configured /\ p.semantic

Enough(p) == (Complete(p) \/ Understood(p)) /\ ~DescriptiveFallback(p)

ParseByRule ==
  /\ rule = {}
  /\ rule' = {Analyze(question)}
  /\ parsed' = {p \in rule' : Enough(p)}
  /\ result' = CASE parsed' # {} -> "RULE"
                  [] parsed' = {} /\ ~configured -> "llm_fallback_not_configured"
                  [] OTHER -> ""
  /\ UNCHANGED <<question, configured, calls>>

Asking == rule # {} /\ result = "" /\ calls < MaxCalls

\* A rejected or malformed answer is repaired once.
Reject(reason) == result' = IF calls = 0 THEN "" ELSE reason

Propose ==
  /\ Asking
  /\ \E r \in rule : \E c \in Candidates(question, r) : parsed' = Review(question, r, c)
  /\ IF parsed' # {} THEN result' = "LLM_FALLBACK" ELSE Reject("llm_candidate_rejected")
  /\ calls' = calls + 1
  /\ UNCHANGED <<question, configured, rule>>

AnswerMalformed ==
  /\ Asking
  /\ Reject("semantic_parse_response_invalid")
  /\ calls' = calls + 1
  /\ UNCHANGED <<question, configured, rule, parsed>>

\* No answer: nothing there is to repair.
CallFails ==
  /\ Asking
  /\ result' \in {"semantic_parse_timeout", "semantic_parse_dependency_failure"}
  /\ calls' = calls + 1
  /\ UNCHANGED <<question, configured, rule, parsed>>

Done == result # "" /\ UNCHANGED vars

Next == ParseByRule \/ Propose \/ AnswerMalformed \/ CallFails \/ Done
Spec == Init /\ [][Next]_vars

--------------------------------------------------------------------------------
(* Properties *)

(* What is executed of a parse's tree (src/app/planning/predicates.py). *)

\* The planner refuses what is marked unsupported, and every negation.
Unplanned(p) == p.boolean.op = "NOT" \/ \E x \in Of(p.constraints, "BOOLEAN") : x.reason # ""

\* A leaf of the tree stands for one filter with its span. The filters that no
\* leaf stands for are conditions beside the tree, whatever it says.
Leaves(p) ==
  LET filters == Of(p.constraints, "FILTER")
  IN {leaf \in [p.boolean.spans -> filters] : \A s \in p.boolean.spans : leaf[s].span = s}

\* The sets of filters a product may meet to be selected: all of them, or those
\* beside a disjunction and one of its leaves.
Alternatives(p) ==
  LET filters == Of(p.constraints, "FILTER")
  IN IF p.boolean.op # "OR" THEN {filters}
     ELSE UNION {{(filters \ {leaf[t] : t \in DOMAIN leaf}) \cup {leaf[s]} : s \in DOMAIN leaf} : leaf \in Leaves(p)}

(* Properties of the parse *)

Same(item, other) == item.field = other.field /\ item.op = other.op /\ item.value = other.value

\* Whatever product the parse selects meets the filter.
Enforced(p, f) == \A met \in Alternatives(p) : \E x \in met : Same(NormalizedItem(x.item), NormalizedItem(f.item))

\* The parse selects by the values of a list, each an alternative, and by no other value.
Spelled(p, f) ==
  /\ f.item.op = "in" /\ p.boolean.op = "OR"
  /\ \A met \in Alternatives(p) :
       \E x \in met, values \in SUBSET f.item.value : Same(x.item, NormalizedItem(Item(f.item.field, "eq", values)))
  /\ \A v \in f.item.value :
       \E x \in Of(p.constraints, "FILTER") : x.item.field = f.item.field /\ v \in x.item.value

\* The question excludes the value, and so does the parse.
Excluded(p, f) ==
  /\ f.item.op = "eq"
  /\ \A met \in Alternatives(p) : \E x \in met : Same(x.item, Item(f.item.field, "ne", f.item.value))
  /\ \E j \in Positions(question) : question[j] \in f.item.value /\ At(question, j + 1, {"not"})

\* The parse offers the filter, or what the question excludes by it, as one of
\* several alternatives: the review lets a proposal join by "or" all filters
\* that it states.
Offered(p, f) ==
  /\ p.boolean.op = "OR"
  /\ \E x \in Of(p.constraints, "FILTER") :
       \/ Same(NormalizedItem(x.item), NormalizedItem(f.item))
       \/ f.item.op = "eq" /\ Same(x.item, Item(f.item.field, "ne", f.item.value))

\* What the rules select by, the reading of the language model still selects by,
\* if it is executed: each filter in what the boolean tree leaves of it, each
\* order, each number that could be executed. A list of values may be spelled
\* out, then it neither loses a value nor gains an alternative. It is not said
\* that filters which the rules join by "and" stay joined so: a tree that makes
\* alternatives of them is accepted and executed (semantic_validation.py:822-831,
\* predicates.py:16-34), and all that is left then is that each is one of them.
RuleSelectionsSurvive ==
  \A r \in rule, p \in parsed :
    /\ Unplanned(p) \/ \A f \in Of(r.constraints, "FILTER") :
         Enforced(p, f) \/ Spelled(p, f) \/ Excluded(p, f) \/ Offered(p, f)
    /\ \A s \in Of(r.constraints, "SORT") : \E x \in Of(p.constraints, "SORT") : Same(x.item, s.item)
    /\ \A l \in StatedLimits(r) : l.reason = "" => \E x \in Of(p.constraints, "LIMIT") : x.item.value = l.item.value

\* A subjective wish and the population a question names are never read away:
\* the wish stays an unsupported condition, so such a parse is never complete.
TrustedMaterialSurvives ==
  \A r \in rule, p \in parsed :
    /\ Of(r.constraints, "PRODUCT_UNIVERSE") \subseteq p.constraints
    /\ \A x \in r.constraints : x.reason = "subjective_execution_unsupported" =>
         ~Complete(p) /\ \E y \in Unsupported(p.constraints) : y.span = x.span /\ y.reason = x.reason

\* What the rules read and nobody can execute is not read away: a value whose
\* unit no workbook confirms, a count, a past state, a grouping. The proposal may
\* quote it differently but not as something harmless, so a parse of such a
\* question is never complete (semantic_validation.py:445-462).
Unexecutable(x) ==
  /\ x.reason # ""
  /\ \/ x.kind \in {"AGGREGATION", "TEMPORAL", "GROUP_BY"}
     \/ x.kind = "FILTER" /\ Typed(x.item)
UnexecutableIsKept ==
  \A r \in rule, p \in parsed :
    \A x \in r.constraints : Unexecutable(x) =>
      /\ ~Complete(p)
      /\ \E y \in Unsupported(p.constraints) : y.kind = x.kind /\ (x.kind = "FILTER" => y.item.field = x.item.field)

\* Behind the three: whatever is handed on is the rules' parse or a reviewed proposal.
ParsedIsReviewed ==
  /\ question \in Questions
  /\ rule \subseteq {Analyze(question)}
  /\ \A r \in rule, p \in parsed :
       p = r \/ \E c \in Candidates(question, r) : p \in Review(question, r, c)
================================================================================
