------------------------------ MODULE QueryPlanning ------------------------------
(***************************************************************************)
(* Planning a grounded query: app/planning/coordinator.py, routing.py,     *)
(* rule_router.py, supervisor.py and validator.py.                         *)
(*                                                                         *)
(* A grounded query is reduced to what planning looks at: which kinds of   *)
(* constraint it carries, what its entity mention resolved to, the shape   *)
(* of its relations and its result limit.  A plan is a function from step  *)
(* names to steps; the names are the code's step ids.  The single-group    *)
(* comparison plan is the only one modelled: a query split into comparison *)
(* groups (supervisor.py:70-82) never mixes stores.                        *)
(***************************************************************************)
EXTENDS Naturals, FiniteSets

CONSTANT CandidateLimit   \* DeterministicSupervisorPlanner(candidate_limit)

ASSUME CandidateLimitAssumption == CandidateLimit \in Nat \ {0}

\* An absent limit: every limit the code accepts is positive.
NoLimit == 0

\* The constraints answered from the columns of the relational store.
Columns == {"TYPE", "FILTER", "SORT", "FIELD"}

\* What the query's resolved entity is: a product, a share class or sale lot,
\* a fund, the target of one of its relations, or any other entity.
Mentions == {"none", "product", "share_class", "fund", "target", "organization"}

\* relations: "unlisted" is a resolved relation without a reviewed path.
\* anchors: which of the paths name a target; incoming: a path starts INCOMING.
\* bond: the query is about bonds and has an anchored issuedBy relation.
Query == [asks : SUBSET Columns, mention : Mentions, unresolved : BOOLEAN,
          semantic : {"none", "bm25", "vector"},
          relations : {"none", "unlisted", "one", "two"},
          anchors : {"none", "some", "all"}, incoming : BOOLEAN,
          bond : BOOLEAN, limit : Nat]

Paths(q) == CASE q.relations = "one" -> {"PATH1"}
              [] q.relations = "two" -> {"PATH1", "PATH2"}
              [] OTHER -> {}

\* The shapes grounding can produce.
WellFormed(q) ==
  /\ Paths(q) = {} => q.anchors = "none" /\ ~q.incoming /\ ~q.bond
  /\ q.relations = "one" => q.anchors # "some"
  /\ q.bond => "TYPE" \in q.asks /\ q.anchors # "none"
  /\ q.mention = "target" => q.anchors # "none"

\* The constraints of the query that carry meaning for its result.
Material(q) ==
  q.asks \cup Paths(q)
         \cup (IF q.relations = "unlisted" THEN {"PATH1"} ELSE {})
         \cup (IF q.semantic # "none" THEN {"SEMANTIC"} ELSE {})
         \cup (IF q.mention # "none" \/ q.unresolved THEN {"ENTITY"} ELSE {})

Required(q) == Material(q) \cup {"INTENT"}
                           \cup (IF q.limit # NoLimit THEN {"LIMIT"} ELSE {})

-----------------------------------------------------------------------------
\* One step: its depends_on, its candidate_ids_from, its limit or top_k, its
\* result_limit, require_complete_candidates and covers_constraint_ids.
Step(deps, from, limit, keep, complete, covers) ==
  [deps |-> deps, from |-> from, limit |-> limit, keep |-> keep,
   complete |-> complete, covers |-> covers]

\* FastRoutingChecker: nothing but resolved columns and entities.
RuleRoute(q) ==
  /\ q.asks # {} \/ q.mention = "product"
  /\ q.semantic = "none" /\ q.relations = "none" /\ ~q.unresolved

RulePlan(q) ==
  [planner |-> "RULE",
   steps |-> [s \in {"rdb"} |->
                Step({}, {}, q.limit, NoLimit, FALSE, Required(q))]]

EntityIds(q) == q.mention \in {"product", "share_class"}
SourceIds(q) == q.mention \in {"product", "fund"} \/ (q.mention # "none" /\ q.incoming)
HasRelations(q) == q.relations # "none"
RestrictsCandidates(q) == "FILTER" \in q.asks \/ EntityIds(q)
RdbFields(q) == q.asks \cap {"SORT", "FIELD"} # {}

\* An entity alone, to be found by its relations.
RelationOnlyIdentity(q) == HasRelations(q) /\ EntityIds(q) /\ q.asks = {}

NeedsRdb(q) ==
  /\ q.asks # {} \/ EntityIds(q)
  /\ q.semantic = "none" \/ RestrictsCandidates(q) \/ RdbFields(q)
  /\ ~RelationOnlyIdentity(q)
  /\ q.bond => RdbFields(q)

\* Relations and relevance select among the candidates, so the relational
\* step must not stop at the number of results asked for.
RdbLimit(q) ==
  IF q.semantic # "none" \/ HasRelations(q) THEN CandidateLimit ELSE q.limit

RdbStep(q) ==
  Step({}, {}, RdbLimit(q), NoLimit, FALSE,
       Required(q) \cap (Columns \cup {"ENTITY"}))

SemanticStep(q) ==
  LET from == IF NeedsRdb(q) /\ RestrictsCandidates(q) THEN {"rdb"} ELSE {} IN
  Step(from, from, q.limit, NoLimit, FALSE,
       Required(q) \cap ({"SEMANTIC"} \cup IF NeedsRdb(q) THEN {} ELSE {"TYPE"}))

GraphPlanned(q) ==
  /\ Paths(q) # {}
  /\ SourceIds(q) \/ q.semantic # "none" \/ NeedsRdb(q) \/ q.anchors # "none"

GraphStep(q) ==
  LET from == IF q.semantic # "none" THEN {"semantic"}
              ELSE IF NeedsRdb(q) THEN {"rdb"} ELSE {}
      wide == from # {} \/ Cardinality(Paths(q)) > 1
      keep == IF wide /\ from = {} THEN q.limit ELSE NoLimit
  IN Step(from, from, IF wide THEN CandidateLimit ELSE q.limit, keep, wide,
          Required(q) \cap (Paths(q) \cup {"ENTITY"} \cup IF q.bond THEN {"TYPE"} ELSE {}))

LookupStep(q) == Step({}, {}, NoLimit, NoLimit, FALSE, Required(q) \cap {"ENTITY"})

Retrievals(q) ==
  LET asked == {s \in {"rdb", "semantic", "graph", "lookup"} :
                  \/ s = "rdb" /\ NeedsRdb(q)
                  \/ s = "semantic" /\ q.semantic # "none"
                  \/ s = "graph" /\ GraphPlanned(q)
                  \/ s = "lookup" /\ q.unresolved}
  IN IF asked = {} THEN {"question"} ELSE asked

\* An anchored graph, or a complete lexical search, selects before the RDB.
GraphFirst(q) ==
  Paths(q) # {} /\ q.semantic = "none" /\ (SourceIds(q) \/ q.anchors = "all")
SemanticFirst(q) == q.semantic = "bm25" /\ ~HasRelations(q) /\ ~RestrictsCandidates(q)
First(q) ==
  IF ~(NeedsRdb(q) /\ RdbFields(q)) THEN "none"
  ELSE IF GraphFirst(q) THEN "graph"
  ELSE IF SemanticFirst(q) THEN "semantic" ELSE "none"

Reordered(q, steps) ==
  [s \in DOMAIN steps |->
     CASE s = First(q) ->
            [steps[s] EXCEPT !.deps = {}, !.from = {}, !.complete = TRUE,
                             !.limit = IF s = "semantic" THEN CandidateLimit ELSE @]
       [] s = "rdb" /\ First(q) # "none" ->
            [steps[s] EXCEPT !.deps = {First(q)}, !.from = {First(q)}]
       [] OTHER -> steps[s]]

\* RANK_CANDIDATES when the query has a sort, FILTER_CANDIDATES otherwise.
MergeStep(q) ==
  Step(Retrievals(q), {}, q.limit, NoLimit,
       "SORT" \in q.asks \/ Paths(q) # {}, {})

SupervisorSteps(q) ==
  LET retrieve == [s \in Retrievals(q) |->
                     CASE s = "rdb" -> RdbStep(q)
                       [] s = "semantic" -> SemanticStep(q)
                       [] s = "graph" -> GraphStep(q)
                       [] s = "lookup" -> LookupStep(q)
                       [] s = "question" -> Step({}, {}, NoLimit, NoLimit, FALSE, {})]
      all == IF Cardinality(Retrievals(q)) = 1 THEN Retrievals(q)
             ELSE Retrievals(q) \cup {"merge"}
      ordered == Reordered(q, retrieve)
      terminal == IF "merge" \in all THEN {"merge"} ELSE all
  IN [s \in all |->
        LET step == IF s = "merge" THEN MergeStep(q) ELSE ordered[s] IN
        IF s \in terminal
        THEN [step EXCEPT !.covers = @ \cup (Required(q) \cap {"INTENT", "LIMIT"})]
        ELSE step]

SupervisorPlan(q) == [planner |-> "SUPERVISOR", steps |-> SupervisorSteps(q)]

CreatePlan(q) == IF RuleRoute(q) THEN RulePlan(q) ELSE SupervisorPlan(q)

-----------------------------------------------------------------------------
\* StructuredQueryPlanValidator.  That the columns, paths and identities of
\* the steps are the query's own holds by construction here.
Acyclic(steps) ==
  \A S \in (SUBSET DOMAIN steps) \ {{}} : \E s \in S : steps[s].deps \cap S = {}

WellBound(steps) ==
  \A s \in DOMAIN steps : /\ steps[s].deps \subseteq DOMAIN steps
                          /\ steps[s].from \subseteq steps[s].deps

\* Fault: steps may cover less than the question asks.
KnownCovered(q, steps) ==
  UNION {steps[s].covers : s \in DOMAIN steps} \subseteq Required(q)

Covered(q, steps) == Required(q) \subseteq UNION {steps[s].covers : s \in DOMAIN steps}

\* The first dependency of a rank is the RDB step: the planner sorts it first.
RankingGuaranteed(q, steps) ==
  ("merge" \in DOMAIN steps /\ "SORT" \in q.asks) =>
     /\ "rdb" \in steps["merge"].deps
     /\ steps["rdb"].limit # NoLimit
     /\ q.limit <= steps["rdb"].limit

SafeRule(q, plan) ==
  plan.planner = "RULE" =>
    q.semantic = "none" /\ q.relations = "none" /\ ~q.unresolved

Accepted(q, plan) ==
  /\ DOMAIN plan.steps # {}
  /\ WellBound(plan.steps)
  /\ Acyclic(plan.steps)
  /\ SafeRule(q, plan)
  /\ Covered(q, plan.steps)
  /\ RankingGuaranteed(q, plan.steps)

=============================================================================
