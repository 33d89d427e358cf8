------------------------------ MODULE FederatedQuery ------------------------------
(***************************************************************************)
(* A planned query over the relational store, the semantic index and the   *)
(* graph: app/planning/coordinator.py (create_plan), app/retrieval/        *)
(* rdb_v2.py, semantic.py and graph.py, app/execution/transforms.py and    *)
(* app/evidence/validator.py.                                              *)
(*                                                                         *)
(* The stores' content is reduced to the truth of the query: store[c] is   *)
(* the set of entities that satisfy constraint c (for SORT, those that     *)
(* have the metric).  Entities are numbers: their order is both the order  *)
(* of the query's sort and that of the identifiers, so the lowest numbers  *)
(* are the best ranked.  Every retriever sees a window of its store, and   *)
(* whether a set of candidates is complete is what the modules below track.*)
(***************************************************************************)
EXTENDS QueryPlanning, Integers, FiniteSetsExt

CONSTANTS
  Entities,      \* the products, numbered in the order of the sort
  Queries,       \* the grounded queries a run may start with
  RdbDefault,    \* V2 compiler: default_limit
  RdbMax,        \* V2 compiler: max_limit
  BM25TopK,      \* SearchSettings.bm25_top_k
  BM25Candidates,\* SearchSettings.candidate_limit
  VectorTopK,    \* SearchSettings.vector_top_k
  GraphWindow    \* GraphSettings.query_limit, a number of paths

Windows == {RdbDefault, RdbMax, BM25TopK, BM25Candidates, VectorTopK, GraphWindow}
ASSUME WindowsAssumption == Windows \subseteq Nat \ {0}
ASSUME EntitiesAssumption == Entities \subseteq Nat /\ IsFiniteSet(Entities)
ASSUME QueriesAssumption == Queries \subseteq {q \in Query : WellFormed(q)}

VARIABLES
  query,    \* the grounded query
  store,    \* the entities satisfying each constraint of the query
  twice,    \* the entities each graph path reaches a second time
  phase,    \* "received", "executing", "answered" or "declined"
  steps,    \* the steps of the plan
  results,  \* context.step_results
  reasons,  \* the codes a declined query is answered with
  answer    \* the entities of the final evidence

vars == <<query, store, twice, phase, steps, results, reasons, answer>>
given == <<query, store, twice>>

Lesser(a, b) == IF a < b THEN a ELSE b
\* min(asked or configured, configured).
Window(asked, configured) == IF asked = NoLimit THEN configured ELSE Lesser(asked, configured)

\* The first k members of S.
Lowest(k, S) == {e \in S : Cardinality({f \in S : f < e}) < k}

\* The constraints the content of a store decides, entity by entity.
Decided(q) == Material(q) \ {"FIELD"}

\* A named product, fund or share class is one entity; a relation's target is
\* satisfied by the path that names it; only bonds have an issuedBy edge.
Contents(q) ==
  {c \in [Decided(q) -> SUBSET Entities] :
     /\ q.mention \in {"product", "share_class", "fund"} => Cardinality(c["ENTITY"]) = 1
     /\ q.mention = "target" => c["ENTITY"] = c["PATH1"]
     /\ q.bond => c["PATH1"] \subseteq c["TYPE"]}

NoTotal == -1
Result(status, ids, complete, total) ==
  [status |-> status, ids |-> ids, complete |-> complete, total |-> total]
Success(ids, complete, total) == Result("SUCCESS", ids, complete, total)
Failed == Result("FAILED", {}, FALSE, NoTotal)
Skipped == Result("SKIPPED", {}, FALSE, NoTotal)
\* _search_result: a relevance window states a total only when it is complete.
Found(ids, complete) == Success(ids, complete, IF complete THEN Cardinality(ids) ELSE NoTotal)

Init ==
  /\ query \in Queries
  /\ store = <<>> /\ twice = {}
  /\ phase = "received"
  /\ steps = <<>> /\ results = <<>> /\ reasons = {} /\ answer = {}

\* QueryPlanner.create_plan.  The stores' content, one generation for
\* the whole query, starts to matter with an accepted plan.
Plan ==
  /\ phase = "received"
  /\ steps' = CreatePlan(query).steps
  /\ IF Accepted(query, CreatePlan(query))
     THEN /\ phase' = "executing"
          /\ store' \in Contents(query)
          /\ twice' \in IF Paths(query) = {} THEN {{}}
                        ELSE {S \in SUBSET Entities : Cardinality(S) <= 1}
          /\ UNCHANGED reasons
     ELSE /\ phase' = "declined"
          /\ reasons' = {"UNSUPPORTED"}
          /\ UNCHANGED <<store, twice>>
  /\ UNCHANGED <<query, results, answer>>

-----------------------------------------------------------------------------
\* A step runs once everything it depends on succeeded.
Ready(s) ==
  /\ phase = "executing"
  /\ s \in DOMAIN steps \ DOMAIN results
  /\ steps[s].deps \subseteq DOMAIN results

Succeeded(S) == \A d \in S : results[d].status = "SUCCESS"

Record(s, r) ==
  /\ results' = [t \in DOMAIN results \cup {s} |-> IF t = s THEN r ELSE results[t]]
  /\ UNCHANGED <<given, phase, steps, reasons, answer>>

\* Runs s and records r; r is evaluated only when the step runs.
Run(s) == Ready(s) /\ Succeeded(steps[s].deps)

Skip(s) == Ready(s) /\ ~Succeeded(steps[s].deps) /\ Record(s, Skipped)

\* The store does not answer, or not in time.
Unavailable(s) == Run(s) /\ Record(s, Failed)

\* The candidates a step is bound to, everything when it has none.
Candidates(s) ==
  {e \in Entities : \A d \in steps[s].from : e \in results[d].ids}

\* The entities among C that satisfy the constraints of K.
Matching(C, K) == {e \in C : \A c \in K : e \in store[c]}

\* CanonicalV2RDBRetriever: the candidates must be complete, an empty set of
\* them stays empty, and the window is applied after filtering and ordering.
RdbCandidatesComplete == \A d \in steps["rdb"].from : results[d].complete

\* The step's own limit, or the configured one, up to the maximum.
RdbWindow ==
  Lesser(IF steps["rdb"].limit = NoLimit THEN RdbDefault ELSE steps["rdb"].limit, RdbMax)

RunRdb ==
  /\ Run("rdb")
  /\ LET bound == (query.asks \cap {"TYPE", "FILTER"})
                  \cup (IF EntityIds(query) THEN {"ENTITY"} ELSE {})
         filtered == Matching(Candidates("rdb"), bound)
         rankable == Matching(filtered, query.asks \cap {"SORT"})
         ids == Lowest(RdbWindow, rankable)
     IN IF RdbCandidatesComplete
        THEN Record("rdb", Success(ids, ids = rankable, Cardinality(filtered)))
        ELSE Record("rdb", Failed)

\* Lexical hits are the matching documents, at most a window of them.
RunBM25 ==
  /\ query.semantic = "bm25" /\ Run("semantic")
  /\ LET matching == Matching(Candidates("semantic"), {"SEMANTIC"} \cup (query.asks \cap {"TYPE"}))
         window == Window(steps["semantic"].limit,
                          IF steps["semantic"].complete THEN BM25Candidates ELSE BM25TopK)
     IN \E hits \in kSubset(Lesser(window, Cardinality(matching)), matching) :
          Record("semantic", Found(hits, hits = matching))

\* Vector hits are the nearest documents, whatever their distance: a window
\* that never claims to be complete unless it is empty.
RunVector ==
  /\ query.semantic = "vector" /\ Run("semantic")
  /\ LET indexed == Matching(Candidates("semantic"), {"SEMANTIC"} \cup (query.asks \cap {"TYPE"}))
         window == Window(steps["semantic"].limit, VectorTopK)
     IN \E hits \in kSubset(Lesser(window, Cardinality(indexed)), indexed) :
          Record("semantic", Found(hits, hits = {}))

\* A path is compiled only when something bounds it.
Compiles(p) ==
  \/ SourceIds(query) \/ steps["graph"].from # {} \/ query.anchors = "all"
  \/ query.anchors = "some" /\ p = "PATH1"

Reached(p) ==
  Matching(Candidates("graph"), {p} \cup (IF SourceIds(query) THEN {"ENTITY"} ELSE {}))
Rows(S) == Cardinality(S) + Cardinality(S \cap twice)

\* The entities the rows of path p show when the query returns at most window
\* rows: all it reaches, or those of a full window.
Shown(p, window) ==
  IF Rows(Reached(p)) <= window THEN {Reached(p)}
  ELSE {S \in SUBSET Reached(p) : Cardinality(S) <= window /\ Rows(S) >= window}

RunGraph ==
  /\ Run("graph")
  /\ LET step == steps["graph"]
         P == Paths(query)
         window == Window(step.limit, GraphWindow)
         complete == \A p \in P : Rows(Reached(p)) <= window
     IN IF ~(\A p \in P : Compiles(p)) \/ (step.complete /\ ~complete)
        THEN Record("graph", Failed)
        ELSE \E shown \in [P -> SUBSET Entities] :
               /\ \A p \in P : shown[p] \in Shown(p, window)
               /\ LET both == {e \in Entities : \A p \in P : e \in shown[p]}
                      ids == IF step.keep = NoLimit THEN both ELSE Lowest(step.keep, both)
                      total == IF Cardinality(P) = 1 THEN Rows(Reached("PATH1"))
                               ELSE IF \A p \in P : Reached(p) = {} THEN 0 ELSE NoTotal
                  IN Record("graph", Success(ids, complete /\ ids = both, total))

\* A lexical search for the raw words: its hits prove no constraint.
RunWords(s) ==
  /\ s \in {"lookup", "question"} /\ Run(s)
  /\ \E hits \in SUBSET Entities, complete \in BOOLEAN :
       /\ Cardinality(hits) <= BM25TopK
       /\ complete \/ Cardinality(hits) = BM25TopK
       /\ Record(s, Found(hits, complete))

\* Fault: only the ranking input has to be complete.
RankedInputComplete == "rdb" \in steps["merge"].deps => results["rdb"].complete

\* InternalTransformExecutor.
MergeInputsComplete == \A d \in steps["merge"].deps : results[d].complete
Common == {e \in Entities : \A d \in steps["merge"].deps : e \in results[d].ids}

\* Fault: the merge keeps everything.
SelectionsUnlimited(S) == {S}

\* The entities the merge keeps: in the order of the RDB step when it ranks.
Selections(S) ==
  IF query.limit = NoLimit THEN {S}
  ELSE IF "SORT" \in query.asks THEN {Lowest(query.limit, S)}
  ELSE kSubset(Lesser(query.limit, Cardinality(S)), S)

Merge ==
  /\ Run("merge")
  /\ IF steps["merge"].complete /\ ~MergeInputsComplete
     THEN Record("merge", Failed)
     ELSE \E S \in Selections(Common) : Record("merge", Success(S, FALSE, NoTotal))

-----------------------------------------------------------------------------
\* The records of the steps no successful merge stands for.
Evidence ==
  IF "merge" \in DOMAIN steps /\ results["merge"].status = "SUCCESS"
  THEN results["merge"].ids
  ELSE UNION {results[s].ids : s \in DOMAIN steps}

\* _no_usable_evidence_code: every step that knows its total found nothing.
Counted == {s \in DOMAIN steps : results[s].total # NoTotal}

\* Fault: nothing found is nothing there.
NoEvidenceAtAll == Evidence = {}

ZeroMatch == Counted # {} /\ \A s \in Counted : results[s].total = 0

Findings ==
  (IF Succeeded(DOMAIN steps) THEN {} ELSE {"RETRIEVAL_FAILED"})
  \cup (IF query.unresolved THEN {"ENTITY_NOT_FOUND"} ELSE {})
  \cup (IF query.mention = "product" /\ ~(Evidence \subseteq store["ENTITY"])
        THEN {"ENTITY_MISMATCH"} ELSE {})
  \cup (IF Evidence # {} THEN {} ELSE IF ZeroMatch THEN {"ZERO_MATCH"} ELSE {"NO_EVIDENCE"})

\* QualityAwareEvidenceValidator: any blocking finding declines the query.
Validate ==
  /\ phase = "executing"
  /\ DOMAIN results = DOMAIN steps
  /\ reasons' = Findings
  /\ IF Findings = {} THEN phase' = "answered" /\ answer' = Evidence
                      ELSE phase' = "declined" /\ UNCHANGED answer
  /\ UNCHANGED <<given, steps, results>>

Ended == phase \in {"answered", "declined"} /\ UNCHANGED vars

Next ==
  \/ Plan
  \/ RunRdb \/ RunBM25 \/ RunVector \/ RunGraph \/ Merge
  \/ \E s \in {"lookup", "question"} : RunWords(s)
  \/ \E s \in DOMAIN steps : Skip(s) \/ Unavailable(s)
  \/ Validate
  \/ Ended

Spec == Init /\ [][Next]_vars

-----------------------------------------------------------------------------

Qualified == Matching(Entities, Decided(query))

\* The steps of the plan apply the mention of the query, where there is one.
MentionApplied(q) ==
  \/ q.mention \in {"none", "target"}
  \/ EntityIds(q) /\ NeedsRdb(q)
  \/ SourceIds(q) /\ GraphPlanned(q)

\* Whatever stores a plan visits and in which order they bind each other, an
\* answered entity satisfies every constraint of the question, those no single
\* step applied included (supervisor.py:93-342, transforms.py:69-94).
AnswersMeetEveryConstraint == phase = "answered" => answer \subseteq Qualified

\* A sorted answer is a prefix of the global order of all entities that
\* qualify, as long as the question asks and the stores hold: candidates lost
\* in a window of the graph or of the index never hide behind a ranking
\* (rdb_v2.py:117-142, transforms.py:43-67, validator.py:331-370).
RankedAnswersAreGlobal ==
  (phase = "answered" /\ "SORT" \in query.asks) =>
    /\ \A e \in Qualified \ answer : \A a \in answer : a < e
    /\ query.limit # NoLimit =>
         Cardinality(answer) = Lesser(query.limit, Cardinality(Qualified))

\* No route returns more entities than a question with conditions asked for
\* (supervisor.py:102-105, 140-141, 203-221, 337; graph.py:113-120).  A question
\* without any is searched for by its words, with no limit (supervisor.py:312).
AnswersWithinLimit ==
  (phase = "answered" /\ query.limit # NoLimit /\ Decided(query) # {}) =>
    Cardinality(answer) <= query.limit

\* The user is told that nothing matches only when nothing does: an empty
\* window of a store is not an empty world (validator.py:693-719).  A mention
\* that resolved to nothing is reported as such, whatever else is.
ZeroMatchIsTrue ==
  ("ZERO_MATCH" \in reasons /\ ~query.unresolved /\ Decided(query) # {}) => Qualified = {}

=============================================================================
