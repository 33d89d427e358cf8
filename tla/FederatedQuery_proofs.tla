------------------------- MODULE FederatedQuery_proofs -------------------------
(***************************************************************************)
(* Proofs about FederatedQuery for any products, windows and questions.    *)
(*                                                                         *)
(* The argument: what a step recorded is a relation between its own result *)
(* and those of the steps that bind it (Kept), which recording further     *)
(* results leaves alone.  The rest is about one finished set of results:   *)
(* which constraints the steps of an accepted plan test between them, and  *)
(* which of the results are known to hold everything that qualifies.       *)
(***************************************************************************)
EXTENDS FederatedQuery, FiniteSetTheorems, WellFoundedInduction, TLAPS

--------------------------------------------------------------------------------
(* Finite sets of numbers and their lowest members. *)

\* Every nonempty set of numbers has a lowest member.
LEMMA LowestNumber ==
  ASSUME NEW S, S \subseteq Nat, S # {}
  PROVE  \E m \in S : \A e \in S : m <= e
<1> DEFINE R == OpToRel(<, Nat)
<1>1. IsWellFoundedOn(R, Nat)
  BY NatLessThanWellFounded
<1>2. \E m \in S : \A e \in S : ~(<<e, m>> \in R)
  BY <1>1, WFMin, Zenon
<1>3. PICK m \in S : \A e \in S : ~(<<e, m>> \in R)
  BY <1>2
<1>4. \A e \in S : ~(e < m)
  BY <1>3 DEF OpToRel
<1> QED BY <1>4

\* The k lowest members of a finite set of numbers: as many as there are, at
\* most k, and all below the others.
LEMMA LowestMembers ==
  ASSUME NEW S, S \subseteq Nat, IsFiniteSet(S), NEW k \in Nat
  PROVE  /\ Lowest(k, S) \subseteq S
         /\ IsFiniteSet(Lowest(k, S))
         /\ Cardinality(Lowest(k, S)) = Lesser(k, Cardinality(S))
         /\ \A e \in S \ Lowest(k, S) : \A a \in Lowest(k, S) : a < e
<1> DEFINE L == Lowest(k, S)
           Below(e) == {f \in S : f < e}
<1>1. L \subseteq S /\ IsFiniteSet(L) /\ Cardinality(L) \in Nat /\ Cardinality(L) <= Cardinality(S) /\ Cardinality(S) \in Nat
  BY FS_Subset, FS_CardinalityType DEF Lowest
<1>2. \A e \in S : IsFiniteSet(Below(e)) /\ Cardinality(Below(e)) \in Nat
  BY FS_Subset, FS_CardinalityType
<1>3. \A e \in S : e \in L <=> Cardinality(Below(e)) < k
  BY DEF Lowest
<1>8. \A e, f \in S : f \in Below(e) <=> f < e
  OBVIOUS
<1>9. \A e \in S : Below(e) \subseteq S
  OBVIOUS
<1>10. \A e \in S : e \in Nat
  OBVIOUS
<1> HIDE DEF L, Below
<1>4. \A e, f \in S : e < f => Cardinality(Below(e)) < Cardinality(Below(f))
  <2> SUFFICES ASSUME NEW e \in S, NEW f \in S, e < f
               PROVE  Cardinality(Below(e)) < Cardinality(Below(f))
    OBVIOUS
  <2>1. Below(e) \in SUBSET Below(f) /\ e \in Below(f) /\ e \notin Below(e)
    <3>1. \A x \in Below(e) : x \in S /\ x < e
      BY <1>8, <1>9
    <3>2. \A x \in Below(e) : x < f
      <4>1. \A x \in S : x < e => x < f
        BY <1>10
      <4> QED BY <3>1, <4>1
    <3>3. \A x \in Below(e) : x \in Below(f)
      BY <1>8, <3>1, <3>2
    <3>4. e \in Below(f) /\ ~(e < e)
      BY <1>8
    <3> QED BY <1>8, <3>3, <3>4
  <2>2. Cardinality(Below(e)) <= Cardinality(Below(f)) /\ (Cardinality(Below(f)) = Cardinality(Below(e)) => Below(f) = Below(e))
    BY <1>2, <2>1, FS_Subset
  <2> QED BY <1>2, <2>1, <2>2
<1>5. Cardinality(L) <= k
  <2> DEFINE rank == [e \in L |-> Cardinality(Below(e))]
  <2>1. rank \in Injection(L, 0 .. k - 1)
    <3>1. rank \in [L -> 0 .. k - 1]
      BY <1>1, <1>2, <1>3
    <3>2. \A e, f \in L : rank[e] = rank[f] => e = f
      BY <1>1, <1>2, <1>4
    <3> HIDE DEF rank
    <3> QED BY <3>1, <3>2 DEF Injection, IsInjective
  <2>2. IsFiniteSet(0 .. k - 1) /\ Cardinality(0 .. k - 1) = k
    BY FS_Interval
  <2> HIDE DEF rank
  <2> QED BY <2>1, <2>2, FS_Injection
<1>6. \A e \in S \ L : \A a \in L : a < e
  <2> SUFFICES ASSUME NEW e \in S \ L, NEW a \in L PROVE a < e
    OBVIOUS
  <2>1. Cardinality(Below(a)) < Cardinality(Below(e))
    BY <1>1, <1>2, <1>3
  <2> QED BY <1>1, <1>2, <1>4, <2>1
<1>7. L = S \/ k <= Cardinality(L)
  <2> SUFFICES ASSUME L # S PROVE k <= Cardinality(L)
    OBVIOUS
  <2>1. PICK m \in S \ L : \A e \in S \ L : m <= e
    BY <1>1, LowestNumber
  <2>2. Below(m) \in SUBSET L
    <3>1. \A x \in Below(m) : x \in S /\ x < m
      BY <1>8, <1>9, <2>1
    <3>2. \A x \in Below(m) : x \in L
      <4>1. \A x \in S : x < m => x \notin S \ L
        BY <2>1, <1>10
      <4> QED BY <3>1, <4>1
    <3> QED BY <3>2
  <2>3. Cardinality(Below(m)) <= Cardinality(L)
    BY <1>1, <2>2, FS_Subset
  <2> QED BY <1>1, <1>2, <1>3, <2>1, <2>3
<1> QED BY <1>1, <1>5, <1>6, <1>7 DEF Lesser, L

--------------------------------------------------------------------------------
(* Plans. *)

Retrieval == {"rdb", "semantic", "graph", "lookup", "question"}

\* What the steps of a planned question look like: which there are, on which
\* the others wait, and where the limit of the question is placed.
Shaped(q, st) ==
  /\ DOMAIN st \subseteq Retrieval \cup {"merge"}
  /\ "rdb" \in DOMAIN st <=> NeedsRdb(q)
  /\ "semantic" \in DOMAIN st <=> q.semantic # "none"
  /\ "graph" \in DOMAIN st <=> GraphPlanned(q)
  /\ "lookup" \in DOMAIN st <=> q.unresolved
  /\ "question" \in DOMAIN st => DOMAIN st = {"question"}
  /\ "merge" \notin DOMAIN st => \E s \in Retrieval : DOMAIN st = {s}

Waits(q, st) ==
  /\ \A s \in DOMAIN st \ {"merge"} : st[s].from = st[s].deps
  /\ "merge" \in DOMAIN st =>
       /\ st["merge"].deps = DOMAIN st \ {"merge"}
       /\ st["merge"].limit = q.limit
       /\ st["merge"].complete = ("SORT" \in q.asks \/ Paths(q) # {})
  /\ "rdb" \in DOMAIN st =>
       st["rdb"].from \in {{}} \cup {{s} : s \in {x \in {"graph", "semantic"} \cap DOMAIN st : st[x].from = {}}}
  /\ "semantic" \in DOMAIN st => st["semantic"].from \in {{}, {"rdb"}}
  /\ "graph" \in DOMAIN st => st["graph"].from \in {{}, {"rdb"}, {"semantic"}}
  /\ \A s \in {"lookup", "question"} \cap DOMAIN st : st[s].from = {}

Limited(q, st) ==
  /\ "semantic" \in DOMAIN st => st["semantic"].limit \in Nat
  /\ "graph" \in DOMAIN st => st["graph"].limit \in Nat /\ st["graph"].keep \in Nat
  /\ DOMAIN st = {"rdb"} /\ q.relations # "unlisted" => st["rdb"].limit = q.limit
  /\ DOMAIN st = {"semantic"} => st["semantic"].limit = q.limit
  /\ DOMAIN st = {"graph"} =>
       IF Paths(q) = {"PATH1"} THEN st["graph"].limit = q.limit /\ st["graph"].keep = NoLimit
                               ELSE st["graph"].keep = q.limit

Steps(q) == CreatePlan(q).steps

LEMMA RetrievalsAreFinite ==
  ASSUME NEW q
  PROVE  /\ IsFiniteSet(Retrievals(q))
         /\ Retrievals(q) \subseteq Retrieval /\ Retrievals(q) # {}
         /\ "rdb" \in Retrievals(q) <=> NeedsRdb(q)
         /\ "semantic" \in Retrievals(q) <=> q.semantic # "none"
         /\ "graph" \in Retrievals(q) <=> GraphPlanned(q)
         /\ "lookup" \in Retrievals(q) <=> q.unresolved
         /\ "question" \in Retrievals(q) => Retrievals(q) = {"question"}
<1>1. Retrievals(q) \subseteq Retrieval /\ Retrievals(q) # {}
  BY DEF Retrievals, Retrieval
<1>2. IsFiniteSet(Retrieval)
  <2>1. Retrieval = (((({} \cup {"rdb"}) \cup {"semantic"}) \cup {"graph"}) \cup {"lookup"}) \cup {"question"}
    BY DEF Retrieval
  <2> QED BY <2>1, FS_EmptySet, FS_AddElement, Zenon
<1>3. IsFiniteSet(Retrievals(q))
  BY <1>1, <1>2, FS_Subset
<1>4. /\ "rdb" \in Retrievals(q) <=> NeedsRdb(q)
      /\ "semantic" \in Retrievals(q) <=> q.semantic # "none"
      /\ "graph" \in Retrievals(q) <=> GraphPlanned(q)
      /\ "lookup" \in Retrievals(q) <=> q.unresolved
      /\ "question" \in Retrievals(q) => Retrievals(q) = {"question"}
  BY DEF Retrievals
<1> QED BY <1>1, <1>3, <1>4

\* A question of one retrieval has no merge, one of several has.
LEMMA SupervisorDomain ==
  ASSUME NEW q
  PROVE  /\ DOMAIN SupervisorSteps(q) \in {Retrievals(q), Retrievals(q) \cup {"merge"}}
         /\ "merge" \notin DOMAIN SupervisorSteps(q) => \E s \in Retrieval : DOMAIN SupervisorSteps(q) = {s}
         /\ "merge" \in DOMAIN SupervisorSteps(q) => \A s : Retrievals(q) # {s}
<1> DEFINE R == Retrievals(q)
<1>1. DOMAIN SupervisorSteps(q) = IF Cardinality(R) = 1 THEN R ELSE R \cup {"merge"}
  BY DEF SupervisorSteps
<1>2. IsFiniteSet(R) /\ R \subseteq Retrieval /\ "merge" \notin R
  BY RetrievalsAreFinite DEF Retrieval
<1>3. Cardinality(R) = 1 <=> \E s : R = {s}
  BY <1>2, FS_Singleton
<1> HIDE DEF R
<1>4. R = Retrievals(q)
  BY DEF R
<1> QED BY <1>1, <1>2, <1>3, <1>4

\* The steps as they are after one of them was moved to the front.
Fields(q, st) ==
  /\ "rdb" \in Retrievals(q) =>
       /\ st["rdb"].deps = IF First(q) = "none" THEN {} ELSE {First(q)}
       /\ st["rdb"].from = st["rdb"].deps /\ st["rdb"].limit = RdbLimit(q)
       /\ st["rdb"].covers \subseteq (Required(q) \cap (Columns \cup {"ENTITY"})) \cup {"INTENT", "LIMIT"}
  /\ "semantic" \in Retrievals(q) =>
       /\ st["semantic"].deps = st["semantic"].from /\ st["semantic"].from \in {{}, {"rdb"}}
       /\ IF First(q) = "semantic" THEN st["semantic"].from = {} /\ st["semantic"].limit = CandidateLimit
          ELSE /\ st["semantic"].limit = q.limit
               /\ st["semantic"].from # {} => NeedsRdb(q)
       /\ st["semantic"].covers \subseteq {"SEMANTIC", "INTENT", "LIMIT"} \cup (IF NeedsRdb(q) THEN {} ELSE {"TYPE"})
  /\ "graph" \in Retrievals(q) =>
       /\ st["graph"].deps = st["graph"].from
       /\ st["graph"].from = IF First(q) = "graph" THEN {} ELSE GraphStep(q).from
       /\ st["graph"].limit = GraphStep(q).limit /\ st["graph"].keep = GraphStep(q).keep
       /\ st["graph"].covers \subseteq GraphStep(q).covers \cup {"INTENT", "LIMIT"}
  /\ "lookup" \in Retrievals(q) =>
       st["lookup"].deps = {} /\ st["lookup"].from = {} /\ st["lookup"].covers \subseteq {"ENTITY", "INTENT", "LIMIT"}
  /\ "question" \in Retrievals(q) =>
       st["question"].deps = {} /\ st["question"].from = {} /\ st["question"].covers \subseteq {"INTENT", "LIMIT"}
  /\ "merge" \in DOMAIN st =>
       /\ st["merge"].deps = Retrievals(q) /\ st["merge"].limit = q.limit
       /\ st["merge"].complete = ("SORT" \in q.asks \/ Paths(q) # {})
       /\ st["merge"].covers \subseteq {"INTENT", "LIMIT"}

LEMMA SupervisorFields ==
  ASSUME NEW q, NEW st, st = SupervisorSteps(q)
  PROVE  Fields(q, st)
<1>0. st = SupervisorSteps(q)
  OBVIOUS
<1>1. DOMAIN SupervisorSteps(q) \in {Retrievals(q), Retrievals(q) \cup {"merge"}} /\ "merge" \notin Retrievals(q)
  BY SupervisorDomain, RetrievalsAreFinite DEF Retrieval
<1>2. First(q) \in {"none", "graph", "semantic"}
  BY DEF First
<1> DEFINE retrieve == [s \in Retrievals(q) |->
                     CASE s = "rdb" -> RdbStep(q)
                       [] s = "semantic" -> SemanticStep(q)
                       [] s = "graph" -> GraphStep(q)
                       [] s = "lookup" -> LookupStep(q)
                       [] s = "question" -> Step({}, {}, NoLimit, NoLimit, FALSE, {})]
           ordered == Reordered(q, retrieve)
           With(step) == [step EXCEPT !.covers = @ \cup (Required(q) \cap {"INTENT", "LIMIT"})]
<1>3. \A s \in Retrievals(q) : SupervisorSteps(q)[s] \in {ordered[s], With(ordered[s])}
  BY <1>1, Zenon DEF SupervisorSteps
<1>4. "merge" \in DOMAIN SupervisorSteps(q) => SupervisorSteps(q)["merge"] = With(MergeStep(q))
  BY <1>1, Zenon DEF SupervisorSteps
<1> HIDE DEF With
<1>5. ASSUME NEW d, NEW f, NEW l, NEW k, NEW c, NEW v, NEW step,
             step \in {Step(d, f, l, k, c, v), With(Step(d, f, l, k, c, v))}
      PROVE  /\ step.deps = d /\ step.from = f /\ step.limit = l /\ step.keep = k /\ step.complete = c
             /\ step.covers \subseteq v \cup {"INTENT", "LIMIT"}
  <2>1. CASE step = Step(d, f, l, k, c, v)
    BY <2>1 DEF Step
  <2>2. CASE step = With(Step(d, f, l, k, c, v))
    <3>1. step = [Step(d, f, l, k, c, v) EXCEPT !.covers = v \cup (Required(q) \cap {"INTENT", "LIMIT"})]
      BY <2>2 DEF Step, With
    <3> QED BY <3>1 DEF Step
  <2> QED BY <1>5, <2>1, <2>2
<1>6. ASSUME NEW s \in Retrievals(q), s # "rdb"
      PROVE  /\ s # First(q) => ordered[s] = retrieve[s]
             /\ s = First(q) => ordered[s] = [retrieve[s] EXCEPT !.deps = {}, !.from = {}, !.complete = TRUE,
                                                !.limit = IF s = "semantic" THEN CandidateLimit ELSE @]
  <2>1. DOMAIN retrieve = Retrievals(q)
    OBVIOUS
  <2> HIDE DEF retrieve
  <2> QED BY <1>6, <2>1, Zenon DEF Reordered
<1>7. ASSUME "rdb" \in Retrievals(q)
      PROVE  ordered["rdb"] = IF First(q) = "none" THEN RdbStep(q)
                              ELSE [RdbStep(q) EXCEPT !.deps = {First(q)}, !.from = {First(q)}]
  <2>1. retrieve["rdb"] = RdbStep(q)
    BY <1>7, Zenon
  <2>2. First(q) # "rdb" /\ DOMAIN retrieve = Retrievals(q)
    BY <1>2
  <2> HIDE DEF retrieve
  <2> QED BY <1>7, <2>1, <2>2, Zenon DEF Reordered
<1>8. /\ "semantic" \in Retrievals(q) => retrieve["semantic"] = SemanticStep(q)
      /\ "graph" \in Retrievals(q) => retrieve["graph"] = GraphStep(q)
      /\ "lookup" \in Retrievals(q) => retrieve["lookup"] = LookupStep(q)
      /\ "question" \in Retrievals(q) => retrieve["question"] = Step({}, {}, NoLimit, NoLimit, FALSE, {})
  BY Zenon
<1> HIDE DEF retrieve, ordered
<1>9. ASSUME "rdb" \in Retrievals(q)
      PROVE  /\ st["rdb"].deps = IF First(q) = "none" THEN {} ELSE {First(q)}
             /\ st["rdb"].from = st["rdb"].deps /\ st["rdb"].limit = RdbLimit(q)
             /\ st["rdb"].covers \subseteq (Required(q) \cap (Columns \cup {"ENTITY"})) \cup {"INTENT", "LIMIT"}
  <2> DEFINE from == IF First(q) = "none" THEN {} ELSE {First(q)}
             step == st["rdb"]
             complete == FALSE
             covers == Required(q) \cap (Columns \cup {"ENTITY"})
  <2>1. ordered["rdb"] = Step(from, from, RdbLimit(q), NoLimit, complete, covers)
    BY <1>7, <1>9 DEF RdbStep, Step
  <2>2. step \in {Step(from, from, RdbLimit(q), NoLimit, complete, covers), With(Step(from, from, RdbLimit(q), NoLimit, complete, covers))}
    BY <1>0, <1>3, <1>9, <2>1
  <2> HIDE DEF from, step, covers, complete
  <2>3. /\ step.deps = from /\ step.from = from /\ step.limit = RdbLimit(q)
        /\ step.covers \subseteq covers \cup {"INTENT", "LIMIT"}
    BY <2>2, <1>5
  <2> QED BY <2>3 DEF step, from, covers
<1>10. ASSUME "semantic" \in Retrievals(q)
      PROVE  /\ st["semantic"].deps = st["semantic"].from /\ st["semantic"].from \in {{}, {"rdb"}}
             /\ IF First(q) = "semantic" THEN st["semantic"].from = {} /\ st["semantic"].limit = CandidateLimit
                   ELSE /\ st["semantic"].limit = q.limit
                        /\ st["semantic"].from # {} => NeedsRdb(q)
             /\ st["semantic"].covers \subseteq {"SEMANTIC", "INTENT", "LIMIT"} \cup (IF NeedsRdb(q) THEN {} ELSE {"TYPE"})
  <2> DEFINE plain == IF NeedsRdb(q) /\ RestrictsCandidates(q) THEN {"rdb"} ELSE {}
             from == IF First(q) = "semantic" THEN {} ELSE plain
             limit == IF First(q) = "semantic" THEN CandidateLimit ELSE q.limit
             complete == First(q) = "semantic"
             step == st["semantic"]
             covers == Required(q) \cap ({"SEMANTIC"} \cup IF NeedsRdb(q) THEN {} ELSE {"TYPE"})
  <2>1. ordered["semantic"] = Step(from, from, limit, NoLimit, complete, covers)
    <3>1. SemanticStep(q) = Step(plain, plain, q.limit, NoLimit, FALSE, covers)
      BY DEF SemanticStep
    <3> HIDE DEF plain, covers
    <3>2. CASE First(q) = "semantic"
      <4>1. ordered["semantic"] = [SemanticStep(q) EXCEPT !.deps = {}, !.from = {}, !.complete = TRUE, !.limit = CandidateLimit]
        BY <1>10, <3>2, <1>6, <1>8
      <4>2. from = {} /\ limit = CandidateLimit /\ complete = TRUE
        BY <3>2
      <4> DEFINE no == FALSE
                 yes == TRUE
      <4> HIDE DEF no, yes
      <4>3. SemanticStep(q) = Step(plain, plain, q.limit, NoLimit, no, covers)
        BY <3>1 DEF no
      <4>4. ordered["semantic"] = [Step(plain, plain, q.limit, NoLimit, no, covers) EXCEPT
                                     !.deps = {}, !.from = {}, !.complete = yes, !.limit = CandidateLimit]
        BY <4>1, <4>3, Zenon DEF yes
      <4>5. ordered["semantic"] = Step({}, {}, CandidateLimit, NoLimit, yes, covers)
        <5>1. [Step(plain, plain, q.limit, NoLimit, no, covers) EXCEPT !.deps = {}] = Step({}, plain, q.limit, NoLimit, no, covers)
          BY DEF Step
        <5>2. [Step({}, plain, q.limit, NoLimit, no, covers) EXCEPT !.from = {}] = Step({}, {}, q.limit, NoLimit, no, covers)
          BY DEF Step
        <5>3. [Step({}, {}, q.limit, NoLimit, no, covers) EXCEPT !.complete = yes] = Step({}, {}, q.limit, NoLimit, yes, covers)
          BY DEF Step
        <5>4. [Step({}, {}, q.limit, NoLimit, yes, covers) EXCEPT !.limit = CandidateLimit] = Step({}, {}, CandidateLimit, NoLimit, yes, covers)
          BY DEF Step
        <5> QED BY <4>4, <5>1, <5>2, <5>3, <5>4
      <4>6. ordered["semantic"] = Step({}, {}, CandidateLimit, NoLimit, TRUE, covers)
        BY <4>5 DEF yes
      <4> HIDE DEF from, limit, complete
      <4> QED BY <4>2, <4>6
    <3>3. CASE First(q) # "semantic"
      BY <1>10, <3>1, <3>3, <1>6, <1>8
    <3> QED BY <3>2, <3>3
  <2>2. step \in {Step(from, from, limit, NoLimit, complete, covers), With(Step(from, from, limit, NoLimit, complete, covers))}
    BY <1>0, <1>3, <1>10, <2>1
  <2> HIDE DEF from, step, covers, complete, limit
  <2>3. /\ step.deps = from /\ step.from = from /\ step.limit = limit
        /\ step.covers \subseteq covers \cup {"INTENT", "LIMIT"}
    BY <2>2, <1>5
  <2> QED BY <2>3 DEF step, from, limit, covers
<1>11. ASSUME "graph" \in Retrievals(q)
      PROVE  /\ st["graph"].deps = st["graph"].from
             /\ st["graph"].from = IF First(q) = "graph" THEN {} ELSE GraphStep(q).from
             /\ st["graph"].limit = GraphStep(q).limit /\ st["graph"].keep = GraphStep(q).keep
             /\ st["graph"].covers \subseteq GraphStep(q).covers \cup {"INTENT", "LIMIT"}
  <2> DEFINE graph == GraphStep(q)
             from == IF First(q) = "graph" THEN {} ELSE graph.from
             complete == IF First(q) = "graph" THEN TRUE ELSE graph.complete
             step == st["graph"]
             moved == Step(from, from, graph.limit, graph.keep, complete, graph.covers)
  <2>0. graph = Step(graph.from, graph.from, graph.limit, graph.keep, graph.complete, graph.covers)
    BY DEF GraphStep, Step
  <2> HIDE DEF graph
  <2>1. ordered["graph"] = moved
    <3>1. retrieve["graph"] = graph
      BY <1>11, <1>8 DEF graph
    <3>2. CASE First(q) = "graph"
      BY <1>11, <2>0, <3>1, <3>2, <1>6 DEF Step
    <3>3. CASE First(q) # "graph"
      BY <1>11, <2>0, <3>1, <3>3, <1>6
    <3> QED BY <3>2, <3>3
  <2>2. step \in {moved, With(moved)}
    BY <1>0, <1>3, <1>11, <2>1
  <2> HIDE DEF from, step, complete
  <2>3. /\ step.deps = from /\ step.from = from /\ step.limit = graph.limit /\ step.keep = graph.keep
        /\ step.covers \subseteq graph.covers \cup {"INTENT", "LIMIT"}
    BY <2>2, <1>5
  <2> QED BY <2>3 DEF step, from, graph
<1>12. ASSUME "lookup" \in Retrievals(q)
      PROVE  st["lookup"].deps = {} /\ st["lookup"].from = {} /\ st["lookup"].covers \subseteq {"ENTITY", "INTENT", "LIMIT"}
  <2> DEFINE step == st["lookup"]
             complete == FALSE
             covers == Required(q) \cap {"ENTITY"}
  <2>1. ordered["lookup"] = Step({}, {}, NoLimit, NoLimit, complete, covers)
    BY <1>12, <1>2, <1>6, <1>8 DEF LookupStep
  <2>2. step \in {Step({}, {}, NoLimit, NoLimit, complete, covers), With(Step({}, {}, NoLimit, NoLimit, complete, covers))}
    BY <1>0, <1>3, <1>12, <2>1
  <2> HIDE DEF step, complete
  <2>3. step.deps = {} /\ step.from = {} /\ step.covers \subseteq covers \cup {"INTENT", "LIMIT"}
    BY <2>2, <1>5
  <2> QED BY <2>3 DEF step
<1>13. ASSUME "question" \in Retrievals(q)
      PROVE  st["question"].deps = {} /\ st["question"].from = {} /\ st["question"].covers \subseteq {"INTENT", "LIMIT"}
  <2> DEFINE step == st["question"]
             complete == FALSE
  <2>1. ordered["question"] = Step({}, {}, NoLimit, NoLimit, complete, {})
    BY <1>13, <1>2, <1>6, <1>8
  <2>2. step \in {Step({}, {}, NoLimit, NoLimit, complete, {}), With(Step({}, {}, NoLimit, NoLimit, complete, {}))}
    BY <1>0, <1>3, <1>13, <2>1
  <2> HIDE DEF step, complete
  <2>3. step.deps = {} /\ step.from = {} /\ step.covers \subseteq {} \cup {"INTENT", "LIMIT"}
    BY <2>2, <1>5
  <2> QED BY <2>3 DEF step
<1>14. ASSUME "merge" \in DOMAIN SupervisorSteps(q)
      PROVE  /\ st["merge"].deps = Retrievals(q) /\ st["merge"].limit = q.limit
             /\ st["merge"].complete = ("SORT" \in q.asks \/ Paths(q) # {})
             /\ st["merge"].covers \subseteq {"INTENT", "LIMIT"}
  <2> DEFINE step == st["merge"]
             complete == "SORT" \in q.asks \/ Paths(q) # {}
             merge == Step(Retrievals(q), {}, q.limit, NoLimit, complete, {})
  <2>1. step \in {merge, With(merge)}
    BY <1>0, <1>4, <1>14, Zenon DEF MergeStep
  <2> HIDE DEF step, complete
  <2>2. /\ step.deps = Retrievals(q) /\ step.limit = q.limit /\ step.complete = complete
        /\ step.covers \subseteq {} \cup {"INTENT", "LIMIT"}
    BY <2>1, <1>5
  <2> QED BY <2>2 DEF step, complete
<1> QED BY <1>0, <1>9, <1>10, <1>11, <1>12, <1>13, <1>14 DEF Fields

\* The rule plan is one retrieval of the relational store.
LEMMA RuleShape ==
  ASSUME NEW q, q \in Query, WellFormed(q), RuleRoute(q)
  PROVE  /\ Shaped(q, Steps(q)) /\ Waits(q, Steps(q)) /\ Limited(q, Steps(q))
         /\ Paths(q) = {} /\ q.semantic = "none" /\ q.relations = "none" /\ ~q.unresolved /\ NeedsRdb(q)
<1>1. Steps(q) = [s \in {"rdb"} |-> Step({}, {}, q.limit, NoLimit, FALSE, Required(q))]
  BY DEF Steps, CreatePlan, RulePlan
<1>2. /\ DOMAIN Steps(q) = {"rdb"}
      /\ Steps(q)["rdb"].deps = {} /\ Steps(q)["rdb"].from = {} /\ Steps(q)["rdb"].limit = q.limit
  BY <1>1 DEF Step
<1>3. Paths(q) = {} /\ q.semantic = "none" /\ q.relations = "none" /\ ~q.unresolved
  BY DEF RuleRoute, Paths
<1>4. NeedsRdb(q)
  BY <1>3 DEF RuleRoute, NeedsRdb, EntityIds, RelationOnlyIdentity, HasRelations, WellFormed
<1>5. Shaped(q, Steps(q))
  BY <1>2, <1>3, <1>4 DEF Shaped, Retrieval, GraphPlanned
<1>6. Waits(q, Steps(q)) /\ Limited(q, Steps(q))
  BY <1>2 DEF Waits, Limited
<1> QED BY <1>3, <1>4, <1>5, <1>6

LEMMA SupervisorShape ==
  ASSUME NEW q, q \in Query, WellFormed(q), ~RuleRoute(q)
  PROVE  Shaped(q, Steps(q)) /\ Waits(q, Steps(q)) /\ Limited(q, Steps(q))
<1> DEFINE st == SupervisorSteps(q)
           R == Retrievals(q)
<1>1. Steps(q) = st
  BY DEF Steps, CreatePlan, SupervisorPlan
<1>0. st = SupervisorSteps(q) /\ R = Retrievals(q)
  OBVIOUS
<1> HIDE DEF st, R
<1>8. Fields(q, st)
  BY <1>0, SupervisorFields
<1>2. DOMAIN st \in {R, R \cup {"merge"}} /\ R \subseteq Retrieval /\ R # {} /\ "merge" \notin R
  BY <1>0, SupervisorDomain, RetrievalsAreFinite DEF Retrieval
<1>3. Shaped(q, st)
  BY <1>0, <1>2, SupervisorDomain, RetrievalsAreFinite DEF Shaped, Retrieval
<1>4. /\ First(q) = "graph" => NeedsRdb(q) /\ Paths(q) # {} /\ GraphPlanned(q)
      /\ First(q) = "semantic" => NeedsRdb(q) /\ q.semantic # "none"
      /\ First(q) \in {"none", "graph", "semantic"}
  BY DEF First, GraphFirst, SemanticFirst, GraphPlanned
<1>5. /\ GraphStep(q).from \in {{}, {"rdb"}, {"semantic"}}
      /\ GraphPlanned(q) /\ q.semantic = "none" /\ ~NeedsRdb(q) =>
           IF Paths(q) = {"PATH1"} THEN GraphStep(q).limit = q.limit /\ GraphStep(q).keep = NoLimit
                                   ELSE GraphStep(q).keep = q.limit
  <2>1. GraphStep(q).from \in {{}, {"rdb"}, {"semantic"}}
    BY DEF GraphStep, Step
  <2>2. Cardinality({"PATH1"}) = 1 /\ Cardinality({"PATH1", "PATH2"}) = 2
    <3>1. {"PATH1", "PATH2"} = {"PATH1"} \cup {"PATH2"}
      OBVIOUS
    <3>2. IsFiniteSet({"PATH1"}) /\ Cardinality({"PATH1"}) = 1 /\ "PATH2" \notin {"PATH1"}
      BY FS_Singleton
    <3>3. Cardinality({"PATH1"} \cup {"PATH2"}) = 1 + 1
      BY <3>2, FS_AddElement
    <3> QED BY <3>1, <3>2, <3>3
  <2>3. Paths(q) \in {{}, {"PATH1"}, {"PATH1", "PATH2"}}
    BY DEF Paths
  <2>4. ASSUME GraphPlanned(q), q.semantic = "none", ~NeedsRdb(q)
        PROVE  IF Paths(q) = {"PATH1"} THEN GraphStep(q).limit = q.limit /\ GraphStep(q).keep = NoLimit
                                       ELSE GraphStep(q).keep = q.limit
    <3>1. Paths(q) # {}
      BY <2>4 DEF GraphPlanned
    <3>2. CASE Paths(q) = {"PATH1"}
      BY <2>2, <2>4, <3>2 DEF GraphStep, Step
    <3>3. CASE Paths(q) = {"PATH1", "PATH2"}
      BY <2>2, <2>4, <3>3 DEF GraphStep, Step
    <3> QED BY <2>3, <3>1, <3>2, <3>3
  <2> QED BY <2>1, <2>4
<1>6. Waits(q, st)
  <2>1. "rdb" \in DOMAIN st =>
          /\ st["rdb"].from = st["rdb"].deps
          /\ st["rdb"].from \in {{}} \cup {{s} : s \in {x \in {"graph", "semantic"} \cap DOMAIN st : st[x].from = {}}}
    <3> SUFFICES ASSUME "rdb" \in R
                 PROVE  /\ st["rdb"].from = st["rdb"].deps
                        /\ st["rdb"].from \in {{}} \cup {{s} : s \in {x \in {"graph", "semantic"} \cap DOMAIN st : st[x].from = {}}}
      BY <1>2
    <3>1. st["rdb"].from = (IF First(q) = "none" THEN {} ELSE {First(q)}) /\ st["rdb"].deps = st["rdb"].from
      BY <1>0, <1>8 DEF Fields
    <3>2. First(q) = "graph" => "graph" \in R /\ st["graph"].from = {}
      BY <1>0, <1>4, RetrievalsAreFinite, <1>8 DEF Fields
    <3>3. First(q) = "semantic" => "semantic" \in R /\ st["semantic"].from = {}
      BY <1>0, <1>4, RetrievalsAreFinite, <1>8 DEF Fields
    <3> QED BY <1>2, <1>4, <3>1, <3>2, <3>3
  <2>2. "semantic" \in DOMAIN st => st["semantic"].from = st["semantic"].deps /\ st["semantic"].from \in {{}, {"rdb"}}
    BY <1>0, <1>2, <1>8 DEF Fields
  <2>3. "graph" \in DOMAIN st => st["graph"].from = st["graph"].deps /\ st["graph"].from \in {{}, {"rdb"}, {"semantic"}}
    BY <1>0, <1>2, <1>5, <1>8 DEF Fields
  <2>4. \A s \in {"lookup", "question"} \cap DOMAIN st : st[s].from = {} /\ st[s].deps = {}
    BY <1>0, <1>2, <1>8 DEF Fields
  <2>5. "merge" \in DOMAIN st =>
          /\ st["merge"].deps = DOMAIN st \ {"merge"} /\ st["merge"].limit = q.limit
          /\ st["merge"].complete = ("SORT" \in q.asks \/ Paths(q) # {})
    BY <1>0, <1>2, <1>8 DEF Fields
  <2>6. \A s \in DOMAIN st \ {"merge"} : s \in Retrieval
    BY <1>2
  <2> QED BY <2>1, <2>2, <2>3, <2>4, <2>5, <2>6 DEF Waits, Retrieval
<1>7. Limited(q, st)
  <2>1. ASSUME DOMAIN st = {"rdb"}, q.relations # "unlisted"
        PROVE  st["rdb"].limit = q.limit
    <3>1. NeedsRdb(q) /\ q.semantic = "none" /\ ~GraphPlanned(q)
      BY <1>3, <2>1 DEF Shaped
    <3>2. q.relations \in {"none", "unlisted", "one", "two"}
      BY DEF Query
    <3>3. q.relations = "none"
      BY <2>1, <3>1, <3>2 DEF GraphPlanned, Paths
    <3> QED BY <1>0, <1>2, <2>1, <3>1, <3>3, <1>8 DEF Fields, RdbLimit, HasRelations
  <2>2. ASSUME DOMAIN st = {"semantic"}
        PROVE  st["semantic"].limit = q.limit
    <3>1. ~NeedsRdb(q)
      BY <1>3, <2>2 DEF Shaped
    <3> QED BY <1>0, <1>2, <1>4, <2>2, <3>1, <1>8 DEF Fields
  <2>3. ASSUME DOMAIN st = {"graph"}
        PROVE  IF Paths(q) = {"PATH1"} THEN st["graph"].limit = q.limit /\ st["graph"].keep = NoLimit
                                       ELSE st["graph"].keep = q.limit
    <3>1. ~NeedsRdb(q) /\ q.semantic = "none" /\ GraphPlanned(q)
      BY <1>3, <2>3 DEF Shaped
    <3> QED BY <1>0, <1>2, <1>5, <2>3, <3>1, <1>8 DEF Fields
  <2>4. q.limit \in Nat /\ CandidateLimit \in Nat /\ NoLimit \in Nat
    BY CandidateLimitAssumption DEF Query, NoLimit
  <2>5. "semantic" \in DOMAIN st => st["semantic"].limit \in Nat
    BY <1>0, <1>2, <1>8, <2>4 DEF Fields
  <2>6. GraphStep(q).limit \in Nat /\ GraphStep(q).keep \in Nat
    BY <2>4 DEF GraphStep, Step
  <2>7. "graph" \in DOMAIN st => st["graph"].limit \in Nat /\ st["graph"].keep \in Nat
    BY <1>0, <1>2, <1>8, <2>6 DEF Fields
  <2> QED BY <2>1, <2>2, <2>3, <2>5, <2>7 DEF Limited
<1> QED BY <1>1, <1>3, <1>6, <1>7

LEMMA PlanShape ==
  ASSUME NEW q, q \in Query, WellFormed(q)
  PROVE  Shaped(q, Steps(q)) /\ Waits(q, Steps(q)) /\ Limited(q, Steps(q))
BY RuleShape, SupervisorShape

\* Who claims a constraint of an accepted plan.
LEMMA PlanClaims ==
  ASSUME NEW q, q \in Query, WellFormed(q), Accepted(q, CreatePlan(q))
  PROVE  /\ \A c \in Material(q) \cap Columns :
              NeedsRdb(q) \/ (c = "TYPE" /\ (q.semantic # "none" \/ (q.bond /\ GraphPlanned(q))))
         /\ Material(q) \cap {"PATH1", "PATH2"} # {} => GraphPlanned(q)
         /\ Material(q) \cap {"PATH1", "PATH2"} = Paths(q)
         /\ "question" \in DOMAIN Steps(q) => Material(q) = {}
<1>1. CASE RuleRoute(q)
  <2>1. Material(q) \cap {"PATH1", "PATH2"} = {}
    BY <1>1, RuleShape DEF Material, Query, Columns
  <2> QED BY <1>1, <2>1, RuleShape DEF Shaped
<1>2. CASE ~RuleRoute(q)
  <2> DEFINE st == SupervisorSteps(q)
             R == Retrievals(q)
  <2>1. st = SupervisorSteps(q) /\ R = Retrievals(q)
    OBVIOUS
  <2>2. Steps(q) = st /\ CreatePlan(q).steps = st
    BY <1>2 DEF Steps, CreatePlan, SupervisorPlan
  <2> HIDE DEF st, R
  <2>3. Fields(q, st)
    BY <2>1, SupervisorFields
  <2>4. Shaped(q, st)
    BY <2>2, PlanShape
  <2>5. Required(q) \subseteq UNION {st[s].covers : s \in DOMAIN st}
    BY <2>2 DEF Accepted, Covered
  <2>6. \A c \in Material(q) : c \notin {"INTENT", "LIMIT"} /\ c \in Required(q)
    BY DEF Material, Required, Query, Columns, Paths
  <2>7. DOMAIN st \subseteq R \cup {"merge"} /\ R \subseteq Retrieval
    BY <2>1, SupervisorDomain, RetrievalsAreFinite
  <2>8. /\ NeedsRdb(q) <=> "rdb" \in R
        /\ q.semantic # "none" <=> "semantic" \in R
        /\ GraphPlanned(q) <=> "graph" \in R
        /\ "question" \in R => R = {"question"}
    BY <2>1, RetrievalsAreFinite
  <2>16. /\ "rdb" \in R => st["rdb"].covers \subseteq (Columns \cup {"ENTITY"}) \cup {"INTENT", "LIMIT"}
         /\ "semantic" \in R => st["semantic"].covers \subseteq {"SEMANTIC", "INTENT", "LIMIT"} \cup (IF NeedsRdb(q) THEN {} ELSE {"TYPE"})
         /\ "graph" \in R => st["graph"].covers \subseteq GraphStep(q).covers \cup {"INTENT", "LIMIT"}
         /\ "lookup" \in R => st["lookup"].covers \subseteq {"ENTITY", "INTENT", "LIMIT"}
         /\ "question" \in R => st["question"].covers \subseteq {"INTENT", "LIMIT"}
    BY <2>1, <2>3 DEF Fields
  <2>9. ASSUME NEW c \in Material(q)
        PROVE  \/ "rdb" \in R /\ c \in Columns \cup {"ENTITY"}
               \/ "semantic" \in R /\ (c = "SEMANTIC" \/ (c = "TYPE" /\ ~NeedsRdb(q)))
               \/ "graph" \in R /\ c \in GraphStep(q).covers
               \/ "lookup" \in R /\ c = "ENTITY"
    <3>1. PICK s \in DOMAIN st : c \in st[s].covers
      BY <2>5, <2>6
    <3>2. CASE s = "rdb"
      BY <3>1, <3>2, <2>6, <2>7, <2>16
    <3>3. CASE s = "semantic"
      BY <3>1, <3>3, <2>6, <2>7, <2>16
    <3>4. CASE s = "graph"
      BY <3>1, <3>4, <2>6, <2>7, <2>16
    <3>5. CASE s = "lookup"
      BY <3>1, <3>5, <2>6, <2>7, <2>16
    <3>6. CASE s = "question"
      BY <3>1, <3>6, <2>6, <2>7, <2>16
    <3>7. CASE s = "merge"
      BY <3>1, <3>7, <2>3, <2>6 DEF Fields
    <3> QED BY <2>7, <3>2, <3>3, <3>4, <3>5, <3>6, <3>7 DEF Retrieval
  <2>10. GraphStep(q).covers \subseteq Paths(q) \cup {"ENTITY"} \cup (IF q.bond THEN {"TYPE"} ELSE {})
    BY DEF GraphStep, Step
  <2>11. Paths(q) \subseteq {"PATH1", "PATH2"} /\ Paths(q) \subseteq Material(q)
    BY DEF Paths, Material
  <2>12. \A c \in Material(q) \cap {"PATH1", "PATH2"} : "graph" \in R /\ c \in Paths(q)
    BY <2>9, <2>10 DEF Columns
  <2>13. \A c \in Material(q) \cap Columns : NeedsRdb(q) \/ (c = "TYPE" /\ (q.semantic # "none" \/ (q.bond /\ GraphPlanned(q))))
    BY <2>8, <2>9, <2>10, <2>11 DEF Columns
  <2>14. "question" \in R => Material(q) = {}
    BY <2>8, <2>9
  <2>15. "question" \in DOMAIN st => "question" \in R
    BY <2>7
  <2> QED BY <2>2, <2>8, <2>11, <2>12, <2>13, <2>14, <2>15
<1> QED BY <1>1, <1>2

--------------------------------------------------------------------------------
(* What the steps of a plan record. *)

\* The members of C that satisfy the constraints of K, in stores S.
Sat(S, C, K) == {e \in C : \A c \in K : e \in S[c]}

Selecting(q) == (q.asks \cap {"TYPE", "FILTER"}) \cup (IF EntityIds(q) THEN {"ENTITY"} ELSE {})
Ranking(q) == Selecting(q) \cup (q.asks \cap {"SORT"})
Indexing(q) == {"SEMANTIC"} \cup (q.asks \cap {"TYPE"})
Following(q) == Paths(q) \cup (IF SourceIds(q) THEN {"ENTITY"} ELSE {})

RdbWindowOf(step) == Lesser(IF step.limit = NoLimit THEN RdbDefault ELSE step.limit, RdbMax)

\* The result r of a step over the candidates C.
RdbKept(q, S, step, r, C) ==
  /\ r.ids = Lowest(RdbWindowOf(step), Sat(S, C, Ranking(q)))
  /\ r.complete => r.ids = Sat(S, C, Ranking(q))
  /\ r.total \in Nat /\ (r.total = 0 => Sat(S, C, Selecting(q)) = {})

SemanticKept(q, S, step, r, C) ==
  /\ r.ids \subseteq Sat(S, C, Indexing(q))
  /\ r.complete => r.ids = Sat(S, C, Indexing(q))
  /\ r.ids = {} => r.complete
  /\ r.total = 0 => r.complete /\ r.ids = {}
  /\ step.limit # NoLimit => Cardinality(r.ids) <= step.limit

GraphKept(q, S, step, r, C) ==
  /\ r.ids \subseteq Sat(S, C, Following(q))
  /\ r.complete => r.ids = Sat(S, C, Following(q))
  /\ r.total = 0 => Sat(S, C, Following(q)) = {}
  /\ step.keep # NoLimit => Cardinality(r.ids) <= step.keep
  /\ step.keep = NoLimit /\ step.limit # NoLimit /\ Paths(q) = {"PATH1"} => Cardinality(r.ids) <= step.limit

MergeKept(q, r, C) ==
  /\ r.ids \subseteq C
  /\ r.total = NoTotal
  /\ q.limit = NoLimit => r.ids = C
  /\ q.limit # NoLimit => Cardinality(r.ids) <= q.limit
  /\ q.limit # NoLimit /\ "SORT" \in q.asks => r.ids = Lowest(q.limit, C)

Bound(st, R, s) == {e \in Entities : \A d \in st[s].from : e \in R[d].ids}
Merged(st, R) == {e \in Entities : \A d \in st["merge"].deps : e \in R[d].ids}

\* What r is when step s records it after the results R.
Kept(q, S, st, R, s, r) ==
  /\ \A d \in st[s].deps : d \in DOMAIN R /\ R[d].status = "SUCCESS"
  /\ s = "rdb" => (\A d \in st[s].from : R[d].complete) /\ RdbKept(q, S, st[s], r, Bound(st, R, s))
  /\ s = "semantic" => SemanticKept(q, S, st[s], r, Bound(st, R, s))
  /\ s = "graph" => GraphKept(q, S, st[s], r, Bound(st, R, s))
  /\ s = "merge" => (st[s].complete => \A d \in st[s].deps : R[d].complete) /\ MergeKept(q, r, Merged(st, R))

Sound(q, S, st, R, s, r) ==
  /\ r.ids \subseteq Entities
  /\ r.status = "SUCCESS" => Kept(q, S, st, R, s, r)
  /\ r.status # "SUCCESS" => r.total = NoTotal /\ r.ids = {}

Recorded(q, S, st, R) ==
  /\ DOMAIN R \subseteq DOMAIN st
  /\ \A s \in DOMAIN R : Sound(q, S, st, R, s, R[s])

\* What a step recorded stands whatever others record after it.
LEMMA RecordedStays ==
  ASSUME NEW q, NEW S, NEW st, NEW R, NEW s, NEW r, NEW Q,
         \A t \in DOMAIN st : st[t].from \subseteq st[t].deps,
         Recorded(q, S, st, R), s \in DOMAIN st \ DOMAIN R, Sound(q, S, st, R, s, r),
         Q = [t \in DOMAIN R \cup {s} |-> IF t = s THEN r ELSE R[t]]
  PROVE  Recorded(q, S, st, Q)
<1>1. DOMAIN Q = DOMAIN R \cup {s} /\ Q[s] = r /\ \A t \in DOMAIN R : Q[t] = R[t]
  OBVIOUS
<1>2. ASSUME NEW t \in DOMAIN st, NEW u, Sound(q, S, st, R, t, u)
      PROVE  Sound(q, S, st, Q, t, u)
  <2> SUFFICES ASSUME u.status = "SUCCESS" PROVE Kept(q, S, st, Q, t, u)
    BY <1>2 DEF Sound
  <2>1. Kept(q, S, st, R, t, u)
    BY <1>2 DEF Sound
  <2>2. \A d \in st[t].deps : d \in DOMAIN R /\ R[d].status = "SUCCESS" /\ Q[d] = R[d] /\ d \in DOMAIN Q
    BY <1>1, <2>1 DEF Kept
  <2>3. \A d \in st[t].from : Q[d] = R[d]
    BY <2>2
  <2>4. Bound(st, Q, t) = Bound(st, R, t)
    BY <2>3 DEF Bound
  <2>5. t = "merge" => Merged(st, Q) = Merged(st, R)
    BY <2>2 DEF Merged
  <2> QED BY <2>1, <2>2, <2>3, <2>4, <2>5 DEF Kept
<1> QED BY <1>1, <1>2 DEF Recorded

\* A plan that is run.
Planned ==
  /\ query \in Query /\ WellFormed(query)
  /\ steps = Steps(query) /\ Accepted(query, CreatePlan(query))
  /\ store \in Contents(query)

\* One step records what it may.
Records(s) ==
  /\ s \in DOMAIN steps \ DOMAIN results
  /\ \E r : Record(s, r) /\ Sound(query, store, steps, results, s, r)

LEMMA EntitySets ==
  ASSUME NEW T, T \subseteq Entities
  PROVE  IsFiniteSet(T) /\ Cardinality(T) \in Nat /\ T \subseteq Nat /\ (Cardinality(T) = 0 <=> T = {})
BY EntitiesAssumption, FS_Subset, FS_CardinalityType, FS_EmptySet

LEMMA WindowsArePositive ==
  /\ RdbDefault \in Nat \ {0} /\ RdbMax \in Nat \ {0} /\ BM25TopK \in Nat \ {0} /\ BM25Candidates \in Nat \ {0}
  /\ VectorTopK \in Nat \ {0} /\ GraphWindow \in Nat \ {0}
BY WindowsAssumption DEF Windows

LEMMA PlannedShape ==
  ASSUME Planned
  PROVE  /\ Shaped(query, steps) /\ Waits(query, steps) /\ Limited(query, steps)
         /\ \A t \in DOMAIN steps : steps[t].from \subseteq steps[t].deps /\ steps[t].deps \subseteq DOMAIN steps
<1>1. Shaped(query, steps) /\ Waits(query, steps) /\ Limited(query, steps)
  BY PlanShape DEF Planned
<1>2. WellBound(steps)
  BY DEF Planned, Accepted, Steps
<1> QED BY <1>1, <1>2 DEF WellBound

LEMMA SkipRecords ==
  ASSUME Planned, NEW s \in DOMAIN steps, Skip(s) \/ Unavailable(s)
  PROVE  Records(s)
BY DEF Skip, Unavailable, Run, Ready, Records, Sound, Skipped, Failed, Result

LEMMA WordsRecord ==
  ASSUME Planned, NEW s \in {"lookup", "question"}, RunWords(s)
  PROVE  Records(s)
<1>1. PICK hits \in SUBSET Entities, complete \in BOOLEAN : Record(s, Found(hits, complete))
  BY DEF RunWords
<1>2. Ready(s) /\ Succeeded(steps[s].deps)
  BY DEF RunWords, Run
<1>3. Sound(query, store, steps, results, s, Found(hits, complete))
  BY <1>2 DEF Sound, Kept, Found, Success, Result, Ready, Succeeded
<1> QED BY <1>1, <1>2, <1>3 DEF Records, Ready

LEMMA RdbRecords ==
  ASSUME Planned, RunRdb
  PROVE  Records("rdb")
<1> DEFINE bound == (query.asks \cap {"TYPE", "FILTER"}) \cup (IF EntityIds(query) THEN {"ENTITY"} ELSE {})
           filtered == Matching(Candidates("rdb"), bound)
           rankable == Matching(filtered, query.asks \cap {"SORT"})
           ids == Lowest(RdbWindow, rankable)
           r == Success(ids, ids = rankable, Cardinality(filtered))
           C == Bound(steps, results, "rdb")
<1>1. Ready("rdb") /\ Succeeded(steps["rdb"].deps)
  BY DEF RunRdb, Run
<1>2. CASE ~RdbCandidatesComplete
  <2>1. Record("rdb", Failed)
    BY <1>2 DEF RunRdb
  <2> QED BY <1>1, <2>1 DEF Records, Sound, Failed, Result, Ready
<1>3. CASE RdbCandidatesComplete
  <2>1. Record("rdb", r)
    BY <1>3, Zenon DEF RunRdb
  <2>2. Candidates("rdb") = C
    BY DEF Candidates, Bound
  <2>3. filtered = Sat(store, C, Selecting(query)) /\ rankable = Sat(store, C, Ranking(query))
    BY <2>2 DEF Matching, Sat, Selecting, Ranking
  <2>4. filtered \subseteq Entities /\ rankable \subseteq Entities
    BY <2>2 DEF Matching, Bound
  <2>5. RdbWindow = RdbWindowOf(steps["rdb"])
    BY DEF RdbWindow, RdbWindowOf
  <2>6. ids \subseteq Entities
    BY <2>4 DEF Lowest
  <2> HIDE DEF filtered, rankable
  <2>7. r.status = "SUCCESS" /\ r.ids = ids /\ r.complete = (ids = rankable) /\ r.total = Cardinality(filtered)
    BY DEF Success, Result
  <2>8. Cardinality(filtered) \in Nat /\ (Cardinality(filtered) = 0 => filtered = {})
    BY <2>4, EntitySets
  <2> HIDE DEF r, ids, C
  <2>9. ids = Lowest(RdbWindow, rankable)
    BY DEF ids
  <2>10. RdbKept(query, store, steps["rdb"], r, C)
    BY <2>3, <2>5, <2>7, <2>8, <2>9 DEF RdbKept
  <2>11. \A d \in steps["rdb"].from : results[d].complete
    BY <1>3 DEF RdbCandidatesComplete
  <2>12. Sound(query, store, steps, results, "rdb", r)
    BY <1>1, <2>6, <2>7, <2>10, <2>11 DEF Sound, Kept, Ready, Succeeded, C
  <2> QED BY <1>1, <2>1, <2>12 DEF Records, Ready
<1> QED BY <1>2, <1>3

LEMMA MergeRecords ==
  ASSUME Planned, Merge
  PROVE  Records("merge")
<1>1. Ready("merge") /\ Succeeded(steps["merge"].deps)
  BY DEF Merge, Run
<1>2. CASE steps["merge"].complete /\ ~MergeInputsComplete
  <2>1. Record("merge", Failed)
    BY <1>2 DEF Merge
  <2> QED BY <1>1, <2>1 DEF Records, Sound, Failed, Result, Ready
<1>3. CASE ~(steps["merge"].complete /\ ~MergeInputsComplete)
  <2>1. PICK T \in Selections(Common) : Record("merge", Success(T, FALSE, NoTotal))
    BY <1>3 DEF Merge
  <2> DEFINE r == Success(T, FALSE, NoTotal)
  <2>2. r.ids = T /\ r.total = NoTotal /\ r.status = "SUCCESS"
    BY DEF Success, Result
  <2>3. Common = Merged(steps, results) /\ Common \subseteq Entities
    BY DEF Common, Merged
  <2>4. query.limit \in Nat
    BY DEF Planned, Query
  <2>5. MergeKept(query, r, Common)
    <3>1. CASE query.limit = NoLimit
      <4>1. Selections(Common) = {Common}
        BY <3>1, Zenon DEF Selections
      <4>2. T = Common
        BY <2>1, <4>1
      <4> QED BY <2>2, <3>1, <4>2 DEF MergeKept
    <3>2. CASE query.limit # NoLimit /\ "SORT" \in query.asks
      <4>1. T = Lowest(query.limit, Common)
        BY <2>1, <3>2 DEF Selections
      <4>2. T \subseteq Common /\ Cardinality(T) = Lesser(query.limit, Cardinality(Common)) /\ Cardinality(Common) \in Nat
        BY <2>3, <2>4, <4>1, EntitySets, LowestMembers
      <4>3. Cardinality(T) <= query.limit
        BY <2>4, <4>2 DEF Lesser
      <4> QED BY <2>2, <3>2, <4>1, <4>2, <4>3 DEF MergeKept
    <3>3. CASE query.limit # NoLimit /\ "SORT" \notin query.asks
      <4>1. T \in kSubset(Lesser(query.limit, Cardinality(Common)), Common)
        BY <2>1, <3>3 DEF Selections
      <4>2. T \subseteq Common /\ Cardinality(T) = Lesser(query.limit, Cardinality(Common)) /\ Cardinality(Common) \in Nat
        BY <2>3, <4>1, EntitySets DEF kSubset
      <4>3. Cardinality(T) <= query.limit
        BY <2>4, <4>2 DEF Lesser
      <4> QED BY <2>2, <3>3, <4>2, <4>3 DEF MergeKept
    <3> QED BY <3>1, <3>2, <3>3
  <2> HIDE DEF r
  <2>6. steps["merge"].complete => \A d \in steps["merge"].deps : results[d].complete
    BY <1>3 DEF MergeInputsComplete
  <2>7. T \subseteq Entities
    BY <2>2, <2>3, <2>5 DEF MergeKept
  <2>8. Sound(query, store, steps, results, "merge", r)
    BY <1>1, <2>2, <2>3, <2>5, <2>6, <2>7 DEF Sound, Kept, Ready, Succeeded
  <2> QED BY <1>1, <2>1, <2>8 DEF Records, Ready, r
<1> QED BY <1>2, <1>3

\* The hits of a window of at least one, and what is known of them.
LEMMA HitsRecord ==
  ASSUME Planned, Ready("semantic"), Succeeded(steps["semantic"].deps),
         NEW T, T = Sat(store, Bound(steps, results, "semantic"), Indexing(query)),
         NEW window \in Nat, window # 0,
         steps["semantic"].limit # NoLimit => window <= steps["semantic"].limit,
         NEW hits \in kSubset(Lesser(window, Cardinality(T)), T),
         NEW all \in BOOLEAN, all => hits = T, hits = {} /\ T = {} => all,
         Record("semantic", Found(hits, all))
  PROVE  Records("semantic")
<1> DEFINE r == Found(hits, all)
           C == Bound(steps, results, "semantic")
<1>1. T \subseteq Entities
  BY DEF Sat, Bound
<1>2. hits \subseteq T /\ Cardinality(hits) = Lesser(window, Cardinality(T)) /\ IsFiniteSet(T) /\ Cardinality(T) \in Nat
      /\ (Cardinality(T) = 0 <=> T = {})
  BY <1>1, EntitySets DEF kSubset
<1>3. Cardinality(hits) <= window /\ (hits = {} => T = {})
  <2>1. Cardinality(hits) <= window
    BY <1>2 DEF Lesser
  <2>2. ASSUME hits = {} PROVE T = {}
    <3>1. Cardinality(hits) = 0
      BY <2>2, FS_EmptySet
    <3> QED BY <1>2, <3>1 DEF Lesser
  <2> QED BY <2>1, <2>2
<1>4. /\ r.ids = hits /\ r.complete = all /\ r.status = "SUCCESS"
      /\ r.total = IF all THEN Cardinality(hits) ELSE NoTotal
  BY DEF Found, Success, Result
<1>5. hits \subseteq Entities
  BY <1>1, <1>2
<1>6. Cardinality(hits) \in Nat /\ (Cardinality(hits) = 0 <=> hits = {})
  BY <1>5, EntitySets
<1>7. steps["semantic"].limit \in Nat
  BY PlannedShape DEF Limited, Ready
<1> HIDE DEF r
<1>8. r.total = 0 => all /\ hits = {}
  BY <1>4, <1>6 DEF NoTotal
<1>9. steps["semantic"].limit # NoLimit => Cardinality(hits) <= steps["semantic"].limit
  BY <1>3, <1>6, <1>7
<1>10. SemanticKept(query, store, steps["semantic"], r, C)
  BY <1>2, <1>3, <1>4, <1>8, <1>9 DEF SemanticKept
<1>11. Sound(query, store, steps, results, "semantic", r)
  BY <1>4, <1>5, <1>10 DEF Sound, Kept, Ready, Succeeded
<1> QED BY <1>11 DEF Records, Ready, r

LEMMA WindowBounds ==
  ASSUME NEW asked \in Nat, NEW configured \in Nat \ {0}
  PROVE  /\ Window(asked, configured) \in Nat /\ Window(asked, configured) # 0
         /\ asked # NoLimit => Window(asked, configured) <= asked
BY DEF Window, Lesser, NoLimit

LEMMA BM25Records ==
  ASSUME Planned, RunBM25
  PROVE  Records("semantic")
<1> DEFINE T == Matching(Candidates("semantic"), {"SEMANTIC"} \cup (query.asks \cap {"TYPE"}))
           configured == IF steps["semantic"].complete THEN BM25Candidates ELSE BM25TopK
           window == Window(steps["semantic"].limit, configured)
<1>1. Ready("semantic") /\ Succeeded(steps["semantic"].deps)
  BY DEF RunBM25, Run
<1>2. PICK hits \in kSubset(Lesser(window, Cardinality(T)), T) : Record("semantic", Found(hits, hits = T))
  BY Zenon DEF RunBM25
<1>3. T = Sat(store, Bound(steps, results, "semantic"), Indexing(query))
  BY DEF Matching, Sat, Candidates, Bound, Indexing
<1>4. steps["semantic"].limit \in Nat /\ configured \in Nat \ {0}
  BY <1>1, PlannedShape, WindowsArePositive DEF Limited, Ready
<1>5. window \in Nat /\ window # 0 /\ (steps["semantic"].limit # NoLimit => window <= steps["semantic"].limit)
  BY <1>4, WindowBounds
<1> DEFINE all == hits = T
<1>6. all \in BOOLEAN /\ (all => hits = T) /\ (hits = {} /\ T = {} => all) /\ Record("semantic", Found(hits, all))
  BY <1>2
<1> HIDE DEF T, window, all
<1> QED BY <1>1, <1>2, <1>3, <1>5, <1>6, HitsRecord

LEMMA VectorRecords ==
  ASSUME Planned, RunVector
  PROVE  Records("semantic")
<1> DEFINE T == Matching(Candidates("semantic"), {"SEMANTIC"} \cup (query.asks \cap {"TYPE"}))
           window == Window(steps["semantic"].limit, VectorTopK)
<1>1. Ready("semantic") /\ Succeeded(steps["semantic"].deps)
  BY DEF RunVector, Run
<1>2. PICK hits \in kSubset(Lesser(window, Cardinality(T)), T) : Record("semantic", Found(hits, hits = {}))
  BY Zenon DEF RunVector
<1>3. T = Sat(store, Bound(steps, results, "semantic"), Indexing(query))
  BY DEF Matching, Sat, Candidates, Bound, Indexing
<1>4. steps["semantic"].limit \in Nat /\ VectorTopK \in Nat \ {0}
  BY <1>1, PlannedShape, WindowsArePositive DEF Limited, Ready
<1>5. window \in Nat /\ window # 0 /\ (steps["semantic"].limit # NoLimit => window <= steps["semantic"].limit)
  BY <1>4, WindowBounds
<1>6. T \subseteq Entities
  BY <1>3 DEF Sat, Bound
<1> DEFINE all == hits = {}
<1> HIDE DEF T, window
<1>7. hits = {} => hits = T
  <2>1. Cardinality(T) \in Nat /\ (Cardinality(T) = 0 <=> T = {})
    BY <1>6, EntitySets
  <2>2. hits = {} => Cardinality(hits) = 0
    BY FS_EmptySet
  <2>3. Cardinality(hits) = Lesser(window, Cardinality(T))
    BY <2>1, <1>2, <1>6, EntitySets DEF kSubset
  <2> QED BY <1>5, <2>1, <2>2, <2>3 DEF Lesser
<1>8. all \in BOOLEAN /\ (all => hits = T) /\ (hits = {} /\ T = {} => all) /\ Record("semantic", Found(hits, all))
  BY <1>2, <1>7
<1> HIDE DEF all
<1> QED BY <1>1, <1>2, <1>3, <1>5, <1>8, HitsRecord

LEMMA PathNumber ==
  ASSUME NEW q
  PROVE  /\ Paths(q) \in {{}, {"PATH1"}, {"PATH1", "PATH2"}}
         /\ Cardinality(Paths(q)) = 1 <=> Paths(q) = {"PATH1"}
<1>1. Paths(q) \in {{}, {"PATH1"}, {"PATH1", "PATH2"}}
  BY DEF Paths
<1>2. IsFiniteSet(Paths(q))
  <2>1. IsFiniteSet({"PATH1"}) /\ IsFiniteSet({"PATH1", "PATH2"})
    BY FS_Singleton, FS_AddElement
  <2> QED BY <1>1, <2>1, FS_EmptySet
<1>3. Cardinality(Paths(q)) = 1 <=> \E p : Paths(q) = {p}
  BY <1>2, FS_Singleton
<1> QED BY <1>1, <1>3

\* The rows of a set of entities: at least one for each.
LEMMA RowsCount ==
  ASSUME NEW T, T \subseteq Entities
  PROVE  Rows(T) \in Nat /\ Cardinality(T) \in Nat /\ Cardinality(T) <= Rows(T) /\ (Rows(T) = 0 => T = {})
<1>1. T \cap twice \subseteq Entities
  OBVIOUS
<1>2. Cardinality(T) \in Nat /\ Cardinality(T \cap twice) \in Nat /\ (Cardinality(T) = 0 => T = {})
  BY <1>1, EntitySets
<1> QED BY <1>2 DEF Rows

LEMMA GraphRecords ==
  ASSUME Planned, RunGraph
  PROVE  Records("graph")
<1> DEFINE step == steps["graph"]
           P == Paths(query)
           C == Bound(steps, results, "graph")
           window == Window(step.limit, GraphWindow)
           complete == \A p \in P : Rows(Reached(p)) <= window
           T == Sat(store, C, Following(query))
           Both(shown) == {e \in Entities : \A p \in P : e \in shown[p]}
           Ids(shown) == IF step.keep = NoLimit THEN Both(shown) ELSE Lowest(step.keep, Both(shown))
           total == IF Cardinality(P) = 1 THEN Rows(Reached("PATH1"))
                    ELSE IF \A p \in P : Reached(p) = {} THEN 0 ELSE NoTotal
<1>1. Ready("graph") /\ Succeeded(steps["graph"].deps)
  BY DEF RunGraph, Run
<1>2. CASE ~(\A p \in P : Compiles(p)) \/ (step.complete /\ ~complete)
  <2>1. Record("graph", Failed)
    BY <1>2, Zenon DEF RunGraph
  <2> QED BY <1>1, <2>1 DEF Records, Sound, Failed, Result, Ready
<1>3. CASE ~(~(\A p \in P : Compiles(p)) \/ (step.complete /\ ~complete))
  <2>1. PICK shown \in [P -> SUBSET Entities] :
          /\ \A p \in P : shown[p] \in Shown(p, window)
          /\ Record("graph", Success(Ids(shown), complete /\ Ids(shown) = Both(shown), total))
    BY <1>3, Zenon DEF RunGraph
  <2> DEFINE both == Both(shown)
             ids == Ids(shown)
             all == complete /\ ids = both
             r == Success(ids, all, total)
  <2>2. GraphPlanned(query) /\ step.limit \in Nat /\ step.keep \in Nat
    BY <1>1, PlannedShape DEF Shaped, Limited, Ready
  <2>3. P # {} /\ P \in {{"PATH1"}, {"PATH1", "PATH2"}} /\ (Cardinality(P) = 1 <=> P = {"PATH1"})
    BY <2>2, PathNumber DEF GraphPlanned
  <2>4. window \in Nat /\ (step.limit # NoLimit => window <= step.limit)
    BY <2>2, WindowsArePositive, WindowBounds
  <2>5. \A p : Reached(p) = Sat(store, C, {p} \cup (IF SourceIds(query) THEN {"ENTITY"} ELSE {})) /\ Reached(p) \subseteq Entities
    BY DEF Reached, Matching, Sat, Candidates, Bound
  <2>6. \A p \in P : Rows(Reached(p)) \in Nat /\ Cardinality(Reached(p)) \in Nat
                     /\ Cardinality(Reached(p)) <= Rows(Reached(p)) /\ (Rows(Reached(p)) = 0 => Reached(p) = {})
    BY <2>5, RowsCount
  <2>7. \A p \in P : shown[p] \subseteq Reached(p) /\ Cardinality(shown[p]) <= window
                     /\ (Rows(Reached(p)) <= window => shown[p] = Reached(p))
    <3> SUFFICES ASSUME NEW p \in P
                 PROVE  shown[p] \subseteq Reached(p) /\ Cardinality(shown[p]) <= window
                        /\ (Rows(Reached(p)) <= window => shown[p] = Reached(p))
      OBVIOUS
    <3>1. shown[p] \in Shown(p, window)
      BY <2>1
    <3> HIDE DEF window
    <3>2. CASE Rows(Reached(p)) <= window
      <4>1. shown[p] = Reached(p)
        BY <3>1, <3>2 DEF Shown
      <4>2. Cardinality(shown[p]) <= window
        BY <2>4, <2>6, <3>2, <4>1
      <4> QED BY <4>1, <4>2
    <3>3. CASE ~(Rows(Reached(p)) <= window)
      BY <3>1, <3>3 DEF Shown
    <3> QED BY <3>2, <3>3
  <2>8. T = {e \in Entities : \A p \in P : e \in Reached(p)}
    <3>1. \A e : e \in T <=> e \in C /\ \A c \in Following(query) : e \in store[c]
      BY DEF Sat
    <3>2. \A e, p : e \in Reached(p) <=> e \in C /\ e \in store[p] /\ (SourceIds(query) => e \in store["ENTITY"])
      BY <2>5 DEF Sat
    <3>3. \A c : c \in Following(query) <=> c \in P \/ (SourceIds(query) /\ c = "ENTITY")
      BY DEF Following
    <3>4. C \subseteq Entities
      BY DEF Bound
    <3> HIDE DEF T, C, P
    <3> QED BY <2>3, <3>1, <3>2, <3>3, <3>4
  <2>9. both \subseteq T /\ (complete => both = T)
    <3>1. \A e : e \in both <=> e \in Entities /\ \A p \in P : e \in shown[p]
      OBVIOUS
    <3>2. \A e : e \in T <=> e \in Entities /\ \A p \in P : e \in Reached(p)
      BY <2>8
    <3>3. complete => \A p \in P : shown[p] = Reached(p)
      BY <2>7
    <3>4. \A p \in P : shown[p] \subseteq Reached(p)
      BY <2>7
    <3> HIDE DEF both, T, complete, P
    <3> QED BY <3>1, <3>2, <3>3, <3>4
  <2>10. T \subseteq Entities /\ both \subseteq Entities
    BY <2>8
  <2>11. ids \subseteq both /\ (step.keep # NoLimit => Cardinality(ids) <= step.keep)
    <3>1. CASE step.keep = NoLimit
      BY <3>1
    <3>2. CASE step.keep # NoLimit
      <4>1. ids = Lowest(step.keep, both)
        BY <3>2
      <4>2. IsFiniteSet(both) /\ both \subseteq Nat /\ Cardinality(both) \in Nat
        BY <2>10, EntitySets
      <4> HIDE DEF ids, both
      <4>3. ids \subseteq both /\ Cardinality(ids) = Lesser(step.keep, Cardinality(both))
        BY <2>2, <4>1, <4>2, LowestMembers
      <4> QED BY <2>2, <4>2, <4>3 DEF Lesser
    <3> QED BY <3>1, <3>2
  <2>12. step.keep = NoLimit /\ step.limit # NoLimit /\ P = {"PATH1"} => Cardinality(ids) <= step.limit
    <3> SUFFICES ASSUME step.keep = NoLimit, step.limit # NoLimit, P = {"PATH1"}
                 PROVE  Cardinality(ids) <= step.limit
      OBVIOUS
    <3>1. ids = shown["PATH1"]
      BY <2>1
    <3>2. Cardinality(ids) <= window /\ window <= step.limit
      BY <2>4, <2>7, <3>1
    <3>3. Cardinality(ids) \in Nat
      BY <2>10, <2>11, EntitySets
    <3> HIDE DEF ids, window
    <3> QED BY <2>2, <2>4, <3>2, <3>3
  <2>13. total = 0 => T = {}
    <3> SUFFICES ASSUME total = 0 PROVE T = {}
      OBVIOUS
    <3>1. CASE P = {"PATH1"}
      <4>1. Rows(Reached("PATH1")) = 0
        BY <2>3, <3>1
      <4>2. Reached("PATH1") = {}
        BY <2>6, <3>1, <4>1
      <4> QED BY <2>8, <3>1, <4>2
    <3>2. CASE P # {"PATH1"}
      <4>1. \A p \in P : Reached(p) = {}
        BY <2>3, <3>2 DEF NoTotal
      <4> QED BY <2>3, <2>8, <4>1
    <3> QED BY <3>1, <3>2
  <2>14. r.ids = ids /\ r.complete = all /\ r.total = total /\ r.status = "SUCCESS"
    BY DEF Success, Result
  <2>15. Record("graph", r)
    BY <2>1
  <2>16. all => complete /\ ids = both
    OBVIOUS
  <2> HIDE DEF r, ids, both, all, complete, total, T, window
  <2>17. r.ids \subseteq T /\ (r.complete => r.ids = T) /\ (r.total = 0 => T = {})
    BY <2>9, <2>11, <2>13, <2>14, <2>16
  <2>18. GraphKept(query, store, step, r, C)
    BY <2>11, <2>12, <2>14, <2>17 DEF GraphKept, T
  <2>19. r.ids \subseteq Entities
    BY <2>10, <2>17
  <2> HIDE DEF C
  <2>20. Sound(query, store, steps, results, "graph", r)
    BY <1>1, <2>14, <2>18, <2>19 DEF Sound, Kept, Ready, Succeeded, C
  <2> QED BY <1>1, <2>15, <2>20 DEF Records, Ready
<1> QED BY <1>2, <1>3

--------------------------------------------------------------------------------
(* A finished set of results. *)

Finished ==
  /\ Planned
  /\ Recorded(query, store, steps, results)
  /\ DOMAIN results = DOMAIN steps

\* The steps of an accepted plan test every constraint between them.
LEMMA TestedByTheSteps ==
  ASSUME Planned, ~query.unresolved, MentionApplied(query), NEW e,
         "rdb" \in DOMAIN steps => \A c \in Ranking(query) : e \in store[c],
         "semantic" \in DOMAIN steps => \A c \in Indexing(query) : e \in store[c],
         "graph" \in DOMAIN steps => \A c \in Following(query) : e \in store[c],
         NEW c \in Decided(query)
  PROVE  e \in store[c]
<1>1. /\ "rdb" \in DOMAIN steps <=> NeedsRdb(query)
      /\ "semantic" \in DOMAIN steps <=> query.semantic # "none"
      /\ "graph" \in DOMAIN steps <=> GraphPlanned(query)
  BY PlannedShape DEF Shaped
<1>2. /\ \A x \in Material(query) \cap Columns :
           NeedsRdb(query) \/ (x = "TYPE" /\ (query.semantic # "none" \/ (query.bond /\ GraphPlanned(query))))
      /\ Material(query) \cap {"PATH1", "PATH2"} # {} => GraphPlanned(query)
      /\ Material(query) \cap {"PATH1", "PATH2"} = Paths(query)
  BY PlanClaims DEF Planned
<1>3. query.asks \subseteq Columns /\ query.mention \in Mentions /\ WellFormed(query)
  BY DEF Planned, Query
<1>4. c \in Material(query) /\ c # "FIELD"
  BY DEF Decided
<1>5. Paths(query) # {} => "PATH1" \in Paths(query)
  BY PathNumber
<1>6. /\ query.mention = "target" => store["ENTITY"] = store["PATH1"]
      /\ query.bond => store["PATH1"] \subseteq store["TYPE"]
  BY DEF Planned, Contents
<1>7. CASE c \in Columns
  <2>1. c \in query.asks /\ c \in {"TYPE", "FILTER", "SORT"}
    BY <1>3, <1>4, <1>7 DEF Columns, Material, Paths
  <2>2. CASE NeedsRdb(query)
    BY <1>1, <2>1, <2>2 DEF Ranking, Selecting
  <2>3. CASE c = "TYPE" /\ query.semantic # "none"
    BY <1>1, <2>1, <2>3 DEF Indexing
  <2>4. CASE c = "TYPE" /\ query.bond /\ GraphPlanned(query)
    <3>1. "PATH1" \in Following(query)
      BY <1>5, <2>4 DEF GraphPlanned, Following
    <3> QED BY <1>1, <1>6, <2>4, <3>1
  <2> QED BY <1>2, <1>4, <1>7, <2>2, <2>3, <2>4
<1>8. CASE c \in {"PATH1", "PATH2"}
  BY <1>1, <1>2, <1>4, <1>8 DEF Following
<1>9. CASE c = "SEMANTIC"
  <2>1. query.semantic # "none"
    BY <1>3, <1>4, <1>9 DEF Material, Columns, Paths
  <2> QED BY <1>1, <1>9, <2>1 DEF Indexing
<1>10. CASE c = "ENTITY"
  <2>1. query.mention # "none"
    BY <1>3, <1>4, <1>10 DEF Material, Columns, Paths
  <2>2. CASE query.mention = "target"
    <3>1. Paths(query) # {}
      BY <1>3, <2>2 DEF WellFormed
    <3>2. "PATH1" \in Following(query) /\ GraphPlanned(query)
      BY <1>2, <1>5, <3>1 DEF Following
    <3> QED BY <1>1, <1>6, <1>10, <2>2, <3>2
  <2>3. CASE EntityIds(query) /\ NeedsRdb(query)
    BY <1>1, <1>10, <2>3 DEF Ranking, Selecting
  <2>4. CASE SourceIds(query) /\ GraphPlanned(query)
    BY <1>1, <1>10, <2>4 DEF Following
  <2> QED BY <2>1, <2>2, <2>3, <2>4 DEF MentionApplied
<1>11. c \in Columns \cup {"PATH1", "PATH2", "SEMANTIC", "ENTITY"}
  BY <1>3, <1>4 DEF Material, Paths
<1> QED BY <1>7, <1>8, <1>9, <1>10, <1>11

\* What a step tests is asked for.
LEMMA OnlyConstraints ==
  ASSUME Planned
  PROVE  /\ Selecting(query) \subseteq Ranking(query) /\ Ranking(query) \subseteq Decided(query)
         /\ query.semantic # "none" => Indexing(query) \subseteq Decided(query)
         /\ Following(query) \subseteq Decided(query)
<1>1. query.asks \subseteq Columns
  BY DEF Planned, Query
<1>2. EntityIds(query) \/ SourceIds(query) => "ENTITY" \in Decided(query)
  BY DEF EntityIds, SourceIds, Decided, Material
<1>3. Paths(query) \subseteq Decided(query)
  BY DEF Decided, Material, Paths
<1>4. query.asks \cap {"TYPE", "FILTER", "SORT"} \subseteq Decided(query)
  BY DEF Decided, Material
<1>5. query.semantic # "none" => "SEMANTIC" \in Decided(query)
  BY DEF Decided, Material
<1> QED BY <1>2, <1>3, <1>4, <1>5 DEF Selecting, Ranking, Indexing, Following

\* What a successful step found satisfies what the step tests.
LEMMA FoundSatisfies ==
  ASSUME Finished, NEW s \in DOMAIN steps, results[s].status = "SUCCESS", NEW e \in results[s].ids
  PROVE  /\ s = "rdb" => \A c \in Ranking(query) : e \in store[c]
         /\ s = "semantic" => \A c \in Indexing(query) : e \in store[c]
         /\ s = "graph" => \A c \in Following(query) : e \in store[c]
         /\ e \in Entities
<1>1. Kept(query, store, steps, results, s, results[s]) /\ e \in Entities
  BY DEF Finished, Recorded, Sound
<1>2. CASE s = "rdb"
  BY <1>1, <1>2 DEF Kept, RdbKept, Lowest, Sat
<1>3. CASE s = "semantic"
  BY <1>1, <1>3 DEF Kept, SemanticKept, Sat
<1>4. CASE s = "graph"
  BY <1>1, <1>4 DEF Kept, GraphKept, Sat
<1> QED BY <1>1, <1>2, <1>3, <1>4

\* A complete result bound to nothing that misses a qualified entity misses none.
LEMMA CompleteFindsAll ==
  ASSUME Finished, NEW s \in DOMAIN steps \cap {"rdb", "semantic", "graph"},
         results[s].status = "SUCCESS", results[s].complete,
         Qualified \subseteq Bound(steps, results, s)
  PROVE  Qualified \subseteq results[s].ids
<1>1. Kept(query, store, steps, results, s, results[s])
  BY DEF Finished, Recorded, Sound
<1>2. \A e \in Qualified : e \in Bound(steps, results, s) /\ \A c \in Decided(query) : e \in store[c]
  BY DEF Qualified, Matching
<1>3. /\ Ranking(query) \subseteq Decided(query)
      /\ s = "semantic" => Indexing(query) \subseteq Decided(query)
      /\ Following(query) \subseteq Decided(query)
  BY OnlyConstraints, PlannedShape DEF Finished, Shaped
<1>4. CASE s = "rdb"
  BY <1>1, <1>2, <1>3, <1>4 DEF Kept, RdbKept, Sat
<1>5. CASE s = "semantic"
  BY <1>1, <1>2, <1>3, <1>5 DEF Kept, SemanticKept, Sat
<1>6. CASE s = "graph"
  BY <1>1, <1>2, <1>3, <1>6 DEF Kept, GraphKept, Sat
<1> QED BY <1>4, <1>5, <1>6

\* What no finding objects to.
LEMMA WithoutFindings ==
  ASSUME Finished, Findings = {}
  PROVE  /\ \A s \in DOMAIN steps : results[s].status = "SUCCESS"
         /\ ~query.unresolved
         /\ "lookup" \notin DOMAIN steps
         /\ "merge" \in DOMAIN steps =>
              /\ Evidence = results["merge"].ids
              /\ MergeKept(query, results["merge"], Merged(steps, results))
              /\ steps["merge"].complete => \A s \in DOMAIN steps \ {"merge"} : results[s].complete
         /\ "merge" \notin DOMAIN steps => \E s \in Retrieval : DOMAIN steps = {s} /\ Evidence = results[s].ids
         /\ \A e \in Evidence, s \in DOMAIN steps \ {"merge"} : e \in results[s].ids
<1>1. (\A s \in DOMAIN steps : results[s].status = "SUCCESS") /\ ~query.unresolved
  BY DEF Findings, Succeeded
<1>2. Shaped(query, steps) /\ Waits(query, steps)
  BY PlannedShape DEF Finished
<1>3. "lookup" \notin DOMAIN steps
  BY <1>1, <1>2 DEF Shaped
<1>4. ASSUME "merge" \in DOMAIN steps
      PROVE  /\ Evidence = results["merge"].ids
             /\ MergeKept(query, results["merge"], Merged(steps, results))
             /\ steps["merge"].complete => \A s \in DOMAIN steps \ {"merge"} : results[s].complete
             /\ \A e \in Evidence, s \in DOMAIN steps \ {"merge"} : e \in results[s].ids
  <2>1. Evidence = results["merge"].ids
    BY <1>1, <1>4 DEF Evidence
  <2>2. Kept(query, store, steps, results, "merge", results["merge"])
    BY <1>1, <1>4 DEF Finished, Recorded, Sound
  <2>3. steps["merge"].deps = DOMAIN steps \ {"merge"}
    BY <1>2, <1>4 DEF Waits
  <2>4. MergeKept(query, results["merge"], Merged(steps, results)) /\ (steps["merge"].complete => \A d \in steps["merge"].deps : results[d].complete)
    BY <2>2 DEF Kept
  <2>5. \A e \in results["merge"].ids, s \in steps["merge"].deps : e \in results[s].ids
    BY <2>4 DEF MergeKept, Merged
  <2> QED BY <2>1, <2>3, <2>4, <2>5
<1>5. ASSUME "merge" \notin DOMAIN steps
      PROVE  \E s \in Retrieval : DOMAIN steps = {s} /\ Evidence = results[s].ids
  <2>1. PICK s \in Retrieval : DOMAIN steps = {s}
    BY <1>2, <1>5 DEF Shaped
  <2>2. Evidence = UNION {results[t].ids : t \in {s}}
    BY <1>5, <2>1 DEF Evidence
  <2> QED BY <2>1, <2>2
<1> QED BY <1>1, <1>3, <1>4, <1>5

LEMMA EvidenceQualifies ==
  ASSUME Finished, Findings = {}, MentionApplied(query)
  PROVE  Evidence \subseteq Qualified
<1> SUFFICES ASSUME NEW e \in Evidence PROVE e \in Qualified
  OBVIOUS
<1>1. \A s \in DOMAIN steps \ {"merge"} : results[s].status = "SUCCESS" /\ e \in results[s].ids
  BY WithoutFindings
<1>2. e \in Entities
  <2>1. \A s \in DOMAIN steps : results[s].ids \subseteq Entities
    BY DEF Finished, Recorded, Sound
  <2>2. CASE "merge" \in DOMAIN steps
    BY <2>1, <2>2, WithoutFindings
  <2>3. CASE "merge" \notin DOMAIN steps
    BY <2>1, <2>3, WithoutFindings
  <2> QED BY <2>2, <2>3
<1>3. /\ "rdb" \in DOMAIN steps => \A c \in Ranking(query) : e \in store[c]
      /\ "semantic" \in DOMAIN steps => \A c \in Indexing(query) : e \in store[c]
      /\ "graph" \in DOMAIN steps => \A c \in Following(query) : e \in store[c]
  BY <1>1, FoundSatisfies
<1>4. \A c \in Decided(query) : e \in store[c]
  BY <1>3, TestedByTheSteps, WithoutFindings DEF Finished
<1> QED BY <1>2, <1>4 DEF Qualified, Matching

LEMMA EvidenceWithinLimit ==
  ASSUME Finished, Findings = {}, query.limit # NoLimit, Decided(query) # {}
  PROVE  Cardinality(Evidence) <= query.limit
<1>1. CASE "merge" \in DOMAIN steps
  BY <1>1, WithoutFindings DEF MergeKept
<1>2. CASE "merge" \notin DOMAIN steps
  <2>1. PICK s \in Retrieval : DOMAIN steps = {s} /\ Evidence = results[s].ids
    BY <1>2, WithoutFindings
  <2>2. Kept(query, store, steps, results, s, results[s]) /\ s # "lookup"
    BY <2>1, WithoutFindings DEF Finished, Recorded, Sound
  <2>3. Limited(query, steps) /\ Shaped(query, steps)
    BY PlannedShape DEF Finished
  <2>4. query.limit \in Nat
    BY DEF Finished, Planned, Query
  <2>5. /\ Material(query) \cap {"PATH1", "PATH2"} = Paths(query)
        /\ "question" \in DOMAIN steps => Material(query) = {}
    BY PlanClaims DEF Finished, Planned
  <2>6. CASE s = "rdb"
    <3>1. query.relations # "unlisted"
      BY <2>5 DEF Material, Paths
    <3>2. steps["rdb"].limit = query.limit
      BY <2>1, <2>3, <2>6, <3>1 DEF Limited
    <3> DEFINE T == Sat(store, Bound(steps, results, "rdb"), Ranking(query))
               k == Lesser(query.limit, RdbMax)
    <3>3. results["rdb"].ids = Lowest(k, T)
      BY <2>2, <2>6, <3>2 DEF Kept, RdbKept, RdbWindowOf, Finished
    <3>4. T \subseteq Entities /\ k \in Nat /\ k <= query.limit
      BY <2>4, WindowsArePositive DEF Sat, Bound, Lesser
    <3>5. IsFiniteSet(T) /\ Cardinality(T) \in Nat /\ T \subseteq Nat
      BY <3>4, EntitySets
    <3> HIDE DEF T, k
    <3>6. Cardinality(Lowest(k, T)) = Lesser(k, Cardinality(T))
      BY <3>4, <3>5, LowestMembers
    <3> QED BY <2>1, <2>4, <2>6, <3>3, <3>4, <3>5, <3>6 DEF Lesser
  <2>7. CASE s = "semantic"
    BY <2>1, <2>2, <2>3, <2>7 DEF Limited, Kept, SemanticKept
  <2>8. CASE s = "graph"
    BY <2>1, <2>2, <2>3, <2>8 DEF Limited, Kept, GraphKept
  <2>9. CASE s = "question"
    BY <2>1, <2>5, <2>9 DEF Decided
  <2> QED BY <2>1, <2>2, <2>6, <2>7, <2>8, <2>9 DEF Retrieval
<1> QED BY <1>1, <1>2

\* Every candidate a relational step was bound to is complete.
LEMMA RdbSeesAll ==
  ASSUME Finished, "rdb" \in DOMAIN steps, results["rdb"].status = "SUCCESS"
  PROVE  Qualified \subseteq Bound(steps, results, "rdb")
<1>1. Waits(query, steps)
  BY PlannedShape DEF Finished
<1>2. Kept(query, store, steps, results, "rdb", results["rdb"])
  BY DEF Finished, Recorded, Sound
<1>3. Qualified \subseteq Entities
  BY DEF Qualified, Matching
<1>4. ASSUME NEW d \in steps["rdb"].from
      PROVE  Qualified \subseteq results[d].ids
  <2>1. d \in {"graph", "semantic"} \cap DOMAIN steps /\ steps[d].from = {}
    BY <1>1, <1>4 DEF Waits
  <2>2. steps["rdb"].from = steps["rdb"].deps
    BY <1>1 DEF Waits
  <2>3. results[d].complete /\ results[d].status = "SUCCESS"
    BY <1>2, <1>4, <2>2 DEF Kept
  <2>4. Qualified \subseteq Bound(steps, results, d)
    BY <1>3, <2>1 DEF Bound
  <2> QED BY <2>1, <2>3, <2>4, CompleteFindsAll
<1> QED BY <1>3, <1>4 DEF Bound

LEMMA ZeroMatchHolds ==
  ASSUME Finished, "ZERO_MATCH" \in Findings, ~query.unresolved, Decided(query) # {}
  PROVE  Qualified = {}
<1> SUFFICES ASSUME NEW e \in Qualified PROVE FALSE
  OBVIOUS
<1>1. Evidence = {} /\ Counted # {} /\ \A s \in Counted : results[s].total = 0
  BY DEF Findings, ZeroMatch
<1>2. Shaped(query, steps) /\ Waits(query, steps)
  BY PlannedShape DEF Finished
<1>3. \A s \in Counted : s \in DOMAIN steps /\ results[s].status = "SUCCESS" /\ Kept(query, store, steps, results, s, results[s])
  BY DEF Counted, Finished, Recorded, Sound
<1>4. e \in Entities /\ \A c \in Decided(query) : e \in store[c]
  BY DEF Qualified, Matching
<1>5. /\ Selecting(query) \subseteq Decided(query)
      /\ "semantic" \in DOMAIN steps => Indexing(query) \subseteq Decided(query)
      /\ Following(query) \subseteq Decided(query)
  BY <1>2, OnlyConstraints DEF Finished, Shaped
<1>6. "rdb" \notin Counted
  <2> SUFFICES ASSUME "rdb" \in Counted PROVE FALSE
    OBVIOUS
  <2>1. RdbKept(query, store, steps["rdb"], results["rdb"], Bound(steps, results, "rdb")) /\ results["rdb"].total = 0
    BY <1>1, <1>3 DEF Kept
  <2>2. Sat(store, Bound(steps, results, "rdb"), Selecting(query)) = {}
    BY <2>1 DEF RdbKept
  <2>3. e \in Bound(steps, results, "rdb")
    BY <1>3, RdbSeesAll
  <2> QED BY <1>4, <1>5, <2>2, <2>3 DEF Sat
<1>7. ASSUME NEW s \in DOMAIN steps, results[s].status = "SUCCESS", "rdb" \in steps[s].deps
      PROVE  FALSE
  <2>1. Kept(query, store, steps, results, s, results[s])
    BY <1>7 DEF Finished, Recorded, Sound
  <2>2. "rdb" \in DOMAIN steps /\ results["rdb"].status = "SUCCESS"
    BY <1>7, <2>1 DEF Kept, Finished
  <2>3. results["rdb"].total \in Nat
    BY <2>2 DEF Finished, Recorded, Sound, Kept, RdbKept
  <2> QED BY <1>6, <2>2, <2>3 DEF Counted, NoTotal
<1>8. ASSUME "semantic" \in DOMAIN steps, results["semantic"].status = "SUCCESS", results["semantic"].complete
      PROVE  e \in results["semantic"].ids
  <2>1. steps["semantic"].from = {}
    BY <1>2, <1>7, <1>8 DEF Waits
  <2>2. Qualified \subseteq Bound(steps, results, "semantic")
    BY <2>1 DEF Qualified, Matching, Bound
  <2> QED BY <1>8, <2>2, CompleteFindsAll
<1>9. "semantic" \notin Counted
  <2> SUFFICES ASSUME "semantic" \in Counted PROVE FALSE
    OBVIOUS
  <2>1. SemanticKept(query, store, steps["semantic"], results["semantic"], Bound(steps, results, "semantic"))
        /\ results["semantic"].total = 0
    BY <1>1, <1>3 DEF Kept
  <2> QED BY <1>3, <1>8, <2>1 DEF SemanticKept
<1>10. "graph" \notin Counted
  <2> SUFFICES ASSUME "graph" \in Counted PROVE FALSE
    OBVIOUS
  <2>1. Kept(query, store, steps, results, "graph", results["graph"]) /\ results["graph"].total = 0 /\ "graph" \in DOMAIN steps
        /\ results["graph"].status = "SUCCESS"
    BY <1>1, <1>3
  <2>2. Sat(store, Bound(steps, results, "graph"), Following(query)) = {}
    BY <2>1 DEF Kept, GraphKept
  <2>3. steps["graph"].from \in {{}, {"semantic"}} /\ steps["graph"].from = steps["graph"].deps
    BY <1>2, <1>7, <2>1 DEF Waits
  <2>4. e \notin Bound(steps, results, "graph")
    BY <1>4, <1>5, <2>2 DEF Sat
  <2>5. steps["graph"].from = {"semantic"} /\ e \notin results["semantic"].ids
    BY <1>4, <2>3, <2>4 DEF Bound
  <2>6. "semantic" \in DOMAIN steps /\ results["semantic"].status = "SUCCESS"
    BY <2>1, <2>3, <2>5 DEF Kept, Finished
  <2>7. ~results["semantic"].complete /\ results["semantic"].ids # {}
    <3>1. SemanticKept(query, store, steps["semantic"], results["semantic"], Bound(steps, results, "semantic"))
      BY <2>6 DEF Finished, Recorded, Sound, Kept
    <3> QED BY <1>8, <2>5, <2>6, <3>1 DEF SemanticKept
  <2>8. "merge" \in DOMAIN steps /\ results["merge"].status = "SUCCESS"
    BY <1>1, <2>6, <2>7 DEF Evidence
  <2>9. steps["merge"].complete => results["semantic"].complete
    <3>1. Kept(query, store, steps, results, "merge", results["merge"])
      BY <2>8 DEF Finished, Recorded, Sound
    <3> QED BY <1>2, <2>6, <2>8, <3>1 DEF Kept, Waits
  <2>10. Paths(query) # {}
    BY <1>2, <2>1 DEF Shaped, GraphPlanned
  <2> QED BY <1>2, <2>7, <2>8, <2>9, <2>10 DEF Waits
<1>11. "merge" \notin Counted
  <2> SUFFICES ASSUME "merge" \in Counted PROVE FALSE
    OBVIOUS
  <2> QED BY <1>1, <1>3 DEF Kept, MergeKept, NoTotal
<1>12. "lookup" \notin DOMAIN steps
  BY <1>2 DEF Shaped
<1>13. "question" \notin DOMAIN steps
  BY PlanClaims DEF Finished, Planned, Decided
<1> QED BY <1>1, <1>2, <1>6, <1>9, <1>10, <1>11, <1>12, <1>13 DEF Counted, Shaped, Retrieval

\* T leads the order of everything that qualifies, as far as the question asks.
Leading(T) ==
  /\ \A e \in Qualified \ T : \A a \in T : a < e
  /\ query.limit # NoLimit => Cardinality(T) = Lesser(query.limit, Cardinality(Qualified))

LEMMA LowestLead ==
  ASSUME NEW k \in Nat, query.limit # NoLimit => k = query.limit
  PROVE  Leading(Lowest(k, Qualified))
<1>1. Qualified \subseteq Entities
  BY DEF Qualified, Matching
<1>2. IsFiniteSet(Qualified) /\ Qualified \subseteq Nat
  BY <1>1, EntitySets
<1> DEFINE Q == Qualified
<1> HIDE DEF Q
<1>3. IsFiniteSet(Q) /\ Q \subseteq Nat
  BY <1>2 DEF Q
<1>4. /\ \A e \in Q \ Lowest(k, Q) : \A a \in Lowest(k, Q) : a < e
      /\ Cardinality(Lowest(k, Q)) = Lesser(k, Cardinality(Q))
  BY <1>3, LowestMembers
<1> QED BY <1>4 DEF Leading, Q

LEMMA RankedEvidence ==
  ASSUME Finished, Findings = {}, MentionApplied(query), "SORT" \in query.asks, query.limit <= RdbMax
  PROVE  Leading(Evidence)
<1>1. Shaped(query, steps) /\ Waits(query, steps) /\ Limited(query, steps)
  BY PlannedShape DEF Finished
<1>2. "rdb" \in DOMAIN steps
  <2>1. "SORT" \in Material(query) \cap Columns
    BY DEF Material, Columns
  <2> QED BY <1>1, <2>1, PlanClaims DEF Shaped, Finished, Planned
<1>3. /\ \A s \in DOMAIN steps : results[s].status = "SUCCESS"
      /\ ~query.unresolved /\ "lookup" \notin DOMAIN steps
  BY WithoutFindings
<1>4. \A s \in DOMAIN steps : Kept(query, store, steps, results, s, results[s])
  BY <1>3 DEF Finished, Recorded, Sound
<1>5. query.limit \in Nat /\ RdbMax \in Nat \ {0} /\ RdbDefault \in Nat \ {0}
  BY WindowsArePositive DEF Finished, Planned, Query
<1>6. CASE "merge" \notin DOMAIN steps
  <2>1. DOMAIN steps = {"rdb"} /\ Evidence = results["rdb"].ids
    BY <1>2, <1>6, WithoutFindings
  <2>2. steps["rdb"].from = {}
    BY <1>1, <2>1 DEF Waits
  <2>3. query.relations # "unlisted"
    BY PlanClaims DEF Finished, Planned, Material, Paths
  <2>4. steps["rdb"].limit = query.limit
    BY <1>1, <2>1, <2>3 DEF Limited
  <2> DEFINE T == Sat(store, Bound(steps, results, "rdb"), Ranking(query))
             k == Lesser(IF query.limit = NoLimit THEN RdbDefault ELSE query.limit, RdbMax)
  <2>5. results["rdb"].ids = Lowest(k, T)
    BY <1>4, <2>1, <2>4 DEF Kept, RdbKept, RdbWindowOf
  <2>6. k \in Nat /\ (query.limit # NoLimit => k = query.limit)
    BY <1>5 DEF Lesser
  <2>7. T \subseteq Qualified
    <3> SUFFICES ASSUME NEW e \in T PROVE e \in Qualified
      OBVIOUS
    <3>1. e \in Entities /\ \A c \in Ranking(query) : e \in store[c]
      BY DEF Sat, Bound
    <3>2. \A c \in Decided(query) : e \in store[c]
      BY <1>3, <2>1, <3>1, TestedByTheSteps DEF Finished
    <3> QED BY <3>1, <3>2 DEF Qualified, Matching
  <2>8. Qualified \subseteq T
    <3>1. Ranking(query) \subseteq Decided(query)
      BY OnlyConstraints DEF Finished
    <3> QED BY <2>2, <3>1 DEF Qualified, Matching, Sat, Bound
  <2>9. T = Qualified
    BY <2>7, <2>8
  <2> HIDE DEF T, k
  <2> QED BY <2>1, <2>5, <2>6, <2>9, LowestLead
<1>7. CASE "merge" \in DOMAIN steps
  <2>1. /\ Evidence = results["merge"].ids
        /\ MergeKept(query, results["merge"], Merged(steps, results))
        /\ \A s \in DOMAIN steps \ {"merge"} : results[s].complete
    <3>1. steps["merge"].complete
      BY <1>1, <1>7 DEF Waits
    <3> QED BY <1>7, <3>1, WithoutFindings
  <2>2. steps["merge"].deps = DOMAIN steps \ {"merge"}
    BY <1>1, <1>7 DEF Waits
  <2>3. Qualified \subseteq results["rdb"].ids
    <3>1. Qualified \subseteq Bound(steps, results, "rdb")
      BY <1>2, <1>3, RdbSeesAll
    <3> QED BY <1>2, <1>3, <2>1, <3>1, CompleteFindsAll
  <2>4. Qualified \subseteq Entities
    BY DEF Qualified, Matching
  <2>5. "semantic" \in DOMAIN steps => Qualified \subseteq results["semantic"].ids
    <3> SUFFICES ASSUME "semantic" \in DOMAIN steps PROVE Qualified \subseteq results["semantic"].ids
      OBVIOUS
    <3>1. Qualified \subseteq Bound(steps, results, "semantic")
      BY <1>1, <2>3, <2>4 DEF Waits, Bound
    <3> QED BY <1>3, <2>1, <3>1, CompleteFindsAll
  <2>6. "graph" \in DOMAIN steps => Qualified \subseteq results["graph"].ids
    <3> SUFFICES ASSUME "graph" \in DOMAIN steps PROVE Qualified \subseteq results["graph"].ids
      OBVIOUS
    <3>1. steps["graph"].from \subseteq DOMAIN steps
      BY PlannedShape DEF Finished
    <3>2. Qualified \subseteq Bound(steps, results, "graph")
      BY <1>1, <2>3, <2>4, <2>5, <3>1 DEF Waits, Bound
    <3> QED BY <1>3, <2>1, <3>2, CompleteFindsAll
  <2>7. DOMAIN steps \ {"merge"} \subseteq {"rdb", "semantic", "graph"}
    BY <1>1, <1>2, <1>3, <1>7 DEF Shaped, Retrieval
  <2>8. Merged(steps, results) = Qualified
    <3>1. Qualified \subseteq Merged(steps, results)
      BY <2>2, <2>3, <2>4, <2>5, <2>6, <2>7 DEF Merged
    <3>2. Merged(steps, results) \subseteq Qualified
      <4> SUFFICES ASSUME NEW e \in Merged(steps, results) PROVE e \in Qualified
        OBVIOUS
      <4>1. e \in Entities /\ \A s \in DOMAIN steps \ {"merge"} : e \in results[s].ids
        BY <2>2 DEF Merged
      <4>2. /\ "rdb" \in DOMAIN steps => \A c \in Ranking(query) : e \in store[c]
            /\ "semantic" \in DOMAIN steps => \A c \in Indexing(query) : e \in store[c]
            /\ "graph" \in DOMAIN steps => \A c \in Following(query) : e \in store[c]
        BY <1>3, <4>1, FoundSatisfies
      <4>3. \A c \in Decided(query) : e \in store[c]
        BY <1>3, <4>2, TestedByTheSteps DEF Finished
      <4> QED BY <4>1, <4>3 DEF Qualified, Matching
    <3> QED BY <3>1, <3>2
  <2>9. CASE query.limit = NoLimit
    <3>1. Evidence = Qualified
      BY <2>1, <2>8, <2>9 DEF MergeKept
    <3> QED BY <2>9, <3>1 DEF Leading
  <2>10. CASE query.limit # NoLimit
    <3>1. Evidence = Lowest(query.limit, Qualified)
      BY <2>1, <2>8, <2>10 DEF MergeKept
    <3> QED BY <1>5, <2>10, <3>1, LowestLead
  <2> QED BY <2>9, <2>10
<1> QED BY <1>6, <1>7

--------------------------------------------------------------------------------
(* The invariant. *)

FederationInv ==
  /\ query \in Queries
  /\ phase \in {"received", "executing", "answered", "declined"}
  /\ phase = "received" => results = <<>> /\ reasons = {}
  /\ phase = "executing" => Planned /\ Recorded(query, store, steps, results) /\ reasons = {}
  /\ phase = "answered" => Finished /\ Findings = {} /\ answer = Evidence /\ reasons = {}
  /\ phase = "declined" => reasons = {"UNSUPPORTED"} \/ (Finished /\ reasons = Findings)

\* A step that records what it may keeps the results sound.
LEMMA RecordingKeeps ==
  ASSUME FederationInv, NEW s, Records(s), phase = "executing"
  PROVE  FederationInv'
<1>1. PICK r : Record(s, r) /\ Sound(query, store, steps, results, s, r)
  BY DEF Records
<1>2. Planned /\ Recorded(query, store, steps, results) /\ reasons = {}
  BY DEF FederationInv
<1>3. \A t \in DOMAIN steps : steps[t].from \subseteq steps[t].deps
  BY <1>2, PlannedShape
<1>4. s \in DOMAIN steps \ DOMAIN results
  BY DEF Records
<1>5. Recorded(query, store, steps, results')
  BY <1>1, <1>2, <1>3, <1>4, RecordedStays DEF Record
<1>6. UNCHANGED <<query, store, phase, steps, reasons, answer>>
  BY <1>1 DEF Record, given
<1>7. Planned'
  BY <1>2, <1>6 DEF Planned
<1>8. Recorded(query, store, steps, results)'
  BY <1>5, <1>6
<1> QED BY <1>2, <1>6, <1>7, <1>8 DEF FederationInv

LEMMA InvHolds == Spec => []FederationInv
<1>1. Init => FederationInv
  BY DEF Init, FederationInv
<1>2. FederationInv /\ [Next]_vars => FederationInv'
  <2> SUFFICES ASSUME FederationInv, [Next]_vars PROVE FederationInv'
    OBVIOUS
  <2>1. CASE Plan
    <3>1. query \in Query /\ WellFormed(query)
      BY QueriesAssumption DEF FederationInv
    <3>2. results = <<>> /\ reasons = {} /\ UNCHANGED <<query, results>>
      BY <2>1 DEF Plan, FederationInv
    <3>3. CASE Accepted(query, CreatePlan(query))
      <4>1. phase' = "executing" /\ store' \in Contents(query) /\ steps' = Steps(query) /\ reasons' = {}
        BY <2>1, <3>2, <3>3 DEF Plan, Steps
      <4>2. Planned'
        BY <3>1, <3>2, <3>3, <4>1 DEF Planned
      <4>3. Recorded(query, store, steps, results)'
        BY <3>2 DEF Recorded
      <4> QED BY <3>2, <4>1, <4>2, <4>3 DEF FederationInv
    <3>4. CASE ~Accepted(query, CreatePlan(query))
      BY <2>1, <3>2, <3>4 DEF Plan, FederationInv
    <3> QED BY <3>3, <3>4
  <2>2. ASSUME phase = "executing", \E s : Records(s)
        PROVE  FederationInv'
    BY <2>2, RecordingKeeps
  <2>3. phase = "executing" => Planned
    BY DEF FederationInv
  <2>4. CASE RunRdb
    BY <2>2, <2>3, <2>4, RdbRecords DEF RunRdb, Run, Ready
  <2>5. CASE RunBM25
    BY <2>2, <2>3, <2>5, BM25Records DEF RunBM25, Run, Ready
  <2>6. CASE RunVector
    BY <2>2, <2>3, <2>6, VectorRecords DEF RunVector, Run, Ready
  <2>7. CASE RunGraph
    BY <2>2, <2>3, <2>7, GraphRecords DEF RunGraph, Run, Ready
  <2>8. CASE Merge
    BY <2>2, <2>3, <2>8, MergeRecords DEF Merge, Run, Ready
  <2>9. CASE \E s \in {"lookup", "question"} : RunWords(s)
    BY <2>2, <2>3, <2>9, WordsRecord DEF RunWords, Run, Ready
  <2>10. CASE \E s \in DOMAIN steps : Skip(s) \/ Unavailable(s)
    BY <2>2, <2>3, <2>10, SkipRecords DEF Skip, Unavailable, Run, Ready
  <2>11. CASE Validate
    <3>1. phase = "executing" /\ DOMAIN results = DOMAIN steps /\ reasons' = Findings /\ UNCHANGED <<query, store, steps, results>>
      BY <2>11 DEF Validate, given
    <3>2. Finished /\ Finished'
      BY <3>1 DEF FederationInv, Finished, Planned
    <3>3. Evidence' = Evidence
      BY <3>1 DEF Evidence
    <3>4. Findings' = Findings
      <4>1. ZeroMatch' = ZeroMatch
        BY <3>1 DEF ZeroMatch, Counted
      <4> QED BY <3>1, <3>3, <4>1 DEF Findings, Succeeded
    <3>5. \/ Findings = {} /\ phase' = "answered" /\ answer' = Evidence
          \/ phase' = "declined"
      BY <2>11 DEF Validate
    <3> QED BY <3>1, <3>2, <3>3, <3>4, <3>5 DEF FederationInv
  <2>12. CASE UNCHANGED vars
    <3>1. UNCHANGED <<query, store, phase, steps, results, reasons, answer>>
      BY <2>12 DEF vars
    <3>2. Findings' = Findings /\ Evidence' = Evidence
      BY <3>1 DEF Findings, Succeeded, ZeroMatch, Counted, Evidence
    <3>3. (Planned' <=> Planned) /\ (Finished' <=> Finished)
      BY <3>1 DEF Planned, Finished
    <3> QED BY <3>1, <3>2, <3>3 DEF FederationInv
  <2>13. Ended => UNCHANGED vars
    BY DEF Ended
  <2> QED BY <2>1, <2>4, <2>5, <2>6, <2>7, <2>8, <2>9, <2>10, <2>11, <2>12, <2>13 DEF Next
<1> QED BY <1>1, <1>2, PTL DEF Spec

--------------------------------------------------------------------------------
(* What the answers promise. *)

\* Every constraint of an answered question holds of every answered entity,
\* whichever stores the plan visits and however small their windows are, where
\* the steps apply the mention of the question (supervisor.py:93-342,
\* transforms.py:69-94).
THEOREM AnswersMeet ==
  ASSUME Queries \subseteq {q \in Query : MentionApplied(q)}
  PROVE  Spec => []AnswersMeetEveryConstraint
<1>1. FederationInv => AnswersMeetEveryConstraint
  BY EvidenceQualifies DEF FederationInv, AnswersMeetEveryConstraint
<1> QED BY <1>1, InvHolds, PTL

\* A question with conditions is answered with at most the number it asks for,
\* whether the limit is applied by the relational store, the index, a path, an
\* intersection of paths or the merge (supervisor.py:102-105, 140-141, 203-221).
THEOREM AnswersLimited == Spec => []AnswersWithinLimit
<1>1. FederationInv => AnswersWithinLimit
  BY EvidenceWithinLimit DEF FederationInv, AnswersWithinLimit
<1> QED BY <1>1, InvHolds, PTL

\* That nothing matches is only said when nothing does, although each count is
\* over what earlier steps passed on (validator.py:693-719).
THEOREM ZeroMatchTrue == Spec => []ZeroMatchIsTrue
<1>1. FederationInv => ZeroMatchIsTrue
  BY ZeroMatchHolds DEF FederationInv, ZeroMatchIsTrue
<1> QED BY <1>1, InvHolds, PTL

\* The sorted answer leads the order of everything that qualifies: no window
\* of the graph or of the index hides a better ranked entity, as long as a
\* question asks for no more than the relational store returns at once
\* (rdb_v2.py:117-142, 746-749, transforms.py:43-67, validator.py:331-370).
THEOREM RankingGlobal ==
  ASSUME Queries \subseteq {q \in Query : MentionApplied(q) /\ q.limit <= RdbMax}
  PROVE  Spec => []RankedAnswersAreGlobal
<1>1. FederationInv => RankedAnswersAreGlobal
  BY RankedEvidence DEF FederationInv, RankedAnswersAreGlobal, Leading
<1> QED BY <1>1, InvHolds, PTL

================================================================================
