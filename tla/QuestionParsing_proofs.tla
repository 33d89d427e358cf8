------------------------ MODULE QuestionParsing_proofs -------------------------
(***************************************************************************)
(* Proofs about QuestionParsing for every set of questions and whatever a  *)
(* language model may propose for them. ParsedIsReviewed is inductive; the *)
(* three properties follow from it and from what a review guarantees.      *)
(***************************************************************************)
EXTENDS QuestionParsing, TLAPS

-----------------------------------------------------------------------------
(* The parse of a candidate *)

\* Normalization only adds constraints and leaves the boolean tree alone.
LEMMA NormalizeAdds ==
  ASSUME NEW q, NEW intent, NEW constraints, NEW residuals, NEW boolean, NEW semantic, NEW complete, NEW selectors
  PROVE LET p == Normalize(q, [intent |-> intent, constraints |-> constraints, residuals |-> residuals,
                               boolean |-> boolean, semantic |-> semantic, policies |-> {},
                               complete |-> complete], selectors)
        IN constraints \subseteq p.constraints /\ p.boolean = boolean /\ p.residuals = residuals
  BY DEF Normalize

\* Every item of a candidate becomes a constraint of its parse.
LEMMA ItemsAreStated ==
  ASSUME NEW q, NEW r, NEW c, NEW i \in c.items
  PROVE Stated(i) \in Restored(r, Convert(q, c)).constraints
<1> DEFINE p == Convert(q, c)
<1>1. Stated(i) \in p.constraints
  BY NormalizeAdds DEF Convert, Drafts
<1>2. p.constraints \subseteq Restored(r, p).constraints
  BY DEF Restored, Convert, Normalize
<1> QED BY <1>1, <1>2

LEMMA BooleanIsKept == ASSUME NEW q, NEW r, NEW c PROVE Restored(r, Convert(q, c)).boolean = c.boolean
<1>1. Convert(q, c).boolean = c.boolean
  BY NormalizeAdds DEF Convert
<1> QED BY <1>1 DEF Restored, Convert, Normalize

\* What is trusted of the rules is a constraint of the parse.
LEMMA TrustedIsRestored ==
  ASSUME NEW q, NEW r, NEW c, NEW x \in TrustedMaterial(r, Convert(q, c))
  PROVE x \in Restored(r, Convert(q, c)).constraints
  BY DEF Restored, Convert, Normalize

-----------------------------------------------------------------------------
(* Whatever is handed on was reviewed *)

THEOREM ParsingInvariant == Spec => []ParsedIsReviewed
<1>1. Init => ParsedIsReviewed
  BY DEF Init, ParsedIsReviewed
<1>2. ParsedIsReviewed /\ [Next]_vars => ParsedIsReviewed'
  <2> SUFFICES ASSUME ParsedIsReviewed, [Next]_vars PROVE ParsedIsReviewed'
    OBVIOUS
  <2>1. CASE ParseByRule
    <3>1. rule' = {Analyze(question)} /\ question' = question
      BY <2>1 DEF ParseByRule
    <3>2. parsed' \subseteq rule'
      BY <2>1 DEF ParseByRule
    <3> QED BY <3>1, <3>2 DEF ParsedIsReviewed
  <2>2. CASE Propose
    <3>1. question' = question /\ rule' = rule
      BY <2>2 DEF Propose
    <3>2. PICK r \in rule : \E c \in Candidates(question, r) : parsed' = Review(question, r, c)
      BY <2>2 DEF Propose
    <3>3. PICK c \in Candidates(question, r) : parsed' = Review(question, r, c)
      BY <3>2
    <3>4. \A o \in rule : o = r
      BY DEF ParsedIsReviewed
    <3> QED BY <3>1, <3>3, <3>4 DEF ParsedIsReviewed
  <2>3. CASE AnswerMalformed \/ CallFails \/ Done \/ UNCHANGED vars
    <3>1. UNCHANGED <<question, rule, parsed>>
      BY <2>3 DEF AnswerMalformed, CallFails, Done, vars
    <3> QED BY <3>1 DEF ParsedIsReviewed
  <2> QED BY <2>1, <2>2, <2>3 DEF Next
<1> QED BY <1>1, <1>2, PTL DEF Spec

-----------------------------------------------------------------------------
(* What a review guarantees *)

\* An accepted proposal is acceptable, with the defaults it repeats left out.
LEMMA ReviewAccepts ==
  ASSUME NEW q, NEW r, NEW candidate, NEW p \in Review(q, r, candidate)
  PROVE LET c == WithoutDefaults(r, candidate) IN Acceptable(q, r, c) /\ p = Restored(r, Convert(q, c))
  BY DEF Review

\* A filter, order or number of the rules lies in what an item of its kind quotes.
LEMMA SelectionIsQuoted ==
  ASSUME NEW q, NEW r, NEW c, CoversRuleMaterial(q, r, c),
         NEW x \in r.constraints, x.kind \in {"FILTER", "SORT", "LIMIT"}, ~IsDefault(x),
         x.kind = "LIMIT" => x.reason = ""
  PROVE \E i \in Items(c, x.kind) : Touch(i.span, x.span)
<1>1. PICK span \in Standing(q, x, c) : Touch(span, x.span)
  BY DEF CoversRuleMaterial
<1>2. Standing(q, x, c) = Spans(Items(c, x.kind))
  BY DEF Standing, KeptKinds
<1> QED BY <1>1, <1>2 DEF Spans

\* Without a disjunction every filter of the parse is in force.
LEMMA JoinedFilters ==
  ASSUME NEW p, p.boolean.op # "OR"
  PROVE Alternatives(p) = {Of(p.constraints, "FILTER")}
  BY DEF Alternatives

\* A filter at a leaf's span is that leaf, or beside the tree: it is met in the
\* alternative of its span either way.
LEMMA LeafOrBeside ==
  ASSUME NEW p, p.boolean.op = "OR", NEW met \in Alternatives(p)
  PROVE \E s \in p.boolean.spans : \A x \in Of(p.constraints, "FILTER") : x.span = s => x \in met
<1> DEFINE filters == Of(p.constraints, "FILTER")
           beside(leaf) == filters \ {leaf[t] : t \in DOMAIN leaf}
<1>1. PICK leaf \in Leaves(p) : \E s \in DOMAIN leaf : met = beside(leaf) \cup {leaf[s]}
  BY DEF Alternatives
<1>2. PICK s \in DOMAIN leaf : met = beside(leaf) \cup {leaf[s]}
  BY <1>1
<1>3. DOMAIN leaf = p.boolean.spans /\ \A t \in DOMAIN leaf : leaf[t].span = t
  BY DEF Leaves
<1>4. ASSUME NEW x \in filters, x.span = s PROVE x \in met
  <2>1. CASE \E t \in DOMAIN leaf : leaf[t] = x
    BY <1>2, <1>3, <1>4, <2>1
  <2>2. CASE \A t \in DOMAIN leaf : leaf[t] # x
    BY <1>2, <2>2
  <2> QED BY <2>1, <2>2
<1> QED BY <1>2, <1>3, <1>4

LEMMA FilterIsKept ==
  ASSUME NEW r, NEW c, Acceptable(question, r, c), NEW f \in Of(r.constraints, "FILTER")
  PROVE LET p == Restored(r, Convert(question, c))
        IN Enforced(p, f) \/ Spelled(p, f) \/ Excluded(p, f) \/ Offered(p, f)
<1> DEFINE p == Restored(r, Convert(question, c))
           filters == Of(p.constraints, "FILTER")
           matching == {i \in Items(c, "FILTER") : Touch(i.span, f.span) /\ i.item.field = f.item.field}
           equals == {i \in matching : i.item.op = "eq" /\ ~Typed(i.item)}
<1>1. f \in r.constraints /\ f.kind = "FILTER"
  BY DEF Of
<1>2. \E i \in Items(c, "FILTER") : Touch(i.span, f.span)
  BY <1>1, SelectionIsQuoted DEF Acceptable, IsDefault
<1>3. EquivalentRuleFilter(question, f, c)
  BY <1>2 DEF Acceptable, KeepsRuleMaterial, KeepsFilter
<1>4. \A i \in matching : Stated(i) \in filters /\ Stated(i).item = NormalizedItem(i.item) /\ Stated(i).span = i.span
  <2> TAKE i \in matching
  <2>1. i \in c.items /\ i.kind = "FILTER"
    BY DEF Items
  <2>2. Stated(i) \in p.constraints
    BY <2>1, ItemsAreStated
  <2> QED BY <2>1, <2>2 DEF Stated, Constraint, Of
<1>5. p.boolean = c.boolean
  BY BooleanIsKept
<1> SUFFICES Enforced(p, f) \/ Spelled(p, f) \/ Excluded(p, f) \/ Offered(p, f)
  OBVIOUS
<1> HIDE DEF p
\* The same predicate is in force, or an alternative.
<1>6. ASSUME NEW x \in filters, Same(NormalizedItem(x.item), NormalizedItem(f.item)) PROVE Enforced(p, f) \/ Offered(p, f)
  <2>1. CASE p.boolean.op = "OR"
    BY <1>6, <2>1 DEF Offered
  <2>2. CASE p.boolean.op # "OR"
    BY <1>6, <2>2, JoinedFilters DEF Enforced
  <2> QED BY <2>1, <2>2
<1>7. CASE \E i \in matching : i.item.op = f.item.op /\ i.item.value = f.item.value
  <2>1. PICK i \in matching : i.item.op = f.item.op /\ i.item.value = f.item.value
    BY <1>7
  <2>2. Same(NormalizedItem(NormalizedItem(i.item)), NormalizedItem(f.item))
    BY <2>1 DEF Same, NormalizedItem, Item
  <2> QED BY <1>4, <1>6, <2>1, <2>2
<1>8. CASE /\ f.item.op = "eq"
           /\ \E i \in matching :
                /\ i.item.op = "ne" /\ i.item.value = f.item.value
                /\ \E j \in Positions(question) : question[j] \in f.item.value /\ At(question, j + 1, {"not"})
  <2>1. PICK i \in matching : i.item.op = "ne" /\ i.item.value = f.item.value
    BY <1>8
  <2>2. Stated(i) \in filters /\ Same(Stated(i).item, Item(f.item.field, "ne", f.item.value))
    BY <1>4, <2>1 DEF Same, NormalizedItem, Item
  <2>3. CASE p.boolean.op = "OR"
    BY <1>8, <2>2, <2>3 DEF Offered
  <2>4. CASE p.boolean.op # "OR"
    BY <1>8, <2>2, <2>4, JoinedFilters DEF Excluded
  <2> QED BY <2>3, <2>4
<1>9. CASE /\ f.item.field = "maturity" /\ f.item.op = "between" /\ f.item.value = {"year"}
           /\ \E i \in equals : i.item.value = {"year"}
  <2>1. PICK i \in equals : i.item.value = {"year"}
    BY <1>9
  <2>2. Same(NormalizedItem(NormalizedItem(i.item)), NormalizedItem(f.item))
    BY <1>9, <2>1 DEF Same, NormalizedItem, Item
  <2> QED BY <1>4, <1>6, <2>1, <2>2
<1>10. CASE /\ f.item.op = "in" /\ UNION {i.item.value : i \in equals} = f.item.value
            /\ c.boolean.op = "OR" /\ c.boolean.spans = Spans(equals)
  <2>1. ASSUME NEW met \in Alternatives(p)
        PROVE \E x \in met, values \in SUBSET f.item.value : Same(x.item, NormalizedItem(Item(f.item.field, "eq", values)))
    <3>0. p.boolean.op = "OR" /\ p.boolean.spans = Spans(equals)
      BY <1>5, <1>10
    <3>1. PICK s \in Spans(equals) : \A x \in filters : x.span = s => x \in met
      BY <3>0, LeafOrBeside
    <3>2. PICK i \in equals : i.span = s
      BY DEF Spans
    <3>3. Stated(i) \in met
      BY <1>4, <3>1, <3>2
    <3>4. i.item.value \in SUBSET f.item.value
      BY <1>10
    <3>5. Same(Stated(i).item, NormalizedItem(Item(f.item.field, "eq", i.item.value)))
      BY <1>4 DEF Same, NormalizedItem, Item
    <3> QED BY <3>3, <3>4, <3>5
  <2>2. ASSUME NEW v \in f.item.value
        PROVE \E x \in filters : x.item.field = f.item.field /\ v \in x.item.value
    <3>1. PICK i \in equals : v \in i.item.value
      BY <1>10
    <3>2. NormalizedItem(i.item).field = i.item.field /\ NormalizedItem(i.item).value = i.item.value
      BY DEF NormalizedItem, Item
    <3> QED BY <1>4, <3>1, <3>2
  <2>3. p.boolean.op = "OR"
    BY <1>5, <1>10
  <2> QED BY <1>10, <2>1, <2>2, <2>3 DEF Spelled
<1>11. \/ \E i \in matching : i.item.op = f.item.op /\ i.item.value = f.item.value
       \/ /\ f.item.op = "eq"
          /\ \E i \in matching :
               /\ i.item.op = "ne" /\ i.item.value = f.item.value
               /\ \E j \in Positions(question) : question[j] \in f.item.value /\ At(question, j + 1, {"not"})
       \/ /\ f.item.field = "maturity" /\ f.item.op = "between" /\ f.item.value = {"year"}
          /\ \E i \in equals : i.item.value = {"year"}
       \/ /\ f.item.op = "in" /\ UNION {i.item.value : i \in equals} = f.item.value
          /\ c.boolean.op = "OR" /\ c.boolean.spans = Spans(equals)
  BY <1>3 DEF EquivalentRuleFilter, SpelledApart
<1> QED BY <1>7, <1>8, <1>9, <1>10, <1>11

LEMMA SortIsKept ==
  ASSUME NEW q, NEW r, NEW c, Acceptable(q, r, c), NEW s \in Of(r.constraints, "SORT")
  PROVE \E x \in Of(Restored(r, Convert(q, c)).constraints, "SORT") : Same(x.item, s.item)
<1>1. s \in r.constraints /\ s.kind = "SORT"
  BY DEF Of
<1>2. \E i \in Items(c, "SORT") : Touch(i.span, s.span)
  BY <1>1, SelectionIsQuoted DEF Acceptable, IsDefault
<1>3. PICK i \in Items(c, "SORT") : i.item = s.item
  BY <1>2 DEF Acceptable, KeepsRuleMaterial, KeepsSort
<1>4. i \in c.items /\ i.kind = "SORT"
  BY DEF Items
<1>5. Stated(i) \in Restored(r, Convert(q, c)).constraints
  BY <1>4, ItemsAreStated
<1> QED BY <1>3, <1>4, <1>5 DEF Stated, Constraint, Of, Same

LEMMA LimitIsKept ==
  ASSUME NEW q, NEW r, NEW c, Acceptable(q, r, c), NEW l \in StatedLimits(r), l.reason = ""
  PROVE \E x \in Of(Restored(r, Convert(q, c)).constraints, "LIMIT") : x.item.value = l.item.value
<1>1. l \in r.constraints /\ l.kind = "LIMIT" /\ ~IsDefault(l)
  BY DEF Of, StatedLimits
<1>2. PICK i \in Items(c, "LIMIT") : Touch(i.span, l.span)
  BY <1>1, SelectionIsQuoted DEF Acceptable
<1>3. i.item.value = l.item.value
  BY DEF Acceptable, KeepsRuleMaterial
<1>4. i \in c.items /\ i.kind = "LIMIT"
  BY DEF Items
<1>5. Stated(i) \in Restored(r, Convert(q, c)).constraints
  BY <1>4, ItemsAreStated
<1>6. Stated(i).kind = "LIMIT" /\ Stated(i).item = i.item
  BY <1>4 DEF Stated, Constraint
<1> QED BY <1>3, <1>5, <1>6 DEF Of

\* What the rules select by is selected by in every parse handed on that is
\* executed: whatever alternative of the boolean tree a product meets, it meets
\* the filter, unless the tree makes the filter itself an alternative.
THEOREM SelectionsSurvive == Spec => []RuleSelectionsSurvive
<1>1. ParsedIsReviewed => RuleSelectionsSurvive
  <2> SUFFICES ASSUME ParsedIsReviewed, NEW r \in rule, NEW p \in parsed
               PROVE /\ \A f \in Of(r.constraints, "FILTER") :
                          Enforced(p, f) \/ Spelled(p, f) \/ Excluded(p, f) \/ Offered(p, f)
                     /\ \A s \in Of(r.constraints, "SORT") : \E x \in Of(p.constraints, "SORT") : Same(x.item, s.item)
                     /\ \A l \in StatedLimits(r) :
                          l.reason = "" => \E x \in Of(p.constraints, "LIMIT") : x.item.value = l.item.value
    BY DEF RuleSelectionsSurvive
  <2>1. CASE p = r
    <3>1. ASSUME NEW f \in Of(r.constraints, "FILTER") PROVE Enforced(p, f) \/ Offered(p, f)
      <4>1. f \in Of(p.constraints, "FILTER") /\ Same(NormalizedItem(f.item), NormalizedItem(f.item))
        BY <2>1 DEF Same
      <4>2. CASE p.boolean.op = "OR"
        BY <4>1, <4>2 DEF Offered
      <4>3. CASE p.boolean.op # "OR"
        BY <4>1, <4>3, JoinedFilters DEF Enforced
      <4> QED BY <4>2, <4>3
    <3>2. \A s \in Of(r.constraints, "SORT") : Same(s.item, s.item)
      BY DEF Same
    <3>3. StatedLimits(r) \subseteq Of(p.constraints, "LIMIT")
      BY <2>1 DEF StatedLimits
    <3> QED BY <2>1, <3>1, <3>2, <3>3
  <2>2. CASE \E c \in Candidates(question, r) : p \in Review(question, r, c)
    <3>1. PICK candidate \in Candidates(question, r) : p \in Review(question, r, candidate)
      BY <2>2
    <3> DEFINE c == WithoutDefaults(r, candidate)
    <3>2. Acceptable(question, r, c) /\ p = Restored(r, Convert(question, c))
      BY <3>1, ReviewAccepts
    <3> HIDE DEF c
    <3>3. \A f \in Of(r.constraints, "FILTER") : Enforced(p, f) \/ Spelled(p, f) \/ Excluded(p, f) \/ Offered(p, f)
      BY <3>2, FilterIsKept
    <3>4. \A s \in Of(r.constraints, "SORT") : \E x \in Of(p.constraints, "SORT") : Same(x.item, s.item)
      BY <3>2, SortIsKept
    <3>5. \A l \in StatedLimits(r) :
            l.reason = "" => \E x \in Of(p.constraints, "LIMIT") : x.item.value = l.item.value
      <4> TAKE l \in StatedLimits(r)
      <4> HAVE l.reason = ""
      <4> QED BY <3>2, LimitIsKept
    <3> QED BY <3>3, <3>4, <3>5
  <2> QED BY <2>1, <2>2 DEF ParsedIsReviewed
<1> QED BY <1>1, ParsingInvariant, PTL

-----------------------------------------------------------------------------
(* What is trusted of the rules *)

\* The default limit and the operations a parse adds are of their own kinds.
LEMMA AddedKinds ==
  ASSUME NEW q, NEW c, NEW intent, NEW constraints, NEW selectors
  PROVE /\ \A y \in DefaultLimit(q, intent, constraints, selectors) : y.kind = "LIMIT"
        /\ \A y \in CandidateIntent(q, c) : y.kind = "INTENT"
        /\ \A y \in CandidateBoolean(c) : y.kind = "BOOLEAN"
<1>1. \A y \in DefaultLimit(q, intent, constraints, selectors) : y.kind = "LIMIT"
  <2> DEFINE sorts == Of(constraints, "SORT")
             first == CHOOSE x \in sorts : \A y \in sorts : Min(Words(x.span)) <= Min(Words(y.span))
             limit == Constraint(first.span, "LIMIT", Item("limit", "DEFAULT", {"5"}), "")
  <2>1. limit.kind = "LIMIT"
    BY DEF Constraint
  <2> HIDE DEF limit
  <2>2. DefaultLimit(q, intent, constraints, selectors) \subseteq {limit}
    BY DEF DefaultLimit, limit
  <2> QED BY <2>1, <2>2
<1>2. \A y \in CandidateIntent(q, c) : y.kind = "INTENT"
  <2> DEFINE unmeasured == Unmeasured(c.intent, Items(c, "SORT"), Items(c, "REQUESTED_FIELD"))
             word == IF c.intent \in {"compare", "recommend"} /\ Says(q, c.intent)
                       THEN FirstOf(Found(q, {c.intent})) ELSE Positions(q)
             reason == IF unmeasured THEN "true_ambiguity:comparison_metric_missing" ELSE "intent_execution_unsupported"
             stated == Constraint(word, "INTENT", Plain(c.intent, {}), reason)
  <2>1. stated.kind = "INTENT"
    <3> HIDE DEF word, reason
    <3> QED BY DEF Constraint
  <2>2. CandidateIntent(q, c) \subseteq {stated}
    BY DEF CandidateIntent
  <2> QED BY <2>1, <2>2
<1>3. \A y \in CandidateBoolean(c) : y.kind = "BOOLEAN"
  <2> DEFINE tree == Constraint(Hull(Words(UNION c.boolean.spans)), "BOOLEAN", Plain(c.boolean.op, {}), "boolean_execution_unsupported")
  <2>1. tree.kind = "BOOLEAN"
    BY DEF Constraint
  <2>2. CandidateBoolean(c) \subseteq {tree}
    BY DEF CandidateBoolean
  <2> QED BY <2>1, <2>2
<1> QED BY <1>1, <1>2, <1>3

\* Only an item stated as subjective makes a subjective constraint.
LEMMA SubjectiveIsUnsupported ==
  ASSUME NEW q, NEW c, NEW y \in Of(Convert(q, c).constraints, "SUBJECTIVE")
  PROVE y.reason = "subjective_execution_unsupported"
<1> DEFINE stated == {Stated(i) : i \in c.items}
           read == stated \cup CandidateIntent(q, c) \cup CandidateBoolean(c)
           grouped == read \cup Grouping(q, read)
           dated == grouped \cup History(q, grouped)
<1>1. y \in dated \cup DefaultLimit(q, c.intent, dated, {}) /\ y.kind = "SUBJECTIVE"
  BY DEF Convert, Drafts, Normalize, Of
<1>2. y \notin DefaultLimit(q, c.intent, dated, {})
  BY <1>1, AddedKinds
<1>3. y \notin History(q, grouped) /\ y \notin Grouping(q, read)
  BY <1>1 DEF History, Grouping, Constraint
<1>4. y \notin CandidateIntent(q, c) /\ y \notin CandidateBoolean(c)
  BY <1>1, AddedKinds
<1>5. PICK i \in c.items : y = Stated(i)
  BY <1>1, <1>2, <1>3, <1>4
<1>6. i.kind = "SUBJECTIVE"
  BY <1>1, <1>5 DEF Stated, Constraint
<1> QED BY <1>5, <1>6 DEF Stated, Constraint, UnsupportedItem

\* Populations and subjective wishes of the rules are conditions of every parse
\* handed on, and no parse with such a wish is complete.
THEOREM TrustSurvives == Spec => []TrustedMaterialSurvives
<1>1. ParsedIsReviewed => TrustedMaterialSurvives
  <2> SUFFICES ASSUME ParsedIsReviewed, NEW r \in rule, NEW p \in parsed
               PROVE /\ Of(r.constraints, "PRODUCT_UNIVERSE") \subseteq p.constraints
                     /\ \A x \in r.constraints : x.reason = "subjective_execution_unsupported" =>
                          /\ ~Complete(p)
                          /\ \E y \in Unsupported(p.constraints) : y.span = x.span /\ y.reason = x.reason
    BY DEF TrustedMaterialSurvives
  <2> SUFFICES /\ Of(r.constraints, "PRODUCT_UNIVERSE") \subseteq p.constraints
               /\ \A x \in r.constraints : x.reason = "subjective_execution_unsupported" =>
                    \E y \in p.constraints : y.span = x.span /\ y.reason = x.reason
    <3>1. ASSUME NEW y \in p.constraints, y.reason = "subjective_execution_unsupported"
          PROVE y \in Unsupported(p.constraints) /\ ~Complete(p)
      <4>1. y \in Unsupported(p.constraints)
        BY <3>1 DEF Unsupported
      <4> QED BY <4>1 DEF Complete
    <3> QED BY <3>1
  <2>1. CASE p = r
    BY <2>1 DEF Of
  <2>2. CASE \E c \in Candidates(question, r) : p \in Review(question, r, c)
    <3>1. PICK candidate \in Candidates(question, r) : p \in Review(question, r, candidate)
      BY <2>2
    <3> DEFINE c == WithoutDefaults(r, candidate)
               converted == Convert(question, c)
    <3>2. p = Restored(r, converted)
      BY <3>1, ReviewAccepts
    <3> HIDE DEF c
    <3>3. TrustedMaterial(r, converted) \subseteq p.constraints
      BY <3>2, TrustedIsRestored
    <3>4. converted.constraints \subseteq p.constraints
      BY <3>2 DEF Restored, Convert, Normalize
    <3> HIDE DEF converted
    <3>5. ASSUME NEW x \in r.constraints, x.reason = "subjective_execution_unsupported"
          PROVE \E y \in p.constraints : y.span = x.span /\ y.reason = x.reason
      <4>1. CASE x \in TrustedMaterial(r, converted)
        BY <3>3, <4>1
      <4>2. CASE x \notin TrustedMaterial(r, converted)
        <5>1. PICK y \in Of(converted.constraints, "SUBJECTIVE") : y.span = x.span
          BY <3>5, <4>2 DEF TrustedMaterial
        <5>2. y.reason = "subjective_execution_unsupported"
          BY SubjectiveIsUnsupported DEF converted
        <5> QED BY <3>4, <3>5, <5>1, <5>2 DEF Of
      <4> QED BY <4>1, <4>2
    <3>6. Of(r.constraints, "PRODUCT_UNIVERSE") \subseteq p.constraints
      BY <3>3 DEF Of, TrustedMaterial
    <3> QED BY <3>5, <3>6
  <2> QED BY <2>1, <2>2 DEF ParsedIsReviewed
<1> QED BY <1>1, ParsingInvariant, PTL

-----------------------------------------------------------------------------
(* What nobody can execute *)

\* A proposal has an item of its own for an operation of the rules, and that is
\* no more executable.
LEMMA OperationIsKept ==
  ASSUME NEW q, NEW r, NEW c, Acceptable(q, r, c),
         NEW x \in r.constraints, x.reason # "", x.kind \in {"AGGREGATION", "TEMPORAL", "GROUP_BY"}
  PROVE \E y \in Restored(r, Convert(q, c)).constraints : y.kind = x.kind /\ y.reason # ""
<1>1. PICK span \in Standing(q, x, c) : Touch(span, x.span)
  BY DEF Acceptable, CoversRuleMaterial, IsDefault
<1>2. Standing(q, x, c) = Spans(Items(c, x.kind))
  BY DEF Standing, KeptKinds
<1>3. PICK i \in c.items : i.kind = x.kind
  BY <1>1, <1>2 DEF Spans, Items
<1>4. Stated(i).kind = x.kind /\ Stated(i).reason # ""
  BY <1>3 DEF Stated, Constraint, UnsupportedItem
<1> QED BY <1>3, <1>4, ItemsAreStated

\* A value with a unit is repeated as one, and is no more executable.
LEMMA TypedIsKept ==
  ASSUME NEW q, NEW r, NEW c, Acceptable(q, r, c), NEW f \in r.constraints, f.kind = "FILTER", Typed(f.item)
  PROVE \E y \in Restored(r, Convert(q, c)).constraints :
          y.kind = "FILTER" /\ y.reason # "" /\ y.item.field = f.item.field
<1> DEFINE matching == {i \in Items(c, "FILTER") : Touch(i.span, f.span) /\ i.item.field = f.item.field}
           equals == {i \in matching : i.item.op = "eq" /\ ~Typed(i.item)}
<1>1. \E i \in Items(c, "FILTER") : Touch(i.span, f.span)
  BY SelectionIsQuoted DEF Acceptable, IsDefault
<1>2. EquivalentRuleFilter(q, f, c)
  BY <1>1 DEF Acceptable, KeepsRuleMaterial, KeepsFilter, Of
<1>3. \A i \in matching : Typed(i.item)
  BY DEF Typed
<1>4. equals = {}
  BY <1>3
<1>5. ~(c.boolean.op = "OR" /\ c.boolean.spans = Spans(equals))
  BY <1>4 DEF Acceptable, GroundedBoolean, Spans
<1>6. PICK i \in matching : TRUE
  <2>1. (\E i \in matching : TRUE) \/ (c.boolean.op = "OR" /\ c.boolean.spans = Spans(equals))
    BY <1>2 DEF EquivalentRuleFilter, SpelledApart
  <2> QED BY <1>5, <2>1
<1>7. i \in c.items /\ i.kind = "FILTER"
  BY DEF Items
<1>8. Stated(i).kind = "FILTER" /\ Stated(i).reason = "dataset_unit_mapping_unverified"
  BY <1>3, <1>7 DEF Stated, Constraint, UnsupportedItem
<1>9. Stated(i).item = NormalizedItem(i.item)
  BY <1>7 DEF Stated, Constraint
<1>10. NormalizedItem(i.item).field = f.item.field
  BY DEF NormalizedItem, Item
<1> QED BY <1>7, <1>8, <1>9, <1>10, ItemsAreStated

\* What the rules read and nobody can execute stays a condition of its kind, not
\* executable, so that no such question has a complete parse.
THEOREM UnexecutableStays == Spec => []UnexecutableIsKept
<1>1. ParsedIsReviewed => UnexecutableIsKept
  <2> SUFFICES ASSUME ParsedIsReviewed, NEW r \in rule, NEW p \in parsed, NEW x \in r.constraints, Unexecutable(x)
               PROVE /\ ~Complete(p)
                     /\ \E y \in Unsupported(p.constraints) :
                          y.kind = x.kind /\ (x.kind = "FILTER" => y.item.field = x.item.field)
    BY DEF UnexecutableIsKept
  <2> SUFFICES \E y \in p.constraints :
                 y.reason # "" /\ y.kind = x.kind /\ (x.kind = "FILTER" => y.item.field = x.item.field)
    <3>1. ASSUME NEW y \in p.constraints, y.reason # "" PROVE y \in Unsupported(p.constraints) /\ ~Complete(p)
      <4>1. y \in Unsupported(p.constraints)
        BY <3>1 DEF Unsupported
      <4> QED BY <4>1 DEF Complete
    <3> QED BY <3>1
  <2>1. CASE p = r
    BY <2>1 DEF Unexecutable
  <2>2. CASE \E c \in Candidates(question, r) : p \in Review(question, r, c)
    <3>1. PICK candidate \in Candidates(question, r) : p \in Review(question, r, candidate)
      BY <2>2
    <3> DEFINE c == WithoutDefaults(r, candidate)
    <3>2. Acceptable(question, r, c) /\ p = Restored(r, Convert(question, c))
      BY <3>1, ReviewAccepts
    <3> HIDE DEF c
    <3>3. CASE x.kind \in {"AGGREGATION", "TEMPORAL", "GROUP_BY"}
      <4>1. x.reason # "" /\ x.kind # "FILTER"
        BY <3>3 DEF Unexecutable
      <4>2. PICK y \in p.constraints : y.kind = x.kind /\ y.reason # ""
        <5>1. \E y \in Restored(r, Convert(question, c)).constraints : y.kind = x.kind /\ y.reason # ""
          BY <3>2, <3>3, <4>1, OperationIsKept
        <5> QED BY <3>2, <5>1
      <4> QED BY <4>1, <4>2
    <3>4. CASE x.kind = "FILTER" /\ Typed(x.item)
      BY <3>2, <3>4, TypedIsKept
    <3> QED BY <3>3, <3>4 DEF Unexecutable
  <2> QED BY <2>1, <2>2 DEF ParsedIsReviewed
<1> QED BY <1>1, ParsingInvariant, PTL
=============================================================================
