---------------------------- MODULE CandidateReview ----------------------------
(***************************************************************************)
(* The language model's proposal for a question and its review             *)
(* (src/app/query/semantic_validation.py): what it has to keep of the rule *)
(* parse, and the parse it becomes. Its text is trusted for nothing: every *)
(* value is looked up in the words its span quotes whole, for a part of a  *)
(* word holds no value, though it may hold its digits.                     *)
(*                                                                         *)
(* A candidate is [intent, items, boolean, policies]; an item is           *)
(* [span, kind, item, negated], of the constraint kinds of the rules or    *)
(* UNRESOLVED. The boolean expression is one operator over quoted          *)
(* predicates: op "" for none, nested trees are left out.                  *)
(***************************************************************************)
EXTENDS QuestionRules

ItemKinds == {"PRODUCT_TYPE", "ENTITY", "FILTER", "SORT", "REQUESTED_FIELD", "GROUP_BY", "SEMANTIC", "SUBJECTIVE",
              "RELATION", "LIMIT", "AGGREGATION", "TEMPORAL", "UNRESOLVED"}
Items(c, kind) == {i \in c.items : i.kind = kind}
Spans(set) == {i.span : i \in set}
AllSpans(c) == Spans(c.items) \cup c.boolean.spans
\* Spans are compared by their ends: a quote of one character of a word touches
\* that word.
Touch(span, other) == Words(span) \cap Words(other) # {}

IsDefault(constraint) == constraint.kind = "LIMIT" /\ constraint.item.op = "DEFAULT"
StatedLimits(rule) == {x \in Of(rule.constraints, "LIMIT") : ~IsDefault(x)}

(* Grounding. *)

KnownFields == (FieldWords \ {"weight"}) \cup {"return", "byregion", "manager", "index"}
KnownFilters == {"region", "asset_type", "product_type", "expense_ratio", "maturity", "listing_country", "bond_type",
                 "credit_rating"}

\* Predicates whose value is a code and not one of the question's words: the
\* review compares text and so refuses every way to repeat them.
Coded(item) ==
  \/ item.field \in {"trading_currency", "current_fund_subscription_eligible", "current_bond_purchase_eligible", "current_etp_sale_eligible"}
  \/ item.field = "bond_type" /\ item.value = {"Corporate"}

\* A country of listing may be repeated as a code where the rules read the same.
MatchesRuleFilter(rule, i) ==
  /\ i.item.field = "listing_country"
  /\ \E f \in Of(rule.constraints, "FILTER") : f.item = i.item /\ Touch(i.span, f.span)

Arity(item) ==
  CASE item.op = "in"      -> item.value # {}
    [] item.op = "between" -> Cardinality(item.value) = 2
    [] OTHER               -> Cardinality(item.value) = 1

GroundedFilter(q, rule, i) ==
  /\ i.item.field \in KnownFilters
  /\ \/ MatchesRuleFilter(rule, i)
     \/ Arity(i.item) /\ ~Coded(i.item) /\ i.item.value \subseteq Text(q, i.span)

\* The digits a word is written with.
Digits == [top3 |-> "3", three |-> "3", toomany |-> "2000", overyear |-> "1", atmost |-> "1", year |-> "2027", asof |-> "2024"]

Grounded(q, rule, i) ==
  LET quoted == Text(q, i.span)
  IN CASE i.kind = "PRODUCT_TYPE" -> i.item.value \subseteq Nouns \cap quoted
       [] i.kind \in {"REQUESTED_FIELD", "GROUP_BY"} -> i.item.value \subseteq KnownFields \cap quoted
       [] i.kind = "SORT"     -> i.item.field \in KnownFields \cap quoted
       [] i.kind = "FILTER"   -> GroundedFilter(q, rule, i)
       [] i.kind = "RELATION" -> i.item.value \subseteq quoted /\ i.item.field \in Relations \cap quoted
       [] i.kind = "LIMIT"    -> \E w \in Text(q, Words(i.span)) \cap DOMAIN Digits : Digits[w] \in i.item.value
       [] OTHER -> TRUE

\* The boolean expression combines filters and product types the candidate
\* states, at least one of them.
GroundedBoolean(c) ==
  /\ c.boolean.op # "" => c.boolean.spans # {}
  /\ c.boolean.spans \subseteq Spans(Items(c, "FILTER") \cup Items(c, "PRODUCT_TYPE"))

(* What the rules recognized. *)

\* Fault: operations may be read as something else.
KeptSelections == {"FILTER", "SORT", "RELATION"}

\* Operations and selections keep their kind although they cannot be executed.
KeptKinds == {"FILTER", "SORT", "RELATION", "TEMPORAL", "AGGREGATION", "GROUP_BY"}

\* The spans that may stand for a constraint of the rules.
Standing(q, constraint, c) ==
  LET texts == Spans(Items(c, "SEMANTIC") \cup Items(c, "SUBJECTIVE") \cup Items(c, "UNRESOLVED"))
      typed == Spans(Items(c, "PRODUCT_TYPE") \cup {i \in Items(c, "FILTER") : i.item.field = "product_type"})
  IN IF constraint.reason # "" /\ constraint.kind \notin KeptKinds THEN AllSpans(c)
     ELSE CASE constraint.kind = "PRODUCT_TYPE" -> typed
       [] constraint.kind \in {"SEMANTIC", "SUBJECTIVE"} -> texts
       \* A name that is a classification word may be one.
       [] constraint.kind = "ENTITY" /\ Cardinality(constraint.span) = 1 /\ Text(q, constraint.span) \subseteq Aliases ->
            Spans(Items(c, "PRODUCT_TYPE") \cup Items(c, "FILTER"))
       [] OTHER -> Spans(Items(c, constraint.kind))

CoversRuleMaterial(q, rule, c) ==
  /\ \A x \in rule.constraints :
       x.kind \in {"INTENT", "BOOLEAN", "PRODUCT_UNIVERSE"} \/ IsDefault(x)
       \/ \E span \in Standing(q, x, c) : Touch(span, x.span)
  /\ \A r \in rule.residuals : \E span \in AllSpans(c) : Touch(span, r)
  /\ rule.semantic => Items(c, "SEMANTIC") \cup Items(c, "SUBJECTIVE") \cup Items(c, "UNRESOLVED") # {}

\* Fault: the values of a list may be stated side by side, however they are joined.
ListedApart(f, c, equals) == f.item.op = "in" /\ UNION {i.item.value : i \in equals} = f.item.value

\* All values of a list, each by a predicate of its own, and nothing else joined by "or".
SpelledApart(f, c, equals) ==
  /\ f.item.op = "in"
  /\ UNION {i.item.value : i \in equals} = f.item.value
  /\ c.boolean.op = "OR" /\ c.boolean.spans = Spans(equals)

\* The same predicate; or its exclusion where the question excludes it; or the
\* year of maturity the dates were made of; or the values of a list.
EquivalentRuleFilter(q, f, c) ==
  LET matching == {i \in Items(c, "FILTER") : Touch(i.span, f.span) /\ i.item.field = f.item.field}
      equals == {i \in matching : i.item.op = "eq" /\ ~Typed(i.item)}
      excluded(i) == \E j \in i.span \cap Positions(q) :
                       q[j] \in f.item.value /\ j + 1 \in Words(i.span) /\ At(q, j + 1, {"not"})
  IN \/ \E i \in matching : i.item.op = f.item.op /\ i.item.value = f.item.value
     \/ f.item.op = "eq" /\ \E i \in matching : i.item.op = "ne" /\ i.item.value = f.item.value /\ excluded(i)
     \/ f.item.field = "maturity" /\ f.item.op = "between" /\ f.item.value = {"year"} /\ \E i \in equals : i.item.value = {"year"}
     \/ SpelledApart(f, c, equals)

KeepsSort(s, c) ==
  LET stated == {i \in Items(c, "SORT") : Touch(i.span, s.span)}
  IN stated # {} => \E i \in stated : i.item = s.item

KeepsFilter(q, f, c) ==
  (\E i \in Items(c, "FILTER") : Touch(i.span, f.span)) => EquivalentRuleFilter(q, f, c)

KeepsRuleMaterial(q, rule, c) ==
  /\ \A s \in Of(rule.constraints, "SORT") : KeepsSort(s, c)
  /\ \A f \in Of(rule.constraints, "FILTER") : KeepsFilter(q, f, c)
  /\ \A l \in StatedLimits(rule), i \in Items(c, "LIMIT") : i.item.value = l.item.value

(* The parse a candidate becomes. *)

\* A number proposed together with the default for numbers is that default.
WithoutDefaults(rule, c) ==
  IF "TOPK.default_k" \in c.policies /\ StatedLimits(rule) = {}
    THEN [c EXCEPT !.items = {i \in @ : i.kind # "LIMIT" \/ i.item.value # {"5"}}] ELSE c

UnsupportedItem(i) ==
  CASE i.kind = "FILTER" /\ Typed(i.item) -> "dataset_unit_mapping_unverified"
    [] i.kind = "RELATION" /\ i.negated   -> "negated_relation_execution_unsupported"
    [] i.kind = "GROUP_BY"    -> "group_by_execution_unsupported"
    [] i.kind = "SUBJECTIVE"  -> "subjective_execution_unsupported"
    [] i.kind = "AGGREGATION" -> "aggregation_execution_unsupported"
    [] i.kind = "TEMPORAL"    -> "temporal_snapshot_unsupported"
    [] i.kind = "UNRESOLVED"  -> "unresolved_material_phrase"
    [] OTHER -> ""

\* A calendar year of maturity becomes its first and last day.
NormalizedItem(item) ==
  IF item.field = "maturity" /\ item.op = "eq" /\ item.value = {"year"} THEN Item(item.field, "between", item.value) ELSE item

Stated(i) ==
  Constraint(i.span, IF i.kind = "UNRESOLVED" THEN "SEMANTIC" ELSE i.kind,
             IF i.kind = "FILTER" THEN NormalizedItem(i.item) ELSE i.item, UnsupportedItem(i))

CandidateIntent(q, c) ==
  LET unmeasured == Unmeasured(c.intent, Items(c, "SORT"), Items(c, "REQUESTED_FIELD"))
      word == IF c.intent \in {"compare", "recommend"} /\ Says(q, c.intent) THEN FirstOf(Found(q, {c.intent})) ELSE Positions(q)
  IN IF ~unmeasured /\ c.intent \notin {"recommend", "unknown"} THEN {}
     ELSE {Constraint(word, "INTENT", Plain(c.intent, {}),
                      IF unmeasured THEN "true_ambiguity:comparison_metric_missing" ELSE "intent_execution_unsupported")}

\* Only a tree over exactly the filters of the question can be executed.
UnsupportedBoolean(c) ==
  \/ Items(c, "SEMANTIC") \cup Items(c, "SUBJECTIVE") # {}
  \/ Items(c, "FILTER") = {}
  \/ c.boolean.spans # Spans(Items(c, "FILTER"))
CandidateBoolean(c) ==
  IF c.boolean.op = "" \/ ~UnsupportedBoolean(c) THEN {}
  ELSE {Constraint(Hull(Words(UNION c.boolean.spans)), "BOOLEAN", Plain(c.boolean.op, {}), "boolean_execution_unsupported")}

Drafts(c) == {Stated(i) : i \in c.items}

Convert(q, c) ==
  LET constraints == Drafts(c) \cup CandidateIntent(q, c) \cup CandidateBoolean(c)
      unresolved == Spans(Items(c, "UNRESOLVED"))
  IN Normalize(q, [intent |-> c.intent, constraints |-> constraints, residuals |-> unresolved,
                   boolean |-> c.boolean, semantic |-> Items(c, "SEMANTIC") # {}, policies |-> {},
                   complete |-> unresolved = {}], {})

\* Fault: only the wishes are trusted.
TrustedWishes(rule, parsed) ==
  {x \in rule.constraints :
     /\ x.reason = "subjective_execution_unsupported"
     /\ ~\E y \in Of(parsed.constraints, "SUBJECTIVE") : y.span = x.span}

\* A subjective condition and the population stay what the rules read.
TrustedMaterial(rule, parsed) ==
  {x \in rule.constraints :
     \/ x.kind = "PRODUCT_UNIVERSE"
     \/ /\ x.reason = "subjective_execution_unsupported"
        /\ ~\E y \in Of(parsed.constraints, "SUBJECTIVE") : y.span = x.span}

Restored(rule, parsed) ==
  LET trusted == TrustedMaterial(rule, parsed)
  IN [parsed EXCEPT !.constraints = parsed.constraints \cup trusted,
                    !.complete = parsed.complete /\ Unsupported(trusted) = {}]

Acceptable(q, rule, c) ==
  /\ \A span \in AllSpans(c) : span # {} /\ Words(span) \subseteq Positions(q)
  /\ \A i \in c.items : i.kind \in ItemKinds /\ Grounded(q, rule, i)
  /\ GroundedBoolean(c)
  /\ CoversRuleMaterial(q, rule, c)
  /\ KeepsRuleMaterial(q, rule, c)

\* The accepted parse, or none. A default is granted where it applies only.
Review(q, rule, candidate) ==
  LET c == WithoutDefaults(rule, candidate)
      parsed == Restored(rule, Convert(q, c))
  IN IF Acceptable(q, rule, c) /\ c.policies \subseteq parsed.policies THEN {parsed} ELSE {}
================================================================================
