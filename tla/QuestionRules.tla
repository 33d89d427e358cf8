----------------------------- MODULE QuestionRules -----------------------------
(***************************************************************************)
(* The rule analyzer: names and relations, the constraints of a question   *)
(* with their status, what is left unparsed, and the normalization and the *)
(* defaults that rules and language model share.                           *)
(*                                                                         *)
(* A constraint is [span, kind, item, reason]: reason "" is PARSED, any    *)
(* other UNSUPPORTED. The identifiers C1, C2, ... only tie a filter, sort  *)
(* or limit to its constraint, so here the constraint carries it (item).   *)
(***************************************************************************)
EXTENDS QuestionWords

(* Names. *)

Verbs == {"held", "managed", "issued"}
Aliases == Nouns \cup Regions \cup Assets

\* Collection words alone: nothing in the expression could be a name.
OnlyFiltered(w, types) ==
  LET filtered == UNION {FilterSpan(w, f, {}) : f \in Filters(w, types, {})}
  IN types # {} /\ \A i \in Positions(w) \ filtered : w[i] \in Aliases \cup {"not", "or", "and", "among", "open"}
OnlyCollection(w) == OnlyFiltered(w, ProductTypes(w, {}))

Classification(w) == Len(w) = 1 /\ w[1] \in BondKinds \cup Assets \cup Regions \cup {"open"}
StructuredPhrase(w) ==
  LET last == Len(w)
  IN \/ Classification(IF last > 1 /\ w[last] \in {"three", "toomany"} THEN SubSeq(w, 1, last - 1) ELSE w)
     \/ Says(w, "usd")
     \/ \E word \in RankedWords \cup Verbs \cup {"listed", "among", "byregion"} : Says(w, word)
     \/ \E i \in Found(w, {"safe", "good"}) : At(w, i + 1, NonBondNouns)
     \/ OnlyCollection(w)

\* A collection and not the name of a product; so is "<collection> of ...".
Structured(w) ==
  \E end \in {Len(w)} \cup {i - 1 : i \in FirstOf(Found(w, {"of"}) \ {1})} : StructuredPhrase(SubSeq(w, 1, end))

\* "<name> [Domestic] <noun> among": the name is that of a manager.
ManagerPhrase(q) ==
  LET ends == {i \in Positions(q) : At(q, i + 1, Nouns) /\ At(q, i + 2, {"among"})}
      wide == {i \in Positions(q) : At(q, i + 1, {"Domestic"}) /\ i + 1 \in ends}
      found == FirstOf(ends \cup wide)
      end(i) == i + IF i \in wide THEN 3 ELSE 2
  IN {[name |-> 1..i, span |-> 1..end(i)]
      : i \in {j \in found : /\ ~Structured(Append(SubSeq(q, 1, j), "ETF"))
                             /\ 1 \notin UniverseSpan(SubSeq(q, 1, end(j)))}}

\* "A and B ... of": the names of a comparison, split at each conjunction.
CoordinatedNames(q) ==
  LET ends == FirstOf(Found(q, {"of", "among"}))
      end  == IF ends = {} THEN 0 ELSE Min(ends) - 1
      cuts == {0} \cup (Found(q, {"and"}) \cap 1..end) \cup {end + 1}
      parts == {(i + 1)..(Min({j \in cuts : j > i}) - 1) : i \in cuts \ {end + 1}}
      listed == /\ ends # {} /\ Cardinality(parts) > 1 /\ {} \notin parts
                /\ Says(q, "compare") \/ PeerSelectors(q) # {}
                /\ \A i \in 1..end : q[i] \notin {"managed", "held", "atmost", "rated"}
  IN {[name |-> p, type |-> "product"] : p \in IF listed THEN parts ELSE {}}

\* Patterns that introduce a name at the start of the question: [name, end, type].
NamePatterns(q, manager) ==
  LET before(i, end, type) == [name |-> 1..(i - 1), end |-> end, type |-> type]
      first(set) == FirstOf(set \ {1})
  IN {[name |-> m.name, end |-> Max(m.span), type |-> "management_company"] : m \in manager}
     \cup {before(i, i, "management_company") : i \in first(Found(q, {"managed"}))}
     \cup {before(i, i + 1, "product")
           : i \in first({j \in Found(q, {"of"}) : At(q, j + 1, {"return", "fee", "aum", "price"})})}
     \cup {before(i, i + 1, "product") : i \in first({j \in Found(q, {"of"}) : At(q, j + 1, {"manager", "index"})})}
     \cup {before(i, i + 1, "product") : i \in first({j \in Found(q, {"info"}) : At(q, j + 1, {"show"})})}
     \cup {before(i + 1, i + 1, "product")
           : i \in first({j \in Found(q, Nouns \cup {"ETP"}) : At(q, j + 1, {"show"})})}

IsProductName(w) == ~Structured(w) /\ \A v \in Verbs : ~Says(w, v)

\* A product's name does not include the noun after it, nor a particle around that.
NameOf(q, p) ==
  LET without(span, words) == IF Max(span) > 1 /\ q[Max(span)] \in words THEN span \ {Max(span)} ELSE span
  IN IF p.type = "product" THEN without(without(without(p.name, {"of"}), Nouns), {"of"}) ELSE p.name

\* Every pattern starts at the first word, so the one that ends first wins.
FirstNamed(q, accepted) ==
  {[name |-> NameOf(q, p), type |-> p.type] : p \in {a \in accepted : \A o \in accepted : a.end <= o.end}}

NamedEntities(q, manager) ==
  IF CoordinatedNames(q) # {} THEN CoordinatedNames(q)
  ELSE FirstNamed(q, {p \in NamePatterns(q, manager) : p.type = "product" => IsProductName(SubSeq(q, 1, Max(p.name)))})

(* Relations: [word, target, type]; no target leaves the other end open. *)

\* "<target> held by [Domestic] ETF", "<target> issued Bond"
TargetPhrases(q, manager) ==
  LET held == {i \in Found(q, {"held"}) \ {1} :
                 \/ At(q, i + 1, NonBondNouns)
                 \/ At(q, i + 1, {"Domestic"}) /\ At(q, i + 2, NonBondNouns)}
      issued == {i \in Found(q, {"issued"}) \ {1} : At(q, i + 1, {"Bond"})}
      relation(i) == [span |-> 1..i, target |-> 1..(i - 1), type |-> "organization"]
  IN CASE manager # {} -> {[span |-> m.span, target |-> m.name, type |-> "management_company"] : m \in manager}
       [] manager = {} /\ held # {} -> {relation(Min(held))}
       [] OTHER -> {relation(i) : i \in FirstOf(issued)}

\* "<manager> managed ETF ... of index"
Chain(q) ==
  {i \in Found(q, {"managed"}) \ {1} :
     At(q, i + 1, {"ETF"}) /\ \E j \in Found(q, {"index"}) : j > i + 2 /\ At(q, j - 1, {"of"})}

RelationSpans(q, targets) ==
  LET named == Found(q, {"index", "managed", "issued", "manager"}) \ UNION {t.span : t \in targets}
      open(i) == [span |-> FirstOf(Found(q, {q[i]})), target |-> {}, type |-> ""]
  IN IF Chain(q) # {} THEN {open(i) : i \in FirstOf(Found(q, {"managed"})) \cup FirstOf(Found(q, {"index"}))}
     ELSE targets \cup {open(i) : i \in named}

(* The constraints of a question. *)

Item(field, op, value) == [field |-> field, op |-> op, value |-> value]
Constraint(span, kind, item, reason) == [span |-> span, kind |-> kind, item |-> item, reason |-> reason]
Plain(kind, value) == Item(kind, "", value)

TypeConstraints(q, types) ==
  {Constraint(TypeSpan(q, t), "PRODUCT_TYPE", Plain("product_type", {t}), "") : t \in types}

UniverseConstraints(q) ==
  {Constraint(u.span, "PRODUCT_UNIVERSE", Plain("universe", u.operands), "") : u \in Universe(q)}

FilterConstraints(q, filters) ==
  {Constraint(FilterSpan(q, f, UniverseSpan(q)), "FILTER", Item(f.field, f.op, f.value),
              IF Typed(f) THEN "dataset_unit_mapping_unverified" ELSE "") : f \in filters}

SortConstraints(q) == {Constraint(s.span, "SORT", Item(s.field, s.dir, {}), "") : s \in Sorts(q)}

FieldConstraints(q, fields) ==
  {Constraint(FirstOf(Found(q, {f})), "REQUESTED_FIELD", Plain("field", {f}),
              CASE f = "weight" -> "holdings_weight_projection_unavailable"
                [] f = "observed" -> "projection_unavailable"
                [] OTHER -> "") : f \in fields}
  \cup {Constraint(s, "REQUESTED_FIELD", Plain("selector", {}), "peer_selector_unverified") : s \in PeerSelectors(q)}

\* Names that a relation binds are its targets; the targets are looked up too.
EntityConstraints(q, named, relations) ==
  LET targets == {r.target : r \in relations}
      free == {e \in named : e.name \notin PeerSelectors(q) \cup targets}
  IN {Constraint(e.name, "ENTITY", Plain(e.type, {}), "") : e \in free}
     \cup {Constraint(r.target, "ENTITY", Plain(r.type, {}), "") : r \in {x \in relations : x.target # {}}}

RelationConstraints(relations) == {Constraint(r.span, "RELATION", Plain("relation", {}), "") : r \in relations}

LimitConstraints(q) ==
  {Constraint({i}, "LIMIT", Plain("limit", {Number[q[i]]}),
              CASE q[i] = "toomany" -> "top_n_out_of_bounds"
                [] q[i] = "top3" /\ Sorts(q) = {} -> "ranking_field_missing"
                [] OTHER -> "") : i \in LimitAt(q)}

OperationConstraints(q) ==
  {Constraint({i}, "AGGREGATION", Plain("count", {}), "aggregation_execution_not_implemented")
     : i \in FirstOf(Found(q, {"count"}))}
  \cup {Constraint({i}, "TEMPORAL", Plain("snapshot", {}), "historical_snapshot_selection_not_implemented")
     : i \in FirstOf(Found(q, {"asof"}))}

(* What the question wants. *)

Intent(q, entities, sorts) ==
  LET status == Says(q, "buyable") /\ (Says(q, "ETF") \/ Says(q, "ETP"))
      asked == CASE status -> "search"
                 [] ~status /\ Says(q, "compare") -> "compare"
                 [] ~status /\ ~Says(q, "compare") /\ Says(q, "recommend") -> "recommend"
                 [] OTHER -> IF Says(q, "show") THEN "search"
                             ELSE IF entities # {} /\ Says(q, "info") THEN "lookup"
                             ELSE IF Found(q, Nouns) # {} THEN "search" ELSE "unknown"
  IN IF asked = "recommend" /\ sorts # {} THEN "search" ELSE asked

\* A comparison needs something to compare by.
Unmeasured(intent, sorts, fields) == intent = "compare" /\ sorts = {} /\ fields = {}

IntentConstraint(q, intent, sorts, fields) ==
  LET words == FirstOf(Found(q, {"compare", "recommend", "show", "info"}))
  IN Constraint(IF words = {} THEN Positions(q) ELSE words, "INTENT", Plain(intent, {}),
                CASE Unmeasured(intent, sorts, fields) -> "true_ambiguity:comparison_metric_missing"
                  [] intent \in {"recommend", "unknown"} -> "intent_execution_not_implemented"
                  [] OTHER -> "")

(* Normalization and defaults, shared with the language model's parses. *)

Of(constraints, kind) == {c \in constraints : c.kind = kind}
Unsupported(constraints) == {c \in constraints : c.reason # ""}

\* Fields that name a metric, with the return's default period.
Metrics(constraints) ==
  {c \in constraints : c.kind \in {"SORT", "FILTER"} /\ c.item.field \in MetricFields}
  \cup {c \in Of(constraints, "REQUESTED_FIELD") : c.item.value \cap MetricFields # {}}
IsReturn(c) == c.item.field = "return" \/ "return" \in c.item.value

\* A year before the return, or any year of a question about change, is a period.
ReturnPeriod(q) ==
  IF Says(q, "grew") THEN Found(q, {"overyear", "year", "asof"}) # {}
  ELSE \E i \in Found(q, {"year"}) : At(q, i + 1, {"return"})

Grouping(q, constraints) ==
  IF Of(constraints, "GROUP_BY") # {} THEN {}
  ELSE {Constraint({i}, "GROUP_BY", Plain("region", {}), "group_by_execution_unsupported")
        : i \in FirstOf(Found(q, {"byregion"}))}

\* A change over time needs a history no store has.
History(q, constraints) ==
  {Constraint({i}, "TEMPORAL", Plain("series", {}), "historical_metric_series_unavailable")
     : i \in {j \in FirstOf(Found(q, {"grew"})) :
                Metrics(constraints) # {} \/ \E c \in Of(constraints, "TEMPORAL") : c.item.field = "snapshot"}}

\* An order without a number is cut at five; the first order anchors the default.
DefaultLimit(q, intent, constraints, selectors) ==
  LET sorts == Of(constraints, "SORT")
  IN IF \/ Of(constraints, "LIMIT") # {} \/ sorts = {} \/ intent # "search"
        \/ Of(constraints, "AGGREGATION") # {} \/ selectors # {} \/ Says(q, "all")
     THEN {}
     ELSE LET first == CHOOSE x \in sorts : \A y \in sorts : Min(Words(x.span)) <= Min(Words(y.span))
          IN {Constraint(first.span, "LIMIT", Item("limit", "DEFAULT", {"5"}), "")}

Policies(q, constraints) ==
  {"TOPK.default_k" : c \in {x \in Of(constraints, "LIMIT") : x.item.op = "DEFAULT"}}
  \cup {"RETURN.default_period" : c \in {x \in Metrics(constraints) : IsReturn(x) /\ ~ReturnPeriod(q)}}
  \cup {"RETURN.positive_direction" : c \in {x \in Of(constraints, "SORT") : IsReturn(x) /\ "good" \in Text(q, x.span)}}

\* residuals: the spans left unparsed. Any unsupported constraint leaves it incomplete.
Normalize(q, parsed, selectors) ==
  LET grouped == parsed.constraints \cup Grouping(q, parsed.constraints)
      dated   == grouped \cup History(q, grouped)
      limited == dated \cup DefaultLimit(q, parsed.intent, dated, selectors)
  IN [intent |-> parsed.intent, constraints |-> limited, residuals |-> parsed.residuals,
      boolean |-> parsed.boolean, semantic |-> parsed.semantic, policies |-> Policies(q, limited),
      complete |-> parsed.complete /\ Unsupported(limited) = {}]

(* The analyzer. *)

Semantic(q) == Says(q, "theme")
SemanticConjunction(q) == Semantic(q) /\ \E i \in Found(q, {"and"}), j \in Found(q, {"all"}) : i < j
GroupedAlternatives(q) ==
  Says(q, "or") /\ Cardinality(Text(q, Found(q, Nouns))) > 1 /\ Cardinality(Text(q, Found(q, Regions))) > 1

\* Every occurrence of a product type is accounted for, not only the first.
Occupied(q, constraints, types) == (UNION {c.span : c \in constraints}) \cup Found(q, types)

WholeQuestion(q) ==
  (IF Semantic(q)
     THEN {Constraint(Positions(q), "SEMANTIC", Plain("text", {}),
                      IF SemanticConjunction(q) THEN "conjunctive_semantic_retrieval_not_guaranteed" ELSE "")}
     ELSE {})
  \cup
  (IF GroupedAlternatives(q)
     THEN {Constraint(Positions(q), "BOOLEAN", Plain("or", {}), "grouped_boolean_planning_not_implemented")}
     ELSE {})

\* The rules join their filters by "and"; only a language model proposes a tree.
NoBoolean == [op |-> "", spans |-> {}]

Subjective == {"safe", "good"}
ResidualConstraint(q, i) ==
  IF q[i] \in Subjective
    THEN Constraint({i}, "SUBJECTIVE", Plain("text", {}), "subjective_execution_unsupported")
    ELSE Constraint({i}, "SEMANTIC", Plain("text", {}), "unparsed_material_clause")

\* A descriptive question is searched by meaning: what is not structured is its text.
Finish(q, intent, stated, types) ==
  LET left == IF Semantic(q) THEN {}
              ELSE {i \in Positions(q) \ Occupied(q, stated, types) : q[i] \notin NonMaterial}
      open == {i \in left : q[i] \notin Subjective}
  IN Normalize(q, [intent |-> intent.item.field,
                   constraints |-> stated \cup {intent} \cup {ResidualConstraint(q, i) : i \in left},
                   residuals |-> {{i} : i \in open},
                   boolean |-> NoBoolean, semantic |-> Semantic(q), policies |-> {},
                   complete |-> left = {}],
               PeerSelectors(q))

Constrain(q, types, taken, entities, relations) ==
  LET filters == Filters(q, types, taken)
      fields  == RequestedFields(q, filters, UniverseSpan(q))
  IN Finish(q, IntentConstraint(q, Intent(q, entities, Sorts(q)), Sorts(q), fields),
            TypeConstraints(q, types) \cup UniverseConstraints(q) \cup FilterConstraints(q, filters)
            \cup SortConstraints(q) \cup FieldConstraints(q, fields) \cup entities \cup RelationConstraints(relations)
            \cup LimitConstraints(q) \cup OperationConstraints(q) \cup WholeQuestion(q),
            types)

\* The words of names and of selected peers are no types and no filters.
Related(q, named, relations) ==
  LET taken == UNION ({e.name : e \in named} \cup PeerSelectors(q))
  IN Constrain(q, ProductTypes(q, taken), taken, EntityConstraints(q, named, relations), relations)
Managed(q, manager) == Related(q, NamedEntities(q, manager), RelationSpans(q, TargetPhrases(q, manager)))

Analyze(q) == Managed(q, ManagerPhrase(q))
================================================================================
