----------------------------- MODULE QuestionWords -----------------------------
(***************************************************************************)
(* The words a question is made of, as the rule analyzer tells them apart, *)
(* and the pieces it reads off them: collections, filters and sorts.       *)
(*                                                                         *)
(* A question is a sequence of words; a word stands for one surface form   *)
(* of src/app/query/analyzer.py. A span of characters is the set of the    *)
(* words it quotes: i for the whole of word i, -i for a part of it. The    *)
(* rules quote whole words, a language model what it likes. Particles that *)
(* a pattern needs ("of" for the possessive, "held" for "<object> held     *)
(* by") are words of their own, the others are left out. A word outside    *)
(* every list below is a name or a condition the analyzer does not know.   *)
(***************************************************************************)
EXTENDS Integers, FiniteSets, FiniteSetsExt, Sequences

Nouns == {"ETF", "Fund", "Bond"}                    \* product type aliases
NonBondNouns == {"ETF", "Fund"}
Regions == {"US", "Japan", "Domestic"}
Assets == {"Equity", "Bond"}                        \* "Bond" is an asset class too
BondKinds == {"Corporate", "MBS"}
FieldWords == {"fee", "aum", "price", "maturity", "weight", "observed"}
RankedWords == FieldWords \cup {"return"}
MetricFields == {"fee", "aum", "price", "return", "expense_ratio"}
Listed == {"ETF", "ETP"}                            \* what the exchange-traded filters ask for
Relations == {"held", "managed", "issued", "manager", "index"}

\* Words that carry no condition: particles, requests, conjunctions.
NonMaterial == {"of", "among", "and", "all", "show", "info", "compare", "recommend"}

Positions(q) == DOMAIN q
At(q, i, words) == i \in Positions(q) /\ q[i] \in words
Found(q, words) == {i \in Positions(q) : q[i] \in words}
Says(q, word) == Found(q, {word}) # {}
\* The words a span has to do with, and those whose text it holds.
Words(span) == {IF i < 0 THEN -i ELSE i : i \in span}
Text(q, span) == {q[i] : i \in span \cap Positions(q)}
Hull(span) == IF span = {} THEN {} ELSE Min(span)..Max(span)
FirstOf(set) == IF set = {} THEN {} ELSE {Min(set)}

\* Each alias once, where it first occurs outside the taken spans.
FindAliases(q, aliases, taken) ==
  {i \in Found(q, aliases) \ taken : \A j \in 1..(i - 1) : q[j] = q[i] => j \in taken}

\* Some occurrence of the word is followed by "not" ("except", "other than").
Negated(q, word) == \E i \in Positions(q) : q[i] = word /\ At(q, i + 1, {"not"})

\* "other ... ETF": a group of products, not one of them.
PeerSelectors(q) ==
  {i..Min({j \in Found(q, {"ETF"}) : j > i + 1})
     : i \in {k \in Found(q, {"other"}) : \E j \in Found(q, {"ETF"}) : j > k + 1}}

(* Product types and the population. *)

ProductTypes(q, taken) ==
  LET named == {w \in Text(q, FindAliases(q, Nouns, taken)) : ~Negated(q, w)}
  IN CASE named \cap NonBondNouns # {} -> named \ {"Bond"}
       [] OTHER -> named \cup (IF FindAliases(q, BondKinds, taken) = {} THEN {} ELSE {"Bond"})

\* A bond type makes the question one about bonds although no word says so.
TypeSpan(q, type) ==
  IF Says(q, type) THEN FirstOf(Found(q, {type})) ELSE FirstOf(Found(q, IF Says(q, "MBS") THEN {"MBS"} ELSE BondKinds))

DomesticMarket == [ETF |-> "DomesticETF", ETP |-> "DomesticETP"]

\* <<span, operand>> of provider scopes and market prefixes, among the positions given.
ScopeOperands(found) == {<<{i}, "KODEX_LONG_ONLY">> : i \in FirstOf(found)}
ProviderOperands(q, found) == {<<i..(i + 1), "KODEX_FULL">> : i \in FirstOf({j \in found : At(q, j + 1, {"ETF"})})}
MarketOperands(q, found) ==
  {<<i..(i + 1), DomesticMarket[q[i + 1]]>> : i \in {j \in found : At(q, j + 1, Listed)}}
\* Nouns of their own, outside the operands before them. A scope says which ETFs.
NounOperands(q, found, scoped) ==
  {<<{i}, m>> : i \in found \cap Found(q, {"ETP"}), m \in {"DomesticETP", "ForeignETP"}}
  \cup {<<{i}, q[i]>> : i \in found \cap Found(q, IF scoped THEN {"Fund"} ELSE NonBondNouns)}

WithNouns(q, outside, scope, sourced) ==
  scope \cup sourced \cup NounOperands(q, outside \ UNION {m[1] : m \in sourced}, scope # {})
WithMarkets(q, outside, scope) ==
  WithNouns(q, outside, scope,
            (IF scope # {} THEN {} ELSE ProviderOperands(q, Found(q, {"KODEX"}) \cap outside))
            \cup MarketOperands(q, Found(q, {"Domestic"}) \cap outside))
\* A selected group of peers is not the population.
Populations(q) ==
  LET outside == Positions(q) \ UNION PeerSelectors(q)
  IN WithMarkets(q, outside, ScopeOperands(Found(q, {"kodexscope"}) \cap outside))

\* The population a question names: a source scope, or a union of two or more.
\* Its span reaches from the first operand to the last.
UniverseOf(populations) ==
  LET operands == {m[2] : m \in populations}
  IN IF operands \subseteq NonBondNouns /\ Cardinality(operands) < 2 THEN {}
     ELSE {[span |-> Hull(UNION {m[1] : m \in populations}), operands |-> operands]}
Universe(q) == UniverseOf(Populations(q))

UniverseSpan(q) == UNION {u.span : u \in Universe(q)}

(* Filters: [field, op, value], the value a set of words. *)

FilterOf(field, op, value) == [field |-> field, op |-> op, value |-> value]

\* One of the values is excluded, any of several is asked for, or the first counts.
MemberFilter(q, field, found) ==
  LET excluded == {i \in found : Negated(q, q[i])}
  IN CASE found = {} -> {}
       [] excluded # {} -> {FilterOf(field, "ne", {q[Min(excluded)]})}
       [] excluded = {} /\ Cardinality(found) > 1 /\ Says(q, "or") -> {FilterOf(field, "in", Text(q, found))}
       [] OTHER -> {FilterOf(field, "eq", {q[Min(found)]})}

\* "<country> market listed"
Listings(q) == {i \in Found(q, {"US", "Domestic"}) : At(q, i + 1, {"listed"})}

RegionFilters(q, taken) ==
  LET found == FindAliases(q, Regions, taken \cup UniverseSpan(q))
  IN MemberFilter(q, "region", {i \in found : q[i] \notin Text(q, Listings(q))})

AssetFilters(q, types, taken) ==
  LET found == FindAliases(q, Assets, taken \cup Found(q, BondKinds))
  IN MemberFilter(q, "asset_type", {i \in found : types = {"Bond"} => q[i] # "Bond"})

BondKindFilters(q, taken) == MemberFilter(q, "bond_type", FindAliases(q, BondKinds, taken))

ExcludedTypes(q, taken) ==
  {FilterOf("product_type", "ne", {w}) : w \in {v \in Text(q, FindAliases(q, Nouns, taken)) : Negated(q, v)}}

\* A calendar year of maturity, in either order; normalized to the whole year.
MaturityPairs(q) ==
  {i \in Positions(q) : \/ At(q, i, {"maturity"}) /\ At(q, i + 1, {"year", "asof"})
                        \/ At(q, i, {"year"}) /\ At(q, i + 1, {"maturity"})}
MaturityFilters(q, taken) ==
  IF \E i \in MaturityPairs(q) : i \notin taken \/ q[i] = "maturity"
    THEN {FilterOf("maturity", "between", {"year"})} ELSE {}

\* Fixed phrases, each with its predicate and the products it is about; one
\* of each group stands for it.
CurrencyPhrase(q) == {FilterOf("trading_currency", "eq", {"usd"}) : i \in FirstOf(Found(q, {"usd"}))}
RatingPhrase(q) == {FilterOf("credit_rating", "gte", {"rated"}) : i \in FirstOf(Found(q, {"rated"}))}
ListedPhrase(q) ==
  {FilterOf("current_etp_sale_eligible", "eq", {"buyable"}) : i \in {j \in Found(q, {"buyable"}) : Found(q, Listed) # {}}}
BondPhrase(q, types) ==
  {FilterOf("current_bond_purchase_eligible", "eq", {"buyable"})
     : i \in {j \in Found(q, {"buyable"}) : "Bond" \in types \/ Says(q, "Bond")}}
FundPhrase(q) == {FilterOf("current_fund_subscription_eligible", "eq", {"open"}) : i \in FirstOf(Found(q, {"open"}))}

Phrases(q, types) ==
  CurrencyPhrase(q) \cup RatingPhrase(q) \cup ListedPhrase(q) \cup BondPhrase(q, types) \cup FundPhrase(q)

\* "fee at most 1%": the value has a unit, which no workbook contract confirms.
NumericFilters(q) ==
  {FilterOf("expense_ratio", "lte", {"atmost"}) : i \in FirstOf({j \in Found(q, {"fee"}) : At(q, j + 1, {"atmost"})})}
Typed(f) == f.field \in {"expense_ratio"}

Filters(q, types, taken) ==
  MaturityFilters(q, taken) \cup RegionFilters(q, taken) \cup AssetFilters(q, types, taken)
  \cup BondKindFilters(q, taken) \cup ExcludedTypes(q, taken)
  \cup {FilterOf("listing_country", "eq", {q[i]}) : i \in FirstOf(Listings(q))}
  \cup Phrases(q, types) \cup NumericFilters(q)

\* The words after a member filter that belong to it: "not" or "or".
Modifier(q, span) == span \cup {i \in {Max(span) + 1} : At(q, i, {"not", "or"})}

\* Where the question states a filter; found again by its words, so a filter of
\* several values takes in all that stands between the first and the last of them.
FilterSpan(q, f, scope) ==
  CASE f.field = "maturity" ->
         LET pairs == MaturityPairs(q)
             forward == {i \in pairs : q[i] = "maturity"}
             first == Min(IF forward # {} THEN forward ELSE pairs)
         IN first..(first + 1)
    [] Typed(f) ->
         LET start == Min(Found(q, {"fee"}))
         IN start..Min({i \in Found(q, f.value) : i > start})
    [] f.field = "listing_country" -> LET first == Min(Listings(q)) IN first..(first + 1)
    [] f.field = "current_etp_sale_eligible" ->
         LET first == Min(Found(q, f.value))
             market == first + (IF At(q, first + 1, {"Domestic"}) THEN 1 ELSE 0)
         IN first..(market + (IF At(q, market + 1, Listed) THEN 1 ELSE 0))
    [] f.field = "bond_type" -> FirstOf(Found(q, BondKinds))
    [] f.field \in {"trading_currency", "credit_rating", "current_fund_subscription_eligible",
                    "current_bond_purchase_eligible"} -> FirstOf(Found(q, f.value))
    [] f.field \in {"region", "asset_type", "product_type"} ->
         LET outside(w) == IF f.field = "region" /\ Found(q, {w}) \ scope # {}
                             THEN Found(q, {w}) \ scope ELSE Found(q, {w})
         IN Modifier(q, Hull(UNION {FirstOf(outside(w)) : w \in f.value}))

(* Orders. *)

\* <<field, direction, span>>: a historical change, a ranking adjective, a top-n.
Sorts(q) ==
  {[field |-> "aum", dir |-> "desc", span |-> i..(i + 2)]
      : i \in {j \in Found(q, {"overyear"}) : At(q, j + 1, {"aum"}) /\ At(q, j + 2, {"grew"})}}
  \cup
  {[field |-> q[i], dir |-> IF At(q, i + 1, {"low"}) THEN "asc" ELSE "desc", span |-> i..(i + 1)]
      : i \in {j \in Found(q, RankedWords) :
                 \/ At(q, j + 1, {"low", "high"}) /\ q[j] # "maturity"
                 \/ At(q, j + 1, {"good"}) /\ q[j] = "return"
                 \/ At(q, j + 1, {"top3"})}}

SortSpans(q) == UNION {s.span : s \in Sorts(q)}

\* Fields asked for, each once: not those that order or filter the products,
\* nor one compared with a number.
RequestedFields(q, filters, scope) ==
  LET filtered == UNION {FilterSpan(q, f, scope) : f \in filters}
      free == {i \in Positions(q) \ SortSpans(q) : ~At(q, i + 1, {"atmost"})}
      named == {i \in Found(q, FieldWords) : i \in free \ filtered}
      projected(i) == \/ Says(q, "compare")
                      \/ \E j \in 1..(i - 1) : q[j] = "of"
                      \/ named # {} /\ Says(q, "and")
  IN Text(q, named) \cup Text(q, {i \in Found(q, {"return"}) : i \in free /\ projected(i)})

\* The number a question asks for: "top 3" before "3 of them".
LimitAt(q) ==
  CASE Says(q, "top3") -> FirstOf(Found(q, {"top3"}))
    [] OTHER -> FirstOf(Found(q, {"three", "toomany"}))
Number == [top3 |-> "3", three |-> "3", toomany |-> "2000"]
================================================================================
