--------------------------- MODULE MCQuestionParsing ---------------------------
(***************************************************************************)
(* A small instance of QuestionParsing: questions that meet each way out   *)
(* of the rules, and for each the proposals a language model could make of *)
(* the rule parse it is shown: every constraint kept, dropped, widened to  *)
(* the whole question or by a part of an unread word or changed, every     *)
(* unread word read in each kind, whole or in part, an order or a number   *)
(* added, filters combined, a default proposed.                            *)
(***************************************************************************)
EXTENDS QuestionParsing

MCQuestions == {
  <<"US", "ETF", "show">>,                              \* complete
  <<"safe", "ETF", "show">>,                            \* understood, not executable
  <<"US", "div", "ETF", "fee", "low">>,                 \* an unread word beside a filter and an order
  <<"US", "or", "Japan", "Fund", "div">>,               \* alternatives
  <<"US", "not", "div", "Fund">>,                       \* an exclusion
  <<"safe", "US", "semi", "ETF">>,                      \* a wish beside an unread word
  <<"Domestic", "ETF", "Fund", "div", "fee", "low">>,   \* a union of populations
  <<"return", "good", "ETF", "div">>,                   \* defaults for a number and a period
  <<"top3", "ETF", "fee", "show">>,                     \* a number without an order
  <<"aum", "high", "three", "ETF", "div">>,             \* an order with a number
  <<"fee", "atmost", "ETF", "div">>,                    \* a value with a unit
  <<"maturity", "year", "Bond", "div">>,                \* a year of maturity
  <<"name", "held", "ETF", "div">>,                     \* a relation
  <<"semi", "theme", "ETF", "Japan">>,                  \* searched by meaning
  <<"usd", "ETF", "div">>,                              \* a predicate no proposal can repeat
  <<"other", "US", "ETF", "compare">>,                  \* a group of peers
  <<"US", "Equity", "div", "ETF">>,                     \* two filters, joined by "and"
  <<"count", "US", "ETF">>,                             \* an operation nobody executes
  <<"asof", "Japan", "Fund">> }                         \* a state of the past

Entry(span, kind, item) == [span |-> span, kind |-> kind, item |-> item, negated |-> FALSE]
Unread(span) == {Entry(span, kind, Plain("", {})) : kind \in {"SEMANTIC", "SUBJECTIVE", "UNRESOLVED"}}
Part(i) == -i
\* Parts of the words the rules left unread.
Syllables(r) == {Part(i) : i \in UNION r.residuals}
Flipped(item) == [item EXCEPT !.op = IF @ = "asc" THEN "desc" ELSE "asc"]
\* The filter as the words spell it: a year, or one filter for each alternative.
Apart(q, f) ==
  CASE f.item.field = "maturity" -> {Entry(f.span, "FILTER", [f.item EXCEPT !.op = "eq"])}
    [] f.item.op = "in" -> {Entry(FirstOf(Found(q, {w})), "FILTER", Item(f.item.field, "eq", {w})) : w \in f.item.value}
    [] OTHER -> {Entry(f.span, "FILTER", f.item)}

\* The sets of items that may stand in a proposal for one constraint of the rules.
Readings(q, r, c) ==
  LET kept == Entry(c.span, c.kind, c.item)
      whole == Entry(Positions(q), c.kind, c.item)
      wider == Entry(c.span \cup Syllables(r), c.kind, c.item)
      parts == IF c.span \in r.residuals THEN {Part(i) : i \in c.span} ELSE c.span
  IN IF c.kind \in {"INTENT", "BOOLEAN", "PRODUCT_UNIVERSE"} \/ IsDefault(c) THEN {{}} ELSE
     CASE c.kind = "FILTER" -> {{}, {kept}, {whole}, {wider}, Apart(q, c), {Entry(c.span, "FILTER", [c.item EXCEPT !.op = "ne"])}}
       [] c.kind = "SORT"   -> {{}, {kept}, {[kept EXCEPT !.item = Flipped(@)]}, {kept, [whole EXCEPT !.item = Flipped(@)]}}
       [] c.kind = "LIMIT"  -> {{}, {kept}, {[kept EXCEPT !.item.value = {"2000"}]}} \cup {{u} : u \in Unread(c.span)}
       [] c.kind \in {"SEMANTIC", "SUBJECTIVE"} -> {{}} \cup {{u} : u \in Unread(c.span) \cup Unread(parts)} \cup {{Entry(c.span, "ENTITY", Plain("product", {}))}}
       [] c.kind = "RELATION" -> {{}} \cup {{Entry(c.span, "RELATION", Plain(w, {}))} : w \in Text(q, c.span) \cap Relations}
       [] OTHER -> {{}, {kept}, {whole}}

Combinations(q, r) == FoldSet(LAMBDA c, acc : {a \cup x : a \in acc, x \in Readings(q, r, c)}, {{}}, r.constraints)

\* An order the rules did not see, a number nobody asked for.
Additions(q) ==
  {{}} \cup {{Entry({i}, "SORT", Item(q[i], "desc", {}))} : i \in Found(q, {"fee"})}
       \cup {{Entry(Positions(q), "LIMIT", Plain("limit", {"5"}))}}

Trees(items) ==
  LET filters == Spans({i \in items : i.kind = "FILTER"})
  IN {NoBoolean} \cup {[op |-> "NOT", spans |-> {s}] : s \in filters}
     \cup (IF Cardinality(filters) > 1 THEN {[op |-> op, spans |-> filters] : op \in {"OR", "AND"}} ELSE {})

MCCandidates(q, r) ==
  LET read == {x \cup a : x \in Combinations(q, r), a \in Additions(q)}
      \* There is one place for a number in a proposal.
      proposed == {items \in read : Cardinality({i \in items : i.kind = "LIMIT"}) < 2}
  IN UNION {{[intent |-> intent, items |-> items, boolean |-> tree, policies |-> policies]
               : intent \in {r.intent, "search"}, tree \in Trees(items),
                 policies \in {{}, {"TOPK.default_k"}, {"RETURN.default_period"}}}
            : items \in proposed}
================================================================================
