------------------------- MODULE CanonicalStore_proofs -------------------------
(***************************************************************************)
(* What rebuilds write stays traced and complete, disputed columns stay    *)
(* open and a rebuild of good workbooks is accepted, whatever the          *)
(* workbooks and the scopes.  The argument: what the rebuilds own and what *)
(* reconciliation sees is left alone by activations (Leaves), every write  *)
(* of a row keeps it traced (RowWrite) and is seen (NativeWrite), the last *)
(* batch and the counts of the reconciliation give what READY promises,    *)
(* a rebuild over its own result shows the same again (RunAgain), and each *)
(* relation of a scope of issuers is given by one of its rows              *)
(* (IssuersHeld).                                                          *)
(***************************************************************************)
EXTENDS CanonicalStore, TLAPS, FiniteSetTheorems, WellFoundedInduction

(* The tables. *)

\* Two rows of a table that share a unique key.
Clash(t, row, old) ==
  \E columns \in (Keys[t] \cup PartialKeys(t, row)) \cap (Keys[t] \cup PartialKeys(t, old)) :
    \A c \in columns : row[c] = old[c]

LEMMA TakenClash ==
  ASSUME NEW t, NEW row, NEW old, Taken(t, row) \cap Taken(t, old) # {}
  PROVE  Clash(t, row, old)
<1>1. PICK a \in Keys[t] \cup PartialKeys(t, row), b \in Keys[t] \cup PartialKeys(t, old) :
        <<a, [c \in a |-> row[c]]>> = <<b, [c \in b |-> old[c]]>>
  BY DEF Taken
<1>2. a = b /\ [c \in a |-> row[c]] = [c \in a |-> old[c]]
  BY <1>1
<1>3. \A c \in a : row[c] = old[c]
  BY <1>2
<1> QED BY <1>2, <1>3 DEF Clash

\* An insert keeps what is stored, adds nothing but what is written, and leaves
\* a row out only if a stored one clashes with it.
LEMMA InsertFacts ==
  ASSUME NEW d, NEW W
  PROVE  /\ DOMAIN Insert(d, W) = DOMAIN d
         /\ \A t \in DOMAIN d :
              /\ d[t] \subseteq Insert(d, W)[t]
              /\ Insert(d, W)[t] \subseteq d[t] \cup RowsFor(W, t)
              /\ \A row \in RowsFor(W, t) :
                   row \in Insert(d, W)[t] \/ \E old \in d[t] : Clash(t, row, old)
<1>1. DOMAIN Insert(d, W) = DOMAIN d
  BY DEF Insert
<1>2. \A t \in DOMAIN d : Insert(d, W)[t] = d[t] \cup Fresh(t, d[t], RowsFor(W, t))
  BY DEF Insert
<1>3. ASSUME NEW t \in DOMAIN d, NEW row \in RowsFor(W, t), \A old \in d[t] : ~Clash(t, row, old)
      PROVE  row \in Fresh(t, d[t], RowsFor(W, t))
  <2>1. \A old \in d[t] : Taken(t, row) \cap Taken(t, old) = {}
    BY <1>3, TakenClash
  <2>2. Taken(t, row) \cap TakenBy(t, d[t]) = {}
    BY <2>1 DEF TakenBy
  <2> QED BY <2>2 DEF Fresh
<1>4. \A t \in DOMAIN d : Fresh(t, d[t], RowsFor(W, t)) \subseteq RowsFor(W, t)
  BY DEF Fresh
<1> QED BY <1>1, <1>2, <1>3, <1>4

LEMMA KeysOfOwn ==
  /\ {"source_records", "quarantine_records", "source_record_entities", "canonical_facts",
      "fact_evidence_links", "fact_conflict_cases"} \subseteq DOMAIN Keys
  /\ Keys["source_record_entities"] = {{"record", "entity"}}
  /\ Keys["canonical_facts"] = {{"id"}}
  /\ Keys["fact_evidence_links"] = {{"fact", "assertion"}}
  /\ Keys["fact_conflict_cases"] = {{"id"}}
<1>1. "source_record_entities" \in DOMAIN FactKeys /\ FactKeys["source_record_entities"] = {{"record", "entity"}}
  BY DEF FactKeys
<1>2. "canonical_facts" \in DOMAIN FactKeys /\ FactKeys["canonical_facts"] = {{"id"}}
  BY DEF FactKeys
<1>3. "fact_evidence_links" \in DOMAIN FactKeys /\ FactKeys["fact_evidence_links"] = {{"fact", "assertion"}}
  BY DEF FactKeys
<1>4. "fact_conflict_cases" \in DOMAIN CaseKeys /\ CaseKeys["fact_conflict_cases"] = {{"id"}}
  BY DEF CaseKeys
<1>5. "source_records" \in DOMAIN SourceKeys /\ "quarantine_records" \in DOMAIN SourceKeys
  BY DEF SourceKeys
<1>6. \A t \in {"source_record_entities", "canonical_facts", "fact_evidence_links", "fact_conflict_cases"} :
        t \notin DOMAIN SourceKeys /\ t \notin DOMAIN EntityKeys /\ t \notin DOMAIN NameKeys
  BY DEF SourceKeys, EntityKeys, NameKeys
<1>7. "fact_conflict_cases" \notin DOMAIN FactKeys /\ "fact_conflict_cases" \notin DOMAIN MetricKeys
  BY DEF FactKeys, MetricKeys
<1>8. ASSUME NEW t \in DOMAIN FactKeys,
             t \notin DOMAIN SourceKeys, t \notin DOMAIN EntityKeys, t \notin DOMAIN NameKeys
      PROVE  Keys[t] = FactKeys[t]
  BY <1>8 DEF Keys
<1>9. Keys["fact_conflict_cases"] = CaseKeys["fact_conflict_cases"]
  BY <1>4, <1>6, <1>7 DEF Keys
<1> QED BY <1>1, <1>2, <1>3, <1>4, <1>5, <1>6, <1>8, <1>9 DEF Keys

(* What the reconciliation reads. *)

Kinds == {"entity_relations", "organization_relations", "index_relations"}
ReadTables ==
  {"source_records", "quarantine_records", "source_record_entities", "canonical_entities", "organizations",
   "canonical_facts", "fact_evidence_links", "entity_relations", "organization_relations", "index_relations",
   "entity_classifications", "ontology_concepts", "metric_observations", "financial_products", "bonds",
   "exchange_traded_products", "funds", "fund_share_classes", "sale_lots", "identity_resolution_cases"}

Home(id) == id[1] \notin {"security", "organization"}
Native(t, row) ==
  CASE t = "source_records" -> row.snapshot \in Dataset
    [] t = "source_record_entities" -> row.record[1] = "record"
    [] t \in {"canonical_entities", "organizations"} -> Home(row.id)
    [] t = "canonical_facts" -> SnapshotOf(row.id) \in Dataset
    [] t \in {"fact_evidence_links", "entity_relations", "metric_observations"} -> SnapshotOf(row.fact) \in Dataset
    [] OTHER -> TRUE
View(d) == [t \in ReadTables |-> {row \in d[t] : Native(t, row)}]
KindOf(id) ==
  CASE id[1] \in {Bond, Domestic, Foreign, "fund_family"} -> "FINANCIAL_PRODUCT"
    [] id[1] = Fund -> "FUND_SHARE_CLASS"
    [] id[1] = "sale_lot" -> "SALE_LOT"
    [] id[1] \in {"ISSUER", "ASSET_MANAGER", "TRUSTEE", "organization"} -> "ORGANIZATION"
    [] id[1] = "index" -> "INDEX"
    [] id[1] = "security" -> "SECURITY"
    [] OTHER -> id[1]
ScopeRelation(d, x) ==
  \/ /\ x.type = "HOLDS" /\ KindOf(x.object) = "SECURITY"
     /\ \E p \in d["financial_products"] : p.id = x.subject
  \/ x.type = "SECURITY_ISSUED_BY" /\ KindOf(x.subject) = "SECURITY" /\ KindOf(x.object) = "ORGANIZATION"
Sound(d) ==
  /\ \A s \in d["source_records"] : s.snapshot \in Dataset <=> s.id[1] = "record"
  /\ \A e \in d["canonical_entities"] : e.kind = KindOf(e.id)
  /\ \A p \in d["financial_products"] :
       KindOf(p.id) = "FINANCIAL_PRODUCT" /\ p.type \in {"BOND", "ETF", "ETN", "FUND"}
  /\ \A f \in d["canonical_facts"] : SnapshotOf(f.id) \in Dataset \/ EvidenceOf(d, f.id) # {}
  /\ \A x \in d["entity_relations"] :
       IF SnapshotOf(x.fact) \in Dataset THEN Home(x.subject) /\ Home(x.object) ELSE ScopeRelation(d, x)
  /\ \A x \in d["organization_relations"] \cup d["index_relations"] :
       SnapshotOf(x.fact) \in Dataset /\ Home(x.subject) /\ Home(x.object)
  /\ \A c \in d["entity_classifications"] : Home(c.entity)

LEMMA KeysOfRead ==
  /\ ReadTables \subseteq DOMAIN Keys
  /\ Keys["source_records"] = {{"id"}, {"snapshot", "key"}, {"snapshot", "n"}}
  /\ Keys["canonical_entities"] = {{"id"}} /\ Keys["organizations"] = {{"id"}}
  /\ Keys["entity_relations"] = {{"fact"}} /\ Keys["metric_observations"] = {{"fact"}}
<1>1. DOMAIN SourceKeys \cup DOMAIN EntityKeys \cup DOMAIN FactKeys \cup DOMAIN MetricKeys \cup DOMAIN CaseKeys
        \subseteq DOMAIN Keys
  BY DEF Keys
<1>2. {"source_records", "quarantine_records"} \subseteq DOMAIN SourceKeys
  BY DEF SourceKeys
<1>3. {"canonical_entities", "organizations", "financial_products", "bonds", "exchange_traded_products", "funds",
       "fund_share_classes", "sale_lots"} \subseteq DOMAIN EntityKeys
  BY DEF EntityKeys
<1>4. {"source_record_entities", "canonical_facts", "fact_evidence_links", "entity_relations", "organization_relations",
       "index_relations", "entity_classifications", "ontology_concepts"} \subseteq DOMAIN FactKeys
  BY DEF FactKeys
<1>5. {"metric_observations", "identity_resolution_cases"} \subseteq DOMAIN MetricKeys \cup DOMAIN CaseKeys
  BY DEF MetricKeys, CaseKeys
<1>6. ReadTables \subseteq DOMAIN Keys
  BY <1>1, <1>2, <1>3, <1>4, <1>5 DEF ReadTables
<1>7. Keys["source_records"] = SourceKeys["source_records"]
  BY <1>2, <1>6 DEF Keys, ReadTables
<1>8. SourceKeys["source_records"] = {{"id"}, {"snapshot", "key"}, {"snapshot", "n"}}
  BY DEF SourceKeys
<1>9. ASSUME NEW t \in {"canonical_entities", "organizations"}
      PROVE  Keys[t] = {{"id"}}
  <2>1. t \notin DOMAIN SourceKeys /\ t \in DOMAIN EntityKeys /\ t \in DOMAIN Keys
    BY <1>1 DEF SourceKeys, EntityKeys
  <2>2. EntityKeys[t] = {{"id"}}
    BY DEF EntityKeys
  <2> QED BY <2>1, <2>2 DEF Keys
<1>10. Keys["entity_relations"] = {{"fact"}}
  <2>1. /\ "entity_relations" \notin DOMAIN SourceKeys /\ "entity_relations" \notin DOMAIN EntityKeys
        /\ "entity_relations" \notin DOMAIN NameKeys /\ "entity_relations" \in DOMAIN FactKeys
    BY DEF SourceKeys, EntityKeys, NameKeys, FactKeys
  <2>2. FactKeys["entity_relations"] = {{"fact"}}
    BY DEF FactKeys
  <2> QED BY <2>1, <2>2, <1>1 DEF Keys
<1>11. Keys["metric_observations"] = {{"fact"}}
  <2>1. /\ "metric_observations" \notin DOMAIN SourceKeys /\ "metric_observations" \notin DOMAIN EntityKeys
        /\ "metric_observations" \notin DOMAIN NameKeys /\ "metric_observations" \notin DOMAIN FactKeys
        /\ "metric_observations" \in DOMAIN MetricKeys
    BY DEF SourceKeys, EntityKeys, NameKeys, FactKeys, MetricKeys
  <2>2. MetricKeys["metric_observations"] = {{"fact"}}
    BY DEF MetricKeys
  <2> QED BY <2>1, <2>2, <1>1 DEF Keys
<1> QED BY <1>6, <1>7, <1>8, <1>9, <1>10, <1>11

\* Two stores of which the reconciliation sees the same.
LEMMA SameRows ==
  ASSUME NEW d, NEW e, View(d) = View(e)
  PROVE  /\ \A t \in ReadTables : \A row : Native(t, row) => (row \in d[t] <=> row \in e[t])
         /\ \A t \in ReadTables : (\A row : Native(t, row)) => d[t] = e[t]
<1>1. \A t \in ReadTables : {row \in d[t] : Native(t, row)} = {row \in e[t] : Native(t, row)}
  BY DEF View
<1> QED BY <1>1

LEMMA WholeTables ==
  \A t \in {"quarantine_records", "organization_relations", "index_relations", "entity_classifications",
            "ontology_concepts", "financial_products", "bonds", "exchange_traded_products", "funds",
            "fund_share_classes", "sale_lots", "identity_resolution_cases"} :
    t \in ReadTables /\ \A row : Native(t, row)
BY DEF ReadTables, Native

(* External scopes. *)

\* What the rebuilds of the workbooks own in the tables they share.
Own(d) ==
  [records |-> {s \in d["source_records"] : s.snapshot \in Dataset},
   quarantine |-> d["quarantine_records"],
   links |-> {l \in d["source_record_entities"] : l.record[1] = "record"},
   facts |-> {f \in d["canonical_facts"] : SnapshotOf(f.id) \in Dataset},
   evidence |-> {l \in d["fact_evidence_links"] :
                   SnapshotOf(l.fact) \in Dataset \/ l.assertion[1][1] = "record"},
   conflicts |-> d["fact_conflict_cases"]]
Database(d) == DOMAIN d = DOMAIN Keys
Leaves(d, e) == Database(e) /\ Sound(e) /\ Own(e) = Own(d) /\ View(e) = View(d)

\* A write of a scope of which nothing is the workbooks'.
ForeignWrite(w) ==
  /\ w[1] \in ReadTables => ~Native(w[1], w[2])
  /\ w[1] # "fact_conflict_cases"
  /\ w[1] = "source_records" => w[2].id[1] # "record"
  /\ w[1] = "canonical_entities" => w[2].kind = KindOf(w[2].id)
  /\ w[1] = "fact_evidence_links" => w[2].assertion[1][1] # "record"

\* Its relations are of the two kinds, its facts are written with their evidence.
Supported(d, W) ==
  /\ \A x \in RowsFor(W, "entity_relations") : ScopeRelation(d, x)
  /\ \A f \in RowsFor(W, "canonical_facts") : \E l \in RowsFor(W, "fact_evidence_links") : l.fact = f.id

LEMMA PlainIsSupported ==
  ASSUME NEW d, NEW W, \A w \in W : w[1] \notin {"entity_relations", "canonical_facts"}
  PROVE  Supported(d, W)
BY DEF Supported, RowsFor

LEMMA RowIsWrite ==
  ASSUME NEW W, NEW t, NEW row \in RowsFor(W, t)
  PROVE  \E w \in W : w[1] = t /\ w[2] = row
BY DEF RowsFor

LEMMA InsertLeaves ==
  ASSUME NEW d, Database(d), Sound(d), NEW W, \A w \in W : ForeignWrite(w), Supported(d, W)
  PROVE  Leaves(d, Insert(d, W))
<1> DEFINE e == Insert(d, W)
<1>1. /\ DOMAIN e = DOMAIN d
      /\ \A t \in DOMAIN d : d[t] \subseteq e[t] /\ e[t] \subseteq d[t] \cup RowsFor(W, t)
  BY InsertFacts
<1>2. /\ "source_records" \in DOMAIN d /\ "quarantine_records" \in DOMAIN d
      /\ "source_record_entities" \in DOMAIN d /\ "canonical_facts" \in DOMAIN d
      /\ "fact_evidence_links" \in DOMAIN d /\ "fact_conflict_cases" \in DOMAIN d
  BY KeysOfOwn DEF Database
<1> HIDE DEF e
<1>3. \A t, row : row \in RowsFor(W, t) => ForeignWrite(<<t, row>>)
  <2> SUFFICES ASSUME NEW t, NEW row \in RowsFor(W, t)
               PROVE  ForeignWrite(<<t, row>>)
    OBVIOUS
  <2>1. PICK w \in W : w[1] = t /\ w[2] = row
    BY DEF RowsFor
  <2> QED BY <2>1 DEF ForeignWrite
<1>4. \A t \in ReadTables : \A row \in RowsFor(W, t) : ~Native(t, row)
  BY <1>3 DEF ForeignWrite
<1>5. /\ {"source_records", "quarantine_records", "source_record_entities", "canonical_facts", "fact_evidence_links",
          "entity_relations", "canonical_entities"} \subseteq ReadTables
      /\ \A t \in ReadTables : t \in DOMAIN d
  BY KeysOfRead DEF Database, ReadTables
<1>6. View(e) = View(d)
  <2>1. ASSUME NEW t \in ReadTables
        PROVE  {row \in e[t] : Native(t, row)} = {row \in d[t] : Native(t, row)}
    BY <1>1, <1>4, <1>5
  <2> QED BY <2>1 DEF View
<1>7. Own(e) = Own(d)
  <2>1. {x \in e["source_records"] : x.snapshot \in Dataset} = {x \in d["source_records"] : x.snapshot \in Dataset}
    BY <1>1, <1>2, <1>4, <1>5 DEF Native
  <2>2. RowsFor(W, "quarantine_records") = {} /\ RowsFor(W, "fact_conflict_cases") = {}
    BY <1>3, <1>4, <1>5 DEF ForeignWrite, Native
  <2>3. e["quarantine_records"] = d["quarantine_records"] /\ e["fact_conflict_cases"] = d["fact_conflict_cases"]
    BY <1>1, <1>2, <2>2
  <2>4. {l \in e["source_record_entities"] : l.record[1] = "record"}
          = {l \in d["source_record_entities"] : l.record[1] = "record"}
    BY <1>1, <1>2, <1>4, <1>5 DEF Native
  <2>5. {f \in e["canonical_facts"] : SnapshotOf(f.id) \in Dataset}
          = {f \in d["canonical_facts"] : SnapshotOf(f.id) \in Dataset}
    BY <1>1, <1>2, <1>4, <1>5 DEF Native
  <2>6. \A row \in RowsFor(W, "fact_evidence_links") :
          SnapshotOf(row.fact) \notin Dataset /\ row.assertion[1][1] # "record"
    BY <1>3, <1>4, <1>5 DEF ForeignWrite, Native
  <2>7. {l \in e["fact_evidence_links"] : SnapshotOf(l.fact) \in Dataset \/ l.assertion[1][1] = "record"}
          = {l \in d["fact_evidence_links"] : SnapshotOf(l.fact) \in Dataset \/ l.assertion[1][1] = "record"}
    BY <1>1, <1>2, <2>6
  <2> QED BY <2>1, <2>3, <2>4, <2>5, <2>7 DEF Own
<1>8. \A t \in {"financial_products", "organization_relations", "index_relations", "entity_classifications"} : e[t] = d[t]
  BY <1>6, SameRows, WholeTables
<1>9. d["fact_evidence_links"] \subseteq e["fact_evidence_links"]
  BY <1>1, <1>2
<1>10. \A fact : EvidenceOf(d, fact) \subseteq EvidenceOf(e, fact)
  BY <1>9 DEF EvidenceOf
<1>11. \A s \in e["source_records"] : s.snapshot \in Dataset <=> s.id[1] = "record"
  <2>1. \A s \in RowsFor(W, "source_records") : s.snapshot \notin Dataset /\ s.id[1] # "record"
    BY <1>3, <1>4, <1>5 DEF ForeignWrite, Native
  <2> QED BY <1>1, <1>2, <2>1 DEF Sound
<1>12. \A x \in e["canonical_entities"] : x.kind = KindOf(x.id)
  <2>1. \A x \in RowsFor(W, "canonical_entities") : x.kind = KindOf(x.id)
    BY <1>3 DEF ForeignWrite
  <2> QED BY <1>1, <1>5, <2>1 DEF Sound
<1>13. \A f \in e["canonical_facts"] : SnapshotOf(f.id) \in Dataset \/ EvidenceOf(e, f.id) # {}
  <2>1. ASSUME NEW f \in RowsFor(W, "canonical_facts")
        PROVE  EvidenceOf(e, f.id) # {}
    <3>1. PICK l \in RowsFor(W, "fact_evidence_links") : l.fact = f.id
      BY DEF Supported
    <3>2. \A old : Clash("fact_evidence_links", l, old) => old.fact = f.id
      BY <3>1, KeysOfOwn DEF Clash, PartialKeys
    <3>3. l \in e["fact_evidence_links"] \/ \E old \in d["fact_evidence_links"] : Clash("fact_evidence_links", l, old)
      BY <1>2, InsertFacts DEF e
    <3>4. PICK k \in e["fact_evidence_links"] : k.fact = f.id
      BY <1>9, <3>1, <3>2, <3>3
    <3> QED BY <3>4 DEF EvidenceOf
  <2> QED BY <1>1, <1>2, <1>10, <2>1 DEF Sound
<1>14. \A x \in e["entity_relations"] :
         IF SnapshotOf(x.fact) \in Dataset THEN Home(x.subject) /\ Home(x.object) ELSE ScopeRelation(e, x)
  <2>1. \A x : ScopeRelation(d, x) => ScopeRelation(e, x)
    BY <1>8 DEF ScopeRelation
  <2>2. \A x \in RowsFor(W, "entity_relations") : SnapshotOf(x.fact) \notin Dataset /\ ScopeRelation(d, x)
    BY <1>4, <1>5 DEF Supported, Native
  <2> QED BY <1>1, <1>5, <2>1, <2>2 DEF Sound
<1>15. /\ \A p \in e["financial_products"] :
            KindOf(p.id) = "FINANCIAL_PRODUCT" /\ p.type \in {"BOND", "ETF", "ETN", "FUND"}
       /\ \A x \in e["organization_relations"] \cup e["index_relations"] :
            SnapshotOf(x.fact) \in Dataset /\ Home(x.subject) /\ Home(x.object)
       /\ \A c \in e["entity_classifications"] : Home(c.entity)
  BY <1>8 DEF Sound
<1>16. Sound(e)
  BY <1>11, <1>12, <1>13, <1>14, <1>15 DEF Sound
<1> QED BY <1>1, <1>6, <1>7, <1>16 DEF Leaves, Database, e

LEMMA LeavesTwice ==
  ASSUME NEW d, NEW e, NEW f, Leaves(d, e), Leaves(e, f)
  PROVE  Leaves(d, f)
BY DEF Leaves

LEMMA SourceRowsForeign ==
  ASSUME NEW scope \in Scope, NEW row, NEW n, NEW assertion
  PROVE  \A w \in SourceRows(scope, row, n, assertion) :
           ForeignWrite(w) /\ w[1] \notin {"entity_relations", "canonical_facts"}
<1>1. scope \notin Dataset
  BY StoreAssumption
<1> QED BY <1>1 DEF SourceRows, ForeignWrite, Native, ReadTables, NormalizedRecord

LEMMA AssertionsForeign ==
  ASSUME NEW row
  PROVE  /\ NormalizedRecord(row)[1] # "record"
         /\ HoldsAssertion(row)[1][1] # "record"
         /\ IssuerAssertion(row)[1][1] # "record"
         /\ ReturnAssertion(row)[1][1] # "record"
BY DEF NormalizedRecord, HoldsAssertion, IssuerAssertion, ReturnAssertion

\* What an identifier says, and what owns it.
LEMMA IdentifyShape ==
  ASSUME NEW d, NEW scheme, NEW space, NEW value, NEW kind
  PROVE  LET found == Identify(d, scheme, space, value, kind)
         IN /\ \A x \in found.ids : kind \in Kind(d, x)
            /\ found.status # "RESOLVED" => found.ids = {}
BY DEF Identify, Owners, Resolution, Nobody

LEMMA KindIsKept ==
  ASSUME NEW d, Sound(d), NEW id, NEW kind \in Kind(d, id)
  PROVE  kind = KindOf(id)
BY DEF Kind, Sound

LEMMA ProductIsHeld ==
  ASSUME NEW d, NEW scope, NEW h, NEW p \in ProductOf(d, scope, h).ids
  PROVE  \E x \in d["financial_products"] : x.id = p
<1> DEFINE By(scheme, space, value) ==
             IF value = "" \/ space = "" THEN Nobody ELSE Identify(d, scheme, space, value, "FINANCIAL_PRODUCT")
           isin == By("ISIN", "iso-6166", h.isin)
           ticker == By("TICKER", h.exchange, h.ticker)
           given == By("PROVIDER_SOURCE_ID", Space[scope].product, h.product)
           found == IF isin.status # "UNRESOLVED" THEN isin ELSE IF ticker.status # "UNRESOLVED" THEN ticker ELSE given
<1>1. \A scheme, space, value : By(scheme, space, value).status # "RESOLVED" => By(scheme, space, value).ids = {}
  BY IdentifyShape DEF Nobody, Resolution
<1>2. ProductOf(d, scope, h) = RequireEtf(d, found)
  BY DEF ProductOf
<1> HIDE DEF By
<1>3. found.status # "RESOLVED" => found.ids = {}
  BY <1>1
<1> HIDE DEF found
<1>4. "ETF" \in ProductType(d, p)
  BY <1>2, <1>3 DEF RequireEtf, Nobody, Resolution
<1> QED BY <1>4 DEF ProductType

LEMMA SecurityIsSecurity ==
  ASSUME NEW d, Sound(d), NEW scope, NEW h
  PROVE  \A s \in SecurityOf(d, scope, h).resolution.ids : KindOf(s) = "SECURITY"
<1> DEFINE found == {Identify(d, c[1], c[2], c[3], "SECURITY") : c \in Candidates(scope, h)}
           ids == UNION {f.ids : f \in found}
           new == {SecurityId(i) : i \in Identity(scope, h)}
<1>1. \A s \in ids : KindOf(s) = "SECURITY"
  BY IdentifyShape, KindIsKept
<1>2. \A s \in new : s[1] = "security"
  BY DEF SecurityId
<1>3. \A s \in new : KindOf(s) = "SECURITY"
  BY <1>2 DEF KindOf, Bond, Domestic, Foreign, Fund
<1>4. SecurityOf(d, scope, h).resolution.ids \in {{}, ids, new}
  BY DEF SecurityOf, Resolution, Nobody
<1> HIDE DEF ids, new
<1> QED BY <1>1, <1>3, <1>4

LEMMA SecurityForeign ==
  ASSUME NEW d, NEW scope, NEW h
  PROVE  \A w \in SecurityOf(d, scope, h).writes :
           ForeignWrite(w) /\ w[1] \notin {"entity_relations", "canonical_facts"}
<1>1. \A entity, candidates : \A w \in Attach(entity, candidates) : w[1] = "entity_identifiers"
  BY DEF Attach, IdentifierRow
<1>2. \A id, w : id[1] = "security" /\ w \in Create(id) =>
        ForeignWrite(w) /\ w[1] \notin {"entity_relations", "canonical_facts"}
  <2> SUFFICES ASSUME NEW id, id[1] = "security", NEW w \in Create(id)
               PROVE  ForeignWrite(w) /\ w[1] \notin {"entity_relations", "canonical_facts"}
    OBVIOUS
  <2>1. \/ w[1] = "canonical_entities" /\ w[2].id = id /\ w[2].kind = "SECURITY"
        \/ w[1] = "securities"
    <3> DEFINE entity == EntityRow(id, "SECURITY", "")
               security == <<"securities", [id |-> id, issuer |-> "UNRESOLVED"]>>
    <3>1. w = entity \/ w = security
      BY DEF Create
    <3>2. entity[1] = "canonical_entities" /\ entity[2].id = id /\ entity[2].kind = "SECURITY"
      BY DEF EntityRow
    <3>3. security[1] = "securities"
      OBVIOUS
    <3> HIDE DEF entity, security
    <3> QED BY <3>1, <3>2, <3>3
  <2>2. KindOf(id) = "SECURITY" /\ ~Home(id)
    BY DEF KindOf, Home, Bond, Domestic, Foreign, Fund
  <2> QED BY <2>1, <2>2 DEF ForeignWrite, Native, ReadTables
<1>3. \A i : SecurityId(i)[1] = "security"
  BY DEF SecurityId
<1>4. \A w \in SecurityOf(d, scope, h).writes :
        \/ \E id : w \in Attach(id, Candidates(scope, h))
        \/ \E i : w \in Create(SecurityId(i))
  BY DEF SecurityOf
<1> QED BY <1>1, <1>2, <1>3, <1>4 DEF ForeignWrite, ReadTables

LEMMA FactForeign ==
  ASSUME NEW s, NEW scope \in Scope, NEW kind, NEW key, NEW fact, fact = FactId(s, scope, kind, key)
  PROVE  /\ SubjectOf(fact) = s
         /\ \A status : ForeignWrite(FactRow(fact, status))
         /\ \A a, role : a[1][1] # "record" => ForeignWrite(EvidenceRow(fact, a, role))
         /\ \A type, object : ForeignWrite(RelationRow("entity_relations", fact, type, object))
         /\ \A metric, value :
              ForeignWrite(<<"metric_observations", [fact |-> fact, metric |-> metric, value |-> value]>>)
<1>1. scope \notin Dataset
  BY StoreAssumption
<1> QED BY <1>1 DEF ForeignWrite, Native, FactRow, EvidenceRow, RelationRow, FactId, SubjectOf, SnapshotOf

\* A relation of a scope as it is written: its fact, the relation, the evidence.
RelationTriple(fact, type, object, assertion) ==
  {FactRow(fact, "RESOLVED"), RelationRow("entity_relations", fact, type, object),
   EvidenceRow(fact, assertion, "SUPPORTS")}

LEMMA TriplesSupported ==
  ASSUME NEW d, NEW W, NEW scope \in Scope, NEW assertion, assertion[1][1] # "record",
         \A w \in W : \E s, kind, key, type, object :
           LET fact == FactId(s, scope, kind, key)
           IN /\ w \in RelationTriple(fact, type, object, assertion)
              /\ RelationTriple(fact, type, object, assertion) \subseteq W
              /\ ScopeRelation(d, [fact |-> fact, subject |-> s, type |-> type, object |-> object])
  PROVE  (\A w \in W : ForeignWrite(w)) /\ Supported(d, W)
<1>1. ASSUME NEW w \in W
      PROVE  ForeignWrite(w)
  <2>1. PICK s, kind, key, type, object :
          w \in RelationTriple(FactId(s, scope, kind, key), type, object, assertion)
    OBVIOUS
  <2>2. PICK fact : fact = FactId(s, scope, kind, key)
    OBVIOUS
  <2>3. \/ w = FactRow(fact, "RESOLVED") \/ w = RelationRow("entity_relations", fact, type, object)
        \/ w = EvidenceRow(fact, assertion, "SUPPORTS")
    BY <2>1, <2>2 DEF RelationTriple
  <2>4. /\ ForeignWrite(FactRow(fact, "RESOLVED")) /\ ForeignWrite(EvidenceRow(fact, assertion, "SUPPORTS"))
        /\ ForeignWrite(RelationRow("entity_relations", fact, type, object))
    BY <2>2, FactForeign
  <2> QED BY <2>3, <2>4
<1>2. \A fact, type, object :
        /\ FactRow(fact, "RESOLVED")[1] = "canonical_facts" /\ FactRow(fact, "RESOLVED")[2].id = fact
        /\ RelationRow("entity_relations", fact, type, object)[1] = "entity_relations"
        /\ RelationRow("entity_relations", fact, type, object)[2]
             = [fact |-> fact, subject |-> SubjectOf(fact), type |-> type, object |-> object]
        /\ EvidenceRow(fact, assertion, "SUPPORTS")[1] = "fact_evidence_links"
        /\ EvidenceRow(fact, assertion, "SUPPORTS")[2].fact = fact
  BY DEF FactRow, RelationRow, EvidenceRow
<1>3. ASSUME NEW x \in RowsFor(W, "entity_relations")
      PROVE  ScopeRelation(d, x)
  <2>1. PICK w \in W : w[1] = "entity_relations" /\ w[2] = x
    BY RowIsWrite
  <2>2. PICK s, kind, key, type, object :
          LET fact == FactId(s, scope, kind, key)
          IN /\ w \in RelationTriple(fact, type, object, assertion)
             /\ ScopeRelation(d, [fact |-> fact, subject |-> s, type |-> type, object |-> object])
    BY <2>1
  <2> DEFINE fact == FactId(s, scope, kind, key)
  <2>3. SubjectOf(fact) = s
    BY FactForeign
  <2> HIDE DEF fact
  <2>4. w = RelationRow("entity_relations", fact, type, object)
    BY <1>2, <2>1, <2>2 DEF RelationTriple, fact
  <2> QED BY <1>2, <2>1, <2>2, <2>3, <2>4 DEF fact
<1>4. ASSUME NEW f \in RowsFor(W, "canonical_facts")
      PROVE  \E l \in RowsFor(W, "fact_evidence_links") : l.fact = f.id
  <2>1. PICK w \in W : w[1] = "canonical_facts" /\ w[2] = f
    BY RowIsWrite
  <2>2. PICK s, kind, key, type, object :
          LET fact == FactId(s, scope, kind, key)
          IN /\ w \in RelationTriple(fact, type, object, assertion)
             /\ RelationTriple(fact, type, object, assertion) \subseteq W
    BY <2>1
  <2> DEFINE fact == FactId(s, scope, kind, key)
  <2> HIDE DEF fact
  <2>3. w = FactRow(fact, "RESOLVED") /\ EvidenceRow(fact, assertion, "SUPPORTS") \in W
    BY <1>2, <2>1, <2>2 DEF RelationTriple, fact
  <2> QED BY <1>2, <2>1, <2>3 DEF RowsFor
<1> QED BY <1>1, <1>3, <1>4 DEF Supported

LEMMA HoldingLeaves ==
  ASSUME NEW d, Database(d), Sound(d), NEW scope \in Scope, NEW h, NEW n
  PROVE  Leaves(d, IntegrateHolding(d, scope, h, n))
<1> DEFINE product == ProductOf(d, scope, h)
           security == SecurityOf(d, scope, h)
           first == Insert(d, security.writes)
           rows == HoldingRows(scope, h, n, product, security.resolution)
           second == Insert(first, rows)
           relations == HoldsRows(scope, h, product, security.resolution)
           third == Insert(second, relations)
<1>1. Leaves(d, first)
  BY SecurityForeign, PlainIsSupported, InsertLeaves
<1>2. \A w \in rows : ForeignWrite(w) /\ w[1] \notin {"entity_relations", "canonical_facts"}
  <2>1. \A row : LET w == <<"external_holding_records", row>>
                 IN ForeignWrite(w) /\ w[1] \notin {"entity_relations", "canonical_facts"}
    BY DEF ForeignWrite, ReadTables
  <2> QED BY <2>1, SourceRowsForeign DEF HoldingRows
<1>3. \A p \in product.ids : \E x \in d["financial_products"] : x.id = p
  BY ProductIsHeld
<1>4. \A s \in security.resolution.ids : KindOf(s) = "SECURITY"
  BY SecurityIsSecurity
<1> HIDE DEF product, security, rows, first
<1>5. Leaves(first, second)
  BY <1>1, <1>2, PlainIsSupported, InsertLeaves DEF Leaves
<1> HIDE DEF second
<1>6. second["financial_products"] = d["financial_products"]
  <2>1. View(second) = View(d)
    BY <1>1, <1>5 DEF Leaves
  <2> QED BY <2>1, SameRows, WholeTables
<1>7. (\A w \in relations : ForeignWrite(w)) /\ Supported(second, relations)
  <2> DEFINE T(p, s) == RelationTriple(FactId(p, scope, "ENTITY_RELATION", <<"HOLDS", s, h.day>>), "HOLDS", s, HoldsAssertion(h))
  <2>1. relations = UNION {T(p, s) : p \in product.ids, s \in security.resolution.ids}
    BY DEF HoldsRows, RelationTriple
  <2>2. ASSUME NEW p \in product.ids, NEW s \in security.resolution.ids, NEW fact
        PROVE  ScopeRelation(second, [fact |-> fact, subject |-> p, type |-> "HOLDS", object |-> s])
    BY <1>3, <1>4, <1>6 DEF ScopeRelation
  <2> HIDE DEF relations
  <2>3. \A w \in relations : \E s, kind, key, type, object :
          LET fact == FactId(s, scope, kind, key)
          IN /\ w \in RelationTriple(fact, type, object, HoldsAssertion(h))
             /\ RelationTriple(fact, type, object, HoldsAssertion(h)) \subseteq relations
             /\ ScopeRelation(second, [fact |-> fact, subject |-> s, type |-> type, object |-> object])
    <3> SUFFICES ASSUME NEW w \in relations
                 PROVE  \E s, kind, key, type, object :
                          LET fact == FactId(s, scope, kind, key)
                          IN /\ w \in RelationTriple(fact, type, object, HoldsAssertion(h))
                             /\ RelationTriple(fact, type, object, HoldsAssertion(h)) \subseteq relations
                             /\ ScopeRelation(second, [fact |-> fact, subject |-> s, type |-> type, object |-> object])
      OBVIOUS
    <3> HIDE DEF T
    <3>1. PICK p \in product.ids, s \in security.resolution.ids : w \in T(p, s)
      BY <2>1
    <3>2. T(p, s) \subseteq relations
      BY <2>1
    <3> USE DEF T
    <3>3. /\ w \in RelationTriple(FactId(p, scope, "ENTITY_RELATION", <<"HOLDS", s, h.day>>), "HOLDS", s, HoldsAssertion(h))
          /\ RelationTriple(FactId(p, scope, "ENTITY_RELATION", <<"HOLDS", s, h.day>>), "HOLDS", s, HoldsAssertion(h)) \subseteq relations
      BY <3>1, <3>2
    <3> HIDE DEF T
    <3>4. ScopeRelation(second, [fact |-> FactId(p, scope, "ENTITY_RELATION", <<"HOLDS", s, h.day>>),
                                 subject |-> p, type |-> "HOLDS", object |-> s])
      BY <2>2
    <3> QED BY <3>3, <3>4
  <2> QED BY <2>3, AssertionsForeign, TriplesSupported
<1> HIDE DEF relations
<1>8. Leaves(second, third)
  BY <1>5, <1>7, InsertLeaves DEF Leaves
<1>9. IntegrateHolding(d, scope, h, n) = third
  BY DEF IntegrateHolding, product, security, first, second, rows, relations
<1> HIDE DEF third
<1> QED BY <1>1, <1>5, <1>8, <1>9, LeavesTwice

OwnTables ==
  {"source_records", "quarantine_records", "source_record_entities", "canonical_facts",
   "fact_evidence_links", "fact_conflict_cases"}

\* A change of another table.
LEMMA OtherTableOwn ==
  ASSUME NEW d, NEW e, DOMAIN e = DOMAIN d, \A t \in OwnTables : e[t] = d[t]
  PROVE  Own(e) = Own(d)
<1>1. /\ e["source_records"] = d["source_records"]
      /\ e["quarantine_records"] = d["quarantine_records"]
      /\ e["source_record_entities"] = d["source_record_entities"]
      /\ e["canonical_facts"] = d["canonical_facts"]
      /\ e["fact_evidence_links"] = d["fact_evidence_links"]
      /\ e["fact_conflict_cases"] = d["fact_conflict_cases"]
  BY DEF OwnTables
<1> QED BY <1>1 DEF Own

\* A change of a table that is neither the rebuild's nor read by it.
LEMMA OtherTableLeaves ==
  ASSUME NEW d, Database(d), Sound(d), NEW t \in DOMAIN d \ (OwnTables \cup ReadTables),
         NEW e, DOMAIN e = DOMAIN d, \A u \in DOMAIN d \ {t} : e[u] = d[u]
  PROVE  Leaves(d, e)
<1>1. OwnTables \cup ReadTables \subseteq DOMAIN d
  BY KeysOfOwn, KeysOfRead DEF Database, OwnTables
<1>2. Own(e) = Own(d)
  BY <1>1, OtherTableOwn
<1>3. \A u \in ReadTables : e[u] = d[u]
  BY <1>1
<1>4. View(e) = View(d)
  BY <1>3 DEF View
<1>5. Sound(e)
  <2>1. /\ e["source_records"] = d["source_records"] /\ e["canonical_entities"] = d["canonical_entities"]
        /\ e["financial_products"] = d["financial_products"] /\ e["canonical_facts"] = d["canonical_facts"]
        /\ e["entity_relations"] = d["entity_relations"] /\ e["organization_relations"] = d["organization_relations"]
        /\ e["index_relations"] = d["index_relations"] /\ e["entity_classifications"] = d["entity_classifications"]
        /\ e["fact_evidence_links"] = d["fact_evidence_links"]
    BY <1>3 DEF ReadTables
  <2>2. \A f : EvidenceOf(e, f) = EvidenceOf(d, f)
    BY <2>1 DEF EvidenceOf
  <2>3. \A x : ScopeRelation(e, x) <=> ScopeRelation(d, x)
    BY <2>1 DEF ScopeRelation
  <2> QED BY <2>1, <2>2, <2>3 DEF Sound
<1> QED BY <1>2, <1>4, <1>5 DEF Leaves, Database

LEMMA ReplaceLeaves ==
  ASSUME NEW d, Database(d), Sound(d), NEW t \in DOMAIN d \ (OwnTables \cup ReadTables), NEW rows
  PROVE  Leaves(d, Replace(d, t, rows))
<1>1. DOMAIN Replace(d, t, rows) = DOMAIN d /\ \A u \in DOMAIN d \ {t} : Replace(d, t, rows)[u] = d[u]
  BY DEF Replace
<1> QED BY <1>1, OtherTableLeaves

LEMMA StatusLeaves ==
  ASSUME NEW d, Database(d), Sound(d), NEW ids, NEW status
  PROVE  Leaves(d, SetIssuerStatus(d, ids, status))
<1> DEFINE e == SetIssuerStatus(d, ids, status)
<1>1. DOMAIN e = DOMAIN d /\ \A u \in DOMAIN d \ {"securities"} : e[u] = d[u]
  BY DEF SetIssuerStatus
<1>2. "securities" \in DOMAIN d \ (OwnTables \cup ReadTables)
  BY DEF Database, Keys, EntityKeys, OwnTables, ReadTables
<1> HIDE DEF e
<1> QED BY <1>1, <1>2, OtherTableLeaves DEF e

LEMMA OrganizationIsOrganization ==
  ASSUME NEW d, Sound(d), NEW row
  PROVE  \A o \in OrganizationOf(d, row).resolution.ids : KindOf(o) = "ORGANIZATION"
<1> DEFINE known == Owners(d, "PROVIDER_ORGANIZATION_ID", "KRX_KIND", row.issuer, "ORGANIZATION")
           named == NameCandidates(d, LegalKey(row.name))
           new == {<<"organization", row.issuer>>}
<1>1. \A o \in known : KindOf(o) = "ORGANIZATION"
  BY KindIsKept DEF Owners
<1>2. \A o \in named : KindOf(o) = "ORGANIZATION"
  BY DEF NameCandidates, Sound
<1>3. \A o \in new : KindOf(o) = "ORGANIZATION"
  BY DEF KindOf, Bond, Domestic, Foreign, Fund
<1>4. OrganizationOf(d, row).resolution.ids \in {{}, known, named, new}
  BY DEF OrganizationOf, Resolution
<1> HIDE DEF known, named, new
<1> QED BY <1>1, <1>2, <1>3, <1>4

LEMMA OrganizationForeign ==
  ASSUME NEW d, NEW row
  PROVE  \A w \in OrganizationOf(d, row).writes :
           ForeignWrite(w) /\ w[1] \notin {"entity_relations", "canonical_facts"}
<1> DEFINE Fits(w) == ForeignWrite(w) /\ w[1] \notin {"entity_relations", "canonical_facts"}
           new == <<"organization", row.issuer>>
<1>1. \A o : Fits(OfficialName(o, row)) /\ Fits(OfficialId(o, row))
  BY DEF OfficialName, OfficialId, IdentifierRow, ForeignWrite, ReadTables
<1>2. KindOf(new) = "ORGANIZATION" /\ ~Home(new)
  BY DEF KindOf, Home, Bond, Domestic, Foreign, Fund
<1> HIDE DEF new
<1>3. \A name : Fits(EntityRow(new, "ORGANIZATION", name))
              /\ Fits(<<"organizations", [id |-> new, type |-> "ISSUER"]>>)
  BY <1>2 DEF EntityRow, ForeignWrite, Native, ReadTables
<1> HIDE DEF Fits
<1>4. \A w \in OrganizationOf(d, row).writes : Fits(w)
  BY <1>1, <1>3 DEF OrganizationOf, new
<1> QED BY <1>4 DEF Fits

LEMMA IssuedByForeign ==
  ASSUME NEW d, NEW scope \in Scope, NEW row, NEW security, KindOf(security) = "SECURITY",
         NEW organizations, \A o \in organizations : KindOf(o) = "ORGANIZATION"
  PROVE  LET W == IssuedByRows(scope, row, security, organizations)
         IN (\A w \in W : ForeignWrite(w)) /\ Supported(d, W)
<1> DEFINE W == IssuedByRows(scope, row, security, organizations)
           T(o) == RelationTriple(FactId(security, scope, "ENTITY_RELATION", <<"SECURITY_ISSUED_BY", o>>),
                                  "SECURITY_ISSUED_BY", o, IssuerAssertion(row))
<1>1. W = UNION {T(o) : o \in organizations}
  BY DEF IssuedByRows, RelationTriple
<1>2. ASSUME NEW o \in organizations, NEW fact
      PROVE  ScopeRelation(d, [fact |-> fact, subject |-> security, type |-> "SECURITY_ISSUED_BY", object |-> o])
  BY DEF ScopeRelation
<1> HIDE DEF W
<1>3. \A w \in W : \E s, kind, key, type, object :
        LET fact == FactId(s, scope, kind, key)
        IN /\ w \in RelationTriple(fact, type, object, IssuerAssertion(row))
           /\ RelationTriple(fact, type, object, IssuerAssertion(row)) \subseteq W
           /\ ScopeRelation(d, [fact |-> fact, subject |-> s, type |-> type, object |-> object])
  <2> SUFFICES ASSUME NEW w \in W
               PROVE  \E s, kind, key, type, object :
                        LET fact == FactId(s, scope, kind, key)
                        IN /\ w \in RelationTriple(fact, type, object, IssuerAssertion(row))
                           /\ RelationTriple(fact, type, object, IssuerAssertion(row)) \subseteq W
                           /\ ScopeRelation(d, [fact |-> fact, subject |-> s, type |-> type, object |-> object])
    OBVIOUS
  <2> HIDE DEF T
  <2>1. PICK o \in organizations : w \in T(o) /\ T(o) \subseteq W
    BY <1>1
  <2>2. ScopeRelation(d, [fact |-> FactId(security, scope, "ENTITY_RELATION", <<"SECURITY_ISSUED_BY", o>>),
                          subject |-> security, type |-> "SECURITY_ISSUED_BY", object |-> o])
    BY <1>2
  <2> QED BY <2>1, <2>2 DEF T
<1>4. (\A w \in W : ForeignWrite(w)) /\ Supported(d, W)
  BY <1>3, AssertionsForeign, TriplesSupported
<1> QED BY <1>4 DEF W

LEMMA IssuerLeaves ==
  ASSUME NEW d, Database(d), Sound(d), NEW scope \in Scope, NEW row, NEW security, KindOf(security) = "SECURITY"
  PROVE  Leaves(d, IntegrateIssuer(d, scope, row, security))
<1> DEFINE organization == OrganizationOf(d, row)
           ids == organization.resolution.ids
           first == Insert(d, organization.writes)
           second == Replace(first, "external_security_issuer_records",
                             {IssuerRecord(row, "RESOLVED", organization.resolution.status)})
           third == Insert(second, IssuedByRows(scope, row, security, ids))
<1>1. Leaves(d, first)
  BY OrganizationForeign, PlainIsSupported, InsertLeaves
<1>2. "external_security_issuer_records" \in DOMAIN Keys \ (OwnTables \cup ReadTables)
  BY DEF Keys, SourceKeys, OwnTables, ReadTables
<1>3. Leaves(first, second)
  BY <1>1, <1>2, ReplaceLeaves DEF Leaves, Database
<1>4. \A o \in ids : KindOf(o) = "ORGANIZATION"
  BY OrganizationIsOrganization
<1> HIDE DEF ids, second
<1>5. Leaves(second, third)
  BY <1>3, <1>4, IssuedByForeign, InsertLeaves DEF Leaves
<1> HIDE DEF third
<1>6. \A o, status : Leaves(second, SetIssuerStatus(second, o, status))
                   /\ Leaves(third, SetIssuerStatus(third, o, status))
  BY <1>3, <1>5, StatusLeaves DEF Leaves
<1>7. \A o, status : Leaves(d, SetIssuerStatus(second, o, status))
                   /\ Leaves(d, SetIssuerStatus(third, o, status))
  BY <1>1, <1>3, <1>5, <1>6, LeavesTwice
<1> HIDE DEF organization
<1>8. \/ \E status : IntegrateIssuer(d, scope, row, security) = SetIssuerStatus(second, {security}, status)
      \/ IntegrateIssuer(d, scope, row, security) = SetIssuerStatus(third, {security}, "RESOLVED")
  BY DEF IntegrateIssuer, organization, second, third, ids
<1> QED BY <1>7, <1>8

LEMMA IssuerRowLeaves ==
  ASSUME NEW d, Database(d), Sound(d), NEW scope \in Scope, NEW rows, NEW n
  PROVE  Leaves(d, IntegrateIssuerRow(d, scope, rows, n))
<1> DEFINE row == rows[n]
           disputed == row.issuer \in IssuerConflicts(rows)
           security == ListedSecurity(d, row, TickerConflicts(rows))
           link == {<<"source_record_entities", [record |-> NormalizedRecord(row), entity |-> s, role |-> "DESCRIBES"]>>
                      : s \in security.ids}
           record == IssuerRecord(row, security.status, IF disputed THEN "CONFLICT" ELSE "RESOLVED")
           W == SourceRows(scope, row, n, IssuerAssertion(row))
                  \cup {<<"external_security_issuer_records", record>>} \cup link
           recorded == Insert(d, W)
           Fits(w) == ForeignWrite(w) /\ w[1] \notin {"entity_relations", "canonical_facts"}
<1>1. \A w \in link : Fits(w)
  BY AssertionsForeign DEF ForeignWrite, Native, ReadTables
<1>2. Fits(<<"external_security_issuer_records", record>>)
  BY DEF ForeignWrite, ReadTables
<1>3. \A w \in SourceRows(scope, row, n, IssuerAssertion(row)) : Fits(w)
  BY SourceRowsForeign
<1>4. \A s \in security.ids : KindOf(s) = "SECURITY"
  BY KindIsKept DEF ListedSecurity, Resolution, Nobody, Owners
<1> HIDE DEF link, record, Fits
<1>5. \A w \in W : Fits(w)
  BY <1>1, <1>2, <1>3
<1> HIDE DEF W
<1>6. Leaves(d, recorded)
  BY <1>5, PlainIsSupported, InsertLeaves DEF Fits
<1> HIDE DEF recorded, security, disputed, row
<1>7. \A s \in security.ids : Leaves(recorded, IntegrateIssuer(recorded, scope, row, s))
  BY <1>4, <1>6, IssuerLeaves DEF Leaves
<1>8. \A ids, status : Leaves(recorded, SetIssuerStatus(recorded, ids, status))
  BY <1>6, StatusLeaves DEF Leaves
<1>9. security.ids # {} => (CHOOSE s \in security.ids : TRUE) \in security.ids
  OBVIOUS
<1>10. \/ IntegrateIssuerRow(d, scope, rows, n) = recorded
       \/ IntegrateIssuerRow(d, scope, rows, n) = SetIssuerStatus(recorded, security.ids, "UNRESOLVED")
       \/ /\ security.ids # {}
          /\ IntegrateIssuerRow(d, scope, rows, n)
               = IntegrateIssuer(recorded, scope, row, CHOOSE s \in security.ids : TRUE)
  BY DEF IntegrateIssuerRow, recorded, security, disputed, row, record, link, W
<1> QED BY <1>6, <1>7, <1>8, <1>9, <1>10, LeavesTwice

LEMMA ReturnLeaves ==
  ASSUME NEW d, Database(d), Sound(d), NEW scope \in Scope, NEW row, NEW n
  PROVE  Leaves(d, IntegrateReturn(d, scope, row, n))
<1> DEFINE product == ReturnedProduct(d, row)
           S == SourceRows(scope, row, n, ReturnAssertion(row))
           external == <<"external_metric_records", [id |-> row.id, record |-> NormalizedRecord(row),
                                                     product |-> product.status]>>
           R == UNION {ReturnRows(scope, row, p) : p \in product.ids}
           W == S \cup {external} \cup R
           Of(p) == FactId(p, scope, "METRIC", <<"ONE_YEAR_RETURN", "NAV_TOTAL_RETURN", row.day>>)
<1>1. ASSUME NEW p
      PROVE  /\ \A w \in ReturnRows(scope, row, p) : ForeignWrite(w)
             /\ EvidenceRow(Of(p), ReturnAssertion(row), "SUPPORTS") \in ReturnRows(scope, row, p)
             /\ \A w \in ReturnRows(scope, row, p) :
                  w[1] # "entity_relations" /\ (w[1] = "canonical_facts" => w[2].id = Of(p))
  <2>1. LET w == <<"source_record_entities",
                   [record |-> NormalizedRecord(row), entity |-> p, role |-> "DESCRIBES"]>>
        IN ForeignWrite(w) /\ w[1] \notin {"entity_relations", "canonical_facts"}
    BY AssertionsForeign DEF ForeignWrite, Native, ReadTables
  <2>2. PICK fact : fact = Of(p)
    OBVIOUS
  <2>3. /\ \A status : ForeignWrite(FactRow(fact, status))
        /\ ForeignWrite(EvidenceRow(fact, ReturnAssertion(row), "SUPPORTS"))
        /\ \A metric, value :
             ForeignWrite(<<"metric_observations", [fact |-> fact, metric |-> metric, value |-> value]>>)
    BY <2>2, FactForeign, AssertionsForeign
  <2>4. /\ FactRow(fact, "RESOLVED")[1] = "canonical_facts" /\ FactRow(fact, "RESOLVED")[2].id = fact
        /\ EvidenceRow(fact, ReturnAssertion(row), "SUPPORTS")[1] = "fact_evidence_links"
    BY DEF FactRow, EvidenceRow
  <2>5. ReturnRows(scope, row, p)
          = {<<"source_record_entities", [record |-> NormalizedRecord(row), entity |-> p, role |-> "DESCRIBES"]>>,
             FactRow(fact, "RESOLVED"), EvidenceRow(fact, ReturnAssertion(row), "SUPPORTS"),
             <<"metric_observations", [fact |-> fact, metric |-> "ONE_YEAR_RETURN", value |-> row.value]>>}
    BY <2>2 DEF ReturnRows
  <2> HIDE DEF Of
  <2> QED BY <2>1, <2>2, <2>3, <2>4, <2>5
<1>2. ForeignWrite(external) /\ external[1] \notin {"entity_relations", "canonical_facts"}
  BY DEF ForeignWrite, ReadTables
<1>3. \A w \in S : ForeignWrite(w) /\ w[1] \notin {"entity_relations", "canonical_facts"}
  BY SourceRowsForeign
<1>4. IntegrateReturn(d, scope, row, n) = Insert(d, W)
  BY DEF IntegrateReturn
<1> HIDE DEF S, external, Of, product
<1>5. \A w \in W : ForeignWrite(w) /\ w[1] # "entity_relations"
  BY <1>1, <1>2, <1>3
<1>6. ASSUME NEW w \in W, w[1] = "canonical_facts"
      PROVE  \E p \in product.ids : w[2].id = Of(p) /\ EvidenceRow(Of(p), ReturnAssertion(row), "SUPPORTS") \in W
  BY <1>1, <1>2, <1>3, <1>6
<1> HIDE DEF W
<1>7. \A fact : EvidenceRow(fact, ReturnAssertion(row), "SUPPORTS")[1] = "fact_evidence_links"
             /\ EvidenceRow(fact, ReturnAssertion(row), "SUPPORTS")[2].fact = fact
  BY DEF EvidenceRow
<1>8. RowsFor(W, "entity_relations") = {}
  BY <1>5 DEF RowsFor
<1>9. ASSUME NEW f \in RowsFor(W, "canonical_facts")
      PROVE  \E l \in RowsFor(W, "fact_evidence_links") : l.fact = f.id
  <2>1. PICK w \in W : w[1] = "canonical_facts" /\ w[2] = f
    BY RowIsWrite
  <2>2. PICK p \in product.ids : f.id = Of(p) /\ EvidenceRow(Of(p), ReturnAssertion(row), "SUPPORTS") \in W
    BY <1>6, <2>1
  <2> QED BY <1>7, <2>2 DEF RowsFor
<1> QED BY <1>4, <1>5, <1>8, <1>9, InsertLeaves DEF Supported

LEMMA RowLeaves ==
  ASSUME NEW d, Database(d), Sound(d), NEW scope \in Scope, NEW rows, NEW n
  PROVE  Leaves(d, IntegrateRow(d, scope, rows, n))
BY HoldingLeaves, IssuerRowLeaves, ReturnLeaves DEF IntegrateRow

\* Every nonempty set of naturals has a least member.
LEMMA LeastNatural ==
  ASSUME NEW T \in SUBSET Nat, T # {}
  PROVE  \E m \in T : \A n \in T : m <= n
<1> DEFINE R == OpToRel(<, Nat)
<1>1. IsWellFoundedOn(R, Nat)
  BY NatLessThanWellFounded
<1>2. PICK m \in T : \A n \in T : ~ (<<n, m>> \in R)
  BY <1>1, WFMin, Zenon
<1>3. \A n \in T : ~ (n < m)
  BY <1>2 DEF OpToRel
<1> QED BY <1>3

\* A set of naturals that has 0 and with each number the next is an interval.
LEMMA UpTo ==
  ASSUME NEW L \in Nat, NEW N, 0 \in N, \A n \in 1..L : n - 1 \in N => n \in N
  PROVE  \A n \in 0..L : n \in N
<1> DEFINE T == {n \in 0..L : n \notin N}
<1> SUFFICES ASSUME T # {} PROVE FALSE
  OBVIOUS
<1>1. T \in SUBSET Nat
  OBVIOUS
<1>2. PICK m \in T : \A n \in T : m <= n
  BY <1>1, LeastNatural, Zenon
<1>3. m \in 1..L /\ m - 1 \in 0..L
  BY <1>2
<1>4. m - 1 \notin T
  BY <1>2, <1>3
<1> QED BY <1>2, <1>3, <1>4

\* The stores after each row of a scope.
IntegrationRun(f, d, scope, rows, k) ==
  f = [n \in 0..k |-> IF n = 0 THEN d ELSE IntegrateRow(f[n - 1], scope, rows, n)]

LEMMA IntegrationRuns ==
  ASSUME NEW d, NEW scope, NEW rows, NEW L \in Nat
  PROVE  \E f : IntegrationRun(f, d, scope, rows, L)
<1> DEFINE N == {k \in Nat : \E f : IntegrationRun(f, d, scope, rows, k)}
<1>1. 0 \in N
  <2> DEFINE f == [n \in 0..0 |-> d]
  <2>1. IntegrationRun(f, d, scope, rows, 0)
    BY DEF IntegrationRun
  <2> QED BY <2>1
<1>2. ASSUME NEW n \in 1..L, n - 1 \in N
      PROVE  n \in N
  <2>1. PICK f : IntegrationRun(f, d, scope, rows, n - 1)
    BY <1>2
  <2> DEFINE g == [k \in 0..n |-> IF k = n THEN IntegrateRow(f[n - 1], scope, rows, n) ELSE f[k]]
  <2>2. g[0] = d
    BY <2>1 DEF IntegrationRun
  <2>3. ASSUME NEW k \in 1..n PROVE g[k] = IntegrateRow(g[k - 1], scope, rows, k)
    <3>1. k - 1 \in 0..(n - 1) /\ g[k - 1] = f[k - 1]
      OBVIOUS
    <3>2. CASE k = n
      BY <3>1, <3>2
    <3>3. CASE k # n
      <4>1. k \in 0..(n - 1) /\ k # 0
        BY <3>3
      <4>2. f[k] = IntegrateRow(f[k - 1], scope, rows, k)
        BY <4>1, <2>1 DEF IntegrationRun
      <4> QED BY <3>1, <3>3, <4>1, <4>2
    <3> QED BY <3>2, <3>3
  <2>4. g = [k \in 0..n |-> g[k]]
    OBVIOUS
  <2> HIDE DEF g
  <2>5. \A k \in 0..n : g[k] = IF k = 0 THEN d ELSE IntegrateRow(g[k - 1], scope, rows, k)
    BY <2>2, <2>3
  <2>6. IntegrationRun(g, d, scope, rows, n)
    BY <2>4, <2>5, Zenon DEF IntegrationRun
  <2> QED BY <2>6
<1> HIDE DEF N
<1>3. L \in N
  BY <1>1, <1>2, UpTo
<1> QED BY <1>3 DEF N

LEMMA IntegrateLeaves ==
  ASSUME NEW d, Database(d), Sound(d), NEW scope \in Scope, NEW edition \in DOMAIN Editions[scope]
  PROVE  Leaves(d, Integrate(d, scope, edition))
<1> DEFINE rows == Editions[scope][edition]
           L == Len(rows)
           start == Insert(d, {SnapshotRow(scope, edition)})
           after == CHOOSE f : IntegrationRun(f, start, scope, rows, L)
<1>1. L \in Nat
  BY ScopeAssumption DEF Editions, Scope
<1>2. Integrate(d, scope, edition) = after[L]
  BY DEF Integrate, IntegrationRun
<1>3. IntegrationRun(after, start, scope, rows, L)
  BY <1>1, IntegrationRuns
<1>4. Leaves(d, start)
  <2>1. LET w == SnapshotRow(scope, edition)
        IN ForeignWrite(w) /\ w[1] \notin {"entity_relations", "canonical_facts"}
    BY DEF SnapshotRow, ForeignWrite, ReadTables
  <2> QED BY <2>1, PlainIsSupported, InsertLeaves
<1> HIDE DEF after, start, rows, L
<1> DEFINE N == {n \in 0..L : Leaves(d, after[n])}
<1>5. 0 \in N
  BY <1>1, <1>3, <1>4 DEF IntegrationRun
<1>6. ASSUME NEW n \in 1..L, n - 1 \in N
      PROVE  n \in N
  <2>1. after[n] = IntegrateRow(after[n - 1], scope, rows, n)
    BY <1>1, <1>3 DEF IntegrationRun
  <2>2. Leaves(d, after[n - 1])
    BY <1>6
  <2>3. Leaves(after[n - 1], after[n])
    BY <2>1, <2>2, RowLeaves DEF Leaves
  <2> QED BY <1>1, <2>2, <2>3, LeavesTwice
<1> HIDE DEF N
<1>7. L \in N
  BY <1>1, <1>5, <1>6, UpTo
<1> QED BY <1>2, <1>7 DEF N

LEMMA ActivatedLeaves ==
  ASSUME NEW d, Database(d), Sound(d), NEW scope \in Scope, NEW edition \in DOMAIN Editions[scope]
  PROVE  Leaves(d, Activated(d, scope, edition))
<1> DEFINE e == Integrate(d, scope, edition)
<1>1. Leaves(d, e)
  BY IntegrateLeaves
<1>2. Leaves(e, Integrate(e, scope, edition))
  BY <1>1, IntegrateLeaves DEF Leaves
<1> QED BY <1>1, <1>2, LeavesTwice DEF Activated

(* What the rebuild's rows must be. *)

RecordRow(r) == [id |-> Record(r), snapshot |-> r.ds, key |-> SourceKey(r), n |-> r.n]
QuarantineRow(r) == [snapshot |-> r.ds, n |-> r.n]
\* The entity a source record describes, if it describes one.
Described(record) == IF record[2] = Bond THEN <<"sale_lot", record[3]>> ELSE <<record[2], record[3][1]>>
ConflictKey(fact) == fact[3] \in {"SCALAR", "CLASSIFICATION"} /\ KeyOf(fact)[1] = "conflict"
StatusOf(fact) == IF ConflictKey(fact) THEN "CONFLICT" ELSE "RESOLVED"
LinkedIn(d, record, entity) ==
  \E l \in d["source_record_entities"] : l.record = record /\ l.entity = entity

\* A column of a subject that may decide a fact.
Quiet(m, s, c) == c = "pd_risk_gcd" \/ ~Disputed(AuditOf[m], s, c)
Rests(m, l) ==
  /\ SnapshotOf(l.fact) \in Dataset
  /\ l.assertion[1][1] = "record"
  /\ ConflictKey(l.fact) \/ Quiet(m, SubjectOf(l.fact), l.assertion[2])

\* What a write of a row of the workbooks is.
RowWrite(m, r, w) ==
  /\ w[1] = "source_records" => Valid(r) /\ w[2] = RecordRow(r)
  /\ w[1] = "quarantine_records" => ~Valid(r) /\ w[2] = QuarantineRow(r)
  /\ w[1] = "source_record_entities" /\ w[2].role = "DESCRIBES" =>
       w[2].record = Record(r) /\ w[2].entity = Described(Record(r))
  /\ w[1] = "canonical_facts" => w[2].status = StatusOf(w[2].id)
  /\ w[1] = "fact_evidence_links" =>
       /\ Rests(m, w[2])
       /\ w[2].assertion[1] = Record(r) /\ SubjectOf(w[2].fact) \in Primary(r) \cup Support(r)
  /\ w[1] # "fact_conflict_cases"

LEMMA OtherWrite ==
  ASSUME NEW m, NEW r, NEW w, w[1] \notin OwnTables
  PROVE  RowWrite(m, r, w)
BY DEF RowWrite, OwnTables

LEMMA RecordIsRecord ==
  ASSUME NEW r
  PROVE  Record(r)[1] = "record" /\ Record(r)[2] = r.ds /\ Record(r)[3] = SourceKey(r)
BY DEF Record

\* A product of bonds and a family of funds are all that rows support.
LEMMA SupportShape ==
  ASSUME NEW r, r.ds \in Dataset, NEW s \in Support(r)
  PROVE  \/ r.ds = Bond /\ s[1] = Bond
         \/ r.ds = Fund /\ s[1] = "fund_family"
BY DEF Support, Dataset, Etp, ProductId, Family

LEMMA DisputedIsStated ==
  ASSUME NEW m \in Materials, NEW s, NEW c, Disputed(AuditOf[m], s, c)
  PROVE  \E j \in ValidRows(m) :
           s \in Support(m[j]) /\ c \in WatchedColumns[m[j].ds] /\ Has(m[j], c)
<1>1. Values(AuditOf[m], s, c) # {}
  BY FS_EmptySet DEF Disputed
<1>2. PICK v \in AuditOf[m].values : v[1] = s /\ v[2] = c
  BY <1>1 DEF Values
<1>3. AuditOf[m].values = Audit(m).values
  BY DEF AuditOf
<1>4. PICK r \in {m[i] : i \in ValidRows(m)} :
        v \in {<<x, y, Cell(r, y)>> : x \in Support(r), y \in {w \in WatchedColumns[r.ds] : Has(r, w)}}
  BY <1>2, <1>3 DEF Audit
<1>5. s \in Support(r) /\ c \in WatchedColumns[r.ds] /\ Has(r, c)
  BY <1>2, <1>4
<1> QED BY <1>4, <1>5 DEF ValidRows

\* What cannot be disputed.
LEMMA QuietIf ==
  ASSUME NEW m \in Materials, NEW s, NEW c,
         s[1] = Bond => c \notin WatchedColumns[Bond],
         s[1] = "fund_family" => c \notin WatchedColumns[Fund]
  PROVE  Quiet(m, s, c)
<1> SUFFICES ASSUME Disputed(AuditOf[m], s, c) PROVE FALSE
  BY DEF Quiet
<1>1. PICK j \in ValidRows(m) : s \in Support(m[j]) /\ c \in WatchedColumns[m[j].ds]
  BY DisputedIsStated
<1>2. m[j].ds \in Dataset
  BY MaterialAssumption DEF ValidRows
<1> QED BY <1>1, <1>2, SupportShape

LEMMA SubjectShape ==
  ASSUME NEW r, r.ds \in Dataset
  PROVE  /\ Subject(r) \subseteq Primary(r) \cup Support(r)
         /\ Observed(r) \subseteq Primary(r) \cup Support(r)
         /\ \A p \in Primary(r) : p = Described(Record(r)) /\ p[1] # "fund_family" /\ p[1] # Bond
<1>1. Subject(r) \subseteq Primary(r) \cup Support(r) /\ Observed(r) \subseteq Primary(r) \cup Support(r)
  BY DEF Subject, Observed
<1>2. CASE r.ds = Bond
  <2>1. \A p \in Primary(r) : p = <<"sale_lot", SourceKey(r)>>
    BY <1>2 DEF Primary, LotId, Etp, Bond, Domestic, Foreign
  <2>2. Described(Record(r)) = <<"sale_lot", SourceKey(r)>>
    BY <1>2, RecordIsRecord DEF Described
  <2> QED BY <1>1, <2>1, <2>2 DEF Bond
<1>3. CASE r.ds # Bond
  <2>1. \A p \in Primary(r) : p = <<r.ds, ProductKey(r)>>
    BY <1>3 DEF Primary, ProductId
  <2>2. SourceKey(r)[1] = ProductKey(r)
    BY <1>3 DEF SourceKey, ProductKey, KeyColumns, Dataset
  <2>3. Described(Record(r)) = <<r.ds, ProductKey(r)>>
    BY <1>3, <2>2, RecordIsRecord DEF Described
  <2>4. r.ds # "fund_family"
    BY DEF Dataset, Bond, Domestic, Foreign, Fund
  <2> QED BY <1>1, <1>3, <2>1, <2>3, <2>4
<1> QED BY <1>2, <1>3

\* The primary entity of a row is never disputed.
LEMMA PrimaryQuiet ==
  ASSUME NEW m \in Materials, NEW r, r.ds \in Dataset, NEW p \in Primary(r), NEW c
  PROVE  Quiet(m, p, c)
BY SubjectShape, QuietIf

LEMMA CiteShape ==
  ASSUME NEW r, NEW c
  PROVE  \A e \in Cite(r, c) : e = <<Record(r), c>> /\ e[1] = Record(r) /\ e[2] = c
BY DEF Cite

LEMMA EvidencedWrite ==
  ASSUME NEW m, NEW r, r.ds \in Dataset, NEW fact, NEW status, NEW evidence, NEW role,
         SnapshotOf(fact) = r.ds, SubjectOf(fact) \in Primary(r) \cup Support(r),
         status = StatusOf(fact),
         \A e \in evidence : e[1] = Record(r) /\ (ConflictKey(fact) \/ Quiet(m, SubjectOf(fact), e[2]))
  PROVE  \A w \in Evidenced(fact, status, evidence, role) : RowWrite(m, r, w)
<1>1. RowWrite(m, r, FactRow(fact, status))
  BY DEF RowWrite, FactRow
<1>2. ASSUME NEW e \in evidence PROVE RowWrite(m, r, EvidenceRow(fact, e, role))
  <2>1. EvidenceRow(fact, e, role)[1] = "fact_evidence_links" /\ EvidenceRow(fact, e, role)[2].fact = fact
        /\ EvidenceRow(fact, e, role)[2].assertion = e
    BY DEF EvidenceRow
  <2>2. Rests(m, EvidenceRow(fact, e, role)[2])
    BY <2>1, RecordIsRecord DEF Rests
  <2> QED BY <2>1, <2>2 DEF RowWrite
<1> QED BY <1>1, <1>2 DEF Evidenced

(* The writes of a row. *)

LEMMA FactShape ==
  ASSUME NEW s, NEW ds, NEW kind, NEW key, NEW fact, fact = FactId(s, ds, kind, key)
  PROVE  /\ SubjectOf(fact) = s /\ SnapshotOf(fact) = ds /\ KeyOf(fact) = key /\ fact[3] = kind
         /\ ConflictKey(fact) <=> kind \in {"SCALAR", "CLASSIFICATION"} /\ key[1] = "conflict"
BY DEF FactId, SubjectOf, SnapshotOf, KeyOf, ConflictKey

LEMMA ScalarWrites ==
  ASSUME NEW m, NEW r, r.ds \in Dataset, NEW key, key # "conflict",
         NEW values, NEW evidence, NEW role,
         \A s \in Subject(r), e \in evidence : e[1] = Record(r) /\ Quiet(m, s, e[2])
  PROVE  \A w \in Scalar(r, key, values, evidence, role) : RowWrite(m, r, w)
<1> SUFFICES ASSUME NEW w \in Scalar(r, key, values, evidence, role)
             PROVE  RowWrite(m, r, w)
  OBVIOUS
<1>1. PICK s \in Subject(r), v \in values :
        w \in Evidenced(FactId(s, r.ds, "SCALAR", <<key>>), "RESOLVED", evidence, role)
              \cup {<<"canonical_scalar_facts",
                      [fact |-> FactId(s, r.ds, "SCALAR", <<key>>), value |-> <<key, v>>]>>}
  BY DEF Scalar
<1> DEFINE fact == FactId(s, r.ds, "SCALAR", <<key>>)
<1>2. SubjectOf(fact) = s /\ SnapshotOf(fact) = r.ds /\ ~ConflictKey(fact)
  <2>1. <<key>>[1] = key
    OBVIOUS
  <2> QED BY <2>1, FactShape
<1>3. s \in Primary(r) \cup Support(r)
  BY SubjectShape
<1> HIDE DEF fact
<1>4. CASE w \in Evidenced(fact, "RESOLVED", evidence, role)
  BY <1>2, <1>3, <1>4, EvidencedWrite DEF StatusOf
<1>5. CASE w = <<"canonical_scalar_facts", [fact |-> fact, value |-> <<key, v>>]>>
  <2>1. w[1] = "canonical_scalar_facts"
    BY <1>5
  <2> QED BY <2>1, OtherWrite DEF OwnTables
<1> QED BY <1>1, <1>4, <1>5 DEF fact

LEMMA StatedWrites ==
  ASSUME NEW m, NEW r, r.ds \in Dataset, NEW key, key # "conflict",
         NEW values, NEW column, \A s \in Subject(r) : Quiet(m, s, column)
  PROVE  \A w \in Stated(r, key, values, column) : RowWrite(m, r, w)
BY CiteShape, ScalarWrites DEF Stated

LEMMA DerivedWrites ==
  ASSUME NEW m, NEW r, r.ds \in Dataset, NEW key, key # "conflict",
         NEW values, NEW columns, \A s \in Subject(r) : \A c \in columns : Quiet(m, s, c)
  PROVE  \A w \in Derived(r, key, values, columns) : RowWrite(m, r, w)
<1>1. \A e \in UNION {Cite(r, c) : c \in columns} : e[1] = Record(r) /\ e[2] \in columns
  BY CiteShape
<1> QED BY <1>1, ScalarWrites DEF Derived

LEMMA NamesWrite ==
  ASSUME NEW m, NEW r
  PROVE  /\ \A id, kind, name : RowWrite(m, r, EntityRow(id, kind, name))
         /\ \A entity, name, type : RowWrite(m, r, AliasRow(entity, name, type))
         /\ \A entity, scheme, space, value, valid, open :
              RowWrite(m, r, IdentifierRow(entity, scheme, space, value, valid, open))
         /\ \A column, reason, status : RowWrite(m, r, CaseRow(r, column, reason, status))
<1>1. \A id, kind, name : EntityRow(id, kind, name)[1] \notin OwnTables
  BY DEF EntityRow, OwnTables
<1>2. \A entity, name, type : AliasRow(entity, name, type)[1] \notin OwnTables
  BY DEF AliasRow, OwnTables
<1>3. \A entity, scheme, space, value, valid, open :
        IdentifierRow(entity, scheme, space, value, valid, open)[1] \notin OwnTables
  BY DEF IdentifierRow, OwnTables
<1>4. \A column, reason, status : CaseRow(r, column, reason, status)[1] \notin OwnTables
  BY DEF CaseRow, OwnTables
<1> QED BY <1>1, <1>2, <1>3, <1>4, OtherWrite

LEMMA OtherRows ==
  ASSUME NEW m, NEW r, NEW t, t \notin OwnTables
  PROVE  \A row : RowWrite(m, r, <<t, row>>)
<1>1. \A row : <<t, row>>[1] = t
  OBVIOUS
<1> QED BY <1>1, OtherWrite

LEMMA ProductWrites ==
  ASSUME NEW m, NEW r, NEW id, NEW type, NEW name
  PROVE  \A w \in Product(id, type, name) : RowWrite(m, r, w)
BY NamesWrite, OtherRows DEF Product, OwnTables

LEMMA EntityWrites ==
  ASSUME NEW m, NEW r, r.ds \in Dataset, NEW audit
  PROVE  \A w \in Entities(r, audit) : RowWrite(m, r, w)
<1>1. \A row : /\ RowWrite(m, r, <<"bonds", row>>) /\ RowWrite(m, r, <<"sale_lots", row>>)
               /\ RowWrite(m, r, <<"exchange_traded_products", row>>)
               /\ RowWrite(m, r, <<"funds", row>>) /\ RowWrite(m, r, <<"fund_share_classes", row>>)
  BY OtherRows DEF OwnTables
<1>2. CASE r.ds = Bond
  <2> DEFINE id == ProductId(r)
             bond == [id |-> id, issued |-> Agreed(audit, id, "isu_dt", Date(r, "isu_dt")),
                      matures |-> Agreed(audit, id, "mat_dt", Date(r, "mat_dt"))]
             lotRow(lot) == [id |-> lot, bond |-> id, market |-> SourceKey(r)[2],
                             date |-> OrToday(Date(r, "info_base_dt")),
                             sequence |-> Number(r, "info_seq")]
             lots == UNION {{EntityRow(lot, "SALE_LOT", ""), <<"sale_lots", lotRow(lot)>>} : lot \in Primary(r)}
  <2>1. Entities(r, audit) = Product(id, "BOND", IF Disputed(audit, id, "pd_nm") THEN "" ELSE Cell(r, "pd_nm"))
                               \cup {<<"bonds", bond>>} \cup lots
    BY <1>2 DEF Entities, Etp, Bond, Domestic, Foreign
  <2>2. ASSUME NEW w \in lots PROVE RowWrite(m, r, w)
    <3> HIDE DEF lotRow
    <3>1. PICK lot \in Primary(r) : w = EntityRow(lot, "SALE_LOT", "") \/ w = <<"sale_lots", lotRow(lot)>>
      BY <2>2
    <3> QED BY <1>1, <3>1, NamesWrite
  <2> HIDE DEF id, bond, lots
  <2> QED BY <1>1, <2>1, <2>2, ProductWrites
<1>3. CASE r.ds \in Etp
  BY <1>1, <1>3, NamesWrite, ProductWrites DEF Entities, Etp, Bond, Domestic, Foreign
<1>4. CASE r.ds \notin Etp \cup {Bond}
  <2> SUFFICES ASSUME NEW w \in Entities(r, audit) PROVE RowWrite(m, r, w)
    OBVIOUS
  <2>1. PICK family \in Family(r) :
          w \in Product(family, "FUND", "")
                \cup {<<"funds", [id |-> family]>>,
                      EntityRow(ProductId(r), "FUND_SHARE_CLASS", Cell(r, "itm_nm")),
                      <<"fund_share_classes", [id |-> ProductId(r), fund |-> family, key |-> ProductKey(r)]>>}
    BY <1>4 DEF Entities
  <2> QED BY <1>1, <2>1, NamesWrite, ProductWrites
<1> QED BY <1>2, <1>3, <1>4

LEMMA LinkWrites ==
  ASSUME NEW m, NEW r, r.ds \in Dataset
  PROVE  \A w \in Links(r) : RowWrite(m, r, w)
<1>1. ASSUME NEW p \in Primary(r)
      PROVE  RowWrite(m, r, <<"source_record_entities", [record |-> Record(r), entity |-> p, role |-> "DESCRIBES"]>>)
  BY SubjectShape DEF RowWrite
<1>2. ASSUME NEW s \in Support(r)
      PROVE  RowWrite(m, r, <<"source_record_entities", [record |-> Record(r), entity |-> s, role |-> "SUPPORTS"]>>)
  BY DEF RowWrite
<1> QED BY <1>1, <1>2 DEF Links

LEMMA NameWrites ==
  ASSUME NEW m, NEW r, NEW audit
  PROVE  \A w \in Aliases(r) \cup Identifiers(r, audit) : RowWrite(m, r, w)
<1>1. \A w \in Aliases(r) : RowWrite(m, r, w)
  BY NamesWrite DEF Aliases
<1>2. \A w \in Identifiers(r, audit) : RowWrite(m, r, w)
  BY NamesWrite DEF Identifiers
<1> QED BY <1>1, <1>2

LEMMA EtpScalarWrites ==
  ASSUME NEW m \in Materials, NEW r, r.ds \in Etp, NEW audit
  PROVE  \A w \in EtpScalars(r, audit) : RowWrite(m, r, w)
<1>1. r.ds \in Dataset /\ Subject(r) = Primary(r)
  BY DEF Etp, Dataset, Subject, Bond, Domestic, Foreign
<1>2. \A s \in Subject(r) : \A c : Quiet(m, s, c)
  BY <1>1, PrimaryQuiet
<1>3. \A key, values, column : key # "conflict" => \A w \in Stated(r, key, values, column) : RowWrite(m, r, w)
  BY <1>1, <1>2, StatedWrites
<1>4. \A key, values, columns : key # "conflict" => \A w \in Derived(r, key, values, columns) : RowWrite(m, r, w)
  BY <1>1, <1>2, DerivedWrites
<1> QED BY <1>3, <1>4 DEF EtpScalars

LEMMA ScalarsWrite ==
  ASSUME NEW m \in Materials, NEW r, r.ds \in Dataset
  PROVE  \A w \in Scalars(r, AuditOf[m]) : RowWrite(m, r, w)
<1>1. CASE r.ds = Bond
  <2>1. \A s \in Subject(r) : s[1] = Bond
    BY <1>1, SupportShape DEF Subject, Bond, Fund
  <2>2. \A s \in Subject(r) : Quiet(m, s, "pd_no")
    BY <2>1, QuietIf DEF WatchedColumns, Dataset, Bond, Fund
  <2>3. \A w \in Stated(r, "product_type", {"BOND"}, "pd_no") : RowWrite(m, r, w)
    BY <2>2, StatedWrites
  <2>4. \A key, column, values : key # "conflict" =>
          \A w \in AgreedScalar(r, AuditOf[m], key, column, values) : RowWrite(m, r, w)
    BY StatedWrites DEF AgreedScalar, Quiet
  <2> QED BY <1>1, <2>3, <2>4 DEF Scalars, Bond, Fund
<1>2. CASE r.ds = Fund
  <2>1. Subject(r) = Primary(r)
    BY <1>2 DEF Subject, Bond, Fund
  <2>2. \A key, values, column : key # "conflict" => \A w \in Stated(r, key, values, column) : RowWrite(m, r, w)
    BY <2>1, PrimaryQuiet, StatedWrites
  <2> QED BY <1>2, <2>2 DEF Scalars, Bond, Fund
<1>3. CASE r.ds \in Etp
  <2>1. Subject(r) = Primary(r)
    BY <1>3 DEF Subject, Bond, Etp, Domestic, Foreign
  <2>2. \A key, values, column : key # "conflict" => \A w \in Stated(r, key, values, column) : RowWrite(m, r, w)
    BY <2>1, PrimaryQuiet, StatedWrites
  <2> QED BY <1>3, <2>2, EtpScalarWrites DEF Scalars, Bond, Fund, Etp, Domestic, Foreign
<1> QED BY <1>1, <1>2, <1>3 DEF Dataset, Etp

LEMMA ValueWrites ==
  ASSUME NEW m, NEW r, NEW i, NEW conflict
  PROVE  \A w \in ClassificationValue(r, i, conflict) : RowWrite(m, r, w)
<1>1. \A row : RowWrite(m, r, <<"ontology_concepts", row>>) /\ RowWrite(m, r, <<"source_classification_values", row>>)
  BY OtherRows DEF OwnTables
<1> SUFFICES ASSUME NEW w \in ClassificationValue(r, i, conflict) PROVE RowWrite(m, r, w)
  OBVIOUS
<1>2. \E row : w = <<"ontology_concepts", row>> \/ w = <<"source_classification_values", row>>
  BY DEF ClassificationValue
<1> QED BY <1>1, <1>2

\* What a classification rests on may decide, unless it is a conflict.
LEMMA InputQuiet ==
  ASSUME NEW m \in Materials, NEW r, r.ds \in Dataset, NEW i \in ClassificationInputs(r),
         NEW s \in Subject(r), NEW e \in CiteFirst(r, i[1], i[4])
  PROVE  /\ i[2] # "conflict"
         /\ e[1] = Record(r)
         /\ InConflict(r, AuditOf[m], i) \/ Quiet(m, s, e[2])
<1>1. e[1] = Record(r) /\ e[2] \in {i[1], i[4]}
  BY CiteShape DEF CiteFirst
<1>2. CASE r.ds = Bond
  <2>1. /\ i[2] # "conflict"
        /\ i[4] = i[1] \/ i[4] = "pd_risk_gcd"
    BY <1>2 DEF ClassificationInputs, Etp, Bond, Domestic, Foreign
  <2>2. s[1] = Bond
    BY <1>2, SupportShape DEF Subject, Bond, Fund
  <2>3. Quiet(m, s, "pd_no")
    BY <2>2, QuietIf DEF WatchedColumns, Dataset, Bond, Fund
  <2>4. Quiet(m, s, "pd_risk_gcd")
    BY DEF Quiet
  <2>5. InConflict(r, AuditOf[m], i) \/ Quiet(m, s, i[1])
    BY <1>2, <2>3 DEF InConflict, Quiet
  <2> QED BY <1>1, <2>1, <2>4, <2>5
<1>3. CASE r.ds # Bond
  <2>1. s \in Primary(r)
    BY <1>3 DEF Subject
  <2>2. i[2] # "conflict"
    <3>1. CASE r.ds \in Etp
      BY <1>3, <3>1 DEF ClassificationInputs
    <3>2. CASE r.ds \notin Etp
      BY <1>3, <3>2 DEF ClassificationInputs
    <3> QED BY <3>1, <3>2
  <2> QED BY <1>1, <2>1, <2>2, PrimaryQuiet
<1> QED BY <1>2, <1>3

LEMMA ClassificationFactWrites ==
  ASSUME NEW m \in Materials, NEW r, r.ds \in Dataset, NEW i \in ClassificationInputs(r),
         NEW s \in Subject(r), NEW e \in CiteFirst(r, i[1], i[4])
  PROVE  \A w \in ClassificationFact(r, s, i, InConflict(r, AuditOf[m], i), e) : RowWrite(m, r, w)
<1>1. /\ i[2] # "conflict" /\ e[1] = Record(r)
      /\ InConflict(r, AuditOf[m], i) \/ Quiet(m, s, e[2])
  BY InputQuiet
<1>2. s \in Primary(r) \cup Support(r)
  BY SubjectShape
<1>3. CASE InConflict(r, AuditOf[m], i)
  <2> DEFINE fact == FactId(s, r.ds, "CLASSIFICATION", <<"conflict", i[2], Folded(i[3])>>)
  <2>1. SubjectOf(fact) = s /\ SnapshotOf(fact) = r.ds /\ ConflictKey(fact)
    <3>1. <<"conflict", i[2], Folded(i[3])>>[1] = "conflict"
      OBVIOUS
    <3> QED BY <3>1, FactShape
  <2> HIDE DEF fact
  <2>2. \A w \in Evidenced(fact, "CONFLICT", {e}, "SUPPORTS") : RowWrite(m, r, w)
    BY <1>1, <1>2, <2>1, EvidencedWrite DEF StatusOf
  <2> QED BY <1>3, <2>2 DEF ClassificationFact, fact
<1>4. CASE ~InConflict(r, AuditOf[m], i)
  <2>1. ASSUME NEW c
        PROVE  \A w \in Evidenced(FactId(s, r.ds, "CLASSIFICATION", <<i[2], c>>), "RESOLVED", {e}, "SUPPORTS") :
                 RowWrite(m, r, w)
    <3> DEFINE fact == FactId(s, r.ds, "CLASSIFICATION", <<i[2], c>>)
    <3>1. <<i[2], c>>[1] # "conflict"
      BY <1>1
    <3>2. SubjectOf(fact) = s /\ SnapshotOf(fact) = r.ds /\ ~ConflictKey(fact)
      BY <3>1, FactShape
    <3> HIDE DEF fact
    <3>3. \A w \in Evidenced(fact, "RESOLVED", {e}, "SUPPORTS") : RowWrite(m, r, w)
      BY <1>1, <1>2, <1>4, <3>2, EvidencedWrite DEF StatusOf
    <3> QED BY <3>3 DEF fact
  <2>2. \A row : RowWrite(m, r, <<"entity_classifications", row>>)
    BY OtherRows DEF OwnTables
  <2> SUFFICES ASSUME NEW w \in ClassificationFact(r, s, i, InConflict(r, AuditOf[m], i), e)
               PROVE  RowWrite(m, r, w)
    OBVIOUS
  <2>3. PICK c \in Concept(i) :
          w \in Evidenced(FactId(s, r.ds, "CLASSIFICATION", <<i[2], c>>), "RESOLVED", {e}, "SUPPORTS")
                \cup {<<"entity_classifications",
                        [fact |-> FactId(s, r.ds, "CLASSIFICATION", <<i[2], c>>), entity |-> s,
                         type |-> i[2], concept |-> c]>>}
    BY <1>4 DEF ClassificationFact
  <2> QED BY <2>1, <2>2, <2>3
<1> QED BY <1>3, <1>4

LEMMA ClassificationWrites ==
  ASSUME NEW m \in Materials, NEW r, r.ds \in Dataset
  PROVE  \A w \in Classifications(r, AuditOf[m]) \cup ClassificationValuesOnly(r) : RowWrite(m, r, w)
<1>1. \A w \in ClassificationValuesOnly(r) : RowWrite(m, r, w)
  BY ValueWrites DEF ClassificationValuesOnly
<1>2. ASSUME NEW w \in Classifications(r, AuditOf[m]) PROVE RowWrite(m, r, w)
  <2>1. PICK i \in StatedInputs(r) :
          \/ w \in ClassificationValue(r, i, InConflict(r, AuditOf[m], i))
          \/ \E s \in Subject(r), e \in CiteFirst(r, i[1], i[4]) :
               w \in ClassificationFact(r, s, i, InConflict(r, AuditOf[m], i), e)
    BY <1>2 DEF Classifications
  <2>2. i \in ClassificationInputs(r)
    BY DEF StatedInputs
  <2> QED BY <2>1, <2>2, ValueWrites, ClassificationFactWrites
<1> QED BY <1>1, <1>2

LEMMA RelationWrites ==
  ASSUME NEW m \in Materials, NEW r, r.ds \in Dataset, NEW t \in Kinds, NEW subjects, NEW type, NEW target, NEW column,
         \A s \in subjects : s \in Primary(r) \cup Support(r) /\ Quiet(m, s, column)
  PROVE  \A w \in Relation(t, r, subjects, type, target, Cite(r, column)) : RowWrite(m, r, w)
<1> SUFFICES ASSUME NEW w \in Relation(t, r, subjects, type, target, Cite(r, column))
             PROVE  RowWrite(m, r, w)
  OBVIOUS
<1> DEFINE R(s, e) == Evidenced(FactId(s, r.ds, t, <<type, target>>), "RESOLVED", {e}, "SUPPORTS")
                        \cup {RelationRow(t, FactId(s, r.ds, t, <<type, target>>), type, target)}
<1>0. w \in UNION {R(s, e) : s \in subjects, e \in Cite(r, column)}
  BY DEF Relation
<1>1. PICK s \in subjects, e \in Cite(r, column) : w \in R(s, e)
  <2> HIDE DEF R
  <2> QED BY <1>0
<1> DEFINE fact == FactId(s, r.ds, t, <<type, target>>)
<1>2. SubjectOf(fact) = s /\ SnapshotOf(fact) = r.ds /\ ~ConflictKey(fact)
  BY FactShape DEF Kinds
<1>3. e[1] = Record(r) /\ e[2] = column
  BY CiteShape
<1> HIDE DEF fact
<1>4. \A x \in Evidenced(fact, "RESOLVED", {e}, "SUPPORTS") : RowWrite(m, r, x)
  BY <1>2, <1>3, EvidencedWrite DEF StatusOf
<1>5. RowWrite(m, r, RelationRow(t, fact, type, target))
  <2>1. RelationRow(t, fact, type, target)[1] = t
    BY DEF RelationRow
  <2> QED BY <2>1, OtherWrite DEF OwnTables, Kinds
<1> QED BY <1>1, <1>4, <1>5 DEF fact

LEMMA OrganizationWrites ==
  ASSUME NEW m \in Materials, NEW r, r.ds \in Dataset, NEW column, NEW type, NEW organization
  PROVE  \A w \in OrganizationRelation(r, AuditOf[m], column, type, organization) : RowWrite(m, r, w)
<1>1. \A name : \A w \in OrganizationRows(organization, r.ds, name) : RowWrite(m, r, w)
  BY NamesWrite, OtherRows DEF OrganizationRows, OwnTables
<1>2. \A w \in RefusedOrganization(r, column) : RowWrite(m, r, w)
  BY NamesWrite DEF RefusedOrganization
<1>3. \A target : \A w \in Relation("organization_relations", r, {s \in Support(r) : ~Disputed(AuditOf[m], s, column)},
                                    type, target, Cite(r, column)) : RowWrite(m, r, w)
  BY RelationWrites DEF Kinds, Quiet
<1> QED BY <1>1, <1>2, <1>3 DEF OrganizationRelation

LEMMA ControlledWrites ==
  ASSUME NEW m \in Materials, NEW r, r.ds \in Dataset, NEW column, NEW kind, NEW type, NEW related,
         related => \A s \in Subject(r) : Quiet(m, s, column)
  PROVE  \A w \in ControlledRelation(r, column, kind, type, related) : RowWrite(m, r, w)
<1>1. \A target : \A w \in Relation("entity_relations", r, {s \in Subject(r) : related}, type, target, Cite(r, column)) :
        RowWrite(m, r, w)
  BY RelationWrites, SubjectShape DEF Kinds
<1> QED BY <1>1, NamesWrite DEF ControlledRelation

LEMMA SubjectQuiet ==
  ASSUME NEW m \in Materials, NEW r, r.ds \in Dataset, NEW c, c \notin WatchedColumns[Bond]
  PROVE  \A s \in Subject(r) : Quiet(m, s, c)
<1>1. CASE r.ds = Bond
  <2>1. \A s \in Subject(r) : s[1] = Bond
    BY <1>1, SupportShape DEF Subject, Bond, Fund
  <2> QED BY <2>1, QuietIf DEF Bond
<1>2. CASE r.ds # Bond
  BY <1>2, PrimaryQuiet DEF Subject
<1> QED BY <1>1, <1>2

LEMMA CurrencyWrites ==
  ASSUME NEW m \in Materials, NEW r, r.ds \in Dataset
  PROVE  \A w \in CurrencyAndCountry(r) : RowWrite(m, r, w)
<1>1. \A c \in {"pd_curr_cd", "curr_cd", "pd_ctry_cd", "pd_trd_ccy", "pd_mkt_id"} : c \notin WatchedColumns[Bond]
  BY DEF WatchedColumns, Dataset, Bond, Fund
<1>2. \A c \in {"pd_curr_cd", "curr_cd", "pd_ctry_cd", "pd_trd_ccy", "pd_mkt_id"} : \A kind, type, related :
        \A w \in ControlledRelation(r, c, kind, type, related) : RowWrite(m, r, w)
  BY <1>1, SubjectQuiet, ControlledWrites
<1> QED BY <1>2 DEF CurrencyAndCountry

LEMMA BondRelationWrites ==
  ASSUME NEW m \in Materials, NEW r, r.ds = Bond
  PROVE  \A w \in BondRelations(r, AuditOf[m]) : RowWrite(m, r, w)
<1>1. r.ds \in Dataset
  BY DEF Dataset
<1>2. \A s \in Support(r) : s[1] = Bond
  BY <1>1, SupportShape DEF Bond, Fund
<1>3. \A s \in Support(r) : Quiet(m, s, "pd_no")
  BY <1>2, QuietIf DEF WatchedColumns, Dataset, Bond, Fund
<1>4. \A lot : \A w \in Relation("entity_relations", r, Support(r), "HAS_SALE_LOT", lot, Cite(r, "pd_no")) :
        RowWrite(m, r, w)
  BY <1>1, <1>3, RelationWrites DEF Kinds
<1>5. \A w \in OrganizationRelation(r, AuditOf[m], "pd_pbcm", "ISSUED_BY", "ISSUER") : RowWrite(m, r, w)
  BY <1>1, OrganizationWrites
<1>6. ASSUME NEW w \in LotRelations(r)
      PROVE  RowWrite(m, r, w)
  <2> DEFINE R(lot) == Relation("entity_relations", r, Support(r), "HAS_SALE_LOT", lot, Cite(r, "pd_no"))
  <2>1. w \in UNION {R(lot) : lot \in Primary(r)}
    BY DEF LotRelations
  <2>2. PICK lot \in Primary(r) : w \in R(lot)
    <3> HIDE DEF R
    <3> QED BY <2>1
  <2> QED BY <1>4, <2>2
<1> QED BY <1>5, <1>6 DEF BondRelations

LEMMA EtpRelationWrites ==
  ASSUME NEW m \in Materials, NEW r, r.ds \in Dataset
  PROVE  \A w \in EtpManager(r) \cup EtpIndex(r) : RowWrite(m, r, w)
<1>1. \A name : \A w \in OrganizationRows("ASSET_MANAGER", r.ds, name) : RowWrite(m, r, w)
  BY NamesWrite, OtherRows DEF OrganizationRows, OwnTables
<1>2. \A t \in Kinds : \A type, target, column :
        \A w \in Relation(t, r, Primary(r), type, target, Cite(r, column)) : RowWrite(m, r, w)
  BY PrimaryQuiet, RelationWrites
<1>3. \A w \in EtpManager(r) : RowWrite(m, r, w)
  BY <1>1, <1>2, NamesWrite DEF EtpManager, RefusedOrganization, Kinds
<1>4. \A name : \A w \in IndexRows(r.ds, name) : RowWrite(m, r, w)
  BY NamesWrite, OtherRows DEF IndexRows, OwnTables
<1>5. \A w \in EtpIndex(r) : RowWrite(m, r, w)
  BY <1>2, <1>4 DEF EtpIndex, Kinds
<1> QED BY <1>3, <1>5

LEMMA FundRelationWrites ==
  ASSUME NEW m \in Materials, NEW r, r.ds = Fund
  PROVE  \A w \in FundRelations(r, AuditOf[m]) : RowWrite(m, r, w)
<1>1. r.ds \in Dataset
  BY DEF Dataset
<1>2. \A s \in Support(r) : s[1] = "fund_family"
  BY <1>1, SupportShape DEF Bond, Fund
<1>3. \A s \in Support(r) : Quiet(m, s, "rptt_ksd_itm_no")
  BY <1>2, QuietIf DEF WatchedColumns, Dataset, Bond, Fund
<1>4. \A class : \A w \in Relation("entity_relations", r, Support(r), "HAS_SHARE_CLASS", class,
                                   Cite(r, "rptt_ksd_itm_no")) : RowWrite(m, r, w)
  BY <1>1, <1>3, RelationWrites DEF Kinds
<1>5. \A column, type, organization : \A w \in OrganizationRelation(r, AuditOf[m], column, type, organization) :
        RowWrite(m, r, w)
  BY <1>1, OrganizationWrites
<1>6. \A target : \A w \in Relation("index_relations", r, {s \in Support(r) : ~Disputed(AuditOf[m], s, "bmrk_nm")},
                                    "HAS_BENCHMARK", target, Cite(r, "bmrk_nm")) : RowWrite(m, r, w)
  BY <1>1, RelationWrites DEF Kinds, Quiet
<1>7. \A name : \A w \in IndexRows(r.ds, name) : RowWrite(m, r, w)
  BY NamesWrite, OtherRows DEF IndexRows, OwnTables
<1>8. ASSUME NEW w \in ClassRelations(r)
      PROVE  RowWrite(m, r, w)
  <2> DEFINE R(class) == Relation("entity_relations", r, Support(r), "HAS_SHARE_CLASS", class,
                                  Cite(r, "rptt_ksd_itm_no"))
  <2>1. w \in UNION {R(class) : class \in Primary(r)}
    BY DEF ClassRelations
  <2>2. PICK class \in Primary(r) : w \in R(class)
    <3> HIDE DEF R
    <3> QED BY <2>1
  <2> QED BY <1>4, <2>2
<1> QED BY <1>5, <1>6, <1>7, <1>8 DEF FundRelations

LEMMA RelationsWrite ==
  ASSUME NEW m \in Materials, NEW r, r.ds \in Dataset
  PROVE  \A w \in Relations(r, AuditOf[m]) : RowWrite(m, r, w)
<1>1. CASE r.ds = Bond
  BY <1>1, CurrencyWrites, BondRelationWrites DEF Relations, Bond, Fund
<1>2. CASE r.ds = Fund
  BY <1>2, CurrencyWrites, FundRelationWrites DEF Relations, Bond, Fund
<1>3. CASE r.ds # Bond /\ r.ds # Fund
  BY <1>3, CurrencyWrites, EtpRelationWrites DEF Relations
<1> QED BY <1>1, <1>2, <1>3

LEMMA MetricWrites ==
  ASSUME NEW m \in Materials, NEW r, r.ds \in Dataset, NEW s \in Primary(r) \cup Support(r),
         NEW key, NEW column, Quiet(m, s, column)
  PROVE  \A w \in Evidenced(FactId(s, r.ds, "METRIC", key), "RESOLVED", Cite(r, column), "SUPPORTS") :
           RowWrite(m, r, w)
<1> DEFINE fact == FactId(s, r.ds, "METRIC", key)
<1>1. SubjectOf(fact) = s /\ SnapshotOf(fact) = r.ds /\ ~ConflictKey(fact)
  BY FactShape
<1>2. \A e \in Cite(r, column) : e[1] = Record(r) /\ e[2] = column
  BY CiteShape
<1> HIDE DEF fact
<1>3. \A w \in Evidenced(fact, "RESOLVED", Cite(r, column), "SUPPORTS") : RowWrite(m, r, w)
  BY <1>1, <1>2, EvidencedWrite DEF StatusOf
<1> QED BY <1>3 DEF fact

LEMMA MetricsWrite ==
  ASSUME NEW m \in Materials, NEW r, r.ds \in Dataset,
         r.ds = Fund => Primary(r) # {} \/ Support(r) = {}
  PROVE  \A w \in Metrics(r) : RowWrite(m, r, w)
<1>1. \A fact, metric, value : RowWrite(m, r, MetricRow(fact, metric, value))
  <2>1. \A fact, metric, value : MetricRow(fact, metric, value)[1] \notin OwnTables
    BY DEF MetricRow, OwnTables
  <2> QED BY <2>1, OtherWrite
<1>2. Observed(r) \subseteq Primary(r) \cup Support(r)
  BY SubjectShape
<1>3. \A s \in Observed(r), c \in DOMAIN MetricColumns[r.ds] : Quiet(m, s, c)
  <2>1. CASE r.ds = Bond
    <3>1. DOMAIN MetricColumns[r.ds] = {"eval_price", "buy_yield"}
      BY <2>1 DEF MetricColumns, BondMetrics, Dataset, Bond, Fund, Foreign
    <3>2. \A s \in Support(r) : s[1] = Bond
      BY <2>1, SupportShape DEF Bond, Fund
    <3>3. \A s \in Support(r), c \in {"eval_price", "buy_yield"} : Quiet(m, s, c)
      BY <3>2, QuietIf DEF WatchedColumns, Dataset, Bond, Fund
    <3> QED BY <1>2, <3>1, <3>3, PrimaryQuiet
  <2>2. CASE r.ds # Bond
    <3>1. Observed(r) \subseteq Primary(r)
      <4>1. CASE r.ds = Fund
        BY <4>1 DEF Observed
      <4>2. CASE r.ds # Fund
        BY <2>2, <4>2, SupportShape DEF Observed
      <4> QED BY <4>1, <4>2
    <3> QED BY <3>1, PrimaryQuiet
  <2> QED BY <2>1, <2>2
<1>4. ASSUME NEW s \in Observed(r), NEW c \in DOMAIN MetricColumns[r.ds]
      PROVE  \A w \in Evidenced(MetricFact(r, s, c), "RESOLVED", Cite(r, c), "SUPPORTS") : RowWrite(m, r, w)
  BY <1>2, <1>3, MetricWrites DEF MetricFact
<1>5. ASSUME r.ds = Bond
      PROVE  \A w \in CreditRating(r) : RowWrite(m, r, w)
  <2>1. \A s \in Support(r) : s[1] = Bond
    BY <1>5, SupportShape DEF Bond, Fund
  <2>2. \A s \in Support(r) : Quiet(m, s, "crd_grd")
    BY <2>1, QuietIf DEF WatchedColumns, Dataset, Bond, Fund
  <2>3. ASSUME NEW s \in Support(r)
        PROVE  \A w \in Evidenced(FactId(s, r.ds, "METRIC", <<"CREDIT_RATING_ORDER">>), "RESOLVED",
                                  Cite(r, "crd_grd"), "SUPPORTS") : RowWrite(m, r, w)
    BY <2>2, MetricWrites
  <2> QED BY <1>1, <2>3 DEF CreditRating
<1>6. ASSUME NEW w \in Observations(r)
      PROVE  RowWrite(m, r, w)
  <2> DEFINE M(s, c) == Evidenced(MetricFact(r, s, c), "RESOLVED", Cite(r, c), "SUPPORTS")
                        \cup {MetricRow(MetricFact(r, s, c), MetricColumns[r.ds][c][1], v) : v \in Number(r, c)}
             columns == {x \in DOMAIN MetricColumns[r.ds] : Number(r, x) # {} /\ Cite(r, x) # {}}
  <2>1. w \in UNION {M(s, c) : s \in Observed(r), c \in columns}
    BY DEF Observations
  <2>2. PICK s \in Observed(r), c \in columns : w \in M(s, c)
    <3> HIDE DEF M, columns
    <3> QED BY <2>1
  <2> QED BY <1>1, <1>4, <2>2
<1> QED BY <1>5, <1>6 DEF Metrics

LEMMA RecordWrites ==
  ASSUME NEW m, NEW r, Valid(r)
  PROVE  \A w \in RecordRows(r) : RowWrite(m, r, w)
<1>1. \A row : RowWrite(m, r, <<"source_field_assertions", row>>)
  BY OtherRows DEF OwnTables
<1>2. \A w \in Assertions(r) : RowWrite(m, r, w)
  <2> SUFFICES ASSUME NEW w \in Assertions(r) PROVE RowWrite(m, r, w)
    OBVIOUS
  <2>1. \E row : w = <<"source_field_assertions", row>>
    BY DEF Assertions
  <2> QED BY <1>1, <2>1
<1>3. RowWrite(m, r, <<"source_records", RecordRow(r)>>)
  BY DEF RowWrite
<1> QED BY <1>2, <1>3 DEF RecordRows, RecordRow

\* Every write of a row is one.
LEMMA WritesAreOfRow ==
  ASSUME NEW m \in Materials, NEW r, r.ds \in Dataset
  PROVE  \A w \in RowWrites(r, AuditOf[m]) : RowWrite(m, r, w)
<1>1. CASE ~Valid(r)
  <2>1. RowWrite(m, r, <<"quarantine_records", QuarantineRow(r)>>)
    BY <1>1 DEF RowWrite
  <2> QED BY <1>1, <2>1 DEF RowWrites, QuarantineRow
<1>2. CASE Valid(r) /\ r.ds = Fund /\ Family(r) = {}
  BY <1>2, RecordWrites, ClassificationWrites, NamesWrite DEF RowWrites
<1>3. CASE Valid(r) /\ ~(r.ds = Fund /\ Family(r) = {})
  <2>1. r.ds = Fund => Primary(r) # {}
    BY <1>3 DEF Primary, Fund, Bond, Etp, Domestic, Foreign
  <2>2. \A w \in Metrics(r) : RowWrite(m, r, w)
    BY <2>1, MetricsWrite
  <2> QED BY <1>3, <2>2, RecordWrites, EntityWrites, LinkWrites, NameWrites, ScalarsWrite,
             ClassificationWrites, RelationsWrite DEF RowWrites
<1> QED BY <1>1, <1>2, <1>3

(* The writes after the rows. *)

\* A write of the last batch.
FinalWrite(m, w) ==
  /\ w[1] \notin {"source_records", "quarantine_records", "source_record_entities"}
  /\ w[1] = "canonical_facts" => w[2].status = StatusOf(w[2].id)
  /\ w[1] = "fact_evidence_links" =>
       /\ Rests(m, w[2])
       /\ \E i \in ValidRows(m) : w[2].assertion[1] = Record(m[i]) /\ SubjectOf(w[2].fact) \in Support(m[i])
  /\ w[1] = "fact_conflict_cases" =>
       w[2].facts = Cardinality(Values(AuditOf[m], w[2].id[1], w[2].id[2]))

LEMMA ConflictFactShape ==
  ASSUME NEW r, NEW d, NEW fact, fact = ConflictFact(r, d)
  PROVE  SubjectOf(fact) = d[1] /\ SnapshotOf(fact) = r.ds /\ ConflictKey(fact) /\ StatusOf(fact) = "CONFLICT"
BY FactShape DEF ConflictFact, StatusOf

LEMMA ConflictFactsWrite ==
  ASSUME NEW m \in Materials, NEW d
  PROVE  \A w \in ConflictFacts(m, AuditOf[m], d) : FinalWrite(m, w)
<1> SUFFICES ASSUME NEW w \in ConflictFacts(m, AuditOf[m], d)
             PROVE  FinalWrite(m, w)
  OBVIOUS
<1> DEFINE R(i) == Evidenced(ConflictFact(m[i], d), "CONFLICT", Cite(m[i], d[2]), "SUPPORTS")
<1>1. w \in UNION {R(i) : i \in StatingRows(m, AuditOf[m], d)}
  BY DEF ConflictFacts
<1>2. PICK i \in StatingRows(m, AuditOf[m], d) : w \in R(i)
  <2> HIDE DEF R
  <2> QED BY <1>1
<1> DEFINE fact == ConflictFact(m[i], d)
<1>3. /\ SubjectOf(fact) = d[1] /\ SnapshotOf(fact) = m[i].ds
      /\ ConflictKey(fact) /\ StatusOf(fact) = "CONFLICT"
  BY ConflictFactShape
<1>4. i \in ValidRows(m) /\ d[1] \in Support(m[i]) /\ m[i].ds \in Dataset
  BY <1>2, MaterialAssumption DEF StatingRows, ValidRows
<1> HIDE DEF fact
<1>5. CASE w = FactRow(fact, "CONFLICT")
  BY <1>3, <1>5 DEF FactRow, FinalWrite
<1>6. ASSUME NEW e \in Cite(m[i], d[2]), w = EvidenceRow(fact, e, "SUPPORTS")
      PROVE  FinalWrite(m, w)
  <2>1. e[1] = Record(m[i]) /\ Record(m[i])[1] = "record"
    BY <1>6, CiteShape, RecordIsRecord
  <2>2. w[1] = "fact_evidence_links" /\ w[2].fact = fact /\ w[2].assertion = e
    BY <1>6 DEF EvidenceRow
  <2>3. Rests(m, w[2])
    BY <2>1, <2>2, <1>3, <1>4 DEF Rests
  <2> QED BY <2>1, <2>2, <2>3, <1>3, <1>4 DEF FinalWrite
<1> QED BY <1>2, <1>5, <1>6 DEF Evidenced, fact

LEMMA FinalWrites ==
  ASSUME NEW m \in Materials
  PROVE  \A w \in CollisionCases(AuditOf[m]) \cup ConflictCases(m, AuditOf[m]) \cup Crosswalk(m) : FinalWrite(m, w)
<1>1. ASSUME NEW w \in CollisionCases(AuditOf[m])
      PROVE  FinalWrite(m, w)
  <2>1. \E row : w = <<"identifier_collision_cases", row>>
    BY <1>1 DEF CollisionCases
  <2> QED BY <2>1 DEF FinalWrite
<1>2. ASSUME NEW w \in Crosswalk(m)
      PROVE  FinalWrite(m, w)
  <2>1. \E row : w = <<"entity_id_crosswalk", row>>
    BY <1>2 DEF Crosswalk
  <2> QED BY <2>1 DEF FinalWrite
<1>3. ASSUME NEW w \in ConflictCases(m, AuditOf[m])
      PROVE  FinalWrite(m, w)
  <2>1. PICK d : w = ConflictRow(AuditOf[m], d) \/ w \in ConflictFacts(m, AuditOf[m], d)
    BY <1>3 DEF ConflictCases
  <2>2. FinalWrite(m, ConflictRow(AuditOf[m], d))
    BY DEF ConflictRow, FinalWrite
  <2> QED BY <2>1, <2>2, ConflictFactsWrite
<1> QED BY <1>1, <1>2, <1>3

(* What the rebuilds own is traced. *)

Landed(o, record, entity) == \E k \in o.links : k.record = record /\ k.entity = entity

\* Of what the rebuilds own: every record and every quarantine record is a row's,
\* a record describes what its key says, a fact is open just when its key is a
\* conflict's, what a fact rests on comes from a record linked to its subject
\* and decides nothing that is disputed, and a case has the count of its values.
Traced(o, m) ==
  /\ \A s \in o.records : \E i \in ValidRows(m) : s = RecordRow(m[i])
  /\ \A q \in o.quarantine : \E i \in DOMAIN m \ ValidRows(m) : q = QuarantineRow(m[i])
  /\ \A l \in o.links : l.role = "DESCRIBES" => l.entity = Described(l.record)
  /\ \A f \in o.facts : f.status = StatusOf(f.id)
  /\ \A l \in o.evidence : Rests(m, l) /\ Landed(o, l.assertion[1], SubjectOf(l.fact))
  /\ \A c \in o.conflicts : c.facts = Cardinality(Values(AuditOf[m], c.id[1], c.id[2]))

\* A write that keeps it, when its record is linked.
SoundWrite(m, w) ==
  /\ w[1] = "source_records" => \E i \in ValidRows(m) : w[2] = RecordRow(m[i])
  /\ w[1] = "quarantine_records" => \E i \in DOMAIN m \ ValidRows(m) : w[2] = QuarantineRow(m[i])
  /\ w[1] = "source_record_entities" /\ w[2].role = "DESCRIBES" => w[2].entity = Described(w[2].record)
  /\ w[1] = "canonical_facts" => w[2].status = StatusOf(w[2].id)
  /\ w[1] = "fact_evidence_links" => Rests(m, w[2])
  /\ w[1] = "fact_conflict_cases" =>
       w[2].facts = Cardinality(Values(AuditOf[m], w[2].id[1], w[2].id[2]))

\* An insert adds to what the rebuilds own nothing but what is written.
LEMMA InsertOwn ==
  ASSUME NEW d, Database(d), NEW W
  PROVE  LET o == Own(d)
             e == Own(Insert(d, W))
         IN /\ Database(Insert(d, W))
            /\ o.records \subseteq e.records
            /\ e.records \subseteq o.records \cup RowsFor(W, "source_records")
            /\ o.quarantine \subseteq e.quarantine
            /\ e.quarantine \subseteq o.quarantine \cup RowsFor(W, "quarantine_records")
            /\ o.links \subseteq e.links
            /\ e.links \subseteq o.links \cup RowsFor(W, "source_record_entities")
            /\ o.facts \subseteq e.facts
            /\ e.facts \subseteq o.facts \cup RowsFor(W, "canonical_facts")
            /\ o.evidence \subseteq e.evidence
            /\ e.evidence \subseteq o.evidence \cup RowsFor(W, "fact_evidence_links")
            /\ o.conflicts \subseteq e.conflicts
            /\ e.conflicts \subseteq o.conflicts \cup RowsFor(W, "fact_conflict_cases")
<1> DEFINE n == Insert(d, W)
<1>1. /\ DOMAIN n = DOMAIN d
      /\ \A t \in DOMAIN d : d[t] \subseteq n[t] /\ n[t] \subseteq d[t] \cup RowsFor(W, t)
  BY InsertFacts
<1>2. /\ "source_records" \in DOMAIN d /\ "quarantine_records" \in DOMAIN d
      /\ "source_record_entities" \in DOMAIN d /\ "canonical_facts" \in DOMAIN d
      /\ "fact_evidence_links" \in DOMAIN d /\ "fact_conflict_cases" \in DOMAIN d
  BY KeysOfOwn DEF Database
<1> HIDE DEF n
<1>3. Database(n)
  BY <1>1 DEF Database
<1>4. LET o == Own(d)
          e == Own(n)
      IN /\ o.records \subseteq e.records
         /\ e.records \subseteq o.records \cup RowsFor(W, "source_records")
         /\ o.quarantine \subseteq e.quarantine
         /\ e.quarantine \subseteq o.quarantine \cup RowsFor(W, "quarantine_records")
  BY <1>1, <1>2 DEF Own
<1>5. LET o == Own(d)
          e == Own(n)
      IN /\ o.links \subseteq e.links
         /\ e.links \subseteq o.links \cup RowsFor(W, "source_record_entities")
         /\ o.facts \subseteq e.facts
         /\ e.facts \subseteq o.facts \cup RowsFor(W, "canonical_facts")
  BY <1>1, <1>2 DEF Own
<1>6. LET o == Own(d)
          e == Own(n)
      IN /\ o.evidence \subseteq e.evidence
         /\ e.evidence \subseteq o.evidence \cup RowsFor(W, "fact_evidence_links")
         /\ o.conflicts \subseteq e.conflicts
         /\ e.conflicts \subseteq o.conflicts \cup RowsFor(W, "fact_conflict_cases")
  BY <1>1, <1>2 DEF Own
<1> QED BY <1>3, <1>4, <1>5, <1>6 DEF n

LEMMA InsertTraced ==
  ASSUME NEW m, NEW d, Database(d), Traced(Own(d), m), NEW W, \A w \in W : SoundWrite(m, w),
         \A l \in RowsFor(W, "fact_evidence_links") :
           Landed(Own(Insert(d, W)), l.assertion[1], SubjectOf(l.fact))
  PROVE  Traced(Own(Insert(d, W)), m)
<1> DEFINE o == Own(d)
           e == Own(Insert(d, W))
<1>1. /\ o.links \subseteq e.links
      /\ e.records \subseteq o.records \cup RowsFor(W, "source_records")
      /\ e.quarantine \subseteq o.quarantine \cup RowsFor(W, "quarantine_records")
      /\ e.links \subseteq o.links \cup RowsFor(W, "source_record_entities")
      /\ e.facts \subseteq o.facts \cup RowsFor(W, "canonical_facts")
      /\ e.evidence \subseteq o.evidence \cup RowsFor(W, "fact_evidence_links")
      /\ e.conflicts \subseteq o.conflicts \cup RowsFor(W, "fact_conflict_cases")
  BY InsertOwn
<1>2. Traced(o, m) /\ \A l \in RowsFor(W, "fact_evidence_links") : Landed(e, l.assertion[1], SubjectOf(l.fact))
  OBVIOUS
<1> HIDE DEF o, e
<1>3. \A s \in e.records : \E i \in ValidRows(m) : s = RecordRow(m[i])
  BY <1>1, <1>2, RowIsWrite DEF Traced, SoundWrite
<1>4. \A q \in e.quarantine : \E i \in DOMAIN m \ ValidRows(m) : q = QuarantineRow(m[i])
  BY <1>1, <1>2, RowIsWrite DEF Traced, SoundWrite
<1>5. \A l \in e.links : l.role = "DESCRIBES" => l.entity = Described(l.record)
  BY <1>1, <1>2, RowIsWrite DEF Traced, SoundWrite
<1>6. \A f \in e.facts : f.status = StatusOf(f.id)
  BY <1>1, <1>2, RowIsWrite DEF Traced, SoundWrite
<1>7. \A l \in e.evidence : Rests(m, l) /\ Landed(e, l.assertion[1], SubjectOf(l.fact))
  <2>1. \A l \in o.evidence : Landed(e, l.assertion[1], SubjectOf(l.fact))
    BY <1>1, <1>2 DEF Traced, Landed
  <2> QED BY <2>1, <1>1, <1>2, RowIsWrite DEF Traced, SoundWrite
<1>8. \A c \in e.conflicts : c.facts = Cardinality(Values(AuditOf[m], c.id[1], c.id[2]))
  BY <1>1, <1>2, RowIsWrite DEF Traced, SoundWrite
<1>9. Traced(e, m)
  BY <1>3, <1>4, <1>5, <1>6, <1>7, <1>8 DEF Traced
<1> QED BY <1>9 DEF e

\* The links of a row are stored, by the row or before it: a record that
\* describes an entity already can only describe the same one.
LEMMA LinksLand ==
  ASSUME NEW m, NEW d, Database(d), Traced(Own(d), m), NEW r, r.ds \in Dataset, NEW W, Links(r) \subseteq W
  PROVE  \A x \in Primary(r) \cup Support(r) : Landed(Own(Insert(d, W)), Record(r), x)
<1> DEFINE e == Insert(d, W)
<1>1. "source_record_entities" \in DOMAIN d
  BY KeysOfOwn DEF Database
<1>2. /\ d["source_record_entities"] \subseteq e["source_record_entities"]
      /\ \A row \in RowsFor(W, "source_record_entities") :
           \/ row \in e["source_record_entities"]
           \/ \E old \in d["source_record_entities"] : Clash("source_record_entities", row, old)
  BY <1>1, InsertFacts
<1> HIDE DEF e
<1>3. ASSUME NEW x, NEW role, <<"source_record_entities", [record |-> Record(r), entity |-> x, role |-> role]>> \in W,
             role = "DESCRIBES" => x = Described(Record(r))
      PROVE  \E l \in e["source_record_entities"] : l.record = Record(r) /\ l.entity = x
  <2> DEFINE row == [record |-> Record(r), entity |-> x, role |-> role]
  <2>1. row.record = Record(r) /\ row.entity = x /\ row.role = role
    OBVIOUS
  <2>2. row \in RowsFor(W, "source_record_entities")
    BY <1>3 DEF RowsFor
  <2> HIDE DEF row
  <2>3. CASE row \in e["source_record_entities"]
    BY <2>1, <2>3
  <2>4. ASSUME NEW old \in d["source_record_entities"], Clash("source_record_entities", row, old)
        PROVE  old.record = Record(r) /\ old.entity = x
    <3>1. PICK columns \in ({{"record", "entity"}} \cup PartialKeys("source_record_entities", row))
                           \cap ({{"record", "entity"}} \cup PartialKeys("source_record_entities", old)) :
            \A c \in columns : row[c] = old[c]
      BY <2>4, KeysOfOwn DEF Clash
    <3>2. /\ PartialKeys("source_record_entities", row) = IF Describes(row) THEN {{"record"}} ELSE {}
          /\ PartialKeys("source_record_entities", old) = IF Describes(old) THEN {{"record"}} ELSE {}
      BY DEF PartialKeys
    <3>3. CASE columns = {"record", "entity"}
      BY <3>1, <3>3, <2>1
    <3>4. CASE columns # {"record", "entity"}
      <4>1. columns = {"record"} /\ Describes(row) /\ Describes(old)
        BY <3>1, <3>2, <3>4
      <4>2. old.record = Record(r) /\ old.role = "DESCRIBES" /\ role = "DESCRIBES"
        BY <4>1, <3>1, <2>1 DEF Describes
      <4>3. old \in Own(d).links
        BY <4>2, RecordIsRecord DEF Own
      <4>4. old.entity = Described(Record(r))
        BY <4>2, <4>3 DEF Traced
      <4> QED BY <4>2, <4>4, <1>3
    <3> QED BY <3>3, <3>4
  <2> QED BY <1>2, <2>2, <2>3, <2>4
<1>4. ASSUME NEW x \in Primary(r) \cup Support(r)
      PROVE  \E l \in e["source_record_entities"] : l.record = Record(r) /\ l.entity = x
  <2>1. CASE x \in Primary(r)
    <3>1. <<"source_record_entities", [record |-> Record(r), entity |-> x, role |-> "DESCRIBES"]>> \in W
      BY <2>1 DEF Links
    <3> QED BY <3>1, <2>1, <1>3, SubjectShape
  <2>2. CASE x \in Support(r)
    <3>1. <<"source_record_entities", [record |-> Record(r), entity |-> x, role |-> "SUPPORTS"]>> \in W
      BY <2>2 DEF Links
    <3> QED BY <3>1, <1>3
  <2> QED BY <2>1, <2>2
<1> QED BY <1>4, RecordIsRecord DEF Landed, Own, e

(* The batches of a rebuild. *)

LEMMA UpdateOwn ==
  ASSUME NEW d, Database(d), NEW rows
  PROVE  Database(Replace(d, "metric_observations", rows)) /\ Own(Replace(d, "metric_observations", rows)) = Own(d)
<1> DEFINE e == Replace(d, "metric_observations", rows)
<1>1. DOMAIN e = DOMAIN d /\ \A t \in DOMAIN d \ {"metric_observations"} : e[t] = d[t]
  BY DEF Replace
<1>2. OwnTables \subseteq DOMAIN d /\ "metric_observations" \notin OwnTables
  BY KeysOfOwn DEF OwnTables, Database
<1> HIDE DEF e
<1>3. Own(e) = Own(d)
  BY <1>1, <1>2, OtherTableOwn
<1> QED BY <1>1, <1>3 DEF Database, e

\* What a rebuild owns after a batch is what it would own after an insert into
\* some database in which it owns the same.
LEMMA BatchIsInsert ==
  ASSUME NEW d, Database(d), NEW W
  PROVE  \E c : Database(c) /\ Own(c) = Own(d) /\ InsertOrUpdate(d, W) = Insert(c, W)
BY UpdateOwn DEF InsertOrUpdate

LEMMA RowBatch ==
  ASSUME NEW m \in Materials, NEW d, Database(d), Traced(Own(d), m), NEW n \in DOMAIN m
  PROVE  LET e == InsertOrUpdate(d, RowWrites(m[n], AuditOf[m]))
         IN /\ Database(e) /\ Own(d).links \subseteq Own(e).links /\ Traced(Own(e), m)
            /\ n \in ValidRows(m) => \A x \in Primary(m[n]) \cup Support(m[n]) : Landed(Own(e), Record(m[n]), x)
<1> DEFINE W == RowWrites(m[n], AuditOf[m])
<1>1. m[n].ds \in Dataset
  BY MaterialAssumption
<1>2. \A w \in W : RowWrite(m, m[n], w)
  BY <1>1, WritesAreOfRow
<1>3. Valid(m[n]) => Links(m[n]) \subseteq W \/ Primary(m[n]) \cup Support(m[n]) = {}
  BY DEF RowWrites, Primary, Support, Bond, Fund, Etp, Domestic, Foreign
<1>4. ~Valid(m[n]) => RowsFor(W, "fact_evidence_links") = {}
  BY DEF RowWrites, RowsFor
<1> HIDE DEF W
<1>5. PICK c : Database(c) /\ Own(c) = Own(d) /\ InsertOrUpdate(d, W) = Insert(c, W)
  BY BatchIsInsert
<1>6. Valid(m[n]) => \A x \in Primary(m[n]) \cup Support(m[n]) : Landed(Own(Insert(c, W)), Record(m[n]), x)
  BY <1>1, <1>3, <1>5, LinksLand
<1>7. \A w \in W : SoundWrite(m, w)
  <2> SUFFICES ASSUME NEW w \in W
               PROVE  SoundWrite(m, w)
    OBVIOUS
  <2>1. w[1] = "source_records" => n \in ValidRows(m) /\ w[2] = RecordRow(m[n])
    BY <1>2 DEF RowWrite, ValidRows
  <2>2. w[1] = "quarantine_records" => n \in DOMAIN m \ ValidRows(m) /\ w[2] = QuarantineRow(m[n])
    BY <1>2 DEF RowWrite, ValidRows
  <2> QED BY <1>2, <2>1, <2>2 DEF RowWrite, SoundWrite
<1>8. \A l \in RowsFor(W, "fact_evidence_links") :
        Landed(Own(Insert(c, W)), l.assertion[1], SubjectOf(l.fact))
  <2> SUFFICES ASSUME NEW l \in RowsFor(W, "fact_evidence_links")
               PROVE  Landed(Own(Insert(c, W)), l.assertion[1], SubjectOf(l.fact))
    OBVIOUS
  <2>1. l.assertion[1] = Record(m[n]) /\ SubjectOf(l.fact) \in Primary(m[n]) \cup Support(m[n])
    BY <1>2, RowIsWrite DEF RowWrite
  <2> QED BY <1>4, <1>6, <2>1
<1>9. Traced(Own(Insert(c, W)), m)
  BY <1>5, <1>7, <1>8, InsertTraced
<1>10. Database(Insert(c, W)) /\ Own(d).links \subseteq Own(Insert(c, W)).links
  BY <1>5, InsertOwn
<1>11. n \in ValidRows(m) => Valid(m[n])
  BY DEF ValidRows
<1> QED BY <1>5, <1>6, <1>9, <1>10, <1>11 DEF W

\* Of a column of a subject that is disputed, every statement of the rows is
\* kept by a conflict, and the case counts the values.
Kept(o, m, d) ==
  /\ \A i \in StatingRows(m, AuditOf[m], d) :
       /\ \E f \in o.facts : f.id = ConflictFact(m[i], d) /\ f.status = "CONFLICT"
       /\ \A a \in Cite(m[i], d[2]) : \E l \in o.evidence : l.fact = ConflictFact(m[i], d) /\ l.assertion = a
  /\ \E c \in o.conflicts : c.id = d /\ c.facts = Cardinality(Values(AuditOf[m], d[1], d[2]))
DisputesKept(o, m) == \A d \in DisputedOf(AuditOf[m]) : Kept(o, m, d)

LEMMA LastBatch ==
  ASSUME NEW m \in Materials, NEW d, Database(d), Traced(Own(d), m),
         \A i \in ValidRows(m) : \A x \in Primary(m[i]) \cup Support(m[i]) : Landed(Own(d), Record(m[i]), x)
  PROVE  LET e == InsertOrUpdate(d, CollisionCases(AuditOf[m]) \cup ConflictCases(m, AuditOf[m]) \cup Crosswalk(m))
         IN Database(e) /\ Traced(Own(e), m) /\ DisputesKept(Own(e), m)
<1> DEFINE W == CollisionCases(AuditOf[m]) \cup ConflictCases(m, AuditOf[m]) \cup Crosswalk(m)
<1>1. \A w \in W : FinalWrite(m, w)
  BY FinalWrites
<1>2. \A x \in DisputedOf(AuditOf[m]) : ConflictRow(AuditOf[m], x) \in W /\ ConflictFacts(m, AuditOf[m], x) \subseteq W
  BY DEF ConflictCases
<1> HIDE DEF W
<1>3. PICK c : Database(c) /\ Own(c) = Own(d) /\ InsertOrUpdate(d, W) = Insert(c, W)
  BY BatchIsInsert
<1> DEFINE e == Insert(c, W)
<1>4. /\ Database(e) /\ Own(c).links \subseteq Own(e).links
  BY <1>3, InsertOwn
<1>5. \A w \in W : SoundWrite(m, w)
  BY <1>1 DEF FinalWrite, SoundWrite
<1>6. \A l \in RowsFor(W, "fact_evidence_links") : Landed(Own(e), l.assertion[1], SubjectOf(l.fact))
  <2> HIDE DEF e
  <2> SUFFICES ASSUME NEW l \in RowsFor(W, "fact_evidence_links")
               PROVE  Landed(Own(e), l.assertion[1], SubjectOf(l.fact))
    OBVIOUS
  <2>1. PICK i \in ValidRows(m) : l.assertion[1] = Record(m[i]) /\ SubjectOf(l.fact) \in Support(m[i])
    BY <1>1, RowIsWrite DEF FinalWrite
  <2>2. Landed(Own(d), l.assertion[1], SubjectOf(l.fact))
    BY <2>1
  <2> QED BY <1>3, <1>4, <2>2 DEF Landed
<1>7. Traced(Own(e), m)
  BY <1>3, <1>5, <1>6, InsertTraced
<1>8. /\ "canonical_facts" \in DOMAIN c /\ "fact_evidence_links" \in DOMAIN c /\ "fact_conflict_cases" \in DOMAIN c
  BY <1>3, KeysOfOwn DEF Database
<1>9. \A t \in DOMAIN c : /\ c[t] \subseteq e[t]
                           /\ \A row \in RowsFor(W, t) : row \in e[t] \/ \E old \in c[t] : Clash(t, row, old)
  BY InsertFacts
<1> HIDE DEF e
<1>10. ASSUME NEW fact, FactRow(fact, "CONFLICT") \in W, ConflictKey(fact), SnapshotOf(fact) \in Dataset
       PROVE  \E f \in Own(e).facts : f.id = fact /\ f.status = "CONFLICT"
  <2> DEFINE row == [id |-> fact, status |-> "CONFLICT"]
  <2>1. row \in RowsFor(W, "canonical_facts") /\ row.id = fact
    BY <1>10 DEF FactRow, RowsFor
  <2> HIDE DEF row
  <2>2. \A old : Clash("canonical_facts", row, old) => old.id = fact
    BY <2>1, KeysOfOwn DEF Clash, PartialKeys
  <2>3. PICK f \in e["canonical_facts"] : f.id = fact
    BY <1>8, <1>9, <2>1, <2>2
  <2>4. f \in Own(e).facts
    BY <1>10, <2>3 DEF Own
  <2>5. f.status = StatusOf(fact)
    BY <1>7, <2>3, <2>4 DEF Traced
  <2> QED BY <1>10, <2>3, <2>4, <2>5 DEF StatusOf
<1>11. ASSUME NEW fact, NEW a, EvidenceRow(fact, a, "SUPPORTS") \in W, SnapshotOf(fact) \in Dataset
       PROVE  \E l \in Own(e).evidence : l.fact = fact /\ l.assertion = a
  <2> DEFINE row == [fact |-> fact, assertion |-> a, role |-> "SUPPORTS"]
  <2>1. row \in RowsFor(W, "fact_evidence_links") /\ row.fact = fact /\ row.assertion = a
    BY <1>11 DEF EvidenceRow, RowsFor
  <2> HIDE DEF row
  <2>2. \A old : Clash("fact_evidence_links", row, old) => old.fact = fact /\ old.assertion = a
    BY <2>1, KeysOfOwn DEF Clash, PartialKeys
  <2>3. PICK l \in e["fact_evidence_links"] : l.fact = fact /\ l.assertion = a
    BY <1>8, <1>9, <2>1, <2>2
  <2> QED BY <1>11, <2>3 DEF Own
<1>12. ASSUME NEW x \in DisputedOf(AuditOf[m])
       PROVE  \E k \in Own(e).conflicts : k.id = x /\ k.facts = Cardinality(Values(AuditOf[m], x[1], x[2]))
  <2> DEFINE row == [id |-> x, facts |-> Cardinality(Values(AuditOf[m], x[1], x[2]))]
  <2>1. row \in RowsFor(W, "fact_conflict_cases") /\ row.id = x
    <3>1. ConflictRow(AuditOf[m], x)[1] = "fact_conflict_cases" /\ ConflictRow(AuditOf[m], x)[2] = row
      BY DEF ConflictRow
    <3>2. row.id = x
      OBVIOUS
    <3> HIDE DEF row
    <3> QED BY <1>2, <3>1, <3>2 DEF RowsFor
  <2> HIDE DEF row
  <2>2. \A old : Clash("fact_conflict_cases", row, old) => old.id = x
    BY <2>1, KeysOfOwn DEF Clash, PartialKeys
  <2>3. PICK k \in e["fact_conflict_cases"] : k.id = x
    BY <1>8, <1>9, <2>1, <2>2
  <2>4. k \in Own(e).conflicts
    BY <2>3 DEF Own
  <2> QED BY <1>7, <2>3, <2>4 DEF Traced
<1>13. ASSUME NEW x \in DisputedOf(AuditOf[m]), NEW i \in StatingRows(m, AuditOf[m], x)
       PROVE  /\ \E f \in Own(e).facts : f.id = ConflictFact(m[i], x) /\ f.status = "CONFLICT"
              /\ \A a \in Cite(m[i], x[2]) : \E l \in Own(e).evidence : l.fact = ConflictFact(m[i], x) /\ l.assertion = a
  <2> DEFINE fact == ConflictFact(m[i], x)
  <2>1. m[i].ds \in Dataset
    BY MaterialAssumption DEF StatingRows, ValidRows
  <2>2. ConflictKey(fact) /\ SnapshotOf(fact) \in Dataset
    BY <2>1, ConflictFactShape
  <2>3. Evidenced(fact, "CONFLICT", Cite(m[i], x[2]), "SUPPORTS") \subseteq W
    BY <1>2 DEF ConflictFacts
  <2> HIDE DEF fact
  <2>4. FactRow(fact, "CONFLICT") \in W /\ \A a \in Cite(m[i], x[2]) : EvidenceRow(fact, a, "SUPPORTS") \in W
    BY <2>3 DEF Evidenced
  <2> QED BY <1>10, <1>11, <2>2, <2>4 DEF fact
<1>14. DisputesKept(Own(e), m)
  BY <1>12, <1>13 DEF DisputesKept, Kept
<1> QED BY <1>3, <1>4, <1>7, <1>14 DEF W, e

(* A rebuild. *)

\* The stores after each batch.
RebuildRun(f, d, m, k) ==
  f = [n \in 0..k |-> IF n = 0 THEN d ELSE InsertOrUpdate(f[n - 1], Batches[m][n])]

LEMMA RebuildRuns ==
  ASSUME NEW d, NEW m, NEW L \in Nat
  PROVE  \E f : RebuildRun(f, d, m, L)
<1> DEFINE N == {k \in Nat : \E f : RebuildRun(f, d, m, k)}
<1>1. 0 \in N
  <2> DEFINE f == [n \in 0..0 |-> d]
  <2>1. RebuildRun(f, d, m, 0)
    BY DEF RebuildRun
  <2> QED BY <2>1
<1>2. ASSUME NEW n \in 1..L, n - 1 \in N
      PROVE  n \in N
  <2>1. PICK f : RebuildRun(f, d, m, n - 1)
    BY <1>2
  <2> DEFINE g == [k \in 0..n |-> IF k = n THEN InsertOrUpdate(f[n - 1], Batches[m][n]) ELSE f[k]]
  <2>2. g[0] = d
    BY <2>1 DEF RebuildRun
  <2>3. ASSUME NEW k \in 1..n PROVE g[k] = InsertOrUpdate(g[k - 1], Batches[m][k])
    <3>1. k - 1 \in 0..(n - 1) /\ g[k - 1] = f[k - 1]
      OBVIOUS
    <3>2. CASE k = n
      BY <3>1, <3>2
    <3>3. CASE k # n
      <4>1. k \in 0..(n - 1) /\ k # 0
        BY <3>3
      <4>2. f[k] = InsertOrUpdate(f[k - 1], Batches[m][k])
        BY <4>1, <2>1 DEF RebuildRun
      <4> QED BY <3>1, <3>3, <4>1, <4>2
    <3> QED BY <3>2, <3>3
  <2>4. g = [k \in 0..n |-> g[k]]
    OBVIOUS
  <2> HIDE DEF g
  <2>5. \A k \in 0..n : g[k] = IF k = 0 THEN d ELSE InsertOrUpdate(g[k - 1], Batches[m][k])
    BY <2>2, <2>3
  <2>6. RebuildRun(g, d, m, n)
    BY <2>4, <2>5, Zenon DEF RebuildRun
  <2> QED BY <2>6
<1> HIDE DEF N
<1>3. L \in N
  BY <1>1, <1>2, UpTo
<1> QED BY <1>3 DEF N

\* After n batches what is owned is traced and the first n rows are linked.
RowsLanded(o, m, n) ==
  \A i \in ValidRows(m) : i <= n => \A x \in Primary(m[i]) \cup Support(m[i]) : Landed(o, Record(m[i]), x)

LEMMA RebuildTraced ==
  ASSUME NEW m \in Materials, NEW d, Database(d), Traced(Own(d), m)
  PROVE  LET e == WrittenTo(d, m)
         IN Database(e) /\ Traced(Own(e), m) /\ DisputesKept(Own(e), m)
<1> DEFINE L == Len(m)
           after == CHOOSE f : RebuildRun(f, d, m, L + 1)
<1>1. L \in Nat /\ DOMAIN m = 1..L
  BY MaterialAssumption
<1>2. WrittenTo(d, m) = after[L + 1]
  BY DEF WrittenTo, RebuildRun
<1>3. RebuildRun(after, d, m, L + 1)
  BY <1>1, RebuildRuns
<1> HIDE DEF after, L
<1>4. after[0] = d
  BY <1>1, <1>3 DEF RebuildRun
<1>5. \A n \in 1..L : after[n] = InsertOrUpdate(after[n - 1], RowWrites(m[n], AuditOf[m]))
  <2> SUFFICES ASSUME NEW n \in 1..L
               PROVE  after[n] = InsertOrUpdate(after[n - 1], RowWrites(m[n], AuditOf[m]))
    OBVIOUS
  <2>1. n \in 0..(L + 1) /\ n # 0 /\ n \in 1..(L + 1) /\ n <= L
    BY <1>1
  <2>2. after[n] = InsertOrUpdate(after[n - 1], Batches[m][n])
    BY <2>1, <1>3 DEF RebuildRun
  <2>3. Batches[m][n] = RowWrites(m[n], AuditOf[m])
    BY <2>1 DEF Batches, L
  <2> QED BY <2>2, <2>3
<1>6. after[L + 1] = InsertOrUpdate(after[L], CollisionCases(AuditOf[m]) \cup ConflictCases(m, AuditOf[m]) \cup Crosswalk(m))
  <2>1. L + 1 \in 0..(L + 1) /\ L + 1 # 0 /\ (L + 1) - 1 = L
    BY <1>1
  <2>2. after[L + 1] = InsertOrUpdate(after[L], Batches[m][L + 1])
    BY <2>1, <1>3 DEF RebuildRun
  <2>3. Batches[m][L + 1] = CollisionCases(AuditOf[m]) \cup ConflictCases(m, AuditOf[m]) \cup Crosswalk(m)
    BY <1>1 DEF Batches, L
  <2> QED BY <2>2, <2>3
<1> DEFINE N == {n \in 0..L : Database(after[n]) /\ Traced(Own(after[n]), m) /\ RowsLanded(Own(after[n]), m, n)}
<1>7. 0 \in N
  <2>1. \A i \in ValidRows(m) : ~(i <= 0)
    BY <1>1 DEF ValidRows
  <2> QED BY <2>1, <1>1, <1>4 DEF RowsLanded
<1>8. ASSUME NEW n \in 1..L, n - 1 \in N
      PROVE  n \in N
  <2>1. Database(after[n - 1]) /\ Traced(Own(after[n - 1]), m) /\ RowsLanded(Own(after[n - 1]), m, n - 1)
    BY <1>8
  <2>2. n \in DOMAIN m
    BY <1>1
  <2>3. /\ Database(after[n]) /\ Own(after[n - 1]).links \subseteq Own(after[n]).links /\ Traced(Own(after[n]), m)
        /\ n \in ValidRows(m) =>
             \A x \in Primary(m[n]) \cup Support(m[n]) : Landed(Own(after[n]), Record(m[n]), x)
    BY <2>1, <2>2, <1>5, RowBatch
  <2>4. RowsLanded(Own(after[n]), m, n - 1)
    BY <2>1, <2>3 DEF RowsLanded, Landed
  <2>5. \A i \in ValidRows(m) : i <= n => i <= n - 1 \/ i = n
    BY <1>1 DEF ValidRows
  <2>6. RowsLanded(Own(after[n]), m, n)
    BY <2>3, <2>4, <2>5 DEF RowsLanded
  <2> QED BY <1>1, <2>3, <2>6
<1> HIDE DEF N
<1>9. L \in N
  BY <1>1, <1>7, <1>8, UpTo
<1>10. Database(after[L]) /\ Traced(Own(after[L]), m) /\ RowsLanded(Own(after[L]), m, L)
  BY <1>9 DEF N
<1>11. \A i \in ValidRows(m) : \A x \in Primary(m[i]) \cup Support(m[i]) : Landed(Own(after[L]), Record(m[i]), x)
  BY <1>1, <1>10 DEF RowsLanded, ValidRows
<1> QED BY <1>2, <1>6, <1>10, <1>11, LastBatch

(* A reconciled rebuild is complete. *)

\* As many as there are indices, and each one's of an index: one for each.
LEMMA Pigeonhole ==
  ASSUME NEW S, IsFiniteSet(S), NEW f, f = [i \in S |-> f[i]],
         NEW O, O \subseteq {f[i] : i \in S}, Cardinality(O) = Cardinality(S)
  PROVE  /\ \A i \in S : f[i] \in O
         /\ \A i, j \in S : f[i] = f[j] => i = j
<1> DEFINE T == {f[i] : i \in S}
<1>1. f \in Surjection(S, T)
  BY DEF Surjection
<1>2. /\ IsFiniteSet(T) /\ Cardinality(T) <= Cardinality(S)
      /\ Cardinality(T) = Cardinality(S) <=> f \in Injection(S, T)
  BY <1>1, FS_Surjection
<1>3. /\ Cardinality(O) <= Cardinality(T)
      /\ Cardinality(T) = Cardinality(O) => T = O
  BY <1>2, FS_Subset
<1>4. Cardinality(S) \in Nat /\ Cardinality(T) \in Nat
  BY <1>2, FS_CardinalityType
<1>5. T = O /\ f \in Injection(S, T)
  BY <1>2, <1>3, <1>4
<1> QED BY <1>5 DEF Injection, IsInjective

\* Every row has its source record or its quarantine record.
Complete(o, m) ==
  \A i \in DOMAIN m :
    IF Valid(m[i]) THEN RecordRow(m[i]) \in o.records ELSE QuarantineRow(m[i]) \in o.quarantine

LEMMA ReconciledIsComplete ==
  ASSUME NEW m \in Materials, NEW d, Traced(Own(d), m), Reconciles(d, m)
  PROVE  Complete(Own(d), m)
<1> DEFINE valid == ValidRows(m)
           invalid == DOMAIN m \ ValidRows(m)
           record == [i \in valid |-> Record(m[i])]
           refused == [i \in invalid |-> QuarantineRow(m[i])]
           held == {q \in d["quarantine_records"] : q.snapshot \in Dataset}
<1>1. IsFiniteSet(DOMAIN m)
  BY MaterialAssumption, FS_Interval
<1>2. IsFiniteSet(valid) /\ IsFiniteSet(invalid)
  BY <1>1, FS_Subset DEF ValidRows
<1>3. ProvenanceCounts(d) = ExpectedProvenance[m]
  BY DEF Reconciles
<1>4. /\ Cardinality(OwnedRecords(d)) = Cardinality(valid)
      /\ Cardinality(held) = Cardinality(invalid)
  BY <1>3 DEF ProvenanceCounts, ExpectedProvenance
<1>5. ASSUME NEW s \in Own(d).records
      PROVE  \E i \in valid : s = RecordRow(m[i]) /\ s.id = Record(m[i])
  BY <1>5 DEF Traced, RecordRow
<1>6. \A x : x \in OwnedRecords(d) <=> \E s \in Own(d).records : x = s.id
  BY DEF OwnedRecords, Own
<1>7. OwnedRecords(d) \subseteq {record[i] : i \in valid}
  BY <1>5, <1>6
<1>8. /\ \A i \in valid : record[i] \in OwnedRecords(d)
      /\ \A i, j \in valid : record[i] = record[j] => i = j
  <2>1. record = [i \in valid |-> record[i]]
    OBVIOUS
  <2> HIDE DEF record, valid
  <2> QED BY <1>2, <1>4, <1>7, <2>1, Pigeonhole
<1>9. ASSUME NEW i \in valid
      PROVE  RecordRow(m[i]) \in Own(d).records
  <2>1. PICK s \in Own(d).records : s.id = Record(m[i])
    BY <1>6, <1>8
  <2>2. PICK j \in valid : s = RecordRow(m[j]) /\ s.id = Record(m[j])
    BY <1>5
  <2> QED BY <1>8, <2>1, <2>2
<1>10. held \subseteq {refused[i] : i \in invalid}
  BY DEF Traced, Own
<1>11. \A i \in invalid : refused[i] \in held
  <2>1. refused = [i \in invalid |-> refused[i]]
    OBVIOUS
  <2> HIDE DEF refused, invalid, held
  <2> QED BY <1>2, <1>4, <1>10, <2>1, Pigeonhole
<1>12. ASSUME NEW i \in invalid
       PROVE  QuarantineRow(m[i]) \in Own(d).quarantine
  BY <1>11 DEF Own
<1> QED BY <1>9, <1>12 DEF Complete, ValidRows

(* Two stores that look the same to it. *)

LEMMA SameCounts ==
  ASSUME NEW d, NEW e, View(d) = View(e)
  PROVE  EntityCounts(d) = EntityCounts(e)
<1>1. /\ d["financial_products"] = e["financial_products"] /\ d["bonds"] = e["bonds"] /\ d["funds"] = e["funds"]
      /\ d["fund_share_classes"] = e["fund_share_classes"] /\ d["sale_lots"] = e["sale_lots"]
      /\ d["exchange_traded_products"] = e["exchange_traded_products"]
      /\ d["identity_resolution_cases"] = e["identity_resolution_cases"]
  BY SameRows, WholeTables
<1>2. \A type : TypeCount(d, type) = TypeCount(e, type)
  BY <1>1 DEF TypeCount
<1> QED BY <1>1, <1>2 DEF EntityCounts, Tally

LEMMA SameProvenance ==
  ASSUME NEW d, NEW e, View(d) = View(e), Sound(d), Sound(e)
  PROVE  ProvenanceCounts(d) = ProvenanceCounts(e)
<1>1. \A row : row.snapshot \in Dataset => (row \in d["source_records"] <=> row \in e["source_records"])
  BY SameRows DEF Native, ReadTables
<1>2. OwnedRecords(d) = OwnedRecords(e)
  BY <1>1 DEF OwnedRecords
<1>3. \A id \in OwnedRecords(d) : id[1] = "record"
  BY DEF OwnedRecords, Sound
<1>4. \A row : row.record[1] = "record" => (row \in d["source_record_entities"] <=> row \in e["source_record_entities"])
  BY SameRows DEF Native, ReadTables
<1>5. \A role : LinksOf(d, role) = LinksOf(e, role)
  BY <1>2, <1>3, <1>4 DEF LinksOf
<1>6. d["quarantine_records"] = e["quarantine_records"]
  BY SameRows, WholeTables
<1> QED BY <1>2, <1>5, <1>6 DEF ProvenanceCounts

LEMMA SameEvidence ==
  ASSUME NEW d, NEW e, View(d) = View(e), NEW fact, SnapshotOf(fact) \in Dataset
  PROVE  EvidenceOf(d, fact) = EvidenceOf(e, fact)
<1>1. \A row : SnapshotOf(row.fact) \in Dataset => (row \in d["fact_evidence_links"] <=> row \in e["fact_evidence_links"])
  BY SameRows DEF Native, ReadTables
<1> QED BY <1>1 DEF EvidenceOf

LEMMA SameReturns ==
  ASSUME NEW d, NEW e, View(d) = View(e), NEW expected
  PROVE  ReturnsReconcile(d, expected) <=> ReturnsReconcile(e, expected)
<1>1. \A row : SnapshotOf(row.fact) \in Dataset => (row \in d["metric_observations"] <=> row \in e["metric_observations"])
  BY SameRows DEF Native, ReadTables
<1>2. OwnReturns(d) = OwnReturns(e)
  BY <1>1 DEF OwnReturns, Dataset
<1>3. \A m \in OwnReturns(d) : EvidenceOf(d, m.fact) = EvidenceOf(e, m.fact)
  BY SameEvidence DEF OwnReturns, Dataset
<1> QED BY <1>2, <1>3 DEF ReturnsReconcile

LEMMA SameGrains ==
  ASSUME NEW d, NEW e, View(d) = View(e), NEW id, Home(id)
  PROVE  /\ ProductType(d, id) = ProductType(e, id) /\ Kind(d, id) = Kind(e, id)
         /\ SubjectGrains(d, id) = SubjectGrains(e, id)
         /\ \A t : ObjectGrains(d, t, id) = ObjectGrains(e, t, id)
<1>1. d["financial_products"] = e["financial_products"]
  BY SameRows, WholeTables
<1>2. \A row : Home(row.id) => /\ row \in d["canonical_entities"] <=> row \in e["canonical_entities"]
                               /\ row \in d["organizations"] <=> row \in e["organizations"]
  BY SameRows DEF Native, ReadTables
<1>3. ProductType(d, id) = ProductType(e, id) /\ Kind(d, id) = Kind(e, id)
  BY <1>1, <1>2 DEF ProductType, Kind
<1>4. {x \in d["organizations"] : x.id = id} = {x \in e["organizations"] : x.id = id}
  BY <1>2
<1>5. SubjectGrains(d, id) = SubjectGrains(e, id)
  BY <1>3 DEF SubjectGrains, GrainTypes
<1>6. \A t : ObjectGrains(d, t, id) = ObjectGrains(e, t, id)
  BY <1>3, <1>4, Zenon DEF ObjectGrains
<1> QED BY <1>3, <1>5, <1>6

\* The relations of scopes are of the two kinds the reconciliation knows.
LEMMA ScopeRelationInDomain ==
  ASSUME NEW d, Sound(d), NEW x, ScopeRelation(d, x)
  PROVE  RelationInDomain(d, "entity_relations", x)
<1>1. \A id : \A k \in Kind(d, id) : k = KindOf(id)
  BY DEF Kind, Sound
<1>2. \A id : ProductType(d, id) \subseteq {"BOND", "ETF", "ETN", "FUND"}
  BY DEF ProductType, Sound
<1>3. \A id : ProductType(d, id) # {} => KindOf(id) = "FINANCIAL_PRODUCT"
  BY DEF ProductType, Sound
<1>4. \A id : ObjectGrains(d, "entity_relations", id) \subseteq {<<KindOf(id), "">>}
  BY <1>1 DEF ObjectGrains
<1>5. \A id : \A g \in SubjectGrains(d, id) : \E k \in Kind(d, id), t \in GrainTypes(d, id) : g = <<k, t>>
  BY DEF SubjectGrains
<1>6. CASE x.type = "HOLDS" /\ KindOf(x.object) = "SECURITY" /\ \E p \in d["financial_products"] : p.id = x.subject
  <2>1. ProductType(d, x.subject) # {}
    BY <1>6 DEF ProductType
  <2>2. SubjectGrains(d, x.subject) \subseteq ProductGrains
    <3> SUFFICES ASSUME NEW g \in SubjectGrains(d, x.subject)
                 PROVE  g \in ProductGrains
      OBVIOUS
    <3>1. PICK k \in Kind(d, x.subject), t \in GrainTypes(d, x.subject) : g = <<k, t>>
      BY <1>5
    <3>2. k = "FINANCIAL_PRODUCT"
      BY <1>1, <1>3, <2>1
    <3>3. t \in {"BOND", "ETF", "ETN", "FUND"}
      BY <1>2, <2>1, <3>1 DEF GrainTypes
    <3> QED BY <3>1, <3>2, <3>3 DEF ProductGrains
  <2>3. <<"HOLDS", ProductGrains, {<<"SECURITY", "">>}>> \in Contracts
    BY DEF Contracts
  <2> QED BY <1>4, <1>6, <2>2, <2>3 DEF RelationInDomain
<1>7. CASE x.type = "SECURITY_ISSUED_BY" /\ KindOf(x.subject) = "SECURITY" /\ KindOf(x.object) = "ORGANIZATION"
  <2>1. SubjectGrains(d, x.subject) \subseteq {<<"SECURITY", "">>}
    <3> SUFFICES ASSUME NEW g \in SubjectGrains(d, x.subject)
                 PROVE  g = <<"SECURITY", "">>
      OBVIOUS
    <3>1. PICK k \in Kind(d, x.subject), t \in GrainTypes(d, x.subject) : g = <<k, t>>
      BY <1>5
    <3>2. k = "SECURITY"
      BY <1>1, <1>7
    <3>3. ProductType(d, x.subject) = {}
      BY <1>3, <1>7
    <3> QED BY <3>1, <3>2, <3>3 DEF GrainTypes
  <2>2. <<"SECURITY_ISSUED_BY", {<<"SECURITY", "">>}, {<<"ORGANIZATION", "">>}>> \in Contracts
    BY DEF Contracts
  <2> QED BY <1>4, <1>7, <2>1, <2>2 DEF RelationInDomain
<1> QED BY <1>6, <1>7 DEF ScopeRelation

LEMMA SameDomains ==
  ASSUME NEW d, NEW e, View(d) = View(e), Sound(d), Sound(e), DomainsHold(e)
  PROVE  DomainsHold(d)
<1>1. ASSUME NEW t \in Kinds, NEW x \in d[t], x \in e[t], Home(x.subject), Home(x.object), SnapshotOf(x.fact) \in Dataset
      PROVE  RelationInDomain(d, t, x) /\ ~EtnIssuer(d, t, x)
  <2>1. RelationInDomain(e, t, x) /\ ~EtnIssuer(e, t, x)
    BY <1>1 DEF DomainsHold, Kinds
  <2>2. SubjectGrains(d, x.subject) = SubjectGrains(e, x.subject) /\ ObjectGrains(d, t, x.object) = ObjectGrains(e, t, x.object)
        /\ ProductType(d, x.subject) = ProductType(e, x.subject)
    BY <1>1, SameGrains
  <2>3. EvidenceOf(d, x.fact) = EvidenceOf(e, x.fact)
    BY <1>1, SameEvidence
  <2> QED BY <2>1, <2>2, <2>3 DEF RelationInDomain, EtnIssuer
<1>2. ASSUME NEW t \in {"organization_relations", "index_relations"}, NEW x \in d[t]
      PROVE  RelationInDomain(d, t, x) /\ ~EtnIssuer(d, t, x)
  <2>1. d[t] = e[t]
    BY SameRows, WholeTables
  <2>2. Home(x.subject) /\ Home(x.object) /\ SnapshotOf(x.fact) \in Dataset
    BY DEF Sound
  <2> QED BY <1>1, <2>1, <2>2 DEF Kinds
<1>3. ASSUME NEW x \in d["entity_relations"]
      PROVE  RelationInDomain(d, "entity_relations", x) /\ ~EtnIssuer(d, "entity_relations", x)
  <2>1. CASE SnapshotOf(x.fact) \in Dataset
    <3>1. x \in e["entity_relations"]
      BY <2>1, SameRows DEF Native, ReadTables
    <3>2. Home(x.subject) /\ Home(x.object)
      BY <2>1 DEF Sound
    <3> QED BY <1>1, <2>1, <3>1, <3>2 DEF Kinds
  <2>2. CASE SnapshotOf(x.fact) \notin Dataset
    <3>1. ScopeRelation(d, x)
      BY <2>2 DEF Sound
    <3> QED BY <3>1, ScopeRelationInDomain DEF EtnIssuer
  <2> QED BY <2>1, <2>2
<1>4. ASSUME NEW c \in d["entity_classifications"]
      PROVE  /\ SubjectGrains(d, c.entity) \subseteq ClassificationContracts[c.type]
             /\ \A o \in d["ontology_concepts"] : o.id = c.concept => o.category = c.type
  <2>1. d["entity_classifications"] = e["entity_classifications"] /\ d["ontology_concepts"] = e["ontology_concepts"]
    BY SameRows, WholeTables
  <2>2. SubjectGrains(d, c.entity) = SubjectGrains(e, c.entity)
    BY SameGrains DEF Sound
  <2> QED BY <2>1, <2>2 DEF DomainsHold
<1> QED BY <1>2, <1>3, <1>4 DEF DomainsHold

\* A store reconciles if one does of which the reconciliation sees the same.
LEMMA SameReconciles ==
  ASSUME NEW d, NEW e, NEW m, View(d) = View(e), Sound(d), Sound(e), Reconciles(e, m)
  PROVE  Reconciles(d, m)
<1>1. EntityCounts(d) = ExpectedEntities[m] /\ ProvenanceCounts(d) = ExpectedProvenance[m]
  BY SameCounts, SameProvenance DEF Reconciles
<1>2. ReturnsReconcile(d, ExpectedReturns[m])
  BY SameReturns DEF Reconciles
<1>3. ~Parentless(d)
  BY SameRows, WholeTables DEF Reconciles, Parentless
<1>4. ~EvidenceFree(d)
  <2> SUFFICES ASSUME NEW f \in d["canonical_facts"], f.status = "RESOLVED", EvidenceOf(d, f.id) = {}
               PROVE  FALSE
    BY DEF EvidenceFree
  <2>1. SnapshotOf(f.id) \in Dataset
    BY DEF Sound
  <2>2. f \in e["canonical_facts"]
    BY <2>1, SameRows DEF Native, ReadTables
  <2> QED BY <2>1, <2>2, SameEvidence DEF Reconciles, EvidenceFree
<1>5. DomainsHold(d)
  BY SameDomains DEF Reconciles
<1> QED BY <1>1, <1>2, <1>3, <1>4, <1>5 DEF Reconciles

(* What a batch does to what the reconciliation sees. *)

Paired(s) == s.snapshot \in Dataset <=> s.id[1] = "record"

\* Two rows that clash are both the workbooks', or neither is.
LEMMA NativeClash ==
  ASSUME NEW t \in ReadTables, NEW row, NEW old, Clash(t, row, old),
         t = "source_records" => Paired(row) /\ Paired(old)
  PROVE  Native(t, row) <=> Native(t, old)
<1>1. CASE t = "source_records"
  <2>1. PICK columns \in {{"id"}, {"snapshot", "key"}, {"snapshot", "n"}} : \A c \in columns : row[c] = old[c]
    BY <1>1, KeysOfRead DEF Clash, PartialKeys
  <2>2. "id" \in columns \/ "snapshot" \in columns
    BY <2>1
  <2>3. row.id = old.id \/ row.snapshot = old.snapshot
    BY <2>1, <2>2
  <2> QED BY <1>1, <2>3 DEF Native, Paired
<1>2. CASE t = "source_record_entities"
  <2>1. PICK columns \in {{"record", "entity"}, {"record"}} : \A c \in columns : row[c] = old[c]
    BY <1>2, KeysOfOwn DEF Clash, PartialKeys
  <2>2. row.record = old.record
    BY <2>1
  <2> QED BY <1>2, <2>2 DEF Native
<1>3. CASE t \in {"canonical_entities", "organizations", "canonical_facts"}
  <2>1. row.id = old.id
    BY <1>3, KeysOfRead, KeysOfOwn DEF Clash, PartialKeys
  <2> QED BY <1>3, <2>1 DEF Native
<1>4. CASE t \in {"fact_evidence_links", "entity_relations", "metric_observations"}
  <2>1. row.fact = old.fact
    BY <1>4, KeysOfRead, KeysOfOwn DEF Clash, PartialKeys
  <2> QED BY <1>4, <2>1 DEF Native
<1> QED BY <1>1, <1>2, <1>3, <1>4 DEF Native

Step(v, W) ==
  [t \in ReadTables |->
     IF t = "metric_observations" THEN Fresh(t, RowsFor(W, t), v[t]) \cup RowsFor(W, t)
     ELSE v[t] \cup Fresh(t, v[t], RowsFor(W, t))]

\* A row the rebuild writes is seen, and of the kind its identifier says.
RowFits(t, row) ==
  /\ t \in ReadTables => Native(t, row)
  /\ t = "source_records" => Paired(row)
  /\ t = "canonical_entities" => row.kind = KindOf(row.id)
  /\ t = "financial_products" => KindOf(row.id) = "FINANCIAL_PRODUCT" /\ row.type \in {"BOND", "ETF", "ETN", "FUND"}
  /\ t \in Kinds => SnapshotOf(row.fact) \in Dataset /\ Home(row.subject) /\ Home(row.object)
  /\ t = "entity_classifications" => Home(row.entity)
  /\ t = "entity_identifiers" => row.scheme # "PROVIDER_ORGANIZATION_ID" /\ KindOf(row.entity) # "SECURITY"
  /\ t \notin {"securities", "dataset_snapshots", "external_security_issuer_records"}
NativeWrite(w) == RowFits(w[1], w[2])

\* What is added clashes with nothing hidden.
LEMMA FreshAsSeen ==
  ASSUME NEW t \in ReadTables, NEW old, NEW rows, \A row \in rows : RowFits(t, row),
         t = "source_records" => \A row \in old : Paired(row)
  PROVE  Fresh(t, old, rows) = Fresh(t, {row \in old : Native(t, row)}, rows)
<1> DEFINE seen == {row \in old : Native(t, row)}
<1>1. ASSUME NEW row \in rows, Taken(t, row) \cap TakenBy(t, seen) = {}
      PROVE  Taken(t, row) \cap TakenBy(t, old) = {}
  <2> SUFFICES ASSUME NEW other \in old, Taken(t, row) \cap Taken(t, other) # {}
               PROVE  FALSE
    BY DEF TakenBy
  <2>1. Clash(t, row, other)
    BY TakenClash
  <2>2. Native(t, row) /\ (t = "source_records" => Paired(row))
    BY DEF RowFits
  <2>3. Native(t, other)
    BY <2>1, <2>2, NativeClash
  <2> QED BY <1>1, <2>3 DEF TakenBy
<1>2. TakenBy(t, seen) \subseteq TakenBy(t, old)
  BY DEF TakenBy
<1> HIDE DEF seen
<1>3. Fresh(t, old, rows) = Fresh(t, seen, rows)
  BY <1>1, <1>2 DEF Fresh
<1> QED BY <1>3 DEF seen

\* The tables after a batch.
LEMMA UpdateFacts ==
  ASSUME NEW d, Database(d), NEW W
  PROVE  LET e == InsertOrUpdate(d, W)
         IN /\ Database(e)
            /\ \A t \in DOMAIN d \ {"metric_observations"} : e[t] = d[t] \cup Fresh(t, d[t], RowsFor(W, t))
            /\ e["metric_observations"]
                 = Fresh("metric_observations", RowsFor(W, "metric_observations"), d["metric_observations"])
                   \cup RowsFor(W, "metric_observations")
<1> DEFINE M == "metric_observations"
           rows == RowsFor(W, M)
           c == Replace(d, M, rows)
           e == Insert(c, W)
<1>1. M \in DOMAIN d
  BY KeysOfRead DEF Database, ReadTables
<1>2. DOMAIN c = DOMAIN d /\ c[M] = Fresh(M, rows, d[M]) \cup rows /\ \A t \in DOMAIN d \ {M} : c[t] = d[t]
  BY <1>1 DEF Replace
<1>3. DOMAIN e = DOMAIN c /\ \A t \in DOMAIN c : e[t] = c[t] \cup Fresh(t, c[t], RowsFor(W, t))
  BY DEF Insert
<1>4. Fresh(M, c[M], rows) \subseteq rows
  BY DEF Fresh
<1>5. InsertOrUpdate(d, W) = e
  BY DEF InsertOrUpdate
<1> HIDE DEF c, e, rows
<1>6. e[M] = Fresh(M, rows, d[M]) \cup rows
  BY <1>1, <1>2, <1>3, <1>4 DEF rows
<1>7. \A t \in DOMAIN d \ {M} : e[t] = d[t] \cup Fresh(t, d[t], RowsFor(W, t))
  BY <1>2, <1>3
<1>8. Database(e)
  BY <1>2, <1>3 DEF Database
<1> QED BY <1>5, <1>6, <1>7, <1>8 DEF rows

LEMMA ViewStep ==
  ASSUME NEW d, Database(d), Sound(d), NEW W, \A w \in W : NativeWrite(w)
  PROVE  View(InsertOrUpdate(d, W)) = Step(View(d), W)
<1> DEFINE e == InsertOrUpdate(d, W)
<1>1. /\ \A t \in DOMAIN d \ {"metric_observations"} : e[t] = d[t] \cup Fresh(t, d[t], RowsFor(W, t))
      /\ e["metric_observations"]
           = Fresh("metric_observations", RowsFor(W, "metric_observations"), d["metric_observations"])
             \cup RowsFor(W, "metric_observations")
  BY UpdateFacts
<1>2. \A t \in ReadTables : t \in DOMAIN d
  BY KeysOfRead DEF Database
<1>3. \A t : \A row \in RowsFor(W, t) : RowFits(t, row)
  BY RowIsWrite DEF NativeWrite
<1> HIDE DEF e
<1>4. ASSUME NEW t \in ReadTables \ {"metric_observations"}
      PROVE  View(e)[t] = Step(View(d), W)[t]
  <2>1. View(e)[t] = {row \in e[t] : Native(t, row)} /\ View(d)[t] = {row \in d[t] : Native(t, row)}
    BY DEF View
  <2>2. e[t] = d[t] \cup Fresh(t, d[t], RowsFor(W, t))
    BY <1>1, <1>2
  <2>3. t = "source_records" => \A row \in d[t] : Paired(row)
    BY DEF Sound, Paired
  <2>4. Fresh(t, d[t], RowsFor(W, t)) = Fresh(t, View(d)[t], RowsFor(W, t))
    BY <1>3, <2>1, <2>3, FreshAsSeen
  <2>5. \A row \in Fresh(t, d[t], RowsFor(W, t)) : Native(t, row)
    BY <1>3 DEF Fresh, RowFits
  <2>6. Step(View(d), W)[t] = View(d)[t] \cup Fresh(t, View(d)[t], RowsFor(W, t))
    BY DEF Step
  <2> QED BY <2>1, <2>2, <2>4, <2>5, <2>6
<1>5. ASSUME NEW t, t = "metric_observations"
      PROVE  View(e)[t] = Step(View(d), W)[t]
  <2>1. t \in ReadTables
    BY <1>5 DEF ReadTables
  <2>2. View(e)[t] = {row \in e[t] : Native(t, row)} /\ View(d)[t] = {row \in d[t] : Native(t, row)}
    BY <2>1 DEF View
  <2>3. e[t] = Fresh(t, RowsFor(W, t), d[t]) \cup RowsFor(W, t)
    BY <1>1, <1>5
  <2>4. \A row \in RowsFor(W, t) : Native(t, row)
    BY <1>3, <2>1 DEF RowFits
  <2>5. Fresh(t, RowsFor(W, t), {row \in d[t] : Native(t, row)})
          = {row \in Fresh(t, RowsFor(W, t), d[t]) : Native(t, row)}
    BY DEF Fresh
  <2>6. Step(View(d), W)[t] = Fresh(t, RowsFor(W, t), View(d)[t]) \cup RowsFor(W, t)
    BY <1>5, <2>1 DEF Step
  <2> QED BY <2>2, <2>3, <2>4, <2>5, <2>6
<1>6. View(e) = [t \in ReadTables |-> View(e)[t]] /\ Step(View(d), W) = [t \in ReadTables |-> Step(View(d), W)[t]]
  BY DEF View, Step
<1>7. \A t \in ReadTables : View(e)[t] = Step(View(d), W)[t]
  BY <1>4, <1>5
<1> QED BY <1>6, <1>7 DEF e

LEMMA SoundStep ==
  ASSUME NEW d, Database(d), Sound(d), NEW W, \A w \in W : NativeWrite(w)
  PROVE  Sound(InsertOrUpdate(d, W))
<1> DEFINE e == InsertOrUpdate(d, W)
<1>1. \A t \in DOMAIN d \ {"metric_observations"} : e[t] = d[t] \cup Fresh(t, d[t], RowsFor(W, t))
  BY UpdateFacts
<1>2. \A t \in ReadTables : t \in DOMAIN d
  BY KeysOfRead DEF Database
<1>3. \A t : \A row \in RowsFor(W, t) : RowFits(t, row)
  BY RowIsWrite DEF NativeWrite
<1> HIDE DEF e
<1>4. \A t \in ReadTables \ {"metric_observations"} :
        /\ d[t] \subseteq e[t]
        /\ \A row \in e[t] : row \in d[t] \/ RowFits(t, row)
  BY <1>1, <1>2, <1>3 DEF Fresh
<1>5. \A s \in e["source_records"] : s.snapshot \in Dataset <=> s.id[1] = "record"
  BY <1>4 DEF Sound, RowFits, Paired, ReadTables
<1>6. \A x \in e["canonical_entities"] : x.kind = KindOf(x.id)
  BY <1>4 DEF Sound, RowFits, ReadTables
<1>7. \A p \in e["financial_products"] :
        KindOf(p.id) = "FINANCIAL_PRODUCT" /\ p.type \in {"BOND", "ETF", "ETN", "FUND"}
  BY <1>4 DEF Sound, RowFits, ReadTables
<1>8. d["fact_evidence_links"] \subseteq e["fact_evidence_links"]
      /\ d["financial_products"] \subseteq e["financial_products"]
  BY <1>4 DEF ReadTables
<1>9. \A f \in e["canonical_facts"] : SnapshotOf(f.id) \in Dataset \/ EvidenceOf(e, f.id) # {}
  <2>1. \A fact : EvidenceOf(d, fact) \subseteq EvidenceOf(e, fact)
    BY <1>8 DEF EvidenceOf
  <2> QED BY <1>4, <2>1 DEF Sound, RowFits, ReadTables, Native
<1>10. \A x \in e["entity_relations"] :
         IF SnapshotOf(x.fact) \in Dataset THEN Home(x.subject) /\ Home(x.object) ELSE ScopeRelation(e, x)
  <2>1. \A x : ScopeRelation(d, x) => ScopeRelation(e, x)
    BY <1>8 DEF ScopeRelation
  <2> QED BY <1>4, <2>1 DEF Sound, RowFits, ReadTables, Kinds
<1>11. \A x \in e["organization_relations"] \cup e["index_relations"] :
         SnapshotOf(x.fact) \in Dataset /\ Home(x.subject) /\ Home(x.object)
  BY <1>4 DEF Sound, RowFits, ReadTables, Kinds
<1>12. \A c \in e["entity_classifications"] : Home(c.entity)
  BY <1>4 DEF Sound, RowFits, ReadTables
<1>13. Sound(e)
  BY <1>5, <1>6, <1>7, <1>9, <1>10, <1>11, <1>12 DEF Sound
<1> QED BY <1>13 DEF e

(* What a rebuild does to it. *)

\* What is seen after each batch.
ViewRun(v, m) == \A n \in 1..(Len(m) + 1) : v[n] = Step(v[n - 1], Batches[m][n])

LEMMA RebuildViews ==
  ASSUME NEW m \in Materials, NEW d, Database(d), Sound(d),
         \A n \in 1..(Len(m) + 1) : \A w \in Batches[m][n] : NativeWrite(w)
  PROVE  /\ Database(WrittenTo(d, m)) /\ Sound(WrittenTo(d, m))
         /\ \E v : v[0] = View(d) /\ ViewRun(v, m) /\ v[Len(m) + 1] = View(WrittenTo(d, m))
<1> DEFINE L == Len(m) + 1
           after == CHOOSE f : RebuildRun(f, d, m, L)
<1>1. L \in Nat
  BY MaterialAssumption
<1>2. WrittenTo(d, m) = after[L]
  BY DEF WrittenTo, RebuildRun
<1>3. RebuildRun(after, d, m, L)
  BY <1>1, RebuildRuns
<1>4. \A n \in 1..L : \A w \in Batches[m][n] : NativeWrite(w)
  OBVIOUS
<1> HIDE DEF after, L
<1>5. after[0] = d /\ \A n \in 1..L : after[n] = InsertOrUpdate(after[n - 1], Batches[m][n])
  BY <1>1, <1>3 DEF RebuildRun
<1> DEFINE N == {n \in 0..L : Database(after[n]) /\ Sound(after[n])}
<1>6. 0 \in N
  BY <1>1, <1>5
<1>7. ASSUME NEW n \in 1..L, n - 1 \in N
      PROVE  n \in N
  BY <1>1, <1>4, <1>5, <1>7, UpdateFacts, SoundStep
<1> HIDE DEF N
<1>8. \A n \in 0..L : n \in N
  BY <1>1, <1>6, <1>7, UpTo
<1> DEFINE v == [n \in 0..L |-> View(after[n])]
<1>9. \A n \in 1..L : v[n] = Step(v[n - 1], Batches[m][n])
  <2> SUFFICES ASSUME NEW n \in 1..L
               PROVE  v[n] = Step(v[n - 1], Batches[m][n])
    OBVIOUS
  <2>1. n \in 0..L /\ n - 1 \in 0..L
    BY <1>1
  <2>2. Database(after[n - 1]) /\ Sound(after[n - 1])
    BY <1>8, <2>1 DEF N
  <2>3. View(after[n]) = Step(View(after[n - 1]), Batches[m][n])
    BY <1>4, <1>5, <2>2, ViewStep
  <2> QED BY <2>1, <2>3
<1>10. v[0] = View(d) /\ v[L] = View(WrittenTo(d, m))
  BY <1>1, <1>2, <1>5
<1> HIDE DEF v
<1>11. ViewRun(v, m)
  BY <1>9 DEF ViewRun, L
<1>12. Database(after[L]) /\ Sound(after[L])
  BY <1>1, <1>8 DEF N
<1> QED BY <1>2, <1>10, <1>11, <1>12 DEF L

\* From the same start to the same end.
LEMMA SameRun ==
  ASSUME NEW m \in Materials, NEW v, NEW u, ViewRun(v, m), ViewRun(u, m), v[0] = u[0]
  PROVE  v[Len(m) + 1] = u[Len(m) + 1]
<1> DEFINE L == Len(m) + 1
           N == {n \in 0..L : v[n] = u[n]}
<1>1. L \in Nat
  BY MaterialAssumption
<1>2. 0 \in N
  BY <1>1
<1>3. ASSUME NEW n \in 1..L, n - 1 \in N
      PROVE  n \in N
  BY <1>1, <1>3 DEF ViewRun
<1> HIDE DEF N
<1>4. \A n \in 0..L : n \in N
  BY <1>1, <1>2, <1>3, UpTo
<1> QED BY <1>1, <1>4 DEF N

\* From the end of a rebuild of an empty store to the same end again: of the
\* rows the batches write, each is stored or refused as it was before, and of the
\* observations the last of each fact remains.
LEMMA RunAgain ==
  ASSUME NEW m \in Materials, NEW v, NEW u, ViewRun(v, m), ViewRun(u, m),
         v[0] = View(Empty), u[0] = v[Len(m) + 1]
  PROVE  u[Len(m) + 1] = v[Len(m) + 1]
<1> DEFINE L == Len(m) + 1
           M == "metric_observations"
           Inserts == ReadTables \ {M}
<1>1. L \in Nat /\ M \in ReadTables
  BY MaterialAssumption DEF ReadTables
<1>2. \A n \in 1..L : v[n] = Step(v[n - 1], Batches[m][n]) /\ u[n] = Step(u[n - 1], Batches[m][n])
  BY DEF ViewRun
<1>3. u[0] = v[L]
  OBVIOUS
<1> HIDE DEF L, M
<1>4. ASSUME NEW n \in 1..L, NEW t \in Inserts
      PROVE  /\ v[n][t] = v[n - 1][t] \cup Fresh(t, v[n - 1][t], RowsFor(Batches[m][n], t))
             /\ u[n][t] = u[n - 1][t] \cup Fresh(t, u[n - 1][t], RowsFor(Batches[m][n], t))
  BY <1>2 DEF Step, M
<1>5. ASSUME NEW n \in 1..L
      PROVE  /\ v[n][M] = Fresh(M, RowsFor(Batches[m][n], M), v[n - 1][M]) \cup RowsFor(Batches[m][n], M)
             /\ u[n][M] = Fresh(M, RowsFor(Batches[m][n], M), u[n - 1][M]) \cup RowsFor(Batches[m][n], M)
  BY <1>1, <1>2 DEF Step, M
<1> DEFINE G == {n \in 0..L : \A k \in 0..n : \A t \in Inserts : v[k][t] \subseteq v[n][t]}
<1>6. 0 \in G
  BY <1>1
<1>7. ASSUME NEW n \in 1..L, n - 1 \in G
      PROVE  n \in G
  <2>1. \A t \in Inserts : v[n - 1][t] \subseteq v[n][t]
    BY <1>4
  <2>2. \A k \in 0..n : k \in 0..(n - 1) \/ k = n
    BY <1>1
  <2> QED BY <1>1, <1>7, <2>1, <2>2
<1> HIDE DEF G
<1>8. \A n \in 0..L : n \in G
  BY <1>1, <1>6, <1>7, UpTo
<1>9. \A n \in 0..L : \A t \in Inserts : v[n][t] \subseteq v[L][t]
  BY <1>1, <1>8 DEF G
<1> DEFINE N == {n \in 0..L : /\ \A t \in Inserts : u[n][t] = v[L][t]
                              /\ v[n][M] \subseteq u[n][M] /\ u[n][M] \subseteq v[n][M] \cup v[L][M]}
<1>10. 0 \in N
  <2>1. v[0][M] = {}
    <3>1. Empty[M] = {}
      BY KeysOfRead, <1>1 DEF Empty
    <3> QED BY <1>1, <3>1 DEF View
  <2> QED BY <1>1, <1>3, <2>1
<1>11. ASSUME NEW n \in 1..L, n - 1 \in N
       PROVE  n \in N
  <2>1. n \in 0..L /\ n - 1 \in 0..L
    BY <1>1
  <2>2. ASSUME NEW t \in Inserts
        PROVE  u[n][t] = v[L][t]
    <3> DEFINE R == RowsFor(Batches[m][n], t)
    <3>1. u[n - 1][t] = v[L][t]
      BY <1>11
    <3>2. v[n - 1][t] \subseteq v[L][t] /\ v[n][t] \subseteq v[L][t]
      BY <1>9, <2>1
    <3>3. TakenBy(t, v[n - 1][t]) \subseteq TakenBy(t, v[L][t])
      BY <3>2 DEF TakenBy
    <3>4. Fresh(t, v[L][t], R) \subseteq Fresh(t, v[n - 1][t], R)
      BY <3>3 DEF Fresh
    <3>5. /\ v[n][t] = v[n - 1][t] \cup Fresh(t, v[n - 1][t], R)
          /\ u[n][t] = u[n - 1][t] \cup Fresh(t, u[n - 1][t], R)
      BY <1>4
    <3> HIDE DEF R
    <3>6. Fresh(t, v[n - 1][t], R) \subseteq v[L][t]
      BY <3>2, <3>5
    <3> QED BY <3>1, <3>4, <3>5, <3>6
  <2>3. ASSUME NEW R, NEW A, NEW B, A \subseteq B
        PROVE  Fresh(M, R, A) \subseteq Fresh(M, R, B)
    BY <2>3 DEF Fresh
  <2>4. ASSUME NEW R, NEW A, NEW B
        PROVE  Fresh(M, R, A \cup B) \subseteq Fresh(M, R, A) \cup B
    BY DEF Fresh
  <2>5. v[n - 1][M] \subseteq u[n - 1][M] /\ u[n - 1][M] \subseteq v[n - 1][M] \cup v[L][M]
    BY <1>11
  <2>6. v[n][M] \subseteq u[n][M]
    BY <1>5, <2>3, <2>5
  <2>7. u[n][M] \subseteq v[n][M] \cup v[L][M]
    <3> DEFINE R == RowsFor(Batches[m][n], M)
    <3>1. Fresh(M, R, u[n - 1][M]) \subseteq Fresh(M, R, v[n - 1][M] \cup v[L][M])
      BY <2>3, <2>5
    <3>2. Fresh(M, R, u[n - 1][M]) \subseteq Fresh(M, R, v[n - 1][M]) \cup v[L][M]
      BY <3>1, <2>4
    <3> HIDE DEF R
    <3> QED BY <1>5, <3>2 DEF R
  <2> QED BY <2>1, <2>2, <2>6, <2>7
<1> HIDE DEF N
<1>12. \A n \in 0..L : n \in N
  BY <1>1, <1>10, <1>11, UpTo
<1>13. \A t \in ReadTables : u[L][t] = v[L][t]
  <2>1. L \in 0..L
    BY <1>1
  <2>2. \A t \in Inserts : u[L][t] = v[L][t]
    BY <1>12, <2>1 DEF N
  <2>3. u[L][M] = v[L][M]
    BY <1>12, <2>1 DEF N
  <2> QED BY <2>2, <2>3
<1>14. CASE L = 0
  BY <1>3, <1>14 DEF L
<1>15. CASE L # 0
  <2>1. L \in 1..L
    BY <1>1, <1>15
  <2>2. u[L] = [t \in ReadTables |-> u[L][t]] /\ v[L] = [t \in ReadTables |-> v[L][t]]
    BY <1>2, <2>1 DEF Step
  <2> QED BY <1>13, <2>2 DEF L
<1> QED BY <1>14, <1>15

(* The writes of the rebuild are seen and fit. *)

LEMMA OtherFits ==
  /\ \A w : w[1] \notin {"source_records", "source_record_entities", "canonical_entities", "organizations",
                         "canonical_facts", "fact_evidence_links", "metric_observations", "financial_products",
                         "entity_classifications", "entity_identifiers", "securities", "dataset_snapshots",
                         "external_security_issuer_records"} \cup Kinds
              => NativeWrite(w)
  /\ \A t, row : t \in {"quarantine_records", "ontology_concepts", "bonds", "exchange_traded_products", "funds",
                        "fund_share_classes", "sale_lots", "identity_resolution_cases", "indices",
                        "canonical_scalar_facts", "source_classification_values", "source_field_assertions",
                        "entity_aliases"}
                   => NativeWrite(<<t, row>>)
<1>1. \A w : w[1] \notin {"source_records", "source_record_entities", "canonical_entities", "organizations",
                         "canonical_facts", "fact_evidence_links", "metric_observations", "financial_products",
                         "entity_classifications", "entity_identifiers", "securities", "dataset_snapshots",
                         "external_security_issuer_records"} \cup Kinds
               => NativeWrite(w)
  BY DEF NativeWrite, RowFits, Native, Kinds
<1>2. \A t, row : <<t, row>>[1] = t
  OBVIOUS
<1> QED BY <1>1, <1>2 DEF Kinds

LEMMA EvidencedFits ==
  ASSUME NEW fact, SnapshotOf(fact) \in Dataset, NEW status, NEW evidence, NEW role
  PROVE  \A w \in Evidenced(fact, status, evidence, role) : NativeWrite(w)
<1>1. NativeWrite(FactRow(fact, status))
  BY DEF NativeWrite, RowFits, Native, Kinds, FactRow
<1>2. \A e : NativeWrite(EvidenceRow(fact, e, role))
  BY DEF NativeWrite, RowFits, Native, Kinds, EvidenceRow
<1> QED BY <1>1, <1>2 DEF Evidenced

LEMMA EntityRowFits ==
  ASSUME NEW id, Home(id), NEW name
  PROVE  NativeWrite(EntityRow(id, KindOf(id), name))
BY DEF NativeWrite, RowFits, Native, Kinds, EntityRow

\* What rows describe and support, and what it is.
LEMMA SubjectHome ==
  ASSUME NEW r, r.ds \in Dataset
  PROVE  /\ \A s \in Primary(r) \cup Support(r) : Home(s)
         /\ Home(ProductId(r))
         /\ \A s \in Family(r) : Home(s) /\ KindOf(s) = "FINANCIAL_PRODUCT"
         /\ r.ds # Fund => KindOf(ProductId(r)) = "FINANCIAL_PRODUCT"
         /\ r.ds = Fund => KindOf(ProductId(r)) = "FUND_SHARE_CLASS"
         /\ r.ds = Bond => \A s \in Primary(r) : KindOf(s) = "SALE_LOT"
<1>1. ProductId(r)[1] = r.ds
  BY DEF ProductId
<1>2. LotId(r)[1] = "sale_lot"
  BY DEF LotId
<1>3. \A s \in Family(r) : s[1] = "fund_family"
  BY DEF Family
<1>4. \A s \in Primary(r) \cup Support(r) : s \in {ProductId(r), LotId(r)} \cup Family(r)
  BY DEF Primary, Support
<1>5. r.ds = Bond => \A s \in Primary(r) : s = LotId(r)
  BY DEF Primary, Etp, Bond, Domestic, Foreign
<1> QED BY <1>1, <1>2, <1>3, <1>4, <1>5 DEF Home, KindOf, Dataset, Bond, Domestic, Foreign, Fund

LEMMA ScalarFits ==
  ASSUME NEW r, r.ds \in Dataset, NEW key, NEW values, NEW evidence, NEW role
  PROVE  \A w \in Scalar(r, key, values, evidence, role) : NativeWrite(w)
<1> SUFFICES ASSUME NEW w \in Scalar(r, key, values, evidence, role)
             PROVE  NativeWrite(w)
  OBVIOUS
<1>1. PICK s \in Subject(r), v \in values :
        w \in Evidenced(FactId(s, r.ds, "SCALAR", <<key>>), "RESOLVED", evidence, role)
              \cup {<<"canonical_scalar_facts",
                      [fact |-> FactId(s, r.ds, "SCALAR", <<key>>), value |-> <<key, v>>]>>}
  BY DEF Scalar
<1>2. SnapshotOf(FactId(s, r.ds, "SCALAR", <<key>>)) \in Dataset
  BY FactShape
<1> QED BY <1>1, <1>2, EvidencedFits, OtherFits

LEMMA ScalarsFit ==
  ASSUME NEW r, r.ds \in Dataset, NEW audit
  PROVE  \A w \in Scalars(r, audit) : NativeWrite(w)
<1>1. \A key, values, column : \A w \in Stated(r, key, values, column) : NativeWrite(w)
  BY ScalarFits DEF Stated
<1>2. \A key, values, columns : \A w \in Derived(r, key, values, columns) : NativeWrite(w)
  BY ScalarFits DEF Derived
<1>3. \A w \in EtpScalars(r, audit) : NativeWrite(w)
  BY <1>1, <1>2 DEF EtpScalars
<1>4. \A key, column, values : \A w \in AgreedScalar(r, audit, key, column, values) : NativeWrite(w)
  BY <1>1 DEF AgreedScalar
<1>5. CASE r.ds = Bond
  BY <1>1, <1>4, <1>5 DEF Scalars, Bond, Fund
<1>6. CASE r.ds = Fund
  BY <1>1, <1>6 DEF Scalars, Bond, Fund
<1>7. CASE r.ds # Bond /\ r.ds # Fund
  BY <1>1, <1>3, <1>7 DEF Scalars
<1> QED BY <1>5, <1>6, <1>7

LEMMA ProductFits ==
  ASSUME NEW id, Home(id), KindOf(id) = "FINANCIAL_PRODUCT", NEW type \in {"BOND", "ETF", "ETN", "FUND"}, NEW name
  PROVE  \A w \in Product(id, type, name) : NativeWrite(w)
<1>1. NativeWrite(EntityRow(id, "FINANCIAL_PRODUCT", name))
  BY EntityRowFits
<1>2. NativeWrite(<<"financial_products", [id |-> id, type |-> type]>>)
  BY DEF NativeWrite, RowFits, Native, Kinds
<1> QED BY <1>1, <1>2 DEF Product

LEMMA EntitiesFit ==
  ASSUME NEW r, r.ds \in Dataset, Valid(r), NEW audit
  PROVE  \A w \in Entities(r, audit) : NativeWrite(w)
<1>1. \A row : /\ NativeWrite(<<"bonds", row>>) /\ NativeWrite(<<"sale_lots", row>>)
               /\ NativeWrite(<<"exchange_traded_products", row>>)
               /\ NativeWrite(<<"funds", row>>) /\ NativeWrite(<<"fund_share_classes", row>>)
  BY OtherFits
<1>2. CASE r.ds = Bond
  <2> DEFINE id == ProductId(r)
             bond == [id |-> id, issued |-> Agreed(audit, id, "isu_dt", Date(r, "isu_dt")),
                      matures |-> Agreed(audit, id, "mat_dt", Date(r, "mat_dt"))]
             lotRow(lot) == [id |-> lot, bond |-> id, market |-> SourceKey(r)[2],
                             date |-> OrToday(Date(r, "info_base_dt")),
                             sequence |-> Number(r, "info_seq")]
             lots == UNION {{EntityRow(lot, "SALE_LOT", ""), <<"sale_lots", lotRow(lot)>>} : lot \in Primary(r)}
  <2>1. Entities(r, audit) = Product(id, "BOND", IF Disputed(audit, id, "pd_nm") THEN "" ELSE Cell(r, "pd_nm"))
                               \cup {<<"bonds", bond>>} \cup lots
    BY <1>2 DEF Entities, Etp, Bond, Domestic, Foreign
  <2>2. ASSUME NEW w \in lots PROVE NativeWrite(w)
    <3> HIDE DEF lotRow
    <3>1. PICK lot \in Primary(r) : w = EntityRow(lot, "SALE_LOT", "") \/ w = <<"sale_lots", lotRow(lot)>>
      BY <2>2
    <3>2. NativeWrite(EntityRow(lot, "SALE_LOT", ""))
      BY <1>2, SubjectHome, EntityRowFits
    <3> QED BY <1>1, <3>1, <3>2
  <2>3. Home(id) /\ KindOf(id) = "FINANCIAL_PRODUCT"
    BY <1>2, SubjectHome DEF Bond, Fund
  <2> HIDE DEF id, bond, lots
  <2> QED BY <1>1, <2>1, <2>2, <2>3, ProductFits
<1>3. CASE r.ds \in Etp
  <2>1. Cell(r, "pd_grp_no") \in {"BOND", "ETF", "ETN", "FUND"}
    BY <1>3 DEF Valid
  <2>2. Home(ProductId(r)) /\ KindOf(ProductId(r)) = "FINANCIAL_PRODUCT"
    BY <1>3, SubjectHome DEF Etp, Fund, Domestic, Foreign
  <2>3. \A w \in Product(ProductId(r), Cell(r, "pd_grp_no"), Cell(r, "pd_nm")) : NativeWrite(w)
    BY <2>1, <2>2, ProductFits
  <2> QED BY <1>1, <1>3, <2>3 DEF Entities, Etp, Bond, Domestic, Foreign
<1>4. CASE r.ds = Fund
  <2> SUFFICES ASSUME NEW w \in Entities(r, audit) PROVE NativeWrite(w)
    OBVIOUS
  <2>1. PICK family \in Family(r) :
          w \in Product(family, "FUND", "")
                \cup {<<"funds", [id |-> family]>>,
                      EntityRow(ProductId(r), "FUND_SHARE_CLASS", Cell(r, "itm_nm")),
                      <<"fund_share_classes", [id |-> ProductId(r), fund |-> family, key |-> ProductKey(r)]>>}
    BY <1>4 DEF Entities, Etp, Bond, Domestic, Foreign, Fund
  <2>2. NativeWrite(EntityRow(ProductId(r), "FUND_SHARE_CLASS", Cell(r, "itm_nm")))
    BY <1>4, SubjectHome, EntityRowFits
  <2>3. \A x \in Product(family, "FUND", "") : NativeWrite(x)
    BY SubjectHome, ProductFits
  <2> QED BY <1>1, <2>1, <2>2, <2>3
<1> QED BY <1>2, <1>3, <1>4 DEF Dataset, Etp

LEMMA LinksFit ==
  ASSUME NEW r
  PROVE  \A w \in Links(r) : NativeWrite(w)
<1>1. \A x, role : NativeWrite(<<"source_record_entities", [record |-> Record(r), entity |-> x, role |-> role]>>)
  BY RecordIsRecord DEF NativeWrite, RowFits, Native, Kinds
<1> QED BY <1>1 DEF Links

\* No column identifies an organization of the exchange, or a security.
LEMMA ClaimScheme ==
  ASSUME NEW r, r.ds \in Dataset, NEW k \in Claims(r)
  PROVE  k[2][2] # "PROVIDER_ORGANIZATION_ID" /\ KindOf(k[1]) # "SECURITY"
<1>1. \A i \in IdentifierColumns[r.ds] : i[2] # "PROVIDER_ORGANIZATION_ID"
  BY DEF IdentifierColumns, Dataset, Etp
<1>2. Representative[2] # "PROVIDER_ORGANIZATION_ID"
  BY DEF Representative
<1>3. /\ k[2] \in IdentifierColumns[r.ds] \/ k[2] = Representative
      /\ k[1] \in Subject(r) \cup Family(r)
  BY DEF Claims
<1>4. \A s \in Subject(r) : s = ProductId(r)
  BY DEF Subject, Primary, Support, Dataset, Etp, Bond, Domestic, Foreign, Fund
<1>5. \A s \in Subject(r) \cup Family(r) : KindOf(s) \in {"FINANCIAL_PRODUCT", "FUND_SHARE_CLASS"}
  BY <1>4, SubjectHome
<1> QED BY <1>1, <1>2, <1>3, <1>5

LEMMA NamesFit ==
  ASSUME NEW r, r.ds \in Dataset, NEW audit
  PROVE  /\ \A w \in Aliases(r) \cup Identifiers(r, audit) : NativeWrite(w)
         /\ \A column, reason, status : NativeWrite(CaseRow(r, column, reason, status))
<1>1. \A entity, name, type : NativeWrite(AliasRow(entity, name, type))
  BY OtherFits DEF AliasRow
<1>2. \A entity, scheme, space, value, valid, open :
        scheme # "PROVIDER_ORGANIZATION_ID" /\ KindOf(entity) # "SECURITY" => NativeWrite(IdentifierRow(entity, scheme, space, value, valid, open))
  BY DEF IdentifierRow, NativeWrite, RowFits, ReadTables, Kinds
<1>3. \A column, reason, status : NativeWrite(CaseRow(r, column, reason, status))
  BY OtherFits DEF CaseRow
<1>4. \A w \in Aliases(r) : NativeWrite(w)
  BY <1>1 DEF Aliases
<1>5. \A w \in Identifiers(r, audit) : NativeWrite(w)
  <2> SUFFICES ASSUME NEW w \in Identifiers(r, audit)
               PROVE  NativeWrite(w)
    OBVIOUS
  <2>1. PICK k \in Claims(r) :
          \E open : w = IdentifierRow(k[1], k[2][2], k[2][3], k[3], WellFormed(k[2][2], k[3]), open)
    BY DEF Identifiers
  <2>2. k[2][2] # "PROVIDER_ORGANIZATION_ID" /\ KindOf(k[1]) # "SECURITY"
    BY ClaimScheme
  <2> QED BY <1>2, <2>1, <2>2
<1> QED BY <1>3, <1>4, <1>5

LEMMA ValuesFit ==
  ASSUME NEW r, NEW i, NEW conflict
  PROVE  \A w \in ClassificationValue(r, i, conflict) : NativeWrite(w)
<1> SUFFICES ASSUME NEW w \in ClassificationValue(r, i, conflict) PROVE NativeWrite(w)
  OBVIOUS
<1>1. \E row : w = <<"ontology_concepts", row>> \/ w = <<"source_classification_values", row>>
  BY DEF ClassificationValue
<1> QED BY <1>1, OtherFits

LEMMA ClassificationsFit ==
  ASSUME NEW r, r.ds \in Dataset, NEW audit
  PROVE  \A w \in Classifications(r, audit) \cup ClassificationValuesOnly(r) : NativeWrite(w)
<1>1. \A w \in ClassificationValuesOnly(r) : NativeWrite(w)
  BY ValuesFit DEF ClassificationValuesOnly
<1>2. ASSUME NEW s \in Subject(r), NEW i, NEW conflict, NEW e, NEW w \in ClassificationFact(r, s, i, conflict, e)
      PROVE  NativeWrite(w)
  <2>1. Home(s)
    BY SubjectShape, SubjectHome
  <2>2. \A key, status : \A x \in Evidenced(FactId(s, r.ds, "CLASSIFICATION", key), status, {e}, "SUPPORTS") : NativeWrite(x)
    <3> SUFFICES ASSUME NEW key, NEW status
                 PROVE  \A x \in Evidenced(FactId(s, r.ds, "CLASSIFICATION", key), status, {e}, "SUPPORTS") : NativeWrite(x)
      OBVIOUS
    <3>1. SnapshotOf(FactId(s, r.ds, "CLASSIFICATION", key)) \in Dataset
      BY FactShape
    <3> QED BY <3>1, EvidencedFits
  <2>3. CASE conflict
    BY <1>2, <2>2, <2>3 DEF ClassificationFact
  <2>4. CASE ~conflict
    <3>1. PICK c \in Concept(i) :
            w \in Evidenced(FactId(s, r.ds, "CLASSIFICATION", <<i[2], c>>), "RESOLVED", {e}, "SUPPORTS")
                  \cup {<<"entity_classifications",
                          [fact |-> FactId(s, r.ds, "CLASSIFICATION", <<i[2], c>>), entity |-> s,
                           type |-> i[2], concept |-> c]>>}
      BY <1>2, <2>4 DEF ClassificationFact
    <3>2. \A fact, type, concept :
            NativeWrite(<<"entity_classifications", [fact |-> fact, entity |-> s, type |-> type, concept |-> concept]>>)
      BY <2>1 DEF NativeWrite, RowFits, Native, Kinds
    <3> QED BY <2>2, <3>1, <3>2
  <2> QED BY <2>3, <2>4
<1>3. ASSUME NEW w \in Classifications(r, audit) PROVE NativeWrite(w)
  <2>1. PICK i \in StatedInputs(r) :
          \/ w \in ClassificationValue(r, i, InConflict(r, audit, i))
          \/ \E s \in Subject(r), e \in CiteFirst(r, i[1], i[4]) :
               w \in ClassificationFact(r, s, i, InConflict(r, audit, i), e)
    BY <1>3 DEF Classifications
  <2> QED BY <2>1, <1>2, ValuesFit
<1> QED BY <1>1, <1>3

LEMMA RelationsFitFor ==
  ASSUME NEW r, r.ds \in Dataset, NEW t \in Kinds, NEW subjects, \A s \in subjects : Home(s),
         NEW type, NEW target, Home(target), NEW column
  PROVE  \A w \in Relation(t, r, subjects, type, target, Cite(r, column)) : NativeWrite(w)
<1> SUFFICES ASSUME NEW w \in Relation(t, r, subjects, type, target, Cite(r, column))
             PROVE  NativeWrite(w)
  OBVIOUS
<1> DEFINE R(s, e) == Evidenced(FactId(s, r.ds, t, <<type, target>>), "RESOLVED", {e}, "SUPPORTS")
                        \cup {RelationRow(t, FactId(s, r.ds, t, <<type, target>>), type, target)}
<1>0. Relation(t, r, subjects, type, target, Cite(r, column)) = UNION {R(s, e) : s \in subjects, e \in Cite(r, column)}
  BY DEF Relation
<1>1. PICK s \in subjects, e \in Cite(r, column) : w \in R(s, e)
  <2> HIDE DEF R
  <2> QED BY <1>0
<1> DEFINE fact == FactId(s, r.ds, t, <<type, target>>)
<1>2. SubjectOf(fact) = s /\ SnapshotOf(fact) \in Dataset
  BY FactShape
<1> HIDE DEF fact
<1>3. \A x \in Evidenced(fact, "RESOLVED", {e}, "SUPPORTS") : NativeWrite(x)
  BY <1>2, EvidencedFits
<1>4. NativeWrite(RelationRow(t, fact, type, target))
  <2>1. RelationRow(t, fact, type, target)[1] = t
    BY DEF RelationRow
  <2>2. /\ RelationRow(t, fact, type, target)[2].fact = fact
        /\ RelationRow(t, fact, type, target)[2].subject = s
        /\ RelationRow(t, fact, type, target)[2].object = target
    BY <1>2 DEF RelationRow
  <2> QED BY <1>2, <2>1, <2>2 DEF NativeWrite, RowFits, Native, Kinds
<1> QED BY <1>1, <1>3, <1>4 DEF fact

LEMMA NamedFits ==
  ASSUME NEW ds, NEW name
  PROVE  /\ \A type \in {"ISSUER", "ASSET_MANAGER", "TRUSTEE"} :
              Home(NamedId(type, ds, name)) /\ \A w \in OrganizationRows(type, ds, name) : NativeWrite(w)
         /\ Home(NamedId("index", ds, name)) /\ \A w \in IndexRows(ds, name) : NativeWrite(w)
         /\ \A kind \in {"CURRENCY", "COUNTRY"} :
              Home(ControlledId(kind, name)) /\ NativeWrite(EntityRow(ControlledId(kind, name), kind, name))
<1>1. ASSUME NEW type \in {"ISSUER", "ASSET_MANAGER", "TRUSTEE"}
      PROVE  Home(NamedId(type, ds, name)) /\ \A w \in OrganizationRows(type, ds, name) : NativeWrite(w)
  <2>1. NamedId(type, ds, name)[1] = type
    BY DEF NamedId
  <2>2. Home(NamedId(type, ds, name)) /\ KindOf(NamedId(type, ds, name)) = "ORGANIZATION"
    BY <2>1 DEF Home, KindOf, Bond, Domestic, Foreign, Fund
  <2>3. NativeWrite(EntityRow(NamedId(type, ds, name), "ORGANIZATION", name))
    BY <2>2, EntityRowFits
  <2>4. NativeWrite(<<"organizations", [id |-> NamedId(type, ds, name), type |-> type]>>)
    BY <2>2 DEF NativeWrite, RowFits, Native, Kinds
  <2> QED BY <2>2, <2>3, <2>4 DEF OrganizationRows
<1>2. NamedId("index", ds, name)[1] = "index"
  BY DEF NamedId
<1>3. Home(NamedId("index", ds, name)) /\ KindOf(NamedId("index", ds, name)) = "INDEX"
  BY <1>2 DEF Home, KindOf, Bond, Domestic, Foreign, Fund
<1>4. \A w \in IndexRows(ds, name) : NativeWrite(w)
  BY <1>3, EntityRowFits, OtherFits DEF IndexRows
<1>5. ASSUME NEW kind \in {"CURRENCY", "COUNTRY"}
      PROVE  Home(ControlledId(kind, name)) /\ NativeWrite(EntityRow(ControlledId(kind, name), kind, name))
  <2>1. ControlledId(kind, name)[1] = kind
    BY DEF ControlledId
  <2>2. Home(ControlledId(kind, name)) /\ KindOf(ControlledId(kind, name)) = kind
    BY <2>1 DEF Home, KindOf, Bond, Domestic, Foreign, Fund
  <2> QED BY <2>2, EntityRowFits
<1> QED BY <1>1, <1>3, <1>4, <1>5

LEMMA OrganizationFits ==
  ASSUME NEW r, r.ds \in Dataset, NEW audit, NEW column, NEW type, NEW organization \in {"ISSUER", "ASSET_MANAGER", "TRUSTEE"}
  PROVE  \A w \in OrganizationRelation(r, audit, column, type, organization) : NativeWrite(w)
<1>1. \A w \in RefusedOrganization(r, column) : NativeWrite(w)
  BY NamesFit DEF RefusedOrganization
<1>2. \A w \in OrganizationRows(organization, r.ds, Cell(r, column)) : NativeWrite(w)
  BY NamedFits
<1>3. \A w \in Relation("organization_relations", r, {s \in Support(r) : ~Disputed(audit, s, column)},
                        type, NamedId(organization, r.ds, Cell(r, column)), Cite(r, column)) : NativeWrite(w)
  BY NamedFits, SubjectHome, RelationsFitFor DEF Kinds
<1> QED BY <1>1, <1>2, <1>3 DEF OrganizationRelation

LEMMA ControlledFits ==
  ASSUME NEW r, r.ds \in Dataset, NEW column, NEW kind \in {"CURRENCY", "COUNTRY"}, NEW type, NEW related
  PROVE  \A w \in ControlledRelation(r, column, kind, type, related) : NativeWrite(w)
<1> DEFINE C(code) == {EntityRow(ControlledId(kind, code), kind, code)}
                      \cup Relation("entity_relations", r, {s \in Subject(r) : related}, type,
                                    ControlledId(kind, code), Cite(r, column))
<1>1. ASSUME NEW code, NEW w \in C(code)
      PROVE  NativeWrite(w)
  <2>1. \A s \in {x \in Subject(r) : related} : Home(s)
    BY SubjectShape, SubjectHome
  <2>2. Home(ControlledId(kind, code)) /\ NativeWrite(EntityRow(ControlledId(kind, code), kind, code))
    BY NamedFits
  <2>3. \A x \in Relation("entity_relations", r, {s \in Subject(r) : related}, type,
                          ControlledId(kind, code), Cite(r, column)) : NativeWrite(x)
    BY <2>1, <2>2, RelationsFitFor DEF Kinds
  <2> QED BY <1>1, <2>2, <2>3
<1>2. ControlledRelation(r, column, kind, type, related) = UNION {C(code) : code \in Reads(Codes[kind], Cell(r, column))}
  BY DEF ControlledRelation
<1> HIDE DEF C
<1> QED BY <1>1, <1>2

LEMMA RelationsFit ==
  ASSUME NEW r, r.ds \in Dataset, NEW audit
  PROVE  \A w \in Relations(r, audit) : NativeWrite(w)
<1>1. \A s \in Primary(r) \cup Support(r) : Home(s)
  BY SubjectHome
<1>2. \A w \in CurrencyAndCountry(r) : NativeWrite(w)
  BY ControlledFits DEF CurrencyAndCountry
<1>3. \A t \in Kinds : \A type, target, column : Home(target) =>
        /\ \A w \in Relation(t, r, Primary(r), type, target, Cite(r, column)) : NativeWrite(w)
        /\ \A w \in Relation(t, r, Support(r), type, target, Cite(r, column)) : NativeWrite(w)
  BY <1>1, RelationsFitFor
<1>4. ASSUME r.ds = Bond
      PROVE  \A w \in BondRelations(r, audit) : NativeWrite(w)
  <2> DEFINE R(lot) == Relation("entity_relations", r, Support(r), "HAS_SALE_LOT", lot, Cite(r, "pd_no"))
  <2>1. \A lot \in Primary(r) : \A w \in R(lot) : NativeWrite(w)
    BY <1>1, <1>3 DEF Kinds
  <2>2. LotRelations(r) = UNION {R(lot) : lot \in Primary(r)}
    BY DEF LotRelations
  <2> HIDE DEF R
  <2>3. \A w \in LotRelations(r) : NativeWrite(w)
    BY <2>1, <2>2
  <2> QED BY <2>3, OrganizationFits DEF BondRelations
<1>5. ASSUME r.ds = Fund
      PROVE  \A w \in FundRelations(r, audit) : NativeWrite(w)
  <2> DEFINE R(class) == Relation("entity_relations", r, Support(r), "HAS_SHARE_CLASS", class, Cite(r, "rptt_ksd_itm_no"))
  <2>1. \A class \in Primary(r) : \A w \in R(class) : NativeWrite(w)
    BY <1>1, <1>3 DEF Kinds
  <2>2. ClassRelations(r) = UNION {R(class) : class \in Primary(r)}
    BY DEF ClassRelations
  <2> HIDE DEF R
  <2>3. \A w \in ClassRelations(r) : NativeWrite(w)
    BY <2>1, <2>2
  <2>4. \A w \in IndexRows(r.ds, Cell(r, "bmrk_nm")) : NativeWrite(w)
    BY NamedFits
  <2>5. \A w \in Relation("index_relations", r, {s \in Support(r) : ~Disputed(audit, s, "bmrk_nm")}, "HAS_BENCHMARK",
                          NamedId("index", r.ds, Cell(r, "bmrk_nm")), Cite(r, "bmrk_nm")) : NativeWrite(w)
    BY <1>1, NamedFits, RelationsFitFor DEF Kinds
  <2> QED BY <2>3, <2>4, <2>5, OrganizationFits DEF FundRelations
<1>6. \A w \in EtpManager(r) : NativeWrite(w)
  <2>1. \A w \in RefusedOrganization(r, "cu_fund_mgmt_co") : NativeWrite(w)
    BY NamesFit DEF RefusedOrganization
  <2>2. \A name : /\ \A w \in OrganizationRows("ASSET_MANAGER", r.ds, name) : NativeWrite(w)
                  /\ \A w \in Relation("organization_relations", r, Primary(r), "MANAGED_BY",
                                       NamedId("ASSET_MANAGER", r.ds, name), Cite(r, "cu_fund_mgmt_co")) : NativeWrite(w)
    BY <1>3, NamedFits DEF Kinds
  <2> QED BY <2>1, <2>2, NamesFit DEF EtpManager
<1>7. \A w \in EtpIndex(r) : NativeWrite(w)
  <2> DEFINE index(c) == NamedId("index", r.ds, Cell(r, c))
             X(c) == IndexRows(r.ds, Cell(r, c))
                     \cup Relation("index_relations", r, Primary(r), "HAS_UNDERLYING_INDEX", index(c), Cite(r, c))
                     \cup (IF r.ds = Foreign /\ Cell(r, "cu_index_tracking_yn") = "Y"
                             THEN Relation("index_relations", r, Primary(r), "TRACKS_INDEX", index(c),
                                           Cite(r, "cu_index_tracking_yn"))
                             ELSE {})
  <2>1. \A c : Home(index(c)) /\ \A w \in IndexRows(r.ds, Cell(r, c)) : NativeWrite(w)
    BY NamedFits
  <2>2. \A c : \A w \in X(c) : NativeWrite(w)
    BY <1>3, <2>1 DEF Kinds
  <2>3. \A w \in EtpIndex(r) : \E c : w \in X(c)
    BY DEF EtpIndex
  <2> HIDE DEF X
  <2> QED BY <2>2, <2>3
<1>8. CASE r.ds = Bond
  BY <1>2, <1>4, <1>8 DEF Relations, Bond, Fund
<1>9. CASE r.ds = Fund
  BY <1>2, <1>5, <1>9 DEF Relations, Bond, Fund
<1>10. CASE r.ds # Bond /\ r.ds # Fund
  BY <1>2, <1>6, <1>7, <1>10 DEF Relations
<1> QED BY <1>8, <1>9, <1>10

LEMMA MetricsFit ==
  ASSUME NEW r, r.ds \in Dataset
  PROVE  \A w \in Metrics(r) : NativeWrite(w)
<1>1. \A fact : SnapshotOf(fact) \in Dataset =>
        /\ \A metric, value : NativeWrite(MetricRow(fact, metric, value))
        /\ \A evidence : \A w \in Evidenced(fact, "RESOLVED", evidence, "SUPPORTS") : NativeWrite(w)
  BY EvidencedFits DEF NativeWrite, RowFits, Native, Kinds, MetricRow
<1>2. \A s, key : SnapshotOf(FactId(s, r.ds, "METRIC", key)) \in Dataset
  BY FactShape
<1>3. ASSUME NEW w \in Observations(r)
      PROVE  NativeWrite(w)
  <2> DEFINE M(s, c) == Evidenced(MetricFact(r, s, c), "RESOLVED", Cite(r, c), "SUPPORTS")
                        \cup {MetricRow(MetricFact(r, s, c), MetricColumns[r.ds][c][1], v) : v \in Number(r, c)}
             columns == {x \in DOMAIN MetricColumns[r.ds] : Number(r, x) # {} /\ Cite(r, x) # {}}
  <2>1. w \in UNION {M(s, c) : s \in Observed(r), c \in columns}
    BY DEF Observations
  <2>2. PICK s \in Observed(r), c \in columns : w \in M(s, c)
    <3> HIDE DEF M, columns
    <3> QED BY <2>1
  <2>3. SnapshotOf(MetricFact(r, s, c)) \in Dataset
    BY <1>2 DEF MetricFact
  <2> QED BY <1>1, <2>2, <2>3
<1>4. ASSUME NEW w \in CreditRating(r)
      PROVE  NativeWrite(w)
  <2>1. PICK s \in Support(r), v \in Reads(Codes["RATING"], Cell(r, "crd_grd")) :
          w \in Evidenced(FactId(s, r.ds, "METRIC", <<"CREDIT_RATING_ORDER">>), "RESOLVED", Cite(r, "crd_grd"), "SUPPORTS")
                \cup {MetricRow(FactId(s, r.ds, "METRIC", <<"CREDIT_RATING_ORDER">>), "CREDIT_RATING_ORDER", v)}
    BY <1>4 DEF CreditRating
  <2> QED BY <1>1, <1>2, <2>1
<1> QED BY <1>3, <1>4 DEF Metrics

LEMMA RecordFits ==
  ASSUME NEW r, r.ds \in Dataset
  PROVE  \A w \in RecordRows(r) : NativeWrite(w)
<1>1. \A w \in Assertions(r) : NativeWrite(w)
  BY OtherFits DEF Assertions
<1>2. NativeWrite(<<"source_records", [id |-> Record(r), snapshot |-> r.ds, key |-> SourceKey(r), n |-> r.n]>>)
  BY RecordIsRecord DEF NativeWrite, RowFits, Native, Kinds, Paired
<1> QED BY <1>1, <1>2 DEF RecordRows

LEMMA WritesFit ==
  ASSUME NEW r, r.ds \in Dataset, NEW audit
  PROVE  \A w \in RowWrites(r, audit) : NativeWrite(w)
<1>1. CASE ~Valid(r)
  BY <1>1, OtherFits DEF RowWrites
<1>2. CASE Valid(r) /\ r.ds = Fund /\ Family(r) = {}
  BY <1>2, RecordFits, ClassificationsFit, NamesFit DEF RowWrites
<1>3. CASE Valid(r) /\ ~(r.ds = Fund /\ Family(r) = {})
  BY <1>3, RecordFits, EntitiesFit, LinksFit, NamesFit, ScalarsFit, ClassificationsFit, RelationsFit, MetricsFit
     DEF RowWrites
<1> QED BY <1>1, <1>2, <1>3

LEMMA FinalFits ==
  ASSUME NEW m \in Materials
  PROVE  \A w \in CollisionCases(AuditOf[m]) \cup ConflictCases(m, AuditOf[m]) \cup Crosswalk(m) : NativeWrite(w)
<1>1. \A t, row : t \in {"identifier_collision_cases", "entity_id_crosswalk", "fact_conflict_cases"} => NativeWrite(<<t, row>>)
  BY DEF NativeWrite, RowFits, ReadTables, Kinds
<1>2. \A w \in CollisionCases(AuditOf[m]) : NativeWrite(w)
  BY <1>1 DEF CollisionCases
<1>3. \A w \in Crosswalk(m) : NativeWrite(w)
  <2> SUFFICES ASSUME NEW w \in Crosswalk(m) PROVE NativeWrite(w)
    OBVIOUS
  <2>1. \E row : w = <<"entity_id_crosswalk", row>>
    BY DEF Crosswalk
  <2> QED BY <1>1, <2>1
<1>4. ASSUME NEW d, NEW w \in ConflictFacts(m, AuditOf[m], d)
      PROVE  NativeWrite(w)
  <2> DEFINE R(i) == Evidenced(ConflictFact(m[i], d), "CONFLICT", Cite(m[i], d[2]), "SUPPORTS")
  <2>1. w \in UNION {R(i) : i \in StatingRows(m, AuditOf[m], d)}
    BY <1>4 DEF ConflictFacts
  <2>2. PICK i \in StatingRows(m, AuditOf[m], d) : w \in R(i)
    <3> HIDE DEF R
    <3> QED BY <2>1
  <2>3. SnapshotOf(ConflictFact(m[i], d)) \in Dataset
    BY ConflictFactShape, MaterialAssumption DEF StatingRows, ValidRows
  <2> QED BY <2>2, <2>3, EvidencedFits
<1>5. ASSUME NEW w \in ConflictCases(m, AuditOf[m])
      PROVE  NativeWrite(w)
  <2>1. PICK d : w = ConflictRow(AuditOf[m], d) \/ w \in ConflictFacts(m, AuditOf[m], d)
    BY <1>5 DEF ConflictCases
  <2> QED BY <1>1, <1>4, <2>1 DEF ConflictRow
<1> QED BY <1>2, <1>3, <1>5

LEMMA BatchesFit ==
  ASSUME NEW m \in Materials, NEW n \in 1..(Len(m) + 1)
  PROVE  \A w \in Batches[m][n] : NativeWrite(w)
<1>1. CASE n <= Len(m)
  <2>1. m[n].ds \in Dataset /\ Batches[m][n] = RowWrites(m[n], AuditOf[m])
    BY <1>1, MaterialAssumption DEF Batches
  <2> QED BY <2>1, WritesFit
<1>2. CASE ~(n <= Len(m))
  BY <1>2, FinalFits DEF Batches
<1> QED BY <1>1, <1>2

(* Issuers. *)

IssuerTables == {"dataset_snapshots", "canonical_entities", "entity_identifiers", "entity_relations", "securities"}

Identifies(d, scheme, space, value, entity) ==
  \E i \in d["entity_identifiers"] :
    i.scheme = scheme /\ i.space = space /\ i.value = value /\ i.entity = entity /\ Undisputed(i)
OwnsName(i) == i.scheme = "PROVIDER_ORGANIZATION_ID"
Held(d, scope, edition) == \E s \in d["dataset_snapshots"] : s.id = scope /\ s.data = edition

\* The identifier of a fact of a scope says what the relation says.
Keyed(x) == SubjectOf(x.fact) = x.subject /\ KeyOf(x.fact)[1] = x.type /\ KeyOf(x.fact)[2] = x.object
\* A row of the scope's one edition gives the security this issuer.
GivenBy(d, x, row) ==
  /\ Identifies(d, "TICKER", "KRX", row.ticker, x.subject)
  /\ Identifies(d, "PROVIDER_ORGANIZATION_ID", "KRX_KIND", row.issuer, x.object)
Backed(d, x) ==
  \E edition \in DOMAIN Issuers[SnapshotOf(x.fact)] :
    /\ Held(d, SnapshotOf(x.fact), edition)
    /\ LET rows == Issuers[SnapshotOf(x.fact)][edition]
       IN \E n \in DOMAIN rows : rows[n].ticker \notin TickerConflicts(rows) /\ GivenBy(d, x, rows[n])
HasIssuer(d, security) ==
  \E x \in d["entity_relations"] :
    x.type = "SECURITY_ISSUED_BY" /\ x.subject = security /\ SnapshotOf(x.fact) \in DOMAIN Issuers

\* A scope keeps its edition, an issuer's identifier names one organization, a
\* relation of an issuer is given by a row, and resolved is what has an issuer.
IssuersHeld(d) ==
  /\ \A a \in d["dataset_snapshots"] : \A b \in d["dataset_snapshots"] : a.id = b.id => a = b
  /\ \A i \in d["entity_identifiers"] : OwnsName(i) => Undisputed(i) /\ "ORGANIZATION" \in Kind(d, i.entity)
  /\ \A i \in d["entity_identifiers"] : \A j \in d["entity_identifiers"] :
       OwnsName(i) /\ OwnsName(j) /\ i.space = j.space /\ i.value = j.value => i.entity = j.entity
  /\ \A x \in d["entity_relations"] :
       SnapshotOf(x.fact) \notin Dataset => Keyed(x) /\ (x.type = "SECURITY_ISSUED_BY" => Backed(d, x))
  /\ \A s \in d["securities"] : s = [id |-> s.id, issuer |-> s.issuer] /\ (s.issuer = "RESOLVED" => HasIssuer(d, s.id))

\* What a batch adds to these tables clashes with nothing stored.
Grows(d, e, W) ==
  \A t \in IssuerTables :
    /\ d[t] \subseteq e[t]
    /\ \A row \in e[t] : row \in d[t] \/ (row \in RowsFor(W, t) /\ \A old \in d[t] : ~Clash(t, row, old))
\* What it writes to them.
MayIssue(e, W) ==
  /\ \A a \in RowsFor(W, "dataset_snapshots") : \A b \in RowsFor(W, "dataset_snapshots") : a = b
  /\ \A i \in RowsFor(W, "entity_identifiers") : OwnsName(i) => Undisputed(i) /\ "ORGANIZATION" \in Kind(e, i.entity)
  /\ \A i \in RowsFor(W, "entity_identifiers") : \A j \in RowsFor(W, "entity_identifiers") :
       OwnsName(i) /\ OwnsName(j) => i = j
  /\ \A x \in RowsFor(W, "entity_relations") :
       SnapshotOf(x.fact) \notin Dataset => Keyed(x) /\ (x.type = "SECURITY_ISSUED_BY" => Backed(e, x))
  /\ \A s \in RowsFor(W, "securities") : s = [id |-> s.id, issuer |-> s.issuer] /\ s.issuer # "RESOLVED"

LEMMA IssuerKeys ==
  /\ IssuerTables \subseteq DOMAIN Keys
  /\ Keys["dataset_snapshots"] = {{"id"}} /\ Keys["canonical_entities"] = {{"id"}} /\ Keys["entity_relations"] = {{"fact"}}
  /\ Keys["entity_identifiers"] = {{"entity", "scheme", "space", "value"}}
  /\ "metric_observations" \notin IssuerTables /\ "external_security_issuer_records" \notin IssuerTables
<1>1. "dataset_snapshots" \in DOMAIN SourceKeys /\ SourceKeys["dataset_snapshots"] = {{"id"}}
  BY DEF SourceKeys
<1>2. "securities" \in DOMAIN EntityKeys
  BY DEF EntityKeys
<1>3. /\ "entity_identifiers" \notin DOMAIN SourceKeys /\ "entity_identifiers" \notin DOMAIN EntityKeys
      /\ "entity_identifiers" \in DOMAIN NameKeys
  BY DEF SourceKeys, EntityKeys, NameKeys
<1>4. NameKeys["entity_identifiers"] = {{"entity", "scheme", "space", "value"}}
  BY DEF NameKeys
<1>5. DOMAIN SourceKeys \cup DOMAIN EntityKeys \cup DOMAIN NameKeys \subseteq DOMAIN Keys
  BY DEF Keys
<1>6. "canonical_entities" \in DOMAIN Keys /\ "entity_relations" \in DOMAIN Keys
  BY KeysOfRead DEF ReadTables
<1>7. IssuerTables \subseteq DOMAIN Keys
  BY <1>1, <1>2, <1>3, <1>5, <1>6 DEF IssuerTables
<1>8. Keys["dataset_snapshots"] = {{"id"}}
  BY <1>1, <1>5 DEF Keys
<1>9. Keys["entity_identifiers"] = {{"entity", "scheme", "space", "value"}}
  BY <1>3, <1>4, <1>5 DEF Keys
<1> QED BY <1>7, <1>8, <1>9, KeysOfRead DEF IssuerTables

LEMMA ClashTaken ==
  ASSUME NEW t, NEW row, NEW old, Clash(t, row, old)
  PROVE  Taken(t, row) \cap Taken(t, old) # {}
<1>1. PICK columns \in (Keys[t] \cup PartialKeys(t, row)) \cap (Keys[t] \cup PartialKeys(t, old)) :
        \A c \in columns : row[c] = old[c]
  BY DEF Clash
<1>2. [c \in columns |-> row[c]] = [c \in columns |-> old[c]]
  BY <1>1
<1>3. <<columns, [c \in columns |-> row[c]]>> \in Taken(t, row) /\ <<columns, [c \in columns |-> old[c]]>> \in Taken(t, old)
  BY <1>1 DEF Taken
<1> QED BY <1>2, <1>3

LEMMA FreshGrows ==
  ASSUME NEW d, NEW e, NEW W, \A t \in IssuerTables : e[t] = d[t] \cup Fresh(t, d[t], RowsFor(W, t))
  PROVE  Grows(d, e, W)
<1> SUFFICES ASSUME NEW t \in IssuerTables, NEW row \in Fresh(t, d[t], RowsFor(W, t)), NEW old \in d[t], Clash(t, row, old)
             PROVE  FALSE
  BY DEF Grows, Fresh
<1>1. Taken(t, row) \cap Taken(t, old) # {}
  BY ClashTaken
<1> QED BY <1>1 DEF Fresh, TakenBy

LEMMA InsertGrows ==
  ASSUME NEW d, Database(d), NEW W
  PROVE  Grows(d, Insert(d, W), W) /\ Grows(d, InsertOrUpdate(d, W), W)
<1>1. IssuerTables \subseteq DOMAIN d
  BY IssuerKeys DEF Database
<1>2. \A t \in IssuerTables : Insert(d, W)[t] = d[t] \cup Fresh(t, d[t], RowsFor(W, t))
  BY <1>1 DEF Insert
<1>3. \A t \in IssuerTables : InsertOrUpdate(d, W)[t] = d[t] \cup Fresh(t, d[t], RowsFor(W, t))
  BY <1>1, IssuerKeys, UpdateFacts
<1> QED BY <1>2, <1>3, FreshGrows

\* More rows back no less.
LEMMA MoreIsKept ==
  ASSUME NEW d, NEW e, \A t \in IssuerTables : d[t] \subseteq e[t]
  PROVE  /\ \A id : Kind(d, id) \subseteq Kind(e, id)
         /\ \A scheme, space, value, id : Identifies(d, scheme, space, value, id) => Identifies(e, scheme, space, value, id)
         /\ \A scope, edition : Held(d, scope, edition) => Held(e, scope, edition)
         /\ \A x : Backed(d, x) => Backed(e, x)
         /\ \A s : HasIssuer(d, s) => HasIssuer(e, s)
<1>1. /\ d["dataset_snapshots"] \subseteq e["dataset_snapshots"]
      /\ d["canonical_entities"] \subseteq e["canonical_entities"]
      /\ d["entity_identifiers"] \subseteq e["entity_identifiers"]
      /\ d["entity_relations"] \subseteq e["entity_relations"]
  BY DEF IssuerTables
<1>2. \A id : Kind(d, id) \subseteq Kind(e, id)
  BY <1>1 DEF Kind
<1>3. \A scheme, space, value, id : Identifies(d, scheme, space, value, id) => Identifies(e, scheme, space, value, id)
  BY <1>1 DEF Identifies
<1>4. \A scope, edition : Held(d, scope, edition) => Held(e, scope, edition)
  BY <1>1 DEF Held
<1>5. \A x, row : GivenBy(d, x, row) => GivenBy(e, x, row)
  BY <1>3 DEF GivenBy
<1>6. \A x : Backed(d, x) => Backed(e, x)
  BY <1>4, <1>5 DEF Backed
<1>7. \A s : HasIssuer(d, s) => HasIssuer(e, s)
  BY <1>1 DEF HasIssuer
<1> QED BY <1>2, <1>3, <1>4, <1>6, <1>7

LEMMA GrowthKeeps ==
  ASSUME NEW d, NEW e, NEW W, Grows(d, e, W), IssuersHeld(d), MayIssue(e, W)
  PROVE  IssuersHeld(e)
<1>1. \A t \in IssuerTables : d[t] \subseteq e[t]
  BY DEF Grows
<1>2. \A t \in IssuerTables : \A row \in e[t] :
        row \in d[t] \/ (row \in RowsFor(W, t) /\ \A old \in d[t] : ~Clash(t, row, old))
  BY DEF Grows
<1>3. ASSUME NEW a \in e["dataset_snapshots"], NEW b \in e["dataset_snapshots"], a.id = b.id
      PROVE  a = b
  <2>1. \A x, y : x.id = y.id => Clash("dataset_snapshots", x, y)
    <3>1. {"id"} \in Keys["dataset_snapshots"]
      BY IssuerKeys
    <3> QED BY <3>1 DEF Clash
  <2>2. "dataset_snapshots" \in IssuerTables
    BY DEF IssuerTables
  <2> QED BY <1>2, <1>3, <2>1, <2>2 DEF IssuersHeld, MayIssue
<1>4. "entity_identifiers" \in IssuerTables /\ "entity_relations" \in IssuerTables /\ "securities" \in IssuerTables
  BY DEF IssuerTables
<1>5. \A i \in e["entity_identifiers"] : OwnsName(i) => Undisputed(i) /\ "ORGANIZATION" \in Kind(e, i.entity)
  <2>1. \A id : Kind(d, id) \subseteq Kind(e, id)
    BY <1>1, MoreIsKept
  <2> QED BY <1>2, <1>4, <2>1 DEF IssuersHeld, MayIssue
<1>6. ASSUME NEW i \in e["entity_identifiers"], NEW j \in e["entity_identifiers"],
             OwnsName(i), OwnsName(j), i.space = j.space, i.value = j.value
      PROVE  i.entity = j.entity
  <2>1. Clash("entity_identifiers", i, j) /\ Clash("entity_identifiers", j, i)
    <3>1. PartialKeys("entity_identifiers", i) = {{"scheme", "space", "value"}}
          /\ PartialKeys("entity_identifiers", j) = {{"scheme", "space", "value"}}
      BY <1>5, <1>6 DEF PartialKeys
    <3> QED BY <3>1, <1>6 DEF Clash, OwnsName
  <2> QED BY <1>2, <1>4, <1>6, <2>1 DEF IssuersHeld, MayIssue
<1>7. \A x \in e["entity_relations"] :
        SnapshotOf(x.fact) \notin Dataset => Keyed(x) /\ (x.type = "SECURITY_ISSUED_BY" => Backed(e, x))
  <2>1. \A x : Backed(d, x) => Backed(e, x)
    BY <1>1, MoreIsKept
  <2> QED BY <1>2, <1>4, <2>1 DEF IssuersHeld, MayIssue
<1>8. \A s \in e["securities"] : s = [id |-> s.id, issuer |-> s.issuer] /\ (s.issuer = "RESOLVED" => HasIssuer(e, s.id))
  <2>1. \A s : HasIssuer(d, s) => HasIssuer(e, s)
    BY <1>1, MoreIsKept
  <2> QED BY <1>2, <1>4, <2>1 DEF IssuersHeld, MayIssue
<1> QED BY <1>3, <1>5, <1>6, <1>7, <1>8 DEF IssuersHeld

\* A write that says nothing of issuers.
Silent(w) ==
  /\ w[1] # "dataset_snapshots"
  /\ w[1] = "entity_identifiers" => ~OwnsName(w[2])
  /\ w[1] = "entity_relations" =>
       SnapshotOf(w[2].fact) \in Dataset \/ (Keyed(w[2]) /\ w[2].type # "SECURITY_ISSUED_BY")
  /\ w[1] = "securities" => w[2] = [id |-> w[2].id, issuer |-> w[2].issuer] /\ w[2].issuer # "RESOLVED"

LEMMA SilentMayIssue ==
  ASSUME NEW e, NEW W, \A w \in W : Silent(w)
  PROVE  MayIssue(e, W)
<1>1. \A t : \A row \in RowsFor(W, t) : Silent(<<t, row>>)
  <2> SUFFICES ASSUME NEW t, NEW row \in RowsFor(W, t)
               PROVE  Silent(<<t, row>>)
    OBVIOUS
  <2>1. PICK w \in W : w[1] = t /\ w[2] = row
    BY RowIsWrite
  <2> QED BY <2>1 DEF Silent
<1> QED BY <1>1 DEF MayIssue, Silent

\* A write to none of these tables.
LEMMA ElsewhereSilent ==
  ASSUME NEW w, w[1] \notin IssuerTables
  PROVE  Silent(w)
BY DEF Silent, IssuerTables

LEMMA SilentInsert ==
  ASSUME NEW d, Database(d), IssuersHeld(d), NEW W, \A w \in W : Silent(w)
  PROVE  /\ IssuersHeld(Insert(d, W)) /\ \A t \in IssuerTables : d[t] \subseteq Insert(d, W)[t]
         /\ IssuersHeld(InsertOrUpdate(d, W))
<1>1. Grows(d, Insert(d, W), W) /\ Grows(d, InsertOrUpdate(d, W), W)
  BY InsertGrows
<1> QED BY <1>1, SilentMayIssue, GrowthKeeps DEF Grows

\* A change of the status of securities.
LEMMA StatusKeeps ==
  ASSUME NEW d, Database(d), IssuersHeld(d), NEW ids, NEW status,
         status = "RESOLVED" => \A s \in ids : HasIssuer(d, s)
  PROVE  /\ IssuersHeld(SetIssuerStatus(d, ids, status))
         /\ \A scope, edition : Held(d, scope, edition) => Held(SetIssuerStatus(d, ids, status), scope, edition)
<1> DEFINE e == SetIssuerStatus(d, ids, status)
<1>1. "securities" \in DOMAIN d
  BY IssuerKeys DEF Database, IssuerTables
<1>2. /\ \A t \in DOMAIN d \ {"securities"} : e[t] = d[t]
      /\ e["securities"] = {IF s.id \in ids THEN [s EXCEPT !.issuer = status] ELSE s : s \in d["securities"]}
  BY <1>1 DEF SetIssuerStatus
<1> HIDE DEF e
<1>3. /\ e["dataset_snapshots"] = d["dataset_snapshots"] /\ e["canonical_entities"] = d["canonical_entities"]
      /\ e["entity_identifiers"] = d["entity_identifiers"] /\ e["entity_relations"] = d["entity_relations"]
  BY <1>2, IssuerKeys DEF Database, IssuerTables
<1>4. /\ \A id : Kind(e, id) = Kind(d, id)
      /\ \A s : HasIssuer(e, s) <=> HasIssuer(d, s)
      /\ \A scope, edition : Held(e, scope, edition) <=> Held(d, scope, edition)
  BY <1>3 DEF Kind, HasIssuer, Held
<1>5. \A scheme, space, value, id : Identifies(e, scheme, space, value, id) <=> Identifies(d, scheme, space, value, id)
  BY <1>3 DEF Identifies
<1>6. \A x : Backed(d, x) => Backed(e, x)
  <2>1. \A x, row : GivenBy(d, x, row) => GivenBy(e, x, row)
    BY <1>5 DEF GivenBy
  <2> QED BY <1>4, <2>1 DEF Backed
<1>7. ASSUME NEW r \in e["securities"]
      PROVE  r = [id |-> r.id, issuer |-> r.issuer] /\ (r.issuer = "RESOLVED" => HasIssuer(e, r.id))
  <2>1. PICK s \in d["securities"] : r = IF s.id \in ids THEN [s EXCEPT !.issuer = status] ELSE s
    BY <1>2
  <2>2. s = [id |-> s.id, issuer |-> s.issuer] /\ (s.issuer = "RESOLVED" => HasIssuer(d, s.id))
    BY DEF IssuersHeld
  <2>3. CASE s.id \in ids
    <3>1. r = [id |-> s.id, issuer |-> status]
      BY <2>1, <2>2, <2>3
    <3> QED BY <3>1, <2>3, <1>4
  <2>4. CASE s.id \notin ids
    BY <2>1, <2>2, <2>4, <1>4
  <2> QED BY <2>3, <2>4
<1> QED BY <1>3, <1>4, <1>6, <1>7 DEF IssuersHeld, e

\* A change of another table.
LEMMA OtherTableKeeps ==
  ASSUME NEW d, Database(d), IssuersHeld(d), NEW e, \A t \in IssuerTables : e[t] = d[t]
  PROVE  IssuersHeld(e)
<1> DEFINE W == {}
<1>1. Grows(d, e, W)
  BY DEF Grows
<1>2. \A w \in W : Silent(w)
  OBVIOUS
<1> HIDE DEF W
<1> QED BY <1>1, <1>2, SilentMayIssue, GrowthKeeps

\* The rebuild's writes.
LEMMA RebuildKeeps ==
  ASSUME NEW m \in Materials, NEW d, Database(d), IssuersHeld(d)
  PROVE  IssuersHeld(WrittenTo(d, m))
<1> DEFINE L == Len(m) + 1
           after == CHOOSE f : RebuildRun(f, d, m, L)
<1>1. L \in Nat
  BY MaterialAssumption
<1>2. WrittenTo(d, m) = after[L]
  BY DEF WrittenTo, RebuildRun
<1>3. RebuildRun(after, d, m, L)
  BY <1>1, RebuildRuns
<1>4. ASSUME NEW n \in 1..L, NEW w \in Batches[m][n]
      PROVE  Silent(w)
  <2>1. NativeWrite(w)
    BY BatchesFit
  <2>2. "entity_relations" \in ReadTables
    BY DEF ReadTables
  <2> QED BY <2>1, <2>2 DEF NativeWrite, RowFits, Native, Silent, OwnsName
<1> HIDE DEF after, L
<1>5. after[0] = d /\ \A n \in 1..L : after[n] = InsertOrUpdate(after[n - 1], Batches[m][n])
  BY <1>1, <1>3 DEF RebuildRun
<1> DEFINE N == {n \in 0..L : Database(after[n]) /\ IssuersHeld(after[n])}
<1>6. 0 \in N
  BY <1>1, <1>5
<1>7. ASSUME NEW n \in 1..L, n - 1 \in N
      PROVE  n \in N
  BY <1>1, <1>4, <1>5, <1>7, UpdateFacts, SilentInsert
<1> HIDE DEF N
<1>8. \A n \in 0..L : n \in N
  BY <1>1, <1>6, <1>7, UpTo
<1>9. L \in N
  BY <1>1, <1>8
<1> QED BY <1>2, <1>9 DEF N

\* What the integration of a row keeps.
Keeps(e, scope, edition) == IssuersHeld(e) /\ Held(e, scope, edition)

LEMMA SilentKeeps ==
  ASSUME NEW d, Database(d), IssuersHeld(d), NEW W, \A w \in W : Silent(w), NEW scope, NEW edition, Held(d, scope, edition)
  PROVE  Keeps(Insert(d, W), scope, edition)
<1>1. IssuersHeld(Insert(d, W)) /\ \A t \in IssuerTables : d[t] \subseteq Insert(d, W)[t]
  BY SilentInsert
<1> QED BY <1>1, MoreIsKept DEF Keeps

LEMMA SourceRowsSilent ==
  ASSUME NEW scope, NEW row, NEW n, NEW assertion
  PROVE  \A w \in SourceRows(scope, row, n, assertion) : Silent(w)
<1>1. \A w \in SourceRows(scope, row, n, assertion) : w[1] \notin IssuerTables
  BY DEF SourceRows, IssuerTables
<1> QED BY <1>1, ElsewhereSilent

LEMMA CandidateSchemes ==
  ASSUME NEW scope, NEW h, NEW c \in Candidates(scope, h)
  PROVE  c[1] \in {"TICKER", "PROVIDER_SOURCE_ID"}
<1> DEFINE T == <<"TICKER", h.market, h.code>>
           P == <<"PROVIDER_SOURCE_ID", Space[scope].security, h.member>>
<1>1. T[1] = "TICKER" /\ P[1] = "PROVIDER_SOURCE_ID"
  OBVIOUS
<1>2. Candidates(scope, h) \in {{}, {T}, {P}, {T, P}}
  BY DEF Candidates
<1> HIDE DEF T, P
<1> QED BY <1>1, <1>2

LEMMA HoldingKeeps ==
  ASSUME NEW d, Database(d), Sound(d), IssuersHeld(d), NEW scope \in Scope, NEW edition, Held(d, scope, edition), NEW h, NEW n
  PROVE  Keeps(IntegrateHolding(d, scope, h, n), scope, edition)
<1> DEFINE product == ProductOf(d, scope, h)
           security == SecurityOf(d, scope, h)
           first == Insert(d, security.writes)
           rows == HoldingRows(scope, h, n, product, security.resolution)
           second == Insert(first, rows)
           relations == HoldsRows(scope, h, product, security.resolution)
           third == Insert(second, relations)
<1>1. \A w \in security.writes : Silent(w)
  <2>1. \A id : \A w \in Attach(id, Candidates(scope, h)) : Silent(w)
    <3> SUFFICES ASSUME NEW id, NEW w \in Attach(id, Candidates(scope, h))
                 PROVE  Silent(w)
      OBVIOUS
    <3>1. PICK c \in Candidates(scope, h) : w = IdentifierRow(id, c[1], c[2], c[3], TRUE, FALSE)
      BY DEF Attach
    <3>2. c[1] \in {"TICKER", "PROVIDER_SOURCE_ID"}
      BY CandidateSchemes
    <3>3. w[1] = "entity_identifiers" /\ w[2].scheme = c[1]
      BY <3>1 DEF IdentifierRow
    <3> QED BY <3>2, <3>3 DEF Silent, OwnsName
  <2>2. ASSUME NEW id, NEW w \in Create(id)
        PROVE  Silent(w)
    <3> DEFINE row == [id |-> id, issuer |-> "UNRESOLVED"]
    <3>1. w = EntityRow(id, "SECURITY", "") \/ w = <<"securities", row>>
      BY DEF Create
    <3>2. EntityRow(id, "SECURITY", "")[1] = "canonical_entities"
      BY DEF EntityRow
    <3>3. row.issuer = "UNRESOLVED" /\ row = [id |-> row.id, issuer |-> row.issuer]
      OBVIOUS
    <3> HIDE DEF row
    <3>4. <<"securities", row>>[1] = "securities" /\ <<"securities", row>>[2] = row
      OBVIOUS
    <3> QED BY <3>1, <3>2, <3>3, <3>4 DEF Silent
  <2>3. \A w \in security.writes :
          \/ \E id : w \in Attach(id, Candidates(scope, h))
          \/ \E i : w \in Create(SecurityId(i))
    BY DEF SecurityOf
  <2> QED BY <2>1, <2>2, <2>3
<1>2. \A w \in rows : Silent(w)
  <2>1. \A row : Silent(<<"external_holding_records", row>>)
    BY DEF Silent
  <2> QED BY <2>1, SourceRowsSilent DEF HoldingRows
<1>3. \A w \in relations : Silent(w)
  <2> DEFINE Of(p, s) == FactId(p, scope, "ENTITY_RELATION", <<"HOLDS", s, h.day>>)
             T(p, s) == RelationTriple(Of(p, s), "HOLDS", s, HoldsAssertion(h))
  <2>1. relations = UNION {T(p, s) : p \in product.ids, s \in security.resolution.ids}
    BY DEF HoldsRows, RelationTriple
  <2>2. ASSUME NEW p, NEW s, NEW w \in T(p, s)
        PROVE  Silent(w)
    <3>1. PICK fact : fact = Of(p, s)
      OBVIOUS
    <3>2. SubjectOf(fact) = p /\ KeyOf(fact)[1] = "HOLDS" /\ KeyOf(fact)[2] = s
      BY <3>1 DEF FactId, SubjectOf, KeyOf
    <3> HIDE DEF Of
    <3>3. \/ w = FactRow(fact, "RESOLVED") \/ w = RelationRow("entity_relations", fact, "HOLDS", s)
          \/ w = EvidenceRow(fact, HoldsAssertion(h), "SUPPORTS")
      BY <2>2, <3>1 DEF RelationTriple
    <3>4. Silent(FactRow(fact, "RESOLVED")) /\ Silent(EvidenceRow(fact, HoldsAssertion(h), "SUPPORTS"))
      BY DEF Silent, FactRow, EvidenceRow
    <3>5. Silent(RelationRow("entity_relations", fact, "HOLDS", s))
      BY <3>2 DEF Silent, RelationRow, Keyed
    <3> QED BY <3>3, <3>4, <3>5
  <2> HIDE DEF T, relations
  <2> QED BY <2>1, <2>2
<1> HIDE DEF product, security, rows, first
<1>4. Keeps(first, scope, edition) /\ Database(first)
  BY <1>1, SilentKeeps, InsertFacts DEF first, Database
<1> HIDE DEF second
<1>5. Keeps(second, scope, edition) /\ Database(second)
  BY <1>2, <1>4, SilentKeeps, InsertFacts DEF second, Database, Keeps
<1> HIDE DEF relations
<1>6. Keeps(third, scope, edition)
  BY <1>3, <1>5, SilentKeeps DEF Keeps
<1>7. IntegrateHolding(d, scope, h, n) = third
  BY DEF IntegrateHolding, product, security, first, second, rows, relations
<1> QED BY <1>6, <1>7 DEF Keeps

\* An issuer nobody had the identifier of is given it.
LEMMA IdentifierIsGiven ==
  ASSUME NEW d, Database(d), IssuersHeld(d), NEW row,
         Owners(d, "PROVIDER_ORGANIZATION_ID", "KRX_KIND", row.issuer, "ORGANIZATION") = {},
         NEW o, NEW W, OfficialId(o, row) \in W,
         \A w \in W : w = OfficialId(o, row) \/ (Silent(w) /\ w[1] # "entity_identifiers"),
         "ORGANIZATION" \in Kind(Insert(d, W), o)
  PROVE  /\ IssuersHeld(Insert(d, W))
         /\ Identifies(Insert(d, W), "PROVIDER_ORGANIZATION_ID", "KRX_KIND", row.issuer, o)
<1> DEFINE e == Insert(d, W)
           identifier == [entity |-> o, scheme |-> "PROVIDER_ORGANIZATION_ID", space |-> "KRX_KIND",
                          value |-> row.issuer, valid |-> TRUE, open |-> FALSE]
<1>1. OfficialId(o, row) = <<"entity_identifiers", identifier>>
  BY DEF OfficialId, IdentifierRow
<1>2. /\ identifier.entity = o /\ identifier.scheme = "PROVIDER_ORGANIZATION_ID" /\ identifier.space = "KRX_KIND"
      /\ identifier.value = row.issuer /\ OwnsName(identifier) /\ Undisputed(identifier)
  BY DEF OwnsName, Undisputed
<1> HIDE DEF identifier
<1>3. \A i : i \in RowsFor(W, "entity_identifiers") <=> i = identifier
  <2>1. identifier \in RowsFor(W, "entity_identifiers")
    BY <1>1 DEF RowsFor
  <2>2. ASSUME NEW i \in RowsFor(W, "entity_identifiers")
        PROVE  i = identifier
    <3>1. PICK w \in W : w[1] = "entity_identifiers" /\ w[2] = i
      BY RowIsWrite
    <3> QED BY <1>1, <3>1
  <2> QED BY <2>1, <2>2
<1>4. ASSUME NEW t, t # "entity_identifiers", NEW r \in RowsFor(W, t)
      PROVE  Silent(<<t, r>>)
  <2>1. PICK w \in W : w[1] = t /\ w[2] = r
    BY RowIsWrite
  <2>2. Silent(w)
    BY <1>1, <1>4, <2>1
  <2> QED BY <1>4, <2>1, <2>2 DEF Silent
<1>5. MayIssue(e, W)
  <2>1. \A i \in RowsFor(W, "entity_identifiers") :
          OwnsName(i) => Undisputed(i) /\ "ORGANIZATION" \in Kind(e, i.entity)
    BY <1>2, <1>3
  <2>2. \A i \in RowsFor(W, "entity_identifiers") : \A j \in RowsFor(W, "entity_identifiers") : i = j
    BY <1>3
  <2> HIDE DEF e
  <2>3. RowsFor(W, "dataset_snapshots") = {}
    BY <1>4 DEF Silent
  <2>4. \A x \in RowsFor(W, "entity_relations") :
          SnapshotOf(x.fact) \notin Dataset => Keyed(x) /\ x.type # "SECURITY_ISSUED_BY"
    BY <1>4 DEF Silent
  <2>5. \A s \in RowsFor(W, "securities") : s = [id |-> s.id, issuer |-> s.issuer] /\ s.issuer # "RESOLVED"
    BY <1>4 DEF Silent
  <2> QED BY <2>1, <2>2, <2>3, <2>4, <2>5 DEF MayIssue
<1>6. IssuersHeld(e)
  BY <1>5, InsertGrows, GrowthKeeps
<1>7. "entity_identifiers" \in DOMAIN d
  BY IssuerKeys DEF Database, IssuerTables
<1>8. identifier \in e["entity_identifiers"]
  <2>1. ASSUME NEW old \in d["entity_identifiers"], Clash("entity_identifiers", identifier, old)
        PROVE  FALSE
    <3>1. PICK columns \in Keys["entity_identifiers"] \cup PartialKeys("entity_identifiers", identifier) :
            \A c \in columns : identifier[c] = old[c]
      BY <2>1 DEF Clash
    <3>2. columns \in {{"entity", "scheme", "space", "value"}, {"scheme", "space", "value"}}
      BY <3>1, IssuerKeys DEF PartialKeys
    <3>3. old.scheme = identifier.scheme /\ old.space = identifier.space /\ old.value = identifier.value
      BY <3>1, <3>2
    <3>4. Undisputed(old) /\ "ORGANIZATION" \in Kind(d, old.entity)
      BY <1>2, <3>3 DEF IssuersHeld, OwnsName
    <3>5. old.entity \in Owners(d, "PROVIDER_ORGANIZATION_ID", "KRX_KIND", row.issuer, "ORGANIZATION")
      BY <1>2, <3>3, <3>4 DEF Owners
    <3> QED BY <3>5
  <2> QED BY <1>3, <1>7, <2>1, InsertFacts
<1> QED BY <1>2, <1>6, <1>8 DEF Identifies, e

\* The organization an issuer resolves to is the owner of its identifier.
LEMMA OrganizationKeeps ==
  ASSUME NEW d, Database(d), Sound(d), IssuersHeld(d), NEW row
  PROVE  LET organization == OrganizationOf(d, row)
             e == Insert(d, organization.writes)
         IN /\ IssuersHeld(e) /\ \A t \in IssuerTables : d[t] \subseteq e[t]
            /\ \A o \in organization.resolution.ids :
                 Identifies(e, "PROVIDER_ORGANIZATION_ID", "KRX_KIND", row.issuer, o)
<1> DEFINE organization == OrganizationOf(d, row)
           W == organization.writes
           ids == organization.resolution.ids
           e == Insert(d, W)
           known == Owners(d, "PROVIDER_ORGANIZATION_ID", "KRX_KIND", row.issuer, "ORGANIZATION")
           named == NameCandidates(d, LegalKey(row.name))
           new == <<"organization", row.issuer>>
           Of(o) == {OfficialId(o, row), OfficialName(o, row)}
           Made == {EntityRow(new, "ORGANIZATION", row.name), <<"organizations", [id |-> new, type |-> "ISSUER"]>>,
                    OfficialId(new, row), OfficialName(new, row)}
<1>1. \A t \in IssuerTables : d[t] \subseteq e[t]
  BY InsertGrows DEF Grows
<1>2. /\ \A o : Silent(OfficialName(o, row)) /\ OfficialName(o, row)[1] # "entity_identifiers"
      /\ EntityRow(new, "ORGANIZATION", row.name)[1] = "canonical_entities"
      /\ EntityRow(new, "ORGANIZATION", row.name)[2].id = new
      /\ EntityRow(new, "ORGANIZATION", row.name)[2].kind = "ORGANIZATION"
      /\ Silent(EntityRow(new, "ORGANIZATION", row.name))
      /\ LET w == <<"organizations", [id |-> new, type |-> "ISSUER"]>>
         IN Silent(w) /\ w[1] # "entity_identifiers"
  BY DEF OfficialName, EntityRow, Silent
<1>3. KindOf(new) = "ORGANIZATION"
  BY DEF KindOf, Bond, Domestic, Foreign, Fund
<1> HIDE DEF new, e
<1>4. \/ W = {} /\ ids = {}
      \/ ids = known /\ W = {OfficialName(o, row) : o \in known}
      \/ /\ known = {} /\ ~Several(named) /\ named # {}
         /\ ids = named /\ W = UNION {Of(o) : o \in named}
      \/ known = {} /\ ids = {new} /\ W = Made
  BY DEF OrganizationOf, Resolution, new
<1> HIDE DEF W, ids, known, named, organization
<1>5. CASE W = {} /\ ids = {}
  <2>1. \A w \in W : Silent(w)
    BY <1>5
  <2>2. IssuersHeld(e)
    BY <2>1, SilentInsert DEF e
  <2> QED BY <1>1, <1>5, <2>2 DEF W, ids, organization, e
<1>6. CASE ids = known /\ W = {OfficialName(o, row) : o \in known}
  <2>1. \A w \in W : Silent(w)
    BY <1>2, <1>6
  <2>2. IssuersHeld(e)
    BY <2>1, SilentInsert DEF e
  <2>3. \A o \in known : Identifies(d, "PROVIDER_ORGANIZATION_ID", "KRX_KIND", row.issuer, o)
    BY DEF known, Owners, Identifies
  <2>4. \A o \in known : Identifies(e, "PROVIDER_ORGANIZATION_ID", "KRX_KIND", row.issuer, o)
    BY <1>1, <2>3, MoreIsKept
  <2> QED BY <1>1, <1>6, <2>2, <2>4 DEF W, ids, organization, e
<1>7. CASE /\ known = {} /\ ~Several(named) /\ named # {}
           /\ ids = named /\ W = UNION {Of(o) : o \in named}
  <2>1. PICK o : named = {o}
    BY <1>7 DEF Several
  <2>2. W = Of(o)
    BY <1>7, <2>1
  <2>3. "ORGANIZATION" \in Kind(d, o)
    BY <2>1 DEF named, NameCandidates, Kind
  <2>4. "ORGANIZATION" \in Kind(e, o)
    BY <1>1, <2>3, MoreIsKept
  <2>5. /\ OfficialId(o, row) \in W
        /\ \A w \in W : w = OfficialId(o, row) \/ (Silent(w) /\ w[1] # "entity_identifiers")
    BY <1>2, <2>2
  <2>6. IssuersHeld(e) /\ Identifies(e, "PROVIDER_ORGANIZATION_ID", "KRX_KIND", row.issuer, o)
    BY <1>7, <2>4, <2>5, IdentifierIsGiven DEF known, e
  <2> QED BY <1>1, <1>7, <2>1, <2>6 DEF W, ids, organization, e
<1>8. CASE known = {} /\ ids = {new} /\ W = Made
  <2>1. /\ OfficialId(new, row) \in W
        /\ \A w \in W : w = OfficialId(new, row) \/ (Silent(w) /\ w[1] # "entity_identifiers")
    BY <1>2, <1>8
  <2>2. "ORGANIZATION" \in Kind(e, new)
    <3> DEFINE entity == EntityRow(new, "ORGANIZATION", row.name)[2]
    <3>1. entity \in RowsFor(W, "canonical_entities")
      BY <1>2, <1>8 DEF RowsFor
    <3>2. entity.id = new /\ entity.kind = "ORGANIZATION"
      BY <1>2
    <3> HIDE DEF entity
    <3>3. "canonical_entities" \in DOMAIN d
      BY IssuerKeys DEF Database, IssuerTables
    <3>4. entity \in e["canonical_entities"] \/ \E old \in d["canonical_entities"] : Clash("canonical_entities", entity, old)
      BY <3>1, <3>3, InsertFacts DEF e
    <3>5. CASE entity \in e["canonical_entities"]
      BY <3>2, <3>5 DEF Kind
    <3>6. ASSUME NEW old \in d["canonical_entities"], Clash("canonical_entities", entity, old)
          PROVE  "ORGANIZATION" \in Kind(e, new)
      <4>1. old.id = new
        BY <3>2, <3>6, IssuerKeys DEF Clash, PartialKeys
      <4>2. old.kind = "ORGANIZATION"
        BY <1>3, <4>1 DEF Sound
      <4>3. "ORGANIZATION" \in Kind(d, new)
        BY <4>1, <4>2 DEF Kind
      <4> QED BY <1>1, <4>3, MoreIsKept
    <3> QED BY <3>4, <3>5, <3>6
  <2>3. IssuersHeld(e) /\ Identifies(e, "PROVIDER_ORGANIZATION_ID", "KRX_KIND", row.issuer, new)
    BY <1>8, <2>1, <2>2, IdentifierIsGiven DEF known, e
  <2> QED BY <1>1, <1>8, <2>3 DEF W, ids, organization, e
<1> QED BY <1>4, <1>5, <1>6, <1>7, <1>8

\* The relations of a row that is not in conflict are what the row gives, and
\* one that is not stored again has a stored one that says the same.
LEMMA IssuedByKeeps ==
  ASSUME NEW d, Database(d), IssuersHeld(d), NEW scope \in Scope, scope \in DOMAIN Issuers,
         NEW edition \in DOMAIN Issuers[scope], Held(d, scope, edition),
         NEW n \in DOMAIN Issuers[scope][edition],
         Issuers[scope][edition][n].ticker \notin TickerConflicts(Issuers[scope][edition]),
         NEW security, Identifies(d, "TICKER", "KRX", Issuers[scope][edition][n].ticker, security),
         NEW ids, ids # {},
         \A o \in ids : Identifies(d, "PROVIDER_ORGANIZATION_ID", "KRX_KIND", Issuers[scope][edition][n].issuer, o)
  PROVE  LET e == Insert(d, IssuedByRows(scope, Issuers[scope][edition][n], security, ids))
         IN Keeps(e, scope, edition) /\ HasIssuer(e, security)
<1> DEFINE row == Issuers[scope][edition][n]
           W == IssuedByRows(scope, row, security, ids)
           e == Insert(d, W)
           Of(o) == FactId(security, scope, "ENTITY_RELATION", <<"SECURITY_ISSUED_BY", o>>)
           R(o) == [fact |-> Of(o), subject |-> SubjectOf(Of(o)), type |-> "SECURITY_ISSUED_BY", object |-> o]
           T(o) == {FactRow(Of(o), "RESOLVED"), <<"entity_relations", R(o)>>,
                    EvidenceRow(Of(o), IssuerAssertion(row), "SUPPORTS")}
<1>1. W = UNION {T(o) : o \in ids}
  BY DEF IssuedByRows, RelationRow
<1>2. \A o : /\ R(o).fact = Of(o) /\ R(o).subject = security /\ R(o).type = "SECURITY_ISSUED_BY" /\ R(o).object = o
             /\ SubjectOf(Of(o)) = security /\ SnapshotOf(Of(o)) = scope
             /\ KeyOf(Of(o))[1] = "SECURITY_ISSUED_BY" /\ KeyOf(Of(o))[2] = o
  BY DEF FactId, SubjectOf, SnapshotOf, KeyOf
<1>3. scope \notin Dataset
  BY StoreAssumption
<1> HIDE DEF Of, R
<1>4. /\ \A o \in ids : <<"entity_relations", R(o)>> \in W
      /\ \A w \in W : w[1] \in {"canonical_facts", "entity_relations", "fact_evidence_links"}
      /\ \A w \in W : w[1] = "entity_relations" => \E o \in ids : w[2] = R(o)
  <2>1. \A o : /\ FactRow(Of(o), "RESOLVED")[1] = "canonical_facts"
               /\ EvidenceRow(Of(o), IssuerAssertion(row), "SUPPORTS")[1] = "fact_evidence_links"
    BY DEF FactRow, EvidenceRow
  <2>2. \A o : <<"entity_relations", R(o)>>[1] = "entity_relations" /\ <<"entity_relations", R(o)>>[2] = R(o)
    OBVIOUS
  <2> HIDE DEF W
  <2> QED BY <1>1, <2>1, <2>2
<1> HIDE DEF W
<1>5. RowsFor(W, "entity_relations") = {R(o) : o \in ids}
  <2>1. \A o \in ids : R(o) \in RowsFor(W, "entity_relations")
    BY <1>4 DEF RowsFor
  <2>2. ASSUME NEW x \in RowsFor(W, "entity_relations")
        PROVE  \E o \in ids : x = R(o)
    <3>1. PICK w \in W : w[1] = "entity_relations" /\ w[2] = x
      BY RowIsWrite
    <3> QED BY <1>4, <3>1
  <2> QED BY <2>1, <2>2
<1>6. /\ RowsFor(W, "dataset_snapshots") = {} /\ RowsFor(W, "entity_identifiers") = {}
      /\ RowsFor(W, "securities") = {}
  BY <1>4 DEF RowsFor
<1>7. Grows(d, e, W) /\ \A t \in IssuerTables : d[t] \subseteq e[t]
  BY InsertGrows DEF Grows
<1>8. \A o \in ids : Keyed(R(o)) /\ Backed(e, R(o))
  <2> SUFFICES ASSUME NEW o \in ids PROVE Keyed(R(o)) /\ Backed(e, R(o))
    OBVIOUS
  <2>1. Keyed(R(o))
    BY <1>2 DEF Keyed
  <2>2. GivenBy(d, R(o), row)
    BY <1>2 DEF GivenBy
  <2>3. Backed(d, R(o))
    BY <1>2, <2>2 DEF Backed
  <2> QED BY <1>7, <2>1, <2>3, MoreIsKept
<1>9. MayIssue(e, W)
  BY <1>5, <1>6, <1>8 DEF MayIssue
<1>10. IssuersHeld(e)
  BY <1>7, <1>9, GrowthKeeps
<1>11. Held(e, scope, edition)
  BY <1>7, MoreIsKept
<1>12. HasIssuer(e, security)
  <2>1. PICK o \in ids : TRUE
    OBVIOUS
  <2>2. "entity_relations" \in DOMAIN d /\ "entity_relations" \in IssuerTables
    BY IssuerKeys DEF Database, IssuerTables
  <2>3. R(o) \in e["entity_relations"] \/ \E old \in d["entity_relations"] : Clash("entity_relations", R(o), old)
    BY <1>5, <2>1, <2>2, InsertFacts
  <2>4. CASE R(o) \in e["entity_relations"]
    BY <1>2, <2>4 DEF HasIssuer
  <2>5. ASSUME NEW old \in d["entity_relations"], Clash("entity_relations", R(o), old)
        PROVE  HasIssuer(e, security)
    <3>1. old.fact = Of(o)
      BY <1>2, <2>5, IssuerKeys DEF Clash, PartialKeys
    <3>2. Keyed(old)
      BY <1>2, <1>3, <3>1 DEF IssuersHeld
    <3>3. old.subject = security /\ old.type = "SECURITY_ISSUED_BY" /\ SnapshotOf(old.fact) = scope
      BY <1>2, <3>1, <3>2 DEF Keyed
    <3>4. old \in e["entity_relations"]
      BY <1>7, <2>2
    <3> QED BY <3>3, <3>4 DEF HasIssuer
  <2> QED BY <2>3, <2>4, <2>5
<1> QED BY <1>10, <1>11, <1>12 DEF Keeps, e, W

\* The issuer of a row whose ticker is not in conflict.
LEMMA IssuerKeeps ==
  ASSUME NEW d, Database(d), Sound(d), IssuersHeld(d), NEW scope \in Scope, scope \in DOMAIN Issuers,
         NEW edition \in DOMAIN Issuers[scope], Held(d, scope, edition),
         NEW n \in DOMAIN Issuers[scope][edition],
         Issuers[scope][edition][n].ticker \notin TickerConflicts(Issuers[scope][edition]),
         NEW security, Identifies(d, "TICKER", "KRX", Issuers[scope][edition][n].ticker, security)
  PROVE  Keeps(IntegrateIssuer(d, scope, Issuers[scope][edition][n], security), scope, edition)
<1> DEFINE row == Issuers[scope][edition][n]
           organization == OrganizationOf(d, row)
           ids == organization.resolution.ids
           first == Insert(d, organization.writes)
           second == Replace(first, "external_security_issuer_records",
                             {IssuerRecord(row, "RESOLVED", organization.resolution.status)})
           third == Insert(second, IssuedByRows(scope, row, security, ids))
<1>1. /\ IssuersHeld(first) /\ \A t \in IssuerTables : d[t] \subseteq first[t]
      /\ \A o \in ids : Identifies(first, "PROVIDER_ORGANIZATION_ID", "KRX_KIND", row.issuer, o)
  BY OrganizationKeeps
<1>2. Database(first)
  BY InsertFacts DEF Database
<1> HIDE DEF first, ids
<1>3. Database(second) /\ \A t \in IssuerTables : second[t] = first[t]
  BY <1>2, IssuerKeys DEF Replace, Database
<1>4. IssuersHeld(second)
  BY <1>1, <1>2, <1>3, OtherTableKeeps
<1> HIDE DEF second
<1>5. \A t \in IssuerTables : d[t] \subseteq second[t]
  BY <1>1, <1>3
<1>6. /\ Held(second, scope, edition)
      /\ Identifies(second, "TICKER", "KRX", row.ticker, security)
      /\ \A o \in ids : Identifies(second, "PROVIDER_ORGANIZATION_ID", "KRX_KIND", row.issuer, o)
  <2>1. \A t \in IssuerTables : first[t] \subseteq second[t]
    BY <1>3
  <2> QED BY <1>1, <1>5, <2>1, MoreIsKept
<1>7. ids # {} => Keeps(third, scope, edition) /\ HasIssuer(third, security)
  BY <1>3, <1>4, <1>6, IssuedByKeeps
<1>8. Database(third)
  BY <1>3, InsertFacts DEF Database
<1> HIDE DEF third, row
<1>9. \A status : status # "RESOLVED" => Keeps(SetIssuerStatus(second, {security}, status), scope, edition)
  BY <1>3, <1>4, <1>6, StatusKeeps DEF Keeps
<1>10. ids # {} => Keeps(SetIssuerStatus(third, {security}, "RESOLVED"), scope, edition)
  BY <1>7, <1>8, StatusKeeps DEF Keeps
<1> HIDE DEF organization
<1>11. \/ \E status : /\ status # "RESOLVED"
                     /\ IntegrateIssuer(d, scope, row, security) = SetIssuerStatus(second, {security}, status)
       \/ /\ ids # {}
          /\ IntegrateIssuer(d, scope, row, security) = SetIssuerStatus(third, {security}, "RESOLVED")
  BY DEF IntegrateIssuer, organization, first, second, third, ids
<1> QED BY <1>9, <1>10, <1>11 DEF row

\* A row of a scope of issuers.
LEMMA IssuerRowKeeps ==
  ASSUME NEW d, Database(d), Sound(d), IssuersHeld(d), NEW scope \in Scope, scope \in DOMAIN Issuers,
         NEW edition \in DOMAIN Issuers[scope], Held(d, scope, edition),
         NEW n \in DOMAIN Issuers[scope][edition]
  PROVE  Keeps(IntegrateIssuerRow(d, scope, Issuers[scope][edition], n), scope, edition)
<1> DEFINE rows == Issuers[scope][edition]
           row == rows[n]
           disputed == row.issuer \in IssuerConflicts(rows)
           security == ListedSecurity(d, row, TickerConflicts(rows))
           link == {<<"source_record_entities", [record |-> NormalizedRecord(row), entity |-> s, role |-> "DESCRIBES"]>>
                      : s \in security.ids}
           record == IssuerRecord(row, security.status, IF disputed THEN "CONFLICT" ELSE "RESOLVED")
           S == SourceRows(scope, row, n, IssuerAssertion(row))
           W == S \cup {<<"external_security_issuer_records", record>>} \cup link
           recorded == Insert(d, W)
<1>1. \A w \in link : Silent(w)
  BY DEF Silent
<1>2. Silent(<<"external_security_issuer_records", record>>)
  BY DEF Silent
<1>3. \A w \in S : Silent(w)
  BY SourceRowsSilent
<1>4. security.ids # {} => row.ticker \notin TickerConflicts(rows)
  BY DEF ListedSecurity, Resolution
<1>5. \A s \in security.ids : Identifies(d, "TICKER", "KRX", row.ticker, s)
  BY DEF ListedSecurity, Resolution, Nobody, Owners, Identifies
<1> HIDE DEF link, record, S
<1>6. \A w \in W : Silent(w)
  BY <1>1, <1>2, <1>3
<1>7. \A w \in W : ForeignWrite(w) /\ w[1] \notin {"entity_relations", "canonical_facts"}
  <2>1. \A w \in link : ForeignWrite(w) /\ w[1] \notin {"entity_relations", "canonical_facts"}
    BY AssertionsForeign DEF ForeignWrite, Native, ReadTables, link
  <2>2. LET w == <<"external_security_issuer_records", record>>
        IN ForeignWrite(w) /\ w[1] \notin {"entity_relations", "canonical_facts"}
    BY DEF ForeignWrite, ReadTables
  <2>3. \A w \in S : ForeignWrite(w) /\ w[1] \notin {"entity_relations", "canonical_facts"}
    BY SourceRowsForeign DEF S
  <2> QED BY <2>1, <2>2, <2>3
<1> HIDE DEF W
<1>8. Keeps(recorded, scope, edition) /\ \A t \in IssuerTables : d[t] \subseteq recorded[t]
  BY <1>6, SilentKeeps, SilentInsert
<1>9. Database(recorded) /\ Sound(recorded)
  BY <1>7, PlainIsSupported, InsertLeaves DEF Leaves
<1> HIDE DEF recorded, security, disputed
<1>10. \A s \in security.ids : Identifies(recorded, "TICKER", "KRX", row.ticker, s)
  BY <1>5, <1>8, MoreIsKept
<1>11. \A s \in security.ids : Keeps(IntegrateIssuer(recorded, scope, row, s), scope, edition)
  BY <1>4, <1>8, <1>9, <1>10, IssuerKeeps DEF Keeps
<1>12. Keeps(SetIssuerStatus(recorded, security.ids, "UNRESOLVED"), scope, edition)
  BY <1>8, <1>9, StatusKeeps DEF Keeps
<1>13. security.ids # {} => (CHOOSE s \in security.ids : TRUE) \in security.ids
  OBVIOUS
<1> HIDE DEF row, rows
<1>14. \/ IntegrateIssuerRow(d, scope, rows, n) = recorded
       \/ IntegrateIssuerRow(d, scope, rows, n) = SetIssuerStatus(recorded, security.ids, "UNRESOLVED")
       \/ /\ security.ids # {}
          /\ IntegrateIssuerRow(d, scope, rows, n)
               = IntegrateIssuer(recorded, scope, row, CHOOSE s \in security.ids : TRUE)
  BY DEF IntegrateIssuerRow, recorded, security, disputed, row, record, link, S, W
<1> QED BY <1>8, <1>11, <1>12, <1>13, <1>14 DEF rows

LEMMA ReturnKeeps ==
  ASSUME NEW d, Database(d), IssuersHeld(d), NEW scope, NEW edition, Held(d, scope, edition), NEW row, NEW n
  PROVE  Keeps(IntegrateReturn(d, scope, row, n), scope, edition)
<1> DEFINE product == ReturnedProduct(d, row)
           S == SourceRows(scope, row, n, ReturnAssertion(row))
           external == <<"external_metric_records", [id |-> row.id, record |-> NormalizedRecord(row),
                                                     product |-> product.status]>>
           R == UNION {ReturnRows(scope, row, p) : p \in product.ids}
           W == S \cup {external} \cup R
<1>1. \A p : \A w \in ReturnRows(scope, row, p) : Silent(w)
  <2> SUFFICES ASSUME NEW p, NEW w \in ReturnRows(scope, row, p)
               PROVE  Silent(w)
    OBVIOUS
  <2>1. PICK fact : fact = FactId(p, scope, "METRIC", <<"ONE_YEAR_RETURN", "NAV_TOTAL_RETURN", row.day>>)
    OBVIOUS
  <2>2. w \in {<<"source_record_entities", [record |-> NormalizedRecord(row), entity |-> p, role |-> "DESCRIBES"]>>,
               FactRow(fact, "RESOLVED"), EvidenceRow(fact, ReturnAssertion(row), "SUPPORTS"),
               <<"metric_observations", [fact |-> fact, metric |-> "ONE_YEAR_RETURN", value |-> row.value]>>}
    BY <2>1 DEF ReturnRows
  <2>3. w[1] \in {"source_record_entities", "canonical_facts", "fact_evidence_links", "metric_observations"}
    BY <2>2 DEF FactRow, EvidenceRow
  <2> QED BY <2>3 DEF Silent
<1>2. Silent(external)
  BY DEF Silent
<1>3. \A w \in S : Silent(w)
  BY SourceRowsSilent
<1>4. IntegrateReturn(d, scope, row, n) = Insert(d, W)
  BY DEF IntegrateReturn
<1> HIDE DEF S, external, product
<1>5. \A w \in W : Silent(w)
  BY <1>1, <1>2, <1>3
<1> HIDE DEF W
<1> QED BY <1>4, <1>5, SilentKeeps

LEMMA RowKeeps ==
  ASSUME NEW d, Database(d), Sound(d), IssuersHeld(d), NEW scope \in Scope,
         NEW edition \in DOMAIN Editions[scope], Held(d, scope, edition),
         NEW n \in DOMAIN Editions[scope][edition]
  PROVE  Keeps(IntegrateRow(d, scope, Editions[scope][edition], n), scope, edition)
<1> DEFINE rows == Editions[scope][edition]
<1>1. CASE scope \in DOMAIN Holdings
  <2>1. IntegrateRow(d, scope, rows, n) = IntegrateHolding(d, scope, rows[n], n)
    BY <1>1, ScopeAssumption DEF IntegrateRow
  <2> HIDE DEF rows
  <2> QED BY <2>1, HoldingKeeps DEF rows
<1>2. CASE scope \in DOMAIN Issuers
  <2>1. Editions[scope] = Issuers[scope]
    BY <1>2, ScopeAssumption DEF Editions
  <2>2. IntegrateRow(d, scope, rows, n) = IntegrateIssuerRow(d, scope, rows, n)
    BY <1>2, ScopeAssumption DEF IntegrateRow
  <2> QED BY <1>2, <2>1, <2>2, IssuerRowKeeps
<1>3. CASE scope \in DOMAIN Returns
  <2>1. IntegrateRow(d, scope, rows, n) = IntegrateReturn(d, scope, rows[n], n)
    BY <1>3, ScopeAssumption DEF IntegrateRow
  <2> HIDE DEF rows
  <2> QED BY <2>1, ReturnKeeps DEF rows
<1> QED BY <1>1, <1>2, <1>3 DEF Scope

\* A scope that is registered is integrated as what it was registered with.
LEMMA IntegrateKeeps ==
  ASSUME NEW d, Database(d), Sound(d), IssuersHeld(d), NEW scope \in Scope,
         NEW edition \in DOMAIN Editions[scope], Compatible(d, scope, edition)
  PROVE  Keeps(Integrate(d, scope, edition), scope, edition)
<1> DEFINE rows == Editions[scope][edition]
           L == Len(rows)
           snapshot == [id |-> scope, data |-> edition]
           W == {SnapshotRow(scope, edition)}
           start == Insert(d, W)
           after == CHOOSE f : IntegrationRun(f, start, scope, rows, L)
<1>1. L \in Nat /\ DOMAIN rows = 1..L
  BY ScopeAssumption DEF Editions, Scope
<1>2. Integrate(d, scope, edition) = after[L]
  BY DEF Integrate, IntegrationRun
<1>3. IntegrationRun(after, start, scope, rows, L)
  BY <1>1, IntegrationRuns
<1>4. Database(start) /\ Sound(start)
  <2>1. LET w == SnapshotRow(scope, edition)
        IN ForeignWrite(w) /\ w[1] \notin {"entity_relations", "canonical_facts"}
    BY DEF SnapshotRow, ForeignWrite, ReadTables
  <2> QED BY <2>1, PlainIsSupported, InsertLeaves DEF Leaves
<1>5. W = {<<"dataset_snapshots", snapshot>>} /\ snapshot.id = scope /\ snapshot.data = edition
  BY DEF SnapshotRow
<1> HIDE DEF snapshot, W
<1>6. /\ \A s : s \in RowsFor(W, "dataset_snapshots") <=> s = snapshot
      /\ RowsFor(W, "entity_identifiers") = {} /\ RowsFor(W, "entity_relations") = {}
      /\ RowsFor(W, "securities") = {}
  <2>1. snapshot \in RowsFor(W, "dataset_snapshots")
    <3>1. PICK w \in W : w[1] = "dataset_snapshots" /\ w[2] = snapshot
      BY <1>5
    <3> QED BY <3>1 DEF RowsFor
  <2>2. ASSUME NEW t, NEW s \in RowsFor(W, t)
        PROVE  t = "dataset_snapshots" /\ s = snapshot
    <3>1. PICK w \in W : w[1] = t /\ w[2] = s
      BY RowIsWrite
    <3> QED BY <1>5, <3>1
  <2> QED BY <2>1, <2>2
<1>7. IssuersHeld(start)
  <2>1. MayIssue(start, W)
    BY <1>6 DEF MayIssue
  <2> QED BY <2>1, InsertGrows, GrowthKeeps
<1>8. Held(start, scope, edition)
  <2>1. "dataset_snapshots" \in DOMAIN d
    BY IssuerKeys DEF Database, IssuerTables
  <2>2. snapshot \in start["dataset_snapshots"] \/ \E old \in d["dataset_snapshots"] : Clash("dataset_snapshots", snapshot, old)
    BY <1>6, <2>1, InsertFacts
  <2>3. CASE snapshot \in start["dataset_snapshots"]
    BY <1>5, <2>3 DEF Held
  <2>4. ASSUME NEW old \in d["dataset_snapshots"], Clash("dataset_snapshots", snapshot, old)
        PROVE  Held(start, scope, edition)
    <3>1. old.id = scope
      BY <1>5, <2>4, IssuerKeys DEF Clash, PartialKeys
    <3>2. old.data = edition
      BY <3>1 DEF Compatible
    <3>3. old \in start["dataset_snapshots"]
      BY <2>1, InsertFacts
    <3> QED BY <3>1, <3>2, <3>3 DEF Held
  <2> QED BY <2>2, <2>3, <2>4
<1> HIDE DEF after, start, rows, L
<1> DEFINE Good(e) == Database(e) /\ Sound(e) /\ Keeps(e, scope, edition)
           N == {n \in 0..L : Good(after[n])}
<1>9. 0 \in N
  BY <1>1, <1>3, <1>4, <1>7, <1>8 DEF IntegrationRun, Keeps
<1>10. ASSUME NEW n \in 1..L, n - 1 \in N
       PROVE  n \in N
  <2>1. after[n] = IntegrateRow(after[n - 1], scope, rows, n)
    BY <1>1, <1>3 DEF IntegrationRun
  <2>2. Good(after[n - 1])
    BY <1>10
  <2>3. Database(after[n]) /\ Sound(after[n])
    BY <2>1, <2>2, RowLeaves DEF Leaves
  <2>4. Keeps(after[n], scope, edition)
    BY <1>1, <2>1, <2>2, RowKeeps DEF Keeps, rows
  <2> QED BY <2>3, <2>4
<1> HIDE DEF N
<1>11. L \in N
  BY <1>1, <1>9, <1>10, UpTo
<1> QED BY <1>2, <1>11 DEF N

LEMMA ActivatedKeeps ==
  ASSUME NEW d, Database(d), Sound(d), IssuersHeld(d), NEW scope \in Scope,
         NEW edition \in DOMAIN Editions[scope], Compatible(d, scope, edition)
  PROVE  IssuersHeld(Activated(d, scope, edition))
<1> DEFINE e == Integrate(d, scope, edition)
<1>1. Keeps(e, scope, edition) /\ Database(e) /\ Sound(e)
  BY IntegrateKeeps, IntegrateLeaves DEF Leaves
<1>2. Compatible(e, scope, edition)
  <2> HIDE DEF e
  <2>1. PICK a \in e["dataset_snapshots"] : a.id = scope /\ a.data = edition
    BY <1>1 DEF Keeps, Held
  <2> QED BY <1>1, <2>1 DEF Compatible, Keeps, IssuersHeld
<1> QED BY <1>1, <1>2, IntegrateKeeps DEF Activated, Keeps

(* The invariant. *)

\* What the rebuilds own is traced always, READY or not; of a READY store it is
\* also complete, and every disputed column is kept.  What the reconciliation
\* sees is nothing, or what one rebuild of the material writes into an empty
\* store.  Neither a failed rebuild nor an activation changes either.  What the
\* scopes of issuers have left of relations, each is given by one of their rows.
StoreInv ==
  /\ StoreTypeOK
  /\ Traced(Own(db), material)
  /\ canonical = "READY" => Complete(Own(db), material) /\ DisputesKept(Own(db), material)
  /\ Sound(db)
  /\ View(db) \in {View(Empty), View(WrittenTo(Empty, material))}
  /\ IssuersHeld(db)

LEMMA EmptySound == Database(Empty) /\ Sound(Empty) /\ IssuersHeld(Empty)
<1>1. /\ DOMAIN Empty = DOMAIN Keys
      /\ \A t \in DOMAIN Keys : Empty[t] = {}
  BY DEF Empty
<1>2. \A t \in ReadTables : Empty[t] = {}
  BY <1>1, KeysOfRead
<1>3. \A t \in IssuerTables : Empty[t] = {}
  BY <1>1, IssuerKeys
<1>4. IssuersHeld(Empty)
  BY <1>3 DEF IssuersHeld, IssuerTables
<1> QED BY <1>1, <1>2, <1>4 DEF Database, Sound, ReadTables

LEMMA InitStore ==
  ASSUME Init
  PROVE  StoreInv
<1>1. StoreTypeOK
  BY DEF Init, StoreTypeOK, Empty
<1>2. /\ Own(db).records = {} /\ Own(db).quarantine = {} /\ Own(db).links = {}
      /\ Own(db).facts = {} /\ Own(db).evidence = {} /\ Own(db).conflicts = {}
  BY KeysOfOwn DEF Init, Empty, Own
<1>3. Traced(Own(db), material)
  BY <1>2 DEF Traced
<1>4. db = Empty /\ canonical # "READY"
  BY DEF Init
<1> QED BY <1>1, <1>3, <1>4, EmptySound DEF StoreInv

\* A rebuild of the invariant's store shows what one of an empty store shows.
LEMMA RebuildShows ==
  ASSUME NEW m \in Materials, NEW d, Database(d), Sound(d), View(d) \in {View(Empty), View(WrittenTo(Empty, m))}
  PROVE  Sound(WrittenTo(d, m)) /\ View(WrittenTo(d, m)) = View(WrittenTo(Empty, m))
<1>1. PICK v : v[0] = View(Empty) /\ ViewRun(v, m) /\ v[Len(m) + 1] = View(WrittenTo(Empty, m))
  BY EmptySound, BatchesFit, RebuildViews
<1>2. Sound(WrittenTo(d, m))
  BY BatchesFit, RebuildViews
<1>3. PICK u : u[0] = View(d) /\ ViewRun(u, m) /\ u[Len(m) + 1] = View(WrittenTo(d, m))
  BY BatchesFit, RebuildViews
<1>4. CASE View(d) = View(Empty)
  BY <1>1, <1>2, <1>3, <1>4, SameRun
<1>5. CASE View(d) = View(WrittenTo(Empty, m))
  BY <1>1, <1>2, <1>3, <1>5, RunAgain
<1> QED BY <1>4, <1>5

LEMMA CommitStep ==
  ASSUME StoreInv, canonical = "STAGED", CommitRebuild(WrittenTo(db, material))
  PROVE  StoreInv'
<1> DEFINE rebuilt == WrittenTo(db, material)
<1>1. material \in Materials /\ Database(db) /\ Traced(Own(db), material)
  BY DEF StoreInv, StoreTypeOK, Database
<1>2. Database(rebuilt) /\ Traced(Own(rebuilt), material) /\ DisputesKept(Own(rebuilt), material)
  BY <1>1, RebuildTraced
<1>3. Sound(rebuilt) /\ View(rebuilt) = View(WrittenTo(Empty, material))
  BY <1>1, RebuildShows DEF StoreInv
<1> HIDE DEF rebuilt
<1>4. /\ Reconciles(rebuilt, material) /\ canonical' = "READY" /\ db' = rebuilt
      /\ stale' \subseteq DOMAIN activated /\ material' = material /\ activated' = activated
  BY DEF CommitRebuild, rebuilt, StoreInv, StoreTypeOK
<1>5. Complete(Own(rebuilt), material)
  BY <1>1, <1>2, <1>4, ReconciledIsComplete
<1>6. StoreTypeOK'
  BY <1>1, <1>2, <1>4 DEF StoreInv, StoreTypeOK, Database
<1>7. Sound(db)' /\ (View(db) = View(WrittenTo(Empty, material)))'
  BY <1>3, <1>4
<1>8. IssuersHeld(rebuilt)
  BY <1>1, RebuildKeeps DEF StoreInv, rebuilt
<1>9. IssuersHeld(db)'
  BY <1>4, <1>8
<1> QED BY <1>2, <1>4, <1>5, <1>6, <1>7, <1>9 DEF StoreInv

LEMMA ActivateStep ==
  ASSUME StoreInv, NEW scope \in Scope, NEW edition \in DOMAIN Editions[scope], Activate(scope, edition)
  PROVE  StoreInv'
<1>1. Leaves(db, db')
  BY ActivatedLeaves DEF StoreInv, StoreTypeOK, Database, Activate
<1>2. Own(db') = Own(db) /\ View(db') = View(db) /\ Sound(db') /\ DOMAIN db' = DOMAIN Keys
  BY <1>1 DEF Leaves, Database
<1>3. ReadersOf(scope) \subseteq DOMAIN activated
  BY DEF ReadersOf
<1>4. DOMAIN activated' = DOMAIN activated \cup {scope}
  BY DEF Activate
<1>5. StoreTypeOK'
  BY <1>2, <1>3, <1>4 DEF Activate, StoreInv, StoreTypeOK
<1>6. Own(db)' = Own(db) /\ View(db)' = View(db) /\ Sound(db)'
  BY <1>2
<1>7. View(WrittenTo(Empty, material))' = View(WrittenTo(Empty, material))
  BY DEF Activate
<1>8. IssuersHeld(db')
  BY ActivatedKeeps DEF StoreInv, StoreTypeOK, Database, Activate
<1>9. IssuersHeld(db)'
  BY <1>8
<1> QED BY <1>5, <1>6, <1>7, <1>9 DEF Activate, StoreInv

LEMMA NextStore ==
  ASSUME StoreInv, [Next]_vars
  PROVE  StoreInv'
<1>1. ASSUME UNCHANGED db, UNCHANGED material, canonical' # "READY" \/ canonical' = canonical,
             StoreTypeOK'
      PROVE  StoreInv'
  BY <1>1 DEF StoreInv
<1>2. CASE BeginRebuild
  BY <1>1, <1>2 DEF BeginRebuild, StoreInv, StoreTypeOK
<1>3. ASSUME Abandon PROVE StoreInv'
  BY <1>1, <1>3 DEF Abandon, StoreInv, StoreTypeOK
<1>4. CASE EndRebuild
  BY <1>3, <1>4, CommitStep DEF EndRebuild
<1>5. CASE FailRebuild
  BY <1>3, <1>5 DEF FailRebuild
<1>6. CASE Upgrade
  BY <1>1, <1>6 DEF Upgrade, StoreInv, StoreTypeOK
<1>7. CASE \E scope \in Scope : \E edition \in DOMAIN Editions[scope] : Activate(scope, edition)
  BY <1>7, ActivateStep
<1>8. CASE UNCHANGED vars
  BY <1>1, <1>8 DEF vars, StoreInv, StoreTypeOK
<1> QED BY <1>2, <1>4, <1>5, <1>6, <1>7, <1>8 DEF Next

\* The invariant holds in every state, for any workbooks and external scopes.
THEOREM StoreInvariance == Spec => []StoreInv
<1>1. Init => StoreInv
  BY InitStore
<1>2. StoreInv /\ [Next]_vars => StoreInv'
  BY NextStore
<1> QED BY <1>1, <1>2, PTL DEF Spec

\* The variables have their types.
THEOREM StoreTypeCorrect == Spec => []StoreTypeOK
<1>1. StoreInv => StoreTypeOK
  BY DEF StoreInv
<1> QED BY <1>1, StoreInvariance, PTL

\* In a READY store every row of the workbooks has its source record or its
\* quarantine record, whatever was activated before, during or after the
\* rebuild, and a fact of the workbooks rests on records linked to its subject
\* (v2_rebuild.py:1080-1151, 2050-2100).
THEOREM ReadyRowsAreTracedCorrect == Spec => []ReadyRowsAreTraced
<1>1. StoreInv => ReadyRowsAreTraced
  <2> SUFFICES ASSUME StoreInv, canonical = "READY"
               PROVE  ReadyRowsAreTraced
    BY DEF ReadyRowsAreTraced
  <2>1. Complete(Own(db), material) /\ Traced(Own(db), material)
    BY DEF StoreInv
  <2>2. ASSUME NEW i \in DOMAIN material
        PROVE  IF Valid(material[i])
                 THEN [id |-> Record(material[i]), snapshot |-> material[i].ds,
                       key |-> SourceKey(material[i]), n |-> material[i].n] \in db["source_records"]
                 ELSE [snapshot |-> material[i].ds, n |-> material[i].n] \in db["quarantine_records"]
    BY <2>1 DEF Complete, Own, RecordRow, QuarantineRow
  <2>3. ASSUME NEW f \in db["canonical_facts"], SnapshotOf(f.id) \in Dataset, NEW a \in EvidenceOf(db, f.id)
        PROVE  Linked(a[1], SubjectOf(f.id))
    <3>1. PICK l \in db["fact_evidence_links"] : l.fact = f.id /\ l.assertion = a
      BY DEF EvidenceOf
    <3>2. l \in Own(db).evidence
      BY <2>3, <3>1 DEF Own
    <3>3. Landed(Own(db), a[1], SubjectOf(f.id))
      BY <2>1, <3>1, <3>2 DEF Traced
    <3> QED BY <3>3 DEF Landed, Own, Linked
  <2> QED BY <2>2, <2>3 DEF ReadyRowsAreTraced
<1> QED BY <1>1, StoreInvariance, PTL

\* What a row states of a disputed column is one of its values, and is cited.
LEMMA StatementShape ==
  ASSUME NEW m \in Materials, NEW d \in DisputedOf(AuditOf[m]),
         NEW i \in ValidRows(m), d[1] \in Support(m[i]), Has(m[i], d[2])
  PROVE  i \in StatingRows(m, AuditOf[m], d) /\ <<Record(m[i]), d[2]>> \in Cite(m[i], d[2])
<1> DEFINE s == d[1]
           c == d[2]
<1>1. m[i].ds \in Dataset
  BY MaterialAssumption DEF ValidRows
<1>2. PICK j \in ValidRows(m) : s \in Support(m[j]) /\ c \in WatchedColumns[m[j].ds]
  BY DisputedIsStated DEF DisputedOf
<1>3. m[j].ds \in Dataset
  BY MaterialAssumption DEF ValidRows
<1>4. m[i].ds = m[j].ds /\ m[i].ds \in {Bond, Fund}
  BY <1>1, <1>2, <1>3, SupportShape DEF Bond, Fund
<1>5. c \in WatchedColumns[m[i].ds]
  BY <1>2, <1>4
<1> DEFINE r == m[i]
           V(x) == {<<p, w, Cell(x, w)>> : p \in Support(x), w \in {y \in WatchedColumns[x.ds] : Has(x, y)}}
<1>6. <<s, c, Cell(r, c)>> \in V(r)
  BY <1>5
<1>7. AuditOf[m].values = UNION {V(x) : x \in {m[k] : k \in ValidRows(m)}}
  BY DEF AuditOf, Audit
<1>8. <<s, c, Cell(r, c)>> \in AuditOf[m].values
  <2> HIDE DEF V
  <2> QED BY <1>6, <1>7
<1>9. Cell(r, c) \in Values(AuditOf[m], s, c)
  <2>1. \E v \in AuditOf[m].values : v[1] = s /\ v[2] = c /\ v[3] = Cell(r, c)
    BY <1>8
  <2> QED BY <2>1 DEF Values
<1>10. c \in Asserted(r)
  <2>1. c \in DOMAIN r.cells
    BY DEF Has, Cell
  <2>2. c \notin Untargeted[r.ds]
    BY <1>4, <1>5 DEF Untargeted, WatchedColumns, Dataset, Bond, Fund, Domestic, Foreign
  <2> QED BY <2>1, <2>2 DEF Asserted
<1> QED BY <1>9, <1>10 DEF StatingRows, Cite

\* In a READY store no resolved fact rests on a statement of a disputed column,
\* and every such statement is the evidence of a conflict of the entity, whose
\* case counts the values (v2_rebuild.py:1965-1999).
THEOREM DisputedColumnsStayOpenCorrect == Spec => []DisputedColumnsStayOpen
<1>1. StoreInv => DisputedColumnsStayOpen
  <2> SUFFICES ASSUME StoreInv, canonical = "READY", NEW d \in Compared
               PROVE  /\ \A f \in FactsOf(d[1], "RESOLVED") : EvidenceOf(db, f) \cap Statements(material, d) = {}
                      /\ \A a \in Statements(material, d) : \E f \in FactsOf(d[1], "CONFLICT") : a \in EvidenceOf(db, f)
                      /\ \E c \in db["fact_conflict_cases"] :
                           c.id = d /\ c.facts = Cardinality(Values(AuditOf[material], d[1], d[2]))
    BY DEF DisputedColumnsStayOpen
  <2>1. material \in Materials /\ Traced(Own(db), material) /\ DisputesKept(Own(db), material)
    BY DEF StoreInv, StoreTypeOK
  <2>2. d \in DisputedOf(AuditOf[material]) /\ d[2] # "pd_risk_gcd" /\ Disputed(AuditOf[material], d[1], d[2])
    BY <2>1 DEF Compared, DisputedColumns, DisputedOf
  <2>3. Kept(Own(db), material, d)
    BY <2>1, <2>2 DEF DisputesKept
  <2>4. ASSUME NEW a \in Statements(material, d)
        PROVE  \E i \in ValidRows(material) :
                 /\ d[1] \in Support(material[i]) /\ Has(material[i], d[2])
                 /\ a = <<Record(material[i]), d[2]>> /\ a[1][1] = "record" /\ a[2] = d[2]
    BY RecordIsRecord DEF Statements
  <2>5. ASSUME NEW f \in FactsOf(d[1], "RESOLVED"), NEW a \in EvidenceOf(db, f) \cap Statements(material, d)
        PROVE  FALSE
    <3>1. PICK x \in db["canonical_facts"] : x.id = f /\ SubjectOf(f) = d[1] /\ x.status = "RESOLVED"
      BY DEF FactsOf
    <3>2. PICK l \in db["fact_evidence_links"] : l.fact = f /\ l.assertion = a
      BY DEF EvidenceOf
    <3>3. l \in Own(db).evidence
      BY <3>2, <2>4 DEF Own
    <3>4. Rests(material, l)
      BY <2>1, <3>3 DEF Traced
    <3>5. SnapshotOf(f) \in Dataset /\ ConflictKey(f)
      BY <2>2, <2>4, <3>1, <3>2, <3>4 DEF Rests, Quiet
    <3>6. x \in Own(db).facts
      BY <3>1, <3>5 DEF Own
    <3>7. x.status = "CONFLICT"
      BY <2>1, <3>1, <3>5, <3>6 DEF Traced, StatusOf
    <3> QED BY <3>1, <3>7
  <2>6. ASSUME NEW a \in Statements(material, d)
        PROVE  \E f \in FactsOf(d[1], "CONFLICT") : a \in EvidenceOf(db, f)
    <3>1. PICK i \in ValidRows(material) :
            d[1] \in Support(material[i]) /\ Has(material[i], d[2]) /\ a = <<Record(material[i]), d[2]>>
      BY <2>4
    <3>2. i \in StatingRows(material, AuditOf[material], d) /\ a \in Cite(material[i], d[2])
      BY <2>1, <2>2, <3>1, StatementShape
    <3> DEFINE fact == ConflictFact(material[i], d)
    <3>3. SubjectOf(fact) = d[1]
      BY ConflictFactShape
    <3> HIDE DEF fact
    <3>4. PICK f \in Own(db).facts : f.id = fact /\ f.status = "CONFLICT"
      BY <2>3, <3>2 DEF Kept, fact
    <3>5. PICK l \in Own(db).evidence : l.fact = fact /\ l.assertion = a
      BY <2>3, <3>2 DEF Kept, fact
    <3>6. fact \in FactsOf(d[1], "CONFLICT")
      BY <3>3, <3>4 DEF FactsOf, Own
    <3>7. a \in EvidenceOf(db, fact)
      BY <3>5 DEF EvidenceOf, Own
    <3> QED BY <3>6, <3>7
  <2>7. \E c \in db["fact_conflict_cases"] :
          c.id = d /\ c.facts = Cardinality(Values(AuditOf[material], d[1], d[2]))
    BY <2>3 DEF Kept, Own
  <2> QED BY <2>5, <2>6, <2>7
<1> QED BY <1>1, StoreInvariance, PTL

\* Workbooks that reconcile in an empty database reconcile in every store that
\* rebuilds and activations can leave: what reconciliation reads of the store is
\* then the same, and what it finds beside it is approved
\* (v2_rebuild.py:2050-2100).
THEOREM RebuildIsAcceptedCorrect == Spec => []RebuildIsAccepted
<1>1. StoreInv => RebuildIsAccepted
  <2> SUFFICES ASSUME StoreInv, Acceptable[material]
               PROVE  Reconciles(WrittenTo(db, material), material)
    BY DEF RebuildIsAccepted
  <2>1. material \in Materials /\ Database(db) /\ Sound(db)
    BY DEF StoreInv, StoreTypeOK, Database
  <2>2. Reconciles(WrittenTo(Empty, material), material)
    BY <2>1 DEF Acceptable
  <2>3. Sound(WrittenTo(db, material)) /\ View(WrittenTo(db, material)) = View(WrittenTo(Empty, material))
    BY <2>1, RebuildShows DEF StoreInv
  <2>4. Sound(WrittenTo(Empty, material))
    BY <2>1, EmptySound, RebuildShows
  <2> QED BY <2>2, <2>3, <2>4, SameReconciles
<1> QED BY <1>1, StoreInvariance, PTL

\* Some row of the scope that is not in conflict names both.
GivenFor(scope, o, ticker) ==
  \E edition \in DOMAIN Issuers[scope] :
    /\ Held(db, scope, edition)
    /\ LET rows == Issuers[scope][edition]
       IN \E n \in DOMAIN rows :
            /\ rows[n].ticker = ticker /\ ticker \notin TickerConflicts(rows)
            /\ Identifies(db, "PROVIDER_ORGANIZATION_ID", "KRX_KIND", rows[n].issuer, o)

\* An issuer of a security is given for one of its tickers.
LEMMA IssuerHasTicker ==
  ASSUME StoreInv, NEW scope \in DOMAIN Issuers, NEW security, NEW o \in IssuersOf(scope, security)
  PROVE  \E t \in TickersOf(security) : GivenFor(scope, o, t)
<1>1. scope \notin Dataset
  BY StoreAssumption DEF Scope
<1>2. PICK x \in db["entity_relations"] :
        x.type = "SECURITY_ISSUED_BY" /\ x.subject = security /\ SnapshotOf(x.fact) = scope /\ x.object = o
  BY DEF IssuersOf
<1>3. Backed(db, x)
  BY <1>1, <1>2 DEF StoreInv, IssuersHeld
<1>4. PICK edition \in DOMAIN Issuers[scope] : \E k \in DOMAIN Issuers[scope][edition] :
        /\ Held(db, scope, edition)
        /\ Issuers[scope][edition][k].ticker \notin TickerConflicts(Issuers[scope][edition])
        /\ GivenBy(db, x, Issuers[scope][edition][k])
  BY <1>2, <1>3 DEF Backed
<1>5. PICK n \in DOMAIN Issuers[scope][edition] :
        /\ Held(db, scope, edition)
        /\ Issuers[scope][edition][n].ticker \notin TickerConflicts(Issuers[scope][edition])
        /\ GivenBy(db, x, Issuers[scope][edition][n])
  BY <1>4
<1> DEFINE t == Issuers[scope][edition][n].ticker
<1>6. t \in TickersOf(security)
  BY <1>2, <1>5 DEF GivenBy, Identifies, TickersOf
<1>7. GivenFor(scope, o, t)
  BY <1>2, <1>5 DEF GivenFor, GivenBy
<1> QED BY <1>6, <1>7

\* A ticker gives one issuer.
LEMMA TickerHasIssuer ==
  ASSUME StoreInv, NEW scope \in DOMAIN Issuers, NEW t, NEW o, NEW p, GivenFor(scope, o, t), GivenFor(scope, p, t)
  PROVE  o = p
<1> DEFINE Rows(edition) == Issuers[scope][edition]
           Gives(edition, n, x) ==
             /\ Rows(edition)[n].ticker = t /\ t \notin TickerConflicts(Rows(edition))
             /\ Identifies(db, "PROVIDER_ORGANIZATION_ID", "KRX_KIND", Rows(edition)[n].issuer, x)
<1>1. PICK a \in DOMAIN Issuers[scope] : Held(db, scope, a) /\ \E n \in DOMAIN Rows(a) : Gives(a, n, o)
  BY DEF GivenFor
<1>2. PICK b \in DOMAIN Issuers[scope] : Held(db, scope, b) /\ \E n \in DOMAIN Rows(b) : Gives(b, n, p)
  BY DEF GivenFor
<1>3. a = b
  BY <1>1, <1>2 DEF StoreInv, IssuersHeld, Held
<1>4. PICK n \in DOMAIN Rows(a) : Gives(a, n, o)
  BY <1>1
<1>5. PICK k \in DOMAIN Rows(a) : Gives(a, k, p)
  BY <1>2, <1>3
<1>6. Rows(a)[n].issuer = Rows(a)[k].issuer
  BY <1>4, <1>5 DEF TickerConflicts
<1> QED BY <1>4, <1>5, <1>6 DEF Identifies, StoreInv, IssuersHeld, OwnsName

\* A scope of issuers gives a security one issuer for each of its tickers at
\* most, whatever tickers and names its rows repeat; and a security is called
\* resolved only by the row that relates it to an issuer, which stays, whatever
\* rows, scopes and rebuilds come after (security_issuers.py:315-430).
THEOREM OneIssuerPerTickerCorrect == Spec => []OneIssuerPerTicker
<1>1. ASSUME StoreInv, NEW s \in db["securities"], NEW scope \in DOMAIN Issuers
      PROVE  ExistsInjection(IssuersOf(scope, s.id), TickersOf(s.id))
  <2> DEFINE I == IssuersOf(scope, s.id)
             T == TickersOf(s.id)
             f == [o \in I |-> CHOOSE t \in T : GivenFor(scope, o, t)]
  <2>1. \A o \in I : \E t \in T : GivenFor(scope, o, t)
    BY <1>1, IssuerHasTicker
  <2>2. \A o, p, t : GivenFor(scope, o, t) /\ GivenFor(scope, p, t) => o = p
    BY <1>1, TickerHasIssuer
  <2> HIDE DEF I, T
  <2>3. \A o \in I : f[o] \in T /\ GivenFor(scope, o, f[o])
    BY <2>1
  <2>4. f \in [I -> T]
    BY <2>3
  <2>5. \A o \in I : \A p \in I : f[o] = f[p] => o = p
    <3> HIDE DEF f
    <3> QED BY <2>2, <2>3
  <2>6. DOMAIN f = I
    OBVIOUS
  <2> HIDE DEF f
  <2>7. f \in Injection(I, T)
    BY <2>4, <2>5, <2>6 DEF Injection, IsInjective
  <2> QED BY <2>7 DEF ExistsInjection, I, T
<1>2. ASSUME StoreInv, NEW s \in db["securities"], s.issuer = "RESOLVED"
      PROVE  \E scope \in DOMAIN Issuers : IssuersOf(scope, s.id) # {}
  <2>1. PICK x \in db["entity_relations"] :
          x.type = "SECURITY_ISSUED_BY" /\ x.subject = s.id /\ SnapshotOf(x.fact) \in DOMAIN Issuers
    BY <1>2 DEF StoreInv, IssuersHeld, HasIssuer
  <2>2. x.object \in IssuersOf(SnapshotOf(x.fact), s.id)
    BY <2>1 DEF IssuersOf
  <2> QED BY <2>1, <2>2
<1>3. StoreInv => OneIssuerPerTicker
  BY <1>1, <1>2 DEF OneIssuerPerTicker
<1> QED BY <1>3, StoreInvariance, PTL
===============================================================================
