---------------------------- MODULE CanonicalSchema ----------------------------
(***************************************************************************)
(* The tables of canonical_v2 (v2_schema.py) as far as rows can clash in   *)
(* them.  A database maps each table to its rows, a row is a record of the *)
(* columns something reads, and an insert that clashes with a stored row   *)
(* in a unique key does nothing (on_conflict_do_nothing).  Generated keys, *)
(* checks of single columns and tables that are only ever written          *)
(* (manifests, artifacts, schemes, metric definitions, runs) are left out. *)
(***************************************************************************)
EXTENDS FiniteSets, Sequences, SequencesExt, TLC

\* Every table with its unique keys, each a set of columns.
SourceKeys ==
  [t \in {"dataset_snapshots", "source_records", "quarantine_records", "external_holding_records",
          "external_security_issuer_records", "external_metric_records"} |->
     CASE t = "dataset_snapshots" -> {{"id"}}
       [] t = "source_records" -> {{"id"}, {"snapshot", "key"}, {"snapshot", "n"}}
       [] t = "quarantine_records" -> {{"snapshot", "n"}}
       [] OTHER -> {{"id"}, {"record"}}]

EntityKeys ==
  [t \in {"canonical_entities", "financial_products", "bonds", "exchange_traded_products", "funds",
          "fund_share_classes", "sale_lots", "organizations", "securities", "indices"} |->
     CASE t = "fund_share_classes" -> {{"id"}, {"fund", "key"}}
       [] t = "sale_lots" -> {{"id"}, {"bond", "market", "date", "sequence"}}
       [] OTHER -> {{"id"}}]

NameKeys ==
  [t \in {"entity_aliases", "entity_identifiers", "identifier_collision_cases"} |->
     CASE t = "entity_aliases" -> {{"entity", "alias", "type"}}
       [] t = "entity_identifiers" -> {{"entity", "scheme", "space", "value"}}
       [] OTHER -> {{"id"}, {"scheme", "space", "value"}}]

FactKeys ==
  [t \in {"ontology_concepts", "source_field_assertions", "source_record_entities", "canonical_facts",
          "canonical_scalar_facts", "entity_relations", "organization_relations", "index_relations",
          "entity_classifications", "source_classification_values", "fact_evidence_links"} |->
     CASE t \in {"ontology_concepts", "source_field_assertions", "canonical_facts"} -> {{"id"}}
       [] t = "source_record_entities" -> {{"record", "entity"}}
       [] t \in {"canonical_scalar_facts", "entity_relations"} -> {{"fact"}}
       [] t \in {"organization_relations", "index_relations"} -> {{"fact"}, {"subject", "type", "object"}}
       [] t = "entity_classifications" -> {{"fact"}, {"entity", "type", "concept"}}
       [] t = "source_classification_values" -> {{"assertion", "raw"}}
       [] OTHER -> {{"fact", "assertion"}}]

MetricKeys == [t \in {"metric_observations"} |-> {{"fact"}}]

CaseKeys ==
  [t \in {"identity_resolution_cases", "fact_conflict_cases", "entity_id_crosswalk"} |->
     IF t = "entity_id_crosswalk" THEN {{"old", "type", "new"}} ELSE {{"id"}}]

Keys ==
  [t \in DOMAIN SourceKeys \cup DOMAIN EntityKeys \cup DOMAIN NameKeys
         \cup DOMAIN FactKeys \cup DOMAIN MetricKeys \cup DOMAIN CaseKeys |->
     IF t \in DOMAIN SourceKeys THEN SourceKeys[t]
     ELSE IF t \in DOMAIN EntityKeys THEN EntityKeys[t]
     ELSE IF t \in DOMAIN NameKeys THEN NameKeys[t]
     ELSE IF t \in DOMAIN FactKeys THEN FactKeys[t]
     ELSE IF t \in DOMAIN MetricKeys THEN MetricKeys[t]
     ELSE CaseKeys[t]]

\* The partial unique indexes: one owner of an identifier that is validated
\* and not in conflict, one entity a record describes.
Undisputed(row) == row.valid /\ ~row.open
Describes(row) == row.role = "DESCRIBES"
PartialKeys(t, row) ==
  CASE t = "entity_identifiers" -> IF Undisputed(row) THEN {{"scheme", "space", "value"}} ELSE {}
    [] t = "source_record_entities" -> IF Describes(row) THEN {{"record"}} ELSE {}
    [] OTHER -> {}

\* The unique keys a row takes.
Taken(t, row) ==
  {<<columns, [c \in columns |-> row[c]]>> : columns \in Keys[t] \cup PartialKeys(t, row)}
TakenBy(t, rows) == UNION {Taken(t, row) : row \in rows}

Empty == [t \in DOMAIN Keys |-> {}]

\* A write is a pair of a table and a row.
RowsFor(writes, t) == {w[2] : w \in {x \in writes : x[1] = t}}

\* on_conflict_do_nothing.
Fresh(t, old, new) ==
  LET taken == TakenBy(t, old) IN {row \in new : Taken(t, row) \cap taken = {}}
Insert(db, writes) ==
  [t \in DOMAIN db |-> LET old == db[t] IN old \cup Fresh(t, old, RowsFor(writes, t))]

\* The rebuild replaces the observation of a metric fact it writes again.
Replace(db, t, rows) == [db EXCEPT ![t] = Fresh(t, rows, @) \cup rows]

InsertOrUpdate(db, writes) ==
  LET metrics == RowsFor(writes, "metric_observations")
  IN Insert(Replace(db, "metric_observations", metrics), writes)

\* The snapshot a fact belongs to is part of its identifier.
FactId(subject, snapshot, kind, key) == <<subject, snapshot, kind, key>>
SubjectOf(fact) == fact[1]
SnapshotOf(fact) == fact[2]
KeyOf(fact) == fact[4]

FactRow(fact, status) == <<"canonical_facts", [id |-> fact, status |-> status]>>
EvidenceRow(fact, assertion, role) ==
  <<"fact_evidence_links", [fact |-> fact, assertion |-> assertion, role |-> role]>>
EntityRow(id, kind, name) == <<"canonical_entities", [id |-> id, kind |-> kind, name |-> name]>>
RelationRow(t, fact, type, object) ==
  <<t, [fact |-> fact, subject |-> SubjectOf(fact), type |-> type, object |-> object]>>
IdentifierRow(entity, scheme, space, value, valid, open) ==
  <<"entity_identifiers", [entity |-> entity, scheme |-> scheme, space |-> space,
                           value |-> value, valid |-> valid, open |-> open]>>

EvidenceOf(db, fact) == {link.assertion : link \in {l \in db["fact_evidence_links"] : l.fact = fact}}
Kind(db, id) == {row.kind : row \in {e \in db["canonical_entities"] : e.id = id}}
ProductType(db, id) == {row.type : row \in {p \in db["financial_products"] : p.id = id}}
=============================================================================
