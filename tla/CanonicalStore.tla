----------------------------- MODULE CanonicalStore -----------------------------
(***************************************************************************)
(* The canonical store: one operator's rebuilds from the four workbooks    *)
(* (v2_rebuild.py) interleaved with activations of external scopes         *)
(* (scripts/activate_*.py), each of which may come before, during or after *)
(* any rebuild.  A rebuild stages its snapshots in one transaction and     *)
(* writes and reconciles everything in another; it may fail or be killed   *)
(* between the two.  An activation is one transaction.                     *)
(***************************************************************************)
EXTENDS WorkbookFacts, ExternalScopes

VARIABLES
  material,    \* the workbooks in material/
  db,          \* the tables
  canonical,   \* the status of the four workbooks in dataset_snapshots;
               \* "OUTDATED": READY by another mapping or transformer;
               \* "STAGED": a rebuild has begun and runs, or was killed
  activated,   \* scope -> its edition, for those that were ever activated
  stale        \* activated scopes something they read was written for since

vars == <<material, db, canonical, activated, stale>>

ASSUME StoreAssumption ==
  /\ \A m \in Materials : \A i \in DOMAIN m : Valid(m[i]) => Mappable(m[i])
  /\ Scope \cap Dataset = {}

StoreTypeOK ==
  /\ material \in Materials
  /\ DOMAIN db = DOMAIN Keys
  /\ canonical \in {"ABSENT", "STAGED", "READY", "FAILED", "OUTDATED"}
  /\ DOMAIN activated \subseteq Scope
  /\ stale \subseteq DOMAIN activated

Init ==
  /\ material \in Materials
  /\ db = Empty
  /\ canonical = "ABSENT"
  /\ activated = <<>>
  /\ stale = {}

(* Reconciliation. *)

Tally(d, t) == Cardinality(d[t])
TypeCount(d, type) == Cardinality({e \in d["exchange_traded_products"] : e.type = type})
EntityCounts(d) ==
  [financial_products |-> Tally(d, "financial_products"), bonds |-> Tally(d, "bonds"), funds |-> Tally(d, "funds"),
   fund_share_classes |-> Tally(d, "fund_share_classes"), sale_lots |-> Tally(d, "sale_lots"),
   ETF |-> TypeCount(d, "ETF"), ETN |-> TypeCount(d, "ETN"),
   unresolved_fund_rows |-> Cardinality({c \in d["identity_resolution_cases"] : c.reason = "UNRESOLVED_PARENT"})]

\* Fault: the records of the external scopes are counted too.
AllRecords(d) == {s.id : s \in d["source_records"]}
\* Only what belongs to the snapshots of the four workbooks is counted.
OwnedRecords(d) == {s.id : s \in {r \in d["source_records"] : r.snapshot \in Dataset}}
LinksOf(d, role) == {l \in d["source_record_entities"] : l.role = role /\ l.record \in OwnedRecords(d)}
ProvenanceCounts(d) ==
  [source_records |-> Cardinality(OwnedRecords(d)),
   quarantine_records |-> Cardinality({q \in d["quarantine_records"] : q.snapshot \in Dataset}),
   describes |-> Cardinality(LinksOf(d, "DESCRIBES")),
   supports |-> Cardinality(LinksOf(d, "SUPPORTS"))]

ReturnMetrics == {DomesticReturns[c][1] : c \in DOMAIN DomesticReturns}
OwnReturns(d) ==
  {m \in d["metric_observations"] : m.metric \in ReturnMetrics /\ SnapshotOf(m.fact) = Domestic}
\* Every one is counted, and its evidence is the column of its metric.
ReturnsReconcile(d, expected) ==
  /\ Cardinality(OwnReturns(d)) = expected
  /\ \A m \in OwnReturns(d) :
       {<<a[2], m.metric>> : a \in EvidenceOf(d, m.fact)} \subseteq {<<c, DomesticReturns[c][1]>> : c \in DOMAIN DomesticReturns}

\* What a subject or an object of a relation is.
ProductGrains == {<<"FINANCIAL_PRODUCT", t>> : t \in {"BOND", "ETF", "ETN", "FUND"}}
EtpGrains == {<<"FINANCIAL_PRODUCT", "ETF">>, <<"FINANCIAL_PRODUCT", "ETN">>}
BondGrain == {<<"FINANCIAL_PRODUCT", "BOND">>}
FundGrain == {<<"FINANCIAL_PRODUCT", "FUND">>}
ClassGrain == {<<"FUND_SHARE_CLASS", "">>}

\* <<relation, grains of its subject, grains of its object>>
Contracts ==
  {<<"HAS_SHARE_CLASS", FundGrain, ClassGrain>>,
   <<"HAS_SALE_LOT", BondGrain, {<<"SALE_LOT", "">>}>>,
   <<"MANAGED_BY", FundGrain \cup {<<"FINANCIAL_PRODUCT", "ETF">>}, {<<"ORGANIZATION", "ASSET_MANAGER">>}>>,
   <<"ISSUED_BY", BondGrain \cup {<<"FINANCIAL_PRODUCT", "ETN">>}, {<<"ORGANIZATION", "ISSUER">>}>>,
   <<"HAS_TRUSTEE", FundGrain, {<<"ORGANIZATION", "TRUSTEE">>}>>,
   <<"HAS_BENCHMARK", FundGrain, {<<"INDEX", "">>}>>,
   <<"HAS_UNDERLYING_INDEX", EtpGrains, {<<"INDEX", "">>}>>,
   <<"TRACKS_INDEX", EtpGrains, {<<"INDEX", "">>}>>,
   <<"DENOMINATED_IN", ProductGrains, {<<"CURRENCY", "">>}>>,
   <<"TRADED_IN_CURRENCY", EtpGrains, {<<"CURRENCY", "">>}>>,
   <<"LISTED_IN_COUNTRY", EtpGrains, {<<"COUNTRY", "">>}>>,
   <<"HAS_INSTRUMENT_COUNTRY", BondGrain, {<<"COUNTRY", "">>}>>,
   <<"HOLDS", ProductGrains, {<<"SECURITY", "">>}>>,
   <<"SECURITY_ISSUED_BY", {<<"SECURITY", "">>}, {<<"ORGANIZATION", "">>}>>}

\* classification -> grains of what it classifies; its concept has the same category.
ClassificationContracts ==
  "asset_class" :> ProductGrains \cup ClassGrain @@ "exposure_region" :> ProductGrains \cup ClassGrain @@
  "market_scope" :> ClassGrain @@ "risk_grade" :> ProductGrains \cup ClassGrain @@ "bond_type" :> BondGrain @@
  "offering_type" :> BondGrain \cup ClassGrain @@ "subscription_status" :> ClassGrain

GrainTypes(d, id) == IF ProductType(d, id) = {} THEN {""} ELSE ProductType(d, id)
SubjectGrains(d, id) == {<<k, t>> : k \in Kind(d, id), t \in GrainTypes(d, id)}
ObjectGrains(d, t, id) ==
  IF t = "organization_relations"
    THEN {<<"ORGANIZATION", o.type>> : o \in {x \in d["organizations"] : x.id = id}}
    ELSE {<<k, "">> : k \in Kind(d, id)}

RelationInDomain(d, t, relation) ==
  \E c \in Contracts :
    /\ c[1] = relation.type
    /\ SubjectGrains(d, relation.subject) \subseteq c[2]
    /\ ObjectGrains(d, t, relation.object) \subseteq c[3]
\* No column of the sources is approved as the issuer of an ETN.
EtnIssuer(d, t, relation) ==
  /\ t = "organization_relations" /\ relation.type = "ISSUED_BY"
  /\ "ETN" \in ProductType(d, relation.subject) /\ EvidenceOf(d, relation.fact) # {}
DomainsHold(d) ==
  /\ \A t \in {"entity_relations", "organization_relations", "index_relations"} :
       \A relation \in d[t] : RelationInDomain(d, t, relation) /\ ~EtnIssuer(d, t, relation)
  /\ \A c \in d["entity_classifications"] :
       /\ SubjectGrains(d, c.entity) \subseteq ClassificationContracts[c.type]
       /\ \A o \in d["ontology_concepts"] : o.id = c.concept => o.category = c.type

Parentless(d) ==
  \/ \E c \in d["fund_share_classes"] : \A f \in d["funds"] : f.id # c.fund
  \/ \E l \in d["sale_lots"] : \A b \in d["bonds"] : b.id # l.bond
EvidenceFree(d) == \E f \in d["canonical_facts"] : f.status = "RESOLVED" /\ EvidenceOf(d, f.id) = {}

\* The constants the code pins for its workbooks, as the counts they are of:
\* products, classes, records, links and returns, one for each row that has one.
ExpectedEntities ==
  [m \in Materials |->
     LET Ids(ds, Members(_)) == UNION {Members(m[i]) : i \in {j \in ValidRows(m) : m[j].ds = ds}}
         etps == Ids(Domestic, Primary) \cup Ids(Foreign, Primary)
         OfType(type) == Cardinality({ProductId(m[i]) : i \in {j \in ValidRows(m) : Cell(m[j], "pd_grp_no") = type}})
     IN [financial_products |-> Cardinality(Ids(Bond, Support)) + Cardinality(etps)
                                + Cardinality(Ids(Fund, Family)),
         bonds |-> Cardinality(Ids(Bond, Support)),
         funds |-> Cardinality(Ids(Fund, Family)),
         fund_share_classes |-> Cardinality(Ids(Fund, Primary)),
         sale_lots |-> Cardinality(Ids(Bond, Primary)),
         ETF |-> OfType("ETF"), ETN |-> OfType("ETN"),
         unresolved_fund_rows |-> Cardinality({i \in ValidRows(m) : m[i].ds = Fund /\ Family(m[i]) = {}})]]
ExpectedProvenance ==
  [m \in Materials |->
     [source_records |-> Cardinality(ValidRows(m)),
      quarantine_records |-> Cardinality(DOMAIN m \ ValidRows(m)),
      describes |-> Cardinality({i \in ValidRows(m) : Primary(m[i]) # {}}),
      supports |-> Cardinality({i \in ValidRows(m) : Support(m[i]) # {}})]]
ExpectedReturns ==
  [m \in Materials |->
     Cardinality(UNION {{<<i, c>> : c \in {x \in DOMAIN DomesticReturns : Number(m[i], x) # {}}}
                        : i \in {j \in ValidRows(m) : m[j].ds = Domestic}})]

\* Fault: records, quarantine and links are not counted.
EntitiesReconcile(d, m) ==
  /\ EntityCounts(d) = ExpectedEntities[m]
  /\ ReturnsReconcile(d, ExpectedReturns[m])
  /\ ~Parentless(d) /\ ~EvidenceFree(d) /\ DomainsHold(d)
Reconciles(d, m) ==
  /\ EntityCounts(d) = ExpectedEntities[m]
  /\ ProvenanceCounts(d) = ExpectedProvenance[m]
  /\ ReturnsReconcile(d, ExpectedReturns[m])
  /\ ~Parentless(d)
  /\ ~EvidenceFree(d)
  /\ DomainsHold(d)

(* Rebuilds. *)

\* The store after each batch.
WrittenTo(d, m) ==
  LET after[n \in 0..(Len(m) + 1)] == IF n = 0 THEN d ELSE InsertOrUpdate(after[n - 1], Batches[m][n])
  IN after[Len(m) + 1]

\* A rebuild of what is READY is skipped; one that was killed is begun again.
BeginRebuild ==
  /\ canonical # "READY"
  /\ canonical' = "STAGED"
  /\ UNCHANGED <<material, db, activated, stale>>

CommitRebuild(rebuilt) ==
  /\ Reconciles(rebuilt, material)
  /\ canonical' = "READY"
  /\ db' = rebuilt
  /\ stale' = IF rebuilt = db THEN stale ELSE DOMAIN activated
  /\ UNCHANGED <<material, activated>>

\* All it wrote is rolled back.
Abandon ==
  /\ canonical' = "FAILED"
  /\ UNCHANGED <<material, db, activated, stale>>

EndRebuild ==
  /\ canonical = "STAGED"
  /\ \E rebuilt \in {WrittenTo(db, material)} :
       \/ CommitRebuild(rebuilt)
       \/ ~Reconciles(rebuilt, material) /\ Abandon

\* An exception of the database, the files or the mapping.
FailRebuild == canonical = "STAGED" /\ Abandon

\* A release with another mapping or transformer is installed.
Upgrade ==
  /\ canonical = "READY"
  /\ canonical' = "OUTDATED"
  /\ UNCHANGED <<material, db, activated, stale>>

(* Activations. *)

\* Issuers read the securities that holdings create; a later scope of issuers
\* takes over the securities of the one before.  Two scopes of one manager would
\* share its identifiers of constituents.
ReadersOf(scope) ==
  {s \in DOMAIN activated :
     CASE scope \in DOMAIN Holdings ->
            s \in DOMAIN Issuers \/ (s \in DOMAIN Holdings /\ Space[s].security = Space[scope].security)
       [] scope \in DOMAIN Issuers -> s \in DOMAIN Issuers
       [] OTHER -> FALSE}

\* Another edition of a scope that is registered is refused.
Activate(scope, edition) ==
  /\ Compatible(db, scope, edition)
  /\ db' = Activated(db, scope, edition)
  /\ activated' = [s \in DOMAIN activated \cup {scope} |-> IF s = scope THEN edition ELSE activated[s]]
  /\ stale' = IF db' = db THEN stale \ {scope} ELSE (stale \cup ReadersOf(scope)) \ {scope}
  /\ UNCHANGED <<material, canonical>>

Next ==
  \/ BeginRebuild \/ EndRebuild \/ FailRebuild \/ Upgrade
  \/ \E scope \in Scope : \E edition \in DOMAIN Editions[scope] : Activate(scope, edition)

Spec == Init /\ [][Next]_vars

(* Properties. *)

\* An entity and a column its rows disagree on.
DisputedColumns == [m \in Materials |-> DisputedOf(AuditOf[m])]
\* The risk code, read in place of a missing risk name, is not compared.
Compared == {d \in DisputedColumns[material] : d[2] # "pd_risk_gcd"}
Statements(m, d) ==
  {<<Record(m[i]), d[2]>> : i \in {j \in ValidRows(m) : d[1] \in Support(m[j]) /\ Has(m[j], d[2])}}
FactsOf(entity, status) == {f.id : f \in {x \in db["canonical_facts"] : SubjectOf(x.id) = entity /\ x.status = status}}

\* A column on which the rows of a bond or a fund disagree decides nothing: in
\* a READY store no resolved fact of the entity rests on it, and its case keeps
\* every value with every row that states one (v2_rebuild.py:1965-1999).
DisputedColumnsStayOpen ==
  canonical = "READY" =>
    \A d \in Compared :
      /\ \A f \in FactsOf(d[1], "RESOLVED") : EvidenceOf(db, f) \cap Statements(material, d) = {}
      /\ \A a \in Statements(material, d) : \E f \in FactsOf(d[1], "CONFLICT") : a \in EvidenceOf(db, f)
      /\ \E c \in db["fact_conflict_cases"] :
           c.id = d /\ c.facts = Cardinality(Values(AuditOf[material], d[1], d[2]))

\* Workbooks that reconcile in an empty database.
Acceptable == [m \in Materials |-> \A rebuilt \in {WrittenTo(Empty, m)} : Reconciles(rebuilt, m)]

\* What was activated, and what earlier rebuilds left, never turns a rebuild of
\* good workbooks into a failed one: the reconciliation counts the rebuild's own
\* rows and knows the relations of the external scopes (v2_rebuild.py:2050-2100).
RebuildIsAccepted ==
  canonical = "STAGED" /\ Acceptable[material] =>
    \A rebuilt \in {WrittenTo(db, material)} : Reconciles(rebuilt, material)

\* A scope that is active, and whose sources nothing has written for since,
\* can be activated again without a change: the second integration of its
\* transaction is its fixpoint (scripts/activate_kodex_scope.py:58-59).
ActivationIsStable ==
  \A scope \in DOMAIN activated \ stale : Integrate(db, scope, activated[scope]) = db

IssuersOf(scope, security) ==
  {x.object : x \in {y \in db["entity_relations"] :
     y.type = "SECURITY_ISSUED_BY" /\ y.subject = security /\ SnapshotOf(y.fact) = scope}}

TickersOf(security) ==
  {i.value : i \in {j \in db["entity_identifiers"] :
     j.scheme = "TICKER" /\ j.space = "KRX" /\ j.entity = security /\ Undisputed(j)}}

\* A scope of issuers gives a security one issuer for each of its tickers at
\* most, whatever tickers and names its rows repeat, and a security called
\* resolved has one (security_issuers.py:315-430).  Two tickers that a manager's
\* identifier joins in one security may well give it two.
OneIssuerPerTicker ==
  \A s \in db["securities"] :
    /\ \A scope \in DOMAIN Issuers : ExistsInjection(IssuersOf(scope, s.id), TickersOf(s.id))
    /\ s.issuer = "RESOLVED" => \E scope \in DOMAIN Issuers : IssuersOf(scope, s.id) # {}

Linked(record, entity) ==
  \E l \in db["source_record_entities"] : l.record = record /\ l.entity = entity

\* In a READY store every row of the workbooks is accounted for, by a source
\* record of its own or in quarantine, and what a fact of theirs rests on comes
\* from rows about its subject (v2_rebuild.py:1080-1151, 2050-2100).
ReadyRowsAreTraced ==
  canonical = "READY" =>
    /\ \A i \in DOMAIN material :
         IF Valid(material[i])
           THEN [id |-> Record(material[i]), snapshot |-> material[i].ds,
                 key |-> SourceKey(material[i]), n |-> material[i].n] \in db["source_records"]
           ELSE [snapshot |-> material[i].ds, n |-> material[i].n] \in db["quarantine_records"]
    /\ \A f \in db["canonical_facts"] :
         SnapshotOf(f.id) \in Dataset => \A a \in EvidenceOf(db, f.id) : Linked(a[1], SubjectOf(f.id))
=============================================================================
