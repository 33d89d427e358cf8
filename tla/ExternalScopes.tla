----------------------------- MODULE ExternalScopes -----------------------------
(***************************************************************************)
(* What the activation of an external scope does to the canonical store:   *)
(* the holdings of a manager (app/data/holdings.py), the issuers of        *)
(* securities (security_issuers.py) and published returns                  *)
(* (external_metrics.py).  An integration is a fold over the rows of the   *)
(* scope: each reads what those before it have left.                       *)
(***************************************************************************)
EXTENDS CanonicalSchema, Naturals

CONSTANTS
  Holdings,   \* scope -> edition -> its rows, see HoldingRow
  Issuers,    \* scope -> edition -> its rows, ordered by their identifier
  Returns,    \* scope -> edition -> its rows, ordered by their identifier
  Legal,      \* a name of an organization -> the key without its legal form
  Space       \* holdings scope -> the name spaces of its manager's identifiers

\* A holding: the product by ISIN, ticker and the manager's identifier, the
\* constituent by ticker and the manager's identifier.
HoldingRow == [id : STRING, isin : STRING, ticker : STRING, exchange : STRING, product : STRING,
               code : STRING, market : STRING, member : STRING, six : BOOLEAN, security : BOOLEAN, day : Nat]
IssuerRow == [id : STRING, ticker : STRING, issuer : STRING, name : STRING]
ReturnRow == [id : STRING, isin : STRING, ticker : STRING, exchange : STRING, product : STRING, day : Nat, value : Int]

\* A scope is of one kind.
ASSUME ScopeAssumption ==
  /\ DOMAIN Holdings \cap DOMAIN Issuers = {}
  /\ (DOMAIN Holdings \cup DOMAIN Issuers) \cap DOMAIN Returns = {}
  /\ \A s \in DOMAIN Holdings : \A e \in DOMAIN Holdings[s] : Holdings[s][e] \in Seq(HoldingRow)
  /\ \A s \in DOMAIN Issuers : \A e \in DOMAIN Issuers[s] : Issuers[s][e] \in Seq(IssuerRow)
  /\ \A s \in DOMAIN Returns : \A e \in DOMAIN Returns[s] : Returns[s][e] \in Seq(ReturnRow)

NormalizedRecord(row) == <<"normalized", row.id>>
HoldsAssertion(row) == <<NormalizedRecord(row), "normalized_holding">>
IssuerAssertion(row) == <<NormalizedRecord(row), "isurCd+representative_ticker">>
ReturnAssertion(row) == <<NormalizedRecord(row), "oneYearAnnualized.navSourced">>

\* What every integration records of a row.
SourceRows(scope, row, n, assertion) ==
  {<<"source_records", [id |-> NormalizedRecord(row), snapshot |-> scope, key |-> <<row.id>>, n |-> n]>>,
   <<"source_field_assertions", [id |-> assertion, record |-> NormalizedRecord(row),
                                 column |-> assertion[2], raw |-> row.id]>>}

Owners(db, scheme, space, value, kind) ==
  {i.entity : i \in {j \in db["entity_identifiers"] :
     /\ <<j.scheme, j.space, j.value>> = <<scheme, space, value>>
     /\ Undisputed(j) /\ kind \in Kind(db, j.entity)}}

Resolution(status, ids) == [status |-> status, ids |-> ids]
Nobody == Resolution("UNRESOLVED", {})
Several(ids) == \E a \in ids : \E b \in ids : a # b

\* TrustedHoldingsCanonicalIntegrator._identifier.  An open collision case
\* leaves an identifier to nobody.  (The unique index leaves an undisputed
\* identifier one owner, so the case the code opens for two never arises.)
Identify(db, scheme, space, value, kind) ==
  LET owners == Owners(db, scheme, space, value, kind)
      open == \E c \in db["identifier_collision_cases"] : <<c.scheme, c.space, c.value>> = <<scheme, space, value>>
  IN IF open \/ Several(owners) THEN Resolution("AMBIGUOUS", {})
     ELSE IF owners = {} THEN Nobody ELSE Resolution("RESOLVED", owners)

RequireEtf(db, found) ==
  IF found.status = "RESOLVED" /\ \E p \in found.ids : "ETF" \notin ProductType(db, p) THEN Nobody ELSE found

(* Holdings. *)

\* The first of ISIN, ticker and the manager's identifier that says something.
ProductOf(db, scope, h) ==
  LET By(scheme, space, value) ==
        IF value = "" \/ space = "" THEN Nobody ELSE Identify(db, scheme, space, value, "FINANCIAL_PRODUCT")
      isin == By("ISIN", "iso-6166", h.isin)
      ticker == By("TICKER", h.exchange, h.ticker)
  IN RequireEtf(db, IF isin.status # "UNRESOLVED" THEN isin
                    ELSE IF ticker.status # "UNRESOLVED" THEN ticker
                    ELSE By("PROVIDER_SOURCE_ID", Space[scope].product, h.product))

Candidates(scope, h) ==
  (IF h.code # "" /\ h.market # "" THEN {<<"TICKER", h.market, h.code>>} ELSE {})
  \cup (IF h.member # "" THEN {<<"PROVIDER_SOURCE_ID", Space[scope].security, h.member>>} ELSE {})

\* A security may be created from a ticker, or from a six-digit code of the manager.
Identity(scope, h) ==
  IF h.code # "" /\ h.market # "" THEN {<<"TICKER", h.market, h.code>>}
  ELSE {c \in Candidates(scope, h) : c[1] = "PROVIDER_SOURCE_ID" /\ h.six}
SecurityId(identity) == <<"security", identity[2], identity[3]>>

Attach(entity, candidates) == {IdentifierRow(entity, c[1], c[2], c[3], TRUE, FALSE) : c \in candidates}
Create(id) ==
  {EntityRow(id, "SECURITY", ""), <<"securities", [id |-> id, issuer |-> "UNRESOLVED"]>>}

\* The resolution of a constituent and what it writes.
SecurityOf(db, scope, h) ==
  LET found == {Identify(db, c[1], c[2], c[3], "SECURITY") : c \in Candidates(scope, h)}
      ids == UNION {f.ids : f \in found}
  IN IF ~h.security THEN [resolution |-> Resolution("NON_SECURITY", {}), writes |-> {}]
     ELSE IF Several(ids) \/ \E f \in found : f.status = "AMBIGUOUS"
       THEN [resolution |-> Resolution("AMBIGUOUS", {}), writes |-> {}]
     ELSE IF ids # {}
       THEN [resolution |-> Resolution("RESOLVED", ids),
             writes |-> UNION {Attach(id, Candidates(scope, h)) : id \in ids}]
     ELSE LET new == {SecurityId(i) : i \in Identity(scope, h)}
          IN [resolution |-> IF new = {} THEN Nobody ELSE Resolution("RESOLVED", new),
              writes |-> UNION {Create(id) \cup Attach(id, Candidates(scope, h)) : id \in new}]

HoldingRows(scope, h, n, product, security) ==
  SourceRows(scope, h, n, HoldsAssertion(h))
  \cup {<<"external_holding_records", [id |-> h.id, record |-> NormalizedRecord(h),
                                       product |-> product.status, security |-> security.status]>>}

\* Only what is resolved has an identifier, so nothing holds or is held otherwise.
HoldsRows(scope, h, product, security) ==
  UNION {LET fact == FactId(p, scope, "ENTITY_RELATION", <<"HOLDS", s, h.day>>)
         IN {FactRow(fact, "RESOLVED"), RelationRow("entity_relations", fact, "HOLDS", s),
             EvidenceRow(fact, HoldsAssertion(h), "SUPPORTS")}
         : p \in product.ids, s \in security.ids}

IntegrateHolding(db, scope, h, n) ==
  LET product == ProductOf(db, scope, h)
      security == SecurityOf(db, scope, h)
      recorded == Insert(Insert(db, security.writes), HoldingRows(scope, h, n, product, security.resolution))
  IN Insert(recorded, HoldsRows(scope, h, product, security.resolution))

(* Issuers. *)

LegalKey(name) == IF name \in DOMAIN Legal THEN Legal[name] ELSE name

\* Fault: a repeated ticker is not noticed.
NoConflicts(rows) == {}
\* _source_conflicts: tickers with two issuers, issuers with two names.
TickerConflicts(rows) ==
  {rows[i].ticker : i \in {j \in DOMAIN rows : \E k \in DOMAIN rows :
     rows[k].ticker = rows[j].ticker /\ rows[k].issuer # rows[j].issuer}}
IssuerConflicts(rows) ==
  {rows[i].issuer : i \in {j \in DOMAIN rows : \E k \in DOMAIN rows :
     rows[k].issuer = rows[j].issuer /\ LegalKey(rows[k].name) # LegalKey(rows[j].name)}}

ListedSecurity(db, row, conflicts) ==
  IF row.ticker \in conflicts THEN Resolution("CONFLICT", {})
  ELSE LET owners == Owners(db, "TICKER", "KRX", row.ticker, "SECURITY")
       IN CASE owners = {} -> Nobody
            [] Several(owners) -> Resolution("AMBIGUOUS", {})
            [] OTHER -> Resolution("RESOLVED", owners)

NameCandidates(db, key) ==
  LET organizations == {e \in db["canonical_entities"] : e.kind = "ORGANIZATION"}
  IN {e.id : e \in {o \in organizations :
        \/ LegalKey(o.name) = key
        \/ \E a \in db["entity_aliases"] : a.entity = o.id /\ LegalKey(a.alias) = key}}

OfficialName(organization, row) ==
  <<"entity_aliases", [entity |-> organization, alias |-> row.name, type |-> "OFFICIAL_NAME"]>>
OfficialId(organization, row) ==
  IdentifierRow(organization, "PROVIDER_ORGANIZATION_ID", "KRX_KIND", row.issuer, TRUE, FALSE)

\* By the issuer's identifier, else by its name if one organization has it,
\* else a new one.
OrganizationOf(db, row) ==
  LET known == Owners(db, "PROVIDER_ORGANIZATION_ID", "KRX_KIND", row.issuer, "ORGANIZATION")
      named == NameCandidates(db, LegalKey(row.name))
      new == <<"organization", row.issuer>>
      Found(ids, writes) == [resolution |-> Resolution("RESOLVED", ids), writes |-> writes]
  IN IF Several(known) THEN [resolution |-> Resolution("CONFLICT", {}), writes |-> {}]
     ELSE IF known # {} THEN Found(known, {OfficialName(o, row) : o \in known})
     ELSE IF Several(named) THEN [resolution |-> Resolution("AMBIGUOUS", {}), writes |-> {}]
     ELSE IF named # {}
       THEN Found(named, UNION {{OfficialId(o, row), OfficialName(o, row)} : o \in named})
     ELSE Found({new}, {EntityRow(new, "ORGANIZATION", row.name),
                        <<"organizations", [id |-> new, type |-> "ISSUER"]>>,
                        OfficialId(new, row), OfficialName(new, row)})

RelationStatus(security, issuer) ==
  IF {security, issuer} = {"RESOLVED"} THEN "RESOLVED"
  ELSE IF "CONFLICT" \in {security, issuer} THEN "CONFLICT"
  ELSE IF "AMBIGUOUS" \in {security, issuer} THEN "AMBIGUOUS" ELSE "UNRESOLVED"

IssuerRecord(row, security, issuer) ==
  [id |-> row.id, record |-> NormalizedRecord(row), security |-> security, issuer |-> issuer,
   relation |-> RelationStatus(security, issuer)]

SetIssuerStatus(db, ids, status) ==
  [db EXCEPT !["securities"] = {IF s.id \in ids THEN [s EXCEPT !.issuer = status] ELSE s : s \in @}]

IssuedByRows(scope, row, security, organizations) ==
  UNION {LET fact == FactId(security, scope, "ENTITY_RELATION", <<"SECURITY_ISSUED_BY", o>>)
         IN {FactRow(fact, "RESOLVED"), RelationRow("entity_relations", fact, "SECURITY_ISSUED_BY", o),
             EvidenceRow(fact, IssuerAssertion(row), "SUPPORTS")}
         : o \in organizations}

\* The organization of a security that is known.
IntegrateIssuer(db, scope, row, security) ==
  LET organization == OrganizationOf(db, row)
      status == organization.resolution.status
      resolved == Replace(Insert(db, organization.writes), "external_security_issuer_records",
                          {IssuerRecord(row, "RESOLVED", status)})
  IN IF organization.resolution.ids = {}
       THEN SetIssuerStatus(resolved, {security}, IF status = "AMBIGUOUS" THEN status ELSE "UNRESOLVED")
       ELSE SetIssuerStatus(Insert(resolved, IssuedByRows(scope, row, security, organization.resolution.ids)),
                            {security}, "RESOLVED")

IntegrateIssuerRow(db, scope, rows, n) ==
  LET row == rows[n]
      disputed == row.issuer \in IssuerConflicts(rows)
      security == ListedSecurity(db, row, TickerConflicts(rows))
      link == {<<"source_record_entities", [record |-> NormalizedRecord(row), entity |-> s, role |-> "DESCRIBES"]>>
                 : s \in security.ids}
      record == IssuerRecord(row, security.status, IF disputed THEN "CONFLICT" ELSE "RESOLVED")
      recorded == Insert(db, SourceRows(scope, row, n, IssuerAssertion(row))
                             \cup {<<"external_security_issuer_records", record>>} \cup link)
  IN IF security.ids = {} THEN recorded
     ELSE IF disputed THEN SetIssuerStatus(recorded, security.ids, "UNRESOLVED")
     ELSE IntegrateIssuer(recorded, scope, row, CHOOSE s \in security.ids : TRUE)

(* Returns. *)

\* Whatever owns any of the three identifiers: open cases are not consulted.
ReturnedProduct(db, row) ==
  LET owners == Owners(db, "ISIN", "iso-6166", row.isin, "FINANCIAL_PRODUCT")
                \cup Owners(db, "TICKER", row.exchange, row.ticker, "FINANCIAL_PRODUCT")
                \cup Owners(db, "PROVIDER_SOURCE_ID", "ISHARES_US", row.product, "FINANCIAL_PRODUCT")
  IN IF Several(owners) THEN Resolution("AMBIGUOUS", {})
     ELSE RequireEtf(db, IF owners = {} THEN Nobody ELSE Resolution("RESOLVED", owners))

ReturnRows(scope, row, product) ==
  LET fact == FactId(product, scope, "METRIC", <<"ONE_YEAR_RETURN", "NAV_TOTAL_RETURN", row.day>>)
  IN {<<"source_record_entities", [record |-> NormalizedRecord(row), entity |-> product, role |-> "DESCRIBES"]>>,
      FactRow(fact, "RESOLVED"), EvidenceRow(fact, ReturnAssertion(row), "SUPPORTS"),
      <<"metric_observations", [fact |-> fact, metric |-> "ONE_YEAR_RETURN", value |-> row.value]>>}

IntegrateReturn(db, scope, row, n) ==
  LET product == ReturnedProduct(db, row)
  IN Insert(db, SourceRows(scope, row, n, ReturnAssertion(row))
                \cup {<<"external_metric_records", [id |-> row.id, record |-> NormalizedRecord(row),
                                                    product |-> product.status]>>}
                \cup UNION {ReturnRows(scope, row, p) : p \in product.ids})

(* Activation. *)

Scope == DOMAIN Holdings \cup DOMAIN Issuers \cup DOMAIN Returns
Editions ==
  [scope \in Scope |->
     CASE scope \in DOMAIN Holdings -> Holdings[scope]
       [] scope \in DOMAIN Issuers -> Issuers[scope]
       [] OTHER -> Returns[scope]]

\* A scope keeps the snapshot it was registered with first; another is refused.
SnapshotRow(scope, edition) == <<"dataset_snapshots", [id |-> scope, data |-> edition]>>
Compatible(db, scope, edition) ==
  \A s \in db["dataset_snapshots"] : s.id = scope => s.data = edition

IntegrateRow(db, scope, rows, n) ==
  CASE scope \in DOMAIN Holdings -> IntegrateHolding(db, scope, rows[n], n)
    [] scope \in DOMAIN Issuers -> IntegrateIssuerRow(db, scope, rows, n)
    [] OTHER -> IntegrateReturn(db, scope, rows[n], n)

\* The store after each of the rows.
Integrate(db, scope, edition) ==
  LET rows == Editions[scope][edition]
      after[n \in 0..Len(rows)] ==
        IF n = 0 THEN Insert(db, {SnapshotRow(scope, edition)})
        ELSE IntegrateRow(after[n - 1], scope, rows, n)
  IN after[Len(rows)]

\* Fault: it integrates once.
IntegratedOnce(db, scope, edition) == Integrate(db, scope, edition)
\* Every activation integrates twice in its transaction.
Activated(db, scope, edition) == Integrate(Integrate(db, scope, edition), scope, edition)
=============================================================================
