----------------------------- MODULE WorkbookFacts ------------------------------
(***************************************************************************)
(* The classifications, relations and metrics of a workbook row, the cases *)
(* the rebuild adds after all rows, and all its writes in their order.     *)
(***************************************************************************)
EXTENDS WorkbookRows

CONSTANTS
  Materials    \* the workbooks a rebuild may be given, each a sequence of rows

ASSUME MaterialAssumption ==
  \A m \in Materials :
    Len(m) \in Nat /\ DOMAIN m = 1..Len(m) /\ \A i \in DOMAIN m : m[i].ds \in Dataset

(* Classifications. *)

Either(r, c, fallback) == IF Has(r, c) THEN Cell(r, c) ELSE Cell(r, fallback)

\* <<column, category, text, column of the evidence when it is not asserted>>
ClassificationInputs(r) ==
  CASE r.ds = Bond ->
         {<<"pd_no", "asset_class", "bond", "pd_no">>,
          <<"pd_risk_nm", "risk_grade", Either(r, "pd_risk_nm", "pd_risk_gcd"), "pd_risk_gcd">>,
          <<"bd_knd", "bond_type", Cell(r, "bd_knd"), "bd_knd">>,
          <<"bd_ofr_tcd", "offering_type", Cell(r, "bd_ofr_tcd"), "bd_ofr_tcd">>}
    [] r.ds \in Etp ->
         {<<"wu_inv_ast_type", "asset_class", Cell(r, "wu_inv_ast_type"), "wu_inv_ast_type">>,
          <<"wu_inv_rgn", "exposure_region", Cell(r, "wu_inv_rgn"), "wu_inv_rgn">>,
          <<"pd_risk_nm", "risk_grade", Cell(r, "pd_risk_nm"), "pd_risk_gcd">>}
    [] OTHER ->
         {<<"or_attr_desc", "asset_class", Cell(r, "or_attr_desc"), "or_attr_desc">>,
          <<"fd_ivst_rgn_desc", "exposure_region", Cell(r, "fd_ivst_rgn_desc"), "fd_ivst_rgn_desc">>,
          <<"ovrs_fd_desc", "market_scope", Cell(r, "ovrs_fd_desc"), "ovrs_fd_desc">>,
          <<"zrin_fd_ivst_risk_grd_nm", "risk_grade",
            Either(r, "zrin_fd_ivst_risk_grd_nm", "zrin_fd_ivst_risk_gcd"), "zrin_fd_ivst_risk_gcd">>,
          <<"prvo_pbff_desc", "offering_type", Cell(r, "prvo_pbff_desc"), "prvo_pbff_desc">>,
          <<"sale_yn", "subscription_status", Cell(r, "sale_yn"), "sale_yn">>}

StatedInputs(r) == {i \in ClassificationInputs(r) : i[3] # ""}
Concept(i) == Reads(Concepts, <<i[2], i[3]>>)

\* Only bonds have their classifications compared, each by its own column.
InConflict(r, audit, i) ==
  r.ds = Bond /\ i[1] # "pd_no" /\ \E s \in Subject(r) : Disputed(audit, s, i[1])

ClassificationValue(r, i, conflict) ==
  {<<"ontology_concepts", [id |-> c, category |-> i[2]]>> : c \in {x \in Concept(i) : CiteFirst(r, i[1], i[4]) # {}}}
  \cup {<<"source_classification_values",
          [assertion |-> e, raw |-> i[3],
           status |-> IF conflict THEN "AMBIGUOUS" ELSE IF Concept(i) = {} THEN "UNRESOLVED" ELSE "RESOLVED"]>>
          : e \in CiteFirst(r, i[1], i[4])}

ClassificationFact(r, s, i, conflict, e) ==
  IF conflict
    THEN Evidenced(FactId(s, r.ds, "CLASSIFICATION", <<"conflict", i[2], Folded(i[3])>>), "CONFLICT", {e}, "SUPPORTS")
    ELSE UNION {LET fact == FactId(s, r.ds, "CLASSIFICATION", <<i[2], c>>)
                IN Evidenced(fact, "RESOLVED", {e}, "SUPPORTS")
                   \cup {<<"entity_classifications", [fact |-> fact, entity |-> s, type |-> i[2], concept |-> c]>>}
                : c \in Concept(i)}

Classifications(r, audit) ==
  UNION {ClassificationValue(r, i, InConflict(r, audit, i))
         \cup UNION {ClassificationFact(r, s, i, InConflict(r, audit, i), e)
                     : s \in Subject(r), e \in CiteFirst(r, i[1], i[4])}
         : i \in StatedInputs(r)}

\* A share class without a family keeps only its values.
ClassificationValuesOnly(r) == UNION {ClassificationValue(r, i, FALSE) : i \in StatedInputs(r)}

(* Relations. *)

Relation(t, r, subjects, type, target, evidence) ==
  UNION {LET fact == FactId(s, r.ds, t, <<type, target>>)
         IN Evidenced(fact, "RESOLVED", {e}, "SUPPORTS") \cup {RelationRow(t, fact, type, target)}
         : s \in subjects, e \in evidence}

OrganizationRows(type, ds, name) ==
  {EntityRow(NamedId(type, ds, name), "ORGANIZATION", name),
   <<"organizations", [id |-> NamedId(type, ds, name), type |-> type]>>}
IndexRows(ds, name) ==
  {EntityRow(NamedId("index", ds, name), "INDEX", name), <<"indices", [id |-> NamedId("index", ds, name)]>>}
ControlledId(kind, code) == <<kind, code>>

CaseRow(r, column, reason, status) ==
  <<"identity_resolution_cases", [id |-> <<Record(r), column, reason>>, reason |-> reason, status |-> status]>>

\* An organization named like a product is refused and a case is opened.
NamesOrganization(r, column) == Has(r, column) /\ Cell(r, column) \notin Is["designated"]
RefusedOrganization(r, column) ==
  IF Cell(r, column) \in Is["designated"]
    THEN {CaseRow(r, column, "INVALID_ORGANIZATION_TARGET", "REJECTED")} ELSE {}

OrganizationRelation(r, audit, column, type, organization) ==
  RefusedOrganization(r, column)
  \cup (IF ~NamesOrganization(r, column) THEN {}
        ELSE OrganizationRows(organization, r.ds, Cell(r, column))
             \cup Relation("organization_relations", r,
                           {s \in Support(r) : ~Disputed(audit, s, column)}, type,
                           NamedId(organization, r.ds, Cell(r, column)), Cite(r, column)))

ControlledRelation(r, column, kind, type, related) ==
  UNION {{EntityRow(ControlledId(kind, code), kind, code)}
         \cup Relation("entity_relations", r, {s \in Subject(r) : related}, type,
                       ControlledId(kind, code), Cite(r, column))
         : code \in Reads(Codes[kind], Cell(r, column))}

CurrencyAndCountry(r) ==
  ControlledRelation(r, IF r.ds \in Etp THEN "pd_curr_cd" ELSE "curr_cd", "CURRENCY", "DENOMINATED_IN", r.ds # Fund)
  \cup CASE r.ds = Bond ->
              ControlledRelation(r, "pd_ctry_cd", "COUNTRY", "HAS_INSTRUMENT_COUNTRY", TRUE)
         [] r.ds = Foreign ->
              ControlledRelation(r, "pd_trd_ccy", "CURRENCY", "TRADED_IN_CURRENCY", TRUE)
              \cup ControlledRelation(r, "pd_mkt_id", "COUNTRY", "LISTED_IN_COUNTRY", TRUE)
         [] r.ds = Domestic ->
              ControlledRelation(r, "pd_mkt_id", "COUNTRY", "LISTED_IN_COUNTRY", TRUE)
         [] OTHER -> {}

LotRelations(r) ==
  UNION {Relation("entity_relations", r, Support(r), "HAS_SALE_LOT", lot, Cite(r, "pd_no")) : lot \in Primary(r)}
BondRelations(r, audit) ==
  LotRelations(r)
  \cup (IF \E s \in Support(r) : Disputed(audit, s, "pd_pbcm") THEN {}
        ELSE OrganizationRelation(r, audit, "pd_pbcm", "ISSUED_BY", "ISSUER"))

\* An ETN has no manager: its manager column opens a case.
EtpManager(r) ==
  RefusedOrganization(r, "cu_fund_mgmt_co")
  \cup (IF ~NamesOrganization(r, "cu_fund_mgmt_co") THEN {}
        ELSE LET name == Cell(r, "cu_fund_mgmt_co")
             IN OrganizationRows("ASSET_MANAGER", r.ds, name)
                \cup (IF Cell(r, "pd_grp_no") = "ETF"
                        THEN Relation("organization_relations", r, Primary(r), "MANAGED_BY",
                                      NamedId("ASSET_MANAGER", r.ds, name), Cite(r, "cu_fund_mgmt_co"))
                        ELSE {CaseRow(r, "cu_fund_mgmt_co", "UNSUPPORTED_RELATION_DOMAIN", "UNRESOLVED")}))

EtpIndex(r) ==
  UNION {LET index == NamedId("index", r.ds, Cell(r, c))
         IN IndexRows(r.ds, Cell(r, c))
            \cup Relation("index_relations", r, Primary(r), "HAS_UNDERLYING_INDEX", index, Cite(r, c))
            \cup (IF r.ds = Foreign /\ Cell(r, "cu_index_tracking_yn") = "Y"
                    THEN Relation("index_relations", r, Primary(r), "TRACKS_INDEX", index, Cite(r, "cu_index_tracking_yn"))
                    ELSE {})
         : c \in {x \in FirstOf(r, <<"cu_base_index", "ref_base_index">>) : Cell(r, x) \notin Is["composite"]}}

ClassRelations(r) ==
  UNION {Relation("entity_relations", r, Support(r), "HAS_SHARE_CLASS", class, Cite(r, "rptt_ksd_itm_no"))
         : class \in Primary(r)}
FundRelations(r, audit) ==
  ClassRelations(r)
  \cup OrganizationRelation(r, audit, "or_co_xtn_itt_cd", "MANAGED_BY", "ASSET_MANAGER")
  \cup OrganizationRelation(r, audit, "trusc_xtn_itt_cd", "HAS_TRUSTEE", "TRUSTEE")
  \cup (IF Cell(r, "bmrk_nm") \in {""} \cup Is["composite"] THEN {}
        ELSE IndexRows(r.ds, Cell(r, "bmrk_nm"))
             \cup Relation("index_relations", r, {s \in Support(r) : ~Disputed(audit, s, "bmrk_nm")},
                           "HAS_BENCHMARK", NamedId("index", r.ds, Cell(r, "bmrk_nm")), Cite(r, "bmrk_nm")))

Relations(r, audit) ==
  CurrencyAndCountry(r)
  \cup CASE r.ds = Bond -> BondRelations(r, audit)
         [] r.ds = Fund -> FundRelations(r, audit)
         [] OTHER -> EtpManager(r) \cup EtpIndex(r)

(* Metrics. *)

\* column -> <<metric, column of its date>>
DomesticReturns ==
  "du_er_1d" :> <<"ONE_DAY_RETURN", "du_upt_dt">> @@ "du_er_1m" :> <<"ONE_MONTH_RETURN", "du_upt_dt">>
  @@ "du_er_3m" :> <<"THREE_MONTH_RETURN", "du_upt_dt">> @@ "du_er_6m" :> <<"SIX_MONTH_RETURN", "du_upt_dt">>
  @@ "du_er_1y" :> <<"ONE_YEAR_RETURN", "du_upt_dt">> @@ "du_er_ytd" :> <<"YEAR_TO_DATE_RETURN", "du_upt_dt">>
EtpMetrics(price) ==
  "du_last_aum" :> <<"AUM", "du_upt_dt">> @@ "cu_charge_rt" :> <<"EXPENSE_RATIO", "du_upt_dt">>
  @@ "du_last_nav" :> <<"NAV", "du_upt_dt">> @@ "du_clpr" :> <<"PRICE", price>>
  @@ "ru_mkt_price" :> <<"MARKET_PRICE", price>> @@ "ru_mkt_volume" :> <<"VOLUME", price>>
DomesticMetrics == EtpMetrics("du_upt_dt") @@ DomesticReturns
BondMetrics ==
  [c \in {"eval_price", "buy_yield"} |-> <<IF c = "buy_yield" THEN "BOND_BUY_YIELD" ELSE "PRICE", "info_base_dt">>]
FundMetrics ==
  "fd_nast_suma" :> <<"AUM", "fd_price_bas_dt">> @@ "bns_bpr" :> <<"NAV", "fd_price_bas_dt">>
  @@ "fd_sbpr" :> <<"PRICE", "fd_price_bas_dt">> @@ "fd_yr1_ern_r" :> <<"ONE_YEAR_RETURN", "fd_price_bas_dt">>
MetricColumns ==
  [ds \in Dataset |->
     CASE ds = Bond -> BondMetrics
       [] ds = Fund -> FundMetrics
       [] ds = Foreign -> EtpMetrics("du_clpr_base_dt")
       [] OTHER -> DomesticMetrics]

MetricRow(fact, metric, value) ==
  <<"metric_observations", [fact |-> fact, metric |-> metric, value |-> value]>>

\* The date is part of the key: without one it is the snapshot's.
MetricFact(r, s, c) ==
  FactId(s, r.ds, "METRIC",
         <<MetricColumns[r.ds][c][1], OrToday(Date(r, MetricColumns[r.ds][c][2])), <<Record(r), c>>>>)

\* The rating of a bond has one fact, whichever of its rows states it.
CreditRating(r) ==
  UNION {LET fact == FactId(s, r.ds, "METRIC", <<"CREDIT_RATING_ORDER">>)
         IN Evidenced(fact, "RESOLVED", Cite(r, "crd_grd"), "SUPPORTS") \cup {MetricRow(fact, "CREDIT_RATING_ORDER", v)}
         : s \in Support(r), v \in Reads(Codes["RATING"], Cell(r, "crd_grd"))}

Observations(r) ==
  UNION {Evidenced(MetricFact(r, s, c), "RESOLVED", Cite(r, c), "SUPPORTS")
         \cup {MetricRow(MetricFact(r, s, c), MetricColumns[r.ds][c][1], v) : v \in Number(r, c)}
         : s \in Observed(r), c \in {x \in DOMAIN MetricColumns[r.ds] : Number(r, x) # {} /\ Cite(r, x) # {}}}
Metrics(r) == Observations(r) \cup (IF r.ds = Bond THEN CreditRating(r) ELSE {})

(* All writes. *)

RecordRows(r) ==
  {<<"source_records", [id |-> Record(r), snapshot |-> r.ds, key |-> SourceKey(r), n |-> r.n]>>} \cup Assertions(r)

\* _process_row.
RowWrites(r, audit) ==
  IF ~Valid(r) THEN {<<"quarantine_records", [snapshot |-> r.ds, n |-> r.n]>>}
  ELSE IF r.ds = Fund /\ Family(r) = {}
    THEN RecordRows(r) \cup ClassificationValuesOnly(r)
         \cup {CaseRow(r, "", "UNRESOLVED_PARENT", "UNRESOLVED")}
  ELSE RecordRows(r) \cup Entities(r, audit) \cup Links(r) \cup Aliases(r) \cup Identifiers(r, audit)
       \cup Scalars(r, audit) \cup Classifications(r, audit) \cup Relations(r, audit) \cup Metrics(r)

\* An identifier claimed by several keeps all its owners, in one case.
CollisionCases(audit) ==
  {<<"identifier_collision_cases", [id |-> key, scheme |-> key[1], space |-> key[2], value |-> key[3],
                                    owners |-> Claimants(audit, key)]>>
     : key \in {k \in {<<c[2], c[3], c[4]>> : c \in audit.claims} : Cardinality(Claimants(audit, k)) > 1}}

\* The entities and columns on which rows disagree.
DisputedOf(audit) == {d \in {<<v[1], v[2]>> : v \in audit.values} : Disputed(audit, d[1], d[2])}
ConflictRow(audit, d) ==
  <<"fact_conflict_cases", [id |-> d, facts |-> Cardinality(Values(audit, d[1], d[2]))]>>
ConflictFact(r, d) == FactId(d[1], r.ds, "SCALAR", <<"conflict", d[2], Folded(Cell(r, d[2]))>>)
\* The rows that state one of the values.
StatingRows(material, audit, d) ==
  {i \in ValidRows(material) :
     d[1] \in Support(material[i]) /\ Cell(material[i], d[2]) \in Values(audit, d[1], d[2])}
ConflictFacts(material, audit, d) ==
  UNION {Evidenced(ConflictFact(material[i], d), "CONFLICT", Cite(material[i], d[2]), "SUPPORTS")
         : i \in StatingRows(material, audit, d)}

\* A disputed column keeps every value with the rows that state it, and no fact.
ConflictCases(material, audit) ==
  UNION {{ConflictRow(audit, d)} \cup ConflictFacts(material, audit, d) : d \in DisputedOf(audit)}

\* Sale lots keep the identifier they had in the graph.
Crosswalk(material) ==
  UNION {{<<"entity_id_crosswalk", [old |-> lot, type |-> "GRAPH_SALE_LOT", new |-> lot]>>
          : lot \in {p \in Primary(material[i]) : material[i].ds = Bond}}
         : i \in ValidRows(material)}

\* The batches of a rebuild, evaluated once for each material.
AuditOf == [m \in Materials |-> Audit(m)]
Batches ==
  [m \in Materials |->
     [n \in 1..(Len(m) + 1) |->
        IF n <= Len(m) THEN RowWrites(m[n], AuditOf[m])
        ELSE CollisionCases(AuditOf[m]) \cup ConflictCases(m, AuditOf[m]) \cup Crosswalk(m)]]
=============================================================================
