------------------------------ MODULE WorkbookRows ------------------------------
(***************************************************************************)
(* What the canonical rebuild writes for a row of the four workbooks       *)
(* (v2_rebuild.py, CanonicalV2Rebuilder._process_row and what it calls).   *)
(* A row is its dataset, its number and its cleaned cells.  The writes of  *)
(* a row depend on the audit of all rows (which columns disagree, who owns *)
(* an identifier, the latest price date), never on the database.           *)
(*                                                                         *)
(* Texts are opaque: what a regular expression or a conversion tells about *)
(* them is a constant.  A value that may be absent is a set of at most one.*)
(***************************************************************************)
EXTENDS CanonicalSchema, Naturals

CONSTANTS
  Is,          \* a form -> the texts that have it
  Dates,       \* texts read as a date -> the date
  Numbers,     \* texts read as a number -> the number
  Concepts,    \* <<category, text>> with a concept of the ontology -> the concept
  Codes,       \* texts read as a currency or a country -> the code
  Fold,        \* text -> its normalized form, for the texts that differ from it
  Today        \* SNAPSHOT

Bond == "PRBD01N001"
Domestic == "PREF01N001"
Foreign == "PREF02N001"
Fund == "PRFD01N001"
Dataset == {Bond, Domestic, Foreign, Fund}
Etp == {Domestic, Foreign}

\* clean_source_row: one column reads the text NULL as no value.
Cell(r, c) ==
  IF c \in DOMAIN r.cells /\ ~(c = "zrin_fd_ivst_risk_gcd" /\ r.cells[c] = "NULL")
    THEN r.cells[c] ELSE ""
Has(r, c) == Cell(r, c) # ""
Reads(conversion, text) == {conversion[x] : x \in DOMAIN conversion \cap {text}}
Date(r, c) == Reads(Dates, Cell(r, c))
Number(r, c) == Reads(Numbers, Cell(r, c))
Folded(text) == IF text \in DOMAIN Fold THEN Fold[text] ELSE text
OrToday(date) == IF date = {} THEN {Today} ELSE date
IdentifierText(r, c) == {Cell(r, c)} \ ({""} \cup Is["zeros"])
\* _first: the first column with a value.
FirstOf(r, columns) == {columns[i] : i \in {j \in DOMAIN columns :
  Has(r, columns[j]) /\ \A k \in 1..(j - 1) : ~Has(r, columns[k])}}

(* Identity of a row. *)

NameColumn == [ds \in Dataset |-> IF ds = Fund THEN "itm_nm" ELSE "pd_nm"]
ShortNameColumn == [ds \in Dataset |-> IF ds = Fund THEN "itm_abrv_nm" ELSE "pd_abrv_nm"]
KeyColumns ==
  [ds \in Dataset |->
     CASE ds = Bond -> <<"pd_no", "pd_exg_mkt", "info_base_dt", "info_seq">>
       [] ds = Fund -> <<"itm_no">>
       [] OTHER -> <<"pd_itm_no">>]

ProductKey(r) == Cell(r, KeyColumns[r.ds][1])
SourceKey(r) == [i \in DOMAIN KeyColumns[r.ds] |-> Cell(r, KeyColumns[r.ds][i])]

\* validate_product_row: a row that fails is quarantined.
Valid(r) ==
  /\ ProductKey(r) \in Is[IF r.ds = Foreign THEN "ric" ELSE "twelve"] \ Is["zeros"]
  /\ Has(r, NameColumn[r.ds]) /\ Cell(r, NameColumn[r.ds]) \notin Is["placeholder"]
  /\ r.ds \in Etp => Cell(r, "pd_grp_no") \in {"ETF", "ETN"}
  /\ r.ds = Foreign /\ Cell(r, "cu_etn_yn") = "Y" => Cell(r, "pd_grp_no") = "ETN"

ValidRows(material) == {i \in DOMAIN material : Valid(material[i])}

\* map_product: a row without its whole key stops the audit.
Mappable(r) == "" \notin {SourceKey(r)[i] : i \in DOMAIN KeyColumns[r.ds]}

ProductId(r) == <<r.ds, ProductKey(r)>>
LotId(r) == <<"sale_lot", SourceKey(r)>>
NamedId(type, ds, text) == <<type, ds, Folded(text)>>

\* The family of a share class: by its representative identifier, or itself
\* when it has a class code.
FamilyKey(r) ==
  LET representative == {Cell(r, "rptt_ksd_itm_no")} \cap (Is["twelve"] \ Is["sentinel"])
  IN IF representative # {} THEN representative
     ELSE IF Cell(r, "prfd_attr_cd") \in Is["code"] THEN {ProductKey(r)} ELSE {}
Family(r) == {<<"fund_family", key>> : key \in FamilyKey(r)}

SaleLotColumns == {"buy_yield", "trade_price", "after_tax_yield", "sale_yield_base_dt"}
HasLot(r) == \E c \in SaleLotColumns : Has(r, c)

\* What the row describes, and the product it supports.
Primary(r) ==
  CASE r.ds = Bond -> IF HasLot(r) THEN {LotId(r)} ELSE {}
    [] r.ds \in Etp -> {ProductId(r)}
    [] OTHER -> IF Family(r) = {} THEN {} ELSE {ProductId(r)}
Support(r) ==
  CASE r.ds = Bond -> {ProductId(r)}
    [] r.ds \in Etp -> {}
    [] OTHER -> Family(r)
\* The subject of identifiers, scalars and classifications; of names and metrics.
Subject(r) == IF r.ds = Bond THEN Support(r) ELSE Primary(r)
Observed(r) == IF Primary(r) = {} THEN Support(r) ELSE Primary(r)

(* The audit. *)

WatchedColumns ==
  [ds \in Dataset |->
     CASE ds = Bond -> {"pd_nm", "pd_pbcm", "isu_dt", "mat_dt", "isu_bal_amt", "pd_risk_gcd",
                        "pd_risk_nm", "bd_knd", "bd_ofr_tcd"}
       [] ds = Fund -> {"or_co_xtn_itt_cd", "trusc_xtn_itt_cd", "bmrk_nm", "prvo_pbff_desc",
                        "or_attr_desc", "fd_ivst_rgn_desc", "ovrs_fd_desc"}
       [] OTHER -> {}]

IdentifierColumns ==
  [ds \in Dataset |->
     CASE ds = Bond -> {<<"pd_no", "ISIN", "iso-6166">>}
       [] ds = Domestic -> {<<"pd_itm_no", "ISIN", "iso-6166">>, <<"pd_isin_cd", "ISIN", "iso-6166">>,
                            <<"pd_itm_no_ma", "MA_ID", Domestic>>, <<"pd_ticker", "TICKER", Domestic>>,
                            <<"pd_ric", "RIC", Domestic>>}
       [] ds = Foreign -> {<<"pd_itm_no", "RIC", Foreign>>, <<"pd_isin_cd", "ISIN", "iso-6166">>,
                           <<"pd_lipper_id", "LIPPER_ID", "lipper">>}
       [] OTHER -> {<<"itm_no", "SOURCE_ID", Fund>>, <<"std_itm_no", "ISIN", "iso-6166">>,
                    <<"ksd_itm_no", "KSD_ID", "ksd">>, <<"mtco_itm_no", "MA_ID", "miraeasset">>,
                    <<"fss_itm_no", "FSS_ID", "fss">>}]
Representative == <<"rptt_ksd_itm_no", "REPRESENTATIVE_KSD_ID", "ksd">>

Claims(r) ==
  (UNION {{<<s, i, v>> : s \in Subject(r), v \in IdentifierText(r, i[1])} : i \in IdentifierColumns[r.ds]})
  \cup (IF r.ds = Fund THEN {<<s, Representative, v>> : s \in Family(r), v \in IdentifierText(r, Representative[1])}
        ELSE {})

PriceDate == [ds \in Etp |-> IF ds = Domestic THEN "du_upt_dt" ELSE "du_clpr_base_dt"]

Audit(material) ==
  LET rows == {material[i] : i \in ValidRows(material)}
      dates(ds) == UNION {Date(r, PriceDate[ds]) : r \in {x \in rows : x.ds = ds}}
  IN [values |-> UNION {{<<s, c, Cell(r, c)>> : s \in Support(r), c \in {w \in WatchedColumns[r.ds] : Has(r, w)}}
                        : r \in rows},
      claims |-> UNION {{<<k[1], k[2][2], k[2][3], k[3]>> : k \in Claims(r)} : r \in rows},
      latest |-> [ds \in Etp |-> {d \in dates(ds) : \A e \in dates(ds) : e <= d}]]

Values(audit, entity, column) == {v[3] : v \in {w \in audit.values : w[1] = entity /\ w[2] = column}}
Disputed(audit, entity, column) == Cardinality(Values(audit, entity, column)) > 1
Claimants(audit, key) == {k[1] : k \in {l \in audit.claims : <<l[2], l[3], l[4]>> = key}}

(* Assertions and facts. *)

Record(r) == <<"record", r.ds, SourceKey(r)>>

\* Columns the rebuild reads and does not assert, and those it asserts when missing.
Untargeted ==
  [ds \in Dataset |->
     CASE ds = Foreign -> {"ref_base_index", "cu_etn_yn", "pd_risk_nm"}
       [] ds = Domestic -> {"pd_trd_ccy"}
       [] ds = Fund -> {"prfd_attr_cd"}
       [] OTHER -> {}]
Preserved ==
  LET status == {"pd_sale_yn", "pd_tr_yn", "pd_lstg_dt", "du_clpr", "du_upt_dt", "ru_mkt_price", "ru_mkt_volume"}
  IN [ds \in Dataset |->
        CASE ds = Domestic -> status \cup {"pd_lste_dt"}
          [] ds = Foreign -> status \cup {"du_clpr_base_dt", "cu_base_index"}
          [] ds = Fund -> {"rptt_ksd_itm_no", "thco_sale_yn"}
          [] OTHER -> {}]

Asserted(r) == ({c \in DOMAIN r.cells : Has(r, c)} \ Untargeted[r.ds]) \cup Preserved[r.ds]
Assertions(r) ==
  {<<"source_field_assertions", [id |-> <<Record(r), c>>, record |-> Record(r), column |-> c, raw |-> Cell(r, c)]>>
     : c \in Asserted(r)}

\* The assertion of a column, or of the first of several that is asserted.
Cite(r, c) == {<<Record(r), x>> : x \in {c} \cap Asserted(r)}
CiteFirst(r, c, fallback) == IF c \in Asserted(r) THEN Cite(r, c) ELSE Cite(r, fallback)

Evidenced(fact, status, evidence, role) ==
  {FactRow(fact, status)} \cup {EvidenceRow(fact, e, role) : e \in evidence}

\* _scalar and _derived_scalar: no fact without a value and evidence.  The key
\* decides which of the typed columns holds the value.
Scalar(r, key, values, evidence, role) ==
  UNION {LET fact == FactId(s, r.ds, "SCALAR", <<key>>)
         IN Evidenced(fact, "RESOLVED", evidence, role)
            \cup {<<"canonical_scalar_facts", [fact |-> fact, value |-> <<key, v>>]>>}
           : s \in Subject(r), v \in {w \in values : evidence # {}}}
Stated(r, key, values, column) == Scalar(r, key, values, Cite(r, column), "SUPPORTS")
Derived(r, key, values, columns) ==
  Scalar(r, key, values, UNION {Cite(r, c) : c \in columns}, "DERIVES")

(* Entities and names. *)

Product(id, type, name) ==
  {EntityRow(id, "FINANCIAL_PRODUCT", name), <<"financial_products", [id |-> id, type |-> type]>>}

Agreed(audit, id, column, values) == IF Disputed(audit, id, column) THEN {} ELSE values

Entities(r, audit) ==
  CASE r.ds = Bond ->
         LET id == ProductId(r)
         IN Product(id, "BOND", IF Disputed(audit, id, "pd_nm") THEN "" ELSE Cell(r, "pd_nm"))
            \cup {<<"bonds", [id |-> id, issued |-> Agreed(audit, id, "isu_dt", Date(r, "isu_dt")),
                              matures |-> Agreed(audit, id, "mat_dt", Date(r, "mat_dt"))]>>}
            \cup UNION {{EntityRow(lot, "SALE_LOT", ""),
                         <<"sale_lots", [id |-> lot, bond |-> id, market |-> SourceKey(r)[2],
                                         date |-> OrToday(Date(r, "info_base_dt")),
                                         sequence |-> Number(r, "info_seq")]>>}
                         : lot \in Primary(r)}
    [] r.ds \in Etp ->
         Product(ProductId(r), Cell(r, "pd_grp_no"), Cell(r, "pd_nm"))
         \cup {<<"exchange_traded_products", [id |-> ProductId(r), type |-> Cell(r, "pd_grp_no"),
                                              listed |-> Date(r, "pd_lstg_dt")]>>}
    [] OTHER ->
         UNION {Product(family, "FUND", "")
                \cup {<<"funds", [id |-> family]>>,
                      EntityRow(ProductId(r), "FUND_SHARE_CLASS", Cell(r, "itm_nm")),
                      <<"fund_share_classes", [id |-> ProductId(r), fund |-> family, key |-> ProductKey(r)]>>}
                : family \in Family(r)}

Links(r) ==
  {<<"source_record_entities", [record |-> Record(r), entity |-> p, role |-> "DESCRIBES"]>> : p \in Primary(r)}
  \cup {<<"source_record_entities", [record |-> Record(r), entity |-> s, role |-> "SUPPORTS"]>> : s \in Support(r)}

AliasRow(entity, name, type) == <<"entity_aliases", [entity |-> entity, alias |-> name, type |-> type]>>
Aliases(r) ==
  LET name == Cell(r, NameColumn[r.ds])
  IN {AliasRow(s, name, "SOURCE_NAME") : s \in Observed(r)}
     \cup {AliasRow(s, name, "MEMBER_CLASS_NAME") : s \in {f \in Support(r) : r.ds = Fund}}
     \cup {AliasRow(s, Cell(r, ShortNameColumn[r.ds]), "SHORT_NAME")
             : s \in {x \in Observed(r) : Has(r, ShortNameColumn[r.ds])}}

WellFormed(scheme, text) ==
  CASE scheme = "ISIN" -> text \in Is["isin"]
    [] OTHER -> scheme \in {"SOURCE_ID", "REPRESENTATIVE_KSD_ID"}

Identifiers(r, audit) ==
  {IdentifierRow(k[1], k[2][2], k[2][3], k[3], WellFormed(k[2][2], k[3]),
                 Cardinality(Claimants(audit, <<k[2][2], k[2][3], k[3]>>)) > 1) : k \in Claims(r)}

(* Scalars. *)

SaleStatus(r) ==
  CASE Cell(r, "pd_sale_yn") = "1" -> "AVAILABLE_FOR_SALE"
    [] Cell(r, "pd_sale_yn") = "0" -> "NOT_AVAILABLE_FOR_SALE"
    [] OTHER -> "UNKNOWN"
TradingStatus(r) ==
  CASE Cell(r, "pd_tr_yn") = "0" -> "TRADING_ACTIVE"
    [] Cell(r, "pd_tr_yn") = "1" -> "TRADING_HALTED"
    [] OTHER -> "UNKNOWN"
\* Only the domestic workbook has an end date; none is no end.
ListingEnded(r) == r.ds = Domestic /\ \E d \in Date(r, "pd_lste_dt") : d <= Today
SaleEligible(r) ==
  /\ SaleStatus(r) = "AVAILABLE_FOR_SALE"
  /\ TradingStatus(r) = "TRADING_ACTIVE"
  /\ \E d \in Date(r, "pd_lstg_dt") : d <= Today
  /\ ~ListingEnded(r)
Freshness(r, audit) ==
  IF \A v \in Number(r, "du_clpr") : v <= 0 THEN "UNKNOWN"
  ELSE IF Date(r, PriceDate[r.ds]) = {} THEN "UNKNOWN"
  ELSE IF Date(r, PriceDate[r.ds]) = audit.latest[r.ds] THEN "LATEST" ELSE "STALE"
Insufficient(r) == SaleStatus(r) = "UNKNOWN" \/ TradingStatus(r) = "UNKNOWN" \/ Date(r, "pd_lstg_dt") = {}

\* The boolean facts that are only stated when true.
Flag(condition) == IF condition THEN {TRUE} ELSE {}

EtpScalars(r, audit) ==
  LET status == {"pd_sale_yn", "pd_tr_yn", "pd_lstg_dt", "pd_lste_dt", "pd_itm_no"}
      price == {"du_clpr", PriceDate[r.ds], "ru_mkt_price", "ru_mkt_volume", "pd_itm_no"}
      fresh == Freshness(r, audit)
      ends == IF r.ds = Domestic THEN Date(r, "pd_lste_dt") ELSE {}
  IN Stated(r, "etp_distribution_status", {SaleStatus(r)}, "pd_sale_yn")
     \cup Stated(r, "etp_trading_status", {TradingStatus(r)}, "pd_tr_yn")
     \cup Stated(r, "listing_start_date", Date(r, "pd_lstg_dt"), "pd_lstg_dt")
     \cup Stated(r, "listing_end_date", ends, "pd_lste_dt")
     \cup Stated(r, "listing_end_date_status",
                 IF r.ds = Domestic /\ Cell(r, "pd_lste_dt") = "99991231" THEN {"NO_KNOWN_END_DATE"} ELSE {},
                 "pd_lste_dt")
     \cup Derived(r, "etp_listing_ended", IF r.ds = Domestic THEN {ListingEnded(r)} ELSE {}, {"pd_lste_dt"})
     \cup Derived(r, "current_etp_sale_eligible", Flag(SaleEligible(r)), status)
     \cup Derived(r, "etp_price_freshness_status", {fresh}, price)
     \cup Derived(r, "latest_etp_price_available", Flag(fresh = "LATEST"), price)
     \cup Derived(r, "stale_etp_price_warning", Flag(SaleEligible(r) /\ fresh = "STALE"), status \cup price)
     \cup Derived(r, "etp_insufficient_info", Flag(Insufficient(r)), status)

\* Fault: whatever the row says is stated.
AnyScalar(r, audit, key, column, values) == Stated(r, key, values, column)
\* A bond states only what its rows agree on.
AgreedScalar(r, audit, key, column, values) ==
  IF \E s \in Subject(r) : Disputed(audit, s, column) THEN {} ELSE Stated(r, key, values, column)

Scalars(r, audit) ==
  LET name == NameColumn[r.ds]
  IN CASE r.ds = Bond ->
            Stated(r, "product_type", {"BOND"}, "pd_no")
            \cup AgreedScalar(r, audit, "name", name, {Cell(r, name)})
            \cup AgreedScalar(r, audit, "issue_date", "isu_dt", Date(r, "isu_dt"))
            \cup AgreedScalar(r, audit, "maturity_date", "mat_dt", Date(r, "mat_dt"))
            \cup AgreedScalar(r, audit, "issue_balance", "isu_bal_amt", Number(r, "isu_bal_amt"))
       [] r.ds = Fund ->
            Stated(r, "product_type", {"FUND"}, "rptt_ksd_itm_no")
            \cup Stated(r, "name", {Cell(r, name)}, name)
            \cup Stated(r, "is_sold_by_mirae_asset",
                        IF Cell(r, "thco_sale_yn") \in {"Y", "N"} THEN {Cell(r, "thco_sale_yn") = "Y"} ELSE {},
                        "thco_sale_yn")
       [] OTHER ->
            Stated(r, "product_type", {Cell(r, "pd_grp_no")}, "pd_grp_no")
            \cup Stated(r, "name", {Cell(r, name)}, name)
            \cup EtpScalars(r, audit)
=============================================================================
