--------------------------- MODULE MCCanonicalStore ---------------------------
(***************************************************************************)
(* A small instance of CanonicalStore: eight rows that meet every branch   *)
(* of the rebuild, two rows with one source key, and five external scopes  *)
(* that read each other; kodex joins two tickers in one security.          *)
(***************************************************************************)
EXTENDS CanonicalStore

MCToday == 20260824
MCIs ==
  "zeros" :> {"000"} @@ "ric" :> {"F1.O", "F2.O"} @@
  "twelve" :> {"KRB1", "KRE1", "KRC1", "KRC2", "KRC3", "KRX9", "KSDF"} @@
  "placeholder" :> {"test"} @@ "sentinel" :> {} @@ "code" :> {} @@
  "isin" :> {"KRB1", "KRE1", "US1"} @@ "designated" :> {"some fund"} @@ "composite" :> {"mixed index"}
MCDates ==
  "20260101" :> 20260101 @@ "20270101" :> 20270101 @@ "20260709" :> 20260709 @@ "99991231" :> 99991231
MCNumbers == "1" :> 1 @@ "2" :> 2 @@ "3" :> 3
MCConcepts ==
  <<"asset_class", "bond">> :> "BOND" @@ <<"asset_class", "equity">> :> "EQUITY" @@
  <<"risk_grade", "1">> :> "R1" @@ <<"risk_grade", "2">> :> "R2" @@ <<"bond_type", "corporate">> :> "CORPORATE"
MCCodes ==
  "CURRENCY" :> ("KRW" :> "KRW" @@ "USD" :> "USD") @@ "COUNTRY" :> ("KR" :> "KR" @@ "US" :> "US") @@
  "RATING" :> ("AAA" :> 1 @@ "AA" :> 2)
MCFold == "Manager A" :> "manager a"

Row(ds, n, cells) == [ds |-> ds, n |-> n, cells |-> cells]

BondRows == <<
  Row(Bond, 1, "pd_no" :> "KRB1" @@ "pd_exg_mkt" :> "1" @@ "info_base_dt" :> "20260709" @@ "info_seq" :> "1" @@
    "pd_nm" :> "bond" @@ "pd_pbcm" :> "issuer" @@ "isu_dt" :> "20260101" @@ "mat_dt" :> "20260709" @@
    "bd_knd" :> "corporate" @@ "curr_cd" :> "KRW" @@ "pd_ctry_cd" :> "KR" @@ "crd_grd" :> "AA" @@
    "buy_yield" :> "2" @@ "pd_risk_gcd" :> "1"),
  Row(Bond, 2, "pd_no" :> "KRB1" @@ "pd_exg_mkt" :> "2" @@ "info_base_dt" :> "20260709" @@ "info_seq" :> "1" @@
    "pd_nm" :> "bond" @@ "pd_pbcm" :> "some fund" @@ "isu_dt" :> "20260101" @@ "mat_dt" :> "20270101" @@
    "bd_knd" :> "other" @@ "curr_cd" :> "KRW" @@ "eval_price" :> "3" @@ "crd_grd" :> "AAA")>>
EtpRows == <<
  Row(Domestic, 1, "pd_itm_no" :> "KRE1" @@ "pd_nm" :> "etf" @@ "pd_grp_no" :> "ETF" @@ "pd_ticker" :> "E1" @@
    "pd_isin_cd" :> "KRE1" @@ "wu_inv_ast_type" :> "equity" @@ "cu_fund_mgmt_co" :> "Manager A" @@
    "cu_base_index" :> "index" @@ "pd_sale_yn" :> "1" @@ "pd_tr_yn" :> "0" @@ "pd_lstg_dt" :> "20260101" @@
    "pd_lste_dt" :> "99991231" @@ "du_clpr" :> "3" @@ "du_upt_dt" :> "20260709" @@ "du_er_1y" :> "1" @@ "du_er_1m" :> "2"),
  Row(Foreign, 1, "pd_itm_no" :> "F1.O" @@ "pd_nm" :> "us etn" @@ "pd_grp_no" :> "ETN" @@ "pd_isin_cd" :> "US1" @@
    "pd_curr_cd" :> "USD" @@ "pd_mkt_id" :> "US" @@ "ref_base_index" :> "index" @@ "cu_index_tracking_yn" :> "Y" @@
    "pd_risk_nm" :> "2" @@ "du_clpr_base_dt" :> "20260101" @@ "du_clpr" :> "2" @@ "cu_fund_mgmt_co" :> "manager a"),
  Row(Foreign, 2, "pd_itm_no" :> "F2.O" @@ "pd_nm" :> "test" @@ "pd_grp_no" :> "ETF")>>
FundRows == <<
  Row(Fund, 1, "itm_no" :> "KRC1" @@ "itm_nm" :> "class 1" @@ "rptt_ksd_itm_no" :> "KSDF" @@ "or_co_xtn_itt_cd" :> "m1" @@
    "trusc_xtn_itt_cd" :> "trustee" @@ "bmrk_nm" :> "index" @@ "or_attr_desc" :> "equity" @@ "thco_sale_yn" :> "Y" @@
    "fd_yr1_ern_r" :> "1" @@ "fd_price_bas_dt" :> "20260709"),
  Row(Fund, 2, "itm_no" :> "KRC2" @@ "itm_nm" :> "class 2" @@ "std_itm_no" :> "US1" @@ "rptt_ksd_itm_no" :> "KSDF" @@ "or_co_xtn_itt_cd" :> "m2" @@
    "trusc_xtn_itt_cd" :> "trustee" @@ "bmrk_nm" :> "mixed index" @@ "or_attr_desc" :> "equity"),
  Row(Fund, 3, "itm_no" :> "KRC3" @@ "itm_nm" :> "class 3" @@ "or_attr_desc" :> "equity")>>

\* The second has two bond rows with one source key.
MCMaterials == {BondRows \o EtpRows \o FundRows,
                <<BondRows[1], [BondRows[1] EXCEPT !.n = 2]>>}

\* <<id, isin, ticker, exchange, product, code, market, member, six, security>>
Holding(h) ==
  [id |-> h[1], isin |-> h[2], ticker |-> h[3], exchange |-> "KRX", product |-> "", code |-> h[4], market |-> h[5],
   member |-> h[6], six |-> h[7], security |-> h[8], day |-> 1]
MCHoldings ==
  "kodex" :> (
    "a" :> <<Holding(<<"k1", "KRE1", "E1", "", "", "m1", FALSE, TRUE>>),
             Holding(<<"k2", "KRE1", "E1", "005930", "KRX", "m1", FALSE, TRUE>>),
             Holding(<<"k3", "KRE1", "", "", "", "won", FALSE, FALSE>>),
             Holding(<<"k4", "KRE1", "", "000660", "KRX", "m1", FALSE, TRUE>>)>>) @@
  "tiger" :> ("a" :> <<Holding(<<"t1", "KRE1", "", "", "", "005930", TRUE, TRUE>>),
                       Holding(<<"t2", "KRE1", "", "005930", "KRX", "005930", TRUE, TRUE>>)>>)
MCSpace == "kodex" :> [product |-> "KODEX", security |-> "KODEX"] @@ "tiger" :> [product |-> "", security |-> "TIGER"]

Issuer(i) == [id |-> i[1], ticker |-> i[2], issuer |-> i[3], name |-> i[4]]
MCIssuers ==
  "issuers_v1" :> ("a" :> <<Issuer(<<"i1", "005930", "100", "issuer">>), Issuer(<<"i2", "000660", "200", "other">>)>>) @@
  "issuers_v2" :> ("a" :> <<Issuer(<<"j1", "005930", "100", "issuer inc">>), Issuer(<<"j2", "005930", "200", "other">>)>>)
MCLegal == "issuer inc" :> "issuer"
MCReturns ==
  "returns" :> ("a" :> <<[id |-> "r1", isin |-> "US1", ticker |-> "F1", exchange |-> "NYSE", product |-> "9", day |-> 1, value |-> 5],
                         [id |-> "r2", isin |-> "KRE1", ticker |-> "", exchange |-> "", product |-> "8", day |-> 1, value |-> 6]>>)
=============================================================================
