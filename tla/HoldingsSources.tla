---------------------------- MODULE HoldingsSources ----------------------------
(***************************************************************************)
(* What the three adapters read out of a response of their source          *)
(* (holdings/providers/kodex.py, tiger.py, ishares.py) and what catalogs    *)
(* make of the workbook of products (catalog.py, *_production.py).         *)
(*                                                                         *)
(* A response is the record of what any of the three reads in it:          *)
(*   items    its positions, in order                                      *)
(*   formed   the document has the reviewed structure                      *)
(*   counted  the number of positions is the one it reports                *)
(*   named    its title is the product's (iShares)                         *)
(*   day      the date it states (TIGER's states none)                     *)
(* and a position is a code and the form it has, a name, the asset class    *)
(* and market (iShares), the weight and the quantity.                      *)
(***************************************************************************)
EXTENDS Naturals, Sequences, FiniteSets, Functions

CONSTANTS
  Offers,        \* product -> responses its source may give
  Body,          \* response -> its content
  Workbook,      \* product -> its rows in the reference workbook, see Listing
  Cutoff,        \* DATA_CUTOFF_DATE, and the date asked of KODEX and TIGER
  PortfolioDate  \* the date asked of iShares

ASSUME DateAssumption == PortfolioDate <= Cutoff

Manager == {"kodex", "tiger", "ishares"}
Product == DOMAIN Offers
Response == UNION Range(Offers)

\* "digits": six digits.  "letters": six characters, not all digits.
\* "derivative": KR4 and nine more.  "deposit": begins with KRD.
Form == {"digits", "letters", "derivative", "deposit", "none"}
\* "share": from 0 to 100.  "over": greater.
Number == {"none", "text", "negative", "share", "over"}
Name == {"company", "cash", "deposit", "blank"}   \* "cash": exactly the won deposit
Asset == {"Equity", "Cash", "Futures", "Other"}
Item == [code : STRING, form : Form, name : Name, asset : Asset, market : {"listed", "unknown"},
         weight : Number, amount : Number]

\* by: rows with the product's ISIN, and with its ticker and market.
\* whole: ISIN and ticker have their form.  safe: of the reviewed kind.
Listing == [isin : Nat, ticker : Nat, whole : BOOLEAN, safe : BOOLEAN]

Reply == [items : Seq(Item), formed : BOOLEAN, counted : BOOLEAN, named : BOOLEAN, day : Nat]

\* No two products share a response: its address names the product.
ASSUME SourceAssumption ==
  /\ \A r \in Response : Body[r] \in Reply
  /\ Workbook \in [Product -> Listing]
  /\ \A p, q \in Product : p # q => Offers[p] \cap Offers[q] = {}

Nonnegative == {"share", "over"}

\* One row of holdings.jsonl.  Its identifier is a digest of product, key and date.
Row(p, key, day, rank, status, item) ==
  [product |-> p, key |-> key, day |-> day, rank |-> rank, status |-> status, item |-> item]
Id(row) == <<row.product, row.key, row.day>>

(* KODEX. *)

KodexFormed(r) == Body[r].formed /\ Body[r].counted

KodexLate(r) == Body[r].day > Cutoff

\* _normalize raises for blank names and numbers outside the contract.
KodexNormal(r) ==
  \A item \in Range(Body[r].items) :
    /\ item.name # "blank"
    /\ item.weight \in {"none", "share"}
    /\ item.amount \in {"none"} \cup Nonnegative

KodexRow(p, r, item) ==
  Row(p,
      IF item.form = "none" THEN <<"name", item.name>>
      ELSE <<IF item.form = "digits" THEN "ticker" ELSE "source", item.code>>,
      Body[r].day,
      0,
      IF item.name = "cash" \/ item.form = "deposit" THEN "NON_SECURITY" ELSE "SECURITY",
      item)

\* acquire: the quality its source record gets before rows are normalized.
KodexQuality(r) ==
  IF ~KodexFormed(r) THEN "PARSE_FAILED"
  ELSE IF KodexLate(r) THEN "VALIDATION_FAILED" ELSE "VALID"

(* TIGER. *)

TigerParsed(r) ==
  /\ Body[r].formed
  /\ Body[r].items # << >>
  /\ Body[r].counted
  /\ \A item \in Range(Body[r].items) : item.form # "none" /\ item.name # "blank"

\* The numbers of cash are not read.
TigerCash(item) == item.form = "deposit" \/ item.name \in {"cash", "deposit"}

TigerNormal(r) ==
  \A item \in Range(Body[r].items) :
    \/ TigerCash(item)
    \/ item.amount \in {"none"} \cup Nonnegative /\ item.weight = "share"

TigerTicker(item) == ~TigerCash(item) /\ item.form \in {"digits", "letters"}

TigerRow(p, item) ==
  Row(p, <<IF TigerTicker(item) THEN "ticker" ELSE "source", item.code>>, Cutoff, 0,
      IF TigerCash(item) THEN "NON_SECURITY" ELSE IF TigerTicker(item) THEN "SECURITY" ELSE "UNRESOLVED",
      item)

TigerQuality(r) == IF TigerParsed(r) /\ TigerNormal(r) THEN "VALID" ELSE "PARSE_FAILED"

(* iShares. *)

ISharesParsed(r) == Body[r].formed /\ Body[r].items # << >>

ISharesMatches(r) == Body[r].day <= PortfolioDate /\ Body[r].day <= Cutoff /\ Body[r].named

Canonicalizable(item) == item.asset = "Equity" /\ item.market = "listed" /\ item.form # "none"

ISharesNormal(r) ==
  \A item \in Range(Body[r].items) :
    Canonicalizable(item) => item.weight = "share" /\ item.amount \in Nonnegative

ISharesRow(p, r, rank) ==
  LET item == Body[r].items[rank]
  IN Row(p,
         IF Canonicalizable(item) THEN <<"ticker", item.market, item.code>>
         ELSE <<"position", rank, item.asset, item.code, item.name>>,
         Body[r].day,
         rank,
         IF Canonicalizable(item) THEN "SECURITY"
         ELSE IF item.asset \in {"Cash", "Futures"} THEN "NON_SECURITY" ELSE "UNSUPPORTED",
         item)

ISharesQuality(r) ==
  IF ISharesParsed(r) /\ ISharesMatches(r) /\ ISharesNormal(r) THEN "VALID" ELSE "PARSE_FAILED"

(* All three: the rows a response that is accepted gives, in order. *)

ProductOf(r) == CHOOSE p \in Product : r \in Offers[p]

RowsRead ==
  [s \in Manager |->
     [r \in Response |->
        [i \in DOMAIN Body[r].items |->
           CASE s = "kodex" -> KodexRow(ProductOf(r), r, Body[r].items[i])
             [] s = "tiger" -> TigerRow(ProductOf(r), Body[r].items[i])
             [] s = "ishares" -> ISharesRow(ProductOf(r), r, i)]]]

(* Catalogs: which of the listed products are crawled. *)

\* resolve_catalog_against_pref01: by ISIN, and by ticker when no row has it.
Candidates(p) == IF Workbook[p].isin > 0 THEN Workbook[p].isin ELSE Workbook[p].ticker
KodexResolved(listed) == {p \in listed : Candidates(p) = 1}

\* audit_tiger_pref01_catalog leaves out what it cannot identify or has not reviewed.
TigerReviewed(listed) == {p \in listed : Workbook[p].whole /\ Workbook[p].safe}

\* audit_pref02_foreign_etfs raises unless every reviewed ticker is one safe row.
ISharesAudited(listed) ==
  \A p \in listed : Workbook[p].ticker = 1 /\ Workbook[p].whole /\ Workbook[p].safe
=============================================================================
