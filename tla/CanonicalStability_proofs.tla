----------------------- MODULE CanonicalStability_proofs -----------------------
(***************************************************************************)
(* A scope whose sources nothing has written for since its activation is a *)
(* fixpoint of its integration, whatever the workbooks, the scopes and the *)
(* order of rebuilds and activations.  The argument: a row that a stored   *)
(* one stands in the way of is never inserted, and no table ever lets go   *)
(* of a key (Blocked, Occupies).  A scope gives names of its own kind only *)
(* (Widens, Named), so the answer on a constituent or an issuer is decided *)
(* once and for all by the first integration that meets it (Placed,        *)
(* Steady), and the second integration of the same transaction writes what *)
(* follows from the answers (Settled).  The two columns that rows write    *)
(* over, the status of a security and the record of an issuer row, hold    *)
(* what the last row to write them writes (Right).                         *)
(***************************************************************************)
EXTENDS CanonicalStore_proofs

(* Inserts that change nothing. *)

\* The database is a function, and nothing else.
Tables(d) == d = [t \in DOMAIN Keys |-> d[t]]

\* A row that a stored one stands in the way of.
Blocked(d, w) == w[1] \in DOMAIN d => Taken(w[1], w[2]) \cap TakenBy(w[1], d[w[1]]) # {}
AllBlocked(d, W) == \A w \in W : Blocked(d, w)

\* No stored row gives way.
Occupies(d, e) == DOMAIN e = DOMAIN d /\ \A t \in DOMAIN d : TakenBy(t, d[t]) \subseteq TakenBy(t, e[t])

LEMMA KeysNotEmpty == \A t \in DOMAIN Keys : Keys[t] # {}
<1>1. \A t \in DOMAIN SourceKeys : SourceKeys[t] # {}
  BY DEF SourceKeys
<1>2. \A t \in DOMAIN EntityKeys : EntityKeys[t] # {}
  BY DEF EntityKeys
<1>3. \A t \in DOMAIN NameKeys : NameKeys[t] # {}
  BY DEF NameKeys
<1>4. \A t \in DOMAIN FactKeys : FactKeys[t] # {}
  BY DEF FactKeys
<1>5. \A t \in DOMAIN MetricKeys : MetricKeys[t] # {}
  BY DEF MetricKeys
<1>6. \A t \in DOMAIN CaseKeys : CaseKeys[t] # {}
  BY DEF CaseKeys
<1> QED BY <1>1, <1>2, <1>3, <1>4, <1>5, <1>6 DEF Keys

\* Every row takes a key.
LEMMA RowTakes ==
  ASSUME NEW t \in DOMAIN Keys, NEW row
  PROVE  Taken(t, row) # {}
<1>1. PICK columns \in Keys[t] : TRUE
  BY KeysNotEmpty
<1>2. <<columns, [c \in columns |-> row[c]]>> \in Taken(t, row)
  BY <1>1 DEF Taken
<1> QED BY <1>2

LEMMA MoreOccupies ==
  ASSUME NEW d, NEW e, DOMAIN e = DOMAIN d, \A t \in DOMAIN d : d[t] \subseteq e[t]
  PROVE  Occupies(d, e)
BY DEF Occupies, TakenBy

LEMMA OccupiesTwice ==
  ASSUME NEW d, NEW e, NEW f, Occupies(d, e), Occupies(e, f)
  PROVE  Occupies(d, f)
BY DEF Occupies

LEMMA BlockedStays ==
  ASSUME NEW d, NEW e, Occupies(d, e), NEW W, AllBlocked(d, W)
  PROVE  AllBlocked(e, W)
BY DEF AllBlocked, Blocked, Occupies

\* An insert of rows that all are blocked does nothing.
LEMMA BlockedInsert ==
  ASSUME NEW d, Tables(d), NEW W, AllBlocked(d, W)
  PROVE  Insert(d, W) = d
<1>1. ASSUME NEW t \in DOMAIN d, NEW row \in RowsFor(W, t), Taken(t, row) \cap TakenBy(t, d[t]) = {}
      PROVE  FALSE
  <2>1. PICK w \in W : w[1] = t /\ w[2] = row
    BY RowIsWrite
  <2> QED BY <1>1, <2>1 DEF AllBlocked, Blocked
<1>2. \A t \in DOMAIN d : Fresh(t, d[t], RowsFor(W, t)) = {}
  BY <1>1 DEF Fresh
<1>3. Insert(d, W) = [t \in DOMAIN d |-> d[t]]
  BY <1>2 DEF Insert
<1>4. DOMAIN d = DOMAIN Keys
  BY DEF Tables
<1> QED BY <1>3, <1>4 DEF Tables

\* What was inserted is blocked from then on.
LEMMA InsertBlocks ==
  ASSUME NEW d, Database(d), NEW W
  PROVE  /\ AllBlocked(Insert(d, W), W) /\ Occupies(d, Insert(d, W))
         /\ Database(Insert(d, W)) /\ Tables(Insert(d, W))
<1> DEFINE e == Insert(d, W)
<1>1. /\ e = [t \in DOMAIN Keys |-> d[t] \cup Fresh(t, d[t], RowsFor(W, t))]
      /\ DOMAIN e = DOMAIN Keys /\ DOMAIN d = DOMAIN Keys
  BY DEF Insert, Database
<1> HIDE DEF e
<1>2. \A t \in DOMAIN Keys : e[t] = d[t] \cup Fresh(t, d[t], RowsFor(W, t))
  BY <1>1
<1>3. Tables(e)
  BY <1>1, <1>2 DEF Tables
<1>4. Occupies(d, e)
  BY <1>1, <1>2, MoreOccupies
<1>5. ASSUME NEW w \in W, w[1] \in DOMAIN Keys
      PROVE  Taken(w[1], w[2]) \cap TakenBy(w[1], e[w[1]]) # {}
  <2> DEFINE t == w[1]
             row == w[2]
  <2>1. row \in RowsFor(W, t) /\ t \in DOMAIN Keys
    BY <1>5 DEF RowsFor
  <2> HIDE DEF t, row
  <2>2. CASE row \in Fresh(t, d[t], RowsFor(W, t))
    <3>1. row \in e[t]
      BY <1>2, <2>1, <2>2
    <3>2. Taken(t, row) # {} /\ Taken(t, row) \subseteq TakenBy(t, e[t])
      BY <2>1, <3>1, RowTakes DEF TakenBy
    <3> QED BY <3>2 DEF t, row
  <2>3. CASE row \notin Fresh(t, d[t], RowsFor(W, t))
    <3>1. Taken(t, row) \cap TakenBy(t, d[t]) # {}
      BY <2>1, <2>3 DEF Fresh
    <3>2. TakenBy(t, d[t]) \subseteq TakenBy(t, e[t])
      BY <1>1, <1>4, <2>1 DEF Occupies
    <3> QED BY <3>1, <3>2 DEF t, row
  <2> QED BY <2>2, <2>3
<1>6. AllBlocked(e, W)
  BY <1>1, <1>5 DEF AllBlocked, Blocked
<1> QED BY <1>1, <1>3, <1>4, <1>6 DEF Database, e

(* What an activation adds to the names. *)

Names(i, c) == i.scheme = c[1] /\ i.space = c[2] /\ i.value = c[3]
Covered(d, c) == \E i \in d["entity_identifiers"] : Undisputed(i) /\ Names(i, c)

\* A security that has an identifier is stored, its identifiers are in no
\* dispute, and the record of an issuer row is the row's.
Named(d) ==
  /\ Tables(d)
  /\ \A i \in d["entity_identifiers"] : KindOf(i.entity) = "SECURITY" => Undisputed(i) /\ "SECURITY" \in Kind(d, i.entity)
  /\ \A r \in d["external_security_issuer_records"] : r.record = <<"normalized", r.id>>
Good(d) == Database(d) /\ Sound(d) /\ Named(d)

\* The identifiers a scope may give, and to what.
MayName(scope, i) ==
  \/ /\ scope \in DOMAIN Holdings /\ KindOf(i.entity) = "SECURITY"
     /\ i.scheme = "TICKER" \/ (i.scheme = "PROVIDER_SOURCE_ID" /\ i.space = Space[scope].security)
  \/ scope \in DOMAIN Issuers /\ OwnsName(i) /\ KindOf(i.entity) = "ORGANIZATION"

NameTables == {"canonical_entities", "entity_identifiers", "entity_aliases", "dataset_snapshots"}
IssuerReads ==
  {"canonical_entities", "entity_identifiers", "entity_aliases", "securities", "external_security_issuer_records"}
\* No identifier is given that has an undisputed owner, and a scope of returns
\* adds nothing that issuers read.
Widens(scope, d, e) ==
  /\ Occupies(d, e)
  /\ \A t \in NameTables : d[t] \subseteq e[t]
  /\ e["identifier_collision_cases"] = d["identifier_collision_cases"]
  /\ \A i \in e["entity_identifiers"] :
       \/ i \in d["entity_identifiers"]
       \/ Undisputed(i) /\ MayName(scope, i) /\ ~Covered(d, <<i.scheme, i.space, i.value>>)
  /\ scope \in DOMAIN Returns => \A t \in IssuerReads : e[t] = d[t]

LEMMA KeysOfNames ==
  /\ NameTables \cup IssuerReads \cup {"identifier_collision_cases"} \subseteq DOMAIN Keys
  /\ Keys["entity_aliases"] = {{"entity", "alias", "type"}} /\ Keys["securities"] = {{"id"}}
  /\ Keys["external_security_issuer_records"] = {{"id"}, {"record"}}
<1>1. "entity_aliases" \in DOMAIN NameKeys /\ "identifier_collision_cases" \in DOMAIN NameKeys
      /\ NameKeys["entity_aliases"] = {{"entity", "alias", "type"}}
  BY DEF NameKeys
<1>2. "securities" \in DOMAIN EntityKeys /\ EntityKeys["securities"] = {{"id"}}
  BY DEF EntityKeys
<1>3. "external_security_issuer_records" \in DOMAIN SourceKeys
      /\ SourceKeys["external_security_issuer_records"] = {{"id"}, {"record"}}
  BY DEF SourceKeys
<1>4. "securities" \notin DOMAIN SourceKeys /\ "entity_aliases" \notin DOMAIN SourceKeys \cup DOMAIN EntityKeys
  BY DEF SourceKeys, EntityKeys
<1>5. DOMAIN SourceKeys \cup DOMAIN EntityKeys \cup DOMAIN NameKeys \subseteq DOMAIN Keys
  BY DEF Keys
<1>6. Keys["securities"] = EntityKeys["securities"] /\ Keys["entity_aliases"] = NameKeys["entity_aliases"]
      /\ Keys["external_security_issuer_records"] = SourceKeys["external_security_issuer_records"]
  BY <1>1, <1>2, <1>3, <1>4, <1>5 DEF Keys
<1>7. IssuerTables \subseteq DOMAIN Keys
  BY IssuerKeys
<1> QED BY <1>1, <1>2, <1>3, <1>5, <1>6, <1>7 DEF NameTables, IssuerReads, IssuerTables

LEMMA WidensNot ==
  ASSUME NEW scope, NEW d
  PROVE  Widens(scope, d, d)
BY DEF Widens, Occupies

LEMMA WidensTwice ==
  ASSUME NEW scope, NEW d, NEW e, NEW f, Widens(scope, d, e), Widens(scope, e, f)
  PROVE  Widens(scope, d, f)
<1>1. Occupies(d, f)
  BY OccupiesTwice DEF Widens
<1>2. d["entity_identifiers"] \subseteq e["entity_identifiers"]
  BY DEF Widens, NameTables
<1>3. \A c : Covered(d, c) => Covered(e, c)
  BY <1>2 DEF Covered
<1>4. \A i \in f["entity_identifiers"] :
        \/ i \in d["entity_identifiers"]
        \/ Undisputed(i) /\ MayName(scope, i) /\ ~Covered(d, <<i.scheme, i.space, i.value>>)
  BY <1>3 DEF Widens
<1>5. \A t \in NameTables : d[t] \subseteq f[t]
  BY DEF Widens
<1> QED BY <1>1, <1>4, <1>5 DEF Widens

\* A write of a scope as far as names go.
Modest(scope, w) ==
  /\ w[1] # "identifier_collision_cases"
  /\ w[1] = "entity_identifiers" => Undisputed(w[2]) /\ MayName(scope, w[2])
  /\ w[1] = "external_security_issuer_records" => w[2].record = <<"normalized", w[2].id>>
  /\ scope \in DOMAIN Returns => w[1] \notin IssuerReads

LEMMA InsertWidens ==
  ASSUME NEW scope, NEW d, Database(d), Named(d), NEW W, \A w \in W : Modest(scope, w),
         \A i \in RowsFor(W, "entity_identifiers") :
           KindOf(i.entity) = "SECURITY" => "SECURITY" \in Kind(Insert(d, W), i.entity)
  PROVE  Widens(scope, d, Insert(d, W)) /\ Named(Insert(d, W))
<1> DEFINE e == Insert(d, W)
<1>1. /\ DOMAIN e = DOMAIN d /\ DOMAIN d = DOMAIN Keys
      /\ \A t \in DOMAIN d : e[t] = d[t] \cup Fresh(t, d[t], RowsFor(W, t))
  BY DEF Insert, Database
<1>2. \A t : \A row \in RowsFor(W, t) : Modest(scope, <<t, row>>)
  <2> SUFFICES ASSUME NEW t, NEW row \in RowsFor(W, t)
               PROVE  Modest(scope, <<t, row>>)
    OBVIOUS
  <2>1. PICK w \in W : w[1] = t /\ w[2] = row
    BY RowIsWrite
  <2> QED BY <2>1 DEF Modest
<1>3. \A t, old, new : Fresh(t, old, new) \subseteq new
  BY DEF Fresh
<1>4. Occupies(d, e) /\ Tables(e)
  BY InsertBlocks
<1> HIDE DEF e
<1>5. \A t \in NameTables : t \in DOMAIN d /\ d[t] \subseteq e[t]
  BY <1>1, KeysOfNames
<1>6. e["identifier_collision_cases"] = d["identifier_collision_cases"]
  <2>1. RowsFor(W, "identifier_collision_cases") = {}
    BY <1>2 DEF Modest
  <2> QED BY <1>1, <1>3, <2>1, KeysOfNames
<1>7. ASSUME NEW i \in Fresh("entity_identifiers", d["entity_identifiers"], RowsFor(W, "entity_identifiers"))
      PROVE  Undisputed(i) /\ MayName(scope, i) /\ ~Covered(d, <<i.scheme, i.space, i.value>>)
  <2>1. Undisputed(i) /\ MayName(scope, i)
    BY <1>2, <1>3 DEF Modest
  <2>2. ASSUME NEW j \in d["entity_identifiers"], Undisputed(j), Names(j, <<i.scheme, i.space, i.value>>)
        PROVE  FALSE
    <3>1. PartialKeys("entity_identifiers", i) = {{"scheme", "space", "value"}}
          /\ PartialKeys("entity_identifiers", j) = {{"scheme", "space", "value"}}
      BY <2>1, <2>2 DEF PartialKeys
    <3>2. Clash("entity_identifiers", i, j)
      BY <3>1, <2>2 DEF Clash, Names
    <3>3. Taken("entity_identifiers", i) \cap Taken("entity_identifiers", j) # {}
      BY <3>2, ClashTaken
    <3> QED BY <3>3, <2>2 DEF Fresh, TakenBy
  <2> QED BY <2>1, <2>2 DEF Covered
<1>8. "entity_identifiers" \in DOMAIN d /\ "external_security_issuer_records" \in DOMAIN d
  BY <1>1, KeysOfNames DEF NameTables, IssuerReads
<1>9. scope \in DOMAIN Returns => \A t \in IssuerReads : e[t] = d[t]
  <2> SUFFICES ASSUME scope \in DOMAIN Returns, NEW t \in IssuerReads
               PROVE  e[t] = d[t]
    OBVIOUS
  <2>1. RowsFor(W, t) = {}
    BY <1>2 DEF Modest
  <2>2. t \in DOMAIN d
    BY <1>1, KeysOfNames
  <2>3. Fresh(t, d[t], RowsFor(W, t)) = {}
    BY <1>3, <2>1
  <2> QED BY <1>1, <2>2, <2>3
<1>10. Widens(scope, d, e)
  BY <1>1, <1>4, <1>5, <1>6, <1>7, <1>8, <1>9 DEF Widens
<1>11. ASSUME NEW i \in e["entity_identifiers"], KindOf(i.entity) = "SECURITY"
       PROVE  Undisputed(i) /\ "SECURITY" \in Kind(e, i.entity)
  <2>1. \A id : Kind(d, id) \subseteq Kind(e, id)
    BY <1>5 DEF NameTables, Kind
  <2>2. CASE i \in d["entity_identifiers"]
    BY <1>11, <2>1, <2>2 DEF Named
  <2>3. CASE i \notin d["entity_identifiers"]
    <3>1. i \in RowsFor(W, "entity_identifiers")
      BY <1>1, <1>3, <1>8, <2>3
    <3> QED BY <1>2, <1>11, <3>1 DEF Modest, e
  <2> QED BY <2>2, <2>3
<1>12. \A r \in e["external_security_issuer_records"] : r.record = <<"normalized", r.id>>
  BY <1>1, <1>2, <1>3, <1>8 DEF Named, Modest
<1> QED BY <1>4, <1>10, <1>11, <1>12 DEF Named, e

(* What holdings and returns read. *)

\* The products an identifier names are the rebuilds' and stay as they are.
LEMMA ProductOwners ==
  ASSUME NEW scope, NEW d, NEW e, Good(d), Leaves(d, e), Widens(scope, d, e), NEW scheme, NEW space, NEW value
  PROVE  Owners(e, scheme, space, value, "FINANCIAL_PRODUCT") = Owners(d, scheme, space, value, "FINANCIAL_PRODUCT")
<1> DEFINE P == "FINANCIAL_PRODUCT"
<1>1. \A id : KindOf(id) = P => Home(id)
  BY DEF KindOf, Home, Bond, Domestic, Foreign, Fund
<1>2. \A row : Home(row.id) => (row \in d["canonical_entities"] <=> row \in e["canonical_entities"])
  BY SameRows DEF Leaves, ReadTables, Native
<1>3. \A id : P \in Kind(e, id) => KindOf(id) = P
  BY KindIsKept DEF Leaves
<1>4. \A id : P \in Kind(d, id) => KindOf(id) = P
  BY KindIsKept DEF Good
<1>5. \A id : P \in Kind(e, id) <=> P \in Kind(d, id)
  BY <1>1, <1>2, <1>3, <1>4 DEF Kind
<1>6. d["entity_identifiers"] \subseteq e["entity_identifiers"]
  BY DEF Widens, NameTables
<1>7. ASSUME NEW i \in e["entity_identifiers"], P \in Kind(e, i.entity)
      PROVE  i \in d["entity_identifiers"]
  BY <1>3, <1>7 DEF Widens, MayName
<1> QED BY <1>5, <1>6, <1>7 DEF Owners

LEMMA ProductStays ==
  ASSUME NEW scope, NEW d, NEW e, Good(d), Leaves(d, e), Widens(scope, d, e)
  PROVE  /\ \A other, h : ProductOf(e, other, h) = ProductOf(d, other, h)
         /\ \A row : ReturnedProduct(e, row) = ReturnedProduct(d, row)
<1>1. \A scheme, space, value :
        Owners(e, scheme, space, value, "FINANCIAL_PRODUCT") = Owners(d, scheme, space, value, "FINANCIAL_PRODUCT")
  BY ProductOwners
<1>2. e["identifier_collision_cases"] = d["identifier_collision_cases"]
  BY DEF Widens
<1>3. \A scheme, space, value :
        Identify(e, scheme, space, value, "FINANCIAL_PRODUCT") = Identify(d, scheme, space, value, "FINANCIAL_PRODUCT")
  BY <1>1, <1>2 DEF Identify
<1>4. e["financial_products"] = d["financial_products"]
  BY SameRows, WholeTables DEF Leaves
<1>5. \A found : RequireEtf(e, found) = RequireEtf(d, found)
  BY <1>4 DEF RequireEtf, ProductType
<1>6. ASSUME NEW other, NEW h
      PROVE  ProductOf(e, other, h) = ProductOf(d, other, h)
  <2> DEFINE By(x, scheme, space, value) ==
               IF value = "" \/ space = "" THEN Nobody ELSE Identify(x, scheme, space, value, "FINANCIAL_PRODUCT")
             isin(x) == By(x, "ISIN", "iso-6166", h.isin)
             ticker(x) == By(x, "TICKER", h.exchange, h.ticker)
             given(x) == By(x, "PROVIDER_SOURCE_ID", Space[other].product, h.product)
             found(x) == IF isin(x).status # "UNRESOLVED" THEN isin(x)
                         ELSE IF ticker(x).status # "UNRESOLVED" THEN ticker(x) ELSE given(x)
  <2>1. isin(e) = isin(d) /\ ticker(e) = ticker(d) /\ given(e) = given(d)
    BY <1>3
  <2>2. ProductOf(e, other, h) = RequireEtf(e, found(e)) /\ ProductOf(d, other, h) = RequireEtf(d, found(d))
    BY DEF ProductOf
  <2> HIDE DEF isin, ticker, given
  <2>3. found(e) = found(d)
    BY <2>1
  <2> HIDE DEF found
  <2> QED BY <1>5, <2>2, <2>3
<1>7. \A row : ReturnedProduct(e, row) = ReturnedProduct(d, row)
  BY <1>1, <1>5 DEF ReturnedProduct
<1> QED BY <1>6, <1>7

\* What a candidate of a constituent finds.
Found(d, c) == Identify(d, c[1], c[2], c[3], "SECURITY")
SecuritiesOf(d, c) == Owners(d, c[1], c[2], c[3], "SECURITY")
\* The scope gives no security such an identifier.
Apart(scope, c) == \A i : MayName(scope, i) /\ Names(i, c) => KindOf(i.entity) # "SECURITY"

LEMMA SecurityOwners ==
  ASSUME NEW scope, NEW d, NEW e, Good(d), Good(e), Widens(scope, d, e), NEW c
  PROVE  /\ SecuritiesOf(d, c) \subseteq SecuritiesOf(e, c)
         /\ Covered(d, c) \/ Apart(scope, c) => SecuritiesOf(e, c) = SecuritiesOf(d, c)
<1> DEFINE S == "SECURITY"
<1>1. /\ d["entity_identifiers"] \subseteq e["entity_identifiers"]
      /\ \A id : Kind(d, id) \subseteq Kind(e, id)
  BY DEF Widens, NameTables, Kind
<1>2. \A y : y \in SecuritiesOf(e, c) <=>
        \E i \in e["entity_identifiers"] : i.entity = y /\ Names(i, c) /\ Undisputed(i) /\ S \in Kind(e, y)
  BY DEF SecuritiesOf, Owners, Names
<1>3. \A y : y \in SecuritiesOf(d, c) <=>
        \E i \in d["entity_identifiers"] : i.entity = y /\ Names(i, c) /\ Undisputed(i) /\ S \in Kind(d, y)
  BY DEF SecuritiesOf, Owners, Names
<1>4. SecuritiesOf(d, c) \subseteq SecuritiesOf(e, c)
  BY <1>1, <1>2, <1>3
<1>5. ASSUME NEW y \in SecuritiesOf(e, c), y \notin SecuritiesOf(d, c)
      PROVE  ~Covered(d, c) /\ ~Apart(scope, c)
  <2>1. PICK i \in e["entity_identifiers"] : i.entity = y /\ Names(i, c) /\ Undisputed(i) /\ S \in Kind(e, y)
    BY <1>2
  <2>2. KindOf(y) = S
    BY <2>1, KindIsKept DEF Good
  <2>3. i \notin d["entity_identifiers"]
    BY <1>3, <1>5, <2>1, <2>2 DEF Good, Named
  <2>4. MayName(scope, i) /\ ~Covered(d, <<i.scheme, i.space, i.value>>)
    BY <2>1, <2>3 DEF Widens
  <2>5. ~Covered(d, c)
    BY <2>1, <2>4 DEF Covered, Names
  <2> QED BY <2>1, <2>2, <2>4, <2>5 DEF Apart
<1> QED BY <1>4, <1>5

LEMMA FoundShape ==
  ASSUME NEW d, NEW c
  PROVE  /\ Found(d, c).status = "AMBIGUOUS" <=>
              \/ \E x \in d["identifier_collision_cases"] : <<x.scheme, x.space, x.value>> = <<c[1], c[2], c[3]>>
              \/ Several(SecuritiesOf(d, c))
         /\ Found(d, c).status # "AMBIGUOUS" => Found(d, c).ids = SecuritiesOf(d, c)
         /\ Found(d, c).ids \subseteq SecuritiesOf(d, c)
BY DEF Found, SecuritiesOf, Identify, Resolution, Nobody

LEMMA FoundStays ==
  ASSUME NEW scope, NEW d, NEW e, Good(d), Good(e), Widens(scope, d, e), NEW c
  PROVE  /\ Covered(d, c) \/ Apart(scope, c) => Found(e, c) = Found(d, c)
         /\ Found(d, c).status = "AMBIGUOUS" => Found(e, c).status = "AMBIGUOUS"
         /\ Found(e, c).status = "AMBIGUOUS" \/ Found(d, c).ids \subseteq Found(e, c).ids
<1>1. /\ SecuritiesOf(d, c) \subseteq SecuritiesOf(e, c)
      /\ Covered(d, c) \/ Apart(scope, c) => SecuritiesOf(e, c) = SecuritiesOf(d, c)
  BY SecurityOwners
<1>2. e["identifier_collision_cases"] = d["identifier_collision_cases"]
  BY DEF Widens
<1>3. Several(SecuritiesOf(d, c)) => Several(SecuritiesOf(e, c))
  BY <1>1 DEF Several
<1>4. Covered(d, c) \/ Apart(scope, c) => Found(e, c) = Found(d, c)
  BY <1>1, <1>2 DEF Found, Identify, SecuritiesOf
<1> QED BY <1>1, <1>2, <1>3, <1>4, FoundShape

\* A constituent that will never be decided, and its possible securities.
IdsOf(d, scope, h) == UNION {Found(d, c).ids : c \in Candidates(scope, h)}
Stuck(d, scope, h) ==
  Several(IdsOf(d, scope, h)) \/ \E c \in Candidates(scope, h) : Found(d, c).status = "AMBIGUOUS"

LEMMA StuckStays ==
  ASSUME NEW other, NEW d, NEW e, Good(d), Good(e), Widens(other, d, e), NEW scope, NEW h, Stuck(d, scope, h)
  PROVE  Stuck(e, scope, h)
<1>1. CASE \E c \in Candidates(scope, h) : Found(d, c).status = "AMBIGUOUS"
  BY <1>1, FoundStays DEF Stuck
<1>2. CASE \A c \in Candidates(scope, h) : Found(e, c).status # "AMBIGUOUS"
  <2>1. \A c \in Candidates(scope, h) : Found(d, c).ids \subseteq Found(e, c).ids /\ Found(d, c).status # "AMBIGUOUS"
    BY <1>2, FoundStays
  <2>2. IdsOf(d, scope, h) \subseteq IdsOf(e, scope, h)
    BY <2>1 DEF IdsOf
  <2> QED BY <2>1, <2>2 DEF Stuck, Several
<1> QED BY <1>1, <1>2 DEF Stuck

\* The four answers on a constituent.
NewOf(scope, h) == {SecurityId(i) : i \in Identity(scope, h)}

LEMMA SecurityCases ==
  ASSUME NEW d, NEW scope, NEW h
  PROVE  /\ ~h.security \/ Stuck(d, scope, h) =>
              SecurityOf(d, scope, h).writes = {} /\ SecurityOf(d, scope, h).resolution.ids = {}
         /\ h.security /\ ~Stuck(d, scope, h) /\ IdsOf(d, scope, h) # {} =>
              /\ SecurityOf(d, scope, h).writes = UNION {Attach(id, Candidates(scope, h)) : id \in IdsOf(d, scope, h)}
              /\ SecurityOf(d, scope, h).resolution.ids = IdsOf(d, scope, h)
         /\ h.security /\ ~Stuck(d, scope, h) /\ IdsOf(d, scope, h) = {} =>
              /\ SecurityOf(d, scope, h).writes
                   = UNION {Create(id) \cup Attach(id, Candidates(scope, h)) : id \in NewOf(scope, h)}
              /\ SecurityOf(d, scope, h).resolution.ids = NewOf(scope, h)
<1> DEFINE found == {Identify(d, c[1], c[2], c[3], "SECURITY") : c \in Candidates(scope, h)}
           security == SecurityOf(d, scope, h)
<1>1. UNION {f.ids : f \in found} = IdsOf(d, scope, h)
  BY DEF IdsOf, Found
<1>2. (\E f \in found : f.status = "AMBIGUOUS") <=> \E c \in Candidates(scope, h) : Found(d, c).status = "AMBIGUOUS"
  BY DEF Found
<1>3. CASE ~h.security
  <2>1. security = [resolution |-> Resolution("NON_SECURITY", {}), writes |-> {}]
    BY <1>3 DEF SecurityOf
  <2> HIDE DEF security
  <2>2. security.writes = {} /\ security.resolution.ids = {}
    BY <2>1 DEF Resolution
  <2> QED BY <1>3, <2>2 DEF security
<1>4. CASE h.security /\ Stuck(d, scope, h)
  <2>1. security = [resolution |-> Resolution("AMBIGUOUS", {}), writes |-> {}]
    BY <1>1, <1>2, <1>4 DEF SecurityOf, Stuck
  <2> HIDE DEF security
  <2>2. security.writes = {} /\ security.resolution.ids = {}
    BY <2>1 DEF Resolution
  <2> QED BY <1>4, <2>2 DEF security
<1>5. CASE h.security /\ ~Stuck(d, scope, h) /\ IdsOf(d, scope, h) # {}
  <2>1. security = [resolution |-> Resolution("RESOLVED", IdsOf(d, scope, h)),
                    writes |-> UNION {Attach(id, Candidates(scope, h)) : id \in IdsOf(d, scope, h)}]
    BY <1>1, <1>2, <1>5 DEF SecurityOf, Stuck
  <2> HIDE DEF security
  <2>2. /\ security.writes = UNION {Attach(id, Candidates(scope, h)) : id \in IdsOf(d, scope, h)}
        /\ security.resolution.ids = IdsOf(d, scope, h)
    BY <2>1 DEF Resolution
  <2> QED BY <1>5, <2>2 DEF security
<1>6. CASE h.security /\ ~Stuck(d, scope, h) /\ IdsOf(d, scope, h) = {}
  <2>1. security = [resolution |-> IF NewOf(scope, h) = {} THEN Nobody ELSE Resolution("RESOLVED", NewOf(scope, h)),
                    writes |-> UNION {Create(id) \cup Attach(id, Candidates(scope, h)) : id \in NewOf(scope, h)}]
    BY <1>1, <1>2, <1>6 DEF SecurityOf, Stuck, NewOf
  <2> HIDE DEF security
  <2>2. /\ security.writes = UNION {Create(id) \cup Attach(id, Candidates(scope, h)) : id \in NewOf(scope, h)}
        /\ security.resolution.ids = NewOf(scope, h)
    BY <2>1 DEF Resolution, Nobody
  <2> QED BY <1>6, <2>2 DEF security
<1> QED BY <1>3, <1>4, <1>5, <1>6

LEMMA SecuritySame ==
  ASSUME NEW d, NEW e, NEW scope, NEW h, \A c \in Candidates(scope, h) : Found(e, c) = Found(d, c)
  PROVE  SecurityOf(e, scope, h) = SecurityOf(d, scope, h)
<1>1. {Identify(e, c[1], c[2], c[3], "SECURITY") : c \in Candidates(scope, h)}
        = {Identify(d, c[1], c[2], c[3], "SECURITY") : c \in Candidates(scope, h)}
  BY DEF Found
<1> QED BY <1>1 DEF SecurityOf

(* Holdings. *)

\* Nothing a later row or scope does changes the answer on a constituent: it is
\* none, is stuck, has no identity of its own, or all its candidates are given.
Placed(d, scope, h) ==
  \/ ~h.security \/ Stuck(d, scope, h) \/ Identity(scope, h) = {}
  \/ (\A c \in Candidates(scope, h) : Covered(d, c)) /\ AllBlocked(d, SecurityOf(d, scope, h).writes)

LEMMA CandidateMayBeNamed ==
  ASSUME NEW scope \in DOMAIN Holdings, NEW h, NEW c \in Candidates(scope, h), NEW i, Names(i, c),
         KindOf(i.entity) = "SECURITY"
  PROVE  MayName(scope, i)
<1> DEFINE T == <<"TICKER", h.market, h.code>>
           P == <<"PROVIDER_SOURCE_ID", Space[scope].security, h.member>>
<1>1. T[1] = "TICKER" /\ P[1] = "PROVIDER_SOURCE_ID" /\ P[2] = Space[scope].security
  OBVIOUS
<1>2. Candidates(scope, h) \in {{}, {T}, {P}, {T, P}}
  BY DEF Candidates
<1> HIDE DEF T, P
<1> QED BY <1>1, <1>2 DEF Names, MayName

\* A row without an identity has the manager's identifier at most.
LEMMA Unidentified ==
  ASSUME NEW scope, NEW h, Identity(scope, h) = {}, NEW c \in Candidates(scope, h)
  PROVE  c = <<"PROVIDER_SOURCE_ID", Space[scope].security, h.member>> /\ Candidates(scope, h) = {c}
BY DEF Identity, Candidates

LEMMA SecurityIdKind == \A i : KindOf(SecurityId(i)) = "SECURITY" /\ SecurityId(i)[1] = "security"
BY DEF SecurityId, KindOf, Bond, Domestic, Foreign, Fund

LEMMA AttachShape ==
  ASSUME NEW id, NEW candidates, NEW w \in Attach(id, candidates)
  PROVE  /\ w[1] = "entity_identifiers" /\ w[2].entity = id /\ Undisputed(w[2])
         /\ \E c \in candidates : Names(w[2], c)
<1>1. PICK c \in candidates : w = IdentifierRow(id, c[1], c[2], c[3], TRUE, FALSE)
  BY DEF Attach
<1> DEFINE row == [entity |-> id, scheme |-> c[1], space |-> c[2], value |-> c[3], valid |-> TRUE, open |-> FALSE]
<1>2. w = <<"entity_identifiers", row>>
  BY <1>1 DEF IdentifierRow
<1>3. row.entity = id /\ row.scheme = c[1] /\ row.space = c[2] /\ row.value = c[3] /\ row.valid = TRUE /\ row.open = FALSE
  OBVIOUS
<1> HIDE DEF row
<1>4. w[1] = "entity_identifiers" /\ w[2] = row
  BY <1>2
<1>5. Names(w[2], c) /\ Undisputed(w[2]) /\ w[2].entity = id
  BY <1>3, <1>4 DEF Names, Undisputed
<1> QED BY <1>4, <1>5

\* An identifier that is given is given to nothing else.
LEMMA CoveredBlocks ==
  ASSUME NEW d, Database(d), NEW id, NEW candidates, \A c \in candidates : Covered(d, c)
  PROVE  AllBlocked(d, Attach(id, candidates))
<1> SUFFICES ASSUME NEW w \in Attach(id, candidates)
             PROVE  Taken(w[1], w[2]) \cap TakenBy(w[1], d[w[1]]) # {}
  BY DEF AllBlocked, Blocked
<1>1. w[1] = "entity_identifiers" /\ Undisputed(w[2]) /\ \E c \in candidates : Names(w[2], c)
  BY AttachShape
<1> PICK c \in candidates : Names(w[2], c)
  BY <1>1
<1>2. PICK j \in d["entity_identifiers"] : Undisputed(j) /\ Names(j, c)
  BY DEF Covered
<1>3. PartialKeys("entity_identifiers", w[2]) = {{"scheme", "space", "value"}}
      /\ PartialKeys("entity_identifiers", j) = {{"scheme", "space", "value"}}
  BY <1>1, <1>2 DEF PartialKeys
<1>4. Clash("entity_identifiers", w[2], j)
  <2> DEFINE columns == {"scheme", "space", "value"}
  <2>1. w[2].scheme = j.scheme /\ w[2].space = j.space /\ w[2].value = j.value
    BY <1>2 DEF Names
  <2>2. \A x \in columns : w[2][x] = j[x]
    BY <2>1
  <2>3. columns \in (Keys["entity_identifiers"] \cup PartialKeys("entity_identifiers", w[2]))
                     \cap (Keys["entity_identifiers"] \cup PartialKeys("entity_identifiers", j))
    BY <1>3
  <2> QED BY <2>2, <2>3 DEF Clash
<1>5. Taken("entity_identifiers", w[2]) \cap Taken("entity_identifiers", j) # {}
  BY <1>4, ClashTaken
<1> QED BY <1>1, <1>2, <1>5 DEF TakenBy

\* What is refused or has been written is given.
LEMMA AttachedIsCovered ==
  ASSUME NEW d, Good(d), NEW id, KindOf(id) = "SECURITY", NEW candidates, AllBlocked(d, Attach(id, candidates)),
         NEW c \in candidates
  PROVE  Covered(d, c)
<1> DEFINE row == [entity |-> id, scheme |-> c[1], space |-> c[2], value |-> c[3], valid |-> TRUE, open |-> FALSE]
           T == "entity_identifiers"
<1>1. <<T, row>> \in Attach(id, candidates)
  BY DEF Attach, IdentifierRow
<1>2. row.entity = id /\ Names(row, c)
  BY DEF Names
<1> HIDE DEF row
<1>3. Taken(T, row) \cap TakenBy(T, d[T]) # {}
  <2>1. T \in DOMAIN d
    BY KeysOfNames DEF Good, Database, NameTables
  <2>2. <<T, row>>[1] = T /\ <<T, row>>[2] = row
    OBVIOUS
  <2> QED BY <1>1, <2>1, <2>2 DEF AllBlocked, Blocked
<1>4. PICK j \in d[T] : Taken(T, row) \cap Taken(T, j) # {}
  BY <1>3 DEF TakenBy
<1>5. Clash(T, row, j)
  BY <1>4, TakenClash
<1>6. PICK columns \in Keys[T] \cup PartialKeys(T, j) : \A x \in columns : row[x] = j[x]
  BY <1>5 DEF Clash
<1>7. CASE columns \in Keys[T]
  <2>1. columns = {"entity", "scheme", "space", "value"}
    BY <1>7, IssuerKeys
  <2>2. j.entity = id /\ Names(j, c)
    BY <1>2, <1>6, <2>1 DEF Names
  <2>3. Undisputed(j)
    BY <2>2 DEF Good, Named
  <2> QED BY <2>2, <2>3 DEF Covered
<1>8. CASE columns \in PartialKeys(T, j)
  <2>1. Undisputed(j) /\ columns = {"scheme", "space", "value"}
    BY <1>8 DEF PartialKeys
  <2>2. Names(j, c)
    BY <1>2, <1>6, <2>1 DEF Names
  <2> QED BY <2>1, <2>2 DEF Covered
<1> QED BY <1>6, <1>7, <1>8

\* What a constituent writes when it is placed is refused.
LEMMA PlacedIsBlocked ==
  ASSUME NEW d, Good(d), NEW scope, NEW h, Placed(d, scope, h)
  PROVE  AllBlocked(d, SecurityOf(d, scope, h).writes)
<1> DEFINE W == SecurityOf(d, scope, h).writes
           ids == IdsOf(d, scope, h)
           candidates == Candidates(scope, h)
           new == NewOf(scope, h)
<1>1. CASE ~h.security \/ Stuck(d, scope, h)
  <2>1. W = {}
    BY <1>1, SecurityCases
  <2> QED BY <2>1 DEF AllBlocked
<1>2. CASE h.security /\ ~Stuck(d, scope, h) /\ Identity(scope, h) = {} /\ ids = {}
  <2>1. W = UNION {Create(id) \cup Attach(id, candidates) : id \in new}
    BY <1>2, SecurityCases
  <2>2. new = {}
    BY <1>2 DEF NewOf
  <2>3. W = {}
    BY <2>1, <2>2
  <2> QED BY <2>3 DEF AllBlocked
<1>3. CASE h.security /\ ~Stuck(d, scope, h) /\ Identity(scope, h) = {} /\ ids # {}
  <2>1. W = UNION {Attach(id, candidates) : id \in ids}
    BY <1>3, SecurityCases
  <2>2. PICK c \in candidates : Found(d, c).ids # {}
    BY <1>3 DEF IdsOf
  <2>3. candidates = {c}
    BY <1>3, Unidentified
  <2>4. Covered(d, c)
    <3>1. SecuritiesOf(d, c) # {}
      BY <2>2, FoundShape
    <3> QED BY <3>1 DEF SecuritiesOf, Owners, Covered, Names
  <2>5. \A id : AllBlocked(d, Attach(id, candidates))
    BY <2>3, <2>4, CoveredBlocks DEF Good
  <2> QED BY <2>1, <2>5 DEF AllBlocked
<1> QED BY <1>1, <1>2, <1>3 DEF Placed

LEMMA PlacedStays ==
  ASSUME NEW other, NEW d, NEW e, Good(d), Good(e), Widens(other, d, e), NEW scope, NEW h, Placed(d, scope, h)
  PROVE  Placed(e, scope, h)
<1>1. CASE ~h.security \/ Stuck(d, scope, h) \/ Identity(scope, h) = {}
  BY <1>1, StuckStays DEF Placed
<1>2. CASE (\A c \in Candidates(scope, h) : Covered(d, c)) /\ AllBlocked(d, SecurityOf(d, scope, h).writes)
  <2>1. \A c : Covered(d, c) => Covered(e, c)
    BY DEF Covered, Widens, NameTables
  <2>2. SecurityOf(e, scope, h) = SecurityOf(d, scope, h)
    BY <1>2, FoundStays, SecuritySame
  <2>3. AllBlocked(e, SecurityOf(e, scope, h).writes)
    BY <1>2, <2>2, BlockedStays DEF Widens
  <2> QED BY <1>2, <2>1, <2>3 DEF Placed
<1> QED BY <1>1, <1>2 DEF Placed

\* A write to a table that says nothing of names or of issuers.
Plain(w) == w[1] \notin IssuerReads \cup {"identifier_collision_cases"}

LEMMA PlainWidens ==
  ASSUME NEW scope, NEW d, Database(d), Named(d), NEW W, \A w \in W : Plain(w)
  PROVE  /\ Widens(scope, d, Insert(d, W)) /\ Named(Insert(d, W))
         /\ \A t \in IssuerReads : Insert(d, W)[t] = d[t]
<1>1. \A w \in W : Modest(scope, w)
  BY DEF Plain, Modest, IssuerReads
<1>2. ASSUME NEW t \in IssuerReads
      PROVE  RowsFor(W, t) = {}
  BY RowIsWrite DEF Plain
<1>3. Widens(scope, d, Insert(d, W)) /\ Named(Insert(d, W))
  BY <1>1, <1>2, InsertWidens DEF IssuerReads
<1>4. ASSUME NEW t \in IssuerReads
      PROVE  Insert(d, W)[t] = d[t]
  <2>1. Fresh(t, d[t], {}) = {} /\ t \in DOMAIN d
    BY KeysOfNames DEF Fresh, Database
  <2> QED BY <1>2, <2>1 DEF Insert
<1> QED BY <1>3, <1>4

LEMMA SourceRowsPlain ==
  ASSUME NEW scope, NEW row, NEW n, NEW assertion
  PROVE  \A w \in SourceRows(scope, row, n, assertion) : Plain(w)
BY DEF SourceRows, Plain, IssuerReads

LEMMA FactRowsPlain ==
  ASSUME NEW fact
  PROVE  /\ \A status : Plain(FactRow(fact, status))
         /\ \A assertion, role : Plain(EvidenceRow(fact, assertion, role))
         /\ \A type, object : Plain(RelationRow("entity_relations", fact, type, object))
BY DEF FactRow, EvidenceRow, RelationRow, Plain, IssuerReads

\* An entity that is created is stored as what it is.
LEMMA CreatedIsKind ==
  ASSUME NEW d, Database(d), Sound(d), NEW W, NEW id, NEW name, EntityRow(id, KindOf(id), name) \in W
  PROVE  KindOf(id) \in Kind(Insert(d, W), id)
<1> DEFINE entity == [id |-> id, kind |-> KindOf(id), name |-> name]
           T == "canonical_entities"
           e == Insert(d, W)
<1>1. <<T, entity>> \in W
  BY DEF EntityRow
<1>2. entity.id = id /\ entity.kind = KindOf(id)
  OBVIOUS
<1> HIDE DEF entity
<1>3. entity \in RowsFor(W, T)
  <2>1. <<T, entity>>[1] = T /\ <<T, entity>>[2] = entity
    OBVIOUS
  <2> QED BY <1>1, <2>1 DEF RowsFor
<1>4. T \in DOMAIN d
  BY KeysOfRead DEF Database, ReadTables
<1>5. d[T] \subseteq e[T] /\ (entity \in e[T] \/ \E old \in d[T] : Clash(T, entity, old))
  BY <1>3, <1>4, InsertFacts
<1> HIDE DEF e
<1>6. CASE entity \in e[T]
  BY <1>2, <1>6 DEF Kind, e
<1>7. ASSUME NEW old \in d[T], Clash(T, entity, old)
      PROVE  KindOf(id) \in Kind(e, id)
  <2>1. old.id = id
    BY <1>2, <1>7, KeysOfRead DEF Clash, PartialKeys
  <2>2. old.kind = KindOf(id)
    BY <2>1 DEF Sound
  <2> QED BY <1>5, <2>1, <2>2 DEF Kind
<1> QED BY <1>5, <1>6, <1>7 DEF e

LEMMA CreateShape ==
  ASSUME NEW id
  PROVE  EntityRow(id, "SECURITY", "") \in Create(id) /\ \A w \in Create(id) : w[1] \in {"canonical_entities", "securities"}
<1>1. EntityRow(id, "SECURITY", "")[1] = "canonical_entities"
  BY DEF EntityRow
<1>2. \A row : <<"securities", row>>[1] = "securities"
  OBVIOUS
<1> QED BY <1>1, <1>2 DEF Create

\* What a constituent writes names securities only, and those are stored.
LEMMA SecurityWidens ==
  ASSUME NEW d, Good(d), NEW scope \in DOMAIN Holdings, NEW h
  PROVE  LET e == Insert(d, SecurityOf(d, scope, h).writes) IN Good(e) /\ Widens(scope, d, e)
<1> DEFINE W == SecurityOf(d, scope, h).writes
           e == Insert(d, W)
           candidates == Candidates(scope, h)
           ids == IdsOf(d, scope, h)
           new == NewOf(scope, h)
<1>1. \A w \in W : \/ \E id \in ids : w \in Attach(id, candidates)
                   \/ \E id \in new : w \in Create(id) \cup Attach(id, candidates)
  BY SecurityCases
<1>2. \A w \in W : \A id \in new : w \in Attach(id, candidates) => EntityRow(id, "SECURITY", "") \in W \/ id \in ids
  <2>1. CASE W = UNION {Create(id) \cup Attach(id, candidates) : id \in new}
    <3> SUFFICES ASSUME NEW id \in new
                 PROVE  EntityRow(id, "SECURITY", "") \in W
      OBVIOUS
    <3>1. Create(id) \subseteq W
      BY <2>1
    <3> QED BY <3>1, CreateShape
  <2>2. CASE W = UNION {Attach(id, candidates) : id \in ids}
    <3> SUFFICES ASSUME NEW w \in W, NEW id \in new, w \in Attach(id, candidates)
                 PROVE  id \in ids
      OBVIOUS
    <3>1. PICK x \in ids : w \in Attach(x, candidates)
      BY <2>2
    <3> QED BY <3>1, AttachShape
  <2>3. CASE W = {}
    BY <2>3
  <2> QED BY <2>1, <2>2, <2>3, SecurityCases
<1>3. \A id \in ids : "SECURITY" \in Kind(d, id) /\ KindOf(id) = "SECURITY"
  <2> SUFFICES ASSUME NEW id \in ids
               PROVE  "SECURITY" \in Kind(d, id) /\ KindOf(id) = "SECURITY"
    OBVIOUS
  <2>1. PICK c \in candidates : id \in Found(d, c).ids
    BY DEF IdsOf
  <2>2. "SECURITY" \in Kind(d, id)
    BY <2>1, IdentifyShape DEF Found
  <2> QED BY <2>2, KindIsKept DEF Good
<1>4. \A id \in new : KindOf(id) = "SECURITY"
  BY SecurityIdKind DEF NewOf
<1>5. scope \notin DOMAIN Returns
  BY ScopeAssumption
<1>6. \A w \in W : Modest(scope, w)
  <2> SUFFICES ASSUME NEW w \in W
               PROVE  Modest(scope, w)
    OBVIOUS
  <2>1. ASSUME NEW id, KindOf(id) = "SECURITY", w \in Attach(id, candidates)
        PROVE  Modest(scope, w)
    <3>1. /\ w[1] = "entity_identifiers" /\ w[2].entity = id /\ Undisputed(w[2])
          /\ \E c \in candidates : Names(w[2], c)
      BY <2>1, AttachShape
    <3>2. MayName(scope, w[2])
      BY <2>1, <3>1, CandidateMayBeNamed
    <3> QED BY <1>5, <3>1, <3>2 DEF Modest
  <2>2. ASSUME NEW id, w \in Create(id)
        PROVE  Modest(scope, w)
    <3>1. w[1] \in {"canonical_entities", "securities"}
      BY <2>2, CreateShape
    <3> QED BY <1>5, <3>1 DEF Modest
  <2> QED BY <1>1, <1>3, <1>4, <2>1, <2>2
<1>7. ASSUME NEW i \in RowsFor(W, "entity_identifiers")
      PROVE  "SECURITY" \in Kind(e, i.entity)
  <2>1. PICK w \in W : w[1] = "entity_identifiers" /\ w[2] = i
    BY RowIsWrite
  <2>2. \A id : w \notin Create(id)
    BY <2>1, CreateShape
  <2>3. PICK id \in ids \cup new : w \in Attach(id, candidates)
    BY <1>1, <2>2
  <2>4. i.entity = id
    BY <2>1, <2>3, AttachShape
  <2>5. CASE id \in ids
    <3>1. \A x : Kind(d, x) \subseteq Kind(e, x)
      BY InsertGrows, MoreIsKept DEF Grows, Good
    <3> QED BY <1>3, <2>4, <2>5, <3>1
  <2>6. CASE id \notin ids
    <3>1. EntityRow(id, KindOf(id), "") \in W
      BY <1>2, <1>4, <2>3, <2>6
    <3>2. KindOf(id) \in Kind(e, id)
      BY <3>1, CreatedIsKind DEF Good
    <3> QED BY <1>4, <2>3, <2>4, <2>6, <3>2
  <2> QED BY <2>5, <2>6
<1>8. Widens(scope, d, e) /\ Named(e)
  BY <1>6, <1>7, InsertWidens DEF Good
<1>9. Database(e) /\ Sound(e)
  BY SecurityForeign, PlainIsSupported, InsertLeaves DEF Leaves, Good
<1> QED BY <1>8, <1>9 DEF Good

LEMMA RowIsPlaced ==
  ASSUME NEW d, Good(d), NEW scope \in DOMAIN Holdings, NEW h
  PROVE  Placed(Insert(d, SecurityOf(d, scope, h).writes), scope, h)
<1> DEFINE W == SecurityOf(d, scope, h).writes
           e == Insert(d, W)
           candidates == Candidates(scope, h)
           new == NewOf(scope, h)
<1>1. Good(e) /\ Widens(scope, d, e)
  BY SecurityWidens
<1>2. AllBlocked(e, W)
  BY InsertBlocks DEF Good
<1>3. CASE ~h.security \/ Stuck(d, scope, h) \/ Identity(scope, h) = {}
  BY <1>1, <1>3, StuckStays DEF Placed
<1>4. CASE h.security /\ ~Stuck(d, scope, h) /\ Identity(scope, h) # {}
  <2>1. new # {} /\ \A id \in new : KindOf(id) = "SECURITY"
    BY <1>4, SecurityIdKind DEF NewOf
  <2>2. PICK id : KindOf(id) = "SECURITY" /\ Attach(id, candidates) \subseteq W
    <3>1. CASE IdsOf(d, scope, h) # {}
      <4>1. PICK id \in IdsOf(d, scope, h) : TRUE
        BY <3>1
      <4>2. PICK c \in candidates : id \in Found(d, c).ids
        BY DEF IdsOf
      <4>3. "SECURITY" \in Kind(d, id)
        BY <4>2, IdentifyShape DEF Found
      <4>4. KindOf(id) = "SECURITY"
        BY <4>3, KindIsKept DEF Good
      <4>5. W = UNION {Attach(x, candidates) : x \in IdsOf(d, scope, h)}
        BY <1>4, <3>1, SecurityCases
      <4> QED BY <4>4, <4>5
    <3>2. CASE IdsOf(d, scope, h) = {}
      <4>1. W = UNION {Create(x) \cup Attach(x, candidates) : x \in new}
        BY <1>4, <3>2, SecurityCases
      <4> QED BY <2>1, <4>1
    <3> QED BY <3>1, <3>2
  <2> SUFFICES Placed(e, scope, h)
    OBVIOUS
  <2> HIDE DEF e, W, new
  <2>3. \A c \in candidates : Covered(e, c)
    <3>1. AllBlocked(e, Attach(id, candidates))
      BY <1>2, <2>2 DEF AllBlocked
    <3> QED BY <1>1, <2>2, <3>1, AttachedIsCovered
  <2>4. CASE Stuck(e, scope, h)
    BY <2>4 DEF Placed
  <2>5. CASE ~Stuck(e, scope, h) /\ IdsOf(e, scope, h) # {}
    <3>1. SecurityOf(e, scope, h).writes = UNION {Attach(x, candidates) : x \in IdsOf(e, scope, h)}
      BY <1>4, <2>5, SecurityCases
    <3>2. \A x : AllBlocked(e, Attach(x, candidates))
      BY <1>1, <2>3, CoveredBlocks DEF Good
    <3>3. AllBlocked(e, SecurityOf(e, scope, h).writes)
      BY <3>1, <3>2 DEF AllBlocked
    <3> QED BY <2>3, <3>3 DEF Placed
  <2>6. CASE ~Stuck(e, scope, h) /\ IdsOf(e, scope, h) = {}
    <3>1. \A c \in candidates : Found(d, c).ids \subseteq Found(e, c).ids
      BY <1>1, <2>6, FoundStays DEF Stuck
    <3>2. IdsOf(d, scope, h) = {}
      BY <2>6, <3>1 DEF IdsOf
    <3>3. SecurityOf(e, scope, h).writes = W
      BY <1>4, <2>6, <3>2, SecurityCases DEF W
    <3> QED BY <1>2, <2>3, <3>3 DEF Placed
  <2> QED BY <2>4, <2>5, <2>6
<1> QED BY <1>3, <1>4

\* The two inserts that follow say nothing of names.
LEMMA HoldingPlain ==
  ASSUME NEW scope, NEW h, NEW n, NEW product, NEW security
  PROVE  \A w \in HoldingRows(scope, h, n, product, security) \cup HoldsRows(scope, h, product, security) : Plain(w)
<1>1. \A row : Plain(<<"external_holding_records", row>>)
  BY DEF Plain, IssuerReads
<1>2. \A w \in HoldingRows(scope, h, n, product, security) : Plain(w)
  BY <1>1, SourceRowsPlain DEF HoldingRows
<1>3. \A w \in HoldsRows(scope, h, product, security) :
        \E fact, s : w \in {FactRow(fact, "RESOLVED"), RelationRow("entity_relations", fact, "HOLDS", s),
                            EvidenceRow(fact, HoldsAssertion(h), "SUPPORTS")}
  <2> DEFINE T(p, s) == LET fact == FactId(p, scope, "ENTITY_RELATION", <<"HOLDS", s, h.day>>)
                        IN {FactRow(fact, "RESOLVED"), RelationRow("entity_relations", fact, "HOLDS", s),
                            EvidenceRow(fact, HoldsAssertion(h), "SUPPORTS")}
  <2>1. HoldsRows(scope, h, product, security) = UNION {T(p, s) : p \in product.ids, s \in security.ids}
    BY DEF HoldsRows
  <2>2. \A p, s : \E fact : T(p, s) = {FactRow(fact, "RESOLVED"), RelationRow("entity_relations", fact, "HOLDS", s),
                                      EvidenceRow(fact, HoldsAssertion(h), "SUPPORTS")}
    OBVIOUS
  <2> HIDE DEF T
  <2> QED BY <2>1, <2>2
<1>4. \A w \in HoldsRows(scope, h, product, security) : Plain(w)
  BY <1>3, FactRowsPlain
<1> QED BY <1>2, <1>4

\* What the rest of a holding adds to a store in which its constituent is decided.
HoldingAdds(d, e, scope, h, n, product, security) ==
  /\ AllBlocked(e, HoldingRows(scope, h, n, product, security) \cup HoldsRows(scope, h, product, security))
  /\ Widens(scope, d, e) /\ Database(e) /\ Named(e)
  /\ \A t \in IssuerReads : e[t] = d[t]

LEMMA HoldingRecorded ==
  ASSUME NEW d, Database(d), Named(d), NEW scope, NEW h, NEW n, NEW product, NEW security
  PROVE  LET e == Insert(Insert(d, HoldingRows(scope, h, n, product, security)), HoldsRows(scope, h, product, security))
         IN HoldingAdds(d, e, scope, h, n, product, security)
<1> DEFINE V == HoldingRows(scope, h, n, product, security)
           W == HoldsRows(scope, h, product, security)
           second == Insert(d, V)
           third == Insert(second, W)
<1>1. \A w \in V \cup W : Plain(w)
  BY HoldingPlain
<1> HIDE DEF V, W
<1>2. /\ Widens(scope, d, second) /\ Named(second) /\ Database(second) /\ AllBlocked(second, V)
      /\ \A t \in IssuerReads : second[t] = d[t]
  BY <1>1, PlainWidens, InsertBlocks
<1> HIDE DEF second
<1>3. /\ Widens(scope, second, third) /\ Named(third) /\ Database(third) /\ AllBlocked(third, W) /\ Occupies(second, third)
      /\ \A t \in IssuerReads : third[t] = second[t]
  BY <1>1, <1>2, PlainWidens, InsertBlocks
<1> HIDE DEF third
<1>4. AllBlocked(third, V \cup W)
  BY <1>2, <1>3, BlockedStays DEF AllBlocked
<1> QED BY <1>2, <1>3, <1>4, WidensTwice DEF HoldingAdds, V, W, second, third

LEMMA HoldingWidens ==
  ASSUME NEW d, Good(d), NEW scope \in DOMAIN Holdings, NEW h, NEW n
  PROVE  LET e == IntegrateHolding(d, scope, h, n) IN Good(e) /\ Widens(scope, d, e) /\ Placed(e, scope, h)
<1> DEFINE product == ProductOf(d, scope, h)
           security == SecurityOf(d, scope, h)
           first == Insert(d, security.writes)
           e == Insert(Insert(first, HoldingRows(scope, h, n, product, security.resolution)),
                       HoldsRows(scope, h, product, security.resolution))
<1>1. Good(first) /\ Widens(scope, d, first) /\ Placed(first, scope, h)
  BY SecurityWidens, RowIsPlaced
<1>2. IntegrateHolding(d, scope, h, n) = e
  BY DEF IntegrateHolding
<1>3. Database(e) /\ Sound(e)
  BY <1>2, HoldingLeaves DEF Leaves, Good, Scope
<1> HIDE DEF product, security, first
<1>4. Widens(scope, first, e) /\ Named(e)
  BY <1>1, HoldingRecorded DEF Good, HoldingAdds
<1> HIDE DEF e
<1>5. Good(e)
  BY <1>3, <1>4 DEF Good
<1>6. Widens(scope, d, e)
  BY <1>1, <1>4, WidensTwice
<1> QED BY <1>1, <1>2, <1>4, <1>5, <1>6, PlacedStays

\* A holding whose integration changes nothing.
HoldingDone(d, scope, h, n) ==
  LET product == ProductOf(d, scope, h)
      security == SecurityOf(d, scope, h).resolution
  IN /\ Placed(d, scope, h)
     /\ AllBlocked(d, HoldingRows(scope, h, n, product, security) \cup HoldsRows(scope, h, product, security))

LEMMA HoldingDoneStops ==
  ASSUME NEW d, Good(d), NEW scope, NEW h, NEW n, HoldingDone(d, scope, h, n)
  PROVE  IntegrateHolding(d, scope, h, n) = d
<1> DEFINE product == ProductOf(d, scope, h)
           security == SecurityOf(d, scope, h)
           V == HoldingRows(scope, h, n, product, security.resolution)
           W == HoldsRows(scope, h, product, security.resolution)
<1>1. AllBlocked(d, security.writes) /\ AllBlocked(d, V) /\ AllBlocked(d, W)
  BY PlacedIsBlocked DEF HoldingDone, AllBlocked
<1>2. Tables(d)
  BY DEF Good, Named
<1>3. Insert(d, security.writes) = d /\ Insert(d, V) = d /\ Insert(d, W) = d
  BY <1>1, <1>2, BlockedInsert
<1> QED BY <1>3 DEF IntegrateHolding

\* It stays so while the answer on the constituent is the same.
LEMMA HoldingDoneStays ==
  ASSUME NEW other, NEW d, NEW e, Good(d), Good(e), Leaves(d, e), Widens(other, d, e), NEW scope, NEW h, NEW n,
         SecurityOf(e, scope, h) = SecurityOf(d, scope, h), HoldingDone(d, scope, h, n)
  PROVE  HoldingDone(e, scope, h, n)
<1>1. ProductOf(e, scope, h) = ProductOf(d, scope, h)
  BY ProductStays
<1>2. SecurityOf(e, scope, h) = SecurityOf(d, scope, h)
  OBVIOUS
<1>3. Placed(e, scope, h)
  BY PlacedStays DEF HoldingDone
<1>4. Occupies(d, e)
  BY DEF Widens
<1> DEFINE product == ProductOf(d, scope, h)
           security == SecurityOf(d, scope, h).resolution
           W == HoldingRows(scope, h, n, product, security) \cup HoldsRows(scope, h, product, security)
<1>5. AllBlocked(d, W)
  BY DEF HoldingDone
<1> HIDE DEF W
<1>6. AllBlocked(e, W)
  BY <1>4, <1>5, BlockedStays
<1> QED BY <1>1, <1>2, <1>3, <1>6 DEF HoldingDone, W

\* The second integration of a holding finds its constituent decided.
LEMMA HoldingAgain ==
  ASSUME NEW d, Good(d), NEW scope \in DOMAIN Holdings, NEW h, NEW n, Placed(d, scope, h)
  PROVE  LET e == IntegrateHolding(d, scope, h, n)
         IN HoldingDone(e, scope, h, n) /\ \A c : Found(e, c) = Found(d, c)
<1> DEFINE product == ProductOf(d, scope, h)
           security == SecurityOf(d, scope, h)
           V == HoldingRows(scope, h, n, product, security.resolution)
           W == HoldsRows(scope, h, product, security.resolution)
           e == IntegrateHolding(d, scope, h, n)
<1>1. Insert(d, security.writes) = d
  BY PlacedIsBlocked, BlockedInsert DEF Good, Named
<1>2. e = Insert(Insert(d, V), W)
  BY <1>1 DEF IntegrateHolding
<1>3. HoldingAdds(d, e, scope, h, n, product, security.resolution)
  BY <1>2, HoldingRecorded DEF Good
<1>4. Leaves(d, e) /\ Good(e) /\ Widens(scope, d, e) /\ Placed(e, scope, h)
  BY HoldingLeaves, HoldingWidens DEF Good, Scope
<1> HIDE DEF e
<1>5. /\ e["canonical_entities"] = d["canonical_entities"] /\ e["entity_identifiers"] = d["entity_identifiers"]
      /\ e["identifier_collision_cases"] = d["identifier_collision_cases"]
  BY <1>3 DEF HoldingAdds, IssuerReads, Widens
<1>6. \A c : Found(e, c) = Found(d, c)
  BY <1>5 DEF Found, Identify, Owners, Kind
<1>7. ProductOf(e, scope, h) = product
  BY <1>4, ProductStays
<1>8. SecurityOf(e, scope, h) = security
  BY <1>6, SecuritySame
<1>9. HoldingDone(e, scope, h, n)
  BY <1>3, <1>4, <1>7, <1>8 DEF HoldingDone, HoldingAdds
<1> QED BY <1>6, <1>9 DEF e

(* Returns. *)

ReturnWrites(scope, row, n, product) ==
  SourceRows(scope, row, n, ReturnAssertion(row))
  \cup {<<"external_metric_records", [id |-> row.id, record |-> NormalizedRecord(row), product |-> product.status]>>}
  \cup UNION {ReturnRows(scope, row, p) : p \in product.ids}
ReturnDone(d, scope, row, n) == AllBlocked(d, ReturnWrites(scope, row, n, ReturnedProduct(d, row)))

LEMMA ReturnIsInsert ==
  ASSUME NEW d, NEW scope, NEW row, NEW n
  PROVE  IntegrateReturn(d, scope, row, n) = Insert(d, ReturnWrites(scope, row, n, ReturnedProduct(d, row)))
BY DEF IntegrateReturn, ReturnWrites

LEMMA ReturnPlain ==
  ASSUME NEW scope, NEW row, NEW n, NEW product
  PROVE  \A w \in ReturnWrites(scope, row, n, product) : Plain(w)
<1>1. \A x : Plain(<<"external_metric_records", x>>) /\ Plain(<<"source_record_entities", x>>)
             /\ Plain(<<"metric_observations", x>>)
  BY DEF Plain, IssuerReads
<1>2. ASSUME NEW p, NEW w \in ReturnRows(scope, row, p)
      PROVE  Plain(w)
  <2>1. PICK fact : fact = FactId(p, scope, "METRIC", <<"ONE_YEAR_RETURN", "NAV_TOTAL_RETURN", row.day>>)
    OBVIOUS
  <2>2. w \in {<<"source_record_entities", [record |-> NormalizedRecord(row), entity |-> p, role |-> "DESCRIBES"]>>,
               FactRow(fact, "RESOLVED"), EvidenceRow(fact, ReturnAssertion(row), "SUPPORTS"),
               <<"metric_observations", [fact |-> fact, metric |-> "ONE_YEAR_RETURN", value |-> row.value]>>}
    BY <2>1 DEF ReturnRows
  <2> QED BY <1>1, <2>2, FactRowsPlain
<1> QED BY <1>1, <1>2, SourceRowsPlain DEF ReturnWrites

LEMMA ReturnWidens ==
  ASSUME NEW d, Good(d), NEW scope \in DOMAIN Returns, NEW row, NEW n
  PROVE  LET e == IntegrateReturn(d, scope, row, n) IN Good(e) /\ Widens(scope, d, e) /\ ReturnDone(e, scope, row, n)
<1> DEFINE W == ReturnWrites(scope, row, n, ReturnedProduct(d, row))
           e == Insert(d, W)
<1>1. IntegrateReturn(d, scope, row, n) = e
  BY ReturnIsInsert
<1>2. Leaves(d, e)
  BY <1>1, ReturnLeaves DEF Good, Scope
<1>3. Widens(scope, d, e) /\ Named(e) /\ AllBlocked(e, W)
  BY ReturnPlain, PlainWidens, InsertBlocks DEF Good
<1> HIDE DEF e
<1>4. Good(e)
  BY <1>2, <1>3 DEF Good, Leaves
<1>5. ReturnedProduct(e, row) = ReturnedProduct(d, row)
  BY <1>2, <1>3, ProductStays
<1>6. ReturnDone(e, scope, row, n)
  BY <1>3, <1>5 DEF ReturnDone
<1> QED BY <1>1, <1>3, <1>4, <1>6

LEMMA ReturnDoneStops ==
  ASSUME NEW d, Good(d), NEW scope, NEW row, NEW n, ReturnDone(d, scope, row, n)
  PROVE  IntegrateReturn(d, scope, row, n) = d
BY ReturnIsInsert, BlockedInsert DEF Good, Named, ReturnDone

LEMMA ReturnDoneStays ==
  ASSUME NEW other, NEW d, NEW e, Good(d), Leaves(d, e), Widens(other, d, e), NEW scope, NEW row, NEW n,
         ReturnDone(d, scope, row, n)
  PROVE  ReturnDone(e, scope, row, n)
<1>1. ReturnedProduct(e, row) = ReturnedProduct(d, row)
  BY ProductStays
<1> QED BY <1>1, BlockedStays DEF ReturnDone, Widens

(* What a row of issuers answers. *)

Known(d, row) == Owners(d, "PROVIDER_ORGANIZATION_ID", "KRX_KIND", row.issuer, "ORGANIZATION")
NamedAs(d, row) == NameCandidates(d, LegalKey(row.name))
Answer(d, row) == OrganizationOf(d, row).resolution

\* The rows of an organization that answers an issuer.
NamingRows(o, row) ==
  {OfficialId(o, row), OfficialName(o, row), EntityRow(o, "ORGANIZATION", row.name),
   <<"organizations", [id |-> o, type |-> "ISSUER"]>>}

LEMMA KnownIsOne ==
  ASSUME NEW d, IssuersHeld(d), NEW row
  PROVE  ~Several(Known(d, row))
BY DEF Several, Known, Owners, IssuersHeld, OwnsName

LEMMA KnownIf ==
  ASSUME NEW d, IssuersHeld(d), NEW row, NEW o
  PROVE  o \in Known(d, row) <=> Identifies(d, "PROVIDER_ORGANIZATION_ID", "KRX_KIND", row.issuer, o)
BY DEF Known, Owners, Identifies, IssuersHeld, OwnsName

LEMMA OrganizationCases ==
  ASSUME NEW d, IssuersHeld(d), NEW row
  PROVE  LET organization == OrganizationOf(d, row)
             W == organization.writes
         IN /\ \A o \in Known(d, row) :
                 organization.resolution = Resolution("RESOLVED", {o}) /\ W = {OfficialName(o, row)} /\ Known(d, row) = {o}
            /\ Known(d, row) = {} /\ Several(NamedAs(d, row)) =>
                 organization.resolution = Resolution("AMBIGUOUS", {}) /\ W = {}
            /\ Known(d, row) = {} /\ ~Several(NamedAs(d, row)) =>
                 \E o : /\ organization.resolution = Resolution("RESOLVED", {o})
                        /\ {OfficialId(o, row), OfficialName(o, row)} \subseteq W /\ W \subseteq NamingRows(o, row)
                        /\ \/ KindOf(o) = "ORGANIZATION" /\ EntityRow(o, "ORGANIZATION", row.name) \in W
                           \/ "ORGANIZATION" \in Kind(d, o)
<1> DEFINE organization == OrganizationOf(d, row)
           known == Known(d, row)
           named == NamedAs(d, row)
           new == <<"organization", row.issuer>>
<1>1. ~Several(known)
  BY KnownIsOne
<1>2. CASE known # {}
  <2>1. PICK o : known = {o}
    BY <1>1, <1>2 DEF Several
  <2>2. organization = [resolution |-> Resolution("RESOLVED", known), writes |-> {OfficialName(x, row) : x \in known}]
    BY <1>1, <1>2 DEF OrganizationOf, Known
  <2> HIDE DEF organization, known
  <2>3. organization.resolution = Resolution("RESOLVED", known) /\ organization.writes = {OfficialName(x, row) : x \in known}
    BY <2>2
  <2>4. organization.resolution = Resolution("RESOLVED", {o}) /\ organization.writes = {OfficialName(o, row)}
    BY <2>1, <2>3
  <2> QED BY <1>2, <2>1, <2>4 DEF organization, known
<1>3. CASE known = {} /\ Several(named)
  <2>1. organization = [resolution |-> Resolution("AMBIGUOUS", {}), writes |-> {}]
    BY <1>1, <1>3 DEF OrganizationOf, Known, NamedAs
  <2> HIDE DEF organization, known
  <2>2. organization.resolution = Resolution("AMBIGUOUS", {}) /\ organization.writes = {}
    BY <2>1
  <2> QED BY <1>3, <2>2 DEF organization, known
<1>4. CASE known = {} /\ ~Several(named)
  <2> SUFFICES \E o : /\ organization.resolution = Resolution("RESOLVED", {o})
                      /\ {OfficialId(o, row), OfficialName(o, row)} \subseteq organization.writes
                      /\ organization.writes \subseteq NamingRows(o, row)
                      /\ \/ KindOf(o) = "ORGANIZATION" /\ EntityRow(o, "ORGANIZATION", row.name) \in organization.writes
                         \/ "ORGANIZATION" \in Kind(d, o)
    BY <1>4
  <2>1. CASE named # {}
    <3>1. PICK o : named = {o}
      BY <1>4, <2>1 DEF Several
    <3>2. organization = [resolution |-> Resolution("RESOLVED", named),
                          writes |-> UNION {{OfficialId(x, row), OfficialName(x, row)} : x \in named}]
      BY <1>1, <1>4, <2>1 DEF OrganizationOf, Known, NamedAs
    <3>3. "ORGANIZATION" \in Kind(d, o)
      BY <3>1 DEF NamedAs, NameCandidates, Kind
    <3> HIDE DEF organization, named
    <3>4. /\ organization.resolution = Resolution("RESOLVED", named)
          /\ organization.writes = UNION {{OfficialId(x, row), OfficialName(x, row)} : x \in named}
      BY <3>2
    <3>5. organization.resolution = Resolution("RESOLVED", {o})
          /\ organization.writes = {OfficialId(o, row), OfficialName(o, row)}
      BY <3>1, <3>4
    <3> QED BY <3>3, <3>5 DEF NamingRows
  <2>2. CASE named = {}
    <3>1. organization = [resolution |-> Resolution("RESOLVED", {new}), writes |-> NamingRows(new, row)]
      <4>1. NamingRows(new, row)
              = {EntityRow(new, "ORGANIZATION", row.name), <<"organizations", [id |-> new, type |-> "ISSUER"]>>,
                 OfficialId(new, row), OfficialName(new, row)}
        BY DEF NamingRows
      <4> QED BY <1>1, <1>4, <2>2, <4>1 DEF OrganizationOf, Known, NamedAs
    <3>2. KindOf(new) = "ORGANIZATION"
      BY DEF KindOf, Bond, Domestic, Foreign, Fund
    <3> HIDE DEF organization, new
    <3>3. organization.resolution = Resolution("RESOLVED", {new}) /\ organization.writes = NamingRows(new, row)
      BY <3>1
    <3> QED BY <3>2, <3>3 DEF NamingRows
  <2> QED BY <2>1, <2>2
<1> QED BY <1>2, <1>3, <1>4

\* A row that will be answered the same way.
Steady(d, row) == Known(d, row) # {} \/ Several(NamedAs(d, row))

LEMMA NamedGrows ==
  ASSUME NEW d, NEW e, d["canonical_entities"] \subseteq e["canonical_entities"],
         d["entity_aliases"] \subseteq e["entity_aliases"], NEW row
  PROVE  NamedAs(d, row) \subseteq NamedAs(e, row)
BY DEF NamedAs, NameCandidates

LEMMA AnswerStays ==
  ASSUME NEW scope, NEW d, NEW e, IssuersHeld(d), IssuersHeld(e), Widens(scope, d, e), NEW row, Steady(d, row),
         Known(d, row) = {} => Known(e, row) = {}
  PROVE  Steady(e, row) /\ OrganizationOf(e, row) = OrganizationOf(d, row)
<1>1. /\ d["canonical_entities"] \subseteq e["canonical_entities"]
      /\ d["entity_aliases"] \subseteq e["entity_aliases"] /\ d["entity_identifiers"] \subseteq e["entity_identifiers"]
  BY DEF Widens, NameTables
<1>2. ~Several(Known(d, row)) /\ ~Several(Known(e, row))
  BY KnownIsOne
<1>3. CASE Known(d, row) # {}
  <2>1. Known(d, row) \subseteq Known(e, row)
    BY <1>1 DEF Known, Owners, Kind
  <2>2. Known(e, row) = Known(d, row)
    BY <1>2, <1>3, <2>1 DEF Several
  <2>3. OrganizationOf(e, row) = OrganizationOf(d, row)
    BY <1>2, <1>3, <2>2 DEF OrganizationOf, Known
  <2> QED BY <1>3, <2>2, <2>3 DEF Steady
<1>4. CASE Known(d, row) = {}
  <2>1. Several(NamedAs(d, row)) /\ Several(NamedAs(e, row))
    BY <1>1, <1>4, NamedGrows DEF Steady, Several
  <2>2. OrganizationOf(e, row) = OrganizationOf(d, row)
    BY <1>2, <1>4, <2>1 DEF OrganizationOf, Known, NamedAs
  <2> QED BY <2>1, <2>2 DEF Steady
<1> QED BY <1>3, <1>4

LEMMA OrganizationRowShape ==
  ASSUME NEW o, NEW row
  PROVE  /\ OfficialId(o, row)[1] = "entity_identifiers" /\ OfficialId(o, row)[2].entity = o
         /\ OwnsName(OfficialId(o, row)[2]) /\ Undisputed(OfficialId(o, row)[2])
         /\ OfficialId(o, row)[2].space = "KRX_KIND" /\ OfficialId(o, row)[2].value = row.issuer
         /\ OfficialName(o, row)[1] = "entity_aliases"
         /\ EntityRow(o, "ORGANIZATION", row.name)[1] = "canonical_entities"
BY DEF OfficialId, IdentifierRow, OfficialName, EntityRow, OwnsName, Undisputed

\* The insert that answers a row, and that changes no other answer of the scope.
LEMMA AnswerIsGiven ==
  ASSUME NEW d, Good(d), IssuersHeld(d), NEW scope \in DOMAIN Issuers, NEW row
  PROVE  LET e == Insert(d, OrganizationOf(d, row).writes)
         IN /\ Good(e) /\ IssuersHeld(e) /\ Widens(scope, d, e)
            /\ Steady(e, row) /\ Answer(e, row) = Answer(d, row) /\ AllBlocked(e, OrganizationOf(e, row).writes)
            /\ \A other : Known(d, other) = {} /\ Known(e, other) # {} =>
                 other.issuer = row.issuer /\ ~Several(NamedAs(d, row))
            /\ e["securities"] = d["securities"]
            /\ e["external_security_issuer_records"] = d["external_security_issuer_records"]
<1> DEFINE organization == OrganizationOf(d, row)
           W == organization.writes
           e == Insert(d, W)
<1>1. /\ IssuersHeld(e)
      /\ \A o \in organization.resolution.ids : Identifies(e, "PROVIDER_ORGANIZATION_ID", "KRX_KIND", row.issuer, o)
  BY OrganizationKeeps DEF Good
<1>2. Database(e) /\ Sound(e)
  BY OrganizationForeign, PlainIsSupported, InsertLeaves DEF Good, Leaves
<1>3. AllBlocked(e, W) /\ Tables(d)
  BY InsertBlocks DEF Good, Named
<1>4. \/ W = {}
      \/ \E o : KindOf(o) = "ORGANIZATION" /\ W \subseteq NamingRows(o, row)
  <2>1. \A o : "ORGANIZATION" \in Kind(d, o) => KindOf(o) = "ORGANIZATION"
    BY KindIsKept DEF Good
  <2>2. ASSUME NEW o \in Known(d, row)
        PROVE  KindOf(o) = "ORGANIZATION" /\ W \subseteq NamingRows(o, row)
    <3>1. W = {OfficialName(o, row)}
      BY OrganizationCases
    <3>2. "ORGANIZATION" \in Kind(d, o)
      BY DEF Known, Owners
    <3> QED BY <2>1, <3>1, <3>2 DEF NamingRows
  <2>3. CASE Known(d, row) = {} /\ ~Several(NamedAs(d, row))
    BY <2>1, <2>3, OrganizationCases
  <2>4. CASE Known(d, row) = {} /\ Several(NamedAs(d, row))
    BY <2>4, OrganizationCases
  <2> QED BY <2>2, <2>3, <2>4
<1>5. scope \notin DOMAIN Holdings /\ scope \notin DOMAIN Returns
  BY ScopeAssumption
<1>6. \A w \in W : \/ w[1] \in {"entity_aliases", "canonical_entities", "organizations"}
                   \/ \E o : KindOf(o) = "ORGANIZATION" /\ w = OfficialId(o, row)
  <2>1. \A x : <<"organizations", x>>[1] = "organizations"
    OBVIOUS
  <2> SUFFICES ASSUME NEW o, KindOf(o) = "ORGANIZATION", NEW w \in NamingRows(o, row), w # OfficialId(o, row)
               PROVE  w[1] \in {"entity_aliases", "canonical_entities", "organizations"}
    BY <1>4
  <2> QED BY <2>1, OrganizationRowShape DEF NamingRows
<1>7. \A w \in W : Modest(scope, w)
  <2> SUFFICES ASSUME NEW w \in W
               PROVE  Modest(scope, w)
    OBVIOUS
  <2>1. ASSUME NEW o, KindOf(o) = "ORGANIZATION", w = OfficialId(o, row)
        PROVE  Modest(scope, w)
    BY <1>5, <2>1, OrganizationRowShape DEF Modest, MayName
  <2>2. CASE w[1] \in {"entity_aliases", "canonical_entities", "organizations"}
    BY <1>5, <2>2 DEF Modest
  <2> QED BY <1>6, <2>1, <2>2
<1>8. ASSUME NEW i \in RowsFor(W, "entity_identifiers")
      PROVE  \E o : KindOf(o) = "ORGANIZATION" /\ i = OfficialId(o, row)[2]
  <2>1. PICK w \in W : w[1] = "entity_identifiers" /\ w[2] = i
    BY RowIsWrite
  <2> QED BY <1>6, <2>1
<1>9. \A i \in RowsFor(W, "entity_identifiers") : KindOf(i.entity) # "SECURITY" /\ i.value = row.issuer
  BY <1>8, OrganizationRowShape
<1>10. Widens(scope, d, e) /\ Named(e)
  BY <1>7, <1>9, InsertWidens DEF Good
<1>11. e["securities"] = d["securities"] /\ e["external_security_issuer_records"] = d["external_security_issuer_records"]
  <2>1. RowsFor(W, "securities") = {} /\ RowsFor(W, "external_security_issuer_records") = {}
    <3>1. \A w \in W : w[1] \notin {"securities", "external_security_issuer_records"}
      BY <1>6, OrganizationRowShape
    <3> QED BY <3>1 DEF RowsFor
  <2>2. \A t : Fresh(t, d[t], {}) = {}
    BY DEF Fresh
  <2>3. "securities" \in DOMAIN d /\ "external_security_issuer_records" \in DOMAIN d
    BY KeysOfNames DEF Good, Database, IssuerReads
  <2> QED BY <2>1, <2>2, <2>3 DEF Insert
<1>12. ASSUME NEW other, Known(d, other) = {}, Known(e, other) # {}
       PROVE  other.issuer = row.issuer /\ ~Several(NamedAs(d, row))
  <2>1. PICK o : o \in Known(e, other)
    BY <1>12
  <2>2. /\ Identifies(e, "PROVIDER_ORGANIZATION_ID", "KRX_KIND", other.issuer, o)
        /\ ~Identifies(d, "PROVIDER_ORGANIZATION_ID", "KRX_KIND", other.issuer, o)
    BY <1>1, <1>12, <2>1, KnownIf
  <2>3. PICK i \in e["entity_identifiers"] : i \notin d["entity_identifiers"] /\ i.value = other.issuer
    BY <2>2 DEF Identifies
  <2>4. i \in RowsFor(W, "entity_identifiers")
    <3>1. "entity_identifiers" \in DOMAIN d
      BY KeysOfNames DEF Good, Database, IssuerReads
    <3> QED BY <2>3, <3>1, InsertFacts
  <2>5. other.issuer = row.issuer
    BY <1>9, <2>3, <2>4
  <2>6. Known(d, row) = {}
    BY <1>12, <2>5 DEF Known
  <2>7. W # {}
    BY <2>4 DEF RowsFor
  <2> QED BY <2>5, <2>6, <2>7, OrganizationCases
<1>13. Steady(e, row) /\ Answer(e, row) = Answer(d, row) /\ AllBlocked(e, OrganizationOf(e, row).writes)
  <2>1. CASE Known(d, row) = {} /\ Several(NamedAs(d, row))
    <3>1. W = {}
      BY <2>1, OrganizationCases
    <3>2. e = d
      BY <1>3, <3>1, BlockedInsert DEF AllBlocked
    <3> QED BY <2>1, <3>1, <3>2 DEF Steady, AllBlocked, Answer
  <2>2. ASSUME NEW o, organization.resolution = Resolution("RESOLVED", {o}), OfficialName(o, row) \in W
        PROVE  Steady(e, row) /\ Answer(e, row) = Answer(d, row) /\ AllBlocked(e, OrganizationOf(e, row).writes)
    <3>1. o \in organization.resolution.ids
      BY <2>2 DEF Resolution
    <3>2. o \in Known(e, row)
      BY <1>1, <3>1, KnownIf
    <3>3. Answer(e, row) = Resolution("RESOLVED", {o}) /\ OrganizationOf(e, row).writes = {OfficialName(o, row)}
      BY <1>1, <3>2, OrganizationCases DEF Answer
    <3> QED BY <1>3, <2>2, <3>2, <3>3 DEF Steady, Answer, AllBlocked
  <2>3. CASE Known(d, row) # {}
    BY <2>2, <2>3, OrganizationCases
  <2>4. CASE Known(d, row) = {} /\ ~Several(NamedAs(d, row))
    BY <2>2, <2>4, OrganizationCases
  <2> QED BY <2>1, <2>3, <2>4
<1> QED BY <1>1, <1>2, <1>10, <1>11, <1>12, <1>13 DEF Good

(* Rows that are written over: the status of a security and the record of a
   row of issuers, each in the cell of its identifier.  A function of cells
   gives what a row writes to them. *)

\* What is stored now is the row's, or was stored, or is in a cell that was empty.
Sets(old, new, cells) ==
  /\ \A x \in new : IF x.id \in DOMAIN cells THEN x = cells[x.id]
                    ELSE x \in old \/ \A y \in old : y.id # x.id
  /\ \A x \in old : \E y \in new : y.id = x.id
\* The other cells are untouched, none is filled or emptied.
Overwrites(old, new, cells) ==
  /\ \A x \in new : IF x.id \in DOMAIN cells THEN x = cells[x.id] ELSE x \in old
  /\ \A x \in old : x.id \notin DOMAIN cells => x \in new
  /\ \A x \in old : \E y \in new : y.id = x.id
  /\ \A x \in new : \E y \in old : y.id = x.id

\* Every cell holds what the last of the first n rows to write it wrote.
Right(T, cells, n) ==
  \A k \in 1..n : \A c \in DOMAIN cells[k] :
    (\A j \in (k + 1)..n : c \notin DOMAIN cells[j]) => \A x \in T : x.id = c => x = cells[k][c]

LEMMA RightNext ==
  ASSUME NEW T, NEW U, NEW cells, NEW n \in Nat \ {0}, Right(T, cells, n - 1), Sets(T, U, cells[n]),
         \A k \in 1..(n - 1) : \A c \in DOMAIN cells[k] : \A x \in U : x.id = c /\ c \notin DOMAIN cells[n] => x \in T
  PROVE  Right(U, cells, n)
<1> SUFFICES ASSUME NEW k \in 1..n, NEW c \in DOMAIN cells[k], \A j \in (k + 1)..n : c \notin DOMAIN cells[j],
                    NEW x \in U, x.id = c
             PROVE  x = cells[k][c]
  BY DEF Right
<1>1. CASE k = n
  BY <1>1 DEF Sets
<1>2. CASE k # n
  <2>1. k \in 1..(n - 1) /\ n \in (k + 1)..n /\ \A j \in (k + 1)..(n - 1) : j \in (k + 1)..n
    BY <1>2
  <2>2. x \in T
    BY <2>1
  <2> QED BY <2>1, <2>2 DEF Right
<1> QED BY <1>1, <1>2

LEMMA GreatestNatural ==
  ASSUME NEW n \in Nat, NEW S \in SUBSET (1..n), S # {}
  PROVE  \E m \in S : \A k \in S : k <= m
<1> DEFINE T == {n - k : k \in S}
<1>1. T \in SUBSET Nat /\ T # {}
  <2>1. \A k \in S : n - k \in Nat
    OBVIOUS
  <2> QED BY <2>1
<1>2. PICK a \in T : \A b \in T : a <= b
  BY <1>1, LeastNatural, Zenon
<1>3. PICK m \in S : a = n - m
  OBVIOUS
<1>4. ASSUME NEW k \in S
      PROVE  k <= m
  <2>1. n - k \in T
    OBVIOUS
  <2>2. n - m <= n - k
    BY <1>2, <1>3, <2>1
  <2> QED BY <2>2
<1> QED BY <1>4

\* Two tables in which the same cells are filled, all written ones right and
\* the others equal, are the same.
LEMMA RightTwice ==
  ASSUME NEW T, NEW U, NEW n \in Nat, NEW cells, Right(T, cells, n), Right(U, cells, n),
         \A x \in T : \E y \in U : y.id = x.id,
         \A x \in T : (\A k \in 1..n : x.id \notin DOMAIN cells[k]) => x \in U
  PROVE  T \subseteq U
<1> SUFFICES ASSUME NEW x \in T, \E k \in 1..n : x.id \in DOMAIN cells[k]
             PROVE  x \in U
  OBVIOUS
<1> DEFINE S == {k \in 1..n : x.id \in DOMAIN cells[k]}
<1>1. S \in SUBSET (1..n) /\ S # {}
  OBVIOUS
<1>2. PICK m \in S : \A k \in S : k <= m
  BY <1>1, GreatestNatural, Zenon
<1>3. \A j \in (m + 1)..n : x.id \notin DOMAIN cells[j]
  <2> SUFFICES ASSUME NEW j \in (m + 1)..n, x.id \in DOMAIN cells[j]
               PROVE  FALSE
    OBVIOUS
  <2>1. j \in S /\ j > m
    OBVIOUS
  <2> QED BY <1>2, <2>1
<1>4. PICK y \in U : y.id = x.id
  OBVIOUS
<1>5. x = cells[m][x.id] /\ y = cells[m][x.id]
  BY <1>3, <1>4 DEF Right
<1> QED BY <1>4, <1>5

\* Rows that write again what they wrote last change nothing in the end.
LEMMA WrittenAgain ==
  ASSUME NEW L \in Nat, NEW T, NEW cells, \A n \in 1..L : Overwrites(T[n - 1], T[n], cells[n]), Right(T[0], cells, L)
  PROVE  T[L] = T[0]
<1> DEFINE Rest(n) == \A x : (\A k \in 1..n : x.id \notin DOMAIN cells[k]) => (x \in T[n] <=> x \in T[0])
           Filled(n) == (\A x \in T[0] : \E y \in T[n] : y.id = x.id) /\ (\A x \in T[n] : \E y \in T[0] : y.id = x.id)
           N == {n \in 0..L : Rest(n) /\ Filled(n) /\ Right(T[n], cells, n)}
<1>1. 0 \in N
  BY DEF Right
<1>2. ASSUME NEW n \in 1..L, n - 1 \in N
      PROVE  n \in N
  <2>1. Rest(n - 1) /\ Filled(n - 1) /\ Right(T[n - 1], cells, n - 1)
    BY <1>2
  <2>2. Overwrites(T[n - 1], T[n], cells[n])
    OBVIOUS
  <2>3. Rest(n)
    <3> SUFFICES ASSUME NEW x, \A k \in 1..n : x.id \notin DOMAIN cells[k]
                 PROVE  x \in T[n] <=> x \in T[0]
      OBVIOUS
    <3>1. x \in T[n - 1] <=> x \in T[0]
      BY <2>1
    <3>2. x \in T[n] <=> x \in T[n - 1]
      BY <2>2 DEF Overwrites
    <3> QED BY <3>1, <3>2
  <2>4. Filled(n)
    <3>1. \A x \in T[0] : \E y \in T[n] : y.id = x.id
      <4> SUFFICES ASSUME NEW x \in T[0]
                   PROVE  \E y \in T[n] : y.id = x.id
        OBVIOUS
      <4>1. PICK z \in T[n - 1] : z.id = x.id
        BY <2>1
      <4>2. PICK y \in T[n] : y.id = z.id
        BY <2>2 DEF Overwrites
      <4> QED BY <4>1, <4>2
    <3>2. \A x \in T[n] : \E y \in T[0] : y.id = x.id
      <4> SUFFICES ASSUME NEW x \in T[n]
                   PROVE  \E y \in T[0] : y.id = x.id
        OBVIOUS
      <4>1. PICK z \in T[n - 1] : z.id = x.id
        BY <2>2 DEF Overwrites
      <4>2. PICK y \in T[0] : y.id = z.id
        BY <2>1
      <4> QED BY <4>1, <4>2
    <3> QED BY <3>1, <3>2
  <2>5. Right(T[n], cells, n)
    <3>1. Sets(T[n - 1], T[n], cells[n])
      BY <2>2 DEF Sets, Overwrites
    <3>2. \A x \in T[n] : x.id \notin DOMAIN cells[n] => x \in T[n - 1]
      BY <2>2 DEF Overwrites
    <3>3. \A k \in 1..(n - 1) : \A c \in DOMAIN cells[k] : \A x \in T[n] : x.id = c /\ c \notin DOMAIN cells[n] => x \in T[n - 1]
      BY <3>2
    <3>4. n \in Nat \ {0}
      OBVIOUS
    <3> QED BY <2>1, <3>1, <3>3, <3>4, RightNext
  <2> QED BY <2>3, <2>4, <2>5
<1> HIDE DEF N
<1>3. L \in N
  BY <1>1, <1>2, UpTo
<1>4. Rest(L) /\ Filled(L) /\ Right(T[L], cells, L)
  BY <1>3 DEF N
<1>5. PICK old : old = T[0]
  OBVIOUS
<1>6. PICK new : new = T[L]
  OBVIOUS
<1>7. Right(old, cells, L) /\ Right(new, cells, L)
  BY <1>4, <1>5, <1>6
<1>8. /\ \A x : (\A k \in 1..L : x.id \notin DOMAIN cells[k]) => (x \in new <=> x \in old)
      /\ \A x \in old : \E y \in new : y.id = x.id
      /\ \A x \in new : \E y \in old : y.id = x.id
  BY <1>4, <1>5, <1>6
<1> HIDE DEF Rest, Filled
<1>9. old \subseteq new
  <2>1. \A x \in old : (\A k \in 1..L : x.id \notin DOMAIN cells[k]) => x \in new
    BY <1>8
  <2> QED BY <1>7, <1>8, <2>1, RightTwice
<1>10. new \subseteq old
  <2>1. \A x \in new : (\A k \in 1..L : x.id \notin DOMAIN cells[k]) => x \in old
    BY <1>8
  <2> QED BY <1>7, <1>8, <2>1, RightTwice
<1> QED BY <1>5, <1>6, <1>9, <1>10

CellTables == {"securities", "external_security_issuer_records"}
StatusCells(ids, status) == [s \in ids |-> [id |-> s, issuer |-> status]]
RecordCells(record) == [c \in {record.id} |-> record]
Recorded(T) == \A x \in T : x.record = <<"normalized", x.id>>

LEMMA CellKeys ==
  /\ CellTables \subseteq DOMAIN Keys \ (OwnTables \cup ReadTables)
  /\ CellTables \cap (NameTables \cup {"identifier_collision_cases"}) = {}
  /\ CellTables \subseteq IssuerReads
BY KeysOfNames DEF CellTables, OwnTables, ReadTables, NameTables, IssuerReads

\* The identifier of a cell is all its keys.
LEMMA CellTaken ==
  ASSUME NEW t \in CellTables, NEW x, NEW y, x.id = y.id,
         t = "external_security_issuer_records" => x.record = <<"normalized", x.id>> /\ y.record = <<"normalized", y.id>>
  PROVE  Taken(t, x) = Taken(t, y) /\ Taken(t, x) # {}
<1>1. PartialKeys(t, x) = {} /\ PartialKeys(t, y) = {}
  BY DEF CellTables, PartialKeys
<1>2. \A columns \in Keys[t] : [c \in columns |-> x[c]] = [c \in columns |-> y[c]]
  <2> SUFFICES ASSUME NEW columns \in Keys[t]
               PROVE  \A c \in columns : x[c] = y[c]
    OBVIOUS
  <2>1. columns = {"id"} \/ (columns = {"record"} /\ t = "external_security_issuer_records")
    BY KeysOfNames DEF CellTables
  <2> QED BY <2>1
<1>3. Taken(t, x) = Taken(t, y)
  BY <1>1, <1>2 DEF Taken
<1>4. t \in DOMAIN Keys
  BY CellKeys
<1> QED BY <1>3, <1>4, RowTakes

LEMMA CellClash ==
  ASSUME NEW t \in CellTables, NEW x, NEW y, Taken(t, x) \cap Taken(t, y) # {},
         t = "external_security_issuer_records" => x.record = <<"normalized", x.id>> /\ y.record = <<"normalized", y.id>>
  PROVE  x.id = y.id
<1>1. Clash(t, x, y)
  BY TakenClash
<1>2. PartialKeys(t, x) = {}
  BY DEF CellTables, PartialKeys
<1>3. PICK columns \in Keys[t] : \A c \in columns : x[c] = y[c]
  BY <1>1, <1>2 DEF Clash
<1>4. columns = {"id"} \/ (columns = {"record"} /\ t = "external_security_issuer_records")
  BY KeysOfNames DEF CellTables
<1> QED BY <1>3, <1>4

\* A change of the cells of one table that keeps each.
KeepsCells(d, t, U, e) ==
  /\ e = [d EXCEPT ![t] = U]
  /\ \A x \in d[t] : \E y \in U : y.id = x.id
  /\ t = "external_security_issuer_records" => Recorded(U)
LEMMA CellsChange ==
  ASSUME NEW scope \in DOMAIN Issuers, NEW d, Database(d), Named(d), NEW t \in CellTables, NEW U,
         NEW e, KeepsCells(d, t, U, e)
  PROVE  /\ Database(e) /\ Named(e) /\ Widens(scope, d, e) /\ e[t] = U
         /\ \A u \in DOMAIN d \ {t} : e[u] = d[u]
<1>1. t \in DOMAIN d /\ DOMAIN d = DOMAIN Keys
  BY CellKeys DEF Database
<1>2. DOMAIN e = DOMAIN d /\ e[t] = U /\ \A u \in DOMAIN d \ {t} : e[u] = d[u]
  BY <1>1 DEF KeepsCells
<1>3. Tables(e)
  <2>1. d = [u \in DOMAIN Keys |-> d[u]]
    BY DEF Named, Tables
  <2>2. e = [u \in DOMAIN Keys |-> IF u = t THEN U ELSE d[u]]
    BY <1>1, <2>1 DEF KeepsCells
  <2> QED BY <2>2 DEF Tables
<1>4. t = "external_security_issuer_records" => Recorded(d[t])
  BY DEF Named, Recorded
<1>5. TakenBy(t, d[t]) \subseteq TakenBy(t, U)
  <2> SUFFICES ASSUME NEW x \in d[t]
               PROVE  \E y \in U : Taken(t, x) = Taken(t, y)
    BY DEF TakenBy
  <2>1. PICK y \in U : y.id = x.id
    BY DEF KeepsCells
  <2>2. t = "external_security_issuer_records" => x.record = <<"normalized", x.id>> /\ y.record = <<"normalized", y.id>>
    BY <1>4 DEF Recorded, KeepsCells
  <2> QED BY <2>1, <2>2, CellTaken
<1>6. Occupies(d, e)
  BY <1>2, <1>5 DEF Occupies
<1>7. \A u \in NameTables \cup {"identifier_collision_cases"} : e[u] = d[u]
  BY <1>1, <1>2, CellKeys, KeysOfNames
<1>8. e["entity_identifiers"] = d["entity_identifiers"] /\ e["identifier_collision_cases"] = d["identifier_collision_cases"]
      /\ e["canonical_entities"] = d["canonical_entities"]
  BY <1>7 DEF NameTables
<1>9. Widens(scope, d, e)
  BY <1>6, <1>7, <1>8, ScopeAssumption DEF Widens
<1>10. \A r \in e["external_security_issuer_records"] : r.record = <<"normalized", r.id>>
  <2>1. "external_security_issuer_records" \in DOMAIN d
    BY <1>1, CellKeys DEF CellTables
  <2> QED BY <1>2, <2>1 DEF Named, Recorded, KeepsCells
<1>11. Named(e)
  BY <1>3, <1>8, <1>10 DEF Named, Kind
<1> QED BY <1>1, <1>2, <1>9, <1>11 DEF Database

\* The status of securities.
Statuses(d) == \A s \in d["securities"] : s = [id |-> s.id, issuer |-> s.issuer]

LEMMA StatusWrites ==
  ASSUME NEW scope \in DOMAIN Issuers, NEW d, Database(d), Named(d), Statuses(d), NEW ids, NEW status
  PROVE  LET e == SetIssuerStatus(d, ids, status)
         IN /\ Database(e) /\ Named(e) /\ Widens(scope, d, e)
            /\ Overwrites(d["securities"], e["securities"], StatusCells(ids, status))
            /\ \A u \in DOMAIN d \ {"securities"} : e[u] = d[u]
<1> DEFINE T == d["securities"]
           New(s) == IF s.id \in ids THEN [s EXCEPT !.issuer = status] ELSE s
           U == {New(s) : s \in T}
           e == SetIssuerStatus(d, ids, status)
<1>1. e = [d EXCEPT !["securities"] = U]
  BY DEF SetIssuerStatus
<1>2. \A s \in T : /\ New(s).id = s.id
                   /\ s.id \in ids => New(s) = [id |-> s.id, issuer |-> status]
                   /\ s.id \notin ids => New(s) = s
  <2> SUFFICES ASSUME NEW s \in T
               PROVE  /\ New(s).id = s.id
                      /\ s.id \in ids => New(s) = [id |-> s.id, issuer |-> status]
                      /\ s.id \notin ids => New(s) = s
    OBVIOUS
  <2>1. s = [id |-> s.id, issuer |-> s.issuer]
    BY DEF Statuses
  <2>2. CASE s.id \in ids
    <3>1. New(s) = [id |-> s.id, issuer |-> status]
      BY <2>1, <2>2
    <3>2. New(s).id = s.id
      BY <3>1
    <3> QED BY <2>2, <3>1, <3>2
  <2>3. CASE s.id \notin ids
    BY <2>3
  <2> QED BY <2>2, <2>3
<1> HIDE DEF New
<1>3. \A x \in T : \E y \in U : y.id = x.id
  <2> SUFFICES ASSUME NEW x \in T
               PROVE  \E y \in U : y.id = x.id
    OBVIOUS
  <2>1. New(x) \in U
    OBVIOUS
  <2> QED BY <1>2, <2>1
<1>4. "securities" \in CellTables
  BY DEF CellTables
<1> HIDE DEF e
<1>5. /\ Database(e) /\ Named(e) /\ Widens(scope, d, e) /\ e["securities"] = U
      /\ \A u \in DOMAIN d \ {"securities"} : e[u] = d[u]
  <2>1. "securities" = "external_security_issuer_records" => Recorded(U)
    OBVIOUS
  <2>2. \A x \in d["securities"] : \E y \in U : y.id = x.id
    BY <1>3
  <2> HIDE DEF U, T
  <2>3. e = [d EXCEPT !["securities"] = U]
    BY <1>1
  <2>4. PICK t \in CellTables : t = "securities"
    BY <1>4
  <2>5. t = "external_security_issuer_records" => Recorded(U)
    BY <2>1, <2>4
  <2>6. \A x \in d[t] : \E y \in U : y.id = x.id
    BY <2>2, <2>4
  <2>7. e = [d EXCEPT ![t] = U]
    BY <2>3, <2>4
  <2>9. KeepsCells(d, t, U, e)
    BY <2>5, <2>6, <2>7 DEF KeepsCells
  <2>8. Widens(scope, d, e) /\ Database(e) /\ Named(e) /\ e[t] = U /\ \A u \in DOMAIN d \ {t} : e[u] = d[u]
    BY <2>9, CellsChange
  <2> QED BY <2>4, <2>8
<1>6. Overwrites(T, U, StatusCells(ids, status))
  <2> DEFINE cells == StatusCells(ids, status)
  <2>1. DOMAIN cells = ids /\ \A s \in ids : cells[s] = [id |-> s, issuer |-> status]
    BY DEF StatusCells
  <2> HIDE DEF cells
  <2>2. ASSUME NEW x \in U
        PROVE  /\ IF x.id \in ids THEN x = cells[x.id] ELSE x \in T
               /\ \E y \in T : y.id = x.id
    <3>1. PICK s \in T : x = New(s)
      OBVIOUS
    <3>2. x.id = s.id
      BY <1>2, <3>1
    <3>3. CASE s.id \in ids
      BY <1>2, <2>1, <3>1, <3>2, <3>3
    <3>4. CASE s.id \notin ids
      BY <1>2, <3>1, <3>2, <3>4
    <3> QED BY <3>2, <3>3, <3>4
  <2>3. \A x \in T : x.id \notin ids => x \in U
    <3> SUFFICES ASSUME NEW x \in T, x.id \notin ids
                 PROVE  x \in U
      OBVIOUS
    <3>1. New(x) \in U
      OBVIOUS
    <3> QED BY <1>2, <3>1
  <2> HIDE DEF U
  <2> QED BY <1>3, <2>1, <2>2, <2>3 DEF Overwrites, cells
<1> QED BY <1>5, <1>6 DEF e

\* The record of a row, where there is one.
LEMMA RecordReplaced ==
  ASSUME NEW scope \in DOMAIN Issuers, NEW d, Database(d), Named(d), NEW record, record.record = <<"normalized", record.id>>,
         \E x \in d["external_security_issuer_records"] : x.id = record.id
  PROVE  LET T == "external_security_issuer_records"
             e == Replace(d, T, {record})
         IN /\ Database(e) /\ Named(e) /\ Widens(scope, d, e)
            /\ Overwrites(d[T], e[T], RecordCells(record))
            /\ \A u \in DOMAIN d \ {T} : e[u] = d[u]
<1> DEFINE T == "external_security_issuer_records"
           U == Fresh(T, {record}, d[T]) \cup {record}
           e == Replace(d, T, {record})
<1>1. e = [d EXCEPT ![T] = U]
  BY DEF Replace
<1>2. T \in CellTables
  BY DEF CellTables
<1>3. Recorded(d[T])
  BY DEF Named, Recorded
<1>4. \A x \in d[T] : x \in Fresh(T, {record}, d[T]) <=> x.id # record.id
  <2> SUFFICES ASSUME NEW x \in d[T]
               PROVE  Taken(T, x) \cap Taken(T, record) = {} <=> x.id # record.id
    BY DEF Fresh, TakenBy
  <2>1. x.record = <<"normalized", x.id>>
    BY <1>3 DEF Recorded
  <2>2. Taken(T, x) \cap Taken(T, record) # {} => x.id = record.id
    BY <1>2, <2>1, CellClash
  <2>3. x.id = record.id => Taken(T, x) = Taken(T, record) /\ Taken(T, x) # {}
    BY <1>2, <2>1, CellTaken
  <2> QED BY <2>2, <2>3
<1>5. Fresh(T, {record}, d[T]) \subseteq d[T]
  BY DEF Fresh
<1>6. \A x : x \in U <=> x = record \/ (x \in d[T] /\ x.id # record.id)
  BY <1>4, <1>5
<1> HIDE DEF U, e
<1>7. Recorded(U)
  BY <1>3, <1>6 DEF Recorded
<1>8. \A x \in d[T] : \E y \in U : y.id = x.id
  BY <1>6
<1>9. /\ Database(e) /\ Named(e) /\ Widens(scope, d, e) /\ e[T] = U
      /\ \A u \in DOMAIN d \ {T} : e[u] = d[u]
  <2>1. T = "external_security_issuer_records" => Recorded(U)
    BY <1>7
  <2>2. \A x \in d[T] : \E y \in U : y.id = x.id
    BY <1>8
  <2> HIDE DEF T
  <2>3. PICK t \in CellTables : t = T
    BY <1>2
  <2>5. t = "external_security_issuer_records" => Recorded(U)
    BY <2>1, <2>3
  <2>6. \A x \in d[t] : \E y \in U : y.id = x.id
    BY <2>2, <2>3
  <2>7. e = [d EXCEPT ![t] = U]
    BY <1>1, <2>3
  <2>9. KeepsCells(d, t, U, e)
    BY <2>5, <2>6, <2>7 DEF KeepsCells
  <2>8. Widens(scope, d, e) /\ Database(e) /\ Named(e) /\ e[t] = U /\ \A u \in DOMAIN d \ {t} : e[u] = d[u]
    BY <2>9, CellsChange
  <2> QED BY <2>3, <2>8
<1>10. Overwrites(d[T], U, RecordCells(record))
  <2> DEFINE cells == RecordCells(record)
  <2>1. DOMAIN cells = {record.id} /\ cells[record.id] = record
    BY DEF RecordCells
  <2> HIDE DEF cells
  <2> QED BY <1>6, <1>8, <2>1 DEF Overwrites, cells
<1> QED BY <1>9, <1>10 DEF e

(* A row of issuers. *)

Listed(d, rows, n) == ListedSecurity(d, rows[n], TickerConflicts(rows))
Undecided(rows, n) == rows[n].issuer \in IssuerConflicts(rows)
Active(d, rows, n) == Listed(d, rows, n).ids # {} /\ ~Undecided(rows, n)
OneOf(ids) == CHOOSE s \in ids : TRUE

IssuerWrites(scope, rows, n, security) ==
  SourceRows(scope, rows[n], n, IssuerAssertion(rows[n]))
  \cup {<<"external_security_issuer_records",
          IssuerRecord(rows[n], security.status, IF Undecided(rows, n) THEN "CONFLICT" ELSE "RESOLVED")>>}
  \cup {<<"source_record_entities", [record |-> NormalizedRecord(rows[n]), entity |-> s, role |-> "DESCRIBES"]>>
          : s \in security.ids}

\* What a row writes to the cells.
StatusFor(answer) ==
  IF answer.ids # {} THEN "RESOLVED" ELSE IF answer.status = "AMBIGUOUS" THEN "AMBIGUOUS" ELSE "UNRESOLVED"
RecordOf(d, row) == IssuerRecord(row, "RESOLVED", Answer(d, row).status)
RecordSet(d, rows, n) ==
  [c \in IF Active(d, rows, n) THEN {rows[n].id} ELSE {} |-> RecordOf(d, rows[n])]
StatusSet(d, rows, n) ==
  StatusCells(Listed(d, rows, n).ids, IF Undecided(rows, n) THEN "UNRESOLVED" ELSE StatusFor(Answer(d, rows[n])))

IssuerDone(d, scope, rows, n) ==
  LET security == Listed(d, rows, n)
  IN /\ AllBlocked(d, IssuerWrites(scope, rows, n, security))
     /\ Active(d, rows, n) =>
          /\ Steady(d, rows[n])
          /\ AllBlocked(d, OrganizationOf(d, rows[n]).writes)
          /\ AllBlocked(d, IssuedByRows(scope, rows[n], OneOf(security.ids), Answer(d, rows[n]).ids))

SameNames(d, e) ==
  /\ e["canonical_entities"] = d["canonical_entities"] /\ e["entity_aliases"] = d["entity_aliases"]
  /\ e["entity_identifiers"] = d["entity_identifiers"]

LEMMA SameNamesSame ==
  ASSUME NEW d, NEW e, SameNames(d, e)
  PROVE  /\ \A row : /\ OrganizationOf(e, row) = OrganizationOf(d, row) /\ Answer(e, row) = Answer(d, row)
                     /\ Known(e, row) = Known(d, row) /\ NamedAs(e, row) = NamedAs(d, row)
                     /\ Steady(e, row) <=> Steady(d, row)
         /\ \A rows, n : Listed(e, rows, n) = Listed(d, rows, n)
<1>1. \A scheme, space, value, kind : Owners(e, scheme, space, value, kind) = Owners(d, scheme, space, value, kind)
  BY DEF SameNames, Owners, Kind
<1>2. \A key : NameCandidates(e, key) = NameCandidates(d, key)
  BY DEF SameNames, NameCandidates
<1>3. ASSUME NEW row
      PROVE  OrganizationOf(e, row) = OrganizationOf(d, row)
  BY <1>1, <1>2 DEF OrganizationOf
<1>4. \A row : Known(e, row) = Known(d, row) /\ NamedAs(e, row) = NamedAs(d, row)
  BY <1>1, <1>2 DEF Known, NamedAs
<1>5. \A rows, n : Listed(e, rows, n) = Listed(d, rows, n)
  BY <1>1 DEF Listed, ListedSecurity
<1> QED BY <1>3, <1>4, <1>5 DEF Answer, Steady

LEMMA ListedShape ==
  ASSUME NEW d, NEW rows, NEW n
  PROVE  LET ids == Listed(d, rows, n).ids
         IN /\ ids # {} => OneOf(ids) \in ids /\ ids = {OneOf(ids)}
            /\ \A s \in ids : s \in SecuritiesOf(d, <<"TICKER", "KRX", rows[n].ticker>>)
<1> DEFINE owners == Owners(d, "TICKER", "KRX", rows[n].ticker, "SECURITY")
           security == Listed(d, rows, n)
<1>1. security \in {Resolution("CONFLICT", {}), Nobody, Resolution("AMBIGUOUS", {})}
      \/ (security = Resolution("RESOLVED", owners) /\ ~Several(owners))
  BY DEF Listed, ListedSecurity
<1> HIDE DEF security
<1>2. security.ids = {} \/ (security.ids = owners /\ ~Several(owners))
  BY <1>1 DEF Resolution, Nobody
<1>3. owners = SecuritiesOf(d, <<"TICKER", "KRX", rows[n].ticker>>)
  BY DEF SecuritiesOf
<1> HIDE DEF owners
<1>4. security.ids # {} => OneOf(security.ids) \in security.ids
  BY DEF OneOf
<1> QED BY <1>2, <1>3, <1>4 DEF Several, security

\* A scope of issuers gives no security an identifier.
LEMMA ListedStays ==
  ASSUME NEW scope \in DOMAIN Issuers, NEW d, NEW e, Good(d), Good(e), Widens(scope, d, e), NEW rows, NEW n
  PROVE  Listed(e, rows, n) = Listed(d, rows, n)
<1> DEFINE c == <<"TICKER", "KRX", rows[n].ticker>>
<1>1. Apart(scope, c)
  BY ScopeAssumption DEF Apart, MayName
<1>2. SecuritiesOf(e, c) = SecuritiesOf(d, c)
  BY <1>1, SecurityOwners
<1>3. Owners(e, "TICKER", "KRX", rows[n].ticker, "SECURITY") = Owners(d, "TICKER", "KRX", rows[n].ticker, "SECURITY")
  BY <1>2 DEF SecuritiesOf
<1> QED BY <1>3 DEF Listed, ListedSecurity

(* What the row does, step by step. *)

Noted(d, scope, rows, n) == Insert(d, IssuerWrites(scope, rows, n, Listed(d, rows, n)))
Answered(d, row) == Insert(d, OrganizationOf(d, row).writes)
Corrected(d, row) == Replace(Answered(d, row), "external_security_issuer_records", {RecordOf(d, row)})
Issued(d, scope, row, s) == Insert(Corrected(d, row), IssuedByRows(scope, row, s, Answer(d, row).ids))

LEMMA IssuerRowShape ==
  ASSUME NEW d, NEW scope, NEW rows, NEW n
  PROVE  LET e == IntegrateIssuerRow(d, scope, rows, n)
             ids == Listed(d, rows, n).ids
             recorded == Noted(d, scope, rows, n)
         IN /\ ids = {} => e = recorded
            /\ ids # {} /\ Undecided(rows, n) => e = SetIssuerStatus(recorded, ids, "UNRESOLVED")
            /\ Active(d, rows, n) => e = IntegrateIssuer(recorded, scope, rows[n], OneOf(ids))
BY DEF IntegrateIssuerRow, Listed, Noted, IssuerWrites, Undecided, Active, OneOf

LEMMA IssuerShape ==
  ASSUME NEW d, NEW scope, NEW row, NEW s, Tables(Corrected(d, row))
  PROVE  IntegrateIssuer(d, scope, row, s) = SetIssuerStatus(Issued(d, scope, row, s), {s}, StatusFor(Answer(d, row)))
<1> DEFINE answer == Answer(d, row)
           second == Corrected(d, row)
           third == Issued(d, scope, row, s)
<1>1. IntegrateIssuer(d, scope, row, s)
        = IF answer.ids = {}
            THEN SetIssuerStatus(second, {s}, IF answer.status = "AMBIGUOUS" THEN answer.status ELSE "UNRESOLVED")
            ELSE SetIssuerStatus(third, {s}, "RESOLVED")
  BY DEF IntegrateIssuer, Answer, Corrected, Answered, Issued, RecordOf
<1>2. answer.ids = {} => third = second
  <2>1. IssuedByRows(scope, row, s, {}) = {}
    BY DEF IssuedByRows
  <2>2. AllBlocked(second, {})
    BY DEF AllBlocked
  <2> HIDE DEF second, answer
  <2>3. Insert(second, {}) = second
    BY <2>2, BlockedInsert DEF second
  <2> QED BY <2>1, <2>3 DEF Issued, second, answer
<1> HIDE DEF answer, second, third
<1>3. IntegrateIssuer(d, scope, row, s) = SetIssuerStatus(third, {s}, StatusFor(answer))
  BY <1>1, <1>2 DEF StatusFor
<1> QED BY <1>3 DEF third, answer

\* A row's record is in the cell of its identifier.
RecordTable == "external_security_issuer_records"
Adds(old, new, id) ==
  /\ \A x \in new : x \in old \/ (x.id = id /\ \A y \in old : y.id # id)
  /\ old \subseteq new
  /\ \E x \in new : x.id = id

LEMMA IssuerWritesFit ==
  ASSUME NEW scope \in DOMAIN Issuers, NEW rows, NEW n, NEW security
  PROVE  \A w \in IssuerWrites(scope, rows, n, security) :
           /\ Modest(scope, w) /\ Silent(w) /\ ForeignWrite(w)
           /\ w[1] \notin {"entity_relations", "canonical_facts", "canonical_entities", "entity_aliases",
                           "entity_identifiers", "securities"}
           /\ w[1] = RecordTable => w[2].id = rows[n].id /\ w[2].record = <<"normalized", w[2].id>>
<1> DEFINE row == rows[n]
           record == IssuerRecord(row, security.status, IF Undecided(rows, n) THEN "CONFLICT" ELSE "RESOLVED")
           Fits(w) == /\ Modest(scope, w) /\ Silent(w) /\ ForeignWrite(w)
                      /\ w[1] \notin {"entity_relations", "canonical_facts", "canonical_entities", "entity_aliases",
                                      "entity_identifiers", "securities"}
                      /\ w[1] = RecordTable => w[2].id = row.id /\ w[2].record = <<"normalized", w[2].id>>
<1>1. scope \notin DOMAIN Returns
  BY ScopeAssumption
<1>2. \A w \in SourceRows(scope, row, n, IssuerAssertion(row)) : Fits(w)
  <2>1. \A w \in SourceRows(scope, row, n, IssuerAssertion(row)) : w[1] \in {"source_records", "source_field_assertions"}
    BY DEF SourceRows
  <2>2. \A w : w[1] \in {"source_records", "source_field_assertions"} => Modest(scope, w) /\ w[1] # RecordTable
    BY <1>1 DEF Modest, RecordTable
  <2>3. \A w \in SourceRows(scope, row, n, IssuerAssertion(row)) : Silent(w)
    BY SourceRowsSilent
  <2>4. \A w \in SourceRows(scope, row, n, IssuerAssertion(row)) : ForeignWrite(w)
    BY SourceRowsForeign DEF Scope
  <2> HIDE DEF row
  <2> QED BY <2>1, <2>2, <2>3, <2>4
<1>3. Fits(<<RecordTable, record>>)
  <2>1. record.id = row.id /\ record.record = <<"normalized", row.id>>
    BY DEF IssuerRecord, NormalizedRecord
  <2> HIDE DEF record, row
  <2>2. PICK w : w = <<RecordTable, record>>
    OBVIOUS
  <2>3. w[1] = RecordTable /\ w[2] = record
    BY <2>2
  <2>4. Fits(w)
    BY <1>1, <2>1, <2>3 DEF Modest, Silent, ForeignWrite, ReadTables, RecordTable
  <2> QED BY <2>2, <2>4
<1>4. ASSUME NEW s
      PROVE  Fits(<<"source_record_entities", [record |-> NormalizedRecord(row), entity |-> s, role |-> "DESCRIBES"]>>)
  <2>1. PICK w : w = <<"source_record_entities", [record |-> NormalizedRecord(row), entity |-> s, role |-> "DESCRIBES"]>>
    OBVIOUS
  <2>2. w[1] = "source_record_entities" /\ w[2].record = NormalizedRecord(row)
    BY <2>1
  <2>3. w[1] # RecordTable
    BY <2>2 DEF RecordTable
  <2>4. NormalizedRecord(row)[1] # "record"
    BY AssertionsForeign
  <2>5. Fits(w)
    BY <1>1, <2>2, <2>3, <2>4 DEF Modest, Silent, ForeignWrite, Native, ReadTables
  <2> QED BY <2>1, <2>5
<1> HIDE DEF Fits, record
<1>5. \A w \in IssuerWrites(scope, rows, n, security) : Fits(w)
  BY <1>2, <1>3, <1>4 DEF IssuerWrites, RecordTable, record
<1> QED BY <1>5 DEF Fits

LEMMA BlockedRecord ==
  ASSUME NEW d, Good(d), NEW scope \in DOMAIN Issuers, NEW rows, NEW n, NEW security,
         AllBlocked(d, IssuerWrites(scope, rows, n, security))
  PROVE  \E x \in d[RecordTable] : x.id = rows[n].id
<1> DEFINE record == IssuerRecord(rows[n], security.status, IF Undecided(rows, n) THEN "CONFLICT" ELSE "RESOLVED")
           w == <<RecordTable, record>>
<1>1. w \in IssuerWrites(scope, rows, n, security)
  BY DEF IssuerWrites, RecordTable
<1>2. w[1] = RecordTable /\ w[2] = record
  OBVIOUS
<1>3. RecordTable \in DOMAIN d /\ RecordTable \in CellTables
  BY CellKeys DEF Good, Database, RecordTable, CellTables
<1> HIDE DEF w
<1>4. Taken(RecordTable, record) \cap TakenBy(RecordTable, d[RecordTable]) # {}
  BY <1>1, <1>2, <1>3 DEF AllBlocked, Blocked
<1>5. record.id = rows[n].id /\ record.record = <<"normalized", record.id>>
  BY DEF IssuerRecord, NormalizedRecord
<1> HIDE DEF record
<1>6. PICK x \in d[RecordTable] : Taken(RecordTable, record) \cap Taken(RecordTable, x) # {}
  BY <1>4 DEF TakenBy
<1>7. x.record = <<"normalized", x.id>>
  BY DEF Good, Named, RecordTable
<1>8. record.id = x.id
  BY <1>3, <1>5, <1>6, <1>7, CellClash
<1> QED BY <1>5, <1>8

LEMMA NotedRow ==
  ASSUME NEW d, Good(d), IssuersHeld(d), NEW scope \in DOMAIN Issuers, NEW edition, Held(d, scope, edition), NEW rows, NEW n
  PROVE  LET e == Noted(d, scope, rows, n)
         IN /\ Good(e) /\ Keeps(e, scope, edition) /\ Widens(scope, d, e) /\ SameNames(d, e)
            /\ AllBlocked(e, IssuerWrites(scope, rows, n, Listed(d, rows, n)))
            /\ e["securities"] = d["securities"] /\ Adds(d[RecordTable], e[RecordTable], rows[n].id)
<1> DEFINE W == IssuerWrites(scope, rows, n, Listed(d, rows, n))
           e == Noted(d, scope, rows, n)
<1>1. \A w \in W : /\ Modest(scope, w) /\ Silent(w) /\ ForeignWrite(w)
                   /\ w[1] \notin {"entity_relations", "canonical_facts", "canonical_entities", "entity_aliases",
                                   "entity_identifiers", "securities"}
                   /\ w[1] = RecordTable => w[2].id = rows[n].id /\ w[2].record = <<"normalized", w[2].id>>
  BY IssuerWritesFit
<1> HIDE DEF W
<1>2. e = Insert(d, W)
  BY DEF Noted, W
<1> HIDE DEF e
<1>3. Keeps(e, scope, edition)
  BY <1>1, <1>2, SilentKeeps DEF Good
<1>4. Database(e) /\ Sound(e)
  BY <1>1, <1>2, PlainIsSupported, InsertLeaves DEF Good, Leaves
<1>5. \A t \in {"canonical_entities", "entity_aliases", "entity_identifiers", "securities"} : RowsFor(W, t) = {}
  BY <1>1 DEF RowsFor
<1>6. Widens(scope, d, e) /\ Named(e)
  <2>1. \A i \in RowsFor(W, "entity_identifiers") :
          KindOf(i.entity) = "SECURITY" => "SECURITY" \in Kind(Insert(d, W), i.entity)
    BY <1>5
  <2> QED BY <1>1, <1>2, <2>1, InsertWidens DEF Good
<1>7. \A t \in DOMAIN d : e[t] = d[t] \cup Fresh(t, d[t], RowsFor(W, t))
  BY <1>2 DEF Insert
<1>8. \A t \in {"canonical_entities", "entity_aliases", "entity_identifiers", "securities"} : e[t] = d[t]
  <2> SUFFICES ASSUME NEW t \in {"canonical_entities", "entity_aliases", "entity_identifiers", "securities"}
               PROVE  e[t] = d[t]
    OBVIOUS
  <2>1. t \in DOMAIN d
    BY KeysOfNames DEF Good, Database, IssuerReads
  <2>2. Fresh(t, d[t], RowsFor(W, t)) = {}
    BY <1>5 DEF Fresh
  <2> QED BY <1>7, <2>1, <2>2
<1>9. AllBlocked(e, W)
  BY <1>2, InsertBlocks DEF Good
<1>10. Good(e)
  BY <1>4, <1>6 DEF Good
<1>11. \E x \in e[RecordTable] : x.id = rows[n].id
  BY <1>9, <1>10, BlockedRecord DEF W
<1>12. RecordTable \in DOMAIN d /\ RecordTable \in CellTables
  BY CellKeys DEF Good, Database, RecordTable, CellTables
<1>13. ASSUME NEW x \in e[RecordTable], x \notin d[RecordTable]
       PROVE  x.id = rows[n].id /\ \A y \in d[RecordTable] : y.id # rows[n].id
  <2>1. x \in Fresh(RecordTable, d[RecordTable], RowsFor(W, RecordTable))
    BY <1>7, <1>12, <1>13
  <2>2. x \in RowsFor(W, RecordTable) /\ Taken(RecordTable, x) \cap TakenBy(RecordTable, d[RecordTable]) = {}
    BY <2>1 DEF Fresh
  <2>3. x.id = rows[n].id /\ x.record = <<"normalized", x.id>>
    BY <1>1, <2>2, RowIsWrite
  <2>4. ASSUME NEW y \in d[RecordTable], y.id = x.id
        PROVE  FALSE
    <3>1. y.record = <<"normalized", y.id>>
      BY DEF Good, Named, RecordTable
    <3>2. Taken(RecordTable, x) = Taken(RecordTable, y) /\ Taken(RecordTable, x) # {}
      BY <1>12, <2>3, <2>4, <3>1, CellTaken
    <3>3. Taken(RecordTable, y) \subseteq TakenBy(RecordTable, d[RecordTable])
      BY DEF TakenBy
    <3> QED BY <2>2, <3>2, <3>3
  <2> QED BY <2>3, <2>4
<1>14. Adds(d[RecordTable], e[RecordTable], rows[n].id)
  BY <1>7, <1>11, <1>12, <1>13 DEF Adds
<1> QED BY <1>3, <1>6, <1>8, <1>9, <1>10, <1>14 DEF SameNames, e, W

LEMMA IssuedByPlain ==
  ASSUME NEW scope, NEW row, NEW s, NEW ids
  PROVE  \A w \in IssuedByRows(scope, row, s, ids) : Plain(w)
<1> SUFFICES ASSUME NEW w \in IssuedByRows(scope, row, s, ids)
             PROVE  Plain(w)
  OBVIOUS
<1>1. \E fact, o : w \in {FactRow(fact, "RESOLVED"), RelationRow("entity_relations", fact, "SECURITY_ISSUED_BY", o),
                          EvidenceRow(fact, IssuerAssertion(row), "SUPPORTS")}
  BY DEF IssuedByRows
<1> QED BY <1>1, FactRowsPlain

\* All that follows from the answer, once the row is recorded.
LEMMA AnsweredRow ==
  ASSUME NEW r, Good(r), IssuersHeld(r), NEW scope \in DOMAIN Issuers, NEW row, NEW s,
         \E x \in r[RecordTable] : x.id = row.id
  PROVE  LET e == IntegrateIssuer(r, scope, row, s)
         IN /\ Database(e) /\ Named(e) /\ Widens(scope, r, e)
            /\ Steady(e, row) /\ Answer(e, row) = Answer(r, row)
            /\ AllBlocked(e, OrganizationOf(e, row).writes)
            /\ AllBlocked(e, IssuedByRows(scope, row, s, Answer(e, row).ids))
            /\ \A other : Known(r, other) = {} /\ Known(e, other) # {} =>
                 other.issuer = row.issuer /\ ~Several(NamedAs(r, row))
            /\ Overwrites(r[RecordTable], e[RecordTable], RecordCells(RecordOf(r, row)))
            /\ Overwrites(r["securities"], e["securities"], StatusCells({s}, StatusFor(Answer(r, row))))
<1> DEFINE first == Answered(r, row)
           second == Corrected(r, row)
           record == RecordOf(r, row)
           W == IssuedByRows(scope, row, s, Answer(r, row).ids)
           third == Issued(r, scope, row, s)
           status == StatusFor(Answer(r, row))
           e == SetIssuerStatus(third, {s}, status)
<1>1. /\ Good(first) /\ IssuersHeld(first) /\ Widens(scope, r, first)
      /\ Steady(first, row) /\ Answer(first, row) = Answer(r, row) /\ AllBlocked(first, OrganizationOf(first, row).writes)
      /\ \A other : Known(r, other) = {} /\ Known(first, other) # {} =>
           other.issuer = row.issuer /\ ~Several(NamedAs(r, row))
      /\ first["securities"] = r["securities"] /\ first[RecordTable] = r[RecordTable]
  BY AnswerIsGiven DEF Answered, RecordTable
<1>2. record.id = row.id /\ record.record = <<"normalized", record.id>>
  BY DEF RecordOf, IssuerRecord, NormalizedRecord
<1> HIDE DEF first, record
<1>3. second = Replace(first, RecordTable, {record})
  BY DEF Corrected, RecordTable, first, record
<1> HIDE DEF second
<1>4. /\ Database(second) /\ Named(second) /\ Widens(scope, first, second)
      /\ Overwrites(first[RecordTable], second[RecordTable], RecordCells(record))
      /\ \A u \in DOMAIN first \ {RecordTable} : second[u] = first[u]
  <2>1. \E x \in first[RecordTable] : x.id = record.id
    BY <1>1, <1>2
  <2>2. Database(first) /\ Named(first)
    BY <1>1 DEF Good
  <2> QED BY <1>2, <1>3, <2>1, <2>2, RecordReplaced DEF RecordTable
<1>5. \A u \in IssuerReads : u \in DOMAIN first
  BY <1>1, KeysOfNames DEF Good, Database
<1>6. SameNames(first, second) /\ second["securities"] = first["securities"]
  BY <1>4, <1>5 DEF SameNames, IssuerReads, RecordTable
<1>7. third = Insert(second, W)
  BY DEF Issued, second
<1> HIDE DEF third
<1>8. /\ Widens(scope, second, third) /\ Named(third) /\ Database(third) /\ AllBlocked(third, W)
      /\ \A t \in IssuerReads : third[t] = second[t]
  <2>1. \A w \in W : Plain(w)
    BY IssuedByPlain
  <2> HIDE DEF W
  <2>2. Database(third)
    BY <1>4, <1>7, InsertFacts DEF Database
  <2> QED BY <1>4, <1>7, <2>1, <2>2, PlainWidens, InsertBlocks
<1>9. SameNames(second, third) /\ third["securities"] = second["securities"] /\ third[RecordTable] = second[RecordTable]
  BY <1>8 DEF SameNames, IssuerReads, RecordTable
<1>10. Statuses(third)
  BY <1>1, <1>6, <1>9 DEF Statuses, IssuersHeld
<1>11. /\ Database(e) /\ Named(e) /\ Widens(scope, third, e)
       /\ Overwrites(third["securities"], e["securities"], StatusCells({s}, status))
       /\ \A u \in DOMAIN third \ {"securities"} : e[u] = third[u]
  BY <1>8, <1>10, StatusWrites
<1> HIDE DEF e, W, status
<1>12. SameNames(third, e) /\ e[RecordTable] = third[RecordTable]
  <2>1. \A u \in IssuerReads : u \in DOMAIN third
    BY <1>8, KeysOfNames DEF Database
  <2> QED BY <1>11, <2>1 DEF SameNames, IssuerReads, RecordTable
<1>13. IntegrateIssuer(r, scope, row, s) = e
  BY <1>4, IssuerShape DEF Named, second, third, e, status
<1>14. Widens(scope, first, e)
  BY <1>4, <1>8, <1>11, WidensTwice
<1>15. Widens(scope, r, e)
  BY <1>1, <1>14, WidensTwice
<1>16. SameNames(first, e)
  BY <1>6, <1>9, <1>12 DEF SameNames
<1>17. /\ Steady(e, row) /\ Answer(e, row) = Answer(r, row)
       /\ OrganizationOf(e, row) = OrganizationOf(first, row)
       /\ \A other : Known(e, other) = Known(first, other)
  BY <1>1, <1>16, SameNamesSame
<1>18. AllBlocked(e, OrganizationOf(e, row).writes)
  BY <1>1, <1>14, <1>17, BlockedStays DEF Widens
<1>19. AllBlocked(e, IssuedByRows(scope, row, s, Answer(e, row).ids))
  BY <1>8, <1>11, <1>17, BlockedStays DEF Widens, W
<1>20. Overwrites(r[RecordTable], e[RecordTable], RecordCells(record))
  BY <1>1, <1>4, <1>9, <1>12
<1>21. Overwrites(r["securities"], e["securities"], StatusCells({s}, status))
  BY <1>1, <1>6, <1>9, <1>11
<1> QED BY <1>1, <1>11, <1>13, <1>15, <1>17, <1>18, <1>19, <1>20, <1>21 DEF record, status

LEMMA AddedThenOver ==
  ASSUME NEW old, NEW mid, NEW new, NEW id, NEW cells, Adds(old, mid, id), Overwrites(mid, new, cells)
  PROVE  Sets(old, new, cells)
<1>1. ASSUME NEW x \in new
      PROVE  IF x.id \in DOMAIN cells THEN x = cells[x.id] ELSE x \in old \/ \A y \in old : y.id # x.id
  BY DEF Adds, Overwrites
<1>2. \A x \in old : \E y \in new : y.id = x.id
  BY DEF Adds, Overwrites
<1> QED BY <1>1, <1>2 DEF Sets

LEMMA NotOver ==
  ASSUME NEW T, NEW cells, DOMAIN cells = {}
  PROVE  Overwrites(T, T, cells)
BY DEF Overwrites

\* What a row of issuers leaves.
IssuerRan(d, e, scope, edition, rows, n) ==
  /\ Good(e) /\ Keeps(e, scope, edition) /\ Widens(scope, d, e) /\ IssuerDone(e, scope, rows, n)
  /\ \A other : Known(d, other) = {} /\ Known(e, other) # {} =>
       Active(d, rows, n) /\ other.issuer = rows[n].issuer /\ ~Several(NamedAs(d, rows[n]))
  /\ Sets(d[RecordTable], e[RecordTable], RecordSet(e, rows, n))
  /\ Overwrites(d["securities"], e["securities"], StatusSet(e, rows, n))

LEMMA IssuerRowRuns ==
  ASSUME NEW d, Good(d), IssuersHeld(d), NEW scope \in DOMAIN Issuers, NEW edition \in DOMAIN Issuers[scope],
         Held(d, scope, edition), NEW n \in DOMAIN Issuers[scope][edition]
  PROVE  LET rows == Issuers[scope][edition]
         IN IssuerRan(d, IntegrateIssuerRow(d, scope, rows, n), scope, edition, rows, n)
<1> DEFINE rows == Issuers[scope][edition]
           row == rows[n]
           e == IntegrateIssuerRow(d, scope, rows, n)
           recorded == Noted(d, scope, rows, n)
           ids == Listed(d, rows, n).ids
           W == IssuerWrites(scope, rows, n, Listed(d, rows, n))
<1>1. Keeps(e, scope, edition) /\ Database(e) /\ Sound(e)
  BY IssuerRowKeeps, IssuerRowLeaves DEF Good, Leaves, Scope
<1> HIDE DEF rows
<1>2. /\ Good(recorded) /\ Keeps(recorded, scope, edition) /\ Widens(scope, d, recorded) /\ SameNames(d, recorded)
      /\ AllBlocked(recorded, W)
      /\ recorded["securities"] = d["securities"] /\ Adds(d[RecordTable], recorded[RecordTable], row.id)
  BY NotedRow
<1>3. /\ ids = {} => e = recorded
      /\ ids # {} /\ Undecided(rows, n) => e = SetIssuerStatus(recorded, ids, "UNRESOLVED")
      /\ Active(d, rows, n) => e = IntegrateIssuer(recorded, scope, row, OneOf(ids))
  BY IssuerRowShape
<1> HIDE DEF recorded, e
<1>4. SameNames(recorded, d)
  BY <1>2 DEF SameNames
<1>5. /\ \A other : Known(recorded, other) = Known(d, other) /\ NamedAs(recorded, other) = NamedAs(d, other)
  BY <1>2, SameNamesSame
<1> DEFINE Step1 == Widens(scope, recorded, e) /\ Named(e)
           Step2 == \A other : Known(recorded, other) = {} /\ Known(e, other) # {} =>
                      Active(d, rows, n) /\ other.issuer = row.issuer /\ ~Several(NamedAs(recorded, row))
           Step3 == Active(d, rows, n) =>
                      /\ Steady(e, row) /\ AllBlocked(e, OrganizationOf(e, row).writes)
                      /\ AllBlocked(e, IssuedByRows(scope, row, OneOf(ids), Answer(e, row).ids))
           Step4 == Listed(e, rows, n) = Listed(d, rows, n) =>
                      /\ Overwrites(recorded[RecordTable], e[RecordTable], RecordSet(e, rows, n))
                      /\ Overwrites(d["securities"], e["securities"], StatusSet(e, rows, n))
<1>6. ASSUME Step1, Step2, Step3, Step4
      PROVE  IssuerRan(d, e, scope, edition, rows, n)
  <2>1. Good(e) /\ Widens(scope, d, e)
    BY <1>1, <1>2, <1>6, WidensTwice DEF Good
  <2>2. Listed(e, rows, n) = Listed(d, rows, n)
    BY <2>1, ListedStays
  <2>3. Active(e, rows, n) <=> Active(d, rows, n)
    BY <2>2 DEF Active
  <2>4. AllBlocked(e, W)
    BY <1>2, <1>6, BlockedStays DEF Widens
  <2>5. IssuerDone(e, scope, rows, n)
    BY <1>6, <2>2, <2>3, <2>4 DEF IssuerDone
  <2>6. Sets(d[RecordTable], e[RecordTable], RecordSet(e, rows, n))
    BY <1>2, <1>6, <2>1, <2>2, AddedThenOver
  <2> QED BY <1>1, <1>5, <1>6, <2>1, <2>2, <2>5, <2>6 DEF IssuerRan
<1> HIDE DEF Step1, Step2, Step3, Step4
<1>7. CASE ids = {}
  <2>1. e = recorded /\ ~Active(d, rows, n)
    BY <1>3, <1>7 DEF Active
  <2>2. ASSUME Listed(e, rows, n) = Listed(d, rows, n)
        PROVE  DOMAIN RecordSet(e, rows, n) = {} /\ DOMAIN StatusSet(e, rows, n) = {}
    BY <1>7, <2>2 DEF RecordSet, StatusSet, StatusCells, Active
  <2>3. Listed(e, rows, n) = Listed(d, rows, n) =>
          /\ Overwrites(recorded[RecordTable], e[RecordTable], RecordSet(e, rows, n))
          /\ Overwrites(d["securities"], e["securities"], StatusSet(e, rows, n))
    BY <1>2, <2>1, <2>2, NotOver
  <2>4. Widens(scope, recorded, e) /\ Named(e)
    BY <1>2, <2>1, WidensNot DEF Good
  <2>5. Step1 /\ Step2 /\ Step3 /\ Step4
    BY <2>1, <2>3, <2>4 DEF Step1, Step2, Step3, Step4
  <2> QED BY <1>6, <2>5 DEF e, rows
<1>8. CASE ids # {} /\ Undecided(rows, n)
  <2>1. e = SetIssuerStatus(recorded, ids, "UNRESOLVED") /\ ~Active(d, rows, n)
    BY <1>3, <1>8 DEF Active
  <2>2. Statuses(recorded) /\ Database(recorded) /\ Named(recorded)
    BY <1>2 DEF Statuses, Keeps, IssuersHeld, Good
  <2>3. /\ Named(e) /\ Widens(scope, recorded, e)
        /\ Overwrites(recorded["securities"], e["securities"], StatusCells(ids, "UNRESOLVED"))
        /\ \A u \in DOMAIN recorded \ {"securities"} : e[u] = recorded[u]
    BY <2>1, <2>2, StatusWrites
  <2>4. SameNames(recorded, e) /\ e[RecordTable] = recorded[RecordTable]
    <3>1. \A u \in IssuerReads : u \in DOMAIN recorded
      BY <2>2, KeysOfNames DEF Database
    <3> QED BY <2>3, <3>1 DEF SameNames, IssuerReads, RecordTable
  <2>5. \A other : Known(e, other) = Known(recorded, other)
    BY <2>4, SameNamesSame
  <2>6. ASSUME Listed(e, rows, n) = Listed(d, rows, n)
        PROVE  DOMAIN RecordSet(e, rows, n) = {} /\ StatusSet(e, rows, n) = StatusCells(ids, "UNRESOLVED")
    BY <1>8, <2>6 DEF RecordSet, StatusSet, Active
  <2>7. Listed(e, rows, n) = Listed(d, rows, n) =>
          /\ Overwrites(recorded[RecordTable], e[RecordTable], RecordSet(e, rows, n))
          /\ Overwrites(d["securities"], e["securities"], StatusSet(e, rows, n))
    BY <1>2, <2>3, <2>4, <2>6, NotOver
  <2>8. Step1 /\ Step2 /\ Step3 /\ Step4
    BY <2>1, <2>3, <2>5, <2>7 DEF Step1, Step2, Step3, Step4
  <2> QED BY <1>6, <2>8 DEF e, rows
<1>9. CASE Active(d, rows, n)
  <2>1. e = IntegrateIssuer(recorded, scope, row, OneOf(ids)) /\ ids = {OneOf(ids)} /\ ~Undecided(rows, n)
    BY <1>3, <1>9, ListedShape DEF Active
  <2>2. Good(recorded) /\ IssuersHeld(recorded) /\ \E x \in recorded[RecordTable] : x.id = row.id
    BY <1>2 DEF Keeps, Adds
  <2>3. /\ Named(e) /\ Widens(scope, recorded, e)
        /\ Steady(e, row) /\ Answer(e, row) = Answer(recorded, row)
        /\ AllBlocked(e, OrganizationOf(e, row).writes)
        /\ AllBlocked(e, IssuedByRows(scope, row, OneOf(ids), Answer(e, row).ids))
        /\ \A other : Known(recorded, other) = {} /\ Known(e, other) # {} =>
             other.issuer = row.issuer /\ ~Several(NamedAs(recorded, row))
        /\ Overwrites(recorded[RecordTable], e[RecordTable], RecordCells(RecordOf(recorded, row)))
        /\ Overwrites(recorded["securities"], e["securities"], StatusCells({OneOf(ids)}, StatusFor(Answer(recorded, row))))
    <3> HIDE DEF row, ids
    <3>1. PICK s : s = OneOf(ids)
      OBVIOUS
    <3>2. e = IntegrateIssuer(recorded, scope, row, s)
      BY <2>1, <3>1
    <3> QED BY <2>2, <3>1, <3>2, AnsweredRow
  <2>4. ASSUME Listed(e, rows, n) = Listed(d, rows, n)
        PROVE  /\ RecordSet(e, rows, n) = RecordCells(RecordOf(recorded, row))
               /\ StatusSet(e, rows, n) = StatusCells({OneOf(ids)}, StatusFor(Answer(recorded, row)))
    <3>1. Active(e, rows, n)
      BY <1>9, <2>4 DEF Active
    <3>2. RecordOf(e, row) = RecordOf(recorded, row)
      BY <2>3 DEF RecordOf
    <3>3. RecordOf(recorded, row).id = row.id
      BY DEF RecordOf, IssuerRecord
    <3>4. RecordSet(e, rows, n) = RecordCells(RecordOf(recorded, row))
      BY <3>1, <3>2, <3>3 DEF RecordSet, RecordCells
    <3>5. StatusSet(e, rows, n) = StatusCells({OneOf(ids)}, StatusFor(Answer(recorded, row)))
      BY <2>1, <2>3, <2>4 DEF StatusSet
    <3> QED BY <3>4, <3>5
  <2>5. Listed(e, rows, n) = Listed(d, rows, n) =>
          /\ Overwrites(recorded[RecordTable], e[RecordTable], RecordSet(e, rows, n))
          /\ Overwrites(d["securities"], e["securities"], StatusSet(e, rows, n))
    BY <1>2, <2>3, <2>4
  <2>6. Step1 /\ Step2 /\ Step3 /\ Step4
    BY <1>9, <2>3, <2>5 DEF Step1, Step2, Step3, Step4
  <2> QED BY <1>6, <2>6 DEF e, rows
<1> QED BY <1>7, <1>8, <1>9 DEF Active, e, rows

\* A row that is done stays done, and writes the same to the cells.
LEMMA IssuerDoneStays ==
  ASSUME NEW other, NEW d, NEW e, IssuersHeld(d), IssuersHeld(e), Widens(other, d, e),
         NEW scope, NEW rows, NEW n, IssuerDone(d, scope, rows, n), Listed(e, rows, n) = Listed(d, rows, n),
         Active(d, rows, n) /\ Known(d, rows[n]) = {} => Known(e, rows[n]) = {}
  PROVE  /\ IssuerDone(e, scope, rows, n)
         /\ RecordSet(e, rows, n) = RecordSet(d, rows, n) /\ StatusSet(e, rows, n) = StatusSet(d, rows, n)
<1> DEFINE row == rows[n]
           ids == Listed(d, rows, n).ids
<1>1. Active(e, rows, n) <=> Active(d, rows, n)
  BY DEF Active
<1>2. Occupies(d, e)
  BY DEF Widens
<1>3. AllBlocked(e, IssuerWrites(scope, rows, n, Listed(e, rows, n)))
  BY <1>2, BlockedStays DEF IssuerDone
<1>4. ASSUME Active(d, rows, n)
      PROVE  Steady(e, row) /\ OrganizationOf(e, row) = OrganizationOf(d, row) /\ Answer(e, row) = Answer(d, row)
  <2>1. Steady(d, row) /\ (Known(d, row) = {} => Known(e, row) = {})
    BY <1>4 DEF IssuerDone
  <2> HIDE DEF row
  <2> QED BY <2>1, AnswerStays DEF Answer
<1>5. ASSUME Active(d, rows, n)
      PROVE  /\ AllBlocked(e, OrganizationOf(e, row).writes)
             /\ AllBlocked(e, IssuedByRows(scope, row, OneOf(ids), Answer(e, row).ids))
  BY <1>2, <1>4, <1>5, BlockedStays DEF IssuerDone
<1>6. IssuerDone(e, scope, rows, n)
  BY <1>1, <1>3, <1>4, <1>5 DEF IssuerDone
<1>7. RecordSet(e, rows, n) = RecordSet(d, rows, n)
  BY <1>1, <1>4 DEF RecordSet, RecordOf
<1>8. StatusSet(e, rows, n) = StatusSet(d, rows, n)
  <2>1. CASE ids = {}
    BY <2>1 DEF StatusSet, StatusCells
  <2>2. CASE Undecided(rows, n)
    BY <2>2 DEF StatusSet
  <2>3. CASE Active(d, rows, n)
    BY <1>4, <2>3 DEF StatusSet
  <2> QED BY <2>1, <2>2, <2>3 DEF Active
<1> QED BY <1>6, <1>7, <1>8

\* A row that is done writes nothing but its cells.
LEMMA IssuerAgain ==
  ASSUME NEW d, Good(d), IssuersHeld(d), NEW scope \in DOMAIN Issuers, NEW rows, NEW n, IssuerDone(d, scope, rows, n)
  PROVE  LET e == IntegrateIssuerRow(d, scope, rows, n)
         IN /\ \A u \in DOMAIN d \ CellTables : e[u] = d[u]
            /\ Overwrites(d[RecordTable], e[RecordTable], RecordSet(d, rows, n))
            /\ Overwrites(d["securities"], e["securities"], StatusSet(d, rows, n))
<1> DEFINE row == rows[n]
           ids == Listed(d, rows, n).ids
           e == IntegrateIssuerRow(d, scope, rows, n)
           second == Corrected(d, row)
           third == Issued(d, scope, row, OneOf(ids))
           record == RecordOf(d, row)
           status == StatusFor(Answer(d, row))
           Same(f, g, t) == \A u \in DOMAIN d \ {t} : f[u] = g[u]
<1>1. Noted(d, scope, rows, n) = d
  BY BlockedInsert DEF IssuerDone, Noted, Good, Named
<1>2. /\ ids = {} => e = d
      /\ ids # {} /\ Undecided(rows, n) => e = SetIssuerStatus(d, ids, "UNRESOLVED")
      /\ Active(d, rows, n) => e = IntegrateIssuer(d, scope, row, OneOf(ids))
  BY <1>1, IssuerRowShape
<1> HIDE DEF e
<1>3. Statuses(d) /\ Database(d) /\ Named(d)
  BY DEF Statuses, IssuersHeld, Good
<1>4. RecordTable \in CellTables /\ "securities" \in CellTables /\ RecordTable # "securities"
      /\ RecordTable \in DOMAIN d /\ "securities" \in DOMAIN d
  BY <1>3, CellKeys DEF RecordTable, CellTables, Database
<1>5. CASE ids = {}
  <2>1. DOMAIN RecordSet(d, rows, n) = {} /\ DOMAIN StatusSet(d, rows, n) = {}
    BY <1>5 DEF RecordSet, StatusSet, StatusCells, Active
  <2> QED BY <1>2, <1>5, <2>1, NotOver DEF e
<1>6. CASE ids # {} /\ Undecided(rows, n)
  <2>1. /\ Overwrites(d["securities"], e["securities"], StatusCells(ids, "UNRESOLVED"))
        /\ Same(e, d, "securities")
    BY <1>2, <1>3, <1>6, StatusWrites
  <2>2. DOMAIN RecordSet(d, rows, n) = {} /\ StatusSet(d, rows, n) = StatusCells(ids, "UNRESOLVED")
    BY <1>6 DEF RecordSet, StatusSet, Active
  <2>3. e[RecordTable] = d[RecordTable]
    BY <1>4, <2>1
  <2>4. Overwrites(d[RecordTable], e[RecordTable], RecordSet(d, rows, n))
    BY <2>2, <2>3, NotOver
  <2> QED BY <1>4, <2>1, <2>2, <2>4 DEF e
<1>7. CASE Active(d, rows, n)
  <2>1. Steady(d, row) /\ AllBlocked(d, OrganizationOf(d, row).writes)
        /\ AllBlocked(d, IssuedByRows(scope, row, OneOf(ids), Answer(d, row).ids))
    BY <1>7 DEF IssuerDone
  <2>2. Answered(d, row) = d
    BY <1>3, <2>1, BlockedInsert DEF Answered, Named
  <2>3. record.id = row.id /\ record.record = <<"normalized", record.id>>
    BY DEF RecordOf, IssuerRecord, NormalizedRecord
  <2>4. \E x \in d[RecordTable] : x.id = row.id
    <3>1. AllBlocked(d, IssuerWrites(scope, rows, n, Listed(d, rows, n)))
      BY DEF IssuerDone
    <3> QED BY <3>1, BlockedRecord
  <2> HIDE DEF record
  <2>5. second = Replace(d, RecordTable, {record})
    BY <2>2 DEF Corrected, RecordTable, record
  <2> HIDE DEF second
  <2>6. /\ Database(second) /\ Named(second) /\ Widens(scope, d, second)
        /\ Overwrites(d[RecordTable], second[RecordTable], RecordCells(record))
        /\ Same(second, d, RecordTable)
    <3>1. \E x \in d[RecordTable] : x.id = record.id
      BY <2>3, <2>4
    <3> QED BY <1>3, <2>3, <2>5, <3>1, RecordReplaced DEF RecordTable
  <2>7. third = second
    <3>1. AllBlocked(second, IssuedByRows(scope, row, OneOf(ids), Answer(d, row).ids))
      BY <2>1, <2>6, BlockedStays DEF Widens
    <3> QED BY <2>6, <3>1, BlockedInsert DEF Issued, Named, second
  <2>8. second["securities"] = d["securities"] /\ Statuses(second) /\ DOMAIN second = DOMAIN d
    BY <1>3, <1>4, <2>6 DEF Statuses, Database
  <2>9. e = SetIssuerStatus(second, {OneOf(ids)}, status)
    <3>1. IntegrateIssuer(d, scope, row, OneOf(ids)) = SetIssuerStatus(third, {OneOf(ids)}, status)
      BY <2>6, IssuerShape DEF Named, second
    <3> QED BY <1>2, <1>7, <2>7, <3>1
  <2>10. /\ Overwrites(second["securities"], e["securities"], StatusCells({OneOf(ids)}, status))
         /\ Same(e, second, "securities")
    BY <2>6, <2>8, <2>9, StatusWrites
  <2>11. StatusSet(d, rows, n) = StatusCells({OneOf(ids)}, status)
    <3>1. ids = {OneOf(ids)} /\ ~Undecided(rows, n)
      BY <1>7, ListedShape DEF Active
    <3> QED BY <3>1 DEF StatusSet
  <2>12. RecordSet(d, rows, n) = RecordCells(record)
    BY <1>7, <2>3 DEF RecordSet, RecordCells, record
  <2>13. e[RecordTable] = second[RecordTable]
    BY <1>4, <2>10
  <2>14. \A u \in DOMAIN d \ CellTables : e[u] = d[u]
    BY <1>4, <2>6, <2>10
  <2> QED BY <2>6, <2>8, <2>10, <2>11, <2>12, <2>13, <2>14 DEF e
<1> QED BY <1>5, <1>6, <1>7 DEF Active

(* Integrations, row by row. *)

RunOf(after, d, scope, edition) ==
  LET L == Len(Editions[scope][edition])
  IN /\ L \in Nat /\ DOMAIN Editions[scope][edition] = 1..L
     /\ after[0] = Insert(d, {SnapshotRow(scope, edition)})
     /\ \A n \in 1..L : after[n] = IntegrateRow(after[n - 1], scope, Editions[scope][edition], n)
     /\ Integrate(d, scope, edition) = after[L]

LEMMA IntegrationIsRun ==
  ASSUME NEW d, NEW scope \in Scope, NEW edition \in DOMAIN Editions[scope]
  PROVE  \E after : RunOf(after, d, scope, edition)
<1> DEFINE rows == Editions[scope][edition]
           L == Len(rows)
           start == Insert(d, {SnapshotRow(scope, edition)})
           after == CHOOSE f : IntegrationRun(f, start, scope, rows, L)
<1>1. L \in Nat /\ DOMAIN rows = 1..L
  BY ScopeAssumption DEF Editions, Scope
<1>2. Integrate(d, scope, edition) = after[L]
  BY DEF Integrate, IntegrationRun
<1>3. IntegrationRun(after, start, scope, rows, L)
  BY <1>1, IntegrationRuns
<1> HIDE DEF after, start, rows, L
<1>4. after[0] = start /\ \A n \in 1..L : after[n] = IntegrateRow(after[n - 1], scope, rows, n)
  BY <1>1, <1>3 DEF IntegrationRun
<1> QED BY <1>1, <1>2, <1>4 DEF RunOf, start, rows, L

\* The snapshot is registered, and nothing else.
LEMMA StartKeeps ==
  ASSUME NEW d, Good(d), IssuersHeld(d), NEW scope, NEW edition, Compatible(d, scope, edition)
  PROVE  LET e == Insert(d, {SnapshotRow(scope, edition)})
         IN /\ Good(e) /\ Keeps(e, scope, edition) /\ Leaves(d, e) /\ Widens(scope, d, e)
            /\ Held(d, scope, edition) => e = d
<1> DEFINE snapshot == [id |-> scope, data |-> edition]
           W == {SnapshotRow(scope, edition)}
           start == Insert(d, W)
<1>1. Leaves(d, start)
  <2>1. LET w == SnapshotRow(scope, edition)
        IN ForeignWrite(w) /\ w[1] \notin {"entity_relations", "canonical_facts"}
    BY DEF SnapshotRow, ForeignWrite, ReadTables
  <2> QED BY <2>1, PlainIsSupported, InsertLeaves DEF Good
<1>2. W = {<<"dataset_snapshots", snapshot>>} /\ snapshot.id = scope /\ snapshot.data = edition
  BY DEF SnapshotRow
<1> HIDE DEF snapshot, W
<1>3. /\ \A s : s \in RowsFor(W, "dataset_snapshots") <=> s = snapshot
      /\ RowsFor(W, "entity_identifiers") = {} /\ RowsFor(W, "entity_relations") = {}
      /\ RowsFor(W, "securities") = {}
  <2>1. snapshot \in RowsFor(W, "dataset_snapshots")
    <3>1. PICK w \in W : w[1] = "dataset_snapshots" /\ w[2] = snapshot
      BY <1>2
    <3> QED BY <3>1 DEF RowsFor
  <2>2. ASSUME NEW t, NEW s \in RowsFor(W, t)
        PROVE  t = "dataset_snapshots" /\ s = snapshot
    <3>1. PICK w \in W : w[1] = t /\ w[2] = s
      BY RowIsWrite
    <3> QED BY <1>2, <3>1
  <2> QED BY <2>1, <2>2
<1>4. IssuersHeld(start)
  <2>1. MayIssue(start, W)
    BY <1>3 DEF MayIssue
  <2> QED BY <2>1, InsertGrows, GrowthKeeps DEF Good
<1>5. "dataset_snapshots" \in DOMAIN d
  BY IssuerKeys DEF Good, Database, IssuerTables
<1>6. Held(start, scope, edition)
  <2>1. snapshot \in start["dataset_snapshots"] \/ \E old \in d["dataset_snapshots"] : Clash("dataset_snapshots", snapshot, old)
    BY <1>3, <1>5, InsertFacts
  <2>2. CASE snapshot \in start["dataset_snapshots"]
    BY <1>2, <2>2 DEF Held
  <2>3. ASSUME NEW old \in d["dataset_snapshots"], Clash("dataset_snapshots", snapshot, old)
        PROVE  Held(start, scope, edition)
    <3>1. old.id = scope
      BY <1>2, <2>3, IssuerKeys DEF Clash, PartialKeys
    <3>2. old.data = edition
      BY <3>1 DEF Compatible
    <3>3. old \in start["dataset_snapshots"]
      BY <1>5, InsertFacts
    <3> QED BY <3>1, <3>2, <3>3 DEF Held
  <2> QED BY <2>1, <2>2, <2>3
<1>7. Widens(scope, d, start) /\ Named(start)
  <2>1. \A w \in W : Plain(w)
    <3>1. PICK w : w = <<"dataset_snapshots", snapshot>>
      OBVIOUS
    <3>2. w[1] = "dataset_snapshots"
      BY <3>1
    <3>3. Plain(w)
      BY <3>2 DEF Plain, IssuerReads
    <3> QED BY <1>2, <3>1, <3>3
  <2> QED BY <2>1, PlainWidens DEF Good
<1>8. ASSUME Held(d, scope, edition)
      PROVE  start = d
  <2>1. PICK old \in d["dataset_snapshots"] : old.id = scope
    BY <1>8 DEF Held
  <2>2. \A columns \in Keys["dataset_snapshots"] : columns = {"id"}
    BY IssuerKeys
  <2>3. PICK columns \in Keys["dataset_snapshots"] : columns = {"id"}
    BY <2>2, IssuerKeys
  <2>4. Clash("dataset_snapshots", snapshot, old)
    BY <1>2, <2>1, <2>3 DEF Clash
  <2>5. Taken("dataset_snapshots", snapshot) \cap Taken("dataset_snapshots", old) # {}
    BY <2>4, ClashTaken
  <2>6. Taken("dataset_snapshots", old) \subseteq TakenBy("dataset_snapshots", d["dataset_snapshots"])
    BY DEF TakenBy
  <2>7. Taken("dataset_snapshots", snapshot) \cap TakenBy("dataset_snapshots", d["dataset_snapshots"]) # {}
    BY <2>5, <2>6
  <2>8. PICK w : w = <<"dataset_snapshots", snapshot>>
    OBVIOUS
  <2>9. w[1] = "dataset_snapshots" /\ w[2] = snapshot
    BY <2>8
  <2>10. Blocked(d, w)
    BY <2>7, <2>9 DEF Blocked
  <2>11. AllBlocked(d, W)
    BY <1>2, <2>8, <2>10 DEF AllBlocked
  <2> QED BY <2>11, BlockedInsert DEF Good, Named
<1>9. Good(start)
  BY <1>1, <1>7 DEF Good, Leaves
<1> QED BY <1>1, <1>4, <1>6, <1>7, <1>8, <1>9 DEF Keeps, W

LEMMA RowOfKind ==
  ASSUME NEW d, NEW scope, NEW rows, NEW n
  PROVE  /\ scope \in DOMAIN Holdings => IntegrateRow(d, scope, rows, n) = IntegrateHolding(d, scope, rows[n], n)
         /\ scope \in DOMAIN Issuers => IntegrateRow(d, scope, rows, n) = IntegrateIssuerRow(d, scope, rows, n)
         /\ scope \in DOMAIN Returns => IntegrateRow(d, scope, rows, n) = IntegrateReturn(d, scope, rows[n], n)
BY ScopeAssumption DEF IntegrateRow

LEMMA EditionsOfKind ==
  ASSUME NEW scope \in DOMAIN Issuers
  PROVE  Editions[scope] = Issuers[scope]
BY ScopeAssumption DEF Editions, Scope

LEMMA RowRuns ==
  ASSUME NEW d, Good(d), IssuersHeld(d), NEW scope \in Scope, NEW edition \in DOMAIN Editions[scope],
         Held(d, scope, edition), NEW n \in DOMAIN Editions[scope][edition]
  PROVE  LET e == IntegrateRow(d, scope, Editions[scope][edition], n)
         IN Good(e) /\ Keeps(e, scope, edition) /\ Leaves(d, e) /\ Widens(scope, d, e)
<1> DEFINE rows == Editions[scope][edition]
           e == IntegrateRow(d, scope, rows, n)
<1>1. Leaves(d, e) /\ Keeps(e, scope, edition)
  BY RowLeaves, RowKeeps DEF Good
<1>2. CASE scope \in DOMAIN Holdings
  <2>1. e = IntegrateHolding(d, scope, rows[n], n)
    BY <1>2, RowOfKind
  <2> HIDE DEF e, rows
  <2>2. Good(e) /\ Widens(scope, d, e)
    BY <1>2, <2>1, HoldingWidens
  <2> QED BY <1>1, <2>2 DEF e, rows
<1>3. CASE scope \in DOMAIN Issuers
  <2>1. rows = Issuers[scope][edition] /\ edition \in DOMAIN Issuers[scope] /\ n \in DOMAIN Issuers[scope][edition]
    BY <1>3, EditionsOfKind
  <2>2. e = IntegrateIssuerRow(d, scope, rows, n)
    BY <1>3, RowOfKind
  <2> HIDE DEF e, rows
  <2>3. IssuerRan(d, e, scope, edition, rows, n)
    BY <1>3, <2>1, <2>2, IssuerRowRuns
  <2> QED BY <1>1, <2>3 DEF e, rows, IssuerRan
<1>4. CASE scope \in DOMAIN Returns
  <2>1. e = IntegrateReturn(d, scope, rows[n], n)
    BY <1>4, RowOfKind
  <2> HIDE DEF e, rows
  <2>2. Good(e) /\ Widens(scope, d, e)
    BY <1>4, <2>1, ReturnWidens
  <2> QED BY <1>1, <2>2 DEF e, rows
<1> QED BY <1>2, <1>3, <1>4 DEF Scope

LEMMA RunKeeps ==
  ASSUME NEW d, Good(d), IssuersHeld(d), NEW scope \in Scope, NEW edition \in DOMAIN Editions[scope],
         Compatible(d, scope, edition), NEW after, RunOf(after, d, scope, edition)
  PROVE  \A n \in 0..Len(Editions[scope][edition]) :
           Good(after[n]) /\ Keeps(after[n], scope, edition) /\ Leaves(d, after[n]) /\ Widens(scope, d, after[n])
<1> DEFINE L == Len(Editions[scope][edition])
           Fine(e) == Good(e) /\ Keeps(e, scope, edition) /\ Leaves(d, e) /\ Widens(scope, d, e)
           N == {n \in 0..L : Fine(after[n])}
<1>1. /\ L \in Nat /\ DOMAIN Editions[scope][edition] = 1..L
      /\ after[0] = Insert(d, {SnapshotRow(scope, edition)})
      /\ \A n \in 1..L : after[n] = IntegrateRow(after[n - 1], scope, Editions[scope][edition], n)
  BY DEF RunOf
<1> HIDE DEF L
<1>2. 0 \in N
  BY <1>1, StartKeeps
<1>3. ASSUME NEW n \in 1..L, n - 1 \in N
      PROVE  n \in N
  <2>1. Fine(after[n - 1])
    BY <1>3
  <2>2. PICK f : f = after[n - 1]
    OBVIOUS
  <2>3. PICK e : e = after[n]
    OBVIOUS
  <2>4. Good(e) /\ Keeps(e, scope, edition) /\ Leaves(f, e) /\ Widens(scope, f, e)
    BY <1>1, <2>1, <2>2, <2>3, RowRuns DEF Keeps
  <2>5. Leaves(d, e) /\ Widens(scope, d, e)
    BY <2>1, <2>2, <2>4, LeavesTwice, WidensTwice
  <2> QED BY <1>1, <2>3, <2>4, <2>5
<1> HIDE DEF N
<1>4. \A n \in 0..L : n \in N
  BY <1>1, <1>2, <1>3, UpTo
<1> QED BY <1>4 DEF N, L

(* A settled scope. *)

RecordSets(d, rows) == [k \in DOMAIN rows |-> RecordSet(d, rows, k)]
StatusSets(d, rows) == [k \in DOMAIN rows |-> StatusSet(d, rows, k)]
CellsRight(d, rows) ==
  /\ Right(d[RecordTable], RecordSets(d, rows), Len(rows))
  /\ Right(d["securities"], StatusSets(d, rows), Len(rows))

\* Its edition is registered, each of its rows is done, and what is written over
\* is what the last of them to write it writes.
RowDone(d, scope, rows, n) ==
  /\ scope \in DOMAIN Holdings => HoldingDone(d, scope, rows[n], n)
  /\ scope \in DOMAIN Returns => ReturnDone(d, scope, rows[n], n)
  /\ scope \in DOMAIN Issuers => IssuerDone(d, scope, rows, n)
Settled(d, scope, edition) ==
  LET rows == Editions[scope][edition]
  IN /\ Held(d, scope, edition)
     /\ \A n \in DOMAIN rows : RowDone(d, scope, rows, n)
     /\ scope \in DOMAIN Issuers => CellsRight(d, rows)

LEMMA HeldIsCompatible ==
  ASSUME NEW d, IssuersHeld(d), NEW scope, NEW edition, Held(d, scope, edition)
  PROVE  Compatible(d, scope, edition)
<1>1. PICK a \in d["dataset_snapshots"] : a.id = scope /\ a.data = edition
  BY DEF Held
<1>2. \A a1 \in d["dataset_snapshots"] : \A b \in d["dataset_snapshots"] : a1.id = b.id => a1 = b
  BY DEF IssuersHeld
<1> QED BY <1>1, <1>2 DEF Compatible

LEMMA SameTables ==
  ASSUME NEW d, NEW e, Tables(d), Tables(e), \A u \in DOMAIN Keys : e[u] = d[u]
  PROVE  e = d
<1>1. [u \in DOMAIN Keys |-> e[u]] = [u \in DOMAIN Keys |-> d[u]]
  OBVIOUS
<1> QED BY <1>1 DEF Tables

LEMMA SettledIssuersStop ==
  ASSUME NEW d, Good(d), IssuersHeld(d), NEW scope \in DOMAIN Issuers, NEW edition \in DOMAIN Editions[scope],
         Settled(d, scope, edition)
  PROVE  Integrate(d, scope, edition) = d
<1> DEFINE rows == Editions[scope][edition]
           L == Len(rows)
<1>1. scope \in Scope
  BY DEF Scope
<1>2. PICK after : RunOf(after, d, scope, edition)
  BY <1>1, IntegrationIsRun
<1>3. /\ L \in Nat /\ DOMAIN rows = 1..L /\ after[0] = Insert(d, {SnapshotRow(scope, edition)})
      /\ \A n \in 1..L : after[n] = IntegrateRow(after[n - 1], scope, rows, n)
      /\ Integrate(d, scope, edition) = after[L]
  BY <1>2 DEF RunOf
<1>4. Compatible(d, scope, edition) /\ Held(d, scope, edition)
  BY HeldIsCompatible DEF Settled
<1>5. after[0] = d
  BY <1>3, <1>4, StartKeeps
<1>6. \A n \in 0..L : Good(after[n]) /\ Keeps(after[n], scope, edition) /\ Widens(scope, d, after[n])
  BY <1>1, <1>2, <1>4, RunKeeps
<1>7. /\ \A n \in 1..L : IssuerDone(d, scope, rows, n)
      /\ Right(d[RecordTable], RecordSets(d, rows), L) /\ Right(d["securities"], StatusSets(d, rows), L)
      /\ \A n \in 1..L : RecordSets(d, rows)[n] = RecordSet(d, rows, n) /\ StatusSets(d, rows)[n] = StatusSet(d, rows, n)
  BY <1>3 DEF Settled, RowDone, CellsRight, RecordSets, StatusSets
<1> HIDE DEF rows, L
<1>8. DOMAIN d = DOMAIN Keys
  BY DEF Good, Database
<1> DEFINE Same(e) == \A u \in DOMAIN Keys \ CellTables : e[u] = d[u]
           N == {n \in 0..L : Same(after[n])}
<1>9. ASSUME NEW n \in 1..L, Same(after[n - 1])
      PROVE  /\ Same(after[n])
             /\ Overwrites(after[n - 1][RecordTable], after[n][RecordTable], RecordSets(d, rows)[n])
             /\ Overwrites(after[n - 1]["securities"], after[n]["securities"], StatusSets(d, rows)[n])
  <2>1. n - 1 \in 0..L
    BY <1>3
  <2>2. PICK f : f = after[n - 1]
    OBVIOUS
  <2>3. Good(f) /\ IssuersHeld(f) /\ Widens(scope, d, f)
    BY <1>6, <2>1, <2>2 DEF Keeps
  <2>4. SameNames(d, f)
    <3>1. {"canonical_entities", "entity_aliases", "entity_identifiers"} \subseteq DOMAIN Keys \ CellTables
      BY CellKeys, KeysOfNames DEF NameTables
    <3> QED BY <1>9, <2>2, <3>1 DEF SameNames
  <2>5. Listed(f, rows, n) = Listed(d, rows, n) /\ Known(f, rows[n]) = Known(d, rows[n])
    BY <2>4, SameNamesSame
  <2>6. /\ IssuerDone(f, scope, rows, n)
        /\ RecordSet(f, rows, n) = RecordSet(d, rows, n) /\ StatusSet(f, rows, n) = StatusSet(d, rows, n)
    <3>1. IssuerDone(d, scope, rows, n)
      BY <1>7
    <3>2. Active(d, rows, n) /\ Known(d, rows[n]) = {} => Known(f, rows[n]) = {}
      BY <2>5
    <3> QED BY <2>3, <2>5, <3>1, <3>2, IssuerDoneStays
  <2>7. after[n] = IntegrateIssuerRow(f, scope, rows, n)
    BY <1>3, <2>2, RowOfKind
  <2>8. /\ \A u \in DOMAIN f \ CellTables : after[n][u] = f[u]
        /\ Overwrites(f[RecordTable], after[n][RecordTable], RecordSet(f, rows, n))
        /\ Overwrites(f["securities"], after[n]["securities"], StatusSet(f, rows, n))
    BY <2>3, <2>6, <2>7, IssuerAgain
  <2>9. DOMAIN f = DOMAIN Keys
    BY <2>3 DEF Good, Database
  <2> QED BY <1>7, <1>9, <2>2, <2>6, <2>8, <2>9
<1>10. 0 \in N
  BY <1>3, <1>5
<1>11. ASSUME NEW n \in 1..L, n - 1 \in N
       PROVE  n \in N
  BY <1>3, <1>9, <1>11
<1> HIDE DEF N
<1>12. \A n \in 0..L : n \in N
  BY <1>3, <1>10, <1>11, UpTo
<1>13. \A n \in 0..L : Same(after[n])
  BY <1>12 DEF N
<1>14. \A n \in 1..L : n - 1 \in 0..L
  BY <1>3
<1>15. after[L][RecordTable] = d[RecordTable]
  <2> DEFINE T == [n \in 0..L |-> after[n][RecordTable]]
  <2>1. \A n \in 1..L : Overwrites(T[n - 1], T[n], RecordSets(d, rows)[n])
    <3> SUFFICES ASSUME NEW n \in 1..L
                 PROVE  Overwrites(T[n - 1], T[n], RecordSets(d, rows)[n])
      OBVIOUS
    <3>1. n - 1 \in 0..L /\ n \in 0..L
      BY <1>3
    <3>2. Overwrites(after[n - 1][RecordTable], after[n][RecordTable], RecordSets(d, rows)[n])
      BY <1>9, <1>13, <3>1
    <3> QED BY <3>1, <3>2
  <2>2. T[0] = d[RecordTable] /\ T[L] = after[L][RecordTable]
    BY <1>3, <1>5
  <2> HIDE DEF T
  <2>3. Right(T[0], RecordSets(d, rows), L)
    BY <1>7, <2>2
  <2>4. PICK cells : cells = RecordSets(d, rows)
    OBVIOUS
  <2>5. (\A n \in 1..L : Overwrites(T[n - 1], T[n], cells[n])) /\ Right(T[0], cells, L)
    BY <2>1, <2>3, <2>4
  <2>6. T[L] = T[0]
    BY <1>3, <2>5, WrittenAgain
  <2> QED BY <2>2, <2>6
<1>16. after[L]["securities"] = d["securities"]
  <2> DEFINE T == [n \in 0..L |-> after[n]["securities"]]
  <2>1. \A n \in 1..L : Overwrites(T[n - 1], T[n], StatusSets(d, rows)[n])
    <3> SUFFICES ASSUME NEW n \in 1..L
                 PROVE  Overwrites(T[n - 1], T[n], StatusSets(d, rows)[n])
      OBVIOUS
    <3>1. n - 1 \in 0..L /\ n \in 0..L
      BY <1>3
    <3>2. Overwrites(after[n - 1]["securities"], after[n]["securities"], StatusSets(d, rows)[n])
      BY <1>9, <1>13, <3>1
    <3> QED BY <3>1, <3>2
  <2>2. T[0] = d["securities"] /\ T[L] = after[L]["securities"]
    BY <1>3, <1>5
  <2> HIDE DEF T
  <2>3. PICK cells : cells = StatusSets(d, rows)
    OBVIOUS
  <2>4. (\A n \in 1..L : Overwrites(T[n - 1], T[n], cells[n])) /\ Right(T[0], cells, L)
    BY <1>7, <2>1, <2>2, <2>3
  <2>5. T[L] = T[0]
    BY <1>3, <2>4, WrittenAgain
  <2> QED BY <2>2, <2>5
<1>17. L \in 0..L
  BY <1>3
<1>18. \A u \in DOMAIN Keys : after[L][u] = d[u]
  BY <1>13, <1>15, <1>16, <1>17 DEF CellTables, RecordTable
<1>19. Tables(d) /\ Tables(after[L])
  BY <1>6, <1>17 DEF Good, Named
<1> QED BY <1>3, <1>18, <1>19, SameTables

LEMMA SettledStops ==
  ASSUME NEW d, Good(d), IssuersHeld(d), NEW scope \in Scope, NEW edition \in DOMAIN Editions[scope],
         Settled(d, scope, edition)
  PROVE  Integrate(d, scope, edition) = d
<1> DEFINE rows == Editions[scope][edition]
           L == Len(rows)
<1>1. CASE scope \in DOMAIN Issuers
  BY <1>1, SettledIssuersStop
<1>2. CASE scope \in DOMAIN Holdings \cup DOMAIN Returns
  <2>1. PICK after : RunOf(after, d, scope, edition)
    BY IntegrationIsRun
  <2>2. /\ L \in Nat /\ DOMAIN rows = 1..L /\ after[0] = Insert(d, {SnapshotRow(scope, edition)})
        /\ \A n \in 1..L : after[n] = IntegrateRow(after[n - 1], scope, rows, n)
        /\ Integrate(d, scope, edition) = after[L]
    BY <2>1 DEF RunOf
  <2>3. Compatible(d, scope, edition) /\ Held(d, scope, edition)
    BY HeldIsCompatible DEF Settled
  <2>4. after[0] = d
    BY <2>2, <2>3, StartKeeps
  <2>5. \A n \in 1..L : RowDone(d, scope, rows, n)
    BY <2>2 DEF Settled
  <2> HIDE DEF rows, L
  <2> DEFINE N == {n \in 0..L : after[n] = d}
  <2>6. 0 \in N
    BY <2>2, <2>4
  <2>7. ASSUME NEW n \in 1..L, n - 1 \in N
        PROVE  n \in N
    <3>1. after[n] = IntegrateRow(d, scope, rows, n) /\ RowDone(d, scope, rows, n)
      BY <2>2, <2>5, <2>7
    <3>2. IntegrateRow(d, scope, rows, n) = d
      BY <1>2, <3>1, RowOfKind, HoldingDoneStops, ReturnDoneStops DEF RowDone
    <3> QED BY <2>2, <3>1, <3>2
  <2> HIDE DEF N
  <2>8. L \in N
    BY <2>2, <2>6, <2>7, UpTo
  <2> QED BY <2>2, <2>8 DEF N
<1> QED BY <1>1, <1>2 DEF Scope

LEMMA RunSteps ==
  ASSUME NEW d, Good(d), IssuersHeld(d), NEW scope \in Scope, NEW edition \in DOMAIN Editions[scope],
         Compatible(d, scope, edition), NEW after, RunOf(after, d, scope, edition),
         NEW n \in 1..Len(Editions[scope][edition])
  PROVE  LET rows == Editions[scope][edition]
             f == after[n - 1]
             e == after[n]
         IN /\ n \in Nat \ {0} /\ n \in DOMAIN rows /\ \A k \in 1..(n - 1) : k \in DOMAIN rows
            /\ e = IntegrateRow(f, scope, rows, n)
            /\ Good(f) /\ Good(e) /\ Keeps(f, scope, edition) /\ Keeps(e, scope, edition)
            /\ Leaves(f, e) /\ Widens(scope, f, e)
<1> DEFINE rows == Editions[scope][edition]
           L == Len(rows)
<1>1. /\ L \in Nat /\ DOMAIN rows = 1..L
      /\ \A k \in 1..L : after[k] = IntegrateRow(after[k - 1], scope, rows, k)
  BY DEF RunOf
<1>2. \A k \in 0..L : Good(after[k]) /\ Keeps(after[k], scope, edition)
  BY RunKeeps
<1>3. n - 1 \in 0..L /\ n \in 0..L /\ n \in Nat \ {0} /\ n \in DOMAIN rows /\ \A k \in 1..(n - 1) : k \in DOMAIN rows
  BY <1>1
<1>4. PICK f : f = after[n - 1]
  OBVIOUS
<1>5. PICK e : e = after[n]
  OBVIOUS
<1>6. e = IntegrateRow(f, scope, rows, n)
  BY <1>1, <1>4, <1>5
<1>7. Good(f) /\ Good(e) /\ Keeps(f, scope, edition) /\ Keeps(e, scope, edition)
  BY <1>2, <1>3, <1>4, <1>5
<1>8. Leaves(f, e) /\ Widens(scope, f, e)
  BY <1>3, <1>6, <1>7, RowRuns DEF Keeps
<1> QED BY <1>3, <1>4, <1>5, <1>6, <1>7, <1>8

(* What an integration settles. *)

LEMMA ReturnsSettle ==
  ASSUME NEW d, Good(d), IssuersHeld(d), NEW scope \in DOMAIN Returns, NEW edition \in DOMAIN Editions[scope],
         Compatible(d, scope, edition)
  PROVE  Settled(Integrate(d, scope, edition), scope, edition)
<1> DEFINE rows == Editions[scope][edition]
           L == Len(rows)
<1>1. scope \in Scope /\ scope \notin DOMAIN Holdings /\ scope \notin DOMAIN Issuers
  BY ScopeAssumption DEF Scope
<1>2. PICK after : RunOf(after, d, scope, edition)
  BY <1>1, IntegrationIsRun
<1>3. L \in Nat /\ DOMAIN rows = 1..L /\ Integrate(d, scope, edition) = after[L]
  BY <1>2 DEF RunOf
<1> DEFINE N == {n \in 0..L : \A k \in 1..n : ReturnDone(after[n], scope, rows[k], k)}
<1>4. 0 \in N
  BY <1>3
<1>5. ASSUME NEW n \in 1..L, n - 1 \in N
      PROVE  n \in N
  <2>1. PICK f : f = after[n - 1]
    OBVIOUS
  <2>2. PICK e : e = after[n]
    OBVIOUS
  <2>3. /\ e = IntegrateRow(f, scope, rows, n)
        /\ Good(f) /\ Good(e) /\ Leaves(f, e) /\ Widens(scope, f, e)
    BY <1>1, <1>2, <2>1, <2>2, RunSteps
  <2>4. \A k \in 1..(n - 1) : ReturnDone(f, scope, rows[k], k)
    BY <1>5, <2>1
  <2>5. ASSUME NEW k \in 1..(n - 1)
        PROVE  ReturnDone(e, scope, rows[k], k)
    BY <2>3, <2>4, ReturnDoneStays
  <2>6. e = IntegrateReturn(f, scope, rows[n], n)
    BY <2>3, RowOfKind
  <2>7. ReturnDone(e, scope, rows[n], n)
    <3> HIDE DEF rows
    <3> QED BY <2>3, <2>6, ReturnWidens
  <2>8. \A k \in 1..n : k = n \/ k \in 1..(n - 1)
    BY <1>3
  <2>9. \A k \in 1..n : ReturnDone(e, scope, rows[k], k)
    BY <2>5, <2>7, <2>8
  <2> QED BY <1>3, <2>2, <2>9
<1> HIDE DEF N
<1>6. L \in N
  <2> HIDE DEF L
  <2>1. \A n \in 0..L : n \in N
    BY <1>3, <1>4, <1>5, UpTo
  <2> QED BY <1>3, <2>1
<1>7. \A k \in 1..L : ReturnDone(after[L], scope, rows[k], k)
  BY <1>6 DEF N
<1>8. Held(after[L], scope, edition)
  BY <1>1, <1>2, <1>3, RunKeeps DEF Keeps
<1>9. \A k \in DOMAIN rows : RowDone(after[L], scope, rows, k)
  BY <1>1, <1>3, <1>7 DEF RowDone
<1> QED BY <1>1, <1>3, <1>8, <1>9 DEF Settled

LEMMA HoldingsSettle ==
  ASSUME NEW d, Good(d), IssuersHeld(d), NEW scope \in DOMAIN Holdings, NEW edition \in DOMAIN Editions[scope],
         Compatible(d, scope, edition)
  PROVE  Settled(Activated(d, scope, edition), scope, edition)
<1> DEFINE rows == Editions[scope][edition]
           L == Len(rows)
           once == Integrate(d, scope, edition)
<1>1. scope \in Scope /\ scope \notin DOMAIN Returns /\ scope \notin DOMAIN Issuers
  BY ScopeAssumption DEF Scope
<1>2. PICK after : RunOf(after, d, scope, edition)
  BY <1>1, IntegrationIsRun
<1>3. L \in Nat /\ DOMAIN rows = 1..L /\ once = after[L]
  BY <1>2 DEF RunOf
<1> DEFINE N == {n \in 0..L : \A k \in 1..n : Placed(after[n], scope, rows[k])}
<1>4. 0 \in N
  BY <1>3
<1>5. ASSUME NEW n \in 1..L, n - 1 \in N
      PROVE  n \in N
  <2>1. PICK f : f = after[n - 1]
    OBVIOUS
  <2>2. PICK e : e = after[n]
    OBVIOUS
  <2>3. /\ e = IntegrateRow(f, scope, rows, n)
        /\ Good(f) /\ Good(e) /\ Leaves(f, e) /\ Widens(scope, f, e)
    BY <1>1, <1>2, <2>1, <2>2, RunSteps
  <2>4. \A k \in 1..(n - 1) : Placed(f, scope, rows[k])
    BY <1>5, <2>1
  <2>5. ASSUME NEW k \in 1..(n - 1)
        PROVE  Placed(e, scope, rows[k])
    BY <2>3, <2>4, PlacedStays
  <2>6. e = IntegrateHolding(f, scope, rows[n], n)
    BY <2>3, RowOfKind
  <2>7. Placed(e, scope, rows[n])
    <3> HIDE DEF rows
    <3> QED BY <2>3, <2>6, HoldingWidens
  <2>8. \A k \in 1..n : k = n \/ k \in 1..(n - 1)
    BY <1>3
  <2>9. \A k \in 1..n : Placed(e, scope, rows[k])
    BY <2>5, <2>7, <2>8
  <2> QED BY <1>3, <2>2, <2>9
<1> HIDE DEF N
<1>6. L \in N
  <2> HIDE DEF L
  <2>1. \A n \in 0..L : n \in N
    BY <1>3, <1>4, <1>5, UpTo
  <2> QED BY <1>3, <2>1
<1>7. \A k \in 1..L : Placed(once, scope, rows[k])
  BY <1>3, <1>6 DEF N
<1>8. Good(once) /\ Keeps(once, scope, edition)
  BY <1>1, <1>2, <1>3, RunKeeps
<1> HIDE DEF once
<1>9. Compatible(once, scope, edition)
  BY <1>8, HeldIsCompatible DEF Keeps
<1>10. PICK again : RunOf(again, once, scope, edition)
  BY <1>1, IntegrationIsRun
<1>11. Integrate(once, scope, edition) = again[L] /\ again[0] = Insert(once, {SnapshotRow(scope, edition)})
  BY <1>10 DEF RunOf
<1>12. again[0] = once
  BY <1>8, <1>9, <1>11, StartKeeps DEF Keeps
<1> DEFINE M == {n \in 0..L : /\ \A k \in 1..L : Placed(again[n], scope, rows[k])
                              /\ \A k \in 1..n : HoldingDone(again[n], scope, rows[k], k)}
<1>13. 0 \in M
  BY <1>3, <1>7, <1>12
<1>14. ASSUME NEW n \in 1..L, n - 1 \in M
       PROVE  n \in M
  <2>1. PICK f : f = again[n - 1]
    OBVIOUS
  <2>2. PICK e : e = again[n]
    OBVIOUS
  <2>3. /\ e = IntegrateRow(f, scope, rows, n)
        /\ Good(f) /\ Good(e) /\ Leaves(f, e) /\ Widens(scope, f, e)
    BY <1>1, <1>8, <1>9, <1>10, <2>1, <2>2, RunSteps DEF Keeps
  <2>4. /\ \A k \in 1..L : Placed(f, scope, rows[k])
        /\ \A k \in 1..(n - 1) : HoldingDone(f, scope, rows[k], k)
    BY <1>14, <2>1
  <2>5. ASSUME NEW k \in 1..L
        PROVE  Placed(e, scope, rows[k])
    BY <2>3, <2>4, PlacedStays
  <2>6. e = IntegrateHolding(f, scope, rows[n], n)
    BY <2>3, RowOfKind
  <2>7. HoldingDone(e, scope, rows[n], n) /\ \A c : Found(e, c) = Found(f, c)
    <3>1. Placed(f, scope, rows[n])
      BY <2>4
    <3> HIDE DEF rows
    <3> QED BY <2>3, <2>6, <3>1, HoldingAgain
  <2>8. ASSUME NEW k \in 1..(n - 1)
        PROVE  HoldingDone(e, scope, rows[k], k)
    <3>1. SecurityOf(e, scope, rows[k]) = SecurityOf(f, scope, rows[k])
      BY <2>7, SecuritySame
    <3>2. HoldingDone(f, scope, rows[k], k)
      BY <2>4
    <3> QED BY <2>3, <3>1, <3>2, HoldingDoneStays
  <2>9. \A k \in 1..n : k = n \/ k \in 1..(n - 1)
    BY <1>3
  <2>10. \A k \in 1..n : HoldingDone(e, scope, rows[k], k)
    BY <2>7, <2>8, <2>9
  <2> QED BY <1>3, <2>2, <2>5, <2>10
<1> HIDE DEF M
<1>15. L \in M
  <2> HIDE DEF L
  <2>1. \A n \in 0..L : n \in M
    BY <1>3, <1>13, <1>14, UpTo
  <2> QED BY <1>3, <2>1
<1>16. \A k \in 1..L : HoldingDone(again[L], scope, rows[k], k)
  BY <1>15 DEF M
<1>17. Held(again[L], scope, edition)
  BY <1>1, <1>3, <1>8, <1>9, <1>10, RunKeeps DEF Keeps
<1>18. \A k \in DOMAIN rows : RowDone(again[L], scope, rows, k)
  BY <1>1, <1>3, <1>16 DEF RowDone
<1>19. Activated(d, scope, edition) = again[L]
  BY <1>11 DEF Activated, once
<1> QED BY <1>1, <1>17, <1>18, <1>19 DEF Settled

LEMMA RightSame ==
  ASSUME NEW T, NEW n \in Nat, NEW cells, NEW others, Right(T, cells, n), \A k \in 1..n : others[k] = cells[k]
  PROVE  Right(T, others, n)
<1> SUFFICES ASSUME NEW k \in 1..n, NEW c \in DOMAIN others[k], \A j \in (k + 1)..n : c \notin DOMAIN others[j],
                    NEW x \in T, x.id = c
             PROVE  x = others[k][c]
  BY DEF Right
<1>1. \A j \in (k + 1)..n : j \in 1..n
  OBVIOUS
<1>2. \A j \in (k + 1)..n : c \notin DOMAIN cells[j]
  BY <1>1
<1>3. c \in DOMAIN cells[k]
  OBVIOUS
<1> QED BY <1>2, <1>3 DEF Right

\* A row of a scope of issuers leaves those before it as they are.
LEMMA EarlierIssuersStay ==
  ASSUME NEW f, NEW e, Good(f), Good(e), IssuersHeld(f), IssuersHeld(e), NEW scope \in DOMAIN Issuers, NEW edition, NEW rows,
         NEW n \in DOMAIN rows, NEW k \in DOMAIN rows, IssuerRan(f, e, scope, edition, rows, n),
         IssuerDone(f, scope, rows, k)
  PROVE  /\ IssuerDone(e, scope, rows, k)
         /\ RecordSet(e, rows, k) = RecordSet(f, rows, k) /\ StatusSet(e, rows, k) = StatusSet(f, rows, k)
<1>1. Widens(scope, f, e)
  BY DEF IssuerRan
<1>2. Listed(e, rows, k) = Listed(f, rows, k)
  BY <1>1, ListedStays
<1>3. ASSUME Active(f, rows, k), Known(f, rows[k]) = {}, Known(e, rows[k]) # {}
      PROVE  FALSE
  <2>1. Active(f, rows, n) /\ rows[k].issuer = rows[n].issuer /\ ~Several(NamedAs(f, rows[n]))
    BY <1>3 DEF IssuerRan
  <2>2. LegalKey(rows[k].name) = LegalKey(rows[n].name)
    BY <2>1 DEF Active, Undecided, IssuerConflicts
  <2>3. NamedAs(f, rows[k]) = NamedAs(f, rows[n])
    BY <2>2 DEF NamedAs
  <2>4. Several(NamedAs(f, rows[k]))
    BY <1>3 DEF IssuerDone, Steady
  <2> QED BY <2>1, <2>3, <2>4
<1> QED BY <1>1, <1>2, <1>3, IssuerDoneStays

LEMMA RecordSetIsFilled ==
  ASSUME NEW d, Good(d), NEW scope \in DOMAIN Issuers, NEW rows, NEW k, IssuerDone(d, scope, rows, k),
         NEW c \in DOMAIN RecordSet(d, rows, k)
  PROVE  \E x \in d[RecordTable] : x.id = c
<1>1. c = rows[k].id
  BY DEF RecordSet
<1>2. AllBlocked(d, IssuerWrites(scope, rows, k, Listed(d, rows, k)))
  BY DEF IssuerDone
<1> QED BY <1>1, <1>2, BlockedRecord

\* The first n rows are done, and the cells hold what the last of them wrote.
Upto(d, scope, rows, n) ==
  /\ \A k \in 1..n : IssuerDone(d, scope, rows, k)
  /\ Right(d[RecordTable], RecordSets(d, rows), n) /\ Right(d["securities"], StatusSets(d, rows), n)

LEMMA UptoNext ==
  ASSUME NEW f, NEW e, Good(f), Good(e), IssuersHeld(f), IssuersHeld(e), NEW scope \in DOMAIN Issuers, NEW edition, NEW rows,
         NEW n \in Nat \ {0}, n \in DOMAIN rows, \A k \in 1..(n - 1) : k \in DOMAIN rows,
         IssuerRan(f, e, scope, edition, rows, n), Upto(f, scope, rows, n - 1)
  PROVE  Upto(e, scope, rows, n)
<1>1. ASSUME NEW k \in 1..(n - 1)
      PROVE  /\ IssuerDone(e, scope, rows, k)
             /\ RecordSets(e, rows)[k] = RecordSets(f, rows)[k] /\ StatusSets(e, rows)[k] = StatusSets(f, rows)[k]
  <2>1. k \in DOMAIN rows /\ IssuerDone(f, scope, rows, k)
    BY DEF Upto
  <2>2. /\ IssuerDone(e, scope, rows, k)
        /\ RecordSet(e, rows, k) = RecordSet(f, rows, k) /\ StatusSet(e, rows, k) = StatusSet(f, rows, k)
    BY <2>1, EarlierIssuersStay
  <2> QED BY <2>1, <2>2 DEF RecordSets, StatusSets
<1>2. IssuerDone(e, scope, rows, n)
  BY DEF IssuerRan
<1>3. n - 1 \in Nat /\ \A k \in 1..n : k = n \/ k \in 1..(n - 1)
  OBVIOUS
<1>4. \A k \in 1..n : IssuerDone(e, scope, rows, k)
  BY <1>1, <1>2, <1>3
<1>5. Right(e[RecordTable], RecordSets(e, rows), n)
  <2>1. PICK cells : cells = RecordSets(e, rows)
    OBVIOUS
  <2>2. PICK T : T = f[RecordTable]
    OBVIOUS
  <2>3. PICK U : U = e[RecordTable]
    OBVIOUS
  <2>4. Right(T, cells, n - 1)
    BY <1>1, <1>3, <2>1, <2>2, RightSame DEF Upto
  <2>5. Sets(T, U, cells[n])
    BY <2>1, <2>2, <2>3 DEF IssuerRan, RecordSets
  <2>6. ASSUME NEW k \in 1..(n - 1), NEW c \in DOMAIN cells[k], NEW x \in U, x.id = c, c \notin DOMAIN cells[n]
        PROVE  x \in T
    <3>1. c \in DOMAIN RecordSet(f, rows, k) /\ IssuerDone(f, scope, rows, k)
      BY <1>1, <2>1 DEF RecordSets, Upto
    <3>2. \E y \in T : y.id = c
      BY <2>2, <3>1, RecordSetIsFilled
    <3> QED BY <2>5, <2>6, <3>2 DEF Sets
  <2>7. \A k \in 1..(n - 1) : \A c \in DOMAIN cells[k] : \A x \in U : x.id = c /\ c \notin DOMAIN cells[n] => x \in T
    BY <2>6
  <2>8. Right(U, cells, n)
    BY <2>4, <2>5, <2>7, RightNext
  <2> QED BY <2>1, <2>3, <2>8
<1>6. Right(e["securities"], StatusSets(e, rows), n)
  <2>1. PICK cells : cells = StatusSets(e, rows)
    OBVIOUS
  <2>2. PICK T : T = f["securities"]
    OBVIOUS
  <2>3. PICK U : U = e["securities"]
    OBVIOUS
  <2>4. Right(T, cells, n - 1)
    BY <1>1, <1>3, <2>1, <2>2, RightSame DEF Upto
  <2>5. Overwrites(T, U, cells[n])
    BY <2>1, <2>2, <2>3 DEF IssuerRan, StatusSets
  <2>6. Sets(T, U, cells[n])
    BY <2>5 DEF Sets, Overwrites
  <2>7. \A k \in 1..(n - 1) : \A c \in DOMAIN cells[k] : \A x \in U : x.id = c /\ c \notin DOMAIN cells[n] => x \in T
    BY <2>5 DEF Overwrites
  <2>8. Right(U, cells, n)
    BY <2>4, <2>6, <2>7, RightNext
  <2> QED BY <2>1, <2>3, <2>8
<1> QED BY <1>4, <1>5, <1>6 DEF Upto

LEMMA IssuersSettle ==
  ASSUME NEW d, Good(d), IssuersHeld(d), NEW scope \in DOMAIN Issuers, NEW edition \in DOMAIN Editions[scope],
         Compatible(d, scope, edition)
  PROVE  Settled(Integrate(d, scope, edition), scope, edition)
<1> DEFINE rows == Editions[scope][edition]
           L == Len(rows)
<1>1. scope \in Scope /\ scope \notin DOMAIN Holdings /\ scope \notin DOMAIN Returns /\ Editions[scope] = Issuers[scope]
  BY ScopeAssumption, EditionsOfKind DEF Scope
<1>2. PICK after : RunOf(after, d, scope, edition)
  BY <1>1, IntegrationIsRun
<1>3. L \in Nat /\ DOMAIN rows = 1..L /\ Integrate(d, scope, edition) = after[L]
  BY <1>2 DEF RunOf
<1> DEFINE N == {n \in 0..L : Upto(after[n], scope, rows, n)}
<1>4. 0 \in N
  BY <1>3 DEF Upto, Right
<1>5. ASSUME NEW n \in 1..L, n - 1 \in N
      PROVE  n \in N
  <2>1. PICK f : f = after[n - 1]
    OBVIOUS
  <2>2. PICK e : e = after[n]
    OBVIOUS
  <2>3. /\ n \in Nat \ {0} /\ n \in DOMAIN rows /\ \A k \in 1..(n - 1) : k \in DOMAIN rows
        /\ e = IntegrateRow(f, scope, rows, n)
        /\ Good(f) /\ Good(e) /\ Keeps(f, scope, edition) /\ Keeps(e, scope, edition)
    BY <1>1, <1>2, <2>1, <2>2, RunSteps
  <2>4. Upto(f, scope, rows, n - 1)
    BY <1>5, <2>1
  <2>5. e = IntegrateIssuerRow(f, scope, rows, n)
    BY <2>3, RowOfKind
  <2>6. IssuerRan(f, e, scope, edition, rows, n)
    <3>1. rows = Issuers[scope][edition] /\ edition \in DOMAIN Issuers[scope] /\ n \in DOMAIN Issuers[scope][edition]
      BY <1>1, <2>3
    <3> HIDE DEF rows
    <3> QED BY <2>3, <2>5, <3>1, IssuerRowRuns DEF Keeps
  <2>7. Upto(e, scope, rows, n)
    <3> HIDE DEF rows
    <3> QED BY <2>3, <2>4, <2>6, UptoNext DEF Keeps
  <2> QED BY <1>3, <2>2, <2>7
<1> HIDE DEF N
<1>6. L \in N
  <2> HIDE DEF L
  <2>1. \A n \in 0..L : n \in N
    BY <1>3, <1>4, <1>5, UpTo
  <2> QED BY <1>3, <2>1
<1>7. Upto(after[L], scope, rows, L)
  BY <1>6 DEF N
<1>8. Held(after[L], scope, edition)
  BY <1>1, <1>2, <1>3, RunKeeps DEF Keeps
<1>9. \A k \in DOMAIN rows : RowDone(after[L], scope, rows, k)
  BY <1>1, <1>3, <1>7 DEF RowDone, Upto
<1>10. CellsRight(after[L], rows)
  BY <1>7 DEF CellsRight, Upto
<1> QED BY <1>1, <1>3, <1>8, <1>9, <1>10 DEF Settled

\* An activation settles its scope.
LEMMA ActivationSettles ==
  ASSUME NEW d, Good(d), IssuersHeld(d), NEW scope \in Scope, NEW edition \in DOMAIN Editions[scope],
         Compatible(d, scope, edition)
  PROVE  LET e == Activated(d, scope, edition)
         IN /\ Good(e) /\ IssuersHeld(e) /\ Leaves(d, e) /\ Widens(scope, d, e)
            /\ Settled(e, scope, edition)
<1> DEFINE once == Integrate(d, scope, edition)
<1>1. ASSUME NEW f, Good(f), IssuersHeld(f), Compatible(f, scope, edition)
      PROVE  LET e == Integrate(f, scope, edition)
             IN Good(e) /\ Keeps(e, scope, edition) /\ Leaves(f, e) /\ Widens(scope, f, e)
  <2>1. PICK after : RunOf(after, f, scope, edition)
    BY IntegrationIsRun
  <2>2. Integrate(f, scope, edition) = after[Len(Editions[scope][edition])]
        /\ Len(Editions[scope][edition]) \in 0..Len(Editions[scope][edition])
    BY <2>1 DEF RunOf
  <2> QED BY <1>1, <2>1, <2>2, RunKeeps
<1>2. Good(once) /\ Keeps(once, scope, edition) /\ Leaves(d, once) /\ Widens(scope, d, once)
  BY <1>1
<1>3. PICK f : f = once
  OBVIOUS
<1>4. PICK e : e = Integrate(f, scope, edition)
  OBVIOUS
<1>5. Compatible(f, scope, edition)
  BY <1>2, <1>3, HeldIsCompatible DEF Keeps
<1>6. Good(e) /\ Keeps(e, scope, edition) /\ Leaves(f, e) /\ Widens(scope, f, e)
  BY <1>1, <1>2, <1>3, <1>4, <1>5 DEF Keeps
<1>7. Activated(d, scope, edition) = e
  BY <1>3, <1>4 DEF Activated
<1>8. Leaves(d, e) /\ Widens(scope, d, e)
  BY <1>2, <1>3, <1>6, LeavesTwice, WidensTwice
<1>9. Settled(e, scope, edition)
  <2>1. CASE scope \in DOMAIN Holdings
    BY <1>7, <2>1, HoldingsSettle
  <2>2. CASE scope \in DOMAIN Returns
    BY <1>2, <1>3, <1>4, <1>5, <2>2, ReturnsSettle DEF Keeps
  <2>3. CASE scope \in DOMAIN Issuers
    BY <1>2, <1>3, <1>4, <1>5, <2>3, IssuersSettle DEF Keeps
  <2> QED BY <2>1, <2>2, <2>3 DEF Scope
<1> QED BY <1>6, <1>7, <1>8, <1>9 DEF Keeps

(* What leaves a settled scope settled. *)

\* What another scope adds reads and writes nothing of this one.
Elsewhere(other, s) ==
  CASE other \in DOMAIN Holdings -> s \in DOMAIN Returns \/ (s \in DOMAIN Holdings /\ Space[s].security # Space[other].security)
    [] other \in DOMAIN Issuers -> s \notin DOMAIN Issuers
    [] OTHER -> TRUE

LEMMA StuckIsStuck ==
  ASSUME NEW d, NEW scope, NEW h, Stuck(d, scope, h)
  PROVE  SecurityOf(d, scope, h) = [resolution |-> Resolution(IF h.security THEN "AMBIGUOUS" ELSE "NON_SECURITY", {}),
                                    writes |-> {}]
<1> DEFINE found == {Identify(d, c[1], c[2], c[3], "SECURITY") : c \in Candidates(scope, h)}
<1>1. UNION {f.ids : f \in found} = IdsOf(d, scope, h)
  BY DEF IdsOf, Found
<1>2. (\E f \in found : f.status = "AMBIGUOUS") <=> \E c \in Candidates(scope, h) : Found(d, c).status = "AMBIGUOUS"
  BY DEF Found
<1> QED BY <1>1, <1>2 DEF SecurityOf, Stuck

\* No other manager gives an identifier of this one's name space.
LEMMA OwnSpaceIsApart ==
  ASSUME NEW other \in Scope, NEW s \in DOMAIN Holdings, Elsewhere(other, s), NEW member
  PROVE  Apart(other, <<"PROVIDER_SOURCE_ID", Space[s].security, member>>)
<1> DEFINE c == <<"PROVIDER_SOURCE_ID", Space[s].security, member>>
<1>1. c[1] = "PROVIDER_SOURCE_ID" /\ c[2] = Space[s].security
  OBVIOUS
<1> HIDE DEF c
<1> SUFFICES ASSUME NEW i, MayName(other, i), Names(i, c), KindOf(i.entity) = "SECURITY"
             PROVE  FALSE
  BY DEF Apart, c
<1>2. i.scheme = "PROVIDER_SOURCE_ID" /\ i.space = Space[s].security
  BY <1>1 DEF Names
<1>3. other \in DOMAIN Holdings /\ i.space = Space[other].security
  BY <1>2 DEF MayName
<1> QED BY <1>2, <1>3, ScopeAssumption DEF Elsewhere

LEMMA SecurityStays ==
  ASSUME NEW other \in Scope, NEW d, NEW e, Good(d), Good(e), Widens(other, d, e), NEW s \in DOMAIN Holdings,
         Elsewhere(other, s), NEW h, Placed(d, s, h)
  PROVE  SecurityOf(e, s, h) = SecurityOf(d, s, h)
<1>1. CASE ~h.security
  BY <1>1 DEF SecurityOf
<1>2. CASE Stuck(d, s, h)
  <2>1. Stuck(e, s, h)
    BY <1>2, StuckStays
  <2> QED BY <1>2, <2>1, StuckIsStuck
<1>3. CASE Identity(s, h) = {}
  <2>1. ASSUME NEW c \in Candidates(s, h)
        PROVE  Found(e, c) = Found(d, c)
    <3>1. c = <<"PROVIDER_SOURCE_ID", Space[s].security, h.member>>
      BY <1>3, Unidentified
    <3>2. Apart(other, c)
      BY <3>1, OwnSpaceIsApart
    <3> QED BY <3>2, FoundStays
  <2> QED BY <2>1, SecuritySame
<1>4. CASE \A c \in Candidates(s, h) : Covered(d, c)
  <2>1. \A c \in Candidates(s, h) : Found(e, c) = Found(d, c)
    BY <1>4, FoundStays
  <2> QED BY <2>1, SecuritySame
<1> QED BY <1>1, <1>2, <1>3, <1>4 DEF Placed

\* Returns change nothing that issuers read or write over.
LEMMA IssuersStay ==
  ASSUME NEW other \in DOMAIN Returns, NEW d, NEW e, Good(d), Good(e), IssuersHeld(d), IssuersHeld(e), Widens(other, d, e),
         NEW s \in DOMAIN Issuers, NEW rows, \A n \in DOMAIN rows : IssuerDone(d, s, rows, n), CellsRight(d, rows)
  PROVE  (\A n \in DOMAIN rows : IssuerDone(e, s, rows, n)) /\ CellsRight(e, rows)
<1>1. SameNames(d, e) /\ e["securities"] = d["securities"] /\ e[RecordTable] = d[RecordTable]
  BY DEF Widens, SameNames, IssuerReads, RecordTable
<1>2. ASSUME NEW n \in DOMAIN rows
      PROVE  /\ IssuerDone(e, s, rows, n)
             /\ RecordSet(e, rows, n) = RecordSet(d, rows, n) /\ StatusSet(e, rows, n) = StatusSet(d, rows, n)
  <2>1. Listed(e, rows, n) = Listed(d, rows, n) /\ Known(e, rows[n]) = Known(d, rows[n])
    BY <1>1, SameNamesSame
  <2>2. IssuerDone(d, s, rows, n)
    OBVIOUS
  <2>3. Active(d, rows, n) /\ Known(d, rows[n]) = {} => Known(e, rows[n]) = {}
    BY <2>1
  <2> QED BY <2>1, <2>2, <2>3, IssuerDoneStays
<1>3. RecordSets(e, rows) = RecordSets(d, rows) /\ StatusSets(e, rows) = StatusSets(d, rows)
  BY <1>2 DEF RecordSets, StatusSets
<1> QED BY <1>1, <1>2, <1>3 DEF CellsRight

\* A settled scope stays so while scopes are activated that it does not read.
LEMMA SettledStays ==
  ASSUME NEW other \in Scope, NEW d, NEW e, Good(d), Good(e), IssuersHeld(d), IssuersHeld(e), Leaves(d, e),
         Widens(other, d, e), NEW s \in Scope, Elsewhere(other, s), NEW edition, Settled(d, s, edition)
  PROVE  Settled(e, s, edition)
<1> DEFINE rows == Editions[s][edition]
<1>1. Held(d, s, edition) /\ (\A n \in DOMAIN rows : RowDone(d, s, rows, n)) /\ (s \in DOMAIN Issuers => CellsRight(d, rows))
  BY DEF Settled
<1> SUFFICES /\ Held(e, s, edition) /\ (\A n \in DOMAIN rows : RowDone(e, s, rows, n))
             /\ s \in DOMAIN Issuers => CellsRight(e, rows)
  BY DEF Settled
<1> HIDE DEF rows
<1>2. Held(e, s, edition)
  BY <1>1 DEF Held, Widens, NameTables
<1>3. CASE s \in DOMAIN Returns
  <2>1. s \notin DOMAIN Holdings /\ s \notin DOMAIN Issuers
    BY <1>3, ScopeAssumption
  <2>2. ASSUME NEW n \in DOMAIN rows
        PROVE  RowDone(e, s, rows, n)
    <3>1. ReturnDone(d, s, rows[n], n)
      BY <1>1, <1>3 DEF RowDone
    <3>2. ReturnDone(e, s, rows[n], n)
      BY <3>1, ReturnDoneStays
    <3> QED BY <2>1, <3>2 DEF RowDone
  <2> QED BY <1>2, <2>1, <2>2
<1>4. CASE s \in DOMAIN Holdings
  <2>1. s \notin DOMAIN Returns /\ s \notin DOMAIN Issuers
    BY <1>4, ScopeAssumption
  <2>2. ASSUME NEW n \in DOMAIN rows
        PROVE  RowDone(e, s, rows, n)
    <3>1. HoldingDone(d, s, rows[n], n)
      BY <1>1, <1>4 DEF RowDone
    <3>2. Placed(d, s, rows[n])
      BY <3>1 DEF HoldingDone
    <3>3. SecurityOf(e, s, rows[n]) = SecurityOf(d, s, rows[n])
      BY <1>4, <3>2, SecurityStays
    <3>4. HoldingDone(e, s, rows[n], n)
      BY <3>1, <3>3, HoldingDoneStays
    <3> QED BY <2>1, <3>4 DEF RowDone
  <2> QED BY <1>2, <2>1, <2>2
<1>5. CASE s \in DOMAIN Issuers
  <2>1. s \notin DOMAIN Returns /\ s \notin DOMAIN Holdings
    BY <1>5, ScopeAssumption
  <2>2. other \in DOMAIN Returns
    BY <1>5, <2>1 DEF Elsewhere, Scope
  <2>3. \A n \in DOMAIN rows : IssuerDone(d, s, rows, n)
    BY <1>1, <1>5 DEF RowDone
  <2>4. (\A n \in DOMAIN rows : IssuerDone(e, s, rows, n)) /\ CellsRight(e, rows)
    BY <1>1, <1>5, <2>2, <2>3, IssuersStay
  <2>5. \A n \in DOMAIN rows : RowDone(e, s, rows, n)
    BY <2>1, <2>4 DEF RowDone
  <2> QED BY <1>2, <2>4, <2>5
<1> QED BY <1>3, <1>4, <1>5 DEF Scope

(* Activations are stable. *)

\* A batch of the rebuild gives securities no identifiers and issuers no records.
LEMMA UpdateNamed ==
  ASSUME NEW d, Database(d), Named(d), NEW W, \A w \in W : NativeWrite(w)
  PROVE  Database(InsertOrUpdate(d, W)) /\ Named(InsertOrUpdate(d, W))
<1> DEFINE M == "metric_observations"
           c == Replace(d, M, RowsFor(W, M))
           e == InsertOrUpdate(d, W)
           R == "external_security_issuer_records"
           I == "entity_identifiers"
<1>1. Database(e) /\ \A t \in DOMAIN d \ {M} : e[t] = d[t] \cup Fresh(t, d[t], RowsFor(W, t))
  BY UpdateFacts
<1>2. Database(c) /\ e = Insert(c, W)
  BY DEF InsertOrUpdate, Replace, Database
<1>3. Tables(e)
  BY <1>2, InsertBlocks
<1> HIDE DEF e, c
<1>4. \A t : \A row \in RowsFor(W, t) : RowFits(t, row)
  BY RowIsWrite DEF NativeWrite
<1>5. \A t, old, new : Fresh(t, old, new) \subseteq new
  BY DEF Fresh
<1>6. {R, I, "canonical_entities"} \subseteq DOMAIN d \ {M}
  BY KeysOfNames DEF Database, NameTables, IssuerReads
<1>7. \A id : Kind(d, id) \subseteq Kind(e, id)
  BY <1>1, <1>6 DEF Kind
<1>8. ASSUME NEW i \in e[I], KindOf(i.entity) = "SECURITY"
      PROVE  Undisputed(i) /\ "SECURITY" \in Kind(e, i.entity)
  <2>1. i \in d[I] \/ RowFits(I, i)
    BY <1>1, <1>4, <1>5, <1>6
  <2>2. i \in d[I]
    BY <1>8, <2>1 DEF RowFits
  <2> QED BY <1>7, <1>8, <2>2 DEF Named
<1>9. ASSUME NEW r \in e[R]
      PROVE  r.record = <<"normalized", r.id>>
  <2>1. r \in d[R] \/ RowFits(R, r)
    BY <1>1, <1>4, <1>5, <1>6
  <2> QED BY <2>1 DEF RowFits, Named
<1> QED BY <1>1, <1>3, <1>8, <1>9 DEF Named, e

LEMMA RebuildNamed ==
  ASSUME NEW m \in Materials, NEW d, Database(d), Named(d)
  PROVE  Named(WrittenTo(d, m))
<1> DEFINE L == Len(m) + 1
           after == CHOOSE f : RebuildRun(f, d, m, L)
<1>1. L \in Nat
  BY MaterialAssumption
<1>2. WrittenTo(d, m) = after[L]
  BY DEF WrittenTo, RebuildRun
<1>3. RebuildRun(after, d, m, L)
  BY <1>1, RebuildRuns
<1>4. \A n \in 1..L : \A w \in Batches[m][n] : NativeWrite(w)
  BY BatchesFit
<1> HIDE DEF after, L
<1>5. after[0] = d /\ \A n \in 1..L : after[n] = InsertOrUpdate(after[n - 1], Batches[m][n])
  BY <1>1, <1>3 DEF RebuildRun
<1> DEFINE N == {n \in 0..L : Database(after[n]) /\ Named(after[n])}
<1>6. 0 \in N
  BY <1>1, <1>5
<1>7. ASSUME NEW n \in 1..L, n - 1 \in N
      PROVE  n \in N
  BY <1>1, <1>4, <1>5, <1>7, UpdateNamed
<1> HIDE DEF N
<1>8. \A n \in 0..L : n \in N
  BY <1>1, <1>6, <1>7, UpTo
<1>9. L \in N
  BY <1>1, <1>8
<1> QED BY <1>2, <1>9 DEF N

\* Beside the store's invariant: who owns which names, and every scope that is
\* not stale is settled.
StableInv ==
  /\ StoreInv
  /\ Named(db)
  /\ \A s \in DOMAIN activated : activated[s] \in DOMAIN Editions[s]
  /\ \A s \in DOMAIN activated \ stale : Settled(db, s, activated[s])

LEMMA StableStore ==
  ASSUME StableInv
  PROVE  Good(db) /\ IssuersHeld(db) /\ DOMAIN activated \subseteq Scope
BY DEF StableInv, StoreInv, StoreTypeOK, Good, Database

LEMMA InitStable ==
  ASSUME Init
  PROVE  StableInv
<1>1. StoreInv
  BY InitStore
<1>2. Named(Empty)
  <2>1. Tables(Empty)
    BY DEF Tables, Empty
  <2>2. Empty["entity_identifiers"] = {} /\ Empty["external_security_issuer_records"] = {}
    BY KeysOfNames DEF Empty, NameTables, IssuerReads
  <2> QED BY <2>1, <2>2 DEF Named
<1>3. db = Empty /\ DOMAIN activated = {}
  BY DEF Init
<1> QED BY <1>1, <1>2, <1>3 DEF StableInv

LEMMA NotReader ==
  ASSUME NEW scope \in Scope, NEW s \in DOMAIN activated, s \in Scope, s \notin ReadersOf(scope)
  PROVE  Elsewhere(scope, s)
<1>1. CASE scope \in DOMAIN Holdings
  BY <1>1 DEF ReadersOf, Elsewhere, Scope
<1>2. CASE scope \in DOMAIN Issuers
  BY <1>2, ScopeAssumption DEF ReadersOf, Elsewhere, Scope
<1>3. CASE scope \in DOMAIN Returns
  BY <1>3, ScopeAssumption DEF Elsewhere
<1> QED BY <1>1, <1>2, <1>3 DEF Scope

LEMMA ActivateStable ==
  ASSUME StableInv, NEW scope \in Scope, NEW edition \in DOMAIN Editions[scope], Activate(scope, edition)
  PROVE  StableInv'
<1>1. StoreInv'
  BY ActivateStep DEF StableInv
<1>2. /\ Compatible(db, scope, edition) /\ db' = Activated(db, scope, edition)
      /\ activated' = [s \in DOMAIN activated \cup {scope} |-> IF s = scope THEN edition ELSE activated[s]]
      /\ stale' = IF db' = db THEN stale \ {scope} ELSE (stale \cup ReadersOf(scope)) \ {scope}
  BY DEF Activate
<1>3. Good(db) /\ IssuersHeld(db) /\ DOMAIN activated \subseteq Scope
  BY StableStore
<1>4. /\ Good(db') /\ IssuersHeld(db') /\ Leaves(db, db') /\ Widens(scope, db, db')
      /\ Settled(db', scope, edition)
  BY <1>2, <1>3, ActivationSettles
<1>5. ASSUME NEW s \in DOMAIN activated'
      PROVE  activated'[s] \in DOMAIN Editions[s]
  BY <1>2 DEF StableInv
<1>6. ASSUME NEW s \in DOMAIN activated' \ stale'
      PROVE  Settled(db', s, activated'[s])
  <2>1. CASE s = scope
    BY <1>2, <1>4, <2>1
  <2>2. CASE s # scope
    <3>1. s \in DOMAIN activated \ stale /\ activated'[s] = activated[s]
      BY <1>2, <1>6, <2>2
    <3>2. Settled(db, s, activated[s]) /\ s \in Scope
      BY <1>3, <3>1 DEF StableInv
    <3>3. CASE db' = db
      BY <3>1, <3>2, <3>3
    <3>4. CASE db' # db
      <4>1. s \notin ReadersOf(scope)
        BY <1>2, <1>6, <2>2, <3>4
      <4>2. Elsewhere(scope, s)
        BY <3>1, <3>2, <4>1, NotReader
      <4> QED BY <1>3, <1>4, <3>1, <3>2, <4>2, SettledStays
    <3> QED BY <3>3, <3>4
  <2> QED BY <2>1, <2>2
<1>7. Named(db')
  BY <1>4 DEF Good
<1>8. /\ Named(db)'
      /\ (\A s \in DOMAIN activated : activated[s] \in DOMAIN Editions[s])'
      /\ (\A s \in DOMAIN activated \ stale : Settled(db, s, activated[s]))'
  BY <1>5, <1>6, <1>7
<1> QED BY <1>1, <1>8 DEF StableInv

LEMMA CommitStable ==
  ASSUME StableInv, canonical = "STAGED", CommitRebuild(WrittenTo(db, material))
  PROVE  StableInv'
<1> DEFINE rebuilt == WrittenTo(db, material)
<1>1. StoreInv'
  BY CommitStep DEF StableInv
<1>2. material \in Materials /\ Database(db) /\ Named(db)
  BY StableStore DEF StableInv, StoreInv, StoreTypeOK, Good
<1>3. Named(rebuilt)
  BY <1>2, RebuildNamed
<1> HIDE DEF rebuilt
<1>4. db' = rebuilt /\ activated' = activated /\ stale' = IF rebuilt = db THEN stale ELSE DOMAIN activated
  BY DEF CommitRebuild, rebuilt
<1>5. Named(db)'
  BY <1>3, <1>4
<1>6. (\A s \in DOMAIN activated : activated[s] \in DOMAIN Editions[s])'
  BY <1>4 DEF StableInv
<1>7. ASSUME NEW s \in DOMAIN activated' \ stale'
      PROVE  Settled(db', s, activated'[s])
  <2>1. rebuilt = db
    BY <1>4, <1>7
  <2> QED BY <1>4, <1>7, <2>1 DEF StableInv
<1>8. (\A s \in DOMAIN activated \ stale : Settled(db, s, activated[s]))'
  BY <1>7
<1> QED BY <1>1, <1>5, <1>6, <1>8 DEF StableInv

LEMMA NextStable ==
  ASSUME StableInv, [Next]_vars
  PROVE  StableInv'
<1>1. StoreInv'
  BY NextStore DEF StableInv
<1>2. ASSUME UNCHANGED <<db, activated, stale>>
      PROVE  StableInv'
  BY <1>1, <1>2 DEF StableInv
<1>3. CASE BeginRebuild
  BY <1>2, <1>3 DEF BeginRebuild
<1>4. ASSUME Abandon PROVE StableInv'
  BY <1>2, <1>4 DEF Abandon
<1>5. CASE EndRebuild
  BY <1>4, <1>5, CommitStable DEF EndRebuild
<1>6. CASE FailRebuild
  BY <1>4, <1>6 DEF FailRebuild
<1>7. CASE Upgrade
  BY <1>2, <1>7 DEF Upgrade
<1>8. CASE \E scope \in Scope : \E edition \in DOMAIN Editions[scope] : Activate(scope, edition)
  BY <1>8, ActivateStable
<1>9. CASE UNCHANGED vars
  BY <1>2, <1>9 DEF vars
<1> QED BY <1>3, <1>5, <1>6, <1>7, <1>8, <1>9 DEF Next

\* Every scope that is not stale is settled, for any workbooks and scopes.
THEOREM StableInvariance == Spec => []StableInv
<1>1. Init => StableInv
  BY InitStable
<1>2. StableInv /\ [Next]_vars => StableInv'
  BY NextStable
<1> QED BY <1>1, <1>2, PTL DEF Spec

\* A scope that is active, and whose sources nothing has written for since it
\* was activated, is a fixpoint of its integration: activating it again changes
\* no table, whatever rebuilds, crashes and other activations came in between
\* (scripts/activate_kodex_scope.py:58-59).
THEOREM ActivationIsStableCorrect == Spec => []ActivationIsStable
<1>1. ASSUME StableInv, NEW scope \in DOMAIN activated \ stale
      PROVE  Integrate(db, scope, activated[scope]) = db
  <2>1. Good(db) /\ IssuersHeld(db) /\ scope \in Scope
    BY <1>1, StableStore
  <2>2. activated[scope] \in DOMAIN Editions[scope] /\ Settled(db, scope, activated[scope])
    BY <1>1 DEF StableInv
  <2> QED BY <2>1, <2>2, SettledStops
<1>2. StableInv => ActivationIsStable
  BY <1>1 DEF ActivationIsStable
<1> QED BY <1>2, StableInvariance, PTL
================================================================================
