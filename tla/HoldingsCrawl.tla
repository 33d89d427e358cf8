----------------------------- MODULE HoldingsCrawl -----------------------------
(***************************************************************************)
(* The production crawls of ETF holdings: kodex_production.py, which is    *)
(* resumable and may end READY, and tiger_production.py and                *)
(* ishares_production.py, which run once and end PARTIAL.  Each crawls the *)
(* matched products of its catalog in order, acquiring every product       *)
(* (providers/*.py, contract.py), and a second time those that succeeded.  *)
(***************************************************************************)
EXTENDS SnapshotWorkspace, HoldingsSources

CONSTANTS
  Order,        \* the products, in the order of their source identifiers
  Catalogs,     \* manager -> sets of products its catalog may list
  MaxStreak,    \* MAX_CONSECUTIVE_FETCH_FAILURES
  Tolerated     \* percentage of failed fetches a READY snapshot may have (5)

\* The commands of scripts/crawl_external.py for holdings.
ASSUME ProviderAssumption == Provider \subseteq Manager

\* A catalog lists products of the order.
ASSUME CatalogAssumption ==
  /\ Order \in Seq(Product) /\ Range(Order) = Product
  /\ \A s \in Provider : \A listed \in Catalogs[s] : listed \subseteq Product

VARIABLES
  todo,         \* products the running pass has still to visit
  got,          \* results of the running pass
  firstGot,     \* results of the first pass, while the second runs
  response,     \* what the last fetch of the current product returned
  streak,       \* fetch failures in a row
  pass,         \* 1 or 2
  verify,       \* not --no-rerun-check
  first         \* holdings after the first pass: rows and registered checksum

crawlVars == <<todo, got, firstGot, response, streak, pass, verify, first>>
vars == <<workspaceVars, crawlVars>>

Resumable == provider = "kodex"

RowsOf(r) == Range(RowsRead[provider][r])

\* The products crawled; TIGER's and iShares' catalogs hold no others.
Matched == IF Resumable THEN KodexResolved(disk["catalog"]) ELSE disk["catalog"]
Unresolved ==
  [product : disk["catalog"] \ Matched, status : {"IDENTITY_UNRESOLVED"}, count : {0}]

ResultOf(results, p) == {x \in results : x.product = p}
Rows(p) == {row \in disk["holdings"] : row.product = p}

\* The process ends and with it what it held.
Forget ==
  /\ todo' = {} /\ got' = {} /\ firstGot' = {} /\ response' = "none" /\ streak' = 0
  /\ pass' = 1 /\ verify' = TRUE /\ first' = [ids |-> {}, sum |-> {}]

\* validate_holdings and _merge_semantic_rows: rows of one identifier with
\* different content, in the response or on file.
Clashing ==
  LET rows == disk["holdings"] \cup RowsOf(response)
  IN \E one, other \in rows : Id(one) = Id(other) /\ one # other

\* The commands kodex-holdings, tiger-holdings and ishares-holdings.  Only the
\* first resumes; a READY snapshot is printed and left alone.
Commanded ==
  /\ ~dirty
  /\ verify' \in BOOLEAN
  /\ pass' = 1
  /\ UNCHANGED <<todo, got, firstGot, response, streak, first>>

BeginKodex == provider = "kodex" /\ Commanded /\ (Create("discover") \/ Resume("discover"))
BeginTiger == provider = "tiger" /\ Commanded /\ Create("discover")
BeginIShares == provider = "ishares" /\ Commanded /\ Create("discover")
Begin == BeginKodex \/ BeginTiger \/ BeginIShares

Discovering == at = "discover" /\ ~dirty

\* KodexCatalogAdapter.discover reuses a registered catalog, or pages through
\* the product list.
DiscoverAgain ==
  /\ Discovering
  /\ Resumable /\ "catalog" \in Registered(memory)
  /\ at' = "pass"
  /\ UNCHANGED <<provider, made, disk, manifest, memory, dirty, known, crashes, crawlVars>>

DiscoverKodex ==
  /\ Discovering
  /\ provider = "kodex" /\ "catalog" \notin Registered(memory)
  /\ \E listed \in Catalogs[provider] : Store("catalog", listed, "pass")
  /\ UNCHANGED <<known, crawlVars>>

DiscoverTiger ==
  /\ Discovering
  /\ provider = "tiger"
  /\ \E listed \in Catalogs[provider] : Store("catalog", TigerReviewed(listed), "pass")
  /\ UNCHANGED <<known, crawlVars>>

DiscoverIShares ==
  /\ Discovering
  /\ provider = "ishares"
  /\ \E listed \in Catalogs[provider] : ISharesAudited(listed) /\ Store("catalog", listed, "pass")
  /\ UNCHANGED <<known, crawlVars>>

Discover == DiscoverAgain \/ DiscoverKodex \/ DiscoverTiger \/ DiscoverIShares

\* A page of the catalog cannot be fetched or contradicts the others, or the
\* workbook does not identify a reviewed product.
DiscoverFails ==
  /\ Discovering
  /\ \/ provider = "kodex" /\ "catalog" \notin Registered(memory)
     \/ provider = "ishares" /\ \E listed \in Catalogs[provider] : ~ISharesAudited(listed)
  /\ Abort
  /\ Forget

\* The results of an interrupted pass are taken up; without any, products
\* with rows on file count as crawled in the first one.
Inferred ==
  {[product |-> p, status |-> "SUCCESS", count |-> Cardinality(Rows(p))] :
     p \in {q \in Matched : Rows(q) # {}}}

\* The products of the pass: in the second, those that succeeded in the first.
Scheduled ==
  IF pass = 1 THEN Matched
  ELSE {p \in Matched : \E x \in ResultOf(firstGot, p) : x.status = "SUCCESS"}

PassFile == IF pass = 1 THEN "pass1" ELSE "pass2"

Starting ==
  /\ at = "pass" /\ ~dirty
  /\ todo' = Scheduled
  /\ streak' = 0
  /\ UNCHANGED <<known, firstGot, response, pass, verify, first>>

\* _load_pass_results, _infer_successful_results.
StartKodexPass ==
  /\ Starting
  /\ Resumable
  /\ IF pass = 1 /\ disk["pass1"] = {}
       THEN got' = Inferred /\ Store("pass1", Inferred, "next")
       ELSE /\ got' = disk[PassFile]
            /\ at' = "next"
            /\ UNCHANGED <<provider, made, disk, manifest, memory, dirty, crashes>>

StartPass ==
  /\ Starting
  /\ ~Resumable
  /\ got' = {}
  /\ at' = "next"
  /\ UNCHANGED <<provider, made, disk, manifest, memory, dirty, crashes>>

\* The first of the products still to visit.
Waiting == {i \in DOMAIN Order : Order[i] \in todo}
Current == Order[CHOOSE i \in Waiting : \A j \in Waiting : i <= j]

Visiting == at = "next" /\ ~dirty /\ todo # {} /\ streak < MaxStreak
\* Fault: a failed fetch is not tried again.
DoneForGood(p) == ResultOf(got, p) # {}

Done(p) == \E x \in ResultOf(got, p) : x.status # "FETCH_FAILED"

Skip ==
  /\ Visiting
  /\ Done(Current)
  /\ todo' = todo \ {Current}
  /\ UNCHANGED <<workspaceVars, got, firstGot, response, streak, pass, verify, first>>

\* KODEX saves the results after each product, replacing an earlier one.
ConcludeSaving(status, count) ==
  LET x == [product |-> Current, status |-> status, count |-> count]
      results == (got \ ResultOf(got, Current)) \cup {x}
  IN /\ got' = results
     /\ streak' = IF status = "FETCH_FAILED" THEN streak + 1 ELSE 0
     /\ Store(PassFile, results, "next")

ConcludeInMemory(status, count) ==
  /\ got' = got \cup {[product |-> Current, status |-> status, count |-> count]}
  /\ at' = "next"
  /\ UNCHANGED <<streak, provider, made, disk, manifest, memory, dirty, crashes>>

Conclude(status, count) ==
  /\ IF Resumable THEN ConcludeSaving(status, count) ELSE ConcludeInMemory(status, count)
  /\ todo' = todo \ {Current}
  /\ UNCHANGED <<known, firstGot, response, pass, verify, first>>

FetchFails ==
  /\ Visiting
  /\ ~Done(Current)
  /\ Conclude("FETCH_FAILED", 0)

Fetch ==
  /\ Visiting
  /\ ~Done(Current)
  /\ \E r \in Offers[Current] :
       /\ response' = r
       /\ PreserveRaw(r, "record")
  /\ UNCHANGED <<todo, got, firstGot, streak, pass, verify, first>>

Quality ==
  CASE provider = "kodex" -> KodexQuality(response)
    [] provider = "tiger" -> TigerQuality(response)
    [] provider = "ishares" -> ISharesQuality(response)

WriteRecord ==
  /\ at = "record" /\ ~dirty
  /\ LET records == SourceRecords([response |-> response, quality |-> Quality])
     IN known' = records /\ Store("records", records, "rows")
  /\ UNCHANGED crawlVars

\* What acquire and the pass make of a response once its record is written.
KodexVerdict ==
  IF ~KodexFormed(response) THEN "PARSE_FAILED"
  ELSE IF KodexLate(response) THEN "CUTOFF_UNVERIFIED"
  ELSE IF ~KodexNormal(response) THEN "PARSE_FAILED"
  ELSE IF RowsOf(response) = {} THEN "NO_HOLDINGS"
  ELSE IF Clashing THEN "PARSE_FAILED" ELSE "SUCCESS"

\* TIGER and iShares do not catch the contract error of write_holdings.
TigerVerdict ==
  IF TigerQuality(response) # "VALID" THEN "PARSE_FAILED"
  ELSE IF Clashing THEN "ABORTED" ELSE "SUCCESS"

ISharesVerdict ==
  IF ISharesQuality(response) # "VALID" THEN "PARSE_FAILED"
  ELSE IF Clashing THEN "ABORTED" ELSE "SUCCESS"

Verdict ==
  CASE provider = "kodex" -> KodexVerdict
    [] provider = "tiger" -> TigerVerdict
    [] provider = "ishares" -> ISharesVerdict

Reject ==
  /\ at = "rows" /\ ~dirty
  /\ Verdict \notin {"SUCCESS", "ABORTED"}
  /\ Conclude(Verdict, 0)

ClashAborts ==
  /\ at = "rows" /\ ~dirty
  /\ Verdict = "ABORTED"
  /\ Abort
  /\ Forget

\* Fault: the rows of the response replace those on file.
WriteRowsAnew ==
  /\ at = "rows" /\ ~dirty
  /\ Verdict = "SUCCESS"
  /\ Store("holdings", RowsOf(response), "links")
  /\ UNCHANGED <<known, crawlVars>>

\* write_holdings: the rows are merged into the file, then the evidence links.
WriteRows ==
  /\ at = "rows" /\ ~dirty
  /\ Verdict = "SUCCESS"
  /\ Store("holdings", disk["holdings"] \cup RowsOf(response), "links")
  /\ UNCHANGED <<known, crawlVars>>

\* Fault: every row on file is linked to the response.
EvidenceOfMerged(r) == {[id |-> Id(row), response |-> r] : row \in disk["holdings"]}

Evidence(r) == {[id |-> Id(row), response |-> r] : row \in RowsOf(r)}

WriteLinks ==
  /\ at = "links" /\ ~dirty
  /\ Store("links", disk["links"] \cup Evidence(response), "result")
  /\ UNCHANGED <<known, crawlVars>>

Succeed ==
  /\ at = "result" /\ ~dirty
  /\ Conclude("SUCCESS", Len(RowsRead[provider][response]))

PassEnds == at = "next" /\ ~dirty /\ (todo = {} \/ streak >= MaxStreak)
Complete == Cardinality(got) = Cardinality(Scheduled)

\* TIGER and iShares write the results of a pass when it has ended.
WritePassResults ==
  /\ PassEnds
  /\ ~Resumable
  /\ Store(PassFile, got, "summary")
  /\ UNCHANGED <<known, crawlVars>>

SecondOrFirst ==
  IF pass = 1 THEN got
  ELSE got \cup {x \in firstGot : ResultOf(got, x.product) = {}}

\* _write_results: of both passes, the second's where there is one.
WriteResults ==
  /\ IF Resumable THEN PassEnds ELSE at = "summary" /\ ~dirty
  /\ Store("results", SecondOrFirst \cup (IF Resumable THEN Unresolved ELSE {}), "measure")
  /\ UNCHANGED <<known, crawlVars>>

\* _holding_state: KODEX reads the checksum in the manifest and, when there is
\* one, the identifiers on file; the others read the file.
Holdings ==
  IF Resumable
    THEN [ids |-> IF "holdings" \in Registered(memory) THEN {Id(row) : row \in disk["holdings"]} ELSE {},
          sum |-> Entry(memory, "holdings")]
    ELSE [ids |-> {Id(row) : row \in disk["holdings"]}, sum |-> disk["holdings"]]

SecondPassDue == pass = 1 /\ verify /\ (Resumable => Complete)

Measure ==
  /\ at = "measure" /\ ~dirty
  /\ first' = IF pass = 1 THEN Holdings ELSE first
  /\ IF SecondPassDue
       THEN pass' = 2 /\ firstGot' = got /\ at' = "pass"
       ELSE at' = "end" /\ UNCHANGED <<pass, firstGot>>
  /\ UNCHANGED <<provider, made, disk, manifest, memory, dirty, known, crashes,
                 todo, got, response, streak, verify>>

\* Fault: the check of the registered rows alone.
RegisteredRowsValid ==
  {Id(row) : row \in Entry(memory, "holdings")} \subseteq {link.id : link \in disk["links"]}

\* _validate_provenance: links join rows on file and known records, and every row has one.
ProvenanceValid ==
  LET linked == {link.id : link \in disk["links"]}
  IN /\ Holdings.ids # {}
     /\ linked = Holdings.ids
     /\ \A link \in disk["links"] : \E record \in known : record.response = link.response

Count(status) == Cardinality({x \in disk["results"] : x.status = status})

\* _ready_policy (the cutoff check holds for every row that was accepted).
Ready ==
  /\ Cardinality({x \in disk["results"] : x.status # "IDENTITY_UNRESOLVED"}) = Cardinality(Matched)
  /\ Count("SUCCESS") > 0
  /\ Count("PARSE_FAILED") = 0
  /\ Count("CUTOFF_UNVERIFIED") = 0
  /\ 100 * Count("FETCH_FAILED") <= Tolerated * Cardinality(Matched)
  /\ pass = 2 /\ Complete
  /\ first = Holdings
  /\ ProvenanceValid

Ending(status) ==
  /\ at = "end" /\ ~dirty
  /\ Finalize(status, "idle")
  /\ Forget

FinishKodex == provider = "kodex" /\ Ending(IF Ready THEN "READY" ELSE "PARTIAL")
FinishTiger == provider = "tiger" /\ Ending("PARTIAL")
FinishIShares == provider = "ishares" /\ Ending("PARTIAL")
Finish == FinishKodex \/ FinishTiger \/ FinishIShares

Acquire == Skip \/ FetchFails \/ Fetch \/ WriteRecord \/ Reject \/ ClashAborts
             \/ WriteRows \/ WriteLinks \/ Succeed
Process == Discover \/ DiscoverFails \/ StartKodexPass \/ StartPass \/ Acquire \/ WritePassResults
             \/ WriteResults \/ Measure \/ Finish
Register == WriteManifest /\ UNCHANGED crawlVars
Killed == Crash /\ Forget

CrawlInit ==
  /\ WorkspaceInit
  /\ todo = {} /\ got = {} /\ firstGot = {} /\ response = "none" /\ streak = 0
  /\ pass = 1 /\ verify = TRUE /\ first = [ids |-> {}, sum |-> {}]

CrawlNext == Begin \/ Process \/ Register \/ Killed

CrawlSpec == CrawlInit /\ [][CrawlNext]_vars

\* The operator runs the command again, with the second pass, until it ends
\* READY, and a source that is asked again and again answers.
CrawlFairness ==
  /\ SF_vars(Begin /\ verify')
  /\ WF_vars(Process \/ Register)
  /\ SF_vars(Discover)
  /\ SF_vars(Fetch)

FairCrawlSpec == CrawlSpec /\ CrawlFairness

-----------------------------------------------------------------------------

\* What keeps a KODEX snapshot from READY for good: it has no manifest, a
\* product's response was rejected, no product has rows, or a row on file has
\* no evidence and its product is not crawled any more.
Hopeless ==
  \/ made /\ manifest.status = "absent" /\ at = "idle"
  \/ \E f \in {"pass1", "pass2"} : \E x \in disk[f] : x.status \in {"PARSE_FAILED", "CUTOFF_UNVERIFIED"}
  \/ \E f \in {"pass1", "pass2"} : \A p \in Matched : \E x \in ResultOf(disk[f], p) : x.status = "NO_HOLDINGS"
  \/ \E row \in disk["holdings"] :
       /\ \A link \in disk["links"] : link.id # Id(row)
       /\ \E x \in ResultOf(disk["pass1"], row.product) : x.status # "FETCH_FAILED"

\* However often it is killed, a KODEX crawl that is resumed ends READY, unless
\* what it met was rejected or lost its evidence for good.
CrawlEndsReady == made /\ Resumable ~> [](manifest.status = "READY") \/ []Hopeless
=============================================================================
