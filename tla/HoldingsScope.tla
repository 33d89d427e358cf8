----------------------------- MODULE HoldingsScope -----------------------------
(***************************************************************************)
(* The READY scope of an unfinished holdings snapshot (kodex_scope.py,     *)
(* tiger_scope.py, ishares_scope.py): the products whose portfolio is      *)
(* complete and supported, their rows, and the manifest that refers to the *)
(* files they come from.  Building writes three files one after another;   *)
(* ScopeAccepted is what loading a scope accepts.  One operator crawls and *)
(* builds, so a crawl and a build do not overlap.                          *)
(***************************************************************************)
EXTENDS HoldingsCrawl

VARIABLES
  scope,        \* the scope files: eligibility, selection, manifest (none or one)
  draft         \* the scope as the running build computes it

scopeVars == <<vars, scope, draft>>

NoScope == [eligibility |-> {}, selection |-> {}, manifest |-> {}]

Securities(p) == {row \in Rows(p) : row.status # "NON_SECURITY"}

\* Fault: eligibility without comparing the counts.
KodexEligibleUncounted(x) ==
  /\ x.status = "SUCCESS"
  /\ \A row \in Securities(x.product) : row.item.form = "digits" /\ row.item.weight # "none"

\* _classify_product: every row must be cash or a share with a six-digit code
\* and a weight, and the rows on file as many as the crawl counted.
KodexEligible(x) ==
  /\ x.status = "SUCCESS"
  /\ Cardinality(Rows(x.product)) = x.count
  /\ \A row \in Securities(x.product) : row.item.form = "digits" /\ row.item.weight # "none"

TigerEligible(x) ==
  /\ x.status = "SUCCESS"
  /\ Cardinality(Rows(x.product)) = x.count
  /\ \A row \in Securities(x.product) : row.status = "SECURITY" /\ row.item.form = "digits"

ISharesEligible(x) ==
  /\ x.status = "SUCCESS"
  /\ Cardinality(Rows(x.product)) = x.count
  /\ \A row \in Securities(x.product) : row.status = "SECURITY"
  /\ Securities(x.product) # {}

Eligible(x) ==
  CASE provider = "kodex" -> KodexEligible(x)
    [] provider = "tiger" -> TigerEligible(x)
    [] provider = "ishares" -> ISharesEligible(x)

EligibleProducts == {x.product : x \in {y \in disk["results"] : Eligible(y)}}
SelectedRows == {row \in disk["holdings"] : row.product \in EligibleProducts}
SelectedIds == {Id(row) : row \in SelectedRows}
SelectionOf(rows) == {[id |-> Id(row), canonical |-> row.status # "NON_SECURITY"] : row \in rows}

LinksOf(ids) == {link \in disk["links"] : link.id \in ids}
RecordOf(r) == {record \in disk["records"] : record.response = r}

\* The files a scope refers to by checksum; only KODEX's refers to the manifest.
References == [f \in {"holdings", "links", "records"} |-> disk[f]]
Parent == IF Resumable THEN manifest ELSE NoManifest

\* Conditions under which building raises before it writes.
Sourced ==
  /\ manifest.status = "PARTIAL"
  /\ \A f \in DOMAIN References : disk[f] # {}
  /\ \A link \in LinksOf(SelectedIds) :
       /\ RecordOf(link.response) # {}
       /\ link.response \in disk["raw"]

\* The manifest's entries must be the files.
Covered ==
  /\ Cardinality(disk["results"]) = Cardinality(Entry(manifest, "catalog"))
  /\ \A f \in DOMAIN References : f \in Registered(manifest) /\ Entry(manifest, f) = disk[f]

WriteEligibility ==
  /\ at = "idle" /\ ~dirty
  /\ Sourced
  /\ LET eligibility == {[product |-> x.product, ready |-> Eligible(x)] : x \in disk["results"]}
         selection == SelectionOf(SelectedRows)
     IN /\ draft' = [eligibility |-> eligibility, selection |-> selection,
                     manifest |-> {[parent |-> Parent, files |-> References,
                                    eligibility |-> eligibility, selection |-> selection]}]
        /\ scope' = [scope EXCEPT !.eligibility = eligibility]
  /\ at' = "selection"
  /\ UNCHANGED <<provider, made, disk, manifest, memory, dirty, known, crashes, crawlVars>>

BuildKodexScope == provider = "kodex" /\ Covered /\ WriteEligibility
BuildTigerScope == provider = "tiger" /\ WriteEligibility
BuildISharesScope == provider = "ishares" /\ WriteEligibility

WriteSelection ==
  /\ at = "selection"
  /\ scope' = [scope EXCEPT !.selection = draft.selection]
  /\ at' = "scope"
  /\ UNCHANGED <<provider, made, disk, manifest, memory, dirty, known, crashes, crawlVars, draft>>

Built ==
  /\ at = "scope"
  /\ at' = "idle"
  /\ draft' = NoScope
  /\ UNCHANGED <<provider, made, disk, manifest, memory, dirty, known, crashes, crawlVars>>

\* iShares refuses, only now, portfolios of more than one date.
OneDate == Cardinality({row.day : row \in SelectedRows}) = 1

WriteScope ==
  /\ Built
  /\ provider = "ishares" => OneDate
  /\ scope' = [scope EXCEPT !.manifest = draft.manifest]

RefuseDates ==
  /\ Built
  /\ provider = "ishares" /\ ~OneDate
  /\ UNCHANGED scope

ScopeIds == {item.id : item \in scope.selection}
ValidEvidence(id) == {link \in disk["links"] :
  link.id = id /\ \E record \in RecordOf(link.response) : record.quality = "VALID"}

\* Fault: accepted without reading the manifest of the crawl.
KodexAcceptedUnread ==
  /\ \E m \in scope.manifest :
       /\ m.files = References
       /\ m.eligibility = scope.eligibility /\ m.selection = scope.selection
  /\ \A id \in ScopeIds : ValidEvidence(id) # {}

\* load_trusted_scope: the files it refers to are unchanged, and every selected
\* holding has VALID evidence.
KodexAccepted ==
  /\ \E m \in scope.manifest :
       /\ m.parent = manifest
       /\ m.files = References
       /\ m.eligibility = scope.eligibility /\ m.selection = scope.selection
  /\ \A id \in ScopeIds : ValidEvidence(id) # {}

\* load_trusted_tiger_scope and load_trusted_ishares_scope.
TigerAccepted ==
  /\ \E m \in scope.manifest :
       /\ m.files = References
       /\ m.eligibility = scope.eligibility /\ m.selection = scope.selection
  /\ \A id \in ScopeIds : ValidEvidence(id) # {}

ISharesAccepted ==
  /\ \E m \in scope.manifest :
       /\ m.files = References
       /\ m.eligibility = scope.eligibility /\ m.selection = scope.selection
  /\ \A id \in ScopeIds : ValidEvidence(id) # {}

ScopeAccepted ==
  CASE provider = "kodex" -> KodexAccepted
    [] provider = "tiger" -> TigerAccepted
    [] provider = "ishares" -> ISharesAccepted

ScopeInit ==
  /\ CrawlInit
  /\ scope = NoScope
  /\ draft = NoScope

Crawling == (Begin \/ Process \/ Register) /\ UNCHANGED <<scope, draft>>
Build == BuildKodexScope \/ BuildTigerScope \/ BuildISharesScope
           \/ WriteSelection \/ WriteScope \/ RefuseDates
Dies == Killed /\ draft' = NoScope /\ UNCHANGED scope

ScopeNext == Crawling \/ Build \/ Dies

ScopeSpec == ScopeInit /\ [][ScopeNext]_scopeVars

-----------------------------------------------------------------------------

\* A READY snapshot holds, for every row, a VALID record whose response
\* contains that very row.
ReadyIsBacked ==
  manifest.status = "READY" =>
    \A row \in disk["holdings"] :
      \E link \in disk["links"] :
        /\ link.id = Id(row)
        /\ row \in RowsOf(link.response)
        /\ \E record \in RecordOf(link.response) : record.quality = "VALID"

\* A READY snapshot registers its rows as they are on file, even if a process
\* was killed between the two writes and the product was not crawled again.
ReadyRowsAreRegistered ==
  manifest.status = "READY" => Entry(manifest, "holdings") = disk["holdings"]

\* docs/external_data_crawler.md:56-58 and 131: resuming validates what is on
\* file, and the manifest has the checksum of every normalized output.
ReadyIsRegistered ==
  manifest.status = "READY" => \A f \in {"records", "holdings", "links"} : Entry(manifest, f) = disk[f]

\* The count of a result is of the positions read, before rows that are the
\* same are merged: with a response that lists a position twice, rows of two
\* responses can come to the number of one.
CountedOnce(p) == \A r \in Offers[p] : Len(RowsRead[provider][r]) = Cardinality(RowsOf(r))

\* A scope that loading accepts gives whole portfolios: none of the rows it
\* selects is of an unsupported kind, and those of a product are all rows of
\* one response, if no response of the product lists a position twice.
AcceptedScopeIsWhole ==
  ScopeAccepted =>
    LET rows == {row \in disk["holdings"] : Id(row) \in ScopeIds}
    IN /\ \A row \in rows : row.status \in {"SECURITY", "NON_SECURITY"}
       /\ \A row \in rows :
            CountedOnce(row.product) =>
              \E r \in Offers[row.product] :
                RowsOf(r) = {other \in rows : other.product = row.product}

\* A scope of KODEX is not accepted while its snapshot is being crawled again,
\* and one that is accepted selects what building it anew would select.
AcceptedScopeIsCurrent ==
  ScopeAccepted =>
    /\ manifest.status = "PARTIAL"
    /\ scope.selection = SelectionOf(SelectedRows)

\* A READY snapshot is immutable, and so is a finished one of TIGER or iShares.
Final(m) == m.status = "READY" \/ (~Resumable /\ m.status = "PARTIAL")
FinishedIsFinal ==
  [][Final(manifest) => /\ UNCHANGED <<manifest, disk>>
                        /\ manifest.status = "READY" => UNCHANGED scope]_scopeVars

\* What a snapshot has registered stays registered: no record, raw response,
\* row or evidence link is lost by a crash, a resumption or a second pass.
RegisteredIsKept ==
  [][\A f \in {"raw", "records", "holdings", "links"} :
       Entry(manifest, f) \subseteq Entry(manifest', f) /\ Entry(manifest', f) \subseteq disk'[f]]_scopeVars
=============================================================================
