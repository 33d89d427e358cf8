-------------------------- MODULE HoldingsScope_proofs --------------------------
(***************************************************************************)
(* Theorems about crawls and scopes, for all products, responses and       *)
(* catalogs, any number of kills and any tolerance.  The invariant follows *)
(* what a process holds in memory, what it has registered and what is on   *)
(* disk; every step is one of a few kinds of write (StepKinds).            *)
(***************************************************************************)
EXTENDS HoldingsScope, FiniteSetTheorems, WellFoundedInduction, TLAPS

Resting == {"idle", "selection", "scope"}
Working == {"discover", "pass", "next", "record", "rows", "result", "summary", "measure", "end"}
Kept == {"raw", "records", "holdings", "links"}

Busy == at \notin Resting
Open == Busy \/ dirty

IsManifest(m) == m = [status |-> m.status, entries |-> m.entries]

\* Where a process stands, and that nothing is under way on a finished snapshot.
StageInv ==
  /\ IsManifest(manifest) /\ IsManifest(memory)
  /\ disk = [f \in File |-> disk[f]]
  /\ ~made => manifest = NoManifest
  /\ Open => made /\ ~Final(manifest)
  /\ Busy => provider \in Manager /\ memory.status = "BUILDING"
  /\ Busy /\ ~dirty => memory = manifest
  /\ at \in {"selection", "scope"} => ~dirty /\ manifest.status = "PARTIAL"

\* What is registered is on disk, and the process registers no less.
KeptInv ==
  /\ \A f \in Kept :
       /\ Entry(manifest, f) \subseteq disk[f]
       /\ Open => Entry(manifest, f) \subseteq Entry(memory, f) /\ Entry(memory, f) \subseteq disk[f]
  /\ Busy => Entry(memory, "records") \subseteq known /\ known \subseteq disk["records"]

QualityOf(r) ==
  CASE provider = "kodex" -> KodexQuality(r)
    [] provider = "tiger" -> TigerQuality(r)
    [] provider = "ishares" -> ISharesQuality(r)

\* A link is written after the rows of its response have been registered.
EvidenceInv ==
  /\ \A one, other \in disk["holdings"] : Id(one) = Id(other) => one = other
  /\ \A record \in disk["records"] : record.quality = QualityOf(record.response)
  /\ \A link \in disk["links"] :
       /\ RowsOf(link.response) \subseteq Entry(manifest, "holdings")
       /\ \E row \in RowsOf(link.response) : link.id = Id(row)
       /\ QualityOf(link.response) = "VALID"
  /\ at = "links" => RowsOf(response) \subseteq Entry(memory, "holdings") /\ QualityOf(response) = "VALID"

Backed ==
  \A row \in disk["holdings"] :
    \E link \in disk["links"] :
      /\ link.id = Id(row)
      /\ row \in RowsOf(link.response)
      /\ \E record \in RecordOf(link.response) : record.quality = "VALID"

ReadyInv ==
  /\ manifest.status = "READY" => Backed /\ Entry(manifest, "holdings") = disk["holdings"]
  /\ dirty /\ memory.status = "READY" => Backed /\ Entry(memory, "holdings") = disk["holdings"]

CrawlInv == StageInv /\ KeptInv /\ EvidenceInv /\ ReadyInv

--------------------------------------------------------------------------------
(* The kinds of steps. *)

\* The process goes on without a write.
Moves ==
  /\ Busy /\ ~dirty /\ at' \in Working
  /\ at' # "measure" /\ (at' = "end" => at = "measure")
  /\ UNCHANGED <<provider, made, disk, manifest, memory, dirty, known>>

\* It writes a file of which nothing has to be kept.
Saves ==
  /\ Busy /\ ~dirty /\ at' \in Working \ {"end"}
  /\ \E f, lines :
       /\ f \in File \ Kept
       /\ disk' = [disk EXCEPT ![f] = lines] /\ memory' = With(memory, f, lines)
       /\ at' = "measure" => f = "results"
  /\ dirty' = TRUE
  /\ UNCHANGED <<provider, made, manifest, known>>

\* The operator builds a scope.
Builds ==
  /\ ~Busy /\ ~dirty /\ at' \in Resting
  /\ at' \in {"selection", "scope"} => manifest.status = "PARTIAL"
  /\ manifest.status = "READY" => UNCHANGED scope
  /\ UNCHANGED <<provider, made, disk, manifest, memory, dirty, known>>

\* The process ends without a manifest of its own.
Stops ==
  /\ Busy /\ ~dirty /\ at' = "idle" /\ memory' = NoManifest
  /\ UNCHANGED <<provider, made, disk, manifest, dirty>>

Ends ==
  /\ at = "end" /\ ~dirty /\ at' = "idle"
  /\ \E status \in {"READY", "PARTIAL"} :
       /\ memory' = [memory EXCEPT !.status = status]
       /\ status = "READY" => provider = "kodex" /\ ProvenanceValid
  /\ dirty' = TRUE
  /\ UNCHANGED <<provider, made, disk, manifest, known>>

Kind ==
  \/ (Begin \/ Moves \/ Saves \/ Stops \/ Ends \/ Fetch \/ WriteRecord \/ WriteRows \/ WriteLinks \/ Register)
        /\ UNCHANGED scope
  \/ Builds
  \/ Killed /\ UNCHANGED scope

LEMMA ConcludeKinds ==
  ASSUME NEW status, NEW count, Busy, ~dirty, Conclude(status, count)
  PROVE  Moves \/ Saves
<1>1. CASE Resumable
  <2> DEFINE results == (got \ ResultOf(got, Current))
                          \cup {[product |-> Current, status |-> status, count |-> count]}
  <2>1. Store(PassFile, results, "next") /\ known' = known
    BY <1>1 DEF Conclude, ConcludeSaving
  <2>2. PassFile \in File \ Kept
    BY DEF PassFile, File, Kept
  <2> QED BY <2>1, <2>2 DEF Store, Saves, Working
<1>2. CASE ~Resumable
  BY <1>2 DEF Conclude, ConcludeInMemory, Moves, Working
<1> QED BY <1>1, <1>2

LEMMA DiscoverKinds ==
  ASSUME Discover
  PROVE  Moves \/ Saves
<1>0. Busy /\ ~dirty
  BY DEF Discover, DiscoverAgain, DiscoverKodex, DiscoverTiger, DiscoverIShares, Discovering, Busy, Resting
<1>1. CASE DiscoverAgain
  BY <1>0, <1>1 DEF DiscoverAgain, Moves, Working
<1>2. CASE DiscoverKodex \/ DiscoverTiger \/ DiscoverIShares
  <2>1. \E lines : Store("catalog", lines, "pass") /\ known' = known
    BY <1>2 DEF DiscoverKodex, DiscoverTiger, DiscoverIShares
  <2>2. "catalog" \in File \ Kept
    BY DEF File, Kept
  <2> QED BY <1>0, <2>1, <2>2 DEF Store, Saves, Working
<1> QED BY <1>1, <1>2 DEF Discover

LEMMA PassKinds ==
  ASSUME StartKodexPass \/ StartPass \/ WritePassResults \/ WriteResults \/ Measure
  PROVE  Moves \/ Saves
<1>0. Busy /\ ~dirty
  BY DEF StartKodexPass, StartPass, Starting, WritePassResults, WriteResults, PassEnds, Measure, Busy, Resting
<1>1. CASE StartKodexPass
  <2>1. CASE pass = 1 /\ disk["pass1"] = {}
    <3>1. Store("pass1", Inferred, "next") /\ known' = known
      BY <1>1, <2>1 DEF StartKodexPass, Starting
    <3>2. "pass1" \in File \ Kept
      BY DEF File, Kept
    <3> QED BY <1>0, <3>1, <3>2 DEF Store, Saves, Working
  <2>2. CASE ~(pass = 1 /\ disk["pass1"] = {})
    BY <1>0, <1>1, <2>2 DEF StartKodexPass, Starting, Moves, Working
  <2> QED BY <2>1, <2>2
<1>2. CASE StartPass
  BY <1>0, <1>2 DEF StartPass, Starting, Moves, Working
<1>3. CASE WritePassResults
  <2>1. Store(PassFile, got, "summary") /\ known' = known
    BY <1>3 DEF WritePassResults
  <2>2. PassFile \in File \ Kept
    BY DEF PassFile, File, Kept
  <2> QED BY <1>0, <2>1, <2>2 DEF Store, Saves, Working
<1>4. CASE WriteResults
  <2>1. \E lines : Store("results", lines, "measure") /\ known' = known
    BY <1>4 DEF WriteResults
  <2>2. "results" \in File \ Kept
    BY DEF File, Kept
  <2> QED BY <1>0, <2>1, <2>2 DEF Store, Saves, Working
<1>5. CASE Measure
  BY <1>0, <1>5 DEF Measure, Moves, Working
<1> QED BY <1>1, <1>2, <1>3, <1>4, <1>5

\* Every step is of one of the kinds.
LEMMA StepKinds ==
  ASSUME StageInv, ScopeNext
  PROVE  Kind
<1>1. CASE Begin /\ UNCHANGED <<scope, draft>>
  BY <1>1 DEF Kind
<1>2. CASE Process /\ UNCHANGED <<scope, draft>>
  <2>1. CASE Discover
    BY <1>2, <2>1, DiscoverKinds DEF Kind
  <2>2. CASE DiscoverFails \/ ClashAborts
    <3>1. Busy /\ ~dirty /\ Abort
      BY <2>2 DEF DiscoverFails, ClashAborts, Discovering, Busy, Resting
    <3> QED BY <1>2, <3>1 DEF Abort, Stops, Kind
  <2>3. CASE StartKodexPass \/ StartPass \/ WritePassResults \/ WriteResults \/ Measure
    BY <1>2, <2>3, PassKinds DEF Kind
  <2>4. CASE Skip
    <3>1. Moves
      BY <2>4 DEF Skip, Visiting, workspaceVars, Moves, Busy, Resting, Working
    <3> QED BY <1>2, <3>1 DEF Kind
  <2>5. CASE FetchFails \/ Reject \/ Succeed
    <3>1. Busy /\ ~dirty
      BY <2>5 DEF FetchFails, Reject, Succeed, Visiting, Busy, Resting
    <3>2. \E status, count : Conclude(status, count)
      BY <2>5 DEF FetchFails, Reject, Succeed
    <3>3. Moves \/ Saves
      BY <3>1, <3>2, ConcludeKinds
    <3> QED BY <1>2, <3>3 DEF Kind
  <2>6. CASE Fetch \/ WriteRecord \/ WriteRows \/ WriteLinks
    BY <1>2, <2>6 DEF Kind
  <2>7. CASE Finish
    <3>1. /\ at = "end" /\ ~dirty /\ at' = "idle" /\ dirty' = TRUE
          /\ UNCHANGED <<provider, made, disk, manifest, known>>
      BY <2>7 DEF Finish, FinishKodex, FinishTiger, FinishIShares, Ending, Finalize
    <3>2. CASE FinishKodex
      <4>1. \E status \in {"READY", "PARTIAL"} : Finalize(status, "idle") /\ (status = "READY" => Ready)
        BY <3>2 DEF FinishKodex, Ending
      <4>2. Ends
        BY <3>1, <3>2, <4>1 DEF Ends, FinishKodex, Finalize, Ready
      <4> QED BY <1>2, <4>2 DEF Kind
    <3>3. CASE FinishTiger \/ FinishIShares
      <4>1. memory' = [memory EXCEPT !.status = "PARTIAL"]
        BY <3>3 DEF FinishTiger, FinishIShares, Ending, Finalize
      <4>2. Ends
        BY <3>1, <4>1 DEF Ends
      <4> QED BY <1>2, <4>2 DEF Kind
    <3> QED BY <2>7, <3>2, <3>3 DEF Finish
  <2> QED BY <1>2, <2>1, <2>2, <2>3, <2>4, <2>5, <2>6, <2>7 DEF Process, Acquire
<1>3. CASE Register /\ UNCHANGED <<scope, draft>>
  BY <1>3 DEF Kind
<1>4. CASE BuildKodexScope \/ BuildTigerScope \/ BuildISharesScope
  <2>1. WriteEligibility
    BY <1>4 DEF BuildKodexScope, BuildTigerScope, BuildISharesScope
  <2>2. Builds
    BY <2>1 DEF WriteEligibility, Sourced, Builds, Busy, Resting
  <2> QED BY <2>2 DEF Kind
<1>5. CASE WriteSelection
  BY <1>5 DEF WriteSelection, Builds, Busy, Resting, StageInv, Kind
<1>6. CASE WriteScope \/ RefuseDates
  BY <1>6 DEF WriteScope, RefuseDates, Built, Builds, Busy, Resting, StageInv, Kind
<1>7. CASE Dies
  BY <1>7 DEF Dies, Kind
<1> QED BY <1>1, <1>2, <1>3, <1>4, <1>5, <1>6, <1>7 DEF ScopeNext, Crawling, Build
--------------------------------------------------------------------------------
(* The manifest and the disk. *)

\* Registering one file leaves the others as they are registered.
LEMMA WithEntry ==
  ASSUME NEW m, IsManifest(m), NEW f, NEW lines
  PROVE  /\ IsManifest(With(m, f, lines))
         /\ With(m, f, lines).status = m.status
         /\ \A g : Entry(With(m, f, lines), g) = IF g = f THEN lines ELSE Entry(m, g)
<1>1. With(m, f, lines) =
        [status |-> m.status,
         entries |-> [g \in DOMAIN m.entries \cup {f} |-> IF g = f THEN lines ELSE m.entries[g]]]
  BY DEF With, IsManifest, Registered
<1> QED BY <1>1 DEF IsManifest, Entry, Registered

\* What the three writes of an acquisition and the others have in common.
Writes ==
  /\ Busy /\ ~dirty
  /\ at' \in Working \cup {"links"}
  /\ \E f, lines, registered :
       f \in File /\ disk' = [disk EXCEPT ![f] = lines] /\ memory' = With(memory, f, registered)
  /\ dirty' = TRUE
  /\ UNCHANGED <<provider, made, manifest>>

LEMMA SavesWrite ==
  ASSUME Saves
  PROVE  Writes
BY DEF Saves, Writes

LEMMA AcquisitionWrites ==
  ASSUME Fetch \/ WriteRecord \/ WriteRows \/ WriteLinks
  PROVE  Writes
<1>1. CASE Fetch
  BY <1>1 DEF Fetch, Visiting, PreserveRaw, Writes, Busy, Resting, Working, File
<1>2. CASE WriteRecord
  BY <1>2 DEF WriteRecord, Store, Writes, Busy, Resting, Working, File
<1>3. CASE WriteRows
  BY <1>3 DEF WriteRows, Store, Writes, Busy, Resting, Working, File
<1>4. CASE WriteLinks
  BY <1>4 DEF WriteLinks, Store, Writes, Busy, Resting, Working, File
<1> QED BY <1>1, <1>2, <1>3, <1>4

LEMMA BeginKinds ==
  ASSUME Begin
  PROVE  /\ at = "idle" /\ ~dirty
         /\ at' = "discover" /\ dirty' = TRUE /\ provider \in Manager
         /\ UNCHANGED <<provider, disk, manifest>>
         /\ \/ ~made /\ made' = TRUE /\ memory' = [status |-> "BUILDING", entries |-> << >>] /\ known' = {}
            \/ /\ provider = "kodex" /\ manifest.status \in {"BUILDING", "PARTIAL"} /\ UNCHANGED made
               /\ memory' = [manifest EXCEPT !.status = "BUILDING"]
               /\ known' = IF "records" \in Registered(manifest) THEN disk["records"] ELSE {}
<1>1. CASE Create("discover") /\ Commanded /\ provider \in Manager
  BY <1>1 DEF Create, Commanded, NoManifest
<1>2. CASE Resume("discover") /\ Commanded /\ provider = "kodex"
  BY <1>2 DEF Resume, Commanded, Manager
<1> QED BY <1>1, <1>2 DEF Begin, BeginKodex, BeginTiger, BeginIShares, Manager

LEMMA StageIsKept ==
  ASSUME StageInv, Kind
  PROVE  StageInv'
<1>1. CASE Begin
  <2>1. CASE ~made /\ made' = TRUE /\ memory' = [status |-> "BUILDING", entries |-> << >>]
    BY <1>1, <2>1, BeginKinds DEF StageInv, IsManifest, NoManifest, Open, Busy, Resting, Final, Resumable
  <2>2. CASE /\ provider = "kodex" /\ manifest.status \in {"BUILDING", "PARTIAL"} /\ UNCHANGED made
             /\ memory' = [manifest EXCEPT !.status = "BUILDING"]
    <3>1. made
      BY <2>2 DEF StageInv, NoManifest
    <3>2. IsManifest(memory') /\ memory'.status = "BUILDING"
      BY <2>2 DEF StageInv, IsManifest
    <3> QED BY <1>1, <2>2, <3>1, <3>2, BeginKinds DEF StageInv, IsManifest, Open, Busy, Resting, Final, Resumable
  <2> QED BY <1>1, <2>1, <2>2, BeginKinds
<1>2. CASE Moves
  BY <1>2 DEF Moves, StageInv, IsManifest, Open, Busy, Resting, Working, Final, Resumable
<1>3. CASE Writes
  <2>1. PICK f, lines, registered :
          f \in File /\ disk' = [disk EXCEPT ![f] = lines] /\ memory' = With(memory, f, registered)
    BY <1>3 DEF Writes
  <2>2. IsManifest(memory') /\ memory'.status = memory.status
    BY <2>1, WithEntry DEF StageInv
  <2> QED BY <1>3, <2>1, <2>2 DEF Writes, StageInv, IsManifest, Open, Busy, Resting, Working, Final, Resumable
<1>4. CASE Stops
  BY <1>4 DEF Stops, StageInv, IsManifest, NoManifest, Open, Busy, Resting, Final, Resumable
<1>5. CASE Ends
  <2>1. PICK status \in {"READY", "PARTIAL"} : memory' = [memory EXCEPT !.status = status]
    BY <1>5 DEF Ends
  <2>2. IsManifest(memory')
    BY <2>1 DEF StageInv, IsManifest
  <2> QED BY <1>5, <2>2 DEF Ends, StageInv, IsManifest, Open, Busy, Resting, Final, Resumable
<1>6. CASE Register
  BY <1>6 DEF Register, WriteManifest, StageInv, IsManifest, Open, Busy, Resting, Final, Resumable, crawlVars
<1>7. CASE Builds
  BY <1>7 DEF Builds, StageInv, IsManifest, Open, Busy, Resting, Final, Resumable
<1>8. CASE Killed
  BY <1>8 DEF Killed, Crash, StageInv, IsManifest, NoManifest, Open, Busy, Resting, Final, Resumable
<1> QED BY <1>1, <1>2, <1>3, <1>4, <1>5, <1>6, <1>7, <1>8, SavesWrite, AcquisitionWrites DEF Kind
\* A kept file only grows by what it registers.
LEMMA AcquisitionGrows ==
  ASSUME StageInv, KeptInv, Fetch \/ WriteRecord \/ WriteRows \/ WriteLinks
  PROVE  \E f, lines, registered :
           /\ f \in Kept
           /\ disk' = [disk EXCEPT ![f] = lines] /\ memory' = With(memory, f, registered)
           /\ Entry(memory, f) \subseteq registered /\ registered \subseteq lines
           /\ IF f = "records" THEN known' = lines ELSE known' = known
<1>0. Busy
  BY DEF Fetch, Visiting, WriteRecord, WriteRows, WriteLinks, Busy, Resting
<1>1. CASE Fetch
  <2>1. PICK r : PreserveRaw(r, "record")
    BY <1>1 DEF Fetch
  <2>2. /\ disk' = [disk EXCEPT !["raw"] = disk["raw"] \cup {r}]
        /\ memory' = With(memory, "raw", Entry(memory, "raw") \cup {r})
        /\ known' = known
    BY <2>1 DEF PreserveRaw, StageInv
  <2>3. Entry(memory, "raw") \subseteq disk["raw"]
    BY <1>0 DEF KeptInv, Kept, Open
  <2> DEFINE lines == disk["raw"] \cup {r}
             registered == Entry(memory, "raw") \cup {r}
  <2>4. /\ disk' = [disk EXCEPT !["raw"] = lines] /\ memory' = With(memory, "raw", registered)
        /\ Entry(memory, "raw") \subseteq registered /\ registered \subseteq lines
    BY <2>2, <2>3
  <2>5. "raw" \in Kept /\ "raw" # "records"
    BY DEF Kept
  <2> HIDE DEF lines, registered
  <2> QED BY <2>2, <2>4, <2>5
<1>2. CASE WriteRecord
  <2>1. PICK records :
          /\ records = SourceRecords([response |-> response, quality |-> Quality])
          /\ known' = records /\ Store("records", records, "rows")
    BY <1>2 DEF WriteRecord
  <2>2. known \subseteq records
    BY <2>1 DEF SourceRecords
  <2>3. Entry(memory, "records") \subseteq known
    BY <1>0 DEF KeptInv
  <2>4. /\ disk' = [disk EXCEPT !["records"] = records] /\ memory' = With(memory, "records", records)
        /\ Entry(memory, "records") \subseteq records /\ known' = records
    BY <2>1, <2>2, <2>3 DEF Store
  <2>5. "records" \in Kept
    BY DEF Kept
  <2> QED BY <2>4, <2>5
<1>3. CASE WriteRows
  <2>1. Entry(memory, "holdings") \subseteq disk["holdings"]
    BY <1>0 DEF KeptInv, Kept, Open
  <2> DEFINE lines == disk["holdings"] \cup RowsOf(response)
  <2>2. /\ disk' = [disk EXCEPT !["holdings"] = lines] /\ memory' = With(memory, "holdings", lines)
        /\ Entry(memory, "holdings") \subseteq lines /\ known' = known
    BY <1>3, <2>1 DEF WriteRows, Store
  <2>3. "holdings" \in Kept /\ "holdings" # "records"
    BY DEF Kept
  <2> HIDE DEF lines
  <2> QED BY <2>2, <2>3
<1>4. CASE WriteLinks
  <2>1. Entry(memory, "links") \subseteq disk["links"]
    BY <1>0 DEF KeptInv, Kept, Open
  <2> DEFINE lines == disk["links"] \cup Evidence(response)
  <2>2. /\ disk' = [disk EXCEPT !["links"] = lines] /\ memory' = With(memory, "links", lines)
        /\ Entry(memory, "links") \subseteq lines /\ known' = known
    BY <1>4, <2>1 DEF WriteLinks, Store
  <2>3. "links" \in Kept /\ "links" # "records"
    BY DEF Kept
  <2> HIDE DEF lines
  <2> QED BY <2>2, <2>3
<1> QED BY <1>1, <1>2, <1>3, <1>4

LEMMA KeptIsKept ==
  ASSUME StageInv, KeptInv, Kind
  PROVE  KeptInv'
<1>1. CASE Begin
  <2>1. CASE ~made /\ memory' = [status |-> "BUILDING", entries |-> << >>] /\ known' = {}
    BY <1>1, <2>1, BeginKinds DEF KeptInv, Entry, Registered, StageInv, NoManifest, Kept
  <2>2. CASE /\ memory' = [manifest EXCEPT !.status = "BUILDING"]
             /\ known' = IF "records" \in Registered(manifest) THEN disk["records"] ELSE {}
    <3>1. memory' = [status |-> "BUILDING", entries |-> manifest.entries]
      BY <2>2 DEF StageInv, IsManifest
    <3>2. \A f : Entry(memory', f) = Entry(manifest, f)
      BY <3>1 DEF Entry, Registered
    <3>3. Entry(memory', "records") \subseteq known' /\ known' \subseteq disk["records"]
      BY <2>2, <3>2 DEF Entry, KeptInv, Kept
    <3> QED BY <1>1, <3>2, <3>3, BeginKinds DEF KeptInv, Entry
  <2> QED BY <1>1, <2>1, <2>2, BeginKinds
<1>2. CASE Moves
  BY <1>2 DEF Moves, KeptInv, Open, Entry
<1>3. CASE Saves
  <2>1. PICK f, lines :
          f \in File \ Kept /\ disk' = [disk EXCEPT ![f] = lines] /\ memory' = With(memory, f, lines)
    BY <1>3 DEF Saves
  <2>2. \A g \in Kept : disk'[g] = disk[g] /\ Entry(memory', g) = Entry(memory, g)
    BY <2>1, WithEntry DEF StageInv
  <2>3. Open /\ Busy /\ known' = known /\ manifest' = manifest
    BY <1>3 DEF Saves, Open
  <2> QED BY <2>2, <2>3 DEF KeptInv, Entry, Kept
<1>4. CASE Fetch \/ WriteRecord \/ WriteRows \/ WriteLinks
  <2>1. PICK f, lines, registered :
           /\ f \in Kept
           /\ disk' = [disk EXCEPT ![f] = lines] /\ memory' = With(memory, f, registered)
           /\ Entry(memory, f) \subseteq registered /\ registered \subseteq lines
           /\ IF f = "records" THEN known' = lines ELSE known' = known
    BY <1>4, AcquisitionGrows
  <2>2. Busy /\ Open /\ memory = manifest /\ manifest' = manifest
    BY <1>4, AcquisitionWrites DEF Writes, StageInv, Open
  <2>3. disk' = [g \in File |-> IF g = f THEN lines ELSE disk[g]]
    BY <2>1 DEF StageInv
  <2>4. \A g \in Kept :
          /\ disk'[g] = IF g = f THEN lines ELSE disk[g]
          /\ Entry(memory', g) = IF g = f THEN registered ELSE Entry(memory, g)
    BY <2>1, <2>3, WithEntry DEF StageInv, Kept, File
  <2>5. \A g \in Kept :
          /\ Entry(manifest, g) \subseteq disk'[g]
          /\ Entry(manifest, g) \subseteq Entry(memory', g)
          /\ Entry(memory', g) \subseteq disk'[g]
    BY <2>1, <2>2, <2>4 DEF KeptInv
  <2>6. Entry(memory', "records") \subseteq known' /\ known' \subseteq disk'["records"]
    BY <2>1, <2>2, <2>4 DEF KeptInv, Kept
  <2> QED BY <2>2, <2>5, <2>6 DEF KeptInv, Entry
<1>5. CASE Stops
  BY <1>5 DEF Stops, KeptInv, Open, Busy, Resting, Entry
<1>6. CASE Ends
  <2>1. PICK status : memory' = [memory EXCEPT !.status = status]
    BY <1>6 DEF Ends
  <2>2. memory' = [status |-> status, entries |-> memory.entries]
    BY <2>1 DEF StageInv, IsManifest
  <2>3. \A f : Entry(memory', f) = Entry(memory, f)
    BY <2>2 DEF Entry, Registered
  <2>4. Open /\ ~Busy' /\ UNCHANGED <<disk, manifest>>
    BY <1>6 DEF Ends, Open, Busy, Resting
  <2> QED BY <2>3, <2>4 DEF KeptInv, Entry
<1>7. CASE Register
  <2>1. /\ Open /\ manifest' = memory
        /\ UNCHANGED <<disk, memory, known, at>>
    BY <1>7 DEF Register, WriteManifest, Open
  <2> QED BY <2>1 DEF KeptInv, Entry, Busy
<1>8. CASE Builds
  BY <1>8 DEF Builds, KeptInv, Open, Busy, Entry
<1>9. CASE Killed
  BY <1>9 DEF Killed, Crash, KeptInv, Open, Busy, Resting, Entry
<1> QED BY <1>1, <1>2, <1>3, <1>4, <1>5, <1>6, <1>7, <1>8, <1>9 DEF Kind
--------------------------------------------------------------------------------
(* Rows, links and records. *)

LEMMA VerdictIsValid ==
  ASSUME provider \in Manager, Verdict = "SUCCESS"
  PROVE  ~Clashing /\ QualityOf(response) = "VALID"
<1>1. CASE provider = "kodex"
  <2>1. KodexVerdict = "SUCCESS"
    BY <1>1 DEF Verdict
  <2>2. KodexFormed(response) /\ ~KodexLate(response) /\ ~Clashing
    BY <2>1 DEF KodexVerdict
  <2> QED BY <1>1, <2>2 DEF QualityOf, KodexQuality
<1>2. CASE provider = "tiger"
  <2>1. TigerVerdict = "SUCCESS"
    BY <1>2 DEF Verdict
  <2> QED BY <1>2, <2>1 DEF TigerVerdict, QualityOf
<1>3. CASE provider = "ishares"
  <2>1. ISharesVerdict = "SUCCESS"
    BY <1>3 DEF Verdict
  <2> QED BY <1>3, <2>1 DEF ISharesVerdict, QualityOf
<1> QED BY <1>1, <1>2, <1>3 DEF Manager

\* A step that touches none of the three files keeps what is known of them.
LEMMA EvidenceFrame ==
  ASSUME EvidenceInv, provider' = provider, at' # "links",
         \A f \in {"records", "holdings", "links"} : disk'[f] = disk[f],
         Entry(manifest, "holdings") \subseteq Entry(manifest', "holdings")
  PROVE  EvidenceInv'
BY DEF EvidenceInv, QualityOf, RowsOf, Entry, Id

LEMMA EvidenceIsKept ==
  ASSUME StageInv, KeptInv, EvidenceInv, Kind
  PROVE  EvidenceInv'
<1>1. CASE Begin \/ Moves \/ Stops \/ Ends \/ Builds \/ Killed
  <2>1. /\ provider' = provider /\ disk' = disk /\ manifest' = manifest
        /\ at' # "links"
    BY <1>1, BeginKinds DEF Moves, Stops, Ends, Builds, Killed, Crash, Working, Resting
  <2> QED BY <2>1, EvidenceFrame
<1>2. CASE Saves
  <2>1. PICK f, lines : f \in File \ Kept /\ disk' = [disk EXCEPT ![f] = lines]
    BY <1>2 DEF Saves
  <2>2. \A g \in {"records", "holdings", "links"} : disk'[g] = disk[g]
    BY <2>1 DEF StageInv, Kept, File
  <2>3. provider' = provider /\ manifest' = manifest /\ at' # "links"
    BY <1>2 DEF Saves, Working
  <2> QED BY <2>2, <2>3, EvidenceFrame
<1>3. CASE Register
  <2>1. /\ manifest' = memory /\ Entry(manifest, "holdings") \subseteq Entry(memory, "holdings")
        /\ UNCHANGED <<provider, disk, memory, at, response>>
    BY <1>3 DEF Register, WriteManifest, crawlVars, KeptInv, Open, Kept
  <2> QED BY <2>1 DEF EvidenceInv, QualityOf, RowsOf, Entry, Id
<1>4. CASE Fetch
  <2>1. PICK r : PreserveRaw(r, "record")
    BY <1>4 DEF Fetch
  <2>2. \A g \in {"records", "holdings", "links"} : disk'[g] = disk[g]
    BY <2>1 DEF PreserveRaw, StageInv, File
  <2>3. provider' = provider /\ manifest' = manifest /\ at' # "links"
    BY <2>1 DEF PreserveRaw
  <2> QED BY <2>2, <2>3, EvidenceFrame
<1>5. CASE WriteRecord
  <2>1. at' = "rows" /\ Busy /\ UNCHANGED <<provider, manifest>>
    BY <1>5 DEF WriteRecord, Store, Busy, Resting
  <2>2. /\ disk'["records"] = SourceRecords([response |-> response, quality |-> Quality])
        /\ disk'["holdings"] = disk["holdings"] /\ disk'["links"] = disk["links"]
    BY <1>5 DEF WriteRecord, Store, StageInv, File
  <2>3. Quality = QualityOf(response)
    BY DEF Quality, QualityOf
  <2>4. \A record \in known : record.quality = QualityOf(record.response)
    BY <2>1 DEF EvidenceInv, KeptInv
  <2>5. \A record \in disk'["records"] : record.quality = QualityOf(record.response)
    BY <2>2, <2>3, <2>4 DEF SourceRecords
  <2> QED BY <2>1, <2>2, <2>5 DEF EvidenceInv, QualityOf, RowsOf, Entry, Id
<1>6. CASE WriteRows
  <2>1. /\ at' = "links" /\ Busy /\ ~Clashing /\ QualityOf(response) = "VALID"
        /\ UNCHANGED <<provider, manifest, response>>
    <3>1. Busy
      BY <1>6 DEF WriteRows, Busy, Resting
    <3>2. provider \in Manager
      BY <3>1 DEF StageInv
    <3> QED BY <1>6, <3>1, <3>2, VerdictIsValid DEF WriteRows, Store, crawlVars
  <2>2. /\ disk'["holdings"] = disk["holdings"] \cup RowsOf(response)
        /\ disk'["records"] = disk["records"] /\ disk'["links"] = disk["links"]
    BY <1>6 DEF WriteRows, Store, StageInv, File
  <2>3. Entry(memory', "holdings") = disk["holdings"] \cup RowsOf(response)
    BY <1>6, WithEntry DEF WriteRows, Store, StageInv
  <2>4. \A one, other \in disk'["holdings"] : Id(one) = Id(other) => one = other
    BY <2>1, <2>2 DEF Clashing
  <2> QED BY <2>1, <2>2, <2>3, <2>4 DEF EvidenceInv, QualityOf, RowsOf, Entry, Id
<1>7. CASE WriteLinks
  <2>1. /\ at' = "result" /\ memory = manifest
        /\ UNCHANGED <<provider, manifest, response>>
    BY <1>7 DEF WriteLinks, Store, crawlVars, StageInv, Busy, Resting
  <2>2. /\ disk'["links"] = disk["links"] \cup Evidence(response)
        /\ disk'["records"] = disk["records"] /\ disk'["holdings"] = disk["holdings"]
    BY <1>7 DEF WriteLinks, Store, StageInv, File
  <2>3. RowsOf(response) \subseteq Entry(manifest, "holdings") /\ QualityOf(response) = "VALID"
    BY <1>7, <2>1 DEF WriteLinks, EvidenceInv
  <2>4. \A link \in disk'["links"] :
          /\ RowsOf(link.response) \subseteq Entry(manifest, "holdings")
          /\ \E row \in RowsOf(link.response) : link.id = Id(row)
          /\ QualityOf(link.response) = "VALID"
    BY <2>2, <2>3 DEF EvidenceInv, Evidence
  <2> QED BY <2>1, <2>2, <2>4 DEF EvidenceInv, QualityOf, RowsOf, Entry, Id
<1> QED BY <1>1, <1>2, <1>3, <1>4, <1>5, <1>6, <1>7 DEF Kind

\* What the READY policy checks is enough: every row on file is linked, a link
\* comes after the registration of its rows, and rows have one identifier each.
LEMMA ProvenanceBacks ==
  ASSUME StageInv, KeptInv, EvidenceInv, Busy, provider = "kodex", ProvenanceValid
  PROVE  Backed /\ Entry(memory, "holdings") = disk["holdings"]
<1>1. /\ {link.id : link \in disk["links"]} = {Id(row) : row \in disk["holdings"]}
      /\ \A link \in disk["links"] : \E record \in known : record.response = link.response
  BY DEF ProvenanceValid, Holdings, Resumable
<1>2. Entry(manifest, "holdings") \subseteq Entry(memory, "holdings")
      /\ Entry(memory, "holdings") \subseteq disk["holdings"]
  BY DEF KeptInv, Open, Kept
<1>3. ASSUME NEW row \in disk["holdings"]
      PROVE  /\ row \in Entry(manifest, "holdings")
             /\ \E link \in disk["links"] :
                  /\ link.id = Id(row)
                  /\ row \in RowsOf(link.response)
                  /\ \E record \in RecordOf(link.response) : record.quality = "VALID"
  <2>1. PICK link \in disk["links"] : link.id = Id(row)
    BY <1>1
  <2>2. PICK other \in RowsOf(link.response) : link.id = Id(other)
    BY DEF EvidenceInv
  <2>3. RowsOf(link.response) \subseteq Entry(manifest, "holdings") /\ QualityOf(link.response) = "VALID"
    BY DEF EvidenceInv
  <2>4. other \in disk["holdings"]
    BY <1>2, <2>2, <2>3
  <2>5. other = row
    BY <2>1, <2>2, <2>4 DEF EvidenceInv
  <2>6. PICK record \in known : record.response = link.response
    BY <1>1
  <2>7. record \in disk["records"] /\ record.quality = "VALID"
    BY <2>3, <2>6 DEF KeptInv, EvidenceInv
  <2> QED BY <2>1, <2>2, <2>3, <2>5, <2>6, <2>7 DEF RecordOf
<1> QED BY <1>2, <1>3 DEF Backed

LEMMA ReadyIsKept ==
  ASSUME CrawlInv, Kind
  PROVE  ReadyInv'
<1> USE DEF CrawlInv
<1>1. CASE Begin
  <2>1. CASE ~made /\ memory' = [status |-> "BUILDING", entries |-> << >>]
    BY <1>1, <2>1, BeginKinds DEF ReadyInv, StageInv, NoManifest
  <2>2. CASE /\ manifest.status \in {"BUILDING", "PARTIAL"}
             /\ memory' = [manifest EXCEPT !.status = "BUILDING"]
    <3>1. memory' = [status |-> "BUILDING", entries |-> manifest.entries]
      BY <2>2 DEF StageInv, IsManifest
    <3> QED BY <1>1, <2>2, <3>1, BeginKinds DEF ReadyInv
  <2> QED BY <1>1, <2>1, <2>2, BeginKinds
<1>2. CASE Moves \/ Stops
  <2>1. Open /\ ~dirty' /\ manifest' = manifest
    BY <1>2 DEF Moves, Stops, Open
  <2> QED BY <2>1 DEF ReadyInv, StageInv, Final
<1>3. CASE Writes
  <2>1. Open /\ manifest' = manifest
    BY <1>3 DEF Writes, Open
  <2>2. memory'.status = "BUILDING"
    BY <1>3, WithEntry DEF Writes, StageInv
  <2> QED BY <2>1, <2>2 DEF ReadyInv, StageInv, Final
<1>4. CASE Ends
  <2>1. Busy /\ Open /\ manifest' = manifest /\ UNCHANGED <<provider, disk>>
    BY <1>4 DEF Ends, Open, Busy, Resting
  <2>2. PICK status \in {"READY", "PARTIAL"} :
          /\ memory' = [memory EXCEPT !.status = status]
          /\ status = "READY" => provider = "kodex" /\ ProvenanceValid
    BY <1>4 DEF Ends
  <2>3. memory' = [status |-> status, entries |-> memory.entries]
    BY <2>2 DEF StageInv, IsManifest
  <2>4. Entry(memory', "holdings") = Entry(memory, "holdings")
    BY <2>3 DEF Entry, Registered
  <2>5. status = "READY" => Backed /\ Entry(memory, "holdings") = disk["holdings"]
    BY <2>1, <2>2, ProvenanceBacks
  <2>6. Backed' <=> Backed
    BY <2>1 DEF Backed, RowsOf, RecordOf, Id
  <2> QED BY <2>1, <2>3, <2>4, <2>5, <2>6 DEF ReadyInv, StageInv, Final, Entry
<1>5. CASE Register
  <2>1. dirty /\ manifest' = memory /\ ~dirty' /\ UNCHANGED <<provider, disk>>
    BY <1>5 DEF Register, WriteManifest
  <2>2. Backed' <=> Backed
    BY <2>1 DEF Backed, RowsOf, RecordOf, Id
  <2> QED BY <2>1, <2>2 DEF ReadyInv, Entry
<1>6. CASE Builds \/ Killed
  <2>1. ~dirty' /\ UNCHANGED <<manifest, provider, disk>>
    BY <1>6 DEF Builds, Killed, Crash
  <2>2. Backed' <=> Backed
    BY <2>1 DEF Backed, RowsOf, RecordOf, Id
  <2> QED BY <2>1, <2>2 DEF ReadyInv, Entry
<1> QED BY <1>1, <1>2, <1>3, <1>4, <1>5, <1>6, SavesWrite, AcquisitionWrites DEF Kind

--------------------------------------------------------------------------------
(* Scopes. *)

\* What a scope selects, as a function of the rows and the results it is built of.
SecuritiesIn(rows, p) == {row \in rows : row.product = p /\ row.status # "NON_SECURITY"}
SupportedIn(who, rows, p) ==
  CASE who = "kodex" -> \A row \in SecuritiesIn(rows, p) : row.item.form = "digits" /\ row.item.weight # "none"
    [] who = "tiger" -> \A row \in SecuritiesIn(rows, p) : row.status = "SECURITY" /\ row.item.form = "digits"
    [] who = "ishares" -> /\ \A row \in SecuritiesIn(rows, p) : row.status = "SECURITY"
                          /\ SecuritiesIn(rows, p) # {}

EligibleIn(who, rows, x) ==
  /\ x.status = "SUCCESS"
  /\ Cardinality({row \in rows : row.product = x.product}) = x.count
  /\ SupportedIn(who, rows, x.product)

SelectionIn(who, rows, results) ==
  SelectionOf({row \in rows : row.product \in {x.product : x \in {y \in results : EligibleIn(who, rows, y)}}})

LEMMA SelectionIsFunction ==
  ASSUME provider \in Manager
  PROVE  SelectionOf(SelectedRows) = SelectionIn(provider, disk["holdings"], disk["results"])
<1>1. \A p : Securities(p) = SecuritiesIn(disk["holdings"], p)
  BY DEF Securities, Rows, SecuritiesIn
<1>2. \A x : Eligible(x) <=> EligibleIn(provider, disk["holdings"], x)
  <2>1. CASE provider = "kodex"
    BY <1>1, <2>1 DEF Eligible, KodexEligible, EligibleIn, SupportedIn, Rows
  <2>2. CASE provider = "tiger"
    BY <1>1, <2>2 DEF Eligible, TigerEligible, EligibleIn, SupportedIn, Rows
  <2>3. CASE provider = "ishares"
    BY <1>1, <2>3 DEF Eligible, ISharesEligible, EligibleIn, SupportedIn, Rows
  <2> QED BY <2>1, <2>2, <2>3 DEF Manager
<1>3. {y \in disk["results"] : Eligible(y)} = {y \in disk["results"] : EligibleIn(provider, disk["holdings"], y)}
  BY <1>2
<1> QED BY <1>3 DEF SelectedRows, EligibleProducts, SelectionIn

IsScope(s) == s = [eligibility |-> s.eligibility, selection |-> s.selection, manifest |-> s.manifest]
Manifests == scope.manifest \cup draft.manifest

\* A scope of KODEX was built of what its parent registers, the others' of a
\* snapshot that is finished.
BuiltRight(m) ==
  IF Resumable
    THEN m.parent.status = "PARTIAL" /\ m.selection = SelectionIn(provider, m.files["holdings"], Entry(m.parent, "results"))
    ELSE manifest.status = "PARTIAL" /\ m.selection = SelectionIn(provider, disk["holdings"], disk["results"])

ResultsRegistered(m) == Entry(m, "results") = disk["results"]

ScopeInv ==
  /\ provider \in Manager
  /\ IsScope(scope) /\ IsScope(draft)
  /\ at \in {"measure", "end"} => ResultsRegistered(memory)
  /\ dirty /\ memory.status = "PARTIAL" => ResultsRegistered(memory)
  /\ manifest.status = "PARTIAL" => ResultsRegistered(manifest)
  /\ \A m \in Manifests : BuiltRight(m)

LEMMA ResultsAreRegistered ==
  ASSUME CrawlInv, ScopeInv, Kind
  PROVE  /\ at' \in {"measure", "end"} => ResultsRegistered(memory)'
         /\ dirty' /\ memory'.status = "PARTIAL" => ResultsRegistered(memory)'
         /\ manifest'.status = "PARTIAL" => ResultsRegistered(manifest)'
<1> USE DEF CrawlInv
<1>1. CASE Begin
  <2>1. CASE memory' = [status |-> "BUILDING", entries |-> << >>]
    BY <1>1, <2>1, BeginKinds DEF ScopeInv, ResultsRegistered, Entry
  <2>2. CASE memory' = [manifest EXCEPT !.status = "BUILDING"]
    <3>1. memory' = [status |-> "BUILDING", entries |-> manifest.entries]
      BY <2>2 DEF StageInv, IsManifest
    <3> QED BY <1>1, <3>1, BeginKinds DEF ScopeInv, ResultsRegistered, Entry
  <2> QED BY <1>1, <2>1, <2>2, BeginKinds
<1>2. CASE Moves
  BY <1>2 DEF Moves, ScopeInv, ResultsRegistered, Entry
<1>3. CASE Saves
  <2>1. PICK f, lines :
          /\ f \in File \ Kept
          /\ disk' = [disk EXCEPT ![f] = lines] /\ memory' = With(memory, f, lines)
          /\ at' = "measure" => f = "results"
    BY <1>3 DEF Saves
  <2>2. memory'.status = "BUILDING" /\ manifest'.status = "BUILDING" /\ at' # "end"
    BY <1>3, <2>1, WithEntry DEF Saves, StageInv
  <2>3. at' = "measure" => Entry(memory', "results") = disk'["results"]
    BY <2>1, WithEntry DEF StageInv, File
  <2> QED BY <2>2, <2>3 DEF ResultsRegistered, Entry
<1>4. CASE Fetch \/ WriteRecord \/ WriteRows \/ WriteLinks
  <2>1. at' \notin {"measure", "end"}
    BY <1>4 DEF Fetch, PreserveRaw, WriteRecord, WriteRows, WriteLinks, Store
  <2>2. memory'.status = "BUILDING" /\ manifest'.status = "BUILDING"
    <3>1. Busy /\ ~dirty /\ manifest' = manifest
      BY <1>4, AcquisitionWrites DEF Writes
    <3>2. \E f, registered : memory' = With(memory, f, registered)
      BY <1>4, AcquisitionWrites DEF Writes
    <3> QED BY <3>1, <3>2, WithEntry DEF StageInv
  <2> QED BY <2>1, <2>2
<1>5. CASE Stops
  BY <1>5 DEF Stops, ScopeInv, ResultsRegistered, Entry
<1>6. CASE Ends
  <2>1. PICK status : memory' = [memory EXCEPT !.status = status]
    BY <1>6 DEF Ends
  <2>2. memory' = [status |-> status, entries |-> memory.entries]
    BY <2>1 DEF StageInv, IsManifest
  <2> QED BY <1>6, <2>2 DEF Ends, ScopeInv, ResultsRegistered, Entry, Registered
<1>7. CASE Register
  BY <1>7 DEF Register, WriteManifest, ScopeInv, ResultsRegistered, Entry
<1>8. CASE Builds
  BY <1>8 DEF Builds, ScopeInv, ResultsRegistered, Entry, Resting
<1>9. CASE Killed
  BY <1>9 DEF Killed, Crash, ScopeInv, ResultsRegistered, Entry
<1> QED BY <1>1, <1>2, <1>3, <1>4, <1>5, <1>6, <1>7, <1>8, <1>9 DEF Kind

\* Manifests are added by WriteEligibility alone.
LEMMA ManifestsAreBuilt ==
  ASSUME CrawlInv, ScopeInv, ScopeNext
  PROVE  /\ IsScope(scope)' /\ IsScope(draft)'
         /\ \A m \in Manifests' :
              \/ m \in Manifests
              \/ /\ m.parent = Parent /\ m.files = References /\ m.selection = SelectionOf(SelectedRows)
                 /\ manifest.status = "PARTIAL" /\ ~Busy /\ ~dirty
                 /\ UNCHANGED <<provider, disk, manifest>>
<1>1. CASE Crawling
  BY <1>1 DEF Crawling, ScopeInv, IsScope, Manifests
<1>2. CASE BuildKodexScope \/ BuildTigerScope \/ BuildISharesScope
  <2>1. WriteEligibility
    BY <1>2 DEF BuildKodexScope, BuildTigerScope, BuildISharesScope
  <2>2. \E eligibility :
          /\ draft' = [eligibility |-> eligibility, selection |-> SelectionOf(SelectedRows),
                       manifest |-> {[parent |-> Parent, files |-> References,
                                      eligibility |-> eligibility, selection |-> SelectionOf(SelectedRows)]}]
          /\ scope' = [scope EXCEPT !.eligibility = eligibility]
    BY <2>1 DEF WriteEligibility
  <2>3. manifest.status = "PARTIAL" /\ ~Busy /\ ~dirty /\ UNCHANGED <<provider, disk, manifest>>
    BY <2>1 DEF WriteEligibility, Sourced, Busy, Resting
  <2>4. IsScope(scope)' /\ scope'.manifest = scope.manifest
    BY <2>2 DEF ScopeInv, IsScope
  <2> QED BY <2>2, <2>3, <2>4 DEF IsScope, Manifests
<1>3. CASE WriteSelection
  <2>1. IsScope(scope)' /\ scope'.manifest = scope.manifest /\ draft' = draft
    BY <1>3 DEF WriteSelection, ScopeInv, IsScope
  <2> QED BY <2>1 DEF ScopeInv, IsScope, Manifests
<1>4. CASE WriteScope \/ RefuseDates
  <2>1. draft' = [eligibility |-> {}, selection |-> {}, manifest |-> {}]
    BY <1>4 DEF WriteScope, RefuseDates, Built, NoScope
  <2>2. IsScope(scope)' /\ scope'.manifest \in {scope.manifest, draft.manifest}
    BY <1>4 DEF WriteScope, RefuseDates, ScopeInv, IsScope
  <2> QED BY <2>1, <2>2 DEF IsScope, Manifests
<1>5. CASE Dies
  BY <1>5 DEF Dies, NoScope, ScopeInv, IsScope, Manifests
<1> QED BY <1>1, <1>2, <1>3, <1>4, <1>5 DEF ScopeNext, Build

LEMMA FinishedStays ==
  ASSUME CrawlInv, Kind, Final(manifest)
  PROVE  UNCHANGED <<manifest, disk>> /\ (manifest.status = "READY" => UNCHANGED scope)
<1>1. ~Open
  BY DEF CrawlInv, StageInv
<1>2. CASE Begin
  <2>1. ~made \/ (provider = "kodex" /\ manifest.status \in {"BUILDING", "PARTIAL"})
    BY <1>2, BeginKinds
  <2>2. ~made => manifest.status = "absent"
    BY DEF CrawlInv, StageInv, NoManifest
  <2> QED BY <2>1, <2>2 DEF Final, Resumable
<1>3. CASE Builds
  BY <1>3 DEF Builds
<1>4. CASE Killed /\ UNCHANGED scope
  BY <1>4 DEF Killed, Crash
<1> QED BY <1>1, <1>2, <1>3, <1>4, AcquisitionWrites
        DEF Kind, Open, Moves, Saves, Stops, Ends, Writes, Register, WriteManifest, Busy, Resting

LEMMA ScopeIsKept ==
  ASSUME CrawlInv, ScopeInv, ScopeNext
  PROVE  ScopeInv'
<1>1. Kind
  BY StepKinds DEF CrawlInv
<1>2. provider' = provider
  <2>1. CASE Begin
    BY <2>1, BeginKinds
  <2> QED BY <1>1, <2>1, SavesWrite, AcquisitionWrites
          DEF Kind, Moves, Writes, Stops, Ends, Register, WriteManifest, Builds, Killed, Crash
<1>3. ASSUME NEW m \in Manifests' PROVE BuiltRight(m)'
  <2>1. CASE m \in Manifests /\ Resumable
    BY <1>2, <2>1 DEF ScopeInv, BuiltRight, Resumable, Entry
  <2>2. CASE m \in Manifests /\ ~Resumable
    <3>1. BuiltRight(m) /\ manifest.status = "PARTIAL"
      BY <2>2 DEF ScopeInv, BuiltRight
    <3>2. UNCHANGED <<manifest, disk>>
      BY <1>1, <2>2, <3>1, FinishedStays DEF Final
    <3> QED BY <1>2, <2>2, <3>1, <3>2 DEF BuiltRight, Resumable, Entry
  <2>3. CASE /\ m.parent = Parent /\ m.files = References /\ m.selection = SelectionOf(SelectedRows)
             /\ manifest.status = "PARTIAL" /\ UNCHANGED <<provider, disk, manifest>>
    <3>1. m.selection = SelectionIn(provider, disk["holdings"], disk["results"])
      BY <2>3, SelectionIsFunction DEF ScopeInv
    <3>2. m.files["holdings"] = disk["holdings"] /\ Entry(manifest, "results") = disk["results"]
      BY <2>3 DEF References, ScopeInv, ResultsRegistered
    <3>3. BuiltRight(m)
      BY <2>3, <3>1, <3>2 DEF BuiltRight, Parent
    <3> QED BY <2>3, <3>3 DEF BuiltRight, Resumable, Entry
  <2> QED BY <2>1, <2>2, <2>3, ManifestsAreBuilt
<1>4. IsScope(scope)' /\ IsScope(draft)'
  BY ManifestsAreBuilt
<1> QED BY <1>1, <1>2, <1>3, <1>4, ResultsAreRegistered DEF ScopeInv

--------------------------------------------------------------------------------
(* Portfolios: what the results of a crawl say of the rows on file. *)

Visits == {"next", "record", "rows", "links", "result"}

ReadRows(who, r) == Range(RowsRead[who][r])

\* A result that counts a response whose rows are all on file.
Sound(who, x, rows) ==
  x.status = "SUCCESS" =>
    \E r \in Offers[x.product] :
      /\ ReadRows(who, r) \subseteq rows
      /\ x.count \in {Len(RowsRead[who][r]), Cardinality(ReadRows(who, r))}

\* Where a pass stands.
VisitInv ==
  /\ pass \in {1, 2}
  /\ at \in Resting \cup {"discover"} => todo = {} /\ got = {} /\ firstGot = {} /\ pass = 1
  /\ disk["catalog"] \subseteq Product
  /\ todo \subseteq Matched
  /\ at \in Visits \ {"next"} => todo # {} /\ response \in Offers[Current]
  /\ at \in {"links", "result"} => RowsOf(response) \subseteq disk["holdings"]

\* What is on file comes from responses, and so does what was counted.
PortfolioInv ==
  /\ IsFiniteSet(disk["holdings"])
  /\ \A row \in disk["holdings"] : \E r \in Response : row \in RowsOf(r)
  /\ \A x \in got \cup firstGot \cup disk["pass1"] \cup disk["pass2"] \cup disk["results"] :
       Sound(provider, x, disk["holdings"])

\* A catalog that is registered is not fetched again, and without results of a
\* first pass at most the rows of one response are on file.
ResumeInv ==
  Resumable =>
    /\ pass = 1 => got \subseteq disk["pass1"]
    /\ pass = 2 => firstGot \subseteq disk["pass1"]
    /\ pass = 2 /\ at \in Visits /\ todo # {} => disk["pass1"] # {}
    /\ pass = 1 /\ at \in {"next", "record", "rows"} /\ disk["pass1"] = {} => disk["holdings"] = {}
    /\ disk["pass1"] = {} /\ disk["holdings"] # {} => \E r \in Response : disk["holdings"] = RowsOf(r)
    /\ disk["holdings"] # {} => /\ "catalog" \in Registered(manifest)
                                /\ Open => "catalog" \in Registered(memory)
    /\ Busy /\ at # "discover" => "catalog" \in Registered(memory)
    /\ \A row \in disk["holdings"] : row.product \in Matched

WholeInv == provider \in Provider /\ VisitInv /\ PortfolioInv /\ ResumeInv

\* The rows read in a response are finitely many and of the product it answers for.
LEMMA RowsOfProduct ==
  ASSUME provider \in Manager, NEW p \in Product, NEW r \in Offers[p]
  PROVE  /\ r \in Response
         /\ IsFiniteSet(RowsOf(r))
         /\ \A row \in RowsOf(r) : row.product = p
<1>1. r \in Response
  BY DEF Response, Product, Range
<1>2. ProductOf(r) = p
  BY SourceAssumption DEF ProductOf
<1>3. Body[r].items \in Seq(Item)
  BY <1>1, SourceAssumption DEF Reply
<1>4. RowsRead[provider][r] =
        [i \in DOMAIN Body[r].items |->
           CASE provider = "kodex" -> KodexRow(ProductOf(r), r, Body[r].items[i])
             [] provider = "tiger" -> TigerRow(ProductOf(r), Body[r].items[i])
             [] provider = "ishares" -> ISharesRow(ProductOf(r), r, i)]
  BY <1>1 DEF RowsRead
<1> DEFINE rows == RowsRead[provider][r]
<1>5. DOMAIN rows = 1..Len(Body[r].items)
  BY <1>3, <1>4
<1>6. IsFiniteSet(DOMAIN rows)
  BY <1>3, <1>5, FS_Interval
<1>7. rows \in Surjection(DOMAIN rows, Range(rows))
  BY <1>4 DEF Surjection, Range
<1>8. IsFiniteSet(RowsOf(r))
  <2> HIDE DEF rows
  <2>1. IsFiniteSet(Range(rows))
    BY <1>6, <1>7, FS_Surjection
  <2> QED BY <2>1 DEF RowsOf, rows
<1>9. \A i \in DOMAIN rows : rows[i].product = p
  <2>1. ASSUME NEW i \in DOMAIN rows
        PROVE  rows[i] \in {KodexRow(p, r, Body[r].items[i]), TigerRow(p, Body[r].items[i]), ISharesRow(p, r, i)}
    BY <1>2, <1>4 DEF Manager
  <2>2. \A item : KodexRow(p, r, item).product = p /\ TigerRow(p, item).product = p
    BY DEF KodexRow, TigerRow, Row
  <2>3. \A i : ISharesRow(p, r, i).product = p
    BY DEF ISharesRow, Row
  <2> QED BY <2>1, <2>2, <2>3
<1> QED BY <1>1, <1>8, <1>9 DEF RowsOf, Range

\* Every nonempty set of naturals has a least member.
LEMMA LeastNatural ==
  ASSUME NEW T \in SUBSET Nat, T # {}
  PROVE  \E m \in T : \A n \in T : m <= n
<1> DEFINE R == OpToRel(<, Nat)
<1>1. IsWellFoundedOn(R, Nat)
  BY NatLessThanWellFounded
<1>2. PICK m \in T : \A n \in T : ~ (<<n, m>> \in R)
  BY <1>1, WFMin, Zenon
<1>3. \A n \in T : ~ (n < m)
  BY <1>2 DEF OpToRel
<1> QED BY <1>3

\* There is a first product to visit.
LEMMA CurrentWaits ==
  ASSUME todo # {}, todo \subseteq Product
  PROVE  Current \in todo
<1>0. Order \in Seq(Product) /\ Range(Order) = Product
  BY CatalogAssumption
<1>1. Waiting # {} /\ Waiting \in SUBSET Nat
  BY <1>0 DEF Waiting, Range
<1>2. \E i \in Waiting : \A j \in Waiting : i <= j
  BY <1>1, LeastNatural
<1> QED BY <1>2 DEF Current, Waiting

LEMMA MatchedAreListed == Matched \subseteq disk["catalog"]
BY DEF Matched, KodexResolved

LEMMA SoundGrows ==
  ASSUME NEW who, NEW x, NEW rows, NEW more, Sound(who, x, rows), rows \subseteq more
  PROVE  Sound(who, x, more)
BY DEF Sound

\* Files other than catalog and holdings, and the position of the process.
WholeFrame ==
  /\ UNCHANGED provider
  /\ disk'["holdings"] = disk["holdings"] /\ disk'["catalog"] = disk["catalog"]

LEMMA FrameFacts ==
  ASSUME WholeFrame
  PROVE  /\ Matched' = Matched /\ Resumable' = Resumable
         /\ \A r : RowsOf(r)' = RowsOf(r)
BY DEF WholeFrame, Matched, Resumable, RowsOf

\* The process rests, and starts over.
LEMMA WholeRests ==
  ASSUME WholeInv, UNCHANGED <<provider, disk>>, at' = "idle",
         todo' = {}, got' = {}, firstGot' = {}, pass' = 1,
         manifest' = manifest,
         Resumable /\ disk["holdings"] # {} /\ dirty' => "catalog" \in Registered(memory')
  PROVE  WholeInv'
<1>1. Matched' = Matched /\ Resumable' = Resumable /\ \A r : RowsOf(r)' = RowsOf(r)
  BY FrameFacts DEF WholeFrame
<1>2. VisitInv'
  BY <1>1 DEF WholeInv, VisitInv, Visits
<1>3. PortfolioInv'
  BY <1>1 DEF WholeInv, PortfolioInv
<1>4. ResumeInv'
  BY <1>1 DEF WholeInv, ResumeInv, Visits, Open, Busy, Resting
<1> QED BY <1>2, <1>3, <1>4 DEF WholeInv

\* Steps that change none of the results and no file.
LEMMA WholeStays ==
  ASSUME WholeInv, UNCHANGED <<provider, disk, pass, todo, got, firstGot, response>>,
         \/ at' = at
         \/ at \in Resting /\ at' \in Resting \cup {"discover"}
         \/ at = "discover" /\ at' = "pass" /\ "catalog" \in Registered(memory'),
         Resumable /\ disk["holdings"] # {} => "catalog" \in Registered(manifest')
                                  /\ (Open' => "catalog" \in Registered(memory')),
         Resumable /\ Busy /\ at # "discover" => "catalog" \in Registered(memory')
  PROVE  WholeInv'
<1>1. Matched' = Matched /\ Resumable' = Resumable /\ \A r : RowsOf(r)' = RowsOf(r)
  BY FrameFacts DEF WholeFrame
<1>2. VisitInv'
  BY <1>1 DEF WholeInv, VisitInv, Visits, Resting, Current, Waiting
<1>3. PortfolioInv'
  BY <1>1 DEF WholeInv, PortfolioInv
<1>4. ResumeInv'
  BY <1>1 DEF WholeInv, ResumeInv, Visits, Open, Busy, Resting
<1> QED BY <1>2, <1>3, <1>4 DEF WholeInv

LEMMA WithRegisters ==
  ASSUME NEW m, IsManifest(m), NEW f, NEW lines
  PROVE  Registered(With(m, f, lines)) = Registered(m) \cup {f}
BY DEF With, Registered, IsManifest

LEMMA WholeDiscovers ==
  ASSUME StageInv, WholeInv, DiscoverKodex \/ DiscoverTiger \/ DiscoverIShares
  PROVE  WholeInv'
<1>1. at = "discover" /\ ~dirty /\ Busy /\ at' = "pass" /\ provider \in Provider
      /\ UNCHANGED <<provider, manifest, pass, todo, got, firstGot>>
  BY DEF DiscoverKodex, DiscoverTiger, DiscoverIShares, Discovering, Busy, Resting, Store, crawlVars, WholeInv
<1>2. PICK lines : Store("catalog", lines, "pass") /\ lines \subseteq Product
  BY <1>1, CatalogAssumption DEF DiscoverKodex, DiscoverTiger, DiscoverIShares, TigerReviewed
<1>3. /\ disk'["catalog"] = lines
      /\ \A f \in File \ {"catalog"} : disk'[f] = disk[f]
  BY <1>2 DEF Store, StageInv, File
<1>4. Registered(memory') = Registered(memory) \cup {"catalog"}
  BY <1>2, WithRegisters DEF Store, StageInv
<1>5. Resumable => disk["holdings"] = {}
  <2>1. Resumable => "catalog" \notin Registered(memory)
    BY DEF DiscoverKodex, DiscoverTiger, DiscoverIShares, Resumable
  <2> QED BY <1>1, <2>1 DEF WholeInv, ResumeInv, Open
<1>6. todo = {} /\ got = {} /\ firstGot = {} /\ pass = 1
  BY <1>1 DEF WholeInv, VisitInv
<1>7. VisitInv'
  BY <1>1, <1>2, <1>3, <1>6 DEF VisitInv, Visits, Resting
<1>8. PortfolioInv'
  BY <1>1, <1>3 DEF WholeInv, PortfolioInv, RowsOf, File
<1>9. ResumeInv'
  BY <1>1, <1>3, <1>4, <1>5, <1>6 DEF ResumeInv, Visits, Resumable, File
<1> QED BY <1>1, <1>7, <1>8, <1>9 DEF WholeInv

\* Rows taken for the results of a first pass are those of one response.
LEMMA InferredAreSound ==
  ASSUME WholeInv, Resumable, disk["pass1"] = {}, NEW x \in Inferred
  PROVE  Sound(provider, x, disk["holdings"])
<1>1. provider \in Manager
  BY ProviderAssumption DEF WholeInv
<1>2. PICK p \in Matched :
        Rows(p) # {} /\ x = [product |-> p, status |-> "SUCCESS", count |-> Cardinality(Rows(p))]
  BY DEF Inferred
<1>3. PICK r \in Response : disk["holdings"] = RowsOf(r)
  BY <1>2 DEF WholeInv, ResumeInv, Rows
<1>4. PICK q \in Product : r \in Offers[q]
  BY DEF Response, Product, Range
<1>5. \A row \in RowsOf(r) : row.product = q
  BY <1>1, <1>4, RowsOfProduct
<1>6. p = q /\ Rows(p) = RowsOf(r)
  BY <1>2, <1>3, <1>5 DEF Rows
<1> QED BY <1>2, <1>3, <1>4, <1>6 DEF Sound, ReadRows, RowsOf

LEMMA WholeStarts ==
  ASSUME StageInv, WholeInv, StartKodexPass \/ StartPass
  PROVE  WholeInv'
<1>1. at = "pass" /\ at' = "next" /\ todo' = Scheduled /\ Scheduled \subseteq Matched
      /\ UNCHANGED <<provider, pass, firstGot, response>>
  BY DEF StartKodexPass, StartPass, Starting, Store, Scheduled
<1>2. /\ \A f \in File \ {"pass1"} : disk'[f] = disk[f]
      /\ \/ Resumable /\ pass = 1 /\ disk["pass1"] = {} /\ got' = Inferred /\ disk'["pass1"] = Inferred
         \/ Resumable /\ ~(pass = 1 /\ disk["pass1"] = {}) /\ got' = disk[PassFile] /\ disk'["pass1"] = disk["pass1"]
         \/ ~Resumable /\ got' = {} /\ disk'["pass1"] = disk["pass1"]
  BY DEF StartKodexPass, StartPass, Starting, Store, StageInv, File
<1>3. /\ manifest' = manifest
      /\ Registered(memory) \subseteq Registered(memory')
  BY DEF StartKodexPass, StartPass, Store, With, Registered, StageInv, IsManifest
<1>4. Matched' = Matched /\ Resumable' = Resumable /\ \A r : RowsOf(r)' = RowsOf(r)
  BY <1>1, <1>2, FrameFacts DEF WholeFrame, File
<1>5. VisitInv'
  BY <1>1, <1>2, <1>4 DEF WholeInv, VisitInv, Visits, Resting, File
<1>6. PortfolioInv'
  <2>1. \A x \in Inferred : Resumable /\ disk["pass1"] = {} => Sound(provider, x, disk["holdings"])
    BY InferredAreSound
  <2>2. \A x \in got' \cup firstGot' \cup disk'["pass1"] \cup disk'["pass2"] \cup disk'["results"] :
          Sound(provider, x, disk["holdings"])
    BY <1>1, <1>2, <2>1 DEF WholeInv, PortfolioInv, PassFile, File
  <2> QED BY <1>1, <1>2, <1>4, <2>2 DEF WholeInv, PortfolioInv, File
<1>7. ResumeInv'
  <2> SUFFICES ASSUME Resumable PROVE ResumeInv'
    BY <1>4 DEF ResumeInv
  <2>1. pass = 1 => got' \subseteq disk'["pass1"]
    BY <1>2 DEF PassFile
  <2>2. pass = 2 => firstGot \subseteq disk'["pass1"] /\ (todo' # {} => disk'["pass1"] # {})
    BY <1>1, <1>2 DEF WholeInv, ResumeInv, Scheduled, ResultOf
  <2>3. disk'["pass1"] = {} => disk["pass1"] = {}
    BY <1>2
  <2>4. pass = 1 /\ disk'["pass1"] = {} => disk["holdings"] = {}
    <3> SUFFICES ASSUME pass = 1, disk'["pass1"] = {}, disk["holdings"] # {} PROVE FALSE
      OBVIOUS
    <3>1. Inferred = {}
      BY <1>2, <2>3
    <3>2. PICK row \in disk["holdings"] : row.product \in Matched
      BY DEF WholeInv, ResumeInv
    <3>3. Rows(row.product) # {}
      BY DEF Rows
    <3>4. [product |-> row.product, status |-> "SUCCESS", count |-> Cardinality(Rows(row.product))] \in Inferred
      BY <3>2, <3>3 DEF Inferred
    <3> QED BY <3>1, <3>4
  <2>5. disk["holdings"] # {} => "catalog" \in Registered(memory')
    BY <1>1, <1>3 DEF WholeInv, ResumeInv, Open, Busy, Resting
  <2>6. "catalog" \in Registered(memory')
    BY <1>1, <1>3 DEF WholeInv, ResumeInv, Busy, Resting
  <2>7. disk'["holdings"] = disk["holdings"]
    BY <1>2 DEF File
  <2> QED BY <1>1, <1>3, <1>4, <2>1, <2>2, <2>3, <2>4, <2>6, <2>7 DEF WholeInv, ResumeInv, Registered
<1> QED BY <1>1, <1>5, <1>6, <1>7 DEF WholeInv

LEMMA WholeSkips ==
  ASSUME WholeInv, Skip
  PROVE  WholeInv'
<1>1. at = "next" /\ todo' \subseteq todo
      /\ UNCHANGED <<workspaceVars, got, firstGot, response, pass>>
  BY DEF Skip, Visiting
<1>2. Matched' = Matched /\ Resumable' = Resumable /\ \A r : RowsOf(r)' = RowsOf(r)
  BY <1>1, FrameFacts DEF WholeFrame, workspaceVars
<1>3. VisitInv'
  BY <1>1, <1>2 DEF WholeInv, VisitInv, Visits, Resting, workspaceVars
<1>4. PortfolioInv'
  BY <1>1, <1>2 DEF WholeInv, PortfolioInv, workspaceVars
<1>5. ResumeInv'
  BY <1>1, <1>2 DEF WholeInv, ResumeInv, Visits, Open, Busy, Resting, workspaceVars
<1> QED BY <1>1, <1>3, <1>4, <1>5 DEF WholeInv, workspaceVars

\* The result of a product is counted of a response that is on file.
LEMMA SuccessIsSound ==
  ASSUME WholeInv, at = "result"
  PROVE  Sound(provider,
               [product |-> Current, status |-> "SUCCESS", count |-> Len(RowsRead[provider][response])],
               disk["holdings"])
BY DEF WholeInv, VisitInv, Visits, Sound, ReadRows, RowsOf

LEMMA WholeConcludes ==
  ASSUME StageInv, WholeInv, at \in Visits, ~dirty, todo # {}, NEW status, NEW count, Conclude(status, count),
         Sound(provider, [product |-> Current, status |-> status, count |-> count], disk["holdings"])
  PROVE  WholeInv'
<1> DEFINE x == [product |-> Current, status |-> status, count |-> count]
<1>0. Busy
  BY DEF Busy, Visits, Resting
<1>1. /\ at' = "next" /\ todo' \subseteq todo /\ got' \subseteq got \cup {x}
      /\ UNCHANGED <<provider, manifest, firstGot, pass>>
      /\ \A f \in File \ {"pass1", "pass2"} : disk'[f] = disk[f]
      /\ Registered(memory) \subseteq Registered(memory')
  <2>1. CASE Resumable
    <3>1. PICK lines : Store(PassFile, lines, "next") /\ lines = (got \ ResultOf(got, Current)) \cup {x} /\ got' = lines
      BY <2>1 DEF Conclude, ConcludeSaving
    <3>2. PassFile \in {"pass1", "pass2"}
      BY DEF PassFile
    <3>3. Registered(memory) \subseteq Registered(memory')
      BY <3>1, WithRegisters DEF Store, StageInv
    <3> QED BY <3>1, <3>2, <3>3 DEF Conclude, Store, StageInv, File
  <2>2. CASE ~Resumable
    BY <2>2 DEF Conclude, ConcludeInMemory
  <2> QED BY <2>1, <2>2
<1>2. /\ disk'["pass1"] \subseteq disk["pass1"] \cup got'
      /\ disk'["pass2"] \subseteq disk["pass2"] \cup got'
      /\ Resumable /\ pass = 1 => disk'["pass1"] = got' /\ got' # {}
      /\ Resumable /\ pass = 2 => disk'["pass1"] = disk["pass1"]
  <2>1. CASE Resumable
    <3>1. PICK lines : Store(PassFile, lines, "next") /\ lines = (got \ ResultOf(got, Current)) \cup {x} /\ got' = lines
      BY <2>1 DEF Conclude, ConcludeSaving
    <3> QED BY <2>1, <3>1 DEF PassFile, Store, StageInv, File
  <2>2. CASE ~Resumable
    BY <2>2 DEF Conclude, ConcludeInMemory
  <2> QED BY <2>1, <2>2
<1>3. Matched' = Matched /\ Resumable' = Resumable /\ \A r : RowsOf(r)' = RowsOf(r)
  BY <1>1, FrameFacts DEF WholeFrame, File
<1>4. VisitInv'
  BY <1>1, <1>3 DEF WholeInv, VisitInv, Visits, Resting, File
<1>5. PortfolioInv'
  <2>1. \A y \in got' \cup firstGot' \cup disk'["pass1"] \cup disk'["pass2"] \cup disk'["results"] :
          Sound(provider, y, disk["holdings"])
    <3>1. Sound(provider, x, disk["holdings"])
      OBVIOUS
    <3> HIDE DEF x
    <3> QED BY <1>1, <1>2, <3>1 DEF WholeInv, PortfolioInv, File
  <2> QED BY <1>1, <1>3, <2>1 DEF WholeInv, PortfolioInv, File
<1>6. ResumeInv'
  <2> SUFFICES ASSUME Resumable PROVE ResumeInv'
    BY <1>3 DEF ResumeInv
  <2>1. "catalog" \in Registered(memory)
    BY <1>0 DEF WholeInv, ResumeInv, Visits
  <2>2. pass = 1 => got' \subseteq disk'["pass1"] /\ disk'["pass1"] # {}
    BY <1>2
  <2>3. pass = 2 => firstGot \subseteq disk'["pass1"] /\ disk'["pass1"] # {}
    BY <1>2 DEF WholeInv, ResumeInv
  <2>4. pass \in {1, 2} /\ disk'["holdings"] = disk["holdings"]
    BY <1>1 DEF WholeInv, VisitInv, File
  <2> QED BY <1>1, <1>3, <2>1, <2>2, <2>3, <2>4 DEF WholeInv, ResumeInv, Registered
<1> QED BY <1>1, <1>4, <1>5, <1>6 DEF WholeInv

LEMMA WholeVisits ==
  ASSUME StageInv, WholeInv, FetchFails \/ Reject \/ Succeed
  PROVE  WholeInv'
<1>1. CASE FetchFails
  <2>1. Sound(provider, [product |-> Current, status |-> "FETCH_FAILED", count |-> 0], disk["holdings"])
    BY DEF Sound
  <2>2. at \in Visits /\ ~dirty /\ todo # {} /\ Conclude("FETCH_FAILED", 0)
    BY <1>1 DEF FetchFails, Visiting, Visits
  <2> QED BY <2>1, <2>2, WholeConcludes
<1>2. CASE Reject
  <2>1. Sound(provider, [product |-> Current, status |-> Verdict, count |-> 0], disk["holdings"])
    BY <1>2 DEF Reject, Sound
  <2>2. at \in Visits /\ ~dirty /\ todo # {} /\ Conclude(Verdict, 0)
    BY <1>2 DEF Reject, Visits, WholeInv, VisitInv
  <2> QED BY <2>1, <2>2, WholeConcludes
<1>3. CASE Succeed
  <2>1. at = "result" /\ ~dirty /\ todo # {} /\ Conclude("SUCCESS", Len(RowsRead[provider][response]))
    BY <1>3 DEF Succeed, WholeInv, VisitInv, Visits
  <2> QED BY <2>1, SuccessIsSound, WholeConcludes DEF Visits
<1> QED BY <1>1, <1>2, <1>3

LEMMA WholeAcquires ==
  ASSUME StageInv, WholeInv, Fetch \/ WriteRecord \/ WriteLinks
  PROVE  WholeInv'
<1>1. /\ at \in Visits /\ at' \in Visits \ {"next"} /\ Busy /\ ~dirty /\ todo # {} /\ todo' = todo
      /\ UNCHANGED <<provider, manifest, pass, got, firstGot>>
      /\ at' \in {"links", "result"} => at = "links" /\ response' = response
      /\ at' \in {"next", "record", "rows"} => at \in {"next", "record"}
      /\ response' \in Offers[Current]
      /\ \A f \in File \ {"raw", "records", "links"} : disk'[f] = disk[f]
  <2>1. CASE Fetch
    BY <2>1 DEF Fetch, Visiting, Visits, PreserveRaw, Busy, Resting, StageInv, File
  <2>2. CASE WriteRecord
    BY <2>2 DEF WriteRecord, Visits, Store, Busy, Resting, StageInv, File, crawlVars, WholeInv, VisitInv
  <2>3. CASE WriteLinks
    BY <2>3 DEF WriteLinks, Visits, Store, Busy, Resting, StageInv, File, crawlVars, WholeInv, VisitInv
  <2> QED BY <2>1, <2>2, <2>3
<1>2. Registered(memory) \subseteq Registered(memory')
  <2>1. \E f, lines : memory' = With(memory, f, lines)
    BY DEF Fetch, WriteRecord, WriteLinks, PreserveRaw, Store
  <2> QED BY <2>1, WithRegisters DEF StageInv
<1>3. Matched' = Matched /\ Resumable' = Resumable /\ \A r : RowsOf(r)' = RowsOf(r)
  BY <1>1, FrameFacts DEF WholeFrame, File
<1>4. Current' = Current
  BY <1>1 DEF Current, Waiting
<1>5. VisitInv'
  BY <1>1, <1>3, <1>4 DEF WholeInv, VisitInv, Visits, Resting, File
<1>6. PortfolioInv'
  BY <1>1, <1>3 DEF WholeInv, PortfolioInv, File
<1>7. ResumeInv'
  BY <1>1, <1>2, <1>3 DEF WholeInv, ResumeInv, Visits, Open, Busy, Resting, Registered, File
<1> QED BY <1>1, <1>5, <1>6, <1>7 DEF WholeInv

LEMMA WholeWritesRows ==
  ASSUME StageInv, WholeInv, WriteRows
  PROVE  WholeInv'
<1>1. /\ at = "rows" /\ at' = "links" /\ Busy /\ ~dirty
      /\ UNCHANGED <<provider, manifest, pass, todo, got, firstGot, response>>
      /\ disk'["holdings"] = disk["holdings"] \cup RowsOf(response)
      /\ \A f \in File \ {"holdings"} : disk'[f] = disk[f]
  BY DEF WriteRows, Store, StageInv, File, Busy, Resting, crawlVars
<1>2. Registered(memory) \subseteq Registered(memory')
  BY WithRegisters DEF WriteRows, Store, StageInv
<1>3. Matched' = Matched /\ Resumable' = Resumable /\ \A r : RowsOf(r)' = RowsOf(r)
  BY <1>1 DEF Matched, Resumable, RowsOf, File
<1>4. todo # {} /\ response \in Offers[Current] /\ todo \subseteq Matched /\ Matched \subseteq Product
  BY <1>1, MatchedAreListed DEF WholeInv, VisitInv, Visits
<1>5. Current \in Matched /\ Current \in Product
  BY <1>4, CurrentWaits
<1>6. provider \in Manager
  BY ProviderAssumption DEF WholeInv
<1>7. /\ response \in Response /\ IsFiniteSet(RowsOf(response))
      /\ \A row \in RowsOf(response) : row.product = Current
  BY <1>4, <1>5, <1>6, RowsOfProduct
<1>8. VisitInv'
  <2>1. Current' = Current
    BY <1>1 DEF Current, Waiting
  <2> QED BY <1>1, <1>3, <2>1 DEF WholeInv, VisitInv, Visits, Resting, File
<1>9. PortfolioInv'
  <2>1. IsFiniteSet(disk'["holdings"])
    BY <1>1, <1>7, FS_Union DEF WholeInv, PortfolioInv
  <2>2. \A x \in got \cup firstGot \cup disk["pass1"] \cup disk["pass2"] \cup disk["results"] :
          Sound(provider, x, disk'["holdings"])
    BY <1>1, SoundGrows DEF WholeInv, PortfolioInv
  <2>3. \A row \in disk'["holdings"] : \E r \in Response : row \in RowsOf(r)
    BY <1>1, <1>7 DEF WholeInv, PortfolioInv
  <2> QED BY <1>1, <1>3, <2>1, <2>2, <2>3 DEF PortfolioInv, File
<1>10. ResumeInv'
  <2> SUFFICES ASSUME Resumable PROVE ResumeInv'
    BY <1>3 DEF ResumeInv
  <2>1. "catalog" \in Registered(memory) /\ memory = manifest
    BY <1>1 DEF WholeInv, ResumeInv, StageInv
  <2>2. \A row \in disk'["holdings"] : row.product \in Matched
    BY <1>1, <1>5, <1>7 DEF WholeInv, ResumeInv
  <2>3. disk["pass1"] = {} => disk["holdings"] = {}
    BY <1>1, <1>4 DEF WholeInv, ResumeInv, VisitInv, Visits
  <2>4. disk'["pass1"] = {} => disk'["holdings"] = RowsOf(response)
    BY <1>1, <2>3 DEF File
  <2>5. disk'["pass1"] = disk["pass1"]
    BY <1>1 DEF File
  <2>6. pass = 2 => disk["pass1"] # {}
    BY <1>1, <1>4 DEF WholeInv, ResumeInv, Visits
  <2> QED BY <1>1, <1>2, <1>3, <1>7, <2>1, <2>2, <2>4, <2>5, <2>6 DEF WholeInv, ResumeInv, Registered
<1> QED BY <1>1, <1>8, <1>9, <1>10 DEF WholeInv

LEMMA WholeFinishes ==
  ASSUME StageInv, WholeInv, WritePassResults \/ WriteResults \/ Measure
  PROVE  WholeInv'
<1>1. /\ at \in {"next", "summary", "measure"} /\ at' \in {"summary", "measure", "pass", "end"} /\ Busy /\ ~dirty
      /\ UNCHANGED <<provider, manifest, todo, got>>
      /\ \/ pass' = pass /\ firstGot' = firstGot
         \/ pass = 1 /\ pass' = 2 /\ firstGot' = got
      /\ \A f \in File \ {"pass1", "pass2", "results"} : disk'[f] = disk[f]
      /\ Resumable => disk'["pass1"] = disk["pass1"]
  <2>1. CASE WritePassResults
    BY <2>1 DEF WritePassResults, PassEnds, Store, StageInv, File, Busy, Resting, crawlVars, PassFile
  <2>2. CASE WriteResults
    BY <2>2 DEF WriteResults, PassEnds, Store, StageInv, File, Busy, Resting, crawlVars
  <2>3. CASE Measure
    BY <2>3 DEF Measure, SecondPassDue, Busy, Resting
  <2> QED BY <2>1, <2>2, <2>3
<1>2. Registered(memory) \subseteq Registered(memory')
  BY WithRegisters DEF WritePassResults, WriteResults, Measure, Store, StageInv
<1>3. Matched' = Matched /\ Resumable' = Resumable /\ \A r : RowsOf(r)' = RowsOf(r)
  BY <1>1, FrameFacts DEF WholeFrame, File
<1>4. /\ disk'["pass1"] \subseteq disk["pass1"] \cup got
      /\ disk'["pass2"] \subseteq disk["pass2"] \cup got
      /\ disk'["results"] \subseteq disk["results"] \cup got \cup firstGot \cup Unresolved
  BY DEF WritePassResults, WriteResults, Measure, Store, StageInv, File, PassFile, SecondOrFirst
<1>5. VisitInv'
  BY <1>1, <1>3 DEF WholeInv, VisitInv, Visits, Resting, File
<1>6. PortfolioInv'
  <2>1. \A x \in Unresolved : Sound(provider, x, disk["holdings"])
    BY DEF Unresolved, Sound
  <2>2. \A x \in got' \cup firstGot' \cup disk'["pass1"] \cup disk'["pass2"] \cup disk'["results"] :
          Sound(provider, x, disk["holdings"])
    BY <1>1, <1>4, <2>1 DEF WholeInv, PortfolioInv
  <2> QED BY <1>1, <1>3, <2>2 DEF WholeInv, PortfolioInv, File
<1>7. ResumeInv'
  <2> SUFFICES ASSUME Resumable PROVE ResumeInv'
    BY <1>3 DEF ResumeInv
  <2>1. "catalog" \in Registered(memory)
    BY <1>1 DEF WholeInv, ResumeInv
  <2>2. pass' = 1 => got' \subseteq disk'["pass1"]
    BY <1>1 DEF WholeInv, ResumeInv
  <2>3. pass' = 2 => firstGot' \subseteq disk'["pass1"]
    BY <1>1 DEF WholeInv, ResumeInv
  <2>4. disk'["holdings"] = disk["holdings"]
    BY <1>1 DEF File
  <2> QED BY <1>1, <1>2, <1>3, <2>1, <2>2, <2>3, <2>4 DEF WholeInv, ResumeInv, Visits, Registered
<1> QED BY <1>1, <1>5, <1>6, <1>7 DEF WholeInv

\* The steps of a process, by the lemmas above.
LEMMA WholeIsKept ==
  ASSUME StageInv, WholeInv, ScopeNext
  PROVE  WholeInv'
<1>1. CASE Begin
  <2>1. /\ at = "idle" /\ at' = "discover" /\ ~dirty /\ dirty' = TRUE
        /\ UNCHANGED <<provider, disk, manifest, pass, todo, got, firstGot, response>>
    <3>1. Commanded
      BY <1>1 DEF Begin, BeginKodex, BeginTiger, BeginIShares
    <3>2. UNCHANGED <<pass, todo, got, firstGot, response>>
      BY <1>1, <3>1, BeginKinds DEF Commanded, WholeInv, VisitInv, Resting
    <3> QED BY <1>1, <3>2, BeginKinds
  <2>2. disk["holdings"] # {} /\ Resumable => "catalog" \in Registered(manifest)
    BY DEF WholeInv, ResumeInv
  <2>3. ~made => Registered(manifest) = {}
    BY DEF StageInv, NoManifest, Registered
  <2>4. disk["holdings"] # {} /\ Resumable => "catalog" \in Registered(memory')
    BY <1>1, <2>2, <2>3, BeginKinds DEF StageInv, IsManifest, Registered
  <2> QED BY <2>1, <2>2, <2>4, WholeStays DEF Resting, Busy, Registered
<1>2. CASE Process
  <2>1. CASE DiscoverAgain
    <3>1. /\ at = "discover" /\ at' = "pass" /\ Busy /\ ~dirty /\ "catalog" \in Registered(memory)
          /\ UNCHANGED <<provider, disk, manifest, memory, pass, todo, got, firstGot, response>>
      BY <2>1 DEF DiscoverAgain, Discovering, crawlVars, Busy, Resting
    <3> QED BY <3>1, WholeStays DEF StageInv, Registered
  <2>2. CASE DiscoverFails \/ ClashAborts \/ Finish
    <3>1. /\ Busy /\ ~dirty /\ at' = "idle" /\ UNCHANGED <<provider, disk, manifest>>
          /\ todo' = {} /\ got' = {} /\ firstGot' = {} /\ pass' = 1
          /\ \/ dirty' = dirty
             \/ \E status : memory' = [memory EXCEPT !.status = status]
      BY <2>2 DEF DiscoverFails, ClashAborts, Finish, FinishKodex, FinishTiger, FinishIShares, Ending, Finalize,
                  Discovering, Abort, Forget, Busy, Resting
    <3>2. ~dirty' \/ Registered(memory') = Registered(memory)
      BY <3>1 DEF StageInv, IsManifest, Registered
    <3>3. Resumable /\ disk["holdings"] # {} /\ dirty' => "catalog" \in Registered(memory')
      BY <3>1, <3>2 DEF WholeInv, ResumeInv, Open
    <3> QED BY <3>1, <3>3, WholeRests DEF Registered
  <2> QED BY <1>2, <2>1, <2>2, WholeDiscovers, WholeStarts, WholeSkips, WholeVisits, WholeAcquires,
             WholeWritesRows, WholeFinishes DEF Process, Acquire, Discover
<1>3. CASE Register
  <2>1. /\ dirty /\ ~dirty' /\ manifest' = memory
        /\ UNCHANGED <<provider, disk, memory, at, pass, todo, got, firstGot, response>>
    BY <1>3 DEF Register, WriteManifest, crawlVars
  <2>2. Resumable /\ disk["holdings"] # {} => "catalog" \in Registered(memory)
    BY <2>1 DEF WholeInv, ResumeInv, Open
  <2>3. Resumable /\ Busy /\ at # "discover" => "catalog" \in Registered(memory)
    BY DEF WholeInv, ResumeInv
  <2> QED BY <2>1, <2>2, <2>3, WholeStays DEF Registered
<1>4. CASE Build
  <2>1. /\ at \in Resting /\ at' \in Resting /\ UNCHANGED <<provider, disk, manifest, memory, dirty>>
        /\ UNCHANGED <<pass, todo, got, firstGot, response>>
    BY <1>4 DEF Build, BuildKodexScope, BuildTigerScope, BuildISharesScope, WriteEligibility, WriteSelection,
                WriteScope, RefuseDates, Built, crawlVars, Resting
  <2> QED BY <2>1, WholeStays DEF WholeInv, ResumeInv, Registered, Open, Busy
<1>5. CASE Killed
  BY <1>5, WholeRests DEF Killed, Crash, Forget, Registered
<1> QED BY <1>1, <1>2, <1>3, <1>4, <1>5 DEF ScopeNext, Crawling, Dies

--------------------------------------------------------------------------------
(* Theorems. *)

LEMMA InitInvariant == ScopeInit => CrawlInv
BY DEF ScopeInit, CrawlInit, WorkspaceInit, NoManifest, CrawlInv, StageInv, IsManifest, KeptInv,
       EvidenceInv, ReadyInv, Open, Busy, Resting, Entry, Registered, Kept, File

LEMMA StepInvariant == CrawlInv /\ [ScopeNext]_scopeVars => CrawlInv'
<1> SUFFICES ASSUME CrawlInv, [ScopeNext]_scopeVars
             PROVE  CrawlInv'
  OBVIOUS
<1>1. CASE ScopeNext
  BY <1>1, StepKinds, StageIsKept, KeptIsKept, EvidenceIsKept, ReadyIsKept DEF CrawlInv
<1>2. CASE UNCHANGED scopeVars
  BY <1>2 DEF scopeVars, vars, workspaceVars, crawlVars, CrawlInv, StageInv, IsManifest, KeptInv,
              EvidenceInv, ReadyInv, Backed, Open, Busy, Final, Resumable, Entry, RowsOf, RecordOf, QualityOf, Id
<1> QED BY <1>1, <1>2

\* Whatever is killed when, memory, manifest and disk agree as far as CrawlInv
\* says (manifest.py:71-317, kodex_production.py, tiger_production.py,
\* ishares_production.py).
THEOREM CrawlInvariance == ScopeSpec => []CrawlInv
BY InitInvariant, StepInvariant, PTL DEF ScopeSpec

\* In a READY snapshot every row on file is one a VALID response contains
\* (contract.py:37-82, kodex_production.py:430-470).
THEOREM ReadyIsBackedCorrect == ScopeSpec => []ReadyIsBacked
<1>1. CrawlInv => ReadyIsBacked
  BY DEF CrawlInv, ReadyInv, Backed, ReadyIsBacked
<1> QED BY <1>1, CrawlInvariance, PTL

\* A READY snapshot registers its rows as they are on file.
THEOREM ReadyRowsAreRegisteredCorrect == ScopeSpec => []ReadyRowsAreRegistered
<1>1. CrawlInv => ReadyRowsAreRegistered
  BY DEF CrawlInv, ReadyInv, ReadyRowsAreRegistered
<1> QED BY <1>1, CrawlInvariance, PTL

\* No process, killed or resumed, changes a snapshot that is finished
\* (manifest.py:96-138, 258-273).
THEOREM FinishedIsFinalCorrect == ScopeSpec => FinishedIsFinal
<1>1. CrawlInv /\ [ScopeNext]_scopeVars =>
        [Final(manifest) => /\ UNCHANGED <<manifest, disk>>
                            /\ manifest.status = "READY" => UNCHANGED scope]_scopeVars
  <2> SUFFICES ASSUME CrawlInv, ScopeNext, Final(manifest)
               PROVE  UNCHANGED <<manifest, disk>> /\ (manifest.status = "READY" => UNCHANGED scope)
    OBVIOUS
  <2> QED BY StepKinds, FinishedStays DEF CrawlInv
<1> QED BY <1>1, CrawlInvariance, PTL DEF ScopeSpec, FinishedIsFinal

\* Nothing a manifest registers of responses, records, rows and links is lost,
\* and all of it stays on disk (manifest.py:146-256, contract.py:85-115).
THEOREM RegisteredIsKeptCorrect == ScopeSpec => RegisteredIsKept
<1>1. CrawlInv /\ CrawlInv' /\ [ScopeNext]_scopeVars =>
        [\A f \in {"raw", "records", "holdings", "links"} :
           Entry(manifest, f) \subseteq Entry(manifest', f) /\ Entry(manifest', f) \subseteq disk'[f]]_scopeVars
  <2> SUFFICES ASSUME CrawlInv, CrawlInv', ScopeNext, NEW f \in {"raw", "records", "holdings", "links"}
               PROVE  Entry(manifest, f) \subseteq Entry(manifest', f) /\ Entry(manifest', f) \subseteq disk'[f]
    OBVIOUS
  <2>1. Entry(manifest', f) \subseteq disk'[f]
    BY DEF CrawlInv, KeptInv, Kept, Entry
  <2>2. manifest' = manifest \/ (dirty /\ manifest' = memory)
    <3>1. CASE Begin
      BY <3>1, BeginKinds
    <3>2. CASE Moves \/ Writes \/ Stops \/ Ends
      BY <3>2 DEF Moves, Writes, Stops, Ends
    <3>3. CASE Register
      BY <3>3 DEF Register, WriteManifest
    <3>4. CASE Builds \/ Killed
      BY <3>4 DEF Builds, Killed, Crash
    <3> QED BY <3>1, <3>2, <3>3, <3>4, StepKinds, SavesWrite, AcquisitionWrites DEF CrawlInv, Kind
  <2> QED BY <2>1, <2>2 DEF CrawlInv, KeptInv, Kept, Open
<1> QED BY <1>1, CrawlInvariance, PTL DEF ScopeSpec, RegisteredIsKept
\* What a scope selects is a function of rows and results that its parent
\* registers, or that are final (kodex_scope.py, tiger_scope.py, ishares_scope.py).
THEOREM ScopeInvariance == ScopeSpec => []ScopeInv
<1>1. ScopeInit => ScopeInv
  BY ProviderAssumption DEF ScopeInit, CrawlInit, WorkspaceInit, NoManifest, NoScope, ScopeInv, IsScope, Manifests
<1>2. CrawlInv /\ ScopeInv /\ [ScopeNext]_scopeVars => ScopeInv'
  <2>1. CASE UNCHANGED scopeVars /\ ScopeInv
    BY <2>1 DEF scopeVars, vars, workspaceVars, ScopeInv, IsScope, ResultsRegistered, Manifests, BuiltRight,
                Resumable, Entry
  <2> QED BY <2>1, ScopeIsKept
<1> QED BY <1>1, <1>2, CrawlInvariance, PTL DEF ScopeSpec

\* A scope that loading accepts is of the snapshot as it is: it selects what
\* building it anew would (kodex_scope.py:273-330, tiger_scope.py, ishares_scope.py).
THEOREM AcceptedScopeIsCurrentCorrect == ScopeSpec => []AcceptedScopeIsCurrent
<1>1. ScopeInv => AcceptedScopeIsCurrent
  <2> SUFFICES ASSUME ScopeInv, ScopeAccepted
               PROVE  manifest.status = "PARTIAL" /\ scope.selection = SelectionOf(SelectedRows)
    BY DEF AcceptedScopeIsCurrent
  <2>1. SelectionOf(SelectedRows) = SelectionIn(provider, disk["holdings"], disk["results"])
    BY SelectionIsFunction DEF ScopeInv
  <2>2. CASE provider = "kodex"
    <3>1. PICK m \in scope.manifest : m.parent = manifest /\ m.files = References /\ m.selection = scope.selection
      BY <2>2 DEF ScopeAccepted, KodexAccepted
    <3>2. BuiltRight(m)
      BY DEF ScopeInv, Manifests
    <3>3. manifest.status = "PARTIAL" /\ m.selection = SelectionIn(provider, m.files["holdings"], Entry(manifest, "results"))
      BY <2>2, <3>1, <3>2 DEF BuiltRight, Resumable
    <3>4. m.files["holdings"] = disk["holdings"] /\ Entry(manifest, "results") = disk["results"]
      BY <3>1, <3>3 DEF References, ScopeInv, ResultsRegistered
    <3> QED BY <2>1, <3>1, <3>3, <3>4
  <2>3. CASE provider \in {"tiger", "ishares"}
    <3>1. PICK m \in scope.manifest : m.selection = scope.selection
      BY <2>3 DEF ScopeAccepted, TigerAccepted, ISharesAccepted
    <3>2. BuiltRight(m)
      BY DEF ScopeInv, Manifests
    <3> QED BY <2>1, <2>3, <3>1, <3>2 DEF BuiltRight, Resumable
  <2> QED BY <2>2, <2>3 DEF ScopeInv, Manager
<1> QED BY <1>1, ScopeInvariance, PTL

\* Every result counts a response whose rows are on file, however often the
\* crawl was killed and resumed (kodex_production.py:123-262, contract.py:37-115).
THEOREM WholeInvariance == ScopeSpec => []WholeInv
<1>1. ScopeInit => WholeInv
  <2> SUFFICES ASSUME ScopeInit PROVE WholeInv
    OBVIOUS
  <2>1. /\ provider \in Provider /\ disk = [f \in File |-> {}] /\ at = "idle" /\ ~dirty
        /\ todo = {} /\ got = {} /\ firstGot = {} /\ pass = 1
    BY DEF ScopeInit, CrawlInit, WorkspaceInit
  <2>2. VisitInv
    BY <2>1 DEF VisitInv, Visits, Resting, File
  <2>3. PortfolioInv
    BY <2>1, FS_EmptySet DEF PortfolioInv, File
  <2>4. ResumeInv
    BY <2>1 DEF ResumeInv, Visits, Resting, Busy, File
  <2> QED BY <2>1, <2>2, <2>3, <2>4 DEF WholeInv
<1>2. CrawlInv /\ WholeInv /\ [ScopeNext]_scopeVars => WholeInv'
  <2> SUFFICES ASSUME CrawlInv, WholeInv, [ScopeNext]_scopeVars PROVE WholeInv'
    OBVIOUS
  <2>1. CASE ScopeNext
    BY <2>1, WholeIsKept DEF CrawlInv
  <2>2. CASE UNCHANGED scopeVars
    <3>1. /\ UNCHANGED <<provider, disk, manifest, memory, dirty, at>>
          /\ UNCHANGED <<pass, todo, got, firstGot, response>>
      BY <2>2 DEF scopeVars, vars, workspaceVars, crawlVars
    <3> QED BY <3>1, WholeStays DEF WholeInv, ResumeInv, Registered, Open, Busy
  <2> QED BY <2>1, <2>2
<1> QED BY <1>1, <1>2, CrawlInvariance, PTL DEF ScopeSpec

\* The rows of a product that is eligible are the rows of one response.
LEMMA EligibleIsWhole ==
  ASSUME WholeInv, NEW x \in disk["results"], Eligible(x), x.product \in Product, CountedOnce(x.product)
  PROVE  \E r \in Offers[x.product] : RowsOf(r) = Rows(x.product)
<1>1. provider \in Manager
  BY ProviderAssumption DEF WholeInv
<1>2. x.status = "SUCCESS" /\ Cardinality(Rows(x.product)) = x.count
  BY <1>1 DEF Eligible, KodexEligible, TigerEligible, ISharesEligible, Manager
<1>3. PICK r \in Offers[x.product] :
        /\ RowsOf(r) \subseteq disk["holdings"]
        /\ x.count \in {Len(RowsRead[provider][r]), Cardinality(RowsOf(r))}
  BY <1>2 DEF WholeInv, PortfolioInv, Sound, ReadRows, RowsOf
<1>4. Cardinality(RowsOf(r)) = Cardinality(Rows(x.product))
  BY <1>2, <1>3 DEF CountedOnce
<1>5. RowsOf(r) \subseteq Rows(x.product)
  BY <1>1, <1>3, RowsOfProduct DEF Rows
<1>6. IsFiniteSet(Rows(x.product))
  BY FS_Subset DEF WholeInv, PortfolioInv, Rows
<1>7. RowsOf(r) = Rows(x.product)
  BY <1>4, <1>5, <1>6, FS_Subset
<1> QED BY <1>7

\* Of KODEX every row is cash or a share.
LEMMA SelectedAreSupported ==
  ASSUME WholeInv, NEW row \in SelectedRows
  PROVE  row.status \in {"SECURITY", "NON_SECURITY"}
<1>1. provider \in Manager
  BY ProviderAssumption DEF WholeInv
<1>2. PICK x \in disk["results"] : Eligible(x) /\ x.product = row.product
  BY DEF SelectedRows, EligibleProducts
<1>3. CASE provider = "kodex"
  <2>1. PICK r \in Response : row \in RowsOf(r)
    BY DEF WholeInv, PortfolioInv, SelectedRows
  <2>2. PICK i \in DOMAIN RowsRead[provider][r] : row = RowsRead[provider][r][i]
    BY <2>1 DEF RowsOf, Range
  <2>3. row = KodexRow(ProductOf(r), r, Body[r].items[i])
    BY <1>1, <1>3, <2>2 DEF RowsRead
  <2> QED BY <2>3 DEF KodexRow, Row
<1>4. CASE provider \in {"tiger", "ishares"}
  <2>1. \A other \in Securities(x.product) : other.status = "SECURITY"
    BY <1>2, <1>4 DEF Eligible, TigerEligible, ISharesEligible
  <2> QED BY <1>2, <2>1 DEF Securities, Rows, SelectedRows
<1> QED BY <1>1, <1>3, <1>4 DEF Manager

\* A scope that loading accepts gives whole portfolios of supported rows
\* (kodex_scope.py:200-330, tiger_scope.py, ishares_scope.py).
THEOREM AcceptedScopeIsWholeCorrect == ScopeSpec => []AcceptedScopeIsWhole
<1>1. CrawlInv /\ WholeInv /\ AcceptedScopeIsCurrent => AcceptedScopeIsWhole
  <2> SUFFICES ASSUME CrawlInv, WholeInv, AcceptedScopeIsCurrent, ScopeAccepted
               PROVE  AcceptedScopeIsWhole
    BY DEF AcceptedScopeIsWhole
  <2> DEFINE rows == {row \in disk["holdings"] : Id(row) \in ScopeIds}
  <2>1. ScopeIds = SelectedIds
    <3>1. scope.selection = {[id |-> Id(row), canonical |-> row.status # "NON_SECURITY"] : row \in SelectedRows}
      BY DEF AcceptedScopeIsCurrent, SelectionOf
    <3>2. ASSUME NEW item \in scope.selection PROVE item.id \in SelectedIds
      BY <3>1 DEF SelectedIds
    <3>3. ASSUME NEW row \in SelectedRows PROVE \E item \in scope.selection : item.id = Id(row)
      <4>1. [id |-> Id(row), canonical |-> row.status # "NON_SECURITY"] \in scope.selection
        BY <3>1
      <4> QED BY <4>1
    <3> QED BY <3>2, <3>3 DEF ScopeIds, SelectedIds
  <2>2. rows = SelectedRows
    BY <2>1 DEF SelectedIds, SelectedRows, CrawlInv, EvidenceInv
  <2>3. \A row \in rows : row.status \in {"SECURITY", "NON_SECURITY"}
    BY <2>2, SelectedAreSupported
  <2>4. ASSUME NEW row \in rows, CountedOnce(row.product)
        PROVE  \E r \in Offers[row.product] : RowsOf(r) = {other \in rows : other.product = row.product}
    <3>1. PICK x \in disk["results"] : Eligible(x) /\ x.product = row.product
      BY <2>2 DEF SelectedRows, EligibleProducts
    <3>2. row.product \in EligibleProducts
      BY <3>1 DEF EligibleProducts
    <3>3. Rows(row.product) = {other \in rows : other.product = row.product}
      BY <2>2, <3>2 DEF SelectedRows, Rows
    <3>4. row.product \in Product
      <4>1. PICK r \in Response : row \in RowsOf(r)
        BY DEF WholeInv, PortfolioInv
      <4>2. PICK p \in Product : r \in Offers[p]
        BY DEF Response, Product, Range
      <4> QED BY <4>1, <4>2, RowsOfProduct, ProviderAssumption DEF WholeInv
    <3> QED BY <2>4, <3>1, <3>3, <3>4, EligibleIsWhole
  <2> QED BY <2>3, <2>4 DEF AcceptedScopeIsWhole
<1> QED BY <1>1, CrawlInvariance, WholeInvariance, AcceptedScopeIsCurrentCorrect, PTL
================================================================================
