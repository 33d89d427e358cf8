------------------------ MODULE StorePublication_proofs ------------------------
(***************************************************************************)
(* Proofs about StorePublication, for any entities, facts, releases and    *)
(* yields, any batches and any number of failures.                         *)
(*                                                                         *)
(* The argument: facts never lose an endpoint (Closed); while the graph's  *)
(* manifest is READY the graph is an extraction, and while a job replaces  *)
(* the content the manifest is not READY and what is written plus what is  *)
(* still to write is the extraction (BuildInv).                            *)
(***************************************************************************)
EXTENDS StorePublication, FiniteSetTheorems, TLAPS

-----------------------------------------------------------------------------
\* Subsets of the facts are finite, so that counting them gives a number.
LEMMA FactsAreFinite == \A F \in SUBSET Fact : IsFiniteSet(F) /\ Cardinality(F) \in Nat
  BY PublicationAssumption, FS_Subset, FS_CardinalityType

\* What a graph job has still to write are entities first, then facts.
TypeInv ==
  /\ PublicationTypeOK
  /\ job = "nodes" => todo \subseteq Entity
  /\ job = "edges" => todo \subseteq Fact

\* The type of every variable is right at the start.
LEMMA PublicationTypeInit == PublicationInit => TypeInv
<1> SUFFICES ASSUME PublicationInit PROVE TypeInv
  OBVIOUS
<1> USE PublicationAssumption DEF PublicationInit
<1>1. release \in Release /\ 1 \in Release /\ faults \in 0 .. MaxFaults
  BY DEF Release
<1>2. Empty \in Content
  BY DEF Empty, Content
<1>3. /\ snapshot \in [status : Status, version : Release]
      /\ manifest \in [status : Status, version : Release, holds : Nat]
      /\ index \in [status : Status, version : Release, docs : Content]
  BY <1>1, <1>2 DEF Status
<1>4. /\ service \in [at : {"down", "rdb", "graph", "holds", "index", "up"},
                      release : Release, holds : Nat]
      /\ read \in [at : {"idle", "asserted", "counted", "complete", "partial"},
                   count : Nat, rows : SUBSET Fact]
  BY <1>1 DEF Down, NoRows
<1> QED BY <1>1, <1>2, <1>3, <1>4 DEF TypeInv, PublicationTypeOK

\* The endpoints of facts are entities.
LEMMA EndsAreEntities ==
  /\ \A f \in Fact : Ends(f) \subseteq Entity
  /\ \A F \in SUBSET Fact : EntitiesOf(F) \subseteq Entity
  BY PublicationAssumption DEF Ends, EntitiesOf

\* Changes of the database keep the types.
LEMMA RdbKeepsTypes == TypeInv /\ Rdb => TypeInv'
<1> SUFFICES ASSUME TypeInv, Rdb PROVE TypeInv'
  OBVIOUS
<1> USE PublicationAssumption DEF TypeInv, PublicationTypeOK, Release, Status,
      rdbVars, jobVars, derivedVars, serviceVars, Base
<1>1. CASE RebuildBegin
  BY <1>1 DEF RebuildBegin, Start
<1>2. CASE RebuildCommit
  <2>1. Yield[release] \subseteq Fact
    OBVIOUS
  <2>2. facts' \subseteq Fact /\ entities' \subseteq Entity
    BY <1>2, <2>1, EndsAreEntities DEF RebuildCommit
  <2>3. snapshot' \in [status : Status, version : Release]
    BY <1>2 DEF RebuildCommit
  <2> QED BY <1>2, <2>2, <2>3 DEF RebuildCommit
<1>3. CASE RebuildFail
  BY <1>3 DEF RebuildFail
<1>4. CASE Activate
  BY <1>4 DEF Activate
<1>5. CASE Upgrade
  BY <1>5 DEF Upgrade
<1> QED BY <1>1, <1>2, <1>3, <1>4, <1>5 DEF Rdb

\* The graph job keeps the types.
LEMMA IngestKeepsTypes == TypeInv /\ Ingest => TypeInv'
<1> SUFFICES ASSUME TypeInv, Ingest PROVE TypeInv'
  OBVIOUS
<1> USE PublicationAssumption DEF TypeInv, PublicationTypeOK, Status, Content,
      rdbVars, jobVars, derivedVars, serviceVars
<1>1. CASE IngestExtract
  BY <1>1 DEF IngestExtract, Start, Selected
<1>2. CASE IngestBegin
  BY <1>2 DEF IngestBegin
<1>3. CASE ClearEdges
  BY <1>3 DEF ClearEdges
<1>4. CASE ClearNodes
  BY <1>4 DEF ClearNodes
<1>5. CASE Cleared
  BY <1>5 DEF Cleared
<1>6. CASE WriteNodes
  <2>1. PICK batch \in SUBSET todo :
          /\ graph' = [graph EXCEPT !.nodes = @ \cup batch]
          /\ todo' = todo \ batch
    BY <1>6 DEF WriteNodes
  <2> QED BY <1>6, <2>1 DEF WriteNodes
<1>7. CASE NodesWritten
  BY <1>7 DEF NodesWritten
<1>8. CASE WriteEdges
  <2>1. PICK batch \in SUBSET todo :
          /\ graph' = [graph EXCEPT !.edges = @ \cup {e \in batch : Ends(e) \subseteq graph.nodes}]
          /\ todo' = todo \ batch
    BY <1>8 DEF WriteEdges
  <2> QED BY <1>8, <2>1 DEF WriteEdges
<1>9. CASE Reconciled
  <2>1. Cardinality(data.edges \cap Holds) \in Nat
    BY FactsAreFinite
  <2> QED BY <1>9, <2>1 DEF Reconciled
<1>10. CASE Acknowledged
  BY <1>10 DEF Acknowledged
<1>11. CASE IngestFail
  BY <1>11 DEF IngestFail
<1> QED BY <1>1, <1>2, <1>3, <1>4, <1>5, <1>6, <1>7, <1>8, <1>9, <1>10, <1>11 DEF Ingest

\* The other jobs and the service keep the types.
LEMMA ServeKeepsTypes ==
  TypeInv /\ (IndexBuild \/ IndexReplace \/ Killed \/ Serve) => TypeInv'
<1> SUFFICES ASSUME TypeInv, IndexBuild \/ IndexReplace \/ Killed \/ Serve
             PROVE TypeInv'
  OBVIOUS
<1> USE PublicationAssumption DEF TypeInv, PublicationTypeOK,
      rdbVars, jobVars, derivedVars, serviceVars
<1>1. CASE IndexBuild
  <2>1. EntitiesOf(facts \ Holds) \cap Product \subseteq Entity
    OBVIOUS
  <2>2. data' \in Content
    BY <1>1, <2>1 DEF IndexBuild, Content
  <2>3. [version |-> release, content |-> data'] \in [version : Release, content : Content]
    BY <2>2
  <2>4. extracted' \subseteq [version : Release, content : Content]
    BY <1>1, <2>3 DEF IndexBuild
  <2>5. job' = "indexing"
    BY <1>1 DEF IndexBuild, Start
  <2> QED BY <1>1, <2>2, <2>4, <2>5 DEF IndexBuild
<1>2. CASE IndexReplace
  BY <1>2 DEF IndexReplace, Status
<1>3. CASE Killed
  BY <1>3 DEF Killed
<1>4. CASE Serve
  <2>1. Down \in [at : {"down", "rdb", "graph", "holds", "index", "up"},
                  release : Release, holds : Nat]
    BY DEF Down, Release
  <2>2. NoRows \in [at : {"idle", "asserted", "counted", "complete", "partial"},
                    count : Nat, rows : SUBSET Fact]
    BY DEF NoRows
  <2>3. Cardinality(graph.edges) \in Nat
    BY FactsAreFinite DEF Content
  <2>4. CASE ServiceStart
    BY <2>4 DEF ServiceStart
  <2>5. CASE GateRdb \/ GateManifest \/ GateHolds \/ GateIndex
    <3>1. UNCHANGED <<rdbVars, jobVars, derivedVars, read, faults>>
      BY <2>5 DEF GateRdb, GateManifest, GateHolds, GateIndex, Gate
    <3>2. \/ service' = Down
          \/ \E at \in {"graph", "index", "up"} : service' = [service EXCEPT !.at = at]
          \/ \E at \in {"holds", "index"} :
               service' = [service EXCEPT !.at = at, !.holds = manifest.holds]
      BY <2>5 DEF GateRdb, GateManifest, GateHolds, GateIndex, Gate, Continue
    <3>3. service' \in [at : {"down", "rdb", "graph", "holds", "index", "up"},
                        release : Release, holds : Nat]
      BY <2>1, <3>2
    <3> QED BY <3>1, <3>3
  <2>6. CASE ServiceStop
    BY <2>1, <2>2, <2>6 DEF ServiceStop
  <2>7. CASE ReadAssert
    <3>1. read' \in [at : {"idle", "asserted", "counted", "complete", "partial"},
                     count : Nat, rows : SUBSET Fact]
      BY <2>2, <2>7 DEF ReadAssert, NoRows
    <3> QED BY <2>7, <3>1 DEF ReadAssert
  <2>8. CASE ReadCount
    BY <2>3, <2>8 DEF ReadCount
  <2>9. CASE ReadRows
    BY <2>9 DEF ReadRows, Content
  <2> QED BY <1>4, <2>4, <2>5, <2>6, <2>7, <2>8, <2>9 DEF Serve
<1> QED BY <1>1, <1>2, <1>3, <1>4

\* Every step keeps the types.
LEMMA TypeStep == TypeInv /\ [PublicationNext]_pubVars => TypeInv'
<1>1. TypeInv /\ UNCHANGED pubVars => TypeInv'
  BY DEF TypeInv, PublicationTypeOK, pubVars, rdbVars, jobVars, derivedVars, serviceVars
<1> QED BY <1>1, RdbKeepsTypes, IngestKeepsTypes, ServeKeepsTypes DEF PublicationNext

\* Every variable keeps its type, whatever fails or is killed.
THEOREM PublicationTypeCorrect == PublicationSpec => []PublicationTypeOK
<1>1. TypeInv => PublicationTypeOK
  BY DEF TypeInv
<1> QED BY PublicationTypeInit, TypeStep, <1>1, PTL DEF PublicationSpec
-----------------------------------------------------------------------------
\* The endpoints of committed facts are committed, and a READY snapshot is
\* loaded.
LoadInv ==
  /\ \A f \in facts : Ends(f) \subseteq entities
  /\ ReadySnapshotIsLoaded
  /\ job = "rebuild" => snapshot.status = "STAGED"

GraphJobs == {"extracted", "clearing", "nodes", "edges", "acknowledge"}

\* What is shown was extracted; while the graph's content is replaced its
\* manifest refuses readers, and what is written with what is still to write
\* is the extraction.
BuildInv ==
  /\ manifest.status = "READY" => [version |-> manifest.version, content |-> graph] \in extracted
  /\ index.status = "READY" => [version |-> index.version, content |-> index.docs] \in extracted
  /\ job \in GraphJobs \cup {"indexing"} => [version |-> release, content |-> data] \in extracted
  /\ job \in GraphJobs => \A e \in data.edges : Ends(e) \subseteq data.nodes
  /\ job \in {"clearing", "nodes", "edges"} => manifest.status = "BUILDING"
  /\ job = "nodes" => graph.edges = {} /\ graph.nodes \cup todo = data.nodes
  /\ job = "edges" => graph.nodes = data.nodes /\ graph.edges \cup todo = data.edges

\* A store of version v was extracted from a READY snapshot of v, which no
\* rebuild of the same release replaces.
Of(v) == v \leq release /\ (v = release => snapshot = [status |-> "READY", version |-> v])

\* Facts in the database are as they were when what is shown was extracted,
\* while the snapshot is selectable by the same version; HOLDS may have been
\* added.
CurrentInv ==
  /\ job \in GraphJobs =>
       snapshot = [status |-> "READY", version |-> release] /\ data.edges = Selected
  /\ job = "indexing" =>
       /\ snapshot = [status |-> "READY", version |-> release]
       /\ data.nodes = EntitiesOf(facts \ Holds) \cap Product
  /\ manifest.status = "READY" =>
       /\ Of(manifest.version)
       /\ manifest.holds = Cardinality(graph.edges \cap Holds)
       /\ graph.edges \cap Holds \subseteq Selected
       /\ snapshot = [status |-> "READY", version |-> manifest.version] =>
            graph.edges \ Holds = facts \ Holds
  /\ index.status = "READY" =>
       /\ Of(index.version)
       /\ snapshot = [status |-> "READY", version |-> index.version] =>
            index.docs.nodes = EntitiesOf(facts \ Holds) \cap Product

\* What a startup or a read has checked still holds when it goes on.
ServeInv ==
  /\ service.at # "up" => read.at = "idle"
  /\ service.at \in {"graph", "holds", "index"} => Selectable(service.release)
  /\ service.at \in {"holds", "index"} => Compatible(manifest, service.release)
  /\ service.at = "holds" => service.holds = manifest.holds
  /\ service.at = "index" /\ Holdings => Cardinality(Selected \cap Holds) = manifest.holds
  /\ read.at \in {"asserted", "counted"} => Compatible(manifest, service.release)
  /\ ReadsAreWhole

-----------------------------------------------------------------------------
\* Only the jobs of the database change it.
LEMMA RdbIsKept ==
  ASSUME Ingest \/ IndexBuild \/ IndexReplace \/ Killed \/ Serve
  PROVE  UNCHANGED rdbVars /\ (job' = job \/ job' # "rebuild")
<1> USE DEF rdbVars, jobVars
<1>1. CASE Ingest
  BY <1>1 DEF Ingest, IngestExtract, IngestBegin, ClearEdges, ClearNodes, Cleared,
       WriteNodes, NodesWritten, WriteEdges, Reconciled, Acknowledged, IngestFail, Start
<1>2. CASE IndexBuild \/ IndexReplace \/ Killed
  BY <1>2 DEF IndexBuild, IndexReplace, Killed, Start
<1>3. CASE Serve
  BY <1>3 DEF Serve, ServiceStart, GateRdb, GateManifest, GateHolds, GateIndex, Gate,
       ServiceStop, ReadAssert, ReadCount, ReadRows
<1> QED BY <1>1, <1>2, <1>3

\* Committed facts keep their endpoints and a READY snapshot its facts,
\* whichever transaction commits.
LEMMA LoadStep == TypeInv /\ LoadInv /\ [PublicationNext]_pubVars => LoadInv'
<1> SUFFICES ASSUME TypeInv, LoadInv, [PublicationNext]_pubVars PROVE LoadInv'
  OBVIOUS
<1> USE DEF LoadInv, ReadySnapshotIsLoaded, TypeInv, PublicationTypeOK
<1>1. CASE RebuildBegin
  BY <1>1 DEF RebuildBegin, Start
<1>2. CASE RebuildCommit
  <2>1. \A f \in facts' : Ends(f) \subseteq entities'
    BY <1>2 DEF RebuildCommit, EntitiesOf
  <2>2. ReadySnapshotIsLoaded' /\ job' = "none"
    BY <1>2 DEF RebuildCommit
  <2> QED BY <2>1, <2>2
<1>3. CASE RebuildFail
  BY <1>3 DEF RebuildFail
<1>4. CASE Activate
  <2>1. \A f \in facts' : Ends(f) \subseteq entities'
    BY <1>4 DEF Activate, Ends
  <2> QED BY <1>4, <2>1 DEF Activate, jobVars
<1>5. CASE Upgrade
  BY <1>5 DEF Upgrade, jobVars
<1>6. CASE Ingest \/ IndexBuild \/ IndexReplace \/ Killed \/ Serve
  BY <1>6, RdbIsKept DEF rdbVars
<1>7. CASE UNCHANGED pubVars
  BY <1>7 DEF pubVars, rdbVars, jobVars
<1> QED BY <1>1, <1>2, <1>3, <1>4, <1>5, <1>6, <1>7 DEF PublicationNext, Rdb

\* The invariant holds at the start.
LEMMA PublicationInvInit ==
  PublicationInit => LoadInv /\ BuildInv /\ CurrentInv /\ ServeInv
  BY DEF PublicationInit, LoadInv, ReadySnapshotIsLoaded, BuildInv, GraphJobs, CurrentInv,
         ServeInv, ReadsAreWhole, Down, NoRows

\* The jobs of the database leave the derived stores alone, and none of them
\* runs while the graph or the index is built.
LEMMA RdbKeepsDerived ==
  ASSUME TypeInv, Rdb
  PROVE  /\ UNCHANGED <<data, todo, derivedVars, serviceVars>>
         /\ job \in {"none", "rebuild"}
         /\ job' \in {"none", "rebuild"}
  BY DEF Rdb, RebuildBegin, RebuildCommit, RebuildFail, Activate, Upgrade, Start, jobVars

\* The service changes nothing but itself.
LEMMA ServeKeepsStores ==
  ASSUME Serve PROVE UNCHANGED <<rdbVars, jobVars, derivedVars>>
  BY DEF Serve, ServiceStart, GateRdb, GateManifest, GateHolds, GateIndex, Gate,
       ServiceStop, ReadAssert, ReadCount, ReadRows

\* Each step of a job keeps what is shown whole.
LEMMA BuildStep == TypeInv /\ LoadInv /\ BuildInv /\ [PublicationNext]_pubVars => BuildInv'
<1> SUFFICES ASSUME TypeInv, LoadInv, BuildInv, [PublicationNext]_pubVars PROVE BuildInv'
  OBVIOUS
<1> USE DEF BuildInv, GraphJobs, derivedVars, rdbVars, jobVars
<1>1. CASE Rdb
  BY <1>1, RdbKeepsDerived
<1>2. CASE IngestExtract
  <2>1. \A e \in data'.edges : Ends(e) \subseteq data'.nodes
    BY <1>2 DEF IngestExtract, Selected, LoadInv
  <2> QED BY <1>2, <2>1 DEF IngestExtract, Start
<1>3. CASE IngestBegin
  BY <1>3 DEF IngestBegin
<1>4. CASE ClearEdges
  BY <1>4 DEF ClearEdges
<1>5. CASE ClearNodes
  BY <1>5 DEF ClearNodes
<1>6. CASE Cleared
  BY <1>6 DEF Cleared, Empty
<1>7. CASE WriteNodes
  <2>1. PICK batch \in SUBSET todo :
          /\ graph' = [graph EXCEPT !.nodes = @ \cup batch]
          /\ todo' = todo \ batch
    BY <1>7 DEF WriteNodes
  <2>2. graph'.edges = graph.edges /\ graph'.nodes = graph.nodes \cup batch
    BY <2>1 DEF TypeInv, PublicationTypeOK, Content
  <2> QED BY <1>7, <2>1, <2>2 DEF WriteNodes
<1>8. CASE NodesWritten
  BY <1>8 DEF NodesWritten
<1>9. CASE WriteEdges
  <2>1. PICK batch \in SUBSET todo :
          /\ graph' = [graph EXCEPT !.edges = @ \cup {e \in batch : Ends(e) \subseteq graph.nodes}]
          /\ todo' = todo \ batch
    BY <1>9 DEF WriteEdges
  <2>2. {e \in batch : Ends(e) \subseteq graph.nodes} = batch
    BY <1>9 DEF WriteEdges
  <2>3. graph'.nodes = graph.nodes /\ graph'.edges = graph.edges \cup batch
    BY <2>1, <2>2 DEF TypeInv, PublicationTypeOK, Content
  <2> QED BY <1>9, <2>1, <2>3 DEF WriteEdges
<1>10. CASE Reconciled
  <2>1. graph = data
    BY <1>10 DEF Reconciled, TypeInv, PublicationTypeOK, Content
  <2> QED BY <1>10, <2>1 DEF Reconciled
<1>11. CASE Acknowledged
  BY <1>11 DEF Acknowledged
<1>12. CASE IngestFail
  BY <1>12 DEF IngestFail
<1>13. CASE IndexBuild
  BY <1>13 DEF IndexBuild, Start
<1>14. CASE IndexReplace
  BY <1>14 DEF IndexReplace
<1>15. CASE Killed
  BY <1>15 DEF Killed
<1>16. CASE Serve
  BY <1>16, ServeKeepsStores
<1>17. CASE UNCHANGED pubVars
  BY <1>17 DEF pubVars
<1> QED
  BY <1>1, <1>2, <1>3, <1>4, <1>5, <1>6, <1>7, <1>8, <1>9, <1>10, <1>11, <1>12, <1>13,
     <1>14, <1>15, <1>16, <1>17 DEF PublicationNext, Ingest

\* The strengthened invariant of what is shown, without the service.
BuiltInv == TypeInv /\ LoadInv /\ BuildInv

\* It holds of every reachable state.
LEMMA BuiltInvHolds == PublicationSpec => []BuiltInv
<1>1. PublicationInit => BuiltInv
  BY PublicationTypeInit, PublicationInvInit DEF BuiltInv
<1>2. BuiltInv /\ [PublicationNext]_pubVars => BuiltInv'
  BY TypeStep, LoadStep, BuildStep DEF BuiltInv
<1> QED BY <1>1, <1>2, PTL DEF PublicationSpec

\* A READY snapshot holds every fact its release derives, whenever rebuilds
\* fail or are killed.
THEOREM ReadySnapshotIsLoadedCorrect == PublicationSpec => []ReadySnapshotIsLoaded
<1>1. BuiltInv => ReadySnapshotIsLoaded
  BY DEF BuiltInv, LoadInv
<1> QED BY BuiltInvHolds, <1>1, PTL

-----------------------------------------------------------------------------
\* The graph, cleared and rewritten in batches of any size under its manifest,
\* implements the abstract store: its readers are refused or see one whole
\* extraction.
THEOREM GraphImplementsDerivedStore == PublicationSpec => GraphIsDerivedStore
<1>1. PublicationInit => Graph!StoreInit
  BY DEF PublicationInit, Graph!StoreInit, ShownGraph
<1>2. BuiltInv /\ [PublicationNext]_pubVars => [Graph!StoreNext]_(Graph!storeVars)
  <2> SUFFICES ASSUME BuiltInv, [PublicationNext]_pubVars
               PROVE  [Graph!StoreNext]_(Graph!storeVars)
    OBVIOUS
  <2> USE DEF ShownGraph, Graph!storeVars, derivedVars, rdbVars, jobVars, GraphJobs,
        Graph!StoreNext
  <2>1. CASE UNCHANGED <<manifest, graph>> /\ extracted \subseteq extracted'
    BY <2>1 DEF Graph!Extract
  <2>2. CASE manifest'.status # "READY" /\ UNCHANGED extracted
    BY <2>2 DEF Graph!Withdraw
  <2>3. CASE Reconciled
    <3>1. graph = data
      BY <2>3 DEF Reconciled, BuiltInv, BuildInv, TypeInv, PublicationTypeOK, Content
    <3>2. [version |-> release, content |-> data] \in extracted
      BY <2>3 DEF Reconciled, BuiltInv, BuildInv
    <3> QED BY <2>3, <3>1, <3>2 DEF Reconciled, Graph!Publish
  <2>4. CASE Rdb
    BY <2>1, <2>4, RdbKeepsDerived DEF BuiltInv
  <2>5. CASE IngestExtract \/ Cleared \/ NodesWritten \/ Acknowledged
    BY <2>1, <2>5 DEF IngestExtract, Cleared, NodesWritten, Acknowledged
  <2>6. CASE IngestBegin \/ IngestFail
    BY <2>2, <2>6 DEF IngestBegin, IngestFail
  <2>7. CASE ClearEdges \/ ClearNodes \/ WriteNodes \/ WriteEdges
    <3>1. manifest.status = "BUILDING" /\ UNCHANGED <<manifest, extracted>>
      BY <2>7 DEF BuiltInv, BuildInv, ClearEdges, ClearNodes, WriteNodes, WriteEdges
    <3> QED BY <2>2, <3>1
  <2>8. CASE IndexBuild \/ IndexReplace \/ Killed
    BY <2>1, <2>8 DEF IndexBuild, IndexReplace, Killed
  <2>9. CASE Serve
    BY <2>1, <2>9, ServeKeepsStores
  <2>10. CASE UNCHANGED pubVars
    BY <2>1, <2>10 DEF pubVars
  <2> QED BY <2>3, <2>4, <2>5, <2>6, <2>7, <2>8, <2>9, <2>10 DEF PublicationNext, Ingest
<1> QED BY BuiltInvHolds, <1>1, <1>2, PTL DEF PublicationSpec, GraphIsDerivedStore, Graph!StoreSpec

\* The index, replaced as one file, implements the abstract store.
THEOREM IndexImplementsDerivedStore == PublicationSpec => IndexIsDerivedStore
<1>1. PublicationInit => Index!StoreInit
  BY DEF PublicationInit, Index!StoreInit, ShownIndex
<1>2. BuiltInv /\ [PublicationNext]_pubVars => [Index!StoreNext]_(Index!storeVars)
  <2> SUFFICES ASSUME BuiltInv, [PublicationNext]_pubVars
               PROVE  [Index!StoreNext]_(Index!storeVars)
    OBVIOUS
  <2> USE DEF ShownIndex, Index!storeVars, derivedVars, rdbVars, jobVars, Index!StoreNext
  <2>1. CASE UNCHANGED index /\ extracted \subseteq extracted'
    BY <2>1 DEF Index!Extract
  <2>2. CASE IndexReplace
    <3>1. [version |-> release, content |-> data] \in extracted
      BY <2>2 DEF IndexReplace, BuiltInv, BuildInv
    <3> QED BY <2>2, <3>1 DEF IndexReplace, Index!Publish
  <2>3. CASE Rdb
    BY <2>1, <2>3, RdbKeepsDerived DEF BuiltInv
  <2>4. CASE Ingest
    BY <2>1, <2>4 DEF Ingest, IngestExtract, IngestBegin, ClearEdges, ClearNodes, Cleared,
         WriteNodes, NodesWritten, WriteEdges, Reconciled, Acknowledged, IngestFail
  <2>5. CASE IndexBuild \/ Killed
    BY <2>1, <2>5 DEF IndexBuild, Killed
  <2>6. CASE Serve
    BY <2>1, <2>6, ServeKeepsStores
  <2>7. CASE UNCHANGED pubVars
    BY <2>1, <2>7 DEF pubVars
  <2> QED BY <2>2, <2>3, <2>4, <2>5, <2>6, <2>7 DEF PublicationNext
<1> QED BY BuiltInvHolds, <1>1, <1>2, PTL DEF PublicationSpec, IndexIsDerivedStore, Index!StoreSpec

-----------------------------------------------------------------------------
\* Versions go on standing for contents, whichever job steps.
LEMMA CurrentStep ==
  TypeInv /\ LoadInv /\ BuildInv /\ CurrentInv /\ [PublicationNext]_pubVars => CurrentInv'
<1> SUFFICES ASSUME TypeInv, LoadInv, BuildInv, CurrentInv, [PublicationNext]_pubVars
             PROVE  CurrentInv'
  OBVIOUS
<1> USE DEF CurrentInv, Of, GraphJobs, derivedVars, rdbVars, jobVars
<1>1. CASE RebuildBegin
  <2>1. snapshot'.status # "READY" /\ job' = "rebuild"
    BY <1>1 DEF RebuildBegin, Start, SnapshotReady
  <2>2. manifest.status = "READY" => manifest.version # release
    BY <1>1 DEF RebuildBegin, SnapshotReady
  <2>3. index.status = "READY" => index.version # release
    BY <1>1 DEF RebuildBegin, SnapshotReady
  <2>4. Selected' = Selected
    BY <1>1 DEF RebuildBegin, Selected
  <2> QED BY <1>1, <2>1, <2>2, <2>3, <2>4 DEF RebuildBegin
<1>2. CASE RebuildCommit
  <2>1. snapshot.status = "STAGED"
    BY <1>2 DEF RebuildCommit, LoadInv
  <2>2. manifest.status = "READY" => manifest.version # release
    BY <2>1
  <2>3. index.status = "READY" => index.version # release
    BY <2>1
  <2>4. Selected \subseteq Selected'
    BY <1>2 DEF RebuildCommit, Selected
  <2> QED BY <1>2, <2>2, <2>3, <2>4 DEF RebuildCommit
<1>3. CASE RebuildFail
  <2>1. snapshot.status = "STAGED"
    BY <1>3 DEF RebuildFail, LoadInv
  <2>2. snapshot'.status = "FAILED"
    BY <1>3 DEF RebuildFail, TypeInv, PublicationTypeOK
  <2> QED BY <1>3, <2>1, <2>2 DEF RebuildFail, Selected
<1>4. CASE Activate
  <2>1. facts' \ Holds = facts \ Holds
    BY <1>4 DEF Activate
  <2>2. Selected \subseteq Selected'
    BY <1>4 DEF Activate, Selected
  <2> QED BY <1>4, <2>1, <2>2 DEF Activate
<1>5. CASE Upgrade
  <2>1. release \in Nat /\ manifest.version \in Nat /\ index.version \in Nat
    BY PublicationAssumption DEF TypeInv, PublicationTypeOK, Release
  <2>2. \A v \in Nat : v \leq release => v \leq release + 1 /\ v # release + 1
    BY <2>1
  <2>3. release' = release + 1 /\ job' = "none" /\ Selected' = Selected
    BY <1>5 DEF Upgrade, Selected
  <2>4. UNCHANGED <<snapshot, facts, manifest, graph, index>>
    BY <1>5 DEF Upgrade
  <2> QED BY <2>1, <2>2, <2>3, <2>4
<1>6. CASE IngestExtract
  BY <1>6 DEF IngestExtract, Start, Selectable, SnapshotReady, Selected
<1>7. CASE IngestBegin \/ Cleared \/ NodesWritten \/ Acknowledged
  BY <1>7 DEF IngestBegin, Cleared, NodesWritten, Acknowledged, Selected
<1>8. CASE ClearEdges \/ ClearNodes \/ WriteNodes \/ WriteEdges
  BY <1>8 DEF ClearEdges, ClearNodes, WriteNodes, WriteEdges, BuildInv, Selected
<1>9. CASE Reconciled
  <2>1. graph = data
    BY <1>9 DEF Reconciled, BuildInv, TypeInv, PublicationTypeOK, Content
  <2>2. data.edges \ Holds = facts \ Holds /\ data.edges \cap Holds \subseteq Selected
    BY <1>9 DEF Reconciled, Selected
  <2>3. release \leq release
    BY PublicationAssumption DEF TypeInv, PublicationTypeOK, Release
  <2> QED BY <1>9, <2>1, <2>2, <2>3 DEF Reconciled, Selected
<1>10. CASE IngestFail
  BY <1>10 DEF IngestFail, Selected
<1>11. CASE IndexBuild
  BY <1>11 DEF IndexBuild, Start, SnapshotReady, Selected
<1>12. CASE IndexReplace
  <2>1. release \leq release
    BY PublicationAssumption DEF TypeInv, PublicationTypeOK, Release
  <2> QED BY <1>12, <2>1 DEF IndexReplace, Selected
<1>13. CASE Killed
  BY <1>13 DEF Killed, Selected
<1>14. CASE Serve
  BY <1>14, ServeKeepsStores DEF Selected
<1>15. CASE UNCHANGED pubVars
  BY <1>15 DEF pubVars, Selected
<1> QED
  BY <1>1, <1>2, <1>3, <1>4, <1>5, <1>6, <1>7, <1>8, <1>9, <1>10, <1>11, <1>12, <1>13,
     <1>14, <1>15 DEF PublicationNext, Rdb, Ingest

\* The invariant of the stores.
StoresInv == TypeInv /\ LoadInv /\ BuildInv /\ CurrentInv

\* It holds of every reachable state.
LEMMA StoresInvHolds == PublicationSpec => []StoresInv
<1>1. PublicationInit => StoresInv
  BY PublicationTypeInit, PublicationInvInit DEF StoresInv
<1>2. StoresInv /\ [PublicationNext]_pubVars => StoresInv'
  BY TypeStep, LoadStep, BuildStep, CurrentStep DEF StoresInv
<1> QED BY <1>1, <1>2, PTL DEF PublicationSpec

\* A database and a derived store that one process accepts by their versions
\* hold the same source facts, across failures, repeated rebuilds and releases.
THEOREM BundleIsCoherentCorrect == PublicationSpec => []BundleIsCoherent
<1>1. StoresInv => BundleIsCoherent
  BY DEF StoresInv, CurrentInv, BundleIsCoherent, Selectable, SnapshotReady, Compatible
<1> QED BY StoresInvHolds, <1>1, PTL

-----------------------------------------------------------------------------
\* A job that steps finds no startup or read in progress, unless they overlap,
\* and leaves the service alone.
LEMMA JobsWait ==
  ASSUME ~ReadsOverlap, TypeInv, Rdb \/ Ingest \/ IndexBuild \/ IndexReplace \/ Killed
  PROVE  /\ service.at \in {"down", "up"}
         /\ read.at \in {"idle", "complete", "partial"}
         /\ UNCHANGED <<service, read>>
         /\ extracted \subseteq extracted'
<1> USE DEF derivedVars, serviceVars, Undisturbed, Start
<1>1. CASE Rdb
  BY <1>1 DEF Rdb, RebuildBegin, RebuildCommit, RebuildFail, Activate, Upgrade
<1>2. CASE Ingest
  BY <1>2 DEF Ingest, IngestExtract, IngestBegin, ClearEdges, ClearNodes, Cleared,
       WriteNodes, NodesWritten, WriteEdges, Reconciled, Acknowledged, IngestFail
<1>3. CASE IndexBuild \/ IndexReplace \/ Killed
  BY <1>3 DEF IndexBuild, IndexReplace, Killed
<1> QED BY <1>1, <1>2, <1>3

\* What the service has checked still holds when it goes on.
LEMMA ServeStep ==
  ASSUME ~ReadsOverlap, StoresInv, ServeInv, [PublicationNext]_pubVars
  PROVE  ServeInv'
<1> USE DEF ServeInv, StoresInv, TypeInv, PublicationTypeOK
<1>1. CASE Rdb \/ Ingest \/ IndexBuild \/ IndexReplace \/ Killed
  BY <1>1, JobsWait DEF ReadsAreWhole
<1>2. CASE UNCHANGED pubVars
  BY <1>2 DEF pubVars, rdbVars, derivedVars, serviceVars, ReadsAreWhole,
       Selectable, SnapshotReady, Selected, Compatible
<1>3. CASE Serve
  <2>1. UNCHANGED <<snapshot, scope, facts, manifest, graph, extracted>>
    BY <1>3, ServeKeepsStores DEF rdbVars, derivedVars
  <2>2. /\ \A v : Selectable(v)' <=> (snapshot = [status |-> "READY", version |-> v]
                                       /\ (Holdings => scope))
        /\ Selected' = Selected
    BY <2>1 DEF Selectable, SnapshotReady, Selected
  <2>3. CASE ServiceStart
    BY <2>1, <2>3 DEF ServiceStart, ReadsAreWhole
  <2>4. CASE GateRdb
    BY <2>1, <2>4 DEF GateRdb, Gate, Continue, Down, Selectable, SnapshotReady, ReadsAreWhole
  <2>5. CASE GateManifest
    <3>1. service.at = "graph" /\ read.at = "idle" /\ UNCHANGED read
      BY <2>5 DEF GateManifest
    <3>2. CASE Compatible(manifest, service.release)
      <4>1. /\ service'.at = IF Holdings THEN "holds" ELSE "index"
            /\ service'.release = service.release
            /\ service'.holds = manifest.holds
        BY <2>5, <3>2 DEF GateManifest
      <4> QED BY <2>1, <3>1, <3>2, <4>1 DEF Selectable, SnapshotReady, Compatible, ReadsAreWhole
    <3>3. CASE ~Compatible(manifest, service.release)
      BY <2>5, <3>1, <3>3 DEF GateManifest, Down, ReadsAreWhole
    <3> QED BY <3>2, <3>3
  <2>6. CASE GateHolds
    BY <2>1, <2>2, <2>6 DEF GateHolds, HoldsReconciled, Gate, Continue, Down, Selectable, SnapshotReady,
         Compatible, ReadsAreWhole
  <2>7. CASE GateIndex
    BY <2>1, <2>7 DEF GateIndex, Gate, Continue, Down, ReadsAreWhole
  <2>8. CASE ServiceStop
    BY <2>1, <2>8 DEF ServiceStop, Down, NoRows, ReadsAreWhole
  <2>9. CASE ReadAssert
    BY <2>1, <2>9 DEF ReadAssert, NoRows, Compatible, ReadsAreWhole
  <2>10. CASE ReadCount
    BY <2>1, <2>10 DEF ReadCount, Compatible, ReadsAreWhole
  <2>11. CASE ReadRows
    <3>1. read'.rows = graph.edges /\ read'.at \in {"complete", "partial"} /\ service' = service
      BY <2>11 DEF ReadRows, serviceVars
    <3>2. [version |-> service.release, content |-> graph] \in extracted
      BY <2>11 DEF ReadRows, Compatible, BuildInv
    <3>3. ReadsAreWhole'
      BY <2>1, <3>1, <3>2 DEF ReadsAreWhole
    <3> QED BY <2>1, <2>11, <3>1, <3>3 DEF ReadRows
  <2> QED
    BY <1>3, <2>3, <2>4, <2>5, <2>6, <2>7, <2>8, <2>9, <2>10, <2>11 DEF Serve
<1> QED BY <1>1, <1>2, <1>3 DEF PublicationNext

\* When no job steps within a read, a read that reports a complete candidate
\* set returned the edges of one extraction of the reader's release.
THEOREM ReadsAreWholeCorrect == ~ReadsOverlap => (PublicationSpec => []ReadsAreWhole)
<1> SUFFICES ASSUME ~ReadsOverlap PROVE PublicationSpec => []ReadsAreWhole
  OBVIOUS
<1>1. PublicationInit => ServeInv
  BY PublicationInvInit
<1>2. StoresInv /\ ServeInv /\ [PublicationNext]_pubVars => ServeInv'
  BY ServeStep
<1>3. ServeInv => ReadsAreWhole
  BY DEF ServeInv
<1> QED BY StoresInvHolds, <1>1, <1>2, <1>3, PTL DEF PublicationSpec

\* Sets of facts of which one contains the other, equally many, are equal.
LEMMA EquallyMany ==
  ASSUME NEW F \in SUBSET Fact, NEW G \in SUBSET F, Cardinality(G) = Cardinality(F)
  PROVE  G = F
  BY FactsAreFinite, FS_Subset

\* When no job steps within a startup, a process about to be ready has a graph
\* with exactly the facts it selects, although activation changes no version
\* and HOLDS are only counted: they are only ever added.
THEOREM ServiceStartsCurrentCorrect ==
  ~ReadsOverlap => (PublicationSpec => []ServiceStartsCurrent)
<1> SUFFICES ASSUME ~ReadsOverlap PROVE PublicationSpec => []ServiceStartsCurrent
  OBVIOUS
<1>1. PublicationInit => ServeInv
  BY PublicationInvInit
<1>2. StoresInv /\ ServeInv /\ [PublicationNext]_pubVars => ServeInv'
  BY ServeStep
<1>3. StoresInv /\ ServeInv => ServiceStartsCurrent
  <2> SUFFICES ASSUME StoresInv, ServeInv, service.at = "index"
               PROVE  graph.edges = Selected
    BY DEF ServiceStartsCurrent
  <2>1. /\ manifest.status = "READY" /\ manifest.version = service.release
        /\ snapshot = [status |-> "READY", version |-> service.release]
    BY DEF ServeInv, Selectable, SnapshotReady, Compatible
  <2>2. /\ graph.edges \ Holds = facts \ Holds
        /\ graph.edges \cap Holds \subseteq Selected \cap Holds
        /\ manifest.holds = Cardinality(graph.edges \cap Holds)
    BY <2>1 DEF StoresInv, CurrentInv
  <2>3. CASE Holdings
    <3>1. Cardinality(graph.edges \cap Holds) = Cardinality(Selected \cap Holds)
      BY <2>2, <2>3 DEF ServeInv
    <3>2. Selected \cap Holds \subseteq Fact
      BY DEF StoresInv, TypeInv, PublicationTypeOK, Selected
    <3>3. graph.edges \cap Holds = Selected \cap Holds
      BY <2>2, <3>1, <3>2, EquallyMany
    <3> QED BY <2>2, <2>3, <3>3 DEF Selected
  <2>4. CASE ~Holdings
    BY <2>2, <2>4 DEF Selected
  <2> QED BY <2>3, <2>4
<1> QED BY StoresInvHolds, <1>1, <1>2, <1>3, PTL DEF PublicationSpec

-----------------------------------------------------------------------------
\* The reconciliation compares numbers only; rows are only inserted, so that
\* the numbers decide.
THEOREM ProductsAreCurrentCorrect == PublicationSpec => []ProductsAreCurrent
<1>1. PublicationInit => ProductsAreCurrent
  BY DEF PublicationInit, ProductsAreCurrent
<1>2. BuiltInv /\ ProductsAreCurrent /\ [PublicationNext]_pubVars => ProductsAreCurrent'
  <2> SUFFICES ASSUME BuiltInv, ProductsAreCurrent, [PublicationNext]_pubVars
               PROVE  ProductsAreCurrent'
    OBVIOUS
  <2> USE DEF ProductsAreCurrent, rdbVars
  <2>1. CASE RebuildBegin
    BY <2>1 DEF RebuildBegin
  <2>2. CASE RebuildCommit
    <3> DEFINE loaded == (entities \cup EntitiesOf(Yield[release])) \cap Product
               derived == EntitiesOf(Yield[release]) \cap Product
    <3>1. IsFiniteSet(loaded) /\ derived \subseteq loaded
      BY PublicationAssumption, FS_Subset
    <3>2. Cardinality(loaded) = Cardinality(derived)
      BY <2>2 DEF RebuildCommit, ProductsReconcile
    <3>3. derived = loaded
      BY <3>1, <3>2, FS_Subset
    <3> QED BY <2>2, <3>3 DEF RebuildCommit, BuiltInv, TypeInv, PublicationTypeOK
  <2>3. CASE RebuildFail
    BY <2>3 DEF RebuildFail, BuiltInv, TypeInv, PublicationTypeOK
  <2>4. CASE Activate
    <3>1. entities' \cap Product = entities \cap Product
      BY <2>4, PublicationAssumption DEF Activate
    <3> QED BY <2>4, <3>1 DEF Activate
  <2>5. CASE Upgrade
    BY <2>5 DEF Upgrade
  <2>6. CASE Ingest \/ IndexBuild \/ IndexReplace \/ Killed \/ Serve
    BY <2>6, RdbIsKept
  <2>7. CASE UNCHANGED pubVars
    BY <2>7 DEF pubVars
  <2> QED BY <2>1, <2>2, <2>3, <2>4, <2>5, <2>6, <2>7 DEF PublicationNext, Rdb
<1> QED BY BuiltInvHolds, <1>1, <1>2, PTL DEF PublicationSpec

=============================================================================
