---------------------------- MODULE StorePublication ----------------------------
(***************************************************************************)
(* How the stores behind the agent are built, rebuilt and gated:           *)
(*                                                                         *)
(*   app/data/v2_rebuild.py    the canonical database, one transaction     *)
(*                             between a STAGED and a READY snapshot       *)
(*   app/data/holdings.py      activation of an external holdings scope    *)
(*   app/graph/v2.py           the Neo4j projection, in batches under a    *)
(*                             manifest                                    *)
(*   app/search/indexer.py     the semantic index, one atomic replace      *)
(*   app/agent/service.py      the readiness checks at startup             *)
(*   app/retrieval/graph.py    a graph read of the running service         *)
(*                                                                         *)
(* Jobs are run by an operator, one at a time, and may fail or be killed   *)
(* between any two statements they send.  The service runs beside them.    *)
(* A release of the code carries its transformer version, by which         *)
(* snapshots, manifests and readers recognise each other.                  *)
(*                                                                         *)
(* Abstracted: entities and facts are members of small sets, the four      *)
(* dataset snapshots, which every transaction updates together, are one,   *)
(* and of a fact only its two endpoints are kept.                          *)
(***************************************************************************)
EXTENDS Naturals, FiniteSets

CONSTANTS
  Entity,      \* canonical entities
  Product,     \* those that are products
  Fact,        \* relation facts, the edges of the graph
  Holds,       \* the HOLDS facts an external scope can contribute
  Subject,     \* [Fact -> Entity]
  Object,      \* [Fact -> Entity]
  Releases,    \* transformer versions are 1 .. Releases
  Yield,       \* [1 .. Releases -> SUBSET Fact], what a rebuild derives
  Holdings,    \* TRUSTED_HOLDINGS_RUNTIME_ENABLED
  ReadsOverlap,\* jobs proceed while a read or a startup is in progress
  MaxFaults,   \* bound on failures and kills
  Withdrawn    \* no value: a store that refuses its readers

Release == 1 .. Releases
Base == Fact \ Holds

ASSUME PublicationAssumption ==
  /\ IsFiniteSet(Entity) /\ IsFiniteSet(Fact)
  /\ Product \subseteq Entity
  /\ Holds \subseteq Fact
  /\ Subject \in [Fact -> Entity]
  /\ Object \in [Fact -> Entity]
  /\ \A h \in Holds : Object[h] \notin Product
  /\ Releases \in Nat \ {0}
  /\ Yield \in [Release -> SUBSET Base]
  /\ Holdings \in BOOLEAN
  /\ ReadsOverlap \in BOOLEAN
  /\ MaxFaults \in Nat

VARIABLES
  release,     \* the release the operator's commands and new processes run
  snapshot,    \* the authoritative snapshot rows: status, transformer version
  scope,       \* the holdings scope is READY
  entities,    \* committed canonical entities
  facts,       \* committed relation facts
  job,         \* where the operator's job is
  data,        \* what the graph job extracted
  todo,        \* entities or facts the graph job has still to write
  manifest,    \* the graph's manifest
  graph,       \* the graph's content
  index,       \* the semantic index artifact
  service,     \* the API process: where it is, its release, the HOLDS it expects
  read,        \* a graph read of the service
  extracted,   \* every projection extracted (history)
  faults       \* failures and kills so far

rdbVars == <<release, snapshot, scope, entities, facts>>
jobVars == <<job, data, todo>>
derivedVars == <<manifest, graph, index, extracted>>
serviceVars == <<service, read>>
pubVars == <<rdbVars, jobVars, derivedVars, serviceVars, faults>>

Ends(f) == {Subject[f], Object[f]}
EntitiesOf(F) == UNION {Ends(f) : f \in F}
Empty == [nodes |-> {}, edges |-> {}]
NoRows == [at |-> "idle", count |-> 0, rows |-> {}]
Down == [at |-> "down", release |-> 1, holds |-> 0]

\* The jobs wait for reads and startups in progress, unless they overlap.
Undisturbed ==
  ReadsOverlap \/ (service.at \in {"down", "up"} /\ read.at \in {"idle", "complete", "partial"})

\* CanonicalV2SnapshotSelector.select for a process of release v, without and
\* with the external scopes.
SnapshotReady(v) == snapshot = [status |-> "READY", version |-> v]
Selectable(v) == SnapshotReady(v) /\ (Holdings => scope)

\* The facts of the selected snapshots.
Selected == IF Holdings THEN facts ELSE facts \ Holds

\* Fault: the status alone decides.
StatusOnly(m, v) == m.status = "READY"

\* DerivedStoreManifest.assert_compatible.
Compatible(m, v) == m.status = "READY" /\ m.version = v

PublicationInit ==
  /\ release = 1
  /\ snapshot = [status |-> "NONE", version |-> 1]
  /\ scope = FALSE
  /\ entities = {}
  /\ facts = {}
  /\ job = "none"
  /\ data = Empty
  /\ todo = {}
  /\ manifest = [status |-> "NONE", version |-> 1, holds |-> 0]
  /\ graph = Empty
  /\ index = [status |-> "NONE", version |-> 1, docs |-> Empty]
  /\ service = Down
  /\ read = NoRows
  /\ extracted = {}
  /\ faults = 0

Start(j) ==
  /\ Undisturbed
  /\ job = "none"
  /\ job' = j

\* Fault: the snapshot is READY from _initialize on.
RebuildBeginReady ==
  /\ Start("rebuild")
  /\ ~SnapshotReady(release)
  /\ snapshot' = [status |-> "READY", version |-> release]
  /\ UNCHANGED <<release, scope, entities, facts, data, todo, derivedVars, serviceVars, faults>>

\* Fault: a snapshot that is STAGED is taken for a rebuild in progress.
RebuildBeginOnce ==
  /\ Start("rebuild")
  /\ snapshot.version # release \/ snapshot.status \notin {"READY", "STAGED"}
  /\ snapshot' = [status |-> "STAGED", version |-> release]
  /\ UNCHANGED <<release, scope, entities, facts, data, todo, derivedVars, serviceVars, faults>>

-----------------------------------------------------------------------------
\* rebuild: _is_ready skips, _initialize commits STAGED and STARTED.
RebuildBegin ==
  /\ Start("rebuild")
  /\ ~SnapshotReady(release)
  /\ snapshot' = [status |-> "STAGED", version |-> release]
  /\ UNCHANGED <<release, scope, entities, facts, data, todo, derivedVars, serviceVars, faults>>

\* _reconcile: with the rows of the release inserted there are as many products
\* as it expects.  Relation facts are not counted.
ProductsReconcile ==
  Cardinality((entities \cup EntitiesOf(Yield[release])) \cap Product)
    = Cardinality(EntitiesOf(Yield[release]) \cap Product)

\* The one transaction of a rebuild: rows are only ever inserted, reconciled,
\* and the snapshot is READY.
RebuildCommit ==
  /\ Undisturbed
  /\ job = "rebuild"
  /\ ProductsReconcile
  /\ entities' = entities \cup EntitiesOf(Yield[release])
  /\ facts' = facts \cup Yield[release]
  /\ snapshot' = [status |-> "READY", version |-> release]
  /\ job' = "none"
  /\ UNCHANGED <<release, scope, data, todo, derivedVars, serviceVars, faults>>

\* Any exception, the reconciliation's too: the transaction is rolled back,
\* another marks FAILED.
RebuildFail ==
  /\ Undisturbed
  /\ job = "rebuild"
  /\ \/ ~ProductsReconcile /\ UNCHANGED faults
     \/ faults < MaxFaults /\ faults' = faults + 1
  /\ snapshot' = [snapshot EXCEPT !.status = "FAILED"]
  /\ job' = "none"
  /\ UNCHANGED <<release, scope, entities, facts, data, todo, derivedVars, serviceVars>>

\* Activation of the holdings scope, one transaction: securities are created,
\* a fact is inserted when its product is known.
Activate ==
  /\ Undisturbed
  /\ job = "none"
  /\ scope' = TRUE
  /\ facts' = facts \cup {h \in Holds : Subject[h] \in entities}
  /\ entities' = entities \cup {Object[h] : h \in Holds}
  /\ UNCHANGED <<release, snapshot, jobVars, derivedVars, serviceVars, faults>>

\* The operator deploys the next release; a running service keeps its own.
Upgrade ==
  /\ Undisturbed
  /\ job = "none"
  /\ release < Releases
  /\ release' = release + 1
  /\ UNCHANGED <<snapshot, scope, entities, facts, jobVars, derivedVars, serviceVars, faults>>

-----------------------------------------------------------------------------
\* ingest_graph_v2: selection and extraction.  No other job runs, so what the
\* extractor's statements read is one state of the database.
IngestExtract ==
  /\ Start("extracted")
  /\ Selectable(release)
  /\ data' = [nodes |-> entities, edges |-> Selected]
  /\ extracted' = extracted \cup {[version |-> release, content |-> data']}
  /\ UNCHANGED <<rdbVars, todo, manifest, graph, index, serviceVars, faults>>

\* Fault: the old manifest stays until the content is complete.
IngestBeginSilently ==
  /\ Undisturbed
  /\ job = "extracted"
  /\ job' = "clearing"
  /\ UNCHANGED <<rdbVars, data, todo, derivedVars, serviceVars, faults>>

\* CanonicalV2GraphBackend.build, up to the manifest that withdraws the graph.
IngestBegin ==
  /\ Undisturbed
  /\ job = "extracted"
  /\ manifest' = [status |-> "BUILDING", version |-> release, holds |-> 0]
  /\ job' = "clearing"
  /\ UNCHANGED <<rdbVars, data, todo, graph, index, extracted, serviceVars, faults>>

\* _clear: batches of relationships, then of nodes.
ClearEdges ==
  /\ Undisturbed
  /\ job = "clearing"
  /\ \E batch \in SUBSET graph.edges :
       batch # {} /\ graph' = [graph EXCEPT !.edges = @ \ batch]
  /\ UNCHANGED <<rdbVars, jobVars, manifest, index, extracted, serviceVars, faults>>

ClearNodes ==
  /\ Undisturbed
  /\ job = "clearing"
  /\ graph.edges = {}
  /\ \E batch \in SUBSET graph.nodes :
       batch # {} /\ graph' = [graph EXCEPT !.nodes = @ \ batch]
  /\ UNCHANGED <<rdbVars, jobVars, manifest, index, extracted, serviceVars, faults>>

Cleared ==
  /\ Undisturbed
  /\ job = "clearing"
  /\ graph = Empty
  /\ job' = "nodes"
  /\ todo' = data.nodes
  /\ UNCHANGED <<rdbVars, data, derivedVars, serviceVars, faults>>

\* _write_nodes, one batch (MERGE).
WriteNodes ==
  /\ Undisturbed
  /\ job = "nodes"
  /\ \E batch \in SUBSET todo :
       /\ batch # {}
       /\ graph' = [graph EXCEPT !.nodes = @ \cup batch]
       /\ todo' = todo \ batch
  /\ UNCHANGED <<rdbVars, job, data, manifest, index, extracted, serviceVars, faults>>

NodesWritten ==
  /\ Undisturbed
  /\ job = "nodes"
  /\ todo = {}
  /\ job' = "edges"
  /\ todo' = data.edges
  /\ UNCHANGED <<rdbVars, data, derivedVars, serviceVars, faults>>

\* _write_edges, one batch: an edge whose endpoints are not matched is not
\* written, and nothing says so.
WriteEdges ==
  /\ Undisturbed
  /\ job = "edges"
  /\ \E batch \in SUBSET todo :
       /\ batch # {}
       /\ graph' = [graph EXCEPT !.edges = @ \cup {e \in batch : Ends(e) \subseteq graph.nodes}]
       /\ todo' = todo \ batch
  /\ UNCHANGED <<rdbVars, job, data, manifest, index, extracted, serviceVars, faults>>

\* Count reconciliation: the graph becomes readable.
Reconciled ==
  /\ Undisturbed
  /\ job = "edges"
  /\ todo = {}
  /\ Cardinality(graph.nodes) = Cardinality(data.nodes)
  /\ Cardinality(graph.edges) = Cardinality(data.edges)
  /\ manifest' = [status |-> "READY", version |-> release,
                  holds |-> Cardinality(data.edges \cap Holds)]
  /\ job' = "acknowledge"
  /\ UNCHANGED <<rdbVars, data, todo, graph, index, extracted, serviceVars, faults>>

\* The READY manifest is acknowledged and the job ends.
Acknowledged ==
  /\ Undisturbed
  /\ job = "acknowledge"
  /\ job' = "none"
  /\ UNCHANGED <<rdbVars, data, todo, derivedVars, serviceVars, faults>>

\* except Exception in build: also of a READY write whose answer was lost.
IngestFail ==
  /\ Undisturbed
  /\ job \in {"clearing", "nodes", "edges", "acknowledge"}
  /\ faults < MaxFaults
  /\ faults' = faults + 1
  /\ manifest' = [status |-> "FAILED", version |-> release, holds |-> 0]
  /\ job' = "none"
  /\ UNCHANGED <<rdbVars, data, todo, graph, index, extracted, serviceVars>>

-----------------------------------------------------------------------------
\* SemanticIndexBuilder.build: the documents are read, embedded and written
\* to a temporary file.
IndexBuild ==
  /\ Start("indexing")
  /\ SnapshotReady(release)
  /\ data' = [nodes |-> EntitiesOf(facts \ Holds) \cap Product, edges |-> {}]
  /\ extracted' = extracted \cup {[version |-> release, content |-> data']}
  /\ UNCHANGED <<rdbVars, todo, manifest, graph, index, serviceVars, faults>>

\* Fault: the target is opened and filled in place, the manifest first.
IndexInPlace ==
  /\ Undisturbed
  /\ job = "indexing"
  /\ index' = [status |-> "READY", version |-> release, docs |-> Empty]
  /\ \/ job' = "none" /\ UNCHANGED data
     \/ UNCHANGED <<job, data>>
  /\ UNCHANGED <<rdbVars, todo, manifest, graph, extracted, serviceVars, faults>>

\* os.replace of the artifact, which holds documents and manifest.
IndexReplace ==
  /\ Undisturbed
  /\ job = "indexing"
  /\ index' = [status |-> "READY", version |-> release, docs |-> data]
  /\ job' = "none"
  /\ UNCHANGED <<rdbVars, data, todo, manifest, graph, extracted, serviceVars, faults>>

\* A job is killed, cancelled, or its last statement fails too.
Killed ==
  /\ Undisturbed
  /\ job # "none"
  /\ faults < MaxFaults
  /\ faults' = faults + 1
  /\ job' = "none"
  /\ UNCHANGED <<rdbVars, data, todo, derivedVars, serviceVars>>

Rdb == RebuildBegin \/ RebuildCommit \/ RebuildFail \/ Activate \/ Upgrade

Ingest ==
  \/ IngestExtract \/ IngestBegin \/ ClearEdges \/ ClearNodes \/ Cleared
  \/ WriteNodes \/ NodesWritten \/ WriteEdges
  \/ Reconciled \/ Acknowledged \/ IngestFail

-----------------------------------------------------------------------------
Continue(at) == service' = [service EXCEPT !.at = at]
Gate(check, ok, next) ==
  /\ service.at = check
  /\ IF ok THEN Continue(next) ELSE service' = Down
  /\ UNCHANGED <<rdbVars, jobVars, derivedVars, read, faults>>

\* The API process starts and runs validate_derived_stores: the database,
\* the graph's manifest, the holdings reconciliation, the semantic index.
ServiceStart ==
  /\ service.at = "down"
  /\ service' = [at |-> "rdb", release |-> release, holds |-> 0]
  /\ UNCHANGED <<rdbVars, jobVars, derivedVars, read, faults>>

GateRdb == Gate("rdb", Selectable(service.release), "graph")

GateManifest ==
  /\ service.at = "graph"
  /\ IF Compatible(manifest, service.release)
     THEN service' = [service EXCEPT !.at = IF Holdings THEN "holds" ELSE "index",
                                     !.holds = manifest.holds]
     ELSE service' = Down
  /\ UNCHANGED <<rdbVars, jobVars, derivedVars, read, faults>>

\* Fault: any HOLDS in the graph will do.
SomeHolds == Selectable(service.release) /\ service.holds > 0

\* The graph has as many HOLDS as the database, and some.
HoldsReconciled ==
  /\ Selectable(service.release)
  /\ Cardinality(Selected \cap Holds) > 0
  /\ Cardinality(Selected \cap Holds) = service.holds

GateHolds == Gate("holds", HoldsReconciled, "index")

GateIndex == Gate("index", Compatible(index, service.release), "up")

\* The process ends, for whatever reason.
ServiceStop ==
  /\ service.at # "down"
  /\ service' = Down
  /\ read' = NoRows
  /\ UNCHANGED <<rdbVars, jobVars, derivedVars, faults>>

\* Fault: the manifest checked at startup is trusted.
ReadUnasserted ==
  /\ service.at = "up"
  /\ read.at \in {"idle", "complete", "partial"}
  /\ read' = [NoRows EXCEPT !.at = "asserted"]
  /\ UNCHANGED <<rdbVars, jobVars, derivedVars, service, faults>>

-----------------------------------------------------------------------------
\* RealGraphRetriever: assert_ready, then the count, then the rows, each its
\* own query.  The path stands for one that matches every edge.
ReadAssert ==
  /\ service.at = "up"
  /\ read.at \in {"idle", "complete", "partial"}
  /\ Compatible(manifest, service.release)
  /\ read' = [NoRows EXCEPT !.at = "asserted"]
  /\ UNCHANGED <<rdbVars, jobVars, derivedVars, service, faults>>

ReadCount ==
  /\ read.at = "asserted"
  /\ read' = [read EXCEPT !.at = "counted", !.count = Cardinality(graph.edges)]
  /\ UNCHANGED <<rdbVars, jobVars, derivedVars, service, faults>>

\* candidate_set_complete: as many rows as the count said.
ReadRows ==
  /\ read.at = "counted"
  /\ read' = [read EXCEPT !.rows = graph.edges,
                          !.at = IF Cardinality(graph.edges) = read.count
                                 THEN "complete" ELSE "partial"]
  /\ UNCHANGED <<rdbVars, jobVars, derivedVars, service, faults>>

Serve ==
  \/ ServiceStart \/ GateRdb \/ GateManifest \/ GateHolds \/ GateIndex \/ ServiceStop
  \/ ReadAssert \/ ReadCount \/ ReadRows

PublicationNext ==
  Rdb \/ Ingest \/ IndexBuild \/ IndexReplace \/ Killed \/ Serve

PublicationSpec == PublicationInit /\ [][PublicationNext]_pubVars

\* The operator repeats the documented jobs (deploy/README.md:83-95) until the
\* stores are built, and a job that is not killed or failed goes on.  Failures
\* are finitely many (MaxFaults).
PublicationFairness ==
  /\ SF_pubVars(Activate)
  /\ SF_pubVars(RebuildBegin)
  /\ SF_pubVars(IngestExtract)
  /\ SF_pubVars(IndexBuild)
  /\ WF_pubVars(RebuildCommit)
  /\ WF_pubVars(IngestBegin \/ ClearEdges \/ ClearNodes \/ Cleared \/ WriteNodes
                \/ NodesWritten \/ WriteEdges \/ Reconciled \/ Acknowledged)
  /\ WF_pubVars(IndexReplace)

FairPublicationSpec == PublicationSpec /\ PublicationFairness

-----------------------------------------------------------------------------
Content == [nodes : SUBSET Entity, edges : SUBSET Fact]
Status == {"NONE", "STAGED", "BUILDING", "READY", "FAILED"}

PublicationTypeOK ==
  /\ release \in Release
  /\ snapshot \in [status : Status, version : Release]
  /\ scope \in BOOLEAN
  /\ entities \subseteq Entity
  /\ facts \subseteq Fact
  /\ job \in {"none", "rebuild", "extracted", "clearing", "nodes", "edges",
              "acknowledge", "indexing"}
  /\ data \in Content
  /\ todo \subseteq Entity \cup Fact
  /\ manifest \in [status : Status, version : Release, holds : Nat]
  /\ graph \in Content
  /\ index \in [status : Status, version : Release, docs : Content]
  /\ service \in [at : {"down", "rdb", "graph", "holds", "index", "up"},
                  release : Release, holds : Nat]
  /\ read \in [at : {"idle", "asserted", "counted", "complete", "partial"},
               count : Nat, rows : SUBSET Fact]
  /\ extracted \subseteq [version : Release, content : Content]
  /\ faults \in 0 .. MaxFaults

\* A READY snapshot has been loaded completely, whatever failed or was killed
\* before: the rows and the status that vouches for them are one commit.
ReadySnapshotIsLoaded ==
  snapshot.status = "READY" => Yield[snapshot.version] \subseteq facts

\* The products in the database are those of the READY snapshot's release,
\* although a rebuild removes nothing: one that would keep a product of an
\* earlier release is refused.
ProductsAreCurrent ==
  snapshot.status = "READY" =>
    entities \cap Product = EntitiesOf(Yield[snapshot.version]) \cap Product

\* A graph read that reports a complete candidate set has returned the edges
\* of one whole projection, extracted for the release that reads it: never of
\* a graph that is being cleared, half written, or left by a killed job.
ReadsAreWhole ==
  read.at = "complete" =>
    \E p \in extracted : p.version = service.release /\ p.content.edges = read.rows

\* Versions stand for contents: when the database and a derived store are both
\* accepted by a process of some release, they hold the same source facts.
BundleIsCoherent ==
  \A v \in Release : Selectable(v) =>
    /\ Compatible(manifest, v) => graph.edges \ Holds = facts \ Holds
    /\ Compatible(index, v) =>
         index.docs.nodes = EntitiesOf(facts \ Holds) \cap Product

\* A process that is about to be ready has a graph with exactly the database's
\* facts.  The HOLDS are compared by number only, and their activation does
\* not change any version.
ServiceStartsCurrent ==
  service.at = "index" => graph.edges = Selected

\* No failure, wherever it strikes, leaves the stores in a state from which the
\* documented jobs cannot bring the whole bundle back.
StoresRecover ==
  []<>(/\ Selectable(release)
       /\ Compatible(manifest, release)
       /\ Compatible(index, release))

\* The graph, batch by batch under its manifest, and the index, by one atomic
\* replace, implement the abstract derived store.
ShownGraph ==
  IF manifest.status = "READY"
  THEN [version |-> manifest.version, content |-> graph] ELSE Withdrawn
ShownIndex ==
  IF index.status = "READY"
  THEN [version |-> index.version, content |-> index.docs] ELSE Withdrawn

Graph == INSTANCE DerivedStore WITH shown <- ShownGraph, extracted <- extracted
Index == INSTANCE DerivedStore WITH shown <- ShownIndex, extracted <- extracted

\* The graph's readers are refused, or shown a whole projection.
GraphIsDerivedStore == Graph!StoreSpec

\* The index's readers are refused, or shown a whole projection.
IndexIsDerivedStore == Index!StoreSpec

=============================================================================
