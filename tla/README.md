# TLA+ specifications of the fund agent

This directory holds TLA+ specifications of the question-answering agent in this
repository, the TLC configurations that check them on small instances, and proofs
that TLAPS checks for every value of the constants. The code is the reference:
every definition is translated from it, and `PROJECT.json` ("map") gives the lines.
Paths below are relative to the repository's root; file names without a directory
are modules of this one.

1. [The system](#1-the-system) · 2. [Modules](#2-modules) ·
3. [Correspondence with the code](#3-correspondence-with-the-code) ·
4. [What is checked](#4-what-is-checked) · 5. [Bounds](#5-bounds) ·
6. [Fairness](#6-fairness) · 7. [What is proved](#7-what-is-proved) ·
8. [Disagreements found](#8-disagreements-found) ·
9. [What is not modelled](#9-what-is-not-modelled) · 10. [Plan](#10-plan)

To repeat a check: `tlc -config MCQueryExecutor_plans.cfg MCQueryExecutor`, and so on
with the pairs in section 4; to repeat a proof: `tlapm AnswerRequest_proofs.tla`.

## 1. The system

The agent answers Korean questions about financial products. One request runs a
pipeline inside one asyncio task; the stores it reads are derived, by offline jobs,
from four workbooks and from external snapshots, which crawls collect; a shell script puts releases of code
and of artifacts on the one production host.

```
 client ─GET /answer─► boundary (api/answer.py, asyncio.timeout)
                         └► pipeline (agent/service.py)
                              parse ─► resolve ─► plan ─► execute ─► validate ─► write
                               LLM      registry            │                     LLM
                                                            ├─ RDB   (retrieval/rdb_v2.py)
                                                            ├─ graph (retrieval/graph.py)
                                                            ├─ index (retrieval/semantic.py)
                                                            └─ INTERNAL (execution/transforms.py)
 workbooks ─► rebuild ─► canonical_v2 (RDB) ─► graph job ─► Neo4j
 crawl ─► scope ─► activate ──┘            └─► index job ─► semantic artifact
 operator  ─► deploy_naver.sh ─► overlays, containers, `current`
```

| Component | State it keeps | Operations | What is hard | What makes it correct |
|---|---|---|---|---|
| Plan executor, `app/execution/executor.py` | the plan, results per step, the tasks of the layer | walk layers, run steps side by side with a timer each, cancel and drain, collect final records | tasks finishing in any order, a programmer error beside running siblings, cancellation at any await and again while draining | a step runs on successes only, is skipped exactly when something upstream failed, is recorded in plan order; no task outlives the call; no fault is hidden |
| Endpoint and pipeline, `app/api/answer.py`, `app/agent/service.py` | the request's stage, attempt and provenance of the parse, the response | analyze, parse, repair, resolve, plan, execute, validate, write; render; time out | the deadline or a shutdown at any await; which exception reaches which clause; one repair | an answer rests on a complete execution; faults reach the client as what they are; the number of calls a reply infers is the number sent; every request ends |
| Query planning, `app/planning/` | none between queries | route, rule plan, supervisor plan, validation of a plan | the limit is placed on one of several steps; reordering steps rewires dependencies and candidates | an accepted plan covers every constraint of the question and ends in one step |
| Federated retrieval and answerability, `app/retrieval/`, `app/execution/transforms.py`, `app/evidence/validator.py` | the records and completeness of each step | retrieve from a window of each store, bind by candidates, intersect, rank, decide | each store shows a window; a truncated set looks like a complete one; zero in a window is not zero in the world | an answer meets every constraint, a ranking is global, "nothing matches" is true |
| Store publication and readiness, `app/data/v2_rebuild.py`, `app/data/holdings.py`, `app/graph/`, `app/search/indexer.py`, `app/derived/manifest.py` | snapshot rows and facts, scope, graph and its manifest, index artifact | rebuild, activate, extract, clear and write in batches, publish, start, read | a kill between any two statements; a lost acknowledgement; READY data of an older release; readers beside jobs | readers are refused or shown one whole extraction; versions stand for contents; the jobs can always bring the bundle back |
| Deployment, `scripts/deploy_naver.sh`, `app/deployment/` | overlays, deployment states, the `current` link, two containers | rehearse, replace, inspect, gate, promote, roll back, recreate | a command failing anywhere, an ERR trap with errexit off, a trap that fires twice, HUP | what `current` records is what runs; `current` moves only to a READY release; a rollback target exists |
| Canonical rebuild, `app/data/v2_rebuild.py`, `v2_schema.py` | the tables of canonical_v2, the status of the workbooks' snapshots | read the rows, compare them, write them, quarantine, reconcile, fail | rows that contradict each other; inserts that clash and do nothing; a database that other scopes have written to; a kill between staging and loading | every row is accounted for; a disputed column decides nothing; good workbooks are always accepted |
| External scopes, `app/data/holdings.py`, `security_issuers.py`, `external_metrics.py`, `scripts/activate_*.py` | the scopes' rows, securities and issuers in the same tables | integrate row by row, twice, in one transaction | each row reads what the rows and scopes before it left; scopes in any order, again, beside rebuilds | an activation repeated changes nothing; one issuer per security |
| Crawler, `app/external_data/` | the workspace of a snapshot: raw responses, records, rows, links, results, manifest; scopes built from it | list, fetch, read, write, crawl again, finish, build a scope, load it | a kill between any two writes; a source that answers differently the second time; READY with products missing; a scope older than its snapshot | a READY snapshot is backed row by row; what is registered is never lost; an accepted scope holds whole, current portfolios |
| Query analysis, `app/query/` | a parse per question, calls of the language model | read by rules; propose, review, repair once; normalize, default | the language model may drop, invert or narrow anything, twice; unread words | what the rules selected by still restricts what is executed, and no wish and no operation nobody executes is read away |
| Entity resolution, `app/entity/` | none | look aliases up, score, disambiguate | ambiguity | a mention is resolved to one entity or reported |
| Ontology, `app/ontology/` | static data loaded at start | look up | – | – |
| Evidence and rendering, `app/evidence/` | none | build evidence, format it | – | a value shown is a value retrieved |
| v1 bundle, search scoring, LLM client, frontend, migrations, reports | | | | outside the present scope, see section 9 |

Components interact in five ways: by calls inside the request's task (endpoint →
pipeline → executor → retrievers), by shared stores (jobs write, requests read), by
versions (a reader accepts a snapshot or a manifest whose transformer version is its
own), by files with checksums (a scope refers to the snapshot it was built from, an
activation to the scope), and by the overlay file that tells compose which release to run.

`PROJECT.json` lists every component with its sources, and under "hazards" the forty
places where the code is exposed to something a test would hardly reach, each with the
properties that would notice, or with the reason why none does.

## 2. Modules

| Module | Models | Built on |
|---|---|---|
| `PlanExecution` | the abstract execution of a plan | – |
| `QueryExecutor` | layers, tasks, timers, cancellation of the executor | refines `PlanExecution` |
| `AnswerRequest` | one request, boundary and pipeline | extends `QueryExecutor`: the request's executor is that module's, step for step |
| `AnswerRequest_proofs` | of the executor `IInv`, ten theorems; of the request `RequestInv`, six | `AnswerRequest` |
| `QueryPlanning` | routing, plans, plan validation, as operators over a question's shape | – |
| `FederatedQuery` | a planned question over three stores | extends `QueryPlanning` |
| `DerivedStore` | what a derived store promises its readers | – |
| `StorePublication` | jobs, database, graph, index, service startup and reads | refines `DerivedStore` twice, as the graph and as the index |
| `StorePublication_proofs` | four invariants, eight theorems | `StorePublication` |
| `Deployment` | the deployment script on its host | – |
| `Deployment_proofs` | three invariants, four theorems | `Deployment` |
| `FederatedQuery_proofs` | `FederationInv`, four theorems | `FederatedQuery` |
| `SnapshotWorkspace` | files and manifest of an external snapshot, crash and resumption | – |
| `HoldingsSources` | what the adapters of the three managers read out of a response, and the catalogs | – |
| `HoldingsCrawl` | the production crawls of holdings, both passes | extends `SnapshotWorkspace`, `HoldingsSources` |
| `HoldingsScope` | scopes built from a snapshot, what loading one accepts | extends `HoldingsCrawl` |
| `HoldingsScope_proofs` | `CrawlInv`, `ScopeInv`, `WholeInv`, nine theorems | `HoldingsScope` |
| `CanonicalSchema` | the tables, their keys, inserts that may do nothing | – |
| `WorkbookRows`, `WorkbookFacts` | what a row of a workbook writes | extend `CanonicalSchema` in turn |
| `ExternalScopes` | what the activation of holdings, issuers and returns writes | extends `CanonicalSchema` |
| `CanonicalStore` | rebuilds interleaved with activations | extends `WorkbookFacts`, `ExternalScopes` |
| `CanonicalStore_proofs` | `StoreInv`, six theorems | `CanonicalStore` |
| `CanonicalStability_proofs` | `StableInv`, two theorems | `CanonicalStore_proofs` |
| `QuestionWords`, `QuestionRules` | the rule analyzer: pieces, constraints, normalization, defaults | extend one another |
| `CandidateReview` | the review of a language model's proposal and the parse it becomes | extends `QuestionRules` |
| `QuestionParsing` | rules, proposal, repair | extends `CandidateReview` |
| `QuestionParsing_proofs` | `ParsedIsReviewed`, four theorems | `QuestionParsing` |
| `HoldingsSample` | products and responses for the crawl instances | – |
| `MC…` | instances for TLC: sets of plans, questions, releases | the module they are named after |

In each module a definition introduced by the comment "Fault:" is a variation of the
definition after it, the way a plausible bug would have it. No specification uses it;
the "mutants" of `PROJECT.json` name one for each property, and the property fails when
the variation takes the original's place.

## 3. Correspondence with the code

### QueryExecutor, `app/execution/executor.py`

`main` is where `execute_with_result` is: *select* at the head of the `while`, *gather* in
`await asyncio.gather(*tasks)`, *drain* in the second gather of the `except BaseException`
branch. `results` is `context.step_results`; `work` is the tasks and `layer_results` of the
current layer. `SelectLayer` is the list comprehension and the loop over the ready steps up
to the gather; `RecordLayer` the recording of a layer as a whole; `ObserveError`, `Raise` and
`Cancel` the exception branch; `Return` the end with `_collect_final_records`;
`RaiseNonExecutable` the `RuntimeError`. `StepSucceeds`, `StepFails`, `StepTimesOut`,
`StepRaises` are the outcomes of `_execute_step`, `StepUnwinds` a cancelled task leaving its
retriever. An INTERNAL step cannot time out: it never awaits. `Cancel` may arrive when every
task is done and the gather has not yet returned, and again during the drain, where it
replaces the exception.

Abstracted: the records of a step are the step; warnings, timings and error texts are gone.

### AnswerRequest, `app/api/answer.py`, `app/agent/service.py`

`at` is the await the request's task is in; code between two awaits is one action. `attempt`,
`verdict` and `provenance` are what the parser keeps of its proposals; no code counts the LLM calls. What a
reply reports is inferred (`Summary`, `Declining`): from the provenance of an accepted parse, from the
exception of a failed one, and, for the writer, from the verdict and the number of calls an answer takes.
`posts` is a history variable that nothing reads: the requests the LLM clients sent, one when a call starts.
`ReportedCallsAreReal` compares the two. `expired` and `shutdown` tell apart the two causes of a
`CancelledError`: `asyncio.timeout` converts it only when its own timer was the cause and
nobody else cancelled (`CancelledAt`). `Respond` is `_render_answer_response` with its
fallback, always status 200. `Validate` keeps one rule of the validator exactly: a step that
did not succeed is a blocking finding; everything else it finds is left open. `Execute`,
`Deadline` and `Shutdown` drive the extended `QueryExecutor`.

### QueryPlanning and FederatedQuery, `app/planning/`, `app/retrieval/`, `app/execution/transforms.py`, `app/evidence/validator.py`

A question is a record of what planning looks at: the kinds of constraint it carries, what
its mention resolved to, the shape of its relations, its limit. A plan is a function from the
code's step ids to steps with dependencies, candidates, limits, the completeness they require
and the constraints they cover. `RuleRoute` and `RulePlan` are `FastRoutingChecker` and the
rule planner; `SupervisorSteps` is `DeterministicSupervisorPlanner`, `Reordered` its moving of
a selective step to the front; `Accepted` is `StructuredQueryPlanValidator`.

The stores' content is the truth of the question: `store[c]` is the set of entities that
satisfy constraint *c*. Entities are numbers in the order of the sort. Every retriever returns
a window, and says whether it is complete: `RunRdb` (filter, order, window), `RunBM25` (any
window of the matching documents), `RunVector` (never complete unless empty), `RunGraph` (a
window of *paths*, so that several paths of one entity can hide another). `Merge` is the
intersection and ranking of `InternalTransformExecutor`; `Validate` is the verdict.

Left out: comparison groups, checks of snapshot identity between steps (one generation per
question), the checks on single fields of evidence.

### StorePublication, `app/data/`, `app/graph/`, `app/search/`, `app/agent/service.py`

`snapshot` is the snapshot row (status, transformer version), `facts` and `entities` what is
committed. A rebuild is two transactions: `RebuildBegin` stages, `RebuildCommit` inserts,
reconciles products and marks READY; `RebuildFail` is the exception handler's transaction and
`Killed` none at all. The graph job is a chain of batches: `IngestExtract`, `IngestBegin` (the
BUILDING manifest), `ClearEdges`, `ClearNodes`, `Cleared`, `WriteNodes`, `NodesWritten`,
`WriteEdges` (an edge whose endpoints are not there is silently not written), `Reconciled`
(the READY manifest takes effect), `Acknowledged`. `IngestFail` may strike after the READY
manifest took effect and before its answer arrived. The index job is `IndexBuild` and one
`os.replace`, `IndexReplace`. A process starts through `GateRdb`, `GateManifest`, `GateHolds`,
`GateIndex` – the order of the readiness checks – and then reads the graph in three queries,
`ReadAssert`, `ReadCount`, `ReadRows`.

`extracted` is a history variable: every projection ever extracted. `ReadsOverlap` chooses
between two systems: with FALSE no job proceeds inside a read or a startup.

Abstracted: which rows a workbook yields is the constant `Yield`; the four dataset snapshots,
always updated together, are one; of a fact only its endpoints are kept.

### Deployment, `scripts/deploy_naver.sh`

`pc` is the next command of the script; `overlay` is `deployment.env` and `state`
`deployment-state` of every code directory; `api` and `frontend` are what the two containers
were created from. `docker compose up` may leave the old container, none or the new one,
whatever its exit status, and what was created is believed only after the inspection. Two
facts of bash are kept: `rollback || true` switches errexit off inside `rollback` (`Attempt`:
a failed command is passed over, counted by `ignored`), and with `set -E` a failure inside
`$(...)` fires the trap in the subshell and once more in the script (`again`). `Killed` fires no
trap. `Recreate` is the `compose_prod down` and `up -d` of `deploy/README.md:127-131`.

### SnapshotWorkspace, HoldingsSources, HoldingsCrawl, HoldingsScope, `app/external_data/`

`disk` holds the files of the workspace, each a set of lines, `manifest` the manifest on disk and
`memory` the one the process holds. `Store` is any of the atomic file writes and leaves `dirty`;
`WriteManifest` is the manifest's own replacement, so that every write of the code is two steps
with a possible `Crash` between them. `Resume` is `resume`: it validates what the manifest
registers (`manifest.py:96-138`), and what was written and not registered is found again where the
code reads the file itself. `at` is where the process stands: `Discover…` lists the products,
`StartPass`, `Skip`, `Fetch`, `FetchFails`, `WriteRecord`, `WriteRows`, `WriteLinks`, `Succeed`,
`Reject`, `ClashAborts` are one product, `PassEnds`, `WritePassResults`, `WriteResults`, `Measure`
and `Finish…` the end of a pass and of the crawl. KODEX is resumable, tolerates a share of failed
products and may end READY; TIGER and iShares run once and end PARTIAL, and do not catch the
contract error of a clash. A response is a record of what the three adapters look at;
`KodexQuality`, `TigerQuality`, `ISharesQuality` are their checks. `Build…Scope`, `WriteSelection` and
`WriteScope` are the three files of a scope, `ScopeAccepted` is what loading it verifies.

### CanonicalSchema, WorkbookRows, WorkbookFacts, ExternalScopes, CanonicalStore, `app/data/`

`db` maps each table to its rows; an insert that clashes in a unique key does nothing
(`on_conflict_do_nothing`), which `Fresh` computes against `SourceKeys`, `EntityKeys`, `FactKeys`
and so on. `Audit` is the first pass over all rows (columns that disagree, owners of identifiers,
the latest price date), `RowWrites` what `_process_row` writes for one row, `CollisionCases`,
`ConflictCases` and `Crosswalk` what follows all rows. `BeginRebuild` stages, `CommitRebuild` writes
everything and reconciles, `FailRebuild` is the exception handler or a kill, `Upgrade` a new mapping
or transformer version. `Activate` is one of the scripts: `Integrate` folds over the rows of the
scope, and is done twice. `stale` marks the scopes whose sources were written for since (`ReadersOf`): issuers
read the securities that holdings and other issuers create, and two scopes of one manager share the
identifiers of its constituents.

Texts are opaque: which of them is a date, a code or a concept is a constant; generated keys, checks
of single columns and tables nothing reads are left out.

### QuestionWords, QuestionRules, CandidateReview, QuestionParsing, `app/query/`

A question is a sequence of words, each standing for a surface form the analyzer tells apart. A
span of characters is the set of the words it quotes, whole (*i*) or in part (*-i*): the rules quote whole
words, a proposal what it likes. A part has no value, though it may have a digit, and `Touch` is the
overlap of one character that the review compares spans by (`semantic_validation.py:237-239, 427-428`). `Analyze` is `RuleBasedQueryAnalyzer.analyze`: collections and filters,
names and relations, constraints with their status, residuals, boolean tree, then `Normalize` and the
defaults (`DefaultLimit`, `ReturnPeriod`). `Review` is
`LLMSemanticCandidateValidator.validate`: `Grounded` (every value is
looked up in the words its span quotes), `CoversRuleMaterial` and `KeepsRuleMaterial` (what may not be
lost), `Convert` and `Restored` (the parse it becomes). `ParseByRule`, `Propose`, `AnswerMalformed` and
`CallFails` are the steps of `SemanticParserCoordinator.analyze`, with at most two calls. `Alternatives` is
how the relational store compiles the accepted parse (`rdb_v2.py:777-817`): the filters in the tree's leaves
as it joins them, the others beside it; `Unplanned` is what the planner refuses before that, every
negation among it (`planning/predicates.py`).

## 4. What is checked

Each run is a module and a configuration; "states" are distinct states.

| Run | Module, configuration | States | Shows |
|---|---|---|---|
| `executor` | `MCQueryExecutor`, `_plans` | 68,515 | every dependency graph over three steps, cyclic ones too, under every interleaving: the contract of README.md:86-102, the inductive invariant of the proofs, the refinement of `PlanExecution`, termination |
| `request` | `MCAnswerRequest`, `_pipeline` | 15,054 | one request in three deployments (no LLM, parser without repair, everything) over every acyclic plan of two steps, deadline and shutdown at every await |
| `federation_answers` | `MCFederatedQuery`, `_answers` | 1,051,468 | every shape of question with up to three constraints, planned and run over every content of stores of two products with windows of one |
| `publication_jobs` | `MCStorePublication`, `_jobs` | 2,873,700 | three releases, the second deriving more, the third what the first did; up to two failures or kills anywhere |
| `publication_recovery` | `MCStorePublication`, `_live` | 17,470 | after a failure anywhere the documented jobs bring database, graph and index back together, with services reading beside them |
| `deployment` | `MCDeployment`, `_release` | 82,667 | deployments and migrations of three codes and two artifact releases, failing, rolled back, killed at any command |
| `crawl` | `MCHoldingsScope`, `_crawl` | 1,515,884 | the crawls of the three managers over every catalog of three products, answers that change, one kill between any two writes, scopes built, loaded and left behind |
| `crawl_recovery` | `MCHoldingsCrawl`, `_recovery` | 104,980 | a resumable crawl that its operator starts again ends READY |
| `canonical` | `MCCanonicalStore`, `_rebuilds` | 4,804 | rebuilds, failures, kills and upgrades interleaved with activations of five scopes that read each other, in any order and again |
| `question` | `MCQuestionParsing`, `_review` | 4,758 | nineteen questions, and for each every proposal that keeps, drops, widens, changes or adds to what the rules read, quotes unread words in part or joins filters by a tree, and its repair |
| `publication_overlap` | `MCStorePublication`, `_overlap` | | a violated property, see section 8 |
| `crawl_registration` | `MCHoldingsScope`, `_registration` | | a violated property, see section 8 |

The properties are stated in the modules, each with a comment. The ones that carry most:

- `SkippedIffUpstreamFailed`, `LayerIsDepth`, `SuccessesAreRepresented`, `ImplementsPlanExecution`
  – skipping is exactly transitive failure, order is depth, nothing is lost and no input is
  shown beside the transform that stands for it, whatever the order of completion.
- `NoTaskOutlivesExecution`, `NoTaskOutlivesRequest`, `FaultsAreNotHidden`, `FaultsReachTheClient`
  – structured concurrency and truthful errors, also under a second cancellation.
- `AnswersMeetEveryConstraint`, `RankedAnswersAreGlobal`, `ZeroMatchIsTrue` – a truncated window
  ends in a decline, never in a wrong answer, ranking or "nothing matches".
- `GraphIsDerivedStore`, `IndexIsDerivedStore`, `ReadsAreWhole`, `BundleIsCoherent`,
  `ServiceStartsCurrent`, `StoresRecover` – readers see one whole extraction of their release.
- `ServesCurrent`, `CurrentIsGated`, `RollbackIsPossible` – `current` can be believed.
- `ReadyIsBacked`, `RegisteredIsKept`, `FinishedIsFinal`, `AcceptedScopeIsWhole`,
  `AcceptedScopeIsCurrent` – a snapshot and a scope can be believed, whatever was killed and however
  often the source changed its mind.
- `DisputedColumnsStayOpen`, `RebuildIsAccepted`, `ActivationIsStable`, `OneIssuerPerTicker`,
  `ReadyRowsAreTraced` – contradictions decide nothing, and neither repetition nor order breaks the store.
- `RuleSelectionsSurvive`, `TrustedMaterialSurvives`, `UnexecutableIsKept` – whatever product an
  executed parse selects meets each filter of the rules, through the boolean tree too, and what nobody can
  execute is not read as something harmless. Two things a language model *can* take away, and the properties say
  no more than is true: a disjunction leaves each filter only an alternative, and an unread word need
  only be touched (section 8).

Each property has a mutant in `PROJECT.json`, a plausible bug with which its run fails.

Deadlock is checked in every run but the crawls': a finished snapshot is final and nothing is left
to do. A finished execution, request, query or parse stutters by an explicit action (`Done`,
`Over`, `Ended`), so a deadlock would be a real one: a state nobody can leave.

## 5. Bounds

- **Executor, N = 3.** The deepest interaction needs three steps: a failure, a step skipped by
  it and a step skipped by that; or a failing task, a running sibling and a finished one. The
  proofs cover every N.
- **Request, N = 2.** The executor is checked on its own; here two steps give a sibling in
  flight when the timer fires, and a transform over a retrieval. LLM calls need no bound: the
  code makes at most three.
- **Federation: two products, windows of one, limit 1 or none, a candidate limit of two.** With
  windows smaller than the world every truncation occurs; two products are enough for one to
  hide the other, in the sort and by paths (`twice`). Three constraints reach every pair of
  stores plus a mention; the shapes that only four constraints give repeat these in another
  combination.
- **Publication: two funds, two or three relation facts, two holdings, three releases, two
  faults (`MaxFaults`).** Batches are arbitrary subsets, so two members give every partial
  clear and write. Two faults allow one during the repair of another. In `publication_recovery`
  one release and one fault suffice, because liveness asks for what follows the last fault.
- **Deployment: one combined and two split codes, two artifact releases, one of the six pairs not
  working, one passed-over command per rollback (`MaxIgnored`).** The first release may be any
  working one or none. The script repeats without bound.

- **Crawls: three products, six responses, one kill (`MaxCrashes`), a streak of two failures
  (`MaxStreak`), half the products may fail (`Tolerated`; five per cent in the recovery run, where
  none of three may).** One product answers wholly, partly or late, one with a different portfolio
  or an unsupported row, one is in no workbook: two passes can thus agree, differ, and differ in a
  way that clashes. One kill reaches the gap between any two writes and the resumption after it; the
  proofs cover any number of kills, products and responses.
- **Canonical store: eight workbook rows that meet every branch of the four datasets, and two rows that
  share a source key; five scopes of at most four rows.** Rebuilds, failures and activations repeat
  without bound: the store is finite because its keys are.
- **Questions: nineteen, one for each way out of the rules; proposals are all combinations of the
  readings of each constraint, with an order or a number added, unread words quoted whole or in part, filters
  joined by "and" or "or" or negated, and defaults claimed.** Two filters suffice for a tree to weaken one. The proofs cover every question and every proposal.

No other counter exists; `round` and `recordedIn` are bounded by N, `attempt` and `posts` by
the code.

## 6. Fairness

- `FairSpec` (executor): weak fairness of main and of every step's task, unwinding included. The
  event loop runs what is ready; a retriever's await is bounded by the step timer, an INTERNAL
  step is a synchronous call, and a cancelled retriever leaves its await.
- `FairRequestSpec`: weak fairness of the timer, of the executor's main coroutine, of the
  unwinding of a *cancelled* step and of code that does not await. Nothing is assumed of an LLM,
  the entity registry or a store: `EveryRequestEnds` says that the deadline alone is enough.
- `FairPublicationSpec`: strong fairness of the operator's four jobs (each is repeated until it
  has succeeded, `deploy/README.md:83-95`, though other jobs may be running when it is wanted),
  weak fairness of a job's progress, finitely many failures. Nothing is assumed of services.
- `FairCrawlSpec`: the operator starts an unfinished crawl again, with the second pass asked for
  (strong fairness of `Begin` with `verify`'), a running process goes on (weak fairness of
  `Process \/ Register`), and a source that is asked again and again answers at last (strong fairness
  of `Discover` and of `Fetch`). Nothing bounds how often the process is killed.
  `CrawlEndsReady` is about the one manager whose crawl can be resumed (KODEX) and excepts what
  stays without success for good (`Hopeless`): a process killed before the first manifest is on file,
  a response that was rejected in a pass, no product with rows at all, or a row on file without
  evidence whose product is not crawled any more.
- `Deployment` has no liveness property: the smoke test's curl has no timeout and the script may
  wait for ever.

## 7. What is proved

Fifty-three theorems, checked to the last leaf by TLAPS, for every value of the constants that
satisfies the modules' assumptions (any number of steps and set of plans; any finite sets of
entities and facts, yields, releases and faults; any codes, artifacts and sets of working
releases; any products, stores, windows and shapes of questions; any responses, catalogs and kills;
any workbooks and editions of scopes; any questions and proposals). `PROJECT.json` lists them.

**Executor** (assumptions: N a natural number, plans of their type). None of the contract's
properties is inductive alone. `IInv` adds how the parts of the state are tied together at each
point of main: `WorkMatchesResults` (results are what work was when the layer was recorded, and
only the current layer has work), `SkippedIffDependencyFailed` (skipping looks at the direct
dependencies), `MainMatchesWork` (which work and fault each point allows) and `LayersAreTight`
(a layer is never late: each pending step waits for a pending one or for the last layer). From
it follow all seven safety properties. `SkippedIffUpstreamFailed` is the interesting one: from
direct dependencies to all ancestors needs an argument along the order of recording.
`recordedIn` strictly falls along dependencies, so the set of recorded skipped steps without a
failed ancestor has a member recorded first, whose failed dependency is itself skipped and in
the set: a contradiction. `Refinement` maps `SelectLayer`, the tasks and the fault to
stuttering and `RecordLayer` to `Resolve`, using `IInv`.

**Request** (assumptions: the executor's, and deployments of their type). `RequestRunsExecutor`: a
request drives an execution of `QueryExecutor`, so `IInv` holds of its executor at every step.
`RequestInv` adds where the executor is and what has struck at each stage (`StageInv`: nothing
has struck before the first await of a step; once executing, a deadline or shutdown is exactly
the executor's cancellation; a request that ended left the executor unstarted, returned or
raised) and what was replied (`ReplyInv`); `CallsInv` ties the requests sent at each
stage to attempt and provenance. With `IInv` it gives that no task outlives
its request, that an answer stands on steps that all succeeded and ended, that the deadline
and a shutdown reach the client as themselves, and that the calls a reply infers are those sent.

**Publication.** `TypeInv` is type correctness with what is still to be written. `LoadInv`: the
committed facts have their endpoints, a READY snapshot is loaded. `BuildInv`: a READY manifest
or index names an extraction, and a graph job's progress is exactly what it has not yet
written – which is why counting at the end suffices. From these the two refinements of
`DerivedStore`. `CurrentInv` says that what is accepted by version was extracted from what is
committed, hence `BundleIsCoherent`; `ServeInv`, the same along a startup and a read, hence
`ReadsAreWhole` and `ServiceStartsCurrent`. These last two are theorems **under ~ReadsOverlap**
and the first is false without it (section 8). `ServiceStartsCurrent` needs that facts are only
ever inserted: then equally many HOLDS are the same HOLDS (`EquallyMany`).
`ProductsAreCurrent` rests on the same argument for products.

**Deployment.** `DiskInv` (a recorded release works and has an overlay) gives type correctness
and `RollbackIsPossible`. `OverlayInv` and `ContainerInv` follow the script's position and give
`ServesCurrent` and `CurrentIsGated` **under ~SameCode**: the current code is not deployed
again with another artifact release. Without it `ServesCurrent` is false (section 8).

**Federated queries** (assumptions: finitely many numbered entities, positive windows, well-formed
questions). The argument has three parts. `PlanShape` says what a plan looks like for *every* shape of
question: which steps there are, which bind which (`Waits`), where the limit went (`Limited`), and
`PlanClaims` who claims a constraint of an accepted plan. `Kept` relates what a step recorded to the
results that bound it; recording more leaves it alone (`RecordedStays`), so `FederationInv`, which
says it of all results, is inductive. The rest is about one finished set of results. Between them the
steps test every constraint (`TestedByTheSteps`), hence `AnswersMeet`; a complete result that was bound to
everything that qualifies holds everything that qualifies (`CompleteFindsAll`), which follows the chain of
bindings to `RdbSeesAll`, `ZeroMatchTrue` and `RankingGlobal`. `AnswersMeet` is a theorem for questions whose
mention the steps apply (`MentionApplied`), `RankingGlobal` for those that moreover ask for no more than
the relational store returns at once (`RdbMax`); both are false without (section 8, limitations).

**Crawls** (assumptions: the managers are the three, dates in order, no response is offered for two products,
catalogs list products of the workbooks). Every step of crawl, crash and
scope is one of a few kinds of write (`StepKinds`), so that each part of the invariant is preserved kind
by kind. `StageInv` ties memory and disk to where the process stands; `KeptInv` says that what is
registered is on disk and what the process holds is no less; `EvidenceInv` is the heart: a link is
written only after the rows of its response were *registered*, so a link found after a kill still
vouches for rows that are there, and rows without a link are the ones the measurement at the end
counts (`ProvenanceBacks`). `ScopeInv` adds what a scope on disk refers to. From these `ReadyIsBacked`,
`ReadyRowsAreRegistered`, `FinishedIsFinal`, `RegisteredIsKept`, `AcceptedScopeIsCurrent`. `WholeInv` is a
second invariant beside it, about *which* rows are on file. `VisitInv` says where a pass
stands: which products are still to visit and whose response is held. `PortfolioInv`: every row on file comes
from a response, and every success is backed by a response with its count whose rows are all on file (`Sound`).
`ResumeInv` is for a process that starts again: a registered catalog is not fetched a second time, and
as long as no result of a first pass is on file there are at most the rows of one response. An
eligible product then has as many rows as one of its responses, and those are among them, so they are the
same (`EligibleIsWhole`): `AcceptedScopeIsWhole`, for products of which no response lists a position twice
(`CountedOnce`). Without that condition it is false (section 8, limitations).

**The canonical store** (assumptions: rows of the four datasets that have what the mapping requires, scopes
of rows of their type and of one kind each, no scope named like a workbook). Five parts. What the rebuilds own – records, quarantine,
links, facts, evidence and conflicts of the four snapshots, `Own` – is left alone by an activation (`Leaves`):
each write of a scope is a `ForeignWrite` with a snapshot or record of its own, and leaving alone is carried through
the fold over the scope's rows as an interval of numbers without a least exception (`UpTo`), there being no
induction schema. Every write of a workbook row is a `RowWrite`: what it asserts rests on the row's own record, about
an entity the row is linked to, and on a column that may decide (`Quiet`). An insert may do nothing, but a link that
is not inserted clashes with one that says the same, because what a record describes is a function of the
record (`LinksLand`); so `Traced` is kept by each batch. That *every* row is accounted for is not a fact about
inserts at all: it follows from the counts that a rebuild compares before it commits, since as many records
as valid rows, all of them records of valid rows, are all of them (`Complete`). The last batch keeps every value of
a disputed column (`DisputesKept`). The fourth part is about what the reconciliation reads. `View` is the rows it
reads that are the workbooks' (`Native`); `Sound` is what it relies on about the others: a relation of a scope is one
of the two kinds with approved ends, its facts have evidence, an identifier says what kind of entity it is. Rows that
clash are both native or neither (`NativeClash`), so a batch does to the view what it would do to a store
holding nothing else (`ViewStep`), and an activation does nothing to it. The view is thus always empty or what one
rebuild of an empty store shows, and a rebuild over its own result shows the same once more (`RunAgain`: what was
stored or refused is stored or refused again, and of the updated observations the last of each fact remains). Two
sound stores with one view reconcile alike (`SameReconciles`). The fifth part, `IssuersHeld`, is about the scopes:
a scope keeps the edition it was activated with, an issuer's number names one organization, and each relation
of a scope of issuers is given by one of its rows, whose ticker the security has and no other row of the edition
disputes (`Backed`). A relation that is not stored again clashes with one that says the same, so a security
called resolved has an issuer; and the issuers of a security map into its tickers by the rows that give them
(`IssuerHasTicker`, `TickerHasIssuer`). `StoreInv` joins the five, and gives
`ReadyRowsAreTraced`, `DisputedColumnsStayOpen`, `RebuildIsAccepted` and `OneIssuerPerTicker`.

**Activations that change nothing** (the same assumptions; `CanonicalStability_proofs`). One integration need not be a
fixpoint: a row early in the scope may be answered by names that a later row brings, which is
why the scripts integrate twice. That the second integration is one rests on how little can change. A row
that a stored one stands in the way of is never inserted (`Blocked`), and no table lets go of a key (`Occupies`).
A scope gives names of its own kind and in its own identifier space (`Named`, `Widens`), so the answers
of one scope are not touched by rebuilds or by scopes that do not read it.
After the first integration the answer on every constituent and every issuer is final: a constituent has no
identity of its own, is disputed already, or has all its candidates given away (`Placed`); an issuer has its
entity, or too many of its name (`Steady`); and no later row takes that back. The second
integration writes what follows from these answers (`Settled`), and two columns are
written over, the status of a security and the record of an issuer row: these hold what the last row of the scope
to write them writes (`Right`), which a third pass ends with as well. `Settled` is then kept by every step that does not
mark the scope stale (`SettledStays`), and `StableInv`, which joins it with `StoreInv`, gives
`ActivationIsStable`.

**Questions** (no assumption). `ParsedIsReviewed`: what is handed on is the rules' parse or the outcome of
a review. The three properties then follow from what a review accepts and what the conversion keeps:
`NormalizeAdds`, `FilterIsKept`, `SortIsKept`, `LimitIsKept`, `TrustedIsRestored`, `OperationIsKept`,
`TypedIsKept`. The filters need an argument about the tree: without a disjunction all filters of the parse are
in force (`JoinedFilters`), and with one, a filter quoted at a leaf is met in that leaf's alternative, whether it
is the leaf or beside the tree (`LeafOrBeside`). So a list of values spelled out loses and gains nothing.

**Only model-checked.** Liveness (`Termination`, `EveryRequestEnds`, `StoresRecover`, `CrawlEndsReady`) and
anything with ENABLED is outside what the installed provers support. So is induction over data, which
is why `Ancestors` is a least set and not a recursive definition. Every other property of a passing run is
a theorem. The type invariants and
the auxiliary facts about the executor and the stores (`TasksHaveInputs`, `LayerIsDepth`,
`StopsOnCyclesOnly`, `ProductsAreCurrent`) are theorems and no longer checked by a run.

## 8. Disagreements found

Each is a run in which TLC finds a property violated that a document or the code's own words
state. `PROJECT.json` quotes them.

| Run | The repository says | The code does |
|---|---|---|
| `publication_overlap` | README.md:250-251: the runtime queries only a ready graph | the manifest is checked once, then count and rows are separate queries; a graph job in between is read half done as a complete set (`retrieval/graph.py:47-80`) |
| `crawl_registration` | docs/external_data_crawler.md:56-58, 131: resuming validates what is on file, and the manifest has the checksum of every normalized output | records and links a killed process wrote and did not register are kept and used, and a product that is not crawled again never registers them: a READY snapshot may hold lines its manifest has no checksum of (`manifest.py:96-138`). Rows are not concerned (`ReadyRowsAreRegistered` holds) |

Limitations of the code that the models show and the properties are stated around:

- A crawl counts the positions it reads before repeated ones are merged (`kodex_production.py:254`,
  `tiger_production.py:211`, `ishares_production.py:244`, `contract.py:31-55`): with a response that repeats a
  position, the merged rows of two responses can come to the number of one and the scope mixes them. Hence
  `CountedOnce` in `AcceptedScopeIsWhole`.
- Timeouts and failed generations are rendered with status 200 (`api/answer.py:45-68, 157`). The model has no
  status; `FaultsReachTheClient` is about the reason in the body.
- README.md:485-486 says that the parser has no repair loop; the code repairs a rejected or malformed proposal once
  (`semantic_parser.py:101-141`), as docs/policy_assisted_parser_fix.md:17 says.
- A proposal may join by "or" the filters that the rules join by "and": its tree is accepted when its leaves are the
  filters (`semantic_validation.py:822-831`) and executed as it stands (`rdb_v2.py:776-817`), so that products
  are selected which meet one of them only. docs/policy_assisted_parser_fix.md:18 says that the rules' filters are
  preserved. Hence `Offered` in `RuleSelectionsSurvive`, which without it is violated in two steps by
  "US Equity div ETF". A negation is accepted in the same way and never executed (`planning/predicates.py:28`).
- An unread word counts as answered when any quote of the proposal overlaps it by a character
  (`semantic_validation.py:427-428, 469-477`): the rest of it may be in no constraint of a complete parse, although
  README.md:474-477 says that a candidate which leaves out a material condition is discarded. No property says that unread
  words are answered.
- An asset manager named beside a type, filter or sort is declared covered by the rule plan and applied
  by nothing (`planning/rule_router.py:21`, `planning/serialization.py:166`): hence `MentionApplied`.
- A question of nothing but a number is searched by its words, and the number not applied
  (`planning/supervisor.py:310`): hence `Decided(query) # {}` in `AnswersWithinLimit`.
- A limit above the relational store's maximum is silently cut (`retrieval/rdb_v2.py:746-749`).
- `BundleIsCoherent` compares the graph and the index with what is committed in the database, not with
  what the current transformer would derive from the source anew.
- A manager's identifier joins the tickers that its rows name beside it in one security
  (`data/holdings.py:348-448`), which may then have two issuers in one scope of issuers: `OneIssuerPerTicker`
  counts per ticker. One issuer per security is false, and the run's `kodex` scope shows such a security.
- A failed restore inside `rollback` is passed over and the release recorded as restored
  (`deploy_naver.sh:246`), and redeploying the current code with another artifact rewrites current's
  overlay before anything was validated (`deploy_naver.sh:89`): `Deployment`'s theorems are under `~SameCode`,
  and `ServesCurrent` and `CurrentIsGated` are about the states in which nothing was passed over (`ignored = 0`).
- In questions: the span of a filter on several values reaches over the words between
  (`analyzer.py:1873`); a candidate's item may span the whole question; a number the rules found not
  executable may be read as an executable one, or dropped and the default of five applied (`default_policies.py`);
  a number is grounded by the digits of a year (`semantic_validation.py:225`); predicates with coded values cannot
  be repeated by any candidate (`semantic_validation.py:329`).

## 9. What is not modelled

- **Inside the modelled parts**: two jobs, two rebuilds or two crawls at once (the operator runs one after
  another and nothing in the code prevents two); statements of one RDB retrieval under READ COMMITTED;
  validating the index and then searching another one; a question whose steps straddle a publication; the
  thread and connection pools behind a timed-out step; staging over the READY row of the snapshot
  before (`v2_rebuild.py:1063`); workbooks of another content under one date (`rdb_v2.py:266`); torn writes of
  the script's one-line files; the checksums of `deployment/artifacts.py`. Each is a hazard with a note in
  `PROJECT.json`, or part of one.
- **Crawler**: the HTTP client (retries, robots and response caches); the crawls of issuers and metrics, which
  use the same workspace and run once; source records of catalogs; reports. A response is what a source
  may answer.
- **Canonical store**: the issuer mapping that may be passed to the holdings integrator (no script does); the ISIN of a
  constituent, which no adapter supplies (`external_data/holdings/providers/kodex.py:280`).
- **Question shapes**: `MCFederatedQuery!BoundQueries` takes the shapes whose mention the plan applies. A
  share class with relations and nothing else, and a fund without a reviewed path, are further shapes
  no step applies. A mention that resolved to nothing is reported as such, beside which ZERO_MATCH may be
  reported too; the property leaves these questions out.
- **Text**: characters, particles and spacing, numbers and dates beyond the word list, nested boolean
  trees, comparison groups, selections passed beside the question; alias scoring, rendering, the ontology.
  They keep no state between calls; what they decide is an input of the models.
- **v1 bundle, search scoring, LLM transport, frontend, migrations, reports**: superseded,
  numeric, or without state of their own.

## 10. Plan

Done, in this order: `PlanExecution`, `QueryExecutor` and its proofs; `AnswerRequest` and its proofs;
`QueryPlanning`, `FederatedQuery`; `DerivedStore`, `StorePublication` and its proofs;
`Deployment` and its proofs; the crawl modules and their proofs; the canonical store with the external
scopes; the question modules and their proofs; the proofs of `FederatedQuery`, `AcceptedScopeIsWhole`, the
canonical store and the stability of its activations.

Next, the most important first:

1. A question across two publications: `FederatedQuery`'s steps over `StorePublication`'s stores,
   with the identity checks between steps.
2. `TrustedHttpClient` (`external_data/http.py`): concurrent fetches, robots and response caches, a kill
   between body and metadata; the issuer and metric crawls over `SnapshotWorkspace`.
3. `EntityResolution`, the evidence validator's field checks, comparison groups.
4. The composition of `CanonicalStore` with `StorePublication`: the yields of a workbook and of a scope in
   place of the constant `Yield`.
5. An abstract answer contract that `FederatedQuery` implements, and its proof.
6. The pools behind timed-out steps.
