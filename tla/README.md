# TLA+ model of enterprise-agentic-rag

The repository is a document question-answering system: files are uploaded into a
knowledge base, ingested in the background (loaded, cleaned, split into Roots and
Leaves, embedded, projected into a vector store) and answered from by a query graph over
a language model. This directory models where its correctness is decided by
interleavings, failures, limits and data: the job queue and the life of a document, the
maintenance of its index, the budgets queries are held to, the streamed query with its
trace, retrieval and the query graph, access and the readers behind it, the workspace,
evaluations, and the text pipeline. Paths are relative to
`src/backend/src/enterprise_rag/`, `DEV_SPEC.md` is the one of the repository's root.

## 1. The system

### Components, their state, their operations

| component | source | state | operations | what makes it correct |
|---|---|---|---|---|
| job queue, worker loop | `adapters/database/jobs.py`, `domain/jobs.py`, `services/worker.py`, `production_worker.py` | rows of `ingestion_jobs`: status, attempts, owner, lease, progress, cancel_requested | enqueue, lease, start, heartbeat, checkpoint, succeed, retry, fail, cancel, recover | one holder per job, bounded attempts, final outcomes, every job settles |
| registration | `services/documents.py`, `adapters/database/documents.py` | documents, versions, content claims | register (new, repeated, conflict), revive | equal contents share one version, a version has one unfinished job |
| ingestion pipeline, projection | `services/ingestion.py`, `services/projection.py`, `adapters/database/ingestion.py` | what one process executes; Roots, Leaves, vector rows | prepare, checkpoints, load ... split, replace_content, project, finalize, compensate | visible only complete, and only by a job that holds its lease |
| deletion saga, reconcile | `services/lifecycle.py`, `adapters/database/lifecycle.py`, `cli/reconcile.py` | the job row | request, delete vectors, content, objects, finalize; remove orphans | re-entrant; leaves neither text nor rows |
| provider reindex, manual cleaning, provider catalog | `services/provider_reindex.py`, `services/manual_llm_cleaning.py`, `services/provider_catalog.py` | one collection per index revision, the chosen provider, the document's status meanwhile | compare, project, prune; snapshot, mark, project, persist, restore | what is answered from is indexed, deleted stays hidden |
| budgets | `services/cost_guard.py`, `adapters/usage.py`, `adapters/database/usage.py` | counts per minute, usage per day, one reservation per query | reserve, settle, forfeit | never above the limit; nothing used is given back |
| query stream | `services/query_api.py`, `api/routes.py` | a generator, two tasks, a queue | open, emit, deliver, heartbeat, finish, disconnect, abandon | events in order and complete, one ending, no task left |
| traces | `services/knowledge.py`, `services/query_trace.py`, `observability/exporter.py` | spans in a bounded buffer, one record per query | end a span, export, take, record; project tables | the trace tells what the client was told |
| retrieval | `services/retrieval.py`, `fusion.py`, `reranking.py`, `scope_root.py`, `adapters/database/context.py` | the hits of one retrieval | search, fuse, authorize, rerank, restore | agrees with its definition; nothing unauthorised restored |
| query graph | `services/semantic_query.py`, `deep_recovery.py`, `query_planner.py`, `language_model_reasoning.py`, `answer_verification.py` | the state of one query, a ledger of evidence | plan, retrieve, assess, recover, draft, verify, repair | bounded; answers only from judged, permitted, quoted evidence |
| sessions, tokens, catalog, MCP | `services/auth.py`, `mcp/tokens.py`, `mcp/auth.py`, `mcp/access.py`, `mcp/knowledge_catalog.py`, `mcp/server.py` | sessions, tokens | issue, log in, renew, revoke; list, search, open, verify | a revoked credential never enters; nothing outside a token's collections is read |
| workspace | `services/workspace.py` | collections, documents, cursors | create, rename, delete, upload, page | names unique up to case, limits, complete pages, complete deletion |
| evaluations | `services/evaluation_workspace.py`, `eval_runner.py`, `evaluation.py`, `quality_gate.py`, `adapters/database/evaluations.py` | runs and their reports | create, execute, progress, fail, compare | every run ends; compared runs scored the same cases |
| text pipeline | `adapters/loaders/*`, `adapters/cleaners/deterministic.py`, `adapters/splitters/structure_aware.py`, `adapters/ocr/tesseract.py` | one file's roots, clean texts, segments, leaves | load, clean, recognise, split | no text lost or doubled but by a rule; leaves cover their root |
| vector and object store, relational schema | `adapters/vector_store/milvus_lite.py`, `adapters/object_store/local.py`, `adapters/database/models.py` | rows, files | modelled as their callers see them | - |
| HTTP API, model adapters, metrics and logs, configuration, frontend, standard graph | `api/`, `adapters/*`, `observability/`, `config/`, `cli/`, `services/standard_graph.py` | clients, caches | translation, display | not modelled (section 6) |

### How they interact

An upload stores the object and, in one PostgreSQL transaction, inserts the version,
its claim on the content and an `ingest` job. Workers poll the table; each leases one
job, runs the pipeline over three stores (PostgreSQL, vector store, object store) that
share no transaction, renews its lease from a background task and settles the job. A
deletion request hides the document, cancels its ingest jobs by a flag, and queues a
`delete` job for the saga. Expired leases are recovered by whichever worker polls next.
Cleaning and reindex rewrite what an ingestion left, in the API's process, each under a
lock of its own. Queries, tools and listings see a document only through its status and
active version, read again at each statement. A query first reserves the most it may
use and settles afterwards; streamed, it runs as a task of its own beside the generator
that writes its events, and the generator's caller records its trace.

### What is hard

* Leases: a worker that is slow, not dead, still executes the job another has taken.
* Cancellation and deletion meet an ingestion, a cleaning or a reindex at any step.
* Each call to a store may fail alone, before or after it took effect; the process may
  die between any two. Compensation and restoration are interruptible and unfenced.
* Upload, deletion and upload of the same content again; two versions at once.
* Documents are withdrawn between the statements of one retrieval or one verification.
* A stream has five parties on one event loop: the query, its progress, the heartbeat,
  the trace, and the client, who leaves without saying so.
* A language model may answer anything; what is returned must be sound whatever it says.
* Checks and writes in separate transactions: names, limits, sessions, collections.
* Text rules that each look harmless, one after another on the same lines.

`PROJECT.json` lists each hazard at its line, with the properties about it or the
reason why none covers it.

## 2. The modules

```
JobRecords ----------+--> IngestionJobs --(refines)--> JobQueue
                     +--> DocumentStore --+--> Registration ------+
                                          +--> IngestionPipeline -+--> DocumentLifecycle
                                          +--> DeletionSaga ------+
IndexStores -> IndexMaintenance                    Workspace
UsageBudget --(refines)--> UsageLedger             QueryStream -> TracedQuery
ContextStore +-> Retrieval -> RetrievalFunnel
             +-------------------------+
                 DeepRecovery ---------+--> QueryGraph
                 AnswerVerification ---+
             +-> KnowledgeCatalog <- Access
Evaluations
Loading --+
Cleaning -+--> TextPipeline
Splitting +
```

`MC*` modules only give constants a value. Proofs are in the modules named `*_proofs`;
`Limits_proofs` is about `UsageBudget` and `Workspace`, `QueryGraph_proofs` also about
`RetrievalFunnel`, `TextPipeline_proofs` also about `Evaluations`.
Definitions marked *Seeded bug* are wrong variants of the
definition that follows; no action uses them. They record, for each property, a mistake
in the code the property would notice.

**Jobs and documents.** `JobRecords` has no state: each method of
`IngestionJobRepository` is a guard on a row and the row it leaves; the queue and the
document life cycle move rows with the same definitions. `lease_until` and
`available_at` are kept as what remains of them (`left`, `wait`); the code only compares
them with the present moment, so no clock has to be bounded. `IngestionJobs` is the table
and the worker processes, one action per method (each is one transaction that locks its
row), plus a process that dies, one that learns it lost its lease, and the clock. `held`
remembers which *attempt* a process believes to execute: the code has no such number, it
fences by the owner string, and `StaleAttemptIsPowerless` says that this is enough.
`JobQueue` is the promise without leases, clocks and progress. `DocumentStore` is the
shared state of the life cycle; `Registration` has uploads and the deletion request;
`IngestionPipeline` runs `run_once`, every transaction and store call an action, with
`AfterFailure` following the exception handlers. `mark_failed` reads without a lock and
writes at the end of its transaction, so it is two actions (`ReadMark` keeps what was read,
`MarkFailed` writes it) between which other processes go on: all of them for a cancelled
job, all but those that need the locked job's row when `retry` or `fail` settled it
(`Settling`); `DeletionSaga` runs
`DocumentDeletionService.execute`; `DocumentLifecycle` composes the three. Versions and
jobs are numbered in creation order; the checkpoint before stage k reports progress k.

**Index maintenance.** `IndexStores` is one document with its active version: statuses
and content in PostgreSQL, vector rows in one collection per index revision. A text cut
under a revision has its own leaf ids; `Staged`, `Activated` and `Abandoned` are
`ProjectionService.project` as its callers see it. `IndexMaintenance` lets a cleaning, a
reindex, a deletion and, while the process is down, the reconcile command meet, one action
per store call; each may fail before it took effect, half way (`PartlyDropped`, `Staged`)
or after it, when the commit stands and the handler runs all the same (`CleanerStrays`,
`IndexerStrays`, `MarkUnanswered`). `strays` is a history of the collisions and lost answers
the code cannot survive (section 5); the properties say what holds without them.

**Budgets.** `UsageBudget` is `PostgreSQLUsageStore` with the `CostGuard` around it: a
query reads the clock, reserves or is rejected, runs, settles what `Due` says; between any
two steps it may be cancelled, lose an answer, fail a call or die. `UsageLedger` books each
query once, within the sums, and lowers its charge at most once; the counters the code
stores in place of the sums do not occur in it.

**A streamed query and its trace.** In `QueryStream` an action is what a task does
between two suspensions; `ready` is the loop's FIFO of callbacks, which decides what the
stream finds when it wakes. `TracedQuery` adds the generator of `KnowledgeApplication`
around it (or a plain call), the spans, the exporter's buffer, and the recording, which
may fail or be cancelled.

**Retrieval.** `ContextStore` is what the database lets a query see. `Retrieval` has
fusion, reranking and restoring as operators with exact integer scores, and what the
spans tell of it and the tables made from them; `RetrievalFunnel` runs one retrieval, an
action per awaited call, with documents withdrawn and served again between. What sorts or
filters in the code is stated by places here too (`InOrder`, `HitsAt`).

**Query graph.** `DeepRecovery` (ledger of evidence, decisions) and `AnswerVerification`
(the deterministic verification and what is kept of a draft) are operators; `QueryGraph`
has what a planner may make of the scope, and runs one query, an action per call of the
model or retrieval. The ledger's selections are stated by places: who comes before whom
decides who is taken (`Chosen`, `Selected`); the context and its roots are sets, as nothing
reads their order. The model's answer, its absence and its unparseable
output are choices; `unreported` is calls made minus calls reported.

**Access and readers.** `Access` has sessions and tokens with renewal in two steps,
rotation of CSRF tokens, expiry and revocation; `KnowledgeCatalog` lets the requests it
admits through the tools, one action per awaited call.

**Workspace.** `Workspace` has the keyset page every listing uses, requests that check in
one transaction and write in the next, and a client that pages while documents come and
go. A deletion may be overwritten by the ingestion it cancelled (`OverwriteDeletion`): the
document is then `revived`, live again without an upload. Lowering a name (the database)
and folding it (the service) are two functions, as in the code.

**Evaluations.** `Evaluations` computes the scores in units of `1/Scale` and runs the
background task that produces them. A golden set is what its loader accepts
(`GoldenAssumption`): ids are not repeated, and an expected root belongs to an expected
document. `ScaleAssumption` makes every fraction exact.

**Text.** A text is a sequence of lines of a few kinds, each with the token counts of its
pieces and the dirt the cleaning rules are about (`AllLines`, `Texts`); `Contents` is what
a parser makes of a file of each format. `Loading` folds the events of the HTML
parser and makes roots, `Cleaning` applies the rules and the removal of repeated edges,
`Splitting` makes segments and packs them; `TextPipeline` runs one file through them.

## 3. What the runs check

Each run checks what is hardest to get right in its component; several properties are
conjunctions of named parts (`StreamContract`, `TraceTellsOutcome`, `FusionSound`,
`TraceTellsFunnel`, `AnswerSound`, `ReportsTrue`, `MetricsAgree`, `LoadedWhole`,
`WordsSurvive`, `LeavesCover`). Type correctness and the plainer invariants are not run
where they are proved (section 4).

| run | instance | what it shows | states |
|---|---|---|---|
| `ingestion_jobs` | 2 workers, 2 jobs, 1 document, 2 attempts, lease 2 ticks, delay 1 | a stale attempt is powerless, a live lease ends by its holder; the protocol implements `JobQueue`; every queued ingest job settles | 71,684 |
| `lifecycle` | 1 document, 2 contents, 2 versions, 2 jobs, 2 ingestion workers and the saga, 1 fault | only a leased, uncancelled success publishes; an indexed version is the active one; uploads settle | 354,752 |
| `usage_budget` | 3 queries, 2 modes, 2 kinds of usage, 1 query a minute, 3 minutes on 2 days | the windows are the sums of the reservations and implement the ledger | 277,611 |
| `query_stream` | 2 progress events, buffer of 2 traces of 2 spans, heartbeats unlimited | events in order and complete; the trace tells the outcome; leaving settles everything | 252,097 |
| `retrieval_funnel` | 4 leaves of 2 roots in 2 documents, every ranking, 3 scores, 2 withdrawals | fusion, selection, budget and trace agree with their definitions; only authorised context | 60,736 |
| `query_graph` | 7 requests, standard and deep, 2 recovery rounds, 2 tries, 24 drafts | answers only from judged, permitted, quoted evidence; stages advance, rounds stay bounded, calls are not overstated | 126,850 |
| `index_maintenance` | 2 revisions, cleaning turns 2 leaves into 1, 1 crash | what is answered from is indexed; what is deleted stays hidden and goes; cleaned is kept; `processing` has an owner | 1,632,112 |
| `evaluations` | 2 golden sets of 3 and 1 cases, 2 runs, 1 restart | whole reports, comparable runs, metrics that agree, runs that end | 13,088 |
| `knowledge_catalog` | 2 credentials, 2 requests, 2 grants each, 2 collections, 1 withdrawal | no entry after revocation, nothing served or confirmed outside the permission | 836,383 |
| `workspace` | 2 clients, 2 collections, 2 names, 3 documents, limit 2, pages of 1 | pages are complete; names that differ only in case arise only by a race; only tombstones go with a collection | 3,016,015 |
| `text_pipeline` | texts up to 4 lines, sheets up to 5 rows, HTML of 3 fragments, DOCX of 4 elements, PDFs of 3 pages | nothing lost or doubled but by a rule; leaves cover their root in the limits | 180,928 |
| `table_headers` | sheets of two row blocks | `HeaderOnEveryLeaf` is violated (section 5) | - |

### Bounds, and why they are enough

`MaxVersions` and `MaxJobs` bound the rows ever created, `MaxFaults` the failures. Two
attempts: one is retried or recovered, the next is the last. Two workers: a stale one
beside the current one. `lifecycle` has two jobs, so two uploads, or an upload and its
deletion in both orders; a third job (an upload after the deletion) was checked in smaller
instances with one version, where `MaxJobs = 3` holds too. `ComputeStages = 1` keeps
loading, the only computing stage with an outcome of its own. A lease of one tick means:
valid or not.

Three queries in `usage_budget` are one more than any conflict needs, and `FourCalls` lets
one deep or two standard queries into a day. In `query_stream` two events give progress
taken and progress still queued; a buffer smaller than what can be exported is reached.
In `retrieval_funnel` the three leaves of one root exceed its quota of two, three
candidates exceed the two selected, the budget of three characters cuts a root. In
`query_graph` two evidence places with one reserved are fewer than the three leaves; two
rounds are one more than a forgotten one needs. In `index_maintenance` both texts have
different numbers of leaves, so that the comparison of counts can be right and wrong.
`evaluations` has cases in both modes, one to be abstained from, and expected roots
outside what each metric looks at. `workspace` has two documents of one instant whose ids
are not in the order of creation. In `text_pipeline` sentences fit the target of five
tokens once or twice and one line exceeds the limit of six; overlap and special tokens are
on; sheets of five rows have two blocks, so that a header repeats; HTML leaves cells open
and closes a table inside a blocked tag.

Symmetry is used in `usage_budget`, `knowledge_catalog` and `workspace`, which check no
liveness. `CHECK_DEADLOCK FALSE` is set where the program stops: once the bounded jobs,
queries, grants, files or runs are spent, or every row has been removed.

### Fairness, and why the code justifies it

`IngestionWorker.run_forever` catches every exception of a poll and goes on, so recovery,
the leasing of `ingest` jobs and the next step of a running job are weakly fair per process;
time passes. Losing a worker is allowed and never owed, as are uploads, deletions and
faults. Nothing is owed by the deletion saga: workers ask for `ingest` only
(`LeasedTypes`), and no other process leases `delete` jobs. Its steps may happen, so safety
is checked with them, but no property says that a deletion is carried out.
In `query_stream` the event loop runs what is ready, the heartbeat timer fires, a
cancelled query ends (its forfeit is one database call), the server takes the next event
or abandons the generator, and the database answers the recording; what an uncancelled
query awaits need never come. In `evaluations` the task of a run goes on while its process
lives; nothing is assumed of runs whose process died.

## 4. What is proved

TLAPS checks the following for every value of the constants, from the named assumptions
of the modules (limits, budgets and buffers are positive, placeholder values such as
`NoOwner` or `NoJob` are none of the real ones, each leaf's root is a root, finitely many
clients, leaves and retrieval routes, requests and drafts made of what the program accepts
as such; ids that decide an order are integers, and times of creation, lengths of texts and
a reranker's scores are naturals; the limits on hits, fused and selected candidates are
below the number that stands for "unranked": no search may ask for more than 50; files are
what their parsers produce, golden sets what their loader accepts, and the scale of the
scores is divisible by every number of expected roots or documents and every rank).

| module | theorems | about |
|---|---|---|
| `IngestionJobs_proofs` | `JobsInductive`, `JobsTyped`, `LeasesMatchStatus`, `AttemptsBounded`, `CancellationSticks`, `StaleAttemptsFenced`, `OutcomesFinal`, `LiveLeasesKept`, `ProgressGrows`, `JobsImplementQueue` | rows and handles have their types, a lease goes with an active status, attempts are bounded, cancellation and outcomes are final, stale attempts are powerless, live leases end by their holders, progress never falls; `Spec => ImplementsQueue` |
| `DocumentLifecycle_proofs` | `LifecycleInductive`, `OneLiveJob`, `ActiveIndexed`, `DeletionWins`, `PublishedBySuccess` | every safety property of run `lifecycle`, for any workers, documents, contents, versions, jobs and faults |
| `Limits_proofs` (of `UsageBudget`) | `BudgetInductive`, `BudgetTyped`, `UsageCharged`, `SettledOnce`, `LimitsKept`, `WindowsAddUp`, `BudgetImplementsLedger` | every property of run `usage_budget`: usage is charged, settlements are final, windows are the sums of their reservations, limits hold; `Spec => ImplementsLedger`. `LimitsKept` and the refinement assume `BudgetsFit`: each single reservation fits a day |
| (the same, of `Workspace`) | `WorkspaceInductive`, `OvershootBounded`, `TwinsByRace`, `DeletionComplete`, `TombstonesVanish`, `PagesComplete` | every property of run `workspace`, how far uploads overrun the document limit (by less than the requests in flight), and which documents a collection's deletion misses, for any requests, names and documents |
| `IndexMaintenance_proofs` | `Invariance`, `TypeCorrectness`, `DeletedHidden`, `VisibleIndexed`, `ProcessingOwned`, `DeletionComplete`, `CleanedKept` | every property of run `index_maintenance`, for any revisions and numbers of leaves |
| `KnowledgeCatalog_proofs` | `CatalogInductive`, `CatalogTyped`, `RevocationFinal`, `CsrfBound`, `ServedPermitted`, `ConfirmedServed` | every property of run `knowledge_catalog`, and that a CSRF token is bound to its session, for any credentials, collections and documents |
| `QueryGraph_proofs` | `GraphInductive`, `ScopeKept`, `AnswersSound`, `EvidenceKept`, `ReportsTruly` | every property of run `query_graph`, for any requests, plans, drafts, limits and answers of the model |
| (the same, of `RetrievalFunnel`) | `FunnelInductive`, `FusionIsSound`, `SelectionKeepsBest`, `ContextIsAuthorized`, `TraceIsTrue` | every property of run `retrieval_funnel`, for any branches, scores of the reranker, withdrawals and limits |
| `TracedQuery_proofs` | `TraceInductive`, `TraceTells`, `StreamInductive`, `StreamKept` | both invariants of run `query_stream`, for any number of events and sizes of the buffer; `StreamInductive` and `StreamKept` assume `SettlesInDatabase` |
| `TextPipeline_proofs` | `FilesLoadedWhole`, `CleaningKeepsWords`, `SplittingLosesNothing` | every property of run `text_pipeline`, for any files, texts, token limits, overlaps and answers of the OCR engine and the vision model |
| (the same, of `Evaluations`) | `EvaluationsCompared`, `MetricsAlwaysAgree` | both invariants of run `evaluations`, for any golden sets, rankings, runs and restarts |

*Jobs.* That a stale process fails the ownership check depends on how its attempt relates
to the row's. `IInv` is `SoundRow` about each row alone (owner and remaining time go with
an active status, attempts stay below the limit while waiting, a cancelled row is active
or settled) and `HandlesCurrent` (a handle's attempt is not later than the row's, and is
the row's if its worker owns it). Its first lemmas prove per operation that sound rows
stay sound, so each action is one short step. The refinement maps start, heartbeat,
checkpoint, clock and crashes to stuttering (`SameView`), endings to `Relieve`,
cancellations to `Cancel`.

*Document life cycle.* Which job may publish a version depends on when it was requested
and who still executes it. The invariant orders: a version's jobs are rows of its own
document, only the latest can be unfinished, a row that was cancelled or settled stays so,
and a process at work executes an existing row of its type. A deletion cancelled what was
unfinished before it (`UncancelledIsLater`) and hid what was published before it
(`ActiveIsLater`); it is then followed by publication only under a job with a greater number. Most
steps are quiet: they change no status and no row's standing, and one lemma covers them.
Creations add the latest row; `Finalize` alone makes a version active, under a job that is
neither cancelled nor settled.

*Budgets.* That a settlement charges what was used depends on the query's step: the
invariant adds that a running query has an unsettled reservation, has used nothing before,
and that a verified report fits it. Refunds are then never negative, and `WithinLimits`
is inductive on top of that; without `BudgetsFit` it is false. That a window is a sum needs
what the fold of the library gives when one summand is added or changed. The induction
theorems take an operator, so these lemmas take a least counterexample instead (`WFMin`),
from the existence of the fold's recursive function up; the sums are over the finitely many
reservations ever made. Under the mapping a reservation is `Book`, a settlement `Close`,
everything else a stutter; `Known` adds that a closed query had a budget or reported usage.

*Index maintenance.* That a document answered from is indexed is not inductive: a reindex
replaces rows in use unless it writes to another revision, which it does because equal
numbers of leaves and rows made it stop before, which is right because the document's rows
are exactly its leaves. The invariant follows what each party has read and says that the
others have not changed it, or that `strays` names who did.

*Access and catalog.* A request remembers what it was granted when it entered; the
invariant relates each piece of work in progress to the permission of its request, and a
leaf found to the collection of its root. `ConfirmedServed` rests on the second read.

*Workspace.* The check of a name sees every status, so a twin must have got its name after
the check; the invariant keeps what the request saw and that the row it will name stays
its own. The overshoot counts live documents and requests that have counted together. For
the pages the invariant tells what a walk knows before and behind its cursor: what it has
shown is not older than the cursor, what stayed and is newer has been shown. A page has a
last row, and what is left has a newest, because a finite set of rows has one
(`ExtremeExists`, by a smallest subset without).

*Query graph.* Each part of the invariant is what one check hands to a later one: the plan
keeps the filters and the permission of the request, the author is handed what was
restored, a judgement covers what was retrieved in its round, and the stages reported are
those up to the present one. The model's answers are arbitrary throughout. That recovered
evidence keeps its places is about ranks: `PlacesAreTaken` and `FirstPlaces` say that a
strict order of a finite set gives every place from the first on to exactly one member.

*Retrieval.* The invariant of the funnel is short (`FunnelInv`: distinct, typed hits; fused
until they are authorized; unscored until they are reranked; a scope resolved within the
permission and the filters). The work is in what the operators return. A selection by
places of a strict order is that order (`ListingInOrder`, `HitsInOrder`), and a fold is
what induction over its steps says (`SumTakes`, `FuseTakes`, `SofarTakes`; induction over a
finite set or a number is by a least counterexample, since the induction theorems take an
operator). Fusion's `Sofar` tells of each hit taken or left so far why it was, `Unit` is a
multiple of every reciprocal rank, so a better rank gives strictly more and a leaf ahead in
every branch outscores the other (`DominanceScores`). For the selection, what is passed
over comes after `SelectedLeafK` others in the order of the scores (`PickedAreBest`), and
distinct leaves make a score one candidate's.

The trace is told from the outcome alone, so the invariant says what makes one tellable
(`Traceable`: branches are of different searches, roots are restored from the hits and
texts at hand). Its three parts go different ways. The counters add up because a sum may be
split by route (`SumSplits`) and each hit is kept or dropped for one reason (`DropsAddUp`).
The roots share the budget because each is cut to what the ones before it left
(`RestoringShares`). The ranking table is a fold over the events of the trace: a row knows
the best rank each kind of event told (`RowsTellEvents`), fusion repeats what the searches
told, and the order of the rows, with ranks without gaps, makes the selected ones a prefix
(`PrefixOfOrder`).

*Stream and trace.* That no event is lost is a matter of the order of callbacks. The end of
the query and its last event reach the stream by different ones: the query's ending calls
the wait's callback, which calls for the stream's resumption, while the event has to be
taken by the progress task first. `GetterFirst` says that where the query is over, or its
last step is queued before the stream's wake, a progress task with work to do is queued
before that wake as well. It is kept because a query that settles in the database suspends
between its last event and its end (`SettlesInDatabase`). `Delivered` says that what was
emitted is what was sent, then what the progress task holds, then the queue. The trace
needs none of this: it rests on the count of spans (what was kept or dropped is what has
ended) and on the query having ended before any outcome is told, and holds for both ways
of settling.

*Text and evaluations: folds.* Everything here is computed by folds over sequences, which
the prover does not unfold. Each is proved once to be a function that takes the elements
one after the other, and what it computes follows by induction over its steps
(`NumberInduction`, `SequenceInduction`, both from a least counterexample, as the library's
induction theorems take an operator).

*Evaluations.* `RunsInv` adds to whole reports that a task at work executes the cases its
run was created with and has the results of the first of them, in their order
(`WorksOnItsCases`), each a scoring of some ranking of its case (`Scored`). That the executed cases
are those that were chosen rests on ids not being repeated: choosing by id from the same
list gives the same list back. The numbers agree because a document is ranked where its
first root is, so that a root among the first `RecallK` roots has its document among the
first `RecallK` documents, and because the fractions are exact. An average lies between the
extremes because a sum over a set lies between its size times either.

*Text.* The invariant grows with the stages. `LoadedInv` says that the roots of all formats
but PDF are those of the file; that sheets keep their rows is about the blocks (each begins
where the one before it ended, and holds a data row), and HTML is followed event by event
against `Reading`, with what the open table and cell hold. `CleanInv` adds that the clean
texts are the cleaned roots: each rule keeps the tokens of a text, and outside of code it
keeps the code; joining a broken word merges two pieces without changing their sum; the
removal of edges takes at most one line at each end, and only one that enough roots share.
`LeavesInv` adds `SplitInv`: the segments of a clean text cover it (`StructureSegments`
misses no token and cuts none in two; cutting an overlong one leaves no gap), the leaves so
far are linked, and the next chunk starts where the invariant says (`Unfinished`): after
the last one or, with an overlap, at a segment inside it. That a chunk never fails needs
that every segment with the repeated header fits the limit after `ExpandOverlong`, which is
false only where the header leaves no room for one token.

*What the attempts showed.* Four statements of the model changed on the way. That a leaf
never ends before the one before it, a part of `NoGap`, is false for a table with an
overlap: from its second leaf on the repeated header takes the room of what both share.
It is now stated for roots without a header. The precondition of `VisibleTextLoaded` was a
filter that let a table be closed inside a blocked tag, which the parser does not see; it
is now read event by event (`Reading`) and the instance has such a page. `Files` and
`GoldenSets` had no types, so that nothing could be said of all of them. And a list
filtered by `SelectSeq` cannot be reasoned about, so lists are filtered by folds
(`Those`, `CasesAmong`).

*Only model-checked:* liveness (`EveryJobSettles`, `UploadsSettle`,
`LeavingSettlesAll`, `EveryRunEnds`: fairness and `ENABLED` are
beyond the prover) and the violation of `HeaderOnEveryLeaf`. Every safety property that a
run checks is proved.

## 5. Where the code falls short

What the models show of the code beside the properties that hold. The first has a run;
each other is a behaviour the model has, seen by weakening a property or a bound.

**Text.** *Table headers are lost* (`adapters/cleaners/deterministic.py:223`, run
`table_headers`): a sheet is cut into blocks that all begin with its header line; when
there are two or more, the removal of repeated page edges takes that line for a page
header, so no leaf repeats it. `DEV_SPEC.md:835` and `:556` want it on every continuation
block. Identical last data rows go the same way, as may a fence line shared as an edge,
after which prose rules see code. Cleaning is not idempotent, as its module says it is: a
word broken by a hyphen with a space behind it is joined by the second cleaning only. A PDF
page of zero-width characters alone fails the document as empty; HTML cells without an
end tag lose their text and nested tables their outer rows; a DOCX section without blocks
loses its heading. The check of a header's cost leaves out the special tokens. With an
overlap configured (the default is none) a leaf may lie wholly inside the one before it.

**Jobs and documents.** *Progress outlives a retry* (`adapters/database/jobs.py:168`): an
attempt after a failure beyond the first stage is rejected at its first checkpoint until
the attempts are spent; `DEV_SPEC.md:1859` promises retries. *Deletion does not have
priority* (`adapters/database/ingestion.py:206`, `:72`, `DEV_SPEC.md:877`): the cancelled
worker writes `failed` or `processing` over `deleting`, so the document counts and is listed
again; if it had read the rows while a version was active and a second deletion was requested
before it wrote, it writes `ready` where no version is active any more. `IndexedIsActive`
names that state; it takes more jobs than the run has, so the theorem covers it and the run
does not. *Upload during deletion* (`adapters/database/documents.py:64`): only new contents are refused, a repeated one makes
the document ready again. *Compensation is not fenced* (`services/ingestion.py:467`,
`DEV_SPEC.md:1857`): a worker that lost its lease deletes what the next attempt wrote.
*Deletions are never executed* (`services/ingestion.py:222`, `DEV_SPEC.md:795`, `:1775`):
workers lease `ingest` only and nothing calls the deletion service, so a `delete` job stays
queued and no document reaches its tombstone; a fairness assumption on `AdvanceDeletion`
would only hide it. *The last attempt is
not compensated when its process dies* (`adapters/database/jobs.py:328`).

**Index maintenance.** A reindex running into a marked cleaning replaces the cleaned text
or its vectors; a failed reindex to the revision in use deletes its rows; a cleaning's
restoring write goes over a deletion's status; a swap may insert the content of a deleted
version again; a crash between marking and persisting leaves the document in `processing`
for good, and so does a mark whose answer is lost before `started` is set
(`manual_llm_cleaning.py:220`) or a failing `_mark_failed` (`:229`). A persist that was
committed but raised is followed by `_restore`, which puts the old rows under the cleaned
text (`:224`); a swap that was committed but raised is followed by the clean-up of the rows
its content needs (`provider_reindex.py:273`). `DEV_SPEC.md:2650`-`2657` says that the locks
are of one process; the reconcile command in another bypasses them.

**Budgets and stream.** *An oversized first reservation* (`adapters/database/usage.py:83`,
`DEV_SPEC.md:1973`): the limit guards the update of a day's row, not its insertion. With
`DailyLimit <- TwoCalls` in `UsageBudget.cfg` a window passes its limit; `LimitsKept`
therefore assumes `BudgetsFit`. *A heartbeat can
swallow the last progress event* (`services/query_api.py:227`), if the query does not
suspend after it; with `SettlesInDatabase = FALSE` in `TracedQuery.cfg`, `NothingSkipped`
(in `StreamContract`) fails. An ending may still be written to a connection closed a moment ago;
`DEV_SPEC.md:1965` is read as "from when it is noticed".

**Traces.** A stream abandoned at a yield records its trace before its query's spans have
ended, and the late ones stay in the buffer until others push them out; a cancelled plain
call is recorded as an error (a stream as cancelled); a failed or cancelled recording
loses the trace; the root span, exported last, is dropped when the trace is full. The
ranking table of a deep query mixes the ranks of several rounds; the restoring counter
counts leaves in and roots out.

**Query graph.** The worst case makes 12 calls of the model where 6 are reserved (deep: 21
for 18; `DEV_SPEC.md:1972`). Calls that exhausted their tries and failed repairs are
under-reported. A root remembered by one round is overwritten by a later one; a conflict
of an earlier round is forgotten when a later assessor is unavailable; the limit on roots
may cut reserved evidence (`DEV_SPEC.md:961`, `:1939`); a second round repeats the first's
query (`DEV_SPEC.md:950`). A draft without factual paragraphs is "answered" without
citations. An empty permission leaves the vector filter open (the database still refuses),
and a permission by collections or documents is an OR there and an AND in the filter.

**Evaluations.** A run of a mode without cases fails a database constraint that is
reported as a conflict. A crash, a failure in the write of a failure, or a lost answer to the
creation of a run leaves the run active for good and keeps every later one out.

**Access and workspace.** Of two concurrent renewals the later writer's expiry wins, even
if earlier; a login does not revoke the anonymous session. A collection stays `deleting`
for ever (nothing removes it once its documents are gone) and keeps its name. Names that
differ in case arise by a race; and since the database lowers and Python folds, a name
such as "Straße" does not meet itself in the check, only in the unique key, whose error a
rename does not handle. The document limit is exceeded by concurrent uploads; an upload
that read an active collection inserts into one being deleted, and a document brought back
from its deletion comes on top of the limit, or stays live in a collection being deleted. A
document's deleted name always conflicts on upload. The list of sections follows the latest
version, not the active one, and may mix versions across pages.

## 6. What is abstracted or left out

* Each PostgreSQL transaction is one step, but for those that run `mark_failed`, whose
  reads and writes are split. Lock waits and deadlocks appear as failing steps (a deletion
  request and a settling job lock the same rows in different orders). An upload's read of
  its document's status, also unlocked (`adapters/database/documents.py:77`-`95`), is not
  split in the life cycle; in `Workspace` its late write is part of `OverwriteDeletion`.
* Which eligible row `lease_next` picks is left open, so priorities and batch limits
  restrict, never extend, what is modelled. One clock is assumed for all workers.
* Lost answers: a committed transaction whose call raises is modelled for budgets, for
  `_mark_processing`, `_persist`, `_restore` and `_swap_content` of index maintenance, and for
  the creation of an evaluation run. It is not for the steps of the ingestion pipeline (a
  committed `finalize` that raised would compensate a published version) nor for `_mark_failed`,
  after which nothing is left to do. The object store's guard is taken as atomic
  across processes.
* Index maintenance: one document with one version; the report over several is left out.
* Scores of retrieval are ranks and a few levels; prompts, wording and the content of the
  model's output beyond what decisions read are left out, as are judges of evaluations
  (their answers are choices) and the cache of results.
* Passwords, tenants beside one, the seeding of the demo workspace, and the tree and the
  recorded exchanges of traces are left out.
* Parsing by libraries (Office, PDF, images) is external: a loader starts from their
  elements. Texts are lines of tokens, not characters.
* Not modelled: the HTTP API (translation over the modelled services), model adapters
  (calls without shared state, their outcomes are choices), metrics, logs, health and
  overview (they display), configuration, command line, benchmarks (assembly), the
  frontend, and `services/standard_graph.py`, which no part of the program constructs.

## 7. Plan

1. Object references per process: put, register, reference check and removal as steps.
2. The lost answer of a committed checkpoint or `finalize` in the pipeline, and the unlocked
   read of a document's status by an upload.
