# Enterprise Document RAG: formal models

TLA+ specifications of the stateful parts of Enterprise Document RAG, the TLC
configurations that check them on small instances, and TLAPS proofs of the
properties that matter most. Paths below are relative to the repository root.

## 1. The system

A multi-tenant document question-answering service. One API process (FastAPI
on uvicorn, one event loop), one Celery worker (`--pool=solo`: one task at a
time), a command line that ingests folders, a React front end, and five places
where state lives: Postgres (registry, audit trail, docstore, conversations,
API keys), Qdrant (leaf vectors, semantic cache), Redis (broker, rate limiter),
a BM25 index directory and an upload directory.

| Component | Source (`backend/app/` unless said) | State | Operations |
|---|---|---|---|
| Version registry | `ingestion/versioning.py`, `models/document.py` | `documents`, `document_versions` rows | get_or_create_document, register_queued_upload, mark_document_failed, finalize_document |
| Upload and delete API | `api/v1/ingestion.py` | upload directory, broker queue | upload_document, delete_document, list_documents |
| Worker and pipeline | `worker/tasks.py`, `ingestion/pipeline.py` | docstore, vector store | ingest_document_task, ingest_file, _purge_existing_document_data |
| Folder ingestion | `ingestion/registry_sync.py`, `ingestion/runner.py` | as above | sync_folder, run_ingestion |
| BM25 index | `ingestion/bm25_index.py` | index directory | rebuild_bm25_index |
| Semantic cache | `core/cache/semantic_cache.py` | cache collection | lookup, store, invalidate_for_document |
| Chat and conversations | `core/chat/*.py`, `api/v1/chat.py`, `api/v1/conversations.py` | conversations, messages | stream_chat_response, append_message, load_history, rename, list |
| Retrieval | `core/retrieval/*.py` | none of its own | build_hybrid_retriever, run_search, postprocessors |
| Scoping and filters | `core/security/scoping.py`, `core/retrieval/filters.py`, `api/v1/filters.py` | none | resolve_scoped_filters, build_metadata_filters, node_matches_filters |
| API keys | `api/v1/auth.py`, `core/security/dependencies.py` | `api_keys` rows | create, list, revoke, authenticate |
| Rate limiter | `core/security/rate_limit.py` | Redis counters | enforce_rate_limit |
| Loaders, node parser, metadata resolver | `ingestion/loaders/*`, `node_parsers.py`, `metadata_resolver.py` | none | file to nodes, path to facets |
| Providers, tracing, logging, settings | `core/providers/*`, `observability/*`, `logging.py`, `config.py` | none | construction of clients |
| Front end | `frontend/src/` | chatStore, filterStore, query cache | send, stream callbacks, open and start conversations, upload, delete |
| Evaluation | `backend/eval/` | none | batch scoring |

**How they interact.** An upload writes the file, registers a `queued` row,
commits and enqueues a task. The worker hashes the file, decides through the
registry whether this is a new document, a new version or nothing, commits
`processing`, purges the previous version from docstore, vector store and
semantic cache, loads and chunks the file, writes docstore and vector store,
commits `completed`, and rebuilds BM25 from the vector store. A delete purges,
commits `deleted`, unlinks the file and rebuilds BM25. The command line does
the worker's part for every file of a folder and the delete's part for the
files that disappeared. A chat asks the cache first, else retrieves from both
indexes, streams the answer, writes two messages and stores the answer in the
cache.

**What is hard.** No transaction spans two stores, no lock spans two requests,
and every process rereads what another may have changed: uploads, deletes,
tasks and chats interleave at every commit and external call; the worker can
fail or die between any two of them; the file is read twice; the decision of
the registry rests on a hash and a status that several writers set.
`PROJECT.json` lists the hazards one by one at their lines.

**What makes each component correct.** Registry: versions are consecutive,
exactly one is open, audit rows are not rewritten. Pipeline: search never sees
two versions, a completed row is searchable, a settled row agrees with stores
and files, a deleted document is gone and stays gone, an upload whose task
reached the broker gets a terminal status. Folder ingestion: after a run the
registry is the folder, also when an earlier run died. BM25: when nobody works
it is the vector store. Cache: a hit was answered in the asker's scope and from
documents that have not changed since. Chat: what a model was told comes before
its answer, in the order it was told. Scoping: no request leaves the key's
tenant and facets, and both filter implementations agree. Rate limiter: at most
the limit per window and key, and every counter disappears. Front end: what is
on screen belongs to the open conversation.

## 2. Modules

### `Versioning`

The registry as pure operators on rows, one per function or branch of
`versioning.py`: `Decision` (which branch `get_or_create_document` takes),
`Decided` and `Recorded` (the row and audit rows it leaves), `Registered`,
`MarkedFailed`, `Finalized`, `FinalizedVersions`. `Committed` is what a
SQLAlchemy unit of work does at READ COMMITTED: only the columns that differ
from the loaded row are written, over whatever the row has become. That one
operator is where lost updates come from, so it is never short-cut. A file's
bytes, its SHA-256 and its chunk count are one value of `Contents`;
department, doc_type and tags are one value of `Facets`.

### `Ingestion`

The upload and delete handlers, the broker's queue and the solo worker.

| Variable | In the code |
|---|---|
| `documents`, `versions` | the two registry tables, per `(tenant_id, source_path)` |
| `files` | the upload directory |
| `docstore`, `points` | Postgres docstore and Qdrant collection; one `Chunk` stands for all nodes of one ingestion |
| `queue`, `job` | the Celery queue; the locals of the task that runs, with a program counter `at` |
| `requests` | the locals of the HTTP handlers in flight |
| `budget` | how many uploads, deletes, refused tasks, crashes and exceptions (in a task, in its handler, in a request) are still to come |

One action per stretch of code between two points where somebody else can get
in (a commit, an await, an external call): `UploadWrite` .. `UploadEnqueue`,
`DeleteSelect` .. `DeleteUnlink`, `WorkerTake` .. `WorkerFinalize`,
`WorkerSkip` for a task of a type without a loader (`Unsupported`),
`WorkerMarkFailed` for the exception handler. The faults are `WorkerError`,
`WorkerHandlerError` (the handler's own SELECT or commit raises, and the row
stays as it is), `WorkerCrash`, `UploadLost` (the broker refuses the task),
`ApiCrash`, and `RequestError`: a request breaks off at any of its stages, the
commit of a delete after its purge and the `OSError` of its unlink, which is
logged, among them. The API runs on
one event loop and its purge makes synchronous calls, so `LoopFree` lets no
other handler in between the two deletes of a purge; the worker is another
process and may always move. `Overlapping = FALSE` restricts clients to leave
a document alone while it is being worked on: the runs that state what holds
only then say so by this constant.

### `VersionedIndex`

The abstract promise: an append-only log of contents per document, and one
visible entry at most, which is withdrawn before a newer one is published and
was the newest when it was published. `Ingestion` implements it with the
hashes of the audit rows as log and the version of the stored leaves as
visible entry.

### `SearchIndex`

What search reads, at the grain its failures have: leaves in Qdrant, parents in
the docstore, the BM25 directory (absent, empty or an index), written by the
solo worker and by DELETE requests. Statuses and versions are left to
`Ingestion`; here an upload is a pending task (`pending` counts them, `Dequeue`
takes one), and `newest` tells a first ingestion, which skips the purge, from a
later one. `WorkerSkip` is a task that stores and rebuilds nothing: its file is
unchanged, gone or of a type without a loader. The commits of a task make a
deleted document `live` again, as in the code. The three calls of a purge,
the two store writes of an ingestion and the two halves of
`rebuild_bm25_index` (read the corpus and make the directory; persist) are
actions of their own, because another process may be between them. A file
without text is an ingestion of no nodes. `Overlapping = FALSE` lets the worker
and the API take turns, as in `Ingestion`.

### `SemanticCache`

Extends `SearchIndex` with the cache collection and the chats: `Ask` (lookup,
best match, expiry), `Retrieve` (what both retrievers may return for the scope,
of which reranking keeps any part; `RetrieveRaises` when there is no collection,
the index directory is empty, or some leaf in scope, which may be among the top
k, has no parents), `Store` after the stream, `Leave` for a client or model that
stops. A purge's last call becomes `InvalidateByWorker` or `InvalidateByDelete`.
A scope is a set of facets; the tenant is one more facet. Of an answer the model
keeps its citations: document and generation. `ChatsOverlap` says whether chats
run while documents change.

### `FolderSync`

The command line: `Start` (manifest and listing), `HashFile` .. `Finalize` for
each file, `SelectGone`, `PurgeGone`, `CommitGone` for the rows whose file has
gone, `Rebuild`. It uses the operators of `Versioning`, with its own commits.
`Returning = FALSE` restricts what happens to the folder between runs to edits
and removals: nothing that is absent is added, neither a removed file nor a new
one, so that new files are those of the initial folders.
Runs have no exception handler, so `Abort` stands for any exception and for a
kill at any point. Files and `_meta.json` change between runs, or during them
(`Overlapping`). A rebuild is one step here, and the two node stores are one.

### `Scoping`

What a key lets a request see, as pure operators: `_scoped_facet`
(`ScopedFacet`, and `Disallowed` for its 403), `resolve_scoped_filters`, the
two implementations of a filter (`BuildMetadataFilters` with `DenseReturns` for
what Qdrant makes of it, `NodeMatchesFilters` for BM25), `_restrict` and
`get_facets`. Python treats an absent list and an empty one alike, so both are
`{}`. `Permitted` says what the scope of a key means for a node.

### `RateLimit`

`enforce_rate_limit` call by call: `ReadClock` (the clock and the counter's
name), `Incr`, `Expire`, the verdict, `Return`; `Die` for a call that is lost
between two of them, `Tick` for the clock and Redis' expiry. A time is a window
and a second of it. `tally` is history: what each client asked for and was
admitted to in each window. `prompt` marks a call whose INCR was executed in
the window it was made in.

### `RequestGate`

Extends `RateLimit` and `Scoping` to what every request passes: the lookup of
its key (`SelectKey`), the commit of `last_used_at` (`TouchKey`), the limiter,
the handler's 403 or filters (`Handle`). Beside it `CreateKey`, `RevokeSelect`
and `RevokeCommit`, and a browser tab whose user ticks the facets that
`get_facets` returned, changes the API key, and sends what is ticked
(`Arrive` with `ticked`). `dead`, the `late` and `stale` of a request and
`switched` are history: `switched` says that the key was changed under the
ticks there are, until they are cleared.

### `Conversations`

The server's side of a chat: `Post` (find or create the conversation, commit,
first event), `Hit` or `LoadHistory` and `Stream`, `AppendMessages`, `Commit`,
and `Fail` for a refusal, an exception, a crash or a cancelled handler. A turn
is one request; its two messages are inserted in one transaction, so the table
is the set of turns that were saved. `now()` in PostgreSQL is the start of the
transaction, which is the first statement after the previous commit: the lookup
of the history, or the insert when the answer was cached. `stamp` records it,
and `Ordered` sorts by it. `InOrder` states by `CHOOSE` what `order_by` returns,
a sequence of the rows whose times do not decrease, and not how it is computed,
so that the proofs can reason about it. `wire` holds the events that have been
sent and not delivered. Whether a question is a hit is left open here.

### `ChatStore`

Extends `Conversations` with browser tabs: the zustand store, `handleSend` and
the callbacks of the stream (`Deliver`, one event at a time), opening a
conversation in three steps (the id is set, the server answers, the messages
are loaded) one of which may fail, beginning a new one, reloading the page and
changing the key. A user acts in `haste` when something begun before has not
ended; `Bounds` says how often.

### MC modules and proof modules

`MCIngestion`, `MCSearchIndex`, `MCSemanticCache` and `MCFolderSync` define
TLC's symmetry sets; `MCRequestGate` and `MCChatStore` also their `Bounds`.
`VersioningProofs` holds the lemmas about the registry's operators that both
its users need. `IngestionProofs` extends it with the proofs about `Ingestion`,
`DocumentStatusProofs` extends that with what a status says, and
`FolderSyncProofs` holds those about `FolderSync`. `SemanticCacheProofs` covers
`SearchIndex` and `SemanticCache`, `ChatStoreProofs` both `Conversations` and
`ChatStore`, `RequestGateProofs` both `Scoping` and `RequestGate`;
`RateLimitProofs` covers the module it is named for.

`Versioning` is used by `Ingestion` and `FolderSync`; `Ingestion` is shown to
implement `VersionedIndex`; `SemanticCache` extends `SearchIndex`;
`RequestGate` extends and is shown to implement `RateLimit`; `ChatStore`
extends `Conversations`.

## 3. Runs

| Run | What holds | Bounds |
|---|---|---|
| `ingestion_overlap` | audit trail, one stored version, completed means searchable until a delete, refinement; under overlap and faults | one path, two request slots, three uploads, a delete; one exception, failing request, worker crash and API crash |
| `ingestion_sequential` | settled rows, stores and files agree; only pending rows fail; deleted documents stay deleted | two paths, two facets, clients wait for a document to settle; three uploads, a delete; one of each of the six faults |
| `ingestion_live` | a pending row whose task reached the broker gets a terminal status | two paths, one without a loader; two uploads and a delete that overlap; one exception, refused task and API crash; fair processes, no worker crash, no failing handler |
| `cache_refresh` | no answer leaves its scope; whatever failed before, a change drops the answers it makes stale, makes the index the vector store again and leaves its document's leaves with their parents; while nothing failed, cached answers and the index are current | two documents, one question, two nested scopes, two chats one at a time, three uploads, two deletes, two exceptions; chats, the worker and the API in turns |
| `sync_recovers` | a run that ends mirrors the folder after runs that died; one audit row is open; the index is current while no run died | two files, three runs, two of them dying, one edit or removal |
| `sync_overlap` | no audit row is lost; a deletion pass leaves the other root alone | one relative path in two roots, two overlapping runs, three in all, one edit or relabelling, one exception |
| `request_gate` | at most the limit in a window, nobody refused within it, counters expire; a revoked key stays out; what is served is in the key's scope for both retrievers; what the sidebar shows may be asked | two request slots, two keys, two operations, a limit of 1, windows of 2 seconds, one dying call; three cases (below) |
| `chat_store` | tenants and conversations stay apart; what a model was told stays in the conversation in that order and before its answer, whoever else chats in it; a waiting user's page is what the server has and what the model is told; every stream ends | two tabs, two tenants, two or three turns; five cases (below) |
| `lost_upload`, `stuck_after_crash`, `last_document`, `stale_answer` | what a comment promises and the code does not do | the smallest instances that show it |

Why these bounds are enough:

* One path where operations of one document race; two documents or files where
  they meet, which is in the queue, in the corpus of a rebuild, in an answer's
  citations and in a folder.
* Two contents: more only rename the changed/unchanged outcomes. Two facets
  where facets are compared.
* Two request slots, chats or runs: each race of the code is between two actors.
* Three or four changes: first version, new version, and one that races either.
* One or two faults: the second one hits the recovery from the first.
* `request_gate` and `chat_store` explore several cases in one run: `Bounds` is
  a set of budgets, the initial states choose one. For the gate they are three
  requests while four seconds pass (two windows end and their counters expire);
  three requests and two revocations; one request with keys of three scopes,
  filters of all kinds, a registry that changes between two looks of the
  sidebar, and a change of key. For the chat they are three turns and an opened,
  begun or reloaded conversation of users who wait, though not for each other;
  two turns and a rename; two turns and an opened, begun or reloaded
  conversation with one hasty step, with one failure, or with a change of key.
  Two turns make a history and something that is added to it; the third comes
  between them from the other tab.

What a property needs is said by a constant of the run, or by the condition it
begins with: `Overlapping = FALSE` (clients, or processes, take turns),
`NothingFailed` and `budget.errors = MaxErrors` (no exception so far),
`budget.deletes = MaxDeletes` (no delete so far), `RequestsRan` (no request
broke off so far), `failures = MaxFailures` (no call has died), `points #
EmptyCorpus` (the corpus has leaves), `Calm` (no failure, no haste, no change of
key so far), `Own` (no other tab has chatted in the conversation), `stale` (the
key was changed after the ticks were made). None of them is idle; with the
restriction lifted TLC finds the property violated, and the list of divergences
below says by what.

Runs marked `violation` show that the code does not do what a comment or a
document of the repository says; the counterexample is described under
`findings`.

**Fairness.** `FairSpec` of `Ingestion` assumes weak fairness of each request's
own steps and of the worker's. The event loop resumes every coroutine and the
worker polls its queue; no fairness is assumed of clients or faults, nor that
any particular request is served before another. That the worker is not killed
and that its exception handler does not fail is not fairness but the budget of
`ingestion_live`: after either the row stays pending (divergences, below).
`FairSpec` of `ChatStore` assumes that the event loop does not idle while some
handler can go on and that the network does not idle while some event is under
way; a model or a database that never answers is outside of it (the clients have
timeouts of their own, which end in `Fail`). Nothing is assumed of users.

**Deadlock** is not checked: a system whose clients, chats and runs have spent
their budget is idle.

**Divergences**, by cause. Those with a run of their own are named; the others
are behaviours of the same modules, found by giving a configuration of the
table another constant.

* The unchanged test (hash and status) reads what several writers set. An
  upload registered while an earlier one is ingested is never indexed
  (`lost_upload`); uploading the same content again records a new version; a
  `_meta.json` that changes alone is ignored; a folder run that dies in the
  deletion pass leaves purged rows `completed`, and the file, if it comes back
  or exists under a second root, is taken for unchanged (`RunMirrorsFolder`
  with `Returning = TRUE`, or with two roots).
* A delete is not known to a task that is queued or running, nor the task to the
  delete. With `Overlapping = TRUE` a deleted row becomes failed when its task
  finds no file (`OnlyPendingFails`), and processing and completed when the task
  commits later (`DeletedStaysDeleted`); nodes stored between the purge of a
  delete and its commit stay under the deleted row (`DeletedIsGone`), and leaves
  can be left without parents.
* A row is registered as queued before it is known that somebody will finish it.
  It stays pending for ever, against what `upload_document` and
  `mark_document_failed` say, when the file's type has no loader and nothing at
  all went wrong (`ReachesTerminal` with the path in `Unsupported` and no
  fault); when the worker is killed (`stuck_after_crash`); when the broker
  refuses the task after the commit, or the API dies there; and when the
  exception handler fails as well, as it will if the database is what failed
  (`TaskReachesTerminal` with `MaxHandlerErrors = 1`).
* A delete is several steps and has no handler: when its commit fails after the
  purge, the row still says `completed` and the stores are empty
  (`RegistryReflectsIndex` without `RequestsRan`); when the unlink raises an
  `OSError` the request succeeds and the file stays (`DeletedIsGone` without
  it).
* The stores are changed one after the other and the BM25 index last: with
  `Overlapping = TRUE` the older of two rebuilds may win (`IndexIsCurrent`);
  during an update BM25 returns leaves whose parents are gone, and search
  raises, which lasts until the next change of that document if the update
  fails; an empty corpus leaves the old index on disk (`last_document`), or,
  when no file ever had text, a directory without an index: in both cases search
  raises although nothing failed (`ChangeRepairsSearch` without `points #
  EmptyCorpus`); after a run killed before its rebuild the next run, which finds
  nothing to do, does not rebuild.
* A value read before a long step is written after it: an answer stored after
  its documents changed (`stale_answer`, with `ChatsOverlap = TRUE`); two folder
  runs that record one version twice (`PreviousSuperseded` with two runners and
  `Overlapping = TRUE`).
* The registry's key has no root: ingesting the same tenant and path from a
  second root takes the row over and replaces its nodes, while the row keeps the
  root it was first ingested from (`OtherRootsUntouched` without `Replacing`).
* `done` is sent before the commit (`ContextIsScreen` without `Calm`, one hasty
  turn): a follow-up sent at once is answered without the turn before it, and
  a commit that fails loses a turn that stays on the page.
* The chat page has one store for whatever is under way (`ScreenMatches`
  without `Calm`): opening or beginning a conversation while a stream runs
  mixes its answer into the other one; of two conversations opened quickly the
  later answer stays; a failed fetch leaves the old messages under the new id;
  an error after `done` adds an empty answer and may end the next stream early.
* A change of the API key resets neither the ticked facets, which then may make
  every chat fail with a 403 until they are cleared (`ShownCanBeAsked` without
  `stale`), nor the
  conversation, which goes on under a new id of the other tenant below the
  messages of the first (`ScreenMatches` without `Calm`; `TenantsApart` holds).
* Two tabs that chat in one conversation interleave: the time of a turn is the
  start of its transaction, so a slower turn is saved later and stands before
  one that has already been read, and neither page shows the other's turns
  (`ScreenMatches` and `ContextIsScreen` without `Own`). What holds all the same
  is `ToldComesFirst`.
* `conversations.py:52` describes the list as ordered by chat activity; no chat
  updates the row, so the order is that of creation.
* The cache is asked before the history is read, with the question as it was
  typed: "and in 2023?" may get the answer to another conversation's.
* A call that dies between INCR and EXPIRE leaves a counter that never expires
  (`CountersExpire` without its first condition); it counts a window that is
  over and refuses nobody. An INCR that reaches Redis after that begins a new
  counter and is admitted (`WindowLimit` without `prompt`).

## 4. Proofs

`IngestionProofs` proves, for all constants, under the assumptions named in
`Versioning` and `Ingestion` (the budgets are natural numbers, the model
values `NoContent`, `NoRow`, `NoRequest`, `NoJob` are not members of the sets
they are absent values of):

* `TypeCorrectness`, `VersionTrailHolds`, `OneVersionStoredHolds`,
  `AuditAppendOnlyHolds`, and `Refinement` (the processes implement
  `VersionedIndex`).

The argument is one inductive invariant `IInv`. `VersionTrail` alone is not
inductive: a request or a job carries a row it loaded earlier and writes parts
of it back later. `IInv` adds that a row never disappears once it exists, that
only the worker writes versions, so that the version in the job's memory is
the row's version at its commit, and that from the commit to the upsert the
stores hold nothing of the document that the job has not put there or is not
about to purge. `OneVersionStored` needs the fact that `is_new` is decided only
for a document with no audit row, which has nothing in the stores. Every
action is one lemma with one step per conjunct it can disturb; sequence facts
come from `SequenceTheorems`.

`DocumentStatusProofs` goes on from `IInv`. `CompletedIsSearchableHolds` is for
every overlap and fault; its invariant `SearchableInv` adds that, as long as
nothing was deleted, the worker holds a row that is not `completed` from its
first commit to its last, that nobody else writes `completed`, and that at the
last commit the points are the job's. The other theorems assume `Overlapping =
FALSE`, without which TLC finds them violated. What "one operation at a time"
buys is the invariant `TurnsInv`: of the handlers, tasks and the job at most one
is at work on a path, and what it loaded is what the registry still says. From
it follow `OnlyPendingFailsHolds` and `DeletedStaysDeletedHolds` under every
fault.

`RegistryReflectsIndexHolds` and `DeletedIsGoneHolds` are for every fault as
well. What a settled row says of the stores it says whatever happened: they hold
nothing else. That a `completed` row's nodes are there, and a `deleted` row's
file is not, is broken by a request that breaks off between two of its steps, so
both properties ask for it while `RequestsRan`, a condition on the past which
`FailuresLeft` carries through the induction: the budget of these faults only
decreases. The invariants `ReflectsInv` and `GoneInv` say of every document, not
only of the settled ones, what is in the stores.

`SemanticCacheProofs` proves, for all documents, facets, scopes, questions,
slots and budgets, from the assumption on budgets in `SemanticCache`:

* `TypesHold`. Generations are bounded because every ingestion that began or
  is pending was paid for from the budget of uploads (`TypeInv`).
* `AnswersInScopeHolds`, for every interleaving of chats with changes (the run
  lets them take turns). `AnswersInScope` speaks of chats only and is not
  inductive: a hit takes its citations from an entry, so `ScopeInv` adds that
  every entry quotes only text within the scope it is stored under, and the
  types that make a chat's record keep its scope while its citations change.
  What the stores hold does not matter: retrieval filters whatever it finds.
* With `Overlapping = FALSE`: `IndexIsCurrentHolds`, `ChangeRepairsSearchHolds`
  and `SuccessRepairsIndexHolds`. The invariant `CurrentInv` says what whoever
  is in the middle of a purge, an ingestion or a rebuild has read and still has
  to do; the corpus a rebuild has read is the one of this moment because nobody
  else is between two steps. The last two need no hypothesis about earlier
  failures: `RebuildInv` is kept by every step, those that fail included, and so
  is `StoresInv`, which says how far the stores of the document being changed
  have come.
* With `ChatsOverlap = FALSE`: `ChangeRefreshesCacheHolds`, also when the worker
  and the API overlap. `RefreshInv` says of whoever has called the cache's
  invalidation, and not yet finished, that no entry quotes its document.
* With both: `CachedIsCurrentHolds`, from `CurrentInv`, `RefreshInv` and that a
  chat on its way to store quotes what the vector store still holds.

`FolderSyncProofs` proves, from `SyncAssumption`:

* For every overlap of runs with each other and with changes of files:
  `SyncTypes`, `AuditKeptHolds`, `OtherRootsUntouchedHolds`. The invariant
  `SyncInv` relates a run's memory to the registry: rows it read are still there
  though they may have changed, audit rows have only been added since, every row
  is at a version that has an audit row, and the rows a deletion pass still has
  to purge or to mark as `deleted` are of the run's own root.
  `RecordedSinceRows` is what makes a late commit harmless to the audit rows: it
  writes what it read, and appends.
* With `Overlapping = FALSE`: `PreviousSupersededHolds` and
  `RunRebuildsIndexHolds`, under any number of runs that die. `TurnInv` says
  that the run knows the folder and the rows it works on, hence that it ends by
  an exception of its environment only (the lemmas `...InTurn`), and `FreshInv`
  that the index is the stores' or a run is on its way to rebuild it.
* With one root and `Returning = FALSE` as well: `RunMirrorsFolderHolds`, the
  property that a run recovers from whatever earlier ones died of. `MirrorInv`
  says of each row what the stores hold for it (`RowTrue`: nothing if it is
  `deleted`, its content if it is `completed` and its file has not gone for
  good, and no promise in between), and of a run how far it has come
  (`Progress`). Both hypotheses are needed: a purge that is broken off leaves a
  `completed` row without nodes, which the unchanged test believes if the same
  content comes back or exists under another root.

`RequestGateProofs` begins with facts about the operators of `Scoping`, for all
tenants, values, keys, requests and nodes, from `ScopingAssumption` (the absent
value is not a value): `SameFilters` (both implementations of a filter accept
the same nodes), `ScopeKept` (what passes the resolved filters of a request that
is not forbidden is permitted to the key), `NoFilterReturnsScope` (without
filters it is exactly that), `ShownIsAllowed` (ticked facets are never
forbidden). They rest on `ResolvedWithinScope`: a facet the key restricts is
resolved to a part of what it allows that is not empty.

`RateLimitProofs` proves `WindowLimitHolds`, `RefusedOverQuotaHolds` and
`CountersExpireHolds` of `LimitSpec`, for any operations, keys, slots, window
and limit, from `LimitAssumption`. None of the three is inductive. `LimitInv`
adds: what a call remembers of its window and count is bounded by the tally of
who asked; a counter's value is at most that tally, and is lost only when its
window is over, because EXPIRE gives it a full window from a moment in or after
it; of the calls that saw a counter's first increment at most one is still on
its way to EXPIRE; and, for `WindowLimit`, while a window runs its counter is at
least as large as the number of calls served from it plus the pending one, so
that the number served cannot pass the limit.

Of the composition `RequestGateProofs` proves `GateTypes`,
`RevokedIsRefusedHolds`, `ServedInScopeHolds` and `ShownCanBeAskedHolds`, and
`GateLimits`: `RequestGate` implements `RateLimit`, every step of the gate being
a step of the limiter or leaving its variables alone. `GateWindowLimit` then
takes the limiter's theorems over. Revocation needs that a key in `dead` stays
revoked and that a row a request carries was read before; the sidebar needs that
its ticks are allowed to its key unless `switched`, and that the scope of a key
never changes.

`ChatStoreProofs` proves, for any number of tabs, tenants, conversations and
turns and for any bounds, from `ConversationsAssumption`:

* Whatever fails, whatever is done in haste and whatever key is set:
  `ChatTypes`, `TenantsApartHolds` and `ToldComesFirstHolds`. `TenantsApart` is
  not inductive: a request trusts the conversation it looked up earlier, and the
  history it was told is a list of turns that others may still change.
  `ServerInv` adds, for every turn (`TurnOK`), that its conversation exists and
  is of its tenant from the lookup on, that it has a time from the moment its
  transaction began, that it was told only turns that are saved and stay in that
  conversation, and in the order of their times, all before its own (`InTime`);
  and that no two transactions began at the same time (`OwnTimes`), since the
  clock of the model ticks at each of them. The times of saved turns never
  change, so what was read in order stays in order, whatever is put between.
* While `Calm` holds (no failure, no haste, no change of key so far; the
  properties begin with that condition): `ScreenMatchesHolds` and
  `ContextIsScreenHolds`. They speak of moments at
  which nothing is under way, or at which a question is sent, so the invariant
  has to say what a page shows at every other moment. `ScreenInv` does: a page
  that waits for no turn shows its conversation, or will when the answer to the
  conversation that was opened is loaded (`Settled`); a page that waits does so
  for one turn, the latest of the tab, and shows the turns before it followed
  by what has arrived of the answer, which with the events on the wire is the
  whole answer (`Waiting`, with `OnTheWay` for what can be on the wire at each
  stage of the handler). It splits on whether the conversation has turns of one
  tab only (`Own`), as the properties do: two tabs of one user may chat in one
  conversation, and then neither shows the other's turns until it is opened.

Both groups rest on what a sort by distinct times returns: a sorted
sequence is determined by the times (`Positions`: the position of an element is
the number of those not later), and what is added with the latest time comes
last (`LatestComesLast`, `SortGrows`). That a saved turn has the latest time of
its conversation is not so in general: a turn has the time at which its
transaction began and is saved when it commits, so a slower turn of another tab
comes to stand before one that is already read. It is so among the turns of one
tab that waits, which is why the second group asks for `Own`.
`ServerInv` and `ScreenInv` were checked by TLC on the instance of `chat_store`
before they were proved.

Where a theorem assumes a constant (`Overlapping = FALSE` and the like), the run
that checks the property gives the constant that value, and the divergences of
section 3 say what happens otherwise.

Model-checked only: the liveness properties `TaskReachesTerminal` and
`StreamEnds`, which need fairness and `ENABLED`. Every other property that a
passing run checks is a theorem. The runs marked `violation` have no theorems;
the counterexample TLC prints is the result.

## 5. Not modelled, and why

`PROJECT.json` gives the reason per component. In short: ranking, parsing,
embedding and generation are numeric or in libraries; wiring, logging, schemas
and migrations keep no state that several steps share. Within the modelled
components: a manifest that moves a file to another tenant (the registry's key
would change), a folder ingestion and an upload of one path at once, the
concurrency of several uvicorn or Celery processes (the deployment has one of
each), a file without text outside of `SearchIndex` (in `Ingestion` and
`FolderSync` every file that loads gives nodes), the text of answers, the order
of the two messages of one turn (they carry the same time), a clock of Redis
that differs from the application's, `rate_limit_enabled = false`, and two keys
with one display prefix. The documents page is a form and a polled list. The
pass that drops repeated sentences keeps no state.

## 6. Plan

Done: `Versioning`, `Ingestion` with `VersionedIndex`, `SearchIndex`,
`SemanticCache`, `FolderSync`, `Scoping`, `RateLimit`, `RequestGate`,
`Conversations`, `ChatStore`; the proofs of section 4. Next, in this order:

1. Scopes of `SemanticCache` taken from the keys of `RequestGate`.
2. The documents page: that a page which polls shows a settled status in the
   end.
