----------------------------- MODULE Ingestion ------------------------------
(* Uploaded documents from the HTTP request to the search index: the upload  *)
(* and delete handlers of the API process, the Celery queue, the one solo    *)
(* worker that runs ingest_file, and the four places they write to -- the    *)
(* documents table, the document_versions table, the upload directory and    *)
(* the two node stores (docstore and Qdrant).                                *)
(*                                                                           *)
(* Steps are cut where another process, or another coroutine of the API's    *)
(* event loop, can get in: at every commit, await and external call.         *)
(* A file's nodes are one Chunk per store. The steps that follow a purge or  *)
(* an ingestion and touch only derived data (the semantic cache, the BM25    *)
(* index) belong to those components.                                        *)
EXTENDS Versioning, FiniteSets

CONSTANTS
    Paths,         \* (tenant_id, source_path) keys under UPLOAD_DIR
    Unsupported,   \* those whose extension has no loader
    Requests,      \* slots for HTTP requests being handled at once
    NoRequest,     \* an idle slot
    NoJob,         \* the worker waits for a task
    Overlapping,   \* TRUE: clients act on a document still being worked on
    MaxUploads, MaxDeletes,
    MaxErrors,         \* exceptions raised in ingest_file
    MaxHandlerErrors,  \* exceptions raised in the handler of those
    MaxRequestErrors,  \* exceptions raised in an upload or a delete
    MaxLost,           \* tasks the broker refuses after the row was committed
    MaxWorkerCrashes, MaxApiCrashes

VARIABLES
    documents,   \* documents[p]: the registry row, or NoRow
    versions,    \* versions[p]: its document_versions rows in insertion order
    files,       \* files[p]: what is on disk under UPLOAD_DIR
    docstore,    \* docstore[p]: parent and leaf nodes kept for parent lookups
    points,      \* points[p]: leaf nodes in the vector store, what search sees
    queue,       \* Celery tasks the broker holds
    job,         \* the task the worker is running, or NoJob
    requests,    \* requests[r]: the request handled in slot r, or NoRequest
    budget       \* how many more inputs and faults the environment may supply

vars == <<documents, versions, files, docstore, points, queue, job, requests, budget>>

Chunk == [version : Nat, content : Contents, facet : Facets]

Task == [path : Paths, facet : Facets]

JobStage == {"select", "begin", "purgeDocstore", "purgePoints", "load", "store",
             "upsert", "finalize", "failing"}

\* hash: the hash ingest_file took; old: the row its transaction loaded;
\* version: document.current_version in memory; loaded: what the loader read.
Job == [at : JobStage, path : Paths, facet : Facets, hash : MaybeContents,
        old : MaybeRow, decision : Decisions, version : Nat, loaded : MaybeContents]

RequestStage == {"written", "selected", "registered",                  \* upload
                 "found", "halfPurged", "purged", "unlink"}            \* delete

Request == [at : RequestStage, path : Paths, hash : MaybeContents,
            facet : Facets, old : MaybeRow]

Budget == [uploads : Nat, deletes : Nat, errors : Nat, handlerErrors : Nat,
           requestErrors : Nat, lost : Nat, workerCrashes : Nat, apiCrashes : Nat]

ASSUME OverlappingAssumption == Overlapping \in BOOLEAN
ASSUME UnsupportedAssumption == Unsupported \subseteq Paths
ASSUME BoundsAssumption ==
    /\ MaxUploads \in Nat /\ MaxDeletes \in Nat /\ MaxErrors \in Nat
    /\ MaxHandlerErrors \in Nat /\ MaxRequestErrors \in Nat /\ MaxLost \in Nat
    /\ MaxWorkerCrashes \in Nat /\ MaxApiCrashes \in Nat
ASSUME NoRequestAssumption == NoRequest \notin Request
ASSUME NoJobAssumption == NoJob \notin Job

TypeOK ==
    /\ documents \in [Paths -> MaybeRow]
    /\ versions \in [Paths -> Seq(VersionRow)]
    /\ files \in [Paths -> MaybeContents]
    /\ docstore \in [Paths -> SUBSET Chunk]
    /\ points \in [Paths -> SUBSET Chunk]
    /\ queue \in Seq(Task)
    /\ job \in Job \union {NoJob}
    /\ requests \in [Requests -> Request \union {NoRequest}]
    /\ budget \in Budget

Init ==
    /\ documents = [p \in Paths |-> NoRow]
    /\ versions = [p \in Paths |-> <<>>]
    /\ files = [p \in Paths |-> NoContent]
    /\ docstore = [p \in Paths |-> {}]
    /\ points = [p \in Paths |-> {}]
    /\ queue = <<>>
    /\ job = NoJob
    /\ requests = [r \in Requests |-> NoRequest]
    /\ budget = [uploads |-> MaxUploads, deletes |-> MaxDeletes,
                 errors |-> MaxErrors, handlerErrors |-> MaxHandlerErrors,
                 requestErrors |-> MaxRequestErrors, lost |-> MaxLost,
                 workerCrashes |-> MaxWorkerCrashes, apiCrashes |-> MaxApiCrashes]

-----------------------------------------------------------------------------
(* Who is working on a document.                                             *)

Requested(p) == \E r \in Requests : requests[r] # NoRequest /\ requests[r].path = p

Queued(p) == \E i \in DOMAIN queue : queue[i].path = p

Working(p) == job # NoJob /\ job.path = p

Busy(p) == Requested(p) \/ Queued(p) \/ Working(p)

\* With Overlapping = FALSE a client waits for one operation on a document to
\* end, however it ends, before it starts the next.
MayStart(p) == Overlapping \/ ~Busy(p)

\* The API runs its handlers on one event loop, and a delete purges the two
\* stores with synchronous calls: no other handler moves in between.
LoopFree(r) == \A q \in Requests \ {r} :
    requests[q] # NoRequest => requests[q].at # "halfPurged"

At(r, stage) == requests[r] # NoRequest /\ requests[r].at = stage /\ LoopFree(r)

Goto(r, stage) == requests' = [requests EXCEPT ![r].at = stage]

Done(r) == requests' = [requests EXCEPT ![r] = NoRequest]

-----------------------------------------------------------------------------
(* POST /documents/upload                                                    *)

\* Writes the bytes and, before the first await, hashes what it wrote.
UploadWrite(r, p, c, f) ==
    /\ requests[r] = NoRequest /\ LoopFree(r) /\ MayStart(p)
    /\ budget.uploads > 0
    /\ budget' = [budget EXCEPT !.uploads = @ - 1]
    /\ files' = [files EXCEPT ![p] = c]
    /\ requests' = [requests EXCEPT ![r] =
           [at |-> "written", path |-> p, hash |-> c, facet |-> f, old |-> NoRow]]
    /\ UNCHANGED <<documents, versions, docstore, points, queue, job>>

UploadSelect(r) ==
    /\ At(r, "written")
    /\ requests' = [requests EXCEPT ![r].at = "selected",
                                    ![r].old = documents[requests[r].path]]
    /\ UNCHANGED <<documents, versions, files, docstore, points, queue, job, budget>>

UploadCommit(r) ==
    LET q == requests[r] IN
    /\ At(r, "selected")
    /\ ~Conflict(documents[q.path], q.old)
    /\ documents' = [documents EXCEPT ![q.path] =
                        Committed(@, q.old, Registered(q.old, q.hash, q.facet))]
    /\ Goto(r, "registered")
    /\ UNCHANGED <<versions, files, docstore, points, queue, job, budget>>

\* IntegrityError: another request registered the same new path first. The
\* request ends with a 500 and enqueues nothing; its bytes stay on disk.
UploadConflict(r) ==
    /\ At(r, "selected")
    /\ Conflict(documents[requests[r].path], requests[r].old)
    /\ Done(r)
    /\ UNCHANGED <<documents, versions, files, docstore, points, queue, job, budget>>

UploadEnqueue(r) ==
    /\ At(r, "registered")
    /\ queue' = Append(queue, [path |-> requests[r].path, facet |-> requests[r].facet])
    /\ Done(r)
    /\ UNCHANGED <<documents, versions, files, docstore, points, job, budget>>

\* delay() raises (the broker is down): a 500 after the row was committed.
UploadLost(r) ==
    /\ At(r, "registered")
    /\ budget.lost > 0
    /\ budget' = [budget EXCEPT !.lost = @ - 1]
    /\ Done(r)
    /\ UNCHANGED <<documents, versions, files, docstore, points, queue, job>>

-----------------------------------------------------------------------------
(* DELETE /documents/{id}                                                    *)

DeleteSelect(r, p) ==
    /\ requests[r] = NoRequest /\ LoopFree(r) /\ MayStart(p)
    /\ documents[p] # NoRow /\ documents[p].status # "deleted"
    /\ budget.deletes > 0
    /\ budget' = [budget EXCEPT !.deletes = @ - 1]
    /\ requests' = [requests EXCEPT ![r] =
           [at |-> "found", path |-> p, hash |-> NoContent,
            facet |-> documents[p].facet, old |-> documents[p]]]
    /\ UNCHANGED <<documents, versions, files, docstore, points, queue, job>>

DeleteDocstore(r) ==
    /\ At(r, "found")
    /\ docstore' = [docstore EXCEPT ![requests[r].path] = {}]
    /\ Goto(r, "halfPurged")
    /\ UNCHANGED <<documents, versions, files, points, queue, job, budget>>

\* Mutant of DeletePoints: the vector store's delete is skipped.
DeletePointsSkipped(r) ==
    /\ At(r, "halfPurged")
    /\ Goto(r, "purged")
    /\ UNCHANGED <<documents, versions, files, docstore, points, queue, job, budget>>

DeletePoints(r) ==
    /\ At(r, "halfPurged")
    /\ points' = [points EXCEPT ![requests[r].path] = {}]
    /\ Goto(r, "purged")
    /\ UNCHANGED <<documents, versions, files, docstore, queue, job, budget>>

\* Only `status` differs from the row it loaded, so only `status` is written.
DeleteCommit(r) ==
    LET q == requests[r] IN
    /\ At(r, "purged")
    /\ documents' = [documents EXCEPT ![q.path] =
                        Committed(@, q.old, [q.old EXCEPT !.status = "deleted"])]
    /\ Goto(r, "unlink")
    /\ UNCHANGED <<versions, files, docstore, points, queue, job, budget>>

DeleteUnlink(r) ==
    /\ At(r, "unlink")
    /\ files' = [files EXCEPT ![requests[r].path] = NoContent]
    /\ Done(r)
    /\ UNCHANGED <<documents, versions, docstore, points, queue, job, budget>>

-----------------------------------------------------------------------------
(* What may go wrong in the API                                              *)

\* A call of a handler raises, at any stage but the last of an upload, which is
\* UploadLost: the SELECT or the commit of an upload, after the bytes were
\* written; a store or the commit of a delete, whose purge is not undone. All
\* are a 500 that commits nothing. The OSError of the unlink is caught: there
\* the delete succeeds and the file stays.
RequestError(r) ==
    /\ \E stage \in RequestStage \ {"registered"} : At(r, stage)
    /\ budget.requestErrors > 0
    /\ budget' = [budget EXCEPT !.requestErrors = @ - 1]
    /\ Done(r)
    /\ UNCHANGED <<documents, versions, files, docstore, points, queue, job>>

\* The API process dies: every request in flight is gone.
ApiCrash ==
    /\ \E r \in Requests : requests[r] # NoRequest
    /\ budget.apiCrashes > 0
    /\ budget' = [budget EXCEPT !.apiCrashes = @ - 1]
    /\ requests' = [r \in Requests |-> NoRequest]
    /\ UNCHANGED <<documents, versions, files, docstore, points, queue, job>>

-----------------------------------------------------------------------------
(* The Celery worker: ingest_document_task around ingest_file                *)

\* Mutants of WorkerTake: a file that is gone is hashed as if it were there; it
\* ends the task without marking the row.
WorkerTakeUnchecked ==
    /\ job = NoJob
    /\ queue # <<>> /\ Head(queue).path \notin Unsupported
    /\ job' = [at |-> "select", path |-> Head(queue).path, facet |-> Head(queue).facet,
               hash |-> files[Head(queue).path], old |-> NoRow,
               decision |-> "unchanged", version |-> 0, loaded |-> NoContent]
    /\ queue' = Tail(queue)
    /\ UNCHANGED <<documents, versions, files, docstore, points, requests, budget>>

WorkerTakeQuietly ==
    /\ job = NoJob
    /\ queue # <<>> /\ Head(queue).path \notin Unsupported
    /\ LET t == Head(queue) IN
       job' = IF files[t.path] = NoContent THEN NoJob
              ELSE [at |-> "select", path |-> t.path, facet |-> t.facet,
                    hash |-> files[t.path], old |-> NoRow, decision |-> "unchanged",
                    version |-> 0, loaded |-> NoContent]
    /\ queue' = Tail(queue)
    /\ UNCHANGED <<documents, versions, files, docstore, points, requests, budget>>

\* Takes the oldest task (acknowledged as it starts) and hashes the file; a
\* file that is gone raises.
WorkerTake ==
    /\ job = NoJob
    /\ queue # <<>> /\ Head(queue).path \notin Unsupported
    /\ LET t == Head(queue) IN
       job' = [at |-> IF files[t.path] = NoContent THEN "failing" ELSE "select",
               path |-> t.path, facet |-> t.facet, hash |-> files[t.path],
               old |-> NoRow, decision |-> "unchanged", version |-> 0,
               loaded |-> NoContent]
    /\ queue' = Tail(queue)
    /\ UNCHANGED <<documents, versions, files, docstore, points, requests, budget>>

\* skipped_unsupported: the task ends before the registry is asked, and the row
\* the upload registered stays as it is.
WorkerSkip ==
    /\ job = NoJob
    /\ queue # <<>> /\ Head(queue).path \in Unsupported
    /\ queue' = Tail(queue)
    /\ UNCHANGED <<documents, versions, files, docstore, points, job, requests, budget>>

WorkerDecision == Decision(documents[job.path], versions[job.path], job.hash)

\* The content is what the completed row says: the task ends here.
WorkerUnchanged ==
    /\ job # NoJob /\ job.at = "select"
    /\ WorkerDecision = "unchanged"
    /\ job' = NoJob
    /\ UNCHANGED <<documents, versions, files, docstore, points, queue, requests, budget>>

WorkerSelect ==
    /\ job # NoJob /\ job.at = "select"
    /\ WorkerDecision # "unchanged"
    /\ job' = [job EXCEPT !.at = IF WorkerDecision = "ambiguous" THEN "failing" ELSE "begin",
                          !.old = documents[job.path], !.decision = WorkerDecision]
    /\ UNCHANGED <<documents, versions, files, docstore, points, queue, requests, budget>>

\* Commits `processing`, the version bump and the audit rows in one transaction.
WorkerBegin ==
    LET new == Decided(job.decision, job.old, job.hash, job.facet) IN
    /\ job # NoJob /\ job.at = "begin"
    /\ documents' = [documents EXCEPT ![job.path] = Committed(@, job.old, new)]
    /\ versions' = [versions EXCEPT ![job.path] =
                       Recorded(job.decision, job.old, @, job.hash)]
    /\ job' = [job EXCEPT !.at = IF IsNew(job.decision) THEN "load" ELSE "purgeDocstore",
                          !.version = new.version, !.old = new]
    /\ UNCHANGED <<files, docstore, points, queue, requests, budget>>

WorkerPurgeDocstore ==
    /\ job # NoJob /\ job.at = "purgeDocstore"
    /\ docstore' = [docstore EXCEPT ![job.path] = {}]
    /\ job' = [job EXCEPT !.at = "purgePoints"]
    /\ UNCHANGED <<documents, versions, files, points, queue, requests, budget>>

\* Mutant of WorkerPurgePoints: the old version's leaves stay searchable.
WorkerPurgePointsSkipped ==
    /\ job # NoJob /\ job.at = "purgePoints"
    /\ job' = [job EXCEPT !.at = "load"]
    /\ UNCHANGED <<documents, versions, files, docstore, points, queue, requests, budget>>

WorkerPurgePoints ==
    /\ job # NoJob /\ job.at = "purgePoints"
    /\ points' = [points EXCEPT ![job.path] = {}]
    /\ job' = [job EXCEPT !.at = "load"]
    /\ UNCHANGED <<documents, versions, files, docstore, queue, requests, budget>>

\* The loader opens the file again, after it was hashed.
WorkerLoad ==
    /\ job # NoJob /\ job.at = "load"
    /\ job' = [job EXCEPT !.loaded = files[job.path],
                          !.at = IF files[job.path] = NoContent THEN "failing" ELSE "store"]
    /\ UNCHANGED <<documents, versions, files, docstore, points, queue, requests, budget>>

JobChunk == [version |-> job.version, content |-> job.loaded, facet |-> job.facet]

WorkerStore ==
    /\ job # NoJob /\ job.at = "store"
    /\ docstore' = [docstore EXCEPT ![job.path] = @ \union {JobChunk}]
    /\ job' = [job EXCEPT !.at = "upsert"]
    /\ UNCHANGED <<documents, versions, files, points, queue, requests, budget>>

WorkerUpsert ==
    /\ job # NoJob /\ job.at = "upsert"
    /\ points' = [points EXCEPT ![job.path] = @ \union {JobChunk}]
    /\ job' = [job EXCEPT !.at = "finalize"]
    /\ UNCHANGED <<documents, versions, files, docstore, queue, requests, budget>>

\* Mutant of WorkerFinalize: what follows the commit raises inside the same try.
WorkerFinalizeThenRaise ==
    /\ job # NoJob /\ job.at = "finalize"
    /\ documents' = [documents EXCEPT ![job.path] =
                        Committed(@, job.old, Finalized(job.old, job.loaded))]
    /\ versions' = [versions EXCEPT ![job.path] =
                       FinalizedVersions(@, job.version, job.loaded)]
    /\ job' = [job EXCEPT !.at = "failing"]
    /\ UNCHANGED <<files, docstore, points, queue, requests, budget>>

WorkerFinalize ==
    /\ job # NoJob /\ job.at = "finalize"
    /\ documents' = [documents EXCEPT ![job.path] =
                        Committed(@, job.old, Finalized(job.old, job.loaded))]
    /\ versions' = [versions EXCEPT ![job.path] =
                       FinalizedVersions(@, job.version, job.loaded)]
    /\ job' = NoJob
    /\ UNCHANGED <<files, docstore, points, queue, requests, budget>>

\* Any call of ingest_file raises; what its transaction did not commit is lost.
WorkerError ==
    /\ job # NoJob /\ job.at # "failing"
    /\ budget.errors > 0
    /\ budget' = [budget EXCEPT !.errors = @ - 1]
    /\ job' = [job EXCEPT !.at = "failing"]
    /\ UNCHANGED <<documents, versions, files, docstore, points, queue, requests>>

\* The exception handler. Its UPDATE is unconditional, so SELECT and commit
\* can be one step.
WorkerMarkFailed ==
    /\ job # NoJob /\ job.at = "failing"
    /\ documents' = [documents EXCEPT ![job.path] = MarkedFailed(@)]
    /\ job' = NoJob
    /\ UNCHANGED <<versions, files, docstore, points, queue, requests, budget>>

\* The handler's rollback, SELECT or commit raises as well (the database is
\* down, which is why the task failed): the row stays as it is.
WorkerHandlerError ==
    /\ job # NoJob /\ job.at = "failing"
    /\ budget.handlerErrors > 0
    /\ budget' = [budget EXCEPT !.handlerErrors = @ - 1]
    /\ job' = NoJob
    /\ UNCHANGED <<documents, versions, files, docstore, points, queue, requests>>

\* The worker process dies (killed, out of memory): no handler runs, and the
\* broker does not deliver the acknowledged task again.
WorkerCrash ==
    /\ job # NoJob
    /\ budget.workerCrashes > 0
    /\ budget' = [budget EXCEPT !.workerCrashes = @ - 1]
    /\ job' = NoJob
    /\ UNCHANGED <<documents, versions, files, docstore, points, queue, requests>>

-----------------------------------------------------------------------------
Upload(r) ==
    \/ UploadSelect(r) \/ UploadCommit(r) \/ UploadConflict(r) \/ UploadEnqueue(r)

Delete(r) ==
    \/ DeleteDocstore(r) \/ DeletePoints(r) \/ DeleteCommit(r) \/ DeleteUnlink(r)

Worker ==
    \/ WorkerTake \/ WorkerSkip \/ WorkerUnchanged \/ WorkerSelect \/ WorkerBegin
    \/ WorkerPurgeDocstore \/ WorkerPurgePoints \/ WorkerLoad \/ WorkerStore
    \/ WorkerUpsert \/ WorkerFinalize \/ WorkerMarkFailed

Clients == \E r \in Requests, p \in Paths :
    \/ \E c \in Contents, f \in Facets : UploadWrite(r, p, c, f)
    \/ DeleteSelect(r, p)

Faults ==
    \/ \E r \in Requests : UploadLost(r) \/ RequestError(r)
    \/ WorkerError \/ WorkerHandlerError \/ WorkerCrash \/ ApiCrash

Next ==
    \/ Clients
    \/ \E r \in Requests : Upload(r) \/ Delete(r)
    \/ Worker
    \/ Faults

Spec == Init /\ [][Next]_vars

\* A request that was accepted is handled, and the worker keeps taking tasks.
\* Nothing obliges a client to start, or a fault to happen.
Fairness ==
    /\ \A r \in Requests : WF_vars(Upload(r) \/ Delete(r))
    /\ WF_vars(Worker)

FairSpec == Spec /\ Fairness
-----------------------------------------------------------------------------
(* Properties                                                                *)

\* The audit trail of a document is the versions 1, 2, ... in order, every one
\* but the last superseded, and the registry row points at the last: whatever
\* uploads, deletes, errors and crashes interleave with the worker, a version is
\* never skipped, written twice or left open behind a newer one
\* (get_or_create_document's fill and supersede branches, versioning.py).
VersionTrail == \A p \in Paths :
    /\ documents[p] = NoRow => versions[p] = <<>>
    /\ documents[p] # NoRow => documents[p].version =
                                 IF versions[p] = <<>> THEN 1 ELSE Len(versions[p])
    /\ \A i \in DOMAIN versions[p] :
         /\ versions[p][i].version = i
         /\ versions[p][i].superseded <=> i < Len(versions[p])

\* Nodes of two versions, contents or facets of one document are never in the
\* stores together, and what is there belongs to a recorded version: the purge
\* in ingest_file is skipped only when there is nothing to purge, also after a
\* crash or an error left a version half stored (pipeline.py 113-114).
OneVersionStored == \A p \in Paths : \A a, b \in points[p] \union docstore[p] :
    a = b /\ a.version \in DOMAIN versions[p]

\* Until somebody deletes a document, a row that says `completed` has its current
\* version in the vector store, at every moment and not only when the worker is
\* idle: an overlapping upload or a retry never leaves the status claiming nodes
\* that were purged.
CompletedIsSearchable == \A p \in Paths :
    budget.deletes = MaxDeletes /\ documents[p] # NoRow /\ documents[p].status = "completed" =>
        \E c \in points[p] : c.version = documents[p].version

\* No handler of the API broke off: no exception, no OSError, no crash.
RequestsRan == budget.requestErrors = MaxRequestErrors /\ budget.apiCrashes = MaxApiCrashes

\* When nothing is working on a document and its row says `completed`, the
\* stores hold nothing but the content, the facets and the version of the row,
\* and both hold it unless a request broke off: a delete that does so between
\* its purge and its commit leaves a `completed` row without nodes
\* (models/document.py: the row "always reflects the latest ingested state").
RegistryReflectsIndex == \A p \in Paths :
    documents[p] # NoRow /\ documents[p].status = "completed" /\ ~Busy(p) =>
        LET current == {[version |-> documents[p].version, content |-> documents[p].hash,
                         facet |-> documents[p].facet]}
        IN /\ points[p] \subseteq current /\ docstore[p] \subseteq current
           /\ RequestsRan => points[p] = current /\ docstore[p] = current

\* A deleted document that nothing is working on has left both stores, whatever
\* failed or died, and the upload directory, unless a request broke off
\* (delete_document's docstring; an OSError of its unlink is logged and passed
\* over, and a crash may come between its commit and its unlink).
DeletedIsGone == \A p \in Paths :
    documents[p] # NoRow /\ documents[p].status = "deleted" /\ ~Busy(p) =>
        /\ points[p] = {} /\ docstore[p] = {}
        /\ RequestsRan => files[p] = NoContent

\* Audit rows are only ever appended; of an existing one nothing changes but the
\* chunk count and the superseded mark, and of a superseded one nothing at all.
AuditAppendOnly == [][\A p \in Paths :
    /\ DOMAIN versions[p] \subseteq DOMAIN versions'[p]
    /\ \A i \in DOMAIN versions[p] :
         /\ versions'[p][i].version = versions[p][i].version
         /\ versions'[p][i].hash = versions[p][i].hash
         /\ versions[p][i].superseded => versions'[p][i] = versions[p][i]]_vars

\* Only a queued or processing row becomes `failed` (mark_document_failed:
\* "flips a queued/processing row to `failed`"). The handler does not look at
\* the status it overwrites: that it is one of these, and not the `completed`
\* of the task's own commit or the `deleted` of a request, rests on what else
\* may happen to the document while its task runs.
OnlyPendingFails == [][\A p \in Paths :
    documents'[p] # documents[p] /\ documents'[p] # NoRow /\ documents'[p].status = "failed" =>
        documents[p].status \in {"queued", "processing", "failed"}]_vars

\* A deleted document comes back only as a newly uploaded one. No task, handler
\* or request of the time before the delete may commit over it.
DeletedStaysDeleted == [][\A p \in Paths :
    documents[p] # NoRow /\ documents[p].status = "deleted" =>
        documents'[p].status \in {"deleted", "queued"}]_vars

Pending(p) == documents[p] # NoRow /\ documents[p].status \in {"queued", "processing"}

\* Every queued or processing row gets a terminal status (mark_document_failed:
\* not "stuck at `queued`/`processing` forever"; upload_document: "queued ->
\* processing -> completed as the worker actually runs it").
ReachesTerminal == \A p \in Paths : Pending(p) ~> ~Pending(p)

\* The part of it that the code keeps: a pending row whose task has reached the
\* broker, of a type that has a loader, gets a terminal status, whatever
\* overlaps, raises or is lost elsewhere, as long as the worker is not killed
\* and its exception handler does not itself fail.
TaskReachesTerminal == \A p \in Paths \ Unsupported :
    Pending(p) /\ (Queued(p) \/ Working(p)) ~> ~Pending(p)

\* Ingestion is versioned indexing: the log is the hashes of the audit rows, and
\* search sees the version of the nodes in the vector store.
LogOf(vs) == [i \in DOMAIN vs |-> vs[i].hash]

VisibleIn(ps) == IF ps = {} THEN 0 ELSE (CHOOSE c \in ps : TRUE).version

Index == INSTANCE VersionedIndex WITH
    log <- [p \in Paths |-> LogOf(versions[p])],
    visible <- [p \in Paths |-> VisibleIn(points[p])]

\* Every behaviour of the upload, delete and worker processes is a behaviour of
\* the abstract versioned index.
ImplementsVersionedIndex == Index!Spec
=============================================================================
