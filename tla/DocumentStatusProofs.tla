------------------------- MODULE DocumentStatusProofs -------------------------
(* What the status of a document says about the stores and the disk, and     *)
(* which steps may change it. That `completed` is searchable holds whatever  *)
(* overlaps and fails; the rest holds when clients wait for one operation on *)
(* a document to end before they start the next.                             *)
EXTENDS IngestionProofs

-----------------------------------------------------------------------------
(* The invariants                                                            *)

NoDeletes == budget.deletes = MaxDeletes

Uploading == \A r \in Requests : requests[r] # NoRequest =>
    requests[r].at \in {"written", "selected", "registered"}

\* From its first commit to its last the worker holds a row that is not
\* `completed`, and nobody else writes `completed`.
PendingInv == job # NoJob =>
    /\ job.at = "begin" /\ documents[job.path].status = "completed" =>
           job.old.status = "completed"
    /\ job.at \in {"purgeDocstore", "purgePoints", "load", "store", "upsert", "finalize"} =>
           documents[job.path].status # "completed" /\ job.old.status = "processing"

SearchableInv ==
    /\ budget.deletes <= MaxDeletes
    /\ NoDeletes => Uploading /\ CompletedIsSearchable
    /\ NoDeletes /\ job # NoJob =>
         /\ PendingInv
         /\ job.at = "finalize" => JobChunk \in points[job.path]

\* One operation at a time on a document.
Alone ==
    /\ \A r, s \in Requests : requests[r] # NoRequest /\ requests[s] # NoRequest
           /\ requests[r].path = requests[s].path => r = s
    /\ \A i, j \in DOMAIN queue : queue[i].path = queue[j].path => i = j
    /\ \A r \in Requests : requests[r] # NoRequest =>
           ~Queued(requests[r].path) /\ ~Working(requests[r].path)
    /\ job # NoJob => ~Queued(job.path)

\* What a request, a task and a job know of a document is what is there.
RequestKnows(q, row, file, parents, leaves) ==
    /\ q.at \in {"written", "selected", "registered"} => file = q.hash
    /\ q.at \in {"selected", "found", "halfPurged", "purged"} => q.old = row
    /\ q.at \in {"found", "halfPurged", "purged"} => row # NoRow /\ row.status # "deleted"
    /\ q.at = "registered" => row # NoRow /\ row.status = "queued" /\ row.facet = q.facet
    /\ q.at = "unlink" => row # NoRow /\ row.status = "deleted"
    /\ q.at \in {"halfPurged", "purged", "unlink"} => parents = {}
    /\ q.at \in {"purged", "unlink"} => leaves = {}

TaskKnows(t, row, file) ==
    row # NoRow /\ row.status = "queued" /\ row.facet = t.facet /\ file \in Contents

ChunkOf(row) == [version |-> row.version, content |-> row.hash, facet |-> row.facet]

JobKnows(j, row, file, parents, leaves) ==
    /\ row # NoRow
    /\ j.at \in {"select", "begin"} =>
           row.status = "queued" /\ row.facet = j.facet /\ file = j.hash
    /\ j.at = "begin" => j.old = row
    /\ j.at \in {"purgeDocstore", "purgePoints", "load", "store", "upsert", "finalize"} =>
           /\ j.old = row /\ row.status = "processing" /\ row.facet = j.facet
           /\ row.hash = j.hash /\ file = j.hash
    /\ j.at \in {"store", "upsert", "finalize"} => j.loaded = j.hash
    /\ j.at \in {"upsert", "finalize"} => parents = {ChunkOf(row)}
    /\ j.at = "finalize" => leaves = {ChunkOf(row)}
    /\ j.at = "failing" => row.status \in {"queued", "processing"}

RequestsKnow == \A r \in Requests : requests[r] # NoRequest =>
    LET p == requests[r].path IN
    RequestKnows(requests[r], documents[p], files[p], docstore[p], points[p])

TasksKnow == \A i \in DOMAIN queue :
    LET p == queue[i].path IN TaskKnows(queue[i], documents[p], files[p])

JobKnowsIt == job # NoJob =>
    LET p == job.path IN JobKnows(job, documents[p], files[p], docstore[p], points[p])

TurnsInv == Alone /\ RequestsKnow /\ TasksKnow /\ JobKnowsIt

\* A delete that has emptied a store and not yet committed.
Purging(p) == \E r \in Requests :
    requests[r] # NoRequest /\ requests[r].path = p
        /\ requests[r].at \in {"halfPurged", "purged"}

ReflectsInv == \A p \in Paths :
    documents[p] # NoRow /\ documents[p].status = "completed" =>
        /\ points[p] \subseteq {ChunkOf(documents[p])}
        /\ docstore[p] \subseteq {ChunkOf(documents[p])}
        /\ RequestsRan /\ ~Purging(p) =>
             points[p] = {ChunkOf(documents[p])} /\ docstore[p] = {ChunkOf(documents[p])}

GoneInv == \A p \in Paths :
    documents[p] # NoRow /\ documents[p].status = "deleted" =>
        /\ points[p] = {} /\ docstore[p] = {}
        /\ RequestsRan => files[p] = NoContent \/ Requested(p)

\* What is left for the API's failures is not more than there was.
FailuresLeft == budget.requestErrors <= MaxRequestErrors /\ budget.apiCrashes <= MaxApiCrashes

-----------------------------------------------------------------------------
(* Lemmas about requests and jobs                                            *)

LEMMA RequestMoves ==
    ASSUME TypeOK, NEW r \in Requests, requests[r] # NoRequest, NEW stage \in RequestStage,
           Goto(r, stage)
    PROVE  /\ requests'[r] \in Request /\ requests'[r] # NoRequest /\ requests'[r].at = stage
           /\ requests'[r].path = requests[r].path /\ requests'[r].hash = requests[r].hash
           /\ requests'[r].facet = requests[r].facet /\ requests'[r].old = requests[r].old
           /\ \A s \in Requests \ {r} : requests'[s] = requests[s]
<1>1. requests[r] \in Request /\ requests \in [Requests -> Request \union {NoRequest}]
  BY DEF TypeOK
<1>2. requests' = [requests EXCEPT ![r] = [requests[r] EXCEPT !.at = stage]]
  BY DEF Goto
<1>3. /\ requests'[r] = [requests[r] EXCEPT !.at = stage]
      /\ \A s \in Requests \ {r} : requests'[s] = requests[s]
  BY <1>1, <1>2
<1>4. requests'[r] \in Request
  BY <1>1, <1>3 DEF Request
<1> QED  BY <1>1, <1>3, <1>4, NoRequestAssumption DEF Request

LEMMA RequestEnds ==
    ASSUME TypeOK, NEW r \in Requests, Done(r)
    PROVE  /\ requests'[r] = NoRequest
           /\ \A s \in Requests \ {r} : requests'[s] = requests[s]
  BY DEF TypeOK, Done

LEMMA JobAdvances ==
    ASSUME NEW j \in Job, NEW stage \in JobStage
    PROVE  LET new == [j EXCEPT !.at = stage] IN
           /\ new \in Job /\ new.at = stage
           /\ new.path = j.path /\ new.facet = j.facet /\ new.hash = j.hash /\ new.old = j.old
           /\ new.decision = j.decision /\ new.version = j.version /\ new.loaded = j.loaded
  BY DEF Job

\* What is left of the deletes only shrinks.
LEMMA DeletesSpent ==
    ASSUME TypeOK, budget.deletes <= MaxDeletes, [Next]_vars
    PROVE  /\ budget'.deletes <= MaxDeletes
           /\ NoDeletes' => /\ NoDeletes
                            /\ \A r \in Requests, p \in Paths : ~DeleteSelect(r, p)
<1>1. budget \in Budget /\ budget.deletes \in Nat /\ MaxDeletes \in Nat
  BY BoundsAssumption DEF TypeOK, Budget
<1>2. ASSUME NEW r \in Requests, NEW p \in Paths, DeleteSelect(r, p)
      PROVE  budget'.deletes = budget.deletes - 1
  BY <1>1, <1>2 DEF DeleteSelect, Budget
<1>3. ASSUME \A r \in Requests, p \in Paths : ~DeleteSelect(r, p)
      PROVE  budget'.deletes = budget.deletes
  <2>1. CASE budget' = budget
    BY <2>1
  <2>2. CASE \/ \E r \in Requests, p \in Paths, c \in Contents, f \in Facets :
                    UploadWrite(r, p, c, f)
             \/ Faults
    BY <1>1, <2>2 DEF UploadWrite, Faults, UploadLost, RequestError, WorkerError,
       WorkerHandlerError, WorkerCrash, ApiCrash, Budget
  <2> QED  BY <1>3, <2>1, <2>2 DEF vars, Next, Clients, Upload, Delete, Worker, UploadSelect,
         UploadCommit, UploadConflict, UploadEnqueue, DeleteDocstore, DeletePoints,
         DeleteCommit, DeleteUnlink, WorkerTake, WorkerSkip, WorkerUnchanged, WorkerSelect,
         WorkerBegin, WorkerPurgeDocstore, WorkerPurgePoints, WorkerLoad, WorkerStore, WorkerUpsert,
         WorkerFinalize, WorkerMarkFailed
<1> QED  BY <1>1, <1>2, <1>3 DEF NoDeletes

-----------------------------------------------------------------------------
(* `completed` is searchable                                                 *)

\* An upload registers a row as `queued`, or leaves the status that overtook it.
LEMMA CommitStatus ==
    ASSUME IInv, NEW r \in Requests, UploadCommit(r)
    PROVE  LET p == requests[r].path IN
           /\ \A x \in Paths \ {p} : documents'[x] = documents[x]
           /\ documents'[p].status \in {"queued", documents[p].status}
           /\ documents[p] = NoRow => documents'[p].status = "queued"
<1> DEFINE p == requests[r].path
<1>1. /\ requests[r] \in Request /\ p \in Paths /\ documents \in [Paths -> MaybeRow]
      /\ requests[r].old # NoRow => documents[p] # NoRow
  BY DEF IInv, UploadCommit, At, TypeOK, Request, RequestInv, RequestOK
<1>2. documents'[p] = Committed(documents[p], requests[r].old,
                          Registered(requests[r].old, requests[r].hash, requests[r].facet))
  BY <1>1 DEF UploadCommit
<1>3. \A x \in Paths \ {p} : documents'[x] = documents[x]
  BY <1>1 DEF UploadCommit
<1>4. requests[r].old = NoRow => documents'[p].status = "queued"
  BY <1>2 DEF Committed, Registered, NewRow
<1>5. ASSUME requests[r].old # NoRow
      PROVE  documents'[p].status = Written(documents[p].status, requests[r].old.status, "queued")
  <2>1. requests[r].old \in Row
    BY <1>1, <1>5 DEF Request, MaybeRow
  <2>2. Registered(requests[r].old, requests[r].hash, requests[r].facet).status = "queued"
    BY <1>5, <2>1 DEF Registered, Row
  <2> QED  BY <1>2, <1>5, <2>2 DEF Committed
<1> QED  BY <1>1, <1>3, <1>4, <1>5 DEF Written

\* Nor does it touch the version.
LEMMA CommitVersion ==
    ASSUME IInv, NEW r \in Requests, UploadCommit(r)
    PROVE  LET p == requests[r].path IN
           /\ p \in Paths /\ documents'[p] # NoRow
           /\ documents[p] # NoRow => documents'[p].version = documents[p].version
<1> DEFINE p == requests[r].path
<1>1. IInv'
  BY UploadInvariant DEF Upload
<1>2. requests[r] # NoRequest /\ versions' = versions
  BY DEF UploadCommit, At
<1>3. p \in Paths
  BY <1>2 DEF IInv, TypeOK, Request
<1>4. requests'[r] # NoRequest /\ requests'[r].at = "registered" /\ requests'[r].path = p
  BY <1>2, RequestMoves DEF IInv, UploadCommit, RequestStage
<1>5. documents'[p] # NoRow
  BY <1>1, <1>4 DEF IInv, RequestInv, RequestOK
<1> QED  BY <1>1, <1>2, <1>3, <1>5 DEF IInv, RegistryInv

\* Before anything was deleted, every request is an upload.
LEMMA UploadingStep ==
    ASSUME IInv, SearchableInv, [Next]_vars, NoDeletes'
    PROVE  Uploading'
<1> USE DEF IInv
<1>1. NoDeletes /\ Uploading /\ \A r \in Requests, p \in Paths : ~DeleteSelect(r, p)
  BY DeletesSpent DEF SearchableInv
<1>2. requests \in [Requests -> Request \union {NoRequest}]
  BY DEF TypeOK
<1>3. CASE UNCHANGED requests
  BY <1>1, <1>3 DEF Uploading
<1>4. ASSUME NEW r \in Requests, NEW p \in Paths, NEW c \in Contents, NEW f \in Facets,
             UploadWrite(r, p, c, f)
      PROVE  Uploading'
  BY <1>1, <1>2, <1>4 DEF UploadWrite, Uploading
<1>5. ASSUME NEW r \in Requests, UploadSelect(r)  PROVE Uploading'
  <2>1. requests[r] \in Request
    BY <1>2, <1>5 DEF UploadSelect, At
  <2>2. requests' = [requests EXCEPT ![r] = [requests[r] EXCEPT !.at = "selected",
                                               !.old = documents[requests[r].path]]]
    BY <1>5 DEF UploadSelect
  <2> QED  BY <1>1, <1>2, <2>1, <2>2 DEF Request, Uploading
<1>6. ASSUME NEW r \in Requests, UploadCommit(r)  PROVE Uploading'
  <2>1. requests'[r].at = "registered" /\ \A s \in Requests \ {r} : requests'[s] = requests[s]
    BY <1>6, RequestMoves DEF UploadCommit, At, RequestStage
  <2> QED  BY <1>1, <2>1 DEF Uploading
<1>7. ASSUME NEW r \in Requests, Done(r)  PROVE Uploading'
  BY <1>1, <1>7, RequestEnds DEF Uploading
<1>8. ASSUME NEW r \in Requests, Delete(r)  PROVE FALSE
  BY <1>1, <1>8 DEF Delete, DeleteDocstore, DeletePoints, DeleteCommit, DeleteUnlink, At,
     Uploading
<1>9. CASE ApiCrash
  BY <1>9 DEF ApiCrash, Uploading
<1> QED
  BY <1>1, <1>3, <1>4, <1>5, <1>6, <1>7, <1>8, <1>9 DEF vars, Next, Clients, Upload, Worker,
     Faults, UploadConflict, UploadEnqueue, UploadLost, RequestError, WorkerError,
     WorkerHandlerError, WorkerCrash, WorkerTake, WorkerSkip, WorkerUnchanged, WorkerSelect, WorkerBegin, WorkerPurgeDocstore,
     WorkerPurgePoints, WorkerLoad, WorkerStore, WorkerUpsert, WorkerFinalize,
     WorkerMarkFailed

\* What SearchableInv says of the worker and of search, when nothing was deleted.
StoredWhenCompleted ==
    /\ CompletedIsSearchable
    /\ PendingInv
    /\ job # NoJob /\ job.at = "finalize" => JobChunk \in points[job.path]

\* Uploads leave the stores and the job alone.
LEMMA SearchableUpload ==
    ASSUME IInv, SearchableInv, NoDeletes, NoDeletes',
           StoredWhenCompleted, UNCHANGED <<points, job>>,
           UNCHANGED documents \/ \E r \in Requests : UploadCommit(r)
    PROVE  StoredWhenCompleted'
<1>1. job # NoJob => job.path \in Paths /\ documents[job.path] # NoRow
  BY DEF IInv, JobInv, TypeOK, Job
<1>2. JobChunk' = JobChunk
  BY DEF JobChunk
<1>3. CASE UNCHANGED documents
  BY <1>2, <1>3 DEF StoredWhenCompleted, CompletedIsSearchable, PendingInv, NoDeletes
<1>4. ASSUME NEW r \in Requests, UploadCommit(r)  PROVE StoredWhenCompleted'
  <2> DEFINE p == requests[r].path
  <2>1. /\ \A x \in Paths \ {p} : documents'[x] = documents[x]
        /\ documents'[p].status \in {"queued", documents[p].status}
        /\ documents[p] = NoRow => documents'[p].status = "queued"
    BY <1>4, CommitStatus
  <2>2. p \in Paths /\ (documents[p] # NoRow => documents'[p].version = documents[p].version)
    BY <1>4, CommitVersion
  <2> QED  BY <1>1, <1>2, <2>1, <2>2 DEF StoredWhenCompleted, CompletedIsSearchable, PendingInv, NoDeletes
<1> QED  BY <1>3, <1>4

LEMMA SearchableBegin ==
    ASSUME IInv, NoDeletes, NoDeletes', StoredWhenCompleted, WorkerBegin
    PROVE  StoredWhenCompleted'
<1> DEFINE p == job.path
           new == Decided(job.decision, job.old, job.hash, job.facet)
<1>1. /\ job # NoJob /\ job.at = "begin" /\ job \in Job /\ p \in Paths
      /\ documents \in [Paths -> MaybeRow]
  BY JobFacts DEF WorkerBegin, IInv, TypeOK
<1>2. /\ job.old \in Row /\ job.old # NoRow /\ job.decision \in {"fill", "supersede"}
      /\ documents[p].status = "completed" => job.old.status = "completed"
  BY <1>1, NoRowAssumption DEF IInv, JobInv, StoredWhenCompleted, PendingInv
<1>3. new.status = "processing"
  BY <1>2 DEF Decided, Row
<1>4. documents' = [documents EXCEPT ![p] = Committed(documents[p], job.old, new)]
  BY DEF WorkerBegin
<1>5. /\ \A x \in Paths \ {p} : documents'[x] = documents[x]
      /\ documents'[p].status = Written(documents[p].status, job.old.status, "processing")
  BY <1>1, <1>2, <1>3, <1>4 DEF Committed
<1>6. documents'[p].status # "completed"
  BY <1>2, <1>5 DEF Written
<1>7. /\ job'.at \in {"load", "purgeDocstore"} /\ job'.old = new /\ job'.path = p
  BY <1>1 DEF WorkerBegin, Job
<1>8. points' = points
  BY DEF WorkerBegin
<1> HIDE DEF p, new
<1> QED
  BY <1>3, <1>5, <1>6, <1>7, <1>8 DEF StoredWhenCompleted, CompletedIsSearchable, PendingInv,
     NoDeletes

\* Between the two commits the row is not `completed`, whatever the stores hold.
LEMMA SearchableStores ==
    ASSUME IInv, NoDeletes, NoDeletes', StoredWhenCompleted,
           WorkerPurgeDocstore \/ WorkerPurgePoints \/ WorkerLoad \/ WorkerStore \/ WorkerUpsert
    PROVE  StoredWhenCompleted'
<1> DEFINE p == job.path
<1>1. /\ job # NoJob /\ job \in Job /\ p \in Paths /\ points \in [Paths -> SUBSET Chunk]
      /\ documents' = documents
      /\ documents[p].status # "completed" /\ job.old.status = "processing"
  BY JobFacts DEF WorkerPurgeDocstore, WorkerPurgePoints, WorkerLoad, WorkerStore, WorkerUpsert,
     IInv, TypeOK, StoredWhenCompleted, PendingInv
<1>2. CompletedIsSearchable'
  <2>1. \A x \in Paths \ {p} : points'[x] = points[x]
    BY <1>1 DEF WorkerPurgeDocstore, WorkerPurgePoints, WorkerLoad, WorkerStore, WorkerUpsert
  <2> QED  BY <1>1, <2>1 DEF StoredWhenCompleted, CompletedIsSearchable, NoDeletes
<1>3. /\ job'.path = p /\ job'.old = job.old /\ job'.at # "begin"
  <2>1. CASE WorkerLoad
    BY <1>1, <2>1 DEF WorkerLoad, Job
  <2>2. CASE \E stage \in {"purgePoints", "load", "upsert", "finalize"} :
               job' = [job EXCEPT !.at = stage]
    BY <1>1, <2>2, JobAdvances DEF JobStage
  <2> QED  BY <2>1, <2>2 DEF WorkerPurgeDocstore, WorkerPurgePoints, WorkerStore, WorkerUpsert
<1>4. job'.at = "finalize" => JobChunk' \in points'[p]
  <2>1. CASE WorkerUpsert
    <3>1. /\ job'.version = job.version /\ job'.loaded = job.loaded /\ job'.facet = job.facet
      BY <1>1, <2>1 DEF WorkerUpsert, Job
    <3> QED  BY <1>1, <2>1, <3>1 DEF WorkerUpsert, JobChunk
  <2>2. CASE WorkerPurgeDocstore \/ WorkerPurgePoints \/ WorkerLoad \/ WorkerStore
    <3>1. job'.at # "finalize"
      BY <1>1, <2>2 DEF WorkerPurgeDocstore, WorkerPurgePoints, WorkerLoad, WorkerStore, Job
    <3> QED  BY <3>1
  <2> QED  BY <2>1, <2>2
<1> HIDE DEF p
<1> QED  BY <1>1, <1>2, <1>3, <1>4 DEF StoredWhenCompleted, PendingInv

LEMMA SearchableFinalize ==
    ASSUME IInv, NoDeletes, NoDeletes', StoredWhenCompleted, WorkerFinalize
    PROVE  StoredWhenCompleted'
<1> DEFINE p == job.path
<1>1. /\ job # NoJob /\ job.at = "finalize" /\ p \in Paths
      /\ documents \in [Paths -> MaybeRow] /\ documents[p] \in Row
      /\ job' = NoJob /\ points' = points
      /\ documents[p].version = CurrentVersion(versions[p])
  BY JobFacts DEF WorkerFinalize, IInv, TypeOK
<1>2. /\ job.old \in Row /\ job.old # NoRow /\ versions[p] # <<>> /\ job.version = Len(versions[p])
  BY <1>1, NoRowAssumption DEF IInv, JobInv
<1>3. Finalized(job.old, job.loaded).version = job.old.version
  BY <1>2 DEF Finalized, Row
<1>4. documents' = [documents EXCEPT ![p] =
                       Committed(documents[p], job.old, Finalized(job.old, job.loaded))]
  BY DEF WorkerFinalize
<1>5. /\ \A x \in Paths \ {p} : documents'[x] = documents[x]
      /\ documents'[p].version = documents[p].version
  BY <1>1, <1>2, <1>3, <1>4 DEF Committed, Written
<1>6. JobChunk \in points[p] /\ JobChunk.version = documents'[p].version
  BY <1>1, <1>2, <1>5 DEF StoredWhenCompleted, JobChunk, CurrentVersion
<1> HIDE DEF p
<1> QED  BY <1>1, <1>5, <1>6 DEF StoredWhenCompleted, CompletedIsSearchable, PendingInv, NoDeletes

\* A task that starts, or ends without its last commit, or fails.
LEMMA SearchableControl ==
    ASSUME IInv, NoDeletes, NoDeletes', StoredWhenCompleted,
           WorkerTake \/ WorkerSkip \/ WorkerUnchanged \/ WorkerSelect \/ WorkerMarkFailed
             \/ WorkerError \/ WorkerHandlerError \/ WorkerCrash
    PROVE  StoredWhenCompleted'
<1>1. points' = points
  BY DEF WorkerTake, WorkerSkip, WorkerUnchanged, WorkerSelect, WorkerMarkFailed, WorkerError,
     WorkerHandlerError, WorkerCrash
<1>2. CompletedIsSearchable'
  <2>1. CASE WorkerMarkFailed
    <3>1. /\ job.path \in Paths /\ documents[job.path] \in Row /\ documents[job.path] # NoRow
          /\ documents' = [documents EXCEPT ![job.path] =
                              [documents[job.path] EXCEPT !.status = "failed"]]
      BY <2>1, JobFacts, NoRowAssumption DEF WorkerMarkFailed, MarkedFailed
    <3>2. documents \in [Paths -> MaybeRow]
      BY DEF IInv, TypeOK
    <3>3. /\ documents'[job.path].status = "failed"
          /\ \A x \in Paths \ {job.path} : documents'[x] = documents[x]
      BY <3>1, <3>2 DEF Row
    <3> QED  BY <1>1, <3>3 DEF StoredWhenCompleted, CompletedIsSearchable, NoDeletes
  <2>2. CASE documents' = documents
    BY <1>1, <2>2 DEF StoredWhenCompleted, CompletedIsSearchable, NoDeletes
  <2> QED
    BY <2>1, <2>2 DEF WorkerTake, WorkerSkip, WorkerUnchanged, WorkerSelect, WorkerError,
       WorkerHandlerError, WorkerCrash
<1>3. job' = NoJob \/ job'.at \in {"select", "failing"}
        \/ (job'.at = "begin" /\ job'.old.status = documents'[job'.path].status)
  <2>1. CASE WorkerSelect
    <3>1. job \in Job /\ documents' = documents
      BY <2>1, JobFacts DEF WorkerSelect
    <3> QED  BY <2>1, <3>1 DEF WorkerSelect, Job
  <2>2. CASE WorkerError
    <3>1. job \in Job
      BY <2>2, JobFacts DEF WorkerError
    <3> QED  BY <2>2, <3>1 DEF WorkerError, Job
  <2> QED
    BY <2>1, <2>2 DEF WorkerTake, WorkerSkip, WorkerUnchanged, WorkerMarkFailed,
       WorkerHandlerError, WorkerCrash
<1> QED  BY <1>2, <1>3 DEF StoredWhenCompleted, PendingInv

LEMMA SearchableStep ==
    ASSUME IInv, SearchableInv, [Next]_vars
    PROVE  SearchableInv'
<1>1. budget'.deletes <= MaxDeletes
  BY DeletesSpent DEF IInv, SearchableInv
<1>2. ASSUME NoDeletes'  PROVE Uploading' /\ StoredWhenCompleted'
  <2>1. /\ NoDeletes /\ Uploading /\ StoredWhenCompleted /\ Uploading'
        /\ \A r \in Requests, p \in Paths : ~DeleteSelect(r, p)
    BY <1>2, DeletesSpent, UploadingStep DEF IInv, SearchableInv, StoredWhenCompleted, PendingInv
  <2>2. CASE UNCHANGED <<points, job>> /\
               (UNCHANGED documents \/ \E r \in Requests : UploadCommit(r))
    BY <1>2, <2>1, <2>2, SearchableUpload
  <2>3. CASE Worker \/ WorkerError \/ WorkerHandlerError \/ WorkerCrash
    BY <1>2, <2>1, <2>3, SearchableBegin, SearchableStores, SearchableFinalize,
       SearchableControl DEF Worker
  <2>4. ASSUME NEW r \in Requests, Delete(r)  PROVE FALSE
    BY <2>1, <2>4 DEF Delete, DeleteDocstore, DeletePoints, DeleteCommit, DeleteUnlink, At,
       Uploading
  <2> QED
    BY <2>1, <2>2, <2>3, <2>4 DEF vars, Next, Clients, Upload, Faults, UploadWrite, UploadSelect,
       UploadCommit, UploadConflict, UploadEnqueue, UploadLost, RequestError, ApiCrash
<1> QED  BY <1>1, <1>2 DEF SearchableInv, StoredWhenCompleted

LEMMA SearchableInit == Init => SearchableInv
<1> SUFFICES ASSUME Init  PROVE SearchableInv
  OBVIOUS
<1>1. budget.deletes = MaxDeletes /\ MaxDeletes \in Nat
  BY BoundsAssumption DEF Init
<1> QED  BY <1>1 DEF Init, SearchableInv, Uploading, CompletedIsSearchable

\* Until something is deleted, a row that says `completed` has its version in the
\* vector store, whatever uploads overlap and whatever fails (ingest_file sets
\* `processing` before it purges, and `completed` after it has stored).
THEOREM CompletedIsSearchableHolds == Spec => []CompletedIsSearchable
<1>1. Init => SearchableInv
  BY SearchableInit
<1>2. IInv /\ SearchableInv /\ [Next]_vars => SearchableInv'
  BY SearchableStep
<1>3. SearchableInv => CompletedIsSearchable
  BY DEF SearchableInv, NoDeletes, CompletedIsSearchable
<1> QED  BY <1>1, <1>2, <1>3, Invariance, PTL DEF Spec

-----------------------------------------------------------------------------
(* One operation at a time                                                   *)

\* The documents of the others stay as they are.
Only(p) == \A x \in Paths \ {p} :
    /\ documents'[x] = documents[x] /\ files'[x] = files[x]
    /\ docstore'[x] = docstore[x] /\ points'[x] = points[x]

\* Who may act on p is the only one there.
LEMMA NobodyElse ==
    ASSUME TypeOK, Alone, NEW r \in Requests, NEW p \in Paths,
           requests[r] # NoRequest => requests[r].path = p,
           requests[r] = NoRequest => ~Busy(p)
    PROVE  /\ ~Queued(p) /\ ~Working(p)
           /\ \A s \in Requests \ {r} : requests[s] # NoRequest => requests[s].path # p
  BY DEF Alone, Busy, Requested

\* A request acts on p, and may hand p over to the queue.
LEMMA RequestActs ==
    ASSUME TypeOK, TurnsInv, NEW r \in Requests, NEW p \in Paths, Only(p),
           \A s \in Requests \ {r} : requests'[s] = requests[s],
           job' = job,
           requests[r] # NoRequest => requests[r].path = p,
           requests[r] = NoRequest => ~Busy(p),
           requests'[r] # NoRequest => requests'[r].path = p
               /\ RequestKnows(requests'[r], documents'[p], files'[p], docstore'[p], points'[p]),
           \/ queue' = queue
           \/ \E t \in Task : /\ queue' = Append(queue, t) /\ requests'[r] = NoRequest
                              /\ t.path = p /\ TaskKnows(t, documents'[p], files'[p])
    PROVE  TurnsInv'
<1>1. /\ ~Queued(p) /\ ~Working(p)
      /\ \A s \in Requests \ {r} : requests[s] # NoRequest => requests[s].path # p
  BY NobodyElse DEF TurnsInv
<1>2. /\ \A s \in Requests : requests[s] # NoRequest => requests[s].path \in Paths
      /\ job # NoJob => job.path \in Paths
      /\ \A i \in DOMAIN queue : queue[i].path \in Paths
      /\ queue \in Seq(Task)
  <2>1. queue \in Seq(Task) /\ \A i \in DOMAIN queue : queue[i] \in Task
    BY DEF TypeOK
  <2> QED  BY <2>1 DEF TypeOK, Request, Job, Task
<1>3. RequestsKnow'
  <2> SUFFICES ASSUME NEW s \in Requests, requests'[s] # NoRequest
               PROVE  RequestKnows(requests'[s], documents'[requests'[s].path],
                          files'[requests'[s].path], docstore'[requests'[s].path],
                          points'[requests'[s].path])
    BY DEF RequestsKnow
  <2>1. CASE s = r
    BY <2>1
  <2>2. CASE s # r
    BY <1>1, <1>2, <2>2 DEF TurnsInv, RequestsKnow, Only
  <2> QED  BY <2>1, <2>2
<1>4. JobKnowsIt'
  BY <1>1, <1>2 DEF TurnsInv, JobKnowsIt, Only, Working
<1>5. CASE queue' = queue
  <2>1. TasksKnow'
    BY <1>1, <1>2, <1>5 DEF TurnsInv, TasksKnow, Only, Queued
  <2>2. Alone'
    BY <1>1, <1>5 DEF TurnsInv, Alone, Queued, Working
  <2> QED  BY <1>3, <1>4, <2>1, <2>2 DEF TurnsInv
<1>6. ASSUME NEW t \in Task, queue' = Append(queue, t), requests'[r] = NoRequest,
             t.path = p, TaskKnows(t, documents'[p], files'[p])
      PROVE  TurnsInv'
  <2>1. /\ DOMAIN queue' = DOMAIN queue \union {Len(queue) + 1} /\ Len(queue) + 1 \notin DOMAIN queue
        /\ queue'[Len(queue) + 1] = t /\ \A i \in DOMAIN queue : queue'[i] = queue[i]
    BY <1>2, <1>6
  <2>2. TasksKnow'
    BY <1>1, <1>2, <1>6, <2>1 DEF TurnsInv, TasksKnow, Only, Queued
  <2>3. Alone'
    <3>1. \A i, j \in DOMAIN queue' : queue'[i].path = queue'[j].path => i = j
      BY <1>1, <1>6, <2>1 DEF TurnsInv, Alone, Queued
    <3>2. \A x : Queued(x)' => x = p \/ Queued(x)
      BY <1>6, <2>1 DEF Queued
    <3> QED  BY <1>1, <1>6, <3>1, <3>2 DEF TurnsInv, Alone, Queued, Working
  <2> QED  BY <1>3, <1>4, <2>2, <2>3 DEF TurnsInv
<1> QED  BY <1>5, <1>6

\* The worker acts on the document of its job.
LEMMA JobActs ==
    ASSUME TypeOK, TurnsInv, job # NoJob, NEW p \in Paths, p = job.path, Only(p),
           UNCHANGED <<requests, queue>>,
           job' # NoJob => job'.path = p
               /\ JobKnows(job', documents'[p], files'[p], docstore'[p], points'[p])
    PROVE  TurnsInv'
<1>1. /\ \A s \in Requests : requests[s] # NoRequest => requests[s].path \in Paths \ {p}
      /\ \A i \in DOMAIN queue : queue[i].path \in Paths \ {p}
  <2>1. queue \in Seq(Task) /\ \A i \in DOMAIN queue : queue[i] \in Task
    BY DEF TypeOK
  <2> QED  BY <2>1 DEF TypeOK, Request, Task, TurnsInv, Alone, Working, Queued
<1>2. RequestsKnow' /\ TasksKnow'
  BY <1>1 DEF TurnsInv, RequestsKnow, TasksKnow, Only
<1>3. Alone' /\ JobKnowsIt'
  BY DEF TurnsInv, Alone, Queued, Working, JobKnowsIt
<1> QED  BY <1>2, <1>3 DEF TurnsInv

LEMMA TurnsUpload ==
    ASSUME Overlapping = FALSE, IInv, TurnsInv, NEW r \in Requests,
           \/ \E p \in Paths, c \in Contents, f \in Facets : UploadWrite(r, p, c, f)
           \/ Upload(r) \/ UploadLost(r)
    PROVE  TurnsInv'
<1> USE DEF IInv
<1>1. requests \in [Requests -> Request \union {NoRequest}] /\ documents \in [Paths -> MaybeRow]
  BY DEF TypeOK
<1>2. ASSUME NEW p \in Paths, NEW c \in Contents, NEW f \in Facets, UploadWrite(r, p, c, f)
      PROVE  TurnsInv'
  <2>1. ~Busy(p) /\ job' = job /\ queue' = queue /\ requests[r] = NoRequest
    BY <1>2 DEF UploadWrite, MayStart
  <2>2. /\ requests'[r] = [at |-> "written", path |-> p, hash |-> c, facet |-> f, old |-> NoRow]
        /\ \A s \in Requests \ {r} : requests'[s] = requests[s]
    BY <1>1, <1>2 DEF UploadWrite
  <2>3. Only(p) /\ files'[p] = c
    BY <1>2 DEF UploadWrite, Only, TypeOK
  <2>4. RequestKnows(requests'[r], documents'[p], files'[p], docstore'[p], points'[p])
    BY <2>2, <2>3 DEF RequestKnows
  <2> QED  BY <2>1, <2>2, <2>3, <2>4, RequestActs
<1> DEFINE p == requests[r].path
<1>3. requests[r] # NoRequest => /\ requests[r] \in Request /\ p \in Paths
                                 /\ RequestKnows(requests[r], documents[p], files[p],
                                                 docstore[p], points[p])
  BY <1>1 DEF Request, TurnsInv, RequestsKnow
<1>4. CASE UploadSelect(r)
  <2>1. /\ requests[r] # NoRequest /\ requests[r].at = "written"
        /\ UNCHANGED <<documents, files, docstore, points, queue, job>>
    BY <1>4 DEF UploadSelect, At
  <2>2. requests' = [requests EXCEPT ![r] = [requests[r] EXCEPT !.at = "selected",
                                                               !.old = documents[p]]]
    BY <1>4 DEF UploadSelect
  <2>3. /\ requests'[r].at = "selected" /\ requests'[r].old = documents[p]
        /\ requests'[r].path = p /\ requests'[r].hash = requests[r].hash
        /\ \A s \in Requests \ {r} : requests'[s] = requests[s]
    BY <1>1, <1>3, <2>1, <2>2 DEF Request
  <2>4. RequestKnows(requests'[r], documents'[p], files'[p], docstore'[p], points'[p])
    BY <1>3, <2>1, <2>3 DEF RequestKnows
  <2> QED  BY <1>3, <2>1, <2>3, <2>4, RequestActs DEF Only
<1>5. CASE UploadCommit(r)
  <2> DEFINE new == Registered(documents[p], requests[r].hash, requests[r].facet)
  <2>1. /\ requests[r] # NoRequest /\ requests[r].at = "selected"
        /\ UNCHANGED <<files, docstore, points, queue, job>>
        /\ requests[r].old = documents[p] /\ files[p] = requests[r].hash
    BY <1>3, <1>5 DEF UploadCommit, At, RequestKnows
  <2>2. /\ requests'[r].at = "registered" /\ requests'[r].path = p
        /\ requests'[r].hash = requests[r].hash /\ requests'[r].facet = requests[r].facet
        /\ \A s \in Requests \ {r} : requests'[s] = requests[s]
    BY <1>5, <2>1, RequestMoves DEF UploadCommit, RequestStage
  <2>3. requests[r].hash \in Contents /\ requests[r].facet \in Facets /\ documents[p] \in MaybeRow
    BY <1>1, <1>3, <2>1 DEF Request, RequestInv, RequestOK
  <2>4. new \in Row /\ new.status = "queued" /\ new.facet = requests[r].facet
    <3>1. new \in Row
      BY <2>3, RegisteredRow
    <3>2. new.status = "queued" /\ new.facet = requests[r].facet
      BY <2>3 DEF Registered, NewRow, MaybeRow, Row
    <3> QED  BY <3>1, <3>2
  <2>5. documents' = [documents EXCEPT ![p] = Committed(documents[p], documents[p], new)]
    BY <1>5, <2>1 DEF UploadCommit
  <2>6. Committed(documents[p], documents[p], new) = new
    <3> HIDE DEF new
    <3>1. CASE documents[p] = NoRow
      BY <3>1 DEF Committed
    <3>2. CASE documents[p] # NoRow
      BY <2>3, <2>4, <3>2, CommittedFresh DEF MaybeRow
    <3> QED  BY <3>1, <3>2
  <2>7. documents'[p] = new /\ \A x \in Paths \ {p} : documents'[x] = documents[x]
    BY <1>1, <1>3, <2>1, <2>5, <2>6
  <2> HIDE DEF new
  <2>8. RequestKnows(requests'[r], documents'[p], files'[p], docstore'[p], points'[p])
    BY <2>1, <2>2, <2>4, <2>7, NoRowAssumption DEF RequestKnows
  <2> QED  BY <1>3, <2>1, <2>2, <2>7, <2>8, RequestActs DEF Only
<1>6. CASE UploadConflict(r) \/ UploadLost(r)
  <2>1. /\ requests[r] # NoRequest /\ Done(r)
        /\ UNCHANGED <<documents, files, docstore, points, queue, job>>
    BY <1>6 DEF UploadConflict, UploadLost, At
  <2> QED  BY <1>3, <2>1, RequestActs, RequestEnds DEF Only
<1>7. CASE UploadEnqueue(r)
  <2> DEFINE t == [path |-> p, facet |-> requests[r].facet]
  <2>1. /\ requests[r] # NoRequest /\ requests[r].at = "registered" /\ Done(r)
        /\ queue' = Append(queue, t)
        /\ UNCHANGED <<documents, files, docstore, points, job>>
    BY <1>7 DEF UploadEnqueue, At
  <2>2. requests[r].hash \in Contents /\ t \in Task
    BY <1>3, <2>1 DEF Request, Task, RequestInv, RequestOK
  <2>3. TaskKnows(t, documents'[p], files'[p])
    BY <1>3, <2>1, <2>2 DEF RequestKnows, TaskKnows
  <2> QED  BY <1>3, <2>1, <2>2, <2>3, RequestActs, RequestEnds DEF Only
<1> QED  BY <1>2, <1>4, <1>5, <1>6, <1>7 DEF Upload

LEMMA TurnsDelete ==
    ASSUME Overlapping = FALSE, IInv, TurnsInv, NEW r \in Requests,
           (\E p \in Paths : DeleteSelect(r, p)) \/ Delete(r) \/ RequestError(r)
    PROVE  TurnsInv'
<1> USE DEF IInv
<1>1. /\ requests \in [Requests -> Request \union {NoRequest}]
      /\ documents \in [Paths -> MaybeRow]
      /\ docstore \in [Paths -> SUBSET Chunk] /\ points \in [Paths -> SUBSET Chunk]
      /\ files \in [Paths -> MaybeContents]
  BY DEF TypeOK
<1>2. ASSUME NEW p \in Paths, DeleteSelect(r, p)  PROVE TurnsInv'
  <2>1. /\ ~Busy(p) /\ requests[r] = NoRequest
        /\ UNCHANGED <<documents, files, docstore, points, queue, job>>
    BY <1>2 DEF DeleteSelect, MayStart
  <2>2. /\ requests'[r] = [at |-> "found", path |-> p, hash |-> NoContent,
                           facet |-> documents[p].facet, old |-> documents[p]]
        /\ \A s \in Requests \ {r} : requests'[s] = requests[s]
    BY <1>1, <1>2 DEF DeleteSelect
  <2>3. RequestKnows(requests'[r], documents'[p], files'[p], docstore'[p], points'[p])
    BY <1>2, <2>1, <2>2 DEF RequestKnows, DeleteSelect
  <2> QED  BY <2>1, <2>2, <2>3, RequestActs DEF Only
<1> DEFINE p == requests[r].path
<1>3. requests[r] # NoRequest => /\ requests[r] \in Request /\ p \in Paths
                                 /\ RequestKnows(requests[r], documents[p], files[p],
                                                 docstore[p], points[p])
  BY <1>1 DEF Request, TurnsInv, RequestsKnow
<1>4. CASE DeleteDocstore(r)
  <2>1. /\ requests[r] # NoRequest /\ requests[r].at = "found" /\ Goto(r, "halfPurged")
        /\ UNCHANGED <<documents, files, points, queue, job>>
        /\ docstore' = [docstore EXCEPT ![p] = {}]
    BY <1>4 DEF DeleteDocstore, At
  <2>2. /\ requests'[r].at = "halfPurged" /\ requests'[r].path = p
        /\ requests'[r].old = requests[r].old
        /\ \A s \in Requests \ {r} : requests'[s] = requests[s]
    BY <2>1, RequestMoves DEF RequestStage
  <2>3. RequestKnows(requests'[r], documents'[p], files'[p], docstore'[p], points'[p])
    BY <1>1, <1>3, <2>1, <2>2 DEF RequestKnows
  <2> QED  BY <1>1, <1>3, <2>1, <2>2, <2>3, RequestActs DEF Only
<1>5. CASE DeletePoints(r)
  <2>1. /\ requests[r] # NoRequest /\ requests[r].at = "halfPurged" /\ Goto(r, "purged")
        /\ UNCHANGED <<documents, files, docstore, queue, job>>
        /\ points' = [points EXCEPT ![p] = {}]
    BY <1>5 DEF DeletePoints, At
  <2>2. /\ requests'[r].at = "purged" /\ requests'[r].path = p
        /\ requests'[r].old = requests[r].old
        /\ \A s \in Requests \ {r} : requests'[s] = requests[s]
    BY <2>1, RequestMoves DEF RequestStage
  <2>3. RequestKnows(requests'[r], documents'[p], files'[p], docstore'[p], points'[p])
    BY <1>1, <1>3, <2>1, <2>2 DEF RequestKnows
  <2> QED  BY <1>1, <1>3, <2>1, <2>2, <2>3, RequestActs DEF Only
<1>6. CASE DeleteCommit(r)
  <2> DEFINE new == [documents[p] EXCEPT !.status = "deleted"]
  <2>1. /\ requests[r] # NoRequest /\ requests[r].at = "purged" /\ Goto(r, "unlink")
        /\ UNCHANGED <<files, docstore, points, queue, job>>
        /\ requests[r].old = documents[p] /\ documents[p] # NoRow
        /\ docstore[p] = {} /\ points[p] = {}
    BY <1>3, <1>6 DEF DeleteCommit, At, RequestKnows
  <2>2. /\ requests'[r].at = "unlink" /\ requests'[r].path = p
        /\ \A s \in Requests \ {r} : requests'[s] = requests[s]
    BY <2>1, RequestMoves DEF RequestStage
  <2>3. documents[p] \in Row /\ new \in Row /\ new.status = "deleted"
    BY <1>1, <1>3, <2>1 DEF MaybeRow, Row, Status
  <2>4. documents' = [documents EXCEPT ![p] = Committed(documents[p], documents[p], new)]
    BY <1>6, <2>1 DEF DeleteCommit
  <2> HIDE DEF new
  <2>5. documents'[p] = new /\ \A x \in Paths \ {p} : documents'[x] = documents[x]
    BY <1>1, <1>3, <2>1, <2>3, <2>4, CommittedFresh
  <2>6. RequestKnows(requests'[r], documents'[p], files'[p], docstore'[p], points'[p])
    BY <2>1, <2>2, <2>3, <2>5, NoRowAssumption DEF RequestKnows
  <2> QED  BY <1>3, <2>1, <2>2, <2>5, <2>6, RequestActs DEF Only
<1>7. CASE DeleteUnlink(r) \/ RequestError(r)
  <2>1. /\ requests[r] # NoRequest /\ Done(r)
        /\ UNCHANGED <<documents, docstore, points, queue, job>>
        /\ \A x \in Paths \ {p} : files'[x] = files[x]
    BY <1>1, <1>7 DEF DeleteUnlink, RequestError, At
  <2> QED  BY <1>3, <2>1, RequestActs, RequestEnds DEF Only
<1> QED  BY <1>2, <1>4, <1>5, <1>6, <1>7 DEF Delete

\* The oldest task becomes the job: its row is queued and its file is there.
LEMMA TurnsTake ==
    ASSUME IInv, TurnsInv, WorkerTake
    PROVE  TurnsInv'
<1> USE DEF IInv
<1> DEFINE t == queue[1]
<1>1. /\ queue \in Seq(Task) /\ queue # <<>> /\ job = NoJob /\ 1 \in DOMAIN queue
      /\ Head(queue) = t /\ queue' = Tail(queue)
      /\ UNCHANGED <<documents, files, docstore, points, requests>>
  BY DEF WorkerTake, TypeOK
<1>2. t \in Task /\ t.path \in Paths /\ TaskKnows(t, documents[t.path], files[t.path])
  <2>1. t \in Task
    BY <1>1
  <2> QED  BY <1>1, <2>1 DEF Task, TurnsInv, TasksKnow
<1>3. /\ job' # NoJob /\ job'.at = "select" /\ job'.path = t.path /\ job'.facet = t.facet
      /\ job'.hash = files[t.path]
  <2>1. files[t.path] # NoContent
    BY <1>2, NoContentAssumption DEF TaskKnows
  <2>2. job' = [at |-> "select", path |-> t.path, facet |-> t.facet, hash |-> files[t.path],
                old |-> NoRow, decision |-> "unchanged", version |-> 0, loaded |-> NoContent]
    BY <1>1, <2>1 DEF WorkerTake
  <2>3. job' \in Job \union {NoJob}
    BY WorkerControlInvariant DEF TypeOK
  <2>4. files[t.path] \in MaybeContents
    BY <1>2 DEF TypeOK
  <2>5. [at |-> "select", path |-> t.path, facet |-> t.facet, hash |-> files[t.path],
         old |-> NoRow, decision |-> "unchanged", version |-> 0, loaded |-> NoContent] \in Job
    BY <1>2, <2>4 DEF Job, JobStage, Task, MaybeRow, MaybeContents, Decisions
  <2> QED  BY <2>2, <2>5, NoJobAssumption
<1>4. JobKnowsIt'
  BY <1>1, <1>2, <1>3 DEF JobKnowsIt, JobKnows, TaskKnows
<1>5. \A i \in DOMAIN queue' : i + 1 \in DOMAIN queue /\ i + 1 # 1 /\ queue'[i] = queue[i + 1]
  BY <1>1
<1>6. TasksKnow'
  BY <1>1, <1>5 DEF TurnsInv, TasksKnow
<1>7. RequestsKnow'
  BY <1>1 DEF TurnsInv, RequestsKnow
<1>8. Alone'
  <2>1. \A i, j \in DOMAIN queue' : queue'[i].path = queue'[j].path => i = j
    <3>1. DOMAIN queue' \subseteq Nat
      BY <1>1
    <3> QED  BY <1>5, <3>1 DEF TurnsInv, Alone
  <2>2. \A i \in DOMAIN queue' : queue'[i].path # t.path
    BY <1>1, <1>5 DEF TurnsInv, Alone
  <2>3. \A r \in Requests : requests[r] # NoRequest =>
          requests[r].path # t.path /\ \A i \in DOMAIN queue' : queue'[i].path # requests[r].path
    BY <1>1, <1>5 DEF TurnsInv, Alone, Queued
  <2> HIDE DEF t
  <2> QED  BY <1>1, <1>3, <2>1, <2>2, <2>3 DEF TurnsInv, Alone, Queued, Working
<1> QED  BY <1>4, <1>6, <1>7, <1>8 DEF TurnsInv

\* A task that is skipped leaves its document to nobody.
LEMMA TurnsSkip ==
    ASSUME IInv, TurnsInv, WorkerSkip
    PROVE  TurnsInv'
<1>1. /\ queue \in Seq(Task) /\ queue # <<>> /\ queue' = Tail(queue) /\ job' = NoJob
      /\ UNCHANGED <<documents, files, docstore, points, requests>>
  BY DEF WorkerSkip, IInv, TypeOK
<1>2. /\ DOMAIN queue' \subseteq Nat
      /\ \A i \in DOMAIN queue' : i + 1 \in DOMAIN queue /\ queue'[i] = queue[i + 1]
  BY <1>1
<1>3. TasksKnow' /\ RequestsKnow' /\ JobKnowsIt'
  BY <1>1, <1>2 DEF TurnsInv, TasksKnow, RequestsKnow, JobKnowsIt
<1>4. \A i, j \in DOMAIN queue' : queue'[i].path = queue'[j].path => i = j
  BY <1>2 DEF TurnsInv, Alone
<1>5. \A p : Queued(p)' => Queued(p)
  BY <1>2 DEF Queued
<1>6. Alone'
  BY <1>1, <1>4, <1>5 DEF TurnsInv, Alone, Working
<1> QED  BY <1>3, <1>6 DEF TurnsInv

\* What is known while the worker has a job.
LEMMA JobTurn ==
    ASSUME IInv, TurnsInv, job # NoJob
    PROVE  /\ job \in Job /\ job.path \in Paths /\ documents[job.path] \in Row
           /\ JobKnows(job, documents[job.path], files[job.path], docstore[job.path],
                       points[job.path])
           /\ documents \in [Paths -> MaybeRow]
           /\ docstore \in [Paths -> SUBSET Chunk] /\ points \in [Paths -> SUBSET Chunk]
  BY JobFacts DEF TurnsInv, JobKnowsIt, IInv, TypeOK

\* The worker's first commit leaves the row `processing` with the hash of the
\* file and the facets of the task.
LEMMA TurnsBegin ==
    ASSUME IInv, TurnsInv, WorkerBegin
    PROVE  TurnsInv'
<1> USE DEF IInv
<1> DEFINE p == job.path
           row == documents[p]
           new == Decided(job.decision, row, job.hash, job.facet)
<1>1. /\ job # NoJob /\ job.at = "begin" /\ job \in Job /\ p \in Paths /\ row \in Row
      /\ job.old = row /\ row.facet = job.facet /\ files[p] = job.hash
      /\ documents \in [Paths -> MaybeRow]
      /\ UNCHANGED <<files, docstore, points, queue, requests>>
  BY JobTurn DEF WorkerBegin, JobKnows
<1>2. job.hash \in Contents /\ job.decision \in {"fill", "supersede"} /\ job.facet \in Facets
  BY <1>1 DEF JobInv, Job
<1>3. new \in Row
  BY <1>1, <1>2, DecidedRow
<1>4. new.status = "processing" /\ new.hash = job.hash /\ new.facet = job.facet
  BY <1>1, <1>2 DEF Decided, Row
<1>5. documents' = [documents EXCEPT ![p] = Committed(row, row, new)]
  BY <1>1 DEF WorkerBegin
<1>6. /\ job'.at \in {"load", "purgeDocstore"} /\ job'.path = p /\ job'.old = new
      /\ job'.hash = job.hash /\ job'.facet = job.facet
  BY <1>1 DEF WorkerBegin, Job
<1> HIDE DEF new
<1>7. documents'[p] = new /\ \A x \in Paths \ {p} : documents'[x] = documents[x]
  BY <1>1, <1>3, <1>5, CommittedFresh
<1>8. JobKnows(job', documents'[p], files'[p], docstore'[p], points'[p])
  BY <1>1, <1>3, <1>4, <1>6, <1>7, NoRowAssumption DEF JobKnows
<1> QED  BY <1>1, <1>6, <1>7, <1>8, JobActs DEF Only

\* Between its commits the worker purges and fills the stores.
LEMMA TurnsStores ==
    ASSUME IInv, TurnsInv,
           WorkerPurgeDocstore \/ WorkerPurgePoints \/ WorkerLoad \/ WorkerStore \/ WorkerUpsert
    PROVE  TurnsInv'
<1> USE DEF IInv
<1> DEFINE p == job.path
<1>1. /\ job # NoJob /\ job \in Job /\ p \in Paths /\ documents[p] \in Row
      /\ JobKnows(job, documents[p], files[p], docstore[p], points[p])
      /\ UNCHANGED <<documents, files, queue, requests>>
      /\ docstore \in [Paths -> SUBSET Chunk] /\ points \in [Paths -> SUBSET Chunk]
  BY JobTurn DEF WorkerPurgeDocstore, WorkerPurgePoints, WorkerLoad, WorkerStore, WorkerUpsert
<1>2. Only(p)
  BY <1>1 DEF Only, WorkerPurgeDocstore, WorkerPurgePoints, WorkerLoad, WorkerStore, WorkerUpsert
<1>3. job.at \in {"store", "upsert"} => JobChunk = ChunkOf(documents[p])
  BY <1>1 DEF JobInv, JobKnows, JobChunk, ChunkOf
<1>4. /\ job.at = "store" => docstore[p] = {}
      /\ job.at = "upsert" => points[p] = {}
  BY <1>1 DEF StoringInv
<1>5. job'.path = p /\ JobKnows(job', documents'[p], files'[p], docstore'[p], points'[p])
  <2>1. CASE WorkerPurgeDocstore \/ WorkerPurgePoints
    <3>1. \E stage \in {"purgePoints", "load"} : job' = [job EXCEPT !.at = stage]
      BY <2>1 DEF WorkerPurgeDocstore, WorkerPurgePoints
    <3>2. /\ job'.at \in {"purgePoints", "load"} /\ job'.path = p /\ job'.old = job.old
          /\ job'.hash = job.hash /\ job'.facet = job.facet
      BY <1>1, <3>1, JobAdvances DEF JobStage
    <3>3. job.at \in {"purgeDocstore", "purgePoints"}
      BY <2>1 DEF WorkerPurgeDocstore, WorkerPurgePoints
    <3> QED  BY <1>1, <3>2, <3>3 DEF JobKnows
  <2>2. CASE WorkerLoad
    <3>1. /\ job.at = "load" /\ job'.path = p /\ job'.old = job.old /\ job'.hash = job.hash
          /\ job'.facet = job.facet /\ job'.loaded = files[p] /\ job'.at \in {"failing", "store"}
      BY <1>1, <2>2 DEF WorkerLoad, Job
    <3> QED  BY <1>1, <3>1 DEF JobKnows
  <2>3. CASE WorkerStore
    <3>1. /\ job.at = "store" /\ job' = [job EXCEPT !.at = "upsert"]
          /\ docstore'[p] = docstore[p] \union {JobChunk} /\ points' = points
      BY <1>1, <2>3 DEF WorkerStore
    <3>2. /\ job'.at = "upsert" /\ job'.path = p /\ job'.old = job.old
          /\ job'.hash = job.hash /\ job'.facet = job.facet /\ job'.loaded = job.loaded
      BY <1>1, <3>1, JobAdvances DEF JobStage
    <3>3. docstore'[p] = {ChunkOf(documents[p])}
      BY <1>3, <1>4, <3>1
    <3> QED  BY <1>1, <3>1, <3>2, <3>3 DEF JobKnows
  <2>4. CASE WorkerUpsert
    <3>1. /\ job.at = "upsert" /\ job' = [job EXCEPT !.at = "finalize"]
          /\ points'[p] = points[p] \union {JobChunk} /\ docstore' = docstore
      BY <1>1, <2>4 DEF WorkerUpsert
    <3>2. /\ job'.at = "finalize" /\ job'.path = p /\ job'.old = job.old
          /\ job'.hash = job.hash /\ job'.facet = job.facet /\ job'.loaded = job.loaded
      BY <1>1, <3>1, JobAdvances DEF JobStage
    <3>3. points'[p] = {ChunkOf(documents[p])}
      BY <1>3, <1>4, <3>1
    <3> QED  BY <1>1, <3>1, <3>2, <3>3 DEF JobKnows
  <2> QED  BY <2>1, <2>2, <2>3, <2>4
<1> QED  BY <1>1, <1>2, <1>5, JobActs

LEMMA TurnsControl ==
    ASSUME IInv, TurnsInv,
           WorkerUnchanged \/ WorkerSelect \/ WorkerFinalize \/ WorkerMarkFailed \/ WorkerError
             \/ WorkerHandlerError \/ WorkerCrash
    PROVE  TurnsInv'
<1> USE DEF IInv
<1> DEFINE p == job.path
<1>1. /\ job # NoJob /\ job \in Job /\ p \in Paths /\ documents[p] \in Row
      /\ JobKnows(job, documents[p], files[p], docstore[p], points[p])
      /\ UNCHANGED <<files, docstore, points, queue, requests>>
      /\ documents \in [Paths -> MaybeRow]
  BY JobTurn DEF WorkerUnchanged, WorkerSelect, WorkerFinalize, WorkerMarkFailed, WorkerError,
     WorkerHandlerError, WorkerCrash
<1>2. Only(p)
  BY <1>1 DEF Only, WorkerUnchanged, WorkerSelect, WorkerFinalize, WorkerMarkFailed, WorkerError,
     WorkerHandlerError, WorkerCrash
<1>3. CASE job' = NoJob
  BY <1>1, <1>2, <1>3, JobActs
<1>4. CASE WorkerSelect
  <2>1. /\ job.at = "select" /\ job'.path = p /\ job'.old = documents[p] /\ job'.hash = job.hash
        /\ job'.facet = job.facet /\ job'.at \in {"failing", "begin"} /\ documents' = documents
    BY <1>1, <1>4 DEF WorkerSelect, Job
  <2>2. JobKnows(job', documents'[p], files'[p], docstore'[p], points'[p])
    BY <1>1, <2>1 DEF JobKnows
  <2> QED  BY <1>1, <1>2, <2>1, <2>2, JobActs
<1>5. CASE WorkerError
  <2>1. job'.at = "failing" /\ job'.path = p /\ documents' = documents /\ job.at # "failing"
    BY <1>1, <1>5, JobAdvances DEF WorkerError, JobStage
  <2>2. documents[p].status \in {"queued", "processing"}
    BY <1>1, <2>1 DEF JobKnows, Job, JobStage
  <2>3. JobKnows(job', documents'[p], files'[p], docstore'[p], points'[p])
    BY <1>1, <2>1, <2>2 DEF JobKnows
  <2> QED  BY <1>1, <1>2, <2>1, <2>3, JobActs
<1> QED
  BY <1>3, <1>4, <1>5 DEF WorkerUnchanged, WorkerFinalize, WorkerMarkFailed, WorkerHandlerError,
     WorkerCrash

LEMMA TurnsApiCrash ==
    ASSUME TurnsInv, ApiCrash
    PROVE  TurnsInv'
  BY DEF ApiCrash, TurnsInv, Alone, RequestsKnow, TasksKnow, JobKnowsIt, Queued, Working

LEMMA TurnsStep ==
    ASSUME Overlapping = FALSE, IInv, TurnsInv, [Next]_vars
    PROVE  TurnsInv'
<1>1. CASE UNCHANGED vars
  BY <1>1 DEF vars, TurnsInv, Alone, RequestsKnow, TasksKnow, JobKnowsIt, Queued, Working
<1>2. CASE Clients
  BY <1>2, TurnsUpload, TurnsDelete DEF Clients
<1>3. CASE Worker
  BY <1>3, TurnsTake, TurnsSkip, TurnsBegin, TurnsStores, TurnsControl DEF Worker
<1>4. CASE Faults
  BY <1>4, TurnsUpload, TurnsDelete, TurnsControl, TurnsApiCrash DEF Faults
<1> QED  BY <1>1, <1>2, <1>3, <1>4, TurnsUpload, TurnsDelete DEF Next

LEMMA TurnsInit == Init => TurnsInv
  BY DEF Init, TurnsInv, Alone, RequestsKnow, TasksKnow, JobKnowsIt

-----------------------------------------------------------------------------
(* How a status moves, and what ends with it                                 *)

\* The row of a document changes at five commits.
LEMMA RowChanges ==
    ASSUME IInv, [Next]_vars, NEW x \in Paths, documents'[x] # documents[x]
    PROVE  \/ \E r \in Requests : requests[r] # NoRequest /\ requests[r].path = x
                                  /\ (UploadCommit(r) \/ DeleteCommit(r))
           \/ job # NoJob /\ job.path = x /\ (WorkerBegin \/ WorkerFinalize \/ WorkerMarkFailed)
<1>1. documents \in [Paths -> MaybeRow]
  BY DEF IInv, TypeOK
<1>2. ASSUME NEW r \in Requests, UploadCommit(r) \/ DeleteCommit(r)
      PROVE  requests[r] # NoRequest /\ requests[r].path = x
  <2>1. requests[r] # NoRequest
    BY <1>2 DEF UploadCommit, DeleteCommit, At
  <2>2. requests[r].path # x => documents'[x] = documents[x]
    BY <1>1, <1>2 DEF UploadCommit, DeleteCommit
  <2> QED  BY <2>1, <2>2
<1>3. ASSUME WorkerBegin \/ WorkerFinalize \/ WorkerMarkFailed
      PROVE  job # NoJob /\ job.path = x
  <2>1. job # NoJob
    BY <1>3 DEF WorkerBegin, WorkerFinalize, WorkerMarkFailed
  <2>2. job.path # x => documents'[x] = documents[x]
    BY <1>1, <1>3 DEF WorkerBegin, WorkerFinalize, WorkerMarkFailed
  <2> QED  BY <2>1, <2>2
<1> QED
  BY <1>2, <1>3 DEF vars, Next, Clients, Upload, Delete, Worker, Faults, UploadWrite,
     UploadSelect, UploadConflict, UploadEnqueue, UploadLost, DeleteSelect, DeleteDocstore,
     DeletePoints, RequestError, DeleteUnlink, ApiCrash, WorkerTake, WorkerSkip,
     WorkerUnchanged, WorkerSelect, WorkerPurgeDocstore, WorkerPurgePoints, WorkerLoad,
     WorkerStore, WorkerUpsert, WorkerError, WorkerHandlerError, WorkerCrash

\* The worker's last commit changes nothing but the status and the chunk count.
LEMMA FinalizedRow ==
    ASSUME IInv, TurnsInv, WorkerFinalize
    PROVE  LET p == job.path IN
           /\ documents[p].status = "processing" /\ documents'[p].status = "completed"
           /\ ChunkOf(documents'[p]) = ChunkOf(documents[p])
           /\ points[p] = {ChunkOf(documents[p])} /\ docstore[p] = points[p]
<1> DEFINE p == job.path
           new == Finalized(documents[p], job.loaded)
<1>1. /\ job # NoJob /\ job.at = "finalize" /\ p \in Paths /\ documents[p] \in Row
      /\ job.old = documents[p] /\ documents[p].status = "processing"
      /\ points[p] = {ChunkOf(documents[p])} /\ docstore[p] = points[p]
      /\ documents \in [Paths -> MaybeRow]
  BY JobTurn DEF WorkerFinalize, JobKnows
<1>2. job.loaded \in Contents
  BY <1>1 DEF IInv, JobInv
<1>3. new \in Row /\ new.status = "completed" /\ ChunkOf(new) = ChunkOf(documents[p])
  BY <1>1, <1>2 DEF Finalized, Row, Status, MaybeContents, ChunkOf
<1>4. documents'[p] = Committed(documents[p], documents[p], new)
  BY <1>1 DEF WorkerFinalize
<1> HIDE DEF new
<1>5. documents'[p] = new
  BY <1>1, <1>3, <1>4, CommittedFresh
<1> QED  BY <1>1, <1>3, <1>5

\* Whoever writes a row moves its status along: a client queues or deletes a
\* document, the worker takes it from there to `completed` or `failed`.
LEMMA StatusMoves ==
    ASSUME IInv, TurnsInv, TurnsInv', [Next]_vars, NEW x \in Paths, documents'[x] # documents[x]
    PROVE  \/ documents'[x].status = "queued"
           \/ /\ documents[x] # NoRow /\ documents[x].status # "deleted"
              /\ documents'[x].status = "deleted"
              /\ \E r \in Requests : requests[r].path = x /\ DeleteCommit(r)
           \/ /\ documents[x] # NoRow /\ documents[x].status \in {"queued", "processing"}
              /\ \/ documents'[x].status \in {"processing", "failed"}
                 \/ documents'[x].status = "completed" /\ job.path = x /\ WorkerFinalize
<1>1. ASSUME NEW r \in Requests, requests[r] # NoRequest, requests[r].path = x, UploadCommit(r)
      PROVE  documents'[x].status = "queued"
  <2>1. requests'[r] # NoRequest /\ requests'[r].at = "registered" /\ requests'[r].path = x
    BY <1>1, RequestMoves DEF IInv, UploadCommit, RequestStage
  <2> QED  BY <2>1 DEF TurnsInv, RequestsKnow, RequestKnows
<1>2. ASSUME NEW r \in Requests, requests[r] # NoRequest, requests[r].path = x, DeleteCommit(r)
      PROVE  /\ documents[x] # NoRow /\ documents[x].status # "deleted"
             /\ documents'[x].status = "deleted"
  <2>1. requests'[r] # NoRequest /\ requests'[r].at = "unlink" /\ requests'[r].path = x
    BY <1>2, RequestMoves DEF IInv, DeleteCommit, RequestStage
  <2>2. requests[r].at = "purged"
    BY <1>2 DEF DeleteCommit, At
  <2> QED  BY <1>2, <2>1, <2>2 DEF TurnsInv, RequestsKnow, RequestKnows
<1>3. ASSUME job # NoJob, job.path = x, WorkerBegin
      PROVE  /\ documents[x] # NoRow /\ documents[x].status = "queued"
             /\ documents'[x].status = "processing"
  <2>1. documents[x] # NoRow /\ documents[x].status = "queued"
    BY <1>3 DEF WorkerBegin, TurnsInv, JobKnowsIt, JobKnows
  <2>2. /\ job'.at \in {"load", "purgeDocstore"} /\ job'.path = x /\ job' \in Job
    <3>1. job \in Job
      BY <1>3, JobTurn
    <3>2. job' \in Job \union {NoJob}
      BY <1>3, WorkerBeginInvariant DEF IInv, TypeOK
    <3>3. job' = [job EXCEPT !.at = IF IsNew(job.decision) THEN "load" ELSE "purgeDocstore",
                             !.version = Decided(job.decision, job.old, job.hash, job.facet).version,
                             !.old = Decided(job.decision, job.old, job.hash, job.facet)]
      BY <1>3 DEF WorkerBegin
    <3>4. job'.at \in {"load", "purgeDocstore"} /\ job'.path = x
      BY <1>3, <3>1, <3>3 DEF Job
    <3>5. job' \in Job
      <4>1. Decided(job.decision, job.old, job.hash, job.facet) \in Row
        BY <1>3, <3>1, DecidedRow DEF WorkerBegin, IInv, JobInv, Job
      <4>2. Decided(job.decision, job.old, job.hash, job.facet).version \in Nat
        BY <4>1 DEF Row
      <4> QED  BY <3>1, <3>3, <4>1, <4>2 DEF Job, JobStage, MaybeRow
    <3> QED  BY <3>4, <3>5
  <2> QED  BY <2>1, <2>2, NoJobAssumption DEF TurnsInv, JobKnowsIt, JobKnows
<1>4. ASSUME job # NoJob, job.path = x, WorkerMarkFailed
      PROVE  /\ documents[x] # NoRow /\ documents[x].status \in {"queued", "processing"}
             /\ documents'[x].status = "failed"
  <2>1. documents[x] # NoRow /\ documents[x].status \in {"queued", "processing"}
    BY <1>4 DEF WorkerMarkFailed, TurnsInv, JobKnowsIt, JobKnows
  <2>2. documents[x] \in Row /\ documents \in [Paths -> MaybeRow]
    BY <1>4, JobTurn
  <2>3. documents'[x] = [documents[x] EXCEPT !.status = "failed"]
    BY <1>4, <2>1, <2>2 DEF WorkerMarkFailed, MarkedFailed
  <2> QED  BY <2>1, <2>2, <2>3 DEF Row
<1>5. ASSUME job # NoJob, job.path = x, WorkerFinalize
      PROVE  /\ documents[x] # NoRow /\ documents[x].status = "processing"
             /\ documents'[x].status = "completed"
  BY <1>5, FinalizedRow DEF TurnsInv, JobKnowsIt, JobKnows
<1> QED  BY <1>1, <1>2, <1>3, <1>4, <1>5, RowChanges

LEMMA TurnsHold ==
    ASSUME Overlapping = FALSE
    PROVE  Spec => [](IInv /\ TurnsInv)
<1>1. IInv /\ TurnsInv /\ [Next]_vars => TurnsInv'
  BY TurnsStep
<1> QED  BY <1>1, TurnsInit, Invariance, PTL DEF Spec

\* With one operation at a time only a queued or processing row becomes `failed`,
\* whatever errors, lost tasks and crashes there are: the exception handler runs
\* inside the task that took the row (mark_document_failed).
THEOREM OnlyPendingFailsHolds ==
    ASSUME Overlapping = FALSE
    PROVE  Spec => OnlyPendingFails
<1> DEFINE Pends == \A p \in Paths :
      documents'[p] # documents[p] /\ documents'[p] # NoRow /\ documents'[p].status = "failed" =>
        documents[p].status \in {"queued", "processing", "failed"}
<1>1. IInv /\ TurnsInv /\ (IInv /\ TurnsInv)' /\ [Next]_vars => Pends
  BY StatusMoves
<1>2. IInv /\ TurnsInv /\ (IInv /\ TurnsInv)' /\ [Next]_vars => [Pends]_vars
  BY <1>1
<1> HIDE DEF Pends
<1>3. Spec => [][Pends]_vars
  BY <1>2, TurnsHold, PTL DEF Spec
<1> QED  BY <1>3 DEF Pends, OnlyPendingFails

\* With one operation at a time a deleted document comes back only as a newly
\* uploaded one (register_queued_upload sets `queued`), after any crash or error.
THEOREM DeletedStaysDeletedHolds ==
    ASSUME Overlapping = FALSE
    PROVE  Spec => DeletedStaysDeleted
<1> DEFINE Stays == \A p \in Paths :
      documents[p] # NoRow /\ documents[p].status = "deleted" =>
        documents'[p].status \in {"deleted", "queued"}
<1>1. IInv /\ TurnsInv /\ (IInv /\ TurnsInv)' /\ [Next]_vars => Stays
  <2> SUFFICES ASSUME IInv, TurnsInv, TurnsInv', [Next]_vars, NEW p \in Paths,
                      documents[p] # NoRow, documents[p].status = "deleted"
               PROVE  documents'[p].status \in {"deleted", "queued"}
    OBVIOUS
  <2>1. CASE documents'[p] = documents[p]
    BY <2>1
  <2>2. CASE documents'[p] # documents[p]
    BY <2>2, StatusMoves
  <2> QED  BY <2>1, <2>2
<1>2. IInv /\ TurnsInv /\ (IInv /\ TurnsInv)' /\ [Next]_vars => [Stays]_vars
  BY <1>1
<1> HIDE DEF Stays
<1>3. Spec => [][Stays]_vars
  BY <1>2, TurnsHold, PTL DEF Spec
<1> QED  BY <1>3 DEF Stays, DeletedStaysDeleted

-----------------------------------------------------------------------------
(* What changes a request, a store and a file                                *)

LEMMA RequestChanges ==
    ASSUME IInv, [Next]_vars, NEW r \in Requests, requests'[r] # requests[r]
    PROVE  \/ ApiCrash \/ UploadLost(r) \/ RequestError(r) \/ Upload(r) \/ Delete(r)
           \/ /\ requests[r] = NoRequest
              /\ \E p \in Paths : \/ \E c \in Contents, f \in Facets : UploadWrite(r, p, c, f)
                                  \/ DeleteSelect(r, p)
<1>1. requests \in [Requests -> Request \union {NoRequest}]
  BY DEF IInv, TypeOK
<1>2. ASSUME NEW s \in Requests, s # r, Upload(s) \/ Delete(s) \/ UploadLost(s) \/ RequestError(s)
      PROVE  FALSE
  BY <1>1, <1>2 DEF Upload, Delete, UploadSelect, UploadCommit, UploadConflict, UploadEnqueue,
     UploadLost, DeleteDocstore, DeletePoints, DeleteCommit, DeleteUnlink, RequestError, Goto, Done
<1>3. ASSUME NEW s \in Requests, s # r, NEW p \in Paths,
             \/ \E c \in Contents, f \in Facets : UploadWrite(s, p, c, f)
             \/ DeleteSelect(s, p)
      PROVE  FALSE
  BY <1>1, <1>3 DEF UploadWrite, DeleteSelect
<1>4. ~Worker /\ ~WorkerError /\ ~WorkerHandlerError /\ ~WorkerCrash /\ ~UNCHANGED vars
  BY DEF vars, Worker, WorkerTake, WorkerSkip, WorkerUnchanged, WorkerSelect, WorkerBegin,
     WorkerPurgeDocstore, WorkerPurgePoints, WorkerLoad, WorkerStore, WorkerUpsert,
     WorkerFinalize, WorkerMarkFailed, WorkerError, WorkerHandlerError, WorkerCrash
<1>5. CASE Clients
  BY <1>3, <1>5 DEF Clients, UploadWrite, DeleteSelect
<1> QED  BY <1>2, <1>4, <1>5 DEF Next, Faults

LEMMA StoreChanges ==
    ASSUME IInv, [Next]_vars, NEW x \in Paths,
           docstore'[x] # docstore[x] \/ points'[x] # points[x]
    PROVE  \/ \E r \in Requests : requests[r] # NoRequest /\ requests[r].path = x
                                  /\ (DeleteDocstore(r) \/ DeletePoints(r))
           \/ /\ job # NoJob /\ job.path = x
              /\ WorkerPurgeDocstore \/ WorkerPurgePoints \/ WorkerStore \/ WorkerUpsert
<1>1. docstore \in [Paths -> SUBSET Chunk] /\ points \in [Paths -> SUBSET Chunk]
  BY DEF IInv, TypeOK
<1>2. ASSUME NEW r \in Requests, DeleteDocstore(r) \/ DeletePoints(r)
      PROVE  requests[r] # NoRequest /\ requests[r].path = x
  <2>1. requests[r] # NoRequest
    BY <1>2 DEF DeleteDocstore, DeletePoints, At
  <2>2. requests[r].path # x => docstore'[x] = docstore[x] /\ points'[x] = points[x]
    BY <1>1, <1>2 DEF DeleteDocstore, DeletePoints
  <2> QED  BY <2>1, <2>2
<1>3. ASSUME WorkerPurgeDocstore \/ WorkerPurgePoints \/ WorkerStore \/ WorkerUpsert
      PROVE  job # NoJob /\ job.path = x
  <2>1. job # NoJob
    BY <1>3 DEF WorkerPurgeDocstore, WorkerPurgePoints, WorkerStore, WorkerUpsert
  <2>2. job.path # x => docstore'[x] = docstore[x] /\ points'[x] = points[x]
    BY <1>1, <1>3 DEF WorkerPurgeDocstore, WorkerPurgePoints, WorkerStore, WorkerUpsert
  <2> QED  BY <2>1, <2>2
<1> QED
  BY <1>2, <1>3 DEF vars, Next, Clients, Upload, Delete, Worker, Faults, UploadWrite,
     UploadSelect, UploadCommit, UploadConflict, UploadEnqueue, UploadLost, DeleteSelect,
     RequestError, DeleteCommit, DeleteUnlink, ApiCrash, WorkerTake, WorkerSkip,
     WorkerUnchanged, WorkerSelect, WorkerBegin, WorkerLoad, WorkerFinalize, WorkerMarkFailed,
     WorkerError, WorkerHandlerError, WorkerCrash

LEMMA FileChanges ==
    ASSUME IInv, [Next]_vars, NEW x \in Paths, files'[x] # files[x]
    PROVE  \/ \E r \in Requests, c \in Contents, f \in Facets : UploadWrite(r, x, c, f)
           \/ files'[x] = NoContent
<1>1. files \in [Paths -> MaybeContents]
  BY DEF IInv, TypeOK
<1>2. ASSUME NEW r \in Requests, NEW p \in Paths, NEW c \in Contents, NEW f \in Facets,
             UploadWrite(r, p, c, f)
      PROVE  p = x
  BY <1>1, <1>2 DEF UploadWrite
<1>3. ASSUME NEW r \in Requests, DeleteUnlink(r)
      PROVE  files'[x] = NoContent
  BY <1>1, <1>3 DEF DeleteUnlink
<1> QED
  BY <1>2, <1>3 DEF vars, Next, Clients, Upload, Delete, Worker, Faults,
     UploadSelect, UploadCommit, UploadConflict, UploadEnqueue, UploadLost, DeleteSelect,
     RequestError, DeleteDocstore, DeletePoints, DeleteCommit, ApiCrash, WorkerTake,
     WorkerSkip, WorkerUnchanged, WorkerSelect, WorkerBegin, WorkerPurgeDocstore,
     WorkerPurgePoints, WorkerLoad, WorkerStore, WorkerUpsert, WorkerFinalize,
     WorkerMarkFailed, WorkerError, WorkerHandlerError, WorkerCrash

\* A document whose stores the worker is working on is not `completed` or
\* `deleted`; a delete that reaches them empties one, and is purging then.
LEMMA StoresOfPending ==
    ASSUME IInv, TurnsInv, [Next]_vars, NEW x \in Paths,
           docstore'[x] # docstore[x] \/ points'[x] # points[x]
    PROVE  \/ documents[x].status = "processing"
           \/ /\ Purging(x)' /\ documents[x].status # "deleted"
              /\ docstore'[x] \subseteq docstore[x] /\ points'[x] \subseteq points[x]
<1>1. ASSUME NEW r \in Requests, requests[r] # NoRequest, requests[r].path = x,
             DeleteDocstore(r) \/ DeletePoints(r)
      PROVE  /\ Purging(x)' /\ documents[x].status # "deleted"
             /\ docstore'[x] \subseteq docstore[x] /\ points'[x] \subseteq points[x]
  <2>1. \E stage \in {"halfPurged", "purged"} : Goto(r, stage)
    BY <1>1 DEF DeleteDocstore, DeletePoints
  <2>2. /\ requests'[r] # NoRequest /\ requests'[r].path = x
        /\ requests'[r].at \in {"halfPurged", "purged"}
    BY <1>1, <2>1, RequestMoves DEF IInv, RequestStage
  <2>3. requests[r].at \in {"found", "halfPurged"}
    BY <1>1 DEF DeleteDocstore, DeletePoints, At
  <2>4. docstore \in [Paths -> SUBSET Chunk] /\ points \in [Paths -> SUBSET Chunk]
    BY DEF IInv, TypeOK
  <2>5. docstore'[x] \subseteq docstore[x] /\ points'[x] \subseteq points[x]
    BY <1>1, <2>4 DEF DeleteDocstore, DeletePoints
  <2> QED  BY <1>1, <2>2, <2>3, <2>5 DEF Purging, TurnsInv, RequestsKnow, RequestKnows
<1>2. ASSUME job # NoJob, job.path = x,
             WorkerPurgeDocstore \/ WorkerPurgePoints \/ WorkerStore \/ WorkerUpsert
      PROVE  documents[x].status = "processing"
  BY <1>2 DEF WorkerPurgeDocstore, WorkerPurgePoints, WorkerStore, WorkerUpsert, TurnsInv,
     JobKnowsIt, JobKnows
<1> QED  BY <1>1, <1>2, StoreChanges

-----------------------------------------------------------------------------
(* `completed` reflects the stores, `deleted` has left them                  *)

\* Requests ran only if they ran so far and this step breaks none off.
LEMMA RequestsKeepRunning ==
    ASSUME TypeOK, FailuresLeft, [Next]_vars
    PROVE  /\ FailuresLeft'
           /\ RequestsRan' => /\ RequestsRan /\ ~ApiCrash
                              /\ \A r \in Requests : ~RequestError(r)
<1>1. /\ budget \in Budget /\ budget.requestErrors \in Nat /\ budget.apiCrashes \in Nat
      /\ MaxRequestErrors \in Nat /\ MaxApiCrashes \in Nat
  BY BoundsAssumption DEF TypeOK, Budget
<1>2. CASE \E r \in Requests : RequestError(r)
  <2>1. /\ budget'.requestErrors = budget.requestErrors - 1
        /\ budget'.apiCrashes = budget.apiCrashes
    BY <1>1, <1>2 DEF RequestError, Budget
  <2> QED  BY <1>1, <2>1 DEF FailuresLeft, RequestsRan
<1>3. CASE ApiCrash
  <2>1. /\ budget'.requestErrors = budget.requestErrors
        /\ budget'.apiCrashes = budget.apiCrashes - 1
    BY <1>1, <1>3 DEF ApiCrash, Budget
  <2> QED  BY <1>1, <2>1 DEF FailuresLeft, RequestsRan
<1>4. CASE ~ApiCrash /\ \A r \in Requests : ~RequestError(r)
  <2>1. /\ budget'.requestErrors = budget.requestErrors
        /\ budget'.apiCrashes = budget.apiCrashes
    <3>1. CASE budget' = budget
      BY <3>1
    <3>2. CASE Clients \/ (Faults /\ ~ApiCrash /\ \A r \in Requests : ~RequestError(r))
      BY <1>1, <3>2 DEF Clients, UploadWrite, DeleteSelect, Faults, UploadLost, WorkerError,
         WorkerHandlerError, WorkerCrash, Budget
    <3> QED
      BY <1>4, <3>1, <3>2 DEF vars, Next, Upload, Delete, Worker, UploadSelect, UploadCommit,
         UploadConflict, UploadEnqueue, DeleteDocstore, DeletePoints, DeleteCommit,
         DeleteUnlink, WorkerTake, WorkerSkip, WorkerUnchanged, WorkerSelect, WorkerBegin,
         WorkerPurgeDocstore, WorkerPurgePoints, WorkerLoad, WorkerStore, WorkerUpsert,
         WorkerFinalize, WorkerMarkFailed
  <2> QED  BY <1>4, <2>1 DEF FailuresLeft, RequestsRan
<1> QED  BY <1>2, <1>3, <1>4

\* A purge that is not broken off ends with the row `deleted`.
LEMMA PurgeCommits ==
    ASSUME IInv, TurnsInv, TurnsInv', [Next]_vars, NEW x \in Paths,
           ~ApiCrash, \A r \in Requests : ~RequestError(r), Purging(x), ~Purging(x)'
    PROVE  documents'[x].status = "deleted"
<1>1. PICK r \in Requests : /\ requests[r] # NoRequest /\ requests[r].path = x
                            /\ requests[r].at \in {"halfPurged", "purged"}
  BY DEF Purging
<1>2. requests'[r] # requests[r]
  BY <1>1 DEF Purging
<1>3. DeletePoints(r) \/ DeleteCommit(r)
  <2>1. ~Upload(r) /\ ~UploadLost(r) /\ ~DeleteDocstore(r) /\ ~DeleteUnlink(r)
    BY <1>1 DEF Upload, UploadSelect, UploadCommit, UploadConflict, UploadEnqueue, UploadLost,
       DeleteDocstore, DeleteUnlink, At
  <2> QED  BY <1>1, <1>2, <2>1, RequestChanges DEF Delete
<1>4. ~DeletePoints(r)
  <2> SUFFICES ASSUME DeletePoints(r) PROVE FALSE
    OBVIOUS
  <2>1. /\ requests'[r] # NoRequest /\ requests'[r].path = x /\ requests'[r].at = "purged"
    BY <1>1, RequestMoves DEF IInv, DeletePoints, RequestStage
  <2> QED  BY <2>1 DEF Purging
<1>5. requests'[r] # NoRequest /\ requests'[r].path = x /\ requests'[r].at = "unlink"
  BY <1>1, <1>3, <1>4, RequestMoves DEF IInv, DeleteCommit, RequestStage
<1> QED  BY <1>5 DEF TurnsInv, RequestsKnow, RequestKnows

LEMMA ReflectsStep ==
    ASSUME IInv, TurnsInv, TurnsInv', FailuresLeft, ReflectsInv, [Next]_vars
    PROVE  ReflectsInv'
<1> SUFFICES ASSUME NEW x \in Paths, documents'[x] # NoRow, documents'[x].status = "completed"
             PROVE  LET current == {ChunkOf(documents'[x])} IN
                    /\ points'[x] \subseteq current /\ docstore'[x] \subseteq current
                    /\ RequestsRan' /\ ~Purging(x)' => points'[x] = current /\ docstore'[x] = current
  BY DEF ReflectsInv
<1>1. CASE documents'[x] # documents[x]
  <2>1. job.path = x /\ WorkerFinalize
    BY <1>1, StatusMoves
  <2>2. points' = points /\ docstore' = docstore
    BY <2>1 DEF WorkerFinalize
  <2> QED  BY <2>1, <2>2, FinalizedRow
<1>2. CASE documents'[x] = documents[x]
  <2>1. points'[x] \subseteq points[x] /\ docstore'[x] \subseteq docstore[x]
    BY <1>2, StoresOfPending
  <2>2. ASSUME RequestsRan', ~Purging(x)'
        PROVE  /\ RequestsRan /\ ~Purging(x)
               /\ points'[x] = points[x] /\ docstore'[x] = docstore[x]
    <3>1. RequestsRan /\ ~Purging(x)
      BY <1>2, <2>2, RequestsKeepRunning, PurgeCommits DEF IInv
    <3> QED  BY <1>2, <2>2, <3>1, StoresOfPending
  <2> QED  BY <1>2, <2>1, <2>2 DEF ReflectsInv
<1> QED  BY <1>1, <1>2

\* A request that ends while its document is `deleted`, and was not broken off,
\* has removed the file.
LEMMA DeletedEnds ==
    ASSUME IInv, TurnsInv, TurnsInv', [Next]_vars, NEW x \in Paths,
           ~ApiCrash, \A r \in Requests : ~RequestError(r),
           documents[x] # NoRow, documents[x].status = "deleted",
           Requested(x), ~Requested(x)'
    PROVE  files'[x] = NoContent
<1>1. PICK r \in Requests : requests[r] # NoRequest /\ requests[r].path = x
  BY DEF Requested
<1>2. UploadConflict(r) \/ UploadEnqueue(r) \/ UploadLost(r) \/ DeleteUnlink(r)
  <2>1. requests'[r] # requests[r]
    BY <1>1 DEF Requested
  <2>2. ASSUME NEW stage \in RequestStage, Goto(r, stage) PROVE FALSE
    BY <1>1, <2>2, RequestMoves DEF Requested, IInv
  <2>3. ~UploadCommit(r) /\ ~DeleteDocstore(r) /\ ~DeletePoints(r) /\ ~DeleteCommit(r)
    BY <2>2 DEF UploadCommit, DeleteDocstore, DeletePoints, DeleteCommit, RequestStage
  <2>4. ~UploadSelect(r)
    <3> SUFFICES ASSUME UploadSelect(r) PROVE FALSE
      OBVIOUS
    <3>1. requests[r] \in Request /\ requests \in [Requests -> Request \union {NoRequest}]
      BY <1>1 DEF IInv, TypeOK
    <3>2. requests'[r] = [requests[r] EXCEPT !.at = "selected", !.old = documents[x]]
      <4>1. requests' = [requests EXCEPT ![r] = [requests[r] EXCEPT !.at = "selected",
                                                                   !.old = documents[x]]]
        BY <1>1 DEF UploadSelect
      <4> QED  BY <3>1, <4>1
    <3>3. documents[x] \in MaybeRow
      BY DEF IInv, TypeOK
    <3>4. requests'[r] \in Request /\ requests'[r].path = x
      BY <1>1, <3>1, <3>2, <3>3 DEF Request, RequestStage
    <3> QED  BY <3>4, NoRequestAssumption DEF Requested
  <2> QED  BY <1>1, <2>1, <2>3, <2>4, RequestChanges DEF Upload, Delete
<1>3. RequestKnows(requests[r], documents[x], files[x], docstore[x], points[x])
  BY <1>1 DEF TurnsInv, RequestsKnow
<1>4. ~UploadConflict(r)
  BY <1>1, <1>3 DEF UploadConflict, At, RequestKnows, Conflict
<1>5. ~UploadEnqueue(r) /\ ~UploadLost(r)
  BY <1>1, <1>3 DEF UploadEnqueue, UploadLost, At, RequestKnows
<1>6. DeleteUnlink(r)
  BY <1>2, <1>4, <1>5
<1>7. files \in [Paths -> MaybeContents]
  BY DEF IInv, TypeOK
<1> QED  BY <1>1, <1>6, <1>7 DEF DeleteUnlink

LEMMA GoneStep ==
    ASSUME IInv, TurnsInv, TurnsInv', FailuresLeft, GoneInv, [Next]_vars
    PROVE  GoneInv'
<1> SUFFICES ASSUME NEW x \in Paths, documents'[x] # NoRow, documents'[x].status = "deleted"
             PROVE  /\ points'[x] = {} /\ docstore'[x] = {}
                    /\ RequestsRan' => files'[x] = NoContent \/ Requested(x)'
  BY DEF GoneInv
<1>1. CASE documents'[x] # documents[x]
  <2>1. PICK r \in Requests : requests[r].path = x /\ DeleteCommit(r)
    BY <1>1, StatusMoves
  <2>2. requests[r] # NoRequest
    BY <2>1 DEF DeleteCommit, At
  <2>3. requests'[r] # NoRequest /\ requests'[r].at = "unlink" /\ requests'[r].path = x
    BY <2>1, <2>2, RequestMoves DEF IInv, DeleteCommit, RequestStage
  <2> QED  BY <2>3 DEF TurnsInv, RequestsKnow, RequestKnows, Requested
<1>2. CASE documents'[x] = documents[x]
  <2>1. points'[x] = {} /\ docstore'[x] = {}
    BY <1>2, StoresOfPending DEF GoneInv
  <2>2. ASSUME RequestsRan' PROVE files'[x] = NoContent \/ Requested(x)'
    <3>1. /\ files[x] = NoContent \/ Requested(x)
          /\ ~ApiCrash /\ \A r \in Requests : ~RequestError(r)
      BY <1>2, <2>2, RequestsKeepRunning DEF GoneInv, IInv
    <3>2. CASE files'[x] # files[x]
      <4>1. ASSUME NEW r \in Requests, NEW c \in Contents, NEW f \in Facets, UploadWrite(r, x, c, f)
            PROVE  Requested(x)'
        <5>1. requests'[r] = [at |-> "written", path |-> x, hash |-> c, facet |-> f, old |-> NoRow]
          BY <4>1 DEF IInv, TypeOK, UploadWrite
        <5>2. requests'[r] \in Request
          BY <5>1 DEF Request, RequestStage, MaybeContents, MaybeRow
        <5> QED  BY <5>1, <5>2, NoRequestAssumption DEF Requested
      <4> QED  BY <3>2, <4>1, FileChanges
    <3>3. CASE files'[x] = files[x]
      BY <1>2, <3>1, <3>3, DeletedEnds
    <3> QED  BY <3>2, <3>3
  <2> QED  BY <2>1, <2>2
<1> QED  BY <1>1, <1>2

\* No step gives the API's failures more than they began with.
LEMMA FailuresLeftHolds == Spec => []FailuresLeft
<1>1. Init => FailuresLeft
  BY BoundsAssumption DEF Init, FailuresLeft
<1>2. TypeOK /\ FailuresLeft /\ [Next]_vars => FailuresLeft'
  BY RequestsKeepRunning
<1> QED  BY <1>1, <1>2, TypeCorrectness, PTL DEF Spec

\* With one operation at a time a `completed` row that nothing is working on
\* says what both stores hold, whatever errors of the worker and of its handler,
\* lost tasks and crashes of the worker there are; and when requests broke off
\* as well, the stores hold no more than the row says (finalize_document,
\* _purge_existing_document_data).
THEOREM RegistryReflectsIndexHolds ==
    ASSUME Overlapping = FALSE
    PROVE  Spec => []RegistryReflectsIndex
<1>1. Init => ReflectsInv
  BY DEF Init, ReflectsInv
<1>2. IInv /\ TurnsInv /\ (IInv /\ TurnsInv)' /\ FailuresLeft /\ ReflectsInv /\ [Next]_vars
        => ReflectsInv'
  BY ReflectsStep
<1>3. ReflectsInv => RegistryReflectsIndex
  BY DEF ReflectsInv, RegistryReflectsIndex, ChunkOf, Purging, Busy, Requested
<1> QED  BY <1>1, <1>2, <1>3, TurnsHold, FailuresLeftHolds, PTL DEF Spec

\* With one operation at a time a `deleted` document that nothing is working on
\* has left both stores, whatever errors and crashes there are, and the upload
\* directory, unless some request failed or died: the failing unlink of a delete
\* that succeeds is one such failure (delete_document commits before it unlinks,
\* and passes over an OSError).
THEOREM DeletedIsGoneHolds ==
    ASSUME Overlapping = FALSE
    PROVE  Spec => []DeletedIsGone
<1>1. Init => GoneInv
  BY DEF Init, GoneInv
<1>2. IInv /\ TurnsInv /\ (IInv /\ TurnsInv)' /\ FailuresLeft /\ GoneInv /\ [Next]_vars
        => GoneInv'
  BY GoneStep
<1>3. GoneInv => DeletedIsGone
  BY DEF GoneInv, DeletedIsGone, Busy
<1> QED  BY <1>1, <1>2, <1>3, TurnsHold, FailuresLeftHolds, PTL DEF Spec
===============================================================================
