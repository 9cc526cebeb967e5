--------------------------- MODULE IngestionProofs --------------------------
(* Proofs that the ingestion processes keep the audit trail and the stores   *)
(* of every document consistent, for any number of paths, contents, request  *)
(* slots, inputs and faults.                                                 *)
EXTENDS Ingestion, VersioningProofs

-----------------------------------------------------------------------------
(* The inductive invariant                                                   *)

\* VersionTrail, in the words of the lemmas above.
RegistryInv == \A p \in Paths :
    /\ Trail(versions[p])
    /\ documents[p] = NoRow => versions[p] = <<>>
    /\ documents[p] # NoRow => documents[p].version = CurrentVersion(versions[p])

\* A task is enqueued, and a row deleted, only after the row exists.
RequestOK(q, docs) ==
    /\ q.at \in {"written", "selected", "registered"} => q.hash \in Contents
    /\ q.at = "registered" => docs[q.path] # NoRow
    /\ q.at = "selected" /\ q.old # NoRow => docs[q.path] # NoRow
    /\ q.at \in {"found", "halfPurged", "purged"} =>
           q.old \in Row /\ docs[q.path] # NoRow

RequestInv == \A r \in Requests : requests[r] # NoRequest => RequestOK(requests[r], documents)

QueueInv == \A i \in DOMAIN queue : documents[queue[i].path] # NoRow

\* Nobody but the worker moves current_version, so the version it has in memory
\* is the row's, from its SELECT to its last commit.
JobInv == job # NoJob =>
    /\ documents[job.path] # NoRow
    /\ job.at \in {"select", "begin"} => job.hash \in Contents
    /\ job.at = "begin" =>
         /\ job.decision \in {"fill", "supersede"}
         /\ job.old \in Row /\ job.old.version = documents[job.path].version
         /\ job.decision = "fill" <=> versions[job.path] = <<>>
    /\ job.at \in {"purgeDocstore", "purgePoints", "load", "store", "upsert", "finalize"} =>
         /\ job.old \in Row /\ job.old.version = job.version
         /\ versions[job.path] # <<>> /\ job.version = Len(versions[job.path])
    /\ job.at \in {"store", "upsert", "finalize"} => job.loaded \in Contents

\* What the stores hold of the document the worker is storing.
StoringInv == job # NoJob =>
    /\ job.at = "purgePoints" => docstore[job.path] = {}
    /\ job.at \in {"load", "store"} => points[job.path] = {} /\ docstore[job.path] = {}
    /\ job.at = "upsert" => points[job.path] = {} /\ docstore[job.path] \subseteq {JobChunk}
    /\ job.at = "finalize" =>
         points[job.path] \subseteq {JobChunk} /\ docstore[job.path] \subseteq {JobChunk}

IInv == TypeOK /\ RegistryInv /\ RequestInv /\ QueueInv /\ JobInv
            /\ OneVersionStored /\ StoringInv

LEMMA InitInvariant == Init => IInv
  <1> SUFFICES ASSUME Init PROVE IInv
    OBVIOUS
  <1>1. TypeOK
    BY BoundsAssumption DEF Init, TypeOK, MaybeRow, MaybeContents, Budget
  <1>2. RegistryInv
    BY DEF Init, RegistryInv, Trail
  <1> QED BY <1>1, <1>2 DEF Init, IInv, RequestInv, QueueInv, JobInv,
                            OneVersionStored, StoringInv

-----------------------------------------------------------------------------
(* A step that leaves every row where it was, with its version, and registers *)
(* new ones only for paths without audit rows, keeps what depends on the rows *)
RowsKept == \A p \in Paths :
    /\ documents[p] # NoRow => /\ documents'[p] # NoRow
                               /\ documents'[p].version = documents[p].version
    /\ documents[p] = NoRow /\ documents'[p] # NoRow => documents'[p].version = 1

LEMMA RowsKeptInv ==
    ASSUME IInv, RowsKept
    PROVE  /\ UNCHANGED versions => RegistryInv'
           /\ UNCHANGED queue => QueueInv'
           /\ UNCHANGED <<versions, job>> => JobInv'
  <1> USE DEF IInv, RowsKept
  <1>1. ASSUME UNCHANGED versions PROVE RegistryInv'
    <2> SUFFICES ASSUME NEW p \in Paths
                 PROVE  /\ Trail(versions'[p])
                        /\ documents'[p] = NoRow => versions'[p] = <<>>
                        /\ documents'[p] # NoRow =>
                               documents'[p].version = CurrentVersion(versions'[p])
      BY DEF RegistryInv
    <2>1. documents[p] = NoRow => versions[p] = <<>>
      BY DEF RegistryInv
    <2> QED BY <1>1, <2>1 DEF RegistryInv, CurrentVersion
  <1>2. ASSUME UNCHANGED queue PROVE QueueInv'
    <2>1. ASSUME NEW i \in DOMAIN queue PROVE queue[i].path \in Paths
      <3>1. queue \in Seq(Task)
        BY DEF TypeOK
      <3>2. queue[i] \in Task
        BY <3>1
      <3> QED BY <3>2 DEF Task
    <2>2. \A i \in DOMAIN queue : documents[queue[i].path] # NoRow
      BY DEF QueueInv
    <2> QED BY <1>2, <2>1, <2>2 DEF QueueInv
  <1>3. ASSUME UNCHANGED <<versions, job>> PROVE JobInv'
    <2>1. job # NoJob => job.path \in Paths
      BY DEF TypeOK, Job
    <2> QED BY <1>3, <2>1 DEF JobInv
  <1> QED BY <1>1, <1>2, <1>3

LEMMA RequestStep ==
    ASSUME IInv, RowsKept, NEW r \in Requests, NEW q \in Request \union {NoRequest},
           requests' = [requests EXCEPT ![r] = q],
           q # NoRequest => RequestOK(q, documents')
    PROVE  RequestInv' /\ requests' \in [Requests -> Request \union {NoRequest}]
  <1>1. requests \in [Requests -> Request \union {NoRequest}]
    BY DEF IInv, TypeOK
  <1>2. ASSUME NEW s \in Requests, requests'[s] # NoRequest
        PROVE  RequestOK(requests'[s], documents')
    <2>1. CASE s = r
      BY <1>1, <1>2, <2>1
    <2>2. CASE s # r
      <3>1. requests'[s] = requests[s] /\ requests[s] \in Request
        BY <1>1, <1>2, <2>2
      <3>2. requests[s].path \in Paths
        BY <3>1 DEF Request
      <3>3. RequestOK(requests[s], documents)
        BY <1>2, <3>1 DEF IInv, RequestInv
      <3> QED BY <3>1, <3>2, <3>3 DEF RowsKept, RequestOK
    <2> QED BY <2>1, <2>2
  <1>3. requests' \in [Requests -> Request \union {NoRequest}]
    BY <1>1
  <1> QED BY <1>2, <1>3 DEF RequestInv

\* Writing a row of the same version is such a step.
LEMMA RowWritten ==
    ASSUME IInv, NEW p \in Paths, NEW row \in Row,
           documents' = [documents EXCEPT ![p] = row],
           documents[p] # NoRow => row.version = documents[p].version,
           documents[p] = NoRow => row.version = 1
    PROVE  RowsKept /\ documents' \in [Paths -> MaybeRow]
  <1>1. documents \in [Paths -> MaybeRow]
    BY DEF IInv, TypeOK
  <1>2. row # NoRow
    BY NoRowAssumption
  <1> QED BY <1>1, <1>2 DEF RowsKept, MaybeRow

-----------------------------------------------------------------------------
(* The API process                                                           *)

LEMMA UploadInvariant ==
    ASSUME IInv, NEW r \in Requests,
           \/ \E p \in Paths, c \in Contents, f \in Facets : UploadWrite(r, p, c, f)
           \/ Upload(r) \/ UploadLost(r)
    PROVE  IInv'
  <1> USE DEF IInv
  <1>0. requests[r] # NoRequest => requests[r] \in Request /\ RequestOK(requests[r], documents)
    BY DEF TypeOK, RequestInv
  <1>1. ASSUME NEW p \in Paths, NEW c \in Contents, NEW f \in Facets,
               UploadWrite(r, p, c, f)
        PROVE  IInv'
    <2> DEFINE q == [at |-> "written", path |-> p, hash |-> c, facet |-> f, old |-> NoRow]
    <2>1. q \in Request
      BY DEF Request, RequestStage, MaybeContents, MaybeRow
    <2>2. RowsKept /\ RequestOK(q, documents')
      BY <1>1 DEF UploadWrite, RowsKept, RequestOK
    <2>3. requests' = [requests EXCEPT ![r] = q]
      BY <1>1 DEF UploadWrite
    <2>4. RequestInv' /\ requests' \in [Requests -> Request \union {NoRequest}]
      <3> HIDE DEF q
      <3> QED BY <2>1, <2>2, <2>3, RequestStep
    <2>5. budget' \in Budget
      <3>1. budget \in Budget /\ budget.uploads \in Nat /\ budget.uploads > 0
        BY <1>1 DEF UploadWrite, TypeOK, Budget
      <3>2. budget' = [budget EXCEPT !.uploads = budget.uploads - 1]
        BY <1>1 DEF UploadWrite
      <3> QED BY <3>1, <3>2 DEF Budget
    <2>6. TypeOK'
      BY <1>1, <2>4, <2>5 DEF UploadWrite, TypeOK, MaybeContents
    <2> QED BY <1>1, <2>4, <2>6 DEF UploadWrite, RegistryInv, QueueInv, JobInv,
                                    OneVersionStored, StoringInv, JobChunk
  <1>2. ASSUME UploadSelect(r) PROVE IInv'
    <2> DEFINE q == [requests[r] EXCEPT !.at = "selected", !.old = documents[requests[r].path]]
    <2>1. requests[r] \in Request /\ RequestOK(requests[r], documents) /\ requests[r].at = "written"
      BY <1>0, <1>2 DEF UploadSelect, At
    <2>2. q \in Request
      BY <2>1 DEF Request, RequestStage, TypeOK
    <2>3. RowsKept /\ RequestOK(q, documents')
      BY <1>2, <2>1 DEF UploadSelect, RowsKept, RequestOK, Request
    <2>4. requests' = [requests EXCEPT ![r] = q]
      BY <1>2 DEF UploadSelect
    <2>5. RequestInv' /\ requests' \in [Requests -> Request \union {NoRequest}]
      <3> HIDE DEF q
      <3> QED BY <2>2, <2>3, <2>4, RequestStep
    <2>6. TypeOK'
      BY <1>2, <2>5 DEF UploadSelect, TypeOK
    <2> QED BY <1>2, <2>5, <2>6 DEF UploadSelect, RegistryInv, QueueInv, JobInv,
                                    OneVersionStored, StoringInv, JobChunk
  <1>3. ASSUME UploadCommit(r) PROVE IInv'
    <2> DEFINE q == [requests[r] EXCEPT !.at = "registered"]
               p == requests[r].path
               row == Committed(documents[p], requests[r].old,
                                Registered(requests[r].old, requests[r].hash, requests[r].facet))
    <2>1. /\ requests[r] \in Request /\ RequestOK(requests[r], documents) /\ requests[r].at = "selected"
          /\ ~Conflict(documents[p], requests[r].old)
      BY <1>0, <1>3 DEF UploadCommit, At
    <2>2. /\ p \in Paths /\ requests[r].hash \in Contents /\ requests[r].facet \in Facets
          /\ requests[r].old \in MaybeRow /\ documents[p] \in MaybeRow
      BY <2>1 DEF Request, RequestOK, TypeOK
    <2>3. /\ row \in Row
          /\ documents[p] # NoRow => row.version = documents[p].version
          /\ documents[p] = NoRow => row.version = 1
      <3>1. CASE requests[r].old = NoRow
        BY <2>1, <2>2, <3>1, RegisteredRow DEF Conflict, Committed
      <3>2. CASE requests[r].old # NoRow
        <4>1. documents[p] \in Row /\ requests[r].old \in Row
          BY <2>1, <2>2, <3>2 DEF RequestOK, MaybeRow
        <4> QED BY <2>2, <4>1, NoRowAssumption, RegisteredRow, CommittedRow, <3>2
      <3> QED BY <3>1, <3>2
    <2>4. documents' = [documents EXCEPT ![p] = row]
      BY <1>3 DEF UploadCommit
    <2>5. RowsKept /\ documents' \in [Paths -> MaybeRow]
      <3> HIDE DEF p, row
      <3> QED BY <2>2, <2>3, <2>4, RowWritten
    <2>6. q \in Request
      BY <2>1 DEF Request, RequestStage
    <2>7. RequestOK(q, documents')
      <3>1. documents'[p] = row /\ row # NoRow
        BY <2>2, <2>3, <2>4, NoRowAssumption DEF TypeOK
      <3>2. q.path = p /\ q.hash = requests[r].hash /\ q.at = "registered"
        BY <2>1 DEF Request
      <3> QED BY <2>2, <3>1, <3>2 DEF RequestOK
    <2>8. RequestInv' /\ requests' \in [Requests -> Request \union {NoRequest}]
      <3>1. requests' = [requests EXCEPT ![r] = q]
        BY <1>3 DEF UploadCommit, Goto
      <3> HIDE DEF q
      <3> QED BY <2>5, <2>6, <2>7, <3>1, RequestStep
    <2>9. TypeOK'
      BY <1>3, <2>5, <2>8 DEF UploadCommit, TypeOK
    <2> QED BY <1>3, <2>5, <2>8, <2>9, RowsKeptInv
            DEF UploadCommit, OneVersionStored, StoringInv, JobChunk
  <1>4. ASSUME UploadConflict(r) \/ UploadLost(r) PROVE IInv'
    <2>1. RowsKept
      BY <1>4 DEF UploadConflict, UploadLost, RowsKept
    <2>2. RequestInv' /\ requests' \in [Requests -> Request \union {NoRequest}]
      BY <1>4, <2>1, RequestStep DEF UploadConflict, UploadLost, Done
    <2>3. budget' \in Budget
      <3>1. CASE UploadLost(r)
        <4>1. budget \in Budget /\ budget.lost \in Nat /\ budget.lost > 0
          BY <3>1 DEF UploadLost, TypeOK, Budget
        <4>2. budget' = [budget EXCEPT !.lost = budget.lost - 1]
          BY <3>1 DEF UploadLost
        <4> QED BY <4>1, <4>2 DEF Budget
      <3>2. CASE UploadConflict(r)
        BY <3>2 DEF UploadConflict, TypeOK
      <3> QED BY <1>4, <3>1, <3>2
    <2>4. TypeOK'
      BY <1>4, <2>2, <2>3 DEF UploadConflict, UploadLost, TypeOK
    <2> QED BY <1>4, <2>2, <2>4 DEF UploadConflict, UploadLost, RegistryInv, QueueInv,
                                    JobInv, OneVersionStored, StoringInv, JobChunk
  <1>5. ASSUME UploadEnqueue(r) PROVE IInv'
    <2> DEFINE t == [path |-> requests[r].path, facet |-> requests[r].facet]
    <2>1. requests[r] \in Request /\ RequestOK(requests[r], documents) /\ requests[r].at = "registered"
      BY <1>0, <1>5 DEF UploadEnqueue, At
    <2>2. t \in Task /\ documents[t.path] # NoRow
      BY <2>1 DEF Request, Task, RequestOK
    <2>3. queue' = Append(queue, t) /\ queue \in Seq(Task)
      BY <1>5 DEF UploadEnqueue, TypeOK
    <2>4. queue' \in Seq(Task) /\ QueueInv'
      <3>1. documents' = documents
        BY <1>5 DEF UploadEnqueue
      <3> HIDE DEF t
      <3> QED BY <2>2, <2>3, <3>1 DEF QueueInv
    <2>5. RowsKept
      BY <1>5 DEF UploadEnqueue, RowsKept
    <2>6. RequestInv' /\ requests' \in [Requests -> Request \union {NoRequest}]
      BY <1>5, <2>5, RequestStep DEF UploadEnqueue, Done
    <2>7. TypeOK'
      BY <1>5, <2>4, <2>6 DEF UploadEnqueue, TypeOK
    <2> QED BY <1>5, <2>4, <2>6, <2>7 DEF UploadEnqueue, RegistryInv, JobInv,
                                          OneVersionStored, StoringInv, JobChunk
  <1> QED BY <1>1, <1>2, <1>3, <1>4, <1>5 DEF Upload

LEMMA DeleteInvariant ==
    ASSUME IInv, NEW r \in Requests,
           \/ \E p \in Paths : DeleteSelect(r, p)
           \/ Delete(r) \/ RequestError(r)
    PROVE  IInv'
  <1> USE DEF IInv
  <1>0. requests[r] # NoRequest => requests[r] \in Request /\ RequestOK(requests[r], documents)
    BY DEF TypeOK, RequestInv
  <1>1. ASSUME NEW p \in Paths, DeleteSelect(r, p) PROVE IInv'
    <2> DEFINE q == [at |-> "found", path |-> p, hash |-> NoContent,
                     facet |-> documents[p].facet, old |-> documents[p]]
    <2>1. documents[p] \in Row /\ documents[p] # NoRow
      BY <1>1 DEF DeleteSelect, TypeOK, MaybeRow
    <2>2. q \in Request
      BY <2>1 DEF Request, RequestStage, MaybeContents, MaybeRow, Row
    <2>3. RowsKept /\ RequestOK(q, documents')
      BY <1>1, <2>1 DEF DeleteSelect, RowsKept, RequestOK
    <2>4. requests' = [requests EXCEPT ![r] = q]
      BY <1>1 DEF DeleteSelect
    <2>5. RequestInv' /\ requests' \in [Requests -> Request \union {NoRequest}]
      <3> HIDE DEF q
      <3> QED BY <2>2, <2>3, <2>4, RequestStep
    <2>6. budget' \in Budget
      <3>1. budget \in Budget /\ budget.deletes \in Nat /\ budget.deletes > 0
        BY <1>1 DEF DeleteSelect, TypeOK, Budget
      <3>2. budget' = [budget EXCEPT !.deletes = budget.deletes - 1]
        BY <1>1 DEF DeleteSelect
      <3> QED BY <3>1, <3>2 DEF Budget
    <2>7. TypeOK'
      BY <1>1, <2>5, <2>6 DEF DeleteSelect, TypeOK
    <2> QED BY <1>1, <2>5, <2>7 DEF DeleteSelect, RegistryInv, QueueInv, JobInv,
                                    OneVersionStored, StoringInv, JobChunk
  <1>2. ASSUME DeleteDocstore(r) \/ DeletePoints(r) PROVE IInv'
    <2> DEFINE p == requests[r].path
               stage == IF DeleteDocstore(r) THEN "halfPurged" ELSE "purged"
               q == [requests[r] EXCEPT !.at = stage]
    <2>1. /\ requests[r] \in Request /\ RequestOK(requests[r], documents)
          /\ requests[r].at \in {"found", "halfPurged"}
      BY <1>0, <1>2 DEF DeleteDocstore, DeletePoints, At
    <2>2. p \in Paths
      BY <2>1 DEF Request
    <2>3. q \in Request /\ q.at = stage /\ q.old = requests[r].old /\ q.path = p
      BY <2>1 DEF Request, RequestStage
    <2>4. RowsKept /\ UNCHANGED documents
      BY <1>2 DEF DeleteDocstore, DeletePoints, RowsKept
    <2>5. RequestOK(q, documents')
      BY <2>1, <2>3, <2>4 DEF RequestOK
    <2>6. requests' = [requests EXCEPT ![r] = q]
      BY <1>2 DEF DeleteDocstore, DeletePoints, Goto, At
    <2>7. RequestInv' /\ requests' \in [Requests -> Request \union {NoRequest}]
      <3> HIDE DEF q
      <3> QED BY <2>3, <2>4, <2>5, <2>6, RequestStep
    <2>8. /\ docstore' \in [Paths -> SUBSET Chunk] /\ points' \in [Paths -> SUBSET Chunk]
          /\ \A x \in Paths : /\ docstore'[x] \subseteq docstore[x]
                              /\ points'[x] \subseteq points[x]
      BY <1>2, <2>2 DEF DeleteDocstore, DeletePoints, TypeOK
    <2>9. TypeOK'
      BY <1>2, <2>7, <2>8 DEF DeleteDocstore, DeletePoints, TypeOK
    <2>10. UNCHANGED <<documents, versions, queue, job>>
      BY <1>2 DEF DeleteDocstore, DeletePoints
    <2>11. OneVersionStored'
      BY <2>8, <2>10 DEF OneVersionStored
    <2>12. StoringInv'
      <3>1. job # NoJob => job.path \in Paths
        BY DEF TypeOK, Job
      <3> QED BY <2>8, <2>10, <3>1 DEF StoringInv, JobChunk
    <2> QED BY <2>4, <2>7, <2>9, <2>10, <2>11, <2>12, RowsKeptInv
  <1>3. ASSUME DeleteCommit(r) PROVE IInv'
    <2> DEFINE q == [requests[r] EXCEPT !.at = "unlink"]
               p == requests[r].path
               row == Committed(documents[p], requests[r].old,
                                [requests[r].old EXCEPT !.status = "deleted"])
    <2>1. /\ requests[r] \in Request /\ RequestOK(requests[r], documents)
          /\ requests[r].at = "purged"
      BY <1>0, <1>3 DEF DeleteCommit, At
    <2>2. p \in Paths /\ requests[r].old \in Row /\ documents[p] \in Row
      BY <2>1 DEF Request, RequestOK, TypeOK, MaybeRow
    <2>3. /\ [requests[r].old EXCEPT !.status = "deleted"] \in Row
          /\ [requests[r].old EXCEPT !.status = "deleted"].version = requests[r].old.version
      <3> DEFINE old == requests[r].old
      <3>1. old \in Row /\ "deleted" \in Status
        BY <2>2 DEF Status
      <3> HIDE DEF old
      <3>2. /\ [old EXCEPT !.status = "deleted"] \in Row
            /\ [old EXCEPT !.status = "deleted"].version = old.version
        BY <3>1 DEF Row
      <3> QED  BY <3>2 DEF old
    <2>4. row \in Row /\ row.version = documents[p].version
      BY <2>2, <2>3, CommittedRow
    <2>5. documents' = [documents EXCEPT ![p] = row]
      BY <1>3 DEF DeleteCommit
    <2>6. RowsKept /\ documents' \in [Paths -> MaybeRow]
      <3>1. documents[p] # NoRow
        BY <2>2, NoRowAssumption
      <3> HIDE DEF p, row
      <3> QED BY <2>2, <2>4, <2>5, <3>1, RowWritten
    <2>7. q \in Request /\ q.at = "unlink"
      BY <2>1 DEF Request, RequestStage
    <2>8. RequestOK(q, documents')
      BY <2>7 DEF RequestOK
    <2>9. RequestInv' /\ requests' \in [Requests -> Request \union {NoRequest}]
      <3>1. requests' = [requests EXCEPT ![r] = q]
        BY <1>3 DEF DeleteCommit, Goto
      <3> HIDE DEF q
      <3> QED BY <2>6, <2>7, <2>8, <3>1, RequestStep
    <2>10. TypeOK'
      BY <1>3, <2>6, <2>9 DEF DeleteCommit, TypeOK
    <2> QED BY <1>3, <2>6, <2>9, <2>10, RowsKeptInv
            DEF DeleteCommit, OneVersionStored, StoringInv, JobChunk
  <1>4. ASSUME DeleteUnlink(r) \/ RequestError(r) PROVE IInv'
    <2>1. RowsKept
      BY <1>4 DEF DeleteUnlink, RequestError, RowsKept
    <2>2. RequestInv' /\ requests' \in [Requests -> Request \union {NoRequest}]
      BY <1>4, <2>1, RequestStep DEF DeleteUnlink, RequestError, Done
    <2>3. budget' \in Budget
      <3>1. CASE RequestError(r)
        <4>1. budget \in Budget /\ budget.requestErrors \in Nat /\ budget.requestErrors > 0
          BY <3>1 DEF RequestError, TypeOK, Budget
        <4>2. budget' = [budget EXCEPT !.requestErrors = budget.requestErrors - 1]
          BY <3>1 DEF RequestError
        <4> QED BY <4>1, <4>2 DEF Budget
      <3>2. CASE DeleteUnlink(r)
        BY <3>2 DEF DeleteUnlink, TypeOK
      <3> QED BY <1>4, <3>1, <3>2
    <2>4. TypeOK'
      BY <1>4, <2>2, <2>3 DEF DeleteUnlink, RequestError, TypeOK, MaybeContents
    <2> QED BY <1>4, <2>2, <2>4 DEF DeleteUnlink, RequestError, RegistryInv, QueueInv,
                                    JobInv, OneVersionStored, StoringInv, JobChunk
  <1> QED BY <1>1, <1>2, <1>3, <1>4 DEF Delete

LEMMA ApiCrashInvariant == ASSUME IInv, ApiCrash PROVE IInv'
  <1> USE DEF IInv
  <1>1. budget' \in Budget
    <2>1. budget \in Budget /\ budget.apiCrashes \in Nat /\ budget.apiCrashes > 0
      BY DEF ApiCrash, TypeOK, Budget
    <2>2. budget' = [budget EXCEPT !.apiCrashes = budget.apiCrashes - 1]
      BY DEF ApiCrash
    <2> QED BY <2>1, <2>2 DEF Budget
  <1>2. RequestInv' /\ requests' \in [Requests -> Request \union {NoRequest}]
    BY DEF ApiCrash, RequestInv
  <1>3. TypeOK'
    BY <1>1, <1>2 DEF ApiCrash, TypeOK
  <1> QED BY <1>2, <1>3 DEF ApiCrash, RegistryInv, QueueInv, JobInv,
                            OneVersionStored, StoringInv, JobChunk

-----------------------------------------------------------------------------
(* The worker                                                                *)

\* A step that changes only the worker's job, or also adds nothing but nodes of
\* a recorded version, leaves the request and registry invariants alone.
LEMMA JobFacts ==
    ASSUME IInv, job # NoJob
    PROVE  /\ job \in Job /\ job.path \in Paths /\ job.facet \in Facets
           /\ documents[job.path] \in Row /\ versions[job.path] \in Seq(VersionRow)
           /\ Trail(versions[job.path])
           /\ documents[job.path].version = CurrentVersion(versions[job.path])
  <1>1. job \in Job /\ job.path \in Paths /\ job.facet \in Facets
    BY DEF IInv, TypeOK, Job
  <1>2. documents[job.path] \in Row
    BY <1>1 DEF IInv, TypeOK, JobInv, MaybeRow
  <1> QED BY <1>1, <1>2, NoRowAssumption DEF IInv, TypeOK, RegistryInv

\* Starting, ending or abandoning a task without touching rows or stores.
LEMMA WorkerControlInvariant ==
    ASSUME IInv,
           WorkerTake \/ WorkerSkip \/ WorkerUnchanged \/ WorkerSelect \/ WorkerLoad
             \/ WorkerError \/ WorkerHandlerError \/ WorkerCrash
    PROVE  IInv'
  <1> USE DEF IInv
  <1>1. UNCHANGED <<documents, versions, docstore, points, requests>>
    BY DEF WorkerTake, WorkerSkip, WorkerUnchanged, WorkerSelect, WorkerLoad, WorkerError,
       WorkerHandlerError, WorkerCrash
  <1>2. RegistryInv' /\ RequestInv' /\ OneVersionStored'
    BY <1>1 DEF RegistryInv, RequestInv, RequestOK, OneVersionStored
  <1>3. ASSUME queue \in Seq(Task), queue # <<>>, queue' = Tail(queue) PROVE QueueInv'
    <2>1. ASSUME NEW i \in DOMAIN queue' PROVE documents[queue'[i].path] # NoRow
      <3>1. i + 1 \in DOMAIN queue /\ queue'[i] = queue[i + 1]
        BY <1>3
      <3> QED BY <3>1 DEF QueueInv
    <2> QED BY <1>1, <2>1 DEF QueueInv
  <1>4. ASSUME WorkerTake PROVE IInv'
    <2> DEFINE t == Head(queue)
    <2>1. queue \in Seq(Task) /\ queue # <<>>
      BY <1>4 DEF WorkerTake, TypeOK
    <2>2. t \in Task /\ Tail(queue) \in Seq(Task) /\ 1 \in DOMAIN queue /\ t = queue[1]
      BY <2>1
    <2>3. t.path \in Paths /\ t.facet \in Facets /\ documents[t.path] # NoRow
      BY <2>2 DEF Task, QueueInv
    <2>4. files[t.path] \in MaybeContents
      BY <2>3 DEF TypeOK
    <2>5. job' \in Job /\ JobInv' /\ StoringInv'
      <3>1. job' = [at |-> IF files[t.path] = NoContent THEN "failing" ELSE "select",
                    path |-> t.path, facet |-> t.facet, hash |-> files[t.path],
                    old |-> NoRow, decision |-> "unchanged", version |-> 0,
                    loaded |-> NoContent]
        BY <1>4 DEF WorkerTake
      <3> HIDE DEF t
      <3>2. job' \in Job
        BY <2>3, <2>4, <3>1 DEF Job, JobStage, MaybeRow, MaybeContents, Decisions
      <3> QED BY <1>1, <2>3, <2>4, <3>1, <3>2 DEF JobInv, StoringInv, MaybeContents
    <2>6. QueueInv'
      BY <1>4, <1>3, <2>1 DEF WorkerTake
    <2>7. TypeOK'
      BY <1>4, <2>2, <2>5 DEF WorkerTake, TypeOK
    <2> QED BY <1>2, <2>5, <2>6, <2>7
  <1>5. ASSUME WorkerSkip PROVE IInv'
    <2>1. queue \in Seq(Task) /\ queue # <<>> /\ queue' = Tail(queue)
      BY <1>5 DEF WorkerSkip, TypeOK
    <2>2. job' = job /\ job = NoJob
      BY <1>5 DEF WorkerSkip
    <2>3. QueueInv'
      BY <1>3, <2>1
    <2>4. TypeOK'
      BY <1>5, <2>1 DEF WorkerSkip, TypeOK
    <2> QED BY <1>2, <2>2, <2>3, <2>4 DEF JobInv, StoringInv
  <1>6. ASSUME WorkerUnchanged \/ WorkerHandlerError \/ WorkerCrash PROVE IInv'
    <2>1. job' = NoJob /\ UNCHANGED queue
      BY <1>6 DEF WorkerUnchanged, WorkerHandlerError, WorkerCrash
    <2>2. budget' \in Budget
      <3>1. CASE WorkerUnchanged
        BY <3>1 DEF WorkerUnchanged, TypeOK
      <3>2. CASE WorkerCrash
        <4>1. budget \in Budget /\ budget.workerCrashes \in Nat /\ budget.workerCrashes > 0
          BY <3>2 DEF WorkerCrash, TypeOK, Budget
        <4>2. budget' = [budget EXCEPT !.workerCrashes = budget.workerCrashes - 1]
          BY <3>2 DEF WorkerCrash
        <4> QED BY <4>1, <4>2 DEF Budget
      <3>3. CASE WorkerHandlerError
        <4>1. budget \in Budget /\ budget.handlerErrors \in Nat /\ budget.handlerErrors > 0
          BY <3>3 DEF WorkerHandlerError, TypeOK, Budget
        <4>2. budget' = [budget EXCEPT !.handlerErrors = budget.handlerErrors - 1]
          BY <3>3 DEF WorkerHandlerError
        <4> QED BY <4>1, <4>2 DEF Budget
      <3> QED BY <1>6, <3>1, <3>2, <3>3
    <2>3. TypeOK'
      BY <1>6, <2>1, <2>2 DEF WorkerUnchanged, WorkerHandlerError, WorkerCrash, TypeOK
    <2> QED BY <1>1, <1>2, <2>1, <2>3 DEF QueueInv, JobInv, StoringInv
  <1>7. ASSUME WorkerSelect PROVE IInv'
    <2>1. /\ job \in Job /\ job.path \in Paths /\ job.at = "select" /\ job.hash \in Contents
          /\ documents[job.path] \in Row /\ job # NoJob
      BY <1>7, JobFacts DEF WorkerSelect, JobInv
    <2>2. WorkerDecision \in Decisions
      BY DEF WorkerDecision, Decision, Decisions
    <2>3. job' \in Job
      BY <1>7, <2>1, <2>2 DEF WorkerSelect, Job, JobStage, MaybeRow
    <2>4. /\ job'.at \in {"failing", "begin"} /\ job'.path = job.path /\ job'.hash = job.hash
          /\ job'.old = documents[job.path] /\ job'.decision = WorkerDecision
      BY <1>7, <2>1 DEF WorkerSelect, Job
    <2>5. job'.at = "begin" => /\ WorkerDecision \in {"fill", "supersede"}
                               /\ WorkerDecision = "fill" <=> versions[job.path] = <<>>
      <3>1. job'.at = "begin" => WorkerDecision \notin {"unchanged", "ambiguous"}
        BY <1>7, <2>1 DEF WorkerSelect, Job
      <3>2. /\ versions[job.path] \in Seq(VersionRow) /\ Trail(versions[job.path])
            /\ documents[job.path].version = CurrentVersion(versions[job.path])
        BY <2>1, JobFacts
      <3>3. WorkerDecision \notin {"unchanged", "ambiguous"} =>
              /\ WorkerDecision \in {"fill", "supersede"}
              /\ WorkerDecision = "fill" <=> versions[job.path] = <<>>
        BY <2>1, <3>2, DecisionFacts DEF WorkerDecision
      <3> QED BY <3>1, <3>3
    <2>6. TypeOK' /\ QueueInv'
      BY <1>7, <2>3 DEF WorkerSelect, TypeOK, QueueInv
    <2>7. StoringInv'
      BY <2>4 DEF StoringInv
    <2>8. JobInv'
      <3>1. documents[job.path] # NoRow
        BY <2>1, NoRowAssumption
      <3>2. documents' = documents /\ versions' = versions
        BY <1>1
      <3>3. /\ documents'[job'.path] # NoRow
            /\ job'.hash \in Contents
        BY <2>1, <2>4, <3>1, <3>2
      <3>4. job'.at = "begin" =>
              /\ job'.decision \in {"fill", "supersede"}
              /\ job'.old \in Row /\ job'.old.version = documents'[job'.path].version
              /\ job'.decision = "fill" <=> versions'[job'.path] = <<>>
        BY <2>1, <2>4, <2>5, <3>2
      <3>5. job'.at \notin {"purgeDocstore", "purgePoints", "load", "store", "upsert", "finalize"}
        BY <2>4
      <3> QED BY <3>3, <3>4, <3>5 DEF JobInv
    <2> QED BY <1>2, <2>6, <2>7, <2>8
  <1>8. ASSUME WorkerLoad PROVE IInv'
    <2>1. job \in Job /\ job.path \in Paths /\ job.at = "load" /\ job # NoJob
      BY <1>8, JobFacts DEF WorkerLoad
    <2>2. files[job.path] \in MaybeContents
      BY <2>1 DEF TypeOK
    <2>3. job' \in Job
      BY <1>8, <2>1, <2>2 DEF WorkerLoad, Job, JobStage
    <2>4. /\ job'.path = job.path /\ job'.old = job.old /\ job'.version = job.version
          /\ job'.at \in {"failing", "store"} /\ job'.loaded = files[job.path]
          /\ job'.at = "store" => files[job.path] \in Contents
      BY <1>8, <2>1, <2>2 DEF WorkerLoad, Job, MaybeContents
    <2>5. TypeOK' /\ QueueInv'
      BY <1>8, <2>3 DEF WorkerLoad, TypeOK, QueueInv
    <2> QED BY <1>1, <1>2, <2>1, <2>4, <2>5 DEF JobInv, StoringInv
  <1>9. ASSUME WorkerError PROVE IInv'
    <2>1. job \in Job /\ job # NoJob
      BY <1>9, JobFacts DEF WorkerError
    <2>2. job' \in Job /\ job'.at = "failing" /\ job'.path = job.path
      BY <1>9, <2>1 DEF WorkerError, Job, JobStage
    <2>3. budget' \in Budget
      <3>1. budget \in Budget /\ budget.errors \in Nat /\ budget.errors > 0
        BY <1>9 DEF WorkerError, TypeOK, Budget
      <3>2. budget' = [budget EXCEPT !.errors = budget.errors - 1]
        BY <1>9 DEF WorkerError
      <3> QED BY <3>1, <3>2 DEF Budget
    <2>4. TypeOK' /\ QueueInv'
      BY <1>9, <2>2, <2>3 DEF WorkerError, TypeOK, QueueInv
    <2> QED BY <1>1, <1>2, <2>1, <2>2, <2>4 DEF JobInv, StoringInv
  <1> QED BY <1>4, <1>5, <1>6, <1>7, <1>8, <1>9

\* The three commits of a task.
LEMMA WorkerBeginInvariant == ASSUME IInv, WorkerBegin PROVE IInv'
  <1> USE DEF IInv
  <1> DEFINE p == job.path
             new == Decided(job.decision, job.old, job.hash, job.facet)
             row == Committed(documents[p], job.old, new)
             vs == Recorded(job.decision, job.old, versions[p], job.hash)
  <1>1. /\ job # NoJob /\ job.at = "begin" /\ job \in Job /\ p \in Paths /\ job.facet \in Facets
        /\ documents[p] \in Row /\ versions[p] \in Seq(VersionRow) /\ Trail(versions[p])
        /\ documents[p].version = CurrentVersion(versions[p])
    BY JobFacts DEF WorkerBegin
  <1>2. /\ job.hash \in Contents /\ job.decision \in {"fill", "supersede"}
        /\ job.old \in Row /\ job.old.version = documents[p].version
        /\ job.decision = "fill" <=> versions[p] = <<>>
    BY <1>1 DEF JobInv
  <1>3. new \in Row
    BY <1>1, <1>2, DecidedRow
  <1>4. row \in Row /\ row.version = new.version
    BY <1>1, <1>2, <1>3, CommittedRow
  <1>5. /\ vs \in Seq(VersionRow) /\ Trail(vs) /\ Len(vs) = Len(versions[p]) + 1
        /\ new.version = Len(vs)
    BY <1>1, <1>2, RecordedTrail
  <1>6. /\ documents' = [documents EXCEPT ![p] = row]
        /\ versions' = [versions EXCEPT ![p] = vs]
        /\ job' = [job EXCEPT !.at = IF IsNew(job.decision) THEN "load" ELSE "purgeDocstore",
                              !.version = new.version, !.old = new]
        /\ UNCHANGED <<files, docstore, points, queue, requests, budget>>
    BY DEF WorkerBegin
  <1> HIDE DEF new, row, vs
  <1>7. vs # <<>> /\ Len(versions[p]) \in Nat /\ Len(vs) \in Nat
    BY <1>1, <1>5
  <1>8. /\ documents' \in [Paths -> MaybeRow] /\ versions' \in [Paths -> Seq(VersionRow)]
        /\ documents'[p] = row /\ versions'[p] = vs
        /\ \A x \in Paths \ {p} : documents'[x] = documents[x] /\ versions'[x] = versions[x]
    BY <1>1, <1>4, <1>5, <1>6 DEF TypeOK, MaybeRow
  <1>9. row # NoRow /\ documents[p] # NoRow
    BY <1>1, <1>4, NoRowAssumption
  <1>10. RegistryInv'
    <2> SUFFICES ASSUME NEW x \in Paths
                 PROVE  /\ Trail(versions'[x])
                        /\ documents'[x] = NoRow => versions'[x] = <<>>
                        /\ documents'[x] # NoRow =>
                               documents'[x].version = CurrentVersion(versions'[x])
      BY DEF RegistryInv
    <2>1. CASE x = p
      BY <1>4, <1>5, <1>7, <1>8, <1>9, <2>1 DEF CurrentVersion
    <2>2. CASE x # p
      BY <1>8, <2>2 DEF RegistryInv
    <2> QED BY <2>1, <2>2
  <1>11. \A x \in Paths : documents[x] # NoRow => documents'[x] # NoRow
    BY <1>8, <1>9
  <1>12. QueueInv'
    <2>1. ASSUME NEW i \in DOMAIN queue PROVE queue[i].path \in Paths
      <3>1. queue[i] \in Task
        BY DEF TypeOK
      <3> QED BY <3>1 DEF Task
    <2>2. \A i \in DOMAIN queue : documents[queue[i].path] # NoRow
      BY DEF QueueInv
    <2> QED BY <1>6, <1>11, <2>1, <2>2 DEF QueueInv
  <1>13. RequestInv'
    <2>1. ASSUME NEW s \in Requests, requests[s] # NoRequest
          PROVE  RequestOK(requests[s], documents')
      <3>1. requests[s] \in Request
        BY <2>1 DEF TypeOK
      <3>2. requests[s].path \in Paths /\ RequestOK(requests[s], documents)
        BY <2>1, <3>1 DEF Request, RequestInv
      <3> QED BY <1>11, <3>2 DEF RequestOK
    <2> QED BY <1>6, <2>1 DEF RequestInv
  <1>14. /\ job' \in Job /\ job'.path = p /\ job'.old = new /\ job'.version = new.version
         /\ job'.at = IF IsNew(job.decision) THEN "load" ELSE "purgeDocstore"
    <2>1. new.version \in Nat
      BY <1>3 DEF Row
    <2> QED BY <1>1, <1>3, <1>6, <2>1 DEF Job, JobStage, MaybeRow
  <1>15. JobInv'
    BY <1>3, <1>5, <1>7, <1>8, <1>9, <1>14 DEF JobInv
  <1>16. OneVersionStored'
    <2> SUFFICES ASSUME NEW x \in Paths, NEW a \in points'[x] \union docstore'[x],
                        NEW b \in points'[x] \union docstore'[x]
                 PROVE  a = b /\ a.version \in DOMAIN versions'[x]
      BY DEF OneVersionStored
    <2>1. a = b /\ a.version \in DOMAIN versions[x]
      BY <1>6 DEF OneVersionStored
    <2>2. DOMAIN versions[p] \subseteq DOMAIN vs
      BY <1>1, <1>5
    <2> QED BY <1>8, <2>1, <2>2
  <1>17. StoringInv'
    <2>1. job.decision = "fill" => points[p] = {} /\ docstore[p] = {}
      <3>1. job.decision = "fill" => DOMAIN versions[p] = {}
        BY <1>2
      <3> QED BY <1>1, <3>1 DEF OneVersionStored
    <2> QED BY <1>2, <1>6, <1>14, <2>1 DEF StoringInv, IsNew
  <1>18. TypeOK'
    BY <1>6, <1>8, <1>14 DEF TypeOK
  <1> QED BY <1>10, <1>12, <1>13, <1>15, <1>16, <1>17, <1>18

LEMMA WorkerStoresInvariant ==
    ASSUME IInv, WorkerPurgeDocstore \/ WorkerPurgePoints \/ WorkerStore \/ WorkerUpsert
    PROVE  IInv'
  <1> USE DEF IInv
  <1> DEFINE p == job.path
  <1>1. /\ job # NoJob /\ job \in Job /\ p \in Paths /\ job.facet \in Facets
        /\ job.at \in {"purgeDocstore", "purgePoints", "store", "upsert"}
        /\ UNCHANGED <<documents, versions, files, queue, requests, budget>>
    BY JobFacts DEF WorkerPurgeDocstore, WorkerPurgePoints, WorkerStore, WorkerUpsert
  <1>2. /\ job.version = Len(versions[p]) /\ versions[p] # <<>> /\ job.version \in Nat
        /\ versions[p] \in Seq(VersionRow) /\ job.version \in DOMAIN versions[p]
    BY <1>1 DEF JobInv, TypeOK, Job
  <1>3. job.at \in {"store", "upsert"} => JobChunk \in Chunk
    BY <1>1, <1>2 DEF JobInv, JobChunk, Chunk
  <1>4. /\ job' \in Job
        /\ job' = [job EXCEPT !.at = job'.at]
        /\ job'.path = p /\ job'.version = job.version /\ job'.facet = job.facet
        /\ job'.loaded = job.loaded /\ job'.old = job.old
        /\ job'.at = CASE job.at = "purgeDocstore" -> "purgePoints"
                       [] job.at = "purgePoints" -> "load"
                       [] job.at = "store" -> "upsert"
                       [] job.at = "upsert" -> "finalize"
    BY <1>1 DEF WorkerPurgeDocstore, WorkerPurgePoints, WorkerStore, WorkerUpsert, Job, JobStage
  <1>5. /\ docstore' = CASE job.at = "purgeDocstore" -> [docstore EXCEPT ![p] = {}]
                         [] job.at = "store" -> [docstore EXCEPT ![p] = @ \union {JobChunk}]
                         [] OTHER -> docstore
        /\ points' = CASE job.at = "purgePoints" -> [points EXCEPT ![p] = {}]
                       [] job.at = "upsert" -> [points EXCEPT ![p] = @ \union {JobChunk}]
                       [] OTHER -> points
    BY <1>1 DEF WorkerPurgeDocstore, WorkerPurgePoints, WorkerStore, WorkerUpsert
  <1>6. docstore' \in [Paths -> SUBSET Chunk] /\ points' \in [Paths -> SUBSET Chunk]
    BY <1>1, <1>3, <1>5 DEF TypeOK
  <1>7. JobChunk' = JobChunk
    BY <1>4 DEF JobChunk
  <1>8. TypeOK'
    BY <1>1, <1>4, <1>6 DEF TypeOK
  <1>9. RegistryInv' /\ RequestInv' /\ QueueInv'
    BY <1>1 DEF RegistryInv, RequestInv, RequestOK, QueueInv
  <1>10. JobInv'
    BY <1>1, <1>4 DEF JobInv
  <1>11. StoringInv'
    <2>1. /\ docstore'[p] = CASE job.at = "purgeDocstore" -> {}
                              [] job.at = "store" -> docstore[p] \union {JobChunk}
                              [] OTHER -> docstore[p]
          /\ points'[p] = CASE job.at = "purgePoints" -> {}
                            [] job.at = "upsert" -> points[p] \union {JobChunk}
                            [] OTHER -> points[p]
      BY <1>1, <1>5 DEF TypeOK
    <2> QED BY <1>1, <1>4, <1>7, <2>1 DEF StoringInv
  <1>12. OneVersionStored'
    <2> SUFFICES ASSUME NEW x \in Paths, NEW a \in points'[x] \union docstore'[x],
                        NEW b \in points'[x] \union docstore'[x]
                 PROVE  a = b /\ a.version \in DOMAIN versions[x]
      BY <1>1 DEF OneVersionStored
    <2>1. CASE x = p /\ job.at \in {"store", "upsert"}
      <3>1. points'[p] \union docstore'[p] \subseteq {JobChunk}
        BY <1>1, <1>5, <2>1 DEF TypeOK, StoringInv
      <3>2. JobChunk.version = job.version
        BY DEF JobChunk
      <3> QED BY <1>2, <2>1, <3>1, <3>2
    <2>2. CASE ~(x = p /\ job.at \in {"store", "upsert"})
      <3>1. points'[x] \subseteq points[x] /\ docstore'[x] \subseteq docstore[x]
        BY <1>1, <1>5, <2>2 DEF TypeOK
      <3> QED BY <3>1 DEF OneVersionStored
    <2> QED BY <2>1, <2>2
  <1> QED BY <1>8, <1>9, <1>10, <1>11, <1>12

LEMMA WorkerFinalizeInvariant == ASSUME IInv, WorkerFinalize PROVE IInv'
  <1> USE DEF IInv
  <1> DEFINE p == job.path
             new == Finalized(job.old, job.loaded)
             row == Committed(documents[p], job.old, new)
             vs == FinalizedVersions(versions[p], job.version, job.loaded)
  <1>1. /\ job # NoJob /\ job.at = "finalize" /\ job \in Job /\ p \in Paths
        /\ documents[p] \in Row /\ versions[p] \in Seq(VersionRow) /\ Trail(versions[p])
        /\ documents[p].version = CurrentVersion(versions[p])
    BY JobFacts DEF WorkerFinalize
  <1>2. /\ job.loaded \in Contents /\ job.old \in Row /\ job.version \in Nat
        /\ versions[p] # <<>>
    BY <1>1 DEF JobInv, Job
  <1>3. new \in Row /\ new.version = job.old.version
    BY <1>2 DEF Finalized, Row, Status, MaybeContents
  <1>4. row \in Row /\ row.version = documents[p].version
    BY <1>1, <1>2, <1>3, CommittedRow
  <1>5. vs \in Seq(VersionRow) /\ Trail(vs) /\ Len(vs) = Len(versions[p])
    BY <1>1, <1>2, FinalizedTrail
  <1>6. /\ documents' = [documents EXCEPT ![p] = row]
        /\ versions' = [versions EXCEPT ![p] = vs]
        /\ job' = NoJob
        /\ UNCHANGED <<files, docstore, points, queue, requests, budget>>
    BY DEF WorkerFinalize
  <1> HIDE DEF new, row, vs
  <1>7. documents[p] # NoRow
    BY <1>1, NoRowAssumption
  <1>8. RowsKept /\ documents' \in [Paths -> MaybeRow]
    BY <1>1, <1>4, <1>6, <1>7, RowWritten
  <1>9. /\ versions' \in [Paths -> Seq(VersionRow)] /\ versions'[p] = vs
        /\ \A x \in Paths \ {p} : versions'[x] = versions[x]
    BY <1>1, <1>5, <1>6 DEF TypeOK
  <1>10. \A x \in Paths : /\ CurrentVersion(versions'[x]) = CurrentVersion(versions[x])
                          /\ DOMAIN versions'[x] = DOMAIN versions[x]
                          /\ versions[x] = <<>> => versions'[x] = <<>>
                          /\ Trail(versions'[x])
    <2> SUFFICES ASSUME NEW x \in Paths
                 PROVE  /\ CurrentVersion(versions'[x]) = CurrentVersion(versions[x])
                        /\ DOMAIN versions'[x] = DOMAIN versions[x]
                        /\ versions[x] = <<>> => versions'[x] = <<>>
                        /\ Trail(versions'[x])
      OBVIOUS
    <2>1. CASE x = p
      <3>1. vs # <<>>
        BY <1>1, <1>2, <1>5
      <3> QED BY <1>1, <1>2, <1>5, <1>9, <2>1, <3>1 DEF CurrentVersion
    <2>2. CASE x # p
      BY <1>9, <2>2 DEF RegistryInv
    <2> QED BY <2>1, <2>2
  <1>11. RegistryInv'
    <2>1. \A x \in Paths : documents'[x] = NoRow => documents[x] = NoRow
      BY <1>8 DEF RowsKept
    <2>2. \A x \in Paths : documents'[x] # NoRow =>
             documents'[x].version = CurrentVersion(versions[x])
      BY <1>8 DEF RowsKept, RegistryInv, CurrentVersion
    <2> QED BY <1>10, <2>1, <2>2 DEF RegistryInv
  <1>12. QueueInv'
    BY <1>6, <1>8, RowsKeptInv
  <1>13. RequestInv'
    <2>1. ASSUME NEW s \in Requests, requests[s] # NoRequest
          PROVE  RequestOK(requests[s], documents')
      <3>1. requests[s] \in Request
        BY <2>1 DEF TypeOK
      <3>2. requests[s].path \in Paths /\ RequestOK(requests[s], documents)
        BY <2>1, <3>1 DEF Request, RequestInv
      <3> QED BY <1>8, <3>2 DEF RequestOK, RowsKept
    <2> QED BY <1>6, <2>1 DEF RequestInv
  <1>14. OneVersionStored'
    BY <1>6, <1>10 DEF OneVersionStored
  <1>15. JobInv' /\ StoringInv'
    BY <1>6 DEF JobInv, StoringInv
  <1>16. TypeOK'
    BY <1>6, <1>8, <1>9 DEF TypeOK
  <1> QED BY <1>11, <1>12, <1>13, <1>14, <1>15, <1>16

LEMMA WorkerMarkFailedInvariant == ASSUME IInv, WorkerMarkFailed PROVE IInv'
  <1> USE DEF IInv
  <1> DEFINE p == job.path
             row == [documents[p] EXCEPT !.status = "failed"]
  <1>1. p \in Paths /\ documents[p] \in Row /\ documents[p] # NoRow
    BY JobFacts, NoRowAssumption DEF WorkerMarkFailed
  <1>2. row \in Row /\ row.version = documents[p].version
    BY <1>1 DEF Row, Status
  <1>3. /\ documents' = [documents EXCEPT ![p] = row]
        /\ job' = NoJob
        /\ UNCHANGED <<versions, files, docstore, points, queue, requests, budget>>
    BY <1>1 DEF WorkerMarkFailed, MarkedFailed
  <1> HIDE DEF row
  <1>4. RowsKept /\ documents' \in [Paths -> MaybeRow]
    BY <1>1, <1>2, <1>3, RowWritten
  <1>5. RequestInv'
    <2>1. ASSUME NEW s \in Requests, requests[s] # NoRequest
          PROVE  RequestOK(requests[s], documents')
      <3>1. requests[s] \in Request
        BY <2>1 DEF TypeOK
      <3>2. requests[s].path \in Paths /\ RequestOK(requests[s], documents)
        BY <2>1, <3>1 DEF Request, RequestInv
      <3> QED BY <1>4, <3>2 DEF RequestOK, RowsKept
    <2> QED BY <1>3, <2>1 DEF RequestInv
  <1>6. TypeOK'
    BY <1>3, <1>4 DEF TypeOK
  <1> QED BY <1>3, <1>4, <1>5, <1>6, RowsKeptInv DEF JobInv, StoringInv, OneVersionStored

-----------------------------------------------------------------------------
(* The theorems                                                              *)

LEMMA StepInvariant == ASSUME IInv, [Next]_vars PROVE IInv'
  <1>1. CASE Clients
    BY <1>1, UploadInvariant, DeleteInvariant DEF Clients
  <1>2. ASSUME NEW r \in Requests, Upload(r) \/ Delete(r) PROVE IInv'
    BY <1>2, UploadInvariant, DeleteInvariant
  <1>3. CASE Worker
    BY <1>3, WorkerControlInvariant, WorkerBeginInvariant, WorkerStoresInvariant,
       WorkerFinalizeInvariant, WorkerMarkFailedInvariant DEF Worker
  <1>4. CASE Faults
    BY <1>4, UploadInvariant, DeleteInvariant, WorkerControlInvariant, ApiCrashInvariant
       DEF Faults
  <1>5. CASE UNCHANGED vars
    BY <1>5 DEF vars, IInv, TypeOK, RegistryInv, RequestInv, RequestOK, QueueInv, JobInv,
                OneVersionStored, StoringInv, JobChunk
  <1> QED BY <1>1, <1>2, <1>3, <1>4, <1>5 DEF Next

\* The inductive invariant holds in every reachable state.
THEOREM Invariance == Spec => []IInv
  BY InitInvariant, StepInvariant, PTL DEF Spec

\* Every variable keeps its type.
THEOREM TypeCorrectness == Spec => []TypeOK
  <1>1. IInv => TypeOK
    BY DEF IInv
  <1> QED BY <1>1, Invariance, PTL

\* The audit trail is never broken (see VersionTrail): whatever requests, errors
\* and crashes interleave with the worker.
THEOREM VersionTrailHolds == Spec => []VersionTrail
  <1>1. IInv => VersionTrail
    BY DEF IInv, RegistryInv, VersionTrail, Trail, CurrentVersion
  <1> QED BY <1>1, Invariance, PTL

\* The two node stores never mix nodes of two ingestions of a document.
THEOREM OneVersionStoredHolds == Spec => []OneVersionStored
  <1>1. IInv => OneVersionStored
    BY DEF IInv
  <1> QED BY <1>1, Invariance, PTL

-----------------------------------------------------------------------------
(* What a step does to the audit rows, and the refinement                    *)

LEMMA VersionsChange ==
    ASSUME IInv, Next, ~UNCHANGED versions
    PROVE  WorkerBegin \/ WorkerFinalize
  BY DEF Next, Clients, Upload, Delete, Worker, Faults, UploadWrite, UploadSelect,
         UploadCommit, UploadConflict, UploadEnqueue, UploadLost, DeleteSelect,
         DeleteDocstore, DeletePoints, RequestError, DeleteCommit, DeleteUnlink, ApiCrash,
         WorkerTake, WorkerSkip, WorkerUnchanged, WorkerSelect, WorkerPurgeDocstore,
         WorkerPurgePoints, WorkerLoad, WorkerStore, WorkerUpsert, WorkerError,
         WorkerMarkFailed, WorkerHandlerError, WorkerCrash

LEMMA PointsChange ==
    ASSUME IInv, Next, ~UNCHANGED points
    PROVE  WorkerUpsert \/ WorkerPurgePoints \/ \E r \in Requests : DeletePoints(r)
  BY DEF Next, Clients, Upload, Delete, Worker, Faults, UploadWrite, UploadSelect,
         UploadCommit, UploadConflict, UploadEnqueue, UploadLost, DeleteSelect,
         DeleteDocstore, DeletePoints, RequestError, DeleteCommit, DeleteUnlink, ApiCrash,
         WorkerTake, WorkerSkip, WorkerUnchanged, WorkerSelect, WorkerBegin,
         WorkerPurgeDocstore, WorkerLoad, WorkerStore, WorkerFinalize, WorkerError,
         WorkerMarkFailed, WorkerHandlerError, WorkerCrash

\* Recording a version appends one row, and finalizing one changes its chunk count.
LEMMA BeginAppends ==
    ASSUME IInv, WorkerBegin
    PROVE  /\ job.path \in Paths /\ job.hash \in Contents
           /\ \E vs \in Seq(VersionRow) :
                /\ versions' = [versions EXCEPT ![job.path] = vs]
                /\ Len(vs) = Len(versions[job.path]) + 1
                /\ vs[Len(vs)].hash = job.hash
                /\ \A i \in DOMAIN versions[job.path] :
                     /\ vs[i].version = versions[job.path][i].version
                     /\ vs[i].hash = versions[job.path][i].hash
                     /\ versions[job.path][i].superseded => vs[i] = versions[job.path][i]
  <1> DEFINE p == job.path
             vs == Recorded(job.decision, job.old, versions[p], job.hash)
  <1>1. /\ job # NoJob /\ job.at = "begin" /\ p \in Paths /\ job.facet \in Facets
        /\ versions[p] \in Seq(VersionRow) /\ Trail(versions[p])
        /\ documents[p].version = CurrentVersion(versions[p])
    BY JobFacts DEF WorkerBegin
  <1>2. /\ job.hash \in Contents /\ job.decision \in {"fill", "supersede"}
        /\ job.old \in Row /\ job.old.version = documents[p].version
        /\ job.decision = "fill" <=> versions[p] = <<>>
    BY <1>1 DEF IInv, JobInv
  <1>3. /\ vs \in Seq(VersionRow) /\ Len(vs) = Len(versions[p]) + 1
        /\ vs[Len(vs)].hash = job.hash
        /\ \A i \in DOMAIN versions[p] :
             /\ vs[i].version = versions[p][i].version /\ vs[i].hash = versions[p][i].hash
             /\ versions[p][i].superseded => vs[i] = versions[p][i]
    BY <1>1, <1>2, RecordedTrail
  <1>4. versions' = [versions EXCEPT ![p] = vs]
    BY DEF WorkerBegin
  <1> HIDE DEF vs
  <1> QED BY <1>1, <1>2, <1>3, <1>4

LEMMA FinalizeKeeps ==
    ASSUME IInv, WorkerFinalize
    PROVE  /\ job.path \in Paths
           /\ \E vs \in Seq(VersionRow) :
                /\ versions' = [versions EXCEPT ![job.path] = vs]
                /\ Len(vs) = Len(versions[job.path])
                /\ \A i \in DOMAIN versions[job.path] :
                     /\ vs[i].version = versions[job.path][i].version
                     /\ vs[i].hash = versions[job.path][i].hash
                     /\ versions[job.path][i].superseded => vs[i] = versions[job.path][i]
  <1> DEFINE p == job.path
             vs == FinalizedVersions(versions[p], job.version, job.loaded)
  <1>1. /\ job # NoJob /\ job.at = "finalize" /\ job \in Job /\ p \in Paths
        /\ versions[p] \in Seq(VersionRow) /\ Trail(versions[p])
    BY JobFacts DEF WorkerFinalize
  <1>2. /\ job.loaded \in Contents /\ job.version \in Nat
        /\ job.version = Len(versions[p])
    BY <1>1 DEF IInv, JobInv, Job
  <1>3. /\ vs \in Seq(VersionRow) /\ Len(vs) = Len(versions[p])
        /\ \A i \in DOMAIN versions[p] :
             /\ vs[i].version = versions[p][i].version /\ vs[i].hash = versions[p][i].hash
             /\ i # job.version => vs[i] = versions[p][i]
    BY <1>1, <1>2, FinalizedTrail
  <1>4. \A i \in DOMAIN versions[p] : versions[p][i].superseded => i # job.version
    BY <1>1, <1>2 DEF Trail
  <1>5. versions' = [versions EXCEPT ![p] = vs]
    BY DEF WorkerFinalize
  <1> HIDE DEF vs
  <1>6. \A i \in DOMAIN versions[p] :
          /\ vs[i].version = versions[p][i].version /\ vs[i].hash = versions[p][i].hash
          /\ versions[p][i].superseded => vs[i] = versions[p][i]
    BY <1>3, <1>4
  <1>7. vs \in Seq(VersionRow) /\ Len(vs) = Len(versions[p])
    BY <1>3
  <1> QED BY <1>1, <1>5, <1>6, <1>7

\* No step removes an audit row, or rewrites the version or hash of one, or
\* touches a superseded one (see AuditAppendOnly).
THEOREM AuditAppendOnlyHolds == Spec => AuditAppendOnly
  <1> DEFINE Kept == \A p \in Paths :
               /\ DOMAIN versions[p] \subseteq DOMAIN versions'[p]
               /\ \A i \in DOMAIN versions[p] :
                    /\ versions'[p][i].version = versions[p][i].version
                    /\ versions'[p][i].hash = versions[p][i].hash
                    /\ versions[p][i].superseded => versions'[p][i] = versions[p][i]
  <1>1. ASSUME IInv, [Next]_vars PROVE [Kept]_vars
    <2> SUFFICES ASSUME ~UNCHANGED versions PROVE Kept
      BY DEF vars
    <2>1. Next
      BY <1>1 DEF vars
    <2>2. \A p \in Paths : versions[p] \in Seq(VersionRow)
      BY <1>1 DEF IInv, TypeOK
    <2>3. versions \in [Paths -> Seq(VersionRow)]
      BY <1>1 DEF IInv, TypeOK
    <2>4. PICK vs \in Seq(VersionRow) :
            /\ job.path \in Paths /\ versions' = [versions EXCEPT ![job.path] = vs]
            /\ Len(vs) >= Len(versions[job.path])
            /\ \A i \in DOMAIN versions[job.path] :
                 /\ vs[i].version = versions[job.path][i].version
                 /\ vs[i].hash = versions[job.path][i].hash
                 /\ versions[job.path][i].superseded => vs[i] = versions[job.path][i]
      <3>1. CASE WorkerBegin
        BY <1>1, <2>2, <3>1, BeginAppends
      <3>2. CASE WorkerFinalize
        BY <1>1, <2>2, <3>2, FinalizeKeeps
      <3> QED BY <1>1, <2>1, <3>1, <3>2, VersionsChange
    <2>5. /\ versions'[job.path] = vs
          /\ \A p \in Paths \ {job.path} : versions'[p] = versions[p]
      BY <2>3, <2>4
    <2>6. DOMAIN versions[job.path] \subseteq DOMAIN vs
      BY <2>2, <2>4
    <2> QED BY <2>4, <2>5, <2>6
  <1> QED BY <1>1, Invariance, PTL DEF Spec, AuditAppendOnly

\* The hashes of audit rows, as a sequence.
LEMMA LogOfSeq ==
    ASSUME NEW vs \in Seq(VersionRow)
    PROVE  /\ LogOf(vs) \in Seq(Contents) /\ Len(LogOf(vs)) = Len(vs)
           /\ \A i \in 1..Len(vs) : LogOf(vs)[i] = vs[i].hash
  <1>1. DOMAIN vs = 1..Len(vs) /\ Len(vs) \in Nat
    OBVIOUS
  <1>2. \A i \in 1..Len(vs) : vs[i] \in VersionRow
    OBVIOUS
  <1>3. \A i \in 1..Len(vs) : vs[i].hash \in Contents
    BY <1>2 DEF VersionRow
  <1>4. LogOf(vs) \in [1..Len(vs) -> Contents]
    BY <1>1, <1>3 DEF LogOf
  <1> QED BY <1>1, <1>4, FunctionIsSeq DEF LogOf

\* Every step of the processes is a step, or a stutter, of the abstract index.
LEMMA IndexStep == ASSUME IInv, [Next]_vars PROVE [Index!Next]_(Index!vars)
  <1> DEFINE logs == [p \in Paths |-> LogOf(versions[p])]
             visibles == [p \in Paths |-> VisibleIn(points[p])]
  <1> USE DEF IInv
  <1>0. /\ versions \in [Paths -> Seq(VersionRow)]
        /\ points \in [Paths -> SUBSET Chunk]
    BY DEF TypeOK
  <1>1. CASE UNCHANGED <<versions, points>>
    BY <1>1 DEF Index!vars
  <1>2. CASE Next /\ ~UNCHANGED versions
    <2>1. UNCHANGED points
      BY <1>2, VersionsChange DEF WorkerBegin, WorkerFinalize
    <2>2. CASE WorkerBegin
      <3>1. PICK vs \in Seq(VersionRow) :
              /\ versions' = [versions EXCEPT ![job.path] = vs]
              /\ Len(vs) = Len(versions[job.path]) + 1
              /\ vs[Len(vs)].hash = job.hash
              /\ \A i \in DOMAIN versions[job.path] : vs[i].hash = versions[job.path][i].hash
        BY <2>2, BeginAppends
      <3>2. job.path \in Paths /\ job.hash \in Contents /\ versions[job.path] \in Seq(VersionRow)
        BY <1>0, <2>2, BeginAppends
      <3>3. LogOf(vs) = Append(LogOf(versions[job.path]), job.hash)
        <4> DEFINE s == LogOf(vs)
                   t == Append(LogOf(versions[job.path]), job.hash)
        <4>1. /\ s \in Seq(Contents) /\ Len(s) = Len(vs)
              /\ \A i \in 1..Len(vs) : s[i] = vs[i].hash
          BY LogOfSeq
        <4>2. /\ LogOf(versions[job.path]) \in Seq(Contents)
              /\ Len(LogOf(versions[job.path])) = Len(versions[job.path])
              /\ \A i \in 1..Len(versions[job.path]) :
                   LogOf(versions[job.path])[i] = versions[job.path][i].hash
          BY <3>2, LogOfSeq
        <4>3. t \in Seq(Contents) /\ Len(t) = Len(versions[job.path]) + 1
          BY <3>2, <4>2
        <4>4. ASSUME NEW i \in 1..Len(s) PROVE s[i] = t[i]
          <5>1. CASE i = Len(vs)
            BY <3>1, <3>2, <4>1, <4>2, <5>1
          <5>2. CASE i # Len(vs)
            <6>1. i \in 1..Len(versions[job.path]) /\ i \in DOMAIN versions[job.path]
              BY <3>1, <3>2, <4>1, <5>2
            <6> QED BY <3>1, <3>2, <4>1, <4>2, <6>1
          <5> QED BY <5>1, <5>2
        <4> HIDE DEF s, t
        <4>5. s = t
          BY <3>1, <4>1, <4>3, <4>4, SeqEqual
        <4> QED BY <4>5 DEF s, t
      <3>4. logs' = [logs EXCEPT ![job.path] = Append(@, job.hash)]
        BY <1>0, <3>1, <3>2, <3>3
      <3>5. Index!Record(job.path, job.hash)
        BY <2>1, <3>4 DEF Index!Record
      <3> QED BY <3>2, <3>5 DEF Index!Next
    <2>3. CASE WorkerFinalize
      <3>1. PICK vs \in Seq(VersionRow) :
              /\ job.path \in Paths /\ versions' = [versions EXCEPT ![job.path] = vs]
              /\ Len(vs) = Len(versions[job.path])
              /\ \A i \in DOMAIN versions[job.path] : vs[i].hash = versions[job.path][i].hash
        BY <2>3, FinalizeKeeps
      <3>2. LogOf(vs) = LogOf(versions[job.path])
        <4>1. versions[job.path] \in Seq(VersionRow)
          BY <1>0, <3>1
        <4>2. DOMAIN vs = DOMAIN versions[job.path]
          BY <3>1, <4>1
        <4> QED BY <3>1, <4>2 DEF LogOf
      <3>3. logs' = logs
        BY <1>0, <3>1, <3>2
      <3> QED BY <2>1, <3>3 DEF Index!vars
    <2> QED BY <1>2, <2>2, <2>3, VersionsChange
  <1>3. CASE Next /\ ~UNCHANGED points
    <2>1. UNCHANGED versions
      BY <1>3, PointsChange DEF WorkerUpsert, WorkerPurgePoints, DeletePoints
    <2>2. CASE WorkerUpsert
      <3>1. /\ job # NoJob /\ job.at = "upsert" /\ job.path \in Paths
        BY <2>2, JobFacts DEF WorkerUpsert
      <3>2. /\ points[job.path] = {} /\ versions[job.path] # <<>>
            /\ job.version = Len(versions[job.path]) /\ versions[job.path] \in Seq(VersionRow)
        BY <1>0, <3>1 DEF StoringInv, JobInv
      <3>3. points' = [points EXCEPT ![job.path] = {JobChunk}]
        BY <2>2, <3>2 DEF WorkerUpsert
      <3>4. VisibleIn({JobChunk}) = Len(versions[job.path]) /\ VisibleIn({}) = 0
        <4> DEFINE c == CHOOSE x \in {JobChunk} : TRUE
        <4>1. c \in {JobChunk}
          OBVIOUS
        <4>2. c = JobChunk
          BY <4>1
        <4>3. VisibleIn({JobChunk}) = c.version
          BY DEF VisibleIn
        <4> HIDE DEF c
        <4> QED BY <3>2, <4>2, <4>3 DEF VisibleIn, JobChunk
      <3>5. /\ LogOf(versions[job.path]) \in Seq(Contents)
            /\ Len(LogOf(versions[job.path])) = Len(versions[job.path])
        BY <3>2, LogOfSeq
      <3>6. LogOf(versions[job.path]) # <<>>
        BY <3>2, <3>5
      <3>7. visibles' = [visibles EXCEPT ![job.path] = Len(logs[job.path])]
        BY <1>0, <3>1, <3>3, <3>4, <3>5
      <3>8. Index!Publish(job.path)
        BY <2>1, <3>1, <3>2, <3>4, <3>6, <3>7 DEF Index!Publish
      <3> QED BY <3>1, <3>8 DEF Index!Next
    <2>3. CASE WorkerPurgePoints \/ \E r \in Requests : DeletePoints(r)
      <3>1. PICK p \in Paths : points' = [points EXCEPT ![p] = {}]
        <4>1. CASE WorkerPurgePoints
          BY <4>1, JobFacts DEF WorkerPurgePoints
        <4>2. ASSUME NEW r \in Requests, DeletePoints(r)
              PROVE  \E p \in Paths : points' = [points EXCEPT ![p] = {}]
          <5>1. requests[r] \in Request
            BY <4>2 DEF DeletePoints, At, TypeOK
          <5> QED BY <4>2, <5>1 DEF DeletePoints, Request
        <4> QED BY <2>3, <4>1, <4>2
      <3>2. CASE points[p] = {}
        BY <1>0, <1>3, <3>1, <3>2
      <3>3. CASE points[p] # {}
        <4>1. VisibleIn(points[p]) # 0
          <5>1. PICK c \in points[p] : c = CHOOSE d \in points[p] : TRUE
            BY <3>3
          <5>2. VisibleIn(points[p]) = c.version
            BY <3>3, <5>1 DEF VisibleIn
          <5>3. c.version \in DOMAIN versions[p] /\ versions[p] \in Seq(VersionRow)
            BY <1>0, <5>1 DEF OneVersionStored
          <5> QED BY <5>2, <5>3
        <4>2. visibles' = [visibles EXCEPT ![p] = 0]
          <5>1. VisibleIn({}) = 0
            BY DEF VisibleIn
          <5>2. /\ points'[p] = {}
                /\ \A x \in Paths \ {p} : points'[x] = points[x]
            BY <1>0, <3>1
          <5> QED BY <5>1, <5>2
        <4>3. Index!Withdraw(p)
          BY <2>1, <4>1, <4>2 DEF Index!Withdraw
        <4> QED BY <4>3 DEF Index!Next
      <3> QED BY <3>2, <3>3
    <2> QED BY <1>3, <2>2, <2>3, PointsChange
  <1> QED BY <1>1, <1>2, <1>3 DEF vars

\* The upload, delete and worker processes implement versioned indexing: an
\* append-only log of contents of which search sees only the newest, and nothing
\* in between two versions.
THEOREM Refinement == Spec => ImplementsVersionedIndex
  <1>1. Init => Index!Init
    BY DEF Init, Index!Init, LogOf, VisibleIn
  <1> QED BY <1>1, IndexStep, Invariance, PTL DEF Spec, ImplementsVersionedIndex, Index!Spec
=============================================================================
