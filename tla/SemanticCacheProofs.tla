-------------------------- MODULE SemanticCacheProofs -------------------------
(* What an answer quotes is in the scope of its request, whatever overlaps;  *)
(* what search and the cache hold is current when processes take turns. For  *)
(* any documents, facets, scopes, questions, slots and budgets.              *)
(*                                                                           *)
(* What a chat quotes comes from retrieval, which filters by the request's   *)
(* scope, or from an entry; so the entries must be in scope too, and a chat  *)
(* must keep its scope from its lookup to its store. What an entry quotes is *)
(* current because every change of a document drops the entries that quote   *)
(* it, and no chat is on its way to store what it read before.               *)
EXTENDS SemanticCache, TLAPS

-----------------------------------------------------------------------------
(* The index and the stores, without the cache                               *)

\* Every ingestion that began and every one that is pending was paid for.
Counted(d) == newest[d] + pending[d] + budget.uploads

TypeInv == IndexTypeOK /\ \A d \in Docs : Counted(d) <= MaxUploads

\* Whoever is about to persist an index holds the corpus of this moment, for the
\* worker and the API take turns and no other request moves in between.
ReadIsCurrent ==
    /\ WorkerAt("persist") => worker.nodes = points
    /\ \A r \in Requests : requests[r] # Idle /\ requests[r].at = "persist" =>
           requests[r].nodes = points

RebuildInv ==
    /\ TypeInv
    /\ worker = Idle \/ NoRequests
    /\ ~collection => points = EmptyCorpus
    /\ ReadIsCurrent

\* Where a change stands that has emptied, or filled, one store and not the other.
HalfPurged(d) == docstore[d] = None /\ \E r \in Requests :
    requests[r] # Idle /\ requests[r].at = "purgePoints" /\ requests[r].doc = d

HalfStored(d) ==
    worker # Idle /\ worker.doc = d /\ worker.at \in {"purgePoints", "upsert"}

\* What the stores hold of the document the worker is at.
WorkerStores ==
    /\ WorkerAt("purgePoints") => docstore[worker.doc] = None
    /\ worker # Idle /\ worker.at \in {"invalidate", "store"} =>
           docstore[worker.doc] = None /\ points[worker.doc] = None
    /\ WorkerAt("upsert") => docstore[worker.doc] = Nodes /\ points[worker.doc] = None
    /\ worker # Idle /\ worker.at \in {"read", "persist"} =>
           docstore[worker.doc] = points[worker.doc]

\* What they hold of a document that is being deleted, in slot r.
DeleteStores(r) ==
    /\ requests[r] # Idle /\ requests[r].at # "purgeDocstore" =>
           docstore[requests[r].doc] = None
    /\ requests[r] # Idle /\ requests[r].at \in {"invalidate", "commit", "read", "persist"} =>
           points[requests[r].doc] = None

\* Nothing is stored of a document before its first ingestion has begun.
Begun ==
    /\ \A d \in Docs : newest[d] = 0 => docstore[d] = None /\ points[d] = None
    /\ worker # Idle => newest[worker.doc] # 0

StoresInv ==
    /\ \A r \in Requests : DeleteStores(r)
    /\ WorkerStores
    /\ NothingFailed =>
         \A d \in Docs : docstore[d] = points[d] \/ HalfPurged(d) \/ HalfStored(d)

CurrentInv == RebuildInv /\ Begun /\ StoresInv /\ IndexIsCurrent

-----------------------------------------------------------------------------
(* Types                                                                     *)

LEMMA TaskAt ==
    ASSUME NEW t \in Task, NEW stage \in WorkerStage
    PROVE  LET new == [t EXCEPT !.at = stage] IN
           /\ new \in Task /\ new.at = stage
           /\ new.doc = t.doc /\ new.generation = t.generation
           /\ new.empty = t.empty /\ new.nodes = t.nodes
  BY DEF Task

LEMMA DeletionAt ==
    ASSUME NEW q \in Deletion, NEW stage \in DeleteStage
    PROVE  LET new == [q EXCEPT !.at = stage] IN
           /\ new \in Deletion /\ new.at = stage
           /\ new.doc = q.doc /\ new.nodes = q.nodes
  BY DEF Deletion

\* A budget from which one thing is taken has one less of it.
LEMMA SpendKeepsBudget ==
    ASSUME IndexTypeOK, NEW kind \in {"uploads", "deletes", "errors"}, Spend(kind)
    PROVE  /\ budget' \in [uploads : 0 .. MaxUploads, deletes : 0 .. MaxDeletes,
                           errors : 0 .. MaxErrors]
           /\ kind # "uploads" => budget'.uploads = budget.uploads
           /\ kind = "uploads" => budget'.uploads = budget.uploads - 1
           /\ kind # "errors" => budget'.errors = budget.errors
           /\ kind = "errors" => budget'.errors < budget.errors
<1>1. budget[kind] > 0 /\ budget' = [budget EXCEPT ![kind] = @ - 1]
  BY DEF Spend
<1>2. CASE kind = "uploads"
  BY <1>1, <1>2, IndexAssumption DEF IndexTypeOK
<1>3. CASE kind = "deletes"
  BY <1>1, <1>3, IndexAssumption DEF IndexTypeOK
<1>4. CASE kind = "errors"
  BY <1>1, <1>4, IndexAssumption DEF IndexTypeOK
<1> QED  BY <1>2, <1>3, <1>4

LEMMA TypeInit == IndexInit => TypeInv
<1> SUFFICES ASSUME IndexInit  PROVE TypeInv
  OBVIOUS
<1>1. EmptyCorpus \in Corpus
  BY DEF EmptyCorpus, Corpus, MaybeGeneration
<1>2. IndexTypeOK
  <2>1. newest \in [Docs -> 0 .. MaxUploads] /\ pending \in [Docs -> 0 .. MaxUploads]
    BY IndexAssumption DEF IndexInit
  <2>2. budget \in [uploads : 0 .. MaxUploads, deletes : 0 .. MaxDeletes,
                    errors : 0 .. MaxErrors]
    BY IndexAssumption DEF IndexInit
  <2> QED  BY <1>1, <2>1, <2>2 DEF IndexInit, IndexTypeOK
<1>3. \A d \in Docs : Counted(d) <= MaxUploads
  BY IndexAssumption DEF IndexInit, Counted
<1> QED  BY <1>2, <1>3 DEF TypeInv

\* A step that writes no counter keeps what has been paid for.
LEMMA CountedKept ==
    ASSUME TypeInv, IndexTypeOK', newest' = newest,
           \A d \in Docs : pending'[d] <= pending[d],
           budget'.uploads = budget.uploads
    PROVE  TypeInv'
  BY IndexAssumption DEF TypeInv, IndexTypeOK, Counted

LEMMA RegisterTypes ==
    ASSUME TypeInv, NEW d \in Docs, Register(d)
    PROVE  TypeInv'
<1>1. /\ budget' \in [uploads : 0 .. MaxUploads, deletes : 0 .. MaxDeletes,
                      errors : 0 .. MaxErrors]
      /\ budget'.uploads = budget.uploads - 1
  BY SpendKeepsBudget DEF Register, TypeInv
<1>2. ASSUME NEW e \in Docs
      PROVE  Counted(e)' <= MaxUploads /\ pending'[e] \in 0 .. MaxUploads
  <2>1. /\ newest[e] \in Nat /\ pending[e] \in Nat /\ newest'[e] = newest[e]
        /\ budget.uploads \in Nat /\ budget'.uploads \in Nat
    BY <1>1, IndexAssumption DEF TypeInv, IndexTypeOK, Register
  <2>2. pending'[e] = IF e = d THEN pending[e] + 1 ELSE pending[e]
    BY DEF Register, TypeInv, IndexTypeOK
  <2> QED  BY <1>1, <2>1, <2>2, IndexAssumption DEF TypeInv, Counted
<1>3. pending' \in [Docs -> 0 .. MaxUploads]
  BY <1>2 DEF Register, TypeInv, IndexTypeOK
<1>4. IndexTypeOK'
  BY <1>1, <1>3 DEF TypeInv, IndexTypeOK, Register
<1> QED  BY <1>2, <1>4 DEF TypeInv

\* A task that is taken from the queue.
LEMMA Dequeued ==
    ASSUME TypeInv, NEW d \in Docs, Dequeue(d)
    PROVE  /\ pending' \in [Docs -> 0 .. MaxUploads]
           /\ \A e \in Docs : pending'[e] = IF e = d THEN pending[e] - 1 ELSE pending[e]
           /\ \A e \in Docs : pending'[e] <= pending[e]
           /\ pending[d] \in Nat /\ pending[d] > 0
<1>1. pending \in [Docs -> 0 .. MaxUploads] /\ pending[d] > 0
  BY DEF TypeInv, IndexTypeOK, Dequeue
<1>2. \A e \in Docs : pending'[e] = IF e = d THEN pending[e] - 1 ELSE pending[e]
  BY <1>1 DEF Dequeue
<1>3. \A e \in Docs : pending'[e] \in 0 .. MaxUploads /\ pending'[e] <= pending[e]
  BY <1>1, <1>2, IndexAssumption
<1>4. pending' \in [Docs -> 0 .. MaxUploads]
  BY <1>1, <1>3 DEF Dequeue
<1> QED  BY <1>1, <1>2, <1>3, <1>4, IndexAssumption

LEMMA SkipTypes ==
    ASSUME TypeInv, NEW d \in Docs, WorkerSkip(d)
    PROVE  TypeInv'
<1>1. pending' \in [Docs -> 0 .. MaxUploads] /\ \A e \in Docs : pending'[e] <= pending[e]
  BY Dequeued DEF WorkerSkip
<1>2. IndexTypeOK'
  BY <1>1 DEF WorkerSkip, TypeInv, IndexTypeOK
<1> QED  BY <1>1, <1>2, CountedKept DEF WorkerSkip

\* A process that starts is not idle.
LEMMA TaskStarts ==
    ASSUME TypeInv, NEW d \in Docs, NEW f \in Facets, NEW empty \in BOOLEAN,
           WorkerStart(d, f, empty)
    PROVE  newest[d] + 1 \in 1 .. MaxUploads /\ worker' \in Task /\ worker' # Idle
<1>1. /\ newest[d] \in Nat /\ budget.uploads \in Nat /\ Counted(d) <= MaxUploads
      /\ pending[d] \in Nat /\ pending[d] > 0
  BY Dequeued, IndexAssumption DEF TypeInv, IndexTypeOK, WorkerStart
<1>2. newest[d] + 1 \in 1 .. MaxUploads
  BY <1>1, IndexAssumption DEF Counted
<1>3. worker' \in Task
  BY <1>2 DEF WorkerStart, Task, WorkerStage, Generation, EmptyCorpus, Corpus, MaybeGeneration
<1> QED  BY <1>2, <1>3, IndexAssumption

LEMMA DeletionStarts ==
    ASSUME TypeInv, NEW r \in Requests, NEW d \in Docs, DeleteStart(r, d)
    PROVE  /\ requests'[r] \in Deletion /\ requests'[r] # Idle
           /\ requests'[r].at = "purgeDocstore"
           /\ \A q \in Requests \ {r} : requests'[q] = requests[q]
<1>1. requests'[r] = [at |-> "purgeDocstore", doc |-> d, nodes |-> EmptyCorpus]
  BY DEF DeleteStart, TypeInv, IndexTypeOK
<1>2. requests'[r] \in Deletion
  BY <1>1 DEF Deletion, DeleteStage, EmptyCorpus, Corpus, MaybeGeneration
<1> QED  BY <1>1, <1>2, IndexAssumption DEF DeleteStart, TypeInv, IndexTypeOK

LEMMA WorkerStartTypes ==
    ASSUME TypeInv, NEW d \in Docs, NEW f \in Facets, NEW empty \in BOOLEAN,
           WorkerStart(d, f, empty)
    PROVE  TypeInv'
<1>1. /\ newest[d] \in Nat /\ budget.uploads \in Nat /\ Counted(d) <= MaxUploads
      /\ pending' \in [Docs -> 0 .. MaxUploads]
  BY Dequeued, IndexAssumption DEF TypeInv, IndexTypeOK, WorkerStart
<1>2. newest[d] + 1 \in 1 .. MaxUploads /\ worker' \in Task
  BY TaskStarts
<1>3. newest' \in [Docs -> 0 .. MaxUploads]
  BY <1>2, IndexAssumption DEF WorkerStart, TypeInv, IndexTypeOK
<1>4. IndexTypeOK'
  BY <1>1, <1>2, <1>3 DEF WorkerStart, TypeInv, IndexTypeOK
<1>5. ASSUME NEW e \in Docs  PROVE Counted(e)' <= MaxUploads
  <2>1. /\ newest[e] \in Nat /\ pending[e] \in Nat /\ budget' = budget
        /\ pending'[e] = IF e = d THEN pending[e] - 1 ELSE pending[e]
    BY Dequeued, IndexAssumption DEF TypeInv, IndexTypeOK, WorkerStart
  <2>2. newest'[e] = IF e = d THEN newest[e] + 1 ELSE newest[e]
    BY DEF TypeInv, IndexTypeOK, WorkerStart
  <2> QED  BY <1>1, <2>1, <2>2, IndexAssumption DEF TypeInv, Counted
<1> QED  BY <1>4, <1>5 DEF TypeInv

\* The steps of a task, but for its start.
WorkerStep ==
    \/ WorkerPurgeDocstore \/ WorkerPurgePoints \/ WorkerInvalidate \/ WorkerStore
    \/ WorkerUpsert \/ WorkerRead \/ WorkerPersist \/ WorkerFail

LEMMA WorkerTypes ==
    ASSUME TypeInv, WorkerStep
    PROVE  TypeInv'
<1>1. worker \in Task
  BY DEF WorkerStep, TypeInv, IndexTypeOK, WorkerPurgeDocstore, WorkerPurgePoints, WorkerInvalidate,
         WorkerStore, WorkerUpsert, WorkerRead, WorkerPersist, WorkerFail, WorkerAt
<1>2. worker.doc \in Docs /\ worker.generation \in Generation /\ worker.nodes \in Corpus
  BY <1>1 DEF Task
<1>3. None \in MaybeGeneration /\ Nodes \in MaybeGeneration
  BY <1>2 DEF MaybeGeneration, Nodes
<1>4. newest' = newest /\ pending' = pending /\ \A d \in Docs : pending[d] <= pending[d]
  BY IndexAssumption DEF TypeInv, IndexTypeOK, WorkerStep, WorkerPurgeDocstore, WorkerPurgePoints, WorkerInvalidate,
         WorkerStore, WorkerUpsert, WorkerRead, WorkerPersist, WorkerFail
<1> SUFFICES IndexTypeOK' /\ budget'.uploads = budget.uploads
  BY <1>4, CountedKept
<1>5. CASE WorkerPurgeDocstore
  <2>1. worker' \in Task
    BY <1>1, <1>5, TaskAt DEF WorkerPurgeDocstore, WorkerGoto, WorkerStage
  <2> QED  BY <1>2, <1>3, <1>5, <2>1 DEF WorkerPurgeDocstore, TypeInv, IndexTypeOK, Corpus
<1>6. CASE WorkerPurgePoints
  <2>1. worker' \in Task
    BY <1>1, <1>6, TaskAt DEF WorkerPurgePoints, WorkerGoto, WorkerStage
  <2> QED  BY <1>2, <1>3, <1>6, <2>1 DEF WorkerPurgePoints, TypeInv, IndexTypeOK, Corpus
<1>7. CASE WorkerInvalidate
  <2>1. worker' \in Task
    BY <1>1, <1>7, TaskAt DEF WorkerInvalidate, WorkerGoto, WorkerStage
  <2> QED  BY <1>7, <2>1 DEF WorkerInvalidate, TypeInv, IndexTypeOK
<1>8. CASE WorkerStore
  <2>1. worker' \in Task
    BY <1>1, <1>8, TaskAt DEF WorkerStore, WorkerGoto, WorkerStage
  <2> QED  BY <1>2, <1>3, <1>8, <2>1 DEF WorkerStore, TypeInv, IndexTypeOK, Corpus
<1>9. CASE WorkerUpsert
  <2>1. worker' \in Task
    BY <1>1, <1>9, TaskAt DEF WorkerUpsert, WorkerGoto, WorkerStage
  <2> QED  BY <1>2, <1>3, <1>9, <2>1 DEF WorkerUpsert, TypeInv, IndexTypeOK, Corpus
<1>10. CASE WorkerRead
  <2>1. worker' \in Task
    BY <1>1, <1>10 DEF WorkerRead, WorkerStage, Task, TypeInv, IndexTypeOK
  <2> QED  BY <1>2, <1>10, <2>1 DEF WorkerRead, TypeInv, IndexTypeOK, DirectoryMade
<1>11. CASE WorkerPersist
  BY <1>2, <1>11 DEF WorkerPersist, TypeInv, IndexTypeOK, Persisted
<1>12. CASE WorkerFail
  <2>1. /\ budget' \in [uploads : 0 .. MaxUploads, deletes : 0 .. MaxDeletes,
                        errors : 0 .. MaxErrors]
        /\ budget'.uploads = budget.uploads
    BY <1>12, SpendKeepsBudget DEF WorkerFail, TypeInv
  <2> QED  BY <1>12, <2>1 DEF WorkerFail, TypeInv, IndexTypeOK
<1> QED  BY <1>5, <1>6, <1>7, <1>8, <1>9, <1>10, <1>11, <1>12 DEF WorkerStep

\* The steps of a DELETE, but for its start.
DeleteStep(r) ==
    \/ DeletePurgeDocstore(r) \/ DeletePurgePoints(r) \/ DeleteInvalidate(r)
    \/ DeleteCommit(r) \/ DeleteRead(r) \/ DeleteReadNothing(r) \/ DeletePersist(r)
    \/ DeleteFail(r)

LEMMA DeleteStartTypes ==
    ASSUME TypeInv, NEW r \in Requests, NEW d \in Docs, DeleteStart(r, d)
    PROVE  TypeInv'
<1>1. /\ budget' \in [uploads : 0 .. MaxUploads, deletes : 0 .. MaxDeletes,
                      errors : 0 .. MaxErrors]
      /\ budget'.uploads = budget.uploads
  BY SpendKeepsBudget DEF DeleteStart, TypeInv
<1>2. requests' \in [Requests -> Deletion \union {Idle}]
  BY DeletionStarts DEF DeleteStart, TypeInv, IndexTypeOK
<1>3. IndexTypeOK'
  BY <1>1, <1>2 DEF DeleteStart, TypeInv, IndexTypeOK
<1>4. pending' = pending /\ \A e \in Docs : pending[e] <= pending[e]
  BY IndexAssumption DEF DeleteStart, TypeInv, IndexTypeOK
<1> QED  BY <1>1, <1>3, <1>4, CountedKept DEF DeleteStart

LEMMA DeleteTypes ==
    ASSUME TypeInv, NEW r \in Requests, DeleteStep(r)
    PROVE  TypeInv'
<1>1. requests[r] \in Deletion
  BY DEF DeleteStep, DeletePurgeDocstore, DeletePurgePoints, DeleteInvalidate, DeleteCommit,
         DeleteRead, DeleteReadNothing, DeletePersist, DeleteFail, At, TypeInv, IndexTypeOK
<1>2. requests[r].doc \in Docs /\ requests[r].nodes \in Corpus
  BY <1>1 DEF Deletion
<1>3. None \in MaybeGeneration
  BY DEF MaybeGeneration
<1>4. newest' = newest /\ pending' = pending /\ \A d \in Docs : pending[d] <= pending[d]
  BY IndexAssumption DEF TypeInv, IndexTypeOK, DeleteStep, DeletePurgeDocstore, DeletePurgePoints, DeleteInvalidate, DeleteCommit,
         DeleteRead, DeleteReadNothing, DeletePersist, DeleteFail
<1>5. ASSUME NEW stage \in DeleteStage, Goto(r, stage)
      PROVE  requests' \in [Requests -> Deletion \union {Idle}]
  <2>1. requests' = [requests EXCEPT ![r] = [requests[r] EXCEPT !.at = stage]]
    BY <1>5 DEF Goto
  <2> QED  BY <1>1, <2>1, DeletionAt DEF TypeInv, IndexTypeOK
<1> SUFFICES IndexTypeOK' /\ budget'.uploads = budget.uploads
  BY <1>4, CountedKept
<1>6. CASE DeletePurgeDocstore(r)
  BY <1>2, <1>3, <1>5, <1>6 DEF DeletePurgeDocstore, DeleteStage, TypeInv, IndexTypeOK, Corpus
<1>7. CASE DeletePurgePoints(r)
  BY <1>2, <1>3, <1>5, <1>7 DEF DeletePurgePoints, DeleteStage, TypeInv, IndexTypeOK, Corpus
<1>8. CASE DeleteInvalidate(r)
  BY <1>5, <1>8 DEF DeleteInvalidate, DeleteStage, TypeInv, IndexTypeOK
<1>9. CASE DeleteCommit(r)
  BY <1>5, <1>9 DEF DeleteCommit, DeleteStage, TypeInv, IndexTypeOK
<1>10. CASE DeleteRead(r)
  <2>1. requests' = [requests EXCEPT ![r] = [requests[r] EXCEPT !.at = "persist",
                                                               !.nodes = points]]
    BY <1>10 DEF DeleteRead
  <2>2. [requests[r] EXCEPT !.at = "persist", !.nodes = points] \in Deletion
    BY <1>1 DEF Deletion, DeleteStage, TypeInv, IndexTypeOK
  <2>3. requests' \in [Requests -> Deletion \union {Idle}]
    BY <2>1, <2>2 DEF TypeInv, IndexTypeOK
  <2> QED  BY <1>10, <2>3 DEF DeleteRead, TypeInv, IndexTypeOK, DirectoryMade
<1>11. CASE DeleteReadNothing(r)
  BY <1>11 DEF DeleteReadNothing, TypeInv, IndexTypeOK
<1>12. CASE DeletePersist(r)
  BY <1>2, <1>12 DEF DeletePersist, TypeInv, IndexTypeOK, Persisted
<1>13. CASE DeleteFail(r)
  <2>1. /\ budget' \in [uploads : 0 .. MaxUploads, deletes : 0 .. MaxDeletes,
                        errors : 0 .. MaxErrors]
        /\ budget'.uploads = budget.uploads
    BY <1>13, SpendKeepsBudget DEF DeleteFail, TypeInv
  <2> QED  BY <1>13, <2>1 DEF DeleteFail, TypeInv, IndexTypeOK
<1> QED  BY <1>6, <1>7, <1>8, <1>9, <1>10, <1>11, <1>12, <1>13 DEF DeleteStep

\* The steps of the next-state relation, grouped as the lemmas are.
LEMMA IndexStepCases ==
    ASSUME [IndexNext]_indexVars
    PROVE  \/ \E d \in Docs : Register(d) \/ WorkerSkip(d)
           \/ \E d \in Docs, f \in Facets, empty \in BOOLEAN : WorkerStart(d, f, empty)
           \/ WorkerStep
           \/ \E r \in Requests, d \in Docs : DeleteStart(r, d)
           \/ \E r \in Requests : DeleteStep(r)
           \/ UNCHANGED indexVars
  BY DEF IndexNext, StoreNext, WorkerStep, DeleteStep

LEMMA TypeStep == TypeInv /\ [IndexNext]_indexVars => TypeInv'
<1> SUFFICES ASSUME TypeInv, [IndexNext]_indexVars  PROVE TypeInv'
  OBVIOUS
<1>1. CASE UNCHANGED indexVars
  BY <1>1 DEF indexVars, TypeInv, IndexTypeOK, Counted
<1> QED
  BY <1>1, IndexStepCases, RegisterTypes, SkipTypes, WorkerStartTypes, WorkerTypes,
     DeleteStartTypes, DeleteTypes

-----------------------------------------------------------------------------
(* The rebuild                                                               *)

\* A step of a task, when the processes take turns.
LEMMA WorkerAlone ==
    ASSUME RebuildInv, WorkerStep
    PROVE  /\ worker \in Task /\ worker # Idle /\ NoRequests
           /\ UNCHANGED <<pending, newest, requests>>
           /\ worker' = Idle \/ (worker' \in Task /\ worker'.doc = worker.doc)
  <1>1. worker \in Task /\ worker # Idle
    BY DEF RebuildInv, TypeInv, IndexTypeOK, WorkerStep, WorkerPurgeDocstore, WorkerPurgePoints,
           WorkerInvalidate, WorkerStore, WorkerUpsert, WorkerRead, WorkerPersist, WorkerFail,
           WorkerAt
  <1>2. UNCHANGED <<pending, newest, requests>>
    BY DEF WorkerStep, WorkerPurgeDocstore, WorkerPurgePoints,
           WorkerInvalidate, WorkerStore, WorkerUpsert, WorkerRead, WorkerPersist, WorkerFail
  <1>3. worker' = Idle \/ (worker' \in Task /\ worker'.doc = worker.doc)
    <2>1. CASE WorkerPersist \/ WorkerFail
      BY <2>1 DEF WorkerPersist, WorkerFail
    <2>2. CASE \E stage \in WorkerStage : WorkerGoto(stage)
      BY <1>1, <2>2, TaskAt DEF WorkerGoto
    <2>3. CASE WorkerRead
      BY <1>1, <2>3 DEF WorkerRead, Task, WorkerStage, RebuildInv, TypeInv, IndexTypeOK
    <2> QED  BY <2>1, <2>2, <2>3 DEF WorkerStep, WorkerPurgeDocstore, WorkerPurgePoints,
               WorkerInvalidate, WorkerStore, WorkerUpsert, WorkerStage
  <1> QED  BY <1>1, <1>2, <1>3 DEF RebuildInv

\* A step of a DELETE, when the processes take turns.
LEMMA DeleteAlone ==
    ASSUME RebuildInv, NEW r \in Requests, DeleteStep(r)
    PROVE  /\ requests[r] \in Deletion /\ requests[r] # Idle
           /\ worker = Idle /\ worker' = Idle /\ UNCHANGED <<newest, collection>>
           /\ \A q \in Requests \ {r} : requests'[q] = requests[q] /\ ~Blocking(q)
           /\ requests'[r] = Idle
                \/ (requests'[r] \in Deletion /\ requests'[r].doc = requests[r].doc)
  <1>1. requests[r] \in Deletion /\ requests[r] # Idle
    BY DEF DeleteStep, DeletePurgeDocstore, DeletePurgePoints, DeleteInvalidate, DeleteCommit,
           DeleteRead, DeleteReadNothing, DeletePersist, DeleteFail, At, RebuildInv, TypeInv,
           IndexTypeOK
  <1>2. UNCHANGED <<newest, collection, worker>> /\ LoopFree(r)
    BY DEF DeleteStep, DeletePurgeDocstore, DeletePurgePoints, DeleteInvalidate, DeleteCommit,
           DeleteRead, DeleteReadNothing, DeletePersist, DeleteFail, At
  <1>3. worker = Idle
    BY <1>1 DEF RebuildInv, NoRequests
  <1>4. PICK new : /\ requests' = [requests EXCEPT ![r] = new]
                   /\ new = Idle \/ (new \in Deletion /\ new.doc = requests[r].doc)
    <2>1. CASE requests' = [requests EXCEPT ![r] = Idle]
      BY <2>1
    <2>2. CASE \E stage \in DeleteStage : Goto(r, stage)
      <3>1. PICK stage \in DeleteStage :
              requests' = [requests EXCEPT ![r] = [requests[r] EXCEPT !.at = stage]]
        BY <2>2 DEF Goto
      <3> DEFINE moved == [requests[r] EXCEPT !.at = stage]
      <3>2. moved \in Deletion /\ moved.doc = requests[r].doc
        BY <1>1, DeletionAt
      <3>3. requests' = [requests EXCEPT ![r] = moved]
        BY <3>1
      <3> HIDE DEF moved
      <3> QED  BY <3>2, <3>3
    <2>3. CASE DeleteRead(r)
      <3>1. requests' = [requests EXCEPT ![r] = [requests[r] EXCEPT !.at = "persist",
                                                                   !.nodes = points]]
        BY <2>3 DEF DeleteRead
      <3>2. [requests[r] EXCEPT !.at = "persist", !.nodes = points] \in Deletion
        BY <1>1 DEF Deletion, DeleteStage, RebuildInv, TypeInv, IndexTypeOK
      <3>3. [requests[r] EXCEPT !.at = "persist", !.nodes = points].doc = requests[r].doc
        BY <1>1 DEF Deletion
      <3> QED  BY <3>1, <3>2, <3>3
    <2> QED  BY <2>1, <2>2, <2>3 DEF DeleteStep, DeletePurgeDocstore, DeletePurgePoints,
               DeleteInvalidate, DeleteCommit, DeleteReadNothing, DeletePersist,
               DeleteFail, DeleteStage
  <1> QED  BY <1>1, <1>2, <1>3, <1>4 DEF LoopFree, RebuildInv, TypeInv, IndexTypeOK

\* Deleting what an empty store does not hold.
LEMMA PurgedEmpty ==
    ASSUME NEW d \in Docs
    PROVE  [EmptyCorpus EXCEPT ![d] = None] = EmptyCorpus
  BY DEF EmptyCorpus

LEMMA RebuildWorker ==
    ASSUME RebuildInv, WorkerStep, TypeInv'
    PROVE  RebuildInv'
<1>1. worker \in Task /\ worker.doc \in Docs /\ NoRequests /\ requests' = requests
  BY WorkerAlone DEF Task
<1>2. NoRequests'
  BY <1>1 DEF NoRequests
<1>3. ~collection' => points' = EmptyCorpus
  <2>1. CASE WorkerPurgePoints
    BY <1>1, <2>1, PurgedEmpty DEF WorkerPurgePoints, RebuildInv
  <2>2. CASE WorkerUpsert
    BY <2>2 DEF WorkerUpsert
  <2>3. CASE UNCHANGED <<points, collection>>
    BY <2>3 DEF RebuildInv
  <2> QED  BY <2>1, <2>2, <2>3 DEF WorkerStep, WorkerPurgeDocstore,
             WorkerInvalidate, WorkerStore, WorkerRead, WorkerPersist, WorkerFail
<1>4. (WorkerAt("persist") => worker.nodes = points)'
  <2>1. CASE WorkerRead
    BY <1>1, <2>1 DEF WorkerRead, WorkerAt, Task
  <2>2. CASE worker' = Idle
    BY <2>2 DEF WorkerAt
  <2>3. CASE \E stage \in WorkerStage \ {"persist"} : WorkerGoto(stage)
    BY <1>1, <2>3, TaskAt DEF WorkerGoto, WorkerAt
  <2> QED  BY <2>1, <2>2, <2>3 DEF WorkerStep, WorkerPurgeDocstore, WorkerPurgePoints,
             WorkerInvalidate, WorkerStore, WorkerUpsert, WorkerPersist, WorkerFail, WorkerStage
<1> QED  BY <1>2, <1>3, <1>4 DEF RebuildInv, ReadIsCurrent, NoRequests

LEMMA RebuildDelete ==
    ASSUME RebuildInv, NEW r \in Requests, DeleteStep(r), TypeInv'
    PROVE  RebuildInv'
<1>1. /\ requests[r] \in Deletion /\ requests[r] # Idle /\ requests[r].doc \in Docs
      /\ worker' = Idle /\ collection' = collection
      /\ \A q \in Requests \ {r} : requests'[q] = requests[q] /\ ~Blocking(q)
  BY DeleteAlone DEF Deletion
<1>2. ~collection' => points' = EmptyCorpus
  <2>1. CASE DeletePurgePoints(r)
    BY <1>1, <2>1, PurgedEmpty DEF DeletePurgePoints, RebuildInv
  <2>2. CASE points' = points
    BY <1>1, <2>2 DEF RebuildInv
  <2> QED  BY <2>1, <2>2 DEF DeleteStep, DeletePurgeDocstore, DeleteInvalidate, DeleteCommit,
             DeleteRead, DeleteReadNothing, DeletePersist, DeleteFail
<1>3. requests'[r] # Idle /\ requests'[r].at = "persist" => requests'[r].nodes = points'
  <2>1. CASE DeleteRead(r)
    <3>1. requests' = [requests EXCEPT ![r] = [requests[r] EXCEPT !.at = "persist",
                                                                 !.nodes = points]]
      BY <2>1 DEF DeleteRead
    <3>2. requests'[r].nodes = points
      BY <1>1, <3>1 DEF Deletion, RebuildInv, TypeInv, IndexTypeOK
    <3> QED  BY <2>1, <3>2 DEF DeleteRead
  <2>2. CASE requests' = [requests EXCEPT ![r] = Idle]
    BY <2>2 DEF RebuildInv, TypeInv, IndexTypeOK
  <2>3. CASE \E stage \in DeleteStage \ {"persist"} : Goto(r, stage)
    <3>1. PICK stage \in DeleteStage \ {"persist"} :
            requests' = [requests EXCEPT ![r] = [requests[r] EXCEPT !.at = stage]]
      BY <2>3 DEF Goto
    <3>2. requests'[r].at = stage
      BY <1>1, <3>1, DeletionAt DEF RebuildInv, TypeInv, IndexTypeOK
    <3> QED  BY <3>2
  <2> QED  BY <2>1, <2>2, <2>3 DEF DeleteStep, DeletePurgeDocstore, DeletePurgePoints,
             DeleteInvalidate, DeleteCommit, DeleteReadNothing, DeletePersist, DeleteFail,
             DeleteStage
<1>4. ASSUME NEW q \in Requests \ {r}
      PROVE  requests'[q] # Idle => requests'[q].at # "persist"
  BY <1>1 DEF Blocking
<1>5. ReadIsCurrent'
  BY <1>1, <1>3, <1>4 DEF ReadIsCurrent, WorkerAt
<1> QED  BY <1>1, <1>2, <1>5 DEF RebuildInv

LEMMA RebuildStep ==
    ASSUME Overlapping = FALSE, RebuildInv, [IndexNext]_indexVars
    PROVE  RebuildInv'
<1>1. TypeInv'
  BY TypeStep DEF RebuildInv
<1>2. ASSUME NEW d \in Docs, Register(d) \/ WorkerSkip(d)  PROVE RebuildInv'
  BY <1>1, <1>2 DEF Register, WorkerSkip, RebuildInv, ReadIsCurrent, NoRequests, WorkerAt
<1>3. ASSUME NEW d \in Docs, NEW f \in Facets, NEW empty \in BOOLEAN,
             WorkerStart(d, f, empty)
      PROVE  RebuildInv'
  <2>1. NoRequests /\ requests' = requests /\ points' = points /\ collection' = collection
    BY <1>3 DEF WorkerStart, Dequeue
  <2>2. worker'.at # "persist"
    BY <1>3 DEF WorkerStart, Dequeue
  <2> QED  BY <1>1, <2>1, <2>2 DEF RebuildInv, ReadIsCurrent, NoRequests, WorkerAt
<1>4. ASSUME NEW r \in Requests, NEW d \in Docs, DeleteStart(r, d)  PROVE RebuildInv'
  <2>1. worker = Idle /\ worker' = worker /\ points' = points /\ collection' = collection
    BY <1>4 DEF DeleteStart
  <2>2. \A q \in Requests : requests'[q] = requests[q] \/ requests'[q].at = "purgeDocstore"
    BY <1>4 DEF DeleteStart, RebuildInv, TypeInv, IndexTypeOK
  <2> QED  BY <1>1, <2>1, <2>2 DEF RebuildInv, ReadIsCurrent, WorkerAt
<1>5. CASE UNCHANGED indexVars
  BY <1>1, <1>5 DEF indexVars, RebuildInv, ReadIsCurrent, NoRequests, WorkerAt
<1> QED
  BY <1>1, <1>2, <1>3, <1>4, <1>5, IndexStepCases, RebuildWorker, RebuildDelete

\* An exception is never taken back.
LEMMA FailureRemains ==
    ASSUME TypeInv, [IndexNext]_indexVars
    PROVE  NothingFailed' => NothingFailed
<1>1. budget.errors \in 0 .. MaxErrors /\ MaxErrors \in Nat
  BY IndexAssumption DEF TypeInv, IndexTypeOK
<1>2. TypeInv'
  BY TypeStep
<1>3. budget'.errors \in 0 .. MaxErrors
  BY <1>2 DEF TypeInv, IndexTypeOK
<1>4. ASSUME NEW kind \in {"uploads", "deletes"}, Spend(kind)
      PROVE  budget'.errors = budget.errors
  BY <1>4, SpendKeepsBudget DEF TypeInv
<1>5. Spend("errors") => budget'.errors < budget.errors
  BY SpendKeepsBudget DEF TypeInv
<1>6. Spend("uploads") \/ Spend("deletes") \/ Spend("errors") \/ budget' = budget
  BY DEF IndexNext, StoreNext, indexVars, Register, WorkerSkip, WorkerStart, WorkerPurgeDocstore,
         WorkerPurgePoints, WorkerInvalidate, WorkerStore, WorkerUpsert, WorkerRead,
         WorkerPersist, WorkerFail, DeleteStart, DeletePurgeDocstore, DeletePurgePoints,
         DeleteInvalidate, DeleteCommit, DeleteRead, DeleteReadNothing, DeletePersist, DeleteFail
<1>7. budget'.errors <= budget.errors
  BY <1>1, <1>3, <1>4, <1>5, <1>6
<1> QED
  BY <1>1, <1>3, <1>7 DEF NothingFailed

LEMMA FailureCounts ==
    ASSUME TypeInv, WorkerFail \/ \E r \in Requests : DeleteFail(r)
    PROVE  budget'.errors < budget.errors /\ ~NothingFailed'
<1>1. budget.errors \in 0 .. MaxErrors /\ MaxErrors \in Nat
  BY IndexAssumption DEF TypeInv, IndexTypeOK
<1>2. budget'.errors < budget.errors /\ budget'.errors \in 0 .. MaxErrors
  BY SpendKeepsBudget DEF TypeInv, WorkerFail, DeleteFail
<1> QED  BY <1>1, <1>2 DEF NothingFailed

\* What a step does that ends the last change under way: it has failed, or it has
\* persisted the corpus as it is.
LEMMA LastChangeEnds ==
    ASSUME Overlapping = FALSE, RebuildInv, [IndexNext]_indexVars, ~Quiet, Quiet'
    PROVE  \/ budget'.errors < budget.errors
           \/ points' = points /\ docstore' = docstore /\ (points # EmptyCorpus => bm25' = points)
<1>1. TypeInv /\ TypeInv'
  BY TypeStep DEF RebuildInv
<1>2. ASSUME NEW d \in Docs, Register(d) \/ WorkerSkip(d)  PROVE FALSE
  BY <1>2 DEF Register, WorkerSkip, Quiet, NoRequests
<1>3. ASSUME NEW d \in Docs, NEW f \in Facets, NEW empty \in BOOLEAN,
             WorkerStart(d, f, empty)
      PROVE  FALSE
  <2>1. NoRequests /\ worker = Idle
    BY <1>3 DEF WorkerStart, Dequeue
  <2> QED  BY <2>1 DEF Quiet
<1>4. ASSUME NEW r \in Requests, NEW d \in Docs, DeleteStart(r, d)  PROVE FALSE
  BY <1>1, <1>4, DeletionStarts DEF Quiet, NoRequests
<1>5. CASE WorkerStep
  <2>1. worker' = Idle /\ worker \in Task
    BY <1>5, WorkerAlone DEF Quiet
  <2>2. ASSUME NEW stage \in WorkerStage, WorkerGoto(stage)  PROVE FALSE
    BY <2>1, <2>2, TaskAt, IndexAssumption DEF WorkerGoto
  <2>3. ~WorkerRead
    <3>1. [worker EXCEPT !.at = "persist", !.nodes = points] \in Task
      BY <1>1, <2>1 DEF Task, WorkerStage, TypeInv, IndexTypeOK
    <3> QED  BY <2>1, <3>1, IndexAssumption DEF WorkerRead
  <2>4. WorkerPersist \/ WorkerFail
    BY <1>5, <2>2, <2>3 DEF WorkerStep, WorkerPurgeDocstore, WorkerPurgePoints,
       WorkerInvalidate, WorkerStore, WorkerUpsert, WorkerStage
  <2> QED  BY <1>1, <2>4, FailureCounts DEF WorkerPersist, Persisted, RebuildInv, ReadIsCurrent
<1>6. ASSUME NEW r \in Requests, DeleteStep(r)
      PROVE  \/ budget'.errors < budget.errors
             \/ points' = points /\ docstore' = docstore /\ (points # EmptyCorpus => bm25' = points)
  <2>1. requests'[r] = Idle /\ requests[r] \in Deletion
    BY <1>6, DeleteAlone DEF Quiet, NoRequests
  <2>2. ASSUME NEW stage \in DeleteStage, Goto(r, stage)  PROVE FALSE
    <3>1. requests' = [requests EXCEPT ![r] = [requests[r] EXCEPT !.at = stage]]
      BY <2>2 DEF Goto
    <3>2. requests'[r] \in Deletion
      BY <1>1, <2>1, <3>1, DeletionAt DEF TypeInv, IndexTypeOK
    <3> QED  BY <2>1, <3>2, IndexAssumption
  <2>3. ~DeleteRead(r)
    <3>1. [requests[r] EXCEPT !.at = "persist", !.nodes = points] \in Deletion
      BY <1>1, <2>1 DEF Deletion, DeleteStage, TypeInv, IndexTypeOK
    <3>2. DeleteRead(r) => requests'[r] = [requests[r] EXCEPT !.at = "persist", !.nodes = points]
      BY <1>1, <2>1 DEF DeleteRead, TypeInv, IndexTypeOK
    <3> QED  BY <2>1, <3>1, <3>2, IndexAssumption
  <2>4. DeletePersist(r) \/ DeleteReadNothing(r) \/ DeleteFail(r)
    BY <1>6, <2>2, <2>3 DEF DeleteStep, DeletePurgeDocstore, DeletePurgePoints,
       DeleteInvalidate, DeleteCommit, DeleteStage
  <2>5. CASE DeletePersist(r)
    BY <2>5 DEF DeletePersist, At, Persisted, RebuildInv, ReadIsCurrent
  <2>6. CASE DeleteReadNothing(r)
    BY <2>6 DEF DeleteReadNothing, RebuildInv
  <2>7. CASE DeleteFail(r)
    BY <1>1, <2>7, FailureCounts
  <2> QED  BY <2>4, <2>5, <2>6, <2>7
<1>7. CASE UNCHANGED indexVars
  BY <1>7 DEF indexVars, Quiet, NoRequests
<1> QED
  BY <1>2, <1>3, <1>4, <1>5, <1>6, <1>7, IndexStepCases

\* While nobody works on a document, only uploads are registered.
LEMMA QuietKept ==
    ASSUME TypeInv, [IndexNext]_indexVars, Quiet, Quiet'
    PROVE  UNCHANGED <<points, docstore, bm25, newest>>
<1>1. TypeInv'
  BY TypeStep
<1>2. ASSUME NEW d \in Docs, NEW f \in Facets, NEW empty \in BOOLEAN,
             WorkerStart(d, f, empty)
      PROVE  FALSE
  BY <1>2, TaskStarts DEF Quiet
<1>3. ASSUME NEW r \in Requests, NEW d \in Docs, DeleteStart(r, d)  PROVE FALSE
  BY <1>3, DeletionStarts DEF Quiet, NoRequests
<1>4. ~WorkerStep
  BY DEF Quiet, WorkerStep, WorkerPurgeDocstore, WorkerPurgePoints,
         WorkerInvalidate, WorkerStore, WorkerUpsert, WorkerRead, WorkerPersist, WorkerFail,
         WorkerAt
<1>5. ASSUME NEW r \in Requests, DeleteStep(r)  PROVE FALSE
  BY <1>5 DEF DeleteStep, DeletePurgeDocstore, DeletePurgePoints, DeleteInvalidate, DeleteCommit,
         DeleteRead, DeleteReadNothing, DeletePersist, DeleteFail, At, Quiet, NoRequests
<1>6. ASSUME NEW d \in Docs, Register(d) \/ WorkerSkip(d)
      PROVE  UNCHANGED <<points, docstore, bm25, newest>>
  BY <1>6 DEF Register, WorkerSkip
<1> QED
  BY <1>2, <1>3, <1>4, <1>5, <1>6, IndexStepCases DEF indexVars

-----------------------------------------------------------------------------
(* The stores                                                                *)

\* What has begun stays so, also when the processes overlap.
LEMMA BegunStep ==
    ASSUME TypeInv, Begun, [IndexNext]_indexVars
    PROVE  Begun' /\ \A e \in Docs : newest[e] # 0 => newest'[e] # 0
<1>1. /\ docstore \in [Docs -> MaybeGeneration] /\ points \in [Docs -> MaybeGeneration]
      /\ newest \in [Docs -> Nat]
  BY IndexAssumption DEF TypeInv, IndexTypeOK, Corpus
<1>2. ASSUME \/ \E d \in Docs : Register(d) \/ WorkerSkip(d)
             \/ \E r \in Requests, d \in Docs : DeleteStart(r, d)
             \/ UNCHANGED indexVars
      PROVE  Begun' /\ \A e \in Docs : newest[e] # 0 => newest'[e] # 0
  <2>1. UNCHANGED <<newest, worker, docstore, points>>
    BY <1>2 DEF Register, WorkerSkip, DeleteStart, indexVars
  <2> QED  BY <2>1 DEF Begun
<1>3. ASSUME NEW d \in Docs, NEW f \in Facets, NEW empty \in BOOLEAN,
             WorkerStart(d, f, empty)
      PROVE  Begun' /\ \A e \in Docs : newest[e] # 0 => newest'[e] # 0
  <2>1. \A e \in Docs : newest'[e] = IF e = d THEN newest[d] + 1 ELSE newest[e]
    BY <1>1, <1>3 DEF WorkerStart, Dequeue
  <2> QED  BY <1>1, <1>3, <2>1 DEF WorkerStart, Dequeue, Begun
<1>4. CASE WorkerStep
  <2>1. worker \in Task /\ worker # Idle /\ worker.doc \in Docs /\ newest' = newest
    BY <1>4 DEF TypeInv, IndexTypeOK, Task, WorkerStep, WorkerPurgeDocstore, WorkerPurgePoints,
           WorkerInvalidate, WorkerStore, WorkerUpsert, WorkerRead, WorkerPersist, WorkerFail,
           WorkerAt
  <2>2. worker' = Idle \/ worker'.doc = worker.doc
    <3>1. ASSUME NEW stage \in WorkerStage, WorkerGoto(stage)  PROVE worker'.doc = worker.doc
      BY <2>1, <3>1, TaskAt DEF WorkerGoto
    <3>2. CASE WorkerRead
      BY <2>1, <3>2 DEF WorkerRead, Task
    <3> QED  BY <1>4, <3>1, <3>2 DEF WorkerStep, WorkerPurgeDocstore, WorkerPurgePoints,
           WorkerInvalidate, WorkerStore, WorkerUpsert, WorkerPersist, WorkerFail, WorkerStage
  <2>3. \A e \in Docs \ {worker.doc} : docstore'[e] = docstore[e] /\ points'[e] = points[e]
    BY <1>1, <1>4 DEF WorkerStep, WorkerPurgeDocstore, WorkerPurgePoints,
         WorkerInvalidate, WorkerStore, WorkerUpsert, WorkerRead, WorkerPersist, WorkerFail
  <2> QED  BY <2>1, <2>2, <2>3 DEF Begun
<1>5. ASSUME NEW r \in Requests, DeleteStep(r)
      PROVE  Begun' /\ \A e \in Docs : newest[e] # 0 => newest'[e] # 0
  <2>1. newest' = newest /\ worker' = worker
    BY <1>5 DEF DeleteStep, DeletePurgeDocstore, DeletePurgePoints, DeleteInvalidate,
         DeleteCommit, DeleteRead, DeleteReadNothing, DeletePersist, DeleteFail
  <2>2. \A e \in Docs : docstore'[e] \in {docstore[e], None} /\ points'[e] \in {points[e], None}
    BY <1>1, <1>5 DEF DeleteStep, DeletePurgeDocstore, DeletePurgePoints, DeleteInvalidate,
         DeleteCommit, DeleteRead, DeleteReadNothing, DeletePersist, DeleteFail
  <2> QED  BY <2>1, <2>2 DEF Begun
<1> QED  BY <1>2, <1>3, <1>4, <1>5, IndexStepCases

LEMMA StoresWorker ==
    ASSUME RebuildInv, StoresInv, WorkerStep, [IndexNext]_indexVars
    PROVE  StoresInv'
<1> DEFINE d0 == worker.doc
<1>1. /\ worker \in Task /\ worker # Idle /\ d0 \in Docs /\ NoRequests
      /\ newest' = newest /\ requests' = requests
      /\ worker' = Idle \/ worker'.doc = d0
  BY WorkerAlone DEF Task
<1>2. /\ docstore \in [Docs -> MaybeGeneration] /\ points \in [Docs -> MaybeGeneration]
  BY DEF RebuildInv, TypeInv, IndexTypeOK, Corpus
<1>3. ASSUME NEW d \in Docs \ {d0}
      PROVE  docstore'[d] = docstore[d] /\ points'[d] = points[d]
  BY <1>2 DEF WorkerStep, WorkerPurgeDocstore, WorkerPurgePoints,
         WorkerInvalidate, WorkerStore, WorkerUpsert, WorkerRead, WorkerPersist, WorkerFail
<1>4. WorkerStores' /\ (NothingFailed' => docstore'[d0] = points'[d0] \/ HalfStored(d0)')
  <2>1. CASE WorkerPurgeDocstore
    <3>1. docstore'[d0] = None
      BY <1>1, <1>2, <2>1 DEF WorkerPurgeDocstore
    <3>2. worker'.at = "purgePoints" /\ worker'.doc = d0 /\ worker' \in Task
      BY <1>1, <2>1, TaskAt DEF WorkerPurgeDocstore, WorkerGoto, WorkerStage
    <3>3. worker' # Idle
      BY <3>2, IndexAssumption
    <3>4. HalfStored(d0)'
      BY <1>1, <3>2, <3>3 DEF HalfStored
    <3>5. WorkerStores'
      BY <1>1, <3>1, <3>2 DEF WorkerStores, WorkerAt
    <3> QED  BY <3>4, <3>5
  <2>2. CASE WorkerPurgePoints
    <3>1. docstore'[d0] = None /\ points'[d0] = None
      BY <1>1, <1>2, <2>2 DEF WorkerPurgePoints, StoresInv, WorkerStores
    <3>2. worker'.at = "invalidate" /\ worker'.doc = d0
      BY <1>1, <2>2, TaskAt DEF WorkerPurgePoints, WorkerGoto, WorkerStage
    <3> QED  BY <1>1, <3>1, <3>2 DEF WorkerStores, WorkerAt
  <2>3. CASE WorkerInvalidate
    <3>1. docstore'[d0] = None /\ points'[d0] = None
      BY <1>1, <2>3 DEF WorkerInvalidate, WorkerAt, StoresInv, WorkerStores
    <3>2. worker'.at = "store" /\ worker'.doc = d0
      BY <1>1, <2>3, TaskAt DEF WorkerInvalidate, WorkerGoto, WorkerStage
    <3> QED  BY <1>1, <3>1, <3>2 DEF WorkerStores, WorkerAt
  <2>4. CASE WorkerStore
    <3>1. docstore'[d0] = Nodes /\ points'[d0] = None
      BY <1>1, <1>2, <2>4 DEF WorkerStore, WorkerAt, StoresInv, WorkerStores, Nodes
    <3>2. /\ worker'.at = "upsert" /\ worker'.doc = d0
          /\ worker'.empty = worker.empty /\ worker'.generation = worker.generation
          /\ worker' \in Task
      BY <1>1, <2>4, TaskAt DEF WorkerStore, WorkerGoto, WorkerStage
    <3>3. worker' # Idle
      BY <3>2, IndexAssumption
    <3>4. HalfStored(d0)'
      BY <1>1, <3>2, <3>3 DEF HalfStored
    <3>5. WorkerStores'
      BY <1>1, <3>1, <3>2, <3>3 DEF WorkerStores, WorkerAt, Nodes
    <3> QED  BY <3>4, <3>5
  <2>5. CASE WorkerUpsert
    <3>1. docstore'[d0] = points'[d0]
      BY <1>1, <1>2, <2>5 DEF WorkerUpsert, WorkerAt, StoresInv, WorkerStores, Nodes
    <3>2. worker'.at = "read" /\ worker'.doc = d0
      BY <1>1, <2>5, TaskAt DEF WorkerUpsert, WorkerGoto, WorkerStage
    <3> QED  BY <3>1, <3>2 DEF WorkerStores, WorkerAt
  <2>6. CASE WorkerRead
    <3>1. worker'.at = "persist" /\ worker'.doc = d0 /\ docstore' = docstore /\ points' = points
      BY <1>1, <2>6 DEF WorkerRead, Task
    <3>2. docstore[d0] = points[d0]
      BY <1>1, <2>6 DEF WorkerRead, WorkerAt, StoresInv, WorkerStores
    <3> QED  BY <3>1, <3>2 DEF WorkerStores, WorkerAt
  <2>7. CASE WorkerPersist
    <3>1. worker' = Idle /\ docstore' = docstore /\ points' = points
      BY <2>7 DEF WorkerPersist
    <3>2. docstore[d0] = points[d0]
      BY <1>1, <2>7 DEF WorkerPersist, WorkerAt, StoresInv, WorkerStores
    <3> QED  BY <3>1, <3>2 DEF WorkerStores, WorkerAt
  <2>8. CASE WorkerFail
    <3>1. ~NothingFailed'
      BY <2>8, FailureCounts DEF RebuildInv
    <3> QED  BY <2>8, <3>1 DEF WorkerFail, WorkerStores, WorkerAt
  <2> QED  BY <2>1, <2>2, <2>3, <2>4, <2>5, <2>6, <2>7, <2>8 DEF WorkerStep
<1>5. ASSUME NothingFailed', NEW d \in Docs \ {d0}  PROVE docstore'[d] = points'[d]
  BY <1>1, <1>3, <1>5, FailureRemains DEF NothingFailed, RebuildInv, StoresInv, HalfPurged, HalfStored, NoRequests
<1>6. ASSUME NothingFailed', NEW d \in Docs
      PROVE  docstore'[d] = points'[d] \/ HalfPurged(d)' \/ HalfStored(d)'
  <2>1. CASE d = d0
    BY <1>1, <1>4, <1>6, <2>1 DEF NothingFailed, HalfStored
  <2>2. CASE d # d0
    BY <1>5, <1>6, <2>2
  <2> QED  BY <2>1, <2>2
<1> QED
  BY <1>1, <1>4, <1>6 DEF StoresInv, DeleteStores, NoRequests

LEMMA StoresDelete ==
    ASSUME RebuildInv, StoresInv, NEW r \in Requests, DeleteStep(r), [IndexNext]_indexVars
    PROVE  StoresInv'
<1> DEFINE d0 == requests[r].doc
<1>1. /\ requests[r] \in Deletion /\ requests[r] # Idle /\ d0 \in Docs
      /\ worker = Idle /\ worker' = Idle /\ newest' = newest
      /\ \A q \in Requests \ {r} : requests'[q] = requests[q]
      /\ requests'[r] = Idle \/ requests'[r].doc = d0
  <2>1. d0 \in Docs
    BY DeleteAlone DEF Deletion
  <2> QED  BY <2>1, DeleteAlone
<1>2. docstore \in [Docs -> MaybeGeneration] /\ points \in [Docs -> MaybeGeneration]
  BY DEF RebuildInv, TypeInv, IndexTypeOK, Corpus
<1>3. ASSUME NEW d \in Docs
      PROVE  docstore'[d] \in {docstore[d], None} /\ points'[d] \in {points[d], None}
  BY <1>2 DEF DeleteStep, DeletePurgeDocstore, DeletePurgePoints, DeleteInvalidate, DeleteCommit,
         DeleteRead, DeleteReadNothing, DeletePersist, DeleteFail
<1>4. ASSUME ~DeletePurgeDocstore(r)
      PROVE  docstore' = docstore /\ ~(requests'[r] # Idle /\ requests'[r].at = "purgePoints")
  <2>1. CASE requests' = [requests EXCEPT ![r] = Idle]
    BY <1>4, <2>1 DEF RebuildInv, TypeInv, IndexTypeOK, DeleteStep, DeletePurgePoints,
         DeleteInvalidate, DeleteCommit, DeleteRead, DeleteReadNothing, DeletePersist, DeleteFail
  <2>2. CASE DeleteRead(r)
    <3>1. requests' = [requests EXCEPT ![r] = [requests[r] EXCEPT !.at = "persist",
                                                                 !.nodes = points]]
      BY <2>2 DEF DeleteRead
    <3>2. requests'[r].at = "persist"
      BY <1>1, <3>1 DEF Deletion, RebuildInv, TypeInv, IndexTypeOK
    <3> QED  BY <2>2, <3>2 DEF DeleteRead
  <2>3. CASE \E stage \in DeleteStage \ {"purgePoints"} : Goto(r, stage)
    <3>1. PICK stage \in DeleteStage \ {"purgePoints"} :
            requests' = [requests EXCEPT ![r] = [requests[r] EXCEPT !.at = stage]]
      BY <2>3 DEF Goto
    <3>2. requests'[r].at = stage
      BY <1>1, <3>1, DeletionAt DEF RebuildInv, TypeInv, IndexTypeOK
    <3> QED  BY <1>4, <3>2 DEF DeleteStep, DeletePurgePoints, DeleteInvalidate, DeleteCommit,
               DeleteRead, DeleteReadNothing, DeletePersist, DeleteFail
  <2> QED  BY <1>4, <2>1, <2>2, <2>3 DEF DeleteStep, DeletePurgePoints,
             DeleteInvalidate, DeleteCommit, DeleteReadNothing, DeletePersist, DeleteFail,
             DeleteStage
<1>5. DeletePurgeDocstore(r) =>
        /\ docstore'[d0] = None /\ requests'[r].at = "purgePoints" /\ requests'[r] # Idle
        /\ points' = points /\ \A d \in Docs \ {d0} : docstore'[d] = docstore[d]
  <2> SUFFICES ASSUME DeletePurgeDocstore(r)
               PROVE  /\ docstore'[d0] = None /\ requests'[r].at = "purgePoints"
                      /\ requests'[r] # Idle
                      /\ points' = points /\ \A d \in Docs \ {d0} : docstore'[d] = docstore[d]
    OBVIOUS
  <2>1. requests' = [requests EXCEPT ![r] = [requests[r] EXCEPT !.at = "purgePoints"]]
    BY DEF DeletePurgeDocstore, Goto
  <2>2. requests'[r] \in Deletion /\ requests'[r].at = "purgePoints"
    BY <1>1, <2>1, DeletionAt DEF RebuildInv, TypeInv, IndexTypeOK, DeleteStage
  <2> QED  BY <1>1, <1>2, <2>2, IndexAssumption DEF DeletePurgeDocstore
<1>6. ASSUME requests'[r] # Idle
      PROVE  docstore'[d0] = None /\ (requests'[r].at # "purgePoints" => points'[d0] = None)
  <2>1. CASE DeletePurgePoints(r)
    <3>1. docstore[d0] = None /\ docstore' = docstore
      BY <1>1, <2>1 DEF DeletePurgePoints, At, StoresInv, DeleteStores
    <3>2. points'[d0] = None
      BY <1>1, <1>2, <2>1 DEF DeletePurgePoints
    <3> QED  BY <3>1, <3>2
  <2>2. CASE DeleteInvalidate(r) \/ DeleteCommit(r) \/ DeleteRead(r)
    <3>1. requests[r].at \in {"invalidate", "commit", "read"}
      BY <2>2 DEF DeleteInvalidate, DeleteCommit, DeleteRead, At
    <3>2. docstore' = docstore /\ points' = points
      BY <2>2 DEF DeleteInvalidate, DeleteCommit, DeleteRead
    <3> QED  BY <1>1, <3>1, <3>2 DEF StoresInv, DeleteStores
  <2>3. CASE DeleteReadNothing(r) \/ DeletePersist(r) \/ DeleteFail(r)
    BY <1>6, <2>3 DEF DeleteReadNothing, DeletePersist, DeleteFail, RebuildInv, TypeInv,
       IndexTypeOK
  <2> QED  BY <1>5, <2>1, <2>2, <2>3 DEF DeleteStep
<1>7. ASSUME NEW q \in Requests  PROVE DeleteStores(q)'
  <2>1. CASE q = r
    BY <1>1, <1>6, <2>1 DEF DeleteStores
  <2>2. CASE q # r /\ requests[q] # Idle
    <3>1. requests[q].doc \in Docs
      BY <2>2 DEF RebuildInv, TypeInv, IndexTypeOK, Deletion
    <3> QED  BY <1>1, <1>3, <2>2, <3>1 DEF StoresInv, DeleteStores
  <2>3. CASE q # r /\ requests[q] = Idle
    BY <1>1, <2>3 DEF DeleteStores
  <2> QED  BY <2>1, <2>2, <2>3
<1>8. ASSUME NothingFailed', NEW d \in Docs
      PROVE  docstore'[d] = points'[d] \/ HalfPurged(d)'
  <2>1. docstore[d] = points[d] \/ HalfPurged(d)
    BY <1>1, <1>8, FailureRemains DEF NothingFailed, RebuildInv, StoresInv, HalfStored
  <2>2. CASE DeletePurgeDocstore(r)
    <3>1. CASE d = d0
      BY <1>1, <1>5, <2>2, <3>1 DEF HalfPurged
    <3>2. CASE d # d0
      BY <1>1, <1>5, <2>1, <2>2, <3>2 DEF HalfPurged, DeletePurgeDocstore, At
    <3> QED  BY <3>1, <3>2
  <2>3. CASE DeletePurgePoints(r)
    <3>1. docstore' = docstore /\ points'[d] = IF d = d0 THEN None ELSE points[d]
      BY <1>2, <2>3 DEF DeletePurgePoints
    <3>2. docstore[d0] = None
      BY <1>1, <2>3 DEF DeletePurgePoints, At, StoresInv, DeleteStores
    <3>3. CASE d = d0
      BY <3>1, <3>2, <3>3
    <3>4. CASE d # d0
      BY <1>1, <2>1, <3>1, <3>4 DEF HalfPurged
    <3> QED  BY <3>3, <3>4
  <2>4. CASE ~DeletePurgeDocstore(r) /\ ~DeletePurgePoints(r)
    <3>1. docstore' = docstore /\ points' = points /\ requests[r].at # "purgePoints"
      BY <1>4, <1>8, <2>4, FailureCounts DEF RebuildInv, DeleteStep,
         DeleteInvalidate, DeleteCommit, DeleteRead, DeleteReadNothing, DeletePersist, At
    <3> QED  BY <1>1, <2>1, <3>1 DEF HalfPurged
  <2> QED  BY <2>2, <2>3, <2>4
<1> QED
  BY <1>1, <1>8, <1>7 DEF StoresInv, WorkerStores, WorkerAt

LEMMA StoresStep ==
    ASSUME Overlapping = FALSE, RebuildInv, Begun, StoresInv, [IndexNext]_indexVars
    PROVE  StoresInv'
<1>1. TypeInv /\ (NothingFailed' => NothingFailed)
  BY FailureRemains DEF NothingFailed, RebuildInv
<1>2. ASSUME NEW d \in Docs, Register(d) \/ WorkerSkip(d)  PROVE StoresInv'
  <2>1. UNCHANGED <<docstore, points, worker, requests>>
    BY <1>2 DEF Register, WorkerSkip
  <2> QED
    BY <1>1, <2>1 DEF StoresInv, WorkerStores, DeleteStores, WorkerAt, HalfPurged, HalfStored, Nodes
<1>3. ASSUME NEW d \in Docs, NEW f \in Facets, NEW empty \in BOOLEAN,
             WorkerStart(d, f, empty)
      PROVE  StoresInv'
  <2>1. /\ NoRequests /\ worker = Idle
        /\ UNCHANGED <<docstore, points, requests>>
    BY <1>3 DEF WorkerStart, Dequeue
  <2>2. /\ worker'.doc = d /\ worker' # Idle
        /\ worker'.at = IF newest[d] = 0 THEN "store" ELSE "purgeDocstore"
    BY <1>1, <1>3, TaskStarts DEF WorkerStart, Dequeue
  <2>3. newest[d] = 0 => docstore[d] = None /\ points[d] = None
    BY DEF Begun
  <2>4. WorkerStores'
    BY <2>1, <2>2, <2>3 DEF WorkerStores, WorkerAt
  <2>5. NothingFailed' => \A e \in Docs : docstore'[e] = points'[e]
    BY <1>1, <2>1 DEF StoresInv, HalfPurged, HalfStored, NoRequests
  <2> QED  BY <2>1, <2>2, <2>4, <2>5 DEF StoresInv, DeleteStores, NoRequests
<1>4. ASSUME NEW r \in Requests, NEW d \in Docs, DeleteStart(r, d)  PROVE StoresInv'
  <2>1. worker = Idle /\ UNCHANGED <<worker, newest, docstore, points>> /\ requests[r] = Idle
    BY <1>4 DEF DeleteStart
  <2>2. /\ requests'[r].at = "purgeDocstore"
        /\ \A q \in Requests \ {r} : requests'[q] = requests[q]
    BY <1>1, <1>4, DeletionStarts
  <2> QED
    BY <1>1, <2>1, <2>2 DEF StoresInv, WorkerStores, DeleteStores, WorkerAt, HalfPurged,
       HalfStored
<1>5. CASE UNCHANGED indexVars
  BY <1>1, <1>5 DEF indexVars, StoresInv, WorkerStores, DeleteStores, WorkerAt, HalfPurged,
     HalfStored, Nodes
<1> QED
  BY <1>2, <1>3, <1>4, <1>5, IndexStepCases, StoresWorker, StoresDelete

-----------------------------------------------------------------------------
(* Theorems                                                                  *)

\* A quiet index is current as long as nothing failed: whoever ended last has
\* rebuilt it.
LEMMA CurrentStep ==
    ASSUME Overlapping = FALSE, RebuildInv, IndexIsCurrent, [IndexNext]_indexVars
    PROVE  IndexIsCurrent'
<1> SUFFICES ASSUME NothingFailed', Quiet', points' # EmptyCorpus
             PROVE  bm25' = points'
  BY DEF IndexIsCurrent
<1>1. TypeInv /\ TypeInv'
  BY TypeStep DEF RebuildInv
<1>2. NothingFailed /\ budget'.errors = budget.errors
  BY <1>1, FailureRemains DEF NothingFailed
<1>3. CASE Quiet
  BY <1>1, <1>2, <1>3, QuietKept DEF IndexIsCurrent
<1>4. CASE ~Quiet
  <2>1. ~(budget'.errors < budget.errors)
    BY <1>1, <1>2, IndexAssumption DEF TypeInv, IndexTypeOK
  <2> QED  BY <1>4, <2>1, LastChangeEnds
<1> QED  BY <1>3, <1>4

LEMMA CurrentInit == IndexInit => CurrentInv
<1> SUFFICES ASSUME IndexInit  PROVE CurrentInv
  OBVIOUS
<1>1. RebuildInv
  BY TypeInit DEF IndexInit, RebuildInv, ReadIsCurrent, WorkerAt
<1>2. Begun /\ StoresInv
  BY DEF IndexInit, Begun, StoresInv, WorkerStores, DeleteStores, WorkerAt, EmptyCorpus
<1>3. IndexIsCurrent
  BY DEF IndexInit, IndexIsCurrent
<1> QED  BY <1>1, <1>2, <1>3 DEF CurrentInv

LEMMA CurrentInvStep ==
    ASSUME Overlapping = FALSE, CurrentInv, [IndexNext]_indexVars
    PROVE  CurrentInv'
<1>1. Begun'
  BY BegunStep DEF CurrentInv, RebuildInv
<1> QED  BY <1>1, RebuildStep, StoresStep, CurrentStep DEF CurrentInv

\* Whoever ends the last change under way without an exception leaves the index
\* holding the leaves of the vector store, whatever failed before.
LEMMA SuccessRepairs ==
    ASSUME Overlapping = FALSE, RebuildInv, [IndexNext]_indexVars, ~Quiet, Quiet',
           budget' = budget, points' # EmptyCorpus
    PROVE  bm25' = points'
<1>1. ~(budget'.errors < budget.errors)
  BY IndexAssumption DEF RebuildInv, TypeInv, IndexTypeOK
<1> QED  BY <1>1, LastChangeEnds

\* Whoever ends a change of a document without an exception finds what its stores
\* hold in agreement, and persists the corpus as it is.
LEMMA ChangeEnds ==
    ASSUME Overlapping = FALSE, RebuildInv, StoresInv, [IndexNext]_indexVars,
           NEW d \in Docs, Ends(d)
    PROVE  /\ docstore' = docstore /\ points' = points /\ docstore[d] = points[d]
           /\ points # EmptyCorpus => bm25' = points
<1>1. budget' = budget /\ TypeInv /\ ~(budget'.errors < budget.errors)
  BY IndexAssumption DEF Ends, RebuildInv, TypeInv, IndexTypeOK
<1>2. CASE WorkerAt("persist") /\ worker.doc = d /\ worker' = Idle
  <2>1. worker # Idle /\ worker.at = "persist" /\ worker' # worker
    BY <1>2 DEF WorkerAt
  <2>2. WorkerStep
    <3>1. \A r \in Requests : ~DeleteStep(r)
      BY <2>1, DeleteAlone
    <3>2. \A e \in Docs : ~Register(e) /\ ~WorkerSkip(e)
      BY <2>1 DEF Register, WorkerSkip
    <3>3. \A e \in Docs, f \in Facets, empty \in BOOLEAN : ~WorkerStart(e, f, empty)
      BY <2>1 DEF WorkerStart, Dequeue
    <3>4. \A r \in Requests, e \in Docs : ~DeleteStart(r, e)
      BY <2>1 DEF DeleteStart
    <3>5. ~UNCHANGED indexVars
      BY <2>1 DEF indexVars
    <3> QED  BY <3>1, <3>2, <3>3, <3>4, <3>5, IndexStepCases
  <2>3. ~WorkerFail
    BY <1>1, FailureCounts
  <2>4. WorkerPersist
    BY <2>1, <2>2, <2>3 DEF WorkerStep, WorkerPurgeDocstore, WorkerPurgePoints,
       WorkerInvalidate, WorkerStore, WorkerUpsert, WorkerRead, WorkerAt
  <2>5. docstore[d] = points[d] /\ worker.nodes = points
    BY <1>2, <2>1 DEF StoresInv, WorkerStores, RebuildInv, ReadIsCurrent
  <2> QED  BY <2>4, <2>5 DEF WorkerPersist, Persisted
<1>3. ASSUME NEW r \in Requests, At(r, "persist"), requests[r].doc = d, requests'[r] = Idle
      PROVE  /\ docstore' = docstore /\ points' = points /\ docstore[d] = points[d]
             /\ points # EmptyCorpus => bm25' = points
  <2>1. requests[r] # Idle /\ requests[r].at = "persist" /\ worker = Idle
    BY <1>3 DEF At, RebuildInv, NoRequests
  <2>2. DeleteStep(r)
    <3>1. ~WorkerStep
      BY <2>1, WorkerAlone
    <3>2. \A e \in Docs : ~Register(e) /\ ~WorkerSkip(e)
      BY <1>3, <2>1 DEF Register, WorkerSkip
    <3>3. \A e \in Docs, f \in Facets, empty \in BOOLEAN : ~WorkerStart(e, f, empty)
      BY <1>3, <2>1 DEF WorkerStart
    <3>4. ASSUME NEW q \in Requests, NEW e \in Docs, DeleteStart(q, e)  PROVE FALSE
      <4>1. q # r
        BY <2>1, <3>4 DEF DeleteStart
      <4> QED  BY <1>1, <1>3, <2>1, <3>4, <4>1, DeletionStarts
    <3>5. ~UNCHANGED indexVars
      BY <1>3, <2>1 DEF indexVars
    <3>6. \A q \in Requests \ {r} : ~DeleteStep(q)
      BY <1>3, <2>1, DeleteAlone
    <3> QED  BY <3>1, <3>2, <3>3, <3>4, <3>5, <3>6, IndexStepCases
  <2>3. ~DeleteFail(r)
    BY <1>1, FailureCounts
  <2>4. DeletePersist(r)
    BY <2>1, <2>2, <2>3 DEF DeleteStep, DeletePurgeDocstore, DeletePurgePoints,
       DeleteInvalidate, DeleteCommit, DeleteRead, DeleteReadNothing, At
  <2>5. docstore[d] = None /\ points[d] = None /\ requests[r].nodes = points
    BY <1>3, <2>1 DEF StoresInv, DeleteStores, RebuildInv, ReadIsCurrent
  <2> QED  BY <2>4, <2>5 DEF DeletePersist, Persisted
<1> QED  BY <1>2, <1>3 DEF Ends

\* So both indexes hold the leaves whose parents the docstore holds.
LEMMA ChangeRepairs ==
    ASSUME Overlapping = FALSE, RebuildInv, StoresInv, [IndexNext]_indexVars,
           NEW d \in Docs, Ends(d), points' # EmptyCorpus
    PROVE  bm25' # EmptyDir /\ HasParents(d)'
<1>1. bm25' = points' /\ docstore'[d] = points'[d]
  BY ChangeEnds
<1>2. points' \in Corpus
  BY ChangeEnds DEF RebuildInv, TypeInv, IndexTypeOK
<1>3. bm25' \notin {NoIndex, EmptyDir}
  BY <1>1, <1>2, IndexAssumption
<1>4. InBm25(d)' = points'[d]
  BY <1>1, <1>3 DEF InBm25
<1> QED  BY <1>1, <1>3, <1>4 DEF HasParents, Searchable

-----------------------------------------------------------------------------
(* Scopes of answers                                                         *)

\* What a cached answer quotes is within the scope it is stored under.
EntriesInScope == \A e \in cache : \A x \in e.citations : x[2].facet \in e.scope

ScopeInv == CacheTypeOK /\ EntriesInScope /\ AnswersInScope

\* Initially there are no entries and no chats.
LEMMA ScopeInit == Init => ScopeInv
  BY CacheAssumption DEF Init, ScopeInv, CacheTypeOK, EntriesInScope, AnswersInScope

\* An invalidation only removes entries.
LEMMA ScopeShrinks ==
  ASSUME ScopeInv, cache' \in SUBSET cache, UNCHANGED <<chats, chatBudget>>
  PROVE  ScopeInv'
  BY DEF ScopeInv, CacheTypeOK, EntriesInScope, AnswersInScope

\* A chat that starts takes over the citations of an entry of its own scope.
LEMMA ScopeAsk ==
  ASSUME ScopeInv, NEW c \in Chats, NEW q \in Questions, NEW s \in Scopes, Ask(c, q, s)
  PROVE  ScopeInv'
<1>1. chatBudget' \in [asked : 0 .. MaxChats, expired : 0 .. MaxExpired]
  BY CacheAssumption DEF Ask, ScopeInv, CacheTypeOK
<1>2. PICK C \in SUBSET Citation, at \in {"hit", "missed"} :
        /\ \A x \in C : x[2].facet \in s
        /\ chats' = [chats EXCEPT ![c] = NewChat(at, q, s, C)]
  <2>1. CASE \E e \in Matches(q, s) :
               chats' = [chats EXCEPT ![c] = NewChat("hit", q, s, e.citations)]
    <3>1. PICK e \in Matches(q, s) :
            chats' = [chats EXCEPT ![c] = NewChat("hit", q, s, e.citations)]
      BY <2>1
    <3>2. e \in cache /\ e \in Entry /\ e.scope = s
      BY DEF Matches, ScopeInv, CacheTypeOK
    <3>3. e.citations \in SUBSET Citation
      BY <3>2 DEF Entry
    <3>4. \A x \in e.citations : x[2].facet \in s
      BY <3>2 DEF ScopeInv, EntriesInScope
    <3> QED  BY <3>1, <3>3, <3>4
  <2>2. CASE chats' = [chats EXCEPT ![c] = NewChat("missed", q, s, {})]
    BY <2>2
  <2> QED  BY <2>1, <2>2 DEF Ask
<1>3. NewChat(at, q, s, C) \in Chat
  BY <1>2 DEF NewChat, Chat
<1>4. chats' \in [Chats -> Chat \union {Idle}]
  BY <1>2, <1>3 DEF ScopeInv, CacheTypeOK
<1>5. cache' = cache
  BY DEF Ask
<1>6. AnswersInScope'
  <2> SUFFICES ASSUME NEW d \in Chats, chats'[d] # Idle, NEW x \in chats'[d].citations
               PROVE  x[2].facet \in chats'[d].scope
    BY DEF AnswersInScope
  <2>1. CASE d = c
    BY <2>1, <1>2 DEF NewChat, ScopeInv, CacheTypeOK
  <2>2. CASE d # c
    BY <2>2, <1>2 DEF ScopeInv, CacheTypeOK, AnswersInScope
  <2> QED  BY <2>1, <2>2
<1> QED  BY <1>1, <1>4, <1>5, <1>6 DEF ScopeInv, CacheTypeOK, EntriesInScope

\* Retrieval returns leaves of the chat's scope.
LEMMA ScopeRetrieve ==
  ASSUME ScopeInv, NEW c \in Chats, Retrieve(c)
  PROVE  ScopeInv'
<1>1. chats[c] \in Chat /\ chats[c] # Idle
  BY DEF Retrieve, ChatAt, ScopeInv, CacheTypeOK
<1>2. PICK kept \in SUBSET WithParents(chats[c].scope) :
        chats' = [chats EXCEPT ![c].at = "streaming", ![c].citations = kept]
  BY DEF Retrieve
<1>3. kept \in SUBSET Citation /\ \A x \in kept : x[2].facet \in chats[c].scope
  BY <1>2 DEF Leaves, WithParents
<1>4. chats' = [chats EXCEPT ![c] = [chats[c] EXCEPT !.at = "streaming", !.citations = kept]]
  BY <1>1, <1>2 DEF Chat, ScopeInv, CacheTypeOK
<1>5. [chats[c] EXCEPT !.at = "streaming", !.citations = kept] \in Chat
  BY <1>1, <1>3 DEF Chat
<1>6. chats' \in [Chats -> Chat \union {Idle}]
  BY <1>4, <1>5 DEF ScopeInv, CacheTypeOK
<1>7. AnswersInScope'
  <2> SUFFICES ASSUME NEW d \in Chats, chats'[d] # Idle, NEW x \in chats'[d].citations
               PROVE  x[2].facet \in chats'[d].scope
    BY DEF AnswersInScope
  <2>1. CASE d = c
    <3>1. chats'[c].citations = kept /\ chats'[c].scope = chats[c].scope
      BY <1>1, <1>4 DEF Chat, ScopeInv, CacheTypeOK
    <3> QED  BY <2>1, <3>1, <1>3
  <2>2. CASE d # c
    BY <2>2, <1>4 DEF ScopeInv, CacheTypeOK, AnswersInScope
  <2> QED  BY <2>1, <2>2
<1> QED  BY <1>6, <1>7 DEF Retrieve, ScopeInv, CacheTypeOK, EntriesInScope

\* A chat that ends leaves the others as they are.
LEMMA ScopeEnd ==
  ASSUME ScopeInv, NEW c \in Chats, chats' = [chats EXCEPT ![c] = Idle],
         UNCHANGED <<cache, chatBudget>>
  PROVE  ScopeInv'
  BY DEF ScopeInv, CacheTypeOK, EntriesInScope, AnswersInScope

\* The stored entry carries the citations and the scope of its chat.
LEMMA ScopeStore ==
  ASSUME ScopeInv, NEW c \in Chats, Store(c)
  PROVE  ScopeInv'
<1> DEFINE new == [question |-> chats[c].question, scope |-> chats[c].scope,
                   citations |-> chats[c].citations, expired |-> FALSE]
<1>1. chats[c] \in Chat /\ chats[c] # Idle
  BY DEF Store, ChatAt, ScopeInv, CacheTypeOK
<1>2. new \in Entry
  BY <1>1 DEF Chat, Entry
<1>3. \A x \in new.citations : x[2].facet \in new.scope
  BY <1>1 DEF ScopeInv, AnswersInScope
<1>4. cache' = cache \union {new}
  BY DEF Store
<1>5. chats' = [chats EXCEPT ![c] = Idle] /\ chatBudget' = chatBudget
  BY DEF Store
<1>6. cache' \in SUBSET Entry /\ EntriesInScope'
  BY <1>2, <1>3, <1>4 DEF ScopeInv, CacheTypeOK, EntriesInScope
<1> QED  BY <1>5, <1>6 DEF ScopeInv, CacheTypeOK, AnswersInScope

\* An entry that expires quotes what it quoted.
LEMMA ScopeExpire ==
  ASSUME ScopeInv, NEW e \in cache, Expire(e)
  PROVE  ScopeInv'
<1> DEFINE old == [e EXCEPT !.expired = TRUE]
<1>1. e \in Entry
  BY DEF ScopeInv, CacheTypeOK
<1>2. old \in Entry /\ old.citations = e.citations /\ old.scope = e.scope
  BY <1>1 DEF Entry
<1>3. cache' = (cache \ {e}) \union {old}
  BY DEF Expire
<1>4. cache' \in SUBSET Entry /\ EntriesInScope'
  BY <1>2, <1>3 DEF ScopeInv, CacheTypeOK, EntriesInScope
<1>5. chatBudget' \in [asked : 0 .. MaxChats, expired : 0 .. MaxExpired]
  BY CacheAssumption DEF Expire, ScopeInv, CacheTypeOK
<1>6. chats' = chats
  BY DEF Expire
<1> QED  BY <1>4, <1>5, <1>6 DEF ScopeInv, CacheTypeOK, AnswersInScope

\* Every step keeps chats and entries within their scopes.
LEMMA ScopeStep == ScopeInv /\ [Next]_vars => ScopeInv'
<1> SUFFICES ASSUME ScopeInv, [Next]_vars  PROVE  ScopeInv'
  OBVIOUS
<1>1. CASE StoreNext /\ UNCHANGED cacheVars
  BY <1>1, ScopeShrinks DEF cacheVars
<1>2. CASE InvalidateByWorker
  BY <1>2, ScopeShrinks DEF InvalidateByWorker, Without
<1>3. CASE \E r \in Requests : InvalidateByDelete(r)
  BY <1>3, ScopeShrinks DEF InvalidateByDelete, Without
<1>4. ASSUME NEW c \in Chats,
             \/ \E q \in Questions, s \in Scopes : Ask(c, q, s)
             \/ Retrieve(c) \/ RetrieveRaises(c) \/ Store(c) \/ Leave(c)
      PROVE  ScopeInv'
  BY <1>4, ScopeAsk, ScopeRetrieve, ScopeStore, ScopeEnd DEF RetrieveRaises, Leave
<1>5. CASE \E e \in cache : Expire(e)
  BY <1>5, ScopeExpire
<1>6. CASE UNCHANGED vars
  BY <1>6, ScopeShrinks DEF vars, cacheVars
<1> QED  BY <1>1, <1>2, <1>3, <1>4, <1>5, <1>6 DEF Next

\* What a chat shows quotes only text its request may see, whoever the answer
\* was made for and whatever the documents' facets become (lookup, store,
\* build_metadata_filters, node_matches_filters).
THEOREM AnswersInScopeHolds == Spec => []AnswersInScope
<1>1. Init => ScopeInv
  BY ScopeInit
<1>2. ScopeInv /\ [Next]_vars => ScopeInv'
  BY ScopeStep
<1>3. ScopeInv => AnswersInScope
  BY DEF ScopeInv
<1> QED  BY <1>1, <1>2, <1>3, PTL DEF Spec

-----------------------------------------------------------------------------
(* Chats and changes that take turns                                         *)

\* Some cached answer quotes d.
Cited(d) == \E e \in cache : \E x \in e.citations : x[1] = d

\* After its purge, or its first ingestion's start, no answer quotes a document
\* until the change has ended.
ChangedUncited ==
    /\ worker # Idle /\ worker.at \in {"store", "upsert", "read", "persist"} =>
           ~Cited(worker.doc)
    /\ \A r \in Requests :
           requests[r] # Idle /\ requests[r].at \in {"commit", "read", "persist"} =>
               ~Cited(requests[r].doc)

CitedHaveBegun ==
    /\ \A e \in cache : \A x \in e.citations : newest[x[1]] # 0
    /\ \A c \in Chats : chats[c] # Idle => \A x \in chats[c].citations : newest[x[1]] # 0

RefreshInv ==
    /\ TypeInv /\ CacheTypeOK /\ Begun
    /\ NoChats \/ Quiet
    /\ CitedHaveBegun
    /\ ChangedUncited

\* What a chat is about to show or store is what the vector store holds.
ChatsAreCurrent == NothingFailed =>
    \A c \in Chats : chats[c] # Idle => \A x \in chats[c].citations : x[2] = points[x[1]]

CachedInv == CurrentInv /\ RefreshInv /\ CachedIsCurrent /\ ChatsAreCurrent

\* Every step is one of SearchIndex or leaves what it keeps alone.
LEMMA IndexSimulation == ASSUME [Next]_vars PROVE [IndexNext]_indexVars
<1>1. StoreNext => IndexNext
  BY DEF IndexNext
<1>2. InvalidateByWorker => IndexNext
  BY DEF InvalidateByWorker, IndexNext
<1>3. (\E r \in Requests : InvalidateByDelete(r)) => IndexNext
  BY DEF InvalidateByDelete, IndexNext
<1>4. ASSUME NEW c \in Chats,
             \/ \E q \in Questions, s \in Scopes : Ask(c, q, s)
             \/ Retrieve(c) \/ RetrieveRaises(c) \/ Store(c) \/ Leave(c)
      PROVE  UNCHANGED indexVars
  BY <1>4 DEF Ask, Retrieve, RetrieveRaises, Store, Leave
<1>5. ASSUME NEW e \in cache, Expire(e)  PROVE UNCHANGED indexVars
  BY <1>5 DEF Expire
<1> QED  BY <1>1, <1>2, <1>3, <1>4, <1>5 DEF Next, vars

\* Quiet: no change is anywhere, so what is said of those under way holds.
LEMMA QuietUncited ==
    ASSUME Quiet
    PROVE  ChangedUncited /\ \A d \in Docs : ~Invalidating(d)
  BY DEF Quiet, NoRequests, ChangedUncited, Invalidating, WorkerAt

\* A chat runs only while nothing changes.
LEMMA ChatIsQuiet ==
    ASSUME RefreshInv, NEW c \in Chats, chats[c] # Idle
    PROVE  Quiet
  BY DEF RefreshInv, NoChats

\* A change of documents, while no chat runs.
LEMMA RefreshStore ==
    ASSUME RefreshInv, NoChats, StoreNext, UNCHANGED cacheVars, TypeInv', CacheTypeOK', Begun'
    PROVE  RefreshInv'
<1>1. /\ NoChats' /\ chats' = chats /\ cache' = cache
      /\ \A d \in Docs : newest[d] # 0 => newest'[d] # 0
  BY BegunStep DEF cacheVars, NoChats, RefreshInv, IndexNext
<1>2. CitedHaveBegun'
  <2>1. \A e \in cache : \A x \in e.citations : x[1] \in Docs
    BY DEF RefreshInv, CacheTypeOK, Entry, Citation
  <2> QED  BY <1>1, <2>1 DEF RefreshInv, CitedHaveBegun, NoChats
<1>3. ASSUME worker' # Idle, worker'.at \in {"store", "upsert", "read", "persist"}
      PROVE  ~Cited(worker'.doc)
  <2>1. CASE worker' = worker
    BY <1>3, <2>1 DEF RefreshInv, ChangedUncited
  <2>2. ASSUME NEW d \in Docs, NEW f \in Facets, NEW empty \in BOOLEAN,
               WorkerStart(d, f, empty)
        PROVE  ~Cited(worker'.doc)
    <3>1. newest[d] = 0 /\ worker'.doc = d
      BY <1>3, <2>2 DEF WorkerStart, Dequeue
    <3> QED  BY <3>1 DEF RefreshInv, CitedHaveBegun, Cited
  <2>3. CASE \/ WorkerPurgeDocstore \/ WorkerPurgePoints \/ WorkerStore \/ WorkerUpsert
             \/ WorkerRead \/ WorkerPersist \/ WorkerFail
    <3>1. worker \in Task /\ worker # Idle
      BY <2>3 DEF RefreshInv, TypeInv, IndexTypeOK, WorkerPurgeDocstore,
         WorkerPurgePoints, WorkerStore, WorkerUpsert, WorkerRead, WorkerPersist, WorkerFail,
         WorkerAt
    <3>2. CASE WorkerPurgeDocstore \/ WorkerPurgePoints
      BY <1>3, <3>1, <3>2, TaskAt DEF WorkerPurgeDocstore, WorkerPurgePoints, WorkerGoto,
         WorkerStage
    <3>3. CASE WorkerStore \/ WorkerUpsert
      <4>1. worker'.doc = worker.doc
        <5>1. \E stage \in WorkerStage : worker' = [worker EXCEPT !.at = stage]
          BY <3>3 DEF WorkerStore, WorkerUpsert, WorkerGoto, WorkerStage
        <5> QED  BY <3>1, <5>1, TaskAt
      <4>2. worker.at \in {"store", "upsert"}
        BY <3>3 DEF WorkerStore, WorkerUpsert, WorkerAt
      <4> QED  BY <3>1, <4>1, <4>2 DEF RefreshInv, ChangedUncited
    <3>4. CASE WorkerRead
      <4>1. worker'.doc = worker.doc
        BY <3>1, <3>4 DEF WorkerRead, Task
      <4> QED  BY <3>4, <4>1 DEF WorkerRead, WorkerAt, RefreshInv, ChangedUncited
    <3> QED  BY <1>3, <2>3, <3>2, <3>3, <3>4 DEF WorkerPersist, WorkerFail
  <2> QED
    BY <2>1, <2>2, <2>3 DEF StoreNext, Register, WorkerSkip, DeleteStart, DeletePurgeDocstore,
       DeletePurgePoints, DeleteCommit, DeleteRead, DeleteReadNothing, DeletePersist, DeleteFail
<1>4. ASSUME NEW q \in Requests, requests'[q] # Idle,
             requests'[q].at \in {"commit", "read", "persist"}
      PROVE  ~Cited(requests'[q].doc)
  <2>1. CASE requests'[q] = requests[q]
    BY <1>4, <2>1 DEF RefreshInv, ChangedUncited
  <2>2. ASSUME NEW r \in Requests, NEW d \in Docs, DeleteStart(r, d)
        PROVE  ~Cited(requests'[q].doc)
    BY <1>4, <2>1, <2>2, DeletionStarts DEF RefreshInv
  <2>3. ASSUME NEW r \in Requests,
               \/ DeletePurgeDocstore(r) \/ DeletePurgePoints(r) \/ DeleteCommit(r)
               \/ DeleteRead(r) \/ DeleteReadNothing(r) \/ DeletePersist(r) \/ DeleteFail(r)
        PROVE  ~Cited(requests'[q].doc)
    <3>1. requests[r] \in Deletion /\ requests[r] # Idle
      BY <2>3 DEF RefreshInv, TypeInv, IndexTypeOK, DeletePurgeDocstore,
         DeletePurgePoints, DeleteCommit, DeleteRead, DeleteReadNothing, DeletePersist,
         DeleteFail, At
    <3>2. PICK new : requests' = [requests EXCEPT ![r] = new]
      BY <2>3 DEF DeletePurgeDocstore, DeletePurgePoints, DeleteCommit, DeleteRead,
         DeleteReadNothing, DeletePersist, DeleteFail, Goto
    <3>3. CASE q # r
      BY <2>1, <3>2, <3>3 DEF RefreshInv, TypeInv, IndexTypeOK
    <3>4. CASE q = r
      <4>1. requests'[r] = new
        BY <3>2 DEF RefreshInv, TypeInv, IndexTypeOK
      <4>2. CASE DeletePurgeDocstore(r) \/ DeletePurgePoints(r)
        <5>1. \E stage \in {"purgePoints", "invalidate"} :
                requests' = [requests EXCEPT ![r] = [requests[r] EXCEPT !.at = stage]]
          BY <4>2 DEF DeletePurgeDocstore, DeletePurgePoints, Goto
        <5>2. requests'[r].at \in {"purgePoints", "invalidate"}
          BY <3>1, <5>1, DeletionAt DEF DeleteStage, RefreshInv, TypeInv, IndexTypeOK
        <5> QED  BY <1>4, <3>4, <5>2
      <4>3. CASE DeleteCommit(r)
        <5>1. requests'[r].doc = requests[r].doc
          BY <3>1, <4>3, DeletionAt DEF DeleteCommit, Goto, DeleteStage, RefreshInv, TypeInv,
             IndexTypeOK
        <5> QED  BY <3>4, <4>3, <5>1 DEF DeleteCommit, At, RefreshInv, ChangedUncited
      <4>4. CASE DeleteRead(r)
        <5>1. requests'[r].doc = requests[r].doc
          BY <3>1, <4>4 DEF DeleteRead, Deletion, RefreshInv, TypeInv, IndexTypeOK
        <5> QED  BY <3>4, <4>4, <5>1 DEF DeleteRead, At, RefreshInv, ChangedUncited
      <4>5. CASE DeleteReadNothing(r) \/ DeletePersist(r) \/ DeleteFail(r)
        BY <1>4, <3>4, <4>5 DEF DeleteReadNothing, DeletePersist, DeleteFail, RefreshInv,
           TypeInv, IndexTypeOK
      <4> QED  BY <2>3, <4>2, <4>3, <4>4, <4>5
    <3> QED  BY <3>3, <3>4
  <2> QED
    BY <2>1, <2>2, <2>3 DEF StoreNext, Register, WorkerSkip, WorkerStart, WorkerPurgeDocstore,
       WorkerPurgePoints, WorkerStore, WorkerUpsert, WorkerRead, WorkerPersist, WorkerFail
<1> QED
  BY <1>1, <1>2, <1>3, <1>4 DEF RefreshInv, ChangedUncited, Cited

\* What is quoted by an answer or a chat, or is what the docstore holds.
Quoted(C) ==
    \/ \E e \in cache : C = e.citations
    \/ \E c \in Chats : chats[c] # Idle /\ C = chats[c].citations
    \/ \A x \in C : x \in Citation /\ docstore[x[1]] = x[2]

ChatStep(c) ==
    \/ \E q \in Questions, s \in Scopes : Ask(c, q, s)
    \/ Retrieve(c) \/ RetrieveRaises(c) \/ Store(c) \/ Leave(c)

\* A chat's step writes nothing that was not quoted before or just retrieved.
LEMMA ChatQuotes ==
    ASSUME CacheTypeOK, NEW c \in Chats, ChatStep(c)
    PROVE  /\ \A e \in cache' : Quoted(e.citations)
           /\ \A k \in Chats : chats'[k] # Idle => Quoted(chats'[k].citations)
<1>1. ASSUME NEW q \in Questions, NEW s \in Scopes, Ask(c, q, s)
      PROVE  /\ \A e \in cache' : Quoted(e.citations)
             /\ \A k \in Chats : chats'[k] # Idle => Quoted(chats'[k].citations)
  <2>1. PICK C, at : chats' = [chats EXCEPT ![c] = NewChat(at, q, s, C)] /\ Quoted(C)
    <3>1. CASE \E e \in Matches(q, s) :
                 chats' = [chats EXCEPT ![c] = NewChat("hit", q, s, e.citations)]
      <4>1. PICK e \in Matches(q, s) :
              chats' = [chats EXCEPT ![c] = NewChat("hit", q, s, e.citations)]
        BY <3>1
      <4>2. Quoted(e.citations)
        BY DEF Matches, Quoted
      <4> QED  BY <4>1, <4>2
    <3>2. CASE chats' = [chats EXCEPT ![c] = NewChat("missed", q, s, {})]
      <4>1. Quoted({})
        BY DEF Quoted
      <4> QED  BY <3>2, <4>1
    <3> QED  BY <1>1, <3>1, <3>2 DEF Ask
  <2>2. ASSUME NEW k \in Chats, chats'[k] # Idle  PROVE Quoted(chats'[k].citations)
    <3>1. CASE k = c
      BY <2>1, <3>1 DEF NewChat, CacheTypeOK
    <3>2. CASE k # c
      BY <2>1, <2>2, <3>2 DEF CacheTypeOK, Quoted
    <3> QED  BY <3>1, <3>2
  <2> QED  BY <1>1, <2>2 DEF Ask, Quoted
<1>2. CASE Retrieve(c)
  <2>1. PICK kept \in SUBSET WithParents(chats[c].scope) :
          chats' = [chats EXCEPT ![c].at = "streaming", ![c].citations = kept]
    BY <1>2 DEF Retrieve
  <2>2. chats[c] \in Chat /\ chats[c] # Idle
    BY <1>2 DEF Retrieve, ChatAt, CacheTypeOK
  <2>3. chats' = [chats EXCEPT ![c] = [chats[c] EXCEPT !.at = "streaming", !.citations = kept]]
    BY <2>1, <2>2 DEF Chat, CacheTypeOK
  <2>4. Quoted(kept)
    BY <2>1 DEF WithParents, Leaves, Quoted
  <2>5. ASSUME NEW k \in Chats, chats'[k] # Idle  PROVE Quoted(chats'[k].citations)
    <3>1. CASE k = c
      BY <2>2, <2>3, <2>4, <3>1 DEF Chat, CacheTypeOK
    <3>2. CASE k # c
      BY <2>3, <2>5, <3>2 DEF CacheTypeOK, Quoted
    <3> QED  BY <3>1, <3>2
  <2> QED  BY <1>2, <2>5 DEF Retrieve, Quoted
<1>3. CASE RetrieveRaises(c) \/ Store(c) \/ Leave(c)
  <2>1. chats' = [chats EXCEPT ![c] = Idle]
    BY <1>3 DEF RetrieveRaises, Store, Leave
  <2>2. \A k \in Chats : chats'[k] # Idle => chats'[k] = chats[k]
    BY <2>1 DEF CacheTypeOK
  <2>3. \A e \in cache' : Quoted(e.citations)
    <3>1. CASE Store(c)
      BY <3>1 DEF Store, ChatAt, Quoted
    <3>2. CASE RetrieveRaises(c) \/ Leave(c)
      BY <3>2 DEF RetrieveRaises, Leave, Quoted
    <3> QED  BY <1>3, <3>1, <3>2
  <2> QED  BY <2>2, <2>3 DEF Quoted
<1> QED  BY <1>1, <1>2, <1>3 DEF ChatStep

\* An entry that expires quotes what it quoted.
LEMMA ExpireQuotes ==
    ASSUME CacheTypeOK, NEW e \in cache, Expire(e)
    PROVE  \A f \in cache' : \E g \in cache : f.citations = g.citations
<1>1. [e EXCEPT !.expired = TRUE].citations = e.citations
  BY DEF CacheTypeOK, Entry
<1> QED  BY <1>1 DEF Expire

\* A chat and a change of documents exclude each other.
LEMMA ChatStepIsQuiet ==
    ASSUME ChatsOverlap = FALSE, RefreshInv, NEW c \in Chats, ChatStep(c)
    PROVE  Quiet /\ Quiet' /\ UNCHANGED indexVars
<1>1. Quiet
  BY ChatIsQuiet DEF ChatStep, Ask, Retrieve, RetrieveRaises, Store, Leave, ChatAt
<1>2. UNCHANGED indexVars
  BY DEF ChatStep, Ask, Retrieve, RetrieveRaises, Store, Leave
<1> QED  BY <1>1, <1>2 DEF Quiet, NoRequests, indexVars

\* A chat's step, while nothing changes.
LEMMA RefreshChat ==
    ASSUME ChatsOverlap = FALSE, RefreshInv, NEW c \in Chats, ChatStep(c),
           TypeInv', CacheTypeOK', Begun'
    PROVE  RefreshInv'
<1>1. Quiet /\ Quiet' /\ UNCHANGED indexVars
  BY ChatStepIsQuiet
<1>2. ChangedUncited'
  BY <1>1 DEF Quiet, NoRequests, ChangedUncited
<1>3. ASSUME NEW C, Quoted(C), NEW x \in C  PROVE newest[x[1]] # 0
  <2>1. CASE \E e \in cache : C = e.citations
    BY <1>3, <2>1 DEF RefreshInv, CitedHaveBegun
  <2>2. CASE \E k \in Chats : chats[k] # Idle /\ C = chats[k].citations
    BY <1>3, <2>2 DEF RefreshInv, CitedHaveBegun
  <2>3. CASE \A y \in C : y \in Citation /\ docstore[y[1]] = y[2]
    <3>1. x[1] \in Docs /\ docstore[x[1]] # None
      BY <1>3, <2>3, IndexAssumption DEF Citation
    <3> QED  BY <3>1 DEF RefreshInv, Begun
  <2> QED  BY <1>3, <2>1, <2>2, <2>3 DEF Quoted
<1>4. CitedHaveBegun'
  <2>1. newest' = newest
    BY <1>1 DEF indexVars
  <2> QED  BY <1>3, <2>1, ChatQuotes DEF RefreshInv, CitedHaveBegun
<1> QED  BY <1>1, <1>2, <1>4 DEF RefreshInv

\* The last call of a purge drops the answers that quote the document.
LEMMA WithoutUncites ==
    ASSUME NEW d, cache' = Without(d)
    PROVE  ~Cited(d)' /\ cache' \subseteq cache
  BY DEF Without, Cited

LEMMA RefreshInvalidate ==
    ASSUME RefreshInv, InvalidateByWorker \/ \E r \in Requests : InvalidateByDelete(r),
           TypeInv', CacheTypeOK', Begun'
    PROVE  RefreshInv'
<1>1. NoChats /\ NoChats' /\ chats' = chats /\ newest' = newest
  BY DEF RefreshInv, NoChats, Quiet, NoRequests, InvalidateByWorker, InvalidateByDelete,
     WorkerInvalidate, DeleteInvalidate, WorkerAt, At
<1>2. CASE InvalidateByWorker
  <2>1. worker \in Task /\ requests' = requests
    BY <1>2 DEF InvalidateByWorker, WorkerInvalidate, WorkerAt, RefreshInv, TypeInv, IndexTypeOK
  <2>2. worker'.doc = worker.doc
    BY <1>2, <2>1, TaskAt DEF InvalidateByWorker, WorkerInvalidate, WorkerGoto, WorkerStage
  <2>3. ~Cited(worker.doc)' /\ cache' \subseteq cache
    <3> DEFINE d == worker.doc
    <3>1. cache' = Without(d)
      BY <1>2 DEF InvalidateByWorker
    <3> HIDE DEF d
    <3>2. cache' \subseteq cache /\ \A e \in cache' : \A x \in e.citations : x[1] # d
      BY <3>1 DEF Without
    <3>3. ~(\E e \in cache' : \E x \in e.citations : x[1] = worker'.doc)
      BY <2>2, <3>2 DEF d
    <3> QED  BY <3>2, <3>3 DEF Cited
  <2>4. ChangedUncited'
    BY <2>1, <2>2, <2>3 DEF RefreshInv, ChangedUncited, Cited
  <2> QED  BY <1>1, <2>3, <2>4 DEF RefreshInv, CitedHaveBegun, NoChats
<1>3. ASSUME NEW r \in Requests, InvalidateByDelete(r)  PROVE RefreshInv'
  <2> DEFINE d == requests[r].doc
  <2>1. requests[r] \in Deletion /\ worker' = worker /\ cache' = Without(d)
    BY <1>3 DEF InvalidateByDelete, DeleteInvalidate, At, RefreshInv, TypeInv, IndexTypeOK
  <2>2. requests' = [requests EXCEPT ![r] = [requests[r] EXCEPT !.at = "commit"]]
    BY <1>3 DEF InvalidateByDelete, DeleteInvalidate, Goto
  <2>3. /\ requests'[r].doc = d
        /\ \A q \in Requests \ {r} : requests'[q] = requests[q]
    BY <2>1, <2>2, DeletionAt DEF DeleteStage, RefreshInv, TypeInv, IndexTypeOK
  <2> HIDE DEF d
  <2>4. cache' \subseteq cache /\ \A e \in cache' : \A x \in e.citations : x[1] # d
    BY <2>1 DEF Without
  <2>5. ASSUME NEW q \in Requests, requests'[q] # Idle,
               requests'[q].at \in {"commit", "read", "persist"}
        PROVE  ~Cited(requests[q].doc)'
    <3>1. CASE q = r
      BY <2>3, <2>4, <3>1 DEF Cited
    <3>2. CASE q # r
      BY <2>3, <2>4, <2>5, <3>2 DEF RefreshInv, ChangedUncited, Cited
    <3> QED  BY <3>1, <3>2
  <2>6. worker' # Idle /\ worker'.at \in {"store", "upsert", "read", "persist"} =>
            ~Cited(worker.doc)'
    BY <2>1, <2>4 DEF RefreshInv, ChangedUncited, Cited
  <2>7. ChangedUncited'
    BY <2>5, <2>6 DEF ChangedUncited
  <2> QED  BY <1>1, <2>4, <2>7 DEF RefreshInv, CitedHaveBegun, NoChats
<1> QED  BY <1>2, <1>3

LEMMA RefreshExpire ==
    ASSUME RefreshInv, NEW e \in cache, Expire(e), TypeInv', CacheTypeOK', Begun'
    PROVE  RefreshInv'
<1>1. chats' = chats /\ UNCHANGED indexVars
  BY DEF Expire
<1>2. \A f \in cache' : \E g \in cache : f.citations = g.citations
  BY ExpireQuotes DEF RefreshInv
<1>3. ASSUME NEW d, Cited(d)'  PROVE Cited(d)
  BY <1>2, <1>3 DEF Cited
<1>4. ChangedUncited'
  BY <1>1, <1>2 DEF indexVars, RefreshInv, ChangedUncited, Cited
<1>5. CitedHaveBegun'
  BY <1>1, <1>2 DEF indexVars, RefreshInv, CitedHaveBegun
<1> QED  BY <1>1, <1>4, <1>5 DEF indexVars, RefreshInv, NoChats, Quiet, NoRequests

\* The steps of the next-state relation, grouped as the lemmas are.
LEMMA StepCases ==
    ASSUME [Next]_vars
    PROVE  \/ (ChatsOverlap \/ NoChats) /\ StoreNext /\ UNCHANGED cacheVars
           \/ InvalidateByWorker \/ \E r \in Requests : InvalidateByDelete(r)
           \/ \E c \in Chats : ChatStep(c)
           \/ \E e \in cache : Expire(e)
           \/ UNCHANGED vars
  BY DEF Next, ChatStep

LEMMA RefreshStep ==
    ASSUME ChatsOverlap = FALSE, RefreshInv, ScopeInv, [Next]_vars
    PROVE  RefreshInv'
<1>1. TypeInv' /\ Begun'
  BY IndexSimulation, TypeStep, BegunStep DEF RefreshInv
<1>2. CacheTypeOK'
  BY ScopeStep DEF ScopeInv
<1>3. CASE UNCHANGED vars
  BY <1>3 DEF vars, indexVars, cacheVars, RefreshInv, TypeInv, IndexTypeOK, Counted, CacheTypeOK,
     Begun, NoChats, Quiet, NoRequests, CitedHaveBegun, ChangedUncited, Cited
<1> QED
  BY <1>1, <1>2, <1>3, StepCases, RefreshStore, RefreshInvalidate, RefreshChat, RefreshExpire

LEMMA RefreshInit == Init => RefreshInv
<1> SUFFICES ASSUME Init  PROVE RefreshInv
  OBVIOUS
<1>1. TypeInv /\ Begun
  BY TypeInit, CurrentInit DEF Init, CurrentInv
<1>2. CacheTypeOK
  BY ScopeInit DEF ScopeInv
<1> QED  BY <1>1, <1>2 DEF Init, IndexInit, RefreshInv, NoChats, CitedHaveBegun, ChangedUncited

-----------------------------------------------------------------------------
(* Cached answers are current, when nothing overlaps and nothing failed      *)

\* A change takes the leaves of a document that is quoted out of the vector
\* store only by going on to drop its answers.
LEMMA PointsOfCited ==
    ASSUME Overlapping = FALSE, RebuildInv, RefreshInv, StoreNext, NothingFailed',
           NEW d \in Docs, Cited(d)
    PROVE  Invalidating(d)' \/ (points'[d] = points[d] /\ ~Invalidating(d))
<1>1. /\ [IndexNext]_indexVars /\ points \in [Docs -> MaybeGeneration]
      /\ ~(budget'.errors < budget.errors)
  <2>1. [IndexNext]_indexVars
    BY DEF IndexNext
  <2>2. TypeInv /\ TypeInv'
    BY <2>1, TypeStep DEF RebuildInv
  <2>3. budget'.errors = budget.errors
    BY <2>1, <2>2, FailureRemains DEF NothingFailed
  <2>4. points \in [Docs -> MaybeGeneration] /\ budget.errors \in Nat
    BY <2>2, IndexAssumption DEF TypeInv, IndexTypeOK, Corpus
  <2> QED  BY <2>1, <2>3, <2>4
<1>2. ASSUME NEW e \in Docs, Register(e) \/ WorkerSkip(e)
      PROVE  Invalidating(d)' \/ (points'[d] = points[d] /\ ~Invalidating(d))
  BY <1>2 DEF Register, WorkerSkip, Invalidating, WorkerAt
<1>3. ASSUME NEW e \in Docs, NEW f \in Facets, NEW empty \in BOOLEAN,
             WorkerStart(e, f, empty)
      PROVE  points'[d] = points[d] /\ ~Invalidating(d)
  BY <1>3 DEF WorkerStart, Dequeue, Invalidating, WorkerAt, NoRequests
<1>4. CASE WorkerPurgeDocstore \/ WorkerPurgePoints \/ WorkerStore \/ WorkerUpsert
            \/ WorkerRead \/ WorkerPersist \/ WorkerFail
  <2>1. worker \in Task /\ worker # Idle /\ NoRequests
    BY <1>4, WorkerAlone DEF WorkerStep
  <2>2. ~WorkerFail
    BY <1>1, FailureCounts DEF RebuildInv
  <2>3. ~Invalidating(d)
    <3>1. worker.at # "invalidate"
      BY <1>4, <2>2 DEF WorkerStep, WorkerPurgeDocstore, WorkerPurgePoints, WorkerStore,
         WorkerUpsert, WorkerRead, WorkerPersist, WorkerAt
    <3> QED  BY <2>1, <3>1 DEF Invalidating, WorkerAt, NoRequests
  <2>4. CASE WorkerPurgePoints
    <3>1. CASE d = worker.doc
      <4>1. worker'.at = "invalidate" /\ worker'.doc = worker.doc /\ worker' # Idle
        <5>1. worker' = [worker EXCEPT !.at = "invalidate"]
          BY <2>4 DEF WorkerPurgePoints, WorkerGoto
        <5>2. "invalidate" \in WorkerStage
          BY DEF WorkerStage
        <5>3. worker' \in Task /\ worker'.at = "invalidate" /\ worker'.doc = worker.doc
          BY <2>1, <5>1, <5>2, TaskAt
        <5> QED  BY <5>3, IndexAssumption
      <4> QED  BY <3>1, <4>1 DEF Invalidating, WorkerAt
    <3>2. CASE d # worker.doc
      BY <1>1, <2>3, <2>4, <3>2 DEF WorkerPurgePoints
    <3> QED  BY <3>1, <3>2
  <2>5. CASE WorkerUpsert
    <3>1. ~Cited(worker.doc)
      BY <2>5 DEF WorkerUpsert, WorkerAt, RefreshInv, ChangedUncited
    <3>2. d # worker.doc
      BY <3>1
    <3> QED  BY <1>1, <2>3, <2>5, <3>2 DEF WorkerUpsert
  <2> QED
    BY <1>4, <2>2, <2>3, <2>4, <2>5 DEF WorkerStep, WorkerPurgeDocstore, WorkerStore, WorkerRead,
       WorkerPersist
<1>5. ASSUME NEW r \in Requests, NEW e \in Docs, DeleteStart(r, e)
      PROVE  Invalidating(d)' \/ (points'[d] = points[d] /\ ~Invalidating(d))
  <2>1. \A q \in Requests \ {r} : requests'[q] = requests[q]
    BY <1>5, DeletionStarts DEF RebuildInv
  <2> QED  BY <1>5, <2>1 DEF DeleteStart, Invalidating, WorkerAt
<1>6. ASSUME NEW r \in Requests,
             \/ DeletePurgeDocstore(r) \/ DeletePurgePoints(r) \/ DeleteCommit(r)
             \/ DeleteRead(r) \/ DeleteReadNothing(r) \/ DeletePersist(r) \/ DeleteFail(r)
      PROVE  Invalidating(d)' \/ (points'[d] = points[d] /\ ~Invalidating(d))
  <2>1. /\ requests[r] \in Deletion /\ requests[r] # Idle
        /\ worker = Idle /\ worker' = Idle
        /\ \A q \in Requests \ {r} : requests'[q] = requests[q]
    BY <1>6, DeleteAlone DEF DeleteStep
  <2>2. ~DeleteFail(r)
    BY <1>1, FailureCounts DEF RebuildInv
  <2>3. requests[r].at # "invalidate"
    BY <1>6, <2>2 DEF DeleteStep, DeletePurgeDocstore, DeletePurgePoints, DeleteCommit,
       DeleteRead, DeleteReadNothing, DeletePersist, At
  <2>4. Invalidating(d) => Invalidating(d)'
    BY <2>1, <2>3 DEF Invalidating, WorkerAt
  <2>5. CASE DeletePurgePoints(r)
    <3>1. CASE d = requests[r].doc
      <4>1. requests' = [requests EXCEPT ![r] = [requests[r] EXCEPT !.at = "invalidate"]]
        BY <2>5 DEF DeletePurgePoints, Goto
      <4>2. /\ requests'[r] \in Deletion /\ requests'[r].at = "invalidate"
            /\ requests'[r].doc = requests[r].doc
        <5> DEFINE moved == [requests[r] EXCEPT !.at = "invalidate"]
        <5>1. requests[r] \in Deletion /\ "invalidate" \in DeleteStage
          BY <2>1 DEF DeleteStage
        <5>2. moved \in Deletion /\ moved.at = "invalidate" /\ moved.doc = requests[r].doc
          BY <5>1, DeletionAt
        <5>3. requests'[r] = moved
          BY <4>1 DEF RebuildInv, TypeInv, IndexTypeOK
        <5> HIDE DEF moved
        <5> QED  BY <5>2, <5>3
      <4> QED  BY <3>1, <4>2, IndexAssumption DEF Invalidating
    <3>2. CASE d # requests[r].doc
      BY <1>1, <2>4, <2>5, <3>2 DEF DeletePurgePoints
    <3> QED  BY <3>1, <3>2
  <2> QED
    BY <1>6, <2>2, <2>4, <2>5 DEF DeleteStep, DeletePurgeDocstore, DeleteCommit, DeleteRead,
       DeleteReadNothing, DeletePersist
<1> QED
  BY <1>2, <1>3, <1>4, <1>5, <1>6 DEF StoreNext

\* Chats quote what the vector store holds, entries too: the change of a
\* document drops the entries that quote it before it stores other leaves.
LEMMA CachedStep ==
    ASSUME Overlapping = FALSE, ChatsOverlap = FALSE, CachedInv, [Next]_vars,
           CurrentInv', RefreshInv'
    PROVE  CachedIsCurrent' /\ ChatsAreCurrent'
<1>1. /\ CurrentInv /\ RebuildInv /\ RefreshInv /\ CachedIsCurrent /\ ChatsAreCurrent
      /\ TypeInv /\ CacheTypeOK
      /\ [IndexNext]_indexVars /\ (NothingFailed' => NothingFailed)
  BY IndexSimulation, FailureRemains DEF CachedInv, CurrentInv, RebuildInv, RefreshInv, NothingFailed
<1>2. \A e \in cache : \A x \in e.citations : x[1] \in Docs /\ Cited(x[1])
  BY <1>1 DEF CacheTypeOK, Entry, Citation, Cited
<1>3. CASE NoChats /\ StoreNext /\ UNCHANGED cacheVars
  <2>1. ChatsAreCurrent'
    BY <1>3 DEF cacheVars, NoChats, ChatsAreCurrent
  <2>2. ASSUME NothingFailed', NEW e \in cache', NEW x \in e.citations
        PROVE  Invalidating(x[1])' \/ x[2] = points'[x[1]]
    <3>1. e \in cache /\ x[1] \in Docs /\ Cited(x[1])
      BY <1>2, <1>3, <2>2 DEF cacheVars
    <3>2. Invalidating(x[1]) \/ x[2] = points[x[1]]
      BY <1>1, <2>2, <3>1 DEF CachedIsCurrent
    <3>3. Invalidating(x[1])' \/ (points'[x[1]] = points[x[1]] /\ ~Invalidating(x[1]))
      BY <1>1, <1>3, <2>2, <3>1, PointsOfCited
    <3> QED  BY <3>2, <3>3
  <2> QED  BY <2>1, <2>2 DEF CachedIsCurrent
<1>4. CASE InvalidateByWorker
  <2>1. /\ worker # Idle /\ NoRequests /\ UNCHANGED <<chats, points, requests>>
        /\ cache' = Without(worker.doc)
    BY <1>1, <1>4 DEF InvalidateByWorker, WorkerInvalidate, WorkerAt, RebuildInv
  <2>2. NoChats'
    BY <1>1, <2>1 DEF RefreshInv, NoChats, Quiet
  <2>3. ASSUME NothingFailed', NEW e \in cache', NEW x \in e.citations
        PROVE  x[2] = points'[x[1]]
    <3>1. e \in cache /\ x[1] # worker.doc
      BY <2>1, <2>3 DEF Without
    <3>2. ~Invalidating(x[1])
      BY <2>1, <3>1 DEF Invalidating, NoRequests
    <3> QED  BY <1>1, <2>1, <2>3, <3>1, <3>2 DEF CachedIsCurrent
  <2> QED  BY <2>2, <2>3 DEF CachedIsCurrent, ChatsAreCurrent, NoChats
<1>5. ASSUME NEW r \in Requests, InvalidateByDelete(r)
      PROVE  CachedIsCurrent' /\ ChatsAreCurrent'
  <2>1. /\ requests[r] # Idle /\ UNCHANGED <<chats, points, worker>>
        /\ cache' = Without(requests[r].doc) /\ DeleteStep(r)
    BY <1>5 DEF InvalidateByDelete, DeleteInvalidate, At, DeleteStep
  <2>2. worker = Idle /\ \A q \in Requests \ {r} : requests'[q] = requests[q]
    BY <1>1, <2>1, DeleteAlone
  <2>3. NoChats'
    BY <1>1, <2>1 DEF RefreshInv, NoChats, Quiet, NoRequests
  <2>4. ASSUME NothingFailed', NEW e \in cache', NEW x \in e.citations
        PROVE  Invalidating(x[1])' \/ x[2] = points'[x[1]]
    <3>1. e \in cache /\ x[1] # requests[r].doc
      BY <2>1, <2>4 DEF Without
    <3>2. Invalidating(x[1]) => Invalidating(x[1])'
      BY <2>1, <2>2, <3>1 DEF Invalidating, WorkerAt
    <3> QED  BY <1>1, <2>1, <2>4, <3>1, <3>2 DEF CachedIsCurrent
  <2> QED  BY <2>3, <2>4 DEF CachedIsCurrent, ChatsAreCurrent, NoChats
<1>6. ASSUME NEW c \in Chats, ChatStep(c)  PROVE CachedIsCurrent' /\ ChatsAreCurrent'
  <2>1. Quiet /\ UNCHANGED indexVars
    BY <1>1, <1>6, ChatStepIsQuiet
  <2>2. ASSUME NothingFailed, NEW C, Quoted(C), NEW x \in C  PROVE x[2] = points[x[1]]
    <3>1. CASE \E e \in cache : C = e.citations
      <4>1. ~Invalidating(x[1])
        BY <2>1 DEF Quiet, NoRequests, Invalidating, WorkerAt
      <4> QED  BY <1>1, <2>2, <3>1, <4>1 DEF CachedIsCurrent
    <3>2. CASE \E k \in Chats : chats[k] # Idle /\ C = chats[k].citations
      BY <1>1, <2>2, <3>2 DEF ChatsAreCurrent
    <3>3. CASE \A y \in C : y \in Citation /\ docstore[y[1]] = y[2]
      <4>1. x[1] \in Docs /\ docstore[x[1]] = x[2]
        BY <2>2, <3>3 DEF Citation
      <4> QED  BY <1>1, <2>1, <2>2, <4>1 DEF CurrentInv, StoresInv, HalfPurged, HalfStored,
                 Quiet, NoRequests
    <3> QED  BY <2>2, <3>1, <3>2, <3>3 DEF Quoted
  <2>3. points' = points
    BY <2>1 DEF indexVars
  <2>4. \A e \in cache' : Quoted(e.citations)
    BY <1>1, <1>6, ChatQuotes
  <2>5. \A k \in Chats : chats'[k] # Idle => Quoted(chats'[k].citations)
    BY <1>1, <1>6, ChatQuotes
  <2>6. CachedIsCurrent'
    BY <1>1, <2>2, <2>3, <2>4 DEF CachedIsCurrent, NothingFailed
  <2>7. ChatsAreCurrent'
    BY <1>1, <2>2, <2>3, <2>5 DEF ChatsAreCurrent, NothingFailed
  <2> QED  BY <2>6, <2>7
<1>7. ASSUME NEW e \in cache, Expire(e)  PROVE CachedIsCurrent' /\ ChatsAreCurrent'
  <2>1. chats' = chats /\ UNCHANGED indexVars
    BY <1>7 DEF Expire
  <2>2. \A f \in cache' : \E g \in cache : f.citations = g.citations
    BY <1>1, <1>7, ExpireQuotes
  <2>3. CachedIsCurrent'
    BY <1>1, <2>1, <2>2 DEF CachedIsCurrent, indexVars, Invalidating, WorkerAt, NothingFailed
  <2> QED  BY <1>1, <2>1, <2>3 DEF ChatsAreCurrent, indexVars, NothingFailed
<1>8. CASE UNCHANGED vars
  BY <1>1, <1>8 DEF vars, indexVars, cacheVars, CachedIsCurrent, ChatsAreCurrent, Invalidating,
     WorkerAt, NothingFailed
<1> QED
  BY <1>3, <1>4, <1>5, <1>6, <1>7, <1>8, StepCases

LEMMA CachedInit == Init => CachedInv
  BY CurrentInit, RefreshInit DEF Init, CachedInv, CachedIsCurrent, ChatsAreCurrent

LEMMA CachedInvStep ==
    ASSUME Overlapping = FALSE, ChatsOverlap = FALSE, CachedInv, ScopeInv, [Next]_vars
    PROVE  CachedInv'
<1>1. CurrentInv'
  BY CurrentInvStep, IndexSimulation DEF CachedInv
<1>2. RefreshInv'
  BY RefreshStep DEF CachedInv
<1> QED  BY <1>1, <1>2, CachedStep DEF CachedInv

\* A change that ends finds its document in no answer, and its last step stores
\* none.
LEMMA ChangeRefreshes ==
    ASSUME ChatsOverlap = FALSE, RefreshInv, [Next]_vars, NEW d \in Docs, Ends(d)
    PROVE  ~Cited(d)'
<1>1. ~Cited(d)
  BY DEF Ends, WorkerAt, At, RefreshInv, ChangedUncited
<1>2. ~Quiet /\ TypeInv
  BY DEF Ends, WorkerAt, At, Quiet, NoRequests, RefreshInv
<1>3. CASE InvalidateByWorker
  BY <1>1, <1>3 DEF InvalidateByWorker, Without, Cited
<1>4. CASE \E r \in Requests : InvalidateByDelete(r)
  BY <1>1, <1>4 DEF InvalidateByDelete, Without, Cited
<1>5. ~(\E c \in Chats : ChatStep(c))
  BY <1>2, ChatStepIsQuiet
<1>6. CASE \E e \in cache : Expire(e)
  BY <1>1, <1>6, ExpireQuotes DEF RefreshInv, Cited
<1>7. CASE UNCHANGED cacheVars
  BY <1>1, <1>7 DEF cacheVars, Cited
<1> QED  BY <1>3, <1>4, <1>5, <1>6, <1>7, StepCases DEF vars

-----------------------------------------------------------------------------
(* Theorems                                                                  *)

\* No step stores a document, a generation or an answer that is not one.
THEOREM TypesHold == Spec => []TypeOK
<1>1. Init => TypeInv /\ ScopeInv
  BY TypeInit, ScopeInit DEF Init
<1>2. TypeInv /\ ScopeInv /\ [Next]_vars => (TypeInv /\ ScopeInv)'
  BY IndexSimulation, TypeStep, ScopeStep
<1>3. TypeInv /\ ScopeInv => TypeOK
  BY DEF TypeInv, ScopeInv, TypeOK
<1> QED  BY <1>1, <1>2, <1>3, PTL DEF Spec

\* While the worker and the API take turns, a quiet index that nothing failed to
\* write holds the leaves of the vector store (run_ingestion, delete_document,
\* rebuild_bm25_index).
THEOREM IndexIsCurrentHolds ==
    ASSUME Overlapping = FALSE
    PROVE  Spec => []IndexIsCurrent
<1>1. Init => CurrentInv
  BY CurrentInit DEF Init
<1>2. CurrentInv /\ [Next]_vars => CurrentInv'
  BY IndexSimulation, CurrentInvStep
<1>3. CurrentInv => IndexIsCurrent
  BY DEF CurrentInv
<1> QED  BY <1>1, <1>2, <1>3, PTL DEF Spec

\* Whatever failed before, a change that ends without an exception leaves its
\* document's leaves in both indexes or in neither, and with their parents
\* (ingest_file, delete_document, build_hierarchical_nodes).
THEOREM ChangeRepairsSearchHolds ==
    ASSUME Overlapping = FALSE
    PROVE  Spec => ChangeRepairsSearch
<1> DEFINE Inv == RebuildInv /\ Begun /\ StoresInv
<1>1. Init => Inv
  BY CurrentInit DEF Init, CurrentInv
<1>2. Inv /\ [Next]_vars => Inv'
  BY IndexSimulation, RebuildStep, BegunStep, StoresStep DEF RebuildInv
<1>3. Inv /\ [Next]_vars =>
        [\A d \in Docs : Ends(d) /\ points' # EmptyCorpus
             => bm25' # EmptyDir /\ HasParents(d)']_indexVars
  BY IndexSimulation, ChangeRepairs
<1> QED  BY <1>1, <1>2, <1>3, PTL DEF Spec, ChangeRepairsSearch

\* Whatever failed before, the last change under way repairs the index when it
\* succeeds (rebuild_bm25_index reads the whole corpus).
THEOREM SuccessRepairsIndexHolds ==
    ASSUME Overlapping = FALSE
    PROVE  Spec => SuccessRepairsIndex
<1>1. Init => RebuildInv
  BY CurrentInit DEF Init, CurrentInv
<1>2. RebuildInv /\ [Next]_vars => RebuildInv'
  BY IndexSimulation, RebuildStep
<1>3. RebuildInv /\ [Next]_vars =>
        [~Quiet /\ Quiet' /\ budget' = budget /\ points' # EmptyCorpus
             => bm25' = points']_indexVars
  BY IndexSimulation, SuccessRepairs
<1> QED  BY <1>1, <1>2, <1>3, PTL DEF Spec, SuccessRepairsIndex

\* While chats and changes take turns, the ingestion or delete of a document that
\* ends without an exception leaves no answer that quotes another generation of
\* it, also when the worker and the API overlap (invalidate_for_document).
THEOREM ChangeRefreshesCacheHolds ==
    ASSUME ChatsOverlap = FALSE
    PROVE  Spec => ChangeRefreshesCache
<1> DEFINE Inv == RefreshInv /\ ScopeInv
<1>1. Init => Inv
  BY RefreshInit, ScopeInit
<1>2. Inv /\ [Next]_vars => Inv'
  BY RefreshStep, ScopeStep
<1>3. Inv /\ [Next]_vars =>
        [\A d \in Docs : Ends(d) =>
           \A e \in cache' : \A x \in e.citations : x[1] = d => x[2] = points'[d]]_vars
  BY ChangeRefreshes DEF Cited
<1> QED  BY <1>1, <1>2, <1>3, PTL DEF Spec, ChangeRefreshesCache

\* With nothing overlapping, a cached answer quotes only what is in the vector
\* store, until something fails (store, lookup, _purge_existing_document_data).
THEOREM CachedIsCurrentHolds ==
    ASSUME Overlapping = FALSE, ChatsOverlap = FALSE
    PROVE  Spec => []CachedIsCurrent
<1> DEFINE Inv == CachedInv /\ ScopeInv
<1>1. Init => Inv
  BY CachedInit, ScopeInit
<1>2. Inv /\ [Next]_vars => Inv'
  BY CachedInvStep, ScopeStep
<1>3. Inv => CachedIsCurrent
  BY DEF CachedInv
<1> QED  BY <1>1, <1>2, <1>3, PTL DEF Spec

===============================================================================
