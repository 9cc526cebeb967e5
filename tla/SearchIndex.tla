---------------------------- MODULE SearchIndex -----------------------------
(* What search reads: the leaves in Qdrant, the BM25 index built from them   *)
(* and the docstore that holds their parents; and the two processes that     *)
(* write them, the solo worker ingesting uploads and the API deleting        *)
(* documents. Statuses and versions are the business of Ingestion: here an   *)
(* upload is a task that is pending, and a document has at most one          *)
(* generation of nodes in each store.                                        *)
EXTENDS Naturals, FiniteSets

CONSTANTS
    Docs,          \* documents of one upload directory
    Facets,        \* department, doc_type and tags, as node metadata
    Requests,      \* slots for DELETE requests being handled at once
    None,          \* no nodes of this document
    Idle,          \* a process that is waiting
    NoIndex,       \* bm25_index_dir does not exist
    EmptyDir,      \* it exists and holds no index
    Overlapping,   \* TRUE: the worker and the API may work at the same time
    MaxUploads, MaxDeletes, MaxErrors

VARIABLES
    live,        \* documents with a row that is not `deleted`
    pending,     \* pending[d]: how many tasks of d are in the broker's queue
    newest,      \* newest[d]: how many ingestions of d have begun
    docstore,    \* docstore[d]: the generation whose parents and leaves it holds
    points,      \* points[d]: the generation whose leaves are in Qdrant
    collection,  \* the Qdrant collection has been created
    bm25,        \* the generation of each document in the index on disk
    worker,      \* the task the worker runs, or Idle
    requests,    \* requests[r]: the DELETE in slot r, or Idle
    budget       \* how many uploads, deletes and exceptions may still come

indexVars == <<live, pending, newest, docstore, points, collection, bm25,
               worker, requests, budget>>

Generation == [number : 1 .. MaxUploads, facet : Facets]
MaybeGeneration == Generation \union {None}
Corpus == [Docs -> MaybeGeneration]
EmptyCorpus == [d \in Docs |-> None]

WorkerStage == {"purgeDocstore", "purgePoints", "invalidate", "store", "upsert",
                "read", "persist"}
DeleteStage == {"purgeDocstore", "purgePoints", "invalidate", "commit", "read", "persist"}

\* empty: no text was found in the file; nodes: the corpus a rebuild has read.
Task == [at : WorkerStage, doc : Docs, generation : Generation, empty : BOOLEAN,
         nodes : Corpus]
Deletion == [at : DeleteStage, doc : Docs, nodes : Corpus]

ASSUME IndexAssumption ==
    /\ Overlapping \in BOOLEAN
    /\ MaxUploads \in Nat /\ MaxDeletes \in Nat /\ MaxErrors \in Nat
    /\ None \notin Generation
    /\ NoIndex \notin Corpus \union {EmptyDir} /\ EmptyDir \notin Corpus
    /\ Idle \notin Task \union Deletion

IndexTypeOK ==
    /\ live \in SUBSET Docs
    /\ pending \in [Docs -> 0 .. MaxUploads] /\ newest \in [Docs -> 0 .. MaxUploads]
    /\ docstore \in Corpus /\ points \in Corpus
    /\ collection \in BOOLEAN
    /\ bm25 \in Corpus \union {NoIndex, EmptyDir}
    /\ worker \in Task \union {Idle}
    /\ requests \in [Requests -> Deletion \union {Idle}]
    /\ budget \in [uploads : 0 .. MaxUploads, deletes : 0 .. MaxDeletes,
                   errors : 0 .. MaxErrors]

IndexInit ==
    /\ live = {}
    /\ pending = [d \in Docs |-> 0] /\ newest = [d \in Docs |-> 0]
    /\ docstore = EmptyCorpus /\ points = EmptyCorpus
    /\ collection = FALSE
    /\ bm25 = NoIndex
    /\ worker = Idle
    /\ requests = [r \in Requests |-> Idle]
    /\ budget = [uploads |-> MaxUploads, deletes |-> MaxDeletes, errors |-> MaxErrors]

-----------------------------------------------------------------------------
NoRequests == \A r \in Requests : requests[r] = Idle

Quiet == worker = Idle /\ NoRequests

\* delete_document makes synchronous calls between its awaits: while it is in
\* the middle of them no other handler of the event loop moves.
Blocking(r) ==
    requests[r] # Idle /\ requests[r].at \in {"purgePoints", "invalidate", "persist"}

LoopFree(r) == \A q \in Requests \ {r} : ~Blocking(q)

WorkerAt(stage) == worker # Idle /\ worker.at = stage

At(r, stage) == requests[r] # Idle /\ requests[r].at = stage /\ LoopFree(r)

WorkerGoto(stage) == worker' = [worker EXCEPT !.at = stage]

Goto(r, stage) == requests' = [requests EXCEPT ![r].at = stage]

Spend(kind) == budget[kind] > 0 /\ budget' = [budget EXCEPT ![kind] = @ - 1]

-----------------------------------------------------------------------------
(* The worker: one upload after the other                                    *)

Register(d) ==
    /\ Spend("uploads")
    /\ live' = live \union {d}
    /\ pending' = [pending EXCEPT ![d] = @ + 1]
    /\ UNCHANGED <<newest, docstore, points, collection, bm25, worker, requests>>

Dequeue(d) ==
    /\ worker = Idle
    /\ Overlapping \/ NoRequests
    /\ pending[d] > 0
    /\ pending' = [pending EXCEPT ![d] = @ - 1]

\* The file is hashed and `processing` committed, over `deleted` as well. Only the
\* first ingestion of a document skips the purge.
WorkerStart(d, f, empty) ==
    /\ Dequeue(d)
    /\ live' = live \union {d}
    /\ newest' = [newest EXCEPT ![d] = @ + 1]
    /\ worker' = [at |-> IF newest[d] = 0 THEN "store" ELSE "purgeDocstore", doc |-> d,
                  generation |-> [number |-> newest[d] + 1, facet |-> f],
                  empty |-> empty, nodes |-> EmptyCorpus]
    /\ UNCHANGED <<docstore, points, collection, bm25, requests, budget>>

\* A task that stores and rebuilds nothing: its file is as it was, of a type with
\* no loader, or gone.
WorkerSkip(d) ==
    /\ Dequeue(d)
    /\ UNCHANGED <<live, newest, docstore, points, collection, bm25, worker, requests, budget>>

WorkerPurgeDocstore ==
    /\ WorkerAt("purgeDocstore")
    /\ docstore' = [docstore EXCEPT ![worker.doc] = None]
    /\ WorkerGoto("purgePoints")
    /\ UNCHANGED <<live, pending, newest, points, collection, bm25, requests, budget>>

WorkerPurgePoints ==
    /\ WorkerAt("purgePoints")
    /\ points' = [points EXCEPT ![worker.doc] = None]
    /\ WorkerGoto("invalidate")
    /\ UNCHANGED <<live, pending, newest, docstore, collection, bm25, requests, budget>>

\* The purge's last call; what it does to the answers is in SemanticCache.
WorkerInvalidate ==
    /\ WorkerAt("invalidate")
    /\ WorkerGoto("store")
    /\ UNCHANGED <<live, pending, newest, docstore, points, collection, bm25, requests, budget>>

Nodes == IF worker.empty THEN None ELSE worker.generation

\* Mutant of WorkerStore: the docstore write is forgotten.
WorkerStoreSkipped ==
    /\ WorkerAt("store")
    /\ WorkerGoto("upsert")
    /\ UNCHANGED <<live, pending, newest, docstore, points, collection, bm25, requests, budget>>

WorkerStore ==
    /\ WorkerAt("store")
    /\ docstore' = [docstore EXCEPT ![worker.doc] = IF worker.empty THEN @ ELSE Nodes]
    /\ WorkerGoto("upsert")
    /\ UNCHANGED <<live, pending, newest, points, collection, bm25, requests, budget>>

\* The collection is created before the first upsert, of leaves or of none.
WorkerUpsert ==
    /\ WorkerAt("upsert")
    /\ collection' = TRUE
    /\ points' = [points EXCEPT ![worker.doc] = IF worker.empty THEN @ ELSE Nodes]
    /\ WorkerGoto("read")
    /\ UNCHANGED <<live, pending, newest, docstore, bm25, requests, budget>>

-----------------------------------------------------------------------------
(* rebuild_bm25_index                                                        *)

\* get_nodes reads the corpus, and mkdir makes the directory.
DirectoryMade == IF bm25 = NoIndex THEN EmptyDir ELSE bm25

\* Mutant of Persisted: the index is extended by what was read.
PersistedMerged(nodes) ==
    IF nodes = EmptyCorpus THEN bm25
    ELSE IF bm25 \in {NoIndex, EmptyDir} THEN nodes
    ELSE [d \in Docs |-> IF nodes[d] = None THEN bm25[d] ELSE nodes[d]]

\* "if not nodes: return 0": an empty corpus leaves the directory as it is.
Persisted(nodes) == IF nodes = EmptyCorpus THEN bm25 ELSE nodes

\* The row is completed, whatever a delete has made of it meanwhile.
WorkerRead ==
    /\ WorkerAt("read")
    /\ live' = live \union {worker.doc}
    /\ worker' = [worker EXCEPT !.at = "persist", !.nodes = points]
    /\ bm25' = DirectoryMade
    /\ UNCHANGED <<pending, newest, docstore, points, collection, requests, budget>>

WorkerPersist ==
    /\ WorkerAt("persist")
    /\ bm25' = Persisted(worker.nodes)
    /\ worker' = Idle
    /\ UNCHANGED <<live, pending, newest, docstore, points, collection, requests, budget>>

\* An exception anywhere, or the process dies: the rest of the task is not done.
WorkerFail ==
    /\ worker # Idle
    /\ Spend("errors")
    /\ worker' = Idle
    /\ UNCHANGED <<live, pending, newest, docstore, points, collection, bm25, requests>>

-----------------------------------------------------------------------------
(* DELETE /documents/{id}                                                    *)

DeleteStart(r, d) ==
    /\ requests[r] = Idle /\ LoopFree(r)
    /\ Overlapping \/ worker = Idle
    /\ d \in live
    /\ Spend("deletes")
    /\ requests' = [requests EXCEPT ![r] =
                       [at |-> "purgeDocstore", doc |-> d, nodes |-> EmptyCorpus]]
    /\ UNCHANGED <<live, pending, newest, docstore, points, collection, bm25, worker>>

DeletePurgeDocstore(r) ==
    /\ At(r, "purgeDocstore")
    /\ docstore' = [docstore EXCEPT ![requests[r].doc] = None]
    /\ Goto(r, "purgePoints")
    /\ UNCHANGED <<live, pending, newest, points, collection, bm25, worker, budget>>

DeletePurgePoints(r) ==
    /\ At(r, "purgePoints")
    /\ points' = [points EXCEPT ![requests[r].doc] = None]
    /\ Goto(r, "invalidate")
    /\ UNCHANGED <<live, pending, newest, docstore, collection, bm25, worker, budget>>

DeleteInvalidate(r) ==
    /\ At(r, "invalidate")
    /\ Goto(r, "commit")
    /\ UNCHANGED <<live, pending, newest, docstore, points, collection, bm25, worker, budget>>

\* `deleted` is committed and the file unlinked. A task that is still queued finds
\* no file (WorkerSkip), unless the unlink failed or another upload brought one.
DeleteCommit(r) ==
    /\ At(r, "commit")
    /\ live' = live \ {requests[r].doc}
    /\ Goto(r, "read")
    /\ UNCHANGED <<pending, newest, docstore, points, collection, bm25, worker, budget>>

DeleteRead(r) ==
    /\ At(r, "read")
    /\ collection
    /\ requests' = [requests EXCEPT ![r].at = "persist", ![r].nodes = points]
    /\ bm25' = DirectoryMade
    /\ UNCHANGED <<live, pending, newest, docstore, points, collection, worker, budget>>

\* Reading a collection that was never created raises: a 500 after the commit.
DeleteReadNothing(r) ==
    /\ At(r, "read")
    /\ ~collection
    /\ requests' = [requests EXCEPT ![r] = Idle]
    /\ UNCHANGED <<live, pending, newest, docstore, points, collection, bm25, worker, budget>>

DeletePersist(r) ==
    /\ At(r, "persist")
    /\ bm25' = Persisted(requests[r].nodes)
    /\ requests' = [requests EXCEPT ![r] = Idle]
    /\ UNCHANGED <<live, pending, newest, docstore, points, collection, worker, budget>>

DeleteFail(r) ==
    /\ requests[r] # Idle /\ LoopFree(r)
    /\ Spend("errors")
    /\ requests' = [requests EXCEPT ![r] = Idle]
    /\ UNCHANGED <<live, pending, newest, docstore, points, collection, bm25, worker>>

-----------------------------------------------------------------------------
\* Every step but the two that invalidate cached answers.
StoreNext ==
    \/ \E d \in Docs : Register(d) \/ WorkerSkip(d)
    \/ \E d \in Docs, f \in Facets, empty \in BOOLEAN : WorkerStart(d, f, empty)
    \/ WorkerPurgeDocstore \/ WorkerPurgePoints \/ WorkerStore \/ WorkerUpsert
    \/ WorkerRead \/ WorkerPersist \/ WorkerFail
    \/ \E r \in Requests :
         \/ \E d \in Docs : DeleteStart(r, d)
         \/ DeletePurgeDocstore(r) \/ DeletePurgePoints(r) \/ DeleteCommit(r)
         \/ DeleteRead(r) \/ DeleteReadNothing(r) \/ DeletePersist(r) \/ DeleteFail(r)

IndexNext ==
    \/ StoreNext
    \/ WorkerInvalidate
    \/ \E r \in Requests : DeleteInvalidate(r)

IndexSpec == IndexInit /\ [][IndexNext]_indexVars
-----------------------------------------------------------------------------
(* Properties                                                                *)

InBm25(d) == IF bm25 \in {NoIndex, EmptyDir} THEN None ELSE bm25[d]

\* Leaves of d that the dense or the BM25 retriever can return.
Searchable(d) == {points[d], InBm25(d)} \ {None}

NothingFailed == budget.errors = MaxErrors

\* Once nothing is running, and nothing failed, the BM25 index holds the
\* leaves of the vector store, of which there are some (rebuild_bm25_index:
\* "full rebuild from the current Qdrant leaf-node corpus").
IndexIsCurrent ==
    NothingFailed /\ Quiet /\ points # EmptyCorpus => bm25 = points

\* The same for a corpus that has become empty.
EmptyIndexIsCurrent == Quiet /\ points = EmptyCorpus => \A d \in Docs : InBm25(d) = None

\* Whatever failed before: when the last ingestion or delete under way ends
\* without an exception, its rebuild has made the index current, so no failure
\* outlives the next success (run_ingestion and delete_document rebuild from
\* the whole corpus, not from what they changed).
SuccessRepairsIndex ==
    [][ ~Quiet /\ Quiet' /\ budget' = budget /\ points' # EmptyCorpus
            => bm25' = points' ]_indexVars

\* A change of d ends without an exception.
Ends(d) ==
    /\ budget' = budget
    /\ \/ WorkerAt("persist") /\ worker.doc = d /\ worker' = Idle
       \/ \E r \in Requests : At(r, "persist") /\ requests[r].doc = d /\ requests'[r] = Idle

\* Every leaf of d that search can return has its parents in the docstore; the
\* AutoMergingRetriever looks them up and raises when one is missing
\* (build_hierarchical_nodes: "All nodes (leaf + parent) must be stored").
HasParents(d) == \A g \in Searchable(d) : docstore[d] = g

\* Whatever failed before, at whichever call: when a change of a document ends
\* without an exception and leaves the corpus any leaves, search does not raise on
\* account of that document, whose leaves have their parents, nor of an index
\* directory without an index. (An empty corpus is not persisted, and search does
\* raise then: see EmptyIndexIsCurrent and rebuild_bm25_index.)
ChangeRepairsSearch ==
    [][ \A d \in Docs : Ends(d) /\ points' # EmptyCorpus
            => bm25' # EmptyDir /\ HasParents(d)' ]_indexVars
=============================================================================
