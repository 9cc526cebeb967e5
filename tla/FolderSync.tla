----------------------------- MODULE FolderSync -----------------------------
(* Ingestion from the command line: sync_folder walks a folder, ingests what *)
(* is new or changed, soft-deletes what has disappeared, and run_ingestion   *)
(* rebuilds the BM25 index if anything was done. There is no handler around  *)
(* a run: whatever raises or kills it leaves everything as it was then.      *)
(* ingest_file is the worker's, cut at its commits and at the gaps in which  *)
(* another run or the file system may move; the two node stores are one      *)
(* here, and a rebuild is one step (Ingestion and SearchIndex split them).   *)
EXTENDS Versioning, FiniteSets

CONSTANTS
    Paths,         \* tenant_id and path relative to the root: the registry's key
    Roots,         \* folders given to the command line
    Runners,       \* processes of the command line
    NoRun,         \* a process that is not running
    NoRoot,        \* no row, hence no ingestion_root
    Overlapping,   \* TRUE: runs overlap with each other and with changes of files
    Returning,     \* TRUE: files are added, too, after the start or after a removal
    MaxChanges, MaxRuns, MaxErrors

VARIABLES
    folder,      \* folder[r][p]: the file below root r, or NoContent
    manifest,    \* manifest[r][p]: what r's folders and _meta.json say of p
    documents, versions,
    root,        \* root[p]: ingestion_root of the row
    nodes,       \* nodes[p]: what docstore and vector store hold of p
    bm25,        \* bm25[p]: what the index on disk holds of p
    runs,        \* runs[x]: the locals of a run, or NoRun
    budget

vars == <<folder, manifest, documents, versions, root, nodes, bm25, runs, budget>>

Chunk == [version : Nat, content : Contents, facet : Facets]

Stage == {"next", "select", "begin", "purge", "load", "store", "finalize",
          "gone", "rebuild"}

\* found: the paths listed; left: those not yet ingested; rows: the rows the
\* deletion pass selected, gone: those it still has to purge; changed: something
\* was ingested or deleted. The rest are the locals of ingest_file (seen: how many
\* audit rows there were when it read them).
Run == [at : Stage, root : Roots, found : SUBSET Paths, left : SUBSET Paths,
        meta : [Paths -> Facets], path : Paths, hash : MaybeContents, old : MaybeRow,
        seen : Nat, decision : Decisions, loaded : MaybeContents,
        rows : [Paths -> MaybeRow], gone : SUBSET Paths, changed : BOOLEAN]

ASSUME SyncAssumption ==
    /\ Overlapping \in BOOLEAN /\ Returning \in BOOLEAN
    /\ MaxChanges \in Nat /\ MaxRuns \in Nat /\ MaxErrors \in Nat
    /\ Paths # {} /\ NoRun \notin Run /\ NoRoot \notin Roots

TypeOK ==
    /\ folder \in [Roots -> [Paths -> MaybeContents]]
    /\ manifest \in [Roots -> [Paths -> Facets]]
    /\ documents \in [Paths -> MaybeRow]
    /\ versions \in [Paths -> Seq(VersionRow)]
    /\ root \in [Paths -> Roots \union {NoRoot}]
    /\ nodes \in [Paths -> SUBSET Chunk]
    /\ bm25 \in [Paths -> SUBSET Chunk]
    /\ runs \in [Runners -> Run \union {NoRun}]
    /\ budget \in [changes : 0 .. MaxChanges, runs : 0 .. MaxRuns, errors : 0 .. MaxErrors]

Empty == [p \in Paths |-> {}]

Init ==
    /\ folder \in [Roots -> [Paths -> MaybeContents]]
    /\ manifest \in [Roots -> [Paths -> Facets]]
    /\ documents = [p \in Paths |-> NoRow]
    /\ versions = [p \in Paths |-> <<>>]
    /\ root = [p \in Paths |-> NoRoot]
    /\ nodes = Empty
    /\ bm25 = Empty
    /\ runs = [x \in Runners |-> NoRun]
    /\ budget = [changes |-> MaxChanges, runs |-> MaxRuns, errors |-> MaxErrors]

-----------------------------------------------------------------------------
Quiet == \A x \in Runners : runs[x] = NoRun

At(x, stage) == runs[x] # NoRun /\ runs[x].at = stage

Spend(kind) == budget[kind] > 0 /\ budget' = [budget EXCEPT ![kind] = @ - 1]

End(x) == runs' = [runs EXCEPT ![x] = NoRun]

stores == <<documents, versions, root, nodes, bm25>>
files == <<folder, manifest>>

\* Somebody edits, adds or removes a file.
Change(r, p, c) ==
    /\ Overlapping \/ Quiet
    /\ c # folder[r][p]
    /\ Returning \/ folder[r][p] # NoContent
    /\ Spend("changes")
    /\ folder' = [folder EXCEPT ![r][p] = c]
    /\ UNCHANGED <<manifest, stores, runs>>

\* Somebody moves a file's department, doc_type or tags in _meta.json.
Relabel(r, p, f) ==
    /\ Overlapping \/ Quiet
    /\ f # manifest[r][p]
    /\ Spend("changes")
    /\ manifest' = [manifest EXCEPT ![r][p] = f]
    /\ UNCHANGED <<folder, stores, runs>>

-----------------------------------------------------------------------------
(* sync_folder: every file that was listed                                   *)

\* Reads the manifest and lists the files.
Start(x, r) ==
    /\ runs[x] = NoRun
    /\ Overlapping \/ Quiet
    /\ Spend("runs")
    /\ LET listed == {p \in Paths : folder[r][p] # NoContent} IN
       runs' = [runs EXCEPT ![x] =
           [at |-> "next", root |-> r, found |-> listed, left |-> listed,
            meta |-> manifest[r], path |-> CHOOSE p \in Paths : TRUE,
            hash |-> NoContent, old |-> NoRow, seen |-> 0, decision |-> "unchanged",
            loaded |-> NoContent, rows |-> [p \in Paths |-> NoRow], gone |-> {},
            changed |-> FALSE]]
    /\ UNCHANGED <<files, stores>>

\* The walk is in no particular order. A file that has gone meanwhile raises.
HashFile(x, p) ==
    /\ At(x, "next") /\ p \in runs[x].left
    /\ LET content == folder[runs[x].root][p] IN
       IF content = NoContent THEN End(x)
       ELSE runs' = [runs EXCEPT ![x].at = "select", ![x].path = p, ![x].hash = content,
                                 ![x].left = @ \ {p}]
    /\ UNCHANGED <<files, stores, budget>>

Select(x) ==
    LET p == runs[x].path
        decided == Decision(documents[p], versions[p], runs[x].hash)
    IN
    /\ At(x, "select")
    /\ CASE decided = "unchanged" -> runs' = [runs EXCEPT ![x].at = "next"]
         [] decided = "ambiguous" -> End(x)
         [] OTHER -> runs' = [runs EXCEPT ![x].at = "begin", ![x].old = documents[p],
                             ![x].seen = Len(versions[p]), ![x].decision = decided]
    /\ UNCHANGED <<files, stores, budget>>

\* ingestion_root is set when the row is created and never again.
RootKept(x) == IF runs[x].old = NoRow THEN runs[x].root ELSE root[runs[x].path]

\* The audit row that is superseded is one that was read.
RecordedSince(x, vs) ==
    LET seen == runs[x].seen
        recorded == Recorded(runs[x].decision, runs[x].old, SubSeq(vs, 1, seen), runs[x].hash)
    IN  SubSeq(recorded, 1, seen) \o SubSeq(vs, seen + 1, Len(vs))
            \o SubSeq(recorded, seen + 1, Len(recorded))

\* The commit of `processing`; an INSERT another run was faster with raises.
Begin(x) ==
    LET p == runs[x].path
        new == Decided(runs[x].decision, runs[x].old, runs[x].hash, runs[x].meta[p])
    IN
    /\ At(x, "begin")
    /\ IF Conflict(documents[p], runs[x].old)
       THEN /\ End(x)
            /\ UNCHANGED <<documents, versions, root>>
       ELSE /\ documents' = [documents EXCEPT ![p] = Committed(@, runs[x].old, new)]
            /\ versions' = [versions EXCEPT ![p] = RecordedSince(x, @)]
            /\ root' = [root EXCEPT ![p] = RootKept(x)]
            /\ runs' = [runs EXCEPT ![x].old = new,
                   ![x].at = IF IsNew(runs[x].decision) THEN "load" ELSE "purge"]
    /\ UNCHANGED <<files, nodes, bm25, budget>>

Purge(x) ==
    /\ At(x, "purge")
    /\ nodes' = [nodes EXCEPT ![runs[x].path] = {}]
    /\ runs' = [runs EXCEPT ![x].at = "load"]
    /\ UNCHANGED <<files, documents, versions, root, bm25, budget>>

\* Mutant of Load: a loader that finds no file returns an empty document.
LoadUnchecked(x) ==
    /\ At(x, "load")
    /\ runs' = [runs EXCEPT ![x].at = "store",
                           ![x].loaded = folder[runs[x].root][runs[x].path]]
    /\ UNCHANGED <<files, stores, budget>>

\* The loader opens the file again.
Load(x) ==
    LET content == folder[runs[x].root][runs[x].path] IN
    /\ At(x, "load")
    /\ IF content = NoContent THEN End(x)
       ELSE runs' = [runs EXCEPT ![x].at = "store", ![x].loaded = content]
    /\ UNCHANGED <<files, stores, budget>>

Store(x) ==
    LET p == runs[x].path IN
    /\ At(x, "store")
    /\ nodes' = [nodes EXCEPT ![p] = @ \union
           {[version |-> runs[x].old.version, content |-> runs[x].loaded,
             facet |-> runs[x].meta[p]]}]
    /\ runs' = [runs EXCEPT ![x].at = "finalize"]
    /\ UNCHANGED <<files, documents, versions, root, bm25, budget>>

\* finalize_document and the commit; two audit rows of the version raise.
Finalize(x) ==
    LET p == runs[x].path
        old == runs[x].old
    IN
    /\ At(x, "finalize")
    /\ IF Ambiguous(versions[p], old.version)
       THEN /\ End(x)
            /\ UNCHANGED <<documents, versions>>
       ELSE /\ documents' = [documents EXCEPT ![p] =
                                Committed(@, old, Finalized(old, runs[x].loaded))]
            /\ versions' = [versions EXCEPT ![p] =
                               FinalizedVersions(@, old.version, runs[x].loaded)]
            /\ runs' = [runs EXCEPT ![x].at = "next", ![x].changed = TRUE]
    /\ UNCHANGED <<files, root, nodes, bm25, budget>>

-----------------------------------------------------------------------------
(* sync_folder: the files that have disappeared, and run_ingestion           *)

\* Mutant of Disappeared: the rows of every root are looked at.
DisappearedAnywhere(x) == {p \in Paths :
    documents[p] # NoRow /\ documents[p].status # "deleted" /\ p \notin runs[x].found}

Disappeared(x) == {p \in Paths :
    /\ documents[p] # NoRow /\ documents[p].status # "deleted"
    /\ root[p] = runs[x].root
    /\ p \notin runs[x].found}

SelectGone(x) ==
    /\ At(x, "next") /\ runs[x].left = {}
    /\ runs' = [runs EXCEPT ![x].at = "gone", ![x].gone = Disappeared(x),
           ![x].rows = [p \in Paths |-> IF p \in Disappeared(x) THEN documents[p] ELSE NoRow]]
    /\ UNCHANGED <<files, stores, budget>>

PurgeGone(x, p) ==
    /\ At(x, "gone") /\ p \in runs[x].gone
    /\ nodes' = [nodes EXCEPT ![p] = {}]
    /\ runs' = [runs EXCEPT ![x].gone = @ \ {p}]
    /\ UNCHANGED <<files, documents, versions, root, bm25, budget>>

Deleted(row) == [row EXCEPT !.status = "deleted"]

\* Mutant of CommitGone: only ingested files make the index be rebuilt.
CommitGoneUnnoticed(x) ==
    /\ At(x, "gone") /\ runs[x].gone = {}
    /\ documents' = [p \in Paths |->
           IF runs[x].rows[p] = NoRow THEN documents[p]
           ELSE Committed(documents[p], runs[x].rows[p], Deleted(runs[x].rows[p]))]
    /\ runs' = [runs EXCEPT ![x].at = "rebuild"]
    /\ UNCHANGED <<files, versions, root, nodes, bm25, budget>>

\* One commit for all of them, at the end.
CommitGone(x) ==
    /\ At(x, "gone") /\ runs[x].gone = {}
    /\ documents' = [p \in Paths |->
           IF runs[x].rows[p] = NoRow THEN documents[p]
           ELSE Committed(documents[p], runs[x].rows[p], Deleted(runs[x].rows[p]))]
    /\ runs' = [runs EXCEPT ![x].at = "rebuild",
           ![x].changed = @ \/ \E p \in Paths : runs[x].rows[p] # NoRow]
    /\ UNCHANGED <<files, versions, root, nodes, bm25, budget>>

\* Only if something was ingested or deleted, and only if there are leaves.
Rebuild(x) ==
    /\ At(x, "rebuild")
    /\ bm25' = IF runs[x].changed /\ nodes # Empty THEN nodes ELSE bm25
    /\ End(x)
    /\ UNCHANGED <<files, documents, versions, root, nodes, budget>>

\* An exception of a store, a loader or the embedding, or the process is killed.
Abort(x) ==
    /\ runs[x] # NoRun
    /\ Spend("errors")
    /\ End(x)
    /\ UNCHANGED <<files, stores>>

-----------------------------------------------------------------------------
Next ==
    \/ \E r \in Roots, p \in Paths :
         \/ \E c \in MaybeContents : Change(r, p, c)
         \/ \E f \in Facets : Relabel(r, p, f)
    \/ \E x \in Runners :
         \/ \E r \in Roots : Start(x, r)
         \/ \E p \in Paths : HashFile(x, p) \/ PurgeGone(x, p)
         \/ Select(x) \/ Begin(x) \/ Purge(x) \/ Load(x) \/ Store(x) \/ Finalize(x)
         \/ SelectGone(x) \/ CommitGone(x) \/ Rebuild(x) \/ Abort(x)

Spec == Init /\ [][Next]_vars
-----------------------------------------------------------------------------
(* Properties                                                                *)

Completes(x) == At(x, "rebuild") /\ runs'[x] = NoRun /\ budget' = budget

\* A run that reaches its end, whatever earlier runs died of and wherever they
\* died, leaves exactly the folder: each of its files is completed, with its
\* content in the stores under the row's version; a file of this root that has
\* gone is deleted and out of the stores (GETTING_STARTED.md: "safe to run again
\* any time").
Mirrored(r, p) ==
    IF folder[r][p] # NoContent
    THEN /\ documents'[p] # NoRow /\ documents'[p].status = "completed"
         /\ documents'[p].hash = folder[r][p]
         /\ \E f \in Facets : nodes'[p] =
              {[version |-> documents'[p].version, content |-> folder[r][p], facet |-> f]}
    ELSE root[p] = r => documents'[p].status = "deleted" /\ nodes'[p] = {}

RunMirrorsFolder ==
    [][\A x \in Runners : Completes(x) => \A p \in Paths : Mirrored(runs[x].root, p)]_vars

\* The deletion pass keeps to its own root: a row becomes `deleted` only by a run
\* over the root it was ingested from, and its nodes go only by such a run, or by a
\* run that is itself ingesting that tenant and path and is about to store its own.
\* (Another root's file of the same tenant and path takes the row over, and its
\* nodes: the registry's key has no root, get_or_create_document.)
Replacing(x, p) == At(x, "purge") /\ runs[x].path = p

IsLive(row) == row # NoRow /\ row.status # "deleted"

OtherRootsUntouched ==
    [][\A p \in Paths :
         /\ IsLive(documents[p]) /\ ~IsLive(documents'[p]) =>
              \E x \in Runners : runs[x] # NoRun /\ runs[x].root = root[p]
         /\ nodes[p] # {} /\ nodes'[p] = {} =>
              \E x \in Runners : \/ runs[x] # NoRun /\ runs[x].root = root[p]
                                 \/ Replacing(x, p)]_vars

\* Every audit row but the newest is superseded (DocumentVersion: "the previous
\* row's superseded_at is stamped at the same time"), whatever died in between.
PreviousSuperseded == \A p \in Paths : \A i \in DOMAIN versions[p] :
    versions[p][i].superseded <=> i < Len(versions[p])

\* Whatever overlaps: an audit row, once committed, stays with its version and
\* hash, and a row always is at a version that has an audit row, so no run loses
\* what another recorded.
AuditKept ==
    [][\A p \in Paths :
         /\ \A i \in DOMAIN versions[p] :
              /\ i \in DOMAIN versions'[p]
              /\ versions'[p][i].version = versions[p][i].version
              /\ versions'[p][i].hash = versions[p][i].hash
         /\ documents'[p] # NoRow =>
              RowsOf(versions'[p], documents'[p].version) # {}]_vars

\* As long as nothing was aborted, a run that reaches its end with any leaves in
\* the stores leaves the index holding what they hold (config.py: "Rebuilt from
\* scratch after every ingestion run"), although it skips the rebuild when it did
\* nothing, and when there are no leaves.
RunRebuildsIndex ==
    [][\A x \in Runners : Completes(x) /\ budget.errors = MaxErrors /\ nodes # Empty
            => bm25' = nodes]_vars
=============================================================================
