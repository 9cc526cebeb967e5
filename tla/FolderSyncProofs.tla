--------------------------- MODULE FolderSyncProofs ---------------------------
(* Runs of the command line, for any paths, contents, facets, runners and     *)
(* budgets. Whatever overlaps: types hold, no audit row is lost, and the      *)
(* deletion pass keeps to the rows of its own root (SyncInv). One run at a    *)
(* time: all but the newest audit row are superseded (TurnInv), the index is  *)
(* rebuilt when it has to be (FreshInv), and a run over the only root that    *)
(* reaches its end leaves exactly the folder (MirrorInv).                     *)
EXTENDS FolderSync, VersioningProofs

Ingesting == {"select", "begin", "purge", "load", "store", "finalize"}

\* What a run has in memory, against the registry: the rows it read are still
\* there (nothing deletes a row), and audit rows have only been added.
RunOK(q, docs, vs, rt) ==
    /\ q.left \subseteq q.found
    /\ q.at \in Ingesting => q.path \in q.found /\ q.hash \in Contents
    /\ q.at = "begin" =>
         /\ q.seen <= Len(vs[q.path])
         /\ q.decision = IF q.old = NoRow THEN "create" ELSE "supersede"
         /\ q.old # NoRow => docs[q.path] # NoRow
    /\ q.at \in {"purge", "load", "store", "finalize"} =>
         q.old \in Row /\ docs[q.path] # NoRow
    /\ q.at \in {"store", "finalize"} => q.loaded \in Contents
    /\ \A p \in Paths : q.rows[p] # NoRow => docs[p] # NoRow /\ rt[p] = q.root
    /\ \A p \in q.gone : q.rows[p] # NoRow

RunsOK == \A x \in Runners : runs[x] # NoRun => RunOK(runs[x], documents, versions, root)

\* Every row is at a version that has an audit row.
RowsRecorded == \A p \in Paths :
    documents[p] # NoRow => RowsOf(versions[p], documents[p].version) # {}

SyncInv == TypeOK /\ RowsRecorded /\ RunsOK

\* With one run at a time, and files that stay as they are while it runs, what it
\* has in memory is what is there.
Alone == \A x, y \in Runners : runs[x] # NoRun /\ runs[y] # NoRun => x = y

Trails == \A p \in Paths :
    /\ Trail(versions[p])
    /\ documents[p] = NoRow => versions[p] = <<>>
    /\ documents[p] # NoRow => versions[p] # <<>> /\ documents[p].version = Len(versions[p])

Knows(x) ==
    LET q == runs[x] IN
    /\ \A p \in Paths : p \in q.found <=> folder[q.root][p] # NoContent
    /\ q.at \in Ingesting => folder[q.root][q.path] = q.hash
    /\ q.at = "begin" => q.seen = Len(versions[q.path])
    /\ q.at \in {"begin", "purge", "load", "store", "finalize"} => q.old = documents[q.path]
    /\ q.at = "gone" => \A p \in Paths : q.rows[p] \in {NoRow, documents[p]}

TurnInv == Alone /\ Trails /\ \A x \in Runners : runs[x] # NoRun => Knows(x)

\* The index holds the nodes, or is about to be rebuilt.
Fresh == nodes # Empty => bm25 = nodes

WillRebuild(q) ==
    \/ q.changed
    \/ q.at \in {"purge", "load", "store", "finalize"}
    \/ q.at = "gone" /\ \E p \in Paths : q.rows[p] # NoRow

FreshInv == budget.errors = MaxErrors =>
    Fresh \/ \E x \in Runners : runs[x] # NoRun /\ WillRebuild(runs[x])

\* What a row says of the nodes, but for a file that has gone for good.
Stored(p) == \E f \in Facets : nodes[p] =
    {[version |-> documents[p].version, content |-> documents[p].hash, facet |-> f]}

RowTrue(p) ==
    /\ documents[p] = NoRow => nodes[p] = {} /\ root[p] = NoRoot
    /\ documents[p] # NoRow /\ documents[p].status = "deleted" => nodes[p] = {}
    /\ documents[p] # NoRow /\ documents[p].status = "completed" =>
           Stored(p) \/ \A r \in Roots : folder[r][p] = NoContent

\* How far a run has made the registry and the stores agree with the folder.
Agrees(r, p) ==
    /\ documents[p] # NoRow /\ documents[p].status = "completed"
    /\ documents[p].hash = folder[r][p]
    /\ Stored(p)

Progress(x) ==
    LET q == runs[x] IN
    /\ q.at \in {"purge", "load", "store", "finalize"} =>
         documents[q.path].status = "processing" /\ documents[q.path].hash = q.hash
    /\ q.at \in {"load", "store"} => nodes[q.path] = {}
    /\ q.at \in {"store", "finalize"} => q.loaded = q.hash
    /\ q.at = "finalize" => Stored(q.path)
    /\ \A p \in q.found \ q.left :
         (p = q.path /\ q.at \in Ingesting) \/ Agrees(q.root, p)
    /\ q.at \in {"gone", "rebuild"} => q.left = {}
    /\ q.at = "gone" => \A p \in Paths :
         /\ q.rows[p] # NoRow => p \notin q.found /\ (p \in q.gone \/ nodes[p] = {})
         /\ root[p] = q.root => \/ p \in q.found \/ q.rows[p] # NoRow
                                \/ documents[p].status = "deleted"
    /\ q.at = "rebuild" => \A p \in Paths :
         root[p] = q.root => p \in q.found \/ documents[p].status = "deleted"

MirrorInv ==
    /\ \A p \in Paths : RowTrue(p)
    /\ \A x \in Runners : runs[x] # NoRun => Progress(x)

-----------------------------------------------------------------------------
(* Lemmas about audit rows and commits                                       *)

LEMMA OneMore ==
    ASSUME NEW S, NEW s \in Seq(S), NEW t \in Seq(S), Len(t) = 1
    PROVE  /\ s \o t \in Seq(S) /\ Len(s \o t) = Len(s) + 1
           /\ \A i \in 1 .. Len(s) : (s \o t)[i] = s[i]
           /\ (s \o t)[Len(s) + 1] = t[1]
<1>1. Len(s) \in Nat
  OBVIOUS
<1>2. /\ s \o t \in Seq(S) /\ Len(s \o t) = Len(s) + Len(t)
      /\ \A i \in 1 .. Len(s) + Len(t) :
           (s \o t)[i] = IF i <= Len(s) THEN s[i] ELSE t[i - Len(s)]
  BY ConcatProperties
<1> QED  BY <1>1, <1>2

\* Rows read before a point, rewritten, then the rows that came since, then one more.
Splice(vs, seen, read, e) == LET both == Append(read, e) IN
    SubSeq(both, 1, seen) \o SubSeq(vs, seen + 1, Len(vs)) \o SubSeq(both, seen + 1, Len(both))

LEMMA Spliced ==
    ASSUME NEW S, NEW vs \in Seq(S), NEW seen \in 0 .. Len(vs),
           NEW read \in Seq(S), Len(read) = seen, NEW e \in S
    PROVE  LET new == Splice(vs, seen, read, e) IN
           /\ new \in Seq(S) /\ Len(new) = Len(vs) + 1
           /\ \A i \in 1 .. Len(vs) : new[i] = IF i <= seen THEN read[i] ELSE vs[i]
           /\ new[Len(vs) + 1] = e
<1> DEFINE both == Append(read, e)
           first == SubSeq(both, 1, seen)
           later == SubSeq(vs, seen + 1, Len(vs))
           last == SubSeq(both, seen + 1, Len(both))
<1>1. Len(vs) \in Nat /\ seen \in Nat /\ seen <= Len(vs)
  OBVIOUS
<1>2. /\ both \in Seq(S) /\ Len(both) = seen + 1 /\ both[seen + 1] = e
      /\ \A i \in 1 .. seen : both[i] = read[i]
  BY <1>1
<1>3. later \in Seq(S) /\ Len(later) = Len(vs) - seen
  BY <1>1
<1>4. \A i \in 1 .. Len(vs) - seen : later[i] = vs[seen + i]
  BY <1>1
<1> HIDE DEF both, later
<1>5. first \in Seq(S) /\ Len(first) = seen /\ \A i \in 1 .. seen : first[i] = read[i]
  BY <1>1, <1>2
<1>6. last \in Seq(S) /\ Len(last) = 1 /\ last[1] = e
  BY <1>1, <1>2
<1> HIDE DEF first, last
<1>7. first \o later \in Seq(S) /\ Len(first \o later) = Len(vs)
  BY <1>1, <1>3, <1>5
<1>8. \A i \in 1 .. Len(vs) : (first \o later)[i] = IF i <= seen THEN read[i] ELSE vs[i]
  <2> SUFFICES ASSUME NEW i \in 1 .. Len(vs)
               PROVE  (first \o later)[i] = IF i <= seen THEN read[i] ELSE vs[i]
    OBVIOUS
  <2>1. CASE i <= seen
    BY <1>1, <1>3, <1>5, <2>1
  <2>2. CASE ~(i <= seen)
    <3>1. i - seen \in 1 .. Len(vs) - seen /\ seen + (i - seen) = i
      BY <1>1, <2>2
    <3>2. (first \o later)[i] = later[i - seen]
      BY <1>1, <1>3, <1>5, <2>2
    <3> QED  BY <1>4, <2>2, <3>1, <3>2
  <2> QED  BY <2>1, <2>2
<1> DEFINE front == first \o later
<1> HIDE DEF front
<1>9. front \in Seq(S) /\ Len(front) = Len(vs)
  BY <1>7 DEF front
<1>10. /\ front \o last \in Seq(S) /\ Len(front \o last) = Len(vs) + 1
       /\ \A i \in 1 .. Len(vs) : (front \o last)[i] = front[i]
       /\ (front \o last)[Len(vs) + 1] = last[1]
  BY SMTT(30), <1>6, <1>9, OneMore
<1> QED
  BY <1>6, <1>8, <1>10 DEF both, first, later, last, front, Splice

\* Marking a version superseded.
LEMMA SupersededRows ==
    ASSUME NEW vs \in Seq(VersionRow), NEW n \in Nat
    PROVE  /\ Superseded(vs, n) \in Seq(VersionRow) /\ Len(Superseded(vs, n)) = Len(vs)
           /\ \A i \in 1 .. Len(vs) :
                /\ Superseded(vs, n)[i].version = vs[i].version
                /\ Superseded(vs, n)[i].hash = vs[i].hash
                /\ Superseded(vs, n)[i].superseded <=> vs[i].superseded \/ vs[i].version = n
<1> DEFINE new == Superseded(vs, n)
<1>1. DOMAIN vs = 1 .. Len(vs) /\ Len(vs) \in Nat /\ \A i \in 1 .. Len(vs) : vs[i] \in VersionRow
  OBVIOUS
<1>2. new = [i \in 1 .. Len(vs) |-> IF vs[i].version = n
                                    THEN [vs[i] EXCEPT !.superseded = TRUE] ELSE vs[i]]
  BY <1>1 DEF Superseded, RowsOf
<1> HIDE DEF new
<1>3. \A i \in 1 .. Len(vs) :
        /\ new[i] \in VersionRow
        /\ new[i].version = vs[i].version /\ new[i].hash = vs[i].hash
        /\ new[i].superseded <=> vs[i].superseded \/ vs[i].version = n
  BY <1>1, <1>2 DEF VersionRow
<1>4. new \in [1 .. Len(vs) -> VersionRow]
  BY <1>2, <1>3
<1> QED  BY <1>1, <1>3, <1>4, FunctionIsSeq DEF new

\* The audit rows a run leaves are those that were there and one more.
LEMMA RecordedSinceRows ==
    ASSUME NEW x \in Runners, NEW vs \in Seq(VersionRow), runs[x] \in Run,
           runs[x].seen <= Len(vs), runs[x].hash \in Contents,
           runs[x].decision = IF runs[x].old = NoRow THEN "create" ELSE "supersede"
    PROVE  LET new == RecordedSince(x, vs)
               version == IF runs[x].old = NoRow THEN 1 ELSE runs[x].old.version + 1
           IN
           /\ new \in Seq(VersionRow) /\ Len(new) = Len(vs) + 1
           /\ \A i \in 1 .. Len(vs) :
                /\ new[i].version = vs[i].version /\ new[i].hash = vs[i].hash
                /\ new[i].superseded <=> vs[i].superseded \/
                     (/\ i <= runs[x].seen /\ runs[x].old # NoRow
                      /\ vs[i].version = runs[x].old.version)
           /\ new[Len(vs) + 1] = NewVersion(version, runs[x].hash)
<1> DEFINE seen == runs[x].seen
           old == runs[x].old
           h == runs[x].hash
           before == SubSeq(vs, 1, seen)
           version == IF old = NoRow THEN 1 ELSE old.version + 1
           read == IF old = NoRow THEN before ELSE Superseded(before, old.version)
           new == RecordedSince(x, vs)
<1>1. seen \in 0 .. Len(vs) /\ Len(vs) \in Nat /\ \A i \in 1 .. Len(vs) : vs[i] \in VersionRow
  BY DEF Run
<1>2. /\ before \in Seq(VersionRow) /\ Len(before) = seen
      /\ \A i \in 1 .. seen : before[i] = vs[i]
  BY <1>1
<1>3. version \in Nat /\ (old # NoRow => old.version \in Nat)
  BY DEF Run, MaybeRow, Row
<1>4. NewVersion(version, h) \in VersionRow
  BY <1>3 DEF NewVersion, VersionRow, MaybeContents
<1>5. /\ read \in Seq(VersionRow) /\ Len(read) = seen
      /\ \A i \in 1 .. seen :
           /\ read[i].version = vs[i].version /\ read[i].hash = vs[i].hash
           /\ read[i].superseded <=> vs[i].superseded \/
                (old # NoRow /\ vs[i].version = old.version)
  <2> HIDE DEF before
  <2>1. CASE old = NoRow
    BY <1>2, <2>1
  <2>2. CASE old # NoRow
    BY <1>2, <1>3, <2>2, SupersededRows
  <2> QED  BY <2>1, <2>2
<1>6. new = Splice(vs, seen, read, NewVersion(version, h))
  <2>1. Recorded(runs[x].decision, old, before, h) = Append(read, NewVersion(version, h))
    BY DEF Recorded
  <2> HIDE DEF read, version
  <2> QED  BY <2>1 DEF RecordedSince, Splice
<1> HIDE DEF new, read, version
<1>7. /\ new \in Seq(VersionRow) /\ Len(new) = Len(vs) + 1
      /\ new[Len(vs) + 1] = NewVersion(version, h)
      /\ \A i \in 1 .. Len(vs) : new[i] = IF i <= seen THEN read[i] ELSE vs[i]
  <2> DEFINE e == NewVersion(version, h)
             S == VersionRow
  <2>1. /\ vs \in Seq(S) /\ seen \in 0 .. Len(vs) /\ read \in Seq(S) /\ Len(read) = seen
        /\ e \in S /\ new = Splice(vs, seen, read, e)
    BY <1>1, <1>4, <1>5, <1>6
  <2> HIDE DEF e, S, seen
  <2>2. new \in Seq(S) /\ Len(new) = Len(vs) + 1
    BY <2>1, Spliced
  <2>3. new[Len(vs) + 1] = e
    BY <2>1, Spliced
  <2>4. \A i \in 1 .. Len(vs) : new[i] = IF i <= seen THEN read[i] ELSE vs[i]
    BY <2>1, Spliced
  <2> QED  BY <2>2, <2>3, <2>4 DEF e, S
<1>8. \A i \in 1 .. Len(vs) :
        /\ new[i].version = vs[i].version /\ new[i].hash = vs[i].hash
        /\ new[i].superseded <=> vs[i].superseded \/
             (i <= seen /\ old # NoRow /\ vs[i].version = old.version)
  <2> SUFFICES ASSUME NEW i \in 1 .. Len(vs)
               PROVE  /\ new[i].version = vs[i].version /\ new[i].hash = vs[i].hash
                      /\ new[i].superseded <=> vs[i].superseded \/
                           (i <= seen /\ old # NoRow /\ vs[i].version = old.version)
    OBVIOUS
  <2>1. CASE i <= seen
    BY <1>1, <1>5, <1>7, <2>1
  <2>2. CASE ~(i <= seen)
    BY <1>7, <2>2
  <2> QED  BY <2>1, <2>2
<1> QED  BY <1>7, <1>8 DEF new, version

-----------------------------------------------------------------------------
(* Steps that leave the registry alone                                       *)

Budgets == [changes : 0 .. MaxChanges, runs : 0 .. MaxRuns, errors : 0 .. MaxErrors]

LEMMA SpendTypes ==
    ASSUME TypeOK, NEW kind \in {"changes", "runs", "errors"}, Spend(kind)
    PROVE  budget' \in Budgets
<1>1. budget \in Budgets /\ MaxChanges \in Nat /\ MaxRuns \in Nat /\ MaxErrors \in Nat
  BY SyncAssumption DEF TypeOK, Budgets
<1>2. CASE kind = "changes"
  BY <1>1, <1>2 DEF Spend, Budgets
<1>3. CASE kind = "runs"
  BY <1>1, <1>3 DEF Spend, Budgets
<1>4. CASE kind = "errors"
  BY <1>1, <1>4 DEF Spend, Budgets
<1> QED  BY <1>2, <1>3, <1>4

\* Nothing but the folders, the nodes, the index and one run moves.
LEMMA RunMoves ==
    ASSUME SyncInv, UNCHANGED <<documents, versions, root>>, NEW x \in Runners,
           NEW new \in Run \union {NoRun}, runs' = [runs EXCEPT ![x] = new],
           new # NoRun => RunOK(new, documents, versions, root),
           folder' \in [Roots -> [Paths -> MaybeContents]],
           manifest' \in [Roots -> [Paths -> Facets]],
           nodes' \in [Paths -> SUBSET Chunk], bm25' \in [Paths -> SUBSET Chunk],
           budget' \in Budgets
    PROVE  SyncInv'
<1>1. /\ runs' \in [Runners -> Run \union {NoRun}]
      /\ \A y \in Runners : runs'[y] = IF y = x THEN new ELSE runs[y]
  BY DEF SyncInv, TypeOK
<1>2. TypeOK'
  BY <1>1 DEF SyncInv, TypeOK, Budgets
<1>3. RowsRecorded'
  BY DEF SyncInv, RowsRecorded
<1>4. RunsOK'
  BY <1>1 DEF SyncInv, RunsOK
<1> QED  BY <1>2, <1>3, <1>4 DEF SyncInv

LEMMA Outside ==
    ASSUME SyncInv, NEW r \in Roots, NEW p \in Paths,
           \/ \E c \in MaybeContents : Change(r, p, c)
           \/ \E f \in Facets : Relabel(r, p, f)
    PROVE  SyncInv'
<1>1. budget' \in Budgets
  BY SpendTypes DEF SyncInv, Change, Relabel
<1>2. UNCHANGED <<stores, runs>>
  BY DEF Change, Relabel
<1>3. /\ folder' \in [Roots -> [Paths -> MaybeContents]]
      /\ manifest' \in [Roots -> [Paths -> Facets]]
  <2>1. folder \in [Roots -> [Paths -> MaybeContents]] /\ manifest \in [Roots -> [Paths -> Facets]]
    BY DEF SyncInv, TypeOK
  <2>2. CASE \E c \in MaybeContents : Change(r, p, c)
    <3>1. PICK c \in MaybeContents : Change(r, p, c)
      BY <2>2
    <3>2. folder' = [folder EXCEPT ![r] = [folder[r] EXCEPT ![p] = c]] /\ manifest' = manifest
      BY <3>1 DEF Change
    <3>3. [folder[r] EXCEPT ![p] = c] \in [Paths -> MaybeContents]
      BY <2>1
    <3> QED  BY <2>1, <3>2, <3>3
  <2>3. CASE \E f \in Facets : Relabel(r, p, f)
    <3>1. PICK f \in Facets : Relabel(r, p, f)
      BY <2>3
    <3>2. manifest' = [manifest EXCEPT ![r] = [manifest[r] EXCEPT ![p] = f]] /\ folder' = folder
      BY <3>1 DEF Relabel
    <3>3. [manifest[r] EXCEPT ![p] = f] \in [Paths -> Facets]
      BY <2>1
    <3> QED  BY <2>1, <3>2, <3>3
  <2> QED  BY <2>2, <2>3
<1>4. TypeOK'
  BY <1>1, <1>2, <1>3 DEF SyncInv, TypeOK, Budgets, stores
<1>5. RowsRecorded' /\ RunsOK'
  BY <1>2 DEF SyncInv, RowsRecorded, RunsOK, stores
<1> QED  BY <1>4, <1>5 DEF SyncInv

LEMMA RunOf ==
    ASSUME SyncInv, NEW x \in Runners, runs[x] # NoRun
    PROVE  /\ runs[x] \in Run /\ RunOK(runs[x], documents, versions, root)
           /\ runs[x].path \in Paths /\ runs[x].root \in Roots
           /\ runs[x].meta[runs[x].path] \in Facets
           /\ folder[runs[x].root][runs[x].path] \in MaybeContents
<1>1. runs[x] \in Run
  BY DEF SyncInv, TypeOK
<1> QED  BY <1>1 DEF SyncInv, TypeOK, RunsOK, Run

\* A run that ends or is killed leaves nothing behind.
LEMMA EndOK ==
    ASSUME SyncInv, NEW x \in Runners, End(x), UNCHANGED <<files, documents, versions, root, nodes>>,
           bm25' \in [Paths -> SUBSET Chunk], budget' \in Budgets
    PROVE  SyncInv'
  BY RunMoves DEF End, files, SyncInv, TypeOK

LEMMA StartOK ==
    ASSUME SyncInv, NEW x \in Runners, NEW r \in Roots, Start(x, r)
    PROVE  SyncInv'
<1> DEFINE listed == {p \in Paths : folder[r][p] # NoContent}
           new == [at |-> "next", root |-> r, found |-> listed, left |-> listed,
                   meta |-> manifest[r], path |-> CHOOSE p \in Paths : TRUE,
                   hash |-> NoContent, old |-> NoRow, seen |-> 0, decision |-> "unchanged",
                   loaded |-> NoContent, rows |-> [p \in Paths |-> NoRow], gone |-> {},
                   changed |-> FALSE]
<1>1. new \in Run
  <2>1. (CHOOSE p \in Paths : TRUE) \in Paths
    BY SyncAssumption
  <2>2. manifest[r] \in [Paths -> Facets]
    BY DEF SyncInv, TypeOK
  <2> QED  BY <2>1, <2>2 DEF Run, Stage, MaybeContents, MaybeRow, Decisions
<1>2. RunOK(new, documents, versions, root)
  BY DEF RunOK, Ingesting
<1>3. runs' = [runs EXCEPT ![x] = new] /\ UNCHANGED <<files, stores>>
  BY DEF Start
<1>4. budget' \in Budgets
  BY SpendTypes DEF SyncInv, Start
<1> HIDE DEF new
<1> QED  BY <1>1, <1>2, <1>3, <1>4, RunMoves DEF SyncInv, TypeOK, files, stores

LEMMA HashFileOK ==
    ASSUME SyncInv, NEW x \in Runners, NEW p \in Paths, HashFile(x, p)
    PROVE  SyncInv'
<1> DEFINE content == folder[runs[x].root][p]
           new == [runs[x] EXCEPT !.at = "select", !.path = p, !.hash = content,
                                  !.left = @ \ {p}]
<1>1. /\ runs[x] \in Run /\ RunOK(runs[x], documents, versions, root)
      /\ p \in runs[x].left /\ content \in MaybeContents
      /\ UNCHANGED <<files, stores, budget>>
  BY RunOf DEF HashFile, At, SyncInv, TypeOK, Run
<1>2. CASE content = NoContent
  <2>1. End(x)
    BY <1>2 DEF HashFile
  <2> QED  BY <1>1, <2>1, EndOK DEF SyncInv, TypeOK, Budgets, stores
<1>3. CASE content # NoContent
  <2>1. runs' = [runs EXCEPT ![x] = new]
    BY <1>3 DEF HashFile
  <2>2. new \in Run
    BY <1>1 DEF Run, Stage
  <2>3. RunOK(new, documents, versions, root)
    BY <1>1, <1>3 DEF RunOK, Run, Ingesting, MaybeContents
  <2> HIDE DEF new
  <2> QED
    BY <1>1, <2>1, <2>2, <2>3, RunMoves DEF SyncInv, TypeOK, Budgets, files, stores
<1> QED  BY <1>2, <1>3

LEMMA SelectOK ==
    ASSUME SyncInv, NEW x \in Runners, Select(x)
    PROVE  SyncInv'
<1> DEFINE q == runs[x]
           p == q.path
           decided == Decision(documents[p], versions[p], q.hash)
           new == [q EXCEPT !.at = "begin", !.old = documents[p],
                            !.seen = Len(versions[p]), !.decision = decided]
<1>1. /\ q \in Run /\ RunOK(q, documents, versions, root) /\ p \in Paths
      /\ q.at = "select" /\ UNCHANGED <<files, stores, budget>>
      /\ documents[p] \in MaybeRow /\ versions[p] \in Seq(VersionRow)
  BY RunOf DEF Select, At, SyncInv, TypeOK
<1>2. CASE decided = "unchanged"
  <2> DEFINE next == [q EXCEPT !.at = "next"]
  <2>1. runs' = [runs EXCEPT ![x] = next]
    BY <1>2 DEF Select
  <2>2. next \in Run /\ RunOK(next, documents, versions, root)
    BY <1>1 DEF Run, Stage, RunOK, Ingesting
  <2> HIDE DEF next
  <2> QED  BY <1>1, <2>1, <2>2, RunMoves DEF SyncInv, TypeOK, Budgets, files, stores
<1>3. CASE decided = "ambiguous"
  <2>1. End(x)
    BY <1>3 DEF Select
  <2> QED  BY <1>1, <2>1, EndOK DEF SyncInv, TypeOK, Budgets, stores
<1>4. CASE decided \notin {"unchanged", "ambiguous"}
  <2>1. runs' = [runs EXCEPT ![x] = new]
    BY <1>4 DEF Select
  <2>2. decided = IF documents[p] = NoRow THEN "create" ELSE "supersede"
    <3>1. CASE documents[p] = NoRow
      BY <3>1 DEF Decision
    <3>2. CASE documents[p] # NoRow
      <4>1. RowsOf(versions[p], documents[p].version) # {}
        BY <1>1, <3>2 DEF SyncInv, RowsRecorded
      <4> QED  BY <1>4, <3>2, <4>1 DEF Decision
    <3> QED  BY <3>1, <3>2
  <2>3. Len(versions[p]) \in Nat
    BY <1>1
  <2>4. new \in Run
    BY <1>1, <2>2, <2>3 DEF Run, Stage, Decisions
  <2>5. RunOK(new, documents, versions, root)
    BY <1>1, <2>2, <2>3 DEF RunOK, Run, Ingesting
  <2> HIDE DEF new
  <2> QED  BY <1>1, <2>1, <2>4, <2>5, RunMoves DEF SyncInv, TypeOK, Budgets, files, stores
<1> QED  BY <1>2, <1>3, <1>4

\* What an ingestion does between its commits.
LEMMA StoresOK ==
    ASSUME SyncInv, NEW x \in Runners, Purge(x) \/ Load(x) \/ Store(x)
    PROVE  SyncInv'
<1> DEFINE q == runs[x]
           p == q.path
           content == folder[q.root][p]
<1>1. /\ q \in Run /\ RunOK(q, documents, versions, root) /\ p \in Paths
      /\ content \in MaybeContents /\ q.meta[p] \in Facets
      /\ UNCHANGED <<files, documents, versions, root, bm25, budget>>
      /\ nodes \in [Paths -> SUBSET Chunk]
  BY RunOf DEF Purge, Load, Store, At, SyncInv, TypeOK, stores
<1>2. CASE Purge(x)
  <2> DEFINE new == [q EXCEPT !.at = "load"]
  <2>1. runs' = [runs EXCEPT ![x] = new] /\ q.at = "purge" /\ nodes' \in [Paths -> SUBSET Chunk]
    BY <1>1, <1>2 DEF Purge, At
  <2>2. new \in Run /\ RunOK(new, documents, versions, root)
    BY <1>1, <2>1 DEF Run, Stage, RunOK, Ingesting
  <2> HIDE DEF new
  <2> QED  BY <1>1, <2>1, <2>2, RunMoves DEF SyncInv, TypeOK, Budgets, files
<1>3. CASE Load(x) /\ content = NoContent
  <2>1. End(x) /\ nodes' = nodes
    BY <1>3 DEF Load, stores
  <2> QED  BY <1>1, <2>1, EndOK DEF SyncInv, TypeOK, Budgets
<1>4. CASE Load(x) /\ content # NoContent
  <2> DEFINE new == [q EXCEPT !.at = "store", !.loaded = content]
  <2>1. runs' = [runs EXCEPT ![x] = new] /\ q.at = "load" /\ nodes' = nodes
    BY <1>4 DEF Load, At, stores
  <2>2. new \in Run /\ RunOK(new, documents, versions, root)
    BY <1>1, <1>4, <2>1 DEF Run, Stage, RunOK, Ingesting, MaybeContents
  <2> HIDE DEF new
  <2> QED  BY <1>1, <2>1, <2>2, RunMoves DEF SyncInv, TypeOK, Budgets, files
<1>5. CASE Store(x)
  <2> DEFINE new == [q EXCEPT !.at = "finalize"]
             chunk == [version |-> q.old.version, content |-> q.loaded, facet |-> q.meta[p]]
  <2>1. /\ runs' = [runs EXCEPT ![x] = new] /\ q.at = "store"
        /\ nodes' = [nodes EXCEPT ![p] = @ \union {chunk}]
    BY <1>5 DEF Store, At
  <2>2. q.old \in Row /\ q.loaded \in Contents
    BY <1>1, <2>1 DEF RunOK
  <2>3. chunk \in Chunk
    BY <1>1, <2>2 DEF Chunk, Row
  <2>4. nodes' \in [Paths -> SUBSET Chunk]
    BY <1>1, <2>1, <2>3
  <2>5. new \in Run /\ RunOK(new, documents, versions, root)
    BY <1>1, <2>1 DEF Run, Stage, RunOK, Ingesting
  <2> HIDE DEF new
  <2> QED  BY <1>1, <2>1, <2>4, <2>5, RunMoves DEF SyncInv, TypeOK, Budgets, files
<1> QED  BY <1>2, <1>3, <1>4, <1>5

LEMMA GoneOK ==
    ASSUME SyncInv, NEW x \in Runners, SelectGone(x) \/ \E p \in Paths : PurgeGone(x, p)
    PROVE  SyncInv'
<1> DEFINE q == runs[x]
<1>1. /\ q \in Run /\ RunOK(q, documents, versions, root)
      /\ UNCHANGED <<files, documents, versions, root, bm25, budget>>
  BY RunOf DEF SelectGone, PurgeGone, At, stores
<1>2. CASE SelectGone(x)
  <2> DEFINE rows == [p \in Paths |-> IF p \in Disappeared(x) THEN documents[p] ELSE NoRow]
             new == [q EXCEPT !.at = "gone", !.gone = Disappeared(x), !.rows = rows]
  <2>1. runs' = [runs EXCEPT ![x] = new] /\ nodes' = nodes
    BY <1>2 DEF SelectGone, stores
  <2>2. /\ Disappeared(x) \subseteq Paths /\ rows \in [Paths -> MaybeRow]
        /\ \A p \in Disappeared(x) : documents[p] # NoRow /\ root[p] = q.root
    BY DEF Disappeared, SyncInv, TypeOK, MaybeRow
  <2> HIDE DEF rows
  <2>3. new \in Run
    BY <1>1, <2>2 DEF Run, Stage
  <2>4. RunOK(new, documents, versions, root)
    BY <1>1, <2>2 DEF Run, RunOK, Ingesting, rows
  <2> HIDE DEF new
  <2> QED  BY <1>1, <2>1, <2>3, <2>4, RunMoves DEF SyncInv, TypeOK, Budgets, files
<1>3. ASSUME NEW p \in Paths, PurgeGone(x, p)  PROVE SyncInv'
  <2> DEFINE new == [q EXCEPT !.gone = @ \ {p}]
  <2>1. runs' = [runs EXCEPT ![x] = new] /\ nodes' = [nodes EXCEPT ![p] = {}]
    BY <1>3 DEF PurgeGone
  <2>2. new \in Run /\ RunOK(new, documents, versions, root)
    BY <1>1 DEF Run, RunOK, Ingesting
  <2> HIDE DEF new
  <2> QED  BY <1>1, <2>1, <2>2, RunMoves DEF SyncInv, TypeOK, Budgets, files
<1> QED  BY <1>2, <1>3

LEMMA EndsOK ==
    ASSUME SyncInv, NEW x \in Runners, Rebuild(x) \/ Abort(x)
    PROVE  SyncInv'
<1>1. budget' \in Budgets
  BY SpendTypes DEF SyncInv, TypeOK, Budgets, Rebuild, Abort
<1>2. End(x) /\ UNCHANGED <<files, documents, versions, root, nodes>>
  BY DEF Rebuild, Abort, stores
<1>3. bm25' \in [Paths -> SUBSET Chunk]
  BY DEF SyncInv, TypeOK, Rebuild, Abort, stores
<1> QED  BY <1>1, <1>2, <1>3, EndOK

-----------------------------------------------------------------------------
(* The commits                                                               *)

\* What any other run has in memory survives a commit.
LEMMA KeepsRunOK ==
    ASSUME NEW q \in Run, RunOK(q, documents, versions, root),
           \A p \in Paths : /\ documents[p] # NoRow => documents'[p] # NoRow /\ root'[p] = root[p]
                            /\ Len(versions[p]) <= Len(versions'[p]),
           \A p \in Paths : Len(versions[p]) \in Nat /\ Len(versions'[p]) \in Nat
    PROVE  RunOK(q, documents', versions', root')
<1>1. q.path \in Paths /\ q.seen \in Nat /\ q.gone \subseteq Paths
  BY DEF Run
<1>2. q.at = "begin" => q.seen <= Len(versions'[q.path])
  BY <1>1 DEF RunOK
<1> QED  BY <1>1, <1>2 DEF RunOK

\* A commit: the run x goes on, the registry moves.
LEMMA RegistryMoves ==
    ASSUME SyncInv, NEW x \in Runners, NEW new \in Run, runs' = [runs EXCEPT ![x] = new],
           documents' \in [Paths -> MaybeRow], versions' \in [Paths -> Seq(VersionRow)],
           root' \in [Paths -> Roots \union {NoRoot}],
           UNCHANGED <<files, nodes, bm25, budget>>,
           RowsRecorded', RunOK(new, documents', versions', root'),
           \A p \in Paths : /\ documents[p] # NoRow => documents'[p] # NoRow /\ root'[p] = root[p]
                            /\ Len(versions[p]) <= Len(versions'[p])
    PROVE  SyncInv'
<1>1. /\ runs' \in [Runners -> Run \union {NoRun}]
      /\ \A y \in Runners : runs'[y] = IF y = x THEN new ELSE runs[y]
  BY DEF SyncInv, TypeOK
<1>2. TypeOK'
  BY <1>1 DEF SyncInv, TypeOK, files
<1>3. \A p \in Paths : Len(versions[p]) \in Nat /\ Len(versions'[p]) \in Nat
  BY DEF SyncInv, TypeOK
<1>4. RunsOK'
  <2> SUFFICES ASSUME NEW y \in Runners, y # x, runs[y] # NoRun
               PROVE  RunOK(runs[y], documents', versions', root')
    BY <1>1 DEF RunsOK
  <2>1. runs[y] \in Run /\ RunOK(runs[y], documents, versions, root)
    BY RunOf
  <2> QED  BY <1>3, <2>1, KeepsRunOK
<1> QED  BY <1>2, <1>4 DEF SyncInv

\* The audit rows of p stay, whatever is added to them.
RowsStay(p) == \A i \in DOMAIN versions[p] :
    /\ i \in DOMAIN versions'[p]
    /\ versions'[p][i].version = versions[p][i].version
    /\ versions'[p][i].hash = versions[p][i].hash

\* The row a decision leaves; "create" and "supersede" are the only ones here.
LEMMA DecidedHere ==
    ASSUME NEW row \in MaybeRow, NEW h \in Contents, NEW f \in Facets
    PROVE  LET d == IF row = NoRow THEN "create" ELSE "supersede"
               new == Decided(d, row, h, f)
           IN  /\ new \in Row
               /\ new.version = IF row = NoRow THEN 1 ELSE row.version + 1
               /\ new.status = "processing" /\ new.hash = h
<1>1. CASE row = NoRow
  BY <1>1 DEF Decided, NewRow, Row, Status, MaybeContents
<1>2. CASE row # NoRow
  <2>1. row \in Row
    BY <1>2 DEF MaybeRow
  <2>2. Decided("supersede", row, h, f) = [row EXCEPT !.status = "processing", !.hash = h,
                                                      !.facet = f, !.version = @ + 1]
    BY DEF Decided
  <2> DEFINE new == Decided("supersede", row, h, f)
  <2>3. new \in Row /\ new.version = row.version + 1
    BY <2>1, DecidedRow
  <2>4. new.status = "processing" /\ new.hash = h
    BY <2>1, <2>2 DEF Row
  <2> HIDE DEF new
  <2> QED  BY <1>2, <2>3, <2>4 DEF new
<1> QED  BY <1>1, <1>2

LEMMA BeginOK ==
    ASSUME SyncInv, NEW x \in Runners, Begin(x)
    PROVE  SyncInv' /\ \A p \in Paths : RowsStay(p)
<1> DEFINE q == runs[x]
           p == q.path
           old == q.old
           new == Decided(q.decision, old, q.hash, q.meta[p])
           row == Committed(documents[p], old, new)
           vs == RecordedSince(x, versions[p])
           next == [q EXCEPT !.old = new, !.at = IF IsNew(q.decision) THEN "load" ELSE "purge"]
<1>1. /\ q \in Run /\ RunOK(q, documents, versions, root) /\ p \in Paths
      /\ q.at = "begin" /\ q.meta[p] \in Facets
      /\ UNCHANGED <<files, nodes, bm25, budget>>
      /\ documents \in [Paths -> MaybeRow] /\ versions \in [Paths -> Seq(VersionRow)]
      /\ root \in [Paths -> Roots \union {NoRoot}]
  BY RunOf DEF Begin, At, SyncInv, TypeOK
<1>2. /\ q.hash \in Contents /\ old \in MaybeRow /\ q.seen <= Len(versions[p])
      /\ q.decision = IF old = NoRow THEN "create" ELSE "supersede"
      /\ old # NoRow => documents[p] # NoRow
  BY <1>1 DEF RunOK, Run, Ingesting
<1>3. CASE Conflict(documents[p], old)
  <2>1. End(x) /\ UNCHANGED <<documents, versions, root>>
    BY <1>3 DEF Begin
  <2>2. SyncInv'
    BY <1>1, <2>1, EndOK DEF SyncInv, TypeOK, Budgets
  <2> QED  BY <2>1, <2>2 DEF RowsStay
<1>4. CASE ~Conflict(documents[p], old)
  <2>1. /\ documents' = [documents EXCEPT ![p] = row]
        /\ versions' = [versions EXCEPT ![p] = vs]
        /\ root' = [root EXCEPT ![p] = RootKept(x)]
        /\ runs' = [runs EXCEPT ![x] = next]
    BY <1>4 DEF Begin
  <2>2. new \in Row /\ new.version = IF old = NoRow THEN 1 ELSE old.version + 1
    BY <1>1, <1>2, DecidedHere
  <2>3. /\ vs \in Seq(VersionRow) /\ Len(vs) = Len(versions[p]) + 1
        /\ \A i \in 1 .. Len(versions[p]) :
             vs[i].version = versions[p][i].version /\ vs[i].hash = versions[p][i].hash
        /\ vs[Len(versions[p]) + 1] =
             NewVersion(IF old = NoRow THEN 1 ELSE old.version + 1, q.hash)
    <3>1. /\ runs[x] \in Run /\ versions[p] \in Seq(VersionRow)
          /\ runs[x].seen <= Len(versions[p]) /\ runs[x].hash \in Contents
          /\ runs[x].decision = IF runs[x].old = NoRow THEN "create" ELSE "supersede"
      BY <1>1, <1>2
    <3> HIDE DEF p
    <3> QED  BY <3>1, RecordedSinceRows
  <2> HIDE DEF vs, new
  <2>4. Len(versions[p]) \in Nat /\ DOMAIN versions[p] = 1 .. Len(versions[p])
        /\ DOMAIN vs = 1 .. Len(versions[p]) + 1
    BY <1>1, <2>3
  <2>5. ASSUME NEW y \in Paths  PROVE RowsStay(y)
    <3>1. CASE y = p
      <4>1. versions'[y] = vs
        BY <1>1, <2>1, <3>1
      <4> QED  BY <2>3, <2>4, <3>1, <4>1 DEF RowsStay
    <3>2. CASE y # p
      BY <1>1, <2>1, <3>2 DEF RowsStay
    <3> QED  BY <3>1, <3>2
  <2>6. row \in Row
    <3>1. CASE old = NoRow
      BY <2>2, <3>1 DEF Committed
    <3>2. CASE old # NoRow
      BY <1>1, <1>2, <2>2, <3>2, CommittedRow DEF MaybeRow
    <3> QED  BY <3>1, <3>2
  <2>7. row.version = new.version
    <3>1. CASE old = NoRow
      BY <3>1 DEF Committed
    <3>2. CASE old # NoRow
      <4>1. old \in Row /\ old.version \in Nat
        BY <1>2, <3>2 DEF MaybeRow, Row
      <4>2. new.version # old.version
        BY <2>2, <3>2, <4>1
      <4> QED  BY <3>2, <4>2 DEF Committed, Written
    <3> QED  BY <3>1, <3>2
  <2>8. RowsOf(vs, row.version) # {}
    <3>1. vs[Len(versions[p]) + 1].version = row.version
      BY <2>2, <2>3, <2>7 DEF NewVersion
    <3> QED  BY <2>4, <3>1 DEF RowsOf
  <2> HIDE DEF row
  <2>9. RowsRecorded'
    BY <1>1, <2>1, <2>8 DEF SyncInv, RowsRecorded
  <2>10. documents' \in [Paths -> MaybeRow] /\ versions' \in [Paths -> Seq(VersionRow)]
    BY <1>1, <2>1, <2>3, <2>6 DEF MaybeRow
  <2>11. /\ root' \in [Paths -> Roots \union {NoRoot}]
         /\ documents[p] # NoRow => root' = root
    <3>1. RootKept(x) \in Roots \union {NoRoot}
      BY <1>1 DEF RootKept, Run
    <3>2. documents[p] # NoRow => RootKept(x) = root[p]
      BY <1>4 DEF Conflict, RootKept
    <3> QED  BY <1>1, <2>1, <3>1, <3>2
  <2>12. \A y \in Paths : /\ documents[y] # NoRow => documents'[y] # NoRow /\ root'[y] = root[y]
                          /\ Len(versions[y]) <= Len(versions'[y])
    BY <1>1, <2>1, <2>3, <2>4, <2>6, <2>11, NoRowAssumption
  <2>13. next \in Run
    BY <1>1, <2>2 DEF Run, Stage, MaybeRow
  <2>14. RunOK(next, documents', versions', root')
    <3>1. documents'[p] # NoRow
      BY <1>1, <2>1, <2>6, NoRowAssumption
    <3> QED  BY <1>1, <1>2, <2>2, <2>12, <3>1 DEF RunOK, Run, Ingesting
  <2> HIDE DEF next
  <2> QED
    BY <1>1, <2>1, <2>5, <2>9, <2>10, <2>11, <2>12, <2>13, <2>14, RegistryMoves
<1> QED  BY <1>3, <1>4

\* Writing the chunk count moves nothing else.
LEMMA FinalizedRows ==
    ASSUME NEW vs \in Seq(VersionRow), NEW n \in Nat, NEW c \in Contents
    PROVE  LET new == FinalizedVersions(vs, n, c) IN
           /\ new \in Seq(VersionRow) /\ Len(new) = Len(vs) /\ DOMAIN new = DOMAIN vs
           /\ \A i \in DOMAIN vs :
                /\ new[i].version = vs[i].version /\ new[i].hash = vs[i].hash
                /\ new[i].superseded <=> vs[i].superseded
<1> DEFINE new == FinalizedVersions(vs, n, c)
<1>1. DOMAIN vs = 1 .. Len(vs) /\ Len(vs) \in Nat /\ \A i \in 1 .. Len(vs) : vs[i] \in VersionRow
  OBVIOUS
<1>2. new = [i \in 1 .. Len(vs) |-> IF vs[i].version = n
                                    THEN [vs[i] EXCEPT !.chunks = c] ELSE vs[i]]
  BY <1>1 DEF FinalizedVersions, RowsOf
<1> HIDE DEF new
<1>3. \A i \in 1 .. Len(vs) :
        /\ new[i] \in VersionRow
        /\ new[i].version = vs[i].version /\ new[i].hash = vs[i].hash
        /\ new[i].superseded <=> vs[i].superseded
  BY <1>1, <1>2 DEF VersionRow, MaybeContents
<1>4. new \in [1 .. Len(vs) -> VersionRow]
  BY <1>2, <1>3
<1>5. new \in Seq(VersionRow) /\ Len(new) = Len(vs)
  BY <1>1, <1>4, FunctionIsSeq
<1> QED  BY <1>1, <1>3, <1>5 DEF new

LEMMA FinalizedRow ==
    ASSUME NEW row \in Row, NEW c \in Contents
    PROVE  /\ Finalized(row, c) \in Row /\ Finalized(row, c).version = row.version
           /\ Finalized(row, c).status = "completed" /\ Finalized(row, c).hash = row.hash
  BY DEF Finalized, Row, Status, MaybeContents

LEMMA FinalizeOK ==
    ASSUME SyncInv, NEW x \in Runners, Finalize(x)
    PROVE  SyncInv' /\ \A p \in Paths : RowsStay(p)
<1> DEFINE q == runs[x]
           p == q.path
           old == q.old
           new == Finalized(old, q.loaded)
           row == Committed(documents[p], old, new)
           vs == FinalizedVersions(versions[p], old.version, q.loaded)
           next == [q EXCEPT !.at = "next", !.changed = TRUE]
<1>1. /\ q \in Run /\ RunOK(q, documents, versions, root) /\ p \in Paths
      /\ q.at = "finalize" /\ UNCHANGED <<files, root, nodes, bm25, budget>>
      /\ documents \in [Paths -> MaybeRow] /\ versions \in [Paths -> Seq(VersionRow)]
  BY RunOf DEF Finalize, At, SyncInv, TypeOK
<1>2. old \in Row /\ documents[p] \in Row /\ q.loaded \in Contents /\ old.version \in Nat
  BY <1>1 DEF RunOK, MaybeRow, Row
<1>3. CASE Ambiguous(versions[p], old.version)
  <2>1. End(x) /\ UNCHANGED <<documents, versions>>
    BY <1>3 DEF Finalize
  <2>2. SyncInv'
    BY <1>1, <2>1, EndOK DEF SyncInv, TypeOK, Budgets
  <2> QED  BY <2>1, <2>2 DEF RowsStay
<1>4. CASE ~Ambiguous(versions[p], old.version)
  <2>1. /\ documents' = [documents EXCEPT ![p] = row]
        /\ versions' = [versions EXCEPT ![p] = vs]
        /\ runs' = [runs EXCEPT ![x] = next]
    BY <1>4 DEF Finalize
  <2>2. new \in Row /\ new.version = old.version
    BY <1>2, FinalizedRow
  <2>3. /\ vs \in Seq(VersionRow) /\ Len(vs) = Len(versions[p]) /\ DOMAIN vs = DOMAIN versions[p]
        /\ \A i \in DOMAIN versions[p] :
             vs[i].version = versions[p][i].version /\ vs[i].hash = versions[p][i].hash
    <3>1. versions[p] \in Seq(VersionRow) /\ old.version \in Nat /\ q.loaded \in Contents
      BY <1>1, <1>2
    <3> DEFINE rows == versions[p]
               n == old.version
               c == q.loaded
    <3>2. rows \in Seq(VersionRow) /\ n \in Nat /\ c \in Contents
          /\ vs = FinalizedVersions(rows, n, c)
      BY <3>1
    <3> HIDE DEF rows, n, c, vs
    <3>3. /\ vs \in Seq(VersionRow) /\ Len(vs) = Len(rows) /\ DOMAIN vs = DOMAIN rows
          /\ \A i \in DOMAIN rows : vs[i].version = rows[i].version /\ vs[i].hash = rows[i].hash
      BY <3>2, FinalizedRows
    <3> QED  BY <3>3 DEF rows
  <2>4. row \in Row /\ row.version = documents[p].version
    BY <1>2, <2>2, CommittedRow
  <2>5. RowsOf(vs, row.version) = RowsOf(versions[p], documents[p].version)
    BY <2>3, <2>4 DEF RowsOf
  <2> HIDE DEF vs, new, row
  <2>6. ASSUME NEW y \in Paths  PROVE RowsStay(y)
    BY <1>1, <2>1, <2>3 DEF RowsStay
  <2>7. documents' \in [Paths -> MaybeRow] /\ versions' \in [Paths -> Seq(VersionRow)]
    BY <1>1, <2>1, <2>3, <2>4 DEF MaybeRow
  <2>8. RowsRecorded'
    BY <1>1, <1>2, <2>1, <2>5, NoRowAssumption DEF SyncInv, RowsRecorded
  <2>9. \A y \in Paths : /\ documents[y] # NoRow => documents'[y] # NoRow /\ root'[y] = root[y]
                         /\ Len(versions[y]) <= Len(versions'[y])
    <3>1. \A y \in Paths : Len(versions'[y]) = Len(versions[y]) /\ Len(versions[y]) \in Nat
      BY <1>1, <2>1, <2>3
    <3> QED  BY <1>1, <2>1, <2>4, <3>1, NoRowAssumption
  <2>10. next \in Run
    BY <1>1 DEF Run, Stage
  <2>11. RunOK(next, documents', versions', root')
    BY <1>1, <2>9 DEF RunOK, Run, Ingesting
  <2> HIDE DEF next
  <2> QED
    BY <1>1, <2>1, <2>6, <2>7, <2>8, <2>9, <2>10, <2>11, RegistryMoves
       DEF SyncInv, TypeOK
<1> QED  BY <1>3, <1>4

LEMMA CommitGoneOK ==
    ASSUME SyncInv, NEW x \in Runners, CommitGone(x)
    PROVE  SyncInv'
<1> DEFINE q == runs[x]
           next == [q EXCEPT !.at = "rebuild",
                             !.changed = @ \/ \E p \in Paths : q.rows[p] # NoRow]
<1>1. /\ q \in Run /\ RunOK(q, documents, versions, root) /\ q.at = "gone"
      /\ UNCHANGED <<files, versions, root, nodes, bm25, budget>>
      /\ documents \in [Paths -> MaybeRow] /\ versions \in [Paths -> Seq(VersionRow)]
      /\ documents' = [p \in Paths |->
           IF q.rows[p] = NoRow THEN documents[p]
           ELSE Committed(documents[p], q.rows[p], Deleted(q.rows[p]))]
      /\ runs' = [runs EXCEPT ![x] = next]
  BY RunOf DEF CommitGone, At, SyncInv, TypeOK
<1>2. ASSUME NEW p \in Paths
      PROVE  /\ documents'[p] \in MaybeRow
             /\ documents[p] # NoRow => documents'[p] # NoRow
             /\ documents'[p] # NoRow => documents[p] # NoRow
                                         /\ documents'[p].version = documents[p].version
  <2>1. CASE q.rows[p] = NoRow
    BY <1>1, <2>1
  <2>2. CASE q.rows[p] # NoRow
    <3>1. q.rows[p] \in Row /\ documents[p] \in Row
      BY <1>1, <2>2 DEF RunOK, Run, MaybeRow
    <3>2. Deleted(q.rows[p]) \in Row /\ Deleted(q.rows[p]).version = q.rows[p].version
      BY <3>1 DEF Deleted, Row, Status
    <3> QED  BY <1>1, <2>2, <3>1, <3>2, CommittedRow, NoRowAssumption DEF MaybeRow
  <2> QED  BY <2>1, <2>2
<1>3. documents' \in [Paths -> MaybeRow]
  BY <1>1, <1>2
<1>4. RowsRecorded'
  BY <1>1, <1>2 DEF SyncInv, RowsRecorded
<1>5. \A y \in Paths : /\ documents[y] # NoRow => documents'[y] # NoRow /\ root'[y] = root[y]
                       /\ Len(versions[y]) <= Len(versions'[y])
  BY <1>1, <1>2
<1>6. next \in Run
  <2>1. (q.changed \/ \E p \in Paths : q.rows[p] # NoRow) \in BOOLEAN
    BY <1>1 DEF Run
  <2> QED  BY <1>1, <2>1 DEF Run, Stage
<1>7. RunOK(next, documents', versions', root')
  BY <1>1, <1>5 DEF RunOK, Run, Ingesting
<1> HIDE DEF next
<1> QED
  BY <1>1, <1>3, <1>4, <1>5, <1>6, <1>7, RegistryMoves DEF SyncInv, TypeOK

-----------------------------------------------------------------------------
(* What holds of every run, whatever overlaps                                *)

LEMMA SyncInit == Init => SyncInv
<1> SUFFICES ASSUME Init  PROVE SyncInv
  OBVIOUS
<1>1. TypeOK
  BY SyncAssumption DEF Init, TypeOK, Empty, MaybeRow
<1>2. RowsRecorded
  BY DEF Init, RowsRecorded
<1>3. RunsOK
  BY DEF Init, RunsOK
<1> QED  BY <1>1, <1>2, <1>3 DEF SyncInv

LEMMA SyncStep == SyncInv /\ [Next]_vars => SyncInv' /\ \A p \in Paths : RowsStay(p)
<1> SUFFICES ASSUME SyncInv, [Next]_vars
             PROVE  SyncInv' /\ \A p \in Paths : RowsStay(p)
  OBVIOUS
<1>1. ASSUME UNCHANGED versions  PROVE \A p \in Paths : RowsStay(p)
  BY <1>1 DEF RowsStay
<1>2. ASSUME NEW r \in Roots, NEW p \in Paths,
             \/ \E c \in MaybeContents : Change(r, p, c)
             \/ \E f \in Facets : Relabel(r, p, f)
      PROVE  SyncInv' /\ UNCHANGED versions
  BY <1>2, Outside DEF Change, Relabel, stores
<1>3. ASSUME NEW x \in Runners, NEW r \in Roots, Start(x, r)
      PROVE  SyncInv' /\ UNCHANGED versions
  BY <1>3, StartOK DEF Start, stores
<1>4. ASSUME NEW x \in Runners, NEW p \in Paths, HashFile(x, p) \/ PurgeGone(x, p)
      PROVE  SyncInv' /\ UNCHANGED versions
  BY <1>4, HashFileOK, GoneOK DEF HashFile, PurgeGone, stores
<1>5. ASSUME NEW x \in Runners,
             \/ Select(x) \/ Purge(x) \/ Load(x) \/ Store(x)
             \/ SelectGone(x) \/ CommitGone(x) \/ Rebuild(x) \/ Abort(x)
      PROVE  SyncInv' /\ UNCHANGED versions
  BY <1>5, SelectOK, StoresOK, GoneOK, CommitGoneOK, EndsOK
     DEF Select, Purge, Load, Store, SelectGone, CommitGone, Rebuild, Abort, stores
<1>6. ASSUME NEW x \in Runners, Begin(x) \/ Finalize(x)
      PROVE  SyncInv' /\ \A p \in Paths : RowsStay(p)
  BY <1>6, BeginOK, FinalizeOK
<1>7. CASE UNCHANGED vars
  BY <1>1, <1>7 DEF vars, SyncInv, TypeOK, RowsRecorded, RunsOK
<1> QED  BY <1>1, <1>2, <1>3, <1>4, <1>5, <1>6, <1>7 DEF Next

\* What the command line keeps in memory and writes is what it expects to read
\* again, in any interleaving of runs and changes of files.
THEOREM SyncTypes == Spec => []TypeOK
<1>1. SyncInv => TypeOK
  BY DEF SyncInv
<1> QED  BY <1>1, SyncInit, SyncStep, PTL DEF Spec

\* No run, however it interleaves with others, loses an audit row that another
\* one committed, and no row is ever at a version that has none.
THEOREM AuditKeptHolds == Spec => AuditKept
<1>1. SyncInv' /\ (\A p \in Paths : RowsStay(p)) =>
        \A p \in Paths :
         /\ \A i \in DOMAIN versions[p] :
              /\ i \in DOMAIN versions'[p]
              /\ versions'[p][i].version = versions[p][i].version
              /\ versions'[p][i].hash = versions[p][i].hash
         /\ documents'[p] # NoRow =>
              RowsOf(versions'[p], documents'[p].version) # {}
  BY DEF SyncInv, RowsRecorded, RowsStay
<1> QED  BY <1>1, SyncInit, SyncStep, PTL DEF Spec, AuditKept

\* A commit of an ingestion does not delete.
LEMMA CommitsLive ==
    ASSUME NEW db \in Row, NEW old \in MaybeRow, NEW new \in Row,
           new.status # "deleted", IsLive(db)
    PROVE  IsLive(Committed(db, old, new))
<1>1. CASE old = NoRow
  BY <1>1, NoRowAssumption DEF Committed, IsLive
<1>2. CASE old # NoRow
  <2>1. Committed(db, old, new) \in Row
    BY <1>2, CommittedRow DEF MaybeRow
  <2>2. Committed(db, old, new).status \in {db.status, new.status}
    BY <1>2 DEF Committed, Written
  <2> QED  BY <2>1, <2>2, NoRowAssumption DEF IsLive
<1> QED  BY <1>1, <1>2

LEMMA IngestionsKeepLive ==
    ASSUME SyncInv, NEW x \in Runners, Begin(x) \/ Finalize(x), NEW p \in Paths,
           IsLive(documents[p])
    PROVE  IsLive(documents'[p])
<1> DEFINE q == runs[x]
<1>1. /\ q \in Run /\ RunOK(q, documents, versions, root) /\ q.path \in Paths
      /\ documents \in [Paths -> MaybeRow] /\ documents[p] \in Row
  BY RunOf DEF Begin, Finalize, At, SyncInv, TypeOK, IsLive, MaybeRow
<1>2. CASE documents' = documents
  BY <1>2
<1>3. CASE Begin(x) /\ documents' # documents
  <2> DEFINE new == Decided(q.decision, q.old, q.hash, q.meta[q.path])
  <2>1. documents' = [documents EXCEPT ![q.path] = Committed(@, q.old, new)]
    BY <1>3 DEF Begin
  <2>2. /\ q.old \in MaybeRow /\ q.hash \in Contents /\ q.meta[q.path] \in Facets
        /\ q.decision = IF q.old = NoRow THEN "create" ELSE "supersede"
    BY <1>1, <1>3 DEF Begin, At, RunOK, Run, Ingesting
  <2>3. new \in Row /\ new.status = "processing"
    BY <2>2, DecidedHere
  <2> HIDE DEF new
  <2>4. CASE p = q.path
    BY <1>1, <2>1, <2>2, <2>3, <2>4, CommitsLive
  <2>5. CASE p # q.path
    BY <1>1, <2>1, <2>5
  <2> QED  BY <2>4, <2>5
<1>4. CASE Finalize(x) /\ documents' # documents
  <2> DEFINE new == Finalized(q.old, q.loaded)
  <2>1. documents' = [documents EXCEPT ![q.path] = Committed(@, q.old, new)]
    BY <1>4 DEF Finalize
  <2>2. q.old \in Row /\ q.loaded \in Contents
    BY <1>1, <1>4 DEF Finalize, At, RunOK
  <2>3. new \in Row /\ new.status = "completed"
    BY <2>2, FinalizedRow DEF Finalized, Row
  <2> HIDE DEF new
  <2>4. CASE p = q.path
    BY <1>1, <2>1, <2>2, <2>3, <2>4, CommitsLive DEF MaybeRow
  <2>5. CASE p # q.path
    BY <1>1, <2>1, <2>5
  <2> QED  BY <2>4, <2>5
<1> QED  BY <1>2, <1>3, <1>4

\* The rows a deletion pass selected are rows of its root, and stay so.
LEMMA RowsGoByTheirRoot ==
    ASSUME SyncInv, [Next]_vars, NEW p \in Paths, IsLive(documents[p]), ~IsLive(documents'[p])
    PROVE  \E x \in Runners : runs[x] # NoRun /\ runs[x].root = root[p]
<1>1. documents' # documents
  OBVIOUS
<1>2. ASSUME NEW x \in Runners, CommitGone(x)
      PROVE  runs[x] # NoRun /\ runs[x].root = root[p]
  <2>1. runs[x] # NoRun /\ RunOK(runs[x], documents, versions, root)
    BY <1>2, RunOf DEF CommitGone, At
  <2>2. runs[x].rows[p] # NoRow
    BY <1>2 DEF CommitGone
  <2> QED  BY <2>1, <2>2 DEF RunOK
<1>3. ASSUME NEW r \in Roots, NEW y \in Paths,
             \/ \E c \in MaybeContents : Change(r, y, c)
             \/ \E g \in Facets : Relabel(r, y, g)
      PROVE  FALSE
  BY <1>1, <1>3 DEF Change, Relabel, stores
<1>4. ASSUME NEW x \in Runners,
             \/ \E r \in Roots : Start(x, r)
             \/ \E y \in Paths : HashFile(x, y) \/ PurgeGone(x, y)
             \/ Select(x) \/ Purge(x) \/ Load(x) \/ Store(x)
             \/ SelectGone(x) \/ Rebuild(x) \/ Abort(x)
      PROVE  FALSE
  BY <1>1, <1>4 DEF Start, HashFile, PurgeGone, Select, Purge, Load, Store, SelectGone,
     Rebuild, Abort, stores
<1>5. Next
  BY <1>1 DEF vars
<1> QED  BY <1>2, <1>3, <1>4, <1>5, IngestionsKeepLive DEF Next

\* Only the deletion pass over its root, and the purge of an ingestion of the same
\* tenant and path, take a document's nodes away.
LEMMA NodesGoByTheirRoot ==
    ASSUME SyncInv, [Next]_vars, NEW p \in Paths, nodes[p] # {}, nodes'[p] = {}
    PROVE  \E x \in Runners : \/ runs[x] # NoRun /\ runs[x].root = root[p]
                              \/ Replacing(x, p)
<1>1. nodes \in [Paths -> SUBSET Chunk] /\ nodes' # nodes
  BY DEF SyncInv, TypeOK
<1>2. ASSUME NEW x \in Runners, Purge(x)  PROVE Replacing(x, p)
  <2>1. p = runs[x].path
    BY <1>1, <1>2 DEF Purge
  <2> QED  BY <1>2, <2>1 DEF Purge, Replacing
<1>3. ASSUME NEW x \in Runners, NEW y \in Paths, PurgeGone(x, y)
      PROVE  runs[x] # NoRun /\ runs[x].root = root[p]
  <2>1. runs[x] # NoRun /\ RunOK(runs[x], documents, versions, root)
    BY <1>3, RunOf DEF PurgeGone, At
  <2>2. p = y
    BY <1>1, <1>3 DEF PurgeGone
  <2> QED  BY <1>3, <2>1, <2>2 DEF PurgeGone, RunOK
<1>4. ASSUME NEW x \in Runners, Store(x)  PROVE FALSE
  BY <1>1, <1>4 DEF Store
<1>5. ASSUME NEW r \in Roots, NEW y \in Paths,
             \/ \E c \in MaybeContents : Change(r, y, c)
             \/ \E g \in Facets : Relabel(r, y, g)
      PROVE  FALSE
  BY <1>1, <1>5 DEF Change, Relabel, stores
<1>6. ASSUME NEW x \in Runners,
             \/ \E r \in Roots : Start(x, r)
             \/ \E y \in Paths : HashFile(x, y)
             \/ Select(x) \/ SelectGone(x) \/ Abort(x)
      PROVE  FALSE
  BY <1>1, <1>6 DEF Start, HashFile, Select, SelectGone, Abort, stores
<1>7. ASSUME NEW x \in Runners,
             \/ Begin(x) \/ Load(x) \/ Finalize(x) \/ CommitGone(x) \/ Rebuild(x)
      PROVE  FALSE
  BY <1>1, <1>7 DEF Begin, Load, Finalize, CommitGone, Rebuild, stores
<1>8. Next
  BY <1>1 DEF vars
<1> QED  BY <1>2, <1>3, <1>4, <1>5, <1>6, <1>7, <1>8 DEF Next

\* A row is deleted, and the nodes of a document go, only in a run over the root
\* it was ingested from; else the nodes go only in a run that ingests the same
\* tenant and path from elsewhere.
THEOREM OtherRootsUntouchedHolds == Spec => OtherRootsUntouched
<1>1. SyncInv /\ [Next]_vars =>
        \A p \in Paths :
         /\ IsLive(documents[p]) /\ ~IsLive(documents'[p]) =>
              \E x \in Runners : runs[x] # NoRun /\ runs[x].root = root[p]
         /\ nodes[p] # {} /\ nodes'[p] = {} =>
              \E x \in Runners : \/ runs[x] # NoRun /\ runs[x].root = root[p]
                                 \/ Replacing(x, p)
  BY RowsGoByTheirRoot, NodesGoByTheirRoot
<1> QED  BY <1>1, SyncInit, SyncStep, PTL DEF Spec, OtherRootsUntouched

-----------------------------------------------------------------------------
(* One run at a time                                                         *)

\* Effects of a step on the runs.
LEMMA TurnMoves ==
    ASSUME SyncInv, TurnInv, NEW x \in Runners, runs[x] # NoRun \/ Quiet,
           NEW new, runs' = [runs EXCEPT ![x] = new]
    PROVE  /\ Alone' /\ runs'[x] = new
           /\ \A y \in Runners : runs'[y] # NoRun => y = x
<1>1. \A y \in Runners : runs'[y] = IF y = x THEN new ELSE runs[y]
  BY DEF SyncInv, TypeOK
<1>2. \A y \in Runners : runs'[y] # NoRun => y = x
  BY <1>1 DEF TurnInv, Alone, Quiet
<1> QED  BY <1>1, <1>2 DEF Alone

\* A step that leaves the registry and the files alone.
LEMMA TurnGoesOn ==
    ASSUME SyncInv, TurnInv, NEW x \in Runners, runs[x] # NoRun \/ Quiet,
           NEW new, runs' = [runs EXCEPT ![x] = new], UNCHANGED <<documents, versions>>,
           runs'[x] # NoRun => Knows(x)'
    PROVE  TurnInv'
<1>1. Alone' /\ \A y \in Runners : runs'[y] # NoRun => y = x
  BY TurnMoves
<1>2. Trails'
  BY DEF TurnInv, Trails
<1> QED  BY <1>1, <1>2 DEF TurnInv

LEMMA TurnOf ==
    ASSUME SyncInv, TurnInv, NEW x \in Runners, runs[x] # NoRun
    PROVE  /\ runs[x] \in Run /\ RunOK(runs[x], documents, versions, root) /\ Knows(x)
           /\ runs[x].path \in Paths /\ runs[x].root \in Roots
           /\ runs[x].meta[runs[x].path] \in Facets
           /\ Trail(versions[runs[x].path]) /\ versions[runs[x].path] \in Seq(VersionRow)
           /\ documents[runs[x].path] \in MaybeRow
<1>1. /\ runs[x] \in Run /\ RunOK(runs[x], documents, versions, root)
      /\ runs[x].path \in Paths /\ runs[x].root \in Roots
      /\ runs[x].meta[runs[x].path] \in Facets
  BY RunOf
<1> QED  BY <1>1 DEF TurnInv, Trails, SyncInv, TypeOK

\* Beside a trail no SELECT finds two audit rows.
LEMMA NeverAmbiguous ==
    ASSUME NEW vs \in Seq(VersionRow), Trail(vs), NEW n \in Nat
    PROVE  ~Ambiguous(vs, n)
<1>1. RowsOf(vs, n) = {n} \cap DOMAIN vs
  BY RowsOfTrail
<1> QED  BY <1>1 DEF Ambiguous

LEMMA StartsTurn ==
    ASSUME Overlapping = FALSE, SyncInv, TurnInv, NEW x \in Runners, NEW r \in Roots, Start(x, r)
    PROVE  /\ Quiet /\ UNCHANGED <<files, stores>>
           /\ budget'.errors = budget.errors
           /\ runs' = [runs EXCEPT ![x] = runs'[x]]
           /\ runs'[x].at = "next" /\ runs'[x].root = r /\ runs'[x].changed = FALSE
           /\ runs'[x].found = {p \in Paths : folder[r][p] # NoContent}
           /\ runs'[x].left = runs'[x].found
<1> DEFINE listed == {p \in Paths : folder[r][p] # NoContent}
           new == [at |-> "next", root |-> r, found |-> listed, left |-> listed,
                   meta |-> manifest[r], path |-> CHOOSE p \in Paths : TRUE,
                   hash |-> NoContent, old |-> NoRow, seen |-> 0, decision |-> "unchanged",
                   loaded |-> NoContent, rows |-> [p \in Paths |-> NoRow], gone |-> {},
                   changed |-> FALSE]
<1>1. /\ Quiet /\ UNCHANGED <<files, stores>> /\ runs' = [runs EXCEPT ![x] = new]
      /\ budget' = [budget EXCEPT !["runs"] = @ - 1]
  BY DEF Start, Spend
<1>2. budget'.errors = budget.errors
  BY <1>1 DEF SyncInv, TypeOK
<1>3. /\ new.at = "next" /\ new.root = r /\ new.changed = FALSE
      /\ new.found = listed /\ new.left = listed
  OBVIOUS
<1> HIDE DEF new
<1>4. runs'[x] = new
  BY <1>1 DEF SyncInv, TypeOK
<1> QED  BY <1>1, <1>2, <1>3, <1>4

LEMMA HashesInTurn ==
    ASSUME SyncInv, TurnInv, NEW x \in Runners, NEW p \in Paths, HashFile(x, p)
    PROVE  LET q == runs[x] IN
           /\ q.at = "next" /\ p \in q.left /\ folder[q.root][p] \in Contents
           /\ UNCHANGED <<files, stores, budget>>
           /\ runs' = [runs EXCEPT ![x] = [q EXCEPT !.at = "select", !.path = p,
                                       !.hash = folder[q.root][p], !.left = @ \ {p}]]
<1> DEFINE q == runs[x]
<1>1. /\ q # NoRun /\ q.at = "next" /\ p \in q.left /\ UNCHANGED <<files, stores, budget>>
  BY DEF HashFile, At
<1>2. q \in Run /\ RunOK(q, documents, versions, root) /\ Knows(x)
  BY <1>1, TurnOf
<1>3. folder[q.root][p] # NoContent /\ folder[q.root][p] \in MaybeContents
  BY <1>1, <1>2 DEF RunOK, Run, Knows, SyncInv, TypeOK
<1>4. runs' = [runs EXCEPT ![x] = [q EXCEPT !.at = "select", !.path = p,
                                       !.hash = folder[q.root][p], !.left = @ \ {p}]]
  BY <1>3 DEF HashFile
<1> QED  BY <1>1, <1>3, <1>4 DEF MaybeContents

LEMMA SelectsInTurn ==
    ASSUME SyncInv, TurnInv, NEW x \in Runners, Select(x)
    PROVE  LET q == runs[x]
               p == q.path
               decided == Decision(documents[p], versions[p], q.hash)
           IN
           /\ q.at = "select" /\ UNCHANGED <<files, stores, budget>>
           /\ \/ /\ documents[p] # NoRow /\ Unchanged(documents[p], q.hash)
                 /\ runs' = [runs EXCEPT ![x] = [q EXCEPT !.at = "next"]]
              \/ runs' = [runs EXCEPT ![x] = [q EXCEPT !.at = "begin", !.old = documents[p],
                             !.seen = Len(versions[p]), !.decision = decided]]
<1> DEFINE q == runs[x]
           p == q.path
           decided == Decision(documents[p], versions[p], q.hash)
<1>1. q # NoRun /\ q.at = "select" /\ UNCHANGED <<files, stores, budget>>
  BY DEF Select, At
<1>2. /\ Trail(versions[p]) /\ versions[p] \in Seq(VersionRow) /\ documents[p] \in MaybeRow
  BY <1>1, TurnOf
<1>3. CASE decided = "unchanged"
  <2>1. documents[p] # NoRow /\ Unchanged(documents[p], q.hash)
    BY <1>3 DEF Decision
  <2>2. runs' = [runs EXCEPT ![x] = [q EXCEPT !.at = "next"]]
    BY <1>3 DEF Select
  <2> QED  BY <1>1, <2>1, <2>2
<1>4. CASE decided = "ambiguous"
  <2>1. documents[p] # NoRow /\ Ambiguous(versions[p], documents[p].version)
    BY <1>4 DEF Decision
  <2>2. documents[p].version \in Nat
    BY <1>2, <2>1 DEF MaybeRow, Row
  <2> QED  BY <1>2, <2>1, <2>2, NeverAmbiguous
<1>5. CASE decided \notin {"unchanged", "ambiguous"}
  <2>1. runs' = [runs EXCEPT ![x] = [q EXCEPT !.at = "begin", !.old = documents[p],
                             !.seen = Len(versions[p]), !.decision = decided]]
    BY <1>5 DEF Select
  <2> QED  BY <1>1, <2>1
<1> QED  BY <1>3, <1>4, <1>5

LEMMA BeginsInTurn ==
    ASSUME SyncInv, TurnInv, NEW x \in Runners, Begin(x)
    PROVE  LET q == runs[x]
               p == q.path
           IN
           /\ q.at = "begin" /\ UNCHANGED <<files, nodes, bm25, budget>>
           /\ \E new \in Row, vs \in Seq(VersionRow) :
                /\ new.status = "processing" /\ new.hash = q.hash
                /\ Trail(vs) /\ vs # <<>> /\ new.version = Len(vs)
                /\ documents' = [documents EXCEPT ![p] = new]
                /\ versions' = [versions EXCEPT ![p] = vs]
                /\ documents[p] # NoRow => root' = root
                /\ \A y \in Paths : y # p => root'[y] = root[y]
                /\ runs' = [runs EXCEPT ![x] = [q EXCEPT !.old = new,
                              !.at = IF documents[p] = NoRow THEN "load" ELSE "purge"]]
<1> DEFINE q == runs[x]
           p == q.path
           old == q.old
           new == Decided(q.decision, old, q.hash, q.meta[p])
           vs == RecordedSince(x, versions[p])
           version == IF old = NoRow THEN 1 ELSE old.version + 1
<1>1. q # NoRun /\ q.at = "begin" /\ UNCHANGED <<files, nodes, bm25, budget>>
  BY DEF Begin, At
<1>2. /\ q \in Run /\ RunOK(q, documents, versions, root) /\ Knows(x)
      /\ p \in Paths /\ q.meta[p] \in Facets
      /\ Trail(versions[p]) /\ versions[p] \in Seq(VersionRow)
      /\ documents[p] \in MaybeRow
  BY <1>1, TurnOf
<1>3. /\ q.hash \in Contents /\ old = documents[p] /\ q.seen = Len(versions[p])
      /\ q.seen <= Len(versions[p])
      /\ q.decision = IF old = NoRow THEN "create" ELSE "supersede"
  BY <1>1, <1>2 DEF RunOK, Ingesting, Knows
<1>4. ~Conflict(documents[p], old)
  BY <1>3 DEF Conflict
<1>5. /\ new \in Row /\ new.version = version
      /\ new.status = "processing" /\ new.hash = q.hash
  BY <1>2, <1>3, DecidedHere
<1>6. /\ vs \in Seq(VersionRow) /\ Len(vs) = Len(versions[p]) + 1
      /\ \A i \in 1 .. Len(versions[p]) :
           /\ vs[i].version = versions[p][i].version /\ vs[i].hash = versions[p][i].hash
           /\ vs[i].superseded <=> versions[p][i].superseded \/
                (/\ i <= q.seen /\ old # NoRow
                 /\ versions[p][i].version = old.version)
      /\ vs[Len(versions[p]) + 1] = NewVersion(version, q.hash)
  <2> DEFINE rows == versions[p]
  <2>1. rows \in Seq(VersionRow) /\ q.seen <= Len(rows)
    BY <1>2, <1>3
  <2> HIDE DEF rows
  <2>2. LET mine == RecordedSince(x, rows) IN
        /\ mine \in Seq(VersionRow) /\ Len(mine) = Len(rows) + 1
        /\ \A i \in 1 .. Len(rows) :
             /\ mine[i].version = rows[i].version /\ mine[i].hash = rows[i].hash
             /\ mine[i].superseded <=> rows[i].superseded \/
                  (/\ i <= q.seen /\ old # NoRow
                   /\ rows[i].version = old.version)
        /\ mine[Len(rows) + 1] = NewVersion(version, q.hash)
    BY <1>2, <1>3, <2>1, RecordedSinceRows
  <2> QED  BY <2>2 DEF rows
<1>7. /\ documents' = [documents EXCEPT ![p] = Committed(documents[p], old, new)]
      /\ versions' = [versions EXCEPT ![p] = vs]
      /\ root' = [root EXCEPT ![p] = RootKept(x)]
      /\ runs' = [runs EXCEPT ![x] = [q EXCEPT !.old = new,
                    !.at = IF IsNew(q.decision) THEN "load" ELSE "purge"]]
  BY <1>4 DEF Begin
<1> HIDE DEF new, vs
<1>8. Committed(documents[p], old, new) = new
  <2>1. CASE old = NoRow
    BY <2>1 DEF Committed
  <2>2. CASE old # NoRow
    BY <1>2, <1>3, <1>5, <2>2, CommittedFresh DEF MaybeRow
  <2> QED  BY <2>1, <2>2
<1>9. IsNew(q.decision) <=> documents[p] = NoRow
  <2>1. CASE old = NoRow
    BY <1>3, <2>1 DEF IsNew
  <2>2. CASE old # NoRow
    <3>1. q.decision = "supersede"
      BY <1>3, <2>2
    <3> QED  BY <1>3, <2>2, <3>1 DEF IsNew
  <2> QED  BY <2>1, <2>2
<1>10. version = Len(versions[p]) + 1
  <2>1. p \in Paths /\ Trails
    BY <1>2 DEF TurnInv
  <2>2. CASE old = NoRow
    <3>1. versions[p] = <<>>
      BY <1>3, <2>1, <2>2 DEF Trails
    <3>2. Len(versions[p]) = 0
      BY <3>1
    <3> QED  BY <2>2, <3>2
  <2>3. CASE old # NoRow
    BY <1>3, <2>1, <2>3 DEF Trails
  <2> QED  BY <2>2, <2>3
<1>11. Len(versions[p]) \in Nat /\ DOMAIN versions[p] = 1 .. Len(versions[p])
       /\ DOMAIN vs = 1 .. Len(versions[p]) + 1
  BY <1>2, <1>6
<1>12. Trail(vs) /\ vs # <<>>
  <2>1. ASSUME NEW i \in 1 .. Len(versions[p])
        PROVE  vs[i].version = i /\ vs[i].superseded
    <3>1. versions[p][i].version = i /\ (versions[p][i].superseded <=> i < Len(versions[p]))
      BY <1>2, <1>11 DEF Trail
    <3>2. old # NoRow /\ old.version = Len(versions[p])
      BY <1>2, <1>3, <1>11 DEF TurnInv, Trails
    <3>3. CASE i < Len(versions[p])
      BY <1>6, <3>1, <3>3
    <3>4. CASE i = Len(versions[p])
      BY <1>3, <1>6, <3>1, <3>2, <3>4
    <3> QED  BY <1>6, <1>11, <3>1, <3>3, <3>4
  <2>2. vs[Len(vs)].version = Len(vs) /\ ~vs[Len(vs)].superseded
    BY <1>6, <1>10, <1>11 DEF NewVersion
  <2> DEFINE n == Len(versions[p])
  <2>3. n \in Nat /\ Len(vs) = n + 1 /\ DOMAIN vs = 1 .. n + 1
    BY <1>6, <1>11
  <2>4. \A i \in 1 .. n : vs[i].version = i /\ vs[i].superseded
    BY <2>1
  <2> HIDE DEF n
  <2>5. ASSUME NEW i \in 1 .. n + 1
        PROVE  vs[i].version = i /\ (vs[i].superseded <=> i < n + 1)
    <3>1. CASE i = n + 1
      BY <2>2, <2>3, <3>1
    <3>2. CASE i # n + 1
      BY <2>3, <2>4, <3>2
    <3> QED  BY <3>1, <3>2
  <2> QED  BY <2>3, <2>5 DEF Trail
<1>13. /\ documents[p] # NoRow => root' = root
       /\ \A y \in Paths : y # p => root'[y] = root[y]
  <2>1. root \in [Paths -> Roots \union {NoRoot}]
    BY DEF SyncInv, TypeOK
  <2>2. documents[p] # NoRow => RootKept(x) = root[p]
    BY <1>3 DEF RootKept
  <2> QED  BY <1>2, <1>7, <2>1, <2>2
<1>14. new.version = Len(vs)
  BY <1>5, <1>6, <1>10
<1>15. runs' = [runs EXCEPT ![x] = [q EXCEPT !.old = new,
                    !.at = IF documents[p] = NoRow THEN "load" ELSE "purge"]]
  BY <1>7, <1>9
<1>16. documents' = [documents EXCEPT ![p] = new]
  BY <1>7, <1>8
<1> QED  BY <1>1, <1>5, <1>6, <1>7, <1>12, <1>13, <1>14, <1>15, <1>16

LEMMA LoadsInTurn ==
    ASSUME SyncInv, TurnInv, NEW x \in Runners, Load(x)
    PROVE  LET q == runs[x] IN
           /\ q.at = "load" /\ UNCHANGED <<files, stores, budget>>
           /\ runs' = [runs EXCEPT ![x] = [q EXCEPT !.at = "store", !.loaded = q.hash]]
<1> DEFINE q == runs[x]
<1>1. q # NoRun /\ q.at = "load" /\ UNCHANGED <<files, stores, budget>>
  BY DEF Load, At
<1>2. RunOK(q, documents, versions, root) /\ Knows(x)
  BY <1>1, TurnOf
<1>3. folder[q.root][q.path] = q.hash /\ q.hash # NoContent
  BY <1>1, <1>2, NoContentAssumption DEF RunOK, Ingesting, Knows
<1> QED  BY <1>1, <1>3 DEF Load

LEMMA FinalizesInTurn ==
    ASSUME SyncInv, TurnInv, NEW x \in Runners, Finalize(x)
    PROVE  LET q == runs[x]
               p == q.path
           IN
           /\ q.at = "finalize" /\ UNCHANGED <<files, root, nodes, bm25, budget>>
           /\ documents[p] \in Row
           /\ \E new \in Row, vs \in Seq(VersionRow) :
                /\ new.status = "completed" /\ new.hash = documents[p].hash
                /\ new.version = documents[p].version
                /\ Trail(vs) /\ Len(vs) = Len(versions[p])
                /\ documents' = [documents EXCEPT ![p] = new]
                /\ versions' = [versions EXCEPT ![p] = vs]
                /\ runs' = [runs EXCEPT ![x] = [q EXCEPT !.at = "next", !.changed = TRUE]]
<1> DEFINE q == runs[x]
           p == q.path
           old == q.old
           new == Finalized(old, q.loaded)
           vs == FinalizedVersions(versions[p], old.version, q.loaded)
<1>1. q # NoRun /\ q.at = "finalize" /\ UNCHANGED <<files, root, nodes, bm25, budget>>
  BY DEF Finalize, At
<1>2. /\ RunOK(q, documents, versions, root) /\ Knows(x)
      /\ Trail(versions[p]) /\ versions[p] \in Seq(VersionRow)
  BY <1>1, TurnOf
<1>3. /\ old \in Row /\ old = documents[p] /\ old.version \in Nat /\ q.loaded \in Contents
  BY <1>1, <1>2 DEF RunOK, Knows, Row
<1>4. ~Ambiguous(versions[p], old.version)
  BY <1>2, <1>3, NeverAmbiguous
<1>5. /\ documents' = [documents EXCEPT ![p] = Committed(documents[p], old, new)]
      /\ versions' = [versions EXCEPT ![p] = vs]
      /\ runs' = [runs EXCEPT ![x] = [q EXCEPT !.at = "next", !.changed = TRUE]]
  BY <1>4 DEF Finalize
<1>6. /\ new \in Row /\ new.version = old.version
      /\ new.status = "completed" /\ new.hash = old.hash
  BY <1>3, FinalizedRow
<1>7. vs \in Seq(VersionRow) /\ Trail(vs) /\ Len(vs) = Len(versions[p])
  BY <1>2, <1>3, FinalizedTrail
<1> HIDE DEF new, vs
<1>8. Committed(documents[p], old, new) = new
  BY <1>3, <1>6, CommittedFresh
<1> QED  BY <1>1, <1>3, <1>5, <1>6, <1>7, <1>8

LEMMA CommitsGoneInTurn ==
    ASSUME SyncInv, TurnInv, NEW x \in Runners, CommitGone(x)
    PROVE  LET q == runs[x] IN
           /\ q.at = "gone" /\ q.gone = {}
           /\ UNCHANGED <<files, versions, root, nodes, bm25, budget>>
           /\ \A p \in Paths :
                IF q.rows[p] = NoRow THEN documents'[p] = documents[p]
                ELSE /\ documents[p] # NoRow
                     /\ documents'[p] # NoRow /\ documents'[p].status = "deleted"
                     /\ documents'[p].version = documents[p].version
           /\ runs' = [runs EXCEPT ![x] = [q EXCEPT !.at = "rebuild",
                         !.changed = @ \/ \E p \in Paths : q.rows[p] # NoRow]]
<1> DEFINE q == runs[x]
<1>1. /\ q # NoRun /\ q.at = "gone" /\ q.gone = {}
      /\ UNCHANGED <<files, versions, root, nodes, bm25, budget>>
      /\ documents' = [p \in Paths |->
           IF q.rows[p] = NoRow THEN documents[p]
           ELSE Committed(documents[p], q.rows[p], Deleted(q.rows[p]))]
      /\ runs' = [runs EXCEPT ![x] = [q EXCEPT !.at = "rebuild",
                         !.changed = @ \/ \E p \in Paths : q.rows[p] # NoRow]]
  BY DEF CommitGone, At
<1>2. q \in Run /\ Knows(x)
  BY <1>1, TurnOf
<1>3. ASSUME NEW p \in Paths
      PROVE  IF q.rows[p] = NoRow THEN documents'[p] = documents[p]
             ELSE /\ documents[p] # NoRow
                  /\ documents'[p] # NoRow /\ documents'[p].status = "deleted"
                  /\ documents'[p].version = documents[p].version
  <2>1. CASE q.rows[p] = NoRow
    BY <1>1, <2>1
  <2>2. CASE q.rows[p] # NoRow
    <3>1. q.rows[p] = documents[p] /\ documents[p] \in Row
      BY <1>1, <1>2, <2>2 DEF Knows, Run, MaybeRow
    <3> DEFINE row == documents[p]
               new == Deleted(row)
    <3>2. new \in Row /\ new.status = "deleted" /\ new.version = row.version
      BY <3>1 DEF Deleted, Row, Status
    <3> HIDE DEF new
    <3>3. Committed(row, row, new) = new
      BY <3>1, <3>2, CommittedFresh
    <3>4. documents'[p] = new
      BY <1>1, <2>2, <3>1, <3>3 DEF new
    <3> QED  BY <2>2, <3>1, <3>2, <3>4, NoRowAssumption
  <2> QED  BY <2>1, <2>2
<1> QED  BY <1>1, <1>3

LEMMA TurnInit == Init => TurnInv
  BY DEF Init, TurnInv, Alone, Trails, Trail

LEMMA TurnStep ==
    ASSUME Overlapping = FALSE, SyncInv, TurnInv, [Next]_vars
    PROVE  TurnInv'
<1>1. ASSUME NEW r \in Roots, NEW p \in Paths,
             \/ \E c \in MaybeContents : Change(r, p, c)
             \/ \E f \in Facets : Relabel(r, p, f)
      PROVE  TurnInv'
  <2>1. Quiet /\ UNCHANGED <<documents, versions, runs>>
    BY <1>1 DEF Change, Relabel, stores
  <2> QED  BY <2>1 DEF TurnInv, Alone, Trails, Quiet
<1>2. ASSUME NEW x \in Runners, NEW r \in Roots, Start(x, r)  PROVE TurnInv'
  <2>1. /\ runs' = [runs EXCEPT ![x] = runs'[x]]
        /\ runs'[x].at = "next" /\ runs'[x].root = r
        /\ runs'[x].found = {p \in Paths : folder[r][p] # NoContent}
    BY <1>2, StartsTurn
  <2>2. Quiet /\ UNCHANGED <<files, stores>>
    BY <1>2, StartsTurn
  <2>3. Knows(x)'
    <3>1. runs'[x].at = "next" /\ runs'[x].root = r /\ folder' = folder
      BY <2>1, <2>2 DEF files
    <3>2. ASSUME NEW p \in Paths
          PROVE  p \in runs'[x].found <=> folder[r][p] # NoContent
      BY <2>1
    <3> QED  BY <3>1, <3>2 DEF Knows, Ingesting
  <2> QED  BY <2>1, <2>2, <2>3, TurnGoesOn DEF stores
<1>3. ASSUME NEW x \in Runners, NEW p \in Paths, HashFile(x, p)  PROVE TurnInv'
  <2> DEFINE new == [runs[x] EXCEPT !.at = "select", !.path = p,
                          !.hash = folder[runs[x].root][p], !.left = @ \ {p}]
  <2>1. runs[x] # NoRun /\ runs' = [runs EXCEPT ![x] = new] /\ UNCHANGED <<files, stores>>
    BY <1>3, HashesInTurn DEF HashFile, At
  <2>2. runs'[x] = new /\ runs[x] \in Run /\ Knows(x)
    BY <2>1, TurnMoves, TurnOf
  <2>3. Knows(x)'
    <3>1. /\ new.found = runs[x].found /\ new.root = runs[x].root /\ new.at = "select"
          /\ new.path = p /\ new.hash = folder[runs[x].root][p] /\ folder' = folder
      BY <2>1, <2>2 DEF Run, files
    <3> HIDE DEF new
    <3> QED  BY <2>2, <3>1 DEF Knows
  <2> HIDE DEF new
  <2> QED  BY <2>1, <2>3, TurnGoesOn DEF stores
<1>4. ASSUME NEW x \in Runners, Select(x)  PROVE TurnInv'
  <2> DEFINE q == runs[x]
             p == q.path
             next == [q EXCEPT !.at = "next"]
             new == [q EXCEPT !.at = "begin", !.old = documents[p], !.seen = Len(versions[p]),
                         !.decision = Decision(documents[p], versions[p], q.hash)]
  <2>1. /\ q # NoRun /\ q.at = "select" /\ UNCHANGED <<files, stores>>
        /\ runs' = [runs EXCEPT ![x] = next] \/ runs' = [runs EXCEPT ![x] = new]
    BY <1>4, SelectsInTurn DEF Select, At
  <2>2. q \in Run /\ Knows(x) /\ UNCHANGED <<folder, documents, versions>>
    BY <2>1, TurnOf DEF files, stores
  <2>3. CASE runs' = [runs EXCEPT ![x] = next]
    <3>1. runs'[x] = next
      BY <2>1, <2>3, TurnMoves
    <3>2. next.found = q.found /\ next.root = q.root /\ next.at = "next"
      BY <2>2 DEF Run
    <3> HIDE DEF next
    <3>3. Knows(x)'
      BY <2>2, <3>1, <3>2 DEF Knows, Ingesting
    <3> QED  BY <2>1, <2>2, <2>3, <3>3, TurnGoesOn
  <2>4. CASE runs' = [runs EXCEPT ![x] = new]
    <3>1. runs'[x] = new
      BY <2>1, <2>4, TurnMoves
    <3>2. /\ new.found = q.found /\ new.root = q.root /\ new.at = "begin" /\ new.path = p
          /\ new.hash = q.hash /\ new.old = documents[p] /\ new.seen = Len(versions[p])
      BY <2>2 DEF Run
    <3> HIDE DEF new
    <3>3. Knows(x)'
      BY <2>1, <2>2, <3>1, <3>2 DEF Knows, Ingesting
    <3> QED  BY <2>1, <2>2, <2>4, <3>3, TurnGoesOn
  <2> QED  BY <2>1, <2>3, <2>4
<1>5. ASSUME NEW x \in Runners, Begin(x)  PROVE TurnInv'
  <2> DEFINE q == runs[x]
             p == q.path
  <2>1. PICK new \in Row, vs \in Seq(VersionRow) :
          /\ Trail(vs) /\ vs # <<>> /\ new.version = Len(vs)
          /\ documents' = [documents EXCEPT ![p] = new]
          /\ versions' = [versions EXCEPT ![p] = vs]
          /\ runs' = [runs EXCEPT ![x] = [q EXCEPT !.old = new,
                         !.at = IF documents[p] = NoRow THEN "load" ELSE "purge"]]
    BY <1>5, BeginsInTurn
  <2>2. q # NoRun /\ q.at = "begin" /\ UNCHANGED files
    BY <1>5, BeginsInTurn DEF Begin, At
  <2>3. /\ q \in Run /\ Knows(x) /\ p \in Paths
        /\ documents \in [Paths -> MaybeRow] /\ versions \in [Paths -> Seq(VersionRow)]
    BY <2>2, TurnOf DEF SyncInv, TypeOK
  <2> DEFINE next == [q EXCEPT !.old = new,
                         !.at = IF documents[p] = NoRow THEN "load" ELSE "purge"]
  <2>4. /\ Alone' /\ runs'[x] = next
        /\ \A y \in Runners : runs'[y] # NoRun => y = x
    BY <2>1, <2>2, TurnMoves
  <2>5. Knows(x)'
    <3>1. /\ next.found = q.found /\ next.root = q.root /\ next.path = p /\ next.hash = q.hash
          /\ next.at \in {"load", "purge"} /\ next.old = new
      BY <2>3 DEF Run
    <3>2. documents'[p] = new
      BY <2>1, <2>3
    <3> HIDE DEF next
    <3> QED  BY <2>2, <2>3, <2>4, <3>1, <3>2 DEF Knows, Ingesting, files
  <2>6. Trails'
    BY <2>1, <2>3, NoRowAssumption DEF TurnInv, Trails
  <2> QED  BY <2>4, <2>5, <2>6 DEF TurnInv
<1>6. ASSUME NEW x \in Runners, Load(x)  PROVE TurnInv'
  <2> DEFINE new == [runs[x] EXCEPT !.at = "store", !.loaded = runs[x].hash]
  <2>1. /\ runs[x] # NoRun /\ runs[x].at = "load" /\ UNCHANGED <<files, stores>>
        /\ runs' = [runs EXCEPT ![x] = new]
    BY <1>6, LoadsInTurn DEF Load, At
  <2>2. runs'[x] = new /\ runs[x] \in Run /\ Knows(x)
    BY <2>1, TurnMoves, TurnOf
  <2>3. Knows(x)'
    BY <2>1, <2>2 DEF Knows, Run, Ingesting, files, stores
  <2> HIDE DEF new
  <2> QED  BY <2>1, <2>3, TurnGoesOn DEF stores
<1>7. ASSUME NEW x \in Runners, NEW stage, \/ Purge(x) /\ stage = "load"
                                           \/ Store(x) /\ stage = "finalize"
      PROVE  TurnInv'
  <2> DEFINE new == [runs[x] EXCEPT !.at = stage]
  <2>1. /\ runs[x] # NoRun /\ runs[x].at \in {"purge", "store"}
        /\ UNCHANGED <<files, documents, versions>> /\ runs' = [runs EXCEPT ![x] = new]
        /\ stage \in {"load", "finalize"}
    BY <1>7 DEF Purge, Store, At
  <2>2. runs'[x] = new /\ runs[x] \in Run /\ Knows(x)
    BY <2>1, TurnMoves, TurnOf
  <2>3. Knows(x)'
    BY <2>1, <2>2 DEF Knows, Run, Ingesting, files
  <2> HIDE DEF new
  <2> QED  BY <2>1, <2>3, TurnGoesOn
<1>8. ASSUME NEW x \in Runners, Finalize(x)  PROVE TurnInv'
  <2> DEFINE q == runs[x]
             p == q.path
             next == [q EXCEPT !.at = "next", !.changed = TRUE]
  <2>1. PICK new \in Row, vs \in Seq(VersionRow) :
          /\ new.version = documents[p].version
          /\ Trail(vs) /\ Len(vs) = Len(versions[p])
          /\ documents' = [documents EXCEPT ![p] = new]
          /\ versions' = [versions EXCEPT ![p] = vs]
          /\ runs' = [runs EXCEPT ![x] = next]
    BY <1>8, FinalizesInTurn
  <2>2. q # NoRun /\ UNCHANGED files /\ documents[p] \in Row
    BY <1>8, FinalizesInTurn DEF Finalize, At
  <2>3. /\ q \in Run /\ Knows(x) /\ p \in Paths
        /\ documents \in [Paths -> MaybeRow] /\ versions \in [Paths -> Seq(VersionRow)]
    BY <2>2, TurnOf DEF SyncInv, TypeOK
  <2>4. /\ Alone' /\ runs'[x] = next
        /\ \A y \in Runners : runs'[y] # NoRun => y = x
    BY <2>1, <2>2, TurnMoves
  <2>5. Knows(x)'
    BY <2>2, <2>3, <2>4 DEF Knows, Run, Ingesting, files
  <2>6. Trails'
    <3>1. versions[p] # <<>> /\ documents[p].version = Len(versions[p])
      BY <2>2, <2>3, NoRowAssumption DEF TurnInv, Trails
    <3>2. vs # <<>>
      BY <2>1, <2>3, <3>1
    <3> QED  BY <2>1, <2>2, <2>3, <3>1, <3>2, NoRowAssumption DEF TurnInv, Trails
  <2> QED  BY <2>4, <2>5, <2>6 DEF TurnInv
<1>9. ASSUME NEW x \in Runners, SelectGone(x)  PROVE TurnInv'
  <2> DEFINE rows == [p \in Paths |-> IF p \in Disappeared(x) THEN documents[p] ELSE NoRow]
             new == [runs[x] EXCEPT !.at = "gone", !.gone = Disappeared(x), !.rows = rows]
  <2>1. runs[x] # NoRun /\ runs' = [runs EXCEPT ![x] = new] /\ UNCHANGED <<files, stores>>
    BY <1>9 DEF SelectGone, At
  <2>2. runs'[x] = new /\ runs[x] \in Run /\ Knows(x)
    BY <2>1, TurnMoves, TurnOf
  <2>3. \A p \in Paths : rows[p] \in {NoRow, documents[p]}
    OBVIOUS
  <2> HIDE DEF rows
  <2>4. Knows(x)'
    BY <2>1, <2>2, <2>3 DEF Knows, Run, Ingesting, files, stores
  <2> HIDE DEF new
  <2> QED  BY <2>1, <2>4, TurnGoesOn DEF stores
<1>10. ASSUME NEW x \in Runners, NEW p \in Paths, PurgeGone(x, p)  PROVE TurnInv'
  <2> DEFINE new == [runs[x] EXCEPT !.gone = @ \ {p}]
  <2>1. /\ runs[x] # NoRun /\ runs' = [runs EXCEPT ![x] = new]
        /\ UNCHANGED <<files, documents, versions>>
    BY <1>10 DEF PurgeGone, At
  <2>2. runs'[x] = new /\ runs[x] \in Run /\ Knows(x)
    BY <2>1, TurnMoves, TurnOf
  <2>3. Knows(x)'
    BY <2>1, <2>2 DEF Knows, Run, Ingesting, files
  <2> HIDE DEF new
  <2> QED  BY <2>1, <2>3, TurnGoesOn
<1>11. ASSUME NEW x \in Runners, CommitGone(x)  PROVE TurnInv'
  <2> DEFINE q == runs[x]
             new == [q EXCEPT !.at = "rebuild", !.changed = @ \/ \E p \in Paths : q.rows[p] # NoRow]
  <2>1. /\ q # NoRun /\ runs' = [runs EXCEPT ![x] = new] /\ UNCHANGED <<files, versions>>
        /\ \A p \in Paths :
             IF q.rows[p] = NoRow THEN documents'[p] = documents[p]
             ELSE /\ documents[p] # NoRow /\ documents'[p] # NoRow
                  /\ documents'[p].version = documents[p].version
    BY <1>11, CommitsGoneInTurn DEF CommitGone, At
  <2>2. /\ runs'[x] = new /\ runs[x] \in Run /\ Knows(x) /\ Alone'
        /\ \A y \in Runners : runs'[y] # NoRun => y = x
    <3>1. runs[x] # NoRun /\ runs' = [runs EXCEPT ![x] = new]
      BY <2>1
    <3>2. runs[x] \in Run /\ Knows(x)
      BY <3>1, TurnOf
    <3> HIDE DEF new, q
    <3> QED  BY <3>1, <3>2, TurnMoves
  <2>3. Knows(x)'
    <3>1. /\ new.found = q.found /\ new.root = q.root /\ new.at = "rebuild"
          /\ folder' = folder
      BY <2>1, <2>2 DEF Run, files
    <3> HIDE DEF new
    <3> QED  BY <2>2, <3>1 DEF Knows, Ingesting
  <2>4. Trails'
    BY <2>1 DEF TurnInv, Trails
  <2> QED  BY <2>2, <2>3, <2>4 DEF TurnInv
<1>12. ASSUME NEW x \in Runners, Rebuild(x) \/ Abort(x)  PROVE TurnInv'
  <2>1. /\ runs[x] # NoRun /\ runs' = [runs EXCEPT ![x] = NoRun]
        /\ UNCHANGED <<documents, versions>>
    BY <1>12 DEF Rebuild, Abort, At, End, stores
  <2>2. runs'[x] = NoRun
    BY <2>1, TurnMoves
  <2> QED  BY <2>1, <2>2, TurnGoesOn
<1>13. CASE UNCHANGED vars
  <2>1. UNCHANGED <<folder, documents, versions, runs>>
    BY <1>13 DEF vars
  <2>2. Alone' /\ Trails'
    BY <2>1 DEF TurnInv, Alone, Trails
  <2>3. ASSUME NEW x \in Runners, runs'[x] # NoRun  PROVE Knows(x)'
    <3>1. Knows(x)
      BY <2>1, <2>3 DEF TurnInv
    <3> QED  BY <2>1, <3>1 DEF Knows
  <2> QED  BY <2>2, <2>3 DEF TurnInv
<1> QED
  BY <1>1, <1>2, <1>3, <1>4, <1>5, <1>6, <1>7, <1>8, <1>9, <1>10, <1>11, <1>12, <1>13 DEF Next

\* One run at a time: whatever run or process died in between, every audit row
\* but the newest is superseded, and the newest is not.
THEOREM PreviousSupersededHolds ==
    ASSUME Overlapping = FALSE
    PROVE  Spec => []PreviousSuperseded
<1>1. SyncInv /\ TurnInv => PreviousSuperseded
  BY DEF TurnInv, Trails, Trail, PreviousSuperseded
<1>2. SyncInv /\ TurnInv /\ [Next]_vars => SyncInv' /\ TurnInv'
  BY SyncStep, TurnStep
<1> QED  BY <1>1, <1>2, SyncInit, TurnInit, PTL DEF Spec

-----------------------------------------------------------------------------
(* A run that reaches its end                                                *)

LEMMA SpentIsLess ==
    ASSUME TypeOK, NEW kind \in {"changes", "runs", "errors"}, Spend(kind)
    PROVE  /\ budget' # budget
           /\ kind = "errors" => budget'.errors # MaxErrors
           /\ kind # "errors" => budget'.errors = budget.errors
<1>1. /\ budget[kind] \in Nat /\ budget'[kind] = budget[kind] - 1
      /\ kind # "errors" => budget'.errors = budget.errors
      /\ kind = "errors" => budget[kind] <= MaxErrors
  BY SyncAssumption DEF Spend, TypeOK
<1>2. budget'[kind] # budget[kind]
  BY <1>1
<1>3. kind = "errors" => budget'.errors # MaxErrors
  <2> SUFFICES ASSUME kind = "errors"  PROVE budget'.errors # MaxErrors
    OBVIOUS
  <2>1. /\ budget.errors \in Nat /\ budget.errors <= MaxErrors
        /\ budget'.errors = budget.errors - 1
    BY <1>1
  <2> QED  BY <2>1, SyncAssumption
<1> QED  BY <1>1, <1>2, <1>3

\* The end of a run, when it was not killed, is its rebuild.
LEMMA CompletesByRebuild ==
    ASSUME TypeOK, [Next]_vars, NEW x \in Runners, Completes(x)
    PROVE  Rebuild(x)
<1>1. /\ runs[x] # NoRun /\ runs[x].at = "rebuild" /\ runs'[x] = NoRun /\ budget' = budget
      /\ runs \in [Runners -> Run \union {NoRun}]
  BY DEF Completes, At, TypeOK
<1>2. ASSUME NEW kind \in {"changes", "runs", "errors"}, Spend(kind)  PROVE FALSE
  BY <1>1, <1>2, SpentIsLess
<1>3. ASSUME NEW y \in Runners, runs[y] # NoRun => runs[y].at # "rebuild",
             NEW new, runs' = [runs EXCEPT ![y] = new]
      PROVE  FALSE
  <2>1. y # x
    BY <1>1, <1>3
  <2> QED  BY <1>1, <1>3, <2>1
<1>4. ASSUME NEW r \in Roots, NEW p \in Paths,
             \/ \E c \in MaybeContents : Change(r, p, c)
             \/ \E f \in Facets : Relabel(r, p, f)
      PROVE  FALSE
  BY <1>2, <1>4 DEF Change, Relabel
<1>5. ASSUME NEW y \in Runners, (\E r \in Roots : Start(y, r)) \/ Abort(y)  PROVE FALSE
  BY <1>2, <1>5 DEF Start, Abort
<1>6. ASSUME NEW y \in Runners, NEW p \in Paths, HashFile(y, p) \/ PurgeGone(y, p)
      PROVE  FALSE
  <2>1. runs[y] # NoRun /\ runs[y].at \in {"next", "gone"}
    BY <1>6 DEF HashFile, PurgeGone, At
  <2>2. \E new : runs' = [runs EXCEPT ![y] = new]
    BY <1>6 DEF HashFile, PurgeGone, End
  <2> QED  BY <1>3, <2>1, <2>2
<1>7. ASSUME NEW y \in Runners,
             \/ Select(y) \/ Begin(y) \/ Purge(y) \/ Load(y) \/ Store(y) \/ Finalize(y)
             \/ SelectGone(y) \/ CommitGone(y)
      PROVE  FALSE
  <2>1. runs[y] # NoRun /\ runs[y].at # "rebuild"
    BY <1>7 DEF Select, Begin, Purge, Load, Store, Finalize, SelectGone, CommitGone, At
  <2>2. CASE Select(y)
    <3>1. \E new : runs' = [runs EXCEPT ![y] = new]
      BY <2>2 DEF Select, End
    <3> QED  BY <1>3, <2>1, <3>1
  <2>3. CASE Begin(y)
    <3>1. \E new : runs' = [runs EXCEPT ![y] = new]
      BY <2>3 DEF Begin, End
    <3> QED  BY <1>3, <2>1, <3>1
  <2>4. CASE Load(y) \/ Finalize(y)
    <3>1. \E new : runs' = [runs EXCEPT ![y] = new]
      BY <2>4 DEF Load, Finalize, End
    <3> QED  BY <1>3, <2>1, <3>1
  <2>5. CASE Purge(y) \/ Store(y) \/ SelectGone(y) \/ CommitGone(y)
    <3>1. \E new : runs' = [runs EXCEPT ![y] = new]
      BY <2>5 DEF Purge, Store, SelectGone, CommitGone
    <3> QED  BY <1>3, <2>1, <3>1
  <2> QED  BY <1>7, <2>2, <2>3, <2>4, <2>5
<1>8. ASSUME NEW y \in Runners, Rebuild(y)  PROVE y = x
  <2>1. runs' = [runs EXCEPT ![y] = NoRun]
    BY <1>8 DEF Rebuild, End
  <2> QED  BY <1>1, <2>1
<1>9. runs' # runs
  BY <1>1
<1> QED
  BY <1>4, <1>5, <1>6, <1>7, <1>8, <1>9 DEF Next, vars

-----------------------------------------------------------------------------
(* The index                                                                 *)

\* While x runs, the index is stale only if x will rebuild it.
LEMMA FreshMoves ==
    ASSUME SyncInv, TurnInv, FreshInv, NEW x \in Runners, runs[x] # NoRun,
           NEW new \in Run, runs' = [runs EXCEPT ![x] = new], budget' = budget,
           WillRebuild(runs[x]) => WillRebuild(new),
           WillRebuild(new) \/ UNCHANGED <<nodes, bm25>>
    PROVE  FreshInv'
<1>1. runs'[x] = new /\ new # NoRun
  BY SyncAssumption DEF SyncInv, TypeOK
<1>2. CASE WillRebuild(new)
  <2>1. runs'[x] # NoRun /\ WillRebuild(runs'[x])
    BY <1>1, <1>2
  <2> QED  BY <2>1 DEF FreshInv, WillRebuild
<1>3. CASE ~WillRebuild(new)
  <2>1. budget.errors = MaxErrors => Fresh
    BY <1>3 DEF FreshInv, TurnInv, Alone
  <2> QED  BY <1>3, <2>1 DEF FreshInv, Fresh, Empty
<1> QED  BY <1>2, <1>3

LEMMA FreshInit == Init => FreshInv
  BY DEF Init, FreshInv, Fresh

LEMMA FreshStep ==
    ASSUME Overlapping = FALSE, SyncInv, TurnInv, FreshInv, [Next]_vars
    PROVE  FreshInv'
<1>1. ASSUME NEW r \in Roots, NEW p \in Paths,
             \/ \E c \in MaybeContents : Change(r, p, c)
             \/ \E f \in Facets : Relabel(r, p, f)
      PROVE  FreshInv'
  <2>1. UNCHANGED <<nodes, bm25, runs>> /\ budget'.errors = budget.errors
    BY <1>1, SpentIsLess DEF Change, Relabel, stores, SyncInv
  <2> QED  BY <2>1 DEF FreshInv, Fresh, Empty, WillRebuild
<1>2. ASSUME NEW x \in Runners, NEW r \in Roots, Start(x, r)  PROVE FreshInv'
  <2>1. Quiet /\ UNCHANGED <<nodes, bm25>> /\ budget'.errors = budget.errors
    BY <1>2, StartsTurn DEF stores
  <2> QED  BY <2>1 DEF FreshInv, Fresh, Empty, Quiet
<1>3. ASSUME NEW x \in Runners, NEW p \in Paths, HashFile(x, p)  PROVE FreshInv'
  <2> DEFINE q == runs[x]
             new == [q EXCEPT !.at = "select", !.path = p,
                          !.hash = folder[q.root][p], !.left = @ \ {p}]
  <2>1. /\ q # NoRun /\ q.at = "next" /\ UNCHANGED <<nodes, bm25, budget>>
        /\ folder[q.root][p] \in Contents /\ runs' = [runs EXCEPT ![x] = new]
    BY <1>3, HashesInTurn DEF HashFile, At, stores
  <2>2. q \in Run
    BY <2>1, TurnOf
  <2>3. new \in Run /\ new.changed = q.changed
    BY <2>1, <2>2 DEF Run, Stage, MaybeContents
  <2>4. WillRebuild(q) => WillRebuild(new)
    BY <2>1, <2>3 DEF WillRebuild
  <2> HIDE DEF new
  <2> QED  BY <2>1, <2>3, <2>4, FreshMoves
<1>4. ASSUME NEW x \in Runners, Select(x)  PROVE FreshInv'
  <2> DEFINE q == runs[x]
             p == q.path
             next == [q EXCEPT !.at = "next"]
             decided == Decision(documents[p], versions[p], q.hash)
             new == [q EXCEPT !.at = "begin", !.old = documents[p], !.seen = Len(versions[p]),
                         !.decision = decided]
  <2>1. /\ q # NoRun /\ q.at = "select" /\ UNCHANGED <<nodes, bm25, budget>>
        /\ runs' = [runs EXCEPT ![x] = next] \/ runs' = [runs EXCEPT ![x] = new]
    BY <1>4, SelectsInTurn DEF Select, At, stores
  <2>2. q \in Run /\ documents[p] \in MaybeRow /\ Len(versions[p]) \in Nat
    BY <2>1, TurnOf
  <2>3. decided \in Decisions
    BY DEF Decision, Decisions
  <2> HIDE DEF decided
  <2>4. next \in Run /\ next.changed = q.changed
    BY <2>2 DEF Run, Stage
  <2>5. new \in Run /\ new.changed = q.changed
    BY <2>2, <2>3 DEF Run, Stage
  <2> HIDE DEF next, new
  <2>6. WillRebuild(q) => WillRebuild(next) /\ WillRebuild(new)
    BY <2>1, <2>4, <2>5 DEF WillRebuild
  <2> QED  BY <2>1, <2>4, <2>5, <2>6, FreshMoves
<1>5. ASSUME NEW x \in Runners, Begin(x)  PROVE FreshInv'
  <2> DEFINE q == runs[x]
             p == q.path
  <2>1. PICK row \in Row, vs \in Seq(VersionRow) :
          runs' = [runs EXCEPT ![x] = [q EXCEPT !.old = row,
                         !.at = IF documents[p] = NoRow THEN "load" ELSE "purge"]]
    BY <1>5, BeginsInTurn
  <2> DEFINE new == [q EXCEPT !.old = row,
                         !.at = IF documents[p] = NoRow THEN "load" ELSE "purge"]
  <2>2. q # NoRun /\ UNCHANGED <<nodes, bm25, budget>>
    BY <1>5, BeginsInTurn DEF Begin, At
  <2>3. q \in Run
    BY <2>2, TurnOf
  <2>4. new \in Run /\ new.at \in {"load", "purge"}
    BY <2>3 DEF Run, Stage, MaybeRow
  <2>5. WillRebuild(new)
    BY <2>4 DEF WillRebuild
  <2>6. runs' = [runs EXCEPT ![x] = new]
    BY <2>1
  <2> HIDE DEF new
  <2> QED  BY <2>2, <2>4, <2>5, <2>6, FreshMoves
<1>6. ASSUME NEW x \in Runners, NEW stage, \/ Purge(x) /\ stage = "load"
                                           \/ Store(x) /\ stage = "finalize"
      PROVE  FreshInv'
  <2> DEFINE new == [runs[x] EXCEPT !.at = stage]
  <2>1. /\ runs[x] # NoRun /\ runs' = [runs EXCEPT ![x] = new] /\ budget' = budget
        /\ stage \in {"load", "finalize"}
    BY <1>6 DEF Purge, Store, At
  <2>2. new \in Run /\ new.at = stage
    BY <2>1, TurnOf DEF Run, Stage
  <2>3. WillRebuild(new)
    BY <2>1, <2>2 DEF WillRebuild
  <2> HIDE DEF new
  <2> QED  BY <2>1, <2>2, <2>3, FreshMoves
<1>7. ASSUME NEW x \in Runners, Load(x)  PROVE FreshInv'
  <2> DEFINE new == [runs[x] EXCEPT !.at = "store", !.loaded = runs[x].hash]
  <2>1. /\ runs[x] # NoRun /\ runs' = [runs EXCEPT ![x] = new] /\ budget' = budget
    BY <1>7, LoadsInTurn DEF Load, At
  <2>2. new \in Run /\ new.at = "store"
    <3>1. runs[x] \in Run
      BY <2>1, TurnOf
    <3> QED  BY <2>1, <3>1 DEF Run, Stage
  <2>3. WillRebuild(new)
    BY <2>2 DEF WillRebuild
  <2> HIDE DEF new
  <2> QED  BY <2>1, <2>2, <2>3, FreshMoves
<1>8. ASSUME NEW x \in Runners, Finalize(x)  PROVE FreshInv'
  <2> DEFINE new == [runs[x] EXCEPT !.at = "next", !.changed = TRUE]
  <2>1. runs[x] # NoRun /\ budget' = budget
    BY <1>8, FinalizesInTurn DEF Finalize, At
  <2>2. runs' = [runs EXCEPT ![x] = new]
    BY <1>8, FinalizesInTurn
  <2>3. new \in Run /\ new.changed = TRUE
    <3>1. runs[x] \in Run
      BY <2>1, TurnOf
    <3> QED  BY <2>1, <3>1 DEF Run, Stage
  <2>4. WillRebuild(new)
    BY <2>3 DEF WillRebuild
  <2> HIDE DEF new
  <2> QED  BY <2>1, <2>2, <2>3, <2>4, FreshMoves
<1>9. ASSUME NEW x \in Runners, SelectGone(x)  PROVE FreshInv'
  <2> DEFINE rows == [p \in Paths |-> IF p \in Disappeared(x) THEN documents[p] ELSE NoRow]
             new == [runs[x] EXCEPT !.at = "gone", !.gone = Disappeared(x), !.rows = rows]
  <2>1. /\ runs[x] # NoRun /\ runs' = [runs EXCEPT ![x] = new] /\ runs[x].at = "next"
        /\ UNCHANGED <<nodes, bm25, budget>>
    BY <1>9 DEF SelectGone, At, stores
  <2>2. Disappeared(x) \subseteq Paths /\ rows \in [Paths -> MaybeRow]
    BY DEF Disappeared, SyncInv, TypeOK, MaybeRow
  <2> HIDE DEF rows
  <2>3. new \in Run /\ new.changed = runs[x].changed
    <3>1. runs[x] \in Run
      BY <2>1, TurnOf
    <3> QED  BY <2>2, <3>1 DEF Run, Stage
  <2> HIDE DEF new
  <2>4. WillRebuild(runs[x]) => WillRebuild(new)
    BY <2>1, <2>3 DEF WillRebuild
  <2> QED  BY <2>1, <2>3, <2>4, FreshMoves
<1>10. ASSUME NEW x \in Runners, NEW p \in Paths, PurgeGone(x, p)  PROVE FreshInv'
  <2> DEFINE q == runs[x]
             new == [q EXCEPT !.gone = @ \ {p}]
  <2>1. /\ q # NoRun /\ runs' = [runs EXCEPT ![x] = new] /\ budget' = budget
        /\ q.at = "gone" /\ p \in q.gone
    BY <1>10 DEF PurgeGone, At
  <2>2. q \in Run /\ RunOK(q, documents, versions, root)
    BY <2>1, TurnOf
  <2>3. new \in Run /\ new.at = "gone" /\ new.rows = q.rows
    BY <2>1, <2>2 DEF Run
  <2>4. q.rows[p] # NoRow
    BY <2>1, <2>2 DEF RunOK
  <2> HIDE DEF new
  <2>5. WillRebuild(new)
    BY <2>3, <2>4 DEF WillRebuild
  <2> QED  BY <2>1, <2>3, <2>5, FreshMoves
<1>11. ASSUME NEW x \in Runners, CommitGone(x)  PROVE FreshInv'
  <2> DEFINE q == runs[x]
             some == \E p \in Paths : q.rows[p] # NoRow
             new == [q EXCEPT !.at = "rebuild", !.changed = @ \/ some]
  <2>1. /\ q # NoRun /\ runs' = [runs EXCEPT ![x] = new] /\ q.at = "gone"
        /\ UNCHANGED <<nodes, bm25, budget>>
    BY <1>11, CommitsGoneInTurn DEF CommitGone, At
  <2>2. q \in Run
    BY <2>1, TurnOf
  <2>3. some \in BOOLEAN
    OBVIOUS
  <2>4. WillRebuild(q) => q.changed \/ some
    BY <2>1 DEF WillRebuild
  <2> HIDE DEF some
  <2>5. new \in Run /\ new.changed = (q.changed \/ some)
    BY <2>2, <2>3 DEF Run, Stage
  <2> HIDE DEF new
  <2>6. WillRebuild(q) => WillRebuild(new)
    BY <2>4, <2>5 DEF WillRebuild
  <2> QED  BY <2>1, <2>5, <2>6, FreshMoves DEF new, some
<1>12. ASSUME NEW x \in Runners, Rebuild(x)  PROVE FreshInv'
  <2>1. /\ runs[x] # NoRun /\ runs[x].at = "rebuild" /\ nodes' = nodes /\ budget' = budget
        /\ bm25' = IF runs[x].changed /\ nodes # Empty THEN nodes ELSE bm25
    BY <1>12 DEF Rebuild, At
  <2>2. CASE budget.errors = MaxErrors
    <3>1. Fresh \/ WillRebuild(runs[x])
      BY <2>1, <2>2 DEF FreshInv, TurnInv, Alone
    <3>2. Fresh'
      BY <2>1, <3>1 DEF Fresh, WillRebuild, Empty
    <3> QED  BY <3>2 DEF FreshInv
  <2>3. CASE budget.errors # MaxErrors
    BY <2>1, <2>3 DEF FreshInv
  <2> QED  BY <2>2, <2>3
<1>13. ASSUME NEW x \in Runners, Abort(x)  PROVE FreshInv'
  BY <1>13, SpentIsLess DEF Abort, FreshInv, SyncInv
<1>14. CASE UNCHANGED vars
  BY <1>14 DEF vars, FreshInv, Fresh, Empty, WillRebuild
<1> QED
  BY <1>1, <1>2, <1>3, <1>4, <1>5, <1>6, <1>7, <1>8, <1>9, <1>10, <1>11, <1>12, <1>13, <1>14
     DEF Next

\* One run at a time: as long as nothing was aborted, the index holds what the
\* stores hold when a run has reached its end, although the run skips the rebuild
\* when it did nothing.
THEOREM RunRebuildsIndexHolds ==
    ASSUME Overlapping = FALSE
    PROVE  Spec => RunRebuildsIndex
<1> DEFINE Rebuilt == \A x \in Runners :
             Completes(x) /\ budget.errors = MaxErrors /\ nodes # Empty => bm25' = nodes
<1>1. SyncInv /\ TurnInv /\ FreshInv /\ [Next]_vars => Rebuilt
  <2> SUFFICES ASSUME SyncInv, TurnInv, FreshInv, [Next]_vars, NEW x \in Runners,
                      Completes(x), budget.errors = MaxErrors, nodes # Empty
               PROVE  bm25' = nodes
    OBVIOUS
  <2>1. Rebuild(x)
    BY CompletesByRebuild DEF SyncInv
  <2>2. /\ runs[x] # NoRun /\ runs[x].at = "rebuild"
        /\ bm25' = IF runs[x].changed /\ nodes # Empty THEN nodes ELSE bm25
    BY <2>1 DEF Rebuild, At
  <2>3. Fresh \/ WillRebuild(runs[x])
    BY <2>2 DEF FreshInv, TurnInv, Alone
  <2> QED  BY <2>2, <2>3 DEF Fresh, WillRebuild
<1>2. SyncInv /\ TurnInv /\ FreshInv /\ [Next]_vars => SyncInv' /\ TurnInv' /\ FreshInv'
  BY SyncStep, TurnStep, FreshStep
<1> QED  BY <1>1, <1>2, SyncInit, TurnInit, FreshInit, PTL DEF Spec, RunRebuildsIndex

-----------------------------------------------------------------------------
(* The folder, the registry and the stores                                   *)

LEMMA SameRow ==
    ASSUME NEW p \in Paths, documents'[p] = documents[p], nodes'[p] = nodes[p],
           folder' = folder
    PROVE  /\ Stored(p) => Stored(p)'
           /\ \A r \in Roots : Agrees(r, p) => Agrees(r, p)'
           /\ RowTrue(p) /\ root'[p] = root[p] => RowTrue(p)'
<1>1. Stored(p) => Stored(p)'
  BY DEF Stored
<1>2. ASSUME NEW r \in Roots, Agrees(r, p)  PROVE Agrees(r, p)'
  BY <1>1, <1>2 DEF Agrees
<1>3. ASSUME RowTrue(p), root'[p] = root[p]  PROVE RowTrue(p)'
  BY <1>1, <1>3 DEF RowTrue
<1> QED  BY <1>1, <1>2, <1>3

\* While x runs, it is all there is to say.
LEMMA MirrorMoves ==
    ASSUME SyncInv, TurnInv, NEW x \in Runners, runs[x] # NoRun \/ Quiet,
           NEW new, runs' = [runs EXCEPT ![x] = new],
           \A p \in Paths : RowTrue(p)', runs'[x] # NoRun => Progress(x)'
    PROVE  MirrorInv'
<1>1. \A y \in Runners : runs'[y] # NoRun => y = x
  BY TurnMoves
<1> QED  BY <1>1 DEF MirrorInv

LEMMA MirrorInit == Init => MirrorInv
<1> SUFFICES ASSUME Init  PROVE MirrorInv
  OBVIOUS
<1>1. ASSUME NEW p \in Paths  PROVE RowTrue(p)
  BY DEF Init, RowTrue, Empty
<1> QED  BY <1>1 DEF Init, MirrorInv

\* The steps before an ingestion writes anything.
LEMMA MirrorReads ==
    ASSUME Overlapping = FALSE, SyncInv, TurnInv, MirrorInv, NEW x \in Runners,
           \/ \E r \in Roots : Start(x, r)
           \/ \E p \in Paths : HashFile(x, p)
           \/ Select(x) \/ Load(x)
    PROVE  MirrorInv'
<1>q. PICK q : q = runs[x]
  OBVIOUS
<1>p. PICK p : p = q.path
  OBVIOUS
<1> USE <1>q, <1>p
<1>1. UNCHANGED <<documents, nodes, root, folder>>
  BY DEF Start, HashFile, Select, Load, files, stores
<1>2. \A y \in Paths : RowTrue(y)'
  BY <1>1, SameRow DEF MirrorInv
<1>3. \A y \in Paths, r \in Roots : Agrees(r, y) => Agrees(r, y)'
  BY <1>1, SameRow
<1>4. ASSUME q # NoRun
      PROVE  /\ q \in Run /\ RunOK(q, documents, versions, root) /\ Knows(x) /\ Progress(x)
             /\ p \in Paths /\ q.root \in Roots /\ q.found \subseteq Paths
  BY <1>4, TurnOf DEF MirrorInv, Run
<1>5. ASSUME NEW r \in Roots, Start(x, r)  PROVE MirrorInv'
  <2>1. /\ Quiet /\ runs' = [runs EXCEPT ![x] = runs'[x]]
        /\ runs'[x].at = "next" /\ runs'[x].left = runs'[x].found
    BY <1>5, StartsTurn
  <2>2. Progress(x)'
    BY <2>1 DEF Progress
  <2> QED  BY <1>2, <2>1, <2>2, MirrorMoves
<1>6. ASSUME NEW y \in Paths, HashFile(x, y)  PROVE MirrorInv'
  <2>0. PICK new : new = [q EXCEPT !.at = "select", !.path = y,
                             !.hash = folder[q.root][y], !.left = @ \ {y}]
    OBVIOUS
  <2>1. q # NoRun /\ q.at = "next" /\ runs' = [runs EXCEPT ![x] = new]
    BY <1>6, <2>0, HashesInTurn DEF HashFile, At
  <2>2. /\ new.at = "select" /\ new.path = y /\ new.left = q.left \ {y}
        /\ new.found = q.found /\ new.root = q.root
    BY <1>4, <2>0, <2>1 DEF Run
  <2>3. runs'[x] = new
    BY <2>1, TurnMoves
  <2>4. \A z \in q.found \ q.left : Agrees(q.root, z)
    BY <1>4, <2>1 DEF Progress, Ingesting
  <2>5. \A z \in new.found \ new.left : z = y \/ Agrees(new.root, z)'
    BY <1>3, <1>4, <2>1, <2>2, <2>4
  <2>6. Progress(x)'
    BY <2>2, <2>3, <2>5 DEF Progress, Ingesting
  <2> QED  BY <1>2, <2>1, <2>6, MirrorMoves
<1>7. CASE Select(x)
  <2>a. PICK next : next = [q EXCEPT !.at = "next"]
    OBVIOUS
  <2>b. PICK new : new = [q EXCEPT !.at = "begin", !.old = documents[p],
                             !.seen = Len(versions[p]),
                             !.decision = Decision(documents[p], versions[p], q.hash)]
    OBVIOUS
  <2>1. q # NoRun /\ q.at = "select"
    BY <1>7 DEF Select, At
  <2>2. \A z \in q.found \ q.left : z = p \/ Agrees(q.root, z)
    BY <1>4, <2>1 DEF Progress
  <2>3. CASE /\ documents[p] # NoRow /\ Unchanged(documents[p], q.hash)
             /\ runs' = [runs EXCEPT ![x] = next]
    <3>1. folder[q.root][p] = q.hash /\ q.hash \in Contents
      BY <1>4, <2>1 DEF Knows, RunOK, Ingesting
    <3>2. Agrees(q.root, p)
      <4>1. RowTrue(p) /\ documents[p].status = "completed" /\ documents[p].hash = q.hash
        BY <1>4, <2>1, <2>3 DEF MirrorInv, Unchanged
      <4>2. Stored(p)
        BY <1>4, <2>1, <2>3, <3>1, <4>1, NoContentAssumption DEF RowTrue
      <4> QED  BY <2>3, <3>1, <4>1, <4>2 DEF Agrees
    <3>3. /\ next.at = "next" /\ next.left = q.left /\ next.found = q.found
          /\ next.root = q.root
      BY <1>4, <2>a, <2>1 DEF Run
    <3>4. runs'[x] = next
      BY <2>1, <2>3, TurnMoves
    <3>5. \A z \in next.found \ next.left : Agrees(next.root, z)'
      BY <1>3, <1>4, <2>1, <2>2, <3>2, <3>3
    <3>6. Progress(x)'
      BY <3>3, <3>4, <3>5 DEF Progress
    <3> QED  BY <1>2, <2>1, <2>3, <3>6, MirrorMoves
  <2>4. CASE runs' = [runs EXCEPT ![x] = new]
    <3>1. /\ new.at = "begin" /\ new.left = q.left /\ new.found = q.found
          /\ new.root = q.root /\ new.path = p
      BY <1>4, <2>b, <2>1 DEF Run
    <3>2. runs'[x] = new
      BY <2>1, <2>4, TurnMoves
    <3>3. \A z \in new.found \ new.left : z = p \/ Agrees(new.root, z)'
      BY <1>3, <1>4, <2>1, <2>2, <3>1
    <3>4. Progress(x)'
      BY <3>1, <3>2, <3>3 DEF Progress, Ingesting
    <3> QED  BY <1>2, <2>1, <2>4, <3>4, MirrorMoves
  <2> QED  BY <1>7, <2>a, <2>b, <2>3, <2>4, SelectsInTurn
<1>8. CASE Load(x)
  <2>0. PICK new : new = [q EXCEPT !.at = "store", !.loaded = q.hash]
    OBVIOUS
  <2>1. q # NoRun /\ q.at = "load" /\ runs' = [runs EXCEPT ![x] = new]
    BY <1>8, <2>0, LoadsInTurn DEF Load, At
  <2>2. /\ new.at = "store" /\ new.left = q.left /\ new.found = q.found
        /\ new.root = q.root /\ new.path = p /\ new.hash = q.hash /\ new.loaded = q.hash
    BY <1>4, <2>0, <2>1 DEF Run
  <2>3. runs'[x] = new
    BY <2>1, TurnMoves
  <2>4. /\ documents[p].status = "processing" /\ documents[p].hash = q.hash /\ nodes[p] = {}
        /\ \A z \in q.found \ q.left : z = p \/ Agrees(q.root, z)
    BY <1>4, <2>1 DEF Progress
  <2>5. \A z \in new.found \ new.left : z = p \/ Agrees(new.root, z)'
    BY <1>3, <1>4, <2>1, <2>2, <2>4
  <2>6. Progress(x)'
    BY <1>1, <2>2, <2>3, <2>4, <2>5 DEF Progress, Ingesting
  <2> QED  BY <1>2, <2>1, <2>6, MirrorMoves
<1> QED  BY <1>5, <1>6, <1>7, <1>8

\* The steps of an ingestion that write: only the document it is at moves.
LEMMA MirrorWrites ==
    ASSUME SyncInv, TurnInv, MirrorInv, NEW x \in Runners,
           Begin(x) \/ Purge(x) \/ Store(x) \/ Finalize(x)
    PROVE  MirrorInv'
<1>q. PICK q : q = runs[x]
  OBVIOUS
<1>p. PICK p : p = q.path
  OBVIOUS
<1> USE <1>q, <1>p
<1>1. q # NoRun /\ q.at \in {"begin", "purge", "store", "finalize"} /\ folder' = folder
  BY DEF Begin, Purge, Store, Finalize, At, files
<1>2. /\ q \in Run /\ RunOK(q, documents, versions, root) /\ Knows(x) /\ Progress(x)
      /\ p \in Paths /\ q.root \in Roots /\ q.found \subseteq Paths /\ q.meta[p] \in Facets
      /\ documents \in [Paths -> MaybeRow] /\ nodes \in [Paths -> SUBSET Chunk]
      /\ RowTrue(p)
  BY <1>1, TurnOf DEF MirrorInv, Run, SyncInv, TypeOK
<1>3. /\ \A z \in q.found \ q.left : z = p \/ Agrees(q.root, z)
      /\ q.hash \in Contents /\ folder[q.root][p] = q.hash
  BY <1>1, <1>2 DEF Progress, Knows, RunOK, Ingesting
<1>4. ASSUME NEW new \in Run, runs' = [runs EXCEPT ![x] = new],
             new.found = q.found, new.left = q.left, new.root = q.root, new.path = p,
             new.hash = q.hash,
             \A y \in Paths : y # p => /\ documents'[y] = documents[y]
                                       /\ nodes'[y] = nodes[y] /\ root'[y] = root[y],
             RowTrue(p)',
             \/ /\ new.at \in {"purge", "load", "store", "finalize"}
                /\ documents'[p].status = "processing" /\ documents'[p].hash = q.hash
                /\ new.at \in {"load", "store"} => nodes'[p] = {}
                /\ new.at \in {"store", "finalize"} => new.loaded = q.hash
                /\ new.at = "finalize" => Stored(p)'
             \/ new.at = "next" /\ Agrees(q.root, p)'
      PROVE  MirrorInv'
  <2>1. runs'[x] = new
    BY <1>1, <1>4, TurnMoves
  <2>2. \A y \in Paths : RowTrue(y)'
    BY <1>1, <1>4, SameRow DEF MirrorInv
  <2>3. \A z \in new.found \ new.left : z = p \/ Agrees(new.root, z)'
    BY <1>1, <1>2, <1>3, <1>4, SameRow
  <2>4. CASE new.at = "next" /\ Agrees(q.root, p)'
    <3>1. \A z \in new.found \ new.left : Agrees(new.root, z)'
      BY <1>4, <2>3, <2>4
    <3> QED
      <4>1. Progress(x)'
        BY <2>1, <2>4, <3>1 DEF Progress
      <4> QED  BY <1>1, <1>4, <2>2, <4>1, MirrorMoves
  <2>5. CASE new.at \in {"purge", "load", "store", "finalize"}
    <3>1. Progress(x)'
      BY <1>4, <2>1, <2>3, <2>5 DEF Progress, Ingesting
    <3> QED  BY <1>1, <1>4, <2>2, <3>1, MirrorMoves
  <2> QED  BY <1>4, <2>4, <2>5
<1>5. CASE Begin(x)
  <2>0. PICK row \in Row, vs \in Seq(VersionRow) :
          /\ row.status = "processing" /\ row.hash = runs[x].hash
          /\ documents' = [documents EXCEPT ![runs[x].path] = row]
          /\ \A y \in Paths : y # runs[x].path => root'[y] = root[y]
          /\ runs' = [runs EXCEPT ![x] = [runs[x] EXCEPT !.old = row,
                         !.at = IF documents[runs[x].path] = NoRow THEN "load" ELSE "purge"]]
    BY <1>5, BeginsInTurn
  <2>1. /\ row.status = "processing" /\ row.hash = q.hash
        /\ documents' = [documents EXCEPT ![p] = row]
        /\ \A y \in Paths : y # p => root'[y] = root[y]
        /\ runs' = [runs EXCEPT ![x] = [q EXCEPT !.old = row,
                         !.at = IF documents[p] = NoRow THEN "load" ELSE "purge"]]
    BY <2>0
  <2> DEFINE new == [q EXCEPT !.old = row,
                         !.at = IF documents[p] = NoRow THEN "load" ELSE "purge"]
  <2>2. nodes' = nodes
    BY <1>5 DEF Begin
  <2>3. documents'[p] = row /\ row # NoRow
    BY <1>2, <2>1, NoRowAssumption
  <2>4. RowTrue(p)'
    BY <2>1, <2>3 DEF RowTrue
  <2>5. /\ new \in Run /\ new.found = q.found /\ new.left = q.left /\ new.root = q.root
        /\ new.path = p /\ new.hash = q.hash
        /\ new.at = IF documents[p] = NoRow THEN "load" ELSE "purge"
    <3>1. q \in Run /\ q.path = p /\ row \in MaybeRow
      BY <1>2 DEF MaybeRow
    <3> QED  BY <3>1 DEF Run, Stage
  <2>6. documents[p] = NoRow => nodes'[p] = {}
    BY <1>2, <2>2 DEF RowTrue
  <2>7. runs' = [runs EXCEPT ![x] = new]
    BY <2>1
  <2> HIDE DEF new
  <2> QED  BY <1>2, <1>4, <2>1, <2>2, <2>3, <2>4, <2>5, <2>6, <2>7
<1>6. CASE Purge(x)
  <2> DEFINE new == [q EXCEPT !.at = "load"]
  <2>1. /\ q.at = "purge" /\ runs' = [runs EXCEPT ![x] = new]
        /\ nodes' = [nodes EXCEPT ![p] = {}] /\ UNCHANGED <<documents, root>>
    BY <1>6 DEF Purge, At
  <2>2. documents[p].status = "processing" /\ documents[p].hash = q.hash /\ nodes'[p] = {}
    BY <1>2, <2>1 DEF Progress
  <2>3. RowTrue(p)'
    BY <1>2, <2>1, <2>2 DEF RowTrue
  <2>4. /\ new \in Run /\ new.found = q.found /\ new.left = q.left /\ new.root = q.root
        /\ new.path = p /\ new.hash = q.hash /\ new.at = "load"
    BY <1>2 DEF Run, Stage
  <2> HIDE DEF new
  <2> QED  BY <1>2, <1>4, <2>1, <2>2, <2>3, <2>4
<1>7. CASE Store(x)
  <2> DEFINE new == [q EXCEPT !.at = "finalize"]
             chunk == [version |-> q.old.version, content |-> q.loaded, facet |-> q.meta[p]]
  <2>1. /\ q.at = "store" /\ runs' = [runs EXCEPT ![x] = new]
        /\ nodes' = [nodes EXCEPT ![p] = @ \union {chunk}] /\ UNCHANGED <<documents, root>>
    BY <1>7 DEF Store, At
  <2>2. /\ documents[p].status = "processing" /\ documents[p].hash = q.hash
        /\ nodes[p] = {} /\ q.loaded = q.hash /\ q.old = documents[p]
    BY <1>2, <2>1 DEF Progress, Knows
  <2>3. nodes'[p] = {chunk}
    BY <1>2, <2>1, <2>2
  <2>4. chunk = [version |-> documents'[p].version, content |-> documents'[p].hash,
                 facet |-> q.meta[p]]
    BY <2>1, <2>2
  <2> HIDE DEF chunk
  <2>5. Stored(p)'
    BY <1>2, <2>3, <2>4 DEF Stored
  <2>6. RowTrue(p)'
    <3>1. documents[p] # NoRow
      BY <1>2, <2>1 DEF RunOK
    <3> QED  BY <2>1, <2>2, <3>1 DEF RowTrue
  <2>7. /\ new \in Run /\ new.found = q.found /\ new.left = q.left /\ new.root = q.root
        /\ new.path = p /\ new.hash = q.hash /\ new.at = "finalize" /\ new.loaded = q.loaded
    BY <1>2 DEF Run, Stage
  <2> HIDE DEF new
  <2> QED  BY <1>2, <1>4, <2>1, <2>2, <2>5, <2>6, <2>7
<1>8. CASE Finalize(x)
  <2> DEFINE new == [q EXCEPT !.at = "next", !.changed = TRUE]
  <2>1. PICK row \in Row, vs \in Seq(VersionRow) :
          /\ row.status = "completed" /\ row.hash = documents[p].hash
          /\ row.version = documents[p].version
          /\ documents' = [documents EXCEPT ![p] = row]
          /\ runs' = [runs EXCEPT ![x] = new]
    BY <1>8, FinalizesInTurn
  <2>2. q.at = "finalize" /\ UNCHANGED <<nodes, root>>
    BY <1>8 DEF Finalize, At
  <2>3. documents[p].hash = q.hash /\ Stored(p)
    BY <1>2, <2>2 DEF Progress
  <2>4. documents'[p] = row /\ row # NoRow
    BY <1>2, <2>1, NoRowAssumption
  <2>5. Stored(p)'
    BY <2>1, <2>2, <2>3, <2>4 DEF Stored
  <2>6. RowTrue(p)'
    BY <2>1, <2>4, <2>5 DEF RowTrue
  <2>7. Agrees(q.root, p)'
    BY <1>1, <1>3, <2>1, <2>3, <2>4, <2>5 DEF Agrees
  <2>8. /\ new \in Run /\ new.found = q.found /\ new.left = q.left /\ new.root = q.root
        /\ new.path = p /\ new.hash = q.hash /\ new.at = "next"
    BY <1>2 DEF Run, Stage
  <2> HIDE DEF new
  <2> QED  BY <1>2, <1>4, <2>1, <2>2, <2>6, <2>7, <2>8
<1> QED  BY <1>5, <1>6, <1>7, <1>8

\* Rows are keyed by tenant and path, whatever root they came from: with a second
\* root, a file its run completed may have been purged by a run over the first
\* that died, and is then taken for unchanged.
OneRoot == \A r, s \in Roots : r = s

\* The deletion pass, and the end of the run.
LEMMA MirrorGone ==
    ASSUME OneRoot, SyncInv, TurnInv, MirrorInv, NEW x \in Runners,
           \/ SelectGone(x) \/ \E y \in Paths : PurgeGone(x, y)
           \/ CommitGone(x) \/ Rebuild(x) \/ Abort(x)
    PROVE  MirrorInv'
<1>q. PICK q : q = runs[x]
  OBVIOUS
<1> USE <1>q
<1>1. q # NoRun /\ folder' = folder /\ root' = root
  BY DEF SelectGone, PurgeGone, CommitGone, Rebuild, Abort, At, files, stores
<1>2. /\ q \in Run /\ RunOK(q, documents, versions, root) /\ Knows(x) /\ Progress(x)
      /\ q.root \in Roots /\ q.found \subseteq Paths
      /\ documents \in [Paths -> MaybeRow] /\ nodes \in [Paths -> SUBSET Chunk]
      /\ \A y \in Paths : RowTrue(y)
  BY <1>1, TurnOf DEF MirrorInv, Run, SyncInv, TypeOK
<1>3. CASE SelectGone(x)
  <2>0. PICK new : new = [q EXCEPT !.at = "gone", !.gone = Disappeared(x), !.rows =
                     [p \in Paths |-> IF p \in Disappeared(x) THEN documents[p] ELSE NoRow]]
    OBVIOUS
  <2>1. /\ q.at = "next" /\ q.left = {} /\ runs' = [runs EXCEPT ![x] = new]
        /\ UNCHANGED <<documents, nodes>>
    BY <1>3, <2>0 DEF SelectGone, At, stores
  <2>2. /\ new.at = "gone" /\ new.left = q.left /\ new.found = q.found /\ new.root = q.root
        /\ new.gone = Disappeared(x)
        /\ new.rows = [p \in Paths |-> IF p \in Disappeared(x) THEN documents[p] ELSE NoRow]
    BY <1>2, <2>0 DEF Run
  <2>3. runs'[x] = new
    BY <1>1, <2>1, TurnMoves
  <2>4. \A y \in Paths : RowTrue(y)'
    BY <1>1, <1>2, <2>1, SameRow
  <2>5. \A z \in new.found \ new.left : Agrees(new.root, z)'
    <3>1. \A z \in q.found \ q.left : Agrees(q.root, z)
      BY <1>2, <2>1 DEF Progress, Ingesting
    <3> QED  BY <1>1, <1>2, <2>1, <2>2, <3>1, SameRow
  <2>6. ASSUME NEW p \in Paths
        PROVE  /\ new.rows[p] # NoRow => p \notin new.found /\ p \in new.gone
               /\ root[p] = new.root => \/ p \in new.found \/ new.rows[p] # NoRow
                                        \/ documents[p].status = "deleted"
    <3>1. new.rows[p] = IF p \in Disappeared(x) THEN documents[p] ELSE NoRow
      BY <2>2
    <3>2. p \in Disappeared(x) => p \notin q.found /\ documents[p] # NoRow
      BY DEF Disappeared
    <3>3. ASSUME root[p] = q.root, p \notin q.found, documents[p].status # "deleted"
          PROVE  p \in Disappeared(x)
      <4>1. documents[p] # NoRow
        BY <1>2, <3>3, SyncAssumption DEF RowTrue
      <4> QED  BY <3>3, <4>1 DEF Disappeared
    <3> QED  BY <2>2, <3>1, <3>2, <3>3
  <2>7. Progress(x)'
    BY <1>1, <2>1, <2>2, <2>3, <2>5, <2>6 DEF Progress
  <2> QED  BY <1>1, <2>1, <2>4, <2>7, MirrorMoves
<1>4. ASSUME NEW y \in Paths, PurgeGone(x, y)  PROVE MirrorInv'
  <2>0. PICK new : new = [q EXCEPT !.gone = @ \ {y}]
    OBVIOUS
  <2>1. /\ q.at = "gone" /\ y \in q.gone /\ runs' = [runs EXCEPT ![x] = new]
        /\ documents' = documents /\ nodes' = [nodes EXCEPT ![y] = {}]
    BY <1>4, <2>0 DEF PurgeGone, At
  <2>2. /\ new.at = "gone" /\ new.left = q.left /\ new.found = q.found /\ new.root = q.root
        /\ new.gone = q.gone \ {y} /\ new.rows = q.rows
    BY <1>2, <2>0, <2>1 DEF Run
  <2>3. runs'[x] = new
    BY <1>1, <2>1, TurnMoves
  <2>4. q.rows[y] # NoRow /\ y \notin q.found
    BY <1>2, <2>1 DEF RunOK, Progress
  <2>5. \A r \in Roots : folder[r][y] = NoContent
    BY <1>2, <2>4 DEF Knows, OneRoot
  <2>6. RowTrue(y)'
    <3>1. nodes'[y] = {}
      BY <1>2, <2>1
    <3> QED  BY <1>1, <1>2, <2>1, <2>5, <3>1 DEF RowTrue
  <2>7. \A p \in Paths : RowTrue(p)'
    BY <1>1, <1>2, <2>1, <2>6, SameRow
  <2>8. \A z \in new.found \ new.left : Agrees(new.root, z)'
    <3>1. \A z \in q.found \ q.left : Agrees(q.root, z) /\ z # y
      BY <1>2, <2>1, <2>4 DEF Progress, Ingesting
    <3> QED  BY <1>1, <1>2, <2>1, <2>2, <3>1, SameRow
  <2>9. ASSUME NEW p \in Paths
        PROVE  /\ q.rows[p] # NoRow => p \notin q.found /\ (p \in new.gone \/ nodes'[p] = {})
               /\ root[p] = q.root => \/ p \in q.found \/ q.rows[p] # NoRow
                                      \/ documents[p].status = "deleted"
    <3>1. /\ q.rows[p] # NoRow => p \notin q.found /\ (p \in q.gone \/ nodes[p] = {})
          /\ root[p] = q.root => \/ p \in q.found \/ q.rows[p] # NoRow
                                 \/ documents[p].status = "deleted"
      BY <1>2, <2>1 DEF Progress
    <3> QED  BY <1>2, <2>1, <2>2, <3>1
  <2>10. q.left = {}
    BY <1>2, <2>1 DEF Progress
  <2>11. Progress(x)'
    BY <1>1, <2>1, <2>2, <2>3, <2>8, <2>9, <2>10 DEF Progress
  <2> QED  BY <1>1, <2>1, <2>7, <2>11, MirrorMoves
<1>5. CASE CommitGone(x)
  <2>0. PICK new : new = [q EXCEPT !.at = "rebuild",
                             !.changed = @ \/ \E p \in Paths : q.rows[p] # NoRow]
    OBVIOUS
  <2>1. /\ q.at = "gone" /\ q.gone = {} /\ nodes' = nodes
        /\ runs' = [runs EXCEPT ![x] = new]
        /\ \A p \in Paths :
             IF q.rows[p] = NoRow THEN documents'[p] = documents[p]
             ELSE documents'[p] # NoRow /\ documents'[p].status = "deleted"
    BY <1>5, <2>0, CommitsGoneInTurn
  <2>2. /\ new.at = "rebuild" /\ new.left = q.left /\ new.found = q.found /\ new.root = q.root
    BY <1>2, <2>0, <2>1 DEF Run
  <2>3. runs'[x] = new
    BY <1>1, <2>1, TurnMoves
  <2>4. ASSUME NEW p \in Paths  PROVE RowTrue(p)'
    <3>1. CASE q.rows[p] = NoRow
      BY <1>1, <1>2, <2>1, <3>1, SameRow
    <3>2. CASE q.rows[p] # NoRow
      <4>1. nodes[p] = {}
        BY <1>2, <2>1, <3>2 DEF Progress
      <4> QED  BY <2>1, <3>2, <4>1 DEF RowTrue
    <3> QED  BY <3>1, <3>2
  <2>5. \A z \in new.found \ new.left : Agrees(new.root, z)'
    <3>1. \A z \in q.found \ q.left : Agrees(q.root, z) /\ q.rows[z] = NoRow
      BY <1>2, <2>1 DEF Progress, Ingesting
    <3> QED  BY <1>1, <1>2, <2>1, <2>2, <3>1, SameRow
  <2>6. \A p \in Paths : root[p] = q.root => p \in q.found \/ documents'[p].status = "deleted"
    BY <1>2, <2>1 DEF Progress
  <2>7. q.left = {}
    BY <1>2, <2>1 DEF Progress
  <2>8. Progress(x)'
    BY <1>1, <2>2, <2>3, <2>5, <2>6, <2>7 DEF Progress
  <2> QED  BY <1>1, <2>1, <2>4, <2>8, MirrorMoves
<1>6. CASE Rebuild(x) \/ Abort(x)
  <2>1. runs' = [runs EXCEPT ![x] = NoRun] /\ UNCHANGED <<documents, nodes>>
    BY <1>6 DEF Rebuild, Abort, End, stores
  <2>2. runs'[x] = NoRun
    BY <1>1, <2>1, TurnMoves
  <2>3. \A y \in Paths : RowTrue(y)'
    BY <1>1, <1>2, <2>1, SameRow
  <2> QED  BY <1>1, <2>1, <2>2, <2>3, MirrorMoves
<1> QED  BY <1>3, <1>4, <1>5, <1>6

\* A file changes between two runs; one that is gone does not come back.
LEMMA MirrorOutside ==
    ASSUME Overlapping = FALSE, Returning = FALSE, OneRoot, SyncInv, MirrorInv,
           NEW r \in Roots, NEW p \in Paths,
           \/ \E c \in MaybeContents : Change(r, p, c)
           \/ \E f \in Facets : Relabel(r, p, f)
    PROVE  MirrorInv'
<1>1. UNCHANGED <<documents, nodes, root, runs>> /\ Quiet
  BY DEF Change, Relabel, stores
<1>2. ASSUME NEW s \in Roots, NEW y \in Paths, folder[s][y] = NoContent
      PROVE  folder'[s][y] = NoContent
  <2>1. folder \in [Roots -> [Paths -> MaybeContents]]
    BY DEF SyncInv, TypeOK
  <2>2. CASE \E c \in MaybeContents : Change(r, p, c)
    <3>1. PICK c \in MaybeContents : Change(r, p, c)
      BY <2>2
    <3>2. /\ folder' = [folder EXCEPT ![r] = [folder[r] EXCEPT ![p] = c]]
          /\ folder[r][p] # NoContent
      BY <3>1 DEF Change
    <3>3. ~(s = r /\ y = p)
      BY <1>2, <3>2
    <3> QED  BY <1>2, <2>1, <3>2, <3>3
  <2>3. CASE \E f \in Facets : Relabel(r, p, f)
    BY <1>2, <2>3 DEF Relabel
  <2> QED  BY <2>2, <2>3
<1>3. ASSUME NEW y \in Paths  PROVE RowTrue(y)'
  <2>1. RowTrue(y)
    BY DEF MirrorInv
  <2>2. Stored(y) => Stored(y)'
    BY <1>1 DEF Stored
  <2> QED  BY <1>1, <1>2, <2>1, <2>2 DEF RowTrue
<1> QED  BY <1>1, <1>3 DEF MirrorInv, Quiet

LEMMA MirrorStep ==
    ASSUME Overlapping = FALSE, Returning = FALSE, OneRoot,
           SyncInv, TurnInv, MirrorInv, [Next]_vars
    PROVE  MirrorInv'
<1>1. CASE UNCHANGED vars
  <2>1. UNCHANGED <<folder, documents, root, nodes, runs>>
    BY <1>1 DEF vars
  <2>2. ASSUME NEW p \in Paths  PROVE RowTrue(p)'
    BY <2>1, SameRow DEF MirrorInv
  <2>3. ASSUME NEW x \in Runners, runs'[x] # NoRun  PROVE Progress(x)'
    <3>1. Progress(x)
      BY <2>1, <2>3 DEF MirrorInv
    <3> QED  BY <2>1, <3>1 DEF Progress, Stored, Agrees
  <2> QED  BY <2>2, <2>3 DEF MirrorInv
<1> QED
  BY <1>1, MirrorOutside, MirrorReads, MirrorWrites, MirrorGone DEF Next

\* A run over the only root that reaches its end leaves exactly the folder,
\* whatever earlier runs died of and wherever they died.
THEOREM RunMirrorsFolderHolds ==
    ASSUME Overlapping = FALSE, Returning = FALSE, OneRoot
    PROVE  Spec => RunMirrorsFolder
<1> DEFINE AllMirrored == \A x \in Runners :
             Completes(x) => \A p \in Paths : Mirrored(runs[x].root, p)
<1>1. SyncInv /\ TurnInv /\ MirrorInv /\ [Next]_vars => AllMirrored
  <2> SUFFICES ASSUME SyncInv, TurnInv, MirrorInv, [Next]_vars, NEW x \in Runners,
                      Completes(x), NEW p \in Paths
               PROVE  Mirrored(runs[x].root, p)
    OBVIOUS
  <2>1. Rebuild(x)
    BY CompletesByRebuild DEF SyncInv
  <2>2. /\ runs[x] # NoRun /\ runs[x].at = "rebuild"
        /\ UNCHANGED <<documents, nodes>>
    BY <2>1 DEF Rebuild, At
  <2>3. /\ runs[x] \in Run /\ Knows(x) /\ Progress(x) /\ runs[x].root \in Roots /\ RowTrue(p)
        /\ documents[p] \in MaybeRow
    BY <2>2, TurnOf DEF MirrorInv, SyncInv, TypeOK
  <2>4. /\ p \in runs[x].found <=> folder[runs[x].root][p] # NoContent
        /\ p \in runs[x].found => Agrees(runs[x].root, p)
        /\ root[p] = runs[x].root => p \in runs[x].found \/ documents[p].status = "deleted"
    BY <2>2, <2>3 DEF Knows, Progress, Ingesting
  <2>5. CASE p \in runs[x].found
    <3>1. documents'[p] = documents[p] /\ nodes'[p] = nodes[p]
      BY <2>2
    <3>2. /\ documents[p] # NoRow /\ documents[p].status = "completed"
          /\ documents[p].hash = folder[runs[x].root][p]
      BY <2>4, <2>5 DEF Agrees
    <3>3. PICK f \in Facets : nodes[p] =
            {[version |-> documents[p].version, content |-> documents[p].hash, facet |-> f]}
      BY <2>4, <2>5 DEF Agrees, Stored
    <3> QED  BY <2>4, <2>5, <3>1, <3>2, <3>3 DEF Mirrored
  <2>6. CASE p \notin runs[x].found
    <3>1. ASSUME root[p] = runs[x].root
          PROVE  documents[p].status = "deleted" /\ nodes[p] = {}
      <4>1. documents[p].status = "deleted"
        BY <2>4, <2>6, <3>1
      <4> QED  BY <2>3, <4>1 DEF RowTrue
    <3> QED  BY <2>2, <2>4, <2>6, <3>1 DEF Mirrored
  <2> QED  BY <2>5, <2>6
<1>2. SyncInv /\ TurnInv /\ MirrorInv /\ [Next]_vars => SyncInv' /\ TurnInv' /\ MirrorInv'
  BY SyncStep, TurnStep, MirrorStep
<1> QED  BY <1>1, <1>2, SyncInit, TurnInit, MirrorInit, PTL DEF Spec, RunMirrorsFolder

===============================================================================
