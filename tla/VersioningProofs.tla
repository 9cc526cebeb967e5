-------------------------- MODULE VersioningProofs --------------------------
(* What the functions of the version registry return: rows stay rows, and    *)
(* the audit rows of a document stay an unbroken trail. The processes that   *)
(* call them, the worker and the command line, rest their proofs on these.   *)
EXTENDS Versioning, SequenceTheorems, TLAPS

\* The audit rows of one document are the versions 1, 2, ... and only the last
\* is open.
Trail(vs) == \A i \in DOMAIN vs :
    vs[i].version = i /\ (vs[i].superseded <=> i < Len(vs))

\* The current_version a registry row has beside these audit rows.
CurrentVersion(vs) == IF vs = <<>> THEN 1 ELSE Len(vs)

-----------------------------------------------------------------------------
(* Rows and audit rows                                                       *)

LEMMA FunctionIsSeq ==
    ASSUME NEW S, NEW n \in Nat, NEW g \in [1..n -> S]
    PROVE  g \in Seq(S) /\ Len(g) = n
  <1>1. g \in Seq(S)
    BY SeqDef
  <1>2. Len(g) \in Nat /\ DOMAIN g = 1..Len(g)
    BY <1>1, LenProperties
  <1>3. DOMAIN g = 1..n
    OBVIOUS
  <1>4. Len(g) = n
    BY <1>2, <1>3, SMT
  <1> QED BY <1>1, <1>4

\* In an unbroken trail the row of a version is found at its own index.
LEMMA RowsOfTrail ==
    ASSUME NEW vs \in Seq(VersionRow), Trail(vs), NEW n \in Nat
    PROVE  RowsOf(vs, n) = {n} \cap DOMAIN vs
  BY DEF RowsOf, Trail

\* A commit that follows a SELECT of an existing row writes a row.
LEMMA CommittedRow ==
    ASSUME NEW db \in Row, NEW old \in Row, NEW new \in Row
    PROVE  /\ Committed(db, old, new) \in Row
           /\ new.version = old.version => Committed(db, old, new).version = db.version
           /\ db.version = old.version => Committed(db, old, new).version = new.version
  <1>1. old # NoRow
    BY NoRowAssumption
  <1>2. db.version \in Nat /\ new.version \in Nat /\ old.version \in Nat
    BY DEF Row
  <1>3. Committed(db, old, new) \in Row
    BY <1>1 DEF Committed, Written, Row
  <1> QED BY <1>1, <1>2, <1>3 DEF Committed, Written

\* A transaction nobody has overtaken writes the row it has in memory.
LEMMA CommittedFresh ==
    ASSUME NEW row \in Row, NEW new \in Row
    PROVE  Committed(row, row, new) = new
<1>1. row # NoRow
  BY NoRowAssumption
<1>2. \A a, b : Written(a, a, b) = b
  BY DEF Written
<1> QED  BY <1>1, <1>2 DEF Committed, Row

LEMMA RegisteredRow ==
    ASSUME NEW row \in MaybeRow, NEW h \in Contents, NEW f \in Facets
    PROVE  /\ Registered(row, h, f) \in Row
           /\ row # NoRow => Registered(row, h, f).version = row.version
           /\ row = NoRow => Registered(row, h, f).version = 1
  BY DEF Registered, NewRow, MaybeRow, Row, Status, MaybeContents

\* Beside an unbroken trail, get_or_create_document fills in a first version
\* exactly when there is none.
LEMMA DecisionFacts ==
    ASSUME NEW row \in Row, NEW vs \in Seq(VersionRow), Trail(vs),
           row.version = CurrentVersion(vs), NEW h \in Contents,
           Decision(row, vs, h) \notin {"unchanged", "ambiguous"}
    PROVE  /\ Decision(row, vs, h) \in {"fill", "supersede"}
           /\ Decision(row, vs, h) = "fill" <=> vs = <<>>
  <1>1. row # NoRow /\ row.version \in Nat
    BY NoRowAssumption DEF Row
  <1>2. RowsOf(vs, row.version) = {row.version} \cap DOMAIN vs
    BY <1>1, RowsOfTrail
  <1>3. vs # <<>> => row.version \in DOMAIN vs
    BY DEF CurrentVersion
  <1>4. RowsOf(vs, row.version) = {} <=> vs = <<>>
    BY <1>2, <1>3
  <1> QED BY <1>1, <1>4 DEF Decision

LEMMA DecidedRow ==
    ASSUME NEW row \in Row, NEW d \in {"fill", "supersede"},
           NEW h \in Contents, NEW f \in Facets
    PROVE  /\ Decided(d, row, h, f) \in Row
           /\ d = "fill" => Decided(d, row, h, f).version = row.version
           /\ d = "supersede" => Decided(d, row, h, f).version = row.version + 1
  <1>1. CASE d = "fill"
    <2>1. Decided(d, row, h, f) = [row EXCEPT !.status = "processing", !.hash = h]
      BY <1>1 DEF Decided
    <2> QED BY <1>1, <2>1 DEF Row, Status
  <1>2. CASE d = "supersede"
    <2>1. Decided(d, row, h, f) = [row EXCEPT !.status = "processing", !.hash = h,
                                              !.facet = f, !.version = @ + 1]
      BY <1>2 DEF Decided
    <2>2. /\ row = [status |-> row.status, hash |-> row.hash, facet |-> row.facet,
                    version |-> row.version, chunks |-> row.chunks]
          /\ row.version \in Nat /\ row.chunks \in MaybeContents
      BY DEF Row
    <2>3. Decided(d, row, h, f) = [status |-> "processing", hash |-> h, facet |-> f,
                                   version |-> row.version + 1, chunks |-> row.chunks]
      BY <2>1, <2>2
    <2> QED BY <1>2, <2>2, <2>3 DEF Row, Status
  <1> QED BY <1>1, <1>2

\* Recording a content extends the trail by one open version, the one the
\* registry row then points at.
LEMMA RecordedTrail ==
    ASSUME NEW row \in Row, NEW vs \in Seq(VersionRow), Trail(vs),
           row.version = CurrentVersion(vs), NEW h \in Contents, NEW f \in Facets,
           NEW d \in {"fill", "supersede"}, d = "fill" <=> vs = <<>>
    PROVE  LET new == Recorded(d, row, vs, h) IN
           /\ new \in Seq(VersionRow)
           /\ Trail(new)
           /\ Len(new) = Len(vs) + 1
           /\ Decided(d, row, h, f).version = Len(new)
           /\ new[Len(new)].hash = h
           /\ \A i \in DOMAIN vs :
                /\ new[i].version = vs[i].version /\ new[i].hash = vs[i].hash
                /\ vs[i].superseded => new[i] = vs[i]
  <1> DEFINE new == Recorded(d, row, vs, h)
  <1>1. row.version \in Nat
    BY DEF Row
  <1>2. ASSUME NEW n \in Nat PROVE NewVersion(n, h) \in VersionRow
    BY DEF NewVersion, VersionRow, MaybeContents
  <1>3. CASE d = "fill"
    <2>1. vs = <<>> /\ row.version = 1
      BY <1>3 DEF CurrentVersion
    <2>2. new = <<NewVersion(1, h)>>
      BY <1>3, <2>1 DEF Recorded
    <2>3. new \in Seq(VersionRow) /\ Len(new) = 1 /\ new[1] = NewVersion(1, h)
      BY <1>2, <2>2
    <2>4. Trail(new)
      BY <2>3 DEF Trail, NewVersion
    <2>5. Decided(d, row, h, f).version = 1
      BY <1>3, <2>1, DecidedRow
    <2>6. new[1].hash = h
      BY <2>3 DEF NewVersion
    <2> HIDE DEF new
    <2> QED BY <2>1, <2>3, <2>4, <2>5, <2>6 DEF new
  <1>4. CASE d = "supersede"
    <2> DEFINE old == Superseded(vs, Len(vs))
    <2>1. vs # <<>> /\ row.version = Len(vs) /\ Len(vs) \in Nat
      BY <1>4 DEF CurrentVersion
    <2>2. new = Append(old, NewVersion(Len(vs) + 1, h))
      BY <1>4, <2>1 DEF Recorded
    <2>3. RowsOf(vs, Len(vs)) = {Len(vs)}
      BY <2>1, RowsOfTrail
    <2>4. \A i \in DOMAIN vs : vs[i] \in VersionRow
      OBVIOUS
    <2>5. old \in Seq(VersionRow) /\ Len(old) = Len(vs)
      <3>1. DOMAIN old = 1..Len(vs)
        BY DEF Superseded
      <3>2. \A i \in DOMAIN vs : old[i] \in VersionRow
        BY <2>4 DEF Superseded, VersionRow
      <3>3. old = [i \in 1..Len(vs) |-> old[i]]
        BY <3>1 DEF Superseded
      <3>4. old \in [1..Len(vs) -> VersionRow]
        <4>1. DOMAIN vs = 1..Len(vs)
          OBVIOUS
        <4> HIDE DEF old
        <4> QED BY <3>2, <3>3, <4>1
      <3> HIDE DEF old
      <3> QED BY <2>1, <3>4, FunctionIsSeq
    <2>6. \A i \in DOMAIN vs :
             /\ old[i].version = vs[i].version /\ old[i].hash = vs[i].hash
             /\ i # Len(vs) => old[i] = vs[i]
             /\ i = Len(vs) => old[i].superseded
      BY <2>3, <2>4 DEF Superseded, VersionRow
    <2>7. new \in Seq(VersionRow) /\ Len(new) = Len(vs) + 1
      BY <1>2, <2>1, <2>2, <2>5
    <2>8. \A i \in DOMAIN vs : new[i] = old[i]
      BY <1>2, <2>1, <2>2, <2>5
    <2>9. new[Len(new)] = NewVersion(Len(vs) + 1, h)
      BY <1>2, <2>1, <2>2, <2>5
    <2>10. Trail(new)
      <3> SUFFICES ASSUME NEW i \in DOMAIN new
                   PROVE  new[i].version = i /\ (new[i].superseded <=> i < Len(new))
        BY DEF Trail
      <3>1. CASE i = Len(new)
        BY <3>1, <2>1, <2>7, <2>9 DEF NewVersion
      <3>2. CASE i # Len(new)
        <4>1. i \in DOMAIN vs
          BY <3>2, <2>1, <2>7
        <4> QED BY <4>1, <2>1, <2>6, <2>7, <2>8 DEF Trail
      <3> QED BY <3>1, <3>2
    <2>11. \A i \in DOMAIN vs : vs[i].superseded => i # Len(vs)
      BY <2>1 DEF Trail
    <2>12. Decided(d, row, h, f).version = Len(new)
      BY <1>4, <2>1, <2>7, DecidedRow
    <2>13. new[Len(new)].hash = h
      BY <2>9 DEF NewVersion
    <2> HIDE DEF new, old
    <2> QED BY <2>6, <2>7, <2>8, <2>10, <2>11, <2>12, <2>13 DEF new
  <1> QED BY <1>3, <1>4

\* Finalizing writes chunk counts, and only into the row of that version.
LEMMA FinalizedTrail ==
    ASSUME NEW vs \in Seq(VersionRow), Trail(vs), NEW n \in Nat, NEW c \in Contents
    PROVE  LET new == FinalizedVersions(vs, n, c) IN
           /\ new \in Seq(VersionRow)
           /\ Trail(new)
           /\ Len(new) = Len(vs)
           /\ \A i \in DOMAIN vs :
                /\ new[i].version = vs[i].version /\ new[i].hash = vs[i].hash
                /\ i # n => new[i] = vs[i]
  <1> DEFINE new == FinalizedVersions(vs, n, c)
  <1>1. \A i \in DOMAIN vs : vs[i] \in VersionRow
    OBVIOUS
  <1>2. RowsOf(vs, n) = {n} \cap DOMAIN vs
    BY RowsOfTrail
  <1>3. new \in Seq(VersionRow) /\ Len(new) = Len(vs)
    <2>1. DOMAIN new = 1..Len(vs) /\ Len(vs) \in Nat
      BY DEF FinalizedVersions
    <2>2. \A i \in DOMAIN vs : new[i] \in VersionRow
      BY <1>1 DEF FinalizedVersions, VersionRow, MaybeContents
    <2>3. new = [i \in 1..Len(vs) |-> new[i]]
      BY <2>1 DEF FinalizedVersions
    <2>4. new \in [1..Len(vs) -> VersionRow]
      BY SMTT(30), <2>2, <2>3
    <2> HIDE DEF new
    <2> QED BY <2>1, <2>4, FunctionIsSeq
  <1>4. \A i \in DOMAIN vs :
           /\ new[i].version = vs[i].version /\ new[i].hash = vs[i].hash
           /\ new[i].superseded = vs[i].superseded
           /\ i # n => new[i] = vs[i]
    BY <1>1, <1>2 DEF FinalizedVersions, VersionRow
  <1>5. Trail(new)
    <2>1. DOMAIN new = DOMAIN vs
      BY DEF FinalizedVersions
    <2> HIDE DEF new
    <2> QED BY <1>3, <1>4, <2>1 DEF Trail
  <1> QED BY <1>3, <1>4, <1>5

=============================================================================
