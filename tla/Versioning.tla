----------------------------- MODULE Versioning -----------------------------
(* The version registry of backend/app/ingestion/versioning.py: what its     *)
(* four functions do to a `documents` row and to the `document_versions`     *)
(* rows behind it. Every operator is a pure function of rows, so that each   *)
(* process that calls them (the upload handler, the Celery worker, the CLI)  *)
(* supplies its own transaction boundaries.                                  *)
(*                                                                           *)
(* A file's bytes, its SHA-256 and the number of chunks it splits into are   *)
(* one value, a member of Contents. The facets (department, doc_type, tags)  *)
(* are one member of Facets.                                                 *)
EXTENDS Naturals, Sequences

CONSTANTS
    Contents,    \* file contents that differ in their SHA-256
    Facets,      \* combinations of department, doc_type and tags
    NoContent,   \* no file, or a chunk count still at its default 0
    NoRow        \* no row for this (tenant_id, source_path)

Status == {"queued", "processing", "completed", "failed", "deleted"}

MaybeContents == Contents \union {NoContent}

Row == [status : Status, hash : Contents, facet : Facets,
        version : Nat, chunks : MaybeContents]

MaybeRow == Row \union {NoRow}

VersionRow == [version : Nat, hash : Contents, chunks : MaybeContents,
               superseded : BOOLEAN]

ASSUME NoContentAssumption == NoContent \notin Contents
ASSUME NoRowAssumption == NoRow \notin Row

-----------------------------------------------------------------------------
NewRow(s, h, f) ==
    [status |-> s, hash |-> h, facet |-> f, version |-> 1, chunks |-> NoContent]

NewVersion(n, h) ==
    [version |-> n, hash |-> h, chunks |-> NoContent, superseded |-> FALSE]

\* The audit rows a SELECT on (document_id, version = n) returns. Nothing in
\* the schema makes the pair unique, so there can be more than one.
RowsOf(vs, n) == {i \in DOMAIN vs : vs[i].version = n}

Ambiguous(vs, n) == \E i, j \in RowsOf(vs, n) : i # j

\* Which branch get_or_create_document takes for a file that hashes to h.
\* "ambiguous" is scalar_one_or_none raising MultipleResultsFound.
Unchanged(row, h) == row.hash = h /\ row.status = "completed"

Decision(row, vs, h) ==
    CASE row = NoRow -> "create"
      [] row # NoRow /\ Unchanged(row, h) -> "unchanged"
      [] row # NoRow /\ ~Unchanged(row, h) /\ RowsOf(vs, row.version) = {} -> "fill"
      [] row # NoRow /\ ~Unchanged(row, h) /\ Ambiguous(vs, row.version) -> "ambiguous"
      [] OTHER -> "supersede"

Decisions == {"create", "unchanged", "fill", "ambiguous", "supersede"}

\* Mutant of Decided: a superseding ingestion forgets to set `processing`.
DecidedKeepingStatus(d, row, h, f) ==
    CASE d = "create" -> NewRow("processing", h, f)
      [] d = "fill" -> [row EXCEPT !.hash = h]
      [] OTHER -> [row EXCEPT !.hash = h, !.facet = f, !.version = @ + 1]

\* The in-memory row each branch leaves. Filling in the first version keeps
\* the facets the row was registered with.
Decided(d, row, h, f) ==
    CASE d = "create" -> NewRow("processing", h, f)
      [] d = "fill" -> [row EXCEPT !.status = "processing", !.hash = h]
      [] OTHER -> [row EXCEPT !.status = "processing", !.hash = h, !.facet = f,
                              !.version = @ + 1]

Superseded(vs, n) ==
    [i \in DOMAIN vs |->
        IF i \in RowsOf(vs, n) THEN [vs[i] EXCEPT !.superseded = TRUE] ELSE vs[i]]

\* Mutants of Recorded: the old row stays open; the old row is overwritten.
RecordedStillOpen(d, row, vs, h) ==
    CASE d = "create" -> Append(vs, NewVersion(1, h))
      [] d = "fill" -> Append(vs, NewVersion(row.version, h))
      [] OTHER -> Append(vs, NewVersion(row.version + 1, h))

RecordedInPlace(d, row, vs, h) ==
    CASE d = "create" -> Append(vs, NewVersion(1, h))
      [] d = "fill" -> Append(vs, NewVersion(row.version, h))
      [] OTHER -> [vs EXCEPT ![Len(vs)] = NewVersion(row.version + 1, h)]

\* The audit rows that branch leaves: one is always added.
Recorded(d, row, vs, h) ==
    CASE d = "create" -> Append(vs, NewVersion(1, h))
      [] d = "fill" -> Append(vs, NewVersion(row.version, h))
      [] OTHER -> Append(Superseded(vs, row.version), NewVersion(row.version + 1, h))

\* Mutant of IsNew: is_new confused with changed, so nothing is ever purged.
IsNewWhenChanged(d) == d # "unchanged"

\* "first real ingestion": nothing of this document can be in the stores yet.
IsNew(d) == d \in {"create", "fill"}

-----------------------------------------------------------------------------
\* Mutant of Registered: a known document's row keeps its status.
RegisteredKeepingStatus(row, h, f) ==
    IF row = NoRow THEN NewRow("queued", h, f)
    ELSE [row EXCEPT !.hash = h, !.facet = f]

Registered(row, h, f) ==
    IF row = NoRow THEN NewRow("queued", h, f)
    ELSE [row EXCEPT !.status = "queued", !.hash = h, !.facet = f]

MarkedFailed(row) == IF row = NoRow THEN NoRow ELSE [row EXCEPT !.status = "failed"]

Finalized(row, c) == [row EXCEPT !.status = "completed", !.chunks = c]

\* Mutant of FinalizedVersions: the chunk count goes to every audit row.
FinalizedAllVersions(vs, n, c) == [i \in DOMAIN vs |-> [vs[i] EXCEPT !.chunks = c]]

FinalizedVersions(vs, n, c) ==
    [i \in DOMAIN vs |-> IF i \in RowsOf(vs, n) THEN [vs[i] EXCEPT !.chunks = c] ELSE vs[i]]

-----------------------------------------------------------------------------
(* A SQLAlchemy unit of work at READ COMMITTED: the row is SELECTed (old),   *)
(* changed in memory (new), and the UPDATE at commit writes the columns      *)
(* whose value differs from the one that was loaded, whatever the row in     *)
(* the database (db) has become meanwhile.                                   *)
Written(db, old, new) == IF new = old THEN db ELSE new

Committed(db, old, new) ==
    IF old = NoRow THEN new
    ELSE [status  |-> Written(db.status, old.status, new.status),
          hash    |-> Written(db.hash, old.hash, new.hash),
          facet   |-> Written(db.facet, old.facet, new.facet),
          version |-> Written(db.version, old.version, new.version),
          chunks  |-> Written(db.chunks, old.chunks, new.chunks)]

\* The INSERT of a row somebody else inserted since the SELECT: the unique
\* constraint on (tenant_id, source_path) rejects it.
Conflict(db, old) == old = NoRow /\ db # NoRow
=============================================================================
