--------------------------- MODULE VersionedIndex ---------------------------
(* What document versioning promises, without saying how: a document has an  *)
(* append-only log of ingested contents, and search sees at most one entry   *)
(* of that log, the newest at the time it was published, and only after the  *)
(* one it saw before was withdrawn.                                          *)
EXTENDS Naturals, Sequences

CONSTANTS Paths, Contents

VARIABLES
    log,       \* log[p]: the contents of p that were ingested, oldest first
    visible    \* visible[p]: the entry of log[p] that search sees, 0 for none

vars == <<log, visible>>

TypeOK ==
    /\ log \in [Paths -> Seq(Contents)]
    /\ visible \in [Paths -> Nat]

Init ==
    /\ log = [p \in Paths |-> <<>>]
    /\ visible = [p \in Paths |-> 0]

\* A new content is recorded; what search sees stays until it is withdrawn.
Record(p, c) ==
    /\ log' = [log EXCEPT ![p] = Append(@, c)]
    /\ UNCHANGED visible

Withdraw(p) ==
    /\ visible[p] # 0
    /\ visible' = [visible EXCEPT ![p] = 0]
    /\ UNCHANGED log

\* Only the newest entry, and never over another one.
Publish(p) ==
    /\ log[p] # <<>>
    /\ visible[p] = 0
    /\ visible' = [visible EXCEPT ![p] = Len(log[p])]
    /\ UNCHANGED log

Next ==
    \E p \in Paths :
        \/ \E c \in Contents : Record(p, c)
        \/ Withdraw(p)
        \/ Publish(p)

Spec == Init /\ [][Next]_vars
=============================================================================
