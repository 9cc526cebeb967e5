----------------------------- MODULE MCChatStore -----------------------------
(* Instances of ChatStore for TLC.                                           *)
EXTENDS ChatStore

Nothing == [turns |-> 2, opens |-> 0, renames |-> 0, errors |-> 0, haste |-> 0,
            switches |-> 0, happened |-> {}]

\* Users who wait, or chat in one conversation at the same time; a title that
\* changes; then one user in haste, a failure, and a key that changes.
MCBounds ==
    {[Nothing EXCEPT !.turns = 3, !.opens = 1],
     [Nothing EXCEPT !.renames = 1],
     [Nothing EXCEPT !.opens = 1, !.haste = 1],
     [Nothing EXCEPT !.opens = 1, !.errors = 1],
     [Nothing EXCEPT !.opens = 1, !.switches = 1]}
=============================================================================
