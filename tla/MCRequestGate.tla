---------------------------- MODULE MCRequestGate ----------------------------
(* Instances of RequestGate for TLC. v1 is a department and a tag, v2        *)
(* another department.                                                       *)
EXTENDS RequestGate, TLC

CONSTANTS t1, t2, v1, v2

Only(f, values) == [NoFilter EXCEPT ![f] = values]

MCDocuments == {[tenant |-> t1, department |-> v1, doc_type |-> Missing, tags |-> {}],
                [tenant |-> t1, department |-> v2, doc_type |-> Missing, tags |-> {v1}],
                [tenant |-> t1, department |-> Missing, doc_type |-> v1, tags |-> {v1, v2}],
                [tenant |-> t2, department |-> v1, doc_type |-> Missing, tags |-> {v1}]}

Nothing == [requests |-> 0, revocations |-> 0, seconds |-> 0, ticks |-> 0, switches |-> 0,
            scopes |-> {[tenant |-> t1, allowed |-> NoFilter]}, filters |-> {NoFilter},
            registries |-> {MCDocuments}, boxes |-> {}]

\* Many requests while time passes; keys revoked while they are used; keys of
\* different scopes and all kinds of filters, from the sidebar or not.
MCBounds ==
    {[Nothing EXCEPT !.requests = 3, !.seconds = 4],
     [Nothing EXCEPT !.requests = 3, !.revocations = 2],
     [Nothing EXCEPT !.requests = 1, !.ticks = 2, !.switches = 1,
         !.scopes = {[tenant |-> t1, allowed |-> NoFilter],
                     [tenant |-> t1, allowed |-> Only("department", {v1})],
                     [tenant |-> t2, allowed |-> Only("tags", {v1})]},
         !.filters = {NoFilter, Only("department", {v1, v2}), Only("tags", {v1})},
         !.registries = {MCDocuments, {d \in MCDocuments : d.tags = {}}},
         !.boxes = {NoFilter, Only("department", {v1}), Only("department", {v2}),
                    Only("tags", {v2})}]}

Symmetry == Permutations(Calls)
=============================================================================
