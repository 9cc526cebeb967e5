----------------------------- MODULE RequestGate -----------------------------
(* What a request passes before a handler does anything for it: its API key  *)
(* is looked up and its use noted, the rate limiter lets it through, and the *)
(* filters it asks for are resolved against the key. Beside it an            *)
(* administrator creates and revokes keys, and a browser tab ticks facets in *)
(* its sidebar and sends them with its chats.                                *)
EXTENDS RateLimit, Scoping

CONSTANTS
    Documents,     \* rows that may be in the registry
    Bounds,        \* what may happen, in each of the cases that are explored
    NoKey,         \* no such row
    NoRequest

VARIABLES
    keys,      \* the api_keys table
    revoking,  \* the key a DELETE /auth/api-keys/{prefix} has selected, or NoKey
    dead,      \* keys whose DELETE has been answered
    requests,  \* requests[c]: the request in slot c, or NoRequest
    tab,       \* the sidebar of a browser tab; switched: its key has changed under its ticks
    budget     \* one of Bounds, less what has happened

gateVars == <<keys, revoking, dead, requests, tab, budget>>
vars == <<limitVars, gateVars>>

\* Nothing reads last_used_at: its value is left out.
KeyRow == [scope : Scope, revoked : BOOLEAN]
GateStage == {"select", "touch", "limit", "served", "forbidden"}

\* late: it was sent when its key had been revoked; ticked: from the sidebar;
\* stale: from one whose ticks were made under another key.
RequestOf(stages, rows) ==
    [at : stages, client : Client, asked : Lists, row : rows,
     late : BOOLEAN, stale : BOOLEAN, ticked : BOOLEAN]

\* A request has the row of its key once that is selected.
Request == RequestOf({"select"}, {NoKey}) \union RequestOf(GateStage \ {"select"}, KeyRow)
Tab == [key : KeyIds, selected : Lists, switched : BOOLEAN]

\* scopes, filters, registries, boxes: what new keys may be allowed, clients may
\* ask for, the sidebar may be loaded from and the user may tick.
Budget == [requests : Nat, revocations : Nat, seconds : Nat, ticks : Nat, switches : Nat,
           scopes : SUBSET Scope, filters : SUBSET Lists,
           registries : SUBSET SUBSET Documents, boxes : SUBSET Lists]

ASSUME GateAssumption ==
    /\ "chat" \in Operations /\ Documents \subseteq Node
    /\ NoKey \notin KeyRow \union KeyIds /\ NoRequest \notin Request
    /\ Bounds \subseteq Budget

TypeOK ==
    /\ LimitTypeOK
    /\ keys \in [KeyIds -> KeyRow \union {NoKey}]
    /\ revoking \in KeyIds \union {NoKey}
    /\ dead \in SUBSET KeyIds
    /\ requests \in [Calls -> Request \union {NoRequest}]
    /\ tab \in Tab
    /\ budget \in Budget

Init ==
    /\ LimitInit
    /\ keys = [k \in KeyIds |-> NoKey]
    /\ revoking = NoKey /\ dead = {}
    /\ requests = [c \in Calls |-> NoRequest]
    /\ tab \in [key : KeyIds, selected : {NoFilter}, switched : {FALSE}]
    /\ budget \in Bounds

Spend(kind) == budget[kind] > 0 /\ budget' = [budget EXCEPT ![kind] = @ - 1]

-----------------------------------------------------------------------------
(* POST and DELETE /auth/api-keys                                            *)

CreateKey(k, scope) ==
    /\ keys[k] = NoKey
    /\ keys' = [keys EXCEPT ![k] = [scope |-> scope, revoked |-> FALSE]]
    /\ UNCHANGED <<limitVars, revoking, dead, requests, tab, budget>>

RevokeSelect(k) ==
    /\ revoking = NoKey
    /\ keys[k] # NoKey
    /\ Spend("revocations")
    /\ revoking' = k
    /\ UNCHANGED <<limitVars, keys, dead, requests, tab>>

\* The commit writes revoked_at, the one column that changed.
RevokeCommit ==
    /\ revoking # NoKey
    /\ keys' = [keys EXCEPT ![revoking].revoked = TRUE]
    /\ dead' = dead \union {revoking}
    /\ revoking' = NoKey
    /\ UNCHANGED <<limitVars, requests, tab, budget>>

-----------------------------------------------------------------------------
(* A request                                                                 *)

RequestAt(c, stage) == requests[c] # NoRequest /\ requests[c].at = stage

Arrive(c, client, asked, ticked) ==
    /\ requests[c] = NoRequest
    /\ Spend("requests")
    /\ requests' = [requests EXCEPT ![c] =
         [at |-> "select", client |-> client, asked |-> asked, row |-> NoKey,
          late |-> client[2] \in dead, stale |-> ticked /\ tab.switched, ticked |-> ticked]]
    /\ UNCHANGED <<limitVars, keys, revoking, dead, tab>>

\* Mutant of SelectKey: an unknown key is let in.
SelectKeyUnknown(c) ==
    /\ RequestAt(c, "select")
    /\ LET row == keys[requests[c].client[2]] IN
         requests' = [requests EXCEPT ![c] =
             IF row # NoKey /\ row.revoked THEN NoRequest
             ELSE [@ EXCEPT !.at = "touch", !.row = row]]
    /\ UNCHANGED <<limitVars, keys, revoking, dead, tab, budget>>

\* get_current_api_key: an unknown or revoked key is a 401.
SelectKey(c) ==
    /\ RequestAt(c, "select")
    /\ LET row == keys[requests[c].client[2]] IN
         requests' = [requests EXCEPT ![c] =
             IF row = NoKey \/ row.revoked THEN NoRequest
             ELSE [@ EXCEPT !.at = "touch", !.row = row]]
    /\ UNCHANGED <<limitVars, keys, revoking, dead, tab, budget>>

\* Mutant of TouchKey: the commit writes the row as it was loaded.
TouchWholeKey(c) ==
    /\ RequestAt(c, "touch")
    /\ keys' = [keys EXCEPT ![requests[c].client[2]] = requests[c].row]
    /\ requests' = [requests EXCEPT ![c].at = "limit"]
    /\ ReadClock(c, requests[c].client)
    /\ UNCHANGED <<revoking, dead, tab, budget>>

\* last_used_at is committed, the one column that changed; the limiter begins.
TouchKey(c) ==
    /\ RequestAt(c, "touch")
    /\ requests' = [requests EXCEPT ![c].at = "limit"]
    /\ ReadClock(c, requests[c].client)
    /\ UNCHANGED <<keys, revoking, dead, tab, budget>>

Limiting(c) ==
    /\ Incr(c) \/ Expire(c)
    /\ UNCHANGED gateVars

\* A 429, or the handler's first statement: a 403 or the filters of a search.
Handle(c) ==
    /\ RequestAt(c, "limit")
    /\ Return(c)
    /\ LET r == requests[c]
           status == IF Forbidden(r.row.scope, r.asked) THEN "forbidden" ELSE "served"
       IN requests' = [requests EXCEPT ![c] = IF calls[c].at = "refused" THEN NoRequest
                                              ELSE [r EXCEPT !.at = status]]
    /\ UNCHANGED <<keys, revoking, dead, tab, budget>>

\* The response is complete.
Respond(c) ==
    /\ RequestAt(c, "served") \/ RequestAt(c, "forbidden")
    /\ requests' = [requests EXCEPT ![c] = NoRequest]
    /\ UNCHANGED <<limitVars, keys, revoking, dead, tab, budget>>

Abandon(c) ==
    /\ Die(c)
    /\ requests' = [requests EXCEPT ![c] = NoRequest]
    /\ UNCHANGED <<keys, revoking, dead, tab, budget>>

-----------------------------------------------------------------------------
(* The sidebar                                                               *)

\* get_facets answers an accepted key with what is in the registry now, and the
\* boxes it shows are ticked or not; ticks that it does not show stay.
TickBoxes(documents, ticks) ==
    LET row == keys[tab.key]
        shown == FacetsOf(row.scope, documents)
    IN /\ Spend("ticks")
       /\ row # NoKey /\ ~row.revoked
       /\ \A f \in Facet : ticks[f] \subseteq shown[f]
       /\ tab' = [tab EXCEPT !.selected =
                    [f \in Facet |-> (@[f] \ shown[f]) \union ticks[f]]]
       /\ UNCHANGED <<limitVars, keys, revoking, dead, requests>>

ClearFilters ==
    /\ tab.selected # NoFilter
    /\ tab' = [tab EXCEPT !.selected = NoFilter, !.switched = FALSE]
    /\ UNCHANGED <<limitVars, keys, revoking, dead, requests, budget>>

\* Settings: another key, whose facets have yet to be loaded. The ticks stay.
SetApiKey(k) ==
    /\ k # tab.key
    /\ Spend("switches")
    /\ tab' = [tab EXCEPT !.key = k, !.switched = tab.selected # NoFilter]
    /\ UNCHANGED <<limitVars, keys, revoking, dead, requests>>

TimePasses ==
    /\ Tick
    /\ Spend("seconds")
    /\ UNCHANGED <<keys, revoking, dead, requests, tab>>

-----------------------------------------------------------------------------
Next ==
    \/ \E k \in KeyIds : (\E scope \in budget.scopes : CreateKey(k, scope)) \/ RevokeSelect(k)
    \/ RevokeCommit
    \/ \E c \in Calls :
         \/ \E client \in Client, asked \in budget.filters : Arrive(c, client, asked, FALSE)
         \/ Arrive(c, <<"chat", tab.key>>, tab.selected, TRUE)
         \/ SelectKey(c) \/ TouchKey(c) \/ Limiting(c) \/ Handle(c) \/ Respond(c)
         \/ Abandon(c)
    \/ \E documents \in budget.registries, ticks \in budget.boxes : TickBoxes(documents, ticks)
    \/ ClearFilters
    \/ \E k \in KeyIds : SetApiKey(k)
    \/ TimePasses

Spec == Init /\ [][Next]_vars
-----------------------------------------------------------------------------
(* Properties                                                                *)

\* Once a revocation has been answered, no request sent with that key gets past
\* the lookup, whatever commits of last_used_at were under way at the time.
RevokedIsRefused == \A c \in Calls :
    requests[c] # NoRequest /\ requests[c].late => requests[c].at = "select"

\* What either retriever may return to a request that is served is permitted to
\* the key it came with, and both may return the same (node_matches_filters:
\* "Post-hoc equivalent for BM25").
ServedInScope == \A c \in Calls : RequestAt(c, "served") =>
    LET scope == requests[c].row.scope
        filters == ResolveScopedFilters(scope, requests[c].asked)
    IN \A node \in Documents :
         /\ DenseReturns(node, filters) => Permitted(scope, node)
         /\ DenseReturns(node, filters) <=> NodeMatchesFilters(node, filters)

\* Facets ticked in the sidebar under one key, since they were last cleared or
\* none was ticked, never make a chat with that key fail (get_facets: "real,
\* authorized facets").
ShownCanBeAsked == \A c \in Calls :
    RequestAt(c, "forbidden") => ~requests[c].ticked \/ requests[c].stale
=============================================================================
