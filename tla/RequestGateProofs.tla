-------------------------- MODULE RequestGateProofs --------------------------
(* The properties of RequestGate for any number of keys, documents, requests *)
(* and any bounds. The gate takes the steps of the rate limiter and no       *)
(* others on its state, which gives it the limiter's properties. The rest    *)
(* follows from what every request carries: the row of its key, whose scope  *)
(* never changes, and ticks that were made among what that scope shows.      *)
EXTENDS RequestGate, RateLimitProofs

-----------------------------------------------------------------------------
(* What resolve_scoped_filters and the two implementations of its filters    *)
(* guarantee of every scope, request and node.                               *)

\* Qdrant and node_matches_filters return the same nodes ("Post-hoc equivalent
\* for BM25").
THEOREM SameFilters ==
    ASSUME NEW filters \in SearchFilters, NEW node \in Node
    PROVE  DenseReturns(node, filters) <=> NodeMatchesFilters(node, filters)
<1> DEFINE facets == filters.facets
<1>1. /\ node.department \in Values \union {Missing}
      /\ node.doc_type \in Values \union {Missing} /\ node.tags \subseteq Values
  BY DEF Node
<1>2. facets \in [Facet -> SUBSET Values] /\ Missing \notin Values
  BY ScopingAssumption DEF SearchFilters, Lists
<1>3. DenseReturns(node, filters) <=>
        /\ node.tenant = filters.tenant
        /\ \A f \in Facet : facets[f] # {} => ValuesOf(node, f) \intersect facets[f] # {}
  BY DEF DenseReturns, BuildMetadataFilters
<1> HIDE DEF facets
<1>4. /\ ValuesOf(node, "tags") = node.tags
      /\ ValuesOf(node, "department") = {node.department} \ {Missing}
      /\ ValuesOf(node, "doc_type") = {node.doc_type} \ {Missing}
  BY DEF ValuesOf
<1>5. \A x \in Values \union {Missing}, s \in SUBSET Values :
        ({x} \ {Missing}) \intersect s # {} <=> x \in s
  BY <1>2
<1>6. /\ facets["department"] \in SUBSET Values /\ facets["doc_type"] \in SUBSET Values
  BY <1>2 DEF Facet
<1>7. /\ ValuesOf(node, "department") \intersect facets["department"] # {}
            <=> node.department \in facets["department"]
      /\ ValuesOf(node, "doc_type") \intersect facets["doc_type"] # {}
            <=> node.doc_type \in facets["doc_type"]
  BY <1>1, <1>4, <1>5, <1>6
<1> QED
  BY <1>3, <1>4, <1>7 DEF NodeMatchesFilters, Facet, facets

\* A request that is not refused gets filters, and each of its facets names only
\* values the key is allowed.
LEMMA ResolvedWithinScope ==
    ASSUME NEW scope \in Scope, NEW requested \in Lists, ~Forbidden(scope, requested)
    PROVE  /\ ResolveScopedFilters(scope, requested) \in SearchFilters
           /\ \A f \in Facet : scope.allowed[f] # {} =>
                LET got == ResolveScopedFilters(scope, requested).facets[f]
                IN got # {} /\ got \subseteq scope.allowed[f]
<1>1. scope.allowed \in [Facet -> SUBSET Values] /\ requested \in [Facet -> SUBSET Values]
      /\ scope.tenant \in Tenants
  BY DEF Scope, Lists
<1>2. \A f \in Facet : ScopedFacet(requested[f], scope.allowed[f]) \in SUBSET Values
  BY <1>1 DEF ScopedFacet
<1>3. ResolveScopedFilters(scope, requested) \in SearchFilters
  BY <1>1, <1>2 DEF ResolveScopedFilters, SearchFilters, Lists
<1>4. ASSUME NEW f \in Facet, scope.allowed[f] # {}
      PROVE  LET got == ResolveScopedFilters(scope, requested).facets[f]
             IN got # {} /\ got \subseteq scope.allowed[f]
  <2>1. Disallowed(requested[f], scope.allowed[f]) = {}
    BY DEF Forbidden
  <2>2. requested[f] \subseteq scope.allowed[f]
    BY <1>4, <2>1 DEF Disallowed
  <2>3. ResolveScopedFilters(scope, requested).facets[f]
          = ScopedFacet(requested[f], scope.allowed[f])
    BY DEF ResolveScopedFilters
  <2> QED
    BY <1>4, <2>2, <2>3 DEF ScopedFacet
<1> QED
  BY <1>3, <1>4

\* The boundary resolve_scoped_filters draws: whatever a request that is not
\* refused asks for, what is returned to it is permitted to its key.
THEOREM ScopeKept ==
    ASSUME NEW scope \in Scope, NEW requested \in Lists, ~Forbidden(scope, requested),
           NEW node \in Node,
           DenseReturns(node, ResolveScopedFilters(scope, requested))
    PROVE  Permitted(scope, node)
<1> DEFINE filters == ResolveScopedFilters(scope, requested)
<1>1. node.tenant = scope.tenant
  BY DEF DenseReturns, BuildMetadataFilters, ResolveScopedFilters
<1>2. ASSUME NEW f \in Facet, scope.allowed[f] # {}
      PROVE  ValuesOf(node, f) \intersect scope.allowed[f] # {}
  <2>1. filters.facets[f] # {} /\ filters.facets[f] \subseteq scope.allowed[f]
    BY <1>2, ResolvedWithinScope
  <2>2. ValuesOf(node, f) \intersect filters.facets[f] # {}
    BY <2>1 DEF DenseReturns, BuildMetadataFilters
  <2> QED
    BY <2>1, <2>2
<1> QED
  BY <1>1, <1>2 DEF Permitted

\* A request without filters is never refused and is returned everything its key
\* is permitted ("omitting the filter doesn't bypass scope").
THEOREM NoFilterReturnsScope ==
    ASSUME NEW scope \in Scope, NEW node \in Node
    PROVE  /\ ~Forbidden(scope, NoFilter)
           /\ DenseReturns(node, ResolveScopedFilters(scope, NoFilter))
                <=> Permitted(scope, node)
<1>1. \A f \in Facet : NoFilter[f] = {}
  BY DEF NoFilter
<1>2. ~Forbidden(scope, NoFilter)
  BY <1>1 DEF Forbidden, Disallowed
<1>3. \A f \in Facet : ScopedFacet(NoFilter[f], scope.allowed[f]) = scope.allowed[f]
  BY <1>1 DEF ScopedFacet
<1> DEFINE filters == ResolveScopedFilters(scope, NoFilter)
<1>4. filters.tenant = scope.tenant /\ \A f \in Facet : filters.facets[f] = scope.allowed[f]
  BY <1>3 DEF ResolveScopedFilters
<1> HIDE DEF filters
<1>5. DenseReturns(node, filters) <=> Permitted(scope, node)
  BY <1>4 DEF DenseReturns, BuildMetadataFilters, Permitted
<1> QED
  BY <1>2, <1>5 DEF filters

\* Whatever is ticked among the facets that get_facets shows, the request is not
\* refused, whether or not the documents are still there.
THEOREM ShownIsAllowed ==
    ASSUME NEW scope \in Scope, NEW documents \in SUBSET Node, NEW ticks \in Lists,
           \A f \in Facet : ticks[f] \subseteq FacetsOf(scope, documents)[f]
    PROVE  ~Forbidden(scope, ticks)
<1> SUFFICES ASSUME NEW f \in Facet
             PROVE  Disallowed(ticks[f], scope.allowed[f]) = {}
  BY DEF Forbidden
<1> DEFINE values == UNION {ValuesOf(d, f) : d \in {x \in documents : x.tenant = scope.tenant}}
<1>1. FacetsOf(scope, documents)[f] = Restrict(values, scope.allowed[f])
  BY DEF FacetsOf
<1> HIDE DEF values
<1> QED
  BY <1>1 DEF Restrict, Disallowed

-----------------------------------------------------------------------------
(* The inductive invariant                                                   *)

GateTypeOK ==
    /\ keys \in [KeyIds -> KeyRow \union {NoKey}]
    /\ revoking \in KeyIds \union {NoKey}
    /\ dead \in SUBSET KeyIds
    /\ requests \in [Calls -> Request \union {NoRequest}]
    /\ tab \in Tab
    /\ budget \in Budget

\* A key with this row is not refused for what was ticked.
TicksAllowed(row, ticks) ==
    IF row = NoKey THEN ticks = NoFilter ELSE ~Forbidden(row.scope, ticks)

RequestSound(r) == r # NoRequest =>
    /\ r.late => r.at = "select" /\ r.client[2] \in dead
    /\ r.at = "served" => ~Forbidden(r.row.scope, r.asked)
    /\ r.at = "forbidden" => Forbidden(r.row.scope, r.asked)
    /\ r.ticked /\ ~r.stale =>
         IF r.at = "select" THEN TicksAllowed(keys[r.client[2]], r.asked)
         ELSE ~Forbidden(r.row.scope, r.asked)

KeysSound ==
    /\ \A k \in dead : keys[k] # NoKey /\ keys[k].revoked
    /\ revoking # NoKey => keys[revoking] # NoKey

TabSound == ~tab.switched => TicksAllowed(keys[tab.key], tab.selected)

GateInv ==
    /\ GateTypeOK /\ KeysSound /\ TabSound
    /\ \A c \in Calls : RequestSound(requests[c])

-----------------------------------------------------------------------------
LEMMA NoFilterTyped == NoFilter \in Lists
  BY DEF NoFilter, Lists

LEMMA NoFilterAllowed == ASSUME NEW scope PROVE ~Forbidden(scope, NoFilter)
  BY DEF NoFilter, Forbidden, Disallowed

LEMMA RowIsNoNull == ASSUME NEW row \in KeyRow PROVE row # NoKey
  BY GateAssumption

LEMMA RequestIsNoNull == ASSUME NEW r \in Request PROVE r # NoRequest
  BY GateAssumption

LEMMA RequestFields ==
    ASSUME NEW r \in Request
    PROVE  /\ r.client \in Client /\ r.client[2] \in KeyIds /\ r.asked \in Lists
           /\ r.at = "select" => r.row = NoKey
           /\ r.at # "select" => r.row \in KeyRow
           /\ r.at \in GateStage
           /\ r.late \in BOOLEAN /\ r.stale \in BOOLEAN /\ r.ticked \in BOOLEAN
  BY DEF Request, RequestOf, Client, GateStage

LEMMA SpendKeepsBudget ==
    ASSUME budget \in Budget,
           NEW kind \in {"requests", "revocations", "seconds", "ticks", "switches"},
           Spend(kind)
    PROVE  budget' \in Budget
<1>1. budget[kind] > 0 /\ budget' = [budget EXCEPT ![kind] = @ - 1]
  BY DEF Spend
<1>2. CASE kind = "requests"
  BY <1>1, <1>2 DEF Budget
<1>3. CASE kind = "revocations"
  BY <1>1, <1>3 DEF Budget
<1>4. CASE kind = "seconds"
  BY <1>1, <1>4 DEF Budget
<1>5. CASE kind = "ticks"
  BY <1>1, <1>5 DEF Budget
<1>6. CASE kind = "switches"
  BY <1>1, <1>6 DEF Budget
<1> QED
  BY <1>2, <1>3, <1>4, <1>5, <1>6

LEMMA GateInitInv == Init => GateInv
<1> SUFFICES ASSUME Init PROVE GateInv
  OBVIOUS
<1>1. GateTypeOK
  BY GateAssumption, NoFilterTyped DEF Init, GateTypeOK, Tab
<1>2. KeysSound /\ TabSound /\ \A c \in Calls : RequestSound(requests[c])
  <2>1. tab.key \in KeyIds /\ tab.selected = NoFilter
    BY DEF Init
  <2> QED
    BY <2>1 DEF Init, KeysSound, TabSound, TicksAllowed, RequestSound
<1> QED
  BY <1>1, <1>2 DEF GateInv

-----------------------------------------------------------------------------
(* Steps of one request                                                      *)

LEMMA OneRequest ==
    ASSUME GateInv, NEW c \in Calls, NEW r \in Request \union {NoRequest},
           requests' = [requests EXCEPT ![c] = r], RequestSound(r),
           UNCHANGED <<keys, revoking, dead, tab>>, budget' \in Budget
    PROVE  GateInv'
<1>1. GateTypeOK'
  BY DEF GateInv, GateTypeOK
<1>2. KeysSound' /\ TabSound'
  BY DEF GateInv, KeysSound, TabSound
<1>3. ASSUME NEW d \in Calls PROVE RequestSound(requests[d])'
  <2>1. requests'[d] = IF d = c THEN r ELSE requests[d]
    BY DEF GateInv, GateTypeOK
  <2>2. RequestSound(requests'[d])
    BY <2>1 DEF GateInv
  <2> QED
    BY <2>2 DEF RequestSound
<1> QED
  BY <1>1, <1>2, <1>3 DEF GateInv

\* A request that is over, whatever ended it.
LEMMA RequestEnds ==
    ASSUME GateInv, NEW c \in Calls, requests' = [requests EXCEPT ![c] = NoRequest],
           UNCHANGED <<keys, revoking, dead, tab, budget>>
    PROVE  GateInv'
  BY OneRequest DEF RequestSound, GateInv, GateTypeOK

LEMMA ArriveKeeps ==
    ASSUME GateInv, NEW c \in Calls, NEW client \in Client, NEW asked \in Lists,
           NEW ticked \in BOOLEAN, Arrive(c, client, asked, ticked),
           ticked => client[2] = tab.key /\ asked = tab.selected
    PROVE  GateInv'
<1> DEFINE r == [at |-> "select", client |-> client, asked |-> asked, row |-> NoKey,
                 late |-> client[2] \in dead, stale |-> ticked /\ tab.switched,
                 ticked |-> ticked]
<1>1. tab.switched \in BOOLEAN
  BY DEF GateInv, GateTypeOK, Tab
<1>2. r \in Request
  BY <1>1 DEF Request, RequestOf, GateStage
<1>3. RequestSound(r)
  BY <1>1 DEF RequestSound, GateInv, TabSound
<1>4. requests' = [requests EXCEPT ![c] = r] /\ UNCHANGED <<keys, revoking, dead, tab>>
  BY DEF Arrive
<1>5. budget' \in Budget
  BY SpendKeepsBudget DEF Arrive, GateInv, GateTypeOK
<1> HIDE DEF r
<1> QED
  BY <1>2, <1>3, <1>4, <1>5, OneRequest

LEMMA SelectKeyKeeps ==
    ASSUME GateInv, NEW c \in Calls, SelectKey(c)
    PROVE  GateInv'
<1> DEFINE row == keys[requests[c].client[2]]
           r == [requests[c] EXCEPT !.at = "touch", !.row = row]
<1>1. /\ requests[c] \in Request /\ requests[c].at = "select" /\ requests[c] # NoRequest
      /\ RequestSound(requests[c])
  BY DEF SelectKey, RequestAt, GateInv, GateTypeOK
<1>2. UNCHANGED <<keys, revoking, dead, tab, budget>>
  BY DEF SelectKey
<1>3. CASE row = NoKey \/ row.revoked
  BY <1>2, <1>3, RequestEnds DEF SelectKey
<1>4. CASE ~(row = NoKey \/ row.revoked)
  <2>1. row \in KeyRow
    BY <1>1, <1>4, RequestFields DEF GateInv, GateTypeOK
  <2>2. /\ r \in Request /\ r.at = "touch" /\ r.row = row /\ r.asked = requests[c].asked
        /\ r.late = requests[c].late /\ r.ticked = requests[c].ticked
        /\ r.stale = requests[c].stale
    BY <1>1, <2>1 DEF Request, RequestOf, GateStage
  <2>3. ~requests[c].late
    BY <1>1, <1>4 DEF RequestSound, GateInv, KeysSound
  <2>4. RequestSound(r)
    BY <1>1, <1>4, <2>2, <2>3 DEF RequestSound, TicksAllowed
  <2>5. requests' = [requests EXCEPT ![c] = r]
    BY <1>4 DEF SelectKey
  <2> HIDE DEF r
  <2> QED
    BY <1>2, <2>2, <2>4, <2>5, OneRequest DEF GateInv, GateTypeOK
<1> QED
  BY <1>3, <1>4

LEMMA TouchKeyKeeps ==
    ASSUME GateInv, NEW c \in Calls, TouchKey(c)
    PROVE  GateInv'
<1> DEFINE r == [requests[c] EXCEPT !.at = "limit"]
<1>1. /\ requests[c] \in Request /\ requests[c].at = "touch" /\ requests[c] # NoRequest
      /\ RequestSound(requests[c])
  BY DEF TouchKey, RequestAt, GateInv, GateTypeOK
<1>2. /\ r \in Request /\ r.at = "limit" /\ r.row = requests[c].row
      /\ r.asked = requests[c].asked /\ r.late = requests[c].late
      /\ r.ticked = requests[c].ticked /\ r.stale = requests[c].stale
  BY <1>1 DEF Request, RequestOf, GateStage
<1>3. RequestSound(r)
  BY <1>1, <1>2 DEF RequestSound
<1>4. /\ requests' = [requests EXCEPT ![c] = r]
      /\ UNCHANGED <<keys, revoking, dead, tab, budget>>
  BY DEF TouchKey
<1> HIDE DEF r
<1> QED
  BY <1>2, <1>3, <1>4, OneRequest DEF GateInv, GateTypeOK

LEMMA HandleKeeps ==
    ASSUME GateInv, NEW c \in Calls, Handle(c)
    PROVE  GateInv'
<1> DEFINE status == IF Forbidden(requests[c].row.scope, requests[c].asked)
                     THEN "forbidden" ELSE "served"
           r == [requests[c] EXCEPT !.at = status]
<1>1. /\ requests[c] \in Request /\ requests[c].at = "limit" /\ requests[c] # NoRequest
      /\ RequestSound(requests[c])
  BY DEF Handle, RequestAt, GateInv, GateTypeOK
<1>2. /\ r \in Request /\ r.at = status /\ r.row = requests[c].row
      /\ r.asked = requests[c].asked /\ r.late = requests[c].late
      /\ r.ticked = requests[c].ticked /\ r.stale = requests[c].stale
  BY <1>1 DEF Request, RequestOf, GateStage
<1>3. RequestSound(r)
  BY <1>1, <1>2 DEF RequestSound
<1>4. UNCHANGED <<keys, revoking, dead, tab, budget>>
  BY DEF Handle
<1>5. CASE calls[c].at = "refused"
  BY <1>4, <1>5, RequestEnds DEF Handle
<1>6. CASE calls[c].at # "refused"
  <2>1. requests' = [requests EXCEPT ![c] = r]
    BY <1>6 DEF Handle
  <2> HIDE DEF r
  <2> QED
    BY <1>2, <1>3, <1>4, <2>1, OneRequest DEF GateInv, GateTypeOK
<1> QED
  BY <1>5, <1>6

-----------------------------------------------------------------------------
(* Steps of the administrator: a row keeps its scope                         *)

LEMMA KeysGrow ==
    ASSUME GateInv, GateTypeOK', KeysSound',
           \A k \in KeyIds : keys[k] # NoKey =>
               keys'[k] # NoKey /\ keys'[k].scope = keys[k].scope,
           dead \subseteq dead', UNCHANGED <<requests, tab>>
    PROVE  GateInv'
<1>1. ASSUME NEW k \in KeyIds, NEW ticks, TicksAllowed(keys[k], ticks)
      PROVE  TicksAllowed(keys'[k], ticks)
  BY <1>1, NoFilterAllowed DEF TicksAllowed
<1>2. TabSound'
  <2>1. tab.key \in KeyIds
    BY DEF GateInv, GateTypeOK, Tab
  <2> QED
    BY <1>1, <2>1 DEF GateInv, TabSound, TicksAllowed
<1>3. ASSUME NEW c \in Calls PROVE RequestSound(requests[c])'
  <2> DEFINE r == requests[c]
  <2> SUFFICES ASSUME r # NoRequest
               PROVE  /\ r.late => r.at = "select" /\ r.client[2] \in dead'
                      /\ r.at = "served" => ~Forbidden(r.row.scope, r.asked)
                      /\ r.at = "forbidden" => Forbidden(r.row.scope, r.asked)
                      /\ r.ticked /\ ~r.stale =>
                           IF r.at = "select" THEN TicksAllowed(keys'[r.client[2]], r.asked)
                           ELSE ~Forbidden(r.row.scope, r.asked)
    BY DEF RequestSound, TicksAllowed
  <2>1. r.client[2] \in KeyIds
    BY RequestFields DEF GateInv, GateTypeOK
  <2> QED
    BY <1>1, <2>1 DEF GateInv, RequestSound
<1> QED
  BY <1>2, <1>3 DEF GateInv

LEMMA CreateKeyKeeps ==
    ASSUME GateInv, NEW k \in KeyIds, NEW scope \in Scope, CreateKey(k, scope)
    PROVE  GateInv'
<1> DEFINE row == [scope |-> scope, revoked |-> FALSE]
<1>1. row \in KeyRow /\ row # NoKey
  BY RowIsNoNull DEF KeyRow
<1>2. /\ keys[k] = NoKey /\ keys' = [keys EXCEPT ![k] = row]
      /\ UNCHANGED <<revoking, dead, requests, tab, budget>>
  BY DEF CreateKey
<1> HIDE DEF row
<1>3. GateTypeOK'
  BY <1>1, <1>2 DEF GateInv, GateTypeOK
<1>4. \A j \in KeyIds : keys'[j] = IF j = k THEN row ELSE keys[j]
  BY <1>2 DEF GateInv, GateTypeOK
<1>5. KeysSound'
  BY <1>1, <1>2, <1>4 DEF GateInv, GateTypeOK, KeysSound
<1> QED
  BY <1>1, <1>2, <1>3, <1>4, <1>5, KeysGrow

LEMMA RevokeSelectKeeps ==
    ASSUME GateInv, NEW k \in KeyIds, RevokeSelect(k)
    PROVE  GateInv'
<1>1. /\ keys[k] # NoKey /\ revoking' = k
      /\ UNCHANGED <<keys, dead, requests, tab>>
  BY DEF RevokeSelect
<1>2. budget' \in Budget
  BY SpendKeepsBudget DEF RevokeSelect, GateInv, GateTypeOK
<1>3. GateTypeOK' /\ KeysSound'
  BY <1>1, <1>2 DEF GateInv, GateTypeOK, KeysSound
<1> QED
  BY <1>1, <1>3, KeysGrow

LEMMA RevokeCommitKeeps ==
    ASSUME GateInv, RevokeCommit
    PROVE  GateInv'
<1>1. PICK k \in KeyIds : k = revoking /\ keys[k] # NoKey
  BY DEF RevokeCommit, GateInv, GateTypeOK, KeysSound
<1> DEFINE row == [keys[k] EXCEPT !.revoked = TRUE]
<1>2. /\ row \in KeyRow /\ row # NoKey /\ row.revoked /\ row.scope = keys[k].scope
  BY <1>1, RowIsNoNull DEF KeyRow, GateInv, GateTypeOK
<1>3. /\ keys' = [keys EXCEPT ![k] = row] /\ dead' = dead \union {k} /\ revoking' = NoKey
      /\ UNCHANGED <<requests, tab, budget>>
  BY <1>1 DEF RevokeCommit
<1> HIDE DEF row
<1>4. GateTypeOK'
  BY <1>1, <1>2, <1>3 DEF GateInv, GateTypeOK
<1>5. \A j \in KeyIds : keys'[j] = IF j = k THEN row ELSE keys[j]
  BY <1>3 DEF GateInv, GateTypeOK
<1>6. KeysSound'
  BY <1>2, <1>3, <1>5 DEF GateInv, GateTypeOK, KeysSound
<1> QED
  BY <1>1, <1>2, <1>3, <1>4, <1>5, <1>6, KeysGrow

-----------------------------------------------------------------------------
(* Steps of the sidebar                                                      *)

LEMMA TabOnly ==
    ASSUME GateInv, tab' \in Tab, TabSound', budget' \in Budget,
           UNCHANGED <<keys, revoking, dead, requests>>
    PROVE  GateInv'
<1>1. GateTypeOK' /\ KeysSound'
  BY DEF GateInv, GateTypeOK, KeysSound
<1>2. ASSUME NEW c \in Calls PROVE RequestSound(requests[c])'
  BY DEF GateInv, RequestSound, TicksAllowed
<1> QED
  BY <1>1, <1>2 DEF GateInv

LEMMA TickBoxesKeeps ==
    ASSUME GateInv, NEW documents \in SUBSET Documents, NEW ticks \in Lists,
           TickBoxes(documents, ticks)
    PROVE  GateInv'
<1> DEFINE row == keys[tab.key]
           shown == FacetsOf(row.scope, documents)
           selected == [f \in Facet |-> (tab.selected[f] \ shown[f]) \union ticks[f]]
<1>1. /\ tab \in Tab /\ tab.key \in KeyIds /\ tab.selected \in Lists
      /\ tab.switched \in BOOLEAN
  BY DEF GateInv, GateTypeOK, Tab
<1>2. /\ row # NoKey /\ \A f \in Facet : ticks[f] \subseteq shown[f]
      /\ tab' = [tab EXCEPT !.selected = selected]
      /\ UNCHANGED <<keys, revoking, dead, requests>>
  BY DEF TickBoxes
<1>3. row \in KeyRow /\ row.scope \in Scope
  BY <1>1, <1>2 DEF GateInv, GateTypeOK, KeyRow
<1>4. ~Forbidden(row.scope, ticks)
  BY <1>2, <1>3, GateAssumption, ShownIsAllowed
<1>5. selected \in Lists /\ \A f \in Facet : selected[f] \subseteq tab.selected[f] \union ticks[f]
  BY <1>1 DEF Lists
<1>6. \A f \in Facet : selected[f] = (tab.selected[f] \ shown[f]) \union ticks[f]
  OBVIOUS
<1> HIDE DEF selected, shown
<1>7. TicksAllowed(row, tab.selected) => TicksAllowed(row, selected)
  BY <1>2, <1>4, <1>6 DEF TicksAllowed, Forbidden, Disallowed
<1>8. tab' \in Tab /\ tab'.key = tab.key /\ tab'.selected = selected
        /\ tab'.switched = tab.switched
  BY <1>1, <1>2, <1>5 DEF Tab
<1>9. TabSound'
  BY <1>2, <1>7, <1>8 DEF GateInv, TabSound, TicksAllowed
<1>10. budget' \in Budget
  BY SpendKeepsBudget DEF TickBoxes, GateInv, GateTypeOK
<1> QED
  BY <1>2, <1>8, <1>9, <1>10, TabOnly

LEMMA ClearFiltersKeeps ==
    ASSUME GateInv, ClearFilters
    PROVE  GateInv'
<1>1. /\ tab' = [tab EXCEPT !.selected = NoFilter, !.switched = FALSE]
      /\ UNCHANGED <<keys, revoking, dead, requests, budget>>
  BY DEF ClearFilters
<1>2. tab' \in Tab /\ tab'.selected = NoFilter
  BY <1>1, NoFilterTyped DEF GateInv, GateTypeOK, Tab
<1>3. TabSound'
  BY <1>2, NoFilterAllowed DEF TabSound, TicksAllowed
<1> QED
  BY <1>1, <1>2, <1>3, TabOnly DEF GateInv, GateTypeOK

LEMMA SetApiKeyKeeps ==
    ASSUME GateInv, NEW k \in KeyIds, SetApiKey(k)
    PROVE  GateInv'
<1>1. /\ tab' = [tab EXCEPT !.key = k, !.switched = tab.selected # NoFilter]
      /\ UNCHANGED <<keys, revoking, dead, requests>>
  BY DEF SetApiKey
<1>2. /\ tab' \in Tab /\ tab'.selected = tab.selected
      /\ ~tab'.switched => tab'.selected = NoFilter
  BY <1>1 DEF GateInv, GateTypeOK, Tab
<1>3. TabSound'
  BY <1>2, NoFilterAllowed DEF TabSound, TicksAllowed
<1>4. budget' \in Budget
  BY SpendKeepsBudget DEF SetApiKey, GateInv, GateTypeOK
<1> QED
  BY <1>1, <1>2, <1>3, <1>4, TabOnly

-----------------------------------------------------------------------------
LEMMA GateInvStep == GateInv /\ [Next]_vars => GateInv'
<1> SUFFICES ASSUME GateInv, [Next]_vars PROVE GateInv'
  OBVIOUS
<1>1. budget \in Budget /\ budget.scopes \subseteq Scope /\ budget.filters \subseteq Lists
        /\ budget.registries \subseteq SUBSET Documents /\ budget.boxes \subseteq Lists
  BY DEF GateInv, GateTypeOK, Budget
<1>2. CASE \E k \in KeyIds, scope \in budget.scopes : CreateKey(k, scope)
  BY <1>1, <1>2, CreateKeyKeeps
<1>3. CASE \E k \in KeyIds : RevokeSelect(k)
  BY <1>3, RevokeSelectKeeps
<1>4. CASE RevokeCommit
  BY <1>4, RevokeCommitKeeps
<1>5. CASE \E c \in Calls, client \in Client, asked \in budget.filters :
             Arrive(c, client, asked, FALSE)
  BY <1>1, <1>5, ArriveKeeps
<1>6. CASE \E c \in Calls : Arrive(c, <<"chat", tab.key>>, tab.selected, TRUE)
  <2>1. <<"chat", tab.key>> \in Client /\ tab.selected \in Lists
    BY GateAssumption DEF Client, GateInv, GateTypeOK, Tab
  <2> DEFINE client == <<"chat", tab.key>>
  <2>2. client \in Client /\ client[2] = tab.key
    BY <2>1
  <2>3. PICK c \in Calls : Arrive(c, client, tab.selected, TRUE)
    BY <1>6
  <2> HIDE DEF client
  <2> QED
    BY <2>1, <2>2, <2>3, ArriveKeeps
<1>7. CASE \E c \in Calls : SelectKey(c)
  BY <1>7, SelectKeyKeeps
<1>8. CASE \E c \in Calls : TouchKey(c)
  BY <1>8, TouchKeyKeeps
<1>9. CASE \E c \in Calls : Handle(c)
  BY <1>9, HandleKeeps
<1>10. CASE \E c \in Calls : Respond(c) \/ Abandon(c)
  BY <1>10, RequestEnds DEF Respond, Abandon
<1>11. CASE \E documents \in budget.registries, ticks \in budget.boxes :
              TickBoxes(documents, ticks)
  BY <1>1, <1>11, TickBoxesKeeps
<1>12. CASE ClearFilters
  BY <1>12, ClearFiltersKeeps
<1>13. CASE \E k \in KeyIds : SetApiKey(k)
  BY <1>13, SetApiKeyKeeps
<1>14. CASE TimePasses
  <2>1. budget' \in Budget /\ UNCHANGED <<keys, revoking, dead, requests, tab>>
    BY <1>14, SpendKeepsBudget DEF TimePasses, GateInv, GateTypeOK
  <2> QED
    BY <2>1, TabOnly DEF GateInv, GateTypeOK, TabSound, TicksAllowed
<1>15. CASE (\E c \in Calls : Limiting(c)) \/ UNCHANGED vars
  <2>1. UNCHANGED gateVars
    BY <1>15 DEF Limiting, vars
  <2> QED
    BY <2>1, TabOnly DEF gateVars, GateInv, GateTypeOK, TabSound, TicksAllowed
<1> QED
  BY <1>2, <1>3, <1>4, <1>5, <1>6, <1>7, <1>8, <1>9, <1>10, <1>11, <1>12, <1>13, <1>14,
     <1>15 DEF Next

LEMMA GateInvariant == Spec => []GateInv
<1> QED
  BY GateInitInv, GateInvStep, PTL DEF Spec

\* Once a revocation has been answered, no request sent with the key gets past
\* get_current_api_key.
THEOREM RevokedIsRefusedHolds == Spec => []RevokedIsRefused
<1>1. GateInv => RevokedIsRefused
  BY DEF GateInv, RequestSound, RevokedIsRefused
<1> QED
  BY <1>1, GateInvariant, PTL

\* What either retriever may return to a request that is served is permitted to
\* its key, and both may return the same.
THEOREM ServedInScopeHolds == Spec => []ServedInScope
<1>1. GateInv => ServedInScope
  <2> SUFFICES ASSUME GateInv, NEW c \in Calls, RequestAt(c, "served"),
                      NEW node \in Documents
               PROVE  LET scope == requests[c].row.scope
                          filters == ResolveScopedFilters(scope, requests[c].asked)
                      IN /\ DenseReturns(node, filters) => Permitted(scope, node)
                         /\ DenseReturns(node, filters) <=> NodeMatchesFilters(node, filters)
    BY DEF ServedInScope
  <2> DEFINE scope == requests[c].row.scope
             asked == requests[c].asked
  <2>1. requests[c] \in Request /\ requests[c].at = "served" /\ ~Forbidden(scope, asked)
    BY DEF GateInv, GateTypeOK, RequestAt, RequestSound
  <2>2. scope \in Scope /\ asked \in Lists /\ node \in Node
    BY <2>1, RequestFields, GateAssumption DEF KeyRow
  <2> HIDE DEF scope, asked
  <2>3. DenseReturns(node, ResolveScopedFilters(scope, asked)) => Permitted(scope, node)
    BY <2>1, <2>2, ScopeKept
  <2>4. DenseReturns(node, ResolveScopedFilters(scope, asked))
          <=> NodeMatchesFilters(node, ResolveScopedFilters(scope, asked))
    BY <2>1, <2>2, ResolvedWithinScope, SameFilters
  <2> QED
    BY <2>3, <2>4 DEF scope, asked
<1> QED
  BY <1>1, GateInvariant, PTL

\* What is ticked in the sidebar under one key is not refused with that key.
THEOREM ShownCanBeAskedHolds == Spec => []ShownCanBeAsked
<1>1. GateInv => ShownCanBeAsked
  <2> SUFFICES ASSUME GateInv, NEW c \in Calls, RequestAt(c, "forbidden"),
                      requests[c].ticked, ~requests[c].stale
               PROVE  FALSE
    BY DEF ShownCanBeAsked
  <2> QED
    BY DEF RequestAt, GateInv, RequestSound
<1> QED
  BY <1>1, GateInvariant, PTL

-----------------------------------------------------------------------------
(* The gate and the rate limiter                                             *)

LEMMA GateLimitStep == GateInv /\ [Next]_vars => [LimitNext]_limitVars
<1> SUFFICES ASSUME GateInv, Next PROVE [LimitNext]_limitVars
  BY DEF vars, limitVars
<1>1. ASSUME NEW c \in Calls, TouchKey(c) PROVE LimitNext
  <2>1. requests[c].client \in Client
    BY <1>1, RequestFields DEF TouchKey, RequestAt, GateInv, GateTypeOK
  <2> QED
    BY <1>1, <2>1 DEF TouchKey, LimitNext
<1>2. ASSUME NEW c \in Calls, Limiting(c) \/ Handle(c) \/ Abandon(c) PROVE LimitNext
  BY <1>2 DEF Limiting, Handle, Abandon, LimitNext
<1>3. ASSUME TimePasses PROVE LimitNext
  BY <1>3 DEF TimePasses, LimitNext
<1>4. ASSUME NEW c \in Calls, SelectKey(c) \/ Respond(c) PROVE UNCHANGED limitVars
  BY <1>4 DEF SelectKey, Respond
<1>5. ASSUME NEW c, NEW client, NEW asked, NEW ticked, Arrive(c, client, asked, ticked)
      PROVE  UNCHANGED limitVars
  BY <1>5 DEF Arrive
<1>6. ASSUME NEW k, NEW scope, CreateKey(k, scope) PROVE UNCHANGED limitVars
  BY <1>6 DEF CreateKey
<1>7. ASSUME NEW k, RevokeSelect(k) \/ SetApiKey(k) PROVE UNCHANGED limitVars
  BY <1>7 DEF RevokeSelect, SetApiKey
<1>8. ASSUME NEW documents, NEW ticks, TickBoxes(documents, ticks)
      PROVE  UNCHANGED limitVars
  BY <1>8 DEF TickBoxes
<1>9. ASSUME RevokeCommit \/ ClearFilters PROVE UNCHANGED limitVars
  BY <1>9 DEF RevokeCommit, ClearFilters
<1> QED
  BY <1>1, <1>2, <1>3, <1>4, <1>5, <1>6, <1>7, <1>8, <1>9 DEF Next

\* Every behaviour of the gate is one of the rate limiter: enforce_rate_limit is
\* called once per accepted request, and nothing else touches the counters.
THEOREM GateLimits == Spec => LimitSpec
<1>1. Init => LimitInit
  BY DEF Init
<1> QED
  BY <1>1, GateLimitStep, GateInvariant, PTL DEF Spec, LimitSpec

\* The quota holds at the gate.
THEOREM GateWindowLimit == Spec => []WindowLimit /\ []RefusedOverQuota /\ []CountersExpire
<1> QED
  BY GateLimits, WindowLimitHolds, RefusedOverQuotaHolds, CountersExpireHolds, PTL

\* The variables keep their types.
THEOREM GateTypes == Spec => []TypeOK
<1>1. LimitInv /\ GateInv => TypeOK
  BY DEF LimitInv, GateInv, GateTypeOK, TypeOK
<1> QED
  BY <1>1, GateLimits, LimitInvariant, GateInvariant, PTL
=============================================================================
