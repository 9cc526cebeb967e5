------------------------------- MODULE Scoping -------------------------------
(* What an API key lets a request see: the facets it may name, the filters   *)
(* made of them, and the two implementations of these filters, one inside    *)
(* Qdrant for the dense retriever and one over the results of BM25. In       *)
(* Python an absent list and an empty one are both false: here both are {}.  *)

CONSTANTS
    Tenants,
    Values,    \* departments, document types and tags
    Missing    \* the metadata has no such key, or null

Facet == {"department", "doc_type", "tags"}

\* allowed_filters of a key, the filters of a request, or what a user ticked.
Lists == [Facet -> SUBSET Values]
NoFilter == [f \in Facet |-> {}]

Scope == [tenant : Tenants, allowed : Lists]          \* of a key
SearchFilters == [tenant : Tenants, facets : Lists]
Node == [tenant : Tenants, department : Values \union {Missing},
         doc_type : Values \union {Missing}, tags : SUBSET Values]

ASSUME ScopingAssumption == Missing \notin Values

-----------------------------------------------------------------------------
(* resolve_scoped_filters                                                    *)

\* The values that make _scoped_facet raise a 403.
Disallowed(requested, allowed) == IF allowed = {} THEN {} ELSE requested \ allowed

\* Mutant of ScopedFacet: a facet the request does not name is not restricted.
ScopedFacetAsRequested(requested, allowed) == requested

ScopedFacet(requested, allowed) ==
    IF allowed # {} /\ requested = {} THEN allowed ELSE requested

Forbidden(scope, requested) ==
    \E f \in Facet : Disallowed(requested[f], scope.allowed[f]) # {}

ResolveScopedFilters(scope, requested) ==
    [tenant |-> scope.tenant,
     facets |-> [f \in Facet |-> ScopedFacet(requested[f], scope.allowed[f])]]

-----------------------------------------------------------------------------
(* The two implementations of a filter                                       *)

\* What a document or a node has under a facet.
ValuesOf(node, f) == IF f = "tags" THEN node.tags ELSE {node[f]} \ {Missing}

\* One condition per list that is not empty; a tenant condition is always there.
BuildMetadataFilters(filters) ==
    [tenant_id |-> filters.tenant,
     conditions |-> {f \in Facet : filters.facets[f] # {}}]

\* EQ, IN and ANY as Qdrant evaluates them on a payload.
DenseReturns(node, filters) ==
    LET built == BuildMetadataFilters(filters) IN
      /\ node.tenant = built.tenant_id
      /\ \A f \in built.conditions : ValuesOf(node, f) \intersect filters.facets[f] # {}

NodeMatchesFilters(node, filters) ==
    /\ node.tenant = filters.tenant
    /\ filters.facets["department"] # {} => node.department \in filters.facets["department"]
    /\ filters.facets["doc_type"] # {} => node.doc_type \in filters.facets["doc_type"]
    /\ filters.facets["tags"] # {} => node.tags \intersect filters.facets["tags"] # {}

-----------------------------------------------------------------------------
(* GET /filters/facets                                                       *)

\* Mutant of Restrict: the sidebar shows every facet of the tenant.
RestrictNot(values, allowed) == values

Restrict(values, allowed) == IF allowed = {} THEN values ELSE values \intersect allowed

\* documents: the rows that are not `deleted`.
FacetsOf(scope, documents) ==
    [f \in Facet |->
       Restrict(UNION {ValuesOf(d, f) : d \in {x \in documents : x.tenant = scope.tenant}},
                scope.allowed[f])]

-----------------------------------------------------------------------------
\* What a key may see: its tenant, and for every facet it is restricted in a
\* node that carries one of the allowed values.
Permitted(scope, node) ==
    /\ node.tenant = scope.tenant
    /\ \A f \in Facet : scope.allowed[f] # {} =>
           ValuesOf(node, f) \intersect scope.allowed[f] # {}
=============================================================================
