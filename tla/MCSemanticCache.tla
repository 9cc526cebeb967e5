-------------------------- MODULE MCSemanticCache ---------------------------
(* Instances of SemanticCache for TLC. Facets are not interchangeable: the   *)
(* scopes tell them apart.                                                   *)
EXTENDS SemanticCache, TLC

Symmetry == Permutations(Docs) \union Permutations(Requests)
                \union Permutations(Chats) \union Permutations(Questions)
=============================================================================
