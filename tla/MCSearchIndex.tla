--------------------------- MODULE MCSearchIndex ----------------------------
(* Instances of SearchIndex for TLC: documents, facets and slots are         *)
(* interchangeable.                                                          *)
EXTENDS SearchIndex, TLC

Symmetry == Permutations(Docs) \union Permutations(Facets) \union Permutations(Requests)
=============================================================================
