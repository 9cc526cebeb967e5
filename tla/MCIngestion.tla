---------------------------- MODULE MCIngestion -----------------------------
(* Instances of Ingestion for TLC. Request slots, contents, facets and paths *)
(* are interchangeable, so the safety runs use symmetry; the liveness runs   *)
(* do not.                                                                   *)
EXTENDS Ingestion, TLC

Symmetry == Permutations(Requests) \union Permutations(Contents)
                \union Permutations(Facets) \union Permutations(Paths)
=============================================================================
