---------------------------- MODULE MCFolderSync ----------------------------
(* Instances of FolderSync for TLC. Start picks some path for a local that   *)
(* is set before it is read, so paths are left out of the symmetry.          *)
EXTENDS FolderSync, TLC

Symmetry == Permutations(Contents) \union Permutations(Facets)
                \union Permutations(Roots) \union Permutations(Runners)
=============================================================================
