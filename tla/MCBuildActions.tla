--------------------------- MODULE MCBuildActions ---------------------------
(* Instances of BuildActions for TLC. *)
EXTENDS BuildActions, TLC

CONSTANTS p1, p2, t1

Symmetry == Permutations(Posters)
==============================================================================
