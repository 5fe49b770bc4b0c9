----------------------------- MODULE MCDirectory -----------------------------
(***************************************************************************)
(* Instances of Directory for TLC: the cfg files give the constants their  *)
(* values; this module adds the symmetry sets.                             *)
(***************************************************************************)
EXTENDS Directory, TLC

Symmetry ==
  Permutations(Administrators) \cup Permutations(Operations) \cup
  Permutations(Reports) \cup Permutations(Reporters)

=============================================================================
