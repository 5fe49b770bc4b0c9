----------------------------- MODULE MCSetupBook -----------------------------
(***************************************************************************)
(* Instances of SetupBook for TLC: the cfg files give the constants their  *)
(* values; this module adds the symmetry sets.                             *)
(***************************************************************************)
EXTENDS SetupBook, TLC

Symmetry ==
  Permutations(Worlds) \cup Permutations(Holders) \cup Permutations(Locators) \cup
  Permutations(Attempts) \cup Permutations(Peers) \cup Permutations(Proofs) \cup
  Permutations(Sdps) \cup Permutations(Candidates) \cup Permutations(Principals) \cup
  Permutations(Clients)

=============================================================================
