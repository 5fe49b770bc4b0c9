-------------------------- MODULE MCSetupRevocation --------------------------
(***************************************************************************)
(* Instances of SetupRevocation for TLC.                                   *)
(***************************************************************************)
EXTENDS SetupRevocation, TLC

Symmetry == Permutations(Holders) \cup Permutations(Principals) \cup Permutations(Clients)

=============================================================================
