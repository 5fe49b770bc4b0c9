--------------------------- MODULE MCTurnProvider ---------------------------
(***************************************************************************)
(* Instances of TurnProvider for TLC.                                      *)
(***************************************************************************)
EXTENDS TurnProvider, TLC

Symmetry == Permutations(Principals) \cup Permutations(Clients)

=============================================================================
