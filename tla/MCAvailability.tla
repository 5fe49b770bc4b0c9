--------------------------- MODULE MCAvailability ---------------------------
(***************************************************************************)
(* An instance of Availability for TLC; the cfg file gives the constants   *)
(* their values.                                                           *)
(***************************************************************************)
EXTENDS Availability, TLC

Symmetry == Permutations(Holders) \cup Permutations(Operations) \cup Permutations(Clients)

=============================================================================
