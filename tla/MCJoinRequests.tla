--------------------------- MODULE MCJoinRequests ---------------------------
(***************************************************************************)
(* Instances of JoinRequests for TLC: the cfg files give the constants     *)
(* their values; this module adds the symmetry sets.                       *)
(***************************************************************************)
EXTENDS JoinRequests, TLC

Symmetry ==
  Permutations(Requests) \cup Permutations(Installations) \cup
  Permutations(Decisions) \cup Permutations(Clients) \cup Permutations(Credentials)

=============================================================================
