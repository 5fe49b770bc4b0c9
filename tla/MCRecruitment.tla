---------------------------- MODULE MCRecruitment ----------------------------
(***************************************************************************)
(* Instances of Recruitment for TLC.                                       *)
(***************************************************************************)
EXTENDS Recruitment, TLC

Symmetry ==
  Permutations(Requests) \cup Permutations(Installations) \cup
  Permutations(Decisions) \cup Permutations(Clients) \cup Permutations(Credentials)

=============================================================================
