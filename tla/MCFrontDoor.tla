------------------------------ MODULE MCFrontDoor ------------------------------
(* Three requests are two that race and a third that finds what they left. *)
EXTENDS FrontDoor, TLC

Symmetry ==
  Permutations(Requests) \union Permutations(Bodies) \union Permutations(Calls)
    \union Permutations(Subjects) \union Permutations(Emails)
=============================================================================
