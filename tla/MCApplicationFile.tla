--------------------------- MODULE MCApplicationFile ---------------------------
(* Three requests, told apart by nothing, and one place for an owner. *)
EXTENDS ApplicationFile, TLC

CONSTANTS r1, r2, r3, o1

Symmetry == Permutations(Requests)
=============================================================================
