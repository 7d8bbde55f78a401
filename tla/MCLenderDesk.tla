------------------------------ MODULE MCLenderDesk ------------------------------
(* Two programs of two lenders, and two profiles that a program may exclude. *)
EXTENDS LenderDesk

CONSTANTS p1, p2, l1, l2, a1, a2

MCLenderOf == [p \in {p1, p2} |-> IF p = p1 THEN l1 ELSE l2]

Same == [x \in {p1, p2, l1, l2, a1, a2} |-> x]

Desks == [Same EXCEPT ![p1] = p2, ![p2] = p1, ![l1] = l2, ![l2] = l1]

Applicants(f) == [f EXCEPT ![a1] = a2, ![a2] = a1]

\* A program changes places with the other one together with its lender.
Symmetry == {Same, Desks, Applicants(Same), Applicants(Desks)}
=============================================================================
