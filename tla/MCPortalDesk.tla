------------------------------ MODULE MCPortalDesk ------------------------------
(* Two borrowers of two organizations and one of the staff. *)
EXTENDS PortalDesk

CONSTANTS b1, b2, o1, o2

MCOrgOf == [b \in {b1, b2} |-> IF b = b1 THEN o1 ELSE o2]
=============================================================================
