------------------------- MODULE MCFundingLifecycle -------------------------
(***************************************************************************)
(* A lender program that may be edited once, so that the application can   *)
(* have two submissions of it: c1 and c2 are asked for on the first, c3 on *)
(* the second.  Two competing offers: o1 is made on the first submission,  *)
(* o2 on the application, which needs no submission.                       *)
(*                                                                         *)
(* Some behaviours are serial: in them no request touches the application  *)
(* between the reads of a handler and its commit (SerialSpec).             *)
(***************************************************************************)
EXTENDS FundingLifecycle

CONSTANTS o1, o2, c1, c2, c3, p1

VARIABLE serial

SubmissionOfVersion(v) == [program |-> p1, version |-> v]

MCProgramOf    == [o \in Offers |-> p1]
MCMadeOn       == [o \in Offers |-> IF o = o1 THEN SubmissionOfVersion(1) ELSE None]
MCSubmissionOf == [c \in Conditions |-> SubmissionOfVersion(IF c = c3 THEN 2 ELSE 1)]

MCInit == Init /\ serial \in BOOLEAN
MCNext == Next /\ (serial => Alone) /\ UNCHANGED serial
MCSpec == MCInit /\ [][MCNext]_<<vars, serial>>

-----------------------------------------------------------------------------
\* One request at a time, application and funding never part
\* (services.transition_funding).
SerialFundingIsTracked == serial => ApplicationTracksFunding

\* One request at a time, the application makes legal moves only
\* (services.transition_application and what it is called with).
SerialMovesAreLegal == [][serial => LegalMove(application, application')]_vars
=============================================================================
