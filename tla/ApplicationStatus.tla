------------------------- MODULE ApplicationStatus -------------------------
(***************************************************************************)
(* The status machines of app/services.py as pure operators: which status  *)
(* of a loan application may follow which, which status of a funding may   *)
(* follow which, and how transition_funding drags the application along    *)
(* the lifecycle when the funding of its accepted offer moves.             *)
(***************************************************************************)
EXTENDS Naturals, Sequences

\* The status column of an application.
ApplicationStatuses ==
  {"APPLICATION_STARTED", "APPLICATION_IN_PROGRESS", "APPLICATION_COMPLETE",
   "VERIFICATION_PENDING", "READY_FOR_MATCHING", "MATCHED",
   "SUBMITTED_TO_LENDERS", "UNDERWRITING", "OFFERS_AVAILABLE",
   "OFFER_ACCEPTED", "CONDITIONS_PENDING", "CONDITIONS_COMPLETE",
   "CONTRACT_READY", "CONTRACT_SENT", "CONTRACT_SIGNED",
   "APPROVED_FOR_FUNDING", "FUNDS_SENT", "FUNDED", "CLOSED", "WITHDRAWN",
   "FRAUD_REVIEW", "COMPLIANCE_REVIEW", "DECLINED", "EXPIRED", "CANCELLED"}

\* The allowed moves; a status absent from the table has none.
APPLICATION_TRANSITIONS ==
  [s \in ApplicationStatuses |->
    CASE s = "APPLICATION_STARTED" ->
           {"APPLICATION_IN_PROGRESS", "READY_FOR_MATCHING", "WITHDRAWN"}
      [] s = "APPLICATION_IN_PROGRESS" ->
           {"APPLICATION_COMPLETE", "READY_FOR_MATCHING", "FRAUD_REVIEW",
            "COMPLIANCE_REVIEW", "WITHDRAWN"}
      [] s = "APPLICATION_COMPLETE" ->
           {"VERIFICATION_PENDING", "READY_FOR_MATCHING", "FRAUD_REVIEW", "COMPLIANCE_REVIEW"}
      [] s = "VERIFICATION_PENDING" ->
           {"READY_FOR_MATCHING", "FRAUD_REVIEW", "COMPLIANCE_REVIEW", "DECLINED"}
      [] s = "FRAUD_REVIEW" -> {"READY_FOR_MATCHING", "COMPLIANCE_REVIEW", "DECLINED"}
      [] s = "COMPLIANCE_REVIEW" -> {"READY_FOR_MATCHING", "DECLINED"}
      [] s = "READY_FOR_MATCHING" -> {"MATCHED", "DECLINED", "FRAUD_REVIEW"}
      [] s = "MATCHED" -> {"SUBMITTED_TO_LENDERS", "OFFERS_AVAILABLE", "DECLINED"}
      [] s = "SUBMITTED_TO_LENDERS" ->
           {"UNDERWRITING", "CONDITIONS_PENDING", "OFFERS_AVAILABLE", "DECLINED"}
      [] s = "UNDERWRITING" -> {"CONDITIONS_PENDING", "OFFERS_AVAILABLE", "DECLINED"}
      [] s = "CONDITIONS_PENDING" -> {"CONDITIONS_COMPLETE", "OFFERS_AVAILABLE", "DECLINED"}
      [] s = "OFFERS_AVAILABLE" -> {"OFFER_ACCEPTED", "EXPIRED", "DECLINED"}
      [] s = "OFFER_ACCEPTED" -> {"CONDITIONS_PENDING", "CONTRACT_READY", "CANCELLED", "DECLINED"}
      [] s = "CONDITIONS_COMPLETE" -> {"CONTRACT_READY", "CANCELLED", "DECLINED"}
      [] s = "CONTRACT_READY" -> {"CONTRACT_SENT", "CANCELLED", "DECLINED"}
      [] s = "CONTRACT_SENT" -> {"CONTRACT_SIGNED", "EXPIRED", "CANCELLED", "DECLINED"}
      [] s = "CONTRACT_SIGNED" -> {"APPROVED_FOR_FUNDING", "CANCELLED", "DECLINED"}
      [] s = "APPROVED_FOR_FUNDING" -> {"FUNDS_SENT", "CANCELLED", "DECLINED"}
      [] s = "FUNDS_SENT" -> {"FUNDED", "COMPLIANCE_REVIEW", "DECLINED"}
      [] s = "FUNDED" -> {"CLOSED"}
      [] OTHER -> {}]

\* transition_application lets the move through: staying put is a no-op.
MayBecome(from, to) == to = from \/ to \in APPLICATION_TRANSITIONS[from]

\* The statuses an application walks through once an offer is accepted.
lifecycle ==
  <<"OFFER_ACCEPTED", "CONDITIONS_PENDING", "CONDITIONS_COMPLETE",
    "CONTRACT_READY", "CONTRACT_SENT", "CONTRACT_SIGNED",
    "APPROVED_FOR_FUNDING", "FUNDS_SENT", "FUNDED">>

\* A chain of legal moves along a list of statuses, from one to another.
WalksAlong(path, from, to) ==
  \E i, j \in DOMAIN path :
     /\ i <= j
     /\ path[i] = from
     /\ path[j] = to
     /\ \A k \in i .. j - 1 : path[k + 1] \in APPLICATION_TRANSITIONS[path[k]]

\* The status column of a funding, and its allowed moves.
FundingStatuses ==
  {"CONDITIONS_PENDING", "CONDITIONS_SATISFIED", "CONTRACT_SIGNED",
   "APPROVED_FOR_FUNDING", "FUNDS_SENT", "FUNDED", "DECLINED", "CANCELLED"}

FUNDING_TRANSITIONS ==
  [s \in FundingStatuses |->
    CASE s = "CONDITIONS_PENDING"   -> {"CONDITIONS_SATISFIED", "DECLINED", "CANCELLED"}
      [] s = "CONDITIONS_SATISFIED" -> {"CONTRACT_SIGNED", "DECLINED", "CANCELLED"}
      [] s = "CONTRACT_SIGNED"      -> {"APPROVED_FOR_FUNDING", "DECLINED", "CANCELLED"}
      [] s = "APPROVED_FOR_FUNDING" -> {"FUNDS_SENT", "DECLINED", "CANCELLED"}
      [] s = "FUNDS_SENT"           -> {"FUNDED", "DECLINED", "CANCELLED"}
      [] OTHER -> {}]

\* The application status that each funding status stands for.
ApplicationTarget(f) ==
  IF f = "CONDITIONS_SATISFIED" THEN "CONDITIONS_COMPLETE" ELSE f

\* Mutant: moves the funding whatever the application says.
IgnoresApplication(f, a, to) == to \in FUNDING_TRANSITIONS[f]

\* transition_funding gets through for a funding in status f whose application
\* is in status a: the funding move is allowed, and the application is already
\* there or can be walked there.  An application off the lifecycle makes
\* lifecycle.index raise and one ahead of the target is refused: either way
\* the transaction rolls back.
MayFund(f, a, to) ==
  /\ to \in FUNDING_TRANSITIONS[f]
  /\ LET target == ApplicationTarget(to) IN
       \/ a = target
       \/ to = "DECLINED" /\ target \in APPLICATION_TRANSITIONS[a]
       \/ to # "DECLINED" /\ WalksAlong(lifecycle, a, target)
=============================================================================
