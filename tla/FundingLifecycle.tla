-------------------------- MODULE FundingLifecycle --------------------------
(***************************************************************************)
(* One loan application from intake to money out: the application row, the *)
(* lenders' offers and underwriting conditions, the funding created when   *)
(* an offer is accepted, its contract and the contract's e-sign envelope.  *)
(*                                                                         *)
(* A request handler is one database transaction (READ COMMITTED).  A      *)
(* handler that locks every row it decides on is one action.  Two kinds    *)
(* are split at their reads:                                               *)
(*   - the intake, matching and offer handlers load the application with   *)
(*     db.get, without a lock, and write the status they computed later    *)
(*     (inflight holds what they read and are about to write);             *)
(*   - accept_offer locks the offer and the application but reads the      *)
(*     conditions of the submission without a lock (accepting holds its    *)
(*     snapshot).  While it runs nobody else writes the application row.   *)
(* A handler that is refused, or that raises, rolls back: no action.       *)
(*                                                                         *)
(* A submission belongs to a version of a program: editing the program     *)
(* between two preparations gives the application a second submission for  *)
(* it, with conditions of its own.  An offer row names its program only.   *)
(***************************************************************************)
EXTENDS ApplicationStatus, FiniteSets

CONSTANTS Offers,       \* offers lenders may make
          Conditions,   \* underwriting conditions lenders may ask for
          Programs,     \* lender programs
          ProgramOf,    \* the program an offer names, or None
          MadeOn,       \* the submission an offer is made on; None: on the application
          SubmissionOf, \* the submission a condition is asked for on
          MaxVersion,   \* bound: edits of a program
          MaxInFlight,  \* bound: unlocked transactions open at one time ...
          MaxMatchings, \* ... and when one more matching may still begin
          None

\* The unique key of a submission (and of a match) of one application.
Submissions == [program : Programs, version : Nat \ {0}]

ASSUME LifecycleAssumption ==
  /\ ProgramOf \in [Offers -> Programs \union {None}]
  /\ MadeOn \in [Offers -> Submissions \union {None}]
  /\ \A o \in Offers : MadeOn[o] # None => ProgramOf[o] = MadeOn[o].program
  /\ SubmissionOf \in [Conditions -> Submissions]
  /\ MaxVersion \in Nat
  /\ MaxInFlight \in Nat
  /\ MaxMatchings \in Nat
  /\ None \notin ApplicationStatuses \union FundingStatuses \union Offers \union Programs
                   \union Submissions

VARIABLES
  version,      \* lender_programs.version
  application,  \* applications.status
  matches,      \* the eligible application_matches rows
  submissions,  \* the lender_submissions rows
  offers,       \* offers.status, "NONE" before the row exists
  acknowledged, \* offers whose disclosure the borrower acknowledged
  conditions,   \* underwriting_conditions.status, "NONE" before the row
  funding,      \* fundings.status, None before the row exists
  fundedOffer,  \* fundings.offer_id
  settledBy,    \* history: the submission whose conditions let the funding
                \* advance, None when there was none to ask
  contract,     \* contracts.status, "NONE" before the row exists
  filed,        \* contracts.external_envelope_id is set
  envelope,     \* the e-sign provider's status of the contract's envelope
  unheard,      \* the envelope's last webhook was given up
  commissions,  \* number of commissions rows
  inflight,     \* open transactions that read the application unlocked
  accepting     \* the open accept_offer transaction, or None

vars == <<version, application, matches, submissions, offers, acknowledged, conditions,
          funding, fundedOffer, settledBy, contract, filed, envelope, unheard, commissions,
          inflight, accepting>>

origination == <<version, matches, submissions, offers, acknowledged, conditions>>
signing     == <<contract, filed, envelope, unheard>>
deal        == <<funding, fundedOffer, settledBy, signing, commissions>>

OfferStatuses     == {"NONE", "AVAILABLE", "ACCEPTED", "EXPIRED"}
ConditionStatuses == {"NONE", "BORROWER_ACTION_REQUIRED", "SUBMITTED",
                      "REJECTED", "SATISFIED", "WAIVED"}
ContractStatuses  == {"NONE", "DRAFT", "SENT", "SIGNED", "DECLINED", "VOIDED"}
EnvelopeStatuses  == {"none", "sent", "completed", "declined", "voided"}

\* An unlocked transaction: its handler, the application status it writes
\* (None: it found nothing to change) and what else it inserts.
Transactions ==
  [handler : {"update", "submit"}, to : ApplicationStatuses]
    \union [handler : {"match"}, to : ApplicationStatuses \union {None},
            rows : SUBSET Submissions, deleted : SUBSET Submissions]
    \union [handler : {"prepare"}, to : ApplicationStatuses \union {None},
            rows : SUBSET Submissions]
    \union [handler : {"offer"}, to : ApplicationStatuses \union {None}, offer : Offers]

\* An acceptance: its offer, the submission it looks at and what it saw there.
Acceptances == [offer : Offers, on : Submissions \union {None}, settled : BOOLEAN]

Init ==
  /\ version = [p \in Programs |-> 1]
  /\ application = "APPLICATION_STARTED"
  /\ matches = {}
  /\ submissions = {}
  /\ offers = [o \in Offers |-> "NONE"]
  /\ acknowledged = {}
  /\ conditions = [c \in Conditions |-> "NONE"]
  /\ funding = None
  /\ fundedOffer = None
  /\ settledBy = None
  /\ contract = "NONE"
  /\ filed = FALSE
  /\ envelope = "none"
  /\ unheard = FALSE
  /\ commissions = 0
  /\ inflight = {}
  /\ accepting = None

-----------------------------------------------------------------------------
(* Handlers that read the application without a lock.                      *)

\* What the transaction writes back: nothing when the status is already there.
Wanted(to) == IF application = to THEN None ELSE to

Open(transaction) ==
  /\ Cardinality(inflight) < IF transaction.handler = "match" THEN MaxMatchings ELSE MaxInFlight
  /\ transaction \notin inflight
  /\ inflight' = inflight \union {transaction}
  /\ UNCHANGED <<application, origination, deal, accepting>>

\* The borrower fills the form in.
update_application ==
  /\ application = "APPLICATION_STARTED"
  /\ Open([handler |-> "update", to |-> "APPLICATION_IN_PROGRESS"])

\* The borrower submits once the requirements are met.
submit_application ==
  /\ application # "READY_FOR_MATCHING"
  /\ MayBecome(application, "READY_FOR_MATCHING")
  /\ Open([handler |-> "submit", to |-> "READY_FOR_MATCHING"])

\* A lender edits its program, which moves its version on.
update_lender_program(p) ==
  /\ version[p] < MaxVersion
  /\ version' = [version EXCEPT ![p] = @ + 1]
  /\ UNCHANGED <<application, matches, submissions, offers, acknowledged, conditions, deal,
                 inflight, accepting>>

\* Matching finds the programs that fit and replaces the matches it sees.
match(eligible) ==
  /\ MayBecome(application, "MATCHED")
  /\ Open([handler |-> "match", to |-> Wanted("MATCHED"),
           rows |-> {[program |-> p, version |-> version[p]] : p \in eligible},
           deleted |-> matches])

\* An operator prepares a submission per eligible match, in any status.
prepare_matched_submissions ==
  /\ matches # {}
  /\ Open([handler |-> "prepare",
           to |-> IF application = "MATCHED" THEN "SUBMITTED_TO_LENDERS" ELSE None,
           rows |-> matches])

\* The transaction that inserts offer o.
InsertOffer(o) ==
  /\ offers[o] = "NONE"
  /\ \A t \in inflight : t.handler = "offer" => t.offer # o
  /\ MayBecome(application, "OFFERS_AVAILABLE")
  /\ Open([handler |-> "offer", to |-> Wanted("OFFERS_AVAILABLE"), offer |-> o])

\* A lender makes an offer on the application ...
lender_offer(o) ==
  /\ MadeOn[o] = None
  /\ InsertOffer(o)

\* ... or on a submission it received.
create_submission_offer(o) ==
  /\ MadeOn[o] \in submissions
  /\ InsertOffer(o)

\* The row locks of accept_offer keep every other writer of the row out.
ApplicationUnlocked == accepting = None

\* The transaction flushes and commits: the UPDATE names the row by its id
\* only, whatever the row holds by now.
Commit(t) ==
  /\ ApplicationUnlocked
  /\ inflight' = inflight \ {t}
  /\ application' = IF t.to = None THEN application ELSE t.to
  /\ matches' = IF t.handler = "match" THEN (matches \ t.deleted) \union t.rows ELSE matches
  /\ submissions' = IF t.handler = "prepare" THEN submissions \union t.rows ELSE submissions
  /\ offers' = IF t.handler = "offer" THEN [offers EXCEPT ![t.offer] = "AVAILABLE"] ELSE offers
  /\ UNCHANGED <<version, acknowledged, conditions, deal, accepting>>

-----------------------------------------------------------------------------
(* Underwriting.                                                           *)

\* Mutant: a review that sets its target without asking the transition table.
review_unchecked(target) ==
  /\ ApplicationUnlocked
  /\ target # application
  /\ application' = target
  /\ UNCHANGED <<origination, deal, inflight, accepting>>

\* An operator's underwriting review, under the application lock.
create_underwriting_review(target) ==
  /\ ApplicationUnlocked
  /\ target # application
  /\ MayBecome(application, target)
  /\ application' = target
  /\ UNCHANGED <<origination, deal, inflight, accepting>>

Settled(c) == conditions[c] \in {"SATISFIED", "WAIVED"}

\* Every condition asked for on submission s is settled.
AllSettled(s) ==
  \A c \in Conditions : SubmissionOf[c] = s /\ conditions[c] # "NONE" => Settled(c)

\* The submissions that share lender and program with offer o.
Behind(o) == {s \in submissions : s.program = ProgramOf[o]}

\* The funding is of an offer of submission s's program: whatever its version.
FundedFor(s) == fundedOffer # None /\ ProgramOf[fundedOffer] = s.program

\* Mutant: asks for conditions whatever became of the funding.
condition_on_any_funding(c) ==
  /\ ApplicationUnlocked
  /\ conditions[c] = "NONE"
  /\ SubmissionOf[c] \in submissions
  /\ conditions' = [conditions EXCEPT ![c] = "BORROWER_ACTION_REQUIRED"]
  /\ UNCHANGED <<version, application, matches, submissions, offers, acknowledged, deal, inflight, accepting>>

\* A lender asks for a condition on its submission; refused once the funding
\* of an offer of its program has left CONDITIONS_PENDING.
create_condition(c) ==
  /\ ApplicationUnlocked
  /\ conditions[c] = "NONE"
  /\ SubmissionOf[c] \in submissions
  /\ FundedFor(SubmissionOf[c]) => funding = "CONDITIONS_PENDING"
  /\ conditions' = [conditions EXCEPT ![c] = "BORROWER_ACTION_REQUIRED"]
  /\ application' = IF application \in {"SUBMITTED_TO_LENDERS", "UNDERWRITING"}
                    THEN "CONDITIONS_PENDING" ELSE application
  /\ UNCHANGED <<version, matches, submissions, offers, acknowledged, deal, inflight, accepting>>

submit_condition(c) ==
  /\ conditions[c] \in {"BORROWER_ACTION_REQUIRED", "REJECTED"}
  /\ conditions' = [conditions EXCEPT ![c] = "SUBMITTED"]
  /\ UNCHANGED <<version, application, matches, submissions, offers, acknowledged, deal,
                 inflight, accepting>>

\* advance_funding_if_conditions_satisfied, once the last condition of s is
\* settled: funding and application advance and the contract is drafted.
Advance(s) ==
  /\ MayFund(funding, application, "CONDITIONS_SATISFIED")
  /\ funding' = "CONDITIONS_SATISFIED"
  /\ application' = ApplicationTarget("CONDITIONS_SATISFIED")
  /\ contract' = IF contract = "NONE" THEN "DRAFT" ELSE contract
  /\ settledBy' = s

\* The lender decides a condition; the committed rows it can see decide
\* whether the funding advances.
decide_condition(c, decision) ==
  /\ conditions[c] \in {"SUBMITTED", "BORROWER_ACTION_REQUIRED", "REJECTED"}
  /\ conditions' = [conditions EXCEPT ![c] = decision]
  /\ IF /\ decision \in {"SATISFIED", "WAIVED"}
        /\ funding = "CONDITIONS_PENDING" /\ FundedFor(SubmissionOf[c])
        /\ AllSettled(SubmissionOf[c])'
     THEN Advance(SubmissionOf[c])
     ELSE UNCHANGED <<application, funding, settledBy, contract>>
  /\ UNCHANGED <<version, matches, submissions, offers, acknowledged, fundedOffer, filed,
                 envelope, unheard, commissions, inflight, accepting>>

-----------------------------------------------------------------------------
(* Acceptance.                                                             *)

\* The borrower acknowledges the disclosure of an offer.
acknowledge_disclosure(o) ==
  /\ offers[o] # "NONE"
  /\ o \notin acknowledged
  /\ acknowledged' = acknowledged \union {o}
  /\ UNCHANGED <<version, application, matches, submissions, offers, conditions, deal,
                 inflight, accepting>>

\* accept_offer finds the offer past its expiry, records it and refuses.
accept_offer_expired(o) ==
  /\ ApplicationUnlocked
  /\ offers[o] = "AVAILABLE"
  /\ offers' = [offers EXCEPT ![o] = "EXPIRED"]
  /\ UNCHANGED <<version, application, matches, submissions, acknowledged, conditions, deal,
                 inflight, accepting>>

\* The acceptance looks at the conditions of one submission of its offer's
\* program: whichever row the query returns first.
LooksAt(o, s) ==
  /\ s \in (IF Behind(o) = {} THEN {None} ELSE Behind(o))
  /\ accepting' = [offer |-> o, on |-> s, settled |-> AllSettled(s)]

\* Mutant: does not look for an earlier acceptance.
accept_second_offer(o, s) ==
  /\ ApplicationUnlocked
  /\ offers[o] = "AVAILABLE"
  /\ o \in acknowledged
  /\ MayBecome(application, "OFFER_ACCEPTED")
  /\ LooksAt(o, s)
  /\ UNCHANGED <<application, origination, deal, inflight>>

\* accept_offer holds the offer and the application and has read the rest.
accept_offer_read(o, s) ==
  /\ ApplicationUnlocked
  /\ offers[o] = "AVAILABLE"
  /\ o \in acknowledged
  /\ funding = None
  /\ MayBecome(application, "OFFER_ACCEPTED")
  /\ LooksAt(o, s)
  /\ UNCHANGED <<application, origination, deal, inflight>>

accept_offer_commit ==
  /\ accepting # None
  /\ offers' = [offers EXCEPT ![accepting.offer] = "ACCEPTED"]
  /\ fundedOffer' = accepting.offer
  /\ IF accepting.settled
     THEN /\ funding' = "CONDITIONS_SATISFIED"
          /\ application' = ApplicationTarget("CONDITIONS_SATISFIED")
          /\ contract' = "DRAFT"
          /\ settledBy' = accepting.on
     ELSE /\ funding' = "CONDITIONS_PENDING"
          /\ application' = "OFFER_ACCEPTED"
          /\ UNCHANGED <<contract, settledBy>>
  /\ accepting' = None
  /\ UNCHANGED <<version, matches, submissions, acknowledged, conditions, filed, envelope, unheard,
                 commissions, inflight>>

\* The connection or the process is lost before the commit.
accept_offer_rollback ==
  /\ accepting # None
  /\ accepting' = None
  /\ UNCHANGED <<application, origination, deal, inflight>>

-----------------------------------------------------------------------------
(* Contract and e-sign envelope.                                           *)

\* The e-sign worker takes the drafted contract: it sends the envelope, or
\* voids the contract of a dead application or of one nobody can sign.  The
\* provider answers a second request for the same contract with the envelope
\* it made for the first.
send_pending_contract_envelope ==
  /\ ApplicationUnlocked
  /\ contract = "DRAFT"
  /\ \/ /\ application \in {"DECLINED", "CANCELLED", "EXPIRED", "WITHDRAWN"}
        /\ contract' = "VOIDED"
        /\ UNCHANGED <<application, filed, envelope>>
     \/ /\ application \in {"CONDITIONS_COMPLETE", "CONTRACT_READY"}
        /\ contract' = "SENT"
        /\ filed' = TRUE
        /\ envelope' = IF envelope = "none" THEN "sent" ELSE envelope
        /\ application' = "CONTRACT_SENT"
     \/ /\ application \in {"CONDITIONS_COMPLETE", "CONTRACT_READY"}
        /\ contract' = "VOIDED"
        /\ UNCHANGED <<application, filed, envelope>>
  /\ UNCHANGED <<origination, funding, fundedOffer, settledBy, unheard, commissions,
                 inflight, accepting>>

\* The provider accepts the envelope and the worker does not learn of it, or
\* dies before its commit: the contract stays drafted without an envelope id.
SendLost ==
  /\ ApplicationUnlocked
  /\ contract = "DRAFT"
  /\ application \in {"CONDITIONS_COMPLETE", "CONTRACT_READY"}
  /\ envelope = "none"
  /\ envelope' = "sent"
  /\ UNCHANGED <<application, origination, funding, fundedOffer, settledBy, contract, filed, unheard,
                 commissions, inflight, accepting>>

\* The signer completes or declines the envelope at the provider.
SignerActs(outcome) ==
  /\ envelope = "sent"
  /\ envelope' = outcome
  /\ UNCHANGED <<application, origination, funding, fundedOffer, settledBy, contract, filed, unheard,
                 commissions, inflight, accepting>>

\* The worker applies the webhook of a finished envelope.  On "completed" the
\* funding follows; when it cannot, the exception takes the contract back too.
process_pending_docusign_event ==
  /\ contract = "SENT" /\ ~unheard
  /\ \/ /\ envelope = "declined"
        /\ contract' = "DECLINED"
        /\ UNCHANGED <<application, funding>>
     \/ /\ envelope = "voided"
        /\ contract' = "VOIDED"
        /\ UNCHANGED <<application, funding>>
     \/ /\ envelope = "completed"
        /\ contract' = "SIGNED"
        /\ IF funding = "CONDITIONS_SATISFIED"
           THEN /\ MayFund(funding, application, "CONTRACT_SIGNED")
                /\ funding' = "CONTRACT_SIGNED"
                /\ application' = "CONTRACT_SIGNED"
           ELSE UNCHANGED <<application, funding>>
  /\ UNCHANGED <<origination, fundedOffer, settledBy, filed, envelope, unheard, commissions,
                 inflight, accepting>>

\* The webhook finds no contract with its envelope until its attempts run out ...
webhook_given_up ==
  /\ envelope \in {"completed", "declined", "voided"}
  /\ ~filed /\ ~unheard
  /\ unheard' = TRUE
  /\ UNCHANGED <<application, origination, funding, fundedOffer, settledBy, contract, filed, envelope,
                 commissions, inflight, accepting>>

\* ... and an operator puts it back in the queue.
requeue_webhook ==
  /\ unheard
  /\ unheard' = FALSE
  /\ UNCHANGED <<application, origination, funding, fundedOffer, settledBy, contract, filed, envelope,
                 commissions, inflight, accepting>>

\* ensure_provider_void_confirmed lets the caller go on: the provider voided
\* the envelope now, or a read-back shows that it is voided.  A contract that
\* is still drafted has no envelope id to ask about.
ProviderVoids ==
  IF contract = "SENT"
  THEN envelope \in {"sent", "voided"} /\ envelope' = "voided"
  ELSE UNCHANGED envelope

\* Mutant: voids a signed contract as well.
void_signed ==
  /\ contract \in {"DRAFT", "SENT", "SIGNED"}
  /\ ProviderVoids
  /\ contract' = "VOIDED"
  /\ UNCHANGED <<application, origination, funding, fundedOffer, settledBy, filed, unheard,
                 commissions, inflight, accepting>>

\* An operator voids a contract that is not signed.
void_contract ==
  /\ contract \in {"DRAFT", "SENT"}
  /\ ProviderVoids
  /\ contract' = "VOIDED"
  /\ UNCHANGED <<application, origination, funding, fundedOffer, settledBy, filed, unheard,
                 commissions, inflight, accepting>>

\* void_contract or decline_funding is lost after the provider has voided the
\* envelope and before the commit.
VoidLost ==
  /\ contract = "SENT"
  /\ envelope = "sent"
  /\ envelope' = "voided"
  /\ UNCHANGED <<application, origination, funding, fundedOffer, settledBy, contract, filed, unheard,
                 commissions, inflight, accepting>>

-----------------------------------------------------------------------------
(* Money: the operator's funding commands.                                 *)

\* Mutant: leaves the application where it was.
approve_funding_only ==
  /\ funding # None
  /\ MayFund(funding, application, "APPROVED_FOR_FUNDING")
  /\ funding' = "APPROVED_FOR_FUNDING"
  /\ UNCHANGED <<application, origination, fundedOffer, settledBy, signing, commissions,
                 inflight, accepting>>

\* The operator approves the funding of a signed contract.
approve_funding ==
  /\ funding # None
  /\ MayFund(funding, application, "APPROVED_FOR_FUNDING")
  /\ funding' = "APPROVED_FOR_FUNDING"
  /\ application' = "APPROVED_FOR_FUNDING"
  /\ UNCHANGED <<origination, fundedOffer, settledBy, signing, commissions, inflight, accepting>>

funding_funds_sent ==
  /\ funding # None
  /\ MayFund(funding, application, "FUNDS_SENT")
  /\ funding' = "FUNDS_SENT"
  /\ application' = "FUNDS_SENT"
  /\ UNCHANGED <<origination, fundedOffer, settledBy, signing, commissions, inflight, accepting>>

\* Confirmation also books the commission.
confirm_funding ==
  /\ funding # None
  /\ MayFund(funding, application, "FUNDED")
  /\ funding' = "FUNDED"
  /\ application' = "FUNDED"
  /\ commissions' = commissions + 1
  /\ UNCHANGED <<origination, fundedOffer, settledBy, signing, inflight, accepting>>

\* Mutant: declines the money and leaves the contract out for signature.
decline_money_only ==
  /\ funding # None
  /\ MayFund(funding, application, "DECLINED")
  /\ funding' = "DECLINED"
  /\ application' = "DECLINED"
  /\ UNCHANGED <<origination, fundedOffer, settledBy, signing, commissions, inflight, accepting>>

\* A decline first takes back a contract that is drafted or out for signature.
decline_funding ==
  /\ funding # None
  /\ ProviderVoids
  /\ contract' = IF contract \in {"DRAFT", "SENT"} THEN "VOIDED" ELSE contract
  /\ MayFund(funding, application, "DECLINED")
  /\ funding' = "DECLINED"
  /\ application' = "DECLINED"
  /\ UNCHANGED <<origination, fundedOffer, settledBy, filed, unheard, commissions, inflight, accepting>>

-----------------------------------------------------------------------------
Intake ==
  \/ update_application
  \/ submit_application
  \/ \E p \in Programs : update_lender_program(p)
  \/ \E eligible \in SUBSET Programs : match(eligible)
  \/ prepare_matched_submissions
  \/ \E o \in Offers : lender_offer(o) \/ create_submission_offer(o)
  \/ \E t \in inflight : Commit(t)

Underwriting ==
  \/ \E target \in {"READY_FOR_MATCHING", "DECLINED", "FRAUD_REVIEW", "COMPLIANCE_REVIEW"} :
       create_underwriting_review(target)
  \/ \E c \in Conditions :
       \/ create_condition(c)
       \/ submit_condition(c)
       \/ \E decision \in {"SATISFIED", "REJECTED", "WAIVED"} : decide_condition(c, decision)

Acceptance ==
  \/ \E o \in Offers :
       \/ acknowledge_disclosure(o)
       \/ accept_offer_expired(o)
       \/ \E s \in submissions \union {None} : accept_offer_read(o, s)
  \/ accept_offer_commit
  \/ accept_offer_rollback

Signing ==
  \/ send_pending_contract_envelope
  \/ SendLost
  \/ \E outcome \in {"completed", "declined"} : SignerActs(outcome)
  \/ process_pending_docusign_event
  \/ webhook_given_up
  \/ requeue_webhook
  \/ void_contract
  \/ VoidLost

Money ==
  \/ approve_funding
  \/ funding_funds_sent
  \/ confirm_funding
  \/ decline_funding

Next == Intake \/ Underwriting \/ Acceptance \/ Signing \/ Money

Spec == Init /\ [][Next]_vars

\* The same handlers when no other request touches the application between the
\* reads of a handler and its commit.
Alone ==
  /\ inflight # {} => inflight' = {}
  /\ accepting # None => accepting' = None

SerialSpec == Init /\ [][Next /\ Alone]_vars

-----------------------------------------------------------------------------
(* Properties.                                                             *)

\* Every variable has its type.
TypeOK ==
  /\ version \in [Programs -> Nat \ {0}]
  /\ application \in ApplicationStatuses
  /\ matches \subseteq Submissions
  /\ submissions \subseteq Submissions
  /\ offers \in [Offers -> OfferStatuses]
  /\ acknowledged \subseteq Offers
  /\ conditions \in [Conditions -> ConditionStatuses]
  /\ funding \in FundingStatuses \union {None}
  /\ fundedOffer \in Offers \union {None}
  /\ settledBy \in Submissions \union {None}
  /\ contract \in ContractStatuses
  /\ filed \in BOOLEAN
  /\ envelope \in EnvelopeStatuses
  /\ unheard \in BOOLEAN
  /\ commissions \in Nat
  /\ inflight \subseteq Transactions
  /\ accepting \in Acceptances \union {None}

\* A funding stands for exactly one accepted offer, whose disclosure was
\* acknowledged: the two row locks and the look for a funding in accept_offer
\* let no second acceptance in, whatever the unlocked handlers did to the
\* application in between.
SingleAcceptance ==
  /\ (funding = None) <=> (fundedOffer = None)
  /\ \A o \in Offers : (offers[o] = "ACCEPTED") <=> (o = fundedOffer)
  /\ fundedOffer # None => fundedOffer \in acknowledged

Advanced == funding \notin {None, "CONDITIONS_PENDING", "DECLINED", "CANCELLED"}

\* Money moves on only while every condition of the submission that let it
\* advance is settled, and where there was no submission to ask, of every
\* submission of the offer's program: a condition asked for or decided
\* concurrently with the acceptance, or on a later submission, never ends up
\* open there behind an advanced funding.  (accept_offer, create_condition and
\* decide_condition; a second submission of the program is the next property.)
AdvancedFundingIsSettled ==
  Advanced => IF settledBy = None
              THEN \A s \in Behind(fundedOffer) : AllSettled(s)
              ELSE settledBy \in Behind(fundedOffer) /\ AllSettled(settledBy)

\* What advance_funding_if_conditions_satisfied says it does: the money moves
\* on only once the submission the accepted offer was made on is settled.
OwnSubmissionIsSettled ==
  Advanced /\ MadeOn[fundedOffer] # None => AllSettled(MadeOn[fundedOffer])

\* Where the funding is and where the contract and its envelope are always fit:
\* no contract before the conditions are settled, and no approval, payment or
\* confirmation without a contract that the signer completed.
ContractBacksFunding ==
  /\ funding \in {None, "CONDITIONS_PENDING"} => contract = "NONE"
  /\ funding = "CONDITIONS_SATISFIED" => contract \in {"DRAFT", "SENT", "DECLINED", "VOIDED"}
  /\ funding \in {"CONTRACT_SIGNED", "APPROVED_FOR_FUNDING", "FUNDS_SENT", "FUNDED"} =>
       contract = "SIGNED" /\ envelope = "completed"

\* A declined funding leaves nothing for the worker to send, and no envelope
\* open at the provider whose id the contract has recorded.  An envelope whose
\* sending was lost is not recorded, and stays open.
NothingToSignAfterDecline ==
  funding = "DECLINED" => contract \notin {"DRAFT", "SENT"} /\ (filed => envelope # "sent")

\* A confirmed funding has its commission, once; no other funding has one.
OneCommission == commissions = IF funding = "FUNDED" THEN 1 ELSE 0

\* While the application is declined its funding can only be declined too:
\* no settled condition, signature or operator command moves it forward.
DeclinedApplicationFreezesFunding ==
  [][application = "DECLINED" /\ funding' # funding => funding' = "DECLINED"]_vars

\* The committed moves of an application: one legal edge, or a chain of legal
\* edges along the path from the offers to the money.
LegalMove(from, to) ==
  \/ MayBecome(from, to)
  \/ WalksAlong(<<"OFFERS_AVAILABLE">> \o lifecycle, from, to)

\* The application never makes an illegal move: services.transition_application
\* refuses one, but only against the status the handler has read.
LegalApplicationMoves == [][LegalMove(application, application')]_vars

\* The application is where its funding says, or was declined, or, once the
\* funds are sent, is back in review: what transition_funding keeps in step.
ApplicationTracksFunding ==
  /\ funding = "CONDITIONS_PENDING" => application \in {"OFFER_ACCEPTED", "DECLINED"}
  /\ funding = "CONDITIONS_SATISFIED" =>
       application \in {"CONDITIONS_COMPLETE", "CONTRACT_SENT", "DECLINED"}
  /\ funding \in {"CONTRACT_SIGNED", "APPROVED_FOR_FUNDING"} => application \in {funding, "DECLINED"}
  /\ funding \in {"FUNDED", "DECLINED"} => application = funding

\* A funding that waits for conditions waits for an open one of a submission of
\* its offer's program: either the last decision or the acceptance advances it.
SettledFundingAdvances ==
  funding = "CONDITIONS_PENDING" /\ application # "DECLINED" =>
    \E s \in Behind(fundedOffer) : ~AllSettled(s)
=============================================================================
