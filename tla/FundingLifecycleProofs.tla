----------------------- MODULE FundingLifecycleProofs -----------------------
(***************************************************************************)
(* What FundingLifecycle promises for any number of offers, conditions,    *)
(* programs and open transactions.  The safety invariants of the module    *)
(* follow from one inductive invariant, IInv: none of them is inductive    *)
(* alone, since what a transaction writes was decided when it read.        *)
(***************************************************************************)
EXTENDS FundingLifecycle, TLAPS

\* What accept_offer read is still so while it is open.
AcceptanceHolds ==
  accepting # None =>
    /\ funding = None
    /\ application \in {"OFFERS_AVAILABLE", "OFFER_ACCEPTED"}
    /\ offers[accepting.offer] = "AVAILABLE"
    /\ accepting.offer \in acknowledged
    /\ IF accepting.on = None
       THEN Behind(accepting.offer) = {}
       ELSE accepting.on \in Behind(accepting.offer)
    /\ accepting.settled => AllSettled(accepting.on)

\* A condition is asked for on a submission that is there.
ConditionsAreOnSubmissions ==
  \A c \in Conditions : conditions[c] # "NONE" => SubmissionOf[c] \in submissions

\* The open transaction that inserts an offer is the only one to insert it.
OfferInsertedOnce ==
  /\ \A t \in inflight : t.handler = "offer" => offers[t.offer] = "NONE"
  /\ \A t, u \in inflight :
       t.handler = "offer" /\ u.handler = "offer" /\ t.offer = u.offer => t = u

\* Where the funding and the contract can be together.
FundingMatchesContract ==
  /\ funding \in {None, "CONDITIONS_PENDING"} => contract = "NONE"
  /\ funding = "CONDITIONS_SATISFIED" => contract \in {"DRAFT", "SENT", "DECLINED", "VOIDED"}
  /\ funding \in {"CONTRACT_SIGNED", "APPROVED_FOR_FUNDING", "FUNDS_SENT", "FUNDED"} =>
       contract = "SIGNED"
  /\ funding = "DECLINED" => contract \notin {"DRAFT", "SENT"}
  /\ funding # "CANCELLED"

\* Where the contract and its envelope can be together.
ContractMatchesEnvelope ==
  /\ contract = "NONE" => envelope = "none" /\ ~filed
  /\ contract = "DRAFT" => ~filed
  /\ contract = "SENT" => filed /\ envelope # "none"
  /\ contract = "SIGNED" => envelope = "completed"
  /\ filed /\ envelope = "sent" => contract = "SENT"

\* The inductive invariant.
IInv ==
  /\ TypeOK
  /\ AcceptanceHolds
  /\ ConditionsAreOnSubmissions
  /\ OfferInsertedOnce
  /\ SingleAcceptance
  /\ FundingMatchesContract
  /\ ContractMatchesEnvelope
  /\ AdvancedFundingIsSettled
  /\ OneCommission

-----------------------------------------------------------------------------
(* The tables.                                                             *)

\* Each status of a funding but DECLINED and CANCELLED is reached from one
\* status only (FUNDING_TRANSITIONS).
LEMMA FundingMoves ==
  ASSUME NEW f \in FundingStatuses, NEW a, NEW to, MayFund(f, a, to)
  PROVE  /\ to = "CONDITIONS_SATISFIED" => f = "CONDITIONS_PENDING"
         /\ to = "CONTRACT_SIGNED" => f = "CONDITIONS_SATISFIED"
         /\ to = "APPROVED_FOR_FUNDING" => f = "CONTRACT_SIGNED"
         /\ to = "FUNDS_SENT" => f = "APPROVED_FOR_FUNDING"
         /\ to = "FUNDED" => f = "FUNDS_SENT"
         /\ to = "DECLINED" => f \notin {"FUNDED", "DECLINED", "CANCELLED"}
BY DEF MayFund, FUNDING_TRANSITIONS, FundingStatuses

\* Only an application with offers can have one accepted (APPLICATION_TRANSITIONS).
LEMMA AcceptableApplication ==
  ASSUME NEW a \in ApplicationStatuses, MayBecome(a, "OFFER_ACCEPTED")
  PROVE  a \in {"OFFERS_AVAILABLE", "OFFER_ACCEPTED"}
BY DEF MayBecome, APPLICATION_TRANSITIONS, ApplicationStatuses

-----------------------------------------------------------------------------
(* The initial state and the steps.                                        *)

LEMMA IInvInit == Init => IInv
<1> SUFFICES ASSUME Init PROVE IInv
  OBVIOUS
<1>1. TypeOK
  <2>1. version \in [Programs -> Nat \ {0}] /\ offers \in [Offers -> OfferStatuses]
        /\ conditions \in [Conditions -> ConditionStatuses]
    BY DEF Init, OfferStatuses, ConditionStatuses
  <2>2. QED
    BY <2>1 DEF Init, TypeOK, ApplicationStatuses, ContractStatuses, EnvelopeStatuses
<1>2. AcceptanceHolds /\ ConditionsAreOnSubmissions /\ OfferInsertedOnce
  BY DEF Init, AcceptanceHolds, ConditionsAreOnSubmissions, OfferInsertedOnce
<1>3. SingleAcceptance /\ AdvancedFundingIsSettled /\ OneCommission
  BY LifecycleAssumption DEF Init, SingleAcceptance, AdvancedFundingIsSettled, Advanced, OneCommission,
                    FundingStatuses
<1>4. FundingMatchesContract /\ ContractMatchesEnvelope
  BY LifecycleAssumption DEF Init, FundingMatchesContract, ContractMatchesEnvelope, FundingStatuses
<1>5. QED  BY <1>1, <1>2, <1>3, <1>4 DEF IInv

\* An unlocked handler that opens its transaction disturbs inflight only.
LEMMA OpenStep ==
  ASSUME IInv, NEW t \in Transactions, Open(t),
         t.handler = "offer" =>
           offers[t.offer] = "NONE" /\ \A u \in inflight : u.handler = "offer" => u.offer # t.offer
  PROVE  IInv'
<1>1. TypeOK'
  BY DEF IInv, TypeOK, Open, origination, deal, signing
<1>2. OfferInsertedOnce'
  BY DEF IInv, OfferInsertedOnce, Open, origination
<1>3. (AcceptanceHolds /\ AdvancedFundingIsSettled /\ ConditionsAreOnSubmissions)'
  BY DEF IInv, AcceptanceHolds, AdvancedFundingIsSettled, ConditionsAreOnSubmissions, Behind, Advanced,
         AllSettled, Settled, Open,
         origination, deal, signing
<1>4. (SingleAcceptance /\ FundingMatchesContract /\ ContractMatchesEnvelope /\ OneCommission)'
  BY DEF IInv, SingleAcceptance, FundingMatchesContract, ContractMatchesEnvelope, OneCommission, Open,
         origination, deal, signing
<1>5. QED  BY <1>1, <1>2, <1>3, <1>4 DEF IInv

\* Every unlocked handler opens such a transaction.
LEMMA HandlerOpens ==
  ASSUME IInv,
         \/ update_application
         \/ submit_application
         \/ \E eligible \in SUBSET Programs : match(eligible)
         \/ prepare_matched_submissions
         \/ \E o \in Offers : lender_offer(o) \/ create_submission_offer(o)
  PROVE  IInv'
<1>1. CASE update_application
  <2>1. [handler |-> "update", to |-> "APPLICATION_IN_PROGRESS"] \in Transactions
    BY DEF Transactions, ApplicationStatuses
  <2>2. QED  BY <1>1, <2>1, OpenStep DEF update_application
<1>2. CASE submit_application
  <2>1. [handler |-> "submit", to |-> "READY_FOR_MATCHING"] \in Transactions
    BY DEF Transactions, ApplicationStatuses
  <2>2. QED  BY <1>2, <2>1, OpenStep DEF submit_application
<1>3. ASSUME NEW eligible \in SUBSET Programs, match(eligible) PROVE IInv'
  <2>1. [handler |-> "match", to |-> Wanted("MATCHED"),
         rows |-> {[program |-> p, version |-> version[p]] : p \in eligible},
         deleted |-> matches] \in Transactions
    BY DEF Transactions, ApplicationStatuses, Wanted, IInv, TypeOK, Submissions
  <2>2. QED  BY <1>3, <2>1, OpenStep DEF match
<1>4. CASE prepare_matched_submissions
  <2> DEFINE t == [handler |-> "prepare",
                   to |-> IF application = "MATCHED" THEN "SUBMITTED_TO_LENDERS" ELSE None,
                   rows |-> matches]
  <2>1. t \in Transactions
    BY DEF Transactions, ApplicationStatuses, IInv, TypeOK
  <2>2. Open(t)
    BY <1>4 DEF prepare_matched_submissions
  <2>3. t.handler # "offer"
    OBVIOUS
  <2> HIDE DEF t
  <2>4. QED  BY <2>1, <2>2, <2>3, OpenStep
<1>5. ASSUME NEW o \in Offers, InsertOffer(o) PROVE IInv'
  <2> DEFINE t == [handler |-> "offer", to |-> Wanted("OFFERS_AVAILABLE"), offer |-> o]
  <2>1. t \in Transactions
    BY DEF Transactions, ApplicationStatuses, Wanted
  <2>2. Open(t) /\ t.offer = o
    BY <1>5 DEF InsertOffer
  <2>3. offers[o] = "NONE" /\ \A u \in inflight : u.handler = "offer" => u.offer # o
    BY <1>5 DEF InsertOffer
  <2> HIDE DEF t
  <2>4. QED  BY <2>1, <2>2, <2>3, OpenStep
<1>6. QED  BY <1>1, <1>2, <1>3, <1>4, <1>5 DEF lender_offer, create_submission_offer

\* An edited program changes nothing but its version.
LEMMA EditStep ==
  ASSUME IInv, NEW p \in Programs, update_lender_program(p)
  PROVE  IInv'
<1>1. (TypeOK /\ AcceptanceHolds)'
  BY DEF IInv, TypeOK, AcceptanceHolds, Behind, AllSettled, Settled, update_lender_program, deal, signing
<1>2. (OfferInsertedOnce /\ SingleAcceptance)'
  BY DEF IInv, OfferInsertedOnce, SingleAcceptance, update_lender_program, deal, signing
<1>3. (AdvancedFundingIsSettled /\ ConditionsAreOnSubmissions)'
  BY DEF IInv, AdvancedFundingIsSettled, ConditionsAreOnSubmissions, Behind, Advanced, AllSettled, Settled,
         update_lender_program, deal, signing
<1>4. (FundingMatchesContract /\ ContractMatchesEnvelope /\ OneCommission)'
  BY DEF IInv, FundingMatchesContract, ContractMatchesEnvelope, OneCommission, update_lender_program, deal,
         signing
<1>5. QED  BY <1>1, <1>2, <1>3, <1>4 DEF IInv

\* The commit of an unlocked transaction: nobody accepts an offer meanwhile,
\* and an offer it inserts was not there before.
LEMMA CommitStep ==
  ASSUME IInv, NEW t \in inflight, Commit(t)
  PROVE  IInv'
<1>0. t \in Transactions /\ accepting = None
  BY DEF IInv, TypeOK, Commit, ApplicationUnlocked
<1>1. TypeOK'
  <2>1. application' \in ApplicationStatuses
    BY <1>0 DEF IInv, TypeOK, Commit, Transactions
  <2>2. matches' \subseteq Submissions /\ submissions' \subseteq Submissions
    BY <1>0 DEF IInv, TypeOK, Commit, Transactions
  <2>3. offers' \in [Offers -> OfferStatuses]
    BY <1>0 DEF IInv, TypeOK, Commit, OfferStatuses
  <2>4. QED  BY <2>1, <2>2, <2>3 DEF IInv, TypeOK, Commit, deal, signing
<1>2. OfferInsertedOnce'
  <2>1. ASSUME NEW u \in inflight', u.handler = "offer" PROVE offers'[u.offer] = "NONE"
    <3>1. u \in inflight /\ u # t
      BY <2>1 DEF Commit
    <3>2. offers[u.offer] = "NONE" /\ (t.handler = "offer" => t.offer # u.offer)
      BY <2>1, <3>1 DEF IInv, OfferInsertedOnce
    <3>3. CASE t.handler = "offer"
      BY <3>2, <3>3 DEF Commit, IInv, TypeOK
    <3>4. CASE t.handler # "offer"
      BY <3>2, <3>4 DEF Commit
    <3>5. QED  BY <3>3, <3>4
  <2>2. inflight' \subseteq inflight
    BY DEF Commit
  <2>3. QED  BY <2>1, <2>2 DEF IInv, OfferInsertedOnce
<1>3. SingleAcceptance'
  <2>1. \A o \in Offers : (offers'[o] = "ACCEPTED") <=> (offers[o] = "ACCEPTED")
    BY <1>0 DEF Commit, IInv, TypeOK, OfferInsertedOnce
  <2>2. QED  BY <2>1 DEF IInv, SingleAcceptance, Commit, deal, signing
<1>4. (AcceptanceHolds /\ AdvancedFundingIsSettled /\ ConditionsAreOnSubmissions)'
  <2>1. /\ accepting' = None /\ submissions \subseteq submissions'
        /\ UNCHANGED <<conditions, funding, fundedOffer, settledBy>>
    BY <1>0 DEF Commit, deal
  <2>2. ConditionsAreOnSubmissions'
    BY <2>1 DEF IInv, ConditionsAreOnSubmissions
  <2>3. \A s : s \notin submissions => AllSettled(s)'
    BY <2>1 DEF IInv, ConditionsAreOnSubmissions, AllSettled
  <2>4. \A s : AllSettled(s) => AllSettled(s)'
    BY <2>1 DEF AllSettled, Settled
  <2>5. AdvancedFundingIsSettled'
    BY <2>1, <2>3, <2>4 DEF IInv, AdvancedFundingIsSettled, Advanced, Behind
  <2>6. QED  BY <2>1, <2>2, <2>5 DEF AcceptanceHolds
<1>5. (FundingMatchesContract /\ ContractMatchesEnvelope /\ OneCommission)'
  BY DEF IInv, FundingMatchesContract, ContractMatchesEnvelope, OneCommission, Commit, deal, signing
<1>6. QED  BY <1>1, <1>2, <1>3, <1>4, <1>5 DEF IInv

\* A review moves the application, and only while no acceptance is open.
LEMMA ReviewStep ==
  ASSUME IInv,
         NEW target \in {"READY_FOR_MATCHING", "DECLINED", "FRAUD_REVIEW", "COMPLIANCE_REVIEW"},
         create_underwriting_review(target)
  PROVE  IInv'
<1>1. TypeOK'
  BY DEF IInv, TypeOK, create_underwriting_review, ApplicationStatuses, origination, deal, signing
<1>2. (AcceptanceHolds /\ AdvancedFundingIsSettled /\ ConditionsAreOnSubmissions)'
  BY DEF IInv, AcceptanceHolds, AdvancedFundingIsSettled, ConditionsAreOnSubmissions, Behind, Advanced,
         AllSettled, Settled,
         create_underwriting_review, ApplicationUnlocked, origination, deal, signing
<1>3. (OfferInsertedOnce /\ SingleAcceptance /\ FundingMatchesContract /\ ContractMatchesEnvelope
       /\ OneCommission)'
  BY DEF IInv, OfferInsertedOnce, SingleAcceptance, FundingMatchesContract, ContractMatchesEnvelope,
         OneCommission, create_underwriting_review, origination, deal, signing
<1>4. QED  BY <1>1, <1>2, <1>3 DEF IInv

\* A condition is asked for only where the funding still waits for conditions.
LEMMA CreateConditionStep ==
  ASSUME IInv, NEW c \in Conditions, create_condition(c)
  PROVE  IInv'
<1>1. TypeOK'
  BY DEF IInv, TypeOK, create_condition, ApplicationStatuses, ConditionStatuses, deal, signing
<1>2. AcceptanceHolds'
  BY DEF IInv, AcceptanceHolds, create_condition, ApplicationUnlocked
<1>3. AdvancedFundingIsSettled'
  <2>1. SUFFICES ASSUME Advanced PROVE AdvancedFundingIsSettled'
    BY DEF AdvancedFundingIsSettled, Advanced, create_condition, deal, signing
  <2>2. fundedOffer # None
    BY <2>1 DEF IInv, SingleAcceptance, Advanced
  <2>3. SubmissionOf[c].program # ProgramOf[fundedOffer]
    BY <2>1, <2>2 DEF create_condition, FundedFor, Advanced
  <2>4. \A s \in Behind(fundedOffer) : AllSettled(s) => AllSettled(s)'
    BY <2>3 DEF Behind, AllSettled, Settled, create_condition, IInv, TypeOK
  <2>5. QED
    BY <2>1, <2>4 DEF AdvancedFundingIsSettled, Advanced, Behind, create_condition, deal, signing, IInv
<1>6. ConditionsAreOnSubmissions'
  BY DEF IInv, TypeOK, ConditionsAreOnSubmissions, create_condition
<1>4. (OfferInsertedOnce /\ SingleAcceptance /\ FundingMatchesContract /\ ContractMatchesEnvelope
       /\ OneCommission)'
  BY DEF IInv, OfferInsertedOnce, SingleAcceptance, FundingMatchesContract, ContractMatchesEnvelope,
         OneCommission, create_condition, deal, signing
<1>7. QED  BY <1>1, <1>2, <1>3, <1>4, <1>6 DEF IInv

\* An answer or a decision never opens a settled condition again.
LEMMA SettledStaysSettled ==
  ASSUME TypeOK, NEW c \in Conditions, ~Settled(c), conditions[c] # "NONE",
         NEW to \in ConditionStatuses, conditions' = [conditions EXCEPT ![c] = to]
  PROVE  \A s : AllSettled(s) => AllSettled(s)'
BY DEF TypeOK, AllSettled, Settled

LEMMA SubmitConditionStep ==
  ASSUME IInv, NEW c \in Conditions, submit_condition(c)
  PROVE  IInv'
<1>1. TypeOK'
  BY DEF IInv, TypeOK, submit_condition, ConditionStatuses, deal, signing
<1>2. \A t : AllSettled(t) => AllSettled(t)'
  BY SettledStaysSettled DEF submit_condition, Settled, ConditionStatuses, IInv
<1>3. (AcceptanceHolds /\ AdvancedFundingIsSettled /\ ConditionsAreOnSubmissions)'
  BY <1>2, LifecycleAssumption
  DEF IInv, TypeOK, Acceptances, AcceptanceHolds, AdvancedFundingIsSettled, ConditionsAreOnSubmissions,
      Behind, Advanced, SingleAcceptance,
      submit_condition, deal, signing
<1>4. (OfferInsertedOnce /\ SingleAcceptance /\ FundingMatchesContract /\ ContractMatchesEnvelope
       /\ OneCommission)'
  BY DEF IInv, OfferInsertedOnce, SingleAcceptance, FundingMatchesContract, ContractMatchesEnvelope,
         OneCommission, submit_condition, deal, signing
<1>5. QED  BY <1>1, <1>3, <1>4 DEF IInv

\* The decision that settles the last condition advances the funding.
LEMMA DecideConditionStep ==
  ASSUME IInv, NEW c \in Conditions, NEW decision \in {"SATISFIED", "REJECTED", "WAIVED"},
         decide_condition(c, decision)
  PROVE  IInv'
<1> DEFINE advances == /\ decision \in {"SATISFIED", "WAIVED"}
                       /\ funding = "CONDITIONS_PENDING" /\ FundedFor(SubmissionOf[c])
                       /\ AllSettled(SubmissionOf[c])'
<1>0. /\ advances => Advance(SubmissionOf[c])
      /\ ~advances => UNCHANGED <<application, funding, settledBy, contract>>
      /\ conditions[c] # "NONE" /\ conditions' = [conditions EXCEPT ![c] = decision]
      /\ UNCHANGED <<version, matches, submissions, offers, acknowledged, fundedOffer, filed, envelope,
                     unheard, commissions, inflight, accepting>>
  BY DEF decide_condition
<1>1. \A t : AllSettled(t) => AllSettled(t)'
  BY SettledStaysSettled DEF decide_condition, Settled, ConditionStatuses, IInv
<1>2. CASE advances
  <2>0. /\ funding = "CONDITIONS_PENDING" /\ fundedOffer # None
        /\ SubmissionOf[c] \in Behind(fundedOffer) /\ AllSettled(SubmissionOf[c])'
    BY <1>0, <1>2 DEF FundedFor, Behind, IInv, ConditionsAreOnSubmissions
  <2>1. /\ funding' = "CONDITIONS_SATISFIED" /\ application' = "CONDITIONS_COMPLETE"
        /\ contract' = "DRAFT" /\ settledBy' = SubmissionOf[c]
    BY <1>0, <1>2, <2>0 DEF Advance, ApplicationTarget, IInv, FundingMatchesContract
  <2> HIDE DEF advances
  <2>2. accepting = None
    BY <2>0 , LifecycleAssumption DEF IInv, AcceptanceHolds, FundingStatuses
  <2>3. TypeOK'
    BY <1>0, <2>1, LifecycleAssumption
    DEF IInv, TypeOK, ApplicationStatuses, FundingStatuses, ContractStatuses, ConditionStatuses
  <2>4. (AcceptanceHolds /\ AdvancedFundingIsSettled /\ ConditionsAreOnSubmissions)'
    <3>1. SubmissionOf[c] # None
      BY LifecycleAssumption
    <3>2. QED
      BY <1>0, <2>0, <2>1, <2>2, <3>1
      DEF AcceptanceHolds, AdvancedFundingIsSettled, ConditionsAreOnSubmissions, Behind, IInv, TypeOK
  <2>5. (FundingMatchesContract /\ ContractMatchesEnvelope)'
    BY <1>0, <2>0, <2>1, LifecycleAssumption
    DEF IInv, FundingMatchesContract, ContractMatchesEnvelope, FundingStatuses
  <2>6. (OfferInsertedOnce /\ SingleAcceptance /\ OneCommission)'
    BY <1>0, <2>0, <2>1, LifecycleAssumption
    DEF IInv, OfferInsertedOnce, SingleAcceptance, OneCommission, FundingStatuses
  <2>7. QED  BY <2>3, <2>4, <2>5, <2>6 DEF IInv
<1>3. CASE ~advances
  <2> HIDE DEF advances
  <2>1. TypeOK'
    BY <1>0, <1>3 DEF IInv, TypeOK, ConditionStatuses
  <2>2. (AcceptanceHolds /\ AdvancedFundingIsSettled /\ ConditionsAreOnSubmissions)'
    BY <1>0, <1>1, <1>3, LifecycleAssumption
    DEF IInv, TypeOK, Acceptances, AcceptanceHolds, AdvancedFundingIsSettled, ConditionsAreOnSubmissions,
        Behind, Advanced, SingleAcceptance
  <2>3. (OfferInsertedOnce /\ SingleAcceptance /\ FundingMatchesContract /\ ContractMatchesEnvelope
         /\ OneCommission)'
    BY <1>0, <1>3 DEF IInv, OfferInsertedOnce, SingleAcceptance, FundingMatchesContract,
                      ContractMatchesEnvelope, OneCommission
  <2>4. QED  BY <2>1, <2>2, <2>3 DEF IInv
<1>4. QED  BY <1>2, <1>3

\* Acknowledging and expiring an offer; an offer under acceptance is locked.
LEMMA OfferStep ==
  ASSUME IInv, NEW o \in Offers, acknowledge_disclosure(o) \/ accept_offer_expired(o)
  PROVE  IInv'
<1>1. TypeOK'
  BY DEF IInv, TypeOK, OfferStatuses, acknowledge_disclosure, accept_offer_expired, deal, signing
<1>2. AcceptanceHolds'
  BY DEF IInv, AcceptanceHolds, Behind, AllSettled, Settled, acknowledge_disclosure, accept_offer_expired,
         ApplicationUnlocked, deal, signing
<1>3. (OfferInsertedOnce /\ SingleAcceptance)'
  <2>1. CASE acknowledge_disclosure(o)
    BY <2>1 DEF IInv, OfferInsertedOnce, SingleAcceptance, acknowledge_disclosure, deal, signing
  <2>2. CASE accept_offer_expired(o)
    <3>1. \A p \in Offers : /\ (offers'[p] = "ACCEPTED") <=> (offers[p] = "ACCEPTED")
                            /\ offers[p] = "NONE" => offers'[p] = "NONE"
      BY <2>2 DEF IInv, TypeOK, accept_offer_expired
    <3>2. \A t \in inflight : t.handler = "offer" => t.offer \in Offers
      BY DEF IInv, TypeOK, Transactions
    <3>3. QED
      BY <2>2, <3>1, <3>2 DEF IInv, OfferInsertedOnce, SingleAcceptance, accept_offer_expired, deal, signing
  <2>3. QED  BY <2>1, <2>2
<1>4. (AdvancedFundingIsSettled /\ ConditionsAreOnSubmissions)'
  BY DEF IInv, AdvancedFundingIsSettled, ConditionsAreOnSubmissions, Behind, Advanced, AllSettled, Settled,
         acknowledge_disclosure,
         accept_offer_expired, deal, signing
<1>5. (FundingMatchesContract /\ ContractMatchesEnvelope /\ OneCommission)'
  BY DEF IInv, FundingMatchesContract, ContractMatchesEnvelope, OneCommission,
         acknowledge_disclosure, accept_offer_expired, deal, signing
<1>6. QED  BY <1>1, <1>2, <1>3, <1>4, <1>5 DEF IInv

LEMMA AcceptReadStep ==
  ASSUME IInv, NEW o \in Offers, NEW s \in submissions \union {None}, accept_offer_read(o, s)
  PROVE  IInv'
<1>1. TypeOK'
  <2>1. [offer |-> o, on |-> s, settled |-> AllSettled(s)] \in Acceptances
    BY DEF IInv, TypeOK, Acceptances, AllSettled
  <2>2. QED  BY <2>1 DEF IInv, TypeOK, accept_offer_read, LooksAt, origination, deal, signing
<1>2. AcceptanceHolds'
  <2>1. application \in {"OFFERS_AVAILABLE", "OFFER_ACCEPTED"}
    BY AcceptableApplication DEF IInv, TypeOK, accept_offer_read
  <2>2. QED
    BY <2>1, LifecycleAssumption
    DEF IInv, TypeOK, AcceptanceHolds, Behind, AllSettled, Settled, accept_offer_read, LooksAt, origination,
        deal, signing
<1>3. (OfferInsertedOnce /\ SingleAcceptance)'
  BY DEF IInv, OfferInsertedOnce, SingleAcceptance, accept_offer_read, LooksAt, origination, deal, signing
<1>4. (AdvancedFundingIsSettled /\ ConditionsAreOnSubmissions)'
  BY DEF IInv, AdvancedFundingIsSettled, ConditionsAreOnSubmissions, Behind, Advanced, AllSettled, Settled,
         accept_offer_read, LooksAt, origination, deal, signing
<1>5. (FundingMatchesContract /\ ContractMatchesEnvelope /\ OneCommission)'
  BY DEF IInv, FundingMatchesContract, ContractMatchesEnvelope, OneCommission, accept_offer_read, LooksAt,
         deal, signing
<1>6. QED  BY <1>1, <1>2, <1>3, <1>4, <1>5 DEF IInv

\* The acceptance commits on what it read, which still holds.
LEMMA AcceptCommitStep ==
  ASSUME IInv, accept_offer_commit
  PROVE  IInv'
<1> DEFINE o == accepting.offer
<1>0. /\ o \in Offers /\ o # None /\ accepting # None /\ accepting.settled \in BOOLEAN
      /\ funding = None /\ fundedOffer = None /\ offers[o] = "AVAILABLE" /\ o \in acknowledged
      /\ accepting.on \in Submissions \union {None}
      /\ IF accepting.on = None THEN Behind(o) = {} ELSE accepting.on \in Behind(o)
      /\ accepting.settled => AllSettled(accepting.on)
      /\ contract = "NONE" /\ envelope = "none" /\ ~filed /\ commissions = 0
  BY LifecycleAssumption
  DEF IInv, TypeOK, Acceptances, AcceptanceHolds, SingleAcceptance, accept_offer_commit,
      FundingMatchesContract, ContractMatchesEnvelope, OneCommission, FundingStatuses
<1>1. /\ offers' = [offers EXCEPT ![o] = "ACCEPTED"] /\ fundedOffer' = o /\ accepting' = None
      /\ UNCHANGED <<version, matches, submissions, acknowledged, conditions, filed, envelope, unheard,
                     commissions, inflight>>
      /\ \/ /\ accepting.settled /\ funding' = "CONDITIONS_SATISFIED"
            /\ application' = "CONDITIONS_COMPLETE" /\ contract' = "DRAFT" /\ settledBy' = accepting.on
         \/ /\ funding' = "CONDITIONS_PENDING" /\ application' = "OFFER_ACCEPTED"
            /\ contract' = contract /\ settledBy' = settledBy
  BY DEF accept_offer_commit, ApplicationTarget
<1> HIDE DEF o
<1>2. TypeOK'
  BY <1>0, <1>1 DEF IInv, TypeOK, ApplicationStatuses, FundingStatuses, ContractStatuses, OfferStatuses
<1>3. AcceptanceHolds'
  BY <1>1 DEF AcceptanceHolds
<1>4. (OfferInsertedOnce /\ SingleAcceptance)'
  BY <1>0, <1>1, LifecycleAssumption
  DEF IInv, TypeOK, OfferInsertedOnce, SingleAcceptance, FundingStatuses
<1>5. (AdvancedFundingIsSettled /\ ConditionsAreOnSubmissions)'
  <2>1. \A s : AllSettled(s)' <=> AllSettled(s)
    BY <1>1 DEF AllSettled, Settled
  <2>2. Behind(fundedOffer)' = Behind(o)
    BY <1>1 DEF Behind
  <2>3. QED
    BY <1>0, <1>1, <2>1, <2>2 DEF IInv, AdvancedFundingIsSettled, ConditionsAreOnSubmissions, Advanced
<1>6. (FundingMatchesContract /\ ContractMatchesEnvelope /\ OneCommission)'
  BY <1>0, <1>1, LifecycleAssumption
  DEF FundingMatchesContract, ContractMatchesEnvelope, OneCommission, FundingStatuses
<1>7. QED  BY <1>2, <1>3, <1>4, <1>5, <1>6 DEF IInv

LEMMA AcceptRollbackStep ==
  ASSUME IInv, accept_offer_rollback
  PROVE  IInv'
<1>1. (TypeOK /\ AcceptanceHolds)'
  BY DEF IInv, TypeOK, AcceptanceHolds, accept_offer_rollback, origination, deal, signing
<1>2. (OfferInsertedOnce /\ SingleAcceptance)'
  BY DEF IInv, OfferInsertedOnce, SingleAcceptance, accept_offer_rollback, origination, deal, signing
<1>3. (AdvancedFundingIsSettled /\ ConditionsAreOnSubmissions)'
  BY DEF IInv, AdvancedFundingIsSettled, ConditionsAreOnSubmissions, Behind, Advanced, AllSettled, Settled,
         accept_offer_rollback, origination, deal, signing
<1>4. (FundingMatchesContract /\ ContractMatchesEnvelope /\ OneCommission)'
  BY DEF IInv, FundingMatchesContract, ContractMatchesEnvelope, OneCommission, accept_offer_rollback, deal,
         signing
<1>5. QED  BY <1>1, <1>2, <1>3, <1>4 DEF IInv

\* The worker takes a drafted contract.
LEMMA SendEnvelopeStep ==
  ASSUME IInv, send_pending_contract_envelope
  PROVE  IInv'
<1>0. /\ funding = "CONDITIONS_SATISFIED" /\ accepting = None /\ contract = "DRAFT" /\ ~filed
      /\ \/ contract' = "SENT" /\ filed' = TRUE /\ envelope' \in EnvelopeStatuses \ {"none"}
         \/ contract' = "VOIDED" /\ filed' = FALSE /\ envelope' = envelope
      /\ application' \in {application, "CONTRACT_SENT"}
      /\ UNCHANGED <<origination, funding, fundedOffer, settledBy, unheard, commissions, inflight, accepting>>
  BY DEF IInv, TypeOK, FundingStatuses, FundingMatchesContract, ContractMatchesEnvelope, EnvelopeStatuses,
         send_pending_contract_envelope, ApplicationUnlocked
<1>1. TypeOK'
  <2>1. application' \in ApplicationStatuses /\ contract' \in ContractStatuses
    BY <1>0 DEF IInv, TypeOK, ApplicationStatuses, ContractStatuses
  <2>2. filed' \in BOOLEAN /\ envelope' \in EnvelopeStatuses
    BY <1>0 DEF IInv, TypeOK
  <2>3. QED  BY <1>0, <2>1, <2>2 DEF IInv, TypeOK, origination
<1>2. (AcceptanceHolds /\ AdvancedFundingIsSettled /\ ConditionsAreOnSubmissions)'
  BY <1>0 DEF IInv, AcceptanceHolds, AdvancedFundingIsSettled, ConditionsAreOnSubmissions, Behind, Advanced,
              AllSettled, Settled, origination
<1>3. (OfferInsertedOnce /\ SingleAcceptance /\ OneCommission)'
  BY <1>0 DEF IInv, OfferInsertedOnce, SingleAcceptance, OneCommission, origination
<1>4. (FundingMatchesContract /\ ContractMatchesEnvelope)'
  BY <1>0, LifecycleAssumption DEF FundingMatchesContract, ContractMatchesEnvelope, FundingStatuses
<1>5. QED  BY <1>1, <1>2, <1>3, <1>4 DEF IInv

\* What happens to the envelope at the provider: a sending or a void whose
\* commit is lost, the signer, a webhook given up or put back.
LEMMA EnvelopeStep ==
  ASSUME IInv,
         \/ SendLost
         \/ \E outcome \in {"completed", "declined"} : SignerActs(outcome)
         \/ VoidLost
         \/ webhook_given_up
         \/ requeue_webhook
  PROVE  IInv'
<1>0. /\ \/ envelope = "sent" /\ envelope' \in {"completed", "declined", "voided"}
         \/ contract = "DRAFT" /\ envelope' = "sent"
         \/ envelope' = envelope
      /\ unheard' \in BOOLEAN
      /\ UNCHANGED <<application, origination, funding, fundedOffer, settledBy, contract, filed, commissions,
                     inflight, accepting>>
  BY DEF SendLost, SignerActs, VoidLost, webhook_given_up, requeue_webhook, IInv, TypeOK
<1>1. (TypeOK /\ AcceptanceHolds)'
  BY <1>0 DEF IInv, TypeOK, AcceptanceHolds, EnvelopeStatuses, Behind, AllSettled, Settled, origination
<1>2. (OfferInsertedOnce /\ SingleAcceptance /\ OneCommission)'
  BY <1>0 DEF IInv, OfferInsertedOnce, SingleAcceptance, OneCommission, origination
<1>3. (AdvancedFundingIsSettled /\ ConditionsAreOnSubmissions)'
  BY <1>0 DEF IInv, AdvancedFundingIsSettled, ConditionsAreOnSubmissions, Behind, Advanced, AllSettled,
              Settled,
              origination
<1>4. (FundingMatchesContract /\ ContractMatchesEnvelope)'
  BY <1>0 DEF IInv, FundingMatchesContract, ContractMatchesEnvelope
<1>5. QED  BY <1>1, <1>2, <1>3, <1>4 DEF IInv

\* A contract that is out belongs to a funding whose conditions are satisfied,
\* so a completed envelope always takes the funding along.
LEMMA DocusignStep ==
  ASSUME IInv, process_pending_docusign_event
  PROVE  IInv'
<1>0. /\ funding = "CONDITIONS_SATISFIED" /\ contract = "SENT" /\ accepting = None
      /\ UNCHANGED <<origination, fundedOffer, settledBy, filed, envelope, unheard, commissions, inflight,
                     accepting>>
  BY LifecycleAssumption
  DEF IInv, TypeOK, FundingStatuses, FundingMatchesContract, AcceptanceHolds, process_pending_docusign_event
<1>1. \/ /\ envelope = "declined" /\ contract' = "DECLINED"
         /\ application' = application /\ funding' = funding
      \/ /\ envelope = "voided" /\ contract' = "VOIDED"
         /\ application' = application /\ funding' = funding
      \/ /\ envelope = "completed" /\ contract' = "SIGNED"
         /\ application' = "CONTRACT_SIGNED" /\ funding' = "CONTRACT_SIGNED"
  BY <1>0 DEF process_pending_docusign_event
<1>2. TypeOK'
  BY <1>0, <1>1 DEF IInv, TypeOK, ApplicationStatuses, FundingStatuses, ContractStatuses, origination
<1>3. (AcceptanceHolds /\ AdvancedFundingIsSettled /\ ConditionsAreOnSubmissions)'
  BY <1>0, <1>1, LifecycleAssumption
  DEF IInv, AcceptanceHolds, AdvancedFundingIsSettled, ConditionsAreOnSubmissions, Behind, Advanced,
      AllSettled, Settled, origination, FundingStatuses
<1>4. (OfferInsertedOnce /\ SingleAcceptance /\ OneCommission)'
  BY <1>0, <1>1, LifecycleAssumption
  DEF IInv, OfferInsertedOnce, SingleAcceptance, OneCommission, origination, FundingStatuses
<1>5. (FundingMatchesContract /\ ContractMatchesEnvelope)'
  BY <1>0, <1>1, LifecycleAssumption DEF IInv, FundingMatchesContract, ContractMatchesEnvelope,
                    FundingStatuses
<1>6. QED  BY <1>2, <1>3, <1>4, <1>5 DEF IInv

LEMMA VoidContractStep ==
  ASSUME IInv, void_contract
  PROVE  IInv'
<1>0. /\ funding = "CONDITIONS_SATISFIED" /\ contract \in {"DRAFT", "SENT"} /\ contract' = "VOIDED"
      /\ contract = "SENT" => envelope' = "voided"
      /\ contract = "DRAFT" => ~filed /\ envelope' = envelope
      /\ UNCHANGED <<application, origination, funding, fundedOffer, settledBy, filed, unheard, commissions,
                     inflight, accepting>>
  BY DEF IInv, TypeOK, FundingStatuses, FundingMatchesContract, ContractMatchesEnvelope, void_contract,
         ProviderVoids
<1>1. (TypeOK /\ AcceptanceHolds)'
  BY <1>0 DEF IInv, TypeOK, AcceptanceHolds, ContractStatuses, EnvelopeStatuses, Behind, AllSettled,
              Settled, origination
<1>2. (OfferInsertedOnce /\ SingleAcceptance /\ AdvancedFundingIsSettled /\ OneCommission
       /\ ConditionsAreOnSubmissions)'
  BY <1>0 DEF IInv, OfferInsertedOnce, SingleAcceptance, AdvancedFundingIsSettled,
              ConditionsAreOnSubmissions, Behind, Advanced, AllSettled,
              Settled, OneCommission, origination
<1>3. (FundingMatchesContract /\ ContractMatchesEnvelope)'
  BY <1>0, LifecycleAssumption DEF FundingMatchesContract, ContractMatchesEnvelope, FundingStatuses
<1>4. QED  BY <1>1, <1>2, <1>3 DEF IInv

\* The operator's commands move a funding with a signed contract one step on.
LEMMA MoneyForwardStep ==
  ASSUME IInv, approve_funding \/ funding_funds_sent \/ confirm_funding
  PROVE  IInv'
<1>0. /\ funding \in {"CONTRACT_SIGNED", "APPROVED_FOR_FUNDING", "FUNDS_SENT"}
      /\ funding' \in {"APPROVED_FOR_FUNDING", "FUNDS_SENT", "FUNDED"}
      /\ application' = funding'
      /\ commissions' = IF funding' = "FUNDED" THEN commissions + 1 ELSE commissions
      /\ UNCHANGED <<origination, fundedOffer, settledBy, signing, inflight, accepting>>
  <2>1. funding \in FundingStatuses
    BY DEF IInv, TypeOK, approve_funding, funding_funds_sent, confirm_funding
  <2>2. QED
    BY <2>1, FundingMoves DEF approve_funding, funding_funds_sent, confirm_funding
<1>1. (TypeOK /\ AcceptanceHolds)'
  BY <1>0, LifecycleAssumption
  DEF IInv, TypeOK, AcceptanceHolds, ApplicationStatuses, FundingStatuses, origination, signing
<1>2. (OfferInsertedOnce /\ SingleAcceptance)'
  BY <1>0, LifecycleAssumption DEF IInv, OfferInsertedOnce, SingleAcceptance, FundingStatuses, origination
<1>3. (AdvancedFundingIsSettled /\ ConditionsAreOnSubmissions)'
  BY <1>0, LifecycleAssumption
  DEF IInv, AdvancedFundingIsSettled, ConditionsAreOnSubmissions, Behind, Advanced, AllSettled, Settled,
      origination, FundingStatuses
<1>4. OneCommission'
  BY <1>0 DEF IInv, OneCommission
<1>5. (FundingMatchesContract /\ ContractMatchesEnvelope)'
  BY <1>0, LifecycleAssumption DEF IInv, FundingMatchesContract, ContractMatchesEnvelope, FundingStatuses,
                                      signing
<1>6. QED  BY <1>1, <1>2, <1>3, <1>4, <1>5 DEF IInv

\* A decline takes an open contract back with its envelope.
LEMMA DeclineFundingStep ==
  ASSUME IInv, decline_funding
  PROVE  IInv'
<1>0. /\ funding \in FundingStatuses \ {"FUNDED", "DECLINED", "CANCELLED"} /\ funding # None
      /\ funding' = "DECLINED" /\ application' = "DECLINED"
      /\ contract' = IF contract \in {"DRAFT", "SENT"} THEN "VOIDED" ELSE contract
      /\ contract = "SENT" => envelope' = "voided"
      /\ contract # "SENT" => envelope' = envelope
      /\ UNCHANGED <<origination, fundedOffer, settledBy, filed, unheard, commissions, inflight, accepting>>
  <2>1. funding \in FundingStatuses
    BY DEF IInv, TypeOK, decline_funding
  <2>2. QED
    BY <2>1, FundingMoves DEF decline_funding, ProviderVoids
<1>1. (TypeOK /\ AcceptanceHolds)'
  BY <1>0 DEF IInv, TypeOK, AcceptanceHolds, ApplicationStatuses, FundingStatuses, ContractStatuses,
              EnvelopeStatuses, origination
<1>2. (OfferInsertedOnce /\ SingleAcceptance /\ AdvancedFundingIsSettled /\ OneCommission
       /\ ConditionsAreOnSubmissions)'
  BY <1>0, LifecycleAssumption
  DEF IInv, OfferInsertedOnce, SingleAcceptance, AdvancedFundingIsSettled, ConditionsAreOnSubmissions,
      Behind, Advanced, AllSettled, Settled, OneCommission,
      FundingStatuses, origination
<1>3. (FundingMatchesContract /\ ContractMatchesEnvelope)'
  BY <1>0, LifecycleAssumption DEF IInv, FundingMatchesContract, ContractMatchesEnvelope, FundingStatuses
<1>4. QED  BY <1>1, <1>2, <1>3 DEF IInv

\* The invariant is inductive.
LEMMA IInvStep == IInv /\ [Next]_vars => IInv'
<1> SUFFICES ASSUME IInv, [Next]_vars PROVE IInv'
  OBVIOUS
<1>1. CASE Intake
  BY <1>1, HandlerOpens, EditStep, CommitStep DEF Intake
<1>2. CASE Underwriting
  BY <1>2, ReviewStep, CreateConditionStep, SubmitConditionStep, DecideConditionStep DEF Underwriting
<1>3. CASE Acceptance
  BY <1>3, OfferStep, AcceptReadStep, AcceptCommitStep, AcceptRollbackStep DEF Acceptance
<1>4. CASE Signing
  BY <1>4, SendEnvelopeStep, EnvelopeStep, DocusignStep, VoidContractStep DEF Signing
<1>5. CASE Money
  BY <1>5, MoneyForwardStep, DeclineFundingStep DEF Money
<1>6. CASE UNCHANGED vars
  <2>1. (TypeOK /\ AcceptanceHolds /\ OfferInsertedOnce /\ SingleAcceptance)'
    BY <1>6 DEF vars, IInv, TypeOK, AcceptanceHolds, OfferInsertedOnce, SingleAcceptance, Behind,
                AllSettled, Settled
  <2>2. (FundingMatchesContract /\ ContractMatchesEnvelope /\ AdvancedFundingIsSettled /\ OneCommission
        /\ ConditionsAreOnSubmissions)'
    BY <1>6 DEF vars, IInv, FundingMatchesContract, ContractMatchesEnvelope, AdvancedFundingIsSettled,
                ConditionsAreOnSubmissions, Behind,
                Advanced, AllSettled, Settled, OneCommission
  <2>3. QED  BY <2>1, <2>2 DEF IInv
<1>7. QED  BY <1>1, <1>2, <1>3, <1>4, <1>5, <1>6 DEF Next

\* IInv holds in every reachable state.
LEMMA Inductive == Spec => []IInv
BY IInvInit, IInvStep, PTL DEF Spec

-----------------------------------------------------------------------------
(* The results.                                                            *)

\* Every variable keeps its type (services.py, applications_routes.py,
\* marketplace_routes.py, admin_routes.py, worker.py).
THEOREM TypeCorrect == Spec => []TypeOK
<1>1. IInv => TypeOK
  BY DEF IInv
<1>2. QED  BY <1>1, Inductive, PTL

\* accept_offer never accepts a second offer, and never one whose disclosure
\* was not acknowledged, whatever runs concurrently.
THEOREM AcceptedOnce == Spec => []SingleAcceptance
<1>1. IInv => SingleAcceptance
  BY DEF IInv
<1>2. QED  BY <1>1, Inductive, PTL

\* A funding past its conditions has no open condition on the submission that
\* let it advance, nor, where there was none to ask, on any of its program,
\* however many versions of it the application was submitted to:
\* create_condition and decide_condition cannot slip one past
\* advance_funding_if_conditions_satisfied.
THEOREM SettledBeforeMoney == Spec => []AdvancedFundingIsSettled
<1>1. IInv => AdvancedFundingIsSettled
  BY DEF IInv
<1>2. QED  BY <1>1, Inductive, PTL

\* approve_funding, funding_funds_sent and confirm_funding only ever act on a
\* funding whose contract the signer completed at the provider.
THEOREM SignedBeforeMoney == Spec => []ContractBacksFunding
<1>1. IInv => ContractBacksFunding
  BY DEF IInv, FundingMatchesContract, ContractMatchesEnvelope, ContractBacksFunding
<1>2. QED  BY <1>1, Inductive, PTL

\* After decline_funding the contract is never sent, and the envelope it has
\* recorded is closed, whichever sendings and voids were lost on the way.
THEOREM DeclineClosesContract == Spec => []NothingToSignAfterDecline
<1>1. IInv => NothingToSignAfterDecline
  BY DEF IInv, FundingMatchesContract, ContractMatchesEnvelope, NothingToSignAfterDecline
<1>2. QED  BY <1>1, Inductive, PTL

\* confirm_funding books one commission for a funding, never two.
THEOREM CommissionOnce == Spec => []OneCommission
<1>1. IInv => OneCommission
  BY DEF IInv
<1>2. QED  BY <1>1, Inductive, PTL

\* A declined application is off the lifecycle: its funding can only be declined.
LEMMA DeclinedMayNotFund ==
  ASSUME NEW f, NEW to \in FundingStatuses, MayFund(f, "DECLINED", to)
  PROVE  to = "DECLINED"
<1>1. ApplicationTarget(to) = "DECLINED" => to = "DECLINED"
  BY DEF ApplicationTarget
<1>2. ~WalksAlong(lifecycle, "DECLINED", ApplicationTarget(to))
  <2>1. \A i \in DOMAIN lifecycle : lifecycle[i] # "DECLINED"
    BY DEF lifecycle
  <2>2. QED  BY <2>1 DEF WalksAlong
<1>3. QED  BY <1>1, <1>2 DEF MayFund

\* Underwriting can decline an application at any time; from then on no decision,
\* signature or operator command moves its funding but a decline.
THEOREM DeclinedFreezes == Spec => DeclinedApplicationFreezesFunding
<1> DEFINE Freezes == application = "DECLINED" /\ funding' # funding => funding' = "DECLINED"
<1>1. IInv /\ [Next]_vars => Freezes
  <2> SUFFICES ASSUME IInv, Next, application = "DECLINED", funding' # funding PROVE funding' = "DECLINED"
    BY DEF vars
  <2>1. CASE Intake
    BY <2>1 DEF Intake, update_application, submit_application, update_lender_program, match,
                prepare_matched_submissions, lender_offer, create_submission_offer, InsertOffer, Open, Commit, deal, signing
  <2>2. CASE Underwriting
    <3>1. PICK c \in Conditions, decision \in {"SATISFIED", "REJECTED", "WAIVED"} :
            decide_condition(c, decision)
      BY <2>2 DEF Underwriting, create_underwriting_review, create_condition, submit_condition, deal, signing
    <3>2. MayFund(funding, application, "CONDITIONS_SATISFIED")
      BY <3>1 DEF decide_condition, Advance
    <3>3. QED  BY <3>2, DeclinedMayNotFund DEF FundingStatuses
  <2>3. CASE Acceptance
    <3>1. accept_offer_commit
      BY <2>3 DEF Acceptance, acknowledge_disclosure, accept_offer_expired, accept_offer_read, LooksAt,
                  accept_offer_rollback, deal, signing
    <3>2. QED  BY <3>1 DEF accept_offer_commit, IInv, AcceptanceHolds
  <2>4. CASE Signing
    <3>1. process_pending_docusign_event
      BY <2>4 DEF Signing, send_pending_contract_envelope, SendLost, SignerActs, webhook_given_up,
                  requeue_webhook, void_contract, VoidLost
    <3>2. MayFund(funding, application, "CONTRACT_SIGNED")
      BY <3>1 DEF process_pending_docusign_event
    <3>3. QED  BY <3>2, DeclinedMayNotFund DEF FundingStatuses
  <2>5. CASE Money
    BY <2>5, DeclinedMayNotFund
    DEF Money, approve_funding, funding_funds_sent, confirm_funding, decline_funding, FundingStatuses
  <2>6. QED  BY <2>1, <2>2, <2>3, <2>4, <2>5 DEF Next
<1>2. QED  BY <1>1, Inductive, PTL DEF Spec, DeclinedApplicationFreezesFunding

-----------------------------------------------------------------------------
(* One request at a time.                                                  *)

IntakeTargets ==
  {"APPLICATION_IN_PROGRESS", "READY_FOR_MATCHING", "MATCHED", "SUBMITTED_TO_LENDERS", "OFFERS_AVAILABLE"}

\* The statuses a funding that is on its way, but not yet sent, leaves the
\* application in.
OnItsWay ==
  {"OFFER_ACCEPTED", "CONDITIONS_COMPLETE", "CONTRACT_SENT", "CONTRACT_SIGNED", "APPROVED_FOR_FUNDING",
   "FUNDED", "DECLINED"}

\* What an open transaction has read is still so when it commits.
ReadsHold ==
  /\ \A t \in inflight : t.to # None =>
       t.to \in IntakeTargets /\ t.to # application /\ MayBecome(application, t.to)
  /\ accepting # None => (accepting.settled <=> AllSettled(accepting.on))

\* The inductive invariant of SerialSpec, besides IInv.
SerialInv == ReadsHold /\ ApplicationTracksFunding /\ SettledFundingAdvances

SerialGoal == SerialInv' /\ LegalMove(application, application')

\* No intake handler moves an application whose funding is on its way.
LEMMA IntakeMoves ==
  ASSUME NEW a \in ApplicationStatuses, NEW to \in IntakeTargets, to # a, MayBecome(a, to)
  PROVE  a \notin OnItsWay
BY DEF MayBecome, APPLICATION_TRANSITIONS, ApplicationStatuses, IntakeTargets, OnItsWay

\* What a status put in front of a sequence of statuses does to it.
LEMMA Prepended ==
  ASSUME NEW S, NEW s \in Seq(S), NEW x \in S
  PROVE  /\ DOMAIN (<<x>> \o s) = 1 .. (Len(s) + 1)
         /\ (<<x>> \o s)[1] = x
         /\ \A k \in 1 .. Len(s) : (<<x>> \o s)[k + 1] = s[k]
OBVIOUS

\* The path of LegalMove: the lifecycle, shifted by one.
LEMMA LongPath ==
  LET path == <<"OFFERS_AVAILABLE">> \o lifecycle IN
    /\ DOMAIN lifecycle = 1 .. 9
    /\ DOMAIN path = 1 .. 10
    /\ path[1] = "OFFERS_AVAILABLE"
    /\ \A k \in 1 .. 9 : path[k + 1] = lifecycle[k]
<1>1. lifecycle \in Seq(ApplicationStatuses)
  BY DEF lifecycle, ApplicationStatuses
<1>2. Len(lifecycle) = 9 /\ DOMAIN lifecycle = 1 .. 9
  BY DEF lifecycle
<1>3. "OFFERS_AVAILABLE" \in ApplicationStatuses
  BY DEF ApplicationStatuses
<1> DEFINE path == <<"OFFERS_AVAILABLE">> \o lifecycle
<1>4. /\ DOMAIN path = 1 .. (Len(lifecycle) + 1)
      /\ path[1] = "OFFERS_AVAILABLE"
      /\ \A k \in 1 .. Len(lifecycle) : path[k + 1] = lifecycle[k]
  BY <1>1, <1>3, Prepended
<1> HIDE DEF path
<1>5. /\ DOMAIN path = 1 .. 10
      /\ path[1] = "OFFERS_AVAILABLE"
      /\ \A k \in 1 .. 9 : path[k + 1] = lifecycle[k]
  BY <1>2, <1>4
<1> QED
  BY <1>2, <1>5 DEF path

\* A walk along the lifecycle is one along the longer path.
LEMMA LifecycleIsLegal ==
  ASSUME NEW a, NEW b, WalksAlong(lifecycle, a, b)
  PROVE  LegalMove(a, b)
<1> DEFINE path == <<"OFFERS_AVAILABLE">> \o lifecycle
<1>1. DOMAIN lifecycle = 1 .. 9
  BY LongPath
<1>2. DOMAIN path = 1 .. 10 /\ \A k \in 1 .. 9 : path[k + 1] = lifecycle[k]
  BY LongPath
<1> HIDE DEF path
<1>3. PICK i \in 1 .. 9, j \in 1 .. 9 :
        /\ i <= j /\ lifecycle[i] = a /\ lifecycle[j] = b
        /\ \A k \in i .. j - 1 : lifecycle[k + 1] \in APPLICATION_TRANSITIONS[lifecycle[k]]
  BY <1>1 DEF WalksAlong
<1>4. i + 1 \in DOMAIN path /\ j + 1 \in DOMAIN path /\ i + 1 <= j + 1 /\ path[i + 1] = a /\ path[j + 1] = b
  BY <1>2, <1>3
<1>5. ASSUME NEW k \in (i + 1) .. (j + 1) - 1
      PROVE  path[k + 1] \in APPLICATION_TRANSITIONS[path[k]]
  <2>1. k - 1 \in i .. j - 1 /\ k \in 1 .. 9 /\ k - 1 \in 1 .. 9
    BY <1>3
  <2>2. path[k + 1] = lifecycle[k] /\ path[(k - 1) + 1] = lifecycle[k - 1]
    BY <1>2, <2>1
  <2>3. lifecycle[(k - 1) + 1] \in APPLICATION_TRANSITIONS[lifecycle[k - 1]]
    BY <1>3, <2>1
  <2>4. (k - 1) + 1 = k
    BY <2>1
  <2> QED
    BY <2>2, <2>3, <2>4
<1>6. WalksAlong(path, a, b)
  BY <1>4, <1>5 DEF WalksAlong
<1> QED
  BY <1>6 DEF LegalMove, path

\* transition_funding moves the application along legal edges.
LEMMA FundingMoveIsLegal ==
  ASSUME NEW f, NEW a, NEW to, MayFund(f, a, to)
  PROVE  LegalMove(a, ApplicationTarget(to))
BY LifecycleIsLegal DEF MayFund, LegalMove, MayBecome

\* The acceptance and the sending of the contract skip statuses on the path.
LEMMA SkippedStatuses ==
  /\ LegalMove("OFFERS_AVAILABLE", "CONDITIONS_COMPLETE")
  /\ LegalMove("OFFER_ACCEPTED", "CONDITIONS_COMPLETE")
  /\ LegalMove("CONDITIONS_COMPLETE", "CONTRACT_SENT")
  /\ LegalMove("CONTRACT_READY", "CONTRACT_SENT")
<1> DEFINE path == <<"OFFERS_AVAILABLE">> \o lifecycle
<1>1. /\ lifecycle[1] = "OFFER_ACCEPTED" /\ lifecycle[2] = "CONDITIONS_PENDING"
      /\ lifecycle[3] = "CONDITIONS_COMPLETE" /\ lifecycle[4] = "CONTRACT_READY"
      /\ lifecycle[5] = "CONTRACT_SENT"
  BY DEF lifecycle
<1>2. DOMAIN path = 1 .. 10 /\ path[1] = "OFFERS_AVAILABLE" /\ \A k \in 1 .. 9 : path[k + 1] = lifecycle[k]
  BY LongPath
<1> HIDE DEF path
<1>3. /\ path[1] = "OFFERS_AVAILABLE" /\ path[2] = "OFFER_ACCEPTED" /\ path[3] = "CONDITIONS_PENDING"
      /\ path[4] = "CONDITIONS_COMPLETE" /\ path[5] = "CONTRACT_READY" /\ path[6] = "CONTRACT_SENT"
  <2>1. /\ path[1 + 1] = lifecycle[1] /\ path[2 + 1] = lifecycle[2] /\ path[3 + 1] = lifecycle[3]
        /\ path[4 + 1] = lifecycle[4] /\ path[5 + 1] = lifecycle[5]
    BY <1>2
  <2> QED
    BY <1>1, <1>2, <2>1
<1>4. \A k \in 1 .. 5 : path[k + 1] \in APPLICATION_TRANSITIONS[path[k]]
  <2>1. \A k \in 1 .. 5 : k = 1 \/ k = 2 \/ k = 3 \/ k = 4 \/ k = 5
    OBVIOUS
  <2>2. "CONDITIONS_COMPLETE" \in APPLICATION_TRANSITIONS["CONDITIONS_PENDING"]
    BY DEF APPLICATION_TRANSITIONS, ApplicationStatuses
  <2>3. /\ "OFFER_ACCEPTED" \in APPLICATION_TRANSITIONS["OFFERS_AVAILABLE"]
        /\ "CONDITIONS_PENDING" \in APPLICATION_TRANSITIONS["OFFER_ACCEPTED"]
        /\ "CONTRACT_READY" \in APPLICATION_TRANSITIONS["CONDITIONS_COMPLETE"]
        /\ "CONTRACT_SENT" \in APPLICATION_TRANSITIONS["CONTRACT_READY"]
    BY DEF APPLICATION_TRANSITIONS, ApplicationStatuses
  <2> QED
    BY <1>3, <2>1, <2>2, <2>3
<1>5. ASSUME NEW i \in 1 .. 6, NEW j \in 1 .. 6, i <= j
      PROVE  LegalMove(path[i], path[j])
  <2>1. WalksAlong(path, path[i], path[j])
    BY <1>2, <1>4, <1>5 DEF WalksAlong
  <2> QED
    BY <2>1 DEF LegalMove, path
<1> QED
  BY <1>3, <1>5

\* Statuses with no legal move but staying put or one that is no intake status.
LEMMA ReviewKeepsTrack ==
  ASSUME NEW a \in OnItsWay, NEW to \in {"READY_FOR_MATCHING", "DECLINED", "FRAUD_REVIEW",
  "COMPLIANCE_REVIEW"},
         MayBecome(a, to), a # to
  PROVE  to = "DECLINED" /\ a # "FUNDED"
BY DEF MayBecome, APPLICATION_TRANSITIONS, ApplicationStatuses, OnItsWay

\* An unlocked handler opens the only transaction there is.
LEMMA SerialOpen ==
  ASSUME IInv, SerialInv, Alone, NEW t \in Transactions, Open(t),
         t.to # None => t.to \in IntakeTargets /\ t.to # application /\ MayBecome(application, t.to)
  PROVE  SerialGoal
<1>1. inflight = {} /\ inflight' = {t} /\ accepting = None
  BY DEF Open, Alone
<1>2. UNCHANGED <<application, origination, deal, accepting>>
  BY DEF Open
<1>3. ReadsHold'
  BY <1>1, <1>2 DEF ReadsHold
<1> QED
  BY <1>2, <1>3 DEF SerialGoal, SerialInv, ApplicationTracksFunding, SettledFundingAdvances, Behind,
                    AllSettled,
     Settled, origination, deal, signing, LegalMove, MayBecome

\* The transaction commits what it read.
LEMMA SerialCommit ==
  ASSUME IInv, SerialInv, Alone, NEW t \in inflight, Commit(t)
  PROVE  SerialGoal
<1>1. inflight' = {} /\ accepting' = accepting /\ accepting = None
  BY DEF Alone, Commit, ApplicationUnlocked
<1>2. UNCHANGED <<funding, fundedOffer, conditions>>
  BY DEF Commit, deal, signing
<1>3. t.to = None \/ (t.to \in IntakeTargets /\ t.to # application /\ MayBecome(application, t.to))
  BY DEF SerialInv, ReadsHold
<1>4. application' = IF t.to = None THEN application ELSE t.to
  BY DEF Commit
<1>5. application \in ApplicationStatuses /\ funding \in FundingStatuses \union {None}
  BY DEF IInv, TypeOK
<1>6. application' # application => application \notin OnItsWay
  BY <1>3, <1>4, <1>5, IntakeMoves
<1>7. application' # application => funding \in {None, "FUNDS_SENT", "CANCELLED"}
  BY <1>5, <1>6 DEF SerialInv, ApplicationTracksFunding, FundingStatuses, OnItsWay
<1>8. LegalMove(application, application')
  BY <1>3, <1>4 DEF LegalMove, MayBecome
<1>9. ApplicationTracksFunding'
  BY <1>2, <1>7, LifecycleAssumption DEF SerialInv, ApplicationTracksFunding, FundingStatuses
<1>10. SettledFundingAdvances'
  <2>1. submissions \subseteq submissions'
    BY DEF Commit
  <2>2. \A s : AllSettled(s)' => AllSettled(s)
    BY <1>2 DEF AllSettled, Settled
  <2>3. funding' = "CONDITIONS_PENDING" => application' = application
    BY <1>2, <1>7, LifecycleAssumption DEF FundingStatuses
  <2> QED
    BY <1>2, <2>1, <2>2, <2>3 DEF SerialInv, SettledFundingAdvances, Behind
<1> QED
  BY <1>1, <1>8, <1>9, <1>10 DEF SerialGoal, SerialInv, ReadsHold

\* A step beside the open transactions is taken while there are none.
LEMMA NothingOpen ==
  ASSUME Alone, UNCHANGED <<inflight, accepting>>
  PROVE  inflight = {} /\ inflight' = {} /\ accepting = None /\ accepting' = None
BY DEF Alone

\* The intake handlers.
LEMMA SerialIntake ==
  ASSUME IInv, SerialInv, Alone, Intake
  PROVE  SerialGoal
<1>1. CASE update_application
  <2>1. [handler |-> "update", to |-> "APPLICATION_IN_PROGRESS"] \in Transactions
    BY DEF Transactions, ApplicationStatuses
  <2>2. MayBecome("APPLICATION_STARTED", "APPLICATION_IN_PROGRESS")
    BY DEF MayBecome, APPLICATION_TRANSITIONS, ApplicationStatuses
  <2> QED
    BY <1>1, <2>1, <2>2, SerialOpen DEF update_application, IntakeTargets
<1>2. CASE submit_application
  <2>1. [handler |-> "submit", to |-> "READY_FOR_MATCHING"] \in Transactions
    BY DEF Transactions, ApplicationStatuses
  <2> QED
    BY <1>2, <2>1, SerialOpen DEF submit_application, IntakeTargets
<1>3. ASSUME NEW eligible \in SUBSET Programs, match(eligible)
      PROVE  SerialGoal
  <2>1. [handler |-> "match", to |-> Wanted("MATCHED"),
         rows |-> {[program |-> p, version |-> version[p]] : p \in eligible},
         deleted |-> matches] \in Transactions
    BY DEF Transactions, ApplicationStatuses, Wanted, IInv, TypeOK, Submissions
  <2>2. Wanted("MATCHED") # None => Wanted("MATCHED") = "MATCHED" /\ application # "MATCHED"
    BY DEF Wanted
  <2> QED
    BY <1>3, <2>1, <2>2, SerialOpen DEF match, IntakeTargets
<1>4. CASE prepare_matched_submissions
  <2> DEFINE t == [handler |-> "prepare",
                   to |-> IF application = "MATCHED" THEN "SUBMITTED_TO_LENDERS" ELSE None,
                   rows |-> matches]
  <2>1. t \in Transactions
    BY DEF Transactions, ApplicationStatuses, IInv, TypeOK
  <2>2. MayBecome("MATCHED", "SUBMITTED_TO_LENDERS")
    BY DEF MayBecome, APPLICATION_TRANSITIONS, ApplicationStatuses
  <2>3. t.to # None => t.to \in IntakeTargets /\ t.to # application /\ MayBecome(application, t.to)
    BY <2>2 DEF IntakeTargets
  <2>4. Open(t)
    BY <1>4 DEF prepare_matched_submissions
  <2> HIDE DEF t
  <2> QED
    BY <2>1, <2>3, <2>4, SerialOpen
<1>5. ASSUME NEW o \in Offers, lender_offer(o) \/ create_submission_offer(o)
      PROVE  SerialGoal
  <2> DEFINE t == [handler |-> "offer", to |-> Wanted("OFFERS_AVAILABLE"), offer |-> o]
  <2>1. t \in Transactions
    BY DEF Transactions, ApplicationStatuses, Wanted
  <2>2. MayBecome(application, "OFFERS_AVAILABLE") /\ Open(t)
    BY <1>5 DEF create_submission_offer, lender_offer, InsertOffer
  <2>3. t.to # None => t.to \in IntakeTargets /\ t.to # application /\ MayBecome(application, t.to)
    BY <2>2 DEF Wanted, IntakeTargets
  <2> HIDE DEF t
  <2> QED
    BY <2>1, <2>2, <2>3, SerialOpen
<1>6. ASSUME NEW p \in Programs, update_lender_program(p)
      PROVE  SerialGoal
  <2>1. UNCHANGED <<application, submissions, conditions, funding, fundedOffer, inflight, accepting>>
    BY <1>6 DEF update_lender_program, deal
  <2>2. ReadsHold'
    BY <2>1, NothingOpen DEF ReadsHold
  <2> QED
    BY <2>1, <2>2 DEF SerialGoal, SerialInv, ApplicationTracksFunding, SettledFundingAdvances, Behind,
                    AllSettled,
       Settled, LegalMove, MayBecome
<1> QED
  BY <1>1, <1>2, <1>3, <1>4, <1>5, <1>6, SerialCommit DEF Intake

LEMMA SerialReview ==
  ASSUME IInv, SerialInv, Alone,
         NEW target \in {"READY_FOR_MATCHING", "DECLINED", "FRAUD_REVIEW", "COMPLIANCE_REVIEW"},
         create_underwriting_review(target)
  PROVE  SerialGoal
<1>1. /\ application' = target /\ application # target /\ MayBecome(application, target)
      /\ UNCHANGED <<submissions, funding, fundedOffer, conditions, inflight, accepting>>
  BY DEF create_underwriting_review, origination, deal, signing
<1>2. ReadsHold'
  BY <1>1, NothingOpen DEF ReadsHold
<1>3. application \in OnItsWay => target = "DECLINED" /\ application # "FUNDED"
  BY <1>1, ReviewKeepsTrack
<1>4. application # "DECLINED"
  BY <1>1, ReviewKeepsTrack DEF OnItsWay
<1>5. ApplicationTracksFunding'
  BY <1>1, <1>3, <1>4 DEF SerialInv, ApplicationTracksFunding, OnItsWay
<1>6. SettledFundingAdvances'
  BY <1>1, <1>4 DEF SerialInv, SettledFundingAdvances, Behind, AllSettled, Settled
<1> QED
  BY <1>1, <1>2, <1>5, <1>6 DEF SerialGoal, SerialInv, LegalMove

LEMMA SerialCreateCondition ==
  ASSUME IInv, SerialInv, Alone, NEW c \in Conditions, create_condition(c)
  PROVE  SerialGoal
<1>1. /\ conditions[c] = "NONE"
      /\ conditions' = [conditions EXCEPT ![c] = "BORROWER_ACTION_REQUIRED"]
      /\ application' = IF application \in {"SUBMITTED_TO_LENDERS", "UNDERWRITING"}
                        THEN "CONDITIONS_PENDING" ELSE application
      /\ UNCHANGED <<submissions, funding, fundedOffer, inflight, accepting>>
  BY DEF create_condition, deal, signing
<1>2. ReadsHold'
  BY <1>1, NothingOpen DEF ReadsHold
<1>3. MayBecome("SUBMITTED_TO_LENDERS", "CONDITIONS_PENDING") /\ MayBecome("UNDERWRITING", "CONDITIONS_PENDING")
  BY DEF MayBecome, APPLICATION_TRANSITIONS, ApplicationStatuses
<1>4. LegalMove(application, application')
  BY <1>1, <1>3 DEF LegalMove, MayBecome
<1>5. ApplicationTracksFunding'
  BY <1>1 DEF SerialInv, ApplicationTracksFunding
<1>6. \A s : AllSettled(s)' => AllSettled(s)
  BY <1>1 DEF AllSettled, Settled, IInv, TypeOK
<1>7. application' # "DECLINED" => application # "DECLINED"
  BY <1>1
<1>8. SettledFundingAdvances'
  BY <1>1, <1>6, <1>7 DEF SerialInv, SettledFundingAdvances, Behind
<1> QED
  BY <1>2, <1>4, <1>5, <1>8 DEF SerialGoal, SerialInv

LEMMA SerialSubmitCondition ==
  ASSUME IInv, SerialInv, Alone, NEW c \in Conditions, submit_condition(c)
  PROVE  SerialGoal
<1>1. /\ conditions[c] \in {"BORROWER_ACTION_REQUIRED", "REJECTED"}
      /\ conditions' = [conditions EXCEPT ![c] = "SUBMITTED"]
      /\ UNCHANGED <<application, submissions, funding, fundedOffer, inflight, accepting>>
  BY DEF submit_condition, deal, signing
<1>2. ReadsHold'
  BY <1>1, NothingOpen DEF ReadsHold
<1>3. \A s : AllSettled(s)' => AllSettled(s)
  BY <1>1 DEF AllSettled, Settled, IInv, TypeOK
<1> QED
  BY <1>1, <1>2, <1>3
  DEF SerialGoal, SerialInv, LegalMove, MayBecome, ApplicationTracksFunding, SettledFundingAdvances, Behind

LEMMA SerialDecideCondition ==
  ASSUME IInv, SerialInv, Alone, NEW c \in Conditions, NEW decision \in {"SATISFIED", "REJECTED", "WAIVED"},
         decide_condition(c, decision)
  PROVE  SerialGoal
<1>1. /\ conditions[c] \in {"SUBMITTED", "BORROWER_ACTION_REQUIRED", "REJECTED"}
      /\ conditions' = [conditions EXCEPT ![c] = decision]
      /\ UNCHANGED <<submissions, fundedOffer, inflight, accepting>>
  BY DEF decide_condition
<1>2. ReadsHold'
  BY <1>1, NothingOpen DEF ReadsHold
<1> DEFINE advances == /\ decision \in {"SATISFIED", "WAIVED"}
                       /\ funding = "CONDITIONS_PENDING" /\ FundedFor(SubmissionOf[c])
                       /\ AllSettled(SubmissionOf[c])'
<1>3. CASE advances
  <2>1. Advance(SubmissionOf[c])
    BY <1>3 DEF decide_condition
  <2>2. funding' = "CONDITIONS_SATISFIED" /\ application' = "CONDITIONS_COMPLETE"
    BY <2>1 DEF Advance, ApplicationTarget
  <2>3. LegalMove(application, application')
    BY <2>1, FundingMoveIsLegal DEF Advance
  <2> QED
    BY <1>2, <2>2, <2>3, LifecycleAssumption
    DEF SerialGoal, SerialInv, ApplicationTracksFunding, SettledFundingAdvances, FundingStatuses
<1>4. CASE ~advances
  <2>1. UNCHANGED <<application, funding>>
    BY <1>4 DEF decide_condition
  <2>2. ASSUME funding = "CONDITIONS_PENDING", application # "DECLINED",
               NEW s \in Behind(fundedOffer), ~AllSettled(s), AllSettled(s)'
        PROVE  FALSE
    <3>1. fundedOffer # None
      BY <2>2, LifecycleAssumption DEF IInv, SingleAcceptance, FundingStatuses
    <3>2. PICK e \in Conditions : SubmissionOf[e] = s /\ conditions[e] # "NONE" /\ ~Settled(e)
      BY <2>2 DEF AllSettled
    <3>3. conditions'[e] # "NONE" => Settled(e)'
      BY <2>2, <3>2 DEF AllSettled
    <3>4. e = c
      BY <1>1, <3>2, <3>3 DEF Settled, IInv, TypeOK
    <3>5. decision \in {"SATISFIED", "WAIVED"}
      BY <1>1, <3>3, <3>4 DEF Settled, IInv, TypeOK
    <3>6. AllSettled(SubmissionOf[c])'
      BY <2>2, <3>2, <3>4
    <3>7. FundedFor(SubmissionOf[c])
      BY <2>2, <3>1, <3>2, <3>4 DEF FundedFor, Behind
    <3> QED
      BY <1>4, <2>2, <3>5, <3>6, <3>7
  <2>3. SettledFundingAdvances'
    BY <1>1, <2>1, <2>2 DEF SerialInv, SettledFundingAdvances, Behind
  <2> QED
    BY <1>2, <2>1, <2>3 DEF SerialGoal, SerialInv, ApplicationTracksFunding, LegalMove, MayBecome
<1> QED
  BY <1>3, <1>4

LEMMA SerialAcceptance ==
  ASSUME IInv, SerialInv, Alone, Acceptance
  PROVE  SerialGoal
<1>1. ASSUME NEW o \in Offers, acknowledge_disclosure(o) \/ accept_offer_expired(o)
      PROVE  SerialGoal
  <2>1. UNCHANGED <<application, submissions, funding, fundedOffer, conditions, inflight, accepting>>
    BY <1>1 DEF acknowledge_disclosure, accept_offer_expired, deal, signing
  <2>2. ReadsHold'
    BY <2>1, NothingOpen DEF ReadsHold
  <2> QED
    BY <2>1, <2>2 DEF SerialGoal, SerialInv, ApplicationTracksFunding, SettledFundingAdvances, Behind,
                    AllSettled,
       Settled, LegalMove, MayBecome
<1>2. ASSUME NEW o \in Offers, NEW s \in submissions \union {None}, accept_offer_read(o, s)
      PROVE  SerialGoal
  <2>1. /\ accepting' = [offer |-> o, on |-> s, settled |-> AllSettled(s)]
        /\ UNCHANGED <<application, submissions, funding, fundedOffer, conditions, inflight>>
    BY <1>2 DEF accept_offer_read, LooksAt, origination, deal, signing
  <2>2. inflight' = {}
    BY <2>1 DEF Alone
  <2>3. AllSettled(s)' <=> AllSettled(s)
    BY <2>1 DEF AllSettled, Settled
  <2>4. ReadsHold'
    BY <2>1, <2>2, <2>3 DEF ReadsHold, AllSettled, Settled
  <2> QED
    BY <2>1, <2>4 DEF SerialGoal, SerialInv, ApplicationTracksFunding, SettledFundingAdvances, Behind,
                    AllSettled,
       Settled, LegalMove, MayBecome
<1>3. CASE accept_offer_commit
  <2>1. accepting # None /\ accepting' = None /\ inflight' = {} /\ UNCHANGED conditions
    BY <1>3 DEF accept_offer_commit, Alone
  <2>2. ReadsHold'
    BY <2>1 DEF ReadsHold
  <2>3. application \in {"OFFERS_AVAILABLE", "OFFER_ACCEPTED"}
    BY <2>1 DEF IInv, AcceptanceHolds
  <2>4. CASE accepting.settled
    <3>1. funding' = "CONDITIONS_SATISFIED" /\ application' = "CONDITIONS_COMPLETE"
      BY <1>3, <2>4 DEF accept_offer_commit, ApplicationTarget
    <3>2. LegalMove(application, application')
      BY <2>3, <3>1, SkippedStatuses
    <3> QED
      BY <2>2, <3>1, <3>2, LifecycleAssumption
      DEF SerialGoal, SerialInv, ApplicationTracksFunding, SettledFundingAdvances, FundingStatuses
  <2>5. CASE ~accepting.settled
    <3>1. funding' = "CONDITIONS_PENDING" /\ application' = "OFFER_ACCEPTED" /\ fundedOffer' = accepting.offer
      BY <1>3, <2>5 DEF accept_offer_commit
    <3>2. ~AllSettled(accepting.on) /\ accepting.on \in Behind(accepting.offer)
      <4>1. ~AllSettled(accepting.on)
        BY <2>1, <2>5 DEF SerialInv, ReadsHold
      <4>2. AllSettled(None)
        BY LifecycleAssumption DEF AllSettled
      <4> QED
        BY <2>1, <4>1, <4>2 DEF IInv, AcceptanceHolds
    <3>3. SettledFundingAdvances'
      BY <1>3, <2>1, <3>1, <3>2 DEF SettledFundingAdvances, Behind, AllSettled, Settled, accept_offer_commit
    <3>4. MayBecome("OFFERS_AVAILABLE", "OFFER_ACCEPTED") /\ MayBecome("OFFER_ACCEPTED", "OFFER_ACCEPTED")
      BY DEF MayBecome, APPLICATION_TRANSITIONS, ApplicationStatuses
    <3> QED
      BY <2>2, <2>3, <3>1, <3>3, <3>4 DEF SerialGoal, SerialInv, ApplicationTracksFunding, LegalMove
  <2> QED
    BY <2>4, <2>5
<1>4. CASE accept_offer_rollback
  <2>1. /\ accepting' = None /\ inflight' = {}
        /\ UNCHANGED <<application, submissions, funding, fundedOffer, conditions>>
    BY <1>4 DEF accept_offer_rollback, Alone, origination, deal, signing
  <2>2. ReadsHold'
    BY <2>1 DEF ReadsHold
  <2> QED
    BY <2>1, <2>2 DEF SerialGoal, SerialInv, ApplicationTracksFunding, SettledFundingAdvances, Behind,
                    AllSettled,
       Settled, LegalMove, MayBecome
<1> QED
  BY <1>1, <1>2, <1>3, <1>4 DEF Acceptance

LEMMA SerialSigning ==
  ASSUME IInv, SerialInv, Alone, Signing
  PROVE  SerialGoal
<1>1. UNCHANGED <<submissions, fundedOffer, conditions, inflight, accepting>>
  BY DEF Signing, send_pending_contract_envelope, SendLost, SignerActs, process_pending_docusign_event,
     webhook_given_up, requeue_webhook, void_contract, VoidLost, origination
<1>2. ReadsHold'
  BY <1>1, NothingOpen DEF ReadsHold
<1>3. CASE UNCHANGED <<application, funding>>
  BY <1>1, <1>2, <1>3 DEF SerialGoal, SerialInv, ApplicationTracksFunding, SettledFundingAdvances, Behind,
                    AllSettled,
     Settled, LegalMove, MayBecome
<1>4. CASE send_pending_contract_envelope /\ ~UNCHANGED <<application, funding>>
  <2>1. /\ contract = "DRAFT" /\ application \in {"CONDITIONS_COMPLETE", "CONTRACT_READY"}
        /\ application' = "CONTRACT_SENT" /\ funding' = funding
    BY <1>4 DEF send_pending_contract_envelope
  <2>2. funding = "CONDITIONS_SATISFIED"
    BY <2>1 DEF IInv, TypeOK, FundingMatchesContract, FundingStatuses
  <2> QED
    BY <1>2, <2>1, <2>2, SkippedStatuses
    DEF SerialGoal, SerialInv, ApplicationTracksFunding, SettledFundingAdvances
<1>5. CASE process_pending_docusign_event /\ ~UNCHANGED <<application, funding>>
  <2>1. /\ MayFund(funding, application, "CONTRACT_SIGNED")
        /\ funding' = "CONTRACT_SIGNED" /\ application' = "CONTRACT_SIGNED"
    BY <1>5 DEF process_pending_docusign_event
  <2>2. ApplicationTarget("CONTRACT_SIGNED") = "CONTRACT_SIGNED"
    BY DEF ApplicationTarget
  <2>3. LegalMove(application, application')
    BY <2>1, <2>2, FundingMoveIsLegal
  <2> QED
    BY <1>2, <2>1, <2>3 DEF SerialGoal, SerialInv, ApplicationTracksFunding, SettledFundingAdvances
<1> QED
  BY <1>3, <1>4, <1>5 DEF Signing, SendLost, SignerActs, webhook_given_up, requeue_webhook, void_contract,
                    VoidLost

LEMMA SerialMoney ==
  ASSUME IInv, SerialInv, Alone, Money
  PROVE  SerialGoal
<1>1. UNCHANGED <<submissions, fundedOffer, conditions, inflight, accepting>>
  BY DEF Money, approve_funding, funding_funds_sent, confirm_funding, decline_funding, origination
<1>2. ReadsHold'
  BY <1>1, NothingOpen DEF ReadsHold
<1>3. PICK to \in {"APPROVED_FOR_FUNDING", "FUNDS_SENT", "FUNDED", "DECLINED"} :
        MayFund(funding, application, to) /\ funding' = to /\ application' = to
  BY DEF Money, approve_funding, funding_funds_sent, confirm_funding, decline_funding
<1>4. ApplicationTarget(to) = to
  BY DEF ApplicationTarget
<1>5. LegalMove(application, application')
  BY <1>3, <1>4, FundingMoveIsLegal
<1> QED
  BY <1>2, <1>3, <1>5 DEF SerialGoal, SerialInv, ApplicationTracksFunding, SettledFundingAdvances

LEMMA SerialStep == IInv /\ SerialInv /\ [Next /\ Alone]_vars => SerialGoal
<1> SUFFICES ASSUME IInv, SerialInv, [Next /\ Alone]_vars PROVE SerialGoal
  OBVIOUS
<1>1. CASE Next /\ Alone
  <2>1. CASE Underwriting
    BY <1>1, <2>1, SerialReview, SerialCreateCondition, SerialSubmitCondition, SerialDecideCondition
    DEF Underwriting
  <2> QED
    BY <1>1, <2>1, SerialIntake, SerialAcceptance, SerialSigning, SerialMoney DEF Next
<1>2. CASE UNCHANGED vars
  BY <1>2 DEF vars, SerialGoal, SerialInv, ReadsHold, ApplicationTracksFunding, SettledFundingAdvances,
     Behind, AllSettled, Settled, LegalMove, MayBecome
<1> QED
  BY <1>1, <1>2

LEMMA SerialInitially == Init => SerialInv
BY LifecycleAssumption DEF Init, SerialInv, ReadsHold, ApplicationTracksFunding, SettledFundingAdvances,
   FundingStatuses

LEMMA SerialInductive == SerialSpec => [](IInv /\ SerialInv)
<1>1. IInv /\ SerialInv /\ [Next /\ Alone]_vars => (IInv /\ SerialInv)'
  BY IInvStep, SerialStep DEF SerialGoal
<1> QED
  BY <1>1, IInvInit, SerialInitially, PTL DEF SerialSpec

\* One request at a time, services.transition_funding and the handlers around
\* it keep the application where its funding says.
THEOREM SerialTracks == SerialSpec => []ApplicationTracksFunding
BY SerialInductive, PTL DEF SerialInv

\* One request at a time, either the last decision or the acceptance itself
\* advances a funding whose conditions are settled.
THEOREM SerialSettledAdvances == SerialSpec => []SettledFundingAdvances
BY SerialInductive, PTL DEF SerialInv

\* One request at a time, no handler moves the application but along the edges
\* of APPLICATION_TRANSITIONS, which the acceptance and the worker walk several
\* at once.
THEOREM SerialLegalMoves == SerialSpec => LegalApplicationMoves
<1>1. IInv /\ SerialInv /\ [Next /\ Alone]_vars => LegalMove(application, application')
  BY SerialStep DEF SerialGoal
<1>2. LegalMove(application, application') => [LegalMove(application, application')]_vars
  OBVIOUS
<1> QED
  BY <1>1, SerialInductive, PTL DEF SerialSpec, LegalApplicationMoves
=============================================================================
