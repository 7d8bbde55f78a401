------------------------ MODULE EnvelopeExchangeProofs ------------------------
(***************************************************************************)
(* What EnvelopeExchange promises for any number of contracts, attempts,   *)
(* kills and requeues.  The safety invariants of the module follow from    *)
(* one inductive invariant: which ids the provider may know, and how often *)
(* it has been asked to void while nobody knows the outcome.               *)
(***************************************************************************)
EXTENDS EnvelopeExchange, TLAPS

ContractStatuses == {"DRAFT", "SENT", "SIGNED", "DECLINED", "VOIDED"}
Failures == {"none", "provider", "moneybee", "void"}
Unknowns == {"NONE", "OPEN", "RESOLVED"}
ApplicationStatuses ==
  {"CONDITIONS_COMPLETE", "CONTRACT_SENT", "CONTRACT_SIGNED", "FUNDED", "DECLINED", "OFFERS_AVAILABLE"}
FundingStatuses == {"CONDITIONS_SATISFIED", "CONTRACT_SIGNED", "FUNDED", "DECLINED"}
EnvelopeStatuses == {"none", "sent"} \union Outcomes
InboxStatuses == {"NONE", "RECEIVED", "IGNORED", "FAILED", "PROCESSED"}

\* The rows of the database.
RowsOK ==
  /\ contract \in [Contracts -> ContractStatuses]
  /\ envelopeId \in [Contracts -> Messages]
  /\ attempts \in [Contracts -> Nat]
  /\ due \subseteq Contracts
  /\ terminal \subseteq Contracts
  /\ failure \in [Contracts -> Failures]
  /\ unsent \subseteq Contracts
  /\ unknown \in [Contracts -> Unknowns]
  /\ application \in [Contracts -> ApplicationStatuses]
  /\ funding \in [Contracts -> FundingStatuses]
  /\ renewal \in [Contracts -> RENEWAL_STATUSES \union {"NONE"}]

\* The provider, the inbox and the loop.
ExchangeOK ==
  /\ envelope \in [TransactionIds -> EnvelopeStatuses]
  /\ voids \in [Contracts -> Nat]
  /\ inbox \in [Messages -> InboxStatuses]
  /\ queue \in Seq(Messages)
  /\ readings \in [Messages -> Nat]
  /\ ready \subseteq Messages
  /\ requeues \in 0 .. MaxRequeues
  /\ step \in {"envelope", "docusign", "scan", "renewal"}
  /\ tick \in 0 .. RenewalTicks - 1
  /\ unreadable \in BOOLEAN
  /\ resolutions \in 0 .. MaxResolutions
  /\ kills \in 0 .. MaxKills

\* Every variable has its type.
TypeOK == RowsOK /\ ExchangeOK

\* The provider knows a contract's envelope by the contract's own id only.
KnownById == \A t \in TransactionIds : envelope[t] # "none" => t[2] = 0

\* While the provider may still be asked, every request to void was one of a
\* killed handler or one whose exception was closed by hand; afterwards there is
\* one more.
Askable(c) == contract[c] \in {"DRAFT", "SENT"} /\ unknown[c] # "OPEN"

Excused == kills + resolutions

AsksCounted ==
  \A c \in Contracts : voids[c] <= IF Askable(c) THEN Excused ELSE 1 + Excused

\* The inductive invariant.
IInv ==
  /\ TypeOK
  /\ KnownById
  /\ AsksCounted
  /\ SignatureMovesFunding
  /\ GivenUpIsReported

-----------------------------------------------------------------------------
(* The ids.                                                                *)

LEMMA OwnId ==
  ASSUME NEW c \in Contracts
  PROVE  transactionId(c) \in TransactionIds /\ transactionId(c)[2] = 0
BY ExchangeAssumption DEF transactionId, TransactionIds

LEMMA SameId ==
  ASSUME NEW s \in TransactionIds, NEW t \in TransactionIds, s[1] = t[1], s[2] = 0, t[2] = 0
  PROVE  s = t
BY DEF TransactionIds

-----------------------------------------------------------------------------
(* The initial state and the steps.                                        *)

LEMMA IInvInit == Init => IInv
<1> SUFFICES ASSUME Init PROVE IInv
  OBVIOUS
<1>1. RowsOK
  BY DEF Init, RowsOK, Messages, ContractStatuses, Failures, Unknowns, ApplicationStatuses, FundingStatuses
<1>2. ExchangeOK
  <2>1. queue \in Seq(Messages)
    BY DEF Init
  <2>2. tick \in 0 .. RenewalTicks - 1 /\ requeues \in 0 .. MaxRequeues /\ kills \in 0 .. MaxKills
        /\ resolutions \in 0 .. MaxResolutions
    BY ExchangeAssumption DEF Init
  <2> QED
    BY <2>1, <2>2 DEF Init, ExchangeOK, EnvelopeStatuses, InboxStatuses
<1>3. AsksCounted
  BY DEF Init, AsksCounted, Askable, Excused
<1> QED
  BY <1>1, <1>2, <1>3 DEF Init, IInv, TypeOK, KnownById, SignatureMovesFunding, GivenUpIsReported

LEMMA SumIsNat == \A a, b \in Nat : a + b \in Nat
OBVIOUS

LEMMA SumGrows == \A a, b, d \in Nat : a <= d => a + b <= d + b
OBVIOUS

\* Steps of the loop, the clock, the provider and the operators that leave the
\* contracts and what is known of their envelopes alone.
LEMMA BystanderStep ==
  ASSUME IInv, UNCHANGED <<contract, terminal, failure, unsent, unknown, funding, envelope, voids>>,
         TypeOK', kills <= kills', resolutions' = resolutions
  PROVE  IInv'
<1>1. Excused \in Nat /\ Excused' \in Nat /\ Excused <= Excused'
  <2>1. kills \in Nat /\ kills' \in Nat /\ resolutions \in Nat /\ resolutions' \in Nat
    BY ExchangeAssumption DEF IInv, TypeOK, ExchangeOK
  <2> QED
    BY <2>1, SumIsNat, SumGrows DEF Excused
<1>2. ASSUME NEW c \in Contracts
      PROVE  voids[c] <= IF Askable(c) THEN Excused' ELSE 1 + Excused'
  BY <1>1 DEF IInv, TypeOK, ExchangeOK, AsksCounted
<1>3. AsksCounted'
  BY <1>2 DEF AsksCounted, Askable
<1> QED
  BY <1>3 DEF IInv, KnownById, SignatureMovesFunding, GivenUpIsReported

LEMMA LoopStep ==
  ASSUME IInv,
         Kill \/ scan_pending_document \/ ScanRaises \/ evaluate_pending_renewals \/ NothingToSend \/ NothingToRead
           \/ \E m \in Messages : DocusignRaises(m)
  PROVE  IInv'
<1>1. TypeOK'
  BY ExchangeAssumption
  DEF IInv, TypeOK, RowsOK, ExchangeOK, Kill, Killed, Restart, scan_pending_document, ScanRaises, evaluate_pending_renewals,
      end_round, evaluate_renewal_eligibility, NothingToSend, NothingToRead, DocusignRaises, After, delivery,
      deal, atProvider, messages, RENEWAL_STATUSES, outside
<1>2. /\ UNCHANGED <<contract, terminal, failure, unsent, unknown, funding, envelope, voids>>
      /\ kills <= kills' /\ resolutions' = resolutions
  BY DEF IInv, TypeOK, ExchangeOK, Kill, Killed, scan_pending_document, ScanRaises, evaluate_pending_renewals, NothingToSend,
     NothingToRead, DocusignRaises, delivery, deal, atProvider, outside
<1> QED
  BY <1>1, <1>2, BystanderStep

LEMMA ClockStep ==
  ASSUME IInv, Clock
  PROVE  IInv'
<1>1. ASSUME NEW c \in Contracts, Mature(c)
      PROVE  IInv'
  <2>1. TypeOK'
    BY <1>1 DEF Mature, IInv, TypeOK, RowsOK, ExchangeOK, ApplicationStatuses, FundingStatuses, delivery,
                atProvider, messages, loop, outside
  <2>2. /\ funding' = [funding EXCEPT ![c] = "FUNDED"]
        /\ UNCHANGED <<contract, terminal, failure, unsent, unknown, envelope, voids, resolutions, kills>>
    BY <1>1 DEF Mature, delivery, atProvider, outside
  <2> QED
    BY <2>1, <2>2 DEF IInv, TypeOK, RowsOK, KnownById, AsksCounted, Askable, Excused, SignatureMovesFunding,
                      GivenUpIsReported
<1>2. ASSUME NEW c \in Contracts, BackoffEnds(c)
      PROVE  IInv'
  <2>1. TypeOK'
    BY <1>2 DEF BackoffEnds, IInv, TypeOK, RowsOK, ExchangeOK, deal, atProvider, messages, loop, outside
  <2>2. /\ UNCHANGED <<contract, terminal, failure, unsent, unknown, funding, envelope, voids>>
        /\ kills' = kills /\ resolutions' = resolutions
    BY <1>2 DEF BackoffEnds, deal, atProvider, outside
  <2> QED
    BY <2>1, <2>2, BystanderStep DEF IInv, TypeOK, ExchangeOK
<1>3. ASSUME NEW m \in Messages, MessageBackoffEnds(m)
      PROVE  IInv'
  <2>1. TypeOK'
    BY <1>3 DEF MessageBackoffEnds, IInv, TypeOK, RowsOK, ExchangeOK, delivery, deal, atProvider, loop, outside
  <2>2. /\ UNCHANGED <<contract, terminal, failure, unsent, unknown, funding, envelope, voids>>
        /\ kills' = kills /\ resolutions' = resolutions
    BY <1>3 DEF MessageBackoffEnds, delivery, deal, atProvider, outside
  <2> QED
    BY <2>1, <2>2, BystanderStep DEF IInv, TypeOK, ExchangeOK
<1>4. ASSUME UploadChanges
      PROVE  IInv'
  <2>1. TypeOK'
    BY <1>4 DEF UploadChanges, IInv, TypeOK, RowsOK, ExchangeOK, delivery, deal, atProvider, messages, loop
  <2>2. /\ UNCHANGED <<contract, terminal, failure, unsent, unknown, funding, envelope, voids>>
        /\ kills' = kills /\ resolutions' = resolutions
    BY <1>4 DEF UploadChanges, delivery, deal, atProvider
  <2> QED
    BY <2>1, <2>2, BystanderStep DEF IInv, TypeOK, ExchangeOK, Excused
<1> QED
  BY <1>1, <1>2, <1>3, <1>4 DEF Clock

LEMMA ProviderStep ==
  ASSUME IInv, Provider
  PROVE  IInv'
<1>1. ASSUME NEW t \in TransactionIds, NEW outcome \in {"completed", "declined"}, SignerActs(t, outcome)
      PROVE  IInv'
  <2>1. TypeOK'
    BY <1>1 DEF SignerActs, IInv, TypeOK, RowsOK, ExchangeOK, EnvelopeStatuses, Outcomes, delivery, deal,
                messages, loop, outside
  <2>2. /\ envelope[t] = "sent" /\ envelope' = [envelope EXCEPT ![t] = outcome]
        /\ UNCHANGED <<contract, terminal, failure, unsent, unknown, funding, voids, resolutions, kills>>
    BY <1>1 DEF SignerActs, delivery, deal, outside
  <2>3. KnownById'
    BY <2>2 DEF IInv, TypeOK, ExchangeOK, KnownById
  <2> QED
    BY <2>1, <2>2, <2>3 DEF IInv, AsksCounted, Askable, Excused, SignatureMovesFunding, GivenUpIsReported
<1>2. ASSUME NEW m \in Messages, receive_provider_webhook(m)
      PROVE  IInv'
  <2>1. Append(queue, m) \in Seq(Messages)
    BY DEF IInv, TypeOK, ExchangeOK
  <2>2. TypeOK'
    BY <1>2, <2>1 DEF receive_provider_webhook, IInv, TypeOK, RowsOK, ExchangeOK, InboxStatuses, delivery,
                      deal, atProvider, loop, outside
  <2>3. /\ UNCHANGED <<contract, terminal, failure, unsent, unknown, funding, envelope, voids>>
        /\ kills' = kills /\ resolutions' = resolutions
    BY <1>2 DEF receive_provider_webhook, delivery, deal, atProvider, outside
  <2> QED
    BY <2>2, <2>3, BystanderStep DEF IInv, TypeOK, ExchangeOK
<1> QED
  BY <1>1, <1>2 DEF Provider

-----------------------------------------------------------------------------
(* Sending.                                                                *)

\* The provider files the request under the contract's own id.
LEMMA AcceptedIsKnown ==
  ASSUME IInv, NEW c \in Contracts, Accepted(c) \/ UNCHANGED envelope
  PROVE  /\ envelope' \in [TransactionIds -> EnvelopeStatuses]
         /\ KnownById'
<1>1. transactionId(c) \in TransactionIds /\ transactionId(c)[2] = 0
  BY OwnId
<1>2. envelope \in [TransactionIds -> EnvelopeStatuses] /\ KnownById
  BY DEF IInv, TypeOK, ExchangeOK
<1>3. CASE UNCHANGED envelope
  BY <1>2, <1>3 DEF KnownById
<1>4. CASE Accepted(c)
  BY <1>1, <1>2, <1>4 DEF Accepted, KnownById, EnvelopeStatuses
<1> QED
  BY <1>3, <1>4

LEMMA SendStep ==
  ASSUME IInv, NEW c \in Contracts, send_pending_contract_envelope(c)
  PROVE  IInv'
<1>1. /\ contract[c] = "DRAFT" /\ c \notin terminal
      /\ attempts' = [attempts EXCEPT ![c] = @ + 1]
      /\ UNCHANGED <<unknown, funding, voids, inbox, queue, readings, ready, requeues, renewal, unreadable, resolutions, kills>>
      /\ step' = "docusign" /\ tick' = tick
  BY DEF send_pending_contract_envelope, NextToSend, Sendable, After, messages, outside
<1>2. attempts' \in [Contracts -> Nat]
  BY <1>1 DEF IInv, TypeOK, RowsOK
<1>3. transactionId(c) \in Messages
  BY OwnId DEF Messages
<1>4. CASE SendVoids(c)
  <2>1. /\ contract' = [contract EXCEPT ![c] = "VOIDED"]
        /\ failure' = [failure EXCEPT ![c] = "none"] \/ UNCHANGED failure
        /\ UNCHANGED <<envelopeId, due, terminal, unsent, application, envelope>>
    BY <1>4 DEF SendVoids
  <2>2. TypeOK'
    BY <1>1, <1>2, <2>1 DEF IInv, TypeOK, RowsOK, ExchangeOK, ContractStatuses, Failures
  <2>3. KnownById'
    BY <2>1 DEF IInv, KnownById
  <2>4. AsksCounted'
    BY <1>1, <2>1 DEF IInv, TypeOK, RowsOK, ExchangeOK, AsksCounted, Askable, Excused
  <2>5. SignatureMovesFunding'
    BY <1>1, <2>1 DEF IInv, TypeOK, RowsOK, SignatureMovesFunding
  <2>6. GivenUpIsReported'
    BY <1>1, <2>1 DEF IInv, TypeOK, RowsOK, GivenUpIsReported
  <2> QED
    BY <2>2, <2>3, <2>4, <2>5, <2>6 DEF IInv
<1>5. CASE SendFails(c)
  <2>1. /\ failure' = [failure EXCEPT ![c] = "provider"]
        /\ IF attempts[c] + 1 >= MaxAttempts
           THEN terminal' = terminal \union {c} /\ unsent' = unsent \union {c} /\ due' = due
           ELSE terminal' = terminal /\ unsent' = unsent /\ due' = due \ {c}
        /\ UNCHANGED <<contract, envelopeId, application>>
        /\ Accepted(c) \/ UNCHANGED envelope
    BY <1>5 DEF SendFails, provider_failed, Exhausted
  <2>2. envelope' \in [TransactionIds -> EnvelopeStatuses] /\ KnownById'
    BY <2>1, AcceptedIsKnown
  <2>3. TypeOK'
    BY <1>1, <1>2, <2>1, <2>2 DEF IInv, TypeOK, RowsOK, ExchangeOK, Failures
  <2>4. AsksCounted' /\ SignatureMovesFunding'
    BY <1>1, <2>1 DEF IInv, AsksCounted, Askable, Excused, SignatureMovesFunding
  <2>5. GivenUpIsReported'
    BY <1>1, <2>1 DEF IInv, TypeOK, RowsOK, GivenUpIsReported
  <2> QED
    BY <2>2, <2>3, <2>4, <2>5 DEF IInv
<1>6. CASE SendRefused(c)
  <2>1. /\ failure' = [failure EXCEPT ![c] = "moneybee"]
        /\ terminal' = terminal \union {c} \/ terminal' = terminal
        /\ due' \subseteq Contracts
        /\ UNCHANGED <<contract, envelopeId, unsent, application>>
        /\ Accepted(c) \/ UNCHANGED envelope
    BY <1>6 DEF SendRefused, provider_failed, IInv, TypeOK, RowsOK
  <2>2. envelope' \in [TransactionIds -> EnvelopeStatuses] /\ KnownById'
    BY <2>1, AcceptedIsKnown
  <2>3. TypeOK'
    BY <1>1, <1>2, <2>1, <2>2 DEF IInv, TypeOK, RowsOK, ExchangeOK, Failures
  <2>4. AsksCounted' /\ SignatureMovesFunding'
    BY <1>1, <2>1 DEF IInv, AsksCounted, Askable, Excused, SignatureMovesFunding
  <2>5. GivenUpIsReported'
    BY <1>1, <2>1 DEF IInv, TypeOK, RowsOK, GivenUpIsReported
  <2> QED
    BY <2>2, <2>3, <2>4, <2>5 DEF IInv
<1>7. CASE SendSucceeds(c)
  <2>1. /\ envelopeId' = [envelopeId EXCEPT ![c] = transactionId(c)]
        /\ contract' = [contract EXCEPT ![c] = "SENT"]
        /\ application' = [application EXCEPT ![c] = "CONTRACT_SENT"]
        /\ failure' = [failure EXCEPT ![c] = "none"]
        /\ UNCHANGED <<due, terminal, unsent>>
        /\ Accepted(c)
    BY <1>7 DEF SendSucceeds
  <2>2. envelope' \in [TransactionIds -> EnvelopeStatuses] /\ KnownById'
    BY <2>1, AcceptedIsKnown
  <2>3. TypeOK'
    BY <1>1, <1>2, <1>3, <2>1, <2>2
    DEF IInv, TypeOK, RowsOK, ExchangeOK, Failures, ContractStatuses, ApplicationStatuses
  <2>4. AsksCounted'
    BY <1>1, <2>1 DEF IInv, TypeOK, RowsOK, AsksCounted, Askable, Excused
  <2>5. SignatureMovesFunding' /\ GivenUpIsReported'
    BY <1>1, <2>1 DEF IInv, TypeOK, RowsOK, SignatureMovesFunding, GivenUpIsReported
  <2> QED
    BY <2>2, <2>3, <2>4, <2>5 DEF IInv
<1> QED
  BY <1>4, <1>5, <1>6, <1>7 DEF send_pending_contract_envelope

LEMMA SendLostStep ==
  ASSUME IInv, NEW c \in Contracts, SendLost(c)
  PROVE  IInv'
<1>1. /\ kills < MaxKills /\ kills' = kills + 1 /\ step' = "envelope" /\ tick' = 0
      /\ UNCHANGED <<contract, envelopeId, attempts, due, terminal, failure, unsent, unknown, application,
                     funding, voids, inbox, queue, readings, ready, requeues, renewal, unreadable, resolutions>>
      /\ Accepted(c)
  BY DEF SendLost, Killed, Restart, delivery, deal, messages, outside
<1>2. envelope' \in [TransactionIds -> EnvelopeStatuses] /\ KnownById'
  BY <1>1, AcceptedIsKnown
<1>3. TypeOK'
  BY <1>1, <1>2, ExchangeAssumption DEF IInv, TypeOK, RowsOK, ExchangeOK
<1>4. AsksCounted'
  BY <1>1, <1>3 DEF IInv, TypeOK, RowsOK, ExchangeOK, AsksCounted, Askable, Excused
<1> QED
  BY <1>1, <1>2, <1>3, <1>4 DEF IInv, SignatureMovesFunding, GivenUpIsReported

-----------------------------------------------------------------------------
(* Reading a message.                                                      *)

LEMMA DocusignStep ==
  ASSUME IInv, NEW m \in Messages, process_pending_docusign_event(m)
  PROVE  IInv'
<1>1. /\ step' = "scan" /\ tick' = tick
      /\ UNCHANGED <<envelopeId, attempts, due, terminal, failure, unsent, unknown, envelope, voids, renewal,
                     unreadable, resolutions, kills, queue, requeues>>
      /\ ready' \subseteq Messages
  BY DEF process_pending_docusign_event, After, delivery, atProvider, MessageIgnored, MessageWithoutContract,
         MessageIllegal, MessageApplied, Read, IInv, TypeOK, ExchangeOK, outside
<1>2. inbox' \in [Messages -> InboxStatuses] /\ readings' \in [Messages -> Nat]
  <2>1. PICK to \in {"IGNORED", "FAILED", "RECEIVED", "PROCESSED"} : Read(m, to)
    BY DEF process_pending_docusign_event, MessageIgnored, MessageWithoutContract, MessageIllegal, MessageApplied
  <2> QED
    BY <2>1 DEF Read, IInv, TypeOK, ExchangeOK, InboxStatuses
<1>3. CASE UNCHANGED <<contract, deal>>
  <2>1. TypeOK'
    BY <1>1, <1>2, <1>3 DEF IInv, TypeOK, RowsOK, ExchangeOK, deal, outside
  <2> QED
    BY <1>1, <1>3, <2>1, BystanderStep DEF IInv, TypeOK, ExchangeOK, deal, outside
<1>4. ASSUME NEW c \in Contracts, MessageApplied(m, c)
      PROVE  IInv'
  <2> DEFINE to == StatusFor[envelope[m]]
  <2>1. MayMove(c, to) /\ contract' = [contract EXCEPT ![c] = to]
    BY <1>4 DEF MessageApplied
  <2>2. to \in ContractStatuses /\ (Askable(c)' => Askable(c))
    BY <1>1, <2>1 DEF MayMove, ContractEdges, IInv, TypeOK, RowsOK, ContractStatuses, Askable
  <2>3. CASE to = "SIGNED" /\ funding[c] = "CONDITIONS_SATISFIED"
    <3>1. /\ funding' = [funding EXCEPT ![c] = "CONTRACT_SIGNED"]
          /\ application' = [application EXCEPT ![c] = "CONTRACT_SIGNED"]
      BY <1>4, <2>3 DEF MessageApplied, FundingFollows
    <3>2. TypeOK'
      BY <1>1, <1>2, <2>1, <2>2, <3>1
      DEF IInv, TypeOK, RowsOK, ExchangeOK, ApplicationStatuses, FundingStatuses
    <3>3. AsksCounted'
      BY <1>1, <2>1, <2>2 DEF IInv, TypeOK, RowsOK, ExchangeOK, AsksCounted, Askable, Excused
    <3>4. SignatureMovesFunding'
      BY <2>1, <3>1 DEF IInv, TypeOK, RowsOK, SignatureMovesFunding
    <3> QED
      BY <1>1, <3>2, <3>3, <3>4 DEF IInv, KnownById, GivenUpIsReported
  <2>4. CASE ~(to = "SIGNED" /\ funding[c] = "CONDITIONS_SATISFIED")
    <3>1. UNCHANGED <<funding, application>>
      BY <1>4, <2>4 DEF MessageApplied, FundingFollows, deal, outside
    <3>2. TypeOK'
      BY <1>1, <1>2, <2>1, <2>2, <3>1 DEF IInv, TypeOK, RowsOK, ExchangeOK
    <3>3. AsksCounted'
      BY <1>1, <2>1, <2>2 DEF IInv, TypeOK, RowsOK, ExchangeOK, AsksCounted, Askable, Excused
    <3>4. SignatureMovesFunding'
      BY <2>1, <2>4, <3>1 DEF IInv, TypeOK, RowsOK, SignatureMovesFunding
    <3> QED
      BY <1>1, <3>2, <3>3, <3>4 DEF IInv, KnownById, GivenUpIsReported
  <2> QED
    BY <2>3, <2>4
<1> QED
  BY <1>3, <1>4 DEF process_pending_docusign_event, MessageIgnored, MessageWithoutContract, MessageIllegal

-----------------------------------------------------------------------------
(* Operators.                                                              *)

\* A request to void leaves the ids alone and is counted.
LEMMA AskedVoid ==
  ASSUME IInv, NEW c \in Contracts, AskVoid(c)
  PROVE  /\ envelope' \in [TransactionIds -> EnvelopeStatuses]
         /\ KnownById'
         /\ voids' \in [Contracts -> Nat]
         /\ voids' = [voids EXCEPT ![c] = @ + 1]
<1>1. /\ voids' = [voids EXCEPT ![c] = @ + 1]
      /\ envelope' = [envelope EXCEPT ![envelopeId[c]] = IF @ = "sent" THEN "voided" ELSE @]
  BY DEF AskVoid
<1>2. envelope' \in [TransactionIds -> EnvelopeStatuses] /\ KnownById'
  BY <1>1 DEF IInv, TypeOK, ExchangeOK, KnownById, EnvelopeStatuses, Outcomes
<1> QED
  BY <1>1, <1>2 DEF IInv, TypeOK, ExchangeOK

\* What a handler that does not ask, or asks for the last time, may do.
LEMMA StillCounted ==
  ASSUME IInv, ExchangeOK', Excused <= Excused',
         \A d \in Contracts :
           \/ voids'[d] <= voids[d] /\ (Askable(d)' => Askable(d))
           \/ voids'[d] <= Excused'
           \/ ~Askable(d)' /\ voids'[d] <= 1 + Excused'
  PROVE  AsksCounted'
<1> SUFFICES ASSUME NEW d \in Contracts
             PROVE  voids'[d] <= IF Askable(d)' THEN Excused' ELSE 1 + Excused'
  BY DEF AsksCounted
<1>0. voids[d] \in Nat /\ voids'[d] \in Nat
  BY DEF IInv, TypeOK, ExchangeOK
<1>1. Excused \in Nat /\ Excused' \in Nat
  <2>1. kills \in Nat /\ kills' \in Nat /\ resolutions \in Nat /\ resolutions' \in Nat
    BY ExchangeAssumption DEF IInv, TypeOK, ExchangeOK
  <2> QED
    BY <2>1, SumIsNat DEF Excused
<1>2. voids[d] <= IF Askable(d) THEN Excused ELSE 1 + Excused
  BY DEF IInv, AsksCounted
<1> QED
  BY <1>0, <1>1, <1>2

\* What voiding before the contract is voided or the funding declined does.
LEMMA SettledVoid ==
  ASSUME IInv, NEW c \in Contracts, VoidSettled(c),
         UNCHANGED <<unreadable, resolutions, kills, inbox, queue, readings, ready, requeues, step, tick>>
  PROVE  /\ envelopeId' = envelopeId /\ attempts' \in [Contracts -> Nat] /\ due' \subseteq Contracts
         /\ terminal' \subseteq Contracts /\ failure' \in [Contracts -> Failures] /\ unsent' = unsent
         /\ unknown' \in [Contracts -> Unknowns]
         /\ ExchangeOK' /\ KnownById' /\ GivenUpIsReported'
         /\ \A d \in Contracts : unknown'[d] = unknown[d] \/ d = c
         /\ \A d \in Contracts : voids'[d] <= voids[d] \/ (d = c /\ voids'[d] <= 1 + Excused)
<1>1. CASE contract[c] # "SENT"
  <2>1. UNCHANGED <<envelopeId, attempts, due, terminal, failure, unsent, unknown, envelope, voids>>
    BY <1>1 DEF VoidSettled, delivery, atProvider, outside
  <2> QED
    BY <2>1 DEF IInv, TypeOK, RowsOK, ExchangeOK, KnownById, GivenUpIsReported
<1>2. CASE contract[c] = "SENT"
  <2>1. /\ IF MayAsk(c) THEN AskVoid(c) ELSE ReadBack(c)
        /\ Cleared(c)
        /\ unknown' = [unknown EXCEPT ![c] = IF @ = "OPEN" THEN "RESOLVED" ELSE @]
        /\ UNCHANGED <<envelopeId, unsent>>
    BY <1>2 DEF VoidSettled, VoidConfirmed
  <2>2. /\ attempts' \in [Contracts -> Nat] /\ due' \subseteq Contracts
        /\ terminal' \subseteq Contracts /\ failure' \in [Contracts -> Failures]
        /\ terminal' = terminal \ {c} /\ failure' = [failure EXCEPT ![c] = "none"]
    BY <2>1 DEF Cleared, IInv, TypeOK, RowsOK, Failures
  <2>3. GivenUpIsReported'
    BY <2>1, <2>2 DEF IInv, TypeOK, RowsOK, GivenUpIsReported
  <2>4. /\ envelope' \in [TransactionIds -> EnvelopeStatuses] /\ KnownById' /\ voids' \in [Contracts -> Nat]
        /\ \A d \in Contracts : voids'[d] <= voids[d] \/ (d = c /\ voids'[d] <= 1 + Excused)
    <3>1. CASE MayAsk(c)
      <4>1. voids' = [voids EXCEPT ![c] = @ + 1] /\ voids[c] <= Excused
        BY <1>2, <2>1, <3>1, AskedVoid DEF IInv, AsksCounted, Askable, MayAsk
      <4> QED
        BY <2>1, <3>1, <4>1, AskedVoid DEF IInv, TypeOK, ExchangeOK, Excused
    <3>2. CASE ~MayAsk(c)
      BY <2>1, <3>2 DEF ReadBack, IInv, TypeOK, ExchangeOK, KnownById
    <3> QED
      BY <3>1, <3>2
  <2>5. unknown' \in [Contracts -> Unknowns] /\ \A d \in Contracts : unknown'[d] = unknown[d] \/ d = c
    BY <2>1 DEF IInv, TypeOK, RowsOK, Unknowns
  <2> QED
    BY <2>1, <2>2, <2>3, <2>4, <2>5 DEF IInv, TypeOK, ExchangeOK
<1> QED
  BY <1>1, <1>2

LEMMA VoidContractStep ==
  ASSUME IInv, NEW c \in Contracts, void_contract(c)
  PROVE  IInv'
<1>1. /\ contract' = [contract EXCEPT ![c] = "VOIDED"]
      /\ VoidSettled(c)
      /\ UNCHANGED <<application, funding, inbox, queue, readings, ready, requeues, step, tick, renewal, unreadable, resolutions, kills>>
  BY DEF void_contract, deal, messages, loop, outside
<1>2. TypeOK' /\ KnownById' /\ GivenUpIsReported'
  BY <1>1, SettledVoid DEF IInv, TypeOK, RowsOK, ContractStatuses
<1>3. AsksCounted'
  <2>1. ASSUME NEW d \in Contracts
        PROVE  \/ voids'[d] <= voids[d] /\ (Askable(d)' => Askable(d))
               \/ ~Askable(d)' /\ voids'[d] <= 1 + Excused'
    <3>1. CASE d = c
      <4>1. ~Askable(d)'
        BY <1>1, <3>1 DEF IInv, TypeOK, RowsOK, Askable, ContractStatuses
      <4>2. voids'[d] <= voids[d] \/ voids'[d] <= 1 + Excused
        BY <1>1, <3>1, SettledVoid
      <4>3. voids[d] \in Nat /\ voids'[d] \in Nat /\ Excused \in Nat /\ voids[d] <= 1 + Excused
        BY <1>2, ExchangeAssumption DEF IInv, TypeOK, ExchangeOK, AsksCounted, Excused
      <4>4. Excused' = Excused
        BY <1>1 DEF Excused
      <4> QED
        BY <3>1, <4>1, <4>2, <4>3, <4>4
    <3>2. CASE d # c
      BY <1>1, <3>2, SettledVoid DEF IInv, TypeOK, RowsOK, Askable
    <3> QED
      BY <3>1, <3>2
  <2>2. Excused' = Excused /\ Excused <= Excused'
    BY <1>1 DEF IInv, TypeOK, ExchangeOK, Excused
  <2> QED
    BY <1>2, <2>1, <2>2, StillCounted DEF TypeOK
<1>4. SignatureMovesFunding'
  BY <1>1 DEF IInv, TypeOK, RowsOK, SignatureMovesFunding
<1> QED
  BY <1>2, <1>3, <1>4 DEF IInv

LEMMA DeclineFundingStep ==
  ASSUME IInv, NEW c \in Contracts, decline_funding(c)
  PROVE  IInv'
<1>1. /\ contract' = [contract EXCEPT ![c] = IF @ \in {"DRAFT", "SENT"} THEN "VOIDED" ELSE @]
      /\ funding' = [funding EXCEPT ![c] = "DECLINED"]
      /\ application' = [application EXCEPT ![c] = "DECLINED"]
      /\ VoidSettled(c)
      /\ UNCHANGED <<inbox, queue, readings, ready, requeues, step, tick, renewal, unreadable, resolutions, kills>>
  BY DEF decline_funding, messages, loop, outside
<1>2. TypeOK' /\ KnownById' /\ GivenUpIsReported'
  BY <1>1, SettledVoid DEF IInv, TypeOK, RowsOK, ContractStatuses, ApplicationStatuses, FundingStatuses
<1>3. AsksCounted'
  <2>1. ASSUME NEW d \in Contracts
        PROVE  \/ voids'[d] <= voids[d] /\ (Askable(d)' => Askable(d))
               \/ ~Askable(d)' /\ voids'[d] <= 1 + Excused'
    <3>1. CASE d = c
      <4>1. ~Askable(d)'
        BY <1>1, <3>1 DEF IInv, TypeOK, RowsOK, Askable, ContractStatuses
      <4>2. voids'[d] <= voids[d] \/ voids'[d] <= 1 + Excused
        BY <1>1, <3>1, SettledVoid
      <4>3. voids[d] \in Nat /\ voids'[d] \in Nat /\ Excused \in Nat /\ voids[d] <= 1 + Excused
        BY <1>2, ExchangeAssumption DEF IInv, TypeOK, ExchangeOK, AsksCounted, Excused
      <4>4. Excused' = Excused
        BY <1>1 DEF Excused
      <4> QED
        BY <3>1, <4>1, <4>2, <4>3, <4>4
    <3>2. CASE d # c
      BY <1>1, <3>2, SettledVoid DEF IInv, TypeOK, RowsOK, Askable
    <3> QED
      BY <3>1, <3>2
  <2>2. Excused' = Excused /\ Excused <= Excused'
    BY <1>1 DEF IInv, TypeOK, ExchangeOK, Excused
  <2> QED
    BY <1>2, <2>1, <2>2, StillCounted DEF TypeOK
<1>4. SignatureMovesFunding'
  BY <1>1 DEF IInv, TypeOK, RowsOK, SignatureMovesFunding
<1> QED
  BY <1>2, <1>3, <1>4 DEF IInv

LEMMA VoidRefusedStep ==
  ASSUME IInv, NEW c \in Contracts, void_refused(c)
  PROVE  IInv'
<1>1. /\ contract[c] = "SENT" /\ VoidUnknown(c)
      /\ UNCHANGED <<contract, envelopeId, unsent, application, funding, inbox, queue, readings, ready, requeues,
                     step, tick, renewal, unreadable, resolutions, kills>>
  BY DEF void_refused, deal, messages, loop, outside
<1>2. /\ unknown' = [unknown EXCEPT ![c] = "OPEN"]
      /\ failure' = [failure EXCEPT ![c] = "void"]
      /\ terminal' = terminal \union {c}
      /\ due' = due \union {c}
  BY <1>1 DEF VoidUnknown
<1>3. /\ attempts' \in [Contracts -> Nat] /\ voids' \in [Contracts -> Nat]
      /\ \A d \in Contracts : voids'[d] <= voids[d] \/ (d = c /\ voids'[d] <= 1 + Excused)
  <2>1. CASE MayAsk(c)
    <3>1. voids[c] <= Excused
      BY <1>1, <2>1 DEF IInv, AsksCounted, Askable, MayAsk
    <3>2. attempts' = [attempts EXCEPT ![c] = @ + 1] /\ voids' = [voids EXCEPT ![c] = @ + 1]
      BY <1>1, <2>1 DEF VoidUnknown
    <3> QED
      BY <3>1, <3>2 DEF IInv, TypeOK, RowsOK, ExchangeOK, Excused
  <2>2. CASE ~MayAsk(c)
    BY <1>1, <2>2 DEF VoidUnknown, ReadBack, IInv, TypeOK, RowsOK, ExchangeOK
  <2> QED
    BY <2>1, <2>2
<1>4. envelope' \in [TransactionIds -> EnvelopeStatuses] /\ KnownById'
  <2>1. \/ envelope' = envelope
        \/ /\ envelope[envelopeId[c]] = "sent"
           /\ envelope' = [envelope EXCEPT ![envelopeId[c]] = "voided"]
    BY <1>1 DEF VoidUnknown, ReadBack
  <2> QED
    BY <2>1 DEF IInv, TypeOK, ExchangeOK, KnownById, EnvelopeStatuses, Outcomes
<1>5. TypeOK'
  BY <1>1, <1>2, <1>3, <1>4 DEF IInv, TypeOK, RowsOK, ExchangeOK, Failures, Unknowns
<1>6. AsksCounted'
  <2>1. ASSUME NEW d \in Contracts
        PROVE  \/ voids'[d] <= voids[d] /\ (Askable(d)' => Askable(d))
               \/ ~Askable(d)' /\ voids'[d] <= 1 + Excused'
    <3>1. CASE d = c
      <4>1. ~Askable(d)'
        BY <1>2, <3>1 DEF IInv, TypeOK, RowsOK, Askable
      <4>2. voids[d] \in Nat /\ voids'[d] \in Nat /\ Excused \in Nat /\ voids[d] <= 1 + Excused
        BY <1>5, ExchangeAssumption DEF IInv, TypeOK, ExchangeOK, AsksCounted, Excused
      <4>3. Excused' = Excused
        BY <1>1 DEF Excused
      <4> QED
        BY <1>3, <3>1, <4>1, <4>2, <4>3
    <3>2. CASE d # c
      BY <1>1, <1>2, <1>3, <3>2 DEF IInv, TypeOK, RowsOK, Askable
    <3> QED
      BY <3>1, <3>2
  <2>2. Excused' = Excused /\ Excused <= Excused'
    BY <1>1 DEF IInv, TypeOK, ExchangeOK, Excused
  <2> QED
    BY <1>5, <2>1, <2>2, StillCounted DEF TypeOK
<1>7. GivenUpIsReported'
  BY <1>1, <1>2 DEF IInv, TypeOK, RowsOK, GivenUpIsReported
<1> QED
  BY <1>1, <1>4, <1>5, <1>6, <1>7 DEF IInv, SignatureMovesFunding

LEMMA VoidLostStep ==
  ASSUME IInv, NEW c \in Contracts, VoidLost(c)
  PROVE  IInv'
<1>1. /\ kills < MaxKills /\ kills' = kills + 1 /\ contract[c] = "SENT" /\ MayAsk(c) /\ AskVoid(c)
      /\ UNCHANGED <<contract, envelopeId, attempts, due, terminal, failure, unsent, unknown, application,
                     funding, inbox, queue, readings, ready, requeues, step, tick, renewal, unreadable,
                     resolutions>>
  BY DEF VoidLost, Killed, delivery, deal, messages, loop, outside
<1>2. TypeOK' /\ KnownById'
  <2>1. /\ envelope' \in [TransactionIds -> EnvelopeStatuses] /\ voids' \in [Contracts -> Nat]
        /\ KnownById'
    BY <1>1, AskedVoid
  <2>2. kills' \in 0 .. MaxKills
    BY <1>1, ExchangeAssumption DEF IInv, TypeOK, ExchangeOK
  <2> QED
    BY <1>1, <2>1, <2>2 DEF IInv, TypeOK, RowsOK, ExchangeOK
<1>3. AsksCounted'
  <2>1. voids' = [voids EXCEPT ![c] = @ + 1] /\ voids[c] <= Excused
    BY <1>1, AskedVoid DEF IInv, AsksCounted, Askable, MayAsk
  <2>2. Excused \in Nat /\ Excused' = Excused + 1
    BY <1>1, ExchangeAssumption DEF IInv, TypeOK, ExchangeOK, Excused
  <2>3. ASSUME NEW d \in Contracts
        PROVE  \/ voids'[d] <= voids[d] /\ (Askable(d)' => Askable(d))
               \/ voids'[d] <= Excused'
    BY <1>1, <2>1, <2>2 DEF IInv, TypeOK, ExchangeOK, Askable
  <2> QED
    BY <1>2, <2>2, <2>3, StillCounted DEF TypeOK
<1> QED
  BY <1>1, <1>2, <1>3 DEF IInv, SignatureMovesFunding, GivenUpIsReported

\* Who closes the exception by hand lets the provider be asked once more.
LEMMA ResolveStep ==
  ASSUME IInv, NEW c \in Contracts, resolve_operational_exception(c)
  PROVE  IInv'
<1>1. /\ unknown[c] = "OPEN" /\ unknown' = [unknown EXCEPT ![c] = "RESOLVED"]
      /\ resolutions < MaxResolutions /\ resolutions' = resolutions + 1
      /\ UNCHANGED <<contract, envelopeId, attempts, due, terminal, failure, unsent, application, funding,
                     envelope, voids, inbox, queue, readings, ready, requeues, step, tick, renewal, unreadable,
                     kills>>
  BY DEF resolve_operational_exception, delivery, deal, atProvider, messages, loop
<1>2. TypeOK'
  BY <1>1, ExchangeAssumption DEF IInv, TypeOK, RowsOK, ExchangeOK, Unknowns
<1>3. AsksCounted'
  <2>1. Excused' = Excused + 1 /\ Excused \in Nat /\ voids \in [Contracts -> Nat]
    BY <1>1, ExchangeAssumption DEF IInv, TypeOK, ExchangeOK, Excused
  <2>2. ASSUME NEW d \in Contracts
        PROVE  voids[d] <= 1 + Excused /\ (Askable(d) => voids[d] <= Excused)
    BY <2>1 DEF IInv, AsksCounted
  <2> QED
    BY <1>1, <2>1, <2>2 DEF AsksCounted
<1> QED
  BY <1>1, <1>2, <1>3 DEF IInv, KnownById, SignatureMovesFunding, GivenUpIsReported

LEMMA OperatorStep ==
  ASSUME IInv, Operators
  PROVE  IInv'
<1>1. ASSUME NEW m \in Messages, requeue_webhook_receipt(m)
      PROVE  IInv'
  <2>1. TypeOK'
    BY <1>1, ExchangeAssumption
    DEF requeue_webhook_receipt, IInv, TypeOK, RowsOK, ExchangeOK, InboxStatuses, delivery, deal, atProvider, loop, outside
  <2>2. /\ UNCHANGED <<contract, terminal, failure, unsent, unknown, funding, envelope, voids>>
        /\ kills' = kills /\ resolutions' = resolutions
    BY <1>1 DEF requeue_webhook_receipt, delivery, deal, atProvider, outside
  <2> QED
    BY <2>1, <2>2, BystanderStep DEF IInv, TypeOK, ExchangeOK
<1>2. ASSUME NEW c \in Contracts, create_underwriting_review(c) \/ create_submission_offer(c)
      PROVE  IInv'
  <2>1. PICK to \in {"DECLINED", "OFFERS_AVAILABLE"} : Reviewed(c, to)
    BY <1>2 DEF create_underwriting_review, create_submission_offer
  <2>2. TypeOK'
    BY <2>1 DEF Reviewed, IInv, TypeOK, RowsOK, ExchangeOK, ApplicationStatuses, delivery, atProvider, messages, loop, outside
  <2>3. /\ UNCHANGED <<contract, terminal, failure, unsent, unknown, funding, envelope, voids>>
        /\ kills' = kills /\ resolutions' = resolutions
    BY <2>1 DEF Reviewed, delivery, atProvider, outside
  <2> QED
    BY <2>2, <2>3, BystanderStep DEF IInv, TypeOK, ExchangeOK
<1>3. ASSUME NEW c \in Contracts, NEW to \in RENEWAL_STATUSES, update_renewal_status(c, to)
      PROVE  IInv'
  <2>1. TypeOK'
    BY <1>3 DEF update_renewal_status, IInv, TypeOK, RowsOK, ExchangeOK, delivery, deal, atProvider, messages, loop, outside
  <2>2. /\ UNCHANGED <<contract, terminal, failure, unsent, unknown, funding, envelope, voids>>
        /\ kills' = kills /\ resolutions' = resolutions
    BY <1>3 DEF update_renewal_status, delivery, deal, atProvider, outside
  <2> QED
    BY <2>1, <2>2, BystanderStep DEF IInv, TypeOK, ExchangeOK
<1> QED
  BY <1>1, <1>2, <1>3, VoidContractStep, VoidRefusedStep, VoidLostStep, ResolveStep, DeclineFundingStep
  DEF Operators

LEMMA IInvStep == IInv /\ [Next]_vars => IInv'
<1> SUFFICES ASSUME IInv, [Next]_vars PROVE IInv'
  OBVIOUS
<1>1. CASE Worker
  BY <1>1, LoopStep, SendStep, SendLostStep, DocusignStep DEF Worker
<1>2. CASE UNCHANGED vars
  <2>1. TypeOK'
    BY <1>2 DEF vars, IInv, TypeOK, RowsOK, ExchangeOK, delivery, deal, atProvider, messages, loop, outside
  <2> QED
    BY <1>2, <2>1, BystanderStep DEF vars, delivery, deal, atProvider, IInv, TypeOK, ExchangeOK, outside
<1> QED
  BY <1>1, <1>2, ClockStep, ProviderStep, OperatorStep DEF Next

-----------------------------------------------------------------------------
(* What follows.                                                           *)

LEMMA Inductive == Spec => []IInv
BY IInvInit, IInvStep, PTL DEF Spec

\* The tables, the provider and the loop only hold what their columns and
\* bounds allow.
THEOREM TypeCorrect == Spec => []TypeOK
BY Inductive, PTL DEF IInv

\* send_pending_contract_envelope sends the contract's own id with every
\* attempt: a lost answer or a killed worker never leaves a second envelope.
THEOREM SentOnce == Spec => []OneEnvelope
<1>1. IInv => OneEnvelope
  BY SameId DEF IInv, KnownById, OneEnvelope
<1> QED
  BY <1>1, Inductive, PTL

\* ensure_provider_void_confirmed asks the provider at most once per contract,
\* once more for every handler that was killed with the request on its way, and
\* once more for every exception an operator closed by hand.
THEOREM AskedOnce == Spec => []VoidAskedOnce
<1>1. IInv => VoidAskedOnce
  BY ExchangeAssumption DEF IInv, TypeOK, ExchangeOK, AsksCounted, Excused, VoidAskedOnce
<1> QED
  BY <1>1, Inductive, PTL

\* process_pending_docusign_event moves contract and funding together.
THEOREM SignatureNotLost == Spec => []SignatureMovesFunding
BY Inductive, PTL DEF IInv

\* _provider_failed and the exception for the operators go together.
THEOREM RefusalReported == Spec => []GivenUpIsReported
BY Inductive, PTL DEF IInv
=============================================================================
