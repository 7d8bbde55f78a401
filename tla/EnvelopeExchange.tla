--------------------------- MODULE EnvelopeExchange ---------------------------
(***************************************************************************)
(* The worker's loop and the e-sign provider: drafted contracts are sent   *)
(* as envelopes, the provider reports what became of them through webhooks,*)
(* the loop applies the reports, an operator voids contracts, resolves the *)
(* exception of a void nobody knows the outcome of, and requeues messages. *)
(*                                                                         *)
(* worker.run is one process.  Its steps follow each other in a fixed      *)
(* order; a step that raises, or a kill, ends the process, and the restart *)
(* begins with the first step and a renewal counter of zero.  A step holds *)
(* the row locks of what it changes, so it is one action; the calls to the *)
(* provider are inside it, so a kill can leave the provider changed and    *)
(* the database not (SendLost, VoidLost).  The outbox and the scanner are  *)
(* modules of their own (OutboxDelivery, DocumentPipeline).  The outbox    *)
(* catches what its step raises and passes here; of the scanner only this  *)
(* is kept: whether its step raises, as it does while the body of the next *)
(* upload breaks off.                                                      *)
(***************************************************************************)
EXTENDS Naturals, Sequences, FiniteSets, SequencesExt

CONSTANTS NContracts,   \* contracts, numbered in the order of created_at
          Behind,       \* those whose application a stale offer may set back
          MaxAttempts,  \* attempts on a contract or a message: 8 in the code
          RenewalTicks, \* rounds of the loop per renewal scan: 30 in the code
          MaxKills,     \* bound: how often the worker or a handler is killed
          MaxRequeues,  \* bound: requeues of messages
          MaxResolutions, \* bound: exceptions operators resolve by hand
          Junk,         \* a message without a known envelope or status
          Malformed     \* messages whose data or envelopeSummary is no object

Contracts == 1 .. NContracts

ASSUME ExchangeAssumption ==
  /\ NContracts \in Nat \ {0}
  /\ Behind \subseteq Contracts
  /\ MaxAttempts \in Nat \ {0}
  /\ RenewalTicks \in Nat \ {0}
  /\ MaxKills \in Nat
  /\ MaxRequeues \in Nat
  /\ MaxResolutions \in Nat

\* The provider files an envelope under the transactionId of the request.
TransactionIds == Contracts \X (0 .. MaxAttempts - 1)
Messages == TransactionIds \union {Junk} \union Malformed

ASSUME MessageAssumption ==
  /\ Junk \notin TransactionIds \union Malformed
  /\ Malformed \intersect TransactionIds = {}

VARIABLES
  contract,    \* contracts.status
  envelopeId,  \* contracts.external_envelope_id, as a transaction id, or Junk for null
  attempts,    \* contracts.provider_attempt_count
  due,         \* contracts whose provider_next_attempt_at is null or has passed
  terminal,    \* contracts with provider_terminal_at
  failure,     \* contracts.provider_last_error: "none", the "provider" or "moneybee" itself
  unsent,      \* contracts with an operational exception for a failed delivery
  unknown,     \* status of the exception CONTRACT_VOID_OUTCOME_UNKNOWN, or "NONE"
  application, \* applications.status
  funding,     \* fundings.status
  envelope,    \* at the provider: what became of the request with that id
  voids,       \* at the provider: requests to void, per contract
  inbox,       \* integration_inbox.status, "NONE" before the row exists
  queue,       \* inbox messages in the order of created_at
  readings,    \* integration_inbox.attempts
  ready,       \* messages whose next_attempt_at is null or has passed
  requeues,    \* how often an operator requeued a message
  step,        \* where the loop is
  tick,        \* renewal_tick
  renewal,     \* renewal_opportunities.status, "NONE" before the row exists
  unreadable,  \* the body of the next upload to be scanned breaks off
  resolutions, \* how often an operator resolved an exception by hand
  kills        \* how often the process or a handler was killed

atProvider == <<envelope, voids>>
delivery == <<envelopeId, attempts, due, terminal, failure, unsent>>
deal == <<application, funding>>
messages == <<inbox, queue, readings, ready, requeues>>
loop == <<step, tick>>
outside == <<unreadable, resolutions>>
vars == <<contract, delivery, unknown, deal, atProvider, messages, loop, renewal, outside, kills>>

Outcomes == {"completed", "declined", "voided"}
Dead == {"DECLINED", "CANCELLED", "EXPIRED", "WITHDRAWN"}

\* CONTRACT_TRANSITIONS; no operation here sets EXPIRED.
ContractEdges ==
  [DRAFT |-> {"SENT", "VOIDED"}, SENT |-> {"SIGNED", "DECLINED", "VOIDED"},
   SIGNED |-> {}, DECLINED |-> {}, VOIDED |-> {}]

\* transition_contract does not raise.
MayMove(c, to) == to = contract[c] \/ to \in ContractEdges[contract[c]]

Init ==
  /\ contract = [c \in Contracts |-> "DRAFT"]
  /\ envelopeId = [c \in Contracts |-> Junk]
  /\ attempts = [c \in Contracts |-> 0]
  /\ due = Contracts
  /\ terminal = {}
  /\ failure = [c \in Contracts |-> "none"]
  /\ unsent = {}
  /\ unknown = [c \in Contracts |-> "NONE"]
  /\ application = [c \in Contracts |-> "CONDITIONS_COMPLETE"]
  /\ funding = [c \in Contracts |-> "CONDITIONS_SATISFIED"]
  /\ envelope = [t \in TransactionIds |-> "none"]
  /\ voids = [c \in Contracts |-> 0]
  /\ inbox = [m \in Messages |-> "NONE"]
  /\ queue = <<>>
  /\ readings = [m \in Messages |-> 0]
  /\ ready = Messages
  /\ requeues = 0
  /\ step = "envelope"
  /\ tick = 0
  /\ renewal = [c \in Contracts |-> "NONE"]
  /\ unreadable = FALSE
  /\ resolutions = 0
  /\ kills = 0

-----------------------------------------------------------------------------
(* The loop.                                                               *)

After(s) == step = s[1] /\ step' = s[2] /\ UNCHANGED tick

\* The process ends; the container starts it again at the top of run().
Restart == step' = "envelope" /\ tick' = 0

Killed == kills < MaxKills /\ kills' = kills + 1

Kill ==
  /\ Killed
  /\ Restart
  /\ UNCHANGED <<contract, delivery, unknown, deal, atProvider, messages, renewal, outside>>

scan_pending_document ==
  /\ After(<<"scan", "renewal">>)
  /\ ~unreadable
  /\ UNCHANGED <<contract, delivery, unknown, deal, atProvider, messages, renewal, outside, kills>>

\* The body is read outside the try of get_private: the error is no
\* ProviderError, the backoff of the upload rolls back with the rest, and the
\* next round takes the same upload.
ScanRaises ==
  /\ step = "scan"
  /\ unreadable
  /\ Restart
  /\ UNCHANGED <<contract, delivery, unknown, deal, atProvider, messages, renewal, outside, kills>>

\* Another upload is next, or the store finds its bytes again.
UploadChanges ==
  /\ unreadable' = ~unreadable
  /\ UNCHANGED <<contract, delivery, unknown, deal, atProvider, messages, loop, renewal, resolutions, kills>>

\* An opportunity for every funding confirmed 90 days ago that has none.
evaluate_renewal_eligibility ==
  renewal' = [c \in Contracts |->
    IF funding[c] = "FUNDED" /\ renewal[c] = "NONE" THEN "PENDING" ELSE renewal[c]]

\* Mutant: the counter starts again with every round.
end_round_from_zero ==
  /\ tick' = 0
  /\ IF tick + 1 < RenewalTicks THEN UNCHANGED renewal ELSE evaluate_renewal_eligibility

\* Every RenewalTicks-th round scans for renewals.
end_round ==
  IF tick + 1 < RenewalTicks
  THEN tick' = tick + 1 /\ UNCHANGED renewal
  ELSE tick' = 0 /\ evaluate_renewal_eligibility

evaluate_pending_renewals ==
  /\ step = "renewal"
  /\ step' = "envelope"
  /\ end_round
  /\ UNCHANGED <<contract, delivery, unknown, deal, atProvider, messages, outside, kills>>

RENEWAL_STATUSES == {"PENDING", "CONTACTED", "CONVERTED", "DECLINED", "EXPIRED"}

RENEWAL_STATUS_TRANSITIONS ==
  [NONE |-> {}, PENDING |-> {"CONTACTED", "DECLINED", "EXPIRED"},
   CONTACTED |-> {"CONVERTED", "DECLINED", "EXPIRED"},
   CONVERTED |-> {}, DECLINED |-> {}, EXPIRED |-> {}]

\* transition_renewal_status does not raise.
renewal_legal(c, to) == to \in RENEWAL_STATUS_TRANSITIONS[renewal[c]]

update_renewal_status(c, to) ==
  /\ renewal_legal(c, to)
  /\ renewal' = [renewal EXCEPT ![c] = to]
  /\ UNCHANGED <<contract, delivery, unknown, deal, atProvider, messages, loop, outside, kills>>

-----------------------------------------------------------------------------
(* Sending the envelope of a drafted contract.                             *)

Sendable(c) == contract[c] = "DRAFT" /\ c \notin terminal /\ c \in due

Deliverable(c) == application[c] \in {"CONDITIONS_COMPLETE", "CONTRACT_READY"}

\* The row send_pending_contract_envelope selects.
NextToSend(c) == Sendable(c) /\ \A d \in 1 .. (c - 1) : ~Sendable(d)

\* Mutant: a new id with every attempt.
transactionId_of_attempt(c) == <<c, attempts[c]>>

\* The id under which the provider recognises a repeated request.
transactionId(c) == <<c, 0>>

\* The provider has accepted the request, now or with an earlier attempt.
Accepted(c) ==
  LET t == transactionId(c) IN
  envelope' = IF envelope[t] = "none" THEN [envelope EXCEPT ![t] = "sent"] ELSE envelope

\* _provider_failed after _lease_provider_item: back off, or give up for good.
provider_failed(c, who) ==
  /\ failure' = [failure EXCEPT ![c] = who]
  /\ IF attempts[c] + 1 >= MaxAttempts
     THEN terminal' = terminal \union {c} /\ UNCHANGED due
     ELSE due' = due \ {c} /\ UNCHANGED terminal

\* Mutant: a contract given up is nobody's business.
exhausted_silently(c) == unsent' = unsent

\* The operational exception of a delivery the provider refused too often.
Exhausted(c) ==
  unsent' = IF attempts[c] + 1 >= MaxAttempts THEN unsent \union {c} ELSE unsent

\* Nobody can be asked to sign: the application is dead, or no owner has an
\* e-mail address.
SendVoids(c) ==
  /\ contract' = [contract EXCEPT ![c] = "VOIDED"]
  /\ \/ application[c] \in Dead /\ failure' = [failure EXCEPT ![c] = "none"]
     \/ Deliverable(c) /\ UNCHANGED failure
  /\ UNCHANGED <<envelopeId, due, terminal, unsent, application, envelope>>

\* The provider refuses, or its answer is lost.
SendFails(c) ==
  /\ Deliverable(c)
  /\ provider_failed(c, "provider")
  /\ Exhausted(c)
  /\ Accepted(c) \/ UNCHANGED envelope
  /\ UNCHANGED <<contract, envelopeId, application>>

\* The application is not ready, or the answer has no envelope id: no exception
\* is opened, whatever the count of attempts.
SendRefused(c) ==
  /\ \/ application[c] \notin Dead /\ ~Deliverable(c) /\ UNCHANGED envelope
     \/ Deliverable(c) /\ Accepted(c)
  /\ provider_failed(c, "moneybee")
  /\ UNCHANGED <<contract, envelopeId, unsent, application>>

SendSucceeds(c) ==
  /\ Deliverable(c)
  /\ Accepted(c)
  /\ envelopeId' = [envelopeId EXCEPT ![c] = transactionId(c)]
  /\ contract' = [contract EXCEPT ![c] = "SENT"]
  /\ application' = [application EXCEPT ![c] = "CONTRACT_SENT"]
  /\ failure' = [failure EXCEPT ![c] = "none"]
  /\ UNCHANGED <<due, terminal, unsent>>

send_pending_contract_envelope(c) ==
  /\ After(<<"envelope", "docusign">>)
  /\ NextToSend(c)
  /\ attempts' = [attempts EXCEPT ![c] = @ + 1]
  /\ SendVoids(c) \/ SendFails(c) \/ SendRefused(c) \/ SendSucceeds(c)
  /\ UNCHANGED <<unknown, funding, voids, messages, renewal, outside, kills>>

NothingToSend ==
  /\ After(<<"envelope", "docusign">>)
  /\ \A c \in Contracts : ~Sendable(c)
  /\ UNCHANGED <<contract, delivery, unknown, deal, atProvider, messages, renewal, outside, kills>>

\* Killed between the provider's answer and the commit.
SendLost(c) ==
  /\ step = "envelope"
  /\ Killed
  /\ NextToSend(c)
  /\ Deliverable(c)
  /\ Accepted(c)
  /\ Restart
  /\ UNCHANGED <<contract, delivery, unknown, deal, voids, messages, renewal, outside>>

BackoffEnds(c) ==
  /\ c \notin due
  /\ due' = due \union {c}
  /\ UNCHANGED <<contract, envelopeId, attempts, terminal, failure, unsent, unknown,
                 deal, atProvider, messages, loop, renewal, outside, kills>>

-----------------------------------------------------------------------------
(* The provider, its webhooks and the inbox.                               *)

\* The signer completes or declines the envelope.
SignerActs(t, outcome) ==
  /\ envelope[t] = "sent"
  /\ envelope' = [envelope EXCEPT ![t] = outcome]
  /\ UNCHANGED <<contract, delivery, unknown, deal, voids, messages, loop, renewal, outside, kills>>

\* receive_provider_webhook: receipt and inbox message, one transaction, once
\* per event id (the race of two deliveries is in RequestKeys).
receive_provider_webhook(m) ==
  /\ m \in TransactionIds => envelope[m] \in Outcomes
  /\ inbox[m] = "NONE"
  /\ inbox' = [inbox EXCEPT ![m] = "RECEIVED"]
  /\ queue' = Append(queue, m)
  /\ UNCHANGED <<contract, delivery, unknown, deal, atProvider, readings, ready,
                 requeues, loop, renewal, outside, kills>>

\* An operator has a message read again, whatever became of it.  attempts and
\* next_attempt_at stay.
requeue_webhook_receipt(m) ==
  /\ inbox[m] # "NONE"
  /\ requeues < MaxRequeues
  /\ requeues' = requeues + 1
  /\ inbox' = [inbox EXCEPT ![m] = "RECEIVED"]
  /\ UNCHANGED <<contract, delivery, unknown, deal, atProvider, queue, readings, ready,
                 loop, renewal, outside, kills>>

Readable(m) == inbox[m] = "RECEIVED" /\ m \in ready

\* The oldest message that may be read.
NextMessage(m) ==
  \E i \in DOMAIN queue :
    /\ queue[i] = m
    /\ Readable(m)
    /\ \A j \in 1 .. (i - 1) : ~Readable(queue[j])

\* DOCUSIGN_STATUS_TO_CONTRACT_STATUS
StatusFor == [completed |-> "SIGNED", declined |-> "DECLINED", voided |-> "VOIDED"]

HasContract(m, c) == m \in TransactionIds /\ envelopeId[c] = m

\* transition_funding raises: the application is not where CONTRACT_SIGNED can
\* follow.
FundingRaises(c) == funding[c] = "CONDITIONS_SATISFIED" /\ application[c] # "CONTRACT_SENT"

\* The message that brings the process down, over and over: the look into a
\* payload of another shape raises, or the transition of the funding does.
Poison(m) ==
  \/ m \in Malformed
  \/ /\ m \in TransactionIds
     /\ envelope[m] = "completed"
     /\ \E c \in Contracts : HasContract(m, c) /\ MayMove(c, "SIGNED") /\ FundingRaises(c)

Poisoned == \E m \in Messages : Readable(m) /\ Poison(m)

Read(m, to) ==
  /\ readings' = [readings EXCEPT ![m] = @ + 1]
  /\ inbox' = [inbox EXCEPT ![m] = to]
  /\ UNCHANGED <<queue, requeues>>

\* Neither an envelope id nor a status the worker knows.
MessageIgnored(m) ==
  /\ m = Junk
  /\ Read(m, "IGNORED")
  /\ UNCHANGED <<contract, deal, ready>>

\* Mutant: a reading that found no contract is not counted.
message_waits_for_contract(m) ==
  /\ m \in TransactionIds
  /\ \A c \in Contracts : ~HasContract(m, c)
  /\ ready' = ready \ {m}
  /\ UNCHANGED <<contract, deal, inbox, queue, readings, requeues>>

\* The envelope is no contract's, or not yet.
MessageWithoutContract(m) ==
  /\ m \in TransactionIds
  /\ \A c \in Contracts : ~HasContract(m, c)
  /\ IF readings[m] + 1 >= MaxAttempts
     THEN Read(m, "FAILED") /\ UNCHANGED ready
     ELSE Read(m, "RECEIVED") /\ ready' = ready \ {m}
  /\ UNCHANGED <<contract, deal>>

MessageIllegal(m) ==
  /\ \E c \in Contracts : HasContract(m, c) /\ ~MayMove(c, StatusFor[envelope[m]])
  /\ Read(m, "FAILED")
  /\ UNCHANGED <<contract, deal, ready>>

\* Mutant: the funding is left behind.
FundingFollows_not(c) == UNCHANGED deal

\* The funding, if it waits for the signature, and with it the application.
FundingFollows(c) ==
  IF funding[c] = "CONDITIONS_SATISFIED"
  THEN /\ funding' = [funding EXCEPT ![c] = "CONTRACT_SIGNED"]
       /\ application' = [application EXCEPT ![c] = "CONTRACT_SIGNED"]
  ELSE UNCHANGED deal

MessageApplied(m, c) ==
  /\ HasContract(m, c)
  /\ LET to == StatusFor[envelope[m]] IN
     /\ MayMove(c, to)
     /\ contract' = [contract EXCEPT ![c] = to]
     /\ IF to = "SIGNED"
        THEN /\ ~FundingRaises(c)
             /\ FundingFollows(c)
        ELSE UNCHANGED deal
  /\ Read(m, "PROCESSED")
  /\ UNCHANGED ready

process_pending_docusign_event(m) ==
  /\ After(<<"docusign", "scan">>)
  /\ NextMessage(m)
  /\ \/ MessageIgnored(m)
     \/ MessageWithoutContract(m)
     \/ MessageIllegal(m)
     \/ \E c \in Contracts : MessageApplied(m, c)
  /\ UNCHANGED <<delivery, unknown, atProvider, renewal, outside, kills>>

\* run() catches nothing: the transaction rolls back, the process ends.
DocusignRaises(m) ==
  /\ step = "docusign"
  /\ NextMessage(m)
  /\ Poison(m)
  /\ Restart
  /\ UNCHANGED <<contract, delivery, unknown, deal, atProvider, messages, renewal, outside, kills>>

NothingToRead ==
  /\ After(<<"docusign", "scan">>)
  /\ \A m \in Messages : ~Readable(m)
  /\ UNCHANGED <<contract, delivery, unknown, deal, atProvider, messages, renewal, outside, kills>>

MessageBackoffEnds(m) ==
  /\ m \notin ready
  /\ ready' = ready \union {m}
  /\ UNCHANGED <<contract, delivery, unknown, deal, atProvider, inbox, queue, readings,
                 requeues, loop, renewal, outside, kills>>

-----------------------------------------------------------------------------
(* Operators: voids, declines, reviews; and time.                          *)

Cleared(c) ==
  /\ attempts' = [attempts EXCEPT ![c] = 0]
  /\ failure' = [failure EXCEPT ![c] = "none"]
  /\ terminal' = terminal \ {c}
  /\ due' = due \union {c}

\* Mutant: asks again whatever became of the first request.
MayAsk_again(c) == TRUE

\* While the exception is open only the status is read.  Once an operator has
\* resolved it the provider is asked again.
MayAsk(c) == unknown[c] # "OPEN"

\* void_envelope reaches the provider, which voids what is still to be signed.
AskVoid(c) ==
  /\ voids' = [voids EXCEPT ![c] = @ + 1]
  /\ envelope' = [envelope EXCEPT ![envelopeId[c]] = IF @ = "sent" THEN "voided" ELSE @]

ReadBack(c) == UNCHANGED <<envelope, voids>>

\* The provider confirmed it, or its status does.
VoidConfirmed(c) ==
  /\ IF MayAsk(c) THEN AskVoid(c) ELSE ReadBack(c)
  /\ envelope'[envelopeId[c]] = "voided"
  /\ Cleared(c)
  /\ unknown' = [unknown EXCEPT ![c] = IF @ = "OPEN" THEN "RESOLVED" ELSE @]

\* _record_unknown_outcome, committed before the operator gets the error.
VoidUnknown(c) ==
  /\ IF MayAsk(c)
     THEN /\ attempts' = [attempts EXCEPT ![c] = @ + 1]
          /\ voids' = [voids EXCEPT ![c] = @ + 1]
          /\ \/ UNCHANGED envelope
             \/ envelope[envelopeId[c]] = "sent"
                /\ envelope' = [envelope EXCEPT ![envelopeId[c]] = "voided"]
     ELSE ReadBack(c) /\ UNCHANGED attempts
  /\ unknown' = [unknown EXCEPT ![c] = "OPEN"]
  /\ failure' = [failure EXCEPT ![c] = "void"]
  /\ terminal' = terminal \union {c}
  /\ due' = due \union {c}

\* An operator closes the exception, whatever became of the envelope.
resolve_operational_exception(c) ==
  /\ unknown[c] = "OPEN"
  /\ resolutions < MaxResolutions
  /\ resolutions' = resolutions + 1
  /\ unknown' = [unknown EXCEPT ![c] = "RESOLVED"]
  /\ UNCHANGED <<contract, delivery, deal, atProvider, messages, loop, renewal, unreadable, kills>>

\* The request reached the provider, the answer and the transaction are lost.
VoidLost(c) ==
  /\ Killed
  /\ contract[c] = "SENT"
  /\ MayAsk(c)
  /\ AskVoid(c)
  /\ UNCHANGED <<contract, delivery, unknown, deal, messages, loop, renewal, outside>>

\* ensure_provider_void_confirmed returns: an envelope that is out is void.
VoidSettled(c) ==
  IF contract[c] = "SENT"
  THEN VoidConfirmed(c) /\ UNCHANGED <<envelopeId, unsent>>
  ELSE UNCHANGED <<delivery, unknown, atProvider>>

\* ... or it raises.
void_refused(c) ==
  /\ contract[c] = "SENT"
  /\ VoidUnknown(c)
  /\ UNCHANGED <<contract, envelopeId, unsent, deal, messages, loop, renewal, outside, kills>>

void_contract(c) ==
  /\ contract[c] \in {"DRAFT", "SENT"}
  /\ VoidSettled(c)
  /\ contract' = [contract EXCEPT ![c] = "VOIDED"]
  /\ UNCHANGED <<deal, messages, loop, renewal, outside, kills>>

\* The contract first, if it is not over yet; then the funding and with it the
\* application.
decline_funding(c) ==
  /\ funding[c] \in {"CONDITIONS_SATISFIED", "CONTRACT_SIGNED"}
  /\ VoidSettled(c)
  /\ contract' = [contract EXCEPT ![c] = IF @ \in {"DRAFT", "SENT"} THEN "VOIDED" ELSE @]
  /\ funding' = [funding EXCEPT ![c] = "DECLINED"]
  /\ application' = [application EXCEPT ![c] = "DECLINED"]
  /\ UNCHANGED <<messages, loop, renewal, outside, kills>>

\* The status of a live application is written by others too.
Reviewed(c, to) ==
  /\ application[c] \in {"CONDITIONS_COMPLETE", "CONTRACT_SENT", "CONTRACT_SIGNED"}
  /\ application' = [application EXCEPT ![c] = to]
  /\ UNCHANGED <<contract, delivery, unknown, funding, atProvider, messages, loop, renewal, outside, kills>>

create_underwriting_review(c) == Reviewed(c, "DECLINED")

\* A second lender's offer, from a session that read the application before the
\* acceptance (the lost update FundingLifecycle has).
create_submission_offer(c) == c \in Behind /\ Reviewed(c, "OFFERS_AVAILABLE")

\* The money was paid out and 90 days have passed (FundingLifecycle has the steps).
Mature(c) ==
  /\ funding[c] = "CONTRACT_SIGNED"
  /\ application[c] = "CONTRACT_SIGNED"
  /\ funding' = [funding EXCEPT ![c] = "FUNDED"]
  /\ application' = [application EXCEPT ![c] = "FUNDED"]
  /\ UNCHANGED <<contract, delivery, unknown, atProvider, messages, loop, renewal, outside, kills>>

-----------------------------------------------------------------------------
Worker ==
  \/ Kill
  \/ \E c \in Contracts : send_pending_contract_envelope(c)
  \/ \E c \in Contracts : SendLost(c)
  \/ NothingToSend
  \/ \E m \in Messages : process_pending_docusign_event(m)
  \/ \E m \in Messages : DocusignRaises(m)
  \/ NothingToRead
  \/ scan_pending_document
  \/ ScanRaises
  \/ evaluate_pending_renewals

Clock ==
  \/ \E c \in Contracts : BackoffEnds(c)
  \/ \E m \in Messages : MessageBackoffEnds(m)
  \/ \E c \in Contracts : Mature(c)
  \/ UploadChanges

Provider ==
  \/ \E t \in TransactionIds, outcome \in {"completed", "declined"} : SignerActs(t, outcome)
  \/ \E m \in Messages : receive_provider_webhook(m)

Operators ==
  \/ \E m \in Messages : requeue_webhook_receipt(m)
  \/ \E c \in Contracts : void_contract(c)
  \/ \E c \in Contracts : void_refused(c)
  \/ \E c \in Contracts : VoidLost(c)
  \/ \E c \in Contracts : resolve_operational_exception(c)
  \/ \E c \in Contracts : decline_funding(c)
  \/ \E c \in Contracts : create_underwriting_review(c)
  \/ \E c \in Contracts : create_submission_offer(c)
  \/ \E c \in Contracts, to \in RENEWAL_STATUSES : update_renewal_status(c, to)

Next == Worker \/ Clock \/ Provider \/ Operators

Spec == Init /\ [][Next]_vars

\* The loop runs on, and a time that was set is reached.  Nothing is assumed
\* of the signer, the provider, the operators or the next kill.
Round ==
  \/ \E c \in Contracts : send_pending_contract_envelope(c)
  \/ NothingToSend
  \/ \E m \in Messages : process_pending_docusign_event(m) \/ DocusignRaises(m)
  \/ NothingToRead
  \/ scan_pending_document
  \/ ScanRaises
  \/ evaluate_pending_renewals

FairSpec ==
  /\ Spec
  /\ WF_vars(Round)
  /\ \A m \in Messages : WF_vars(MessageBackoffEnds(m))

-----------------------------------------------------------------------------
(* Properties.                                                             *)

\* No contract ever has two envelopes at the provider, however often the
\* sending is repeated after a lost answer or a killed worker.
OneEnvelope ==
  \A s, t \in TransactionIds :
    s[1] = t[1] /\ envelope[s] # "none" /\ envelope[t] # "none" => s = t

\* While nobody knows the outcome of a void the provider is only read: it is
\* asked to void at most once per contract, once more for every killed request,
\* and once more for every time an operator closed the exception by hand.
VoidAskedOnce == \A c \in Contracts : voids[c] <= 1 + kills + resolutions

\* What ensure_provider_void_confirmed says of itself: after an ambiguous
\* attempt no later request asks the provider to void the contract.
AmbiguousVoidIsFinal == [][\A c \in Contracts : unknown[c] # "NONE" => voids'[c] = voids[c]]_vars

\* A funding that waits for nothing but the signature never stays behind a
\* signed contract: one transaction moves contract, funding and application.
SignatureMovesFunding ==
  \A c \in Contracts : contract[c] = "SIGNED" => funding[c] # "CONDITIONS_SATISFIED"

\* A contract the provider refused to the last attempt has an exception an
\* operator sees.
GivenUpIsReported ==
  \A c \in Contracts : c \in terminal /\ failure[c] = "provider" => c \in unsent

\* A message does not wait for ever: it is applied, ignored or given up, unless
\* one that brings the worker down stands in the way.
MessageSettles == \A m \in Messages : inbox[m] = "RECEIVED" ~> inbox[m] # "RECEIVED" \/ Poisoned

\* Every funding confirmed 90 days ago gets its renewal opportunity, unless such
\* a message, or an upload whose body breaks off, keeps the loop from ever
\* completing its rounds.
FundedIsRenewed ==
  <>[]~(Poisoned \/ unreadable) => \A c \in Contracts : funding[c] = "FUNDED" ~> renewal[c] # "NONE"
=============================================================================
