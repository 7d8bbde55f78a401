------------------------ MODULE OutboxDeliveryProofs ------------------------
(***************************************************************************)
(* What OutboxDelivery promises for any number of events, workers,         *)
(* attempts and requeues, and that it keeps DeliveryPromise.  The lock-    *)
(* free commit of deliver is safe because nobody else touches a leased     *)
(* row, which is the heart of the inductive invariant.                     *)
(***************************************************************************)
EXTENDS OutboxDelivery, TLAPS

\* An idle worker has heard nothing; a confirmed event has been received.
AnswersAreTrue ==
  \A w \in Workers :
    /\ holds[w] = None => answer[w] = "none"
    /\ answer[w] = "confirmed" => holds[w] \in received

\* Attempts left: one at least while the event may be claimed.
AttemptsLeft ==
  \A e \in Events :
    /\ attempts[e] <= MaxAttempts + requeues[e]
    /\ status[e] \in {"NONE", "PENDING", "RETRY"} => attempts[e] < MaxAttempts + requeues[e]

\* The inductive invariant.
IInv == TypeOK /\ HolderHasLease /\ AnswersAreTrue /\ AttemptsLeft

LEMMA IInvInit == Init => IInv
BY OutboxAssumption
DEF Init, IInv, TypeOK, OutboxStatus, HolderHasLease, AnswersAreTrue, AttemptsLeft

\* A worker leases an event that nobody is delivering.
LEMMA ClaimStep ==
  ASSUME IInv, NEW w \in Workers, NEW e \in Events, claim(w, e)
  PROVE  IInv'
<1>1. TypeOK'
  BY DEF IInv, TypeOK, OutboxStatus, claim
<1>2. HolderHasLease'
  BY OutboxAssumption DEF IInv, TypeOK, HolderHasLease, claim, claimable
<1>3. AnswersAreTrue'
  BY OutboxAssumption DEF IInv, TypeOK, AnswersAreTrue, claim
<1>4. AttemptsLeft'
  BY OutboxAssumption DEF IInv, TypeOK, AttemptsLeft, claim, claimable
<1>5. QED  BY <1>1, <1>2, <1>3, <1>4 DEF IInv

LEMMA PublishStep ==
  ASSUME IInv, NEW w \in Workers, publish(w)
  PROVE  IInv'
<1>0. holds[w] \in Events /\ received' \in {received, received \union {holds[w]}}
      /\ received \subseteq received' /\ (answer'[w] = "confirmed" => holds[w] \in received')
      /\ \A v \in Workers : v # w => answer'[v] = answer[v]
      /\ answer' \in [Workers -> {"none", "confirmed", "failed"}]
  BY OutboxAssumption DEF IInv, TypeOK, publish
<1>1. TypeOK'
  BY <1>0 DEF IInv, TypeOK, publish
<1>2. AnswersAreTrue'
  BY <1>0 DEF IInv, AnswersAreTrue, publish
<1>3. (HolderHasLease /\ AttemptsLeft)'
  BY DEF IInv, HolderHasLease, AttemptsLeft, publish
<1>4. QED  BY <1>1, <1>2, <1>3 DEF IInv

\* Whoever releases an event was its only holder.
LEMMA ReleaseStep ==
  ASSUME IInv, NEW w \in Workers, holds[w] \in Events, Release(w),
         NEW s \in OutboxStatus, status' = [status EXCEPT ![holds[w]] = s],
         received \subseteq received'
  PROVE  HolderHasLease' /\ AnswersAreTrue'
<1>1. \A v \in Workers : v # w /\ holds[v] # None => holds[v] # holds[w]
  BY DEF IInv, HolderHasLease
<1>2. HolderHasLease'
  BY <1>1, OutboxAssumption DEF IInv, TypeOK, HolderHasLease, Release
<1>3. AnswersAreTrue'
  BY OutboxAssumption DEF IInv, TypeOK, AnswersAreTrue, Release
<1>4. QED  BY <1>2, <1>3

LEMMA AnswerStep ==
  ASSUME IInv, NEW w \in Workers, deliver_confirmed(w) \/ deliver_failed(w)
  PROVE  IInv'
<1> DEFINE e == holds[w]
<1>0. /\ e \in Events /\ status[e] = "LEASED" /\ Release(w)
      /\ UNCHANGED <<attempts, requeues, received>>
      /\ due' \subseteq due
      /\ exception' \in [Events -> {"NONE", "OPEN", "RESOLVED"}]
  BY OutboxAssumption
  DEF IInv, TypeOK, HolderHasLease, AnswersAreTrue, deliver_confirmed, deliver_failed
<1>1. PICK s \in {"DELIVERED", "DEAD", "RETRY"} :
        /\ status' = [status EXCEPT ![e] = s]
        /\ s = "RETRY" => ~(attempts[e] >= MaxAttempts)
  BY DEF deliver_confirmed, deliver_failed
<1> HIDE DEF e
<1>2. HolderHasLease' /\ AnswersAreTrue'
  BY <1>0, <1>1, ReleaseStep DEF e, OutboxStatus
<1>3. TypeOK'
  BY <1>0, <1>1 DEF IInv, TypeOK, OutboxStatus, Release
<1>4. AttemptsLeft'
  <2>1. s = "RETRY" => attempts[e] < MaxAttempts + requeues[e]
    BY <1>0, <1>1, OutboxAssumption DEF IInv, TypeOK
  <2>2. QED  BY <1>0, <1>1, <2>1 DEF IInv, TypeOK, AttemptsLeft
<1>5. QED  BY <1>2, <1>3, <1>4 DEF IInv

\* A stopped worker leaves its event in LEASED, where nobody else takes it.
LEMMA StopStep ==
  ASSUME IInv, Stop
  PROVE  IInv'
<1>1. ASSUME NEW w \in Workers, Crash(w) PROVE IInv'
  <2>1. TypeOK'
    BY <1>1 DEF IInv, TypeOK, Crash
  <2>2. (HolderHasLease /\ AnswersAreTrue /\ AttemptsLeft)'
    BY <1>1 DEF IInv, TypeOK, HolderHasLease, AnswersAreTrue, AttemptsLeft, Crash
  <2>3. QED  BY <2>1, <2>2 DEF IInv
<1>2. ASSUME NEW w \in Workers, deliver_cancelled(w) PROVE IInv'
  <2>0. holds[w] \in Events /\ status[holds[w]] = "LEASED" /\ Release(w)
        /\ received' \subseteq Events /\ received \subseteq received'
        /\ UNCHANGED <<status, due, attempts, requeues, exception>>
    BY <1>2 DEF IInv, TypeOK, HolderHasLease, deliver_cancelled
  <2>1. status' = [status EXCEPT ![holds[w]] = "LEASED"]
    BY <2>0 DEF IInv, TypeOK
  <2>2. HolderHasLease' /\ AnswersAreTrue'
    BY <2>0, <2>1, ReleaseStep DEF OutboxStatus
  <2>3. TypeOK'
    BY <2>0 DEF IInv, TypeOK, Release
  <2>4. AttemptsLeft'
    BY <2>0 DEF IInv, AttemptsLeft
  <2>5. QED  BY <2>2, <2>3, <2>4 DEF IInv
<1>3. QED  BY <1>1, <1>2 DEF Stop

\* Handlers, operators and time leave leased events alone.
LEMMA EventStep ==
  ASSUME IInv, NEW e \in Events,
         Enqueue(e) \/ LeaseExpires(e) \/ BackoffEnds(e) \/ requeue_crm_delivery(e)
           \/ resolve_operational_exception(e)
  PROVE  IInv'
<1>1. TypeOK'
  BY DEF IInv, TypeOK, OutboxStatus, Enqueue, LeaseExpires, BackoffEnds, requeue_crm_delivery,
         resolve_operational_exception
<1>2. HolderHasLease'
  BY DEF IInv, TypeOK, HolderHasLease, Enqueue, LeaseExpires, BackoffEnds, requeue_crm_delivery,
         resolve_operational_exception
<1>3. AnswersAreTrue'
  BY DEF IInv, AnswersAreTrue, Enqueue, LeaseExpires, BackoffEnds, requeue_crm_delivery,
         resolve_operational_exception
<1>4. AttemptsLeft'
  <2>1. CASE requeue_crm_delivery(e)
    <3>1. \A f \in Events : f # e => requeues'[f] = requeues[f] /\ status'[f] = status[f]
      BY <2>1 DEF IInv, TypeOK, requeue_crm_delivery
    <3>2. requeues'[e] = requeues[e] + 1 /\ attempts' = attempts
      BY <2>1 DEF IInv, TypeOK, requeue_crm_delivery
    <3>3. attempts[e] \in Nat /\ requeues[e] \in Nat /\ MaxAttempts \in Nat
      BY OutboxAssumption DEF IInv, TypeOK
    <3>4. QED  BY <3>1, <3>2, <3>3 DEF IInv, AttemptsLeft
  <2>2. CASE ~requeue_crm_delivery(e)
    BY <2>2 DEF IInv, TypeOK, AttemptsLeft, Enqueue, LeaseExpires, BackoffEnds,
                resolve_operational_exception
  <2>3. QED  BY <2>1, <2>2
<1>5. QED  BY <1>1, <1>2, <1>3, <1>4 DEF IInv

LEMMA IInvStep == IInv /\ [Next]_vars => IInv'
<1> SUFFICES ASSUME IInv, [Next]_vars PROVE IInv'
  OBVIOUS
<1>1. CASE Work
  BY <1>1, ClaimStep, PublishStep, AnswerStep, EventStep DEF Work
<1>2. CASE Stop
  BY <1>2, StopStep
<1>3. CASE UNCHANGED vars
  BY <1>3 DEF vars, IInv, TypeOK, HolderHasLease, AnswersAreTrue, AttemptsLeft
<1>4. QED  BY <1>1, <1>2, <1>3 DEF Next

LEMMA Inductive == Spec => []IInv
BY IInvInit, IInvStep, PTL DEF Spec

-----------------------------------------------------------------------------
\* Every variable keeps its type (worker.claim, worker.deliver, requeue).
THEOREM TypeCorrect == Spec => []TypeOK
<1>1. IInv => TypeOK
  BY DEF IInv
<1>2. QED  BY <1>1, Inductive, PTL

\* The answer deliver commits without a lock is for a row that is still leased
\* to its worker.
THEOREM LeaseIsExclusive == Spec => []HolderHasLease
<1>1. IInv => HolderHasLease
  BY DEF IInv
<1>2. QED  BY <1>1, Inductive, PTL

\* deliver gives up in time: beyond MaxAttempts an event is attempted only when
\* requeue_crm_delivery asked for it.
THEOREM AttemptsBounded == Spec => []AttemptsAreAskedFor
<1>1. IInv => AttemptsAreAskedFor
  BY DEF IInv, AttemptsLeft, AttemptsAreAskedFor
<1>2. QED  BY <1>1, Inductive, PTL

-----------------------------------------------------------------------------
(* The outbox implements DeliveryPromise.                                  *)

\* The promise's view of the state.
outcomes == [e \in Events |-> Outcome(status[e])]
reports  == {e \in Events : exception[e] # "NONE"}

\* An event that changes from a status s to a status r changes its outcome and no other.
LEMMA OutcomeMoves ==
  ASSUME TypeOK, NEW e \in Events, NEW r \in OutboxStatus, status' = [status EXCEPT ![e] = r]
  PROVE  /\ outcomes[e] = Outcome(status[e])
         /\ outcomes' = [outcomes EXCEPT ![e] = Outcome(r)]
BY DEF TypeOK, outcomes

LEMMA PromiseInit == Init => Promise!Init
BY DEF Init, Promise!Init, Outcome

\* Steps that the promise does not see.
LEMMA Invisible ==
  ASSUME outcomes' = outcomes, received' = received, reports' = reports
  PROVE  UNCHANGED Promise!promiseVars
BY DEF Promise!promiseVars, outcomes, reports

LEMMA PromiseStep ==
  ASSUME IInv, Next
  PROVE  Promise!Next \/ UNCHANGED Promise!promiseVars
<1>1. ASSUME NEW w \in Workers, NEW e \in Events, claim(w, e) PROVE UNCHANGED Promise!promiseVars
  <2>1. outcomes' = outcomes
    BY <1>1 DEF IInv, TypeOK, claim, claimable, outcomes, Outcome
  <2>2. QED  BY <1>1, <2>1, Invisible DEF claim, reports
<1>2. ASSUME NEW w \in Workers, holds[w] \in Events, status[holds[w]] = "LEASED",
             status' = status, exception' = exception,
             received' \in {received, received \union {holds[w]}}
      PROVE  Promise!Next \/ UNCHANGED Promise!promiseVars
  <2>1. CASE received' = received
    BY <1>2, <2>1, Invisible DEF outcomes, reports
  <2>2. CASE received' = received \union {holds[w]}
    <3>1. Promise!Accept(holds[w])
      BY <1>2, <2>2 DEF Promise!Accept, Outcome
    <3>2. QED  BY <1>2, <3>1 DEF Promise!Next
  <2>3. QED  BY <1>2, <2>1, <2>2
<1>3. ASSUME NEW w \in Workers, publish(w) \/ deliver_cancelled(w)
      PROVE  Promise!Next \/ UNCHANGED Promise!promiseVars
  BY <1>2, <1>3 DEF publish, deliver_cancelled, IInv, TypeOK, HolderHasLease
<1>4. ASSUME NEW w \in Workers, deliver_confirmed(w) PROVE Promise!Next
  <2>1. holds[w] \in Events /\ status[holds[w]] = "LEASED" /\ holds[w] \in received
    BY <1>4 DEF IInv, TypeOK, HolderHasLease, AnswersAreTrue, deliver_confirmed
  <2>2. /\ outcomes[holds[w]] = "queued"
        /\ outcomes' = [outcomes EXCEPT ![holds[w]] = "delivered"]
    BY <1>4, <2>1, OutcomeMoves DEF IInv, deliver_confirmed, OutboxStatus, Outcome
  <2>3. Promise!Deliver(holds[w])
    BY <1>4, <2>1, <2>2 DEF Promise!Deliver, Promise!Become, deliver_confirmed, outcomes
  <2>4. QED  BY <2>1, <2>3 DEF Promise!Next
<1>5. ASSUME NEW w \in Workers, deliver_failed(w) PROVE Promise!Next \/ UNCHANGED Promise!promiseVars
  <2>1. PICK x \in Events : x = holds[w] /\ status[x] = "LEASED" /\ received' = received
    BY <1>5 DEF IInv, TypeOK, HolderHasLease, AnswersAreTrue, deliver_failed
  <2>2. CASE attempts[x] >= MaxAttempts
    <3>1. /\ status' = [status EXCEPT ![x] = "DEAD"]
          /\ exception' = IF exception[x] = "NONE" THEN [exception EXCEPT ![x] = "OPEN"] ELSE exception
      BY <1>5, <2>1, <2>2 DEF deliver_failed
    <3>2. outcomes[x] = "queued" /\ outcomes' = [outcomes EXCEPT ![x] = "dead"]
      BY <2>1, <3>1, OutcomeMoves DEF IInv, OutboxStatus, Outcome
    <3>3. reports' = reports \union {x}
      BY <2>1, <3>1 DEF IInv, TypeOK, reports
    <3>4. Promise!GiveUp(x)
      BY <2>1, <3>2, <3>3 DEF Promise!GiveUp, Promise!Become, outcomes, reports
    <3>5. QED  BY <2>1, <3>4 DEF Promise!Next
  <2>3. CASE ~(attempts[x] >= MaxAttempts)
    <3>1. status' = [status EXCEPT ![x] = "RETRY"] /\ exception' = exception
      BY <1>5, <2>1, <2>3 DEF deliver_failed
    <3>2. outcomes' = outcomes
      BY <2>1, <3>1 DEF IInv, TypeOK, outcomes, Outcome
    <3>3. QED  BY <2>1, <3>1, <3>2, Invisible DEF reports
  <2>4. QED  BY <2>2, <2>3
<1>6. ASSUME NEW w \in Workers, Crash(w) PROVE UNCHANGED Promise!promiseVars
  BY <1>6, Invisible DEF Crash, outcomes, reports
<1>7. ASSUME NEW e \in Events, Enqueue(e) PROVE Promise!Next
  <2>1. outcomes[e] = "none" /\ outcomes' = [outcomes EXCEPT ![e] = "queued"]
    BY <1>7, OutcomeMoves DEF IInv, Enqueue, OutboxStatus, Outcome
  <2>2. Promise!Enqueue(e)
    BY <1>7, <2>1 DEF Promise!Enqueue, Promise!Become, Enqueue, outcomes
  <2>3. QED  BY <2>2 DEF Promise!Next
<1>8. ASSUME NEW e \in Events, LeaseExpires(e) \/ BackoffEnds(e) PROVE UNCHANGED Promise!promiseVars
  BY <1>8, Invisible DEF LeaseExpires, BackoffEnds, outcomes, reports
<1>9. ASSUME NEW e \in Events, resolve_operational_exception(e) PROVE UNCHANGED Promise!promiseVars
  <2>1. reports' = reports
    BY <1>9 DEF IInv, TypeOK, resolve_operational_exception, reports
  <2>2. QED  BY <1>9, <2>1, Invisible DEF resolve_operational_exception, outcomes
<1>10. ASSUME NEW e \in Events, requeue_crm_delivery(e)
       PROVE  Promise!Next \/ UNCHANGED Promise!promiseVars
  <2>1. status' = [status EXCEPT ![e] = "PENDING"] /\ received' = received /\ exception' = exception
    BY <1>10 DEF requeue_crm_delivery
  <2>2. CASE status[e] = "DEAD"
    <3>1. outcomes[e] = "dead" /\ outcomes' = [outcomes EXCEPT ![e] = "queued"]
      BY <2>1, <2>2, OutcomeMoves DEF IInv, OutboxStatus, Outcome
    <3>2. Promise!Replay(e)
      BY <2>1, <3>1 DEF Promise!Replay, Promise!Become, outcomes
    <3>3. QED  BY <3>2 DEF Promise!Next
  <2>3. CASE status[e] \in {"PENDING", "RETRY"}
    <3>1. outcomes' = outcomes
      BY <2>1, <2>3 DEF IInv, TypeOK, outcomes, Outcome
    <3>2. QED  BY <2>1, <3>1, Invisible DEF reports
  <2>4. QED  BY <1>10, <2>2, <2>3 DEF requeue_crm_delivery, IInv, TypeOK, OutboxStatus
<1>11. CASE Work
  BY <1>11, <1>1, <1>3, <1>4, <1>5, <1>7, <1>8, <1>9, <1>10 DEF Work
<1>12. CASE Stop
  BY <1>12, <1>3, <1>6 DEF Stop
<1>13. QED  BY <1>11, <1>12 DEF Next

\* Whatever stops the workers, the outbox keeps what DeliveryPromise says: an
\* event counts as delivered once the middleware has it and stays so, and none
\* is given up unreported.
THEOREM PromiseKept == Spec => KeepsPromise
<1>1. IInv /\ [Next]_vars => [Promise!Next]_(Promise!promiseVars)
  <2> SUFFICES ASSUME IInv, [Next]_vars PROVE [Promise!Next]_(Promise!promiseVars)
    OBVIOUS
  <2>1. CASE Next
    BY <2>1, PromiseStep
  <2>2. CASE UNCHANGED vars
    BY <2>2, Invisible DEF vars, outcomes, reports
  <2>3. QED  BY <2>1, <2>2
<1>2. QED  BY <1>1, PromiseInit, Inductive, PTL DEF Spec, KeepsPromise, Promise!Spec
=============================================================================
