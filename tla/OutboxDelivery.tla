--------------------------- MODULE OutboxDelivery ---------------------------
(***************************************************************************)
(* The transactional outbox: handlers commit events, workers lease them    *)
(* (worker.claim), publish them to the middleware and record the answer    *)
(* (worker.deliver), operators requeue what failed.                        *)
(*                                                                         *)
(* claim is one transaction.  deliver is not: it reads the event, talks to *)
(* the middleware without a lock, and commits the answer; a worker can be  *)
(* killed or cancelled in between.  The runtime gate                       *)
(* external_delivery_enabled cannot close between claim and deliver, which *)
(* one process runs, so its branch in deliver has no action.               *)
(***************************************************************************)
EXTENDS Naturals

CONSTANTS Events,       \* outbox events the handlers may write
          Public,       \* those an operator may requeue (_crm_event_filter)
          Workers,      \* worker processes
          MaxAttempts,  \* attempts before an event is given up: 8 in the code
          MaxRequeues,  \* bound: requeues per event
          None

ASSUME OutboxAssumption ==
  /\ Public \subseteq Events
  /\ MaxAttempts \in Nat \ {0}
  /\ MaxRequeues \in Nat
  /\ None \notin Events \union Workers

VARIABLES
  status,     \* outbox_events.status, "NONE" before the row exists
  owner,      \* lease_owner; None: lease_owner and lease_expires_at are null
  expired,    \* events whose lease_expires_at has passed
  due,        \* events whose next_attempt_at is null or has passed
  attempts,   \* attempt_count
  requeues,   \* how often an operator requeued the event
  exception,  \* status of the event's operational exception, or "NONE"
  holds,      \* the event a worker is delivering, or None
  answer,     \* what the worker heard from the middleware
  received    \* the events the middleware has accepted

vars == <<status, owner, expired, due, attempts, requeues, exception, holds, answer, received>>

OutboxStatus == {"NONE", "PENDING", "LEASED", "RETRY", "DELIVERED", "DEAD"}

Init ==
  /\ status = [e \in Events |-> "NONE"]
  /\ owner = [e \in Events |-> None]
  /\ expired = {}
  /\ due = Events
  /\ attempts = [e \in Events |-> 0]
  /\ requeues = [e \in Events |-> 0]
  /\ exception = [e \in Events |-> "NONE"]
  /\ holds = [w \in Workers |-> None]
  /\ answer = [w \in Workers |-> "none"]
  /\ received = {}

\* A handler commits with the event it wrote.
Enqueue(e) ==
  /\ status[e] = "NONE"
  /\ status' = [status EXCEPT ![e] = "PENDING"]
  /\ UNCHANGED <<owner, expired, due, attempts, requeues, exception, holds, answer, received>>

\* Mutant: takes an event over from whoever holds it.
claimable_while_leased(e) == status[e] \in {"PENDING", "RETRY", "LEASED"} /\ e \in due

\* Mutant: never comes back to an event that failed.
claimable_once(e) == status[e] = "PENDING" /\ e \in due /\ owner[e] = None

\* The rows claim selects.
claimable(e) ==
  /\ status[e] \in {"PENDING", "RETRY"}
  /\ e \in due
  /\ owner[e] = None \/ e \in expired

\* A worker leases an event: the oldest one, but rows that another transaction
\* has locked are skipped, so any may come first.
claim(w, e) ==
  /\ holds[w] = None
  /\ claimable(e)
  /\ status' = [status EXCEPT ![e] = "LEASED"]
  /\ owner' = [owner EXCEPT ![e] = w]
  /\ expired' = expired \ {e}
  /\ attempts' = [attempts EXCEPT ![e] = @ + 1]
  /\ holds' = [holds EXCEPT ![w] = e]
  /\ UNCHANGED <<due, requeues, exception, answer, received>>

\* Time: a lease runs out, a backoff is over.
LeaseExpires(e) ==
  /\ owner[e] # None
  /\ e \notin expired
  /\ expired' = expired \union {e}
  /\ UNCHANGED <<status, owner, due, attempts, requeues, exception, holds, answer, received>>

BackoffEnds(e) ==
  /\ e \notin due
  /\ due' = due \union {e}
  /\ UNCHANGED <<status, owner, expired, attempts, requeues, exception, holds, answer, received>>

\* The call to the middleware: it confirms, or fails (capability off, refused,
\* timed out), and after a failure it may have accepted the event all the same.
publish(w) ==
  /\ holds[w] # None
  /\ owner[holds[w]] = w
  /\ answer[w] = "none"
  /\ \/ /\ answer' = [answer EXCEPT ![w] = "confirmed"]
        /\ received' = received \union {holds[w]}
     \/ /\ answer' = [answer EXCEPT ![w] = "failed"]
        /\ received' \in {received, received \union {holds[w]}}
  /\ UNCHANGED <<status, owner, expired, due, attempts, requeues, exception, holds>>

\* The answer is committed: the lease ends and the worker is free.
Release(w) ==
  /\ owner' = [owner EXCEPT ![holds[w]] = None]
  /\ expired' = expired \ {holds[w]}
  /\ holds' = [holds EXCEPT ![w] = None]
  /\ answer' = [answer EXCEPT ![w] = "none"]

\* A confirmed event is delivered.
deliver_confirmed(w) ==
  /\ answer[w] = "confirmed"
  /\ status' = [status EXCEPT ![holds[w]] = "DELIVERED"]
  /\ Release(w)
  /\ UNCHANGED <<due, attempts, requeues, exception, received>>

\* Mutant: gives up silently.
give_up_silently(w) ==
  /\ answer[w] = "failed"
  /\ status' = [status EXCEPT ![holds[w]] = IF attempts[holds[w]] >= MaxAttempts THEN "DEAD" ELSE "RETRY"]
  /\ due' = due \ {holds[w]}
  /\ Release(w)
  /\ UNCHANGED <<attempts, requeues, exception, received>>

\* A failed event is retried later; at its last attempt it is given up, with an
\* operational exception unless the event has one from earlier.
deliver_failed(w) ==
  LET e == holds[w]
      terminal == attempts[e] >= MaxAttempts IN
  /\ answer[w] = "failed"
  /\ status' = [status EXCEPT ![e] = IF terminal THEN "DEAD" ELSE "RETRY"]
  /\ exception' = IF terminal /\ exception[e] = "NONE"
                  THEN [exception EXCEPT ![e] = "OPEN"] ELSE exception
  /\ due' = due \ {e}
  /\ Release(w)
  /\ UNCHANGED <<attempts, requeues, received>>

\* The process is killed: it forgets its event, the row keeps the lease.
Crash(w) ==
  /\ holds[w] # None
  /\ holds' = [holds EXCEPT ![w] = None]
  /\ answer' = [answer EXCEPT ![w] = "none"]
  /\ UNCHANGED <<status, owner, expired, due, attempts, requeues, exception, received>>

\* The process is interrupted in the call: the cancellation is no Exception, so
\* only the finally clause runs, which ends the lease and commits.
deliver_cancelled(w) ==
  /\ holds[w] # None
  /\ answer[w] = "none"
  /\ received' \in {received, received \union {holds[w]}}
  /\ Release(w)
  /\ UNCHANGED <<status, due, attempts, requeues, exception>>

\* An operator requeues an event that is neither delivered nor leased.  The
\* attempts are not reset and the exception is left as it is.
requeue_crm_delivery(e) ==
  /\ requeues[e] < MaxRequeues
  /\ e \in Public
  /\ status[e] \notin {"NONE", "DELIVERED", "LEASED"}
  /\ status' = [status EXCEPT ![e] = "PENDING"]
  /\ due' = due \union {e}
  /\ owner' = [owner EXCEPT ![e] = None]
  /\ expired' = expired \ {e}
  /\ requeues' = [requeues EXCEPT ![e] = @ + 1]
  /\ UNCHANGED <<attempts, exception, holds, answer, received>>

resolve_operational_exception(e) ==
  /\ exception[e] = "OPEN"
  /\ exception' = [exception EXCEPT ![e] = "RESOLVED"]
  /\ UNCHANGED <<status, owner, expired, due, attempts, requeues, holds, answer, received>>

-----------------------------------------------------------------------------
Work ==
  \/ \E w \in Workers :
       \/ \E e \in Events : claim(w, e)
       \/ publish(w)
       \/ deliver_confirmed(w)
       \/ deliver_failed(w)
  \/ \E e \in Events :
       \/ Enqueue(e)
       \/ LeaseExpires(e)
       \/ BackoffEnds(e)
       \/ requeue_crm_delivery(e)
       \/ resolve_operational_exception(e)

Stop == \E w \in Workers : Crash(w) \/ deliver_cancelled(w)

Next == Work \/ Stop

Spec == Init /\ [][Next]_vars

\* A worker that is not stopped keeps coming round its loop and every call it
\* makes ends (provider_request has a timeout); time passes.
Fairness ==
  /\ \A w \in Workers :
       /\ WF_vars(\E e \in Events : claim(w, e))
       /\ WF_vars(publish(w))
       /\ WF_vars(deliver_confirmed(w) \/ deliver_failed(w))
  /\ \A e \in Events : WF_vars(LeaseExpires(e)) /\ WF_vars(BackoffEnds(e))

\* Workers may be stopped at any point, and are restarted.
FairSpec == Spec /\ Fairness

-----------------------------------------------------------------------------
(* Properties.                                                             *)

\* Every variable has its type.
TypeOK ==
  /\ status \in [Events -> OutboxStatus]
  /\ owner \in [Events -> Workers \union {None}]
  /\ expired \subseteq Events
  /\ due \subseteq Events
  /\ attempts \in [Events -> Nat]
  /\ requeues \in [Events -> Nat]
  /\ exception \in [Events -> {"NONE", "OPEN", "RESOLVED"}]
  /\ holds \in [Workers -> Events \union {None}]
  /\ answer \in [Workers -> {"none", "confirmed", "failed"}]
  /\ received \subseteq Events

\* While a worker talks to the middleware about an event, the row is leased to
\* this worker: deliver writes its answer without a lock, and this is why it
\* overwrites nobody's claim or requeue.
HolderHasLease ==
  \A w \in Workers : holds[w] # None =>
    /\ status[holds[w]] = "LEASED"
    /\ owner[holds[w]] = w

\* An event is attempted at most MaxAttempts times, and once more for each time
\* an operator asked for it.
AttemptsAreAskedFor == \A e \in Events : attempts[e] <= MaxAttempts + requeues[e]

\* What the promise sees of an event.
Outcome(s) ==
  CASE s = "NONE" -> "none"
    [] s = "DELIVERED" -> "delivered"
    [] s = "DEAD" -> "dead"
    [] OTHER -> "queued"

Promise == INSTANCE DeliveryPromise
  WITH outcome  <- [e \in Events |-> Outcome(status[e])],
       accepted <- received,
       reported <- {e \in Events : exception[e] # "NONE"}

\* The outbox keeps its promise whatever stops the workers: only events the
\* middleware has count as delivered, and for good; no event is given up
\* unreported.
KeepsPromise == Promise!Spec

\* An event whose worker is gone: leased, and nobody delivers it.
Abandoned(e) == status[e] = "LEASED" /\ \A w \in Workers : holds[w] # e

\* Every event is delivered or given up in the end, whatever the middleware
\* answers, unless a worker was stopped while it held the event.
EventSettles ==
  \A e \in Events : status[e] # "NONE" ~> status[e] \in {"DELIVERED", "DEAD"} \/ Abandoned(e)
=============================================================================
