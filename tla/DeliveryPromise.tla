--------------------------- MODULE DeliveryPromise ---------------------------
(***************************************************************************)
(* What the outbox promises the handlers that write events into it: an     *)
(* event counts as delivered only after the middleware has it, a delivered *)
(* event is settled for good, and an event that is given up is reported    *)
(* to the operators.  Workers, leases and attempts do not appear here.     *)
(***************************************************************************)
CONSTANT Events

VARIABLES
  outcome,   \* what became of an event
  accepted,  \* the events the middleware has accepted
  reported   \* the events an operational exception was raised for

promiseVars == <<outcome, accepted, reported>>

Init ==
  /\ outcome = [e \in Events |-> "none"]
  /\ accepted = {}
  /\ reported = {}

Become(e, from, to) == outcome[e] = from /\ outcome' = [outcome EXCEPT ![e] = to]

\* A handler commits with the event.
Enqueue(e) == Become(e, "none", "queued") /\ UNCHANGED <<accepted, reported>>

\* The middleware accepts a queued event, possibly again.
Accept(e) ==
  /\ outcome[e] = "queued"
  /\ accepted' = accepted \union {e}
  /\ UNCHANGED <<outcome, reported>>

\* The event is settled: it arrived ...
Deliver(e) ==
  /\ e \in accepted
  /\ Become(e, "queued", "delivered")
  /\ UNCHANGED <<accepted, reported>>

\* ... or is given up and reported.
GiveUp(e) ==
  /\ Become(e, "queued", "dead")
  /\ reported' = reported \union {e}
  /\ UNCHANGED accepted

\* An operator replays an event that was given up.
Replay(e) == Become(e, "dead", "queued") /\ UNCHANGED <<accepted, reported>>

Next == \E e \in Events : Enqueue(e) \/ Accept(e) \/ Deliver(e) \/ GiveUp(e) \/ Replay(e)

Spec == Init /\ [][Next]_promiseVars
=============================================================================
