----------------------------- MODULE KeyedPromise -----------------------------
(***************************************************************************)
(* What an endpoint that is keyed by its caller promises: the first request*)
(* with a key is the one that counts; whoever repeats it, at the same time *)
(* or later, is told so or gets an error, and never has a second effect.   *)
(***************************************************************************)
CONSTANTS Requests, Slots, Bodies, None

VARIABLES
  asked,   \* what a request is about: a slot, a body and whether the body counts
  stored,  \* the body that counts for a slot
  said     \* the answer to a request

vars == <<asked, stored, said>>

Final == {"accepted", "duplicate", "refused"}

Init ==
  /\ asked = [r \in Requests |-> None]
  /\ stored = [s \in Slots |-> None]
  /\ said = [r \in Requests |-> "none"]

Ask(r) ==
  /\ asked[r] = None
  /\ \E slot \in Slots, body \in Bodies, strict \in BOOLEAN :
       asked' = [asked EXCEPT ![r] = [slot |-> slot, body |-> body, strict |-> strict]]
  /\ UNCHANGED <<stored, said>>

Pending(r) == asked[r] # None /\ said[r] = "none"

Accept(r) ==
  /\ Pending(r)
  /\ stored[asked[r].slot] = None
  /\ stored' = [stored EXCEPT ![asked[r].slot] = asked[r].body]
  /\ said' = [said EXCEPT ![r] = "accepted"]
  /\ UNCHANGED asked

Repeat(r) ==
  /\ Pending(r)
  /\ stored[asked[r].slot] # None
  /\ asked[r].strict => stored[asked[r].slot] = asked[r].body
  /\ said' = [said EXCEPT ![r] = "duplicate"]
  /\ UNCHANGED <<asked, stored>>

Refuse(r) ==
  /\ Pending(r)
  /\ said' = [said EXCEPT ![r] = "refused"]
  /\ UNCHANGED <<asked, stored>>

Next == \E r \in Requests : Ask(r) \/ Accept(r) \/ Repeat(r) \/ Refuse(r)

Spec == Init /\ [][Next]_vars
=============================================================================
