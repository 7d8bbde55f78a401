-------------------------- MODULE CommissionLedger --------------------------
(***************************************************************************)
(* One commission: what was agreed (expected amount and adjustments), what *)
(* was received and how it is split among recipients.                      *)
(*                                                                         *)
(* Every handler takes the commission's row lock before it reads anything  *)
(* (_load_commission_or_404), the idempotency record included, so each is  *)
(* one step.  A caller that lost the answer sends the request again under  *)
(* its key: a key that is answered changes nothing.                        *)
(*                                                                         *)
(* Amounts are counted in half cents.  The schemas accept any number of    *)
(* decimals and the checks use the amount as sent; the columns are         *)
(* Numeric(18,2), so what is stored is rounded to a whole cent, an even    *)
(* number here.  Rows of adjustments and splits are only ever inserted and *)
(* their amounts never updated: the SUM the code takes over them is kept   *)
(* as a running total, adjusted and allocated.                             *)
(***************************************************************************)
EXTENDS Integers, FiniteSets, Functions, Absent

CONSTANTS Keys,      \* idempotency identities: an actor and a key
          Agreed,    \* expected amounts a confirmation may state
          Amounts,   \* amounts of receipts and splits
          Deltas     \* amounts of adjustments

ASSUME CommissionAssumption ==
  /\ Agreed \subseteq Nat
  /\ Amounts \subseteq Nat \ {0}
  /\ Deltas \subseteq Int
  /\ None \notin Int

VARIABLES
  expected,   \* commissions.expected_amount
  received,   \* commissions.received_amount
  status,     \* commissions.status
  adjusted,   \* SUM(commission_adjustments.amount)
  allocated,  \* SUM(commission_splits.amount)
  paid,       \* SUM(commission_splits.amount) over the PAID splits
  answered,   \* idempotency_records: the amount a key was used with, per route
  split       \* commission_splits.status by the key that created the split

vars == <<expected, received, status, adjusted, allocated, paid, answered, split>>

Routes == {"adjustments", "receipts", "splits"}
CommissionStatuses == {"EXPECTED", "PARTIALLY_RECEIVED", "RECEIVED"}
SplitStatuses == {"NONE", "PENDING", "PAID"}

\* Rounding of a Numeric(18,2) column: to the nearest cent, half a cent away from zero.
Stored(x) == IF x >= 0 THEN 2 * ((x + 1) \div 2) ELSE -(2 * ((1 - x) \div 2))

TypeOK ==
  /\ expected \in Nat /\ received \in Nat
  /\ adjusted \in Int /\ allocated \in Nat /\ paid \in Nat
  /\ status \in CommissionStatuses
  /\ answered \in [Routes -> [Keys -> Int \union {None}]]
  /\ split \in [Keys -> SplitStatuses]

net == expected + adjusted

\* confirm_funding inserts the commission
Init ==
  /\ \E x \in Agreed : expected = Stored(x)
  /\ received = 0 /\ status = "EXPECTED"
  /\ adjusted = 0 /\ allocated = 0 /\ paid = 0
  /\ answered = [r \in Routes |-> [k \in Keys |-> None]]
  /\ split = [k \in Keys |-> "NONE"]

\* Mutant: the idempotency record is written and never looked up.
Repeatable(route, k, x) == answered' = [answered EXCEPT ![route][k] = x]

\* A request whose key is not answered yet, and the record written with its effect.
Fresh(route, k, x) ==
  /\ answered[route][k] = None
  /\ answered' = [answered EXCEPT ![route][k] = x]

\* The amount of a receipt is checked and the status computed before the row is rounded.
record_commission_receipt(k, x) ==
  /\ Fresh("receipts", k, x)
  /\ received + x <= net
  /\ received' = Stored(received + x)
  /\ status' = IF received + x >= net THEN "RECEIVED" ELSE "PARTIALLY_RECEIVED"
  /\ UNCHANGED <<expected, adjusted, allocated, paid, split>>

create_commission_split(k, x) ==
  /\ Fresh("splits", k, x)
  /\ allocated + x <= net
  /\ allocated' = allocated + Stored(x)
  /\ split' = [split EXCEPT ![k] = "PENDING"]
  /\ UNCHANGED <<expected, received, status, adjusted, paid>>

\* Mutants: a correction that forgets the splits, one that leaves the status alone.
adjust_under_splits(k, x) ==
  /\ x # 0
  /\ Fresh("adjustments", k, x)
  /\ net + x > 0 /\ net + x >= received
  /\ adjusted' = adjusted + Stored(x)
  /\ UNCHANGED <<expected, received, status, allocated, paid, split>>
adjust_silently(k, x) ==
  /\ net + x >= allocated
  /\ adjust_under_splits(k, x)
create_commission_adjustment(k, x) ==
  /\ x # 0
  /\ Fresh("adjustments", k, x)
  /\ net + x > 0
  /\ net + x >= received
  /\ net + x >= allocated
  /\ adjusted' = adjusted + Stored(x)
  /\ status' = CASE received >= net + x -> "RECEIVED"
                 [] received < net + x /\ received > 0 -> "PARTIALLY_RECEIVED"
                 [] OTHER -> "EXPECTED"
  /\ UNCHANGED <<expected, received, allocated, paid, split>>

mark_commission_split_paid(k) ==
  /\ split[k] = "PENDING"
  /\ split' = [split EXCEPT ![k] = "PAID"]
  /\ paid' = paid + Stored(answered["splits"][k])
  /\ UNCHANGED <<expected, received, status, adjusted, allocated, answered>>

Next ==
  \E k \in Keys :
    \/ \E x \in Amounts : record_commission_receipt(k, x)
    \/ \E x \in Amounts : create_commission_split(k, x)
    \/ \E x \in Deltas : create_commission_adjustment(k, x)
    \/ mark_commission_split_paid(k)

Spec == Init /\ [][Next]_vars
-----------------------------------------------------------------------------
\* Neither the money received nor the money promised to recipients exceeds what
\* is owed after every adjustment, although the amount that is checked is not
\* the amount that is stored (the 422 branches of the three handlers).
Capped == received <= net /\ allocated <= net

\* A commission that says RECEIVED has been received in full, also after a later
\* adjustment; one that says EXPECTED has received nothing.
ReceivedIsSettled ==
  /\ status = "RECEIVED" => received = net
  /\ status = "EXPECTED" => received = 0

\* However often a request is repeated, the amounts on the books are those of
\* the keys that were answered, each counted once; a split is paid out once.
Booked(route) ==
  SumFunction([k \in {l \in Keys : answered[route][l] # None} |-> Stored(answered[route][k])])

PaidOut == SumFunction([k \in {l \in Keys : split[l] = "PAID"} |-> Stored(answered["splits"][k])])

BooksMatchRequests ==
  /\ received = Booked("receipts")
  /\ adjusted = Booked("adjustments")
  /\ allocated = Booked("splits")
  /\ paid = PaidOut
=============================================================================
