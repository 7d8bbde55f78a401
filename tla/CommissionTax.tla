--------------------------- MODULE CommissionTax ---------------------------
(***************************************************************************)
(* The commission tax records of one tax year.  Payments to recipients are *)
(* recorded while the records are generated, completed with the recipient's*)
(* identity and filed.                                                     *)
(*                                                                         *)
(* Generation, identity and filing hold the advisory lock of the year for  *)
(* their whole transaction; recording a payment does not take it.  Filing  *)
(* and identity read and write under the lock and are one step each;       *)
(* generation reads the payments in one statement and writes the records   *)
(* in a later one, so it is two.  Nothing of another year is read or       *)
(* written, so the model has one year.                                     *)
(***************************************************************************)
EXTENDS Naturals, Absent

CONSTANTS Recipients,   \* (recipient_type, recipient_reference)
          Generators,   \* requests that may generate at the same time
          Payments,     \* amounts of the paid splits
          Threshold,    \* _FORM_1099_NEC_THRESHOLD
          References,   \* filing references
          MaxPayments   \* bound: paid splits of a recipient in the year

Evidence == [total : Nat, count : Nat]
CommissionTaxRecord ==
  [total : Nat, count : Nat, requires_1099 : BOOLEAN,
   identified : BOOLEAN, filing_reference : References \union {None}]

ASSUME TaxAssumption ==
  /\ Payments \subseteq Nat \ {0}
  /\ Threshold \in Nat /\ MaxPayments \in Nat
  /\ None \notin References /\ None \notin CommissionTaxRecord

VARIABLES
  evidence,  \* per recipient: total and count of the PAID splits of the year
  record,    \* commission_tax_records, None before the row exists
  snapshot   \* what a generation has read and not yet committed

tax == <<evidence, record, snapshot>>

TaxTypeOK ==
  /\ evidence \in [Recipients -> Evidence]
  /\ \A r \in Recipients : record[r] = None \/ record[r] \in CommissionTaxRecord
  /\ \A g \in Generators : snapshot[g] = None \/ snapshot[g] \in [Recipients -> Evidence]
  /\ DOMAIN record = Recipients /\ DOMAIN snapshot = Generators

TaxInit ==
  /\ evidence = [r \in Recipients |-> [total |-> 0, count |-> 0]]
  /\ record = [r \in Recipients |-> None]
  /\ snapshot = [g \in Generators |-> None]

\* lock_commission_tax_year: granted when no open transaction has it.
YearIsFree == \A g \in Generators : snapshot[g] = None

Filed(r) == record[r] # None /\ record[r].filing_reference # None

\* An operator records that a pending split was paid in this year.
pay_recipient(r, x) ==
  /\ evidence[r].count < MaxPayments
  /\ evidence' = [evidence EXCEPT ![r] = [total |-> @.total + x, count |-> @.count + 1]]
  /\ UNCHANGED <<record, snapshot>>

\* Mutant: generators do not wait for each other.
generate_read_unlocked(g) ==
  /\ snapshot[g] = None
  /\ snapshot' = [snapshot EXCEPT ![g] = evidence]
  /\ UNCHANGED <<evidence, record>>

generate_read(g) ==
  /\ YearIsFree
  /\ snapshot' = [snapshot EXCEPT ![g] = evidence]
  /\ UNCHANGED <<evidence, record>>

\* The record of recipient r recomputed from what was read.
Regenerated(r, read) ==
  [total |-> read.total, count |-> read.count, requires_1099 |-> read.total >= Threshold,
   identified |-> record[r] # None /\ record[r].identified,
   filing_reference |-> IF record[r] = None THEN None ELSE record[r].filing_reference]

\* Mutant: a record that exists is not regenerated.
generate_new_only(g) ==
  /\ snapshot[g] # None
  /\ record' = [r \in Recipients |->
       IF record[r] # None \/ snapshot[g][r].count = 0 THEN record[r]
       ELSE Regenerated(r, snapshot[g][r])]
  /\ snapshot' = [snapshot EXCEPT ![g] = None]
  /\ UNCHANGED evidence

\* One filed record that would change refuses the whole year.
generate_commit(g) ==
  /\ snapshot[g] # None
  /\ \A r \in Recipients : Filed(r) => Regenerated(r, snapshot[g][r]) = record[r]
  /\ record' = [r \in Recipients |->
       IF record[r] = None /\ snapshot[g][r].count = 0 THEN None
       ELSE Regenerated(r, snapshot[g][r])]
  /\ snapshot' = [snapshot EXCEPT ![g] = None]
  /\ UNCHANGED evidence

\* The ValueError of an immutable record, a key answered meanwhile, a lost connection.
generate_rollback(g) ==
  /\ snapshot[g] # None
  /\ snapshot' = [snapshot EXCEPT ![g] = None]
  /\ UNCHANGED <<evidence, record>>

set_tax_record_tin(r) ==
  /\ YearIsFree
  /\ record[r] # None /\ ~Filed(r)
  /\ record' = [record EXCEPT ![r].identified = TRUE]
  /\ UNCHANGED <<evidence, snapshot>>

\* Mutant: filing does not ask for the recipient's identity.
file_anonymously(r, ref) ==
  /\ YearIsFree
  /\ record[r] # None /\ ~Filed(r)
  /\ record' = [record EXCEPT ![r].filing_reference = ref]
  /\ UNCHANGED <<evidence, snapshot>>

\* Filing again with the same reference changes nothing, with another is refused.
record_tax_filing(r, ref) ==
  /\ YearIsFree
  /\ record[r] # None /\ ~Filed(r)
  /\ record[r].requires_1099 => record[r].identified
  /\ record' = [record EXCEPT ![r].filing_reference = ref]
  /\ UNCHANGED <<evidence, snapshot>>

TaxNext ==
  \/ \E r \in Recipients, x \in Payments : pay_recipient(r, x)
  \/ \E g \in Generators : generate_read(g) \/ generate_commit(g) \/ generate_rollback(g)
  \/ \E r \in Recipients : set_tax_record_tin(r)
  \/ \E r \in Recipients, ref \in References : record_tax_filing(r, ref)

TaxSpec == TaxInit /\ [][TaxNext]_tax

\* Operators keep generating the year; every generation ends, and one that may
\* commit does.
Generating ==
  \A g \in Generators : /\ SF_tax(generate_read(g)) /\ SF_tax(generate_commit(g))
                        /\ WF_tax(generate_rollback(g))
-----------------------------------------------------------------------------
\* No record states more than was paid, whichever generation wrote it and
\* whatever was paid since: the totals are recomputed, not accumulated.
RecordsAreEvidenced ==
  \A r \in Recipients : record[r] # None =>
    /\ record[r].total <= evidence[r].total
    /\ record[r].count <= evidence[r].count

\* A recipient above the threshold is never filed without name and TIN, also
\* when the payment that crosses the threshold comes after a filing below it.
FiledIsIdentified ==
  \A r \in Recipients :
    Filed(r) /\ record[r].total >= Threshold => record[r].identified

\* Nothing about a filed record changes: not its total, not the identity, not
\* the reference (the two ValueErrors and FILING_ALREADY_RECORDED).
FiledIsFrozen ==
  [][\A r \in Recipients : Filed(r) => record'[r] = record[r]]_tax

\* Two generations never write out of order: a reported total does not shrink.
ReportNeverShrinks ==
  [][\A r \in Recipients : record[r] # None =>
       record'[r] # None /\ record'[r].total >= record[r].total]_tax

\* A payment to a recipient who is not filed yet gets into the recipient's
\* record, unless some recipient was paid after filing: that refuses the
\* generation of the year for everybody.
PaidAfterFiling(r) == Filed(r) /\ record[r].count # evidence[r].count

PaymentIsReported ==
  \A r \in Recipients :
    evidence[r].count > 0 ~>
      \/ record[r] # None /\ (Filed(r) \/ record[r].count = evidence[r].count)
      \/ \E q \in Recipients : PaidAfterFiling(q)
=============================================================================
