------------------------------ MODULE MCFinance ------------------------------
(***************************************************************************)
(* The three books in money, one at a time: a commission, the tax records  *)
(* of a year, the journal of an organization.  No book decides on what     *)
(* another writes, but for the paid splits of which the tax records are    *)
(* made, and CommissionTax has their recording as an action of its own:    *)
(* a behaviour that mixes the books shows nothing that one of each does    *)
(* not.                                                                    *)
(*                                                                         *)
(* Commission: two keys per route, amounts up to two cents in half cents,  *)
(* corrections in both directions.  Journal: two accounts, two currencies, *)
(* two periods, two keys; a command moves one cent between the accounts.   *)
(***************************************************************************)
EXTENDS CommissionLedger, CommissionTax, JournalLedger, TLC

CONSTANTS k1, k2, a1, a2

Corrections == {-3, -2, -1, 1, 2}
Transfers == {(a1 :> 1 @@ a2 :> -1), (a1 :> -1 @@ a2 :> 1), (a1 :> 1 @@ a2 :> 0)}

VARIABLE book  \* the one in use

\* An unused commission has one of the amounts only, to have one initial state.
FinanceInit ==
  /\ Init /\ TaxInit /\ BooksInit
  /\ book \in {"commission", "tax", "journal"}
  /\ book # "commission" => expected = 0

FinanceNext ==
  /\ UNCHANGED book
  /\ \/ book = "commission" /\ Next /\ UNCHANGED <<tax, books>>
     \/ book = "tax" /\ TaxNext /\ UNCHANGED <<vars, books>>
     \/ book = "journal" /\ BooksNext /\ UNCHANGED <<vars, tax>>

\* Operators keep generating the tax year.  A behaviour with another book in
\* use never lets them, so nothing is asked of where it ends, only of its states
\* and steps.
FinanceSpec == FinanceInit /\ [][FinanceNext]_<<vars, tax, books, book>> /\ Generating
=============================================================================
