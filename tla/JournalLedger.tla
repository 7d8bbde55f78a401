---------------------------- MODULE JournalLedger ----------------------------
(***************************************************************************)
(* The double-entry books of one organization: the chart of accounts, the  *)
(* accounting periods and the journal entries, written by finance users    *)
(* whose requests run side by side.                                        *)
(*                                                                         *)
(* Creating a period looks for an overlapping one, and posting an entry    *)
(* looks for the period of its date, before the row is inserted and        *)
(* without a lock on what was read: both are split there (inflight holds   *)
(* what they are about to insert).  Closing a period locks its row and is  *)
(* one step.  Amounts have two decimals at the API and in the columns, so  *)
(* they are whole cents.                                                   *)
(***************************************************************************)
EXTENDS Integers, FiniteSets, Functions, Absent

CONSTANTS Accounts,    \* account codes
          Currencies,
          Names,       \* names of accounting periods
          EntryKeys,   \* idempotency keys of journal commands
          Dates,       \* effective dates; a period is a half-open interval
          Postings,    \* the net debits of a command, by account
          MaxInFlight  \* bound: requests between their reads and their insert

Periods == [from : Dates, to : Dates, status : {"OPEN", "CLOSED"}]

ASSUME LedgerAssumption ==
  /\ Dates \subseteq Int
  /\ IsFiniteSet(Accounts)
  /\ Postings \subseteq [Accounts -> Int]
  /\ MaxInFlight \in Nat
  /\ None \notin Currencies \union Periods

VARIABLES
  accounts, \* the currency of each ledger account, None before the row exists
  periods,  \* the accounting periods, by name
  entries,  \* the journal entries, by idempotency key
  inflight  \* requests that have read and not yet inserted

books == <<accounts, periods, entries, inflight>>

\* A journal command: the request hash covers all of it.
Commands == [currency : Currencies, date : Dates, postings : Postings]

Entries == [command : Commands, period : Names]

Requests ==
  [kind : {"period"}, name : Names, from : Dates, to : Dates]
    \union [kind : {"post"}, key : EntryKeys, command : Commands, period : Names]

BooksInit ==
  /\ accounts = [a \in Accounts |-> None]
  /\ periods = [n \in Names |-> None]
  /\ entries = [k \in EntryKeys |-> None]
  /\ inflight = {}

-----------------------------------------------------------------------------
Created == {n \in Names : periods[n] # None}

Covers(p, date) == p.from <= date /\ date < p.to

Overlap(p, q) == p.from < q.to /\ q.from < p.to

Touched(postings) == {a \in Accounts : postings[a] # 0}

Open(request) ==
  /\ Cardinality(inflight) < MaxInFlight
  /\ request \notin inflight
  /\ inflight' = inflight \union {request}
  /\ UNCHANGED <<accounts, periods, entries>>

\* A code is used once; nothing changes an account afterwards.
create_ledger_account(a, currency) ==
  /\ accounts[a] = None
  /\ accounts' = [accounts EXCEPT ![a] = currency]
  /\ UNCHANGED <<periods, entries, inflight>>

\* Mutant: compares the new period with the open ones only.
create_beside_closed(n, from, to) ==
  /\ from < to
  /\ \A m \in Created : periods[m].status = "OPEN" => ~Overlap(periods[m], [from |-> from, to |-> to])
  /\ Open([kind |-> "period", name |-> n, from |-> from, to |-> to])

\* create_accounting_period has seen that nothing committed overlaps.
create_accounting_period(n, from, to) ==
  /\ from < to
  /\ \A m \in Created : ~Overlap(periods[m], [from |-> from, to |-> to])
  /\ Open([kind |-> "period", name |-> n, from |-> from, to |-> to])

\* The insert: the name is unique, the interval is not protected.
period_commit(r) ==
  /\ r.kind = "period"
  /\ periods[r.name] = None
  /\ periods' = [periods EXCEPT ![r.name] = [from |-> r.from, to |-> r.to, status |-> "OPEN"]]
  /\ inflight' = inflight \ {r}
  /\ UNCHANGED <<accounts, entries>>

\* Under the row lock: only an open period can be closed, and for good.
close_accounting_period(n) ==
  /\ n \in Created
  /\ periods[n].status = "OPEN"
  /\ periods' = [periods EXCEPT ![n].status = "CLOSED"]
  /\ UNCHANGED <<accounts, entries, inflight>>

\* Debits and credits balance and some account moves.
Balanced(postings) ==
  /\ Touched(postings) # {}
  /\ SumFunction(postings) = 0

\* Mutant: every account exists, in whatever currency.
AccountsExist(command) == \A a \in Touched(command.postings) : accounts[a] # None

\* Every account posted to exists in the currency of the command.
AccountsFit(command) == \A a \in Touched(command.postings) : accounts[a] = command.currency

\* post_journal has found the key unused, the accounts fit and the period that
\* period_for_date returns (any, if several cover the date) open.
post_journal(k, command) ==
  /\ entries[k] = None
  /\ Balanced(command.postings)
  /\ AccountsFit(command)
  /\ \E n \in Created :
       /\ Covers(periods[n], command.date)
       /\ periods[n].status = "OPEN"
       /\ Open([kind |-> "post", key |-> k, command |-> command, period |-> n])

\* The insert: the key is unique; the foreign key asks that the period exists.
post_commit(r) ==
  /\ r.kind = "post"
  /\ entries[r.key] = None
  /\ entries' = [entries EXCEPT ![r.key] = [command |-> r.command, period |-> r.period]]
  /\ inflight' = inflight \ {r}
  /\ UNCHANGED <<accounts, periods>>

\* The name or the key was taken meanwhile (the latter is answered with the
\* entry that took it), or the request is lost.
rollback(r) ==
  /\ inflight' = inflight \ {r}
  /\ UNCHANGED <<accounts, periods, entries>>

BooksNext ==
  \/ \E a \in Accounts, currency \in Currencies : create_ledger_account(a, currency)
  \/ \E n \in Names, from, to \in Dates : create_accounting_period(n, from, to)
  \/ \E n \in Names : close_accounting_period(n)
  \/ \E k \in EntryKeys, command \in Commands : post_journal(k, command)
  \/ \E r \in inflight : period_commit(r) \/ post_commit(r) \/ rollback(r)

BooksSpec == BooksInit /\ [][BooksNext]_books

\* One request at a time: what a request has read still holds when it inserts.
Alone == inflight # {} => inflight' = {}

SerialSpec == BooksInit /\ [][BooksNext /\ Alone]_books

-----------------------------------------------------------------------------
\* trial_balance: the total of every account of a currency, over the entries
\* of that currency up to a date.
Counted(currency, date) ==
  {k \in EntryKeys : /\ entries[k] # None
                /\ entries[k].command.currency = currency
                /\ entries[k].command.date <= date}

Total(a, currency, date) ==
  SumFunction([k \in Counted(currency, date) |-> entries[k].command.postings[a]])

Listed(currency) == {a \in Accounts : accounts[a] = currency}

trial_balance(currency, date) ==
  SumFunction([a \in Listed(currency) |-> Total(a, currency, date)])

-----------------------------------------------------------------------------
\* Every variable has its type.
BooksTypeOK ==
  /\ accounts \in [Accounts -> Currencies \union {None}]
  /\ periods \in [Names -> Periods \union {None}]
  /\ entries \in [EntryKeys -> Entries \union {None}]
  /\ inflight \subseteq Requests

\* The trial balance of every currency is balanced at every date: what
\* post_journal checks of one command adds up over the accounts the report
\* lists, which it selects by another column.
TrialBalances ==
  \A currency \in Currencies, date \in Dates : trial_balance(currency, date) = 0

\* A posted entry stays in a period that covers its date, even though the
\* period was read before the entry was inserted and may have been closed or
\* overlapped since.
EntryInItsPeriod ==
  \A k \in EntryKeys : entries[k] # None =>
    /\ periods[entries[k].period] # None
    /\ Covers(periods[entries[k].period], entries[k].command.date)

\* A key keeps the entry it was first used for: two requests with one key never
\* post twice nor replace what is in the books.
PostedIsFinal ==
  [][\A k \in EntryKeys : entries[k] # None => entries'[k] = entries[k]]_books

\* "Accounting periods may not overlap."
PeriodsDoNotOverlap ==
  \A m, n \in Created : m # n => ~Overlap(periods[m], periods[n])

\* The entries dated inside a period.
DatedIn(n) == {k \in EntryKeys : entries[k] # None /\ Covers(periods[n], entries[k].command.date)}

\* Closing a period makes its books final: no entry dated inside it is posted
\* afterwards, into it or into another period over the same date.
ClosedBooksAreFinal ==
  [][\A n \in Names : n \in Created /\ periods[n].status = "CLOSED" => DatedIn(n)' = DatedIn(n)]_books

\* A closed period is sealed once the requests that read before its closing
\* have ended: nobody is about to post inside it and no other period shares or
\* is about to share its dates.
Sealed(n) ==
  /\ n \in Created /\ periods[n].status = "CLOSED"
  /\ \A m \in Created : m # n => ~Overlap(periods[m], periods[n])
  /\ \A r \in inflight :
       /\ r.kind = "post" => ~Covers(periods[n], r.command.date)
       /\ r.kind = "period" => ~Overlap(periods[n], r)

\* What closing achieves among requests that run side by side: a sealed period
\* stays sealed and the entries inside it stay what they are.
SealedBooksAreFinal ==
  [][\A n \in Names : Sealed(n) => Sealed(n)' /\ DatedIn(n)' = DatedIn(n)]_books
=============================================================================
