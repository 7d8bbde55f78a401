CONSTANTS
  k1 = k1
  k2 = k2
  a1 = a1
  a2 = a2
  None = None
  Keys = {k1, k2}
  Agreed = {0, 3, 6}
  Amounts = {1, 2, 3, 4}
  Deltas <- Corrections
  Recipients = {r1, r2}
  Generators = {g1, g2}
  Payments = {1, 2}
  Threshold = 2
  References = {ref1, ref2}
  MaxPayments = 2
  Accounts = {a1, a2}
  Currencies = {usd, eur}
  Names = {n1, n2}
  EntryKeys = {k1, k2}
  Dates = {1, 2, 3}
  Postings <- Transfers
  MaxInFlight = 2
SPECIFICATION FinanceSpec
INVARIANTS
  Capped
  ReceivedIsSettled
  BooksMatchRequests
  FiledIsIdentified
  TrialBalances
PROPERTIES
  ReportNeverShrinks
  PaymentIsReported
  SealedBooksAreFinal
CHECK_DEADLOCK FALSE
