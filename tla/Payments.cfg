\* One invoice, two payments of it, two requests at a time.
CONSTANTS
  NoRow = NoRow
  Invoices = {i1}
  Payments = {p1, p2}
  Workers = {w1, w2}
  Totals <- MCTotals
SPECIFICATION FairSpec
\* The tenancy may end before any invoice: then nothing is left to be asked for.
CHECK_DEADLOCK FALSE
INVARIANTS
  TypeOK
  LedgerBalances
  PaidIffCompleted
  CompletedWasExecuted
PROPERTIES
  PaymentForBalance
  CompletedIsFinal
  EveryRequestEnds
