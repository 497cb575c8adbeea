SPECIFICATION FairSpec
CONSTANTS
  b1 = b1
  b2 = b2
  t1 = t1
  t2 = t2
  NoBill = NoBill
  NoTxn = NoTxn
  Scheduler = scheduler
  Bills = {b1}
  Txns = {t1}
  Requests = {r1}
  Recurring = {b1}
  Categorised = {b1}
  AmountVerdicts <- MCVerdicts
  TxnDate <- MCDatesLater
  CycleDays = 3
  MatchWindow = 2
  Grace = 0
  PauseDates = {3}
  MaxPeriod = 2
  MaxDay = 4
  MaxEdits = 2
  MaxCrashes = 1
CHECK_DEADLOCK FALSE
INVARIANT TypeOK
INVARIANT LedgerComplete
INVARIANT AutoLinkIsConfident
PROPERTY PastDueIsSwept
