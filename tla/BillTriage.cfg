SPECIFICATION Spec
CONSTANTS
  b1 = b1
  b2 = b2
  t1 = t1
  t2 = t2
  NoBill = NoBill
  NoTxn = NoTxn
  Scheduler = scheduler
  Bills = {b1, b2}
  Txns = {t1}
  Requests = {r1, r2}
  Recurring = {b1, b2}
  Categorised = {b1}
  AmountVerdicts <- MCVerdicts
  TxnDate <- MCDates
  CycleDays = 4
  MatchWindow = 1
  Grace = 1
  PauseDates = {}
  MaxPeriod = 2
  MaxDay = 0
  MaxEdits = 2
  MaxCrashes = 1
CHECK_DEADLOCK FALSE
INVARIANT AcceptanceAtomic
PROPERTY ResolutionFinal
