SPECIFICATION Spec
CONSTANTS
  b1 = b1
  b2 = b2
  t1 = t1
  t2 = t2
  NoBill = NoBill
  NoTxn = NoTxn
  Scheduler = scheduler
  Bills = {b1}
  Txns = {t1, t2}
  Requests = {r1}
  Recurring = {}
  Categorised = {b1}
  AmountVerdicts <- MCVerdicts
  TxnDate <- MCDates
  CycleDays = 4
  MatchWindow = 1
  Grace = 1
  PauseDates = {}
  MaxPeriod = 2
  MaxDay = 0
  MaxEdits = 0
  MaxCrashes = 0
CHECK_DEADLOCK FALSE
PROPERTY FirstPaymentKept
