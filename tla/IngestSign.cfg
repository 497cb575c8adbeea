SPECIFICATION Spec
CONSTANTS
  checking = checking
  card = card
  buy = buy
  pay = pay
  csv = csv
  Accounts = {checking, card}
  Liability = {card}
  Keys <- MCKeys
  HomeOf <- MCHome
  Credits = {pay}
  Feed <- MCFeed
  Files <- MCFiles
  Requests = {}
  Ticks = {scheduler}
  Scheduler = scheduler
  MaxWindow = 2
  MaxEdits = 1
  MaxFailures = 0
CHECK_DEADLOCK FALSE
INVARIANT SignKept
