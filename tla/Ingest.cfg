SPECIFICATION FairSpec
CONSTANTS
  checking = checking
  card = card
  buy = buy
  pay = pay
  csv = csv
  Accounts = {checking, card}
  Liability = {card}
  Keys <- MCKeys
  HomeOf <- MCHome
  Credits = {pay}
  Feed <- MCFeed
  Files <- MCFiles
  Requests = {r1}
  Ticks = {scheduler}
  Scheduler = scheduler
  MaxWindow = 2
  MaxEdits = 2
  MaxFailures = 1
CHECK_DEADLOCK FALSE
INVARIANT TypeOK
INVARIANT NothingSkipped
INVARIANT CopiesExact
PROPERTY ImplementsLedger
PROPERTY EventuallyEntered
