\* One request applies a plan whose second action fails.
CONSTANTS
    t1 = t1
    c1 = c1
    c2 = c2
    b1 = b1
    b2 = b2
    r1 = r1
    r2 = r2
    Txns = {t1}
    Categories = {c1, c2}
    Batches = {b1}
    Requests = {r1}
    Plans <- MCFailing
    Connections = 3
    MaxGoals = 3
    MaxEdits = 0
    MaxFailures = 0
SPECIFICATION Spec
INVARIANTS FailedLeavesNothing
CHECK_DEADLOCK FALSE
