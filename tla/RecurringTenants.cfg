\* Two households with one charge in common.
CONSTANTS
    Users = {"u1", "u2"}
    Houses = {"h1", "h2"}
    Sessions = {"s1", "s2"}
    Requests = {r1, r2}
    Invites = {"i1"}
    Tokens = {"k1", "k2"}
    Seats = 3
    MaxStarts = 4
    MaxFailures = 1
    Founder <- MCFounder
    Billing <- MCBilling
    Movements <- MCMovements
    Sharing <- MCSharing
    Changes <- MCChanges
    Keys <- MCKeys
    Restoring <- MCRestoring
    Pruning <- MCPruning
    Reviewing <- MCReview
    Labels <- MCLabels
    Staging <- MCStaging
SPECIFICATION Services
SYMMETRY Alike
INVARIANT OthersDontSuppress
CHECK_DEADLOCK FALSE
