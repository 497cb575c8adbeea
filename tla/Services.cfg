\* Every service, each by itself.
CONSTANTS
    Users = {"u1", "u2"}
    Houses = {"h1", "h2"}
    Sessions = {"s1", "s2"}
    Requests = {r1, r2}
    Invites = {"i1"}
    Tokens = {"k1", "k2"}
    Seats = 3
    MaxStarts = 4
    MaxFailures = 1
    Founder <- MCFounder
    Billing <- MCBilling
    Movements <- MCMovements
    Sharing <- MCSharing
    Changes <- MCChanges
    Keys <- MCKeys
    Restoring <- MCRestoring
    Pruning <- MCPruning
    Reviewing <- MCReview
    Labels <- MCLabels
    Staging <- MCStaging
SPECIFICATION Services
SYMMETRY Alike
INVARIANTS
    Types
    OneHousehold SessionsInside OldPasswordOut
    AckedApplied AppliedOnce QuotaHeld CounterExact SlotsHeld
    PairsWhole DivisionsAddUp FoldedOnce LatestWins
    FilesHeld KeysFollow RestoredWhole LastGoodKept
    AnswersStand ManualKept UndoIsInverse
PROPERTIES JoiningConsumes AdminRemains
CHECK_DEADLOCK FALSE
