\* Receipts, staged batches and insight cards, each by itself.  Of receipts, two
\* uploads race for the first key, beside crashes and the OCR sweep.
CONSTANTS
    Files = {"f1", "f2"}
    Legacy0 = {}
    Legacy1 = {}
    Requests = {"r1", "r2"}
    Rotators = {}
    Secrets = {}
    InitialKeks = {0, 1}
    MaxDeks = 2
    MaxKeks = 1
    MaxEdits = 1
    MaxFailures = 2
SPECIFICATION FairServices
INVARIANTS Types FilesHeld
PROPERTIES SettledStays ReceiptAnswered RequestsEnd SignalSurfaces
CHECK_DEADLOCK FALSE
