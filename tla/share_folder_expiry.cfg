\* A folder share expires while a file share is live.
SPECIFICATION Spec
CONSTANTS
    Shares = {s1, s2}
    Requests = {r1}
    NoShare = NoShare
    Kinds = {"file", "folder"}
    Limits = {0}
    TTLs = {0, 1}
    AllowEdits = FALSE
    MaxTime = 1
    Never = 9
    MaxServed = 1
    MaxFaults = 0
INVARIANTS
    LiveShareHasFile
CHECK_DEADLOCK FALSE
