\* One share under two concurrent requests, with edits, folders and a fault.
SPECIFICATION Spec
CONSTANTS
    Shares = {s1}
    Requests = {r1, r2}
    NoShare = NoShare
    Kinds = {"file", "folder"}
    Limits = {1, 2}
    TTLs = {0, 1}
    AllowEdits = TRUE
    MaxTime = 1
    Never = 9
    MaxServed = 2
    MaxFaults = 1
INVARIANTS
    TypeOK
    LimitHonoured
PROPERTIES
    ExpiredSharesAreReaped
CHECK_DEADLOCK FALSE
