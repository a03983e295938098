\* A download is counted between an edit's read and its write.
SPECIFICATION Spec
CONSTANTS
    Shares = {s1}
    Requests = {r1, r2}
    NoShare = NoShare
    Kinds = {"file"}
    Limits = {1, 2}
    TTLs = {1}
    AllowEdits = TRUE
    MaxTime = 1
    Never = 9
    MaxServed = 2
    MaxFaults = 0
PROPERTIES
    CounterNeverFalls
CHECK_DEADLOCK FALSE
