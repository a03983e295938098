\* File shares, no edits, no faults: the guarantees at their strongest.
SPECIFICATION Spec
CONSTANTS
    Shares = {s1, s2}
    Requests = {r1, r2}
    NoShare = NoShare
    Kinds = {"file"}
    Limits = {1, 2}
    TTLs = {1}
    AllowEdits = FALSE
    MaxTime = 2
    Never = 9
    MaxServed = 3
    MaxFaults = 0
SYMMETRY Symmetric
INVARIANTS
    LiveShareHasFile
    LimitReachedIsAnnounced
    ExpireAnnouncedIsGone
PROPERTIES
    SweepLeavesNoOrphan
    BudgetRefined
CHECK_DEADLOCK FALSE
