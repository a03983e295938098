\* Two uploads to one link, its owner and the sweep, with one crash or failed statement.
SPECIFICATION Spec
CONSTANTS
    Links = {l1}
    Files = {f1, f2}
    Requests = {r1, r2, r3}
    NoLink = NoLink
    NoFile = NoFile
    Caps = {0, 1}
    Sizes = {2}
    Quota = 3
    MaxFaults = 1
SYMMETRY Symmetric
INVARIANTS
    TypeOK
    CapHonoured
    RefusedLeavesNothing
    AcceptedIsKept
    TotalIsSum
    QuotaHonouredInTurn
CHECK_DEADLOCK FALSE
