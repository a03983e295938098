\* One upload after the other to a link that shares what it receives.
SPECIFICATION Spec
CONSTANTS
    Links = {l1}
    Files = {f1, f2}
    Requests = {r1}
    NoLink = NoLink
    NoFile = NoFile
    Caps = {0}
    Sizes = {2}
    Quota = 3
    MaxFaults = 0
INVARIANTS
    QuotaHonoured
CHECK_DEADLOCK FALSE
