\* One upload while two links expire one after the other, with one crash or failed statement.
SPECIFICATION Spec
CONSTANTS
    Links = {l1, l2}
    Files = {f1}
    Requests = {r1}
    NoLink = NoLink
    NoFile = NoFile
    Caps = {1}
    Sizes = {2}
    Quota = 0
    MaxFaults = 1
INVARIANTS
    GoneLinkLeavesNoDir
PROPERTIES
    ExpiredLinksAreReaped
CHECK_DEADLOCK FALSE
