\* What main's comment says of shutting down, and what it does
SPECIFICATION ServerSpec
CONSTANTS
    OldShares = {o1}
    Requests = {r1}
    MaxCrashes = 0
INVARIANT WorkersOutliveRequests
