\* One request at a time and one crash.
SPECIFICATION Spec
CONSTANTS
    Uploads = {u1}
    Requests = {r1}
    NoUpload = NoUpload
    NumChunks = 2
    ChunkLen = 2
    Declared = {4}
    MaxFails = 0
    MaxCrashes = 1
INVARIANTS
    SharesAreWhole
CHECK_DEADLOCK FALSE
