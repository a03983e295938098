\* One request at a time; one connection breaks.
SPECIFICATION Spec
CONSTANTS
    Uploads = {u1}
    Requests = {r1}
    NoUpload = NoUpload
    NumChunks = 2
    ChunkLen = 2
    Declared = {4}
    MaxFails = 1
    MaxCrashes = 0
INVARIANTS
    ReportedIsOnDisk
CHECK_DEADLOCK FALSE
