\* Concurrent chunk, finalize and cleanup steps, with a broken connection and a crash.
SPECIFICATION Spec
CONSTANTS
    Uploads = {u1}
    Requests = {r1, r2}
    NoUpload = NoUpload
    NumChunks = 2
    ChunkLen = 2
    Declared = {3}
    MaxFails = 1
    MaxCrashes = 1
INVARIANTS
    TypeOK
    OneSharePerUpload
    SharedIsFinished
    BrokenHasACause
    DeclaredSizeIsACap
PROPERTIES
    InterruptedUploadsGo
CHECK_DEADLOCK FALSE
