----------------------------- MODULE ChunkUpload -----------------------------
(***************************************************************************)
(* Resumable uploads: a registry in memory guarded by one mutex, a temp    *)
(* directory per upload holding a manifest and one file per chunk, and the *)
(* handlers that touch the directory after they have let go of the mutex.  *)
(*                                                                         *)
(* Every file-system call and every critical section of chunkUploadsMu is  *)
(* one step; os.RemoveAll is two, for a file may be created between the    *)
(* removal of the files and that of the directory.  The length of a        *)
(* chunk's body is the client's choice, in blocks; a file is the set of    *)
(* blocks that hold the client's bytes, so a gap is a hole another         *)
(* writer's truncation left.  Bodies of one chunk agree where both have a  *)
(* block.  An open file that is unlinked is still written to, but nobody   *)
(* will open it: a request knows whether its file is linked.               *)
(*                                                                         *)
(* Left out: the removal of the whole uploads directory when a folder      *)
(* share expires (ShareLifecycle); it only takes files away.               *)
(***************************************************************************)
EXTENDS Integers, FiniteSets, FiniteSetsExt

CONSTANTS
    Uploads,        \* upload ids (UUIDs)
    Requests,       \* concurrent request goroutines
    NoUpload,       \* a request that works on no upload
    NumChunks,      \* totalChunks of an upload
    ChunkLen,       \* bound: blocks in a chunk's body
    Declared,       \* values of totalSize a client declares, in blocks
    MaxFails,       \* bound: chunk requests whose connection breaks
    MaxCrashes      \* bound: process crashes

ASSUME UploadConstants ==
    /\ NoUpload \notin Uploads
    /\ NumChunks \in Nat \ {0}
    /\ ChunkLen \in Nat \ {0}
    /\ Declared \subseteq Nat
    /\ MaxFails \in Nat
    /\ MaxCrashes \in Nat

VARIABLES
    dirs,           \* uploads whose temp directory exists
    manifests,      \* uploads whose manifest.json is readable
    present,        \* <<upload, chunk>> pairs whose chunk file is in the directory
    bytes,          \* [Uploads \X Chunks -> SUBSET Blocks]: what is in that file
    sent,           \* history: [Uploads \X Chunks -> 0..ChunkLen], the length of the
                    \* body for which that file was created last
    declared,       \* [Uploads -> Nat]: TotalSize (in the manifest and the registry)
    reg,            \* uploads in chunkUploads
    received,       \* [Uploads -> SUBSET Chunks]: ChunksReceived
    sizes,          \* [Uploads -> [Chunks -> Nat]]: ChunkSizes
    receivedBytes,  \* [Uploads -> Nat]: ReceivedBytes
    req,            \* [Requests -> Request]
    old,            \* uploads created more than 24 hours ago
    cleaner,        \* whether the cleanup worker was started
    cleaning,       \* the upload whose directory the worker is removing, mutex held
    fails,          \* broken connections so far
    crashes,        \* crashes so far
    shares,         \* [Uploads -> Nat]: shares made from the upload
    broken,         \* history: uploads with a share that is not the client's file
    overlapped,     \* history: uploads with a chunk read while it was being written,
                    \* or written by two requests at a time, not of the same length
    cut,            \* history: uploads restored with a chunk file that was not whole
    littered        \* history: uploads a chunk file was created for while the directory
                    \* was being removed, or whose removal a crash cut short

disk == <<dirs, manifests, present, bytes, sent, declared>>
registry == <<reg, received, sizes, receivedBytes>>
counters == <<fails, crashes>>
worker == <<cleaner, cleaning>>
history == <<broken, overlapped, cut, littered>>
vars == <<disk, registry, req, old, worker, counters, shares, history>>

Chunks == 0..(NumChunks - 1)
Blocks == 1..ChunkLen

PCs == {"idle", "making", "registering",
        "creating", "copying", "discarding",
        "taking", "decoding", "assembling", "reading", "clearing", "saving",
        "dropping", "removing"}

\* chunk: the index being sent, or the next one to assemble; len: blocks in the
\* body; filled: blocks copied so far; linked: whether the open file still has
\* its name; whole: whether all assembled so far is the client's
Request == [pc : PCs, upload : Uploads \union {NoUpload}, chunk : 0..NumChunks,
            len : 0..ChunkLen, filled : 0..ChunkLen, linked : BOOLEAN, whole : BOOLEAN]
Idle == [pc |-> "idle", upload |-> NoUpload, chunk |-> 0, len |-> 0, filled |-> 0,
         linked |-> FALSE, whole |-> TRUE]

TypeOK ==
    /\ dirs \subseteq Uploads
    /\ manifests \subseteq dirs
    /\ present \subseteq Uploads \X Chunks
    /\ bytes \in [Uploads \X Chunks -> SUBSET Blocks]
    /\ sent \in [Uploads \X Chunks -> 0..ChunkLen]
    /\ declared \in [Uploads -> Nat]
    /\ reg \subseteq Uploads
    /\ received \in [Uploads -> SUBSET Chunks]
    /\ sizes \in [Uploads -> [Chunks -> 0..ChunkLen]]
    /\ receivedBytes \in [Uploads -> Nat]
    /\ req \in [Requests -> Request]
    /\ \A p \in Requests : req[p].pc # "idle" => req[p].upload \in Uploads
    /\ old \subseteq Uploads
    /\ cleaner \in BOOLEAN
    /\ cleaning \in Uploads \union {NoUpload}
    /\ fails \in Nat /\ crashes \in Nat
    /\ shares \in [Uploads -> Nat]
    /\ broken \subseteq Uploads /\ overlapped \subseteq Uploads
    /\ cut \subseteq Uploads /\ littered \subseteq Uploads

Init ==
    /\ dirs = {} /\ manifests = {} /\ present = {}
    /\ bytes = [f \in Uploads \X Chunks |-> {}]
    /\ sent = [f \in Uploads \X Chunks |-> 0]
    /\ declared = [u \in Uploads |-> 0]
    /\ reg = {}
    /\ received = [u \in Uploads |-> {}]
    /\ sizes = [u \in Uploads |-> [c \in Chunks |-> 0]]
    /\ receivedBytes = [u \in Uploads |-> 0]
    /\ req = [p \in Requests |-> Idle]
    /\ old = {}
    /\ cleaner = FALSE /\ cleaning = NoUpload
    /\ fails = 0 /\ crashes = 0
    /\ shares = [u \in Uploads |-> 0]
    /\ broken = {} /\ overlapped = {} /\ cut = {} /\ littered = {}

Goto(p, pc) == req' = [req EXCEPT ![p].pc = pc]

\* mutant: the step is not reset with the upload
Finish_KeepsStep(p) == req' = [req EXCEPT ![p].upload = NoUpload]
Finish(p) == req' = [req EXCEPT ![p] = Idle]
Start(p, pc, u, c, n) ==
    /\ req[p] = Idle
    /\ req' = [req EXCEPT ![p] = [Idle EXCEPT !.pc = pc, !.upload = u, !.chunk = c, !.len = n]]

\* A request opens a chunk file, is done with it, or has read what is not the client's
Writing(r) == [r EXCEPT !.pc = "copying", !.linked = TRUE]
Reading(r) == [r EXCEPT !.pc = "reading", !.linked = TRUE]
Close(r) == [r EXCEPT !.pc = "assembling", !.linked = FALSE, !.chunk = @ + 1]
Spoil(r) == [r EXCEPT !.whole = FALSE]

\* Nobody else is in a critical section: each is one step, but for the cleanup's
MutexIsFree == cleaning = NoUpload

OnFile(f, pcs) ==
    {q \in Requests : req[q].pc \in pcs /\ <<req[q].upload, req[q].chunk>> = f}

\* Requests that are writing the chunk file or have yet to remove it again
Writers(f) == OnFile(f, {"copying", "discarding"})

\* The finalize that has the chunk file open under its name
Readers(f) == {q \in OnFile(f, {"reading"}) : req[q].linked}

\* The requests after F's files were unlinked, those in Q excepted
Unlinked(r, F) ==
    [q \in Requests |-> IF <<r[q].upload, r[q].chunk>> \in F
                        THEN [r[q] EXCEPT !.linked = FALSE] ELSE r[q]]

\* The chunk file is the body of the request that created it last
IsWhole(f) == bytes[f] = 1..sent[f]

\* os.RemoveAll(TempDir): first what is in it, then the directory unless a file
\* has come in the meantime; nobody looks at the error. r is req after the
\* handler's own step.
FilesOf(u) == {u} \X (0..NumChunks)
ClearDir(u, r) ==
    /\ manifests' = manifests \ {u}
    /\ present' = present \ FilesOf(u)
    /\ bytes' = [f \in Uploads \X Chunks |-> IF f[1] = u THEN {} ELSE bytes[f]]
    /\ sent' = [f \in Uploads \X Chunks |-> IF f[1] = u THEN 0 ELSE sent[f]]
    /\ req' = Unlinked(r, FilesOf(u))
    /\ UNCHANGED <<dirs, declared>>

RemoveDir(u) ==
    /\ dirs' = IF u \in manifests \/ present \intersect FilesOf(u) # {} THEN dirs
               ELSE dirs \ {u}
    /\ UNCHANGED <<manifests, present, bytes, sent, declared>>

\* Between the two
Removing(u) == cleaning = u \/ \E q \in Requests : /\ req[q].upload = u
                                                   /\ req[q].pc \in {"clearing", "removing"}

\* What is counted for an upload without an entry is nothing
Forget(u) ==
    /\ reg' = reg \ {u}
    /\ received' = [received EXCEPT ![u] = {}]
    /\ sizes' = [sizes EXCEPT ![u] = [c \in Chunks |-> 0]]
    /\ receivedBytes' = [receivedBytes EXCEPT ![u] = 0]

-----------------------------------------------------------------------------
(* InitChunkUpload: directory, manifest, registry, in this order *)

MakeDir(p, u) ==
    /\ \A q \in Requests : req[q].upload # u
    /\ declared[u] = 0
    /\ Start(p, "making", u, 0, 0)
    /\ \E d \in Declared \ {0} : declared' = [declared EXCEPT ![u] = d]
    /\ dirs' = dirs \union {u}
    /\ UNCHANGED <<manifests, present, bytes, sent, registry, old, worker, counters, shares,
                   history>>

\* writeManifest succeeds, or fails and the directory is removed
WriteManifest(p) ==
    /\ req[p].pc = "making"
    /\ \/ /\ manifests' = manifests \union {req[p].upload}
          /\ Goto(p, "registering")
       \/ /\ Goto(p, "dropping")
          /\ UNCHANGED manifests
    /\ UNCHANGED <<dirs, present, bytes, sent, declared, registry, old, worker, counters,
                   shares, history>>

Register(p) ==
    /\ req[p].pc = "registering"
    /\ MutexIsFree
    /\ reg' = reg \union {req[p].upload}
    /\ cleaner' = TRUE
    /\ Finish(p)
    /\ UNCHANGED <<disk, received, sizes, receivedBytes, old, cleaning, counters, shares,
                   history>>

-----------------------------------------------------------------------------
(* UploadChunk *)

BeginChunk(p, u, c, n) ==
    /\ MutexIsFree
    /\ u \in reg
    /\ Start(p, "creating", u, c, n)
    /\ UNCHANGED <<disk, registry, old, worker, counters, shares, history>>

\* os.Create truncates a file that is there already, under whoever writes or
\* reads it; a reader may have read all of it before
CreateChunkFile(p) ==
    LET f == <<req[p].upload, req[p].chunk>>
    IN  /\ req[p].pc = "creating"
        /\ \/ /\ f[1] \in dirs
              /\ present' = present \union {f}
              /\ bytes' = [bytes EXCEPT ![f] = {}]
              /\ sent' = [sent EXCEPT ![f] = req[p].len]
              /\ \E spoiled \in SUBSET Readers(f) :
                    req' = [q \in Requests |->
                              IF q = p THEN Writing(req[q])
                              ELSE IF q \in spoiled THEN Spoil(req[q])
                              ELSE req[q]]
              /\ overlapped' = overlapped \union
                    {u \in {f[1]} : \/ Readers(f) # {}
                                    \/ \E q \in OnFile(f, {"copying"}) :
                                          req[q].len # req[p].len}
              /\ littered' = littered \union {u \in {f[1]} : Removing(u)}
           \/ /\ f[1] \notin dirs
              /\ Finish(p)
              /\ UNCHANGED <<present, bytes, sent, overlapped, littered>>
        /\ UNCHANGED <<dirs, manifests, declared, registry, old, worker, counters, shares,
                       broken, cut>>

CopyBlock(p) ==
    LET f == <<req[p].upload, req[p].chunk>>
        b == req[p].filled + 1
    IN  /\ req[p].pc = "copying"
        /\ b <= req[p].len
        /\ bytes' = IF req[p].linked THEN [bytes EXCEPT ![f] = @ \union {b}] ELSE bytes
        /\ req' = [req EXCEPT ![p].filled = b]
        /\ UNCHANGED <<dirs, manifests, present, sent, declared, registry, old, worker,
                       counters, shares, history>>

\* The connection broke, or the body was empty
CopyFails(p) ==
    /\ req[p].pc = "copying"
    /\ fails < MaxFails
    /\ fails' = fails + 1
    /\ Goto(p, "discarding")
    /\ UNCHANGED <<disk, registry, old, worker, crashes, shares, history>>

\* The second critical section: the upload may be gone, or the chunk too much
\* mutant: the size of the chunk that is replaced is not discounted
NewTotal_NoDiscount(u, c, n) == receivedBytes[u] + n
NewTotal(u, c, n) == receivedBytes[u] - sizes[u][c] + n

Accepted(u, c, n) == u \in reg /\ NewTotal(u, c, n) <= declared[u]

RecordChunk(p) ==
    LET u == req[p].upload
        c == req[p].chunk
        written == req[p].filled
    IN  /\ req[p].pc = "copying"
        /\ written = req[p].len
        /\ MutexIsFree
        /\ \/ /\ Accepted(u, c, written)
              /\ receivedBytes' = [receivedBytes EXCEPT ![u] = NewTotal(u, c, written)]
              /\ sizes' = [sizes EXCEPT ![u][c] = written]
              /\ received' = [received EXCEPT ![u] = @ \union {c}]
              /\ Finish(p)
           \/ /\ ~Accepted(u, c, written)
              /\ Goto(p, "discarding")
              /\ UNCHANGED <<received, sizes, receivedBytes>>
        /\ UNCHANGED <<disk, reg, old, worker, counters, shares, history>>

\* mutant: the partial file stays
DiscardChunk_LeavesFile(p) ==
    /\ req[p].pc = "discarding"
    /\ Finish(p)
    /\ UNCHANGED <<disk, registry, old, worker, counters, shares, history>>

\* os.Remove(chunkPath): whoever's file has that name now. ChunksReceived and
\* ChunkSizes keep what they say of the index.
DiscardChunk(p) ==
    LET f == <<req[p].upload, req[p].chunk>>
    IN  /\ req[p].pc = "discarding"
        /\ present' = present \ {f}
        /\ bytes' = [bytes EXCEPT ![f] = {}]
        /\ sent' = [sent EXCEPT ![f] = 0]
        /\ req' = Unlinked([req EXCEPT ![p] = Idle], {f})
        /\ UNCHANGED <<dirs, manifests, declared, registry, old, worker, counters, shares,
                       history>>

-----------------------------------------------------------------------------
(* FinalizeChunkUpload *)

BeginFinalize(p, u) ==
    /\ MutexIsFree
    /\ u \in reg
    /\ Start(p, "taking", u, 0, 0)
    /\ UNCHANGED <<disk, registry, old, worker, counters, shares, history>>

\* mutant: the count is taken, the entry stays until the share is saved
TakeUpload_KeepsEntry(p) ==
    LET u == req[p].upload
    IN  /\ req[p].pc = "taking"
        /\ MutexIsFree
        /\ \/ u \notin reg /\ Finish(p)
           \/ u \in reg /\ Cardinality(received[u]) # NumChunks /\ Goto(p, "dropping")
           \/ u \in reg /\ Cardinality(received[u]) = NumChunks /\ Goto(p, "decoding")
        /\ UNCHANGED <<disk, registry, old, worker, counters, shares, history>>

\* Counts the chunks and removes the entry in one critical section
TakeUpload(p) ==
    LET u == req[p].upload
    IN  /\ req[p].pc = "taking"
        /\ MutexIsFree
        /\ Forget(u)
        /\ \/ u \notin reg /\ Finish(p)
           \/ u \in reg /\ Cardinality(received[u]) # NumChunks /\ Goto(p, "dropping")
           \/ u \in reg /\ Cardinality(received[u]) = NumChunks /\ Goto(p, "decoding")
        /\ UNCHANGED <<disk, old, worker, counters, shares, history>>

\* The rest of the request's body, as JSON or as a form, says what the share is
\* to be: a wait for the client
DecodeForm(p) ==
    /\ req[p].pc = "decoding"
    /\ Goto(p, "assembling")
    /\ UNCHANGED <<disk, registry, old, worker, counters, shares, history>>

\* What is read is what is there, unless it is still being written
OpenChunk(p) ==
    LET f == <<req[p].upload, req[p].chunk>>
    IN  /\ req[p].pc = "assembling"
        /\ f \in present
        /\ \/ /\ IsWhole(f) \/ Writers(f) # {}
              /\ req' = [req EXCEPT ![p] = Reading(@)]
           \/ /\ ~IsWhole(f) \/ Writers(f) # {}
              /\ req' = [req EXCEPT ![p] = Spoil(Reading(@))]
        /\ overlapped' = overlapped \union {u \in {f[1]} : Writers(f) # {}}
        /\ UNCHANGED <<disk, registry, old, worker, counters, shares, broken, cut, littered>>

CloseChunk(p) ==
    /\ req[p].pc = "reading"
    /\ req' = [req EXCEPT ![p] = Close(@)]
    /\ UNCHANGED <<disk, registry, old, worker, counters, shares, history>>

\* A chunk file is missing, or the destination cannot be created or written
AssemblyFails(p) ==
    /\ req[p].pc \in {"assembling", "reading"}
    /\ req[p].chunk < NumChunks
    /\ Goto(p, "dropping")
    /\ UNCHANGED <<disk, registry, old, worker, counters, shares, history>>

DropUpload(p) ==
    /\ req[p].pc = "dropping"
    /\ ClearDir(req[p].upload, [req EXCEPT ![p].pc = "removing"])
    /\ UNCHANGED <<registry, old, worker, counters, shares, history>>

EndDrop(p) ==
    /\ req[p].pc = "removing"
    /\ RemoveDir(req[p].upload)
    /\ Finish(p)
    /\ UNCHANGED <<registry, old, worker, counters, shares, history>>

\* mutant: the temp directory is left for later
EndAssembly_KeepsDir(p) ==
    /\ req[p].pc = "assembling"
    /\ req[p].chunk = NumChunks
    /\ Goto(p, "saving")
    /\ UNCHANGED <<disk, registry, old, worker, counters, shares, history>>

EndAssembly(p) ==
    /\ req[p].pc = "assembling"
    /\ req[p].chunk = NumChunks
    /\ ClearDir(req[p].upload, [req EXCEPT ![p].pc = "clearing"])
    /\ UNCHANGED <<registry, old, worker, counters, shares, history>>

EndClear(p) ==
    /\ req[p].pc = "clearing"
    /\ RemoveDir(req[p].upload)
    /\ Goto(p, "saving")
    /\ UNCHANGED <<registry, old, worker, counters, shares, history>>

\* Save succeeds; or the quota check, the password hash or Save fails and the
\* assembled file is removed
SaveUpload(p) ==
    LET u == req[p].upload
    IN  /\ req[p].pc = "saving"
        /\ Finish(p)
        /\ \/ /\ shares' = [shares EXCEPT ![u] = @ + 1]
              /\ broken' = IF req[p].whole THEN broken ELSE broken \union {u}
           \/ UNCHANGED <<shares, broken>>
        /\ UNCHANGED <<disk, registry, old, worker, counters, overlapped, cut, littered>>

-----------------------------------------------------------------------------
(* Age, crashes *)

\* More than 24 hours have passed since CreatedAt
Age(u) ==
    /\ declared[u] # 0
    /\ u \notin old
    /\ old' = old \union {u}
    /\ UNCHANGED <<disk, registry, req, worker, counters, shares, history>>

\* Walks the registry, and only the registry, with the mutex held. Letting go of
\* it between two uploads adds behaviours and takes none away.
EmptyExpired(u) ==
    /\ cleaner /\ MutexIsFree
    /\ u \in reg \intersect old
    /\ ClearDir(u, req)
    /\ cleaning' = u
    /\ UNCHANGED <<registry, old, cleaner, counters, shares, history>>

\* mutant: the entry goes, the directory stays
RemoveExpired_EntryOnly ==
    /\ ~MutexIsFree
    /\ Forget(cleaning)
    /\ cleaning' = NoUpload
    /\ UNCHANGED <<disk, req, old, cleaner, counters, shares, history>>

RemoveExpired ==
    /\ ~MutexIsFree
    /\ RemoveDir(cleaning)
    /\ Forget(cleaning)
    /\ cleaning' = NoUpload
    /\ UNCHANGED <<req, old, cleaner, counters, shares, history>>

CleanupExpired == (\E u \in Uploads : EmptyExpired(u)) \/ RemoveExpired

\* Uploads whose directory is being emptied, perhaps just now
Falling ==
    {req[p].upload : p \in {q \in Requests :
        \/ req[q].pc = "dropping"
        \/ req[q].pc = "assembling" /\ req[q].chunk = NumChunks}}
    \union {u \in reg \intersect old : cleaner /\ MutexIsFree}

TotalOf(s) == MapThenSumSet(LAMBDA c : s[c], Chunks)

\* The sizes of an upload's chunk files, 0 where there is none
SizesOnDisk(u) ==
    [c \in Chunks |-> Max({b \in bytes[<<u, c>>] : <<u, c>> \in present} \union {0})]

\* RestoreChunkUploads: what the manifests and the chunk files say that the
\* crash has left
Restart ==
    /\ crashes < MaxCrashes
    /\ crashes' = crashes + 1
    /\ \E F \in SUBSET {f \in present : f[1] \in Falling},
          M \in SUBSET (manifests \intersect Falling) :
          /\ present' = present \ F
          /\ bytes' = [f \in Uploads \X Chunks |-> IF f \in F THEN {} ELSE bytes[f]]
          /\ sent' = [f \in Uploads \X Chunks |-> IF f \in F THEN 0 ELSE sent[f]]
          /\ manifests' = manifests \ M
    /\ req' = [p \in Requests |-> Idle]
    /\ reg' = manifests'
    /\ received' = [u \in Uploads |-> {c \in Chunks : u \in reg' /\ <<u, c>> \in present'}]
    /\ sizes' = [u \in Uploads |-> IF u \in reg' THEN SizesOnDisk(u)'
                                   ELSE [c \in Chunks |-> 0]]
    /\ receivedBytes' = [u \in Uploads |-> TotalOf(sizes'[u])]
    /\ cleaner' = (reg' # {})
    /\ cleaning' = NoUpload
    /\ cut' = cut \union {f[1] : f \in {g \in present' : ~IsWhole(g)'}}
    /\ littered' = littered \union (dirs \ manifests')
    /\ UNCHANGED <<dirs, declared, old, fails, shares, broken, overlapped>>

-----------------------------------------------------------------------------
\* What a handler does once the request is read: it waits for nobody
Proceed(p) ==
    \/ WriteManifest(p) \/ Register(p)
    \/ CreateChunkFile(p) \/ RecordChunk(p) \/ DiscardChunk(p)
    \/ TakeUpload(p) \/ OpenChunk(p) \/ CloseChunk(p) \/ AssemblyFails(p)
    \/ DropUpload(p) \/ EndDrop(p) \/ EndAssembly(p) \/ EndClear(p) \/ SaveUpload(p)

\* What it does when the client sends something, or stops sending
Receive(p) ==
    \/ \E u \in Uploads : MakeDir(p, u) \/ BeginFinalize(p, u)
    \/ \E u \in Uploads, c \in Chunks, n \in Blocks : BeginChunk(p, u, c, n)
    \/ CopyBlock(p) \/ CopyFails(p) \/ DecodeForm(p)

Next ==
    \/ \E p \in Requests : Proceed(p) \/ Receive(p)
    \/ \E u \in Uploads : Age(u)
    \/ CleanupExpired
    \/ Restart

\* Handlers that wait for nobody run on, and so does the 15-minute cleanup;
\* clients may fall silent at any point, also in the middle of a finalize (the
\* server sets no read timeout), and nothing has to crash.
Spec ==
    /\ Init /\ [][Next]_vars
    /\ WF_vars(CleanupExpired)
    /\ \A p \in Requests : WF_vars(Proceed(p))

-----------------------------------------------------------------------------
(* What it guarantees *)

\* However many finalize requests, late chunks, cleanups and crashes there are,
\* an upload becomes at most one share.
OneSharePerUpload == \A u \in Uploads : shares[u] <= 1

\* Once an upload became a share neither a late chunk nor a restart brings it
\* back: its entry is gone, and so is the manifest a restart would read.
SharedIsFinished == \A u \in Uploads : shares[u] > 0 => u \notin reg \union manifests

\* A share is byte for byte what the client sent last for each chunk, unless a
\* chunk was read while it was being written, was written by two requests at a
\* time with bodies of different lengths, or was left half-written by a crash:
\* failed, repeated and overlapping requests for a chunk do no harm otherwise.
BrokenHasACause == broken \subseteq overlapped \union cut

\* ReceivedBytes is the "running sum of distinct chunk bytes written", however
\* often and with whatever length chunks are sent again; and with it UploadChunk
\* enforces "a cumulative on-disk cap against the declared TotalSize": when no
\* chunk is on its way, the files are not larger than the client declared. The
\* cap ends with a crash, after which a file counts that was never checked, and
\* with two bodies of different length for one chunk at a time.
AtRest(u) ==
    \A p \in Requests : req[p].upload = u => req[p].pc \notin {"copying", "discarding"}
DeclaredSizeIsACap ==
    \A u \in reg :
        /\ receivedBytes[u] = TotalOf(sizes[u])
        /\ crashes = 0 /\ u \notin overlapped /\ AtRest(u) =>
              TotalOf(SizesOnDisk(u)) <= declared[u]

\* "Interrupted uploads are removed after 24 hours" (docs/api.md): whatever a
\* client or a crash leaves behind, if its manifest was written, unless a chunk
\* file came while the directory was being removed or a crash cut the removal
\* short. A finalize has taken the upload out of the registry before it reads
\* its own body: this assumes that clients do not fall silent there for good.
Stalled(u) == \E p \in Requests : req[p].upload = u /\ req[p].pc = "decoding"
InterruptedUploadsGo ==
    \A u \in Uploads :
        []<>~Stalled(u) =>
            (u \in manifests \intersect old ~> u \notin dirs \/ u \in littered)

\* "the chunk files ... cannot lie about what was flushed" (RestoreChunkUploads):
\* a share made from an upload is the client's file.
SharesAreWhole == broken = {}

\* The status request reports "chunk indices already on disk"
\* (receivedIndices), so that the client sends only the others.
ReportedIsOnDisk ==
    \A u \in reg : \A c \in received[u] : <<u, c>> \in present
=============================================================================
