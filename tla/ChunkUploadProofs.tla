-------------------------- MODULE ChunkUploadProofs --------------------------
(***************************************************************************)
(* For any number of uploads, chunks, requests and crashes: an upload      *)
(* becomes at most one share, and nothing brings it back afterwards; what  *)
(* is wrong with a share has a cause; and until a crash an upload does not *)
(* outgrow its declared size.                                              *)
(*                                                                         *)
(* The argument is about who holds an upload. Before it is registered the  *)
(* request that creates it does, after it was taken the one that assembles *)
(* it does, and in between the registry does: never two of them at once.   *)
(***************************************************************************)
EXTENDS ChunkUpload, SumTheorems, TLAPS

\* The part of TypeOK that the argument needs: the shape of a request, without
\* the bounds of its counters.
RequestShape ==
    [pc : PCs, upload : Uploads \union {NoUpload}, chunk : Int, len : Int, filled : Int,
     linked : BOOLEAN, whole : BOOLEAN]

Shapes ==
    /\ req \in [Requests -> RequestShape]
    /\ \A p \in Requests : req[p].pc # "idle" => req[p].upload \in Uploads
    /\ declared \in [Uploads -> Nat]
    /\ shares \in [Uploads -> Nat]

Holding == {"making", "registering", "decoding", "assembling", "reading", "clearing",
            "saving", "dropping", "removing"}
\* Holders that have emptied the directory
Emptied == {"clearing", "saving", "removing"}
Holds(p, u) == req[p].upload = u /\ req[p].pc \in Holding

HolderInv(u) ==
    /\ shares[u] <= 1
    /\ shares[u] > 0 => u \notin reg \union manifests /\ \A p \in Requests : ~Holds(p, u)
    /\ u \in reg => \A p \in Requests : ~Holds(p, u)
    /\ \A p, q \in Requests : Holds(p, u) /\ Holds(q, u) => p = q
    /\ \A p \in Requests : Holds(p, u) =>
          /\ declared[u] # 0
          /\ req[p].pc \in Emptied => u \notin manifests
    /\ declared[u] = 0 => u \notin reg \union manifests /\ shares[u] = 0

UploadInv == \A u \in Uploads : HolderInv(u)

-----------------------------------------------------------------------------
(* What the steps do to requests *)

LEMMA ChunkIndices == Chunks \subseteq Int /\ Blocks \subseteq Int
  BY UploadConstants DEF Chunks, Blocks

\* Unlinking files changes no request's step and no request's upload.
LEMMA UnlinkedShape ==
    ASSUME NEW r \in [Requests -> RequestShape], NEW F
    PROVE  /\ Unlinked(r, F) \in [Requests -> RequestShape]
           /\ \A q \in Requests : /\ Unlinked(r, F)[q].pc = r[q].pc
                                  /\ Unlinked(r, F)[q].upload = r[q].upload
  BY DEF Unlinked, RequestShape

LEMMA IdleShape == Idle \in RequestShape
  BY UploadConstants DEF Idle, RequestShape, PCs

\* The requests other than p keep their step and upload.
OthersStay(p) ==
    \A q \in Requests \ {p} : req'[q].pc = req[q].pc /\ req'[q].upload = req[q].upload

ShapeOK(r) ==
    /\ r \in [Requests -> RequestShape]
    /\ \A q \in Requests : r[q].pc # "idle" => r[q].upload \in Uploads

LEMMA FinishStep ==
    ASSUME ShapeOK(req), NEW p \in Requests, Finish(p)
    PROVE  ShapeOK(req') /\ OthersStay(p) /\ req'[p].pc = "idle"
  BY IdleShape DEF ShapeOK, Finish, OthersStay, Idle

LEMMA GotoStep ==
    ASSUME ShapeOK(req), NEW p \in Requests, req[p].pc # "idle", NEW pc \in PCs, Goto(p, pc)
    PROVE  /\ ShapeOK(req') /\ OthersStay(p)
           /\ req'[p].pc = pc /\ req'[p].upload = req[p].upload
  BY DEF ShapeOK, Goto, OthersStay, RequestShape

LEMMA StartStep ==
    ASSUME ShapeOK(req), NEW p \in Requests, NEW pc \in PCs, NEW u \in Uploads,
           NEW c \in Int, NEW n \in Int, Start(p, pc, u, c, n)
    PROVE  /\ ShapeOK(req') /\ OthersStay(p)
           /\ req[p].pc = "idle" /\ req'[p].pc = pc /\ req'[p].upload = u
<1> DEFINE new == [Idle EXCEPT !.pc = pc, !.upload = u, !.chunk = c, !.len = n]
<1>1. new \in RequestShape /\ new.pc = pc /\ new.upload = u
  BY IdleShape DEF RequestShape, Idle
<1>2. req[p].pc = "idle" /\ req' = [req EXCEPT ![p] = new]
  BY DEF Start, Idle
<1> QED
  BY <1>1, <1>2 DEF ShapeOK, OthersStay

\* A request goes on with a record of its own, and others may lose a name or be
\* told that what they read is spoiled.
LEMMA MoveStep ==
    ASSUME ShapeOK(req), NEW p \in Requests, NEW x \in RequestShape,
           x.pc # "idle" => x.upload \in Uploads, req' = [req EXCEPT ![p] = x]
    PROVE  /\ ShapeOK(req') /\ OthersStay(p)
           /\ req'[p].pc = x.pc /\ req'[p].upload = x.upload
  BY DEF ShapeOK, OthersStay

LEMMA ClearStep ==
    ASSUME ShapeOK(req), NEW p \in Requests, req[p].pc # "idle", NEW pc \in PCs, NEW u,
           ClearDir(u, [req EXCEPT ![p].pc = pc])
    PROVE  /\ ShapeOK(req') /\ OthersStay(p)
           /\ req'[p].pc = pc /\ req'[p].upload = req[p].upload
<1> DEFINE r == [req EXCEPT ![p].pc = pc]
<1>1. r \in [Requests -> RequestShape]
  BY DEF ShapeOK, RequestShape, PCs
<1>2. req' = Unlinked(r, FilesOf(u))
  BY DEF ClearDir
<1>3. /\ req' \in [Requests -> RequestShape]
      /\ \A q \in Requests : req'[q].pc = r[q].pc /\ req'[q].upload = r[q].upload
  BY <1>1, <1>2, UnlinkedShape
<1>4. /\ r[p].pc = pc /\ r[p].upload = req[p].upload
      /\ \A q \in Requests \ {p} : r[q] = req[q]
  BY DEF ShapeOK, RequestShape
<1> QED
  BY <1>3, <1>4 DEF ShapeOK, OthersStay

\* A request that opens or closes a file, or whose reading is spoiled
LEMMA Opened ==
    ASSUME NEW x \in RequestShape
    PROVE  LET y == Writing(x)
           IN  /\ y \in RequestShape /\ y.pc = "copying" /\ y.linked
               /\ y.whole = x.whole /\ y.upload = x.upload /\ y.chunk = x.chunk
               /\ y.len = x.len /\ y.filled = x.filled
  BY DEF RequestShape, Writing, PCs

LEMMA OpenedToRead ==
    ASSUME NEW x \in RequestShape
    PROVE  LET y == Reading(x)
           IN  /\ y \in RequestShape /\ y.pc = "reading" /\ y.linked
               /\ y.whole = x.whole /\ y.upload = x.upload /\ y.chunk = x.chunk
               /\ y.len = x.len /\ y.filled = x.filled
  BY DEF RequestShape, Reading, PCs

LEMMA Closed ==
    ASSUME NEW x \in RequestShape
    PROVE  LET y == Close(x)
           IN  /\ y \in RequestShape /\ y.pc = "assembling" /\ ~y.linked
               /\ y.whole = x.whole /\ y.upload = x.upload /\ y.chunk = x.chunk + 1
               /\ y.len = x.len /\ y.filled = x.filled
<1> DEFINE c == x.chunk + 1
           y == [x EXCEPT !.pc = "assembling", !.linked = FALSE, !.chunk = c]
<1>1. c \in Int
  BY DEF RequestShape
<1> HIDE DEF c
<1>2. /\ y \in RequestShape /\ y.pc = "assembling" /\ ~y.linked
      /\ y.whole = x.whole /\ y.upload = x.upload /\ y.chunk = c
      /\ y.len = x.len /\ y.filled = x.filled
  BY <1>1 DEF RequestShape, PCs
<1> QED
  BY <1>2 DEF c, Close

LEMMA Spoiled ==
    ASSUME NEW x \in RequestShape
    PROVE  LET y == Spoil(x)
           IN  /\ y \in RequestShape /\ ~y.whole
               /\ y.pc = x.pc /\ y.linked = x.linked /\ y.upload = x.upload
               /\ y.chunk = x.chunk /\ y.len = x.len /\ y.filled = x.filled
  BY DEF RequestShape, Spoil

\* The requests after a chunk file was created
Created(p, S) ==
    [q \in Requests |-> IF q = p THEN Writing(req[p])
                        ELSE IF q \in S THEN Spoil(req[q]) ELSE req[q]]

LEMMA CreatedStep ==
    ASSUME ShapeOK(req), NEW p \in Requests, req[p].pc # "idle", NEW S, req' = Created(p, S)
    PROVE  /\ ShapeOK(req') /\ OthersStay(p)
           /\ req'[p].pc = "copying" /\ req'[p].upload = req[p].upload
<1>1. \A q \in Requests : req[q] \in RequestShape
  BY DEF ShapeOK
<1>2. /\ Writing(req[p]) \in RequestShape /\ Writing(req[p]).pc = "copying"
      /\ Writing(req[p]).upload = req[p].upload
  BY <1>1, Opened
<1>3. \A q \in Requests : /\ Spoil(req[q]) \in RequestShape /\ Spoil(req[q]).pc = req[q].pc
                          /\ Spoil(req[q]).upload = req[q].upload
  BY <1>1, Spoiled
<1>4. req' \in [Requests -> RequestShape] /\ req'[p] = Writing(req[p])
  BY <1>1, <1>2, <1>3 DEF Created
<1>5. \A q \in Requests \ {p} : req'[q].pc = req[q].pc /\ req'[q].upload = req[q].upload
  BY <1>3 DEF Created
<1> QED
  BY <1>2, <1>4, <1>5 DEF ShapeOK, OthersStay

\* Creating a chunk file, or failing to
LEMMA CreateMoves ==
    ASSUME NEW p \in Requests, CreateChunkFile(p)
    PROVE  LET f == <<req[p].upload, req[p].chunk>>
           IN  \/ Finish(p) /\ UNCHANGED <<present, bytes, sent, overlapped, littered>>
               \/ \E S \in SUBSET Readers(f) :
                     /\ req' = Created(p, S)
                     /\ f[1] \in dirs /\ present' = present \union {f}
                     /\ bytes' = [bytes EXCEPT ![f] = {}]
                     /\ sent' = [sent EXCEPT ![f] = req[p].len]
  BY DEF CreateChunkFile, Created

-----------------------------------------------------------------------------
(* Steps that take nothing up: no upload is registered, held, shared or    *)
(* written a manifest for that was not before.                             *)

Shrinks(p) ==
    /\ reg' \subseteq reg /\ manifests' \subseteq manifests
    /\ UNCHANGED <<shares, declared>>
    /\ OthersStay(p)
    /\ req'[p].pc \in Holding =>
          /\ req'[p].upload = req[p].upload /\ req[p].pc \in Holding
          /\ req'[p].pc \in Emptied =>
                req[p].pc \in Emptied \/ req[p].upload \notin manifests'

LEMMA ShrinkingKeeps ==
    ASSUME UploadInv, NEW p \in Requests, Shrinks(p)
    PROVE  UploadInv'
<1> SUFFICES ASSUME NEW u \in Uploads PROVE HolderInv(u)'
  BY DEF UploadInv
<1>1. HolderInv(u)
  BY DEF UploadInv
<1>2. \A q \in Requests : Holds(q, u)' => Holds(q, u)
  BY DEF Shrinks, OthersStay, Holds
<1>3. \A q \in Requests : Holds(q, u)' /\ req'[q].pc \in Emptied => u \notin manifests'
  BY <1>1 DEF Shrinks, OthersStay, Holds, HolderInv
<1> QED
  BY <1>1, <1>2, <1>3 DEF HolderInv, Shrinks

-----------------------------------------------------------------------------
LEMMA InitInv == Init => Shapes /\ UploadInv
  BY UploadConstants, IdleShape
     DEF Init, Shapes, UploadInv, HolderInv, Holds, Holding, Idle

\* What every step of a request has to establish
Preserved == Shapes' /\ UploadInv'

LEMMA CreationSteps ==
    ASSUME Shapes, UploadInv, NEW p \in Requests,
           (\E u \in Uploads : MakeDir(p, u)) \/ WriteManifest(p) \/ Register(p)
    PROVE  Preserved
<1>0. ShapeOK(req)
  BY DEF Shapes, ShapeOK
<1>1. ASSUME NEW u \in Uploads, MakeDir(p, u) PROVE Preserved
  <2>1. PICK d \in Declared \ {0} : declared' = [declared EXCEPT ![u] = d]
    BY <1>1 DEF MakeDir
  <2>2. d \in Nat /\ d # 0
    BY UploadConstants
  <2>3. /\ ShapeOK(req') /\ OthersStay(p) /\ req[p].pc = "idle"
        /\ req'[p].pc = "making" /\ req'[p].upload = u
    BY <1>0, <1>1, StartStep DEF MakeDir, PCs
  <2>4. \A q \in Requests : req[q].upload # u
    BY <1>1 DEF MakeDir
  <2>5. declared[u] = 0 /\ UNCHANGED <<manifests, reg, shares>>
    BY <1>1 DEF MakeDir, registry
  <2>6. ASSUME NEW v \in Uploads PROVE HolderInv(v)'
    <3>1. CASE v = u
      BY <2>1, <2>2, <2>3, <2>4, <2>5, <3>1
         DEF OthersStay, UploadInv, HolderInv, Holds, Holding, Shapes
    <3>2. CASE v # u
      BY <2>1, <2>3, <2>5, <3>2 DEF OthersStay, UploadInv, HolderInv, Holds, Holding, Shapes
    <3> QED
      BY <3>1, <3>2
  <2> QED
    BY <2>1, <2>2, <2>3, <2>5, <2>6 DEF Preserved, Shapes, ShapeOK, UploadInv
<1>2. CASE WriteManifest(p)
  <2> DEFINE u == req[p].upload
  <2>1. CASE Goto(p, "dropping") /\ UNCHANGED manifests
    <3>1. /\ ShapeOK(req') /\ OthersStay(p)
          /\ req'[p].pc = "dropping" /\ req'[p].upload = req[p].upload
      BY <1>0, <1>2, <2>1, GotoStep DEF WriteManifest, PCs
    <3>2. Shrinks(p)
      BY <1>2, <2>1, <3>1 DEF WriteManifest, registry, Shrinks, Holding, Emptied
    <3> QED
      BY <3>1, <3>2, ShrinkingKeeps DEF Preserved, Shapes, ShapeOK, Shrinks
  <2>2. CASE manifests' = manifests \union {u} /\ Goto(p, "registering")
    <3>1. /\ ShapeOK(req') /\ OthersStay(p)
          /\ req'[p].pc = "registering" /\ req'[p].upload = u
      BY <1>0, <1>2, <2>2, GotoStep DEF WriteManifest, PCs
    <3>2. UNCHANGED <<reg, shares, declared>> /\ Holds(p, u)
      BY <1>2, <2>2 DEF WriteManifest, registry, Holds, Holding
    <3>3. ASSUME NEW v \in Uploads PROVE HolderInv(v)'
      <4>1. \A q \in Requests : Holds(q, v)' <=> Holds(q, v)
        BY <3>1, <3>2 DEF OthersStay, Holds, Holding
      <4>2. \A q \in Requests : req'[q].pc \in Emptied => req[q].pc \in Emptied /\ q # p
        BY <3>1 DEF OthersStay, Emptied
      <4> QED
        BY <2>2, <3>2, <4>1, <4>2 DEF UploadInv, HolderInv, Holds
    <3> QED
      BY <3>1, <3>2, <3>3 DEF Preserved, Shapes, ShapeOK, UploadInv
  <2> QED
    BY <1>2, <2>1, <2>2 DEF WriteManifest
<1>3. CASE Register(p)
  <2> DEFINE u == req[p].upload
  <2>1. ShapeOK(req') /\ OthersStay(p) /\ req'[p].pc = "idle"
    BY <1>0, <1>3, FinishStep DEF Register
  <2>2. /\ Holds(p, u) /\ reg' = reg \union {u}
        /\ UNCHANGED <<manifests, shares, declared>>
    BY <1>3 DEF Register, Holds, Holding, disk
  <2>3. ASSUME NEW v \in Uploads PROVE HolderInv(v)'
    <3>1. \A q \in Requests : Holds(q, v)' => Holds(q, v) /\ q # p
      BY <2>1 DEF OthersStay, Holds, Holding
    <3>2. \A q \in Requests : req'[q].pc \in Emptied => req[q].pc \in Emptied
      BY <2>1 DEF OthersStay, Emptied
    <3> QED
      BY <2>2, <3>1, <3>2 DEF UploadInv, HolderInv
  <2> QED
    BY <2>1, <2>2, <2>3 DEF Preserved, Shapes, ShapeOK, UploadInv
<1> QED
  BY <1>1, <1>2, <1>3

LEMMA ChunkSteps ==
    ASSUME Shapes, UploadInv, NEW p \in Requests,
           \/ \E u \in Uploads, c \in Chunks, n \in Blocks : BeginChunk(p, u, c, n)
           \/ CreateChunkFile(p) \/ CopyBlock(p) \/ CopyFails(p)
           \/ RecordChunk(p) \/ DiscardChunk(p)
    PROVE  Preserved
<1>0. ShapeOK(req)
  BY DEF Shapes, ShapeOK
<1> SUFFICES /\ ShapeOK(req') /\ OthersStay(p) /\ req'[p].pc \notin Holding
             /\ UNCHANGED <<manifests, reg, shares, declared>>
  BY ShrinkingKeeps DEF Shrinks, Preserved, Shapes, ShapeOK
<1>1. ASSUME NEW u \in Uploads, NEW c \in Chunks, NEW n \in Blocks, BeginChunk(p, u, c, n)
      PROVE  /\ ShapeOK(req') /\ OthersStay(p) /\ req'[p].pc = "creating"
             /\ UNCHANGED <<manifests, reg, shares, declared>>
  BY <1>0, <1>1, StartStep, ChunkIndices DEF BeginChunk, PCs, disk, registry
<1>2. CASE CreateChunkFile(p)
  <2>1. CASE Finish(p)
    BY <1>0, <1>2, <2>1, FinishStep DEF CreateChunkFile, registry, Holding
  <2>2. CASE ~Finish(p)
    <3>1. \E S : req' = Created(p, S)
      BY <1>2, <2>2, CreateMoves
    <3>3. ShapeOK(req') /\ OthersStay(p) /\ req'[p].pc = "copying"
      BY <1>0, <1>2, <3>1, CreatedStep DEF CreateChunkFile
    <3> QED
      BY <1>2, <3>3 DEF CreateChunkFile, registry, Holding
  <2> QED
    BY <2>1, <2>2
<1>3. CASE CopyBlock(p)
  <2>1. req' = [req EXCEPT ![p].filled = req[p].filled + 1] /\ req[p].pc = "copying"
    BY <1>3 DEF CopyBlock
  <2>2. ShapeOK(req') /\ OthersStay(p) /\ req'[p].pc = "copying"
    BY <1>0, <2>1 DEF ShapeOK, OthersStay, RequestShape
  <2> QED
    BY <1>3, <2>2 DEF CopyBlock, registry, Holding
<1>4. CASE CopyFails(p)
  BY <1>0, <1>4, GotoStep DEF CopyFails, PCs, disk, registry, Holding
<1>5. CASE RecordChunk(p)
  <2>1. ShapeOK(req') /\ OthersStay(p) /\ req'[p].pc \in {"idle", "discarding"}
    BY <1>0, <1>5, FinishStep, GotoStep DEF RecordChunk, PCs
  <2> QED
    BY <1>5, <2>1 DEF RecordChunk, disk, Holding
<1>6. CASE DiscardChunk(p)
  <2> DEFINE r == [req EXCEPT ![p] = Idle]
             f == <<req[p].upload, req[p].chunk>>
  <2>1. r \in [Requests -> RequestShape]
    BY <1>0, IdleShape DEF ShapeOK
  <2>2. req' = Unlinked(r, {f})
    BY <1>6 DEF DiscardChunk
  <2>3. /\ req' \in [Requests -> RequestShape]
        /\ \A q \in Requests : req'[q].pc = r[q].pc /\ req'[q].upload = r[q].upload
    BY <2>1, <2>2, UnlinkedShape
  <2>4. ShapeOK(req') /\ OthersStay(p) /\ req'[p].pc = "idle"
    BY <1>0, <2>3 DEF ShapeOK, OthersStay, Idle
  <2> QED
    BY <1>6, <2>4 DEF DiscardChunk, registry, Holding
<1> QED
  BY <1>1, <1>2, <1>3, <1>4, <1>5, <1>6 DEF Holding

LEMMA FinalizeSteps ==
    ASSUME Shapes, UploadInv, NEW p \in Requests,
           \/ \E u \in Uploads : BeginFinalize(p, u)
           \/ TakeUpload(p) \/ DecodeForm(p) \/ OpenChunk(p) \/ CloseChunk(p)
           \/ AssemblyFails(p) \/ DropUpload(p) \/ EndDrop(p) \/ EndAssembly(p)
           \/ EndClear(p) \/ SaveUpload(p)
    PROVE  Preserved
<1>0. ShapeOK(req)
  BY DEF Shapes, ShapeOK
<1>a. ASSUME ShapeOK(req'), Shrinks(p) PROVE Preserved
  BY <1>a, ShrinkingKeeps DEF Shrinks, Preserved, Shapes, ShapeOK
<1>1. ASSUME NEW u \in Uploads, BeginFinalize(p, u) PROVE Preserved
  <2>1. ShapeOK(req') /\ OthersStay(p) /\ req'[p].pc = "taking"
    BY <1>0, <1>1, StartStep DEF BeginFinalize, PCs
  <2> QED
    BY <1>1, <1>a, <2>1 DEF BeginFinalize, disk, registry, Shrinks, Holding
<1>2. CASE TakeUpload(p)
  <2> DEFINE u == req[p].upload
  <2>1. /\ reg' = reg \ {u} /\ UNCHANGED <<manifests, shares, declared>>
        /\ req[p].pc = "taking" /\ u \in Uploads
    BY <1>0, <1>2 DEF TakeUpload, Forget, disk, ShapeOK
  <2>2. CASE u \notin reg /\ Finish(p)
    <3>1. ShapeOK(req') /\ OthersStay(p) /\ req'[p].pc = "idle"
      BY <1>0, <2>2, FinishStep
    <3> QED
      BY <1>a, <2>1, <3>1 DEF Shrinks, Holding
  <2>3. CASE u \in reg /\ (Goto(p, "dropping") \/ Goto(p, "decoding"))
    <3>1. /\ ShapeOK(req') /\ OthersStay(p) /\ req'[p].upload = u
          /\ req'[p].pc \in {"dropping", "decoding"}
      BY <1>0, <2>1, <2>3, GotoStep DEF PCs
    <3>2. ASSUME NEW v \in Uploads PROVE HolderInv(v)'
      <4>1. CASE v = u
        BY <2>1, <2>3, <3>1, <4>1 DEF OthersStay, UploadInv, HolderInv, Holds, Holding, Emptied
      <4>2. CASE v # u
        BY <2>1, <3>1, <4>2 DEF OthersStay, UploadInv, HolderInv, Holds, Holding, Emptied
      <4> QED
        BY <4>1, <4>2
    <3> QED
      BY <2>1, <3>1, <3>2 DEF Preserved, Shapes, ShapeOK, UploadInv
  <2> QED
    BY <1>2, <2>2, <2>3 DEF TakeUpload
<1>3. CASE OpenChunk(p) \/ CloseChunk(p)
  <2>1. /\ req[p].pc \in {"assembling", "reading"} /\ req[p] \in RequestShape
        /\ UNCHANGED <<manifests, reg, shares, declared>>
    BY <1>0, <1>3 DEF OpenChunk, CloseChunk, disk, registry, ShapeOK
  <2>2. {"assembling", "reading"} \subseteq PCs
    BY DEF PCs
  <2>3. \E x \in RequestShape : /\ x.pc \in {"assembling", "reading"}
                                /\ x.upload = req[p].upload /\ req' = [req EXCEPT ![p] = x]
    <3>1. CASE OpenChunk(p)
      <4>1. /\ Reading(req[p]) \in RequestShape /\ Reading(req[p]).pc = "reading"
            /\ Reading(req[p]).upload = req[p].upload
        BY <2>1, OpenedToRead
      <4>2. LET x == Spoil(Reading(req[p]))
            IN  x \in RequestShape /\ x.pc = "reading" /\ x.upload = req[p].upload
        BY <4>1, Spoiled
      <4> QED
        BY <3>1, <4>1, <4>2 DEF OpenChunk
    <3>2. CASE CloseChunk(p)
      <4>1. /\ Close(req[p]) \in RequestShape /\ Close(req[p]).pc = "assembling"
            /\ Close(req[p]).upload = req[p].upload
        BY <2>1, Closed
      <4> QED
        BY <3>2, <4>1 DEF CloseChunk
    <3> QED
      BY <1>3, <3>1, <3>2
  <2>4. /\ ShapeOK(req') /\ OthersStay(p) /\ req'[p].upload = req[p].upload
        /\ req'[p].pc \in {"assembling", "reading"}
    BY <1>0, <2>1, <2>3, MoveStep DEF ShapeOK
  <2> QED
    BY <1>a, <2>1, <2>4 DEF Shrinks, Holding, Emptied
<1>4. CASE AssemblyFails(p) \/ DecodeForm(p)
  <2>1. /\ ShapeOK(req') /\ OthersStay(p)
        /\ req'[p].pc \in {"dropping", "assembling"} /\ req'[p].upload = req[p].upload
    BY <1>0, <1>4, GotoStep DEF AssemblyFails, DecodeForm, PCs
  <2> QED
    BY <1>4, <1>a, <2>1
       DEF AssemblyFails, DecodeForm, disk, registry, Shrinks, Holding, Emptied
<1>5. CASE DropUpload(p) \/ EndAssembly(p)
  <2>1. \E pc \in {"removing", "clearing"} :
            ClearDir(req[p].upload, [req EXCEPT ![p].pc = pc])
    BY <1>5 DEF DropUpload, EndAssembly
  <2>2. /\ ShapeOK(req') /\ OthersStay(p)
        /\ req'[p].pc \in Emptied /\ req'[p].upload = req[p].upload
    BY <1>0, <1>5, <2>1, ClearStep DEF DropUpload, EndAssembly, PCs, Emptied
  <2>3. manifests' = manifests \ {req[p].upload} /\ UNCHANGED <<reg, shares, declared>>
    BY <1>5 DEF DropUpload, EndAssembly, ClearDir, registry
  <2> QED
    BY <1>5, <1>a, <2>2, <2>3 DEF DropUpload, EndAssembly, Shrinks, Holding
<1>6. CASE EndDrop(p) \/ EndClear(p)
  <2>1. UNCHANGED <<manifests, reg, shares, declared>>
    BY <1>6 DEF EndDrop, EndClear, RemoveDir, registry
  <2>2. CASE EndDrop(p)
    <3>1. ShapeOK(req') /\ OthersStay(p) /\ req'[p].pc = "idle"
      BY <1>0, <2>2, FinishStep DEF EndDrop
    <3> QED
      BY <1>a, <2>1, <3>1 DEF Shrinks, Holding
  <2>3. CASE EndClear(p)
    <3>1. /\ ShapeOK(req') /\ OthersStay(p)
          /\ req'[p].pc = "saving" /\ req'[p].upload = req[p].upload
      BY <1>0, <2>3, GotoStep DEF EndClear, PCs
    <3> QED
      BY <1>a, <2>1, <2>3, <3>1 DEF EndClear, Shrinks, Holding, Emptied
  <2> QED
    BY <1>6, <2>2, <2>3
<1>7. CASE SaveUpload(p)
  <2> DEFINE u == req[p].upload
  <2>1. ShapeOK(req') /\ OthersStay(p) /\ req'[p].pc = "idle"
    BY <1>0, <1>7, FinishStep DEF SaveUpload
  <2>2. /\ UNCHANGED <<manifests, reg, declared>>
        /\ u \in Uploads /\ Holds(p, u) /\ req[p].pc = "saving"
    BY <1>0, <1>7 DEF SaveUpload, disk, registry, ShapeOK, Holds, Holding
  <2>3. CASE UNCHANGED shares
    BY <1>a, <2>1, <2>2, <2>3 DEF Shrinks, Holding
  <2>4. CASE shares' = [shares EXCEPT ![u] = @ + 1]
    <3>1. shares[u] = 0 /\ u \notin reg \union manifests
      BY <2>2 DEF UploadInv, HolderInv, Shapes, Emptied
    <3>2. ASSUME NEW v \in Uploads PROVE HolderInv(v)'
      <4>1. \A q \in Requests : Holds(q, v)' => Holds(q, v) /\ q # p
        BY <2>1 DEF OthersStay, Holds, Holding
      <4>2. \A q \in Requests : req'[q].pc \in Emptied => req[q].pc \in Emptied
        BY <2>1 DEF OthersStay, Emptied
      <4>3. CASE v = u
        BY <2>2, <2>4, <3>1, <4>1, <4>2, <4>3 DEF UploadInv, HolderInv, Shapes
      <4>4. CASE v # u
        BY <2>2, <2>4, <4>1, <4>2, <4>4 DEF UploadInv, HolderInv, Shapes
      <4> QED
        BY <4>3, <4>4
    <3> QED
      BY <2>1, <2>2, <2>4, <3>2 DEF Preserved, Shapes, ShapeOK, UploadInv
  <2> QED
    BY <1>7, <2>3, <2>4 DEF SaveUpload
<1> QED
  BY <1>1, <1>2, <1>3, <1>4, <1>5, <1>6, <1>7

LEMMA OtherSteps ==
    ASSUME Shapes, UploadInv,
           (\E u \in Uploads : Age(u)) \/ CleanupExpired \/ Restart \/ UNCHANGED vars
    PROVE  Preserved
<1>1. ASSUME UNCHANGED <<manifests, declared, reg, req, shares>> PROVE Preserved
  BY <1>1 DEF Preserved, Shapes, UploadInv, HolderInv, Holds
<1>2. ASSUME NEW u \in Uploads, EmptyExpired(u) PROVE Preserved
  <2>1. req \in [Requests -> RequestShape]
    BY DEF Shapes
  <2>2. req' = Unlinked(req, FilesOf(u))
    BY <1>2 DEF EmptyExpired, ClearDir
  <2>3. /\ req' \in [Requests -> RequestShape]
        /\ \A q \in Requests : req'[q].pc = req[q].pc /\ req'[q].upload = req[q].upload
    BY <2>1, <2>2, UnlinkedShape
  <2>4. reg' = reg /\ manifests' \subseteq manifests /\ UNCHANGED <<shares, declared>>
    BY <1>2 DEF EmptyExpired, ClearDir, registry
  <2>5. \A v \in Uploads, q \in Requests : Holds(q, v)' <=> Holds(q, v)
    BY <2>3 DEF Holds
  <2>6. ASSUME NEW v \in Uploads PROVE HolderInv(v)'
    BY <2>3, <2>4, <2>5 DEF UploadInv, HolderInv
  <2> QED
    BY <2>3, <2>4, <2>6 DEF Preserved, Shapes, UploadInv
<1>3. CASE RemoveExpired
  <2>1. reg' \subseteq reg /\ UNCHANGED <<req, manifests, shares, declared>>
    BY <1>3 DEF RemoveExpired, RemoveDir, Forget
  <2> QED
    BY <2>1 DEF Preserved, Shapes, UploadInv, HolderInv, Holds
<1>4. CASE Restart
  <2>1. /\ req' = [q \in Requests |-> Idle] /\ reg' = manifests' /\ manifests' \subseteq manifests
        /\ UNCHANGED <<declared, shares>>
    BY <1>4 DEF Restart
  <2>2. \A u \in Uploads, q \in Requests : ~Holds(q, u)'
    BY <2>1 DEF Holds, Holding, Idle
  <2>3. ASSUME NEW u \in Uploads PROVE HolderInv(u)'
    BY <2>1, <2>2 DEF UploadInv, HolderInv
  <2> QED
    BY <2>1, <2>3, IdleShape DEF Preserved, Shapes, UploadInv, Idle
<1> QED
  BY <1>1, <1>2, <1>3, <1>4 DEF Age, CleanupExpired, disk, registry, vars

LEMMA UploadStep ==
    ASSUME Shapes, UploadInv, [Next]_vars
    PROVE  Preserved
<1>1. ASSUME NEW p \in Requests, Proceed(p) \/ Receive(p) PROVE Preserved
  BY <1>1, CreationSteps, ChunkSteps, FinalizeSteps DEF Proceed, Receive
<1> QED
  BY <1>1, OtherSteps DEF Next

\* An upload becomes at most one share, however its requests overlap and
\* wherever the process crashes: taking the entry out of the registry and
\* removing the manifest before the row is saved is what makes it so.
THEOREM AtMostOneShare == Spec => []OneSharePerUpload
<1>1. Init => Shapes /\ UploadInv
  BY InitInv
<1>2. Shapes /\ UploadInv /\ [Next]_vars => (Shapes /\ UploadInv)'
  BY UploadStep DEF Preserved
<1>3. UploadInv => OneSharePerUpload
  BY DEF UploadInv, HolderInv, OneSharePerUpload
<1> QED
  BY <1>1, <1>2, <1>3, PTL DEF Spec

\* A shared upload is neither registered nor restorable: a late chunk finds no
\* entry, and a restart finds no manifest.
THEOREM FinishedForGood == Spec => []SharedIsFinished
<1>1. Init => Shapes /\ UploadInv
  BY InitInv
<1>2. Shapes /\ UploadInv /\ [Next]_vars => (Shapes /\ UploadInv)'
  BY UploadStep DEF Preserved
<1>3. UploadInv => SharedIsFinished
  BY DEF UploadInv, HolderInv, SharedIsFinished
<1> QED
  BY <1>1, <1>2, <1>3, PTL DEF Spec

-----------------------------------------------------------------------------
(* The bytes. Unless an upload is excused, a chunk file in its directory   *)
(* is whole, or whoever created it last is still busy with it and nothing  *)
(* of what that request has written so far is missing. And unless two      *)
(* bodies of different lengths met, no file is longer than the body it was *)
(* created for, and all who write it, or think they do, have that length.  *)

FileOf(x) == <<x.upload, x.chunk>>

Fills(x, f, content) ==
    /\ FileOf(x) = f /\ x.linked
    /\ x.pc = "discarding" \/ (x.pc = "copying" /\ 1..x.filled \subseteq content)

\* excused: the uploads whose share may not be the client's file
RequestOK(x, excused) ==
    /\ x \in RequestShape /\ x.filled \in Nat
    /\ x.pc = "creating" => x.filled = 0
    /\ x.pc \in {"creating", "copying"} => x.len \in Blocks /\ x.filled <= x.len
    /\ x.pc \in {"creating", "copying", "discarding"} => FileOf(x) \in Uploads \X Chunks
    /\ x.pc \in {"taking", "decoding", "assembling", "reading", "clearing", "saving"}
          /\ ~x.whole => x.upload \in excused

Excused == overlapped \union cut

Agreed(f) ==
    /\ bytes[f] \subseteq 1..sent[f]
    /\ \A q \in Requests : req[q].pc = "copying" /\ FileOf(req[q]) = f => req[q].len = sent[f]

FileOK(f) ==
    /\ f[1] \in overlapped \/ Agreed(f)
    /\ \/ f[1] \in Excused
       \/ bytes[f] = 1..sent[f]
       \/ \E q \in Requests : Fills(req[q], f, bytes[f])

BytesInv ==
    /\ req \in [Requests -> RequestShape]
    /\ \A q \in Requests : RequestOK(req[q], Excused)
    /\ present \subseteq Uploads \X Chunks
    /\ bytes \in [Uploads \X Chunks -> SUBSET Blocks]
    /\ sent \in [Uploads \X Chunks -> 0..ChunkLen]
    /\ \A f \in present : FileOK(f)
    /\ broken \subseteq Excused

LEMMA IdleOK == ASSUME NEW E PROVE RequestOK(Idle, E)
  BY IdleShape DEF RequestOK, Idle

LEMMA UnlinkedOK ==
    ASSUME NEW E, NEW x, RequestOK(x, E)
    PROVE  RequestOK([x EXCEPT !.linked = FALSE], E)
  BY DEF RequestOK, RequestShape, FileOf

\* A request goes on, and the chunk files stay as they are.
LEMMA QuietStep ==
    ASSUME BytesInv, NEW p \in Requests, NEW x, req' = [req EXCEPT ![p] = x],
           x.pc # "copying",
           UNCHANGED <<present, bytes, sent, cut>>, overlapped \subseteq overlapped',
           broken' \subseteq Excused', RequestOK(x, Excused'),
           \A f \in present : Fills(req[p], f, bytes[f]) =>
                Fills(x, f, bytes[f]) \/ bytes[f] = 1..sent[f] \/ f[1] \in overlapped
    PROVE  BytesInv'
<1>1. x \in RequestShape /\ Excused \subseteq Excused'
  BY DEF RequestOK, Excused
<1>2. /\ req' \in [Requests -> RequestShape] /\ req'[p] = x
      /\ \A q \in Requests \ {p} : req'[q] = req[q]
  BY <1>1 DEF BytesInv
<1>3. ASSUME NEW q \in Requests PROVE RequestOK(req'[q], Excused')
  <2>1. RequestOK(req[q], Excused)
    BY DEF BytesInv
  <2> QED
    BY <1>1, <1>2, <2>1 DEF RequestOK
<1>4. ASSUME NEW f \in present PROVE FileOK(f)'
  <2>1. FileOK(f)
    BY DEF BytesInv
  <2>2. f[1] \in overlapped' \/ Agreed(f)'
    BY <1>2, <2>1 DEF FileOK, Agreed
  <2>3. CASE f[1] \in Excused \/ bytes[f] = 1..sent[f]
    BY <1>1, <2>2, <2>3 DEF FileOK
  <2>4. ASSUME NEW q \in Requests, Fills(req[q], f, bytes[f]) PROVE FileOK(f)'
    <3>1. Fills(req'[q], f, bytes[f]) \/ bytes[f] = 1..sent[f] \/ f[1] \in overlapped
      BY <1>2, <2>4
    <3> QED
      BY <2>2, <3>1 DEF FileOK, Excused
  <2> QED
    BY <2>1, <2>3, <2>4 DEF FileOK
<1> QED
  BY <1>2, <1>3, <1>4 DEF BytesInv, Blocks, Chunks

\* An upload's temp directory is emptied; the request that does it, if there is one,
\* was not writing.
LEMMA RemovalStep ==
    ASSUME BytesInv, NEW u, NEW r \in [Requests -> RequestShape], ClearDir(u, r),
           \A q \in Requests : /\ RequestOK(r[q], Excused)
                               /\ \/ r[q] = req[q]
                                  \/ /\ req[q].pc \notin {"copying", "discarding"}
                                     /\ r[q].pc # "copying",
           UNCHANGED history
    PROVE  BytesInv'
<1>1. /\ present' = present \ FilesOf(u) /\ req' = Unlinked(r, FilesOf(u))
      /\ bytes' = [f \in Uploads \X Chunks |-> IF f[1] = u THEN {} ELSE bytes[f]]
      /\ sent' = [f \in Uploads \X Chunks |-> IF f[1] = u THEN 0 ELSE sent[f]]
      /\ UNCHANGED <<broken, overlapped, cut>>
  BY DEF ClearDir, history
<1>2. /\ bytes' \in [Uploads \X Chunks -> SUBSET Blocks]
      /\ sent' \in [Uploads \X Chunks -> 0..ChunkLen]
  <2>1. \A f \in Uploads \X Chunks : bytes[f] \in SUBSET Blocks /\ sent[f] \in 0..ChunkLen
    BY DEF BytesInv
  <2> QED
    BY <1>1, <2>1, UploadConstants
<1>3. \A q \in Requests : req'[q] = r[q] \/ (/\ FileOf(r[q]) \in FilesOf(u)
                                            /\ req'[q] = [r[q] EXCEPT !.linked = FALSE])
  BY <1>1 DEF Unlinked, FileOf
<1>4. /\ req' \in [Requests -> RequestShape]
      /\ \A q \in Requests : req'[q].pc = r[q].pc
  BY <1>1, UnlinkedShape
<1>5. ASSUME NEW q \in Requests PROVE RequestOK(req'[q], Excused)
  <2>1. RequestOK(r[q], Excused)
    OBVIOUS
  <2>2. RequestOK([r[q] EXCEPT !.linked = FALSE], Excused)
    BY <2>1, UnlinkedOK
  <2> QED
    BY <1>3, <2>1, <2>2
<1>6. ASSUME NEW f \in Uploads \X Chunks, f \notin FilesOf(u) PROVE f[1] # u
  <2>1. f = <<f[1], f[2]>> /\ f[2] \in 0..NumChunks
    BY UploadConstants DEF Chunks
  <2> QED
    BY <1>6, <2>1 DEF FilesOf
<1>7. ASSUME NEW f \in present' PROVE FileOK(f)'
  <2>1. f \in present /\ f \in Uploads \X Chunks /\ f \notin FilesOf(u) /\ FileOK(f)
    BY <1>1 DEF BytesInv
  <2>2. bytes'[f] = bytes[f] /\ sent'[f] = sent[f]
    BY <1>1, <1>6, <2>1
  <2>3. ASSUME NEW q \in Requests, FileOf(req'[q]) = f, req'[q].pc = "copying"
        PROVE  req'[q] = req[q]
    <3>1. req'[q] = [r[q] EXCEPT !.linked = FALSE] => FileOf(req'[q]) = FileOf(r[q])
      BY DEF FileOf, RequestShape
    <3> QED
      BY <1>3, <1>4, <2>1, <2>3, <3>1
  <2>4. f[1] \in overlapped' \/ Agreed(f)'
    BY <1>1, <2>1, <2>2, <2>3 DEF FileOK, Agreed
  <2>5. CASE f[1] \in Excused \/ bytes[f] = 1..sent[f]
    BY <1>1, <2>2, <2>4, <2>5 DEF FileOK, Excused
  <2>6. ASSUME NEW q \in Requests, Fills(req[q], f, bytes[f]) PROVE FileOK(f)'
    <3>1. req[q].pc \in {"copying", "discarding"} /\ FileOf(req[q]) = f
      BY <2>6 DEF Fills
    <3>2. req'[q] = req[q]
      BY <1>3, <2>1, <3>1
    <3> QED
      BY <2>2, <2>4, <2>6, <3>2 DEF FileOK
  <2> QED
    BY <2>1, <2>5, <2>6 DEF FileOK
<1>8. /\ present' \subseteq Uploads \X Chunks /\ broken' \subseteq Excused' /\ Excused' = Excused
  BY <1>1 DEF BytesInv, Excused
<1>9. \A q \in Requests : RequestOK(req[q], Excused)'
  BY <1>5, <1>8
<1> QED
  BY <1>2, <1>4, <1>7, <1>8, <1>9 DEF BytesInv, Blocks, Chunks

\* Begun, or gone on to another step of the handler, without touching a file
LEMMA StartOK ==
    ASSUME NEW E, NEW pc \in {"making", "creating", "taking"}, NEW u \in Uploads,
           NEW c \in Chunks \union {0}, NEW n \in Blocks \union {0}
    PROVE  pc # "creating" \/ (c \in Chunks /\ n \in Blocks) =>
              RequestOK([Idle EXCEPT !.pc = pc, !.upload = u, !.chunk = c, !.len = n], E)
<1>1. c \in Int /\ n \in Int
  BY ChunkIndices
<1>2. [Idle EXCEPT !.pc = pc, !.upload = u, !.chunk = c, !.len = n] \in RequestShape
  BY <1>1, IdleShape DEF RequestShape, Idle, PCs
<1> QED
  BY <1>2, UploadConstants DEF RequestOK, FileOf, Idle, Blocks

Finalizing == {"taking", "decoding", "assembling", "reading", "clearing", "saving"}

LEMMA GotoOK ==
    ASSUME NEW E, NEW x, RequestOK(x, E), NEW pc \in PCs \ {"creating", "copying"},
           pc = "discarding" => x.pc = "copying",
           pc \in Finalizing => x.pc \in Finalizing
    PROVE  RequestOK([x EXCEPT !.pc = pc], E)
<1>1. [x EXCEPT !.pc = pc] \in RequestShape
  BY DEF RequestOK, RequestShape
<1> QED
  BY <1>1 DEF RequestOK, FileOf, RequestShape, Finalizing

LEMMA QuietSteps ==
    ASSUME BytesInv, NEW p \in Requests,
           \/ \E u \in Uploads : MakeDir(p, u) \/ BeginFinalize(p, u)
           \/ \E u \in Uploads, c \in Chunks, n \in Blocks : BeginChunk(p, u, c, n)
           \/ WriteManifest(p) \/ Register(p) \/ CopyFails(p) \/ TakeUpload(p)
           \/ DecodeForm(p) \/ AssemblyFails(p) \/ EndDrop(p) \/ EndClear(p)
    PROVE  BytesInv'
<1>1. RequestOK(req[p], Excused) /\ broken \subseteq Excused
  BY DEF BytesInv
<1>2. UNCHANGED <<present, bytes, sent, history>> /\ Excused' = Excused
  BY DEF MakeDir, BeginFinalize, BeginChunk, WriteManifest, Register, CopyFails, TakeUpload,
     DecodeForm, AssemblyFails, EndDrop, EndClear, RemoveDir, disk, history, Excused
<1>3. \A E : RequestOK(Idle, E) /\ Idle.pc = "idle"
  BY IdleOK DEF Idle
<1>4. ASSUME NEW x, req' = [req EXCEPT ![p] = x], RequestOK(x, Excused), x.pc # "copying",
             \A f : Fills(req[p], f, bytes[f]) => Fills(x, f, bytes[f])
      PROVE  BytesInv'
  BY <1>1, <1>2, <1>4, QuietStep DEF history
<1>5. ASSUME NEW pc \in {"making", "creating", "taking"}, NEW u \in Uploads,
             NEW c \in Chunks \union {0}, NEW n \in Blocks \union {0},
             Start(p, pc, u, c, n), pc # "creating" \/ (c \in Chunks /\ n \in Blocks)
      PROVE  BytesInv'
  <2> DEFINE x == [Idle EXCEPT !.pc = pc, !.upload = u, !.chunk = c, !.len = n]
  <2>1. req[p].pc = "idle" /\ req' = [req EXCEPT ![p] = x]
    BY <1>5 DEF Start, Idle
  <2>2. ~ \E f : Fills(req[p], f, bytes[f])
    BY <2>1 DEF Fills
  <2>3. RequestOK(x, Excused)
    BY <1>5, StartOK
  <2>4. x.pc = pc
    BY DEF Idle
  <2> HIDE DEF x
  <2> QED
    BY <1>4, <2>1, <2>2, <2>3, <2>4
<1>6. ASSUME req[p].pc \notin {"copying", "discarding"}, Finish(p) PROVE BytesInv'
  BY <1>3, <1>4, <1>6 DEF Finish, Fills
<1>7. ASSUME NEW pc \in PCs \ {"creating", "copying"}, Goto(p, pc),
             req[p].pc # "discarding", req[p].pc = "copying" <=> pc = "discarding",
             pc \in Finalizing => req[p].pc \in Finalizing
      PROVE  BytesInv'
  <2> DEFINE x == [req[p] EXCEPT !.pc = pc]
  <2>1. RequestOK(x, Excused)
    BY <1>1, <1>7, GotoOK
  <2>2. req' = [req EXCEPT ![p] = x]
    BY <1>7 DEF Goto, BytesInv
  <2>3. \A f : Fills(req[p], f, bytes[f]) => Fills(x, f, bytes[f])
    BY <1>1, <1>7 DEF Fills, FileOf, RequestOK, RequestShape
  <2>4. x.pc # "copying"
    BY <1>1, <1>7 DEF RequestOK, RequestShape
  <2> HIDE DEF x
  <2> QED
    BY <1>4, <2>1, <2>2, <2>3, <2>4
<1>8. ASSUME NEW u \in Uploads, MakeDir(p, u) \/ BeginFinalize(p, u) PROVE BytesInv'
  <2>1. Start(p, "making", u, 0, 0) \/ Start(p, "taking", u, 0, 0)
    BY <1>8 DEF MakeDir, BeginFinalize
  <2> QED
    BY <1>5, <2>1
<1>9. ASSUME NEW u \in Uploads, NEW c \in Chunks, NEW n \in Blocks, BeginChunk(p, u, c, n)
      PROVE  BytesInv'
  <2>1. Start(p, "creating", u, c, n)
    BY <1>9 DEF BeginChunk
  <2> QED
    BY <1>5, <2>1
<1>10. CASE Register(p) \/ EndDrop(p)
  BY <1>6, <1>10 DEF Register, EndDrop
<1>11. {"discarding", "dropping", "decoding", "assembling", "registering", "saving"} \subseteq PCs
  BY DEF PCs
<1>12. CASE CopyFails(p)
  <2>1. req[p].pc = "copying" /\ Goto(p, "discarding")
    BY <1>12 DEF CopyFails
  <2> QED
    BY <1>7, <1>11, <2>1 DEF Finalizing
<1>13. CASE TakeUpload(p) \/ AssemblyFails(p) \/ DecodeForm(p) \/ EndClear(p)
  <2>1. /\ req[p].pc \in Finalizing
        /\ \/ Finish(p) \/ Goto(p, "dropping") \/ Goto(p, "decoding")
           \/ Goto(p, "assembling") \/ Goto(p, "saving")
    BY <1>13 DEF TakeUpload, AssemblyFails, DecodeForm, EndClear, Finalizing
  <2> QED
    BY <1>6, <1>7, <1>11, <2>1 DEF Finalizing
<1>14. CASE WriteManifest(p)
  <2>1. req[p].pc = "making" /\ (Goto(p, "registering") \/ Goto(p, "dropping"))
    BY <1>14 DEF WriteManifest
  <2> QED
    BY <1>7, <1>11, <2>1 DEF Finalizing
<1> QED
  BY <1>8, <1>9, <1>10, <1>12, <1>13, <1>14

LEMMA RemovingSteps ==
    ASSUME BytesInv,
           \/ \E p \in Requests : DropUpload(p) \/ EndAssembly(p)
           \/ CleanupExpired
    PROVE  BytesInv'
<1>1. req \in [Requests -> RequestShape] /\ \A q \in Requests : RequestOK(req[q], Excused)
  BY DEF BytesInv
<1>2. UNCHANGED history
  BY DEF DropUpload, EndAssembly, CleanupExpired, EmptyExpired, RemoveExpired
<1>3. ASSUME NEW p \in Requests, NEW x, RequestOK(x, Excused), x.pc # "copying", NEW u,
             req[p].pc \notin {"copying", "discarding"}, ClearDir(u, [req EXCEPT ![p] = x])
      PROVE  BytesInv'
  <2> DEFINE r == [req EXCEPT ![p] = x]
  <2>1. r \in [Requests -> RequestShape] /\ \A q \in Requests : r[q] = IF q = p THEN x ELSE req[q]
    BY <1>1, <1>3 DEF RequestOK
  <2>2. \A q \in Requests : /\ RequestOK(r[q], Excused)
                            /\ \/ r[q] = req[q]
                               \/ /\ req[q].pc \notin {"copying", "discarding"}
                                  /\ r[q].pc # "copying"
    BY <1>1, <1>3, <2>1
  <2>3. ClearDir(u, r)
    BY <1>3
  <2> HIDE DEF r
  <2> QED
    BY <1>2, <2>1, <2>2, <2>3, RemovalStep
<1>4. ASSUME NEW p \in Requests, DropUpload(p) \/ EndAssembly(p) PROVE BytesInv'
  <2>1. PICK pc \in {"removing", "clearing"} :
          /\ ClearDir(req[p].upload, [req EXCEPT ![p].pc = pc])
          /\ req[p].pc \in {"dropping", "assembling"}
          /\ pc = "clearing" => req[p].pc = "assembling"
    BY <1>4 DEF DropUpload, EndAssembly
  <2> DEFINE x == [req[p] EXCEPT !.pc = pc]
  <2>2. RequestOK(x, Excused)
    BY <1>1, <2>1, GotoOK DEF PCs, Finalizing
  <2>3. [req EXCEPT ![p].pc = pc] = [req EXCEPT ![p] = x] /\ x.pc # "copying"
    BY <1>1, <2>1 DEF RequestShape
  <2> HIDE DEF x
  <2> QED
    BY <1>3, <2>1, <2>2, <2>3
<1>5. ASSUME NEW u \in Uploads, EmptyExpired(u) PROVE BytesInv'
  BY <1>1, <1>2, <1>5, RemovalStep DEF EmptyExpired
<1>6. CASE RemoveExpired
  <2>1. UNCHANGED <<req, present, bytes, sent, broken, overlapped, cut>> /\ Excused' = Excused
    BY <1>2, <1>6 DEF RemoveExpired, RemoveDir, history, Excused
  <2>2. \A f \in present : FileOK(f)' <=> FileOK(f)
    BY <2>1 DEF FileOK, Agreed
  <2> QED
    BY <2>1, <2>2 DEF BytesInv, Blocks, Chunks
<1> QED
  BY <1>4, <1>5, <1>6 DEF CleanupExpired

\* Whose bodies differ in length is found out when the file is created again, and
\* whoever reads it then is not to be trusted.
LEMMA CreateFileStep ==
    ASSUME BytesInv, NEW p \in Requests, CreateChunkFile(p)
    PROVE  BytesInv'
<1>0. PICK f : f = FileOf(req[p])
  OBVIOUS
<1>1. /\ req[p].pc = "creating" /\ RequestOK(req[p], Excused) /\ f \in Uploads \X Chunks
      /\ UNCHANGED <<broken, cut>> /\ broken \subseteq Excused
      /\ req[p].filled = 0 /\ req[p].len \in Blocks /\ req[p] \in RequestShape
  BY <1>0 DEF CreateChunkFile, BytesInv, RequestOK, FileOf
<1>2. CASE Finish(p) /\ UNCHANGED <<present, bytes, sent, overlapped, littered>>
  <2>1. \A g : ~Fills(req[p], g, bytes[g])
    BY <1>1 DEF Fills
  <2>2. Excused' = Excused /\ Idle.pc # "copying"
    BY <1>1, <1>2 DEF Excused, Idle
  <2> QED
    BY <1>1, <1>2, <2>1, <2>2, QuietStep, IdleOK DEF Finish
<1>3. ASSUME NEW S \in SUBSET Readers(f), req' = Created(p, S),
             present' = present \union {f}, bytes' = [bytes EXCEPT ![f] = {}],
             sent' = [sent EXCEPT ![f] = req[p].len],
             overlapped \subseteq overlapped', Readers(f) # {} => f[1] \in overlapped',
             \A q \in OnFile(f, {"copying"}) :
                req[q].len # req[p].len => f[1] \in overlapped'
      PROVE  BytesInv'
  <2> DEFINE x == Writing(req[p])
  <2>1. /\ x \in RequestShape /\ x.linked /\ x.pc = "copying" /\ x.filled = 0
        /\ FileOf(x) = f /\ x.len = req[p].len
    BY <1>0, <1>1, Opened DEF FileOf
  <2>2. RequestOK(x, Excused')
    BY <1>1, <2>1, UnlinkedOK DEF RequestOK, Blocks
  <2> HIDE DEF x
  <2>3. Excused \subseteq Excused'
    BY <1>1, <1>3 DEF Excused
  <2>4. /\ \A q \in Requests : req[q] \in RequestShape /\ RequestOK(req[q], Excused)
        /\ req'[p] = x
        /\ \A q \in Requests \ {p} : req'[q] = IF q \in S THEN Spoil(req[q]) ELSE req[q]
    BY <1>3 DEF BytesInv, Created, x
  <2>5. \A q \in S : /\ Spoil(req[q]) \in RequestShape /\ ~Spoil(req[q]).whole
                     /\ Spoil(req[q]).pc = "reading" /\ req[q].pc = "reading"
                     /\ Spoil(req[q]).upload = f[1] /\ Spoil(req[q]).filled = req[q].filled
                     /\ f[1] \in Excused'
    BY <1>3, <2>4, Spoiled DEF Readers, OnFile, Excused
  <2>6. \A q \in S : RequestOK(Spoil(req[q]), Excused')
    BY <2>4, <2>5 DEF RequestOK, Readers, OnFile
  <2>7. \A q \in Requests : RequestOK(req[q], Excused')
    BY <2>3, <2>4 DEF RequestOK
  <2>8. \A q \in Requests : RequestOK(req'[q], Excused')
    BY <2>2, <2>4, <2>6, <2>7
  <2>9. req' \in [Requests -> RequestShape]
    BY <1>3, <2>8 DEF Created, RequestOK
  <2>10. /\ bytes' \in [Uploads \X Chunks -> SUBSET Blocks] /\ bytes'[f] = {}
         /\ sent' \in [Uploads \X Chunks -> 0..ChunkLen] /\ sent'[f] = x.len
         /\ \A g \in Uploads \X Chunks : g # f => bytes'[g] = bytes[g] /\ sent'[g] = sent[g]
    BY <1>1, <1>3, <2>1 DEF BytesInv, Blocks
  <2>11. ASSUME NEW g \in present' PROVE FileOK(g)'
    <3>1. CASE g = f
      <4>1. 1..x.filled = {}
        BY <2>1
      <4>2. Fills(req'[p], f, bytes'[f])
        BY <2>1, <2>4, <2>10, <4>1 DEF Fills
      <4>3. ASSUME NEW q \in Requests, req'[q].pc = "copying", FileOf(req'[q]) = f
            PROVE  req'[q].len = sent'[f] \/ f[1] \in overlapped'
        <5>1. CASE q = p
          BY <2>4, <2>10, <5>1
        <5>2. CASE q # p
          <6>1. req'[q] = req[q]
            BY <2>4, <2>5, <4>3, <5>2
          <6>2. q \in OnFile(f, {"copying"})
            BY <4>3, <6>1 DEF OnFile, FileOf
          <6> QED
            BY <1>3, <2>1, <2>10, <6>1, <6>2
        <5> QED
          BY <5>1, <5>2
      <4>4. f[1] \in overlapped' \/ Agreed(f)'
        BY <2>10, <4>3 DEF Agreed
      <4> QED
        BY <3>1, <4>2, <4>4 DEF FileOK
    <3>2. CASE g # f
      <4>1. g \in present /\ g \in Uploads \X Chunks /\ FileOK(g)
        BY <1>3, <3>2 DEF BytesInv
      <4>2. bytes'[g] = bytes[g] /\ sent'[g] = sent[g] /\ cut' = cut
        BY <1>1, <2>10, <3>2, <4>1
      <4>3. \A q \in Requests : FileOf(req'[q]) = g /\ req'[q].pc = "copying" => req'[q] = req[q]
        BY <2>1, <2>4, <2>5, <3>2
      <4>4. g[1] \in overlapped' \/ Agreed(g)'
        BY <1>3, <4>1, <4>2, <4>3 DEF FileOK, Agreed
      <4>5. ASSUME NEW q \in Requests, Fills(req[q], g, bytes[g]) PROVE Fills(req'[q], g, bytes'[g])
        <5>1. q # p /\ q \notin S
          BY <1>1, <2>5, <4>5 DEF Fills
        <5> QED
          BY <2>4, <4>2, <4>5, <5>1
      <4> QED
        BY <2>3, <4>1, <4>2, <4>4, <4>5 DEF FileOK
    <3> QED
      BY <3>1, <3>2
  <2>12. present' \subseteq Uploads \X Chunks /\ broken' \subseteq Excused'
    BY <1>1, <1>3, <2>3 DEF BytesInv
  <2> QED
    BY <2>8, <2>9, <2>10, <2>11, <2>12 DEF BytesInv, Blocks, Chunks
<1>4. CASE ~(Finish(p) /\ UNCHANGED <<present, bytes, sent, overlapped, littered>>)
  <2>1. /\ overlapped \subseteq overlapped' /\ (Readers(f) # {} => f[1] \in overlapped')
        /\ \A q \in OnFile(f, {"copying"}) : req[q].len # req[p].len => f[1] \in overlapped'
    BY <1>0, <1>4 DEF CreateChunkFile, FileOf
  <2>2. PICK S \in SUBSET Readers(f) :
          /\ req' = Created(p, S) /\ present' = present \union {f}
          /\ bytes' = [bytes EXCEPT ![f] = {}] /\ sent' = [sent EXCEPT ![f] = req[p].len]
    BY <1>0, <1>4, CreateMoves DEF FileOf
  <2> QED
    BY <1>3, <2>1, <2>2
<1> QED
  BY <1>2, <1>4

\* A block is written past what was written before, within the body's length.
LEMMA CopyBlockStep ==
    ASSUME BytesInv, NEW p \in Requests, CopyBlock(p)
    PROVE  BytesInv'
<1> DEFINE b == req[p].filled + 1
           x == [req[p] EXCEPT !.filled = b]
<1>0. PICK f : f = FileOf(req[p])
  OBVIOUS
<1>1. /\ req[p].pc = "copying" /\ b <= req[p].len /\ req' = [req EXCEPT ![p] = x]
      /\ bytes' = IF req[p].linked THEN [bytes EXCEPT ![f] = @ \union {b}] ELSE bytes
      /\ UNCHANGED <<present, sent, broken, overlapped, cut>> /\ Excused' = Excused
  BY <1>0 DEF CopyBlock, BytesInv, history, Excused, FileOf
<1>2. /\ RequestOK(req[p], Excused) /\ f \in Uploads \X Chunks /\ b \in Blocks
      /\ req[p].filled \in Nat /\ req[p].len \in Blocks
  <2>1. RequestOK(req[p], Excused)
    BY DEF BytesInv
  <2> QED
    BY <1>0, <1>1, <2>1, UploadConstants DEF RequestOK, FileOf, Blocks
<1>3. RequestOK(x, Excused) /\ x.pc = "copying" /\ x.filled = b /\ FileOf(x) = f
      /\ x.linked = req[p].linked /\ x.len = req[p].len
  BY <1>0, <1>1, <1>2 DEF RequestOK, RequestShape, FileOf
<1> HIDE DEF x
<1>4. /\ req' \in [Requests -> RequestShape] /\ req'[p] = x
      /\ \A q \in Requests \ {p} : req'[q] = req[q]
  BY <1>1, <1>3 DEF BytesInv, RequestOK
<1>5. /\ bytes' \in [Uploads \X Chunks -> SUBSET Blocks]
      /\ \A g \in Uploads \X Chunks : bytes[g] \subseteq bytes'[g]
      /\ \A g \in Uploads \X Chunks : g # f \/ ~req[p].linked => bytes'[g] = bytes[g]
      /\ \A g \in Uploads \X Chunks : bytes'[g] \subseteq bytes[g] \union {b}
      /\ req[p].linked => b \in bytes'[f]
  BY <1>1, <1>2 DEF BytesInv
<1>6. ASSUME NEW g \in present' PROVE FileOK(g)'
  <2>1. /\ g \in present /\ g \in Uploads \X Chunks /\ FileOK(g) /\ sent'[g] = sent[g]
        /\ sent[g] \in Int /\ Excused' = Excused /\ overlapped' = overlapped
    BY <1>1 DEF BytesInv
  <2>2. bytes[g] \subseteq bytes'[g] /\ bytes'[g] \subseteq Blocks
    BY <1>5, <2>1
  <2>3. \A q \in Requests : /\ FileOf(req'[q]) = FileOf(req[q]) /\ req'[q].pc = req[q].pc
                            /\ req'[q].len = req[q].len
    BY <1>0, <1>1, <1>3, <1>4
  <2>4. ASSUME Agreed(g) PROVE bytes'[g] \subseteq 1..sent[g]
    <3>1. CASE g # f \/ ~req[p].linked
      BY <1>5, <2>1, <2>4, <3>1 DEF Agreed
    <3>2. CASE g = f
      <4>1. req[p].len = sent[g]
        BY <1>0, <1>1, <2>4, <3>2 DEF Agreed
      <4>2. b \in 1..sent[g]
        BY <1>1, <1>2, <4>1 DEF Blocks
      <4> QED
        BY <1>5, <2>1, <2>4, <4>2 DEF Agreed
    <3> QED
      BY <3>1, <3>2
  <2>5. Agreed(g) => Agreed(g)'
    BY <2>1, <2>3, <2>4 DEF Agreed
  <2>6. g[1] \in overlapped' \/ Agreed(g)'
    BY <2>1, <2>5 DEF FileOK
  <2>7. CASE g[1] \in Excused
    BY <2>1, <2>6, <2>7 DEF FileOK
  <2>8. CASE bytes[g] = 1..sent[g] /\ g[1] \notin Excused
    <3>1. Agreed(g)
      BY <2>1, <2>8 DEF FileOK, Excused
    <3>2. bytes'[g] = 1..sent'[g]
      BY <2>1, <2>2, <2>4, <2>8, <3>1
    <3> QED
      BY <2>6, <3>2 DEF FileOK
  <2>9. ASSUME NEW q \in Requests, Fills(req[q], g, bytes[g]) PROVE Fills(req'[q], g, bytes'[g])
    <3>1. CASE q = p
      <4>1. g = f /\ req[p].linked /\ 1..req[p].filled \subseteq bytes[f]
        BY <1>0, <1>1, <2>9, <3>1 DEF Fills
      <4>2. 1..b = (1..req[p].filled) \union {b}
        BY <1>2
      <4>3. 1..x.filled \subseteq bytes'[g]
        BY <1>3, <1>5, <2>2, <4>1, <4>2
      <4> QED
        BY <1>3, <1>4, <3>1, <4>1, <4>3 DEF Fills
    <3>2. CASE q # p
      <4>1. req'[q] = req[q]
        BY <1>4, <3>2
      <4> QED
        BY <2>2, <2>9, <4>1 DEF Fills
    <3> QED
      BY <3>1, <3>2
  <2> QED
    BY <2>1, <2>6, <2>7, <2>8, <2>9 DEF FileOK
<1>7. \A q \in Requests : RequestOK(req'[q], Excused')
  BY <1>1, <1>3, <1>4 DEF BytesInv
<1>8. present' \subseteq Uploads \X Chunks /\ broken' \subseteq Excused'
  BY <1>1 DEF BytesInv
<1>9. sent' \in [Uploads \X Chunks -> 0..ChunkLen]
  BY <1>1 DEF BytesInv
<1> QED
  BY <1>4, <1>5, <1>6, <1>7, <1>8, <1>9 DEF BytesInv, Blocks, Chunks

\* A chunk that was copied to the end is whole, if its file is still the one the
\* request created and the bodies agree.
LEMMA RecordStep ==
    ASSUME BytesInv, NEW p \in Requests, RecordChunk(p)
    PROVE  BytesInv'
<1>1. /\ req[p].pc = "copying" /\ req[p].filled = req[p].len /\ RequestOK(req[p], Excused)
      /\ UNCHANGED <<present, bytes, sent, broken, overlapped, cut>>
      /\ Excused' = Excused /\ broken \subseteq Excused
      /\ Finish(p) \/ Goto(p, "discarding")
  BY DEF RecordChunk, BytesInv, disk, history, Excused
<1>2. CASE Finish(p)
  <2>1. ASSUME NEW f \in present, Fills(req[p], f, bytes[f]), f[1] \notin overlapped
        PROVE  bytes[f] = 1..sent[f]
    <3>1. Agreed(f)
      BY <2>1 DEF BytesInv, FileOK
    <3>2. req[p].len = sent[f] /\ 1..req[p].filled \subseteq bytes[f]
      BY <1>1, <2>1, <3>1 DEF Fills, Agreed
    <3> QED
      BY <1>1, <3>1, <3>2 DEF Agreed
  <2>2. Idle.pc # "copying"
    BY DEF Idle
  <2> QED
    BY <1>1, <1>2, <2>1, <2>2, QuietStep, IdleOK DEF Finish
<1>3. CASE Goto(p, "discarding")
  <2> DEFINE x == [req[p] EXCEPT !.pc = "discarding"]
  <2>1. RequestOK(x, Excused)
    BY <1>1, GotoOK DEF PCs, Finalizing
  <2>2. req' = [req EXCEPT ![p] = x]
    BY <1>3 DEF Goto, BytesInv
  <2>3. \A f : Fills(req[p], f, bytes[f]) => Fills(x, f, bytes[f])
    BY <1>1 DEF Fills, FileOf, RequestOK, RequestShape
  <2>4. x.pc # "copying"
    BY <1>1 DEF RequestOK, RequestShape
  <2> HIDE DEF x
  <2> QED
    BY <1>1, <2>1, <2>2, <2>3, <2>4, QuietStep
<1> QED
  BY <1>1, <1>2, <1>3

LEMMA DiscardStep ==
    ASSUME BytesInv, NEW p \in Requests, DiscardChunk(p)
    PROVE  BytesInv'
<1> DEFINE r == [req EXCEPT ![p] = Idle]
<1>0. PICK f : f = FileOf(req[p])
  OBVIOUS
<1>1. /\ req[p].pc = "discarding" /\ present' = present \ {f}
      /\ bytes' = [bytes EXCEPT ![f] = {}] /\ sent' = [sent EXCEPT ![f] = 0]
      /\ req' = Unlinked(r, {f})
      /\ UNCHANGED <<broken, overlapped, cut>> /\ Excused' = Excused
  BY <1>0 DEF DiscardChunk, history, Excused, FileOf
<1>2. r \in [Requests -> RequestShape] /\ (\A q \in Requests \ {p} : r[q] = req[q])
      /\ r[p].pc = "idle"
  BY IdleShape DEF BytesInv, Idle
<1>3. ASSUME NEW q \in Requests PROVE RequestOK(r[q], Excused)
  BY <1>2, IdleOK DEF BytesInv
<1> HIDE DEF r
<1>4. \A q \in Requests : req'[q] = r[q] \/ (FileOf(r[q]) = f /\ req'[q] = [r[q] EXCEPT !.linked = FALSE])
  BY <1>1 DEF Unlinked, FileOf
<1>5. /\ req' \in [Requests -> RequestShape]
      /\ \A q \in Requests : req'[q].pc = r[q].pc
  BY <1>1, <1>2, UnlinkedShape
<1>6. ASSUME NEW q \in Requests PROVE RequestOK(req'[q], Excused')
  <2>1. RequestOK([r[q] EXCEPT !.linked = FALSE], Excused)
    BY <1>3, UnlinkedOK
  <2> QED
    BY <1>1, <1>3, <1>4, <2>1
<1>7. /\ bytes' \in [Uploads \X Chunks -> SUBSET Blocks]
      /\ sent' \in [Uploads \X Chunks -> 0..ChunkLen]
  <2>1. 0 \in 0..ChunkLen
    BY UploadConstants
  <2>2. bytes' \in [Uploads \X Chunks -> SUBSET Blocks]
    BY <1>1 DEF BytesInv
  <2>3. sent' \in [Uploads \X Chunks -> 0..ChunkLen]
    BY <1>1, <2>1 DEF BytesInv
  <2> QED
    BY <2>2, <2>3
<1>8. ASSUME NEW g \in present' PROVE FileOK(g)'
  <2>1. g \in present /\ g # f /\ g \in Uploads \X Chunks /\ FileOK(g)
        /\ UNCHANGED <<overlapped, cut>> /\ Excused' = Excused
    BY <1>1 DEF BytesInv
  <2>2. bytes'[g] = bytes[g] /\ sent'[g] = sent[g]
    BY <1>1, <2>1 DEF BytesInv
  <2>3. ASSUME NEW q \in Requests, FileOf(req'[q]) = g, req'[q].pc = "copying"
        PROVE  req'[q] = req[q]
    <3>1. r[q] = req[q]
      BY <1>2, <1>5, <2>3
    <3>2. req'[q] = [r[q] EXCEPT !.linked = FALSE] => FileOf(req'[q]) = FileOf(r[q])
      BY <1>2 DEF FileOf, RequestShape
    <3> QED
      BY <1>4, <2>1, <2>3, <3>1, <3>2
  <2>4. g[1] \in overlapped' \/ Agreed(g)'
    BY <2>1, <2>2, <2>3 DEF FileOK, Agreed
  <2>5. ASSUME NEW q \in Requests, Fills(req[q], g, bytes[g]) PROVE Fills(req'[q], g, bytes'[g])
    <3>1. q # p /\ FileOf(req[q]) = g
      BY <1>0, <2>1, <2>5 DEF Fills
    <3>2. req'[q] = req[q]
      BY <1>2, <1>4, <2>1, <3>1
    <3> QED
      BY <2>2, <2>5, <3>2
  <2> QED
    BY <2>1, <2>2, <2>4, <2>5 DEF FileOK
<1>9. present' \subseteq Uploads \X Chunks /\ broken' \subseteq Excused'
  BY <1>1 DEF BytesInv
<1> QED
  BY <1>5, <1>6, <1>7, <1>8, <1>9 DEF BytesInv, Blocks, Chunks

\* What is read is whole, unless somebody is writing it.
LEMMA OpenStep ==
    ASSUME BytesInv, NEW p \in Requests, OpenChunk(p)
    PROVE  BytesInv'
<1> DEFINE y == Reading(req[p])
           z == Spoil(y)
<1>0. PICK f : f = FileOf(req[p])
  OBVIOUS
<1>1. /\ req[p].pc = "assembling" /\ f \in present
      /\ req' = [req EXCEPT ![p] = y] \/ req' = [req EXCEPT ![p] = z]
      /\ req' # [req EXCEPT ![p] = y] => ~IsWhole(f) \/ Writers(f) # {}
      /\ overlapped \subseteq overlapped' /\ (Writers(f) # {} => f[1] \in overlapped')
      /\ UNCHANGED <<present, bytes, sent, broken, cut>>
      /\ RequestOK(req[p], Excused) /\ broken \subseteq Excused
  BY <1>0 DEF OpenChunk, BytesInv, disk, FileOf
<1>2. Excused \subseteq Excused' /\ f[1] = req[p].upload
  BY <1>0, <1>1 DEF Excused, FileOf
<1>3. ~IsWhole(f) \/ Writers(f) # {} => f[1] \in Excused'
  <2>1. FileOK(f)
    BY <1>1 DEF BytesInv
  <2>2. ASSUME NEW q \in Requests, Fills(req[q], f, bytes[f]) PROVE f[1] \in overlapped'
    <3>1. q \in Writers(f)
      BY <2>2 DEF Fills, FileOf, Writers, OnFile
    <3> QED
      BY <1>1, <3>1
  <2> QED
    BY <1>1, <1>2, <2>1, <2>2 DEF FileOK, Excused, IsWhole
<1>4. /\ req[p] \in RequestShape
      /\ y \in RequestShape /\ y.pc = "reading" /\ y.whole = req[p].whole
      /\ y.upload = req[p].upload /\ y.filled = req[p].filled
  BY <1>1, OpenedToRead DEF RequestOK
<1>5. /\ z \in RequestShape /\ z.pc = "reading" /\ z.upload = req[p].upload
      /\ z.filled = req[p].filled
  BY <1>4, Spoiled
<1>6. \A g : ~Fills(req[p], g, bytes[g])
  BY <1>1 DEF Fills
<1> HIDE DEF y, z
<1>7. CASE req' = [req EXCEPT ![p] = y]
  <2>1. RequestOK(y, Excused')
    BY <1>1, <1>2, <1>4 DEF RequestOK
  <2>2. broken' \subseteq Excused' /\ y.pc # "copying"
    BY <1>1, <1>2, <1>4
  <2> QED
    BY <1>1, <1>6, <1>7, <2>1, <2>2, QuietStep
<1>8. CASE req' = [req EXCEPT ![p] = z] /\ req' # [req EXCEPT ![p] = y]
  <2>1. RequestOK(z, Excused')
    BY <1>1, <1>2, <1>3, <1>5, <1>8 DEF RequestOK
  <2>2. broken' \subseteq Excused' /\ z.pc # "copying"
    BY <1>1, <1>2, <1>5
  <2> QED
    BY <1>1, <1>6, <1>8, <2>1, <2>2, QuietStep
<1> QED
  BY <1>1, <1>7, <1>8

LEMMA CloseStep ==
    ASSUME BytesInv, NEW p \in Requests, CloseChunk(p)
    PROVE  BytesInv'
<1> DEFINE x == Close(req[p])
<1>1. /\ req[p].pc = "reading" /\ req' = [req EXCEPT ![p] = x]
      /\ UNCHANGED <<present, bytes, sent, broken, overlapped, cut>> /\ Excused' = Excused
      /\ RequestOK(req[p], Excused) /\ broken \subseteq Excused
  BY DEF CloseChunk, BytesInv, disk, history, Excused
<1>2. /\ x \in RequestShape /\ x.pc = "assembling" /\ x.whole = req[p].whole
      /\ x.upload = req[p].upload /\ x.filled = req[p].filled
  BY <1>1, Closed DEF RequestOK
<1> HIDE DEF x
<1>3. RequestOK(x, Excused')
  BY <1>1, <1>2 DEF RequestOK
<1>4. \A g : ~Fills(req[p], g, bytes[g])
  BY <1>1 DEF Fills
<1> QED
  BY <1>1, <1>2, <1>3, <1>4, QuietStep

LEMMA SaveUploadStep ==
    ASSUME BytesInv, NEW p \in Requests, SaveUpload(p)
    PROVE  BytesInv'
<1>1. /\ req[p].pc = "saving" /\ Finish(p) /\ UNCHANGED <<present, bytes, sent, overlapped, cut>>
      /\ \/ broken' = broken
         \/ ~req[p].whole /\ broken' = broken \union {req[p].upload}
  BY DEF SaveUpload, disk
<1>2. RequestOK(req[p], Excused) /\ Excused' = Excused /\ broken \subseteq Excused
  BY <1>1 DEF BytesInv, Excused
<1>3. broken' \subseteq Excused'
  BY <1>1, <1>2 DEF RequestOK
<1>4. (\A f : ~Fills(req[p], f, bytes[f])) /\ Idle.pc # "copying"
  BY <1>1 DEF Fills, Idle
<1> QED
  BY <1>1, <1>2, <1>3, <1>4, IdleOK, QuietStep DEF Finish

\* A restart notes which of the chunk files it finds are not whole.
LEMMA RestartBytes ==
    ASSUME BytesInv, Restart
    PROVE  BytesInv'
<1>1. PICK F \in SUBSET present :
        /\ present' = present \ F
        /\ bytes' = [f \in Uploads \X Chunks |-> IF f \in F THEN {} ELSE bytes[f]]
        /\ sent' = [f \in Uploads \X Chunks |-> IF f \in F THEN 0 ELSE sent[f]]
  BY DEF Restart
<1>2. /\ req' = [q \in Requests |-> Idle] /\ UNCHANGED <<broken, overlapped>>
      /\ cut' = cut \union {f[1] : f \in {g \in present' : ~IsWhole(g)'}}
  BY DEF Restart
<1>3. Excused \subseteq Excused'
  BY <1>2 DEF Excused
<1>4. /\ req' \in [Requests -> RequestShape]
      /\ \A q \in Requests : req'[q].pc = "idle" /\ RequestOK(req'[q], Excused')
  BY <1>2, IdleOK, IdleShape DEF Idle
<1>5. /\ bytes' \in [Uploads \X Chunks -> SUBSET Blocks]
      /\ sent' \in [Uploads \X Chunks -> 0..ChunkLen]
  <2>1. \A f \in Uploads \X Chunks : bytes[f] \in SUBSET Blocks /\ sent[f] \in 0..ChunkLen
    BY DEF BytesInv
  <2> QED
    BY <1>1, <2>1, UploadConstants
<1>6. ASSUME NEW f \in present' PROVE FileOK(f)'
  <2>1. f \in Uploads \X Chunks /\ f \in present /\ FileOK(f) /\ f \notin F
    BY <1>1 DEF BytesInv
  <2>2. bytes'[f] = bytes[f] /\ sent'[f] = sent[f]
    BY <1>1, <2>1
  <2>3. f[1] \in overlapped' \/ Agreed(f)'
    BY <1>2, <1>4, <2>1, <2>2 DEF FileOK, Agreed
  <2>4. bytes'[f] = 1..sent'[f] \/ f[1] \in cut'
    BY <1>2, <1>6 DEF IsWhole
  <2> QED
    BY <2>3, <2>4 DEF FileOK, Excused
<1>7. present' \subseteq Uploads \X Chunks /\ broken' \subseteq Excused'
  BY <1>1, <1>2, <1>3 DEF BytesInv
<1> QED
  BY <1>4, <1>5, <1>6, <1>7 DEF BytesInv, Blocks, Chunks

LEMMA BytesStep ==
    ASSUME BytesInv, [Next]_vars
    PROVE  BytesInv'
<1>1. ASSUME NEW p \in Requests, Proceed(p) \/ Receive(p) PROVE BytesInv'
  BY <1>1, QuietSteps, RemovingSteps, CreateFileStep, CopyBlockStep, RecordStep, DiscardStep,
     OpenStep, CloseStep, SaveUploadStep DEF Proceed, Receive
<1>2. CASE (\E u \in Uploads : Age(u)) \/ UNCHANGED vars
  <2>1. UNCHANGED <<req, present, bytes, sent, broken, overlapped, cut>>
    BY <1>2 DEF Age, vars, disk, history
  <2>2. Excused' = Excused
    BY <2>1 DEF Excused
  <2>3. \A f \in present : FileOK(f)' <=> FileOK(f)
    BY <2>1, <2>2 DEF FileOK, Agreed
  <2> QED
    BY <2>1, <2>2, <2>3 DEF BytesInv, Blocks, Chunks
<1> QED
  BY <1>1, <1>2, RemovingSteps, RestartBytes DEF Next

LEMMA BytesInitially == Init => BytesInv
<1> SUFFICES ASSUME Init PROVE BytesInv
  OBVIOUS
<1>1. \A q \in Requests : RequestOK(req[q], Excused)
  BY IdleOK DEF Init
<1>2. req \in [Requests -> RequestShape]
  BY IdleShape DEF Init
<1>3. sent \in [Uploads \X Chunks -> 0..ChunkLen]
  BY UploadConstants DEF Init
<1> QED
  BY <1>1, <1>2, <1>3 DEF Init, BytesInv

\* A share is byte for byte what the client sent last, unless one of its chunks was
\* being written when it was read, two bodies of different lengths met in one chunk, or
\* a crash had left one half-written: for any numbers of requests, chunks and blocks,
\* and any order of repeated and failed chunks.
THEOREM DamageIsExplained == Spec => []BrokenHasACause
<1>1. Init => BytesInv
  BY BytesInitially
<1>2. BytesInv /\ [Next]_vars => BytesInv'
  BY BytesStep
<1>3. BytesInv => BrokenHasACause
  BY DEF BytesInv, BrokenHasACause, Excused
<1> QED
  BY <1>1, <1>2, <1>3, PTL DEF Spec

-----------------------------------------------------------------------------
(* Types and counts. What the registry counts of an upload is the sum of   *)
(* its chunks' sizes, in every state; while the process runs it never      *)
(* exceeds the declared size, and no chunk file is larger than what was    *)
(* counted of it, unless somebody is at work on it. After a restart the    *)
(* count may: the sizes are read from the disk.                            *)

Total(u) == SumFunctionOnSet(sizes[u], Chunks)

DiskInv ==
    /\ dirs \subseteq Uploads /\ manifests \subseteq dirs
    /\ cleaning \in reg \union {NoUpload}
    /\ \A p \in Requests : req[p].pc = "making" => req[p].upload \in dirs

CountInv ==
    /\ received \in [Uploads -> SUBSET Chunks]
    /\ sizes \in [Uploads -> [Chunks -> 0..ChunkLen]]
    /\ receivedBytes = [u \in Uploads |-> Total(u)]
    /\ crashes \in Nat
    /\ crashes = 0 => \A u \in Uploads : receivedBytes[u] <= declared[u]

\* An upload nobody can have sent a chunk of
Fresh(u) ==
    \/ declared[u] = 0
    \/ \E p \in Requests : req[p].upload = u /\ req[p].pc \in {"making", "registering"}

FreshInv ==
    \A u \in Uploads : Fresh(u) =>
        /\ \A f \in present : f[1] # u
        /\ \A q \in Requests : req[q].upload = u =>
              req[q].pc \notin {"creating", "copying", "discarding"}

Busy(f) == \E q \in Requests : FileOf(req[q]) = f /\ req[q].pc \in {"copying", "discarding"}

SizeInv ==
    crashes = 0 => \A f \in present :
        \/ f[1] \notin reg \/ f[1] \in overlapped \/ Busy(f)
        \/ bytes[f] \subseteq 1..sizes[f[1]][f[2]]

OtherInv ==
    /\ req \in [Requests -> Request]
    /\ reg \subseteq Uploads /\ old \subseteq Uploads
    /\ cleaner \in BOOLEAN /\ fails \in Nat
    /\ broken \subseteq Uploads /\ overlapped \subseteq Uploads
    /\ cut \subseteq Uploads /\ littered \subseteq Uploads

\* Only a chunk that exists is opened, and the one that was opened is read.
ReadInv == \A q \in Requests : req[q].pc = "reading" => req[q].chunk \in Chunks

UploadsOK == Shapes /\ UploadInv /\ BytesInv
FullInv ==
    UploadsOK /\ DiskInv /\ CountInv /\ FreshInv /\ SizeInv /\ ReadInv /\ OtherInv

LEMMA ChunksFinite == IsFiniteSet(Chunks) /\ IsFiniteSet(Blocks)
  BY UploadConstants, FS_Interval DEF Chunks, Blocks

\* Only its own request changes what a request works on, and whether it makes a
\* directory or writes a chunk.
LEMMA RequestsMove ==
    ASSUME UploadsOK, NEW p \in Requests, Proceed(p) \/ Receive(p)
    PROVE  /\ OthersStay(p)
           /\ \A q \in Requests \ {p} : req'[q].chunk = req[q].chunk
           /\ req'[p].pc = "making" => \E u \in Uploads : MakeDir(p, u)
           /\ req'[p].pc = "registering" => WriteManifest(p) /\ req'[p].upload = req[p].upload
           /\ req'[p].pc = "creating" =>
                \E u \in Uploads, c \in Chunks, n \in Blocks : BeginChunk(p, u, c, n)
           /\ req'[p].pc = "copying" => /\ CreateChunkFile(p) \/ CopyBlock(p)
                                        /\ FileOf(req'[p]) = FileOf(req[p])
           /\ req'[p].pc = "discarding" => /\ CopyFails(p) \/ RecordChunk(p)
                                           /\ FileOf(req'[p]) = FileOf(req[p])
           /\ req'[p].pc = "reading" => OpenChunk(p)
<1>0. /\ ShapeOK(req) /\ req \in [Requests -> RequestShape]
      /\ \A q \in Requests : RequestOK(req[q], Excused)
  BY DEF UploadsOK, Shapes, ShapeOK, BytesInv
<1> DEFINE Moved(x) == /\ OthersStay(p)
                       /\ \A q \in Requests \ {p} : req'[q].chunk = req[q].chunk
                       /\ req'[p].pc = x.pc /\ req'[p].upload = x.upload
                       /\ req'[p].chunk = x.chunk
<1>1. ASSUME NEW x \in RequestShape, req' = [req EXCEPT ![p] = x] PROVE Moved(x)
  BY <1>0, <1>1 DEF OthersStay
<1>2. ASSUME NEW x \in RequestShape, NEW F, req' = Unlinked([req EXCEPT ![p] = x], F)
      PROVE  Moved(x)
  <2> DEFINE r == [req EXCEPT ![p] = x]
  <2>1. r \in [Requests -> RequestShape] /\ r[p] = x /\ \A q \in Requests \ {p} : r[q] = req[q]
    BY <1>0
  <2>2. req' = Unlinked(r, F)
    BY <1>2
  <2> HIDE DEF r
  <2>3. \A q \in Requests : /\ req'[q].pc = r[q].pc /\ req'[q].upload = r[q].upload
                            /\ req'[q].chunk = r[q].chunk
    BY <2>1, <2>2 DEF Unlinked, RequestShape
  <2> QED
    BY <2>1, <2>3 DEF OthersStay
<1>3. Idle \in RequestShape /\ Idle.pc = "idle" /\ (Finish(p) => req' = [req EXCEPT ![p] = Idle])
  BY IdleShape DEF Idle, Finish
<1>4. ASSUME NEW pc \in PCs
      PROVE  LET x == [req[p] EXCEPT !.pc = pc]
             IN  /\ x \in RequestShape /\ x.pc = pc /\ x.upload = req[p].upload
                 /\ x.chunk = req[p].chunk
                 /\ [req EXCEPT ![p].pc = pc] = [req EXCEPT ![p] = x]
                 /\ Goto(p, pc) => req' = [req EXCEPT ![p] = x]
  BY <1>0 DEF RequestShape, Goto
<1>5. ASSUME NEW pc \in PCs, Goto(p, pc)
      PROVE  /\ OthersStay(p) /\ \A q \in Requests \ {p} : req'[q].chunk = req[q].chunk
             /\ req'[p].pc = pc /\ req'[p].upload = req[p].upload /\ FileOf(req'[p]) = FileOf(req[p])
  <2> DEFINE x == [req[p] EXCEPT !.pc = pc]
  <2>1. /\ x \in RequestShape /\ x.pc = pc /\ x.upload = req[p].upload
        /\ x.chunk = req[p].chunk /\ req' = [req EXCEPT ![p] = x]
    BY <1>4, <1>5
  <2> HIDE DEF x
  <2>2. Moved(x)
    BY <1>1, <2>1
  <2> QED
    BY <2>1, <2>2 DEF FileOf
<1>6. Finish(p) => /\ OthersStay(p) /\ \A q \in Requests \ {p} : req'[q].chunk = req[q].chunk
                   /\ req'[p].pc = "idle"
  BY <1>1, <1>3
<1>7. ASSUME NEW pc \in PCs, NEW u, ClearDir(u, [req EXCEPT ![p].pc = pc])
      PROVE  /\ OthersStay(p) /\ \A q \in Requests \ {p} : req'[q].chunk = req[q].chunk
             /\ req'[p].pc = pc
  <2> DEFINE x == [req[p] EXCEPT !.pc = pc]
  <2>1. /\ x \in RequestShape /\ x.pc = pc /\ [req EXCEPT ![p].pc = pc] = [req EXCEPT ![p] = x]
    BY <1>4
  <2> HIDE DEF x
  <2>2. req' = Unlinked([req EXCEPT ![p] = x], FilesOf(u))
    BY <1>7, <2>1 DEF ClearDir
  <2>3. Moved(x)
    BY <1>2, <2>1, <2>2
  <2> QED
    BY <2>1, <2>3
<1>8. ASSUME NEW pc \in PCs, NEW u \in Uploads, NEW c \in Int, NEW n \in Int, Start(p, pc, u, c, n)
      PROVE  /\ OthersStay(p) /\ \A q \in Requests \ {p} : req'[q].chunk = req[q].chunk
             /\ req'[p].pc = pc
  <2> DEFINE x == [Idle EXCEPT !.pc = pc, !.upload = u, !.chunk = c, !.len = n]
  <2>1. x \in RequestShape /\ x.pc = pc
    BY IdleShape DEF RequestShape, Idle
  <2>2. req' = [req EXCEPT ![p] = x]
    BY <1>8 DEF Start
  <2> HIDE DEF x
  <2>3. Moved(x)
    BY <1>1, <2>1, <2>2
  <2> QED
    BY <2>1, <2>3
<1>9. ASSUME NEW u \in Uploads, MakeDir(p, u) \/ BeginFinalize(p, u)
      PROVE  /\ OthersStay(p) /\ \A q \in Requests \ {p} : req'[q].chunk = req[q].chunk
             /\ req'[p].pc = IF MakeDir(p, u) THEN "making" ELSE "taking"
  <2>1. MakeDir(p, u) => Start(p, "making", u, 0, 0)
    BY DEF MakeDir
  <2>2. ~MakeDir(p, u) => Start(p, "taking", u, 0, 0)
    BY <1>9 DEF BeginFinalize
  <2> QED
    BY <1>8, <2>1, <2>2 DEF PCs
<1>10. ASSUME NEW u \in Uploads, NEW c \in Chunks, NEW n \in Blocks, BeginChunk(p, u, c, n)
       PROVE  /\ OthersStay(p) /\ \A q \in Requests \ {p} : req'[q].chunk = req[q].chunk
              /\ req'[p].pc = "creating"
  <2>1. Start(p, "creating", u, c, n) /\ c \in Int /\ n \in Int
    BY <1>10, ChunkIndices DEF BeginChunk
  <2> QED
    BY <1>8, <2>1 DEF PCs
<1>11. CASE CreateChunkFile(p)
  <2>1. CASE Finish(p)
    BY <1>6, <2>1
  <2>2. ASSUME NEW S, req' = Created(p, S)
        PROVE  /\ OthersStay(p) /\ \A q \in Requests \ {p} : req'[q].chunk = req[q].chunk
               /\ req'[p].pc = "copying" /\ FileOf(req'[p]) = FileOf(req[p])
    <3>1. /\ req'[p] = Writing(req[p])
          /\ \A q \in Requests \ {p} : req'[q] = IF q \in S THEN Spoil(req[q]) ELSE req[q]
      BY <2>2 DEF Created
    <3>2. /\ Writing(req[p]).pc = "copying" /\ FileOf(Writing(req[p])) = FileOf(req[p])
      BY <1>0, Opened DEF FileOf
    <3>3. \A q \in Requests : /\ Spoil(req[q]).pc = req[q].pc
                              /\ Spoil(req[q]).upload = req[q].upload
                              /\ Spoil(req[q]).chunk = req[q].chunk
      BY <1>0, Spoiled
    <3> QED
      BY <3>1, <3>2, <3>3 DEF OthersStay
  <2> QED
    BY <1>11, <2>1, <2>2, CreateMoves
<1>12. CASE CopyBlock(p)
  <2> DEFINE b == req[p].filled + 1
             x == [req[p] EXCEPT !.filled = b]
  <2>1. b \in Int
    BY <1>0 DEF RequestShape
  <2>2. /\ x \in RequestShape /\ x.pc = "copying" /\ FileOf(x) = FileOf(req[p])
        /\ x.upload = req[p].upload /\ x.chunk = req[p].chunk
    BY <1>0, <1>12, <2>1 DEF RequestShape, CopyBlock, FileOf
  <2>3. req' = [req EXCEPT ![p] = x]
    BY <1>0, <1>12 DEF CopyBlock
  <2> HIDE DEF x
  <2>4. Moved(x)
    BY <1>1, <2>2, <2>3
  <2> QED
    BY <1>12, <2>2, <2>4 DEF FileOf
<1>13. CASE DiscardChunk(p)
  <2>1. Moved(Idle)
    BY <1>2, <1>3, <1>13 DEF DiscardChunk
  <2> QED
    BY <1>3, <2>1
<1>14. CASE OpenChunk(p) \/ CloseChunk(p)
  <2>1. PICK x \in {Reading(req[p]), Spoil(Reading(req[p])), Close(req[p])} :
            req' = [req EXCEPT ![p] = x] /\ (x = Close(req[p]) \/ OpenChunk(p))
    BY <1>14 DEF OpenChunk, CloseChunk
  <2>2. /\ Reading(req[p]) \in RequestShape /\ Reading(req[p]).pc = "reading"
        /\ Close(req[p]) \in RequestShape /\ Close(req[p]).pc = "assembling"
    BY <1>0, OpenedToRead, Closed
  <2>3. Spoil(Reading(req[p])) \in RequestShape /\ Spoil(Reading(req[p])).pc = "reading"
    BY <2>2, Spoiled
  <2>4. Moved(x)
    BY <1>1, <2>1, <2>2, <2>3
  <2>5. x.pc = "assembling" \/ (x.pc = "reading" /\ OpenChunk(p))
    BY <2>1, <2>2, <2>3
  <2> QED
    BY <2>4, <2>5
<1>15. CASE DropUpload(p) \/ EndAssembly(p)
  <2>1. \E pc \in {"removing", "clearing"} : ClearDir(req[p].upload, [req EXCEPT ![p].pc = pc])
    BY <1>15 DEF DropUpload, EndAssembly
  <2> QED
    BY <1>7, <2>1 DEF PCs
<1>16. CASE WriteManifest(p)
  <2>1. Goto(p, "registering") \/ Goto(p, "dropping")
    BY <1>16 DEF WriteManifest
  <2> QED
    BY <1>5, <1>16, <2>1 DEF PCs
<1>17. CASE CopyFails(p) \/ RecordChunk(p)
  <2>1. Finish(p) \/ Goto(p, "discarding")
    BY <1>17 DEF CopyFails, RecordChunk
  <2> QED
    BY <1>5, <1>6, <1>17, <2>1 DEF PCs
<1>18. CASE \/ Register(p) \/ TakeUpload(p) \/ DecodeForm(p) \/ AssemblyFails(p)
            \/ EndDrop(p) \/ EndClear(p) \/ SaveUpload(p)
  <2>1. \/ Finish(p) \/ Goto(p, "dropping") \/ Goto(p, "decoding")
        \/ Goto(p, "assembling") \/ Goto(p, "saving")
    BY <1>18 DEF Register, TakeUpload, DecodeForm, AssemblyFails, EndDrop, EndClear, SaveUpload
  <2> QED
    BY <1>5, <1>6, <2>1 DEF PCs
<1> HIDE DEF Moved
<1> QED
  BY <1>9, <1>10, <1>11, <1>12, <1>13, <1>14, <1>15, <1>16, <1>17, <1>18 DEF Proceed, Receive

\* A directory with a manifest, or one whose manifest is being written, is removed
\* only by the request that holds the upload or with its entry.
LEMMA DiskStep ==
    ASSUME UploadsOK, DiskInv, [Next]_vars
    PROVE  DiskInv'
<1>0. ShapeOK(req) /\ UploadInv
  BY DEF UploadsOK, Shapes, ShapeOK
<1>1. ASSUME NEW p \in Requests, Proceed(p) \/ Receive(p) PROVE cleaning' \in reg' \union {NoUpload}
  <2>1. cleaning' = cleaning /\ (reg' = reg \/ MutexIsFree \/ reg \subseteq reg')
    BY <1>1
       DEF Proceed, Receive, MakeDir, BeginFinalize, BeginChunk, WriteManifest, Register,
           CreateChunkFile, CopyBlock, CopyFails, RecordChunk, DiscardChunk, TakeUpload,
           DecodeForm, OpenChunk, CloseChunk, AssemblyFails, DropUpload, EndDrop, EndAssembly,
           EndClear, SaveUpload, registry, worker
  <2> QED
    BY <2>1 DEF DiskInv, MutexIsFree
<1>2. ASSUME NEW p \in Requests, NEW u \in Uploads, MakeDir(p, u) PROVE DiskInv'
  <2>1. OthersStay(p) /\ req'[p].pc = "making" /\ req'[p].upload = u
    BY <1>0, <1>2, StartStep DEF MakeDir, PCs
  <2>2. dirs' = dirs \union {u} /\ manifests' = manifests
    BY <1>2 DEF MakeDir
  <2>3. cleaning' \in reg' \union {NoUpload}
    BY <1>1, <1>2 DEF Receive
  <2> QED
    BY <2>1, <2>2, <2>3 DEF DiskInv, OthersStay
<1>3. ASSUME NEW p \in Requests, Proceed(p) \/ Receive(p), ~ \E u \in Uploads : MakeDir(p, u)
      PROVE  DiskInv'
  <2>1. ASSUME NEW q \in Requests, req'[q].pc = "making"
        PROVE  q # p /\ req[q].pc = "making" /\ req'[q].upload = req[q].upload
    BY <1>3, <2>1, RequestsMove DEF OthersStay
  <2>2. CASE WriteManifest(p)
    BY <1>1, <2>1, <2>2 DEF WriteManifest, DiskInv, Proceed
  <2>3. CASE EndDrop(p) \/ EndClear(p)
    <3>1. RemoveDir(req[p].upload) /\ req[p].pc \in Holding /\ req[p].upload \in Uploads
      BY <1>0, <2>3 DEF EndDrop, EndClear, Holding, ShapeOK
    <3>2. \A q \in Requests \ {p} : req[q].pc = "making" => req[q].upload # req[p].upload
      BY <1>0, <3>1 DEF UploadInv, HolderInv, Holds, Holding
    <3>3. /\ manifests' = manifests /\ dirs' \subseteq dirs /\ dirs \ {req[p].upload} \subseteq dirs'
          /\ req[p].upload \in manifests => dirs' = dirs
      BY <3>1 DEF RemoveDir
    <3>4. cleaning' \in reg' \union {NoUpload}
      BY <1>1, <2>3 DEF Proceed
    <3> QED
      BY <2>1, <3>2, <3>3, <3>4 DEF DiskInv
  <2>4. CASE ~WriteManifest(p) /\ ~EndDrop(p) /\ ~EndClear(p)
    <3>1. dirs' = dirs /\ manifests' \subseteq manifests
      BY <1>3, <2>4
         DEF Proceed, Receive, BeginFinalize, BeginChunk, Register, CreateChunkFile, CopyBlock,
             CopyFails, RecordChunk, DiscardChunk, TakeUpload, DecodeForm, OpenChunk,
             CloseChunk, AssemblyFails, DropUpload, EndAssembly, SaveUpload, ClearDir, disk
    <3> QED
      BY <1>1, <1>3, <2>1, <3>1 DEF DiskInv
  <2> QED
    BY <2>2, <2>3, <2>4
<1>4. ASSUME NEW u \in Uploads, EmptyExpired(u) PROVE DiskInv'
  <2>1. \A q \in Requests : req'[q].pc = req[q].pc /\ req'[q].upload = req[q].upload
    BY <1>0, <1>4, UnlinkedShape DEF EmptyExpired, ClearDir, ShapeOK
  <2> QED
    BY <1>4, <2>1 DEF EmptyExpired, ClearDir, DiskInv, registry
<1>5. CASE RemoveExpired
  <2>1. cleaning \in reg /\ cleaning' = NoUpload /\ RemoveDir(cleaning) /\ req' = req
    BY <1>5 DEF RemoveExpired, DiskInv, MutexIsFree
  <2>2. \A q \in Requests : req[q].pc = "making" => req[q].upload # cleaning
    BY <1>0, <2>1 DEF ShapeOK, UploadInv, HolderInv, Holds, Holding
  <2> QED
    BY <2>1, <2>2 DEF RemoveDir, DiskInv
<1>6. CASE Restart
  <2>1. /\ \A q \in Requests : req'[q].pc # "making"
        /\ manifests' \subseteq manifests /\ dirs' = dirs /\ cleaning' = NoUpload
    BY <1>6 DEF Restart, Idle
  <2> QED
    BY <2>1 DEF DiskInv
<1>7. CASE (\E u \in Uploads : Age(u)) \/ UNCHANGED vars
  BY <1>7 DEF Age, vars, disk, registry, worker, DiskInv
<1> QED
  BY <1>2, <1>3, <1>4, <1>5, <1>6, <1>7 DEF Next, CleanupExpired

\* The sum of an upload's sizes, and the same of the next state
LEMMA TotalIsNat ==
    ASSUME CountInv, NEW u \in Uploads
    PROVE  Total(u) \in Nat /\ receivedBytes[u] = Total(u)
<1>1. \A c \in Chunks : sizes[u][c] \in Nat
  BY UploadConstants DEF CountInv
<1> QED
  BY <1>1, ChunksFinite, SumIsNat DEF CountInv, Total

LEMMA TotalOfSizes == ASSUME NEW s PROVE TotalOf(s) = SumFunctionOnSet(s, Chunks)
  BY SumOfValues DEF TotalOf

\* What an entry counted goes with it.
LEMMA ForgetStep ==
    ASSUME Shapes, CountInv, NEW u \in Uploads, Forget(u), UNCHANGED <<declared, crashes>>
    PROVE  CountInv'
<1>0. Chunks' = Chunks /\ 0 \in 0..ChunkLen
  BY UploadConstants DEF Chunks
<1>1. /\ received' \in [Uploads -> SUBSET Chunks]
      /\ sizes' \in [Uploads -> [Chunks -> 0..ChunkLen]]
  BY <1>0 DEF Forget, CountInv
<1>2. /\ sizes'[u] = [c \in Chunks |-> 0] /\ receivedBytes'[u] = 0
      /\ \A v \in Uploads \ {u} : sizes'[v] = sizes[v] /\ receivedBytes'[v] = receivedBytes[v]
      /\ receivedBytes' = [v \in Uploads |-> receivedBytes'[v]]
  BY DEF Forget, CountInv
<1>3. ASSUME NEW v \in Uploads
      PROVE  /\ receivedBytes'[v] = Total(v)'
             /\ crashes = 0 => receivedBytes'[v] <= declared[v]
  <2>1. CASE v = u
    <3>1. SumFunctionOnSet(sizes'[u], Chunks) = 0
      BY <1>2, ChunksFinite, SumOfZeros
    <3> QED
      BY <1>2, <2>1, <3>1 DEF Total, Chunks, Shapes
  <2>2. CASE v # u
    <3>1. sizes'[v] = sizes[v] /\ receivedBytes'[v] = receivedBytes[v]
      BY <1>2, <2>2
    <3>2. Total(v)' = Total(v)
      BY <3>1 DEF Total, Chunks
    <3> QED
      BY <3>1, <3>2 DEF CountInv
  <2> QED
    BY <2>1, <2>2
<1>4. receivedBytes' = [v \in Uploads |-> Total(v)']
  BY <1>2, <1>3
<1> QED
  BY <1>0, <1>1, <1>3, <1>4 DEF CountInv

\* A chunk that is sent again replaces what was counted of it.
LEMMA RecordCounts ==
    ASSUME UploadsOK, CountInv, NEW p \in Requests, RecordChunk(p)
    PROVE  CountInv'
<1>0. PICK u \in Uploads, c \in Chunks, n \in 0..ChunkLen :
        u = req[p].upload /\ c = req[p].chunk /\ n = req[p].filled
  <2>1. RequestOK(req[p], Excused) /\ req[p].pc = "copying" /\ req[p].filled = req[p].len
    BY DEF UploadsOK, BytesInv, RecordChunk
  <2> QED
    BY <2>1 DEF RequestOK, FileOf, Blocks
<1>1. UNCHANGED <<declared, crashes>>
  BY DEF RecordChunk, disk, counters
<1>2. CASE UNCHANGED <<received, sizes, receivedBytes>>
  BY <1>1, <1>2 DEF CountInv, Total, Chunks
<1>3. CASE /\ Accepted(u, c, n)
           /\ receivedBytes' = [receivedBytes EXCEPT ![u] = NewTotal(u, c, n)]
           /\ sizes' = [sizes EXCEPT ![u][c] = n]
           /\ received' = [received EXCEPT ![u] = @ \union {c}]
  <2>1. /\ received' \in [Uploads -> SUBSET Chunks]
        /\ sizes' \in [Uploads -> [Chunks -> 0..ChunkLen]]
    BY <1>3, UploadConstants DEF CountInv
  <2>2. /\ \A d \in Chunks : sizes[u][d] \in Int /\ sizes'[u][d] \in Int
        /\ sizes'[u][c] = n
        /\ \A d \in Chunks \ {c} : sizes[u][d] = sizes'[u][d]
    BY <1>3, <2>1, UploadConstants DEF CountInv
  <2>3. SumFunctionOnSet(sizes'[u], Chunks)
            = SumFunctionOnSet(sizes[u], Chunks) - sizes[u][c] + sizes'[u][c]
    BY <2>2, ChunksFinite, SumChanges
  <2>4. Total(u)' = Total(u) - sizes[u][c] + n
    BY <2>2, <2>3 DEF Total, Chunks
  <2>5. receivedBytes'[u] = Total(u)' /\ receivedBytes'[u] <= declared[u]
    <3>1. receivedBytes[u] = Total(u) /\ u \in DOMAIN receivedBytes
      BY DEF CountInv
    <3>2. receivedBytes'[u] = Total(u) - sizes[u][c] + n
      BY <1>3, <3>1 DEF NewTotal
    <3>3. NewTotal(u, c, n) <= declared[u]
      BY <1>3 DEF Accepted
    <3>4. NewTotal(u, c, n) = receivedBytes'[u]
      BY <3>1, <3>2 DEF NewTotal
    <3> QED
      BY <2>4, <3>2, <3>3, <3>4
  <2>6. ASSUME NEW v \in Uploads, v # u
        PROVE  /\ receivedBytes'[v] = Total(v)'
               /\ crashes = 0 => receivedBytes'[v] <= declared[v]
    <3>1. sizes'[v] = sizes[v] /\ receivedBytes'[v] = receivedBytes[v]
      BY <1>3, <2>6 DEF CountInv
    <3>2. Total(v)' = Total(v)
      BY <3>1 DEF Total, Chunks
    <3> QED
      BY <3>1, <3>2 DEF CountInv
  <2>7. receivedBytes' = [v \in Uploads |-> receivedBytes'[v]]
    BY <1>3 DEF CountInv
  <2>8. receivedBytes' = [v \in Uploads |-> Total(v)']
    BY <2>5, <2>6, <2>7
  <2> QED
    BY <1>1, <2>1, <2>5, <2>6, <2>8 DEF CountInv, Chunks
<1> QED
  BY <1>0, <1>2, <1>3 DEF RecordChunk

\* The size of a file is the number of its last block.
LEMMA SizeIsLast ==
    ASSUME NEW B, B \subseteq Blocks
    PROVE  LET size == Max(B \union {0})
           IN  size \in 0..ChunkLen /\ size \in B \union {0}
<1> DEFINE S == B \union {0}
<1>1. IsFiniteSet(S) /\ S # {} /\ S \subseteq Int /\ S \subseteq 0..ChunkLen
  <2>1. IsFiniteSet(B)
    BY ChunksFinite, FS_Subset
  <2>2. IsFiniteSet(S)
    BY <2>1, FS_AddElement
  <2> QED
    BY <2>2, UploadConstants DEF Blocks
<1> HIDE DEF S
<1>2. Max(S) \in S
  BY <1>1, MaxIsGreatest
<1> QED
  BY <1>1, <1>2 DEF S

\* After a crash the sizes are those of the files, which may be more than was counted.
LEMMA RestartCounts ==
    ASSUME UploadsOK, CountInv, Restart
    PROVE  CountInv'
<1>1. bytes' \in [Uploads \X Chunks -> SUBSET Blocks]
  BY RestartBytes DEF UploadsOK, BytesInv, Chunks, Blocks
<1>2. ASSUME NEW u \in Uploads PROVE SizesOnDisk(u)' \in [Chunks -> 0..ChunkLen]
  <2>1. SizesOnDisk(u)' = [c \in Chunks |-> SizesOnDisk(u)'[c]]
    BY DEF SizesOnDisk, Chunks
  <2>2. ASSUME NEW c \in Chunks PROVE SizesOnDisk(u)'[c] \in 0..ChunkLen
    <3> DEFINE B == {b \in bytes'[<<u, c>>] : <<u, c>> \in present'}
    <3>1. B \subseteq Blocks
      BY <1>1
    <3>2. SizesOnDisk(u)'[c] = Max(B \union {0})
      BY DEF SizesOnDisk, Chunks
    <3> HIDE DEF B
    <3> QED
      BY <3>1, <3>2, SizeIsLast
  <2> QED
    BY <2>1, <2>2
<1>3. /\ received' \in [Uploads -> SUBSET Chunks]
      /\ sizes' \in [Uploads -> [Chunks -> 0..ChunkLen]]
  <2>1. [c \in Chunks |-> 0] \in [Chunks -> 0..ChunkLen]
    BY UploadConstants
  <2>2. sizes' = [u \in Uploads |-> IF u \in reg' THEN SizesOnDisk(u)' ELSE [c \in Chunks |-> 0]]
    BY DEF Restart
  <2>3. received' \in [Uploads -> SUBSET Chunks]
    BY DEF Restart
  <2> QED
    BY <1>2, <2>1, <2>2, <2>3
<1>4. receivedBytes' = [u \in Uploads |-> SumFunctionOnSet(sizes'[u], Chunks)]
  <2>1. receivedBytes' = [u \in Uploads |-> TotalOf(sizes'[u])]
    BY DEF Restart
  <2> QED
    BY <2>1, TotalOfSizes
<1>5. crashes' \in Nat /\ crashes' # 0
  BY DEF Restart, CountInv
<1> QED
  BY <1>3, <1>4, <1>5 DEF CountInv, Total, Chunks

LEMMA CountStep ==
    ASSUME UploadsOK, DiskInv, OtherInv, CountInv, [Next]_vars
    PROVE  CountInv'
<1>0. Shapes
  BY DEF UploadsOK
<1>1. ASSUME UNCHANGED <<received, sizes, receivedBytes, declared, crashes>> PROVE CountInv'
  BY <1>1 DEF CountInv, Total, Chunks
<1>2. ASSUME NEW p \in Requests, NEW u \in Uploads, MakeDir(p, u) PROVE CountInv'
  <2>1. PICK d \in Declared \ {0} : declared' = [declared EXCEPT ![u] = d]
    BY <1>2 DEF MakeDir
  <2>2. d \in Nat /\ declared[u] = 0 /\ declared \in [Uploads -> Nat]
    BY <1>0, <1>2, UploadConstants DEF MakeDir, Shapes
  <2>3. \A v \in Uploads : declared[v] <= declared'[v] /\ declared'[v] \in Nat
    BY <2>1, <2>2
  <2>4. UNCHANGED <<received, sizes, receivedBytes, crashes>>
    BY <1>2 DEF MakeDir, registry, counters
  <2>5. \A v \in Uploads : receivedBytes[v] \in Nat
    BY TotalIsNat
  <2>6. \A v \in Uploads : Total(v)' = Total(v)
    BY <2>4 DEF Total, Chunks
  <2> QED
    BY <2>2, <2>3, <2>4, <2>5, <2>6 DEF CountInv, Chunks
<1>3. ASSUME NEW p \in Requests, TakeUpload(p) PROVE CountInv'
  <2>1. req[p].upload \in Uploads
    BY <1>0, <1>3 DEF TakeUpload, Shapes
  <2> QED
    BY <1>0, <1>3, <2>1, ForgetStep DEF TakeUpload, disk, counters
<1>4. CASE CleanupExpired
  <2>1. CASE RemoveExpired
    <3>1. cleaning \in Uploads
      BY <2>1 DEF RemoveExpired, MutexIsFree, DiskInv, OtherInv
    <3> QED
      BY <1>0, <2>1, <3>1, ForgetStep DEF RemoveExpired, RemoveDir, counters
  <2>2. ASSUME NEW u \in Uploads, EmptyExpired(u) PROVE CountInv'
    BY <1>1, <2>2 DEF EmptyExpired, ClearDir, registry, counters
  <2> QED
    BY <1>4, <2>1, <2>2 DEF CleanupExpired
<1>5. ASSUME NEW p \in Requests,
             \/ \E u \in Uploads : BeginFinalize(p, u)
             \/ \E u \in Uploads, c \in Chunks, n \in Blocks : BeginChunk(p, u, c, n)
             \/ WriteManifest(p) \/ Register(p) \/ CreateChunkFile(p) \/ CopyBlock(p)
             \/ CopyFails(p) \/ DiscardChunk(p) \/ DecodeForm(p) \/ OpenChunk(p)
             \/ CloseChunk(p) \/ AssemblyFails(p) \/ DropUpload(p) \/ EndDrop(p)
             \/ EndAssembly(p) \/ EndClear(p) \/ SaveUpload(p)
      PROVE  CountInv'
  <2>1. UNCHANGED <<received, sizes, receivedBytes, declared, crashes>>
    BY <1>5 DEF BeginFinalize, BeginChunk, WriteManifest, Register, CreateChunkFile,
         CopyBlock, CopyFails, DiscardChunk, DecodeForm, OpenChunk, CloseChunk,
         AssemblyFails, DropUpload, EndDrop, EndAssembly, EndClear, SaveUpload, ClearDir,
         RemoveDir, disk, registry, counters
  <2> QED
    BY <1>1, <2>1
<1>6. CASE (\E u \in Uploads : Age(u)) \/ UNCHANGED vars
  BY <1>1, <1>6 DEF Age, vars, disk, registry, counters
<1>7. ASSUME NEW p \in Requests, Proceed(p) \/ Receive(p) PROVE CountInv'
  BY <1>2, <1>3, <1>5, <1>7, RecordCounts DEF Proceed, Receive
<1> QED
  BY <1>4, <1>6, <1>7, RestartCounts DEF Next

\* Chunks are sent only for an upload that was registered, and none is registered twice.
LEMMA FreshStep ==
    ASSUME UploadsOK, FreshInv, [Next]_vars
    PROVE  FreshInv'
<1>0. ShapeOK(req) /\ UploadInv /\ declared \in [Uploads -> Nat]
  BY DEF UploadsOK, Shapes, ShapeOK
<1>a. ASSUME present' \subseteq present, \A u \in Uploads : Fresh(u)' => Fresh(u),
             \A q \in Requests : req'[q].pc \in {"creating", "copying", "discarding"} =>
                /\ req[q].pc \in {"creating", "copying", "discarding"}
                /\ req'[q].upload = req[q].upload
      PROVE  FreshInv'
  BY <1>a DEF FreshInv
<1>1. ASSUME NEW p \in Requests, Proceed(p) \/ Receive(p) PROVE FreshInv'
  <2>0. OthersStay(p)
    BY <1>1, RequestsMove
  <2>1. ASSUME NEW u \in Uploads, Fresh(u)' PROVE Fresh(u)
    <3>1. CASE declared'[u] = 0
      <4>1. declared' = declared \/ \E v \in Uploads : MakeDir(p, v)
        BY <1>1
           DEF Proceed, Receive, BeginFinalize, BeginChunk, WriteManifest, Register,
               CreateChunkFile, CopyBlock, CopyFails, RecordChunk, DiscardChunk, TakeUpload,
               DecodeForm, OpenChunk, CloseChunk, AssemblyFails, DropUpload, EndDrop,
               EndAssembly, EndClear, SaveUpload, ClearDir, RemoveDir, disk
      <4>2. ASSUME NEW v \in Uploads, MakeDir(p, v) PROVE declared[u] = 0
        BY <1>0, <3>1, <4>2 DEF MakeDir
      <4> QED
        BY <3>1, <4>1, <4>2 DEF Fresh
    <3>2. ASSUME NEW q \in Requests, req'[q].upload = u,
                 req'[q].pc \in {"making", "registering"}
          PROVE  Fresh(u)
      <4>1. CASE q # p
        BY <2>0, <3>2, <4>1 DEF OthersStay, Fresh
      <4>2. CASE q = p /\ req'[p].pc = "making"
        <5>1. PICK v \in Uploads : MakeDir(p, v)
          BY <1>1, <4>2, RequestsMove
        <5>2. req'[p].upload = v /\ declared[v] = 0
          BY <1>0, <5>1, StartStep DEF MakeDir, PCs
        <5> QED
          BY <3>2, <4>2, <5>2 DEF Fresh
      <4>3. CASE q = p /\ req'[p].pc = "registering"
        <5>1. WriteManifest(p) /\ req'[p].upload = req[p].upload
          BY <1>1, <4>3, RequestsMove
        <5>2. req[p].pc = "making"
          BY <5>1 DEF WriteManifest
        <5> QED
          BY <3>2, <4>3, <5>1, <5>2 DEF Fresh
      <4> QED
        BY <3>2, <4>1, <4>2, <4>3
    <3> QED
      BY <2>1, <3>1, <3>2 DEF Fresh
  <2>2. ASSUME NEW u \in Uploads, Fresh(u)', NEW q \in Requests, req'[q].upload = u
        PROVE  req'[q].pc \notin {"creating", "copying", "discarding"}
    <3>0. \A r \in Requests : req[r].upload = u =>
              req[r].pc \notin {"creating", "copying", "discarding"}
      BY <2>1, <2>2 DEF FreshInv
    <3>1. CASE q # p
      BY <2>0, <2>2, <3>0, <3>1 DEF OthersStay
    <3>2. CASE q = p /\ req'[p].pc = "creating"
      <4>1. PICK v \in Uploads, c \in Chunks, n \in Blocks : BeginChunk(p, v, c, n)
        BY <1>1, <3>2, RequestsMove
      <4>2. v \in reg /\ Start(p, "creating", v, c, n) /\ c \in Int /\ n \in Int
        BY <4>1, ChunkIndices DEF BeginChunk
      <4>3. req'[p].upload = v
        BY <1>0, <4>2, StartStep DEF PCs
      <4>4. ~Fresh(v)
        BY <1>0, <4>2 DEF Fresh, UploadInv, HolderInv, Holds, Holding
      <4> QED
        BY <2>1, <2>2, <3>2, <4>3, <4>4
    <3>3. CASE q = p /\ req'[p].pc \in {"copying", "discarding"}
      <4>1. /\ FileOf(req'[p]) = FileOf(req[p])
            /\ CreateChunkFile(p) \/ CopyBlock(p) \/ CopyFails(p) \/ RecordChunk(p)
        BY <1>1, <3>3, RequestsMove
      <4>2. req'[p].upload = req[p].upload /\ req[p].pc \in {"creating", "copying"}
        BY <4>1 DEF FileOf, CreateChunkFile, CopyBlock, CopyFails, RecordChunk
      <4> QED
        BY <2>2, <3>0, <3>3, <4>2
    <3> QED
      BY <3>1, <3>2, <3>3
  <2>3. ASSUME NEW u \in Uploads, Fresh(u)', NEW f \in present' PROVE f[1] # u
    <3>1. CASE f \in present
      BY <2>1, <2>3, <3>1 DEF FreshInv
    <3>2. CASE f \notin present
      <4>1. CreateChunkFile(p)
        BY <1>1, <2>3, <3>2
           DEF Proceed, Receive, MakeDir, BeginFinalize, BeginChunk, WriteManifest, Register,
               CopyBlock, CopyFails, RecordChunk, DiscardChunk, TakeUpload, DecodeForm,
               OpenChunk, CloseChunk, AssemblyFails, DropUpload, EndDrop, EndAssembly,
               EndClear, SaveUpload, ClearDir, RemoveDir, disk
      <4>2. f = <<req[p].upload, req[p].chunk>> /\ req[p].pc = "creating"
        BY <2>3, <3>2, <4>1 DEF CreateChunkFile
      <4> QED
        BY <2>1, <2>3, <4>2 DEF FreshInv
    <3> QED
      BY <3>1, <3>2
  <2> QED
    BY <2>2, <2>3 DEF FreshInv
<1>2. ASSUME NEW u \in Uploads, EmptyExpired(u) PROVE FreshInv'
  <2>1. \A q \in Requests : req'[q].pc = req[q].pc /\ req'[q].upload = req[q].upload
    BY <1>0, <1>2, UnlinkedShape DEF EmptyExpired, ClearDir, ShapeOK
  <2>2. present' \subseteq present /\ declared' = declared
    BY <1>2 DEF EmptyExpired, ClearDir
  <2> QED
    BY <1>a, <2>1, <2>2 DEF Fresh
<1>3. CASE Restart
  <2>1. present' \subseteq present /\ declared' = declared /\ \A q \in Requests : req'[q].pc = "idle"
    BY <1>3 DEF Restart, Idle
  <2> QED
    BY <1>a, <2>1 DEF Fresh
<1>4. CASE RemoveExpired \/ (\E u \in Uploads : Age(u)) \/ UNCHANGED vars
  <2>1. UNCHANGED <<present, declared, req>>
    BY <1>4 DEF RemoveExpired, RemoveDir, Age, vars, disk
  <2> QED
    BY <1>a, <2>1 DEF Fresh
<1> QED
  BY <1>1, <1>2, <1>3, <1>4 DEF Next, CleanupExpired

\* No chunk file is larger than what was counted of it, unless somebody writes it or is
\* about to remove it: a request counts what it has written to the end.
LEMMA SizeStep ==
    ASSUME UploadsOK, FreshInv, DiskInv, OtherInv, CountInv, SizeInv, [Next]_vars
    PROVE  SizeInv'
<1>0. /\ ShapeOK(req) /\ BytesInv /\ crashes \in Nat /\ present \subseteq Uploads \X Chunks
      /\ bytes \in [Uploads \X Chunks -> SUBSET Blocks]
      /\ sizes \in [Uploads -> [Chunks -> 0..ChunkLen]]
  BY DEF UploadsOK, Shapes, ShapeOK, BytesInv, CountInv
<1>a. ASSUME crashes' = crashes, overlapped \subseteq overlapped',
             \A f \in present' :
                \/ Busy(f)' \/ f[1] \notin reg'
                \/ bytes'[f] \subseteq 1..sizes'[f[1]][f[2]]
                \/ /\ f \in present /\ bytes'[f] = bytes[f]
                   /\ f[1] \in reg /\ sizes'[f[1]][f[2]] = sizes[f[1]][f[2]]
                   /\ Busy(f) => Busy(f)'
      PROVE  SizeInv'
  <2> SUFFICES ASSUME crashes = 0, NEW f \in present', f[1] \in reg', f[1] \notin overlapped', ~Busy(f)'
               PROVE  bytes'[f] \subseteq 1..sizes'[f[1]][f[2]]
    BY <1>a DEF SizeInv
  <2> QED
    BY <1>a DEF SizeInv
<1>1. ASSUME NEW p \in Requests, Proceed(p) \/ Receive(p) PROVE SizeInv'
  <2>0. PICK f0 : f0 = FileOf(req[p])
    OBVIOUS
  <2>1. \A f : Busy(f) => Busy(f)' \/ (f = f0 /\ req[p].pc \in {"copying", "discarding"})
    <3> SUFFICES ASSUME NEW f, NEW q \in Requests, q # p, FileOf(req[q]) = f,
                        req[q].pc \in {"copying", "discarding"}
                 PROVE  Busy(f)'
      BY <2>0 DEF Busy
    <3>1. /\ req'[q].pc = req[q].pc /\ req'[q].upload = req[q].upload
          /\ req'[q].chunk = req[q].chunk
      BY <1>1, RequestsMove DEF OthersStay
    <3>2. FileOf(req'[q]) = FileOf(req[q])
      BY <3>1 DEF FileOf
    <3> QED
      BY <3>1, <3>2 DEF Busy
  <2>2. crashes' = crashes /\ overlapped \subseteq overlapped'
    BY <1>1
       DEF Proceed, Receive, MakeDir, BeginFinalize, BeginChunk, WriteManifest, Register,
           CreateChunkFile, CopyBlock, CopyFails, RecordChunk, DiscardChunk, TakeUpload,
           DecodeForm, OpenChunk, CloseChunk, AssemblyFails, DropUpload, EndDrop, EndAssembly,
           EndClear, SaveUpload, counters, history
  <2>3. CASE req'[p].pc \in {"copying", "discarding"}
    <3>1. /\ FileOf(req'[p]) = f0
          /\ CreateChunkFile(p) \/ CopyBlock(p) \/ CopyFails(p) \/ RecordChunk(p)
      BY <1>1, <2>0, <2>3, RequestsMove
    <3>2. Busy(f0)'
      BY <2>3, <3>1 DEF Busy
    <3>3. UNCHANGED <<reg, sizes>>
      <4>1. CASE RecordChunk(p)
        <5>1. ~Finish(p)
          BY <1>0, <2>3, FinishStep
        <5> QED
          BY <4>1, <5>1 DEF RecordChunk
      <4> QED
        BY <3>1, <4>1 DEF CreateChunkFile, CopyBlock, CopyFails, registry
    <3>4. ASSUME NEW f \in present', f # f0 PROVE f \in present /\ bytes'[f] = bytes[f]
      BY <1>0, <2>0, <3>1, <3>4
         DEF CreateChunkFile, CopyBlock, CopyFails, RecordChunk, disk, FileOf
    <3>5. \A f \in present' :
             \/ Busy(f)' \/ f[1] \notin reg'
             \/ /\ f \in present /\ bytes'[f] = bytes[f]
                /\ f[1] \in reg /\ sizes'[f[1]][f[2]] = sizes[f[1]][f[2]]
                /\ Busy(f) => Busy(f)'
      BY <2>1, <3>2, <3>3, <3>4
    <3> QED
      BY <1>a, <2>2, <3>5
  <2>4. CASE RecordChunk(p) /\ req'[p].pc \notin {"copying", "discarding"}
    <3>1. PICK u \in Uploads, c \in Chunks, n \in 0..ChunkLen :
            /\ f0 = <<u, c>> /\ u = req[p].upload /\ c = req[p].chunk
            /\ n = req[p].len /\ n = req[p].filled /\ req[p].pc = "copying"
      <4>1. RequestOK(req[p], Excused) /\ req[p].pc = "copying" /\ req[p].filled = req[p].len
        BY <1>0, <2>4 DEF BytesInv, RecordChunk
      <4> QED
        BY <2>0, <4>1 DEF RequestOK, FileOf, Blocks
    <3>2. /\ sizes' = [sizes EXCEPT ![u][c] = n] /\ reg' = reg
          /\ UNCHANGED <<present, bytes, sent, overlapped>>
      <4>1. ~Goto(p, "discarding")
        BY <1>0, <2>4, <3>1, GotoStep DEF PCs
      <4> QED
        BY <2>4, <3>1, <4>1 DEF RecordChunk, disk, history
    <3>3. \A f \in present : f = <<f[1], f[2]>> /\ f[1] \in Uploads /\ f[2] \in Chunks
      BY <1>0
    <3>4. sizes'[u][c] = n
      BY <1>0, <3>2
    <3>5. ASSUME NEW f \in present, f # f0 PROVE sizes'[f[1]][f[2]] = sizes[f[1]][f[2]]
      BY <1>0, <3>1, <3>2, <3>3, <3>5
    <3>6. ASSUME f0 \in present, f0[1] \notin overlapped PROVE bytes[f0] \subseteq 1..n
      <4>1. Agreed(f0)
        BY <1>0, <3>6 DEF BytesInv, FileOK
      <4>2. sent[f0] = n
        BY <2>0, <3>1, <4>1 DEF Agreed
      <4> QED
        BY <4>1, <4>2 DEF Agreed
    <3> SUFFICES ASSUME crashes = 0, NEW f \in present, f[1] \in reg, f[1] \notin overlapped,
                        ~Busy(f)'
                 PROVE  bytes'[f] \subseteq 1..sizes'[f[1]][f[2]]
      BY <2>2, <3>2 DEF SizeInv
    <3>7. CASE f = f0
      <4>1. f0[1] = u /\ f0[2] = c
        BY <3>1
      <4> QED
        BY <3>2, <3>4, <3>6, <3>7, <4>1
    <3>8. CASE f # f0
      BY <2>1, <3>2, <3>5, <3>8 DEF SizeInv
    <3> QED
      BY <3>7, <3>8
  <2>5. CASE Register(p)
    <3>1. PICK u \in Uploads : u = req[p].upload /\ req[p].pc = "registering" /\ reg' = reg \union {u}
      BY <1>0, <2>5 DEF Register, ShapeOK
    <3>2. \A f \in present : f[1] # u
      BY <3>1 DEF FreshInv, Fresh
    <3>3. UNCHANGED <<present, bytes, sizes>>
      BY <2>5 DEF Register, disk
    <3>4. \A f : Busy(f) => Busy(f)'
      BY <2>1, <3>1
    <3>5. \A f \in present' :
             \/ f[1] \notin reg'
             \/ /\ f \in present /\ bytes'[f] = bytes[f]
                /\ f[1] \in reg /\ sizes'[f[1]][f[2]] = sizes[f[1]][f[2]]
                /\ Busy(f) => Busy(f)'
      BY <3>1, <3>2, <3>3, <3>4
    <3> QED
      BY <1>a, <2>2, <3>5
  <2>6. CASE ~RecordChunk(p) /\ ~Register(p) /\ req'[p].pc \notin {"copying", "discarding"}
    <3>1. ~CopyBlock(p) /\ ~CopyFails(p) /\ (CreateChunkFile(p) => Finish(p) /\ UNCHANGED <<present, bytes>>)
      <4>1. ASSUME CopyFails(p) PROVE FALSE
        BY <1>0, <2>6, <4>1, GotoStep DEF CopyFails, PCs
      <4>2. ASSUME CopyBlock(p) PROVE FALSE
        BY <1>0, <2>6, <4>2 DEF CopyBlock, ShapeOK, RequestShape
      <4>3. ASSUME NEW S, req' = Created(p, S), CreateChunkFile(p) PROVE FALSE
        BY <1>0, <2>6, <4>3, CreatedStep DEF CreateChunkFile
      <4> QED
        BY <4>1, <4>2, <4>3, CreateMoves
    <3>2. ASSUME req[p].pc \in {"copying", "discarding"} PROVE DiscardChunk(p)
      <4>1. ASSUME NEW u \in Uploads, MakeDir(p, u) \/ BeginFinalize(p, u) PROVE FALSE
        BY <3>2, <4>1 DEF MakeDir, BeginFinalize, Start, Idle
      <4>2. ASSUME NEW u \in Uploads, NEW c \in Chunks, NEW n \in Blocks, BeginChunk(p, u, c, n)
            PROVE  FALSE
        BY <3>2, <4>2 DEF BeginChunk, Start, Idle
      <4>3. CASE \/ WriteManifest(p) \/ CreateChunkFile(p) \/ TakeUpload(p) \/ DecodeForm(p)
                 \/ OpenChunk(p) \/ CloseChunk(p) \/ AssemblyFails(p) \/ DropUpload(p)
                 \/ EndDrop(p) \/ EndAssembly(p) \/ EndClear(p) \/ SaveUpload(p)
        BY <3>2, <4>3
           DEF WriteManifest, CreateChunkFile, TakeUpload, DecodeForm, OpenChunk, CloseChunk,
               AssemblyFails, DropUpload, EndDrop, EndAssembly, EndClear, SaveUpload
      <4> QED
        BY <1>1, <2>6, <3>1, <4>1, <4>2, <4>3 DEF Proceed, Receive
    <3>3. DiscardChunk(p) => f0 \notin present'
      BY <2>0 DEF DiscardChunk, FileOf
    <3>4. /\ reg' \subseteq reg
          /\ \A u \in reg' : sizes'[u] = sizes[u]
      <4>1. CASE TakeUpload(p)
        <5>1. req[p].upload \in Uploads /\ Forget(req[p].upload) /\ reg \subseteq Uploads
          BY <1>0, <4>1 DEF TakeUpload, ShapeOK, OtherInv
        <5> QED
          BY <1>0, <5>1 DEF Forget
      <4>2. CASE ~TakeUpload(p)
        BY <1>1, <2>6, <3>1, <4>2
           DEF Proceed, Receive, MakeDir, BeginFinalize, BeginChunk, WriteManifest,
               CreateChunkFile, DiscardChunk, DecodeForm, OpenChunk, CloseChunk,
               AssemblyFails, DropUpload, EndDrop, EndAssembly, EndClear, SaveUpload, registry
      <4> QED
        BY <4>1, <4>2
    <3>5. ASSUME NEW f \in present' PROVE f \in present /\ bytes'[f] = bytes[f]
      <4>1. CASE DropUpload(p) \/ EndAssembly(p)
        <5>1. /\ present' = present \ FilesOf(req[p].upload)
              /\ bytes' = [g \in Uploads \X Chunks |-> IF g[1] = req[p].upload THEN {} ELSE bytes[g]]
          BY <4>1 DEF DropUpload, EndAssembly, ClearDir
        <5>2. f = <<f[1], f[2]>> /\ f[2] \in Chunks /\ f \in present /\ f \in Uploads \X Chunks
          BY <1>0, <5>1
        <5>3. f[1] # req[p].upload
          BY <5>1, <5>2, UploadConstants DEF FilesOf, Chunks
        <5> QED
          BY <5>1, <5>2, <5>3
      <4>2. CASE DiscardChunk(p)
        BY <1>0, <4>2 DEF DiscardChunk
      <4>3. CASE ~DropUpload(p) /\ ~EndAssembly(p) /\ ~DiscardChunk(p)
        BY <1>1, <2>6, <3>1, <4>3
           DEF Proceed, Receive, MakeDir, BeginFinalize, BeginChunk, WriteManifest,
               CreateChunkFile, TakeUpload, DecodeForm, OpenChunk, CloseChunk,
               AssemblyFails, EndDrop, EndClear, SaveUpload, RemoveDir, disk
      <4> QED
        BY <4>1, <4>2, <4>3
    <3>6. \A f \in present' :
             \/ f[1] \notin reg'
             \/ /\ f \in present /\ bytes'[f] = bytes[f]
                /\ f[1] \in reg /\ sizes'[f[1]][f[2]] = sizes[f[1]][f[2]]
                /\ Busy(f) => Busy(f)'
      BY <2>1, <3>2, <3>3, <3>4, <3>5
    <3> QED
      BY <1>a, <2>2, <3>6
  <2> QED
    BY <2>3, <2>4, <2>5, <2>6
<1>2. ASSUME NEW u \in Uploads, EmptyExpired(u) PROVE SizeInv'
  <2>1. \A f : Busy(f) => Busy(f)'
    <3>1. req \in [Requests -> RequestShape] /\ req' = Unlinked(req, FilesOf(u))
      BY <1>0, <1>2 DEF ShapeOK, EmptyExpired, ClearDir
    <3>2. \A q \in Requests : req'[q].pc = req[q].pc /\ FileOf(req'[q]) = FileOf(req[q])
      BY <3>1 DEF Unlinked, RequestShape, FileOf
    <3> QED
      BY <3>2 DEF Busy
  <2>2. /\ present' = present \ FilesOf(u) /\ UNCHANGED <<reg, sizes, crashes, overlapped>>
        /\ bytes' = [g \in Uploads \X Chunks |-> IF g[1] = u THEN {} ELSE bytes[g]]
    BY <1>2 DEF EmptyExpired, ClearDir, registry, counters, history
  <2>3. ASSUME NEW f \in present' PROVE f \in present /\ bytes'[f] = bytes[f]
    <3>1. f = <<f[1], f[2]>> /\ f[2] \in Chunks /\ f \in present /\ f \in Uploads \X Chunks
      BY <1>0, <2>2
    <3>2. f[1] # u
      BY <2>2, <3>1, UploadConstants DEF FilesOf, Chunks
    <3> QED
      BY <2>2, <3>1, <3>2
  <2> QED
    BY <1>a, <2>1, <2>2, <2>3
<1>3. CASE RemoveExpired
  <2>1. /\ UNCHANGED <<present, bytes, req, crashes, overlapped>> /\ Forget(cleaning)
        /\ cleaning \in reg /\ reg \subseteq Uploads
    BY <1>3 DEF RemoveExpired, RemoveDir, counters, history, MutexIsFree, DiskInv, OtherInv
  <2>2. reg' \subseteq reg /\ \A u \in reg' : sizes'[u] = sizes[u]
    BY <1>0, <2>1 DEF Forget
  <2>3. \A f : Busy(f) => Busy(f)'
    BY <2>1 DEF Busy
  <2> QED
    BY <1>a, <2>1, <2>2, <2>3
<1>4. CASE Restart
  BY <1>0, <1>4 DEF Restart, SizeInv
<1>5. CASE (\E u \in Uploads : Age(u)) \/ UNCHANGED vars
  <2>1. UNCHANGED <<present, bytes, req, reg, sizes, crashes, overlapped>>
    BY <1>5 DEF Age, vars, disk, registry, counters, history
  <2>2. \A f : Busy(f) => Busy(f)'
    BY <2>1 DEF Busy
  <2> QED
    BY <1>a, <2>1, <2>2
<1> QED
  BY <1>1, <1>2, <1>3, <1>4, <1>5 DEF Next, CleanupExpired

LEMMA ReadStep ==
    ASSUME UploadsOK, ReadInv, [Next]_vars
    PROVE  ReadInv'
<1>0. /\ ShapeOK(req) /\ req \in [Requests -> RequestShape] /\ present \subseteq Uploads \X Chunks
  BY DEF UploadsOK, Shapes, ShapeOK, BytesInv
<1>1. ASSUME NEW p \in Requests, Proceed(p) \/ Receive(p) PROVE ReadInv'
  <2>1. \A q \in Requests \ {p} : req'[q].pc = req[q].pc /\ req'[q].chunk = req[q].chunk
    BY <1>1, RequestsMove DEF OthersStay
  <2>2. CASE OpenChunk(p)
    <3>1. req'[p] \in {Reading(req[p]), Spoil(Reading(req[p]))} /\ req[p].chunk \in Chunks
      BY <1>0, <2>2 DEF OpenChunk
    <3>2. Reading(req[p]) \in RequestShape /\ Reading(req[p]).chunk = req[p].chunk
      BY <1>0, OpenedToRead
    <3>3. Spoil(Reading(req[p])).chunk = req[p].chunk
      BY <3>2, Spoiled
    <3> QED
      BY <2>1, <3>1, <3>2, <3>3 DEF ReadInv, Chunks
  <2>3. CASE ~OpenChunk(p)
    <3>1. req'[p].pc # "reading"
      BY <1>1, <2>3, RequestsMove
    <3> QED
      BY <2>1, <3>1 DEF ReadInv, Chunks
  <2> QED
    BY <2>2, <2>3
<1>2. ASSUME NEW u \in Uploads, EmptyExpired(u) PROVE ReadInv'
  <2>1. req' = Unlinked(req, FilesOf(u))
    BY <1>2 DEF EmptyExpired, ClearDir
  <2>2. \A q \in Requests : req'[q].pc = req[q].pc /\ req'[q].chunk = req[q].chunk
    BY <1>0, <2>1 DEF Unlinked, RequestShape
  <2> QED
    BY <2>2 DEF ReadInv, Chunks
<1>3. CASE Restart
  BY <1>3 DEF Restart, Idle, ReadInv
<1>4. CASE RemoveExpired \/ (\E u \in Uploads : Age(u)) \/ UNCHANGED vars
  <2>1. req' = req
    BY <1>4 DEF RemoveExpired, Age, vars
  <2> QED
    BY <2>1 DEF ReadInv, Chunks
<1> QED
  BY <1>1, <1>2, <1>3, <1>4 DEF Next, CleanupExpired

-----------------------------------------------------------------------------
Requested == req \in [Requests -> Request]

LEMMA IdleTyped == Idle \in Request
  BY UploadConstants DEF Idle, Request, PCs

LEMMA UnlinkedTyped ==
    ASSUME NEW r \in [Requests -> Request], NEW F
    PROVE  Unlinked(r, F) \in [Requests -> Request]
  BY DEF Unlinked, Request

LEMMA StartTyped ==
    ASSUME Requested, NEW p \in Requests, NEW pc \in PCs, NEW u \in Uploads,
           NEW c \in 0..NumChunks, NEW n \in 0..ChunkLen, Start(p, pc, u, c, n)
    PROVE  Requested'
<1>1. [Idle EXCEPT !.pc = pc, !.upload = u, !.chunk = c, !.len = n] \in Request
  BY IdleTyped DEF Request, Idle
<1> QED
  BY <1>1 DEF Requested, Start

LEMMA GotoTyped ==
    ASSUME Requested, NEW p \in Requests, NEW pc \in PCs, Goto(p, pc)
    PROVE  Requested'
  BY DEF Requested, Goto, Request

LEMMA FinishTyped ==
    ASSUME Requested, NEW p \in Requests, Finish(p)
    PROVE  Requested'
  BY IdleTyped DEF Requested, Finish

LEMMA ClearTyped ==
    ASSUME Requested, NEW p \in Requests, NEW u, NEW pc \in PCs,
           ClearDir(u, [req EXCEPT ![p].pc = pc]) \/ ClearDir(u, req)
    PROVE  Requested'
<1>1. [req EXCEPT ![p].pc = pc] \in [Requests -> Request]
  BY DEF Requested, Request
<1>2. \E r \in [Requests -> Request] : req' = Unlinked(r, FilesOf(u))
  BY <1>1 DEF ClearDir, Requested
<1> QED
  BY <1>2, UnlinkedTyped DEF Requested

\* Opening and closing a file, and being told that it is spoiled
LEMMA FileTyped ==
    ASSUME NEW x \in Request
    PROVE  /\ Writing(x) \in Request /\ Reading(x) \in Request /\ Spoil(x) \in Request
           /\ x.chunk + 1 \in 0..NumChunks => Close(x) \in Request
<1>1. Writing(x) \in Request /\ Reading(x) \in Request /\ Spoil(x) \in Request
  BY DEF Writing, Reading, Spoil, Request, PCs
<1>2. ASSUME NEW c \in 0..NumChunks
      PROVE  [x EXCEPT !.pc = "assembling", !.linked = FALSE, !.chunk = c] \in Request
  BY DEF Request, PCs
<1> QED
  BY <1>1, <1>2 DEF Close

\* A request reads its chunk to the end, and the upload's chunks to the last one.
LEMMA MovingTyped ==
    ASSUME UploadsOK, Requested, ReadInv, NEW p \in Requests,
           \/ CreateChunkFile(p) \/ CopyBlock(p) \/ DiscardChunk(p) \/ OpenChunk(p)
           \/ CloseChunk(p)
    PROVE  Requested'
<1>0. req \in [Requests -> Request] /\ \A q \in Requests : req[q] \in Request
  BY DEF Requested
<1>1. CASE CreateChunkFile(p)
  <2>1. ASSUME NEW S, req' = Created(p, S) PROVE Requested'
    <3>1. \A q \in Requests : Writing(req[q]) \in Request /\ Spoil(req[q]) \in Request
      BY <1>0, FileTyped
    <3> QED
      BY <1>0, <2>1, <3>1 DEF Created, Requested
  <2> QED
    BY <1>1, <2>1, FinishTyped, CreateMoves
<1>2. CASE CopyBlock(p)
  <2>1. /\ req[p].filled + 1 \in 0..ChunkLen
        /\ req' = [req EXCEPT ![p].filled = req[p].filled + 1]
    BY <1>0, <1>2, UploadConstants DEF CopyBlock, Request
  <2>2. [req[p] EXCEPT !.filled = req[p].filled + 1] \in Request
    BY <1>0, <2>1 DEF Request
  <2> QED
    BY <1>0, <2>1, <2>2 DEF Requested
<1>3. CASE DiscardChunk(p)
  <2>1. [req EXCEPT ![p] = Idle] \in [Requests -> Request]
    BY <1>0, IdleTyped
  <2> QED
    BY <1>3, <2>1, UnlinkedTyped DEF DiscardChunk, Requested
<1>4. CASE OpenChunk(p)
  <2>1. Reading(req[p]) \in Request /\ Spoil(Reading(req[p])) \in Request
    BY <1>0, FileTyped
  <2> QED
    BY <1>0, <1>4, <2>1 DEF OpenChunk, Requested
<1>5. CASE CloseChunk(p)
  <2>1. req[p].chunk + 1 \in 0..NumChunks
    BY <1>5, UploadConstants DEF CloseChunk, Chunks, ReadInv
  <2>2. Close(req[p]) \in Request
    BY <1>0, <2>1, FileTyped
  <2> QED
    BY <1>0, <1>5, <2>2 DEF CloseChunk, Requested
<1> QED
  BY <1>1, <1>2, <1>3, <1>4, <1>5


LEMMA RequestedStep ==
    ASSUME UploadsOK, Requested, ReadInv, [Next]_vars
    PROVE  Requested'
<1>0. /\ 0 \in 0..NumChunks /\ Chunks \subseteq 0..NumChunks
      /\ 0 \in 0..ChunkLen /\ Blocks \subseteq 0..ChunkLen
  BY UploadConstants DEF Chunks, Blocks
<1>1. ASSUME NEW p \in Requests, NEW u \in Uploads, MakeDir(p, u) \/ BeginFinalize(p, u)
      PROVE  Requested'
  BY <1>0, <1>1, StartTyped DEF MakeDir, BeginFinalize, PCs
<1>2. ASSUME NEW p \in Requests, NEW u \in Uploads, NEW c \in Chunks, NEW n \in Blocks,
             BeginChunk(p, u, c, n)
      PROVE  Requested'
  BY <1>0, <1>2, StartTyped DEF BeginChunk, PCs
<1>3. ASSUME NEW p \in Requests,
             \/ WriteManifest(p) \/ Register(p) \/ CopyFails(p) \/ RecordChunk(p)
             \/ TakeUpload(p) \/ DecodeForm(p) \/ AssemblyFails(p) \/ EndDrop(p)
             \/ EndClear(p) \/ SaveUpload(p)
      PROVE  Requested'
  <2>1. \/ Finish(p)
        \/ \E pc \in {"registering", "dropping", "discarding", "decoding", "assembling",
                      "saving"} : Goto(p, pc)
    BY <1>3
       DEF WriteManifest, Register, CopyFails, RecordChunk, TakeUpload, DecodeForm,
           AssemblyFails, EndDrop, EndClear, SaveUpload
  <2> QED
    BY <2>1, GotoTyped, FinishTyped DEF PCs
<1>4. ASSUME NEW p \in Requests, DropUpload(p) \/ EndAssembly(p) PROVE Requested'
  BY <1>4, ClearTyped DEF DropUpload, EndAssembly, PCs
<1>5. ASSUME NEW u \in Uploads, EmptyExpired(u) PROVE Requested'
  BY <1>5, UnlinkedTyped DEF EmptyExpired, ClearDir, Requested
<1>6. CASE Restart
  BY <1>6, IdleTyped DEF Restart, Requested
<1>7. CASE RemoveExpired \/ (\E u \in Uploads : Age(u)) \/ UNCHANGED vars
  BY <1>7 DEF RemoveExpired, Age, vars, Requested
<1>8. ASSUME NEW p \in Requests, Proceed(p) \/ Receive(p) PROVE Requested'
  BY <1>1, <1>2, <1>3, <1>4, <1>8, MovingTyped DEF Proceed, Receive
<1> QED
  BY <1>5, <1>6, <1>7, <1>8 DEF Next, CleanupExpired

LEMMA OtherStep ==
    ASSUME UploadsOK, DiskInv, ReadInv, OtherInv, [Next]_vars
    PROVE  OtherInv'
<1>0. Requested'
  BY RequestedStep DEF OtherInv, Requested
<1>a. /\ \A p \in Requests : req[p].pc # "idle" => req[p].upload \in Uploads
      /\ present \subseteq Uploads \X Chunks
  BY DEF UploadsOK, Shapes, BytesInv
<1>1. ASSUME NEW p \in Requests, Proceed(p) \/ Receive(p) PROVE OtherInv'
  <2>1. reg' \subseteq Uploads /\ old' = old /\ cleaner' \in BOOLEAN
    <3>1. CASE Register(p)
      BY <1>a, <3>1 DEF Register, OtherInv
    <3>2. CASE ~Register(p)
      BY <1>1, <3>2
         DEF Proceed, Receive, MakeDir, BeginFinalize, BeginChunk, WriteManifest,
             CreateChunkFile, CopyBlock, CopyFails, RecordChunk, DiscardChunk, TakeUpload,
             DecodeForm, OpenChunk, CloseChunk, AssemblyFails, DropUpload, EndDrop,
             EndAssembly, EndClear, SaveUpload, Forget, registry, worker, OtherInv
    <3> QED
      BY <3>1, <3>2
  <2>2. fails' \in Nat
    <3>1. CASE CopyFails(p)
      BY <3>1 DEF CopyFails, OtherInv
    <3>2. CASE ~CopyFails(p)
      BY <1>1, <3>2
         DEF Proceed, Receive, MakeDir, BeginFinalize, BeginChunk, WriteManifest, Register,
             CreateChunkFile, CopyBlock, RecordChunk, DiscardChunk, TakeUpload, DecodeForm,
             OpenChunk, CloseChunk, AssemblyFails, DropUpload, EndDrop, EndAssembly, EndClear,
             SaveUpload, counters, OtherInv
    <3> QED
      BY <3>1, <3>2
  <2>3. \/ UNCHANGED history
        \/ CreateChunkFile(p) \/ OpenChunk(p) \/ SaveUpload(p)
    BY <1>1
       DEF Proceed, Receive, MakeDir, BeginFinalize, BeginChunk, WriteManifest, Register,
           CopyBlock, CopyFails, RecordChunk, DiscardChunk, TakeUpload, DecodeForm, CloseChunk,
           AssemblyFails, DropUpload, EndDrop, EndAssembly, EndClear
  <2>4. CASE CreateChunkFile(p) \/ OpenChunk(p) \/ SaveUpload(p)
    <3>1. PICK u \in Uploads : u = req[p].upload
      BY <1>a, <2>4 DEF CreateChunkFile, OpenChunk, SaveUpload
    <3>2. /\ broken' \in {broken, broken \union {u}} /\ cut' = cut
          /\ overlapped' \subseteq overlapped \union {u} /\ littered' \subseteq littered \union {u}
      BY <2>4, <3>1 DEF CreateChunkFile, OpenChunk, SaveUpload
    <3> QED
      BY <1>0, <2>1, <2>2, <3>1, <3>2 DEF OtherInv, Requested
  <2>5. CASE UNCHANGED history
    BY <1>0, <2>1, <2>2, <2>5 DEF OtherInv, Requested, history
  <2> QED
    BY <2>3, <2>4, <2>5
<1>2. CASE Restart
  <2>1. /\ reg' \subseteq manifests /\ dirs \subseteq Uploads /\ manifests \subseteq dirs
        /\ cleaner' \in BOOLEAN /\ present' \subseteq present
        /\ cut' = cut \union {f[1] : f \in {g \in present' : ~IsWhole(g)'}}
        /\ littered' = littered \union (dirs \ manifests')
        /\ UNCHANGED <<old, fails, broken, overlapped>>
    BY <1>2 DEF Restart, DiskInv
  <2>2. \A f \in present' : f[1] \in Uploads
    BY <1>a, <2>1
  <2> QED
    BY <1>0, <2>1, <2>2 DEF OtherInv, Requested
<1>3. CASE (\E u \in Uploads : Age(u)) \/ CleanupExpired \/ UNCHANGED vars
  <2>1. /\ reg' \subseteq reg /\ old' \subseteq Uploads
        /\ UNCHANGED <<cleaner, fails, broken, overlapped, cut, littered>>
    BY <1>3 DEF Age, CleanupExpired, EmptyExpired, RemoveExpired, Forget, registry, worker,
                counters, history, vars, OtherInv
  <2> QED
    BY <1>0, <2>1 DEF OtherInv, Requested
<1> QED
  BY <1>1, <1>2, <1>3 DEF Next

LEMMA FullStep ==
    ASSUME FullInv, [Next]_vars
    PROVE  FullInv'
  BY UploadStep, BytesStep, DiskStep, CountStep, FreshStep, SizeStep, ReadStep, OtherStep
     DEF FullInv, UploadsOK, Preserved

LEMMA FullInitially == Init => FullInv
<1> SUFFICES ASSUME Init PROVE FullInv
  OBVIOUS
<1>1. Shapes /\ UploadInv /\ BytesInv
  BY InitInv, BytesInitially
<1>2. DiskInv /\ ReadInv /\ SizeInv
  BY DEF Init, DiskInv, ReadInv, SizeInv, Idle
<1>3. CountInv
  <2>1. \A u \in Uploads : sizes[u] = [c \in Chunks |-> 0] /\ receivedBytes[u] = 0
    BY DEF Init
  <2>2. \A u \in Uploads : Total(u) = 0
    BY <2>1, ChunksFinite, SumOfZeros DEF Total
  <2>3. 0 \in 0..ChunkLen
    BY UploadConstants
  <2> QED
    BY <2>2, <2>3 DEF Init, CountInv
<1>4. FreshInv
  BY DEF Init, FreshInv, Idle
<1>5. OtherInv
  BY IdleTyped DEF Init, OtherInv
<1> QED
  BY <1>1, <1>2, <1>3, <1>4, <1>5 DEF FullInv, UploadsOK

\* Every variable keeps its type: a request never writes past its chunk or reads past the
\* last one, a manifest is in a directory, and no count or total is negative.
THEOREM UploadTypes == Spec => []TypeOK
<1>1. FullInv => TypeOK
  <2> SUFFICES ASSUME FullInv PROVE TypeOK
    OBVIOUS
  <2>1. receivedBytes \in [Uploads -> Nat]
    BY TotalIsNat DEF FullInv, CountInv
  <2>2. cleaning \in Uploads \union {NoUpload}
    BY DEF FullInv, DiskInv, OtherInv
  <2> QED
    BY <2>1, <2>2
       DEF FullInv, UploadsOK, Shapes, BytesInv, DiskInv, CountInv, OtherInv, TypeOK
<1> QED
  BY <1>1, FullInitially, FullStep, PTL DEF Spec

\* What is counted of an upload is the sum of its chunks' sizes, in every state; and until
\* a crash its files at rest are not larger than declared: for any number of chunks of any
\* lengths, sent any number of times by any number of requests.
THEOREM CapHolds == Spec => []DeclaredSizeIsACap
<1>1. FullInv => DeclaredSizeIsACap
  <2> SUFFICES ASSUME FullInv, NEW u \in reg
               PROVE  /\ receivedBytes[u] = TotalOf(sizes[u])
                      /\ crashes = 0 /\ u \notin overlapped /\ AtRest(u) =>
                            TotalOf(SizesOnDisk(u)) <= declared[u]
    BY DEF DeclaredSizeIsACap
  <2>1. /\ u \in Uploads /\ receivedBytes[u] = Total(u) /\ Total(u) \in Nat
        /\ TotalOf(sizes[u]) = Total(u)
    BY TotalIsNat, TotalOfSizes DEF FullInv, OtherInv, Total
  <2> SUFFICES ASSUME crashes = 0, u \notin overlapped, AtRest(u)
               PROVE  TotalOf(SizesOnDisk(u)) <= declared[u]
    BY <2>1
  <2>2. ASSUME NEW c \in Chunks
        PROVE  SizesOnDisk(u)[c] \in Nat /\ sizes[u][c] \in Nat /\ SizesOnDisk(u)[c] <= sizes[u][c]
    <3> DEFINE f == <<u, c>>
               B == {b \in bytes[f] : f \in present}
    <3>1. sizes[u][c] \in 0..ChunkLen
      BY <2>1 DEF FullInv, CountInv
    <3>2. B \subseteq Blocks /\ B \subseteq 1..sizes[u][c]
      <4>1. bytes[f] \subseteq Blocks
        BY <2>1 DEF FullInv, UploadsOK, BytesInv
      <4>2. ~Busy(f)
        BY DEF Busy, AtRest, FileOf
      <4>3. f \in present => bytes[f] \subseteq 1..sizes[u][c]
        BY <4>2 DEF FullInv, SizeInv
      <4> QED
        BY <4>1, <4>3
    <3>3. SizesOnDisk(u)[c] = Max(B \union {0})
      BY DEF SizesOnDisk
    <3> HIDE DEF B
    <3>4. Max(B \union {0}) \in 0..ChunkLen /\ Max(B \union {0}) \in B \union {0}
      BY <3>2, SizeIsLast
    <3> QED
      BY <3>1, <3>2, <3>3, <3>4, UploadConstants
  <2>3. SumFunctionOnSet(SizesOnDisk(u), Chunks) <= SumFunctionOnSet(sizes[u], Chunks)
    BY <2>2, ChunksFinite, SumOfFewer
  <2>4. TotalOf(SizesOnDisk(u)) <= Total(u)
    BY <2>3, TotalOfSizes DEF Total
  <2>5. TotalOf(SizesOnDisk(u)) \in Nat
    BY <2>2, ChunksFinite, SumIsNat, TotalOfSizes
  <2>6. Total(u) <= declared[u] /\ declared[u] \in Nat
    BY <2>1 DEF FullInv, CountInv, UploadsOK, Shapes
  <2> QED
    BY <2>1, <2>4, <2>5, <2>6
<1> QED
  BY <1>1, FullInitially, FullStep, PTL DEF Spec
=============================================================================
