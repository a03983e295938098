------------------------- MODULE ReceiveLinksProofs -------------------------
(***************************************************************************)
(* For any number of links, files and requests: a link's cap holds, a      *)
(* refused upload leaves nothing behind, an accepted one stays, a link     *)
(* that is gone leaves no directory, a link's total is the sum of its      *)
(* rows, and uploads that come one at a time keep the quota.               *)
(*                                                                         *)
(* A file is carried by at most one request, and only that request stores, *)
(* shares or records it. So it is enough to say, for every step of an      *)
(* upload, where its file may be (Progress), and to see that the owner and *)
(* the sweep take files away only from links they have emptied, or with    *)
(* the whole uploads directory.                                            *)
(***************************************************************************)
EXTENDS ReceiveLinks, SumTheorems, TLAPS

BeforeShare == {"summing", "checking", "admitted", "stored", "sharing"}
UploadPCs == BeforeShare \union
    {"recording", "counting", "undoing", "unsharing", "dropping", "unrecording"}
Stored == {"stored", "sharing", "recording", "counting"}

\* The part of TypeOK the argument needs, and which steps carry a file
RequestsOK(r) ==
    /\ r \in [Requests -> Request]
    /\ \A p \in Requests : /\ r[p].pc # "idle" => r[p].link \in Links
                           /\ r[p].pc \in UploadPCs => r[p].file \in Files

Shapes ==
    /\ RequestsOK(req)
    /\ link \in [Links -> Link]
    /\ file \in [Files -> [link : Links \union {NoLink}, size : Nat]]
    /\ faults \in Nat

\* Where the file of a request may be, step by step
Progress(r, f) ==
    /\ r.pc \in UploadPCs
    /\ r.pc \in BeforeShare => ~r.shared /\ ~r.recorded
    /\ r.pc = "recording" => ~r.recorded
    /\ r.pc = "counting" => r.recorded
    /\ ~r.recorded => f \notin rows
    /\ ~r.shared => f \notin shareRows
    /\ ~r.shared /\ r.pc # "sharing" => f \notin shareFiles
    /\ r.shared /\ f \in shareFiles => f \in shareRows
    /\ r.pc \in {"summing", "checking", "admitted", "unsharing", "dropping", "unrecording"}
          => f \notin disk
    /\ r.pc \in {"dropping", "unrecording"} => f \notin shareFiles
    /\ r.pc = "unrecording" /\ faults = 0 => f \notin shareRows
    /\ r.pc \in Stored /\ r.link \notin emptied => f \in disk \union wiped
    /\ r.pc = "counting" /\ r.link \notin emptied => f \in rows

Nowhere(f) == f \notin disk \union rows \union shareFiles \union shareRows

FileInv(f) ==
    /\ \A p, q \in Requests : req[p].file = f /\ req[q].file = f => p = q
    /\ \A p \in Requests : req[p].file = f =>
          /\ f \notin accepted \union refused
          /\ file[f].link = req[p].link
          /\ Progress(req[p], f)
    /\ file[f].link = NoLink => Nowhere(f) /\ f \notin accepted \union refused
    /\ f \in refused /\ faults = 0 => Nowhere(f)
    /\ f \in accepted /\ file[f].link \notin emptied => f \in rows /\ f \in disk \union wiped

FilesInv ==
    /\ accepted \union refused \subseteq Files
    /\ \A f \in Files : FileInv(f)

\* Who is about to delete a link's row has emptied its directory
EmptiedInv ==
    /\ \A p \in Requests : req[p].pc \in {"removing", "deleting"} => req[p].link \in emptied
    /\ DOMAIN sweep = {"turn", "empty", "remove", "all"}
    /\ sweep.all \ sweep.empty \subseteq emptied

\* The counter of a link counts the accepted files, and never passes the cap
CapInv(l) ==
    /\ IsFiniteSet(accepted \intersect FilesOf(l))
    /\ Cardinality(accepted \intersect FilesOf(l)) <= link[l].uploads
    /\ link[l].max > 0 => link[l].uploads <= link[l].max
    /\ link[l].state = "new" => FilesOf(l) = {}
    /\ \A p \in Requests : req[p].pc = "linking" /\ req[p].link = l => link[l].state = "new"
    /\ \A p, q \in Requests : /\ req[p].pc = "linking" /\ req[p].link = l
                              /\ req[q].pc = "linking" /\ req[q].link = l
                              => p = q

CapsInv == \A l \in Links : CapInv(l)

IInv == Shapes /\ FilesInv /\ EmptiedInv /\ CapsInv

-----------------------------------------------------------------------------
(* What the steps do to requests *)

OthersStay(p) == \A q \in Requests \ {p} : req'[q] = req[q]

LEMMA IdleRequest == Idle \in Request
  BY DEF Idle, Request, PCs

LEMMA FinishStep ==
    ASSUME RequestsOK(req), NEW p \in Requests, Finish(p)
    PROVE  RequestsOK(req') /\ OthersStay(p) /\ req'[p] = Idle
  BY IdleRequest DEF RequestsOK, Finish, OthersStay, Idle, UploadPCs, BeforeShare

LEMMA GotoStep ==
    ASSUME RequestsOK(req), NEW p \in Requests, req[p].pc # "idle", NEW pc \in PCs,
           pc \in UploadPCs => req[p].file \in Files, Goto(p, pc)
    PROVE  /\ RequestsOK(req') /\ OthersStay(p)
           /\ req'[p].pc = pc /\ req'[p].link = req[p].link /\ req'[p].file = req[p].file
           /\ req'[p].shared = req[p].shared /\ req'[p].recorded = req[p].recorded
  BY DEF RequestsOK, Goto, OthersStay, Request

\* The two steps that also set a flag
LEMMA SharedStep ==
    ASSUME RequestsOK(req), NEW p \in Requests, req[p].pc \in UploadPCs,
           req' = [req EXCEPT ![p].pc = "recording", ![p].shared = TRUE]
    PROVE  /\ RequestsOK(req') /\ OthersStay(p)
           /\ req'[p].pc = "recording" /\ req'[p].link = req[p].link
           /\ req'[p].file = req[p].file
           /\ req'[p].shared /\ req'[p].recorded = req[p].recorded
  BY DEF RequestsOK, OthersStay, Request, UploadPCs, BeforeShare, PCs

LEMMA RecordedStep ==
    ASSUME RequestsOK(req), NEW p \in Requests, req[p].pc \in UploadPCs,
           req' = [req EXCEPT ![p].pc = "counting", ![p].recorded = TRUE]
    PROVE  /\ RequestsOK(req') /\ OthersStay(p)
           /\ req'[p].pc = "counting" /\ req'[p].link = req[p].link
           /\ req'[p].file = req[p].file
           /\ req'[p].recorded /\ req'[p].shared = req[p].shared
  BY DEF RequestsOK, OthersStay, Request, UploadPCs, BeforeShare, PCs

LEMMA StartStep ==
    ASSUME RequestsOK(req), NEW p \in Requests, NEW pc \in PCs, NEW l \in Links,
           NEW f \in Files \union {NoFile}, pc \in UploadPCs => f \in Files,
           Start(p, pc, l, f)
    PROVE  /\ RequestsOK(req') /\ OthersStay(p)
           /\ req[p] = Idle /\ req'[p].pc = pc /\ req'[p].link = l /\ req'[p].file = f
           /\ ~req'[p].shared /\ ~req'[p].recorded
<1> DEFINE new == [Idle EXCEPT !.pc = pc, !.link = l, !.file = f]
<1>1. /\ new \in Request /\ new.pc = pc /\ new.link = l /\ new.file = f
      /\ ~new.shared /\ ~new.recorded
  BY IdleRequest DEF Request, Idle
<1>2. req[p] = Idle /\ req' = [req EXCEPT ![p] = new]
  BY DEF Start
<1> QED
  BY <1>1, <1>2 DEF RequestsOK, OthersStay

LEMMA Steps == UploadPCs \subseteq PCs /\ "idle" \notin UploadPCs
  BY DEF UploadPCs, BeforeShare, PCs

-----------------------------------------------------------------------------
(* Files *)

\* A step of the request that carries f changes nothing about other files.
ElsewhereSame(f) ==
    /\ \A g \in Files \ {f} : /\ g \in disk' <=> g \in disk
                              /\ g \in rows' <=> g \in rows
                              /\ g \in shareFiles' <=> g \in shareFiles
                              /\ g \in shareRows' <=> g \in shareRows
    /\ UNCHANGED <<file, emptied, wiped>>
    /\ faults' = 0 => faults = 0

\* The request goes on with the file, or is done with it.
GoesOn(p, f) ==
    /\ req'[p].file = f /\ req'[p].link = req[p].link
    /\ Progress(req[p], f)'
    /\ UNCHANGED answers

IsDone(p, f) ==
    /\ req'[p] = Idle
    /\ accepted' \subseteq accepted \union {f} /\ accepted \subseteq accepted'
    /\ refused' \subseteq refused \union {f} /\ refused \subseteq refused'
    /\ f \in refused' /\ faults' = 0 => Nowhere(f)'
    /\ f \in accepted' /\ file[f].link \notin emptied
          => f \in rows' /\ f \in disk' \union wiped

\* What a step of an upload establishes
UploadOK(p) ==
    /\ RequestsOK(req') /\ FilesInv'
    /\ OthersStay(p) /\ req'[p].pc \in UploadPCs \union {"idle"}

LEMMA OwnFile ==
    ASSUME FilesInv, NEW p \in Requests, NEW f \in Files, req[p].file = f,
           req[p].link \in Links, RequestsOK(req'), OthersStay(p), ElsewhereSame(f),
           GoesOn(p, f) \/ IsDone(p, f)
    PROVE  UploadOK(p)
<1>a. req'[p].pc \in UploadPCs \union {"idle"}
  BY DEF GoesOn, IsDone, Progress, Idle
<1>b. accepted' \union refused' \subseteq Files
  BY DEF GoesOn, IsDone, FilesInv, answers
<1> SUFFICES ASSUME NEW g \in Files PROVE FileInv(g)'
  BY <1>a, <1>b DEF FilesInv, UploadOK
<1>0. FileInv(f) /\ FileInv(g)
  BY DEF FilesInv
<1>1. Idle.file \notin Files
  BY ReceiveConstants DEF Idle
<1>2. CASE g # f
  <2>1. \A q \in Requests : req'[q].file = g => req[q].file = g /\ req'[q] = req[q]
    BY <1>1, <1>2 DEF OthersStay, GoesOn, IsDone
  <2>2. \A q \in Requests : req'[q].file = g => Progress(req[q], g)'
    BY <1>0, <1>2, <2>1 DEF FileInv, Progress, ElsewhereSame
  <2> QED
    BY <1>0, <1>2, <2>1, <2>2 DEF FileInv, ElsewhereSame, Nowhere, GoesOn, IsDone, answers
<1>3. CASE g = f /\ GoesOn(p, f)
  <2>1. \A q \in Requests : req'[q].file = f => q = p
    BY <1>0, <1>3 DEF FileInv, OthersStay
  <2>2. file[f].link = req[p].link /\ file[f].link # NoLink
    BY <1>0, ReceiveConstants DEF FileInv
  <2>3. f \notin accepted' \union refused'
    BY <1>0, <1>3 DEF FileInv, GoesOn, answers
  <2> QED
    BY <1>3, <2>1, <2>2, <2>3 DEF FileInv, GoesOn, ElsewhereSame
<1>4. CASE g = f /\ IsDone(p, f)
  <2>1. \A q \in Requests : req'[q].file # f
    BY <1>0, <1>1, <1>4 DEF FileInv, OthersStay, IsDone
  <2>2. file[f].link # NoLink
    BY <1>0, ReceiveConstants DEF FileInv
  <2> QED
    BY <1>4, <2>1, <2>2 DEF FileInv, IsDone, ElsewhereSame
<1> QED
  BY <1>2, <1>3, <1>4

\* An upload is refused, and its file is nowhere.
LEMMA Refusal ==
    ASSUME Shapes, FilesInv, NEW p \in Requests, NEW f \in Files, req[p].file = f,
           req[p].pc \in UploadPCs, Finish(p), Answer(p, FALSE), ElsewhereSame(f),
           faults' = 0 => Nowhere(f)'
    PROVE  UploadOK(p)
<1>1. RequestsOK(req) /\ req[p].link \in Links /\ FileInv(f)
  BY Steps DEF Shapes, RequestsOK, FilesInv
<1>2. RequestsOK(req') /\ OthersStay(p) /\ req'[p] = Idle
  BY <1>1, FinishStep
<1>3. accepted' = accepted /\ refused' = refused \union {f} /\ f \notin accepted
  BY <1>1 DEF Answer, FileInv
<1>4. IsDone(p, f)
  BY <1>2, <1>3 DEF IsDone
<1> QED
  BY <1>1, <1>2, <1>4, OwnFile

\* Steps that only take things away: files and rows of emptied links, shares as
\* a whole, and files with the uploads directory. No request takes up a file.
TakesAway ==
    /\ \A p \in Requests, f \in Files : req'[p].file = f => req'[p] = req[p]
    /\ UNCHANGED <<file, answers>>
    /\ faults' = 0 => faults = 0
    /\ emptied \subseteq emptied' /\ wiped \subseteq wiped'
    /\ disk' \subseteq disk /\ rows' \subseteq rows
    /\ shareFiles' \subseteq shareFiles /\ shareRows' \subseteq shareRows
    /\ \A f \in Files :
          /\ f \in disk \ disk' => file[f].link \in emptied' \/ f \in wiped'
          /\ f \in rows \ rows' => file[f].link \in emptied'
          /\ f \in shareFiles' /\ f \in shareRows => f \in shareRows'

LEMMA TakingAway ==
    ASSUME FilesInv, TakesAway
    PROVE  FilesInv'
<1> SUFFICES ASSUME NEW f \in Files PROVE FileInv(f)'
  BY DEF FilesInv, TakesAway, answers
<1>0. FileInv(f)
  BY DEF FilesInv
<1>1. \A p \in Requests : req'[p].file = f => req'[p] = req[p] /\ req[p].file = f
  BY DEF TakesAway
<1>2. \A p \in Requests : req'[p].file = f => Progress(req[p], f)'
  BY <1>0, <1>1 DEF FileInv, Progress, TakesAway
<1> QED
  BY <1>0, <1>1, <1>2 DEF FileInv, TakesAway, Nowhere, answers

-----------------------------------------------------------------------------
(* The steps of an upload *)

LEMMA AdmitStep ==
    ASSUME Shapes, FilesInv, NEW p \in Requests, NEW l \in Links, NEW f \in Files,
           Admit(p, l, f)
    PROVE  UploadOK(p)
<1> DEFINE pc == IF Quota = 0 THEN "admitted" ELSE "summing"
<1>1. /\ RequestsOK(req') /\ OthersStay(p)
      /\ req[p] = Idle /\ req'[p].pc = pc /\ req'[p].link = l /\ req'[p].file = f
      /\ ~req'[p].shared /\ ~req'[p].recorded
  <2>1. Start(p, pc, l, f) /\ RequestsOK(req)
    BY DEF Admit, Shapes
  <2>2. pc \in PCs
    BY DEF PCs
  <2> HIDE DEF pc
  <2> QED
    BY <2>1, <2>2, StartStep
<1>2. PICK n \in Sizes : file' = [file EXCEPT ![f] = [link |-> l, size |-> n]]
  BY DEF Admit
<1>3. /\ file[f].link = NoLink
      /\ UNCHANGED <<disk, rows, shareFiles, shareRows, faults, accepted, refused, emptied,
                     wiped>>
  BY DEF Admit, autoShares, answers
<1>4. FileInv(f) /\ Nowhere(f) /\ f \notin accepted \union refused
  BY <1>3 DEF FilesInv, FileInv
<1>5. file'[f].link = l /\ \A g \in Files \ {f} : file'[g] = file[g]
  BY <1>2 DEF Shapes
<1>6. \A q \in Requests : req[q].file = f => req[q].link = NoLink
  BY <1>3, <1>4 DEF FileInv
<1>7. \A q \in Requests : req'[q].file = f => q = p
  <2> SUFFICES ASSUME NEW q \in Requests, req'[q].file = f, q # p PROVE FALSE
    OBVIOUS
  <2>1. req[q] = req'[q] /\ req[q].link = NoLink /\ Progress(req[q], f)
    BY <1>1, <1>4, <1>6 DEF OthersStay, FileInv
  <2>2. req[q].link \in Links
    BY <2>1, Steps DEF Progress, Shapes, RequestsOK
  <2> QED
    BY <2>1, <2>2, ReceiveConstants
<1>8. Progress(req[p], f)'
  BY <1>1, <1>3, <1>4 DEF Progress, Nowhere, UploadPCs, BeforeShare, Stored
<1>9. ASSUME NEW g \in Files PROVE FileInv(g)'
  <2>1. CASE g = f
    BY <1>1, <1>3, <1>4, <1>5, <1>7, <1>8, <2>1, ReceiveConstants DEF FileInv
  <2>2. CASE g # f
    <3>1. \A q \in Requests : req'[q].file = g => q # p /\ req[q] = req'[q]
      BY <1>1, <2>2 DEF OthersStay
    <3> QED
      BY <1>3, <1>5, <2>2, <3>1 DEF FilesInv, FileInv, Progress, Nowhere
  <2> QED
    BY <2>1, <2>2
<1> QED
  BY <1>1, <1>3, <1>9 DEF FilesInv, UploadOK, UploadPCs, BeforeShare

\* An upload before the share: the quota, the file
LEMMA StoreSteps ==
    ASSUME Shapes, FilesInv, NEW p \in Requests, NEW f \in Files, req[p].file = f,
           req[p].pc \in UploadPCs,
           SumShares(p) \/ CheckQuota(p) \/ StoreFile(p) \/ StoreFails(p)
    PROVE  UploadOK(p)
<1>0. /\ RequestsOK(req) /\ req[p].pc # "idle" /\ req[p].link \in Links
      /\ Progress(req[p], f) /\ f \notin accepted \union refused
      /\ file[f].link = req[p].link
  BY Steps DEF Shapes, RequestsOK, FilesInv, FileInv
<1>1. CASE SumShares(p)
  <2>1. /\ Goto(p, "checking") /\ req[p].pc = "summing"
        /\ UNCHANGED <<file, disk, rows, shareFiles, shareRows, faults, answers, emptied,
                       wiped>>
    BY <1>1 DEF SumShares, receivedFiles, autoShares, history
  <2>2. /\ RequestsOK(req') /\ OthersStay(p)
        /\ req'[p].pc = "checking" /\ req'[p].link = req[p].link /\ req'[p].file = f
        /\ req'[p].shared = req[p].shared /\ req'[p].recorded = req[p].recorded
    BY <1>0, <2>1, GotoStep DEF PCs
  <2>3. Progress(req[p], f)'
    BY <1>0, <2>1, <2>2 DEF Progress, UploadPCs, BeforeShare, Stored
  <2>4. GoesOn(p, f) /\ ElsewhereSame(f)
    BY <2>1, <2>2, <2>3 DEF GoesOn, ElsewhereSame, answers
  <2> QED
    BY <1>0, <2>2, <2>4, OwnFile
<1>2. CASE CheckQuota(p)
  <2>1. /\ req[p].pc = "checking"
        /\ UNCHANGED <<file, disk, rows, shareFiles, shareRows, faults, emptied, wiped>>
    BY <1>2 DEF CheckQuota, receivedFiles, autoShares, history
  <2>2. CASE Goto(p, "admitted") /\ UNCHANGED answers
    <3>1. /\ RequestsOK(req') /\ OthersStay(p)
          /\ req'[p].pc = "admitted" /\ req'[p].link = req[p].link /\ req'[p].file = f
          /\ req'[p].shared = req[p].shared /\ req'[p].recorded = req[p].recorded
      BY <1>0, <2>1, <2>2, GotoStep DEF PCs
    <3>2. Progress(req[p], f)'
      BY <1>0, <2>1, <3>1 DEF Progress, UploadPCs, BeforeShare, Stored
    <3>3. GoesOn(p, f) /\ ElsewhereSame(f)
      BY <2>1, <2>2, <3>1, <3>2 DEF GoesOn, ElsewhereSame, answers
    <3> QED
      BY <1>0, <3>1, <3>3, OwnFile
  <2>3. CASE Finish(p) /\ Answer(p, FALSE)
    BY <1>0, <2>1, <2>3, Refusal DEF ElsewhereSame, Progress, Nowhere, BeforeShare
  <2> QED
    BY <1>2, <2>2, <2>3 DEF CheckQuota
<1>3. CASE StoreFile(p)
  <2>1. /\ req[p].pc = "admitted"
        /\ UNCHANGED <<file, rows, shareFiles, shareRows, faults, emptied, wiped>>
    BY <1>3 DEF StoreFile, autoShares
  <2>2. CASE disk' = disk \union {f} /\ Goto(p, "stored") /\ UNCHANGED answers
    <3>1. /\ RequestsOK(req') /\ OthersStay(p)
          /\ req'[p].pc = "stored" /\ req'[p].link = req[p].link /\ req'[p].file = f
          /\ req'[p].shared = req[p].shared /\ req'[p].recorded = req[p].recorded
      BY <1>0, <2>1, <2>2, GotoStep DEF PCs
    <3>2. Progress(req[p], f)'
      BY <1>0, <2>1, <2>2, <3>1 DEF Progress, UploadPCs, BeforeShare, Stored
    <3>3. GoesOn(p, f) /\ ElsewhereSame(f)
      BY <2>1, <2>2, <3>1, <3>2 DEF GoesOn, ElsewhereSame, answers
    <3> QED
      BY <1>0, <3>1, <3>3, OwnFile
  <2>3. CASE UNCHANGED disk /\ Finish(p) /\ Answer(p, FALSE)
    BY <1>0, <2>1, <2>3, Refusal DEF ElsewhereSame, Progress, Nowhere, BeforeShare
  <2> QED
    BY <1>3, <2>2, <2>3 DEF StoreFile
<1>4. CASE StoreFails(p)
  <2>1. /\ req[p].pc = "stored" /\ disk' = disk \ {f}
        /\ UNCHANGED <<file, rows, shareFiles, shareRows, faults, emptied, wiped>>
    BY <1>4 DEF StoreFails, autoShares, history
  <2> QED
    BY <1>0, <1>4, <2>1, Refusal DEF StoreFails, ElsewhereSame, Progress, Nowhere, BeforeShare
<1> QED
  BY <1>1, <1>2, <1>3, <1>4

\* The auto-share
LEMMA ShareSteps ==
    ASSUME Shapes, FilesInv, NEW p \in Requests, NEW f \in Files, req[p].file = f,
           req[p].pc \in UploadPCs,
           CopyToShare(p) \/ SkipShare(p) \/ SaveShare(p)
    PROVE  UploadOK(p)
<1>0. /\ RequestsOK(req) /\ req[p].pc # "idle" /\ req[p].link \in Links
      /\ Progress(req[p], f) /\ f \notin accepted \union refused
      /\ file[f].link = req[p].link
  BY Steps DEF Shapes, RequestsOK, FilesInv, FileInv
<1>1. CASE CopyToShare(p)
  <2>1. /\ req[p].pc = "stored" /\ shareFiles' = shareFiles \union {f} /\ Goto(p, "sharing")
        /\ UNCHANGED <<file, disk, rows, shareRows, faults, accepted, refused, emptied, wiped>>
    BY <1>1 DEF CopyToShare, receivedFiles, answers, history
  <2> QED
    <3>1. /\ RequestsOK(req') /\ OthersStay(p)
          /\ req'[p].pc = "sharing" /\ req'[p].link = req[p].link /\ req'[p].file = f
          /\ req'[p].shared = req[p].shared /\ req'[p].recorded = req[p].recorded
      BY <1>0, <2>1, GotoStep DEF PCs
    <3>2. Progress(req[p], f)'
      BY <1>0, <2>1, <3>1 DEF Progress, UploadPCs, BeforeShare, Stored
    <3>3. GoesOn(p, f) /\ ElsewhereSame(f)
      BY <2>1, <3>1, <3>2 DEF GoesOn, ElsewhereSame, answers
    <3> QED
      BY <1>0, <3>1, <3>3, OwnFile
<1>2. CASE SkipShare(p)
  <2>1. /\ req[p].pc = "stored" /\ Goto(p, "recording")
        /\ UNCHANGED <<file, disk, rows, shareFiles, shareRows, faults, answers, emptied,
                       wiped>>
    BY <1>2 DEF SkipShare, receivedFiles, autoShares, history
  <2> QED
    <3>1. /\ RequestsOK(req') /\ OthersStay(p)
          /\ req'[p].pc = "recording" /\ req'[p].link = req[p].link /\ req'[p].file = f
          /\ req'[p].shared = req[p].shared /\ req'[p].recorded = req[p].recorded
      BY <1>0, <2>1, GotoStep DEF PCs
    <3>2. Progress(req[p], f)'
      BY <1>0, <2>1, <3>1 DEF Progress, UploadPCs, BeforeShare, Stored
    <3>3. GoesOn(p, f) /\ ElsewhereSame(f)
      BY <2>1, <3>1, <3>2 DEF GoesOn, ElsewhereSame, answers
    <3> QED
      BY <1>0, <3>1, <3>3, OwnFile
<1>3. CASE SaveShare(p)
  <2>1. /\ req[p].pc = "sharing"
        /\ UNCHANGED <<file, disk, rows, faults, accepted, refused, emptied, wiped>>
    BY <1>3 DEF SaveShare, receivedFiles, answers, history
  <2>2. CASE /\ shareRows' = shareRows \union {f} /\ UNCHANGED shareFiles
             /\ req' = [req EXCEPT ![p].pc = "recording", ![p].shared = TRUE]
    <3>1. /\ RequestsOK(req') /\ OthersStay(p)
          /\ req'[p].pc = "recording" /\ req'[p].link = req[p].link /\ req'[p].file = f
          /\ req'[p].shared /\ req'[p].recorded = req[p].recorded
      BY <1>0, <2>1, <2>2, SharedStep
    <3>2. Progress(req[p], f)'
      BY <1>0, <2>1, <2>2, <3>1 DEF Progress, UploadPCs, BeforeShare, Stored
    <3>3. GoesOn(p, f) /\ ElsewhereSame(f)
      BY <2>1, <2>2, <3>1, <3>2 DEF GoesOn, ElsewhereSame, answers
    <3> QED
      BY <1>0, <3>1, <3>3, OwnFile
  <2>3. CASE shareFiles' = shareFiles \ {f} /\ UNCHANGED shareRows /\ Goto(p, "recording")
    <3>1. /\ RequestsOK(req') /\ OthersStay(p)
          /\ req'[p].pc = "recording" /\ req'[p].link = req[p].link /\ req'[p].file = f
          /\ req'[p].shared = req[p].shared /\ req'[p].recorded = req[p].recorded
      BY <1>0, <2>1, <2>3, GotoStep DEF PCs
    <3>2. Progress(req[p], f)'
      BY <1>0, <2>1, <2>3, <3>1 DEF Progress, UploadPCs, BeforeShare, Stored
    <3>3. GoesOn(p, f) /\ ElsewhereSame(f)
      BY <2>1, <2>3, <3>1, <3>2 DEF GoesOn, ElsewhereSame, answers
    <3> QED
      BY <1>0, <3>1, <3>3, OwnFile
  <2> QED
    BY <1>3, <2>2, <2>3 DEF SaveShare
<1> QED
  BY <1>1, <1>2, <1>3

\* The row and the count
LEMMA RecordSteps ==
    ASSUME Shapes, FilesInv, NEW p \in Requests, NEW f \in Files, req[p].file = f,
           req[p].pc \in UploadPCs,
           SaveReceivedFile(p) \/ IncrementReceiveLinkUploads(p)
    PROVE  UploadOK(p)
<1>0. /\ RequestsOK(req) /\ req[p].pc # "idle" /\ req[p].link \in Links
      /\ Progress(req[p], f) /\ f \notin accepted \union refused
      /\ file[f].link = req[p].link
  BY Steps DEF Shapes, RequestsOK, FilesInv, FileInv
<1>1. CASE SaveReceivedFile(p)
  <2>1. /\ req[p].pc = "recording"
        /\ UNCHANGED <<file, disk, shareFiles, shareRows, faults, accepted, refused, emptied,
                       wiped>>
    BY <1>1 DEF SaveReceivedFile, autoShares, answers, history
  <2>2. CASE /\ rows' = rows \union {f}
             /\ req' = [req EXCEPT ![p].pc = "counting", ![p].recorded = TRUE]
    <3>1. /\ RequestsOK(req') /\ OthersStay(p)
          /\ req'[p].pc = "counting" /\ req'[p].link = req[p].link /\ req'[p].file = f
          /\ req'[p].recorded /\ req'[p].shared = req[p].shared
      BY <1>0, <2>1, <2>2, RecordedStep
    <3>2. Progress(req[p], f)'
      BY <1>0, <2>1, <2>2, <3>1 DEF Progress, UploadPCs, BeforeShare, Stored
    <3>3. GoesOn(p, f) /\ ElsewhereSame(f)
      BY <2>1, <2>2, <3>1, <3>2 DEF GoesOn, ElsewhereSame, answers
    <3> QED
      BY <1>0, <3>1, <3>3, OwnFile
  <2>3. CASE UNCHANGED rows /\ Goto(p, "undoing")
    <3>1. /\ RequestsOK(req') /\ OthersStay(p)
          /\ req'[p].pc = "undoing" /\ req'[p].link = req[p].link /\ req'[p].file = f
          /\ req'[p].shared = req[p].shared /\ req'[p].recorded = req[p].recorded
      BY <1>0, <2>1, <2>3, GotoStep DEF PCs
    <3>2. Progress(req[p], f)'
      BY <1>0, <2>1, <2>3, <3>1 DEF Progress, UploadPCs, BeforeShare, Stored
    <3>3. GoesOn(p, f) /\ ElsewhereSame(f)
      BY <2>1, <2>3, <3>1, <3>2 DEF GoesOn, ElsewhereSame, answers
    <3> QED
      BY <1>0, <3>1, <3>3, OwnFile
  <2> QED
    BY <1>1, <2>2, <2>3 DEF SaveReceivedFile
<1>2. CASE IncrementReceiveLinkUploads(p)
  <2>1. /\ req[p].pc = "counting"
        /\ UNCHANGED <<file, disk, rows, shareFiles, shareRows, faults, emptied, wiped>>
    BY <1>2 DEF IncrementReceiveLinkUploads, receivedFiles, autoShares, history
  <2>2. CASE Finish(p) /\ Answer(p, TRUE)
    <3>1. RequestsOK(req') /\ OthersStay(p) /\ req'[p] = Idle
      BY <1>0, <2>2, FinishStep
    <3>2. accepted' = accepted \union {f} /\ refused' = refused
      BY <2>2 DEF Answer
    <3>3. req[p].link \notin emptied => f \in rows /\ f \in disk \union wiped
      BY <1>0, <2>1 DEF Progress, Stored
    <3>4. IsDone(p, f) /\ ElsewhereSame(f)
      BY <1>0, <2>1, <3>1, <3>2, <3>3 DEF IsDone, ElsewhereSame
    <3> QED
      BY <1>0, <3>1, <3>4, OwnFile
  <2>3. CASE Goto(p, "undoing") /\ UNCHANGED answers
    <3>1. /\ RequestsOK(req') /\ OthersStay(p)
          /\ req'[p].pc = "undoing" /\ req'[p].link = req[p].link /\ req'[p].file = f
          /\ req'[p].shared = req[p].shared /\ req'[p].recorded = req[p].recorded
      BY <1>0, <2>1, <2>3, GotoStep DEF PCs
    <3>2. Progress(req[p], f)'
      BY <1>0, <2>1, <2>3, <3>1 DEF Progress, UploadPCs, BeforeShare, Stored, answers
    <3>3. GoesOn(p, f) /\ ElsewhereSame(f)
      BY <2>1, <2>3, <3>1, <3>2 DEF GoesOn, ElsewhereSame, answers
    <3> QED
      BY <1>0, <3>1, <3>3, OwnFile
  <2> QED
    BY <1>2, <2>2, <2>3 DEF IncrementReceiveLinkUploads
<1> QED
  BY <1>1, <1>2

\* The roll-back
LEMMA UndoSteps ==
    ASSUME Shapes, FilesInv, NEW p \in Requests, NEW f \in Files, req[p].file = f,
           req[p].pc \in UploadPCs,
           UndoFile(p) \/ UndoShareFile(p) \/ UndoShareRow(p) \/ UndoRow(p)
    PROVE  UploadOK(p)
<1>0. /\ RequestsOK(req) /\ req[p].pc # "idle" /\ req[p].link \in Links
      /\ Progress(req[p], f) /\ f \notin accepted \union refused
      /\ file[f].link = req[p].link
  BY Steps DEF Shapes, RequestsOK, FilesInv, FileInv
<1>1. CASE UndoFile(p)
  <2>1. /\ req[p].pc = "undoing" /\ disk' = disk \ {f}
        /\ UNCHANGED <<file, rows, shareFiles, shareRows, faults, emptied, wiped>>
    BY <1>1 DEF UndoFile, autoShares, history
  <2>2. CASE Goto(p, "unsharing") /\ UNCHANGED answers
    <3>1. /\ RequestsOK(req') /\ OthersStay(p)
          /\ req'[p].pc = "unsharing" /\ req'[p].link = req[p].link /\ req'[p].file = f
          /\ req'[p].shared = req[p].shared /\ req'[p].recorded = req[p].recorded
      BY <1>0, <2>1, <2>2, GotoStep DEF PCs
    <3>2. Progress(req[p], f)'
      BY <1>0, <2>1, <2>2, <3>1 DEF Progress, UploadPCs, BeforeShare, Stored
    <3>3. GoesOn(p, f) /\ ElsewhereSame(f)
      BY <2>1, <2>2, <3>1, <3>2 DEF GoesOn, ElsewhereSame, answers
    <3> QED
      BY <1>0, <3>1, <3>3, OwnFile
  <2>3. CASE ~req[p].shared /\ Goto(p, "unrecording") /\ UNCHANGED answers
    <3>1. /\ RequestsOK(req') /\ OthersStay(p)
          /\ req'[p].pc = "unrecording" /\ req'[p].link = req[p].link /\ req'[p].file = f
          /\ req'[p].shared = req[p].shared /\ req'[p].recorded = req[p].recorded
      BY <1>0, <2>1, <2>3, GotoStep DEF PCs
    <3>2. Progress(req[p], f)'
      BY <1>0, <2>1, <2>3, <3>1 DEF Progress, UploadPCs, BeforeShare, Stored
    <3>3. GoesOn(p, f) /\ ElsewhereSame(f)
      BY <2>1, <2>3, <3>1, <3>2 DEF GoesOn, ElsewhereSame, answers
    <3> QED
      BY <1>0, <3>1, <3>3, OwnFile
  <2>4. CASE ~req[p].shared /\ ~req[p].recorded /\ Finish(p) /\ Answer(p, FALSE)
    BY <1>0, <2>1, <2>4, Refusal DEF ElsewhereSame, Progress, Nowhere
  <2> QED
    BY <1>1, <2>2, <2>3, <2>4 DEF UndoFile, AfterUndo
<1>2. CASE UndoShareFile(p)
  <2>1. /\ req[p].pc = "unsharing" /\ Goto(p, "dropping") /\ UNCHANGED answers
        /\ shareFiles' = IF f \in shareRows THEN shareFiles \ {f} ELSE shareFiles
        /\ UNCHANGED <<file, disk, rows, shareRows, faults, emptied, wiped>>
    BY <1>2 DEF UndoShareFile, receivedFiles, history
  <2> QED
    <3>1. /\ RequestsOK(req') /\ OthersStay(p)
          /\ req'[p].pc = "dropping" /\ req'[p].link = req[p].link /\ req'[p].file = f
          /\ req'[p].shared = req[p].shared /\ req'[p].recorded = req[p].recorded
      BY <1>0, <2>1, GotoStep DEF PCs
    <3>2. Progress(req[p], f)'
      BY <1>0, <2>1, <3>1 DEF Progress, UploadPCs, BeforeShare, Stored
    <3>3. GoesOn(p, f) /\ ElsewhereSame(f)
      BY <2>1, <3>1, <3>2 DEF GoesOn, ElsewhereSame, answers
    <3> QED
      BY <1>0, <3>1, <3>3, OwnFile
<1>3. CASE UndoShareRow(p)
  <2>1. /\ req[p].pc = "dropping" /\ UNCHANGED <<file, disk, rows, shareFiles, emptied, wiped>>
        /\ \/ shareRows' = shareRows \ {f} /\ UNCHANGED faults
           \/ faults' = faults + 1 /\ UNCHANGED shareRows
    BY <1>3 DEF UndoShareRow, Fault, receivedFiles, history
  <2>2. faults \in Nat
    BY DEF Shapes
  <2>3. CASE Goto(p, "unrecording") /\ UNCHANGED answers
    <3>1. /\ RequestsOK(req') /\ OthersStay(p)
          /\ req'[p].pc = "unrecording" /\ req'[p].link = req[p].link /\ req'[p].file = f
          /\ req'[p].shared = req[p].shared /\ req'[p].recorded = req[p].recorded
      BY <1>0, <2>1, <2>2, <2>3, GotoStep DEF PCs
    <3>2. Progress(req[p], f)'
      BY <1>0, <2>1, <2>2, <2>3, <3>1 DEF Progress, UploadPCs, BeforeShare, Stored
    <3>3. GoesOn(p, f) /\ ElsewhereSame(f)
      BY <2>1, <2>2, <2>3, <3>1, <3>2 DEF GoesOn, ElsewhereSame, answers
    <3> QED
      BY <1>0, <3>1, <3>3, OwnFile
  <2>4. CASE ~req[p].recorded /\ Finish(p) /\ Answer(p, FALSE)
    <3>1. ElsewhereSame(f)
      BY <2>1, <2>2 DEF ElsewhereSame
    <3>2. faults' = 0 => Nowhere(f)'
      BY <1>0, <2>1, <2>2, <2>4 DEF Progress, Nowhere
    <3> QED
      BY <1>0, <2>4, <3>1, <3>2, Refusal
  <2> QED
    BY <1>3, <2>3, <2>4 DEF UndoShareRow, AfterUndo
<1>4. CASE UndoRow(p)
  <2>1. /\ req[p].pc = "unrecording" /\ Finish(p) /\ Answer(p, FALSE)
        /\ \/ rows' = rows \ {f} /\ UNCHANGED faults
           \/ faults' = faults + 1 /\ UNCHANGED rows
        /\ UNCHANGED <<file, disk, shareFiles, shareRows, emptied, wiped>>
    BY <1>4 DEF UndoRow, Fault, autoShares, history
  <2>2. faults \in Nat
    BY DEF Shapes
  <2>3. ElsewhereSame(f)
    BY <2>1, <2>2 DEF ElsewhereSame
  <2>4. faults' = 0 => Nowhere(f)'
    BY <1>0, <2>1, <2>2 DEF Progress, Nowhere
  <2> QED
    BY <1>0, <2>1, <2>3, <2>4, Refusal
<1> QED
  BY <1>1, <1>2, <1>3, <1>4

LEMMA UploadSteps ==
    ASSUME Shapes, FilesInv, NEW p \in Requests, Upload(p)
    PROVE  UploadOK(p)
<1>1. ASSUME NEW l \in Links, NEW f \in Files, Admit(p, l, f)
      PROVE  UploadOK(p)
  BY <1>1, AdmitStep
<1>2. CASE \/ SumShares(p) \/ CheckQuota(p) \/ StoreFile(p) \/ StoreFails(p)
           \/ CopyToShare(p) \/ SkipShare(p) \/ SaveShare(p)
           \/ SaveReceivedFile(p) \/ IncrementReceiveLinkUploads(p)
           \/ UndoFile(p) \/ UndoShareFile(p) \/ UndoShareRow(p) \/ UndoRow(p)
  <2>1. req[p].pc \in UploadPCs
    BY <1>2 DEF SumShares, CheckQuota, StoreFile, StoreFails, CopyToShare, SkipShare,
       SaveShare, SaveReceivedFile, IncrementReceiveLinkUploads, UndoFile, UndoShareFile,
       UndoShareRow, UndoRow, UploadPCs, BeforeShare
  <2>2. PICK f \in Files : req[p].file = f
    BY <2>1 DEF Shapes, RequestsOK
  <2> QED
    BY <1>2, <2>1, <2>2, StoreSteps, ShareSteps, RecordSteps, UndoSteps
<1> QED
  BY <1>1, <1>2 DEF Upload

-----------------------------------------------------------------------------
(* The other steps *)

\* What every step has to establish of requests, files and emptied links
FilesOK == RequestsOK(req') /\ FilesInv' /\ EmptiedInv'

LEMMA DroppingLinks ==
    ASSUME NEW L, DropLinks(L)
    PROVE  rows' \subseteq rows /\ \A f \in Files : f \in rows \ rows' => file[f].link \in L
  BY DEF DropLinks, FilesOf

LEMMA EmptyingDir ==
    ASSUME NEW l, EmptyDir(l)
    PROVE  /\ emptied' = emptied \union {l} /\ disk' \subseteq disk
           /\ \A f \in Files : f \in disk \ disk' => file[f].link = l
  BY DEF EmptyDir, FilesOf

LEMMA ManageSteps ==
    ASSUME Shapes, FilesInv, EmptiedInv, NEW p \in Requests, Manage(p)
    PROVE  FilesOK
<1>0. RequestsOK(req)
  BY DEF Shapes
<1>n. NoFile \notin Files /\ Idle.file = NoFile /\ Idle.pc = "idle"
  BY ReceiveConstants DEF Idle
<1>1. ASSUME NEW l \in Links, MakeLinkDir(p, l) \/ BeginDelete(p, l) PROVE FilesOK
  <2>1. PICK pc \in {"linking", "emptying"} : Start(p, pc, l, NoFile)
    BY <1>1 DEF MakeLinkDir, BeginDelete
  <2>2. /\ RequestsOK(req') /\ OthersStay(p)
        /\ req'[p].pc = pc /\ req'[p].file = NoFile
    BY <1>0, <2>1, StartStep DEF PCs, UploadPCs, BeforeShare
  <2>3. UNCHANGED <<file, disk, rows, shareFiles, shareRows, faults, answers, emptied, wiped,
                    sweep>>
    BY <1>1 DEF MakeLinkDir, BeginDelete, receivedFiles, autoShares, history
  <2>4. TakesAway /\ EmptiedInv'
    BY <1>n, <2>2, <2>3 DEF TakesAway, OthersStay, EmptiedInv
  <2> QED
    BY <2>2, <2>4, TakingAway DEF FilesOK
<1>2. CASE SaveReceiveLink(p)
  <2>1. RequestsOK(req') /\ OthersStay(p) /\ req'[p] = Idle
    BY <1>0, <1>2, FinishStep DEF SaveReceiveLink
  <2>2. UNCHANGED <<file, disk, rows, shareFiles, shareRows, faults, answers, emptied, wiped,
                    sweep>>
    BY <1>2 DEF SaveReceiveLink, receivedFiles, autoShares, history
  <2>3. TakesAway /\ EmptiedInv'
    BY <1>n, <2>1, <2>2 DEF TakesAway, OthersStay, EmptiedInv
  <2> QED
    BY <2>1, <2>3, TakingAway DEF FilesOK
<1>3. CASE EmptyLinkDir(p)
  <2>1. /\ RequestsOK(req') /\ OthersStay(p)
        /\ req'[p].pc = "removing" /\ req'[p].link = req[p].link /\ req'[p].file = req[p].file
        /\ req[p].link \in Links /\ req[p].pc = "emptying"
    BY <1>0, <1>3, GotoStep DEF EmptyLinkDir, PCs, UploadPCs, BeforeShare, RequestsOK
  <2>2. /\ emptied' = emptied \union {req[p].link} /\ disk' \subseteq disk
        /\ \A f \in Files : f \in disk \ disk' => file[f].link = req[p].link
    BY <1>3, EmptyingDir DEF EmptyLinkDir
  <2>3. UNCHANGED <<file, rows, shareFiles, shareRows, faults, answers, wiped, sweep>>
    BY <1>3 DEF EmptyLinkDir, autoShares
  <2>4. req[p].file \notin Files
    BY <2>1 DEF FilesInv, FileInv, Progress, UploadPCs, BeforeShare
  <2>5. TakesAway /\ EmptiedInv'
    BY <2>1, <2>2, <2>3, <2>4 DEF TakesAway, OthersStay, EmptiedInv
  <2> QED
    BY <2>1, <2>5, TakingAway DEF FilesOK
<1>4. CASE RemoveLinkDir(p)
  <2>1. /\ RequestsOK(req') /\ OthersStay(p) /\ req[p].pc = "removing"
        /\ req'[p].pc = "deleting" /\ req'[p].link = req[p].link /\ req'[p].file = req[p].file
    BY <1>0, <1>4, GotoStep DEF RemoveLinkDir, PCs, UploadPCs, BeforeShare
  <2>2. UNCHANGED <<file, disk, rows, shareFiles, shareRows, faults, answers, emptied, wiped,
                    sweep>>
    BY <1>4 DEF RemoveLinkDir, receivedFiles, autoShares, history
  <2>3. req[p].file \notin Files
    BY <2>1 DEF FilesInv, FileInv, Progress, UploadPCs, BeforeShare
  <2>4. TakesAway /\ EmptiedInv'
    BY <2>1, <2>2, <2>3 DEF TakesAway, OthersStay, EmptiedInv
  <2> QED
    BY <2>1, <2>4, TakingAway DEF FilesOK
<1>5. CASE DeleteReceiveLink(p)
  <2>1. RequestsOK(req') /\ OthersStay(p) /\ req'[p] = Idle
    BY <1>0, <1>5, FinishStep DEF DeleteReceiveLink
  <2>2. /\ UNCHANGED <<file, disk, shareFiles, shareRows, answers, emptied, wiped, sweep>>
        /\ req[p].link \in emptied
    BY <1>5 DEF DeleteReceiveLink, autoShares, history, EmptiedInv
  <2>3. /\ rows' \subseteq rows /\ (faults' = 0 => faults = 0)
        /\ \A f \in Files : f \in rows \ rows' => file[f].link = req[p].link
    <3>1. CASE DropLinks({req[p].link}) /\ UNCHANGED faults
      BY <3>1, DroppingLinks
    <3>2. CASE Fault /\ UNCHANGED rows
      BY <3>2 DEF Fault, Shapes
    <3> QED
      BY <1>5, <3>1, <3>2 DEF DeleteReceiveLink
  <2>4. TakesAway /\ EmptiedInv'
    BY <1>n, <2>1, <2>2, <2>3 DEF TakesAway, OthersStay, EmptiedInv
  <2> QED
    BY <2>1, <2>4, TakingAway DEF FilesOK
<1> QED
  BY <1>1, <1>2, <1>3, <1>4, <1>5 DEF Manage

LEMMA OtherSteps ==
    ASSUME Shapes, FilesInv, EmptiedInv,
           \/ \E f \in Files : DeleteShare(f)
           \/ \E l \in Links : Expire(l)
           \/ EmptyUploads \/ Sweep \/ Restart \/ UNCHANGED vars
    PROVE  FilesOK
<1>0. RequestsOK(req) /\ faults \in Nat
  BY DEF Shapes
<1>1. ASSUME NEW f \in Files, DeleteShare(f) PROVE FilesOK
  <2>1. /\ shareRows' = shareRows \ {f} /\ shareFiles' = shareFiles \ {f}
        /\ UNCHANGED <<file, disk, rows, req, faults, answers, emptied, wiped, sweep>>
    BY <1>1 DEF DeleteShare, receivedFiles, history
  <2>2. TakesAway /\ EmptiedInv'
    BY <2>1 DEF TakesAway, EmptiedInv
  <2> QED
    BY <1>0, <2>1, <2>2, TakingAway DEF FilesOK, RequestsOK
<1>2. CASE (\E l \in Links : Expire(l)) \/ UNCHANGED vars
  <2>1. UNCHANGED <<file, disk, rows, shareFiles, shareRows, req, faults, answers, emptied,
                    wiped, sweep>>
    BY <1>2 DEF Expire, vars, receivedFiles, autoShares, history
  <2>2. TakesAway /\ EmptiedInv'
    BY <2>1 DEF TakesAway, EmptiedInv
  <2> QED
    BY <1>0, <2>1, <2>2, TakingAway DEF FilesOK, RequestsOK
<1>3. CASE SweepSelect
  <2>1. /\ UNCHANGED <<file, disk, rows, shareFiles, shareRows, req, faults, answers,
                       emptied, wiped>>
        /\ sweep' = [NoSweep EXCEPT !.empty = ExpiredLinks, !.remove = ExpiredLinks,
                                    !.all = ExpiredLinks]
    BY <1>3 DEF SweepSelect, receivedFiles, autoShares, history
  <2>2. TakesAway /\ EmptiedInv'
    BY <2>1 DEF TakesAway, EmptiedInv, NoSweep
  <2> QED
    BY <1>0, <2>1, <2>2, TakingAway DEF FilesOK, RequestsOK
<1>4. ASSUME NEW l \in Links, SweepEmpty(l) PROVE FilesOK
  <2>1. /\ emptied' = emptied \union {l} /\ disk' \subseteq disk
        /\ \A f \in Files : f \in disk \ disk' => file[f].link = l
    BY <1>4, EmptyingDir DEF SweepEmpty
  <2>2. /\ UNCHANGED <<file, rows, shareFiles, shareRows, req, faults, answers, wiped>>
        /\ sweep' = [sweep EXCEPT !.empty = @ \ {l}]
    BY <1>4 DEF SweepEmpty, autoShares
  <2>3. TakesAway /\ EmptiedInv'
    BY <2>1, <2>2 DEF TakesAway, EmptiedInv
  <2> QED
    BY <1>0, <2>2, <2>3, TakingAway DEF FilesOK, RequestsOK
<1>5. ASSUME NEW l \in Links, SweepRemove(l) PROVE FilesOK
  <2>1. /\ UNCHANGED <<file, disk, rows, shareFiles, shareRows, req, faults, answers,
                       emptied, wiped>>
        /\ sweep' = [sweep EXCEPT !.remove = @ \ {l}]
    BY <1>5 DEF SweepRemove, receivedFiles, autoShares, history
  <2>2. TakesAway /\ EmptiedInv'
    BY <2>1 DEF TakesAway, EmptiedInv
  <2> QED
    BY <1>0, <2>1, <2>2, TakingAway DEF FilesOK, RequestsOK
<1>6. CASE SweepDrop
  <2>1. /\ UNCHANGED <<file, disk, shareFiles, shareRows, req, answers, emptied, wiped>>
        /\ sweep' = NoSweep /\ sweep.all \subseteq emptied
    BY <1>6 DEF SweepDrop, autoShares, history, EmptiedInv
  <2>2. /\ rows' \subseteq rows /\ (faults' = 0 => faults = 0)
        /\ \A f \in Files : f \in rows \ rows' => file[f].link \in sweep.all
    <3>1. CASE DropLinks(sweep.all) /\ UNCHANGED faults
      BY <3>1, DroppingLinks
    <3>2. CASE Fault /\ UNCHANGED rows
      BY <1>0, <3>2 DEF Fault
    <3> QED
      BY <1>6, <3>1, <3>2 DEF SweepDrop, Swept
  <2>3. TakesAway /\ EmptiedInv'
    BY <2>1, <2>2 DEF TakesAway, EmptiedInv, NoSweep
  <2> QED
    BY <1>0, <2>1, <2>3, TakingAway DEF FilesOK, RequestsOK
<1>7. CASE Restart
  <2>1. /\ UNCHANGED <<file, disk, rows, shareFiles, shareRows, answers, emptied, wiped>>
        /\ req' = [p \in Requests |-> Idle] /\ sweep' = NoSweep /\ faults' = faults + 1
    BY <1>7 DEF Restart, Fault, receivedFiles, autoShares, history
  <2>2. TakesAway /\ EmptiedInv'
    BY <1>0, <2>1, ReceiveConstants DEF TakesAway, EmptiedInv, NoSweep, Idle
  <2>3. RequestsOK(req')
    BY <2>1, IdleRequest DEF RequestsOK, Idle, UploadPCs, BeforeShare
  <2> QED
    BY <2>2, <2>3, TakingAway DEF FilesOK
<1>8. CASE EmptyUploads
  <2>1. /\ disk' = {} /\ shareFiles' = {} /\ wiped' = wiped \union disk
        /\ UNCHANGED <<file, rows, shareRows, req, faults, answers, emptied>>
        /\ sweep' = [sweep EXCEPT !.turn = "uploads"]
    BY <1>8 DEF EmptyUploads
  <2>2. TakesAway /\ EmptiedInv'
    BY <2>1 DEF TakesAway, EmptiedInv
  <2> QED
    BY <1>0, <2>1, <2>2, TakingAway DEF FilesOK, RequestsOK
<1>9. CASE RemoveUploads
  <2>1. /\ UNCHANGED <<file, disk, rows, shareFiles, shareRows, req, faults, answers,
                       emptied, wiped>>
        /\ sweep' = [sweep EXCEPT !.turn = "links"]
    BY <1>9 DEF RemoveUploads, receivedFiles, autoShares, history
  <2>2. TakesAway /\ EmptiedInv'
    BY <2>1 DEF TakesAway, EmptiedInv
  <2> QED
    BY <1>0, <2>1, <2>2, TakingAway DEF FilesOK, RequestsOK
<1> QED
  BY <1>1, <1>2, <1>3, <1>4, <1>5, <1>6, <1>7, <1>8, <1>9 DEF Sweep

LEMMA FilesStep ==
    ASSUME Shapes, FilesInv, EmptiedInv, [Next]_vars
    PROVE  FilesOK
<1>1. ASSUME NEW p \in Requests, Upload(p) PROVE FilesOK
  <2>1. UploadOK(p)
    BY <1>1, UploadSteps
  <2>2. UNCHANGED <<emptied, wiped, sweep>>
    BY <1>1 DEF Upload, Admit, SumShares, CheckQuota, StoreFile, StoreFails, CopyToShare,
       SkipShare, SaveShare, SaveReceivedFile, IncrementReceiveLinkUploads, UndoFile,
       UndoShareFile, UndoShareRow, UndoRow, history
  <2>3. EmptiedInv'
    BY <2>1, <2>2 DEF EmptiedInv, UploadOK, OthersStay, UploadPCs, BeforeShare
  <2> QED
    BY <2>1, <2>3 DEF UploadOK, FilesOK
<1> QED
  BY <1>1, ManageSteps, OtherSteps DEF Next

-----------------------------------------------------------------------------
(* Links and their counters *)

\* Nothing a cap depends on changes in the table receive_links.
CountsKept ==
    /\ link' \in [Links -> Link]
    /\ \A l \in Links : /\ link'[l].uploads = link[l].uploads
                        /\ link'[l].max = link[l].max
                        /\ link'[l].state = "new" <=> link[l].state = "new"

LEMMA MaxOfZero ==
    ASSUME NEW n \in Int
    PROVE  Max({0, n}) \in Nat
<1>1. \E x \in {0, n} : \A y \in {0, n} : x >= y
  OBVIOUS
<1>2. Max({0, n}) \in {0, n} /\ \A y \in {0, n} : Max({0, n}) >= y
  BY <1>1 DEF Max
<1> QED
  BY <1>2

LEMMA MaxOfNatural ==
    ASSUME NEW n \in Nat
    PROVE  Max({0, n}) = n
<1>1. \E x \in {0, n} : \A y \in {0, n} : x >= y
  OBVIOUS
<1>2. Max({0, n}) \in {0, n} /\ \A y \in {0, n} : Max({0, n}) >= y
  BY <1>1 DEF Max
<1> QED
  BY <1>2

LEMMA TotalChanges ==
    ASSUME Shapes, NEW l \in Links, NEW n \in Nat, link' = [link EXCEPT ![l].total = n]
    PROVE  CountsKept
  BY DEF Shapes, CountsKept, Link

LEMMA LinksDropped ==
    ASSUME Shapes, NEW L, DropLinks(L)
    PROVE  CountsKept
  BY DEF Shapes, DropLinks, CountsKept, Link

\* Every step but the creation of a link and the count of an upload
LEMMA CountsStep ==
    ASSUME Shapes, [Next]_vars
    PROVE  \/ CountsKept
           \/ \E p \in Requests : SaveReceiveLink(p) \/ IncrementReceiveLinkUploads(p)
<1>0. link \in [Links -> Link] /\ (UNCHANGED link => CountsKept)
  BY DEF Shapes, CountsKept
<1>1. ASSUME NEW p \in Requests, SaveReceivedFile(p) PROVE CountsKept
  <2>1. /\ req[p].link \in Links /\ req[p].file \in Files
        /\ req[p].link \in Links => link[req[p].link].total + file[req[p].file].size \in Nat
    BY <1>1 DEF SaveReceivedFile, Shapes, RequestsOK, Link, UploadPCs, BeforeShare
  <2> QED
    BY <1>0, <1>1, <2>1, TotalChanges DEF SaveReceivedFile
<1>2. ASSUME NEW p \in Requests, UndoRow(p) PROVE CountsKept
  <2>1. /\ req[p].link \in Links /\ req[p].file \in Files
        /\ req[p].link \in Links => link[req[p].link].total - file[req[p].file].size \in Int
    BY <1>2 DEF UndoRow, Shapes, RequestsOK, Link, UploadPCs, BeforeShare
  <2>2. Max({0, link[req[p].link].total - file[req[p].file].size}) \in Nat
    BY <2>1, MaxOfZero
  <2> QED
    BY <1>0, <1>2, <2>1, <2>2, TotalChanges DEF UndoRow
<1>3. ASSUME NEW p \in Requests, DeleteReceiveLink(p) PROVE CountsKept
  BY <1>0, <1>3, LinksDropped DEF DeleteReceiveLink
<1>4. CASE SweepDrop
  BY <1>0, <1>4, LinksDropped DEF SweepDrop
<1>5. ASSUME NEW p \in Requests,
             \/ \E l \in Links, f \in Files : Admit(p, l, f)
             \/ SumShares(p) \/ CheckQuota(p) \/ StoreFile(p) \/ StoreFails(p)
             \/ CopyToShare(p) \/ SkipShare(p) \/ SaveShare(p)
             \/ UndoFile(p) \/ UndoShareFile(p) \/ UndoShareRow(p)
             \/ \E l \in Links : MakeLinkDir(p, l) \/ BeginDelete(p, l)
             \/ EmptyLinkDir(p) \/ RemoveLinkDir(p)
      PROVE  CountsKept
  BY <1>0, <1>5 DEF Admit, SumShares, CheckQuota, StoreFile, StoreFails, CopyToShare,
     SkipShare, SaveShare, UndoFile, UndoShareFile, UndoShareRow, MakeLinkDir, BeginDelete,
     EmptyLinkDir, RemoveLinkDir
<1>6. CASE \/ \E f \in Files : DeleteShare(f)
           \/ EmptyUploads \/ RemoveUploads \/ SweepSelect
           \/ \E l \in Links : Expire(l) \/ SweepEmpty(l) \/ SweepRemove(l)
           \/ Restart \/ UNCHANGED vars
  BY <1>0, <1>6 DEF DeleteShare, EmptyUploads, RemoveUploads, SweepSelect, Expire,
     SweepEmpty, SweepRemove, Restart, vars
<1> QED
  BY <1>1, <1>2, <1>3, <1>4, <1>5, <1>6 DEF Next, Upload, Manage, Sweep

\* The files a link received, and those accepted, change in two steps only.
LEMMA FilesAndAnswers ==
    ASSUME [Next]_vars
    PROVE  /\ \/ UNCHANGED file
              \/ \E p \in Requests, l \in Links, f \in Files : Admit(p, l, f)
           /\ \/ accepted' = accepted
              \/ \E p \in Requests : IncrementReceiveLinkUploads(p)
           /\ faults' = faults \/ faults' = faults + 1
  BY DEF Next, Upload, Manage, Sweep, vars, receivedFiles, autoShares, answers, Answer,
     Fault, SumShares, CheckQuota, StoreFile, StoreFails, CopyToShare, SkipShare, SaveShare,
     SaveReceivedFile, IncrementReceiveLinkUploads, UndoFile, UndoShareFile, UndoShareRow,
     UndoRow, AfterUndo, MakeLinkDir, BeginDelete, SaveReceiveLink, EmptyLinkDir,
     RemoveLinkDir, DeleteReceiveLink, DeleteShare, EmptyUploads, RemoveUploads, SweepSelect,
     Expire, SweepEmpty, SweepRemove, SweepDrop, Restart, Admit

\* The requests that create a link are those of before, but for a new one.
NoNewLinking == \A q \in Requests : req'[q].pc = "linking" => req'[q] = req[q]

LEMMA LinkingStep ==
    ASSUME Shapes, FilesInv, [Next]_vars
    PROVE  NoNewLinking \/ \E p \in Requests, l \in Links : MakeLinkDir(p, l)
<1>0. RequestsOK(req)
  BY DEF Shapes
<1>1. ASSUME NEW p \in Requests, Upload(p) PROVE NoNewLinking
  BY <1>1, UploadSteps DEF UploadOK, OthersStay, NoNewLinking, UploadPCs, BeforeShare
<1>2. ASSUME NEW p \in Requests, NEW l \in Links, BeginDelete(p, l) PROVE NoNewLinking
  <2>1. OthersStay(p) /\ req'[p].pc = "emptying"
    BY <1>0, <1>2, StartStep DEF BeginDelete, PCs, UploadPCs, BeforeShare
  <2> QED
    BY <2>1 DEF OthersStay, NoNewLinking
<1>3. ASSUME NEW p \in Requests, SaveReceiveLink(p) \/ DeleteReceiveLink(p)
      PROVE  NoNewLinking
  <2>1. OthersStay(p) /\ req'[p] = Idle
    BY <1>0, <1>3, FinishStep DEF SaveReceiveLink, DeleteReceiveLink
  <2> QED
    BY <2>1 DEF OthersStay, NoNewLinking, Idle
<1>4. ASSUME NEW p \in Requests, EmptyLinkDir(p) \/ RemoveLinkDir(p) PROVE NoNewLinking
  <2>1. OthersStay(p) /\ req'[p].pc \in {"removing", "deleting"}
    BY <1>0, <1>4, GotoStep DEF EmptyLinkDir, RemoveLinkDir, PCs, UploadPCs, BeforeShare
  <2> QED
    BY <2>1 DEF OthersStay, NoNewLinking
<1>5. CASE UNCHANGED req \/ Restart
  BY <1>5 DEF NoNewLinking, Restart, Idle
<1> QED
  BY <1>1, <1>2, <1>3, <1>4, <1>5
     DEF Next, Manage, Sweep, DeleteShare, Expire, EmptyUploads, RemoveUploads, SweepSelect,
         SweepEmpty, SweepRemove, SweepDrop, vars

LEMMA CapsStep ==
    ASSUME Shapes, FilesInv, CapsInv, [Next]_vars
    PROVE  CapsInv' /\ link' \in [Links -> Link]
<1>0. RequestsOK(req) /\ link \in [Links -> Link] /\ Link = [state : {"new", "live", "gone"},
        max : Int, auto : BOOLEAN, uploads : Nat, total : Nat]
  BY DEF Shapes, Link
<1>1. ASSUME NEW p \in Requests, NEW l \in Links, NEW f \in Files, Admit(p, l, f)
      PROVE  CapsInv' /\ link' \in [Links -> Link]
  <2>1. NoNewLinking
    BY <1>1, UploadSteps DEF Upload, UploadOK, OthersStay, NoNewLinking, UploadPCs, BeforeShare
  <2>2. /\ UNCHANGED <<link, accepted>> /\ link[l].state = "live" /\ file[f].link = NoLink
        /\ \A g \in Files \ {f} : file'[g].link = file[g].link
        /\ file'[f].link = l
    BY <1>1 DEF Admit, answers, Visible, Shapes
  <2>3. f \notin accepted
    BY <2>2 DEF FilesInv, FileInv
  <2>4. ASSUME NEW k \in Links PROVE CapInv(k)'
    <3>1. FilesOf(k)' \subseteq FilesOf(k) \union {f} /\ (k # l => FilesOf(k)' = FilesOf(k))
      BY <2>2, ReceiveConstants DEF FilesOf
    <3>2. accepted' \intersect FilesOf(k)' = accepted \intersect FilesOf(k)
      BY <2>2, <2>3, ReceiveConstants DEF FilesOf
    <3>3. CapInv(k) /\ (link[k].state = "new" => k # l)
      BY <2>2 DEF CapsInv
    <3> QED
      BY <2>1, <2>2, <3>1, <3>2, <3>3 DEF CapInv, NoNewLinking
  <2> QED
    BY <1>0, <2>2, <2>4 DEF CapsInv
<1>2. ASSUME NEW p \in Requests, IncrementReceiveLinkUploads(p)
      PROVE  CapsInv' /\ link' \in [Links -> Link]
  <2>0. UNCHANGED file
    BY <1>2 DEF IncrementReceiveLinkUploads, receivedFiles
  <2>1. NoNewLinking
    BY <1>2, UploadSteps DEF Upload, UploadOK, OthersStay, NoNewLinking, UploadPCs, BeforeShare
  <2>2. CASE UNCHANGED <<link, answers>>
    BY <1>0, <2>0, <2>1, <2>2 DEF CapsInv, CapInv, NoNewLinking, FilesOf, answers
  <2>3. CASE /\ Countable(req[p].link) /\ Answer(p, TRUE)
             /\ link' = [link EXCEPT ![req[p].link].uploads = @ + 1]
    <3>1. PICK l \in Links, f \in Files : l = req[p].link /\ f = req[p].file
      BY <1>0, <1>2 DEF IncrementReceiveLinkUploads, RequestsOK, UploadPCs, BeforeShare
    <3>2. /\ accepted' = accepted \union {f} /\ Countable(l)
          /\ link' = [link EXCEPT ![l].uploads = link[l].uploads + 1]
      BY <2>3, <3>1 DEF Answer
    <3>3. /\ link' \in [Links -> Link] /\ link[l].uploads \in Nat /\ link[l].max \in Int
          /\ link'[l].uploads = link[l].uploads + 1 /\ link'[l].max = link[l].max
          /\ link'[l].state = link[l].state
          /\ \A k \in Links \ {l} : link'[k] = link[k]
      BY <1>0, <3>2
    <3>4. file[f].link = l
      BY <3>1 DEF FilesInv, FileInv
    <3>5. ASSUME NEW k \in Links PROVE CapInv(k)'
      <4>1. FilesOf(k)' = FilesOf(k) /\ CapInv(k)
        BY <2>0 DEF FilesOf, CapsInv
      <4>2. CASE k # l
        <5>1. accepted' \intersect FilesOf(k) = accepted \intersect FilesOf(k)
          BY <3>2, <3>4, <4>2 DEF FilesOf
        <5> QED
          BY <2>1, <3>3, <4>1, <4>2, <5>1 DEF CapInv, NoNewLinking
      <4>3. CASE k = l
        <5> DEFINE A == accepted \intersect FilesOf(l)
        <5>1. accepted' \intersect FilesOf(l) = A \union {f}
          BY <3>2, <3>4 DEF FilesOf
        <5>2. /\ IsFiniteSet(A \union {f})
              /\ Cardinality(A \union {f}) <= Cardinality(A) + 1
          <6>1. IsFiniteSet(A) /\ Cardinality(A) \in Nat
            BY <4>1, <4>3, FS_CardinalityType DEF CapInv
          <6> HIDE DEF A
          <6>2. IsFiniteSet(A \union {f})
            BY <6>1, FS_AddElement
          <6>3. Cardinality(A \union {f}) =
                  IF f \in A THEN Cardinality(A) ELSE Cardinality(A) + 1
            BY <6>1, FS_AddElement
          <6> QED
            BY <6>1, <6>2, <6>3
        <5>3. Cardinality(A) \in Nat /\ Cardinality(A) <= link[l].uploads
              /\ Cardinality(A \union {f}) \in Nat
          BY <4>1, <4>3, <5>2, FS_CardinalityType DEF CapInv
        <5> HIDE DEF A
        <5>4. /\ IsFiniteSet(accepted' \intersect FilesOf(l)')
              /\ Cardinality(accepted' \intersect FilesOf(l)') <= link'[l].uploads
          BY <3>3, <4>1, <4>3, <5>1, <5>2, <5>3
        <5>5. link'[l].max > 0 => link'[l].uploads <= link'[l].max
          BY <3>2, <3>3 DEF Countable
        <5> QED
          BY <2>1, <3>3, <4>1, <4>3, <5>4, <5>5 DEF CapInv, NoNewLinking
      <4> QED
        BY <4>2, <4>3
    <3> QED
      BY <3>3, <3>5 DEF CapsInv
  <2> QED
    BY <1>2, <2>2, <2>3 DEF IncrementReceiveLinkUploads
<1>3. ASSUME NEW p \in Requests, SaveReceiveLink(p)
      PROVE  CapsInv' /\ link' \in [Links -> Link]
  <2>1. OthersStay(p) /\ req'[p] = Idle
    BY <1>0, <1>3, FinishStep DEF SaveReceiveLink
  <2>2. NoNewLinking
    BY <2>1 DEF OthersStay, NoNewLinking, Idle
  <2>3. UNCHANGED <<file, accepted>>
    BY <1>3 DEF SaveReceiveLink, receivedFiles, answers
  <2>4. CASE UNCHANGED link
    BY <1>0, <2>2, <2>3, <2>4 DEF CapsInv, CapInv, NoNewLinking, FilesOf
  <2>5. ASSUME NEW max \in Caps, NEW auto \in BOOLEAN, NEW l \in Links, l = req[p].link,
               link' = [link EXCEPT ![l] = [NewLink EXCEPT !.state = "live",
                                              !.max = max, !.auto = auto]]
        PROVE  CapsInv' /\ link' \in [Links -> Link]
    <3>1. /\ link' \in [Links -> Link] /\ link'[l].uploads = 0 /\ link'[l].max \in Int
          /\ link'[l].state = "live" /\ \A k \in Links \ {l} : link'[k] = link[k]
      BY <1>0, <2>5, ReceiveConstants DEF NewLink
    <3>0. req[p].pc = "linking" /\ CapInv(l)
      BY <1>3 DEF CapsInv, SaveReceiveLink
    <3>2. link[l].state = "new" /\ FilesOf(l) = {}
      BY <2>5, <3>0 DEF CapInv
    <3>3. \A q \in Requests : ~(req'[q].pc = "linking" /\ req'[q].link = l)
      <4>1. \A q \in Requests : req[q].pc = "linking" /\ req[q].link = l => q = p
        BY <2>5, <3>0 DEF CapInv
      <4>2. req'[p].pc = "idle"
        BY <2>1 DEF Idle
      <4> QED
        BY <2>1, <4>1, <4>2 DEF OthersStay
    <3>4. ASSUME NEW k \in Links PROVE CapInv(k)'
      <4>1. FilesOf(k)' = FilesOf(k) /\ CapInv(k)
        BY <2>3 DEF FilesOf, CapsInv
      <4>2. CASE k = l
        <5>1. /\ accepted' \intersect FilesOf(k)' = {}
              /\ link'[k].uploads = 0 /\ link'[k].max \in Int /\ link'[k].state = "live"
          BY <3>1, <3>2, <4>1, <4>2
        <5>2. /\ IsFiniteSet(accepted' \intersect FilesOf(k)')
              /\ Cardinality(accepted' \intersect FilesOf(k)') <= link'[k].uploads
          BY <5>1, FS_EmptySet
        <5> QED
          BY <3>3, <4>2, <5>1, <5>2 DEF CapInv
      <4>3. CASE k # l
        BY <2>2, <2>3, <3>1, <4>1, <4>3 DEF CapInv, NoNewLinking
      <4> QED
        BY <4>2, <4>3
    <3> QED
      BY <3>1, <3>4 DEF CapsInv
  <2>6. req[p].link \in Links
    BY <1>0, <1>3 DEF SaveReceiveLink, RequestsOK
  <2> QED
    BY <1>3, <2>4, <2>5, <2>6 DEF SaveReceiveLink
<1>4. ASSUME NEW p \in Requests, NEW l \in Links, MakeLinkDir(p, l)
      PROVE  CapsInv' /\ link' \in [Links -> Link]
  <2>1. OthersStay(p) /\ req'[p].link = l
    BY <1>0, <1>4, StartStep DEF MakeLinkDir, PCs, UploadPCs, BeforeShare
  <2>2. /\ UNCHANGED <<file, accepted, link>> /\ link[l].state = "new"
        /\ \A q \in Requests : req[q].link # l
    BY <1>4 DEF MakeLinkDir, receivedFiles, answers
  <2> QED
    BY <1>0, <2>1, <2>2 DEF CapsInv, CapInv, OthersStay, FilesOf
<1>5. ASSUME CountsKept, UNCHANGED <<file, accepted>>, NoNewLinking
      PROVE  CapsInv' /\ link' \in [Links -> Link]
  <2>1. ASSUME NEW k \in Links PROVE CapInv(k)'
    <3>1. FilesOf(k)' = FilesOf(k) /\ accepted' = accepted /\ CapInv(k)
      BY <1>5 DEF FilesOf, CapsInv
    <3>2. /\ link'[k].uploads = link[k].uploads /\ link'[k].max = link[k].max
          /\ link'[k].state = "new" <=> link[k].state = "new"
      BY <1>5 DEF CountsKept
    <3>3. \A q \in Requests : req'[q].pc = "linking" => req'[q] = req[q]
      BY <1>5 DEF NoNewLinking
    <3> QED
      BY <3>1, <3>2, <3>3 DEF CapInv
  <2> QED
    BY <1>5, <2>1 DEF CountsKept, CapsInv
<1>6. CountsKept \/ (CapsInv' /\ link' \in [Links -> Link])
  BY <1>2, <1>3, CountsStep
<1>7. UNCHANGED <<file, accepted>> \/ (CapsInv' /\ link' \in [Links -> Link])
  BY <1>1, <1>2, FilesAndAnswers
<1>8. NoNewLinking \/ (CapsInv' /\ link' \in [Links -> Link])
  BY <1>4, LinkingStep
<1> QED
  BY <1>5, <1>6, <1>7, <1>8

-----------------------------------------------------------------------------
LEMMA InitInv == Init => IInv
<1> SUFFICES ASSUME Init PROVE IInv
  OBVIOUS
<1>1. Shapes
  BY IdleRequest DEF Init, Shapes, RequestsOK, Idle, UploadPCs, BeforeShare, NewLink, Link
<1>2. FilesInv
  BY ReceiveConstants DEF Init, FilesInv, FileInv, Nowhere, Idle
<1>3. EmptiedInv
  BY DEF Init, EmptiedInv, NoSweep, Idle
<1>4. ASSUME NEW l \in Links PROVE CapInv(l)
  <2>1. FilesOf(l) = {} /\ accepted \intersect FilesOf(l) = {}
    BY ReceiveConstants DEF Init, FilesOf
  <2>2. IsFiniteSet({}) /\ Cardinality({}) = 0
    BY FS_EmptySet
  <2> QED
    BY <2>1, <2>2 DEF Init, CapInv, NewLink, Idle
<1> QED
  BY <1>1, <1>2, <1>3, <1>4 DEF IInv, CapsInv

LEMMA InvStep == IInv /\ [Next]_vars => IInv'
<1> SUFFICES ASSUME IInv, [Next]_vars PROVE IInv'
  OBVIOUS
<1>1. FilesOK /\ CapsInv' /\ link' \in [Links -> Link]
  BY FilesStep, CapsStep DEF IInv
<1>2. faults' \in Nat
  BY FilesAndAnswers DEF IInv, Shapes
<1>3. file' \in [Files -> [link : Links \union {NoLink}, size : Nat]]
  <2>1. ASSUME NEW p \in Requests, NEW l \in Links, NEW f \in Files, Admit(p, l, f)
        PROVE  file' \in [Files -> [link : Links \union {NoLink}, size : Nat]]
    BY <2>1, ReceiveConstants DEF Admit, IInv, Shapes
  <2> QED
    BY <2>1, FilesAndAnswers DEF IInv, Shapes
<1> QED
  BY <1>1, <1>2, <1>3 DEF IInv, FilesOK, Shapes

\* However many uploads pass the first look at the cap, the conditional UPDATE
\* of upload_count accepts at most max_uploads of them.
THEOREM CapHolds == Spec => []CapHonoured
<1>1. IInv => CapHonoured
  <2> SUFFICES ASSUME IInv, NEW l \in Links, link[l].max > 0
               PROVE  Cardinality(accepted \intersect FilesOf(l)) <= link[l].max
    BY DEF CapHonoured
  <2>1. CapInv(l) /\ link[l].max \in Int /\ link[l].uploads \in Nat
    BY DEF IInv, CapsInv, Shapes, Link
  <2>2. Cardinality(accepted \intersect FilesOf(l)) \in Nat
    BY <2>1, FS_CardinalityType DEF CapInv
  <2> QED
    BY <2>1, <2>2 DEF CapInv
<1> QED
  BY <1>1, InitInv, InvStep, PTL DEF Spec

\* An upload that was answered with an error leaves no file, row, share or shared
\* copy, whatever ran at the same time, if no statement of its roll-back failed
\* and the process did not die.
THEOREM RefusalIsClean == Spec => []RefusedLeavesNothing
<1>1. IInv => RefusedLeavesNothing
  <2> SUFFICES ASSUME IInv, faults = 0, NEW f \in refused
               PROVE  Nowhere(f)
    BY DEF RefusedLeavesNothing, Nowhere
  <2> QED
    BY DEF IInv, FilesInv, FileInv
<1> QED
  BY <1>1, InitInv, InvStep, PTL DEF Spec

\* An upload that was answered with success keeps its row until its link is removed,
\* also across crashes and failed statements, and its file until the link or, when a
\* folder share expires, the uploads directory is removed.
THEOREM AcceptanceIsKept == Spec => []AcceptedIsKept
<1>1. IInv => AcceptedIsKept
  BY DEF IInv, FilesInv, FileInv, AcceptedIsKept
<1> QED
  BY <1>1, InitInv, InvStep, PTL DEF Spec

-----------------------------------------------------------------------------
(* Directories. Whoever is about to drop the row of a link has removed its    *)
(* directory, unless a file came in between.                                  *)

Removing == {"emptying", "removing", "deleting"}

\* A link somebody removes was created once, so its directory is not made again
Targeted(l) ==
    l \in sweep.all \/ \E p \in Requests : req[p].pc \in Removing /\ req[p].link = l

\* Its row is gone, or the next thing to go
Doomed(l) ==
    \/ link[l].state = "gone"
    \/ l \in sweep.all \ sweep.remove
    \/ \E p \in Requests : req[p].pc = "deleting" /\ req[p].link = l

TargetsInv ==
    /\ expired \subseteq Links
    /\ sweep.remove \subseteq sweep.all /\ sweep.all \subseteq Links
    /\ \A l \in Links : Targeted(l) => link[l].state # "new"
EmptyInv == \A l \in Links : l \in emptied \ overrun => disk \intersect FilesOf(l) = {}
GoneInv == \A l \in Links : Doomed(l) => l \in overrun \/ l \notin dirs

LEMMA RemoversStep ==
    ASSUME IInv, [Next]_vars, NEW q \in Requests, req'[q].pc \in Removing
    PROVE  \/ req[q].pc \in Removing /\ req'[q].link = req[q].link
           \/ link[req'[q].link].state = "live"
<1> USE DEF Removing
<1>0. RequestsOK(req)
  BY DEF IInv, Shapes
<1>1. ASSUME NEW p \in Requests, Upload(p) PROVE req'[q] = req[q]
  BY <1>1, UploadSteps DEF IInv, UploadOK, OthersStay, UploadPCs, BeforeShare
<1>2. ASSUME NEW p \in Requests, NEW l \in Links, MakeLinkDir(p, l) PROVE req'[q] = req[q]
  <2>1. OthersStay(p) /\ req'[p].pc = "linking"
    BY <1>0, <1>2, StartStep DEF MakeLinkDir, PCs, UploadPCs, BeforeShare
  <2> QED
    BY <2>1 DEF OthersStay
<1>3. ASSUME NEW p \in Requests, NEW l \in Links, BeginDelete(p, l)
      PROVE  req'[q] = req[q] \/ link[req'[q].link].state = "live"
  <2>1. OthersStay(p) /\ req'[p].link = l /\ link[l].state = "live"
    BY <1>0, <1>3, StartStep DEF BeginDelete, Visible, PCs, UploadPCs, BeforeShare
  <2> QED
    BY <2>1 DEF OthersStay
<1>4. ASSUME NEW p \in Requests, SaveReceiveLink(p) \/ DeleteReceiveLink(p)
      PROVE  req'[q] = req[q]
  <2>1. OthersStay(p) /\ req'[p] = Idle
    BY <1>0, <1>4, FinishStep DEF SaveReceiveLink, DeleteReceiveLink
  <2> QED
    BY <2>1 DEF OthersStay, Idle
<1>5. ASSUME NEW p \in Requests, EmptyLinkDir(p) \/ RemoveLinkDir(p)
      PROVE  req'[q].link = req[q].link /\ req[q].pc \in Removing
  <2>1. OthersStay(p) /\ req[p].pc \in Removing /\ req'[p].link = req[p].link
    BY <1>0, <1>5, GotoStep DEF EmptyLinkDir, RemoveLinkDir, PCs, UploadPCs, BeforeShare
  <2> QED
    BY <2>1 DEF OthersStay
<1>6. CASE Restart
  BY <1>6 DEF Restart, Idle
<1>7. CASE UNCHANGED req
  BY <1>7
<1> QED
  BY <1>1, <1>2, <1>3, <1>4, <1>5, <1>6, <1>7
     DEF Next, Manage, Sweep, DeleteShare, Expire, EmptyUploads, RemoveUploads, SweepSelect,
         SweepEmpty, SweepRemove, SweepDrop, vars

\* The sweep only moves on with what it selected, or selects anew.
SweepGoesOn ==
    /\ sweep'.remove \subseteq sweep'.all
    /\ \/ sweep'.all = sweep.all /\ sweep.remove \subseteq sweep'.remove
       \/ sweep'.all = sweep'.remove /\ sweep'.all \subseteq ExpiredLinks
       \/ \E l \in Links : /\ SweepRemove(l)
                           /\ sweep'.all = sweep.all /\ sweep'.remove = sweep.remove \ {l}

LEMMA SweepStep ==
    ASSUME IInv, TargetsInv, [Next]_vars
    PROVE  SweepGoesOn
<1>0. DOMAIN sweep = {"turn", "empty", "remove", "all"} /\ sweep.remove \subseteq sweep.all
  BY DEF IInv, EmptiedInv, TargetsInv
<1>1. CASE UNCHANGED sweep
  BY <1>0, <1>1 DEF SweepGoesOn
<1>2. CASE SweepSelect
  BY <1>2 DEF SweepSelect, NoSweep, SweepGoesOn
<1>3. ASSUME NEW l \in Links, SweepEmpty(l) PROVE SweepGoesOn
  <2>1. sweep' = [sweep EXCEPT !.empty = @ \ {l}]
    BY <1>3 DEF SweepEmpty
  <2>2. sweep'.all = sweep.all /\ sweep'.remove = sweep.remove
    BY <1>0, <2>1
  <2> QED
    BY <1>0, <2>2 DEF SweepGoesOn
<1>4. ASSUME NEW l \in Links, SweepRemove(l) PROVE SweepGoesOn
  <2>1. sweep' = [sweep EXCEPT !.remove = @ \ {l}]
    BY <1>4 DEF SweepRemove
  <2>2. sweep'.all = sweep.all /\ sweep'.remove = sweep.remove \ {l}
    BY <1>0, <2>1
  <2> QED
    BY <1>0, <1>4, <2>2 DEF SweepGoesOn
<1>5. CASE SweepDrop \/ Restart
  BY <1>5 DEF SweepDrop, Restart, NoSweep, SweepGoesOn
<1>6. ASSUME NEW p \in Requests, Upload(p) \/ Manage(p) PROVE UNCHANGED sweep
  BY <1>6 DEF Upload, Manage, Admit, SumShares, CheckQuota, StoreFile, StoreFails,
     CopyToShare, SkipShare, SaveShare, SaveReceivedFile, IncrementReceiveLinkUploads,
     UndoFile, UndoShareFile, UndoShareRow, UndoRow, MakeLinkDir, BeginDelete,
     SaveReceiveLink, EmptyLinkDir, RemoveLinkDir, DeleteReceiveLink
<1>7. CASE EmptyUploads \/ RemoveUploads
  <2>1. \E t : sweep' = [sweep EXCEPT !.turn = t]
    BY <1>7 DEF EmptyUploads, RemoveUploads
  <2>2. sweep'.all = sweep.all /\ sweep'.remove = sweep.remove
    BY <1>0, <2>1
  <2> QED
    BY <1>0, <2>2 DEF SweepGoesOn
<1> QED
  BY <1>1, <1>2, <1>3, <1>4, <1>5, <1>6, <1>7 DEF Next, Sweep, DeleteShare, Expire, vars

LEMMA NewIsOnce ==
    ASSUME IInv, [Next]_vars, NEW l \in Links, link[l].state # "new"
    PROVE  link'[l].state # "new"
<1>0. link \in [Links -> Link] /\ RequestsOK(req)
  BY DEF IInv, Shapes
<1>1. CASE CountsKept
  BY <1>1 DEF CountsKept
<1>2. ASSUME NEW p \in Requests, SaveReceiveLink(p) PROVE link'[l].state # "new"
  BY <1>0, <1>2 DEF SaveReceiveLink, NewLink
<1>3. ASSUME NEW p \in Requests, IncrementReceiveLinkUploads(p)
      PROVE  link'[l].state # "new"
  BY <1>0, <1>3 DEF IncrementReceiveLinkUploads, Link
<1> QED
  BY <1>1, <1>2, <1>3, CountsStep DEF IInv

LEMMA TargetsStep ==
    ASSUME IInv, TargetsInv, [Next]_vars
    PROVE  TargetsInv'
<1>1. SweepGoesOn
  BY SweepStep
<1>2. sweep'.remove \subseteq sweep'.all /\ sweep'.all \subseteq sweep.all \union ExpiredLinks
  BY <1>1 DEF SweepGoesOn
<1>3. \A l \in ExpiredLinks : l \in expired /\ link[l].state = "live"
  BY DEF ExpiredLinks
<1>4. ExpiredLinks \subseteq Links
  BY DEF ExpiredLinks, TargetsInv
<1>6. expired' \subseteq Links
  <2>1. ASSUME NEW p \in Requests, Upload(p) \/ Manage(p) PROVE UNCHANGED expired
    BY <2>1 DEF Upload, Manage, Admit, SumShares, CheckQuota, StoreFile, StoreFails,
       CopyToShare, SkipShare, SaveShare, SaveReceivedFile, IncrementReceiveLinkUploads,
       UndoFile, UndoShareFile, UndoShareRow, UndoRow, MakeLinkDir, BeginDelete,
       SaveReceiveLink, EmptyLinkDir, RemoveLinkDir, DeleteReceiveLink
  <2>2. ASSUME NEW l \in Links, Expire(l) PROVE expired' = expired \union {l}
    BY <2>2 DEF Expire
  <2>3. CASE EmptyUploads \/ Sweep \/ (\E f \in Files : DeleteShare(f))
             \/ Restart \/ UNCHANGED vars
    BY <2>3 DEF Sweep, DeleteShare, EmptyUploads, RemoveUploads, SweepSelect, SweepEmpty,
       SweepRemove, SweepDrop, Restart, vars, TargetsInv
  <2> QED
    BY <2>1, <2>2, <2>3 DEF Next, TargetsInv
<1>5. ASSUME NEW l \in Links, Targeted(l)' PROVE link'[l].state # "new"
  <2>1. Targeted(l) \/ link[l].state = "live"
    <3>1. CASE l \in sweep'.all
      BY <1>2, <1>3, <3>1 DEF Targeted
    <3>2. ASSUME NEW p \in Requests, req'[p].pc \in Removing, req'[p].link = l
          PROVE  Targeted(l) \/ link[l].state = "live"
      BY <3>2, RemoversStep DEF Targeted
    <3> QED
      BY <1>5, <3>1, <3>2 DEF Targeted
  <2>2. link[l].state # "new"
    BY <2>1 DEF TargetsInv
  <2> QED
    BY <2>2, NewIsOnce
<1> QED
  BY <1>2, <1>4, <1>5, <1>6 DEF TargetsInv

\* What the steps do to the files of links that were emptied.
LEMMA DiskStep ==
    ASSUME [Next]_vars
    PROVE  /\ overrun \subseteq overrun'
           /\ \/ disk' \subseteq disk /\ UNCHANGED <<file, emptied>>
              \/ \E p \in Requests, l \in Links, f \in Files : Admit(p, l, f)
              \/ \E p \in Requests : StoreFile(p)
              \/ \E p \in Requests : EmptyLinkDir(p)
              \/ \E l \in Links : SweepEmpty(l)
<1>1. ASSUME NEW p \in Requests, StoreFile(p) PROVE overrun \subseteq overrun'
  BY <1>1 DEF StoreFile
<1>2. ASSUME NEW p \in Requests, Upload(p), ~StoreFile(p)
      PROVE  /\ UNCHANGED overrun
             /\ \/ disk' \subseteq disk /\ UNCHANGED <<file, emptied>>
                \/ \E l \in Links, f \in Files : Admit(p, l, f)
  BY <1>2 DEF Upload, Admit, SumShares, CheckQuota, StoreFails, CopyToShare, SkipShare,
     SaveShare, SaveReceivedFile, IncrementReceiveLinkUploads, UndoFile, UndoShareFile,
     UndoShareRow, UndoRow, history, receivedFiles
<1>3. ASSUME NEW p \in Requests, Manage(p)
      PROVE  /\ UNCHANGED overrun
             /\ (disk' \subseteq disk /\ UNCHANGED <<file, emptied>>) \/ EmptyLinkDir(p)
  BY <1>3 DEF Manage, MakeLinkDir, BeginDelete, SaveReceiveLink, EmptyLinkDir, RemoveLinkDir,
     DeleteReceiveLink, history, receivedFiles
<1>4. CASE EmptyUploads \/ Sweep \/ (\E f \in Files : DeleteShare(f))
           \/ (\E l \in Links : Expire(l))
           \/ Restart \/ UNCHANGED vars
  BY <1>4 DEF Sweep, DeleteShare, EmptyUploads, RemoveUploads, SweepSelect, SweepEmpty,
     SweepRemove, SweepDrop, Restart, Expire, vars, history, receivedFiles
<1> QED
  BY <1>1, <1>2, <1>3, <1>4 DEF Next

LEMMA EmptyStep ==
    ASSUME IInv, EmptyInv, [Next]_vars
    PROVE  EmptyInv'
<1>0. overrun \subseteq overrun'
  BY DiskStep
<1>1. CASE disk' \subseteq disk /\ UNCHANGED <<file, emptied>>
  BY <1>0, <1>1 DEF EmptyInv, FilesOf
<1>2. ASSUME NEW p \in Requests, NEW l \in Links, NEW f \in Files, Admit(p, l, f)
      PROVE  EmptyInv'
  <2>1. /\ UNCHANGED <<disk, emptied>> /\ f \notin disk
        /\ \A g \in Files \ {f} : file'[g] = file[g]
    BY <1>2 DEF Admit, IInv, FilesInv, FileInv, Nowhere, Shapes
  <2> QED
    BY <1>0, <2>1 DEF EmptyInv, FilesOf
<1>3. ASSUME NEW p \in Requests, StoreFile(p) PROVE EmptyInv'
  <2> DEFINE l == req[p].link
             f == req[p].file
  <2>1. f \in Files /\ file[f].link = l
    BY <1>3 DEF StoreFile, IInv, Shapes, RequestsOK, FilesInv, FileInv, UploadPCs, BeforeShare
  <2>2. UNCHANGED <<file, emptied>>
    BY <1>3 DEF StoreFile
  <2>3. disk' \subseteq disk \/ (disk' = disk \union {f} /\ (l \in emptied => l \in overrun'))
    BY <1>3 DEF StoreFile
  <2> QED
    BY <1>0, <2>1, <2>2, <2>3 DEF EmptyInv, FilesOf
<1>4. ASSUME NEW l, EmptyDir(l), UNCHANGED <<file, overrun>> PROVE EmptyInv'
  BY <1>4 DEF EmptyInv, EmptyDir, FilesOf
<1>5. ASSUME NEW p \in Requests, EmptyLinkDir(p) PROVE EmptyInv'
  BY <1>4, <1>5 DEF EmptyLinkDir
<1>6. ASSUME NEW l \in Links, SweepEmpty(l) PROVE EmptyInv'
  BY <1>4, <1>6 DEF SweepEmpty
<1> QED
  BY <1>1, <1>2, <1>3, <1>5, <1>6, DiskStep

\* A directory is made for a new link only.
LEMMA DirStep ==
    ASSUME IInv, [Next]_vars, NEW l \in Links, l \in dirs', l \notin dirs
    PROVE  link[l].state = "new" /\ link' = link
<1>1. ASSUME NEW p \in Requests, NEW k \in Links, MakeLinkDir(p, k)
      PROVE  link[l].state = "new" /\ link' = link
  BY <1>1 DEF MakeLinkDir
<1>2. ASSUME NEW p \in Requests, Upload(p) PROVE UNCHANGED dirs
  BY <1>2 DEF Upload, Admit, SumShares, CheckQuota, StoreFile, StoreFails, CopyToShare,
     SkipShare, SaveShare, SaveReceivedFile, IncrementReceiveLinkUploads, UndoFile,
     UndoShareFile, UndoShareRow, UndoRow
<1>3. ASSUME NEW p \in Requests, Manage(p), \A k \in Links : ~MakeLinkDir(p, k)
      PROVE  dirs' \subseteq dirs
  BY <1>3 DEF Manage, BeginDelete, SaveReceiveLink, EmptyLinkDir, RemoveLinkDir,
     DeleteReceiveLink, RemoveDir
<1>4. CASE EmptyUploads \/ Sweep \/ (\E f \in Files : DeleteShare(f))
           \/ (\E k \in Links : Expire(k))
           \/ Restart \/ UNCHANGED vars
  BY <1>4 DEF Sweep, DeleteShare, EmptyUploads, RemoveUploads, SweepSelect, SweepEmpty,
     SweepRemove, SweepDrop, Restart, Expire, vars, RemoveDir
<1> QED
  BY <1>1, <1>2, <1>3, <1>4 DEF Next

\* A link is doomed by those who remove its directory.
LEMMA DoomStep ==
    ASSUME IInv, TargetsInv, [Next]_vars, NEW l \in Links, Doomed(l)'
    PROVE  \/ Doomed(l)
           \/ \E p \in Requests : RemoveLinkDir(p) /\ req[p].link = l
           \/ SweepRemove(l)
<1>0. link \in [Links -> Link] /\ RequestsOK(req)
  BY DEF IInv, Shapes
<1>1. CASE link'[l].state = "gone"
  <2>1. ASSUME NEW p \in Requests, DeleteReceiveLink(p) PROVE Doomed(l)
    <3>1. req[p].pc = "deleting" /\ (link' = link \/ DropLinks({req[p].link}))
      BY <2>1 DEF DeleteReceiveLink
    <3> QED
      BY <1>0, <1>1, <3>1 DEF DropLinks, Doomed
  <2>2. CASE SweepDrop
    <3>1. sweep.remove = {} /\ (link' = link \/ DropLinks(sweep.all))
      BY <2>2 DEF SweepDrop, Swept
    <3> QED
      BY <1>0, <1>1, <3>1 DEF DropLinks, Doomed
  <2>3. ASSUME NEW p \in Requests, SaveReceiveLink(p) PROVE Doomed(l)
    BY <1>0, <1>1, <2>3 DEF SaveReceiveLink, NewLink, Doomed
  <2>4. ASSUME NEW p \in Requests, SaveReceivedFile(p) \/ IncrementReceiveLinkUploads(p)
               \/ UndoRow(p)
        PROVE  Doomed(l)
    <3>1. \/ link' = link
          \/ \E k, n : link' = [link EXCEPT ![k].total = n]
          \/ \E k, n : link' = [link EXCEPT ![k].uploads = n]
      BY <2>4 DEF SaveReceivedFile, IncrementReceiveLinkUploads, UndoRow
    <3>2. link'[l].state = link[l].state
      BY <1>0, <3>1 DEF Link
    <3> QED
      BY <1>1, <3>2 DEF Doomed
  <2>5. CASE UNCHANGED link
    BY <1>1, <2>5 DEF Doomed
  <2> QED
    BY <2>1, <2>2, <2>3, <2>4, <2>5 DEF Next, Upload, Manage, Sweep, Admit, SumShares,
       CheckQuota, StoreFile, StoreFails, CopyToShare, SkipShare, SaveShare, UndoFile,
       UndoShareFile, UndoShareRow, MakeLinkDir, BeginDelete, EmptyLinkDir, RemoveLinkDir,
       DeleteShare, Expire, EmptyUploads, RemoveUploads, SweepSelect, SweepEmpty,
          SweepRemove, Restart, vars
<1>2. CASE l \in sweep'.all \ sweep'.remove
  BY <1>2, SweepStep DEF SweepGoesOn, Doomed
<1>3. ASSUME NEW q \in Requests, req'[q].pc = "deleting", req'[q].link = l
      PROVE  Doomed(l) \/ (RemoveLinkDir(q) /\ req[q].link = l)
  <2>1. ASSUME NEW p \in Requests, RemoveLinkDir(p)
        PROVE  Doomed(l) \/ (RemoveLinkDir(q) /\ req[q].link = l)
    <3>1. OthersStay(p) /\ req'[p].link = req[p].link
      BY <1>0, <2>1, GotoStep DEF RemoveLinkDir, PCs, UploadPCs, BeforeShare
    <3> QED
      BY <1>3, <2>1, <3>1 DEF OthersStay, Doomed
  <2>2. ASSUME NEW p \in Requests, Upload(p) PROVE Doomed(l)
    BY <1>3, <2>2, UploadSteps DEF IInv, UploadOK, OthersStay, UploadPCs, BeforeShare, Doomed
  <2>3. ASSUME NEW p \in Requests, Manage(p), ~RemoveLinkDir(p) PROVE Doomed(l)
    <3>1. OthersStay(p) /\ req'[p].pc # "deleting"
      <4>1. ASSUME NEW k \in Links, MakeLinkDir(p, k) \/ BeginDelete(p, k)
            PROVE  OthersStay(p) /\ req'[p].pc # "deleting"
        <5>1. PICK pc \in {"linking", "emptying"} : Start(p, pc, k, NoFile)
          BY <4>1 DEF MakeLinkDir, BeginDelete
        <5> QED
          BY <1>0, <5>1, StartStep DEF PCs, UploadPCs, BeforeShare
      <4>2. CASE SaveReceiveLink(p) \/ DeleteReceiveLink(p)
        <5>1. Finish(p)
          BY <4>2 DEF SaveReceiveLink, DeleteReceiveLink
        <5> QED
          BY <1>0, <5>1, FinishStep DEF Idle
      <4>3. CASE EmptyLinkDir(p)
        <5>1. Goto(p, "removing") /\ req[p].pc = "emptying"
          BY <4>3 DEF EmptyLinkDir
        <5> QED
          BY <1>0, <5>1, GotoStep DEF PCs, UploadPCs, BeforeShare
      <4> QED
        BY <2>3, <4>1, <4>2, <4>3 DEF Manage
    <3> QED
      BY <1>3, <3>1 DEF OthersStay, Doomed
  <2>4. CASE Restart
    BY <1>3, <2>4 DEF Restart, Idle
  <2>5. CASE UNCHANGED req
    BY <1>3, <2>5 DEF Doomed
  <2> QED
    BY <2>1, <2>2, <2>3, <2>4, <2>5 DEF Next, Sweep, DeleteShare, Expire, EmptyUploads,
       RemoveUploads, SweepSelect, SweepEmpty, SweepRemove, SweepDrop, vars
<1> QED
  BY <1>1, <1>2, <1>3 DEF Doomed

LEMMA GoneStep ==
    ASSUME IInv, TargetsInv, TargetsInv', EmptyInv, GoneInv, [Next]_vars
    PROVE  GoneInv'
<1> SUFFICES ASSUME NEW l \in Links, Doomed(l)', l \notin overrun' PROVE l \notin dirs'
  BY DEF GoneInv
<1>0. l \notin overrun
  BY DiskStep
<1>1. ASSUME RemoveDir(l), l \in emptied PROVE l \notin dirs'
  BY <1>0, <1>1 DEF RemoveDir, EmptyInv
<1>2. ASSUME NEW p \in Requests, RemoveLinkDir(p), req[p].link = l PROVE l \notin dirs'
  BY <1>1, <1>2 DEF RemoveLinkDir, IInv, EmptiedInv
<1>3. CASE SweepRemove(l)
  <2>1. l \in sweep.all \ sweep.empty /\ RemoveDir(l)
    BY <1>3 DEF SweepRemove, TargetsInv
  <2> QED
    BY <1>1, <2>1 DEF IInv, EmptiedInv
<1>4. CASE Doomed(l)
  <2>1. l \notin dirs
    BY <1>0, <1>4 DEF GoneInv
  <2> SUFFICES ASSUME l \in dirs' PROVE FALSE
    OBVIOUS
  <2>2. link[l].state = "new" /\ link' = link
    BY <2>1, DirStep
  <2>3. Targeted(l)'
    BY <2>2 DEF Doomed, Targeted, Removing
  <2> QED
    BY <2>2, <2>3 DEF TargetsInv
<1> QED
  BY <1>2, <1>3, <1>4, DoomStep

\* A link that is gone has no directory, whoever removed it and whatever expired or
\* was uploaded meanwhile, unless a file was stored after its directory was emptied:
\* also after failed statements and crashes, for any number of links and files.
THEOREM GoneIsGone == Spec => []GoneLinkLeavesNoDir
<1> DEFINE Inv == IInv /\ TargetsInv /\ EmptyInv /\ GoneInv
<1>1. Init => Inv
  <2> SUFFICES ASSUME Init PROVE TargetsInv /\ EmptyInv /\ GoneInv
    BY InitInv
  <2> QED
    BY DEF Init, TargetsInv, EmptyInv, GoneInv, Targeted, Doomed, NoSweep, Idle, NewLink,
       Removing
<1>2. Inv /\ [Next]_vars => Inv'
  BY InvStep, TargetsStep, EmptyStep, GoneStep
<1>3. Inv => GoneLinkLeavesNoDir
  BY DEF GoneInv, Doomed, GoneLinkLeavesNoDir
<1> QED
  BY <1>1, <1>2, <1>3, PTL DEF Spec

-----------------------------------------------------------------------------
(* Totals. The total of a link is the sum of the sizes of its rows; a link    *)
(* that is not live has none.                                                 *)

Size == [f \in Files |-> file[f].size]
Received(l) == rows \intersect FilesOf(l)

TotalInv(l) ==
    /\ IsFiniteSet(Received(l))
    /\ link[l].total = SumFunctionOnSet(Size, Received(l))
    /\ link[l].state # "live" => Received(l) = {}

TotalsInv == \A l \in Links : TotalInv(l)

\* The sums of the model, over records, are sums of functions.
LEMMA SumOfSizes ==
    ASSUME NEW t, NEW S
    PROVE  MapThenSumSet(LAMBDA f : t[f].size, S) = SumFunctionOnSet([f \in S |-> t[f].size], S)
<1> DEFINE s == [f \in S |-> t[f].size]
           AddsUp(g) == g = [T \in SUBSET S |->
                                IF T = {} THEN 0 ELSE t[AnyOf(T)].size + g[T \ {AnyOf(T)}]]
<1>1. \A g : AddsUp(g) <=> Sums(s, S, g)
  <2> SUFFICES ASSUME NEW T \in SUBSET S, T # {} PROVE s[AnyOf(T)] = t[AnyOf(T)].size
    BY DEF Sums
  <2> QED
    BY AnyIn
<1>2. MapThenSumSet(LAMBDA f : t[f].size, S) = (CHOOSE g : AddsUp(g))[S]
  BY DEF MapThenSumSet, MapThenFoldSet, AnyOf
<1> HIDE DEF s, AddsUp
<1>3. (CHOOSE g : AddsUp(g)) = (CHOOSE g : Sums(s, S, g))
  BY <1>1
<1> QED
  BY <1>2, <1>3, SumDef DEF s

LEMMA SumOfTotals ==
    ASSUME NEW t, NEW S
    PROVE  MapThenSumSet(LAMBDA l : t[l].total, S) = SumFunctionOnSet([l \in S |-> t[l].total], S)
<1> DEFINE s == [l \in S |-> t[l].total]
           AddsUp(g) == g = [T \in SUBSET S |->
                                IF T = {} THEN 0 ELSE t[AnyOf(T)].total + g[T \ {AnyOf(T)}]]
<1>1. \A g : AddsUp(g) <=> Sums(s, S, g)
  <2> SUFFICES ASSUME NEW T \in SUBSET S, T # {} PROVE s[AnyOf(T)] = t[AnyOf(T)].total
    BY DEF Sums
  <2> QED
    BY AnyIn
<1>2. MapThenSumSet(LAMBDA l : t[l].total, S) = (CHOOSE g : AddsUp(g))[S]
  BY DEF MapThenSumSet, MapThenFoldSet, AnyOf
<1> HIDE DEF s, AddsUp
<1>3. (CHOOSE g : AddsUp(g)) = (CHOOSE g : Sums(s, S, g))
  BY <1>1
<1> QED
  BY <1>2, <1>3, SumDef DEF s

LEMMA SizeIsNat ==
    ASSUME Shapes, NEW f \in Files
    PROVE  Size[f] \in Nat /\ Size[f] = file[f].size
  BY DEF Shapes, Size

LEMMA ReceivedAreFiles == \A l : Received(l) \subseteq Files
  BY DEF Received, FilesOf

\* Neither rows nor sizes nor links change, but for a counter.
TotalsKept ==
    /\ UNCHANGED <<rows, file>>
    /\ \A l \in Links : link'[l].total = link[l].total /\ link'[l].state = link[l].state

LEMMA TotalsKeptStep ==
    ASSUME TotalsInv, TotalsKept
    PROVE  TotalsInv'
  BY DEF TotalsInv, TotalsKept, TotalInv, Received, FilesOf, Size

LEMMA AdmitTotals ==
    ASSUME Shapes, FilesInv, TotalsInv, NEW p \in Requests, NEW l \in Links, NEW f \in Files,
           Admit(p, l, f)
    PROVE  TotalsInv'
<1>1. PICK n \in Sizes : file' = [file EXCEPT ![f] = [link |-> l, size |-> n]]
  BY DEF Admit
<1>2. f \notin rows /\ UNCHANGED <<rows, link>>
  BY DEF Admit, FilesInv, FileInv, Nowhere
<1>3. \A g \in Files \ {f} : file'[g] = file[g]
  BY <1>1 DEF Shapes
<1>4. ASSUME NEW k \in Links PROVE TotalInv(k)'
  <2>1. TotalInv(k) /\ Received(k) \subseteq Files
    BY ReceivedAreFiles DEF TotalsInv
  <2>2. Received(k)' = Received(k) /\ f \notin Received(k)
    BY <1>2, <1>3 DEF Received, FilesOf
  <2>3. \A g \in Received(k) : Size[g] = Size'[g]
    BY <1>3, <2>1, <2>2 DEF Size
  <2>4. SumFunctionOnSet(Size, Received(k)) = SumFunctionOnSet(Size', Received(k))
    BY <2>1, <2>3, SumOfSame DEF TotalInv
  <2> QED
    BY <1>2, <2>1, <2>2, <2>4 DEF TotalInv
<1> QED
  BY <1>4 DEF TotalsInv

\* A row more, or a row less, and the link's total with it
LEMMA RowTotals ==
    ASSUME Shapes, TotalsInv, NEW l \in Links, NEW f \in Files, file[f].link = l,
           UNCHANGED file, NEW n,
           link' = [link EXCEPT ![l].total = n],
           \/ /\ f \notin rows /\ rows' = rows \union {f} /\ link[l].state = "live"
              /\ n = link[l].total + file[f].size
           \/ /\ f \in rows /\ rows' = rows \ {f}
              /\ n = Max({0, link[l].total - file[f].size})
    PROVE  TotalsInv'
<1>1. /\ TotalInv(l) /\ Size[f] \in Nat /\ Size[f] = file[f].size /\ link \in [Links -> Link]
      /\ Received(l) \subseteq Files /\ \A g \in Files : Size[g] \in Nat
  BY SizeIsNat, ReceivedAreFiles DEF TotalsInv, Shapes
<1>2. link[l].total \in Nat /\ link[l].total = SumFunctionOnSet(Size, Received(l))
  BY <1>1 DEF TotalInv, Link
<1>3. link'[l].total = n /\ link'[l].state = link[l].state
  BY <1>1 DEF Link
<1>4. Size' = Size
  BY DEF Size
<1>5. CASE f \notin rows /\ rows' = rows \union {f} /\ link[l].state = "live"
           /\ n = link[l].total + file[f].size
  <2>1. f \notin Received(l) /\ Received(l)' = Received(l) \union {f}
    BY <1>5 DEF Received, FilesOf
  <2>2. IsFiniteSet(Received(l)')
    BY <1>1, <2>1, FS_AddElement DEF TotalInv
  <2>3. SumFunctionOnSet(Size, Received(l) \union {f})
            = SumFunctionOnSet(Size, Received(l)) + Size[f]
    <3>1. \A g \in Received(l) \union {f} : Size[g] \in Int
      BY <1>1
    <3> QED
      BY <1>1, <2>1, <3>1, SumTakesIn DEF TotalInv
  <2> QED
    <3>1. TotalInv(l)'
      BY <1>1, <1>2, <1>3, <1>4, <1>5, <2>1, <2>2, <2>3 DEF TotalInv
    <3>2. ASSUME NEW k \in Links, k # l PROVE TotalInv(k)'
      <4>1. Received(k)' = Received(k) /\ link'[k] = link[k] /\ TotalInv(k)
        BY <1>1, <1>5, <3>2 DEF Received, FilesOf, TotalsInv
      <4> QED
        BY <1>4, <4>1 DEF TotalInv
    <3> QED
      BY <3>1, <3>2 DEF TotalsInv
<1>6. CASE f \in rows /\ rows' = rows \ {f} /\ n = Max({0, link[l].total - file[f].size})
  <2>1. f \in Received(l) /\ Received(l)' = Received(l) \ {f}
    BY <1>6 DEF Received, FilesOf
  <2>2. IsFiniteSet(Received(l)')
    BY <1>1, <2>1, FS_Subset DEF TotalInv
  <2>3. SumFunctionOnSet(Size, Received(l))
            = Size[f] + SumFunctionOnSet(Size, Received(l) \ {f})
    BY <1>1, <2>1, SumTakesOut DEF TotalInv
  <2>4. SumFunctionOnSet(Size, Received(l) \ {f}) \in Nat
    BY <1>1, <2>1, <2>2, SumIsNat
  <2>5. n = SumFunctionOnSet(Size, Received(l) \ {f})
    <3>1. link[l].total - file[f].size = SumFunctionOnSet(Size, Received(l) \ {f})
      BY <1>1, <1>2, <2>3, <2>4
    <3>2. link[l].total - file[f].size \in Nat
      BY <2>4, <3>1
    <3> QED
      BY <1>6, <3>1, <3>2, MaxOfNatural
  <2> QED
    <3>1. TotalInv(l)'
      BY <1>1, <1>3, <1>4, <2>1, <2>2, <2>5 DEF TotalInv
    <3>2. ASSUME NEW k \in Links, k # l PROVE TotalInv(k)'
      <4>1. Received(k)' = Received(k) /\ link'[k] = link[k] /\ TotalInv(k)
        BY <1>1, <1>6, <3>2 DEF Received, FilesOf, TotalsInv
      <4> QED
        BY <1>4, <4>1 DEF TotalInv
    <3> QED
      BY <3>1, <3>2 DEF TotalsInv
<1> QED
  BY <1>5, <1>6

\* With the row of a link the rows of its files go.
LEMMA DropTotals ==
    ASSUME Shapes, TotalsInv, NEW L, DropLinks(L), UNCHANGED file
    PROVE  TotalsInv'
<1>0. Size' = Size /\ link \in [Links -> Link]
  BY DEF Size, Shapes
<1>1. ASSUME NEW l \in Links, l \in L PROVE TotalInv(l)'
  <2>1. Received(l)' = {}
    <3>1. rows' = rows \ UNION {FilesOf(k) : k \in L} /\ FilesOf(l)' = FilesOf(l)
      BY DEF DropLinks, FilesOf
    <3>2. FilesOf(l) \in {FilesOf(k) : k \in L}
      BY <1>1
    <3> HIDE DEF Received
    <3>3. rows' \intersect FilesOf(l) = {}
      BY <3>1, <3>2, Zenon
    <3> QED
      BY <3>1, <3>3 DEF Received
  <2>2. link'[l].total = 0
    <3>1. CASE link[l].state = "live"
      BY <1>0, <1>1, <3>1 DEF DropLinks, Link
    <3>2. CASE link[l].state # "live"
      <4>1. link'[l] = link[l] /\ Received(l) = {} /\ TotalInv(l)
        BY <3>2 DEF DropLinks, TotalsInv, TotalInv
      <4> QED
        BY <4>1, SumOfNone DEF TotalInv
    <3> QED
      BY <3>1, <3>2
  <2> QED
    BY <2>1, <2>2, SumOfNone, FS_EmptySet DEF TotalInv
<1>2. ASSUME NEW l \in Links, l \notin L PROVE TotalInv(l)'
  <2>1. Received(l)' = Received(l)
    BY <1>2 DEF DropLinks, Received, FilesOf
  <2>2. link'[l] = link[l]
    BY <1>2 DEF DropLinks
  <2> QED
    BY <1>0, <2>1, <2>2 DEF TotalsInv, TotalInv
<1> QED
  BY <1>1, <1>2 DEF TotalsInv

LEMMA TotalsStep ==
    ASSUME IInv, TotalsInv, [Next]_vars
    PROVE  TotalsInv'
<1>0. Shapes /\ FilesInv /\ CapsInv /\ RequestsOK(req) /\ link \in [Links -> Link]
  BY DEF IInv, Shapes
<1>1. ASSUME NEW p \in Requests, NEW l \in Links, NEW f \in Files, Admit(p, l, f)
      PROVE  TotalsInv'
  BY <1>0, <1>1, AdmitTotals
<1>2. ASSUME NEW p \in Requests, req[p].pc \in UploadPCs
      PROVE  req[p].link \in Links /\ req[p].file \in Files
             /\ file[req[p].file].link = req[p].link /\ Progress(req[p], req[p].file)
  BY <1>0, <1>2, Steps DEF RequestsOK, FilesInv, FileInv
<1>3. ASSUME NEW p \in Requests, SaveReceivedFile(p) PROVE TotalsInv'
  <2>1. /\ req[p].link \in Links /\ req[p].file \in Files /\ file[req[p].file].link = req[p].link
        /\ req[p].file \notin rows /\ UNCHANGED file
    BY <1>2, <1>3 DEF SaveReceivedFile, UploadPCs, Progress
  <2>2. CASE UNCHANGED <<rows, link>>
    BY <2>1, <2>2, TotalsKeptStep DEF TotalsKept
  <2>3. CASE /\ link[req[p].link].state = "live" /\ rows' = rows \union {req[p].file}
             /\ link' = [link EXCEPT ![req[p].link].total = @ + file[req[p].file].size]
    BY <1>0, <2>1, <2>3, RowTotals
  <2> QED
    BY <1>3, <2>2, <2>3 DEF SaveReceivedFile
<1>4. ASSUME NEW p \in Requests, UndoRow(p) PROVE TotalsInv'
  <2>1. /\ req[p].link \in Links /\ req[p].file \in Files /\ file[req[p].file].link = req[p].link
        /\ UNCHANGED file
    BY <1>2, <1>4 DEF UndoRow, UploadPCs
  <2>2. CASE UNCHANGED <<rows, link>> \/ (req[p].file \notin rows /\ rows' = rows \ {req[p].file} /\ link' = link)
    <3>1. rows' = rows /\ link' = link
      BY <2>2
    <3> QED
      BY <2>1, <3>1, TotalsKeptStep DEF TotalsKept
  <2>3. CASE /\ req[p].file \in rows /\ rows' = rows \ {req[p].file}
             /\ link' = [link EXCEPT ![req[p].link].total =
                            Max({0, @ - file[req[p].file].size})]
    BY <1>0, <2>1, <2>3, RowTotals
  <2> QED
    BY <1>4, <2>2, <2>3 DEF UndoRow
<1>5. ASSUME NEW p \in Requests, DeleteReceiveLink(p) PROVE TotalsInv'
  BY <1>0, <1>5, DropTotals, TotalsKeptStep DEF DeleteReceiveLink, TotalsKept
<1>6. CASE SweepDrop
  BY <1>0, <1>6, DropTotals, TotalsKeptStep DEF SweepDrop, TotalsKept
<1>7. ASSUME NEW p \in Requests, IncrementReceiveLinkUploads(p) PROVE TotalsInv'
  <2>1. UNCHANGED <<rows, file>>
    BY <1>7 DEF IncrementReceiveLinkUploads, receivedFiles
  <2>2. \A l \in Links : link'[l].total = link[l].total /\ link'[l].state = link[l].state
    <3>1. CASE link' = [link EXCEPT ![req[p].link].uploads = @ + 1]
      BY <1>0, <3>1 DEF Link
    <3> QED
      BY <1>7, <3>1 DEF IncrementReceiveLinkUploads
  <2> QED
    BY <2>1, <2>2, TotalsKeptStep DEF TotalsKept
<1>8. ASSUME NEW p \in Requests, SaveReceiveLink(p) PROVE TotalsInv'
  <2> DEFINE l == req[p].link
  <2>1. l \in Links /\ req[p].pc = "linking" /\ UNCHANGED <<rows, file>>
    BY <1>0, <1>8 DEF SaveReceiveLink, RequestsOK, receivedFiles
  <2>2. FilesOf(l) = {}
    BY <1>0, <2>1 DEF CapsInv, CapInv
  <2>3. CASE UNCHANGED link
    BY <2>1, <2>3, TotalsKeptStep DEF TotalsKept
  <2>4. CASE \E max \in Caps, auto \in BOOLEAN :
                link' = [link EXCEPT ![l] = [NewLink EXCEPT !.state = "live",
                                                  !.max = max, !.auto = auto]]
    <3>1. PICK k \in Links : k = l
      BY <2>1
    <3>2. link'[k].total = 0 /\ \A m \in Links \ {k} : link'[m] = link[m]
      BY <1>0, <2>4, <3>1 DEF NewLink
    <3>3. Received(k)' = {} /\ \A m \in Links : Received(m)' = Received(m) /\ Size' = Size
      BY <2>1, <2>2, <3>1 DEF Received, FilesOf, Size
    <3>4. ASSUME NEW m \in Links PROVE TotalInv(m)'
      BY <3>2, <3>3, SumOfNone, FS_EmptySet DEF TotalsInv, TotalInv
    <3> QED
      BY <3>4 DEF TotalsInv
  <2> QED
    BY <1>8, <2>3, <2>4 DEF SaveReceiveLink
<1>9. ASSUME NEW p \in Requests,
             \/ SumShares(p) \/ CheckQuota(p) \/ StoreFile(p) \/ StoreFails(p)
             \/ CopyToShare(p) \/ SkipShare(p) \/ SaveShare(p)
             \/ UndoFile(p) \/ UndoShareFile(p) \/ UndoShareRow(p)
             \/ \E l \in Links : MakeLinkDir(p, l) \/ BeginDelete(p, l)
             \/ EmptyLinkDir(p) \/ RemoveLinkDir(p)
      PROVE  TotalsInv'
  <2>1. UNCHANGED <<link, rows, file>>
    BY <1>9 DEF SumShares, CheckQuota, StoreFile, StoreFails, CopyToShare, SkipShare,
       SaveShare, UndoFile, UndoShareFile, UndoShareRow, MakeLinkDir, BeginDelete,
       EmptyLinkDir, RemoveLinkDir, receivedFiles
  <2> QED
    BY <2>1, TotalsKeptStep DEF TotalsKept
<1>10. CASE \/ \E f \in Files : DeleteShare(f)
            \/ EmptyUploads \/ RemoveUploads \/ SweepSelect
            \/ \E l \in Links : Expire(l) \/ SweepEmpty(l) \/ SweepRemove(l)
            \/ Restart \/ UNCHANGED vars
  <2>1. UNCHANGED <<link, rows, file>>
    BY <1>10 DEF DeleteShare, EmptyUploads, RemoveUploads, SweepSelect, Expire, SweepEmpty,
       SweepRemove, Restart, vars, receivedFiles
  <2> QED
    BY <2>1, TotalsKeptStep DEF TotalsKept
<1> QED
  BY <1>1, <1>3, <1>4, <1>5, <1>6, <1>7, <1>8, <1>9, <1>10 DEF Next, Upload, Manage, Sweep

LEMMA TotalsInitially == Init => TotalsInv
<1> SUFFICES ASSUME Init, NEW l \in Links PROVE TotalInv(l)
  BY DEF TotalsInv
<1>1. Received(l) = {} /\ link[l].total = 0
  BY DEF Init, Received, NewLink
<1> QED
  BY <1>1, SumOfNone, FS_EmptySet DEF TotalInv

\* The total kept with a link is the sum of the sizes of its rows, in every state and
\* also after crashes: each transaction changes both, and the maximum with zero on
\* the way down never bites.
THEOREM TotalsAreSums == Spec => []TotalIsSum
<1>1. IInv /\ TotalsInv => TotalIsSum
  <2> SUFFICES ASSUME IInv, TotalsInv, NEW l \in Links
               PROVE  link[l].total = MapThenSumSet(LAMBDA f : file[f].size, Received(l))
    BY DEF TotalIsSum, Received
  <2>1. /\ TotalInv(l) /\ Received(l) \subseteq Files
    BY ReceivedAreFiles DEF TotalsInv
  <2> DEFINE s == [f \in Received(l) |-> file[f].size]
  <2>2. \A f \in Received(l) : Size[f] = s[f]
    BY <2>1 DEF Size
  <2> HIDE DEF s
  <2>3. SumFunctionOnSet(Size, Received(l)) = SumFunctionOnSet(s, Received(l))
    BY <2>1, <2>2, SumOfSame DEF TotalInv
  <2>4. MapThenSumSet(LAMBDA f : file[f].size, Received(l)) = SumFunctionOnSet(s, Received(l))
    BY SumOfSizes DEF s
  <2> QED
    BY <2>1, <2>3, <2>4 DEF TotalInv
<1>2. Init => IInv /\ TotalsInv
  BY InitInv, TotalsInitially
<1>3. IInv /\ TotalsInv /\ [Next]_vars => (IInv /\ TotalsInv)'
  BY InvStep, TotalsStep
<1> QED
  BY <1>1, <1>2, <1>3, PTL DEF Spec

-----------------------------------------------------------------------------
(* The quota. While uploads follow one another, the bytes of the links and    *)
(* those of the one upload that was let in are within it; only what happens   *)
(* between the check and the row matters, and nothing else adds bytes then.   *)

Totals == [l \in Links |-> link[l].total]
Held == SumFunctionOnSet(Totals, Links)
Reserved == {"admitted", "stored", "sharing", "recording"}

QuotaInv ==
    Quota > 0 /\ ~overlapped =>
        /\ Held <= Quota
        /\ \A p, q \in Requests : req[p].file # NoFile /\ req[q].file # NoFile => p = q
        /\ \A p \in Requests :
              req[p].pc \in Reserved => Held + file[req[p].file].size <= Quota

LEMMA HeldIsNat == ASSUME Shapes PROVE Held \in Nat
<1>1. \A l \in Links : Totals[l] \in Nat
  BY DEF Shapes, Link, Totals
<1> QED
  BY <1>1, ReceiveConstants, SumIsNat DEF Held

LEMMA ReservedSteps == Reserved \subseteq UploadPCs /\ "idle" \notin Reserved
  BY DEF Reserved, UploadPCs, BeforeShare

\* Requests carry no file they did not carry, and none passes the check.
Moves ==
    \A q \in Requests :
        \/ /\ req'[q].file = req[q].file
           /\ req'[q].pc \in Reserved => req[q].pc \in Reserved
        \/ req'[q].file = NoFile /\ req'[q].pc \notin Reserved

LEMMA MovesStep ==
    ASSUME IInv, [Next]_vars
    PROVE  \/ Moves /\ UNCHANGED <<file, overlapped>>
           \/ \E p \in Requests, l \in Links, f \in Files : Admit(p, l, f)
           \/ \E p \in Requests : CheckQuota(p)
<1>0. RequestsOK(req)
  BY DEF IInv, Shapes
<1>a. ASSUME NEW p \in Requests, Finish(p) PROVE Moves
  BY <1>0, <1>a, FinishStep DEF OthersStay, Moves, Idle, Reserved
<1>b. ASSUME NEW p \in Requests, req[p].pc # "idle", NEW pc \in PCs, Goto(p, pc),
             pc \in UploadPCs => req[p].pc \in UploadPCs,
             pc \in Reserved => req[p].pc \in Reserved
      PROVE  Moves
  <2>1. pc \in UploadPCs => req[p].file \in Files
    BY <1>0, <1>b DEF RequestsOK
  <2>2. OthersStay(p) /\ req'[p].pc = pc /\ req'[p].file = req[p].file
    BY <1>0, <1>b, <2>1, GotoStep
  <2> QED
    BY <1>b, <2>2 DEF OthersStay, Moves
<1>c. ASSUME NEW p \in Requests, NEW shared, NEW recorded, req[p].pc \in UploadPCs,
             AfterUndo(p, shared, recorded)
      PROVE  Moves
  BY <1>a, <1>b, <1>c DEF AfterUndo, PCs, Reserved, UploadPCs, BeforeShare
<1>1. ASSUME NEW p \in Requests,
             \/ SumShares(p) \/ StoreFile(p) \/ StoreFails(p)
             \/ CopyToShare(p) \/ SkipShare(p) \/ IncrementReceiveLinkUploads(p)
             \/ UndoShareFile(p)
      PROVE  Moves
  BY <1>a, <1>b, <1>1
     DEF SumShares, StoreFile, StoreFails, CopyToShare, SkipShare,
         IncrementReceiveLinkUploads, UndoShareFile, PCs, Reserved, UploadPCs, BeforeShare
<1>2. ASSUME NEW p \in Requests, UndoFile(p) \/ UndoShareRow(p) \/ UndoRow(p) PROVE Moves
  BY <1>a, <1>c, <1>2 DEF UndoFile, UndoShareRow, UndoRow, UploadPCs, BeforeShare
<1>3. ASSUME NEW p \in Requests, SaveShare(p) PROVE Moves
  <2>1. CASE Goto(p, "recording")
    BY <1>b, <1>3, <2>1 DEF SaveShare, PCs, Reserved, UploadPCs, BeforeShare
  <2>2. CASE req' = [req EXCEPT ![p].pc = "recording", ![p].shared = TRUE]
    <3>1. OthersStay(p) /\ req'[p].file = req[p].file /\ req[p].pc \in Reserved
      BY <1>0, <1>3, <2>2, SharedStep DEF SaveShare, Reserved, UploadPCs, BeforeShare
    <3> QED
      BY <3>1 DEF OthersStay, Moves
  <2> QED
    BY <1>3, <2>1, <2>2 DEF SaveShare
<1>4. ASSUME NEW p \in Requests, SaveReceivedFile(p) PROVE Moves
  <2>1. CASE Goto(p, "undoing")
    BY <1>b, <1>4, <2>1 DEF SaveReceivedFile, PCs, Reserved, UploadPCs, BeforeShare
  <2>2. CASE req' = [req EXCEPT ![p].pc = "counting", ![p].recorded = TRUE]
    <3>1. OthersStay(p) /\ req'[p].file = req[p].file /\ req[p].pc \in Reserved
      BY <1>0, <1>4, <2>2, RecordedStep DEF SaveReceivedFile, Reserved, UploadPCs, BeforeShare
    <3> QED
      BY <3>1 DEF OthersStay, Moves
  <2> QED
    BY <1>4, <2>1, <2>2 DEF SaveReceivedFile
<1>5. ASSUME NEW p \in Requests, Manage(p) PROVE Moves
  <2>1. ASSUME NEW l \in Links, MakeLinkDir(p, l) \/ BeginDelete(p, l) PROVE Moves
    <3>1. PICK pc \in {"linking", "emptying"} : Start(p, pc, l, NoFile)
      BY <2>1 DEF MakeLinkDir, BeginDelete
    <3>2. OthersStay(p) /\ req'[p].pc = pc /\ req'[p].file = NoFile
      BY <1>0, <3>1, StartStep DEF PCs, UploadPCs, BeforeShare
    <3> QED
      BY <3>2 DEF OthersStay, Moves, Reserved
  <2>2. CASE SaveReceiveLink(p) \/ DeleteReceiveLink(p)
    BY <1>a, <2>2 DEF SaveReceiveLink, DeleteReceiveLink
  <2>3. CASE EmptyLinkDir(p) \/ RemoveLinkDir(p)
    BY <1>b, <2>3 DEF EmptyLinkDir, RemoveLinkDir, PCs, Reserved, UploadPCs, BeforeShare
  <2> QED
    BY <1>5, <2>1, <2>2, <2>3 DEF Manage
<1>6. ASSUME Restart PROVE Moves
  BY <1>6 DEF Restart, Moves, Idle, Reserved
<1>7. ASSUME UNCHANGED req PROVE Moves
  BY <1>7 DEF Moves
<1>8. UNCHANGED overlapped \/ \E p \in Requests, l \in Links, f \in Files : Admit(p, l, f)
  <2>1. ASSUME NEW p \in Requests, Upload(p) \/ Manage(p),
               ~ \E l \in Links, f \in Files : Admit(p, l, f)
        PROVE  UNCHANGED overlapped
    BY <2>1 DEF Upload, Manage, SumShares, CheckQuota, StoreFile, StoreFails, CopyToShare,
       SkipShare, SaveShare, SaveReceivedFile, IncrementReceiveLinkUploads, UndoFile,
       UndoShareFile, UndoShareRow, UndoRow, MakeLinkDir, BeginDelete, SaveReceiveLink,
       EmptyLinkDir, RemoveLinkDir, DeleteReceiveLink, history
  <2>2. CASE EmptyUploads \/ Sweep \/ (\E f \in Files : DeleteShare(f))
             \/ (\E l \in Links : Expire(l))
             \/ Restart \/ UNCHANGED vars
    BY <2>2 DEF Sweep, DeleteShare, Expire, EmptyUploads, RemoveUploads, SweepSelect,
       SweepEmpty, SweepRemove, SweepDrop, Restart, vars, history
  <2> QED
    BY <2>1, <2>2 DEF Next
<1>9. UNCHANGED file \/ \E p \in Requests, l \in Links, f \in Files : Admit(p, l, f)
  BY FilesAndAnswers
<1>10. ASSUME NEW p \in Requests, Upload(p)
       PROVE  \/ Moves \/ CheckQuota(p) \/ \E l \in Links, f \in Files : Admit(p, l, f)
  BY <1>1, <1>2, <1>3, <1>4, <1>10 DEF Upload
<1>11. CASE \/ \E f \in Files : DeleteShare(f)
            \/ \E l \in Links : Expire(l)
            \/ EmptyUploads \/ Sweep \/ UNCHANGED vars
  <2>1. UNCHANGED req
    BY <1>11 DEF Sweep, DeleteShare, Expire, EmptyUploads, RemoveUploads, SweepSelect,
       SweepEmpty, SweepRemove, SweepDrop, vars
  <2> QED
    BY <1>7, <1>8, <1>9, <2>1
<1>12. CASE Restart
  BY <1>6, <1>8, <1>9, <1>12 DEF Restart, history, receivedFiles
<1> QED
  BY <1>5, <1>8, <1>9, <1>10, <1>11, <1>12 DEF Next

LEMMA MaxBelow ==
    ASSUME NEW t \in Nat, NEW n \in Nat
    PROVE  Max({0, t - n}) <= t /\ Max({0, t - n}) \in Nat
<1>1. t - n \in Int
  OBVIOUS
<1>2. \E x \in {0, t - n} : \A y \in {0, t - n} : x >= y
  BY <1>1
<1>3. Max({0, t - n}) \in {0, t - n} /\ Max({0, t - n}) >= 0
  BY <1>1, <1>2 DEF Max
<1> QED
  BY <1>3

\* No link has more bytes than before, but for the one that gets a row.
LEMMA TotalsFall ==
    ASSUME IInv, [Next]_vars
    PROVE  \/ \A l \in Links : link'[l].total <= link[l].total
           \/ \E p \in Requests : SaveReceivedFile(p)
<1>0. /\ RequestsOK(req) /\ link \in [Links -> Link]
      /\ \A l \in Links : link[l].total \in Nat
      /\ \A f \in Files : file[f].size \in Nat
  BY DEF IInv, Shapes, Link
<1> DEFINE Fall == \A l \in Links : link'[l].total <= link[l].total
<1>a. ASSUME NEW L, DropLinks(L) PROVE Fall
  <2> SUFFICES ASSUME NEW l \in Links PROVE link'[l].total <= link[l].total
    OBVIOUS
  <2>1. link[l] \in Link
    BY <1>0
  <2>2. \/ link'[l] = link[l]
        \/ link'[l] = [link[l] EXCEPT !.state = "gone", !.total = 0]
    BY <1>a DEF DropLinks
  <2>3. CASE link'[l] = link[l]
    BY <1>0, <2>3
  <2>4. CASE link'[l] = [link[l] EXCEPT !.state = "gone", !.total = 0]
    <3>1. link'[l].total = 0
      BY <2>1, <2>4 DEF Link
    <3> QED
      BY <1>0, <3>1
  <2> QED
    BY <2>2, <2>3, <2>4
<1>b. UNCHANGED link => Fall
  BY <1>0
<1>1. ASSUME NEW p \in Requests, SaveReceiveLink(p) PROVE Fall
  <2>1. CASE \E max \in Caps, auto \in BOOLEAN :
                link' = [link EXCEPT ![req[p].link] = [NewLink EXCEPT !.state = "live",
                                                  !.max = max, !.auto = auto]]
    BY <1>0, <2>1 DEF NewLink
  <2> QED
    BY <1>1, <1>b, <2>1 DEF SaveReceiveLink
<1>2. ASSUME NEW p \in Requests, IncrementReceiveLinkUploads(p) PROVE Fall
  <2>1. CASE link' = [link EXCEPT ![req[p].link].uploads = @ + 1]
    BY <1>0, <2>1 DEF Link
  <2> QED
    BY <1>2, <1>b, <2>1 DEF IncrementReceiveLinkUploads
<1>3. ASSUME NEW p \in Requests, UndoRow(p) PROVE Fall
  <2>1. PICK l \in Links, f \in Files : l = req[p].link /\ f = req[p].file
    BY <1>0, <1>3 DEF UndoRow, RequestsOK, UploadPCs, BeforeShare
  <2>2. CASE link' = [link EXCEPT ![l].total = Max({0, @ - file[f].size})]
    <3>1. Max({0, link[l].total - file[f].size}) <= link[l].total
      BY <1>0, MaxBelow
    <3>2. link'[l].total = Max({0, link[l].total - file[f].size})
          /\ \A k \in Links \ {l} : link'[k] = link[k]
      BY <1>0, <2>2 DEF Link
    <3> QED
      BY <1>0, <3>1, <3>2
  <2> QED
    BY <1>3, <1>b, <2>1, <2>2 DEF UndoRow
<1>4. ASSUME NEW p \in Requests, DeleteReceiveLink(p) PROVE Fall
  BY <1>4, <1>a, <1>b DEF DeleteReceiveLink
<1>5. CASE SweepDrop
  BY <1>5, <1>a, <1>b DEF SweepDrop
<1>6. ASSUME NEW p \in Requests,
             \/ \E l \in Links, f \in Files : Admit(p, l, f)
             \/ SumShares(p) \/ CheckQuota(p) \/ StoreFile(p) \/ StoreFails(p)
             \/ CopyToShare(p) \/ SkipShare(p) \/ SaveShare(p)
             \/ UndoFile(p) \/ UndoShareFile(p) \/ UndoShareRow(p)
             \/ \E l \in Links : MakeLinkDir(p, l) \/ BeginDelete(p, l)
             \/ EmptyLinkDir(p) \/ RemoveLinkDir(p)
      PROVE  UNCHANGED link
  BY <1>6 DEF Admit, SumShares, CheckQuota, StoreFile, StoreFails, CopyToShare,
     SkipShare, SaveShare, UndoFile, UndoShareFile, UndoShareRow, MakeLinkDir, BeginDelete,
     EmptyLinkDir, RemoveLinkDir
<1>7. CASE \/ \E f \in Files : DeleteShare(f)
           \/ EmptyUploads \/ RemoveUploads \/ SweepSelect
           \/ \E l \in Links : Expire(l) \/ SweepEmpty(l) \/ SweepRemove(l)
           \/ Restart \/ UNCHANGED vars
  BY <1>b, <1>7 DEF DeleteShare, EmptyUploads, RemoveUploads, SweepSelect, Expire,
     SweepEmpty, SweepRemove, Restart, vars
<1> HIDE DEF Fall
<1> QED
  BY <1>b, <1>1, <1>2, <1>3, <1>4, <1>5, <1>6, <1>7 DEF Next, Upload, Manage, Sweep, Fall
-----------------------------------------------------------------------------
(* Types, with the finiteness of the table of shares that the first sum of    *)
(* GetUserUsage needs.                                                        *)

SweepType == [turn : {"shares", "uploads", "links"},
              empty : SUBSET Links, remove : SUBSET Links, all : SUBSET Links]

RestInv ==
    /\ dirs \subseteq Links
    /\ disk \subseteq Files /\ rows \subseteq Files
    /\ shareFiles \subseteq Files /\ shareRows \subseteq Files /\ IsFiniteSet(shareRows)
    /\ seen \in [Requests -> Nat]
    /\ sweep \in SweepType
    /\ emptied \subseteq Links /\ overrun \subseteq Links
    /\ wiped \subseteq Files /\ overlapped \in BOOLEAN

LEMMA ShareBytesSum ==
    ShareBytes = SumFunctionOnSet([f \in shareRows |-> file[f].size], shareRows)
BY SumOfSizes DEF ShareBytes

LEMMA ShareBytesIsNat ==
    ASSUME Shapes, shareRows \subseteq Files, IsFiniteSet(shareRows)
    PROVE  ShareBytes \in Nat
<1> DEFINE s == [f \in shareRows |-> file[f].size]
<1>1. \A f \in shareRows : s[f] \in Nat
  BY DEF Shapes
<1>2. ShareBytes = SumFunctionOnSet(s, shareRows)
  BY ShareBytesSum
<1> HIDE DEF s
<1> QED
  BY <1>1, <1>2, SumIsNat

LEMMA RestUploads ==
    ASSUME Shapes, RestInv, NEW p \in Requests, Upload(p)
    PROVE  RestInv'
<1>0. req[p].pc \in UploadPCs => req[p].link \in Links /\ req[p].file \in Files
  BY DEF Shapes, RequestsOK, UploadPCs, BeforeShare
<1>1. ASSUME NEW l \in Links, NEW f \in Files, Admit(p, l, f) PROVE RestInv'
  BY <1>1 DEF Admit, RestInv, autoShares
<1>2. CASE SumShares(p)
  <2>1. ShareBytes \in Nat
    BY ShareBytesIsNat DEF RestInv
  <2>2. seen' \in [Requests -> Nat]
    BY <1>2, <2>1 DEF SumShares, RestInv
  <2> QED
    BY <1>2, <2>2 DEF SumShares, RestInv, autoShares, receivedFiles, history
<1>3. CASE CheckQuota(p)
  BY <1>3 DEF CheckQuota, RestInv, autoShares, receivedFiles, history
<1>4. CASE StoreFile(p)
  <2>1. req[p].link \in Links /\ req[p].file \in Files
    BY <1>0, <1>4 DEF StoreFile, UploadPCs, BeforeShare
  <2>2. disk' \subseteq Files /\ overrun' \subseteq Links
    BY <1>4, <2>1 DEF StoreFile, RestInv
  <2> QED
    BY <1>4, <2>2 DEF StoreFile, RestInv, autoShares
<1>5. CASE StoreFails(p) \/ UndoFile(p)
  BY <1>5 DEF StoreFails, UndoFile, RestInv, autoShares, history
<1>6. CASE CopyToShare(p) \/ UndoShareFile(p)
  <2>1. shareFiles' \subseteq Files
    BY <1>0, <1>6 DEF CopyToShare, UndoShareFile, RestInv, UploadPCs, BeforeShare
  <2> QED
    BY <1>6, <2>1 DEF CopyToShare, UndoShareFile, RestInv, receivedFiles, history
<1>7. CASE SkipShare(p)
  BY <1>7 DEF SkipShare, RestInv, receivedFiles, autoShares, history
<1>8. CASE SaveShare(p)
  <2>1. req[p].file \in Files
    BY <1>0, <1>8 DEF SaveShare, UploadPCs, BeforeShare
  <2>2. /\ shareRows' \subseteq Files /\ shareFiles' \subseteq Files
        /\ shareRows' = shareRows \/ shareRows' = shareRows \union {req[p].file}
    BY <1>8, <2>1 DEF SaveShare, RestInv
  <2>3. IsFiniteSet(shareRows')
    BY <2>2, FS_AddElement DEF RestInv
  <2> QED
    BY <1>8, <2>2, <2>3 DEF SaveShare, RestInv, receivedFiles, history
<1>9. CASE SaveReceivedFile(p)
  <2>1. req[p].file \in Files
    BY <1>0, <1>9 DEF SaveReceivedFile, UploadPCs, BeforeShare
  <2>2. rows' \subseteq Files
    BY <1>9, <2>1 DEF SaveReceivedFile, RestInv
  <2> QED
    BY <1>9, <2>2 DEF SaveReceivedFile, RestInv, autoShares, history
<1>10. CASE IncrementReceiveLinkUploads(p)
  BY <1>10 DEF IncrementReceiveLinkUploads, RestInv, receivedFiles, autoShares, history
<1>11. CASE UndoShareRow(p)
  <2>1. shareRows' \subseteq shareRows
    BY <1>11 DEF UndoShareRow
  <2>2. shareRows' \subseteq Files /\ IsFiniteSet(shareRows')
    BY <2>1, FS_Subset DEF RestInv
  <2> QED
    BY <1>11, <2>2 DEF UndoShareRow, RestInv, receivedFiles, history
<1>12. CASE UndoRow(p)
  <2>1. rows' \subseteq Files
    BY <1>12 DEF UndoRow, RestInv
  <2> QED
    BY <1>12, <2>1 DEF UndoRow, RestInv, autoShares, history
<1> QED
  BY <1>1, <1>2, <1>3, <1>4, <1>5, <1>6, <1>7, <1>8, <1>9, <1>10, <1>11, <1>12 DEF Upload

LEMMA RestStep ==
    ASSUME Shapes, TargetsInv, RestInv, [Next]_vars
    PROVE  RestInv'
<1>1. ASSUME NEW p \in Requests, Manage(p) PROVE RestInv'
  <2>1. /\ req[p].pc # "idle" => req[p].link \in Links
        /\ req[p].pc \in {"linking", "emptying", "removing", "deleting"} => req[p].pc # "idle"
    BY DEF Shapes, RequestsOK
  <2>2. ASSUME NEW l \in Links, MakeLinkDir(p, l) \/ BeginDelete(p, l) PROVE RestInv'
    BY <2>2 DEF MakeLinkDir, BeginDelete, RestInv, receivedFiles, autoShares, history
  <2>3. CASE SaveReceiveLink(p)
    <3>1. dirs' \subseteq Links
      BY <2>3 DEF SaveReceiveLink, RestInv
    <3> QED
      BY <2>3, <3>1 DEF SaveReceiveLink, RestInv, receivedFiles, autoShares, history
  <2>4. CASE EmptyLinkDir(p)
    <3>1. req[p].link \in Links
      BY <2>1, <2>4 DEF EmptyLinkDir
    <3> QED
      BY <2>4, <3>1 DEF EmptyLinkDir, EmptyDir, RestInv, autoShares
  <2>5. CASE RemoveLinkDir(p)
    <3>1. dirs' \subseteq Links
      BY <2>5 DEF RemoveLinkDir, RemoveDir, RestInv
    <3> QED
      BY <2>5, <3>1 DEF RemoveLinkDir, RestInv, receivedFiles, autoShares, history
  <2>6. CASE DeleteReceiveLink(p)
    <3>1. rows' \subseteq Files
      BY <2>6 DEF DeleteReceiveLink, DropLinks, RestInv
    <3> QED
      BY <2>6, <3>1 DEF DeleteReceiveLink, RestInv, autoShares, history
  <2> QED
    BY <1>1, <2>2, <2>3, <2>4, <2>5, <2>6 DEF Manage
<1>2. ASSUME NEW f \in Files, DeleteShare(f) PROVE RestInv'
  <2>1. shareRows' \subseteq shareRows /\ shareFiles' \subseteq shareFiles
    BY <1>2 DEF DeleteShare
  <2>2. shareRows' \subseteq Files /\ IsFiniteSet(shareRows') /\ shareFiles' \subseteq Files
    BY <2>1, FS_Subset DEF RestInv
  <2> QED
    BY <1>2, <2>2 DEF DeleteShare, RestInv, receivedFiles, history
<1>3. ASSUME NEW l \in Links, Expire(l) PROVE RestInv'
  BY <1>3 DEF Expire, RestInv, receivedFiles, autoShares, history
<1>4. CASE Sweep
  <2>1. CASE SweepSelect
    <3>1. ExpiredLinks \subseteq Links
      BY DEF ExpiredLinks, TargetsInv
    <3> QED
      BY <2>1, <3>1 DEF SweepSelect, NoSweep, SweepType, RestInv, receivedFiles, autoShares,
         history
  <2>2. ASSUME NEW l \in Links, SweepEmpty(l) PROVE RestInv'
    BY <2>2 DEF SweepEmpty, EmptyDir, SweepType, RestInv, autoShares
  <2>3. ASSUME NEW l \in Links, SweepRemove(l) PROVE RestInv'
    <3>1. dirs' \subseteq Links
      BY <2>3 DEF SweepRemove, RemoveDir, RestInv
    <3>2. sweep' \in SweepType
      BY <2>3 DEF SweepRemove, SweepType, RestInv
    <3> QED
      BY <2>3, <3>1, <3>2 DEF SweepRemove, RestInv, receivedFiles, autoShares, history
  <2>4. CASE SweepDrop
    <3>1. rows' \subseteq Files
      BY <2>4 DEF SweepDrop, DropLinks, RestInv
    <3> QED
      BY <2>4, <3>1 DEF SweepDrop, NoSweep, SweepType, RestInv, autoShares, history
  <2>5. CASE RemoveUploads
    <3>1. dirs' \subseteq Links
      BY <2>5 DEF RemoveUploads, RestInv
    <3>2. sweep' \in SweepType
      BY <2>5 DEF RemoveUploads, SweepType, RestInv
    <3> QED
      BY <2>5, <3>1, <3>2 DEF RemoveUploads, RestInv, receivedFiles, autoShares, history
  <2> QED
    BY <1>4, <2>1, <2>2, <2>3, <2>4, <2>5 DEF Sweep
<1>7. CASE EmptyUploads
  <2>1. sweep' \in SweepType
    BY <1>7 DEF EmptyUploads, SweepType, RestInv
  <2>2. disk' \subseteq Files /\ shareFiles' \subseteq Files /\ wiped' \subseteq Files
    BY <1>7 DEF EmptyUploads, RestInv
  <2> QED
    BY <1>7, <2>1, <2>2 DEF EmptyUploads, RestInv
<1>5. CASE Restart
  BY <1>5 DEF Restart, NoSweep, SweepType, RestInv, receivedFiles, autoShares, history
<1>6. CASE UNCHANGED vars
  BY <1>6 DEF vars, RestInv, receivedFiles, autoShares, history
<1> QED
  BY <1>1, <1>2, <1>3, <1>4, <1>5, <1>6, <1>7, RestUploads DEF Next

LEMMA OthersInitially == Init => TargetsInv /\ RestInv
<1>1. Init => TargetsInv
  BY DEF Init, TargetsInv, Targeted, NoSweep, Idle, NewLink, Removing
<1>2. ASSUME Init PROVE RestInv
  <2>1. shareRows = {} /\ IsFiniteSet(shareRows)
    <3>1. shareRows = {}
      BY <1>2 DEF Init
    <3> QED
      BY <3>1, FS_EmptySet
  <2>2. seen \in [Requests -> Nat]
    BY <1>2 DEF Init
  <2> QED
    BY <1>2, <2>1, <2>2 DEF Init, RestInv, SweepType, NoSweep
<1> QED
  BY <1>1, <1>2

\* Every variable keeps its type, through uploads, removals and crashes: what a
\* request names exists, and what a request has summed is a number of bytes.
THEOREM ReceiveTypes == Spec => []TypeOK
<1> DEFINE Inv == IInv /\ TargetsInv /\ RestInv
<1>1. Init => Inv
  BY InitInv, OthersInitially
<1>2. Inv /\ [Next]_vars => Inv'
  BY InvStep, TargetsStep, RestStep DEF IInv
<1>3. Inv => TypeOK
  <2> SUFFICES ASSUME Inv PROVE TypeOK
    OBVIOUS
  <2>1. /\ link \in [Links -> Link] /\ faults \in Nat
        /\ file \in [Files -> [link : Links \union {NoLink}, size : Nat]]
        /\ req \in [Requests -> Request]
        /\ \A p \in Requests : req[p].pc # "idle" => req[p].link \in Links
    BY DEF IInv, Shapes, RequestsOK
  <2>2. expired \subseteq Links /\ accepted \subseteq Files /\ refused \subseteq Files
    BY DEF IInv, FilesInv, TargetsInv
  <2> QED
    BY <2>1, <2>2 DEF TypeOK, RestInv, SweepType
<1> QED
  BY <1>1, <1>2, <1>3, PTL DEF Spec

-----------------------------------------------------------------------------
(* The quota step by step                                                     *)

ReservedIsWithin(p) == req[p].pc \in Reserved => Held + file[req[p].file].size <= Quota
OneAtATime == \A p, q \in Requests : req[p].file # NoFile /\ req[q].file # NoFile => p = q

LEMMA ReservedCarry ==
    ASSUME Shapes, NEW p \in Requests, req[p].pc \in Reserved
    PROVE  req[p].file # NoFile /\ req[p].file \in Files /\ req[p].link \in Links
<1>1. req[p].pc \in UploadPCs /\ req[p].pc # "idle"
  BY ReservedSteps
<1> QED
  BY <1>1, ReceiveConstants DEF Shapes, RequestsOK

LEMMA HeldFalls ==
    ASSUME IInv, IInv', \A l \in Links : link'[l].total <= link[l].total
    PROVE  Held' <= Held
<1>1. \A l \in Links : Totals'[l] \in Nat /\ Totals[l] \in Nat /\ Totals'[l] <= Totals[l]
  BY DEF IInv, Shapes, Link, Totals
<1>2. SumFunctionOnSet(Totals', Links) <= SumFunctionOnSet(Totals, Links)
  BY <1>1, ReceiveConstants, SumOfFewer
<1> QED
  BY <1>2 DEF Held

LEMMA HeldRises ==
    ASSUME IInv, IInv', NEW k \in Links, NEW n \in Nat, link'[k].total = link[k].total + n,
           \A l \in Links \ {k} : link'[l].total = link[l].total
    PROVE  Held' = Held + n
<1>1. \A l \in Links : Totals[l] \in Int /\ Totals'[l] \in Int
  BY DEF IInv, Shapes, Link, Totals
<1>2. /\ \A l \in Links \ {k} : Totals[l] = Totals'[l]
      /\ Totals'[k] = Totals[k] + n
  BY DEF Totals
<1>3. SumFunctionOnSet(Totals', Links)
        = SumFunctionOnSet(Totals, Links) - Totals[k] + Totals'[k]
  BY <1>1, <1>2, ReceiveConstants, SumChanges
<1>4. Held' = Held - Totals[k] + Totals'[k]
  BY <1>3 DEF Held
<1> QED
  BY <1>1, <1>2, <1>4, HeldIsNat DEF IInv

LEMMA OneMoves ==
    ASSUME OneAtATime, Moves
    PROVE  OneAtATime'
BY DEF OneAtATime, Moves

LEMMA WithinMoves ==
    ASSUME IInv, IInv', Held' <= Held, Moves, UNCHANGED file, NEW p \in Requests,
           ReservedIsWithin(p)
    PROVE  ReservedIsWithin(p)'
<1>0. Held \in Nat /\ Held' \in Nat
  <2>1. Shapes /\ Shapes'
    BY DEF IInv
  <2> QED
    BY <2>1, HeldIsNat, ReceiveConstants, SumIsNat DEF Shapes, Link, Totals, Held
<1> SUFFICES ASSUME req'[p].pc \in Reserved
             PROVE  Held' + file'[req'[p].file].size <= Quota
  BY DEF ReservedIsWithin
<1>1. req[p].pc \in Reserved /\ req'[p].file = req[p].file
  BY DEF Moves
<1>2. file[req[p].file].size \in Nat
  BY <1>1, ReservedCarry DEF IInv, Shapes
<1>3. Held + file[req[p].file].size <= Quota
  BY <1>1 DEF ReservedIsWithin
<1> QED
  BY <1>0, <1>1, <1>2, <1>3, ReceiveConstants

LEMMA QuotaStep ==
    ASSUME IInv, IInv', RestInv, QuotaInv, [Next]_vars
    PROVE  QuotaInv'
<1> SUFFICES ASSUME Quota > 0, ~overlapped'
             PROVE  /\ Held' <= Quota
                    /\ OneAtATime'
                    /\ \A p \in Requests : ReservedIsWithin(p)'
  BY DEF QuotaInv, OneAtATime, ReservedIsWithin
<1>0. /\ Shapes /\ RequestsOK(req) /\ Held \in Nat /\ Quota \in Nat
  BY ReceiveConstants, HeldIsNat DEF IInv, Shapes
<1>00. Held' \in Nat
  <2>1. \A l \in Links : Totals'[l] \in Nat
    BY DEF IInv, Shapes, Link, Totals
  <2> QED
    BY <2>1, ReceiveConstants, SumIsNat DEF Held
<1>1. CASE Moves /\ UNCHANGED <<file, overlapped>>
  <2>1. Held <= Quota /\ OneAtATime /\ \A p \in Requests : ReservedIsWithin(p)
    BY <1>1 DEF QuotaInv, OneAtATime, ReservedIsWithin
  <2>2. OneAtATime'
    BY <1>1, <2>1, OneMoves
  <2>3. CASE \A l \in Links : link'[l].total <= link[l].total
    <3>1. Held' <= Held
      BY <2>3, HeldFalls
    <3>2. Held' <= Quota
      BY <1>0, <1>00, <2>1, <3>1
    <3> QED
      BY <1>1, <2>1, <2>2, <3>1, <3>2, WithinMoves
  <2>4. ASSUME NEW p \in Requests, SaveReceivedFile(p), ~ UNCHANGED link
        PROVE  Held' <= Quota /\ \A q \in Requests : ReservedIsWithin(q)'
    <3> DEFINE k == req[p].link
               n == file[req[p].file].size
    <3>1. req[p].pc = "recording" /\ req[p].pc \in Reserved
      BY <2>4 DEF SaveReceivedFile, Reserved
    <3>2. k \in Links /\ req[p].file \in Files /\ req[p].file # NoFile
      BY <1>0, <3>1, ReservedCarry
    <3>3. n \in Nat /\ link \in [Links -> Link]
      BY <3>2 DEF IInv, Shapes
    <3>4. /\ link' = [link EXCEPT ![k].total = @ + n]
          /\ req' = [req EXCEPT ![p].pc = "counting", ![p].recorded = TRUE]
      BY <2>4 DEF SaveReceivedFile
    <3>5. /\ link'[k].total = link[k].total + n
          /\ \A l \in Links \ {k} : link'[l].total = link[l].total
      BY <3>2, <3>3, <3>4 DEF Link
    <3> HIDE DEF k, n
    <3>6. Held' = Held + n
      BY <3>2, <3>3, <3>5, HeldRises
    <3>7. Held + n <= Quota
      BY <2>1, <3>1 DEF ReservedIsWithin, n
    <3>8. /\ OthersStay(p) /\ req'[p].pc = "counting"
      BY <1>0, <3>1, <3>4, RecordedStep, ReservedSteps
    <3>9. ASSUME NEW q \in Requests PROVE req'[q].pc \notin Reserved
      <4>1. CASE q = p
        BY <3>8, <4>1 DEF Reserved
      <4>2. CASE q # p
        <5>1. req'[q] = req[q]
          BY <3>8, <4>2 DEF OthersStay
        <5> QED
          BY <1>0, <2>1, <3>2, <4>2, <5>1, ReservedCarry DEF OneAtATime
      <4> QED
        BY <4>1, <4>2
    <3> QED
      BY <3>6, <3>7, <3>9 DEF ReservedIsWithin
  <2>5. UNCHANGED link => \A l \in Links : link'[l].total <= link[l].total
    BY <1>0 DEF Shapes, Link
  <2> QED
    BY <2>2, <2>3, <2>4, <2>5, TotalsFall
<1>2. ASSUME NEW p \in Requests, NEW l \in Links, NEW f \in Files, Admit(p, l, f)
      PROVE  /\ Held' <= Quota /\ OneAtATime'
             /\ \A q \in Requests : ReservedIsWithin(q)'
  <2>1. ~overlapped /\ \A q \in Requests : req[q].file = NoFile
    BY <1>2 DEF Admit
  <2>2. Held <= Quota /\ UNCHANGED link
    BY <1>2, <2>1 DEF QuotaInv, Admit
  <2>3. Held' = Held
    BY <2>2 DEF Held, Totals
  <2>4. Start(p, "summing", l, f)
    BY <1>0, <1>2 DEF Admit
  <2>5. OthersStay(p) /\ req'[p].pc = "summing"
    BY <1>0, <2>4, StartStep DEF PCs, UploadPCs, BeforeShare
  <2>6. \A q \in Requests \ {p} : req'[q].file = NoFile /\ req[q].pc \notin Reserved
    BY <1>0, <2>1, <2>5, ReservedCarry DEF OthersStay
  <2>7. \A q \in Requests : req'[q].pc \notin Reserved
    BY <2>5, <2>6 DEF OthersStay, Reserved
  <2> QED
    BY <2>2, <2>3, <2>6, <2>7 DEF OneAtATime, ReservedIsWithin
<1>3. ASSUME NEW p \in Requests, CheckQuota(p)
      PROVE  /\ Held' <= Quota /\ OneAtATime'
             /\ \A q \in Requests : ReservedIsWithin(q)'
  <2>1. UNCHANGED <<link, file, overlapped>> /\ req[p].pc = "checking"
    BY <1>3 DEF CheckQuota, receivedFiles, history
  <2>2. Held <= Quota /\ OneAtATime /\ \A q \in Requests : ReservedIsWithin(q)
    BY <2>1 DEF QuotaInv, OneAtATime, ReservedIsWithin
  <2>3. Held' = Held
    BY <2>1 DEF Held, Totals
  <2>4. CASE Finish(p)
    <3>1. OthersStay(p) /\ req'[p] = Idle
      BY <1>0, <2>4, FinishStep
    <3>2. Moves
      BY <3>1 DEF OthersStay, Moves, Idle, Reserved
    <3>3. Held' <= Held
      BY <1>0, <2>3
    <3> QED
      BY <2>1, <2>2, <2>3, <3>2, <3>3, OneMoves, WithinMoves
  <2>5. CASE WithinQuota(p) /\ Goto(p, "admitted")
    <3>1. req[p].pc \in UploadPCs /\ req[p].pc # "idle"
      BY <2>1 DEF UploadPCs, BeforeShare
    <3>2. req[p].file \in Files /\ "admitted" \in PCs
      BY <1>0, <3>1 DEF RequestsOK, PCs
    <3>3. OthersStay(p) /\ req'[p].file = req[p].file
      BY <1>0, <2>5, <3>1, <3>2, GotoStep
    <3>4. ReceivedBytes = Held
      BY SumOfTotals DEF ReceivedBytes, Held, Totals
    <3>5. seen[p] \in Nat /\ file[req[p].file].size \in Nat
      BY <1>0, <3>2 DEF RestInv, Shapes
    <3>6. seen[p] + Held + file[req[p].file].size <= Quota
      BY <2>5, <3>4 DEF WithinQuota
    <3>7. Held + file[req[p].file].size <= Quota
      BY <1>0, <3>5, <3>6
    <3>8. OneAtATime'
      BY <2>2, <3>3 DEF OneAtATime, OthersStay
    <3>9. \A q \in Requests \ {p} : ReservedIsWithin(q)'
      BY <2>1, <2>2, <2>3, <3>3 DEF ReservedIsWithin, OthersStay
    <3>10. ReservedIsWithin(p)'
      BY <2>1, <2>3, <3>3, <3>7 DEF ReservedIsWithin
    <3> QED
      BY <2>2, <2>3, <3>8, <3>9, <3>10
  <2> QED
    BY <1>3, <2>4, <2>5 DEF CheckQuota
<1> QED
  BY <1>1, <1>2, <1>3, MovesStep

\* An owner whose links receive one upload at a time, and who shares none of them,
\* never holds more than the quota, whatever sizes arrive: nothing is added between
\* the check of an upload and its row. It is the overlap, and only that, which
\* makes the quota "best-effort".
THEOREM QuotaInTurn == Spec => []QuotaHonouredInTurn
<1> DEFINE Inv == IInv /\ TargetsInv /\ RestInv /\ QuotaInv
<1>1. Init => Inv
  <2> SUFFICES ASSUME Init PROVE QuotaInv
    BY InitInv, OthersInitially
  <2>1. \A l \in Links : Totals[l] = 0
    BY DEF Init, Totals, NewLink
  <2>2. Held = 0
    BY <2>1, ReceiveConstants, SumOfZeros DEF Held
  <2>3. \A p \in Requests : req[p] = Idle
    BY DEF Init
  <2>4. \A p \in Requests : req[p].file = NoFile /\ req[p].pc \notin Reserved
    BY <2>3 DEF Idle, Reserved
  <2> QED
    BY <2>2, <2>4, ReceiveConstants DEF QuotaInv
<1>2. Inv /\ [Next]_vars => Inv'
  BY InvStep, TargetsStep, RestStep, QuotaStep DEF IInv
<1>3. Inv => QuotaHonouredInTurn
  <2> SUFFICES ASSUME Inv, Quota > 0, ~overlapped, shareRows = {} PROVE Usage <= Quota
    BY DEF QuotaHonouredInTurn
  <2>1. ShareBytes = 0
    <3> DEFINE s == [f \in shareRows |-> file[f].size]
    <3>1. ShareBytes = SumFunctionOnSet(s, shareRows)
      BY ShareBytesSum
    <3> HIDE DEF s
    <3>2. SumFunctionOnSet(s, {}) = 0
      BY SumOfNone
    <3> QED
      BY <3>1, <3>2
  <2>2. ReceivedBytes = Held
    BY SumOfTotals DEF ReceivedBytes, Held, Totals
  <2>3. Held \in Nat /\ Held <= Quota
    BY HeldIsNat DEF IInv, QuotaInv
  <2> QED
    BY <2>1, <2>2, <2>3 DEF Usage
<1> QED
  BY <1>1, <1>2, <1>3, PTL DEF Spec
=============================================================================
