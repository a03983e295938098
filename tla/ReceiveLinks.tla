---------------------------- MODULE ReceiveLinks ----------------------------
(***************************************************************************)
(* Receive links: an owner opens a link, strangers upload files through it *)
(* until its cap is reached, each file becomes a row in received_files,    *)
(* with auto_share also a share, and the link is deleted by its owner or   *)
(* by the hourly sweep, together with its directory.                       *)
(*                                                                         *)
(* Every statement (or transaction) and every file-system call is a step;  *)
(* os.RemoveAll on a directory is two, since a file created after it read  *)
(* the directory keeps it from removing it.                                *)
(*                                                                         *)
(* The links' directories are inside the uploads directory, which the      *)
(* sweep of the shares removes as a whole when a folder share has expired. *)
(***************************************************************************)
EXTENDS Integers, FiniteSets, FiniteSetsExt

CONSTANTS
    Links,          \* receive-link ids: eight hexadecimal digits
    Files,          \* ids of received files; the auto-share of a file bears its name
    Requests,       \* concurrent request goroutines
    NoLink,         \* a file nobody has uploaded
    NoFile,         \* a request that handles no file
    Caps,           \* values of max_uploads; 0 is "unlimited", nothing rejects a negative one
    Sizes,          \* file sizes
    Quota,          \* quota_bytes of the owner of all links; 0 is "unlimited"
    MaxFaults       \* bound: crashes plus failed clean-up statements

ASSUME ReceiveConstants ==
    /\ IsFiniteSet(Links) /\ NoLink \notin Links
    /\ NoFile \notin Files
    /\ Caps \subseteq Int
    /\ Sizes \subseteq Nat
    /\ Quota \in Nat
    /\ MaxFaults \in Nat

VARIABLES
    link,           \* [Links -> Link]: the table receive_links
    expired,        \* links whose expires_at has passed
    dirs,           \* links whose directory received/<id> exists
    file,           \* [Files -> [link, size]]: what a received file is
    disk,           \* received files on disk
    rows,           \* rows of received_files
    shareFiles,     \* auto-shares whose file is in the uploads directory
    shareRows,      \* auto-shares that have a row in shares
    req,            \* [Requests -> Request]
    seen,           \* [Requests -> Nat]: the first sum of GetUserUsage
    sweep,          \* the hourly sweep: what comes next, and of the links it has
                    \* selected those to empty, those to remove, and all of them
    faults,         \* crashes and failed clean-up statements so far
    accepted,       \* history: files whose upload was answered with success
    refused,        \* history: files whose upload was answered with an error
    emptied,        \* history: links whose directory somebody began to remove
    overrun,        \* history: links into whose directory a file was stored since
    wiped,          \* history: received files that went with the uploads directory
    overlapped      \* history: whether an upload began while another was under way

receivedFiles == <<file, disk, rows>>
autoShares == <<shareFiles, shareRows>>
answers == <<accepted, refused>>
history == <<emptied, overrun, wiped, overlapped>>
vars == <<link, expired, dirs, receivedFiles, autoShares, req, seen, sweep, faults,
          answers, history>>

Link == [state : {"new", "live", "gone"}, max : Int, auto : BOOLEAN,
         uploads : Nat, total : Nat]
NewLink == [state |-> "new", max |-> 0, auto |-> FALSE, uploads |-> 0, total |-> 0]

PCs == {"idle", "linking", "summing", "checking", "admitted", "stored", "sharing",
        "recording", "counting", "undoing", "unsharing", "dropping", "unrecording",
        "emptying", "removing", "deleting"}

\* shared: receivedFile.ShareID is set; recorded: the row has been inserted
Request == [pc : PCs, link : Links \union {NoLink}, file : Files \union {NoFile},
            shared : BOOLEAN, recorded : BOOLEAN]
Idle == [pc |-> "idle", link |-> NoLink, file |-> NoFile,
         shared |-> FALSE, recorded |-> FALSE]
NoSweep == [turn |-> "shares", empty |-> {}, remove |-> {}, all |-> {}]

FilesOf(l) == {f \in Files : file[f].link = l}

\* storage.GetReceiveLink
Visible(l) == link[l].state = "live" /\ l \notin expired
LimitReached(l) == link[l].max > 0 /\ link[l].uploads >= link[l].max

\* mutant: the cap is only looked at on admission
Countable_Live(l) == link[l].state = "live"

\* the WHERE clause of IncrementReceiveLinkUploads
Countable(l) ==
    link[l].state = "live" /\ (link[l].max = 0 \/ link[l].uploads < link[l].max)

TypeOK ==
    /\ link \in [Links -> Link]
    /\ expired \subseteq Links /\ dirs \subseteq Links
    /\ file \in [Files -> [link : Links \union {NoLink}, size : Nat]]
    /\ disk \subseteq Files /\ rows \subseteq Files
    /\ shareFiles \subseteq Files /\ shareRows \subseteq Files
    /\ req \in [Requests -> Request]
    /\ seen \in [Requests -> Nat]
    /\ \A p \in Requests : req[p].pc # "idle" => req[p].link \in Links
    /\ sweep \in [turn : {"shares", "uploads", "links"},
                  empty : SUBSET Links, remove : SUBSET Links, all : SUBSET Links]
    /\ faults \in Nat
    /\ accepted \subseteq Files /\ refused \subseteq Files
    /\ emptied \subseteq Links /\ overrun \subseteq Links
    /\ wiped \subseteq Files /\ overlapped \in BOOLEAN

Init ==
    /\ link = [l \in Links |-> NewLink]
    /\ expired = {} /\ dirs = {}
    /\ file = [f \in Files |-> [link |-> NoLink, size |-> 0]]
    /\ disk = {} /\ rows = {} /\ shareFiles = {} /\ shareRows = {}
    /\ req = [p \in Requests |-> Idle]
    /\ seen = [p \in Requests |-> 0]
    /\ sweep = NoSweep
    /\ faults = 0
    /\ accepted = {} /\ refused = {}
    /\ emptied = {} /\ overrun = {} /\ wiped = {} /\ overlapped = FALSE

Goto(p, pc) == req' = [req EXCEPT ![p].pc = pc]

\* mutant: the step is not reset with the link and the file
Finish_KeepsStep(p) == req' = [req EXCEPT ![p].link = NoLink, ![p].file = NoFile]
Finish(p) == req' = [req EXCEPT ![p] = Idle]
Start(p, pc, l, f) ==
    /\ req[p] = Idle
    /\ req' = [req EXCEPT ![p] = [Idle EXCEPT !.pc = pc, !.link = l, !.file = f]]

Fault ==
    /\ faults < MaxFaults
    /\ faults' = faults + 1

-----------------------------------------------------------------------------
(* CreateReceiveLink: the directory, then the row *)

MakeLinkDir(p, l) ==
    /\ link[l].state = "new" /\ l \notin dirs
    /\ \A q \in Requests : req[q].link # l
    /\ Start(p, "linking", l, NoFile)
    /\ dirs' = dirs \union {l}
    /\ UNCHANGED <<link, expired, seen, receivedFiles, autoShares, sweep, faults, answers,
                   history>>

\* The row is inserted, or the directory is removed again
SaveReceiveLink(p) ==
    LET l == req[p].link
    IN  /\ req[p].pc = "linking"
        /\ \/ /\ \E max \in Caps, auto \in BOOLEAN :
                    link' = [link EXCEPT ![l] = [NewLink EXCEPT !.state = "live",
                                                  !.max = max, !.auto = auto]]
              /\ UNCHANGED dirs
           \/ /\ dirs' = dirs \ {l}
              /\ UNCHANGED link
        /\ Finish(p)
        /\ UNCHANGED <<expired, seen, receivedFiles, autoShares, sweep, faults, answers,
                       history>>

-----------------------------------------------------------------------------
(* ReceiveUpload *)

Admit(p, l, f) ==
    /\ file[f].link = NoLink
    /\ Visible(l)
    /\ ~LimitReached(l)
    /\ Start(p, IF Quota = 0 THEN "admitted" ELSE "summing", l, f)
    /\ \E n \in Sizes : file' = [file EXCEPT ![f] = [link |-> l, size |-> n]]
    /\ overlapped' = (overlapped \/ \E q \in Requests : req[q].file # NoFile)
    /\ UNCHANGED <<link, expired, seen, dirs, disk, rows, autoShares, sweep, faults,
                   answers, emptied, overrun, wiped>>

Answer(p, ok) ==
    /\ accepted' = IF ok THEN accepted \union {req[p].file} ELSE accepted
    /\ refused' = IF ok THEN refused ELSE refused \union {req[p].file}

\* GetUserUsage: the bytes of the shares, then those of the links
ShareBytes == MapThenSumSet(LAMBDA f : file[f].size, shareRows)
ReceivedBytes == MapThenSumSet(LAMBDA l : link[l].total, Links)
Usage == ShareBytes + ReceivedBytes

SumShares(p) ==
    /\ req[p].pc = "summing"
    /\ Goto(p, "checking")
    /\ seen' = [seen EXCEPT ![p] = ShareBytes]
    /\ UNCHANGED <<link, expired, dirs, receivedFiles, autoShares, sweep, faults, answers,
                   history>>

\* mutant: only what the owner shares counts
WithinQuota_SharesOnly(p) == seen[p] + file[req[p].file].size <= Quota

WithinQuota(p) == seen[p] + ReceivedBytes + file[req[p].file].size <= Quota

\* The file fits; or it does not, or the quota cannot be read
CheckQuota(p) ==
    /\ req[p].pc = "checking"
    /\ \/ /\ WithinQuota(p)
          /\ Goto(p, "admitted")
          /\ UNCHANGED answers
       \/ Finish(p) /\ Answer(p, FALSE)
    /\ seen' = [seen EXCEPT ![p] = 0]
    /\ UNCHANGED <<link, expired, dirs, receivedFiles, autoShares, sweep, faults,
                   history>>

\* The directory may have been removed since the link was looked up
StoreFile(p) ==
    LET l == req[p].link
    IN  /\ req[p].pc = "admitted"
        /\ \/ /\ l \in dirs
              /\ disk' = disk \union {req[p].file}
              /\ overrun' = IF l \in emptied THEN overrun \union {l} ELSE overrun
              /\ Goto(p, "stored")
              /\ UNCHANGED answers
           \/ /\ l \notin dirs
              /\ Finish(p) /\ Answer(p, FALSE)
              /\ UNCHANGED <<disk, overrun>>
        /\ UNCHANGED <<link, expired, seen, dirs, file, rows, autoShares, sweep, faults,
                       emptied, wiped, overlapped>>

\* The copy broke off, or the virus scanner refused the file or was unreachable
StoreFails(p) ==
    /\ req[p].pc = "stored"
    /\ disk' = disk \ {req[p].file}
    /\ Finish(p) /\ Answer(p, FALSE)
    /\ UNCHANGED <<link, expired, seen, dirs, file, rows, autoShares, sweep, faults,
                   history>>

\* mutant: the received file is moved to the uploads directory
CopyToShare_Moves(p) ==
    /\ req[p].pc = "stored"
    /\ link[req[p].link].auto
    /\ req[p].file \in disk
    /\ shareFiles' = shareFiles \union {req[p].file}
    /\ disk' = disk \ {req[p].file}
    /\ Goto(p, "sharing")
    /\ UNCHANGED <<link, expired, seen, dirs, file, rows, shareRows, sweep, faults,
                   answers, history>>

CopyToShare(p) ==
    /\ req[p].pc = "stored"
    /\ link[req[p].link].auto
    /\ req[p].file \in disk
    /\ shareFiles' = shareFiles \union {req[p].file}
    /\ Goto(p, "sharing")
    /\ UNCHANGED <<link, expired, seen, dirs, receivedFiles, shareRows, sweep, faults,
                   answers, history>>

\* The link shares nothing, or the copy failed: an upload is not lost for that
SkipShare(p) ==
    /\ req[p].pc = "stored"
    /\ Goto(p, "recording")
    /\ UNCHANGED <<link, expired, seen, dirs, receivedFiles, autoShares, sweep, faults,
                   answers, history>>

SaveShare(p) ==
    LET f == req[p].file
    IN  /\ req[p].pc = "sharing"
        /\ \/ /\ shareRows' = shareRows \union {f}
              /\ req' = [req EXCEPT ![p].pc = "recording", ![p].shared = TRUE]
              /\ UNCHANGED shareFiles
           \/ /\ shareFiles' = shareFiles \ {f}
              /\ Goto(p, "recording")
              /\ UNCHANGED shareRows
        /\ UNCHANGED <<link, expired, seen, dirs, receivedFiles, sweep, faults, answers,
                       history>>

\* One transaction: the row and the link's total_size. The foreign key refuses
\* the row of a link that is gone.
SaveReceivedFile(p) ==
    LET l == req[p].link
        f == req[p].file
    IN  /\ req[p].pc = "recording"
        /\ \/ /\ link[l].state = "live"
              /\ rows' = rows \union {f}
              /\ link' = [link EXCEPT ![l].total = @ + file[f].size]
              /\ req' = [req EXCEPT ![p].pc = "counting", ![p].recorded = TRUE]
           \/ /\ Goto(p, "undoing")
              /\ UNCHANGED <<rows, link>>
        /\ UNCHANGED <<expired, seen, dirs, file, disk, autoShares, sweep, faults,
                       answers, history>>

\* The update may also fail; the handler then rolls back as if the cap were hit
IncrementReceiveLinkUploads(p) ==
    LET l == req[p].link
    IN  /\ req[p].pc = "counting"
        /\ \/ /\ Countable(l)
              /\ link' = [link EXCEPT ![l].uploads = @ + 1]
              /\ Finish(p) /\ Answer(p, TRUE)
           \/ /\ Goto(p, "undoing")
              /\ UNCHANGED <<link, answers>>
        /\ UNCHANGED <<expired, seen, dirs, receivedFiles, autoShares, sweep, faults,
                       history>>

-----------------------------------------------------------------------------
(* The roll-back of ReceiveUpload: the file, the share, the row; an error of *)
(* any of these is ignored                                                   *)

AfterUndo(p, shared, recorded) ==
    IF shared THEN Goto(p, "unsharing") /\ UNCHANGED answers
    ELSE IF recorded THEN Goto(p, "unrecording") /\ UNCHANGED answers
    ELSE Finish(p) /\ Answer(p, FALSE)

UndoFile(p) ==
    /\ req[p].pc = "undoing"
    /\ disk' = disk \ {req[p].file}
    /\ AfterUndo(p, req[p].shared, req[p].recorded)
    /\ UNCHANGED <<link, expired, seen, dirs, file, rows, autoShares, sweep, faults,
                   history>>

\* os.Remove, here or in storage.Delete, if storage.Get still finds the share
UndoShareFile(p) ==
    /\ req[p].pc = "unsharing"
    /\ shareFiles' = IF req[p].file \in shareRows THEN shareFiles \ {req[p].file}
                     ELSE shareFiles
    /\ Goto(p, "dropping")
    /\ UNCHANGED <<link, expired, seen, dirs, receivedFiles, shareRows, sweep, faults,
                   answers, history>>

\* mutant: the share of a refused file is left to expire
UndoShareRow_Keeps(p) ==
    /\ req[p].pc = "dropping"
    /\ UNCHANGED <<shareRows, faults>>
    /\ AfterUndo(p, FALSE, req[p].recorded)
    /\ UNCHANGED <<link, expired, seen, dirs, receivedFiles, shareFiles, sweep, history>>

UndoShareRow(p) ==
    /\ req[p].pc = "dropping"
    /\ \/ shareRows' = shareRows \ {req[p].file} /\ UNCHANGED faults
       \/ Fault /\ UNCHANGED shareRows
    /\ AfterUndo(p, FALSE, req[p].recorded)
    /\ UNCHANGED <<link, expired, seen, dirs, receivedFiles, shareFiles, sweep, history>>

\* mutant: the row goes, its bytes stay on the owner's account
UndoRow_KeepsTotal(p) ==
    LET f == req[p].file
    IN  /\ req[p].pc = "unrecording"
        /\ rows' = rows \ {f}
        /\ UNCHANGED <<link, faults>>
        /\ Finish(p) /\ Answer(p, FALSE)
        /\ UNCHANGED <<expired, seen, dirs, file, disk, autoShares, sweep, history>>

\* DeleteReceivedFile: one transaction, without effect if the row went with its link
UndoRow(p) ==
    LET f == req[p].file
    IN  /\ req[p].pc = "unrecording"
        /\ \/ /\ rows' = rows \ {f}
              /\ link' = IF f \in rows
                         THEN [link EXCEPT ![req[p].link].total = Max({0, @ - file[f].size})]
                         ELSE link
              /\ UNCHANGED faults
           \/ Fault /\ UNCHANGED <<rows, link>>
        /\ Finish(p) /\ Answer(p, FALSE)
        /\ UNCHANGED <<expired, seen, dirs, file, disk, autoShares, sweep, history>>

\* The owner deletes an auto-share: the interleavings inside of it are those of
\* ShareLifecycle
DeleteShare(f) ==
    /\ f \in shareRows
    /\ shareRows' = shareRows \ {f}
    /\ shareFiles' = shareFiles \ {f}
    /\ UNCHANGED <<link, expired, seen, dirs, receivedFiles, req, sweep, faults, answers,
                   history>>

-----------------------------------------------------------------------------
(* Removing a link: DeleteReceiveLink and cleanupExpiredReceiveLinks. The     *)
(* directory goes first, the row last, the rows of its files with it.        *)

EmptyDir(l) ==
    /\ disk' = disk \ FilesOf(l)
    /\ emptied' = emptied \union {l}

RemoveDir(l) == dirs' = IF disk \intersect FilesOf(l) = {} THEN dirs \ {l} ELSE dirs

DropLinks(L) ==
    /\ link' = [l \in Links |-> IF l \in L /\ link[l].state = "live"
                                THEN [link[l] EXCEPT !.state = "gone", !.total = 0]
                                ELSE link[l]]
    /\ rows' = rows \ UNION {FilesOf(l) : l \in L}

BeginDelete(p, l) ==
    /\ Visible(l)
    /\ Start(p, "emptying", l, NoFile)
    /\ UNCHANGED <<link, expired, seen, dirs, receivedFiles, autoShares, sweep, faults,
                   answers, history>>

EmptyLinkDir(p) ==
    /\ req[p].pc = "emptying"
    /\ EmptyDir(req[p].link)
    /\ Goto(p, "removing")
    /\ UNCHANGED <<link, expired, seen, dirs, file, rows, autoShares, sweep, faults,
                   answers, overrun, wiped, overlapped>>

RemoveLinkDir(p) ==
    /\ req[p].pc = "removing"
    /\ RemoveDir(req[p].link)
    /\ Goto(p, "deleting")
    /\ UNCHANGED <<link, expired, seen, receivedFiles, autoShares, sweep, faults, answers,
                   history>>

DeleteReceiveLink(p) ==
    /\ req[p].pc = "deleting"
    /\ \/ DropLinks({req[p].link}) /\ UNCHANGED faults
       \/ Fault /\ UNCHANGED <<link, rows>>
    /\ Finish(p)
    /\ UNCHANGED <<expired, seen, dirs, file, disk, autoShares, sweep, answers, history>>

Expire(l) ==
    /\ link[l].state = "live"
    /\ l \notin expired
    /\ expired' = expired \union {l}
    /\ UNCHANGED <<link, dirs, receivedFiles, autoShares, req, seen, sweep, faults, answers,
                   history>>

\* A folder share has expired: SweepUnlink of ShareLifecycle, seen from here. What
\* is in the uploads directory goes, then the directories that have stayed empty.
EmptyUploads ==
    /\ sweep = NoSweep
    /\ disk' = {} /\ shareFiles' = {}
    /\ wiped' = wiped \union disk
    /\ sweep' = [sweep EXCEPT !.turn = "uploads"]
    /\ UNCHANGED <<link, expired, seen, dirs, file, rows, shareRows, req, faults, answers,
                   emptied, overrun, overlapped>>

RemoveUploads ==
    /\ sweep.turn = "uploads"
    /\ dirs' = {l \in dirs : disk \intersect FilesOf(l) # {}}
    /\ sweep' = [sweep EXCEPT !.turn = "links"]
    /\ UNCHANGED <<link, expired, seen, receivedFiles, autoShares, req, faults, answers,
                   history>>

ExpiredLinks == {l \in expired : link[l].state = "live"}

\* The links come after the shares
SweepSelect ==
    /\ \/ sweep = NoSweep /\ ExpiredLinks # {}
       \/ sweep.turn = "links"
    /\ sweep' = [NoSweep EXCEPT !.empty = ExpiredLinks, !.remove = ExpiredLinks,
                                !.all = ExpiredLinks]
    /\ UNCHANGED <<link, expired, seen, dirs, receivedFiles, autoShares, req, faults,
                   answers, history>>

SweepEmpty(l) ==
    /\ l \in sweep.empty
    /\ EmptyDir(l)
    /\ sweep' = [sweep EXCEPT !.empty = @ \ {l}]
    /\ UNCHANGED <<link, expired, seen, dirs, file, rows, autoShares, req, faults,
                   answers, overrun, wiped, overlapped>>

\* mutant: the sweep insists on an empty directory
SweepRemove_Insists(l) ==
    /\ l \in sweep.remove \ sweep.empty
    /\ disk \intersect FilesOf(l) = {}
    /\ RemoveDir(l)
    /\ sweep' = [sweep EXCEPT !.remove = @ \ {l}]
    /\ UNCHANGED <<link, expired, seen, receivedFiles, autoShares, req, faults, answers,
                   history>>

SweepRemove(l) ==
    /\ l \in sweep.remove \ sweep.empty
    /\ RemoveDir(l)
    /\ sweep' = [sweep EXCEPT !.remove = @ \ {l}]
    /\ UNCHANGED <<link, expired, seen, receivedFiles, autoShares, req, faults, answers,
                   history>>

\* mutant: the DELETE asks again which links have expired
Swept_Requery == ExpiredLinks

\* the ids collected by the SELECT
Swept == sweep.all

SweepDrop ==
    /\ sweep.all # {} /\ sweep.empty = {} /\ sweep.remove = {}
    /\ \/ DropLinks(Swept) /\ UNCHANGED faults
       \/ Fault /\ UNCHANGED <<link, rows>>
    /\ sweep' = NoSweep
    /\ UNCHANGED <<expired, seen, dirs, file, disk, autoShares, req, answers, history>>

Restart ==
    /\ Fault
    /\ req' = [p \in Requests |-> Idle]
    /\ seen' = [p \in Requests |-> 0]
    /\ sweep' = NoSweep
    /\ UNCHANGED <<link, expired, dirs, receivedFiles, autoShares, answers, history>>

-----------------------------------------------------------------------------
Upload(p) ==
    \/ \E l \in Links, f \in Files : Admit(p, l, f)
    \/ SumShares(p) \/ CheckQuota(p) \/ StoreFile(p) \/ StoreFails(p)
    \/ CopyToShare(p) \/ SkipShare(p) \/ SaveShare(p)
    \/ SaveReceivedFile(p) \/ IncrementReceiveLinkUploads(p)
    \/ UndoFile(p) \/ UndoShareFile(p) \/ UndoShareRow(p) \/ UndoRow(p)

Manage(p) ==
    \/ \E l \in Links : MakeLinkDir(p, l) \/ BeginDelete(p, l)
    \/ SaveReceiveLink(p)
    \/ EmptyLinkDir(p) \/ RemoveLinkDir(p) \/ DeleteReceiveLink(p)

Sweep ==
    \/ RemoveUploads
    \/ SweepSelect
    \/ \E l \in Links : SweepEmpty(l) \/ SweepRemove(l)
    \/ SweepDrop

Next ==
    \/ \E p \in Requests : Upload(p) \/ Manage(p)
    \/ \E f \in Files : DeleteShare(f)
    \/ \E l \in Links : Expire(l)
    \/ EmptyUploads
    \/ Sweep
    \/ Restart

\* Nothing but the hourly sweep has to happen, and no folder share has to expire
Spec == Init /\ [][Next]_vars /\ WF_vars(Sweep)

-----------------------------------------------------------------------------
(* What it guarantees *)

\* However many uploads pass the first look at the cap together, at most
\* max_uploads of them are answered with success.
CapHonoured ==
    \A l \in Links :
        link[l].max > 0 => Cardinality(accepted \intersect FilesOf(l)) <= link[l].max

\* "Roll back the just-saved file, DB record, and auto-created share so we don't
\* leak orphaned data when returning an error": also when the link is deleted or
\* the share is, while the roll-back runs; unless one of its statements failed.
RefusedLeavesNothing ==
    faults = 0 => refused \intersect (disk \union rows \union shareFiles \union shareRows) = {}

\* An upload that was answered with success has its row for as long as nobody
\* removes its link, and its file too, unless a folder share expired meanwhile and
\* the sweep took the uploads directory with everything in it.
AcceptedIsKept ==
    \A f \in accepted :
        file[f].link \notin emptied => f \in rows /\ f \in disk \union wiped

\* total_size, which the owner's quota is held against, is the sum of the link's
\* rows in every state, also after a crash ("the two must not drift").
TotalIsSum ==
    \A l \in Links :
        link[l].total = MapThenSumSet(LAMBDA f : file[f].size, rows \intersect FilesOf(l))

\* A link that is gone leaves no directory behind, also when another link expires
\* during the sweep, unless a file was stored while the directory was removed.
GoneLinkLeavesNoDir ==
    \A l \in Links : link[l].state = "gone" /\ l \notin overrun => l \notin dirs

\* An expired link and everything it received is removed in the end, also after a
\* crash in the middle of the sweep.
ExpiredLinksAreReaped == \A l \in Links : l \in ExpiredLinks ~> link[l].state = "gone"

\* Quotas are "best-effort": two uploads at a time may overshoot. One at a time
\* never does, as long as nothing is shared as well.
QuotaHonouredInTurn ==
    Quota > 0 /\ ~overlapped /\ shareRows = {} => Usage <= Quota

\* "an anonymous uploader cannot blow past the link owner's limit" (docs/HOWTO.md)
QuotaHonoured == Quota > 0 => Usage <= Quota
=============================================================================
