--------------------------- MODULE ShareLifecycle ---------------------------
(***************************************************************************)
(* A share from upload to removal: its row in the SQLite table `shares`,   *)
(* its file in the uploads directory, the HTTP requests that work on both  *)
(* and the hourly expiry sweep.                                            *)
(*                                                                         *)
(* Every database statement is atomic and so is every file-system call;    *)
(* a handler is a sequence of them and other handlers run in between       *)
(* (net/http starts a goroutine per request, nothing locks a share).       *)
(* A process crash may cut a handler anywhere; rows and files survive it.  *)
(***************************************************************************)
EXTENDS Integers, FiniteSets

CONSTANTS
    Shares,         \* share ids (truncated UUIDs, never reused)
    Requests,       \* concurrent request goroutines
    NoShare,        \* a request that works on no share
    Kinds,          \* kinds of share the instance creates, of {"file", "folder"}
    Limits,         \* values of max_downloads a caller asks for; 0 is "unlimited",
                    \* and nothing rejects a negative one
    TTLs,           \* hours until expiry a caller asks for; 0 is "never"
    AllowEdits,     \* whether owners edit shares (PATCH /api/shares/{id})
    MaxTime,        \* bound: the clock stops here
    Never,          \* the far-future expiry of a share that does not expire
    MaxServed,      \* bound: downloads admitted per share
    MaxFaults       \* bound: process crashes plus failed DELETE statements

ASSUME ShareConstants ==
    /\ NoShare \notin Shares
    /\ Kinds \subseteq {"file", "folder"}
    /\ Limits \subseteq Int
    /\ TTLs \subseteq Nat
    /\ AllowEdits \in BOOLEAN
    /\ MaxTime \in Nat
    /\ Never \in Nat /\ Never > MaxTime
    /\ MaxServed \in Nat
    /\ MaxFaults \in Nat

VARIABLES
    row,            \* [Shares -> Row]: the table `shares`
    kindOf,         \* is_directory of each row ever written, "none" before that
    files,          \* shares whose stored file is in the uploads directory
    uploadsDir,     \* whether the uploads directory itself exists
    now,            \* the clock
    req,            \* [Requests -> Request]
    sweep,          \* the expiry sweep: what is left to unlink, and what to announce
    faults,         \* crashes and statement failures so far
    limitAnnounced, \* shares for which the limit_reached webhook was sent
    expireAnnounced,\* shares for which the expire webhook was sent
    served,         \* history: downloads counted by IncrementDownloads
    ceiling,        \* history: the largest limit the share ever had (0: unlimited)
    overwritten     \* history: shares whose counter an edit put back

stored == <<row, kindOf, files, uploadsDir>>
history == <<served, ceiling, overwritten>>
announced == <<limitAnnounced, expireAnnounced>>
vars == <<stored, now, req, sweep, faults, announced, history>>

-----------------------------------------------------------------------------
(* Rows and requests *)

Row == [exists : BOOLEAN, downloads : Nat, max : Int, expiresAt : Nat]
NoRow == [exists |-> FALSE, downloads |-> 0, max |-> 0, expiresAt |-> 0]

PCs == {"idle", "storing", "listing", "admitted", "opened", "counted", "zipping",
        "deleting", "unlinking", "dropping", "editing"}

\* snap is the share as UpdateShare's Get returned it; the other handlers write
\* nothing of their copy back
Request == [pc : PCs, share : Shares \union {NoShare}, snap : Row]
Idle == [pc |-> "idle", share |-> NoShare, snap |-> NoRow]

Exists(s) == row[s].exists

\* mutant: the sweep's cutoff lies one tick in the future
Expired_TooEarly(s) == Exists(s) /\ row[s].expiresAt <= now + 1

\* the WHERE clause of cleanupExpiredShares
Expired(s) == Exists(s) /\ row[s].expiresAt <= now
\* storage.Get: rows whose expiry has passed are not returned
Visible(s) == Exists(s) /\ now < row[s].expiresAt

\* the handlers' test of the copy they read
LimitReached(r) == r.max > 0 /\ r.downloads >= r.max
\* mutant: one download too many
Countable_OffByOne(r) == r.exists /\ (r.max = 0 \/ r.downloads <= r.max)

\* the WHERE clause of IncrementDownloads
Countable(r) == r.exists /\ (r.max = 0 \/ r.downloads < r.max)

\* expiresAtFromHours: no hours means no expiry
Expiries == {IF h = 0 THEN Never ELSE now + h : h \in TTLs}

\* createShareFile opens with O_EXCL and a fresh UUID names the file
Fresh(s) ==
    /\ kindOf[s] = "none"
    /\ s \notin files
    /\ \A p \in Requests : req[p].share # s

Goto(p, pc) == req' = [req EXCEPT ![p].pc = pc]

\* mutant: the step is not reset with the share
Finish_KeepsStep(p) == req' = [req EXCEPT ![p].share = NoShare]
Finish(p) == req' = [req EXCEPT ![p] = Idle]
Start(p, s, pc, snap) ==
    /\ req[p] = Idle
    /\ req' = [req EXCEPT ![p] = [pc |-> pc, share |-> s, snap |-> snap]]

RaisedCeiling(c, max) == IF c = 0 \/ max = 0 THEN 0 ELSE IF c < max THEN max ELSE c

TypeOK ==
    /\ row \in [Shares -> Row]
    /\ kindOf \in [Shares -> {"none", "file", "folder"}]
    /\ files \subseteq Shares
    /\ uploadsDir \in BOOLEAN
    /\ now \in Nat
    /\ req \in [Requests -> Request]
    /\ \A p \in Requests : req[p].pc # "idle" => req[p].share \in Shares
    /\ sweep \in [pc : {"idle", "unlinking", "announcing"},
                  todo : SUBSET Shares, done : SUBSET Shares]
    /\ faults \in Nat
    /\ limitAnnounced \subseteq Shares
    /\ expireAnnounced \subseteq Shares
    /\ served \in [Shares -> Nat]
    /\ ceiling \in [Shares -> Int]
    /\ overwritten \subseteq Shares

Init ==
    /\ row = [s \in Shares |-> NoRow]
    /\ kindOf = [s \in Shares |-> "none"]
    /\ files = {}
    /\ uploadsDir = TRUE
    /\ now = 0
    /\ req = [p \in Requests |-> Idle]
    /\ sweep = [pc |-> "idle", todo |-> {}, done |-> {}]
    /\ faults = 0
    /\ limitAnnounced = {}
    /\ expireAnnounced = {}
    /\ served = [s \in Shares |-> 0]
    /\ ceiling = [s \in Shares |-> 0]
    /\ overwritten = {}

-----------------------------------------------------------------------------
(* Creating a share: UploadFile, UploadMultipleFiles (each file of it),    *)
(* ShareFromPath and the tail of FinalizeChunkUpload write the file first  *)
(* and the row last; ShareFolder writes a row and no file.                 *)

CreateFile(p, s) ==
    /\ "file" \in Kinds
    /\ Fresh(s)
    /\ uploadsDir
    /\ Start(p, s, "storing", NoRow)
    /\ files' = files \union {s}
    /\ UNCHANGED <<row, kindOf, uploadsDir, now, sweep, faults, announced, history>>

\* the copy, the password hash or Save failed: os.Remove(destPath)
AbandonUpload(p) ==
    /\ req[p].pc = "storing"
    /\ files' = files \ {req[p].share}
    /\ Finish(p)
    /\ UNCHANGED <<row, kindOf, uploadsDir, now, sweep, faults, announced, history>>

InsertRow(s, kind, max, expiresAt) ==
    /\ row' = [row EXCEPT ![s] = [exists |-> TRUE, downloads |-> 0, max |-> max,
                                  expiresAt |-> expiresAt]]
    /\ kindOf' = [kindOf EXCEPT ![s] = kind]
    /\ ceiling' = [ceiling EXCEPT ![s] = max]

SaveShare(p) ==
    /\ req[p].pc = "storing"
    /\ \E max \in Limits, e \in Expiries : InsertRow(req[p].share, "file", max, e)
    /\ Finish(p)
    /\ UNCHANGED <<files, uploadsDir, now, sweep, faults, announced, served, overwritten>>

\* a folder share without hours lasts a day (here: one tick), never forever
FolderHours(h) == IF h = 0 THEN 1 ELSE h

ShareFolder(p, s) ==
    /\ "folder" \in Kinds
    /\ Fresh(s)
    /\ Start(p, s, "listing", NoRow)
    /\ \E max \in Limits, h \in TTLs : InsertRow(s, "folder", max, now + FolderHours(h))
    /\ UNCHANGED <<files, uploadsDir, now, sweep, faults, announced, served, overwritten>>

\* SaveFolderContents succeeds, or fails and the handler calls storage.Delete
SaveFolderContents(p) ==
    /\ req[p].pc = "listing"
    /\ Finish(p) \/ Goto(p, "deleting")
    /\ UNCHANGED <<stored, now, sweep, faults, announced, history>>

-----------------------------------------------------------------------------
(* Serving a share: DownloadFile, StreamFile and DownloadFolderZip *)

BeginDownload(p, s) ==
    /\ Visible(s)
    /\ ~LimitReached(row[s])
    /\ served[s] < MaxServed
    /\ \/ Start(p, s, "admitted", NoRow)
       \/ kindOf[s] = "folder" /\ Start(p, s, "zipping", NoRow)
    /\ UNCHANGED <<stored, now, sweep, faults, announced, history>>

\* A folder share's path is the uploads directory itself (FileName is empty)
Openable(s) == IF kindOf[s] = "folder" THEN uploadsDir ELSE s \in files

OpenFile(p) ==
    /\ req[p].pc = "admitted"
    /\ IF Openable(req[p].share) THEN Goto(p, "opened") ELSE Finish(p)
    /\ UNCHANGED <<stored, now, sweep, faults, announced, history>>

\* A Range request to StreamFile is served without being counted
ServeRange(p) ==
    /\ req[p].pc = "opened"
    /\ Finish(p)
    /\ UNCHANGED <<stored, now, sweep, faults, announced, history>>

IncrementDownloads(s) ==
    /\ Countable(row[s])
    /\ row' = [row EXCEPT ![s].downloads = @ + 1]
    /\ served' = [served EXCEPT ![s] = @ + 1]

CountDownload(p) ==
    /\ req[p].pc \in {"opened", "zipping"}
    /\ IncrementDownloads(req[p].share)
    /\ IF req[p].pc = "opened" THEN Goto(p, "counted") ELSE Finish(p)
    /\ UNCHANGED <<kindOf, files, uploadsDir, now, sweep, faults, announced,
                   ceiling, overwritten>>

\* No row was updated, or the statement failed: the handlers refuse both ways
RefuseDownload(p) ==
    /\ req[p].pc \in {"opened", "zipping"}
    /\ \/ ~Countable(row[req[p].share]) /\ UNCHANGED faults
       \/ faults < MaxFaults /\ faults' = faults + 1
    /\ Finish(p)
    /\ UNCHANGED <<stored, now, sweep, announced, history>>

\* mutant: only the download after the last allowed one would notice
SeesLimit_TooLate(p) ==
    Visible(req[p].share) /\ row[req[p].share].downloads > row[req[p].share].max

\* The handler reads the share again and announces a limit that is now reached
SeesLimit(p) == Visible(req[p].share) /\ LimitReached(row[req[p].share])

NotifyDownload(p) ==
    /\ req[p].pc = "counted"
    /\ limitAnnounced' = IF SeesLimit(p) THEN limitAnnounced \union {req[p].share}
                         ELSE limitAnnounced
    /\ Finish(p)
    /\ UNCHANGED <<stored, now, sweep, faults, expireAnnounced, history>>

-----------------------------------------------------------------------------
(* Deleting a share: DeleteShare, BulkDeleteShares (each id of it) and the *)
(* roll-back of ShareFolder                                                *)

BeginDelete(p, s) ==
    /\ Visible(s)
    /\ Start(p, s, "deleting", NoRow)
    /\ UNCHANGED <<stored, now, sweep, faults, announced, history>>

RemoveRow(s) == row' = [row EXCEPT ![s] = NoRow]

\* storage.Delete reads the share again; of one that has expired since then (or is
\* gone) only the row is deleted
DeleteLookup(p) ==
    /\ req[p].pc = "deleting"
    /\ Goto(p, IF Visible(req[p].share) THEN "unlinking" ELSE "dropping")
    /\ UNCHANGED <<stored, now, sweep, faults, announced, history>>

\* os.Remove, skipped for a folder share; files holds no folder share
DeleteFile(p) ==
    /\ req[p].pc = "unlinking"
    /\ files' = files \ {req[p].share}
    /\ Goto(p, "dropping")
    /\ UNCHANGED <<row, kindOf, uploadsDir, now, sweep, faults, announced, history>>

DeleteRow(p) ==
    /\ req[p].pc = "dropping"
    /\ RemoveRow(req[p].share)
    /\ Finish(p)
    /\ UNCHANGED <<kindOf, files, uploadsDir, now, sweep, faults, announced, history>>

DeleteRowFails(p) ==
    /\ req[p].pc = "dropping"
    /\ faults < MaxFaults
    /\ faults' = faults + 1
    /\ Finish(p)
    /\ UNCHANGED <<stored, now, sweep, announced, history>>

-----------------------------------------------------------------------------
(* Editing a share: UpdateShare reads the whole row, changes fields of its *)
(* copy and writes the whole copy back                                     *)

BeginEdit(p, s) ==
    /\ AllowEdits
    /\ Visible(s)
    /\ Start(p, s, "editing", row[s])
    /\ UNCHANGED <<stored, now, sweep, faults, announced, history>>

\* The request may change the limit, the expiry, both or neither (the password
\* only). storage.Save is an upsert: a row deleted meanwhile is inserted again.
SaveEdit(p) ==
    LET s == req[p].share
        snap == req[p].snap
    IN  /\ req[p].pc = "editing"
        /\ \E max \in Limits \union {snap.max}, e \in Expiries \union {snap.expiresAt} :
              /\ row' = [row EXCEPT ![s] = [snap EXCEPT !.max = max, !.expiresAt = e]]
              /\ ceiling' = [ceiling EXCEPT ![s] = RaisedCeiling(@, max)]
        /\ overwritten' = IF row[s].exists /\ row[s].downloads = snap.downloads
                          THEN overwritten ELSE overwritten \union {s}
        /\ Finish(p)
        /\ UNCHANGED <<kindOf, files, uploadsDir, now, sweep, faults, announced, served>>

-----------------------------------------------------------------------------
(* The hourly sweep: cleanupExpiredShares *)

SweepSelect ==
    /\ sweep.pc = "idle"
    /\ \E s \in Shares : Expired(s)
    /\ sweep' = [pc |-> "unlinking", todo |-> {s \in Shares : Expired(s)}, done |-> {}]
    /\ UNCHANGED <<stored, now, req, faults, announced, history>>

\* mutant: the webhook goes out with the file, before the DELETE
SweepUnlink_NotifiesFirst(s) ==
    /\ sweep.pc = "unlinking"
    /\ s \in sweep.todo
    /\ files' = files \ {s}
    /\ sweep' = [sweep EXCEPT !.todo = @ \ {s}, !.done = @ \union {s}]
    /\ expireAnnounced' = expireAnnounced \union {s}
    /\ UNCHANGED <<row, kindOf, uploadsDir, now, req, faults, limitAnnounced, history>>

\* mutant: an id is collected only if its file was there to remove
SweepUnlink_SkipsMissing(s) ==
    /\ sweep.pc = "unlinking"
    /\ s \in sweep.todo
    /\ files' = IF kindOf[s] = "folder" THEN {} ELSE files \ {s}
    /\ uploadsDir' = (uploadsDir /\ kindOf[s] # "folder")
    /\ sweep' = [sweep EXCEPT !.todo = @ \ {s},
                              !.done = IF s \in files THEN @ \union {s} ELSE @]
    /\ UNCHANGED <<row, kindOf, now, req, faults, announced, history>>

\* For a directory the code calls os.RemoveAll on Join(uploadsDir, FileName),
\* and FileName is empty: the whole uploads directory goes.
SweepUnlink(s) ==
    /\ sweep.pc = "unlinking"
    /\ s \in sweep.todo
    /\ files' = IF kindOf[s] = "folder" THEN {} ELSE files \ {s}
    /\ uploadsDir' = (uploadsDir /\ kindOf[s] # "folder")
    /\ sweep' = [sweep EXCEPT !.todo = @ \ {s}, !.done = @ \union {s}]
    /\ UNCHANGED <<row, kindOf, now, req, faults, announced, history>>

\* mutant: the DELETE asks again which rows have expired
Reaped_Requery == {s \in Shares : Expired(s)}

\* the ids collected while unlinking
Reaped == sweep.done

SweepDeleteRows ==
    /\ sweep.pc = "unlinking"
    /\ sweep.todo = {}
    /\ row' = [s \in Shares |-> IF s \in Reaped THEN NoRow ELSE row[s]]
    /\ sweep' = [sweep EXCEPT !.pc = "announcing"]
    /\ UNCHANGED <<kindOf, files, uploadsDir, now, req, faults, announced, history>>

\* the DELETE failed: nothing is announced, the next sweep tries again
SweepDeleteFails ==
    /\ sweep.pc = "unlinking"
    /\ sweep.todo = {}
    /\ faults < MaxFaults
    /\ faults' = faults + 1
    /\ sweep' = [pc |-> "idle", todo |-> {}, done |-> {}]
    /\ UNCHANGED <<stored, now, req, announced, history>>

\* onShareExpired, once per removed share; the last one ends the sweep
SweepNotify(s) ==
    /\ sweep.pc = "announcing"
    /\ s \in sweep.done
    /\ expireAnnounced' = expireAnnounced \union {s}
    /\ sweep' = IF sweep.done = {s} THEN [pc |-> "idle", todo |-> {}, done |-> {}]
                ELSE [sweep EXCEPT !.done = @ \ {s}]
    /\ UNCHANGED <<stored, now, req, faults, limitAnnounced, history>>

Sweep ==
    \/ SweepSelect
    \/ \E s \in Shares : SweepUnlink(s) \/ SweepNotify(s)
    \/ SweepDeleteRows

-----------------------------------------------------------------------------
Tick ==
    /\ now < MaxTime
    /\ now' = now + 1
    /\ UNCHANGED <<stored, req, sweep, faults, announced, history>>

\* The process dies and starts again: NewSQLiteStorage makes the uploads directory
Restart ==
    /\ faults < MaxFaults
    /\ faults' = faults + 1
    /\ uploadsDir' = TRUE
    /\ req' = [p \in Requests |-> Idle]
    /\ sweep' = [pc |-> "idle", todo |-> {}, done |-> {}]
    /\ UNCHANGED <<row, kindOf, files, now, announced, history>>

Handle(p) ==
    \/ \E s \in Shares : CreateFile(p, s) \/ ShareFolder(p, s) \/ BeginDownload(p, s)
                         \/ BeginDelete(p, s) \/ BeginEdit(p, s)
    \/ AbandonUpload(p) \/ SaveShare(p) \/ SaveFolderContents(p)
    \/ OpenFile(p) \/ ServeRange(p) \/ CountDownload(p) \/ RefuseDownload(p)
    \/ NotifyDownload(p)
    \/ DeleteLookup(p) \/ DeleteFile(p) \/ DeleteRow(p) \/ DeleteRowFails(p)
    \/ SaveEdit(p)

Next ==
    \/ \E p \in Requests : Handle(p)
    \/ Sweep
    \/ SweepDeleteFails
    \/ Tick
    \/ Restart

\* The Go scheduler runs the sweep's goroutine whenever it can take a step;
\* nothing obliges a client to send a request or to finish one.
Spec == Init /\ [][Next]_vars /\ WF_vars(Sweep)

-----------------------------------------------------------------------------
(* What it guarantees *)

\* However downloads, streams, archives and edits interleave, a share serves at
\* most as many counted downloads as the largest limit its owner ever gave it,
\* unless an edit put its counter back (see CounterNeverFalls).
LimitHonoured ==
    \A s \in Shares : ceiling[s] > 0 /\ s \notin overwritten => served[s] <= ceiling[s]

\* An edit "preserves all other fields" (UpdateShare): while a row exists its
\* download counter never goes down.
CounterNeverFalls ==
    [][\A s \in Shares : Exists(s) /\ row'[s].exists =>
          row'[s].downloads >= row[s].downloads]_vars

\* Every file share a visitor can still see has its file on disk, except while
\* its owner's delete is between removing the file and removing the row.
LiveShareHasFile ==
    \A s \in Shares : Visible(s) /\ kindOf[s] = "file" =>
        \/ s \in files
        \/ \E p \in Requests : req[p].share = s /\ req[p].pc = "dropping"

\* The request that used up a share's budget reports it: once no counted
\* download is waiting to report, a visible share at its limit was announced,
\* even if the last two downloads were counted before either looked again.
LimitReachedIsAnnounced ==
    \A s \in Shares :
        /\ Visible(s) /\ kindOf[s] = "file" /\ LimitReached(row[s])
        /\ \A p \in Requests : req[p].share = s => req[p].pc # "counted"
        => s \in limitAnnounced

\* The expire webhook is sent only for a share that is really gone: never
\* before the DELETE, and never for a share that is still there afterwards.
ExpireAnnouncedIsGone == \A s \in expireAnnounced : ~Exists(s)

\* The sweep removes exactly the rows whose files it removed, also when another
\* share expires while it runs: it never leaves a file without a row.
SweepLeavesNoOrphan ==
    [][sweep.pc = "unlinking" /\ sweep'.pc = "announcing" =>
          \A s \in Shares : Exists(s) /\ ~row'[s].exists => s \notin files]_vars

\* An expired row does not stay: a sweep removes it, also after a failed DELETE
\* or a crash in the middle of one, unless an edit in flight extends it first.
ExpiredSharesAreReaped == \A s \in Shares : Expired(s) ~> ~Expired(s)

\* Without edits a share behaves like the abstract download budget: it opens
\* once, grants at most its limit while open, and never comes back.
Budget == INSTANCE DownloadBudget WITH
    status <- [s \in Shares |-> IF kindOf[s] = "none" THEN "new"
                                ELSE IF row[s].exists THEN "open" ELSE "closed"],
    budget <- ceiling,
    granted <- served
BudgetRefined == Budget!BudgetSpec
=============================================================================
