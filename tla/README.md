# Verification of casadrop in TLA+

casadrop is a self-hosted file-sharing server: one Go process, one SQLite database, one
uploads directory, and a goroutine per HTTP request. This directory models the parts of it
where requests, background workers, failed writes and crashes meet, checks them with TLC on
small instances, and proves the safety properties with TLAPS for every instance. All paths
below are relative to `src/`, `sqlite.go` is `internal/storage/sqlite.go`, `auth.go` is
`internal/middleware/auth.go`, `oidc.go` is `internal/auth/oidc.go`, and the other bare file
names are in `internal/handlers/`. `PROJECT.json` maps every definition to the lines it
stands for.

## 1. The system

| Component | State it keeps | Operations | What is hard about it | What makes it correct | Module |
|---|---|---|---|---|---|
| share lifecycle (`upload.go`, `download.go`, `folder.go`, `handlers.go`, `sqlite.go`) | table `shares`, files in the uploads directory | upload, share from path, share a folder, download, stream, archive, edit, delete, hourly sweep | no lock on a share; files and rows change in separate steps; a handler works on a copy of a row | limit honoured, counter never falls, visible share has its file, webhooks tell the truth, expired shares go | `ShareLifecycle`, `DownloadBudget` |
| chunked upload (`upload.go`, `chunk_persist.go`) | registry in memory, a temp directory with manifest and chunk files | init, chunk, status, finalize, 15-minute clean-up, restore | the mutex is released around every file operation; a client chooses the length of each chunk body, also of a re-sent one; a crash keeps the disk and loses the registry | one share per upload, the client's bytes, declared size is a cap, left-overs go | `ChunkUpload` |
| receive links (`receive.go`, `sqlite.go`) | tables `receive_links`, `received_files`, a directory per link, auto-shares | create, upload, delete, hourly sweep | the cap is checked twice, an upload makes five records and takes them back on refusal, the link may go meanwhile | cap honoured, refusal leaves nothing, acceptance is kept, byte count exact | `ReceiveLinks` |
| storage quota (`handlers.go`, `sqlite.go`) | sums over shares and links | check before every upload | two sums at two moments, check and record apart | usage stays below the quota | `ReceiveLinks` (received files only) |
| admin sessions (`auth.go`, `sessions.go`) | map of sessions, `sessions.json` | log in, look up, extend, log out, revoke, log out everywhere else, clean up, load | the mutex is released between look-up and extension; the file may fail to be written | a revoked session stays revoked, nobody is let in too late | `AdminSessions` |
| log-in, set-up, TOTP (`auth.go`, `internal/totp`) | configuration and its file, set-up token, last TOTP counter, CSRF tokens | set up, log in, second factor, enrol, disable | two mutexes taken one after the other; a write may fail | token and codes are used once, the second factor is asked for | `AdminLogin` |
| rate limits (`auth.go`, `internal/middleware/ratelimit.go`, `download.go`) | fixed windows per address, wrong passwords per share and address | allow, count a failure, reset, clean up | the share password is compared between the question and the count | windows hold, guesses are bounded | `RateLimits` |
| proof of work (`internal/pow`) | set of spent challenges | issue, verify, clean up | the age is tested before the mutex is taken | single use | `ReceiveChallenges` |
| OIDC log-in, users (`oidc.go`, `users.go`, `sqlite.go`) | pending states, table `users` | begin, call-back, link, provision; create, edit, own profile, delete | whole-row writes of a copy, by admins, users and log-ins at the same time; the exchange with the provider takes as long as it likes | the last decision of an admin on role and state holds: a deactivated account stays out, no admin by log-in | `UserAccounts` |
| webhook delivery (`internal/webhook`) | slots, wait group, stop flag, settings | dispatch, send, stop, edit the settings. A failed delivery is not tried again | flag, slots and group are three things | nothing is delivered after `Stop` returned | `WebhookDelivery` |
| email transfers (`email.go`, `internal/email`) | table `email_transfers` | record, send, withdraw; hourly warnings | record, mail and mark are apart, by a request and by a worker | only recipients are warned, once per record | `EmailTransfers` |
| saved settings of webhook, OIDC and mail (`webhook.go`, `oidc.go`, `email.go`) | settings in memory and on disk, each with a credential | save, restart | three lock disciplines | a form without the credential leaves it as it was | `SavedSettings` |
| tunnel configuration (`handlers.go`) | a file, a 30-second cache | load, save | the mutex guards the cache, not the file | the cache catches up with the file | `TunnelSettings` |
| start-up, shutdown, metadata migration (`cmd/server/main.go`, `internal/storage/migrate.go`) | the workers; `shares.json` and the new database | open, migrate, serve, drain, stop | a crash or a failed statement in the middle; the order in which workers and handlers stop | nothing is lost; no handler outlives what it uses | `ServerRun` |
| audit log (`internal/audit`, `events.go`) | a table | one INSERT per event in the request that caused it, a daily DELETE | - | - | not modelled: nothing reads what it writes |
| thumbnails (`internal/preview`) | cache files | render, serve | a file is written in place | - | not modelled |
| virus scan, Tailscale, network, host browsing | none | calls to other programs | - | - | not modelled: external, no state |
| API keys, health, metrics, headers, translation, helpers, storage facade | counters, single rows | single statements | - | - | not modelled: no interleaving to go wrong |
| web client (`web/static`) | the browser's | - | - | - | environment: `ChunkUpload` allows every order of requests |

**How they interact.** All handlers call the SQLite store, which runs one statement (or one
transaction) at a time, and change files between the calls. The store's hourly goroutine
sweeps expired shares and then expired receive links. The directories of the links
are inside the uploads directory, which the sweep of the shares removes as a whole when a folder share
has expired (`sqlite.go:1411`). A finalized chunked upload, and an
upload to a link with `auto_share`, end in the same `storage.Save` as a direct upload. The store
calls the webhooks back when a share expired, the download handler when one was downloaded or
reached its limit. The quota check reads what shares and receive links record. A log-in of any
kind ends in the creation of a session, which carries a copy of the user's role; deleting or
deactivating a user does not end the sessions there are. Saving the OIDC settings replaces the
provider while log-ins hold states of the old one. The signal that ends the process meets all of
this: `main` stops the workers of every component in one fixed order.

## 2. The modules

| Module | What it is |
|---|---|
| `DownloadBudget` | abstract: a share opens once with a budget, grants at most that many downloads, closes for good |
| `ShareLifecycle` | the share handlers and the sweep, statement by statement; implements `DownloadBudget` when nothing is edited |
| `ChunkUpload` | the chunk handlers, clean-up, crash and restore, by file-system call and critical section |
| `ReceiveLinks` | receive links, their uploads with auto-share and roll-back, the quota of a received file, deletion and sweep |
| `AdminSessions` | the session map and its file |
| `AdminLogin` | the set-up wizard, the password, the second factor and its enrolment |
| `RateLimits` | the fixed-window limiter and the limiter of share passwords |
| `ReceiveChallenges` | the proof of work of receive links |
| `UserAccounts` | the table of users, edited by admins, by themselves and by OIDC log-ins |
| `WebhookDelivery` | dispatch and `Stop` |
| `EmailTransfers` | sending a share by mail, and the hourly warnings |
| `SavedSettings` | the settings with a credential, in three stores |
| `TunnelSettings` | the network settings behind their cache |
| `ServerRun` | migration, serving, signal, the order of shutdown |
| `MCShareLifecycle`, `MCChunkUpload`, `MCReceiveLinks`, `MCServer` | the instances TLC checks: model values, and symmetry where no liveness is checked |
| `ShareLifecycleProofs`, `ChunkUploadProofs`, `ReceiveLinksProofs`, `AdminAccessProofs`, `LimitsProofs`, `UserAccountsProofs`, `ServerProofs` | the theorems of section 4; `ServerProofs` has those of webhooks, mails, settings, tunnel and start-up, and of all ten modules together |
| `SumTheorems` | lemmas about sums over finite sets, for the proofs about totals, quota, sizes and rates |

**What a step is.** One SQL statement or transaction (SQLite in WAL mode, one writer at a time),
one file-system call, one critical section of a mutex, or one call that leaves the process (a mail, a
webhook, the exchange of an OIDC code). Everything a handler does between two of these is part of the
earlier step. A request is a record with a program counter; a crash (`Restart`) puts every request
and every worker back to idle, and leaves tables and files as they are. `os.RemoveAll` on the
directory of a link or of an upload is two steps, removing the files and removing the directory, because a file
that is created between them keeps the directory; nobody looks at its error. A small file that is written inside a critical section (`sessions.json`,
`admin_config.json`) is written in that step, which may fail; a crash in the middle of such a write
is a failure followed by a restart.

**History variables.** Several properties hold but for a race or a fault that the code does not
exclude. A history variable then names exactly the cases, so that the property says what remains true:

| Variable | Module | What it records |
|---|---|---|
| `overlapped` | `ChunkUpload` | a chunk was read while it was written, or written by two requests at a time with bodies of different lengths |
| `cut` | `ChunkUpload` | an upload was restored after a crash with a chunk file that was not whole |
| `littered` | `ChunkUpload` | a chunk file was created while the upload's directory was being removed, or a crash cut the removal short |
| `overrun` | `ReceiveLinks` | a file was stored in a link's directory after somebody had begun to remove it |
| `wiped` | `ReceiveLinks` | received files that went with the uploads directory when a folder share expired |
| `overlapped` | `ReceiveLinks` | an upload began while another was under way |
| `outdated` | `UserAccounts` | requests that hold a row which was written since they read it; what such a request writes back replaces a decision |
| `excused` | `AdminSessions` | the last write of `sessions.json` failed before a restart |
| `overdue` | `ReceiveChallenges` | a challenge ran out between the test of its age and the mutex |
| `straddling` | `WebhookDelivery` | an event was between the stop flag and the wait group when the flag was set |
| `early`, `stranded`, `repeated` | `EmailTransfers` | a record was listed before its mail was out, could not be withdrawn, could not be marked |
| `overtaken` | `TunnelSettings` | a load or save was overtaken, or failed |
| `loose` | `SavedSettings` | a read or write of settings failed, or two saves overlapped without a lock |
| `spoiled` | `ServerRun` | a crash inside a migration, or a database that could not be removed |

The others (`accepted`, `refused`, `emptied`, `sent`, `broken`, `promoted`, `disabled`, `barred` and those the modules
declare as history) say what happened, for the properties to compare the state with. `promoted` and `disabled` follow the
last decision of an admin on an account: they grow and shrink with it.

### ShareLifecycle
- `row` is the table `shares` (only the columns something depends on), `files` the files in the
  uploads directory, `uploadsDir` the directory itself, `kindOf` the column `is_directory`.
- Creation: `CreateFile`, `SaveShare`, `AbandonUpload`, `ShareFolder`, `SaveFolderContents`.
  Serving: `BeginDownload`, `OpenFile`, `ServeRange`, `CountDownload`, `RefuseDownload`,
  `NotifyDownload`. Deletion: `BeginDelete` to `DeleteRow`;
  `DeleteLookup` is `storage.Get`, after which an expired share or one without a file is dropped by a statement of
  its own (`DeleteRow`, `DeleteRowFails`). Editing: `BeginEdit`, `SaveEdit`.
  Sweep: `SweepSelect`, `SweepUnlink`, `SweepDeleteRows`, `SweepDeleteFails`, `SweepNotify`.
- A password, a MIME type and the bytes of a file are left out; none of the steps above depends on
  what they are, only on whether a call failed, which is a choice.

### ChunkUpload
- `reg`, `received`, `sizes`, `receivedBytes` are the fields of the registry; `dirs`, `manifests`,
  `present`, `bytes` are the disk. `bytes` says, block by block, what of a chunk file is the client's;
  `linked` in a request says whether its open file still has a name.
- The length of a body (`len` in a request) is chosen with each request, from 1 to the bound `ChunkLen`, so a
  re-sent chunk may be shorter or longer than the one before. `sent` remembers the length of the body a file was created
  for last: the file is whole when it holds exactly that. What `RecordChunk` counts is what was copied.
- `BeginChunk`, `CreateChunkFile`, `CopyBlock`, `CopyFails`, `RecordChunk`, `DiscardChunk` are
  `UploadChunk`; `BeginFinalize` to `SaveUpload` are `FinalizeChunkUpload`; `Restart` is a
  crash followed by `RestoreChunkUploads`.
- A finalize takes the upload out of the registry (`TakeUpload`) and only then reads the rest of its own body
  (`DecodeForm`): a wait for the client. The assembly opens a chunk (`OpenChunk`) and is done with it (`CloseChunk`) in two
  steps; a writer that truncates the file in between may spoil what was read, or may come too late to.
- `ClearDir` and `RemoveDir` are the two halves of `os.RemoveAll`, in `DropUpload`/`EndDrop`,
  `EndAssembly`/`EndClear`, and `EmptyExpired`/`RemoveExpired`; the last pair holds the mutex (`cleaning`), which a chunk
  file is created without. A crash between or inside them leaves any part of the files.

### ReceiveLinks
- `link` is the table `receive_links`, `rows` is `received_files`, `disk` and `dirs` are the
  directory tree, `shareRows` and `shareFiles` are the auto-shares.
- `Admit` to `IncrementReceiveLinkUploads` are `ReceiveUpload`, `UndoFile` to `UndoRow` its
  roll-back, `BeginDelete` to `DeleteReceiveLink` the owner's delete, and `Sweep...` is
  `cleanupExpiredReceiveLinks`. The interleavings inside the deletion of an auto-share are those of
  `ShareLifecycle`; here it is one step.
- `EmptyUploads` and `RemoveUploads` are the sweep of the shares at its worst: a folder share has expired, and the
  uploads directory goes with the received files, the auto-shared copies and the directories in it. `sweep.turn` keeps the
  order of the hourly worker, shares first, links then. The rows stay, in `receive_links` and `received_files`. A link's
  directory is made when the link is created and never again (`receive.go:106`), so `StoreFile` finds none and a link that
  lost it refuses every later upload.

### AdminSessions, AdminLogin
- A step is a critical section of the session map's mutex, in `AdminLogin` of the configuration's or the
  form tokens' mutex. `sessions` and `sessionsFile` are the map and `sessions.json`; `config` and
  `configFile` the configuration and `admin_config.json`. The two modules are apart because their state
  is: a log-in that succeeds ends in `CreateSessionForUser`.
- A request to the admin interface is `Arrive` (`getSession` under the read lock), `ExtendSession` (write
  lock), and one of the handlers `Serve`, `RevokeSession`, `RevokeOtherSessions`, `Logout`. An expiry is
  written only if it advances by more than `Minute`.
- `SubmitLogin` or `SubmitJSONLogin`, `ResolveLogin`, `AskFactor`, `VerifyCode`, `Grant` are a log-in;
  `BeginSetup` to `SetPassword` and `RegenerateSetupToken` the wizard; `BeginEnable`, `EnableTOTP`,
  `BeginDisable`, `CheckDisableCode`, `DisableTOTP` the enrolment. Time is counted in steps of TOTP; a code
  is the step it was made in.

### RateLimits, ReceiveChallenges
- `NewWindow` and `SameWindow` are `Allow` of the fixed-window limiter; a guess of a share password is `BeginGuess`
  (`isBlocked`) and `EndGuess` (the comparison's outcome, `recordFailure` or `resetAttempts`). Both
  clean-ups are actions.
- `BeginVerify` tests the age of a challenge without the mutex, `Spend` looks for it among the spent ones
  under the mutex and enters it, `CheckSolution` hashes; a challenge stays spent when its solution is wrong.

### UserAccounts
- `account` is the table `users` with its two unique constraints; a request is the statement it is at and
  the copy of the row it read, and what of role and state its admin asked for (`decides`). `SaveUser`, `SaveLogin` and
  `LinkAccount` write the whole copy (`UpdateUser`), whatever has been written since; the statement may also fail
  (`UpdateFails`).
- An OIDC log-in is `GenerateAuthURL`, `TakeState` (a critical section of the provider's mutex),
  `ExchangeFails` or `FindBySubject`, then `SaveLogin`, or `FindByEmail` with `LinkAccount` or `Provision`, and
  `SessionStarts`. The provider may answer with any subject and email, verified or not.
- `AuthenticateLocalUser` is a log-in by password as far as the table goes: it needs an active account. What else it
  asks for is in `AdminLogin`.

### WebhookDelivery, EmailTransfers
- `notice` says where an event is: `TestStopped`, `TakeSlot` (or dropped), `JoinGroup`, `SendWebhook`,
  `LeaveGroup`; `StopWebhooks`, `WebhooksDrained`, `WebhooksTimeOut` are `Stop`.
- `SaveRecord`, `SendTransferEmail`, `WithdrawRecord` are `SendEmailTransfer`; `ListTransfers`,
  `SendExpiryWarning`, `MarkNotified` one hour of the notifier. `Marked` sets `notified_at` of all records of
  the share, as the statement does.

### SavedSettings, TunnelSettings
- `disk` and `memory` are one of the three stores, chosen at the start of a behaviour; a form is a
  credential, nothing, or the mask. The webhook is copied, changed and saved under the lock, file first; OIDC is
  merged and saved under one lock, memory first; the mail settings are read, written and handed to the
  mailer without a lock. `LoadSettings` is what a restart makes of the disk.
- `LoadCached`, `BeginLoad`, `ReadFile`, `FillCache` are `loadTunnelConfig`; `BeginSave` is `saveTunnelURL`, `WriteFile`
  and `FillCache` are `saveTunnelConfig`. Settings are told apart by the number of the save they came with.

### ServerRun
- `stage` is where `main` is. `StartServer` decides between migrating and opening; `CreateDatabase`,
  `MigrateShare`, `CloseDatabase`, `RenameToBackup` are the migration, `MigrationFails` each of its refusals with
  the removal of the new database, which may fail as well. `Signal`, `ShutdownReturns`, `StopWorker`,
  `MainReturns` are the end; `Workers` lists what is stopped in the order of `main.go`.

## 3. What TLC checks

| Run | Question | Result |
|---|---|---|
| `share_core` | two file shares, two requests, no edits or faults: `LiveShareHasFile`, `LimitReachedIsAnnounced`, `ExpireAnnouncedIsGone`, `SweepLeavesNoOrphan`, and `BudgetRefined` (the refinement of `DownloadBudget`) | hold |
| `share_edits` | one share, two requests, edits, folders, one crash or failed statement: `TypeOK`, `LimitHonoured`, `ExpiredSharesAreReaped` | hold |
| `share_folder_expiry` | `LiveShareHasFile` when a folder share expires | violated |
| `share_stale_edit` | `CounterNeverFalls` when an edit races a download | violated |
| `chunk_core` | two requests on one upload of two chunks, a broken connection, a crash: `TypeOK`, `OneSharePerUpload`, `SharedIsFinished`, `BrokenHasACause`, `DeclaredSizeIsACap`, `InterruptedUploadsGo` | hold |
| `chunk_crash` | `SharesAreWhole` across a crash | violated |
| `chunk_resend` | `ReportedIsOnDisk` when a re-sent chunk fails | violated |
| `receive_core` | three requests, two uploads to one link, owner, sweep, one fault: `TypeOK`, `CapHonoured`, `RefusedLeavesNothing`, `AcceptedIsKept`, `TotalIsSum`, `QuotaHonouredInTurn` | hold |
| `receive_sweep` | two links expiring one after the other, one fault: `GoneLinkLeavesNoDir`, `ExpiredLinksAreReaped` | hold |
| `receive_quota` | `QuotaHonoured` for a link with `auto_share` | violated |
| `server_core` | the ten modules that share no state, one per behaviour (see below): sessions `RevokedStaysOut`, `AdmittedInTime`; log-in `SetupOnce`, `CodesUsedOnce`, `SecondFactorAsked`; limits `RateHeld`, `GuessesBounded`; proof of work `ChallengePaysOnce`; accounts `DeactivationHolds`, `AdminsAreMade`; webhooks `StopDrains`; mails `WarnedWereSent`, `WarnedOnce`; tunnel `CacheCatchesUp`; credentials `OmittedIsKept`; start `SharesMigrated`; and all their type invariants, `ServerPartsTypeOK` | hold |
| `server_shutdown` | `WorkersOutliveRequests` when the signal comes during a request | violated |

**One run for ten modules.** The ten modules of `MCServer` have no variable in common, and an invariant or
action property of one speaks of its variables only. Their product would have as many states as the
product of ten numbers and show nothing more, so a behaviour of `FocusSpec` picks one module at the start, the
`focus`, and takes only its steps; the state spaces add up to about 1,140,000. This leaves out nothing the
properties could depend on; where two components do interact (section 1), neither the product nor the focus
shows it, because the modules do not model the interaction. That a behaviour of `FocusSpec` is one of each of
the ten modules is a theorem (`PartsBehave`), so the theorems about the single modules speak of the same behaviours
as this run.

**Bounds and why they suffice.** The hazards are races of a check with an act of another actor on
the same row, file or map entry, so two requests and one share (or upload, or link) meet them all; a second
share or link is there only where the sweep must tell those it selected from one that expires later,
and a third request in `receive_core` so that an owner can delete the link while two uploads compete
for its last place. Limits 1 and 2 give a share a last and a next-to-last download. Two chunks of
two blocks are the least in which a chunk can be half-written and an upload half-complete, and
`Declared = {3}` lets one chunk be of one block and the other of two, in either order, and refuses a re-send that
makes both two blocks long. One fault at a time: the guarantees
speak of the state after a failure, and `MaxFaults`, `MaxFails`, `MaxCrashes`, `MaxSaveFaults`, `MaxConfigFaults`,
`MaxRestarts` bound how many there are. `MaxTime`, `MaxServed`, `Horizon`, `LastStep`, `LastMinute`,
`LastSecond`, `LastTick` stop the clocks and `MaxServed`, `MaxEdits`, `MaxTokens` the admissions, so that the state
space is finite. An instance stops when its ids, clock and admissions are used up, so deadlock is not checked.

In `server_core`: two sessions are what "revoke the others" needs, and one request on top of the clock, the
clean-up and the restart is what overlaps with a revocation. Clocks run at least one unit beyond the longest
time-out they are compared with (an idle time of 1 and a cap of 2 against a clock of 3; a window of 1, a
challenge of 1, a cache of 2 against clocks of 3, 3 and 4), so that everything expires while something else is
still under way. A TOTP clock of 3 has a code of the step before, of this and of the next one. Two set-up
tokens: one is consumed, the write fails, a second one is minted. Two slots and three events: the third finds
no slot. Two accounts, one email, one subject and two requests: a row that is written while another request holds a copy
of it, and every conflict on a unique constraint. `Given = {"admin", "user"}` are the roles of which one may be taken away. Two
savers and two credentials: one overwrites the other's. Two old shares: a migration can be half done.

Two things are below these bounds, and rest on the theorems alone. `share_core` has no faults (`MaxFaults = 0`; with one,
the state space is beyond the time a run may take), so that a share is not announced as expired when the DELETE of the sweep
failed is `NoticeIsTrue`. `Minute = 0` in `server_core` writes every extension of a session to its file; that
`AdmittedInTime` survives the minute that the code saves is `LetInInTime`.

**Symmetry** is over `Logins` and `UserIds` in `server_core`, which has no liveness property, and over
the sets named in the other MC modules where the run checks invariants only.

**Fairness.** The sweep of `sqlite.go` runs on a ticker in a goroutine of its own that blocks on
nothing: `WF(Sweep)`. The clean-up of chunked uploads likewise, once it was started:
`WF(CleanupExpired)`. What a chunk handler does between two reads from its client waits for nobody:
`WF(Proceed(p))`. Clients may fall silent at any point, and the server sets no read timeout (`cmd/server/main.go:106`), so
no fairness is put on anything that needs them, and none on faults: `CopyBlock` and `DecodeForm` are outside `Proceed`. A
finalize that waits for its body has already taken the upload out of the registry, where the clean-up looks, so
`InterruptedUploadsGo` assumes for each upload that no client is silent there for good (`[]<>~Stalled(u)`), and leaves out
the uploads of `littered`. `SweepDeleteFails` is outside `Sweep`: a failed statement does not count as progress. In
`ReceiveLinks` the failing branch of `SweepDrop` is within it, and `MaxFaults` bounds it: a database that
fails for ever is not assumed. The ten modules of `server_core` state no fairness: what must eventually happen
in them is the expiry of entries in maps, which the properties put as bounds on time instead
(`AdmittedInTime`, `CacheCatchesUp`).

**What the violated runs show.**
- `share_folder_expiry`: the sweep calls `os.RemoveAll` on the uploads directory joined with
  `FileName`, which is empty for a folder share, so every stored file goes with an expired folder share
  (`sqlite.go:1411`).
- `share_stale_edit`: `UpdateShare` writes the whole row it read earlier; downloads counted in between
  are taken back (`handlers.go:900`).
- `chunk_crash`: a chunk file is written under its final name, so one that a crash cut short is restored
  as received and ends up in the share (`chunk_persist.go:127`).
- `chunk_resend`: when a re-sent chunk fails its file is removed but its index stays reported as on disk
  (`upload.go:410`).
- `receive_quota`: an auto-shared file is admitted as one file and accounted as two (`receive.go:462`).
- `server_shutdown`: `ListenAndServe` returns as soon as `Shutdown` begins, so `main` stops the workers while
  requests drain, contrary to the comment at `cmd/server/main.go:111` (`cmd/server/main.go:126`).

The passing runs state what remains true around these: `LimitHonoured` names the edits that put the
counter back, `BrokenHasACause` names the crash and the overlap, `QuotaHonouredInTurn` leaves shared
bytes and concurrent uploads out (the latter are documented as best effort), `AcceptedIsKept` the files
that go with an expired folder share, `DeactivationHolds` and `AdminsAreMade` the row an outdated request writes back.

**Met while modelling, and not the subject of a run.**
- A client that falls silent in the body of a finalize leaves directory and manifest where no clean-up looks: the upload
  left the registry before the body was read (`upload.go:470`, `upload.go:492`). The next start restores it.
- A chunk whose file is created while its upload's directory is removed keeps the directory for good: `os.RemoveAll`
  fails, its error is not looked at, and the entry goes (`upload.go:111`). There is no manifest, so no start finds it.
- Two requests for one chunk at a time, with bodies of different lengths, may leave more on disk than is counted: the
  one that is recorded last need not be the one that has written furthest (`upload.go:435`).
- The files of receive links go with the uploads directory when a folder share expires; their rows and quota remain, and
  the links refuse every upload from then on, since only their creation makes a directory (`receive.go:106`).
- An admin's deactivation or demotion is lost when an edit or a log-in that read the row before writes its copy back.
- `extendSession` writes `sessions.json` only when one extension advances the expiry by more than a minute. A
  session used more often than that never is, so after a crash its expiry may lag by more than the minute of
  the comment (`auth.go`, above `persist`); the session then ends earlier than promised, not later.
- After a set-up whose write failed, `SetupDone` is still set in memory, so the token minted for a second
  attempt is of no use before a restart.
- `loadConfig` of the OIDC provider restores neither `DisableLocalAuth` nor `Scopes` from its file; a provider whose
  discovery fails at start is nil, and its settings cannot be edited before the next start.
- A mail password is saved empty when the form omits it and the old settings cannot be read (`email.go:85`).
- After one warning all records of the share are marked, also those whose mail failed in the same hour and
  those saved after the notifier read the list: these recipients are never warned (`email.go:347`).
- A crash in the middle of the migration leaves a database that the next start takes for complete.
- Enrolling the same TOTP secret again sets the counter to that of the new code.
- `MarkDownloaded` (email transfers) has no caller, so `downloaded_at` is never set, and `NotifyDownload`, which a download
  calls, finds no record to tell anybody about and marks none: `EmailTransfers` has no such action.
- `MigrateUsers` and `config.ConfigManager` have no caller.

## 4. What is proved

TLAPS proves the following for every number of shares, uploads, links, files, sessions, accounts, events and
requests, every limit, cap, quota and time-out, and any number of crashes and failures. The assumptions are the
named ones of the modules (`ShareConstants`, `UploadConstants`, `ReceiveConstants`, `SessionConstants`,
`LoginConstants`, `LimiterConstants`, `ChallengeConstants`, `AccountConstants`, `WebhookConstants`,
`TransferConstants`, `SettingsConstants`, `TunnelConstants`, `ServerConstants`): the "no share", "no upload", "no
token" values are none of the real ones, limits and caps of shares and links are integers (a negative one is
possible: nothing in the code rejects it), sizes, time-outs and bounds are naturals, and
two sets are finite: the links, whose ids are eight hexadecimal digits (`receive.go:65`), and the requests that
guess a share password at the same time. A theorem marked (a) assumes
`~AllowEdits`, (b) `~AllowEdits` and `MaxFaults = 0`, (c) `StrictUse`, that is file shares only, no edits and no
faults: without these the property is false, as the violated runs show.

| Theorem | Property |
|---|---|
| `ShareLifecycleProofs!TypeCorrect` | `TypeOK` |
| `ShareLifecycleProofs!DownloadLimit` | `LimitHonoured` |
| `ShareLifecycleProofs!SharesAreBudgets` (a) | `BudgetRefined` |
| `ShareLifecycleProofs!NoticeIsTrue` (a) | `ExpireAnnouncedIsGone` |
| `ShareLifecycleProofs!LimitIsReported` (b) | `LimitReachedIsAnnounced` |
| `ShareLifecycleProofs!VisibleIsServed` (c) | `LiveShareHasFile` |
| `ShareLifecycleProofs!SweepIsClean` | `SweepLeavesNoOrphan` |
| `ChunkUploadProofs!UploadTypes` | `TypeOK` |
| `ChunkUploadProofs!AtMostOneShare`, `FinishedForGood` | `OneSharePerUpload`, `SharedIsFinished` |
| `ChunkUploadProofs!DamageIsExplained` | `BrokenHasACause` |
| `ChunkUploadProofs!CapHolds` | `DeclaredSizeIsACap` |
| `ReceiveLinksProofs!ReceiveTypes` | `TypeOK` |
| `ReceiveLinksProofs!CapHolds` | `CapHonoured` |
| `ReceiveLinksProofs!RefusalIsClean`, `AcceptanceIsKept` | `RefusedLeavesNothing`, `AcceptedIsKept` |
| `ReceiveLinksProofs!GoneIsGone` | `GoneLinkLeavesNoDir` |
| `ReceiveLinksProofs!TotalsAreSums`, `QuotaInTurn` | `TotalIsSum`, `QuotaHonouredInTurn` |
| `AdminAccessProofs!EndedForGood`, `LetInInTime` | `RevokedStaysOut`, `AdmittedInTime` |
| `AdminAccessProofs!SetUpIsOnce`, `FactorIsAsked`, `CodesPassOnce` | `SetupOnce`, `SecondFactorAsked`, `CodesUsedOnce` |
| `LimitsProofs!RateIsHeld` | `RateHeld` |
| `LimitsProofs!OvershootIsBounded`, `WorkPaysOnce` | `GuessesBounded`, `ChallengePaysOnce` |
| `UserAccountsProofs!DeactivatedStaysOut`, `NoAdminByLogin` | `DeactivationHolds`, `AdminsAreMade` |
| `ServerProofs!DeliveriesDrain` | `StopDrains` |
| `ServerProofs!OnlyTheSentAreWarned`, `WarningsAreSingle` | `WarnedWereSent`, `WarnedOnce` |
| `ServerProofs!MigrationIsWhole`, `CacheIsBounded`, `OmittedMeansUnchanged` | `SharesMigrated`, `CacheCatchesUp`, `OmittedIsKept` |
| `ServerProofs!PartsAreTyped` | `ServerPartsTypeOK` |
| `ServerProofs!PartsBehave` | every behaviour of `FocusSpec` is one of each of its ten modules |

**DownloadLimit.** `LimitHonoured` compares a history of served downloads with the largest limit; it is
not inductive, because the counter of the row connects the two and an edit may hold an old copy of the
row. `BudgetInv` adds, per share, that the row's counter equals the downloads served unless an edit put
it back, that the limit in the row never exceeds the ceiling, that a share that was never created has
neither row nor history, and, per request, that an upload has its share to itself until the row is there and
that the copy an editor holds is within the ceiling too. The
conditional UPDATE then counts only below the row's limit, so below the ceiling.

**SharesAreBudgets, NoticeIsTrue.** The lemma `TableStep` says what any step does to the table: it inserts the
row of a share that was new, counts one download below the limit, or removes rows, and nothing else. Insert,
count and remove are the three actions of `DownloadBudget`; and a row the sweep removed is not among the new ones, so
it stays gone. With edits the classification fails (an edit re-inserts), and so does the refinement.

**VisibleIsServed, LimitIsReported, SweepIsClean.** `SweepInv`: the sweep
works on shares that were created before it selected them, and what it has unlinked stays unlinked, because ids are
not used again. `FileInv` adds to the property that what the sweep selected has expired and stays so (without
edits the expiry of a row never changes), and that an upload about to save its row has its file. `LimitInv`: a counter
at its limit has been reported, or a request that counted has still to look at the row; the last look finds the counter
at the limit because counters only rise.

**AtMostOneShare, FinishedForGood.** The invariant says who holds an upload: the request that creates it,
then the registry, then the one request whose critical section removed the entry; never two. With it
comes that the manifest is gone before the row is saved, so neither a second finalize nor a restart
finds the upload again. These are `UploadInv`.
**DamageIsExplained.** `BytesInv`: a chunk file that is there holds what was sent for it last (`FileOK`), unless its upload is one
of `overlapped` or `cut`, or a request still has it open and has copied a beginning of it (`Fills`); who writes a file has a
body of the length the file was created for (`Agreed`); and a finalize whose assembly is not the client's works on an
upload of `overlapped` or `cut` (`RequestOK`). The step that needs all of it is `OpenChunk`: a file that is neither whole nor being
written has one of the two causes.

**CapHolds, RefusalIsClean, AcceptanceIsKept.** A file is carried by at most one request. `Progress` says
for each step of an upload in which of the four places (disk, row, shared copy, share row) its file
cannot be or must be; `EmptiedInv` says that whoever is about to drop a link's row has begun to remove its
directory. Refusal then finds the file nowhere, acceptance finds it in place, and afterwards only the removal of
the link, or of the uploads directory, touches it. The latter may also come while the upload is under way, so what `Progress`
requires of a file on disk, it requires of `disk \union wiped`; the row is untouched by it, which is why the property keeps
the row in every case. `CapInv` adds that the counter of a link is at least the number of accepted files
and at most the cap, and that two requests never create the same link, so the counter is not reset.
**GoneIsGone.** A link that may be removed is the target of a deletion or a sweep that has emptied its directory;
`EmptyInv` and `GoneInv` say that it stays empty, and then away, unless a file was stored after the emptying (`overrun`),
which is the exception the property names.

**EndedForGood, LetInInTime.** `MapOK` is one rule for the map in memory and the map in the file: every entry was issued, and
its expiry is within the idle time of its last use. It survives the clock and a restart from an old file because a last
use only gets later. A revoked session is in the map again only if the file still had it, so only if the write of its
revocation failed.

**SetUpIsOnce, FactorIsAsked, CodesPassOnce.** `WizardInv`: the set-up token is live, or one request has consumed it and not
finished, or it is spent for good; so one request at a time can finish the wizard. `CodesKnown`: the counter is at least every
code that was accepted since the enrolment, in memory and, unless the write failed, in the file. `AttemptInv` keeps for each
request what it has shown so far.

**OvershootIsBounded, WorkPaysOnce.** While a window runs, the failures counted and the comparisons under way are together
at most the limit plus the other requests: letting one more in needs a count below the limit. A challenge is hashed
by one request at a time, by none after it has passed, and is remembered until it is too old to pass.

**DeactivatedStaysOut, NoAdminByLogin.** The properties speak of the rows, but what a row will be is in the copies. `CopyInv`: a
request that will write a row and is not `outdated` holds a copy that agrees with the row as it is, except for what its own
admin decided. Every write of a row makes all other holders of it outdated, and what an outdated request writes back is the one
case in which `promoted` and `disabled` follow the row instead of a decision. A log-in is let in with the copy it read, so a
row that was inactive then does not let it in.

**DeliveriesDrain, OnlyTheSentAreWarned, WarningsAreSingle.** Once the flag is set nobody passes its test, so the
events between test and group are those of `straddling`. A recipient who was warned is not on the notifier's list until its
record is marked or gone; who is on the list was mailed, or is `early` or `stranded`.

**MigrationIsWhole, CacheIsBounded, OmittedMeansUnchanged.** What the next start finds (`shares.json`, a database) decides what
it does, so the invariant is about what each stage leaves for it. A cache entry that differs from the file was put there, or
left there, at `overtaken` at the latest. A saver carries a credential that is the stored one, or the one typed.

**Sums.** Totals, quota, declared sizes and rates are sums over sets, and a fold is defined by recursion over
subsets. `SumTheorems` does without an induction theorem: among the subsets for which a fact fails one would be
smallest (`SmallestSubset`, from the library's well-founded ordering of finite sets), and taking one member out
of it gives a smaller one. In this way the recursive function behind a fold is shown to exist, then to be
independent of the order in which members are taken, then what the proofs cite: a sum changes by the value that
is taken in, taken out or replaced, and is no greater over fewer members.

**UploadTypes, CapHolds (uploads).** `CountInv`: what is counted for an upload is the sum of the sizes recorded for its
chunks, whatever their lengths were: in the registry's critical section a re-sent chunk gives back its old size and takes on
the new one; until a crash the sum is within the declared size. `SizeInv` ties it to the disk: until a crash, a chunk file of a
registered upload with no overlap, and with nobody writing it, is no longer than the size recorded for it. Its one hard step is
`RecordChunk`, where `Agreed` says that the file was created for a body of the length that is recorded. An upload that is
just being made has no chunk files (`FreshInv`). The sum over the files is then at most the sum over the sizes. A restart
recounts what is on disk and does not look at the declared size, which is why the second half of the property stops at a
crash. The type invariant needs `DiskInv` as well: a directory that has a manifest, or is about to get one, is there, and the
clean-up holds the mutex over an upload of the registry; and `ReadInv`: the chunk that is being read exists.

**TotalsAreSums, QuotaInTurn, ReceiveTypes.** Each transaction changes a row and the total of its link together; the
maximum with zero on the way down never bites, because the row that is taken out was part of the sum.
`QuotaInv`: while no two uploads overlap, one request at most carries a file, and what the owner's links hold
together with the file that was let in is within the quota, until its row is there. Deletions only lower the sum. The proof uses
that there are finitely many links. It also shows that auto-shares are the only other way past the quota:
`QuotaInv` does not mention them.

**RateIsHeld.** The property speaks of every stretch of time, the limiter knows one entry per key. `WindowInv`
says what the entry stands for: it counts at least what was let through since its window began, within the limit, and one
window earlier at most as much again; without a live entry nothing was let through in this minute, and at most
the limit within the last window. `StretchInv`, the property itself, then holds for stretches that
include the present because of the entry, and for earlier ones because the past does not change.

**PartsBehave, PartsAreTyped.** The ten modules have no variable in common, so a step of the part in focus leaves the other nine
as they are: it is a step of one specification and a stuttering step of the others. The type invariants are then
those of the single modules.

**Only model-checked.** Every invariant and every action property of the passing runs is stated by a theorem above. What stays with
TLC are the three liveness properties (`ExpiredSharesAreReaped`, `InterruptedUploadsGo`, `ExpiredLinksAreReaped`): they
rest on fairness, hence on `ENABLED`, which the provers do not handle.

## 5. What is left out

Of the modelled parts:
- The bytes, names, MIME types, passwords and sizes of shared files: no step above depends on them. Sizes of
  received files are there, for the quota.
- The quota check of direct, chunked and multi-file uploads: in `ChunkUpload` it is one of the reasons for which
  `SaveUpload` may fail, in `ShareLifecycle` one for which `AbandonUpload` happens.
- Bodies of one chunk that differ in what they say: where two bodies both have a block they are taken to agree (the web
  client slices one file), so only their lengths tell them apart.
- The removal of the uploads directory with an expired folder share, in `ChunkUpload`: it takes the upload's directory
  away, which the clean-up or a restart may do as well, and is in `ShareLifecycle` and `ReceiveLinks`.
- A chunk body above the 10 MB at which the handler stops reading (the web client sends 8 MB).
- The owner's other shares in `ReceiveLinks`: the quota holds the auto-shares of one owner only.
- `os.Rename`, `fsync` and the file system's own behaviour at a power failure: a crash is the death of the process.
- The virus scanner: its verdict is a choice (`StoreFails`).
- The count of failed log-ins, which only makes the answer slower, and API keys, which are single rows.
- Logging out at the identity provider, parsing of scopes and claims, and the provider's discovery document.
- The sessions of an account that is deleted or deactivated: they are not ended by the code, and `DeactivationHolds`
  is about log-ins only.
- The sentinel of a rotated Cloudflare token, and what the tunnel settings mean for a URL.
- The MIME migration: one transaction that rewrites a column.

Not modelled:
- the audit log: each event is one INSERT in the request that caused it, whose failure is only logged, and nothing
  reads it but a page;
- thumbnails: a cache of pictures, each recomputed when missing;
- virus scan, Tailscale, network and host browsing: calls to other programs, no state between two requests;
- API keys, health, metrics, headers, translation, helpers, the storage facade: single statements, counters,
  strings, delegation;
- the web client: the environment of the modules above, which allows every order of requests.

## 6. Plan

Built: the share, upload and receive-link modules with their refinement, the ten modules of the server around them,
and the proofs of all their safety properties. What remains worth doing, in this order:
1. `Quota`: the checks of all four upload paths against `GetUserUsage`, composed with `ShareLifecycle` and
   `ReceiveLinks`.
2. The composition of `UserAccounts` with `AdminSessions`: what a session may still do after its account was
   deactivated, demoted or deleted.
3. The composition of `ServerRun` with the modules whose workers it stops, most of all with `WebhookDelivery`: an event of a
   request that drains after its dispatcher was stopped.
4. Thumbnails, whose file is written in place while another request may serve it.
