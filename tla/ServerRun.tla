------------------------------ MODULE ServerRun ------------------------------
(***************************************************************************)
(* The life of the process, from one start to the next. A start moves the  *)
(* shares of shares.json, the store of old versions, into a new database,  *)
(* share by share, and takes the file out of the way. Then requests are    *)
(* served until a signal comes. The signal's goroutine calls Shutdown,     *)
(* which waits for the requests; main is back from ListenAndServe at once  *)
(* and stops the workers one after the other, then ends the process.       *)
(*                                                                         *)
(* A step is a statement, a file-system call or the stop of one worker.    *)
(***************************************************************************)
EXTENDS Naturals, FiniteSets, Sequences

CONSTANTS
    OldShares,          \* the entries of shares.json
    Requests,           \* request goroutines
    MaxCrashes          \* bound: crashes

ASSUME ServerConstants == MaxCrashes \in Nat

\* What main stops, in this order
Workers == <<"adminAuth", "activityLog", "downloadLimiter", "emailHandler", "handlers",
             "chunkCleanup", "oidcProvider", "store">>

VARIABLES
    stage,              \* where main is
    json,               \* is there a shares.json
    database,           \* is there a shares.db
    rows,               \* the shares in it
    request,            \* [Requests -> {"none", "running"}]
    shutdown,           \* where Shutdown is
    workersStopped,     \* how many of the Workers have been stopped
    crashes,            \* crashes so far
    spoiled             \* history: a crash, or a database that could not be removed, has
                        \* cut a migration short

serverVars == <<stage, json, database, rows, request, shutdown, workersStopped, crashes,
                spoiled>>

ServerTypeOK ==
    /\ stage \in {"down", "creating", "migrating", "renaming", "opening", "serving", "stopping"}
    /\ json \in BOOLEAN /\ database \in BOOLEAN /\ rows \subseteq OldShares
    /\ request \in [Requests -> {"none", "running"}]
    /\ shutdown \in {"none", "draining", "returned"}
    /\ workersStopped \in 0..Len(Workers)
    /\ crashes \in Nat /\ spoiled \in BOOLEAN

\* The first start of a version with a database, after one without
ServerInit ==
    /\ stage = "down"
    /\ json = TRUE /\ database = FALSE /\ rows = {}
    /\ request = [r \in Requests |-> "none"]
    /\ shutdown = "none" /\ workersStopped = 0
    /\ crashes = 0 /\ spoiled = FALSE

Running == {r \in Requests : request[r] = "running"}
runVars == <<request, shutdown, workersStopped, crashes>>

\* The process is gone, and with it whatever it was doing
ProcessEnds ==
    /\ stage' = "down"
    /\ request' = [r \in Requests |-> "none"]
    /\ shutdown' = "none" /\ workersStopped' = 0

-----------------------------------------------------------------------------
(* storage.New *)

\* CheckMigrationNeeded
StartServer ==
    /\ stage = "down"
    /\ stage' = IF json /\ ~database THEN "creating" ELSE "opening"
    /\ UNCHANGED <<json, database, rows, runVars, spoiled>>

\* mutant: the database of a migration that failed stays
AfterRemoval_Kept == TRUE

AfterRemoval == FALSE

\* removeDatabaseFiles, whose errors are only logged; the start is refused
MigrationFails ==
    /\ \/ database' = AfterRemoval /\ UNCHANGED spoiled
       \/ database' = TRUE /\ spoiled' = TRUE
    /\ rows' = IF database' THEN rows ELSE {}
    /\ stage' = "down"

CreateDatabase ==
    /\ stage = "creating"
    /\ \/ database' = TRUE /\ stage' = "migrating" /\ UNCHANGED <<rows, spoiled>>
       \/ MigrationFails
    /\ UNCHANGED <<json, runVars>>

MigrateShare(s) ==
    /\ stage = "migrating"
    /\ s \in OldShares \ rows
    /\ \/ rows' = rows \union {s} /\ UNCHANGED <<stage, database, spoiled>>
       \/ MigrationFails
    /\ UNCHANGED <<json, runVars>>

CloseDatabase ==
    /\ stage = "migrating"
    /\ rows = OldShares
    /\ stage' = "renaming"
    /\ UNCHANGED <<json, database, rows, runVars, spoiled>>

\* Without the backup the database keeps the file from being looked at again
RenameToBackup ==
    /\ stage = "renaming"
    /\ json' \in {FALSE, TRUE}
    /\ stage' = "opening"
    /\ UNCHANGED <<database, rows, runVars, spoiled>>

\* NewSQLiteStorage: schema, then the columns of later versions in one transaction; an
\* error refuses the start
OpenDatabase ==
    /\ stage = "opening"
    /\ database' = TRUE
    /\ stage' \in {"serving", "down"}
    /\ UNCHANGED <<json, rows, runVars, spoiled>>

-----------------------------------------------------------------------------
(* main *)

BeginRequest(r) ==
    /\ stage = "serving"
    /\ request[r] = "none"
    /\ request' = [request EXCEPT ![r] = "running"]
    /\ UNCHANGED <<stage, json, database, rows, shutdown, workersStopped, crashes, spoiled>>

EndRequest(r) ==
    /\ request[r] = "running"
    /\ request' = [request EXCEPT ![r] = "none"]
    /\ UNCHANGED <<stage, json, database, rows, shutdown, workersStopped, crashes, spoiled>>

\* The signal: Shutdown closes the listener, and ListenAndServe returns
Signal ==
    /\ stage = "serving"
    /\ stage' = "stopping"
    /\ shutdown' = "draining"
    /\ UNCHANGED <<json, database, rows, request, workersStopped, crashes, spoiled>>

\* Shutdown returns: no request is left, or 30 seconds are over
ShutdownReturns ==
    /\ shutdown = "draining"
    /\ shutdown' = "returned"
    /\ UNCHANGED <<stage, json, database, rows, request, workersStopped, crashes, spoiled>>

\* mutant: the last worker is stopped twice
StopWorker_Again ==
    /\ stage = "stopping"
    /\ workersStopped <= Len(Workers)
    /\ workersStopped' = workersStopped + 1
    /\ UNCHANGED <<stage, json, database, rows, request, shutdown, crashes, spoiled>>

StopWorker ==
    /\ stage = "stopping"
    /\ workersStopped < Len(Workers)
    /\ workersStopped' = workersStopped + 1
    /\ UNCHANGED <<stage, json, database, rows, request, shutdown, crashes, spoiled>>

MainReturns ==
    /\ stage = "stopping"
    /\ workersStopped = Len(Workers)
    /\ ProcessEnds
    /\ UNCHANGED <<json, database, rows, crashes, spoiled>>

Crash ==
    /\ crashes < MaxCrashes
    /\ stage # "down"
    /\ crashes' = crashes + 1
    /\ spoiled' = (spoiled \/ (stage = "migrating" /\ rows # OldShares))
    /\ ProcessEnds
    /\ UNCHANGED <<json, database, rows>>

-----------------------------------------------------------------------------
ServerNext ==
    \/ StartServer \/ CreateDatabase \/ CloseDatabase \/ RenameToBackup \/ OpenDatabase
    \/ \E s \in OldShares : MigrateShare(s)
    \/ \E r \in Requests : BeginRequest(r) \/ EndRequest(r)
    \/ Signal \/ ShutdownReturns \/ StopWorker \/ MainReturns
    \/ Crash

ServerSpec == ServerInit /\ [][ServerNext]_serverVars

-----------------------------------------------------------------------------
(* What it guarantees, and what it does not *)

\* "All or nothing": whenever the server runs, the database has all the shares of the
\* old file, after any number of starts that were refused at any point; unless a crash
\* fell into a migration, or a database it left could not be removed.
SharesMigrated == stage \in {"serving", "stopping"} /\ ~spoiled => OldShares \subseteq rows

\* "We stop background workers AFTER srv.Shutdown() returns so in-flight HTTP requests
\* can still touch rate-limiters, sessions, OIDC state, etc. while they drain"
\* (cmd/server/main.go:111): no worker is stopped while a request is running that
\* Shutdown still waits for. The code does not keep this.
WorkersOutliveRequests == workersStopped > 0 /\ Running # {} => shutdown = "returned"
=============================================================================
