--------------------------- MODULE DownloadBudget ---------------------------
(***************************************************************************)
(* What a share promises its owner and its recipients, with no database,   *)
(* no file system and no concurrency: it is opened once with a download    *)
(* budget, grants at most that many downloads while it is open, and once   *)
(* it is closed it grants nothing and never comes back.                    *)
(* ShareLifecycle implements this specification when no share is edited.   *)
(***************************************************************************)
EXTENDS Naturals

CONSTANTS
    Shares,     \* share identifiers
    Limits      \* values of max_downloads; 0 stands for "unlimited"

VARIABLES
    status,     \* [Shares -> {"new", "open", "closed"}]
    budget,     \* [Shares -> Limits]: max_downloads, fixed when the share opens
    granted     \* [Shares -> Nat]: downloads granted so far

budgetVars == <<status, budget, granted>>

BudgetInit ==
    /\ status = [s \in Shares |-> "new"]
    /\ budget = [s \in Shares |-> 0]
    /\ granted = [s \in Shares |-> 0]

Open(s, max) ==
    /\ status[s] = "new"
    /\ status' = [status EXCEPT ![s] = "open"]
    /\ budget' = [budget EXCEPT ![s] = max]
    /\ UNCHANGED granted

Grant(s) ==
    /\ status[s] = "open"
    /\ budget[s] = 0 \/ granted[s] < budget[s]
    /\ granted' = [granted EXCEPT ![s] = @ + 1]
    /\ UNCHANGED <<status, budget>>

\* One sweep may close several shares at once.
Close(S) ==
    /\ S # {}
    /\ \A s \in S : status[s] = "open"
    /\ status' = [s \in Shares |-> IF s \in S THEN "closed" ELSE status[s]]
    /\ UNCHANGED <<budget, granted>>

BudgetNext ==
    \/ \E s \in Shares, max \in Limits : Open(s, max)
    \/ \E s \in Shares : Grant(s)
    \/ \E S \in SUBSET Shares : Close(S)

BudgetSpec == BudgetInit /\ [][BudgetNext]_budgetVars
=============================================================================
