--------------------------- MODULE EmailTransfers ---------------------------
(***************************************************************************)
(* Sending a share by mail. The record of a transfer is saved, then the    *)
(* mail goes out, and the record is deleted again if it does not. Once an  *)
(* hour a single goroutine warns the recipients of shares about to expire: *)
(* it reads the records of a share, mails one after the other those not    *)
(* yet notified, and after each mail marks all records of the share.       *)
(*                                                                         *)
(* A step is a statement on the table email_transfers or a mail. There is  *)
(* one share; a mail may arrive although the mail server's answer was an   *)
(* error.                                                                  *)
(***************************************************************************)
EXTENDS Naturals, FiniteSets

CONSTANTS
    Transfers,          \* requests to send the share; each has a recipient
    MaxRestarts         \* bound: crashes and restarts

ASSUME TransferConstants == MaxRestarts \in Nat

VARIABLES
    shared,             \* whether the share exists
    soon,               \* whether it expires within 24 hours
    transfer,           \* [Transfers -> where the request is]
    recorded,           \* the records in the table
    notified,           \* those with notified_at set
    listed,             \* the records the notifier has still to look at, as it read them
    warning,            \* the records the notifier has mailed and not yet marked
    restarts,           \* crashes so far
    mailed,             \* history: mails that reached the recipient
    warned,             \* history: [Transfers -> number of warnings]
    early,              \* history: records listed while their mail was not out yet
    stranded,           \* history: records left although no mail went out
    repeated            \* history: records warned about and left without a mark

transferHistory == <<mailed, warned, early, stranded, repeated>>
transferVars == <<shared, soon, transfer, recorded, notified, listed, warning, restarts,
                  transferHistory>>

TransfersTypeOK ==
    /\ shared \in BOOLEAN /\ soon \in BOOLEAN
    /\ transfer \in [Transfers -> {"new", "checked", "sending", "failed", "done"}]
    /\ recorded \subseteq Transfers /\ notified \subseteq recorded
    /\ listed \subseteq Transfers /\ warning \subseteq Transfers
    /\ restarts \in Nat
    /\ mailed \subseteq Transfers /\ warned \in [Transfers -> 0..2]
    /\ early \subseteq Transfers /\ stranded \subseteq Transfers /\ repeated \subseteq Transfers

TransfersInit ==
    /\ shared = TRUE /\ soon = FALSE
    /\ transfer = [t \in Transfers |-> "new"]
    /\ recorded = {} /\ notified = {} /\ listed = {} /\ warning = {}
    /\ restarts = 0
    /\ mailed = {} /\ warned = [t \in Transfers |-> 0]
    /\ early = {} /\ stranded = {} /\ repeated = {}

Reaches(t, pc) == transfer' = [transfer EXCEPT ![t] = pc]
notifierVars == <<listed, warning, warned, early, repeated>>

-----------------------------------------------------------------------------
(* SendEmailTransfer *)

CheckShare(t) ==
    /\ transfer[t] = "new"
    /\ shared
    /\ Reaches(t, "checked")
    /\ UNCHANGED <<shared, soon, recorded, notified, restarts, mailed, stranded, notifierVars>>

\* SaveEmailTransfer; the row refers to the share, so it fails if that has gone
SaveRecord(t) ==
    /\ transfer[t] = "checked"
    /\ \/ shared /\ Reaches(t, "sending") /\ recorded' = recorded \union {t}
       \/ Reaches(t, "done") /\ UNCHANGED recorded
    /\ UNCHANGED <<shared, soon, notified, restarts, mailed, stranded, notifierVars>>

SendTransferEmail(t) ==
    /\ transfer[t] = "sending"
    /\ \/ Reaches(t, "done") /\ mailed' = mailed \union {t}
       \/ Reaches(t, "failed") /\ mailed' \in {mailed, mailed \union {t}}
    /\ UNCHANGED <<shared, soon, recorded, notified, restarts, stranded, notifierVars>>

\* mutant: the record of a mail that did not go out stays
Withdrawn_Kept(t) == recorded

Withdrawn(t) == recorded \ {t}

\* DeleteEmailTransfer, which may fail
WithdrawRecord(t) ==
    /\ transfer[t] = "failed"
    /\ Reaches(t, "done")
    /\ \/ /\ recorded' = Withdrawn(t)
          /\ notified' = notified \intersect recorded'
          /\ UNCHANGED stranded
       \/ stranded' = stranded \union {t} /\ UNCHANGED <<recorded, notified>>
    /\ UNCHANGED <<shared, soon, restarts, mailed, notifierVars>>

-----------------------------------------------------------------------------
(* checkAndNotifyExpiring *)

\* GetExpiringSoon and GetEmailTransfersByShare
ListTransfers ==
    /\ shared /\ soon
    /\ listed = {} /\ warning = {}
    /\ listed' = recorded \ notified
    /\ early' = early \union {t \in listed' : transfer[t] \in {"sending", "failed"}}
    /\ UNCHANGED <<shared, soon, transfer, recorded, notified, warning, restarts, mailed,
                   warned, stranded, repeated>>

SendExpiryWarning(t) ==
    /\ warning = {}
    /\ t \in listed
    /\ listed' = listed \ {t}
    /\ \/ /\ warned' = [warned EXCEPT ![t] = IF @ = 0 THEN 1 ELSE 2]
          /\ warning' = {t}
          /\ UNCHANGED repeated
       \/ /\ UNCHANGED <<warned, warning, repeated>>
       \/ /\ warned' = [warned EXCEPT ![t] = IF @ = 0 THEN 1 ELSE 2]
          /\ repeated' = repeated \union {t}
          /\ UNCHANGED warning
    /\ UNCHANGED <<shared, soon, transfer, recorded, notified, restarts, mailed, early,
                   stranded>>

\* mutant: only the records of recipients who have downloaded the share
Marked_Downloaded == notified

\* MarkEmailTransferNotified marks every record of the share
Marked == recorded

\* An error of the statement is not looked at
MarkNotified ==
    /\ warning # {}
    /\ warning' = {}
    /\ \/ notified' = Marked /\ UNCHANGED repeated
       \/ repeated' = repeated \union warning /\ UNCHANGED notified
    /\ UNCHANGED <<shared, soon, transfer, recorded, listed, restarts, mailed, warned, early,
                   stranded>>

-----------------------------------------------------------------------------
(* The share, and the process *)

\* The share comes within a day of its end, or an edit moves it
ExpiryMoves ==
    /\ shared
    /\ soon' = ~soon
    /\ UNCHANGED <<shared, transfer, recorded, notified, restarts, mailed, stranded,
                   notifierVars>>

\* The share expires or is deleted, and its records with it
ShareGoes ==
    /\ shared
    /\ shared' = FALSE
    /\ recorded' = {} /\ notified' = {}
    /\ UNCHANGED <<soon, transfer, restarts, mailed, stranded, notifierVars>>

RestartMailer ==
    /\ restarts < MaxRestarts
    /\ restarts' = restarts + 1
    /\ transfer' = [t \in Transfers |-> IF transfer[t] = "new" THEN "new" ELSE "done"]
    /\ stranded' = stranded \union {t \in recorded : transfer[t] \in {"sending", "failed"}}
    /\ listed' = {} /\ warning' = {}
    /\ repeated' = repeated \union warning
    /\ UNCHANGED <<shared, soon, recorded, notified, mailed, warned, early>>

-----------------------------------------------------------------------------
TransfersNext ==
    \/ \E t \in Transfers :
        CheckShare(t) \/ SaveRecord(t) \/ SendTransferEmail(t) \/ WithdrawRecord(t)
            \/ SendExpiryWarning(t)
    \/ ListTransfers \/ MarkNotified
    \/ ExpiryMoves \/ ShareGoes \/ RestartMailer

TransfersSpec == TransfersInit /\ [][TransfersNext]_transferVars

-----------------------------------------------------------------------------
(* What it guarantees *)

\* "Without the e-mail the record must go, or the recipient would get an expiry
\* warning for a share they were never sent": nobody is warned whom no mail had
\* reached, unless the notifier read the record while the mail was on its way, or the
\* record could not be deleted or outlived a crash.
WarnedWereSent ==
    \A t \in Transfers : warned[t] > 0 => t \in mailed \union early \union stranded

\* No record of a transfer leads to two warnings, however the hours of the notifier
\* and the requests overlap, unless a warning could not be marked or arrived with an
\* error. Two transfers to one address are two records, and two warnings.
WarnedOnce == \A t \in Transfers : warned[t] > 1 => t \in repeated
=============================================================================
