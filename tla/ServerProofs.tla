---------------------------- MODULE ServerProofs ----------------------------
(***************************************************************************)
(* The parts of the server that work by themselves. What it sends: the     *)
(* webhooks that Stop waits for, and the warnings that a share is about to *)
(* expire. What it keeps across steps that fail and restarts: the shares   *)
(* of the old store, the tunnel settings behind their cache, and the       *)
(* credentials a page does not show. The components share no variable;     *)
(* each has its invariant and its theorem. At the end, all parts of the    *)
(* server together.                                                        *)
(***************************************************************************)
EXTENDS MCServer, AdminAccessProofs, LimitsProofs, UserAccountsProofs, TLAPS

-----------------------------------------------------------------------------
(* Webhooks. Once the flag is set nobody passes its test any more, so the  *)
(* events between the test and the wait group only get fewer.              *)

DrainInv ==
    /\ WebhookTypeOK
    /\ stopper # "idle" => halted /\ At({"open", "slotted"}) \subseteq straddling
    /\ stopper = "drained" => At({"sending", "leaving"}) \subseteq straddling

\* An event moves on; before Stop it may go anywhere.
LEMMA NoticeMoves ==
    ASSUME DrainInv, NEW n \in Notices, NEW pc \in NoticePCs, Becomes(n, pc),
           UNCHANGED <<halted, stopper, straddling>>, armed' \in BOOLEAN,
           stopper # "idle" /\ pc \in {"open", "slotted"} => notice[n] \in {"open", "slotted"},
           stopper = "drained" /\ pc \in {"sending", "leaving"} =>
                notice[n] \in {"slotted", "sending", "leaving"}
    PROVE  DrainInv'
<1>1. notice' \in [Notices -> NoticePCs] /\ notice'[n] = pc
      /\ \A m \in Notices \ {n} : notice'[m] = notice[m]
  BY DEF Becomes, DrainInv, WebhookTypeOK
<1>2. WebhookTypeOK'
  BY <1>1 DEF DrainInv, WebhookTypeOK
<1>3. stopper # "idle" => At({"open", "slotted"})' \subseteq At({"open", "slotted"})
  BY <1>1 DEF At
<1>4. stopper = "drained" =>
        At({"sending", "leaving"})' \subseteq At({"open", "slotted"}) \union At({"sending", "leaving"})
  BY <1>1 DEF At
<1> QED
  BY <1>2, <1>3, <1>4 DEF DrainInv

LEMMA DeliveriesKept ==
    ASSUME DrainInv, [WebhookNext]_webhookVars
    PROVE  DrainInv'
<1>1. ASSUME NEW n \in Notices,
             \/ NotifyEvent(n) \/ TestStopped(n) \/ TakeSlot(n)
             \/ JoinGroup(n) \/ SendWebhook(n) \/ LeaveGroup(n)
      PROVE  DrainInv'
  <2>1. UNCHANGED <<armed, halted, stopper, straddling>> /\ armed' \in BOOLEAN
    BY <1>1 DEF NotifyEvent, TestStopped, TakeSlot, JoinGroup, SendWebhook, LeaveGroup, DrainInv,
       WebhookTypeOK
  <2>2. PICK pc \in NoticePCs :
          /\ Becomes(n, pc)
          /\ stopper # "idle" /\ pc \in {"open", "slotted"} => notice[n] \in {"open", "slotted"}
          /\ pc \in {"sending", "leaving"} => notice[n] \in {"slotted", "sending", "leaving"}
    <3>1. {"wanted", "open", "dropped", "slotted", "sending", "leaving", "sent"} \subseteq NoticePCs
      BY DEF NoticePCs
    <3>2. CASE NotifyEvent(n)
      <4>1. Becomes(n, "wanted")
        BY <3>2 DEF NotifyEvent
      <4> QED
        BY <3>1, <4>1
    <3>3. CASE TestStopped(n)
      <4>1. stopper # "idle" => Becomes(n, "dropped")
        BY <3>3 DEF TestStopped, Accepting, DrainInv
      <4>2. Becomes(n, "open") \/ Becomes(n, "dropped")
        BY <3>3 DEF TestStopped
      <4> QED
        BY <3>1, <4>1, <4>2
    <3>4. CASE TakeSlot(n)
      <4>1. notice[n] = "open" /\ (Becomes(n, "slotted") \/ Becomes(n, "dropped"))
        BY <3>4 DEF TakeSlot
      <4> QED
        BY <3>1, <4>1
    <3>5. CASE JoinGroup(n)
      <4>1. notice[n] = "slotted" /\ Becomes(n, "sending")
        BY <3>5 DEF JoinGroup
      <4> QED
        BY <3>1, <4>1
    <3>6. CASE SendWebhook(n)
      <4>1. notice[n] = "sending" /\ Becomes(n, "leaving")
        BY <3>6 DEF SendWebhook
      <4> QED
        BY <3>1, <4>1
    <3>7. CASE LeaveGroup(n)
      <4>1. Becomes(n, "sent")
        BY <3>7 DEF LeaveGroup
      <4> QED
        BY <3>1, <4>1
    <3> QED
      BY <1>1, <3>2, <3>3, <3>4, <3>5, <3>6, <3>7
  <2> QED
    BY <2>1, <2>2, NoticeMoves
<1>2. CASE ArmWebhook \/ UNCHANGED webhookVars
  <2>1. armed' \in BOOLEAN /\ UNCHANGED <<halted, notice, stopper, straddling>>
    BY <1>2 DEF ArmWebhook, webhookVars, DrainInv, WebhookTypeOK
  <2> QED
    BY <2>1 DEF DrainInv, WebhookTypeOK, At
<1>3. CASE StopWebhooks
  <2>1. /\ halted' = TRUE /\ stopper' = "waiting" /\ UNCHANGED <<armed, notice>>
        /\ straddling' = At({"open", "slotted"})
    BY <1>3 DEF StopWebhooks
  <2>2. straddling' \subseteq Notices /\ At({"open", "slotted"})' = At({"open", "slotted"})
    BY <2>1 DEF At
  <2> QED
    BY <2>1, <2>2 DEF DrainInv, WebhookTypeOK
<1>4. CASE WebhooksDrained \/ WebhooksTimeOut
  <2>1. /\ stopper # "idle" /\ UNCHANGED <<armed, halted, notice, straddling>>
        /\ stopper' \in {"drained", "timedOut"}
        /\ stopper' = "drained" => At({"sending", "leaving"}) = {}
    BY <1>4 DEF WebhooksDrained, WebhooksTimeOut, InGroup
  <2>2. \A pcs : At(pcs)' = At(pcs)
    BY <2>1 DEF At
  <2>3. /\ At({"open", "slotted"})' = At({"open", "slotted"})
        /\ At({"sending", "leaving"})' = At({"sending", "leaving"})
    BY <2>2
  <2> QED
    BY <2>1, <2>3 DEF DrainInv, WebhookTypeOK
<1> QED
  BY <1>1, <1>2, <1>3, <1>4 DEF WebhookNext

LEMMA DrainInitially == WebhookInit => DrainInv
  BY DEF WebhookInit, DrainInv, WebhookTypeOK, NoticePCs

\* When Stop returns in time, the deliveries still under way are those of requests
\* that had passed the flag before it was set, for any number of events and slots.
THEOREM DeliveriesDrain == WebhookSpec => []StopDrains
<1>1. WebhookInit => DrainInv
  BY DrainInitially
<1>2. DrainInv /\ [WebhookNext]_webhookVars => DrainInv'
  BY DeliveriesKept
<1>3. DrainInv => StopDrains
  BY DEF DrainInv, StopDrains, At
<1> QED
  BY <1>1, <1>2, <1>3, PTL DEF WebhookSpec

-----------------------------------------------------------------------------
(* Warnings. A warned recipient is on no list of the notifier again until  *)
(* the record is marked or gone; and whoever is on a list has been sent    *)
(* the share, or is one of the exceptions.                                 *)

WasSent(t) == t \in mailed \union early \union stranded

WarningInv(t) ==
    /\ t \in recorded \union listed \/ warned[t] # 0 => transfer[t] \notin {"new", "checked"}
    /\ t \in recorded /\ transfer[t] = "done" => t \in mailed \union stranded
    /\ t \in listed \/ warned[t] # 0 => WasSent(t)
    /\ t \notin repeated =>
        /\ warned[t] <= 1
        /\ warned[t] # 0 => t \notin listed /\ (t \in warning \union notified \/ t \notin recorded)

TransfersInv == TransfersTypeOK /\ \A t \in Transfers : WarningInv(t)

\* A request goes on. What changes for its transfer is left to WarningInv(t)'.
LEMMA RequestMoves ==
    ASSUME TransfersInv, NEW t \in Transfers,
           NEW pc \in {"checked", "sending", "failed", "done"}, Reaches(t, pc),
           recorded' \subseteq Transfers, notified' \subseteq recorded',
           mailed' \subseteq Transfers, stranded' \subseteq Transfers,
           recorded' \ {t} = recorded \ {t}, notified' \ {t} = notified \ {t},
           mailed' \ {t} = mailed \ {t}, stranded' \ {t} = stranded \ {t},
           UNCHANGED <<shared, soon, restarts, notifierVars>>,
           WarningInv(t)'
    PROVE  TransfersInv'
<1>1. /\ transfer' \in [Transfers -> {"new", "checked", "sending", "failed", "done"}]
      /\ \A u \in Transfers \ {t} : transfer'[u] = transfer[u]
  BY DEF Reaches, TransfersInv, TransfersTypeOK
<1>2. UNCHANGED <<listed, warning, warned, early, repeated>>
  BY DEF notifierVars
<1>3. TransfersTypeOK'
  BY <1>1, <1>2 DEF TransfersInv, TransfersTypeOK
<1>4. ASSUME NEW u \in Transfers \ {t} PROVE WarningInv(u)'
  <2>1. WarningInv(u)
    BY DEF TransfersInv
  <2>2. /\ (u \in recorded' <=> u \in recorded)
        /\ (u \in notified' <=> u \in notified)
        /\ (u \in mailed' <=> u \in mailed)
        /\ (u \in stranded' <=> u \in stranded)
    OBVIOUS
  <2> QED
    BY <1>1, <1>2, <2>1, <2>2 DEF WarningInv, WasSent
<1> QED
  BY <1>3, <1>4 DEF TransfersInv

LEMMA RequestSteps ==
    ASSUME TransfersInv, NEW t \in Transfers,
           CheckShare(t) \/ SaveRecord(t) \/ SendTransferEmail(t) \/ WithdrawRecord(t)
    PROVE  TransfersInv'
<1>1. /\ WarningInv(t) /\ recorded \subseteq Transfers /\ notified \subseteq recorded
      /\ mailed \subseteq Transfers /\ stranded \subseteq Transfers
      /\ transfer \in [Transfers -> {"new", "checked", "sending", "failed", "done"}]
  BY DEF TransfersInv, TransfersTypeOK
<1>2. \A pc : Reaches(t, pc) => transfer'[t] = pc
  BY <1>1 DEF Reaches
<1>3. UNCHANGED <<shared, soon, restarts, notifierVars, listed, warning, warned, early, repeated>>
  BY DEF CheckShare, SaveRecord, SendTransferEmail, WithdrawRecord, notifierVars
<1>4. CASE CheckShare(t)
  <2>1. transfer[t] = "new" /\ Reaches(t, "checked")
        /\ UNCHANGED <<recorded, notified, mailed, stranded>>
    BY <1>4 DEF CheckShare
  <2>2. WarningInv(t)'
    BY <1>1, <1>2, <1>3, <2>1 DEF WarningInv, WasSent
  <2> QED
    BY <1>1, <1>3, <2>1, <2>2, RequestMoves
<1>5. CASE SaveRecord(t)
  <2>1. transfer[t] = "checked" /\ UNCHANGED <<notified, mailed, stranded>>
    BY <1>5 DEF SaveRecord
  <2>2. CASE Reaches(t, "sending") /\ recorded' = recorded \union {t}
    <3>1. WarningInv(t)'
      BY <1>1, <1>2, <1>3, <2>1, <2>2 DEF WarningInv, WasSent
    <3>2. recorded' \subseteq Transfers /\ notified' \subseteq recorded'
          /\ recorded' \ {t} = recorded \ {t}
      BY <1>1, <2>1, <2>2
    <3> QED
      BY <1>1, <1>3, <2>1, <2>2, <3>1, <3>2, RequestMoves
  <2>3. CASE Reaches(t, "done") /\ recorded' = recorded
    <3>1. WarningInv(t)'
      BY <1>1, <1>2, <1>3, <2>1, <2>3 DEF WarningInv, WasSent
    <3> QED
      BY <1>1, <1>3, <2>1, <2>3, <3>1, RequestMoves
  <2> QED
    BY <1>5, <2>2, <2>3 DEF SaveRecord
<1>6. CASE SendTransferEmail(t)
  <2>1. transfer[t] = "sending" /\ UNCHANGED <<recorded, notified, stranded>>
    BY <1>6 DEF SendTransferEmail
  <2>2. \/ Reaches(t, "done") /\ mailed' = mailed \union {t}
        \/ Reaches(t, "failed") /\ mailed' \in {mailed, mailed \union {t}}
    BY <1>6 DEF SendTransferEmail
  <2>3. mailed \subseteq mailed' /\ mailed' \subseteq Transfers /\ mailed' \ {t} = mailed \ {t}
    BY <1>1, <2>2
  <2>4. WarningInv(t)'
    BY <1>1, <1>2, <1>3, <2>1, <2>2, <2>3 DEF WarningInv, WasSent
  <2> QED
    BY <1>1, <1>3, <2>1, <2>2, <2>3, <2>4, RequestMoves
<1>7. CASE WithdrawRecord(t)
  <2>1. transfer[t] = "failed" /\ Reaches(t, "done") /\ UNCHANGED mailed
    BY <1>7 DEF WithdrawRecord
  <2>2. CASE recorded' = recorded \ {t} /\ notified' = notified \intersect recorded'
             /\ UNCHANGED stranded
    <3>1. WarningInv(t)'
      BY <1>1, <1>2, <1>3, <2>1, <2>2 DEF WarningInv, WasSent
    <3>2. recorded' \subseteq Transfers /\ notified' \subseteq recorded'
          /\ recorded' \ {t} = recorded \ {t} /\ notified' \ {t} = notified \ {t}
      BY <1>1, <2>2
    <3> QED
      BY <1>1, <1>3, <2>1, <2>2, <3>1, <3>2, RequestMoves
  <2>3. CASE stranded' = stranded \union {t} /\ UNCHANGED <<recorded, notified>>
    <3>1. WarningInv(t)'
      BY <1>1, <1>2, <1>3, <2>1, <2>3 DEF WarningInv, WasSent
    <3>2. stranded' \subseteq Transfers /\ stranded' \ {t} = stranded \ {t}
      BY <1>1, <2>3
    <3> QED
      BY <1>1, <1>3, <2>1, <2>3, <3>1, <3>2, RequestMoves
  <2> QED
    BY <1>7, <2>2, <2>3 DEF WithdrawRecord, Withdrawn
<1> QED
  BY <1>4, <1>5, <1>6, <1>7

\* The notifier reads the records of the share: those marked are not among them.
LEMMA ListStep ==
    ASSUME TransfersInv, ListTransfers
    PROVE  TransfersInv'
<1>1. /\ listed' = recorded \ notified /\ warning = {}
      /\ early' = early \union {t \in listed' : transfer[t] \in {"sending", "failed"}}
      /\ UNCHANGED <<shared, soon, transfer, recorded, notified, warning, restarts, mailed,
                     warned, stranded, repeated>>
  BY DEF ListTransfers
<1>2. TransfersTypeOK'
  BY <1>1 DEF TransfersInv, TransfersTypeOK
<1>3. ASSUME NEW t \in Transfers PROVE WarningInv(t)'
  <2>1. WarningInv(t) /\ transfer[t] \in {"new", "checked", "sending", "failed", "done"}
    BY DEF TransfersInv, TransfersTypeOK
  <2>2. t \in listed' => WasSent(t)'
    BY <1>1, <2>1 DEF WarningInv, WasSent
  <2>3. WasSent(t) => WasSent(t)'
    BY <1>1 DEF WasSent
  <2> QED
    BY <1>1, <2>1, <2>2, <2>3 DEF WarningInv
<1> QED
  BY <1>2, <1>3 DEF TransfersInv

LEMMA WarnStep ==
    ASSUME TransfersInv, NEW t \in Transfers, SendExpiryWarning(t)
    PROVE  TransfersInv'
<1>1. /\ warning = {} /\ t \in listed /\ listed' = listed \ {t}
      /\ UNCHANGED <<shared, soon, transfer, recorded, notified, restarts, mailed, early, stranded>>
  BY DEF SendExpiryWarning
<1>2. warned \in [Transfers -> 0..2] /\ WarningInv(t)
  BY DEF TransfersInv, TransfersTypeOK
<1>3. warned' = [warned EXCEPT ![t] = IF @ = 0 THEN 1 ELSE 2] \/ warned' = warned
  BY DEF SendExpiryWarning
<1>4. /\ warned' \in [Transfers -> 0..2]
      /\ \A u \in Transfers \ {t} : warned'[u] = warned[u]
      /\ warned[t] = 0 => warned'[t] <= 1
  BY <1>2, <1>3
<1>5. \/ warning' = {t} /\ repeated' = repeated
      \/ warning' = {} /\ repeated' = repeated /\ warned' = warned
      \/ warning' = {} /\ repeated' = repeated \union {t}
  BY <1>1 DEF SendExpiryWarning
<1>6. TransfersTypeOK'
  BY <1>1, <1>4, <1>5 DEF TransfersInv, TransfersTypeOK
<1>7. WasSent(t) /\ \A u : WasSent(u)' = WasSent(u)
  BY <1>1, <1>2 DEF WarningInv, WasSent
<1>8. t \notin repeated => warned[t] = 0
  BY <1>1, <1>2 DEF WarningInv
<1>9. WarningInv(t)'
  <2>1. \/ t \in repeated'
        \/ t \notin repeated /\ warned'[t] <= 1 /\ (warned'[t] # 0 => t \in warning')
    BY <1>4, <1>5, <1>8
  <2>2. transfer'[t] \notin {"new", "checked"} /\ t \notin listed' /\ WasSent(t)'
    BY <1>1, <1>2, <1>7 DEF WarningInv
  <2>3. t \in recorded' /\ transfer'[t] = "done" => t \in mailed' \union stranded'
    BY <1>1, <1>2 DEF WarningInv
  <2> QED
    BY <2>1, <2>2, <2>3 DEF WarningInv
<1>10. ASSUME NEW u \in Transfers \ {t} PROVE WarningInv(u)'
  <2>1. WarningInv(u)
    BY DEF TransfersInv
  <2>2. (u \in repeated' <=> u \in repeated) /\ (u \in listed' <=> u \in listed)
    BY <1>1, <1>5
  <2> QED
    BY <1>1, <1>4, <1>5, <1>7, <2>1, <2>2 DEF WarningInv
<1> QED
  BY <1>6, <1>9, <1>10 DEF TransfersInv

LEMMA MarkStep ==
    ASSUME TransfersInv, MarkNotified
    PROVE  TransfersInv'
<1>1. /\ warning' = {}
      /\ UNCHANGED <<shared, soon, transfer, recorded, listed, restarts, mailed, warned, early,
                     stranded>>
      /\ \/ notified' = recorded /\ repeated' = repeated
         \/ repeated' = repeated \union warning /\ notified' = notified
  BY DEF MarkNotified, Marked
<1>2. TransfersTypeOK'
  BY <1>1 DEF TransfersInv, TransfersTypeOK
<1>3. ASSUME NEW t \in Transfers PROVE WarningInv(t)'
  <2>1. WarningInv(t)
    BY DEF TransfersInv
  <2>2. WasSent(t)' = WasSent(t) /\ (t \notin repeated' => t \notin repeated)
    BY <1>1 DEF WasSent
  <2>3. t \notin repeated' /\ warned[t] # 0 => t \in notified' \/ t \notin recorded
    BY <1>1, <2>1 DEF WarningInv
  <2> QED
    BY <1>1, <2>1, <2>2, <2>3 DEF WarningInv
<1> QED
  BY <1>2, <1>3 DEF TransfersInv

LEMMA ShareSteps ==
    ASSUME TransfersInv, ExpiryMoves \/ ShareGoes
    PROVE  TransfersInv'
<1>1. /\ UNCHANGED <<transfer, restarts, mailed, stranded, listed, warning, warned, early, repeated>>
      /\ \/ recorded' = {} /\ notified' = {}
         \/ UNCHANGED <<recorded, notified>>
      /\ shared' \in BOOLEAN /\ soon' \in BOOLEAN
  BY DEF ExpiryMoves, ShareGoes, notifierVars, TransfersInv, TransfersTypeOK
<1>2. TransfersTypeOK'
  BY <1>1 DEF TransfersInv, TransfersTypeOK
<1>3. ASSUME NEW t \in Transfers PROVE WarningInv(t)'
  <2>1. WarningInv(t)
    BY DEF TransfersInv
  <2> QED
    BY <1>1, <2>1 DEF WarningInv, WasSent
<1> QED
  BY <1>2, <1>3 DEF TransfersInv

LEMMA RestartStep ==
    ASSUME TransfersInv, RestartMailer
    PROVE  TransfersInv'
<1>1. /\ restarts' = restarts + 1 /\ listed' = {} /\ warning' = {}
      /\ transfer' = [t \in Transfers |-> IF transfer[t] = "new" THEN "new" ELSE "done"]
      /\ stranded' = stranded \union {t \in recorded : transfer[t] \in {"sending", "failed"}}
      /\ repeated' = repeated \union warning
      /\ UNCHANGED <<shared, soon, recorded, notified, mailed, warned, early>>
  BY DEF RestartMailer
<1>2. TransfersTypeOK'
  BY <1>1 DEF TransfersInv, TransfersTypeOK
<1>3. ASSUME NEW t \in Transfers PROVE WarningInv(t)'
  <2>1. WarningInv(t) /\ transfer[t] \in {"new", "checked", "sending", "failed", "done"}
    BY DEF TransfersInv, TransfersTypeOK
  <2>2. transfer'[t] = IF transfer[t] = "new" THEN "new" ELSE "done"
    BY <1>1
  <2>3. t \in recorded => t \in mailed \union stranded'
    BY <1>1, <2>1 DEF WarningInv
  <2>4. WasSent(t) => WasSent(t)'
    BY <1>1 DEF WasSent
  <2>5. t \notin repeated' => t \notin repeated /\ t \notin warning
    BY <1>1
  <2> QED
    BY <1>1, <2>1, <2>2, <2>3, <2>4, <2>5 DEF WarningInv
<1> QED
  BY <1>2, <1>3 DEF TransfersInv

LEMMA TransfersKept ==
    ASSUME TransfersInv, [TransfersNext]_transferVars
    PROVE  TransfersInv'
<1>1. CASE TransfersNext
  BY <1>1, RequestSteps, ListStep, WarnStep, MarkStep, ShareSteps, RestartStep DEF TransfersNext
<1>2. CASE UNCHANGED transferVars
  BY <1>2 DEF transferVars, transferHistory, TransfersInv, TransfersTypeOK, WarningInv, WasSent
<1> QED
  BY <1>1, <1>2

LEMMA TransfersInitially == TransfersInit => TransfersInv
<1> SUFFICES ASSUME TransfersInit PROVE TransfersInv
  OBVIOUS
<1>1. TransfersTypeOK
  <2>1. transfer \in [Transfers -> {"new", "checked", "sending", "failed", "done"}]
    BY DEF TransfersInit
  <2>2. warned \in [Transfers -> 0..2]
    BY DEF TransfersInit
  <2> QED
    BY <2>1, <2>2 DEF TransfersInit, TransfersTypeOK
<1>2. ASSUME NEW t \in Transfers PROVE WarningInv(t)
  <2>1. warned[t] = 0 /\ transfer[t] = "new"
    BY DEF TransfersInit
  <2> QED
    BY <2>1 DEF TransfersInit, WarningInv
<1> QED
  BY <1>1, <1>2 DEF TransfersInv

\* Nobody is warned of the end of a share they were never sent, for any number of
\* transfers, requests and restarts.
THEOREM OnlyTheSentAreWarned == TransfersSpec => []WarnedWereSent
<1>1. TransfersInv /\ [TransfersNext]_transferVars => TransfersInv'
  BY TransfersKept
<1>2. TransfersInv => WarnedWereSent
  BY DEF TransfersInv, TransfersTypeOK, WarningInv, WasSent, WarnedWereSent
<1> QED
  BY <1>1, <1>2, TransfersInitially, PTL DEF TransfersSpec

\* Nobody is warned twice unless a warning could not be marked.
THEOREM WarningsAreSingle == TransfersSpec => []WarnedOnce
<1>1. TransfersInv /\ [TransfersNext]_transferVars => TransfersInv'
  BY TransfersKept
<1>2. TransfersInv => WarnedOnce
  BY DEF TransfersInv, TransfersTypeOK, WarningInv, WarnedOnce
<1> QED
  BY <1>1, <1>2, TransfersInitially, PTL DEF TransfersSpec

-----------------------------------------------------------------------------
(* The migration. What the next start finds decides what it does: a        *)
(* database, or the old file and no database. So the invariant is about    *)
(* the stages in between, and about a process that is down.                *)

MigratedSoFar ==
    /\ json \in BOOLEAN /\ database \in BOOLEAN /\ spoiled \in BOOLEAN
    /\ stage \in {"down", "creating", "migrating", "renaming", "opening", "serving", "stopping"}
    /\ stage = "migrating" => database
    /\ stage = "renaming" => database /\ OldShares \subseteq rows
    /\ ~spoiled =>
        /\ stage \in {"opening", "serving", "stopping"} => database /\ OldShares \subseteq rows
        /\ stage = "creating" => json /\ ~database
        /\ stage = "down" => IF database THEN OldShares \subseteq rows ELSE json

LEMMA MigrationFailsStep ==
    ASSUME MigratedSoFar, MigrationFails, UNCHANGED json, json \/ spoiled
    PROVE  MigratedSoFar'
  BY DEF MigratedSoFar, MigrationFails, AfterRemoval

\* While the old file is being migrated it is there.
MigrationInv == MigratedSoFar /\ (stage \in {"creating", "migrating"} => json \/ spoiled)

LEMMA MigrationKept ==
    ASSUME MigrationInv, [ServerNext]_serverVars
    PROVE  MigrationInv'
<1> USE DEF MigrationInv
<1>1. CASE StartServer
  BY <1>1 DEF StartServer, MigratedSoFar
<1>2. CASE CreateDatabase
  <2>1. CASE MigrationFails
    <3>1. UNCHANGED json /\ (json \/ spoiled)
      BY <1>2 DEF CreateDatabase
    <3>2. stage' = "down"
      BY <2>1 DEF MigrationFails
    <3> QED
      BY <2>1, <3>1, <3>2, MigrationFailsStep
  <2> QED
    BY <1>2, <2>1 DEF CreateDatabase, MigratedSoFar
<1>3. ASSUME NEW s \in OldShares, MigrateShare(s) PROVE MigrationInv'
  <2>1. CASE MigrationFails
    <3>1. UNCHANGED json /\ (json \/ spoiled)
      BY <1>3 DEF MigrateShare
    <3>2. stage' = "down"
      BY <2>1 DEF MigrationFails
    <3> QED
      BY <2>1, <3>1, <3>2, MigrationFailsStep
  <2>2. CASE UNCHANGED <<json, stage, database, spoiled>>
    BY <1>3, <2>2 DEF MigrateShare, MigratedSoFar
  <2> QED
    BY <1>3, <2>1, <2>2 DEF MigrateShare
<1>4. CASE CloseDatabase \/ RenameToBackup \/ OpenDatabase
  BY <1>4 DEF CloseDatabase, RenameToBackup, OpenDatabase, MigratedSoFar
<1>5. ASSUME NEW r \in Requests, BeginRequest(r) \/ EndRequest(r) PROVE MigrationInv'
  BY <1>5 DEF BeginRequest, EndRequest, MigratedSoFar
<1>6. CASE Signal \/ ShutdownReturns \/ StopWorker \/ MainReturns
  BY <1>6 DEF Signal, ShutdownReturns, StopWorker, MainReturns, ProcessEnds, MigratedSoFar
<1>7. CASE Crash
  BY <1>7 DEF Crash, ProcessEnds, MigratedSoFar
<1>8. CASE UNCHANGED serverVars
  BY <1>8 DEF serverVars, MigratedSoFar
<1> QED
  BY <1>1, <1>2, <1>3, <1>4, <1>5, <1>6, <1>7, <1>8 DEF ServerNext

\* "All or nothing": a server that serves has every share of the old store, for any
\* number of shares, refused starts and crashes outside of a migration.
THEOREM MigrationIsWhole == ServerSpec => []SharesMigrated
<1>1. ServerInit => MigrationInv
  BY DEF ServerInit, MigrationInv, MigratedSoFar
<1>2. MigrationInv /\ [ServerNext]_serverVars => MigrationInv'
  BY MigrationKept
<1>3. MigrationInv => SharesMigrated
  BY DEF MigrationInv, MigratedSoFar, SharesMigrated
<1> QED
  BY <1>1, <1>2, <1>3, PTL DEF ServerSpec

-----------------------------------------------------------------------------
(* The tunnel settings. An entry of the cache that is not what the file    *)
(* holds got there, or stayed, at a time no later than the history         *)
(* remembers, unless a save has still to put its settings over it.         *)

TunnelShapes ==
    /\ tick \in Nat /\ overtaken \in Nat
    /\ cache.at \in Nat
    /\ editor \in [Editors -> [pc : {"idle", "reading", "filling", "writing", "caching"},
                               edit : Nat]]
    /\ tunnelFile \in Nat /\ edits \in Nat

SomeoneCaching == \E p \in Editors : editor[p].pc = "caching"

StaleIsRemembered ==
    /\ TunnelShapes
    /\ cache.at <= tick
    /\ cache.edit \notin {0, tunnelFile} => SomeoneCaching \/ cache.at < overtaken

LEMMA OtherStaysCaching ==
    ASSUME TunnelShapes, SomeoneCaching, NEW p \in Editors, editor[p].pc # "caching",
           \E e : editor' = [editor EXCEPT ![p] = e]
    PROVE  SomeoneCaching'
  BY DEF TunnelShapes, SomeoneCaching

LEMMA TunnelKept ==
    ASSUME StaleIsRemembered, [TunnelNext]_tunnelVars
    PROVE  StaleIsRemembered'
<1> USE TunnelConstants DEF TunnelShapes
<1>1. CASE LoadCached
  BY <1>1 DEF LoadCached, AfterHit, StaleIsRemembered, SomeoneCaching
<1>2. ASSUME NEW p \in Editors, BeginLoad(p) \/ ReadFile(p) PROVE StaleIsRemembered'
  <2>1. /\ editor[p].pc # "caching"
        /\ \E e \in [pc : {"idle", "reading", "filling", "writing", "caching"}, edit : Nat] :
                editor' = [editor EXCEPT ![p] = e]
        /\ UNCHANGED <<tick, tunnelFile, cache, overtaken>>
    BY <1>2 DEF BeginLoad, ReadFile, EditorAt, EditorDone, NoEditor, StaleIsRemembered
  <2>2. SomeoneCaching => SomeoneCaching'
    BY <2>1, OtherStaysCaching DEF StaleIsRemembered
  <2>3. TunnelShapes'
    BY <1>2, <2>1 DEF BeginLoad, ReadFile, StaleIsRemembered
  <2> QED
    BY <2>1, <2>2, <2>3 DEF StaleIsRemembered
<1>3. ASSUME NEW p \in Editors, NEW pc, FillCache(p, pc) PROVE StaleIsRemembered'
  BY <1>3 DEF FillCache, EditorDone, NoEditor, StaleIsRemembered
<1>4. ASSUME NEW p \in Editors, BeginSave(p) PROVE StaleIsRemembered'
  <2>1. /\ editor[p].pc # "caching"
        /\ editor' = [editor EXCEPT ![p] = [pc |-> "writing", edit |-> edits + 1]]
        /\ UNCHANGED <<tick, tunnelFile, cache, overtaken>>
        /\ edits' = edits + 1
    BY <1>4 DEF BeginSave, EditorAt, NoEditor
  <2>2. SomeoneCaching => SomeoneCaching'
    BY <2>1, OtherStaysCaching DEF StaleIsRemembered
  <2> QED
    BY <2>1, <2>2 DEF StaleIsRemembered
<1>5. ASSUME NEW p \in Editors, WriteFile(p) PROVE StaleIsRemembered'
  <2>1. CASE tunnelFile' = editor[p].edit /\ EditorAt(p, "caching", editor[p].edit)
             /\ UNCHANGED overtaken
    BY <1>5, <2>1 DEF WriteFile, EditorAt, StaleIsRemembered, SomeoneCaching
  <2>2. CASE tunnelFile' \in {tunnelFile, 0} /\ overtaken' = tick + 1 /\ EditorDone(p)
    BY <1>5, <2>2 DEF WriteFile, EditorDone, NoEditor, StaleIsRemembered
  <2> QED
    BY <1>5, <2>1, <2>2 DEF WriteFile
<1>6. CASE NextTick
  BY <1>6 DEF NextTick, StaleIsRemembered, SomeoneCaching
<1>7. CASE RestartTunnel
  BY <1>7 DEF RestartTunnel, NoCache, NoEditor, StaleIsRemembered
<1>8. CASE UNCHANGED tunnelVars
  BY <1>8 DEF tunnelVars, StaleIsRemembered, SomeoneCaching
<1> QED
  BY <1>1, <1>2, <1>3, <1>4, <1>5, <1>6, <1>7, <1>8 DEF TunnelNext

\* Settings that are not the file's are served for at most CacheTTL after the last
\* request that was overtaken or failed, for any number of editors and saves.
THEOREM CacheIsBounded == TunnelSpec => []CacheCatchesUp
<1>1. TunnelInit => StaleIsRemembered
  BY DEF TunnelInit, NoCache, NoEditor, StaleIsRemembered, TunnelShapes
<1>2. StaleIsRemembered /\ [TunnelNext]_tunnelVars => StaleIsRemembered'
  BY TunnelKept
<1>3. StaleIsRemembered => CacheCatchesUp
  BY TunnelConstants DEF StaleIsRemembered, TunnelShapes, SomeoneCaching, CacheCatchesUp, CacheFresh
<1> QED
  BY <1>1, <1>2, <1>3, PTL DEF TunnelSpec

-----------------------------------------------------------------------------
(* The credentials. As long as no two requests overlap and nothing fails,  *)
(* a request that is about to save carries what was typed last, or what it *)
(* brings itself; and one that is about to hand the settings to the mailer *)
(* carries what is in the table.                                           *)

SettingsShapes ==
    /\ store \in Stores
    /\ memory \in Settings /\ disk \in Settings
    /\ provided \in BOOLEAN /\ loose \in BOOLEAN
    /\ saver \in [Savers -> Saver]
    /\ typed \in Credentials \union {NoCredential}
    /\ exchanger \in Credentials \union {NoCredential, MaskText}

\* What a request in the middle of a save carries, for each way to store it
Carries(p) ==
    LET s == saver[p]
    IN  /\ s.pc \in {"reading", "updating"} => store = "smtp"
        /\ s.pc # "idle" => provided
        /\ s.pc # "idle" /\ store # "oidc" => s.sent # MaskText
        /\ s.pc = "reading" => s.sent \notin Credentials
        /\ ~loose /\ s.pc = "saving" /\ store = "webhook" =>
                s.copy.credential = (IF s.sent = NotSent THEN typed ELSE s.sent)
        /\ ~loose /\ s.pc = "saving" /\ store = "smtp" =>
                s.copy.credential = (IF s.sent \in Credentials THEN s.sent ELSE typed)
        /\ ~loose /\ s.pc = "updating" => s.copy.credential = typed

CredentialsKept ==
    /\ store # "oidc" => provided
    /\ ~loose => disk.credential = typed
    /\ ~loose /\ provided /\ (\A p \in Savers : saver[p].pc # "updating") =>
            memory.credential = typed

SettingsInv == SettingsShapes /\ CredentialsKept /\ \A p \in Savers : Carries(p)

LEMMA OthersCarry ==
    ASSUME SettingsInv, NEW p \in Savers,
           \A q \in Savers \ {p} : saver'[q] = saver[q],
           UNCHANGED <<store, provided, typed>>, ~loose' => ~loose
    PROVE  \A q \in Savers \ {p} : Carries(q)'
  BY DEF SettingsInv, Carries

\* A save that nobody overlaps leaves nobody who carries anything
LEMMA NobodyElse ==
    ASSUME SettingsInv, NEW p \in Savers, store \in {"webhook", "smtp"},
           \A q \in Savers \ {p} : saver'[q] = saver[q],
           UNCHANGED <<store, provided>>, loose' = (loose \/ Overlapped(p))
    PROVE  \A q \in Savers \ {p} : Carries(q)'
  BY DEF SettingsInv, Carries, Overlapped

LEMMA WriteFailsKeeps ==
    ASSUME SettingsInv, WriteFails, UNCHANGED <<store, provided>>
    PROVE  disk' \in Settings /\ loose' \in BOOLEAN /\ CredentialsKept'
<1>1. loose' = TRUE /\ disk' \in {disk, Unset}
  BY DEF WriteFails
<1>2. Unset \in Settings
  BY DEF Unset, Settings
<1> QED
  BY <1>1, <1>2 DEF SettingsInv, SettingsShapes, CredentialsKept

LEMMA BeginSaveSteps ==
    ASSUME SettingsInv, NEW p \in Savers, NEW on \in BOOLEAN, NEW sent \in Sent,
           \/ sent # MaskText /\ (BeginSaveWebhook(p, on, sent) \/ BeginSaveSMTP(p, on, sent))
           \/ BeginSaveOIDC(p, on, sent) \/ TestSMTP(p)
    PROVE  SettingsInv'
<1> USE SettingsConstants DEF SettingsInv, SettingsShapes, Stores
<1>1. /\ saver' \in [Savers -> Saver] /\ saver'[p].pc \in {"reading", "saving", "updating"}
      /\ \A q \in Savers \ {p} : saver'[q] = saver[q]
      /\ saver[p].pc = "idle"
      /\ UNCHANGED <<store, memory, disk, provided, exchanger, typed, loose>>
  BY DEF BeginSaveWebhook, BeginSaveSMTP, BeginSaveOIDC, TestSMTP, SaverAt, Saver, Settings,
         Sent, NoSaver, Unset
<1>2. Carries(p)'
  <2>1. CASE BeginSaveWebhook(p, on, sent) /\ sent # MaskText
    <3>1. \A q \in Savers : saver[q].pc # "updating"
      BY <2>1 DEF BeginSaveWebhook, Carries
    <3> QED
      BY <2>1, <1>1, <3>1 DEF BeginSaveWebhook, SaverAt, Carries, CredentialsKept, Sent
  <2>2. CASE BeginSaveSMTP(p, on, sent) /\ sent # MaskText
    BY <2>2, <1>1 DEF BeginSaveSMTP, SaverAt, Carries, CredentialsKept, Sent
  <2>3. CASE BeginSaveOIDC(p, on, sent)
    BY <2>3, <1>1 DEF BeginSaveOIDC, SaverAt, Carries, CredentialsKept
  <2>4. CASE TestSMTP(p)
    BY <2>4, <1>1 DEF TestSMTP, SaverAt, Carries, CredentialsKept
  <2> QED
    BY <2>1, <2>2, <2>3, <2>4
<1>3. \A q \in Savers \ {p} : Carries(q)'
  BY <1>1, OthersCarry
<1>4. CredentialsKept'
  BY <1>1 DEF CredentialsKept
<1> QED
  BY <1>1, <1>2, <1>3, <1>4

LEMMA SaveWebhookStep ==
    ASSUME SettingsInv, NEW p \in Savers, SaveWebhook(p)
    PROVE  SettingsInv'
<1> USE SettingsConstants DEF SettingsInv, SettingsShapes, Stores
<1>1. /\ saver' \in [Savers -> Saver] /\ saver'[p] = NoSaver
      /\ \A q \in Savers \ {p} : saver'[q] = saver[q]
      /\ saver[p] \in Saver /\ saver[p].pc = "saving" /\ store = "webhook"
      /\ UNCHANGED <<store, provided, exchanger>>
  BY DEF SaveWebhook, SaverDone, Saver, Settings, Sent, NoSaver, Unset
<1>2. Carries(p)'
  BY <1>1 DEF Carries, NoSaver
<1>3. CASE disk' = saver[p].copy /\ memory' = saver[p].copy /\ loose' = (loose \/ Overlapped(p))
           /\ typed' = IF saver[p].sent = NotSent THEN typed ELSE saver[p].sent
  <2>1. \A q \in Savers \ {p} : Carries(q)'
    BY <1>1, <1>3, NobodyElse
  <2>2. SettingsShapes'
    BY <1>1, <1>3 DEF Carries, Saver, Sent, Settings
  <2>3. ~loose' => saver[p].copy.credential = typed'
    BY <1>1, <1>3 DEF Carries
  <2>4. CredentialsKept'
    BY <1>1, <1>3, <2>3 DEF CredentialsKept
  <2> QED
    BY <1>2, <2>1, <2>2, <2>4
<1>4. CASE WriteFails /\ UNCHANGED <<memory, typed>>
  <2>1. \A q \in Savers \ {p} : Carries(q)'
    BY <1>1, <1>4, OthersCarry DEF WriteFails
  <2> QED
    BY <1>1, <1>2, <1>4, <2>1, WriteFailsKeeps
<1> QED
  BY <1>3, <1>4 DEF SaveWebhook

LEMMA SaveOIDCStep ==
    ASSUME SettingsInv, NEW p \in Savers, SaveOIDC(p)
    PROVE  SettingsInv'
<1> USE SettingsConstants DEF SettingsInv, SettingsShapes, Stores
<1> DEFINE new == [on |-> saver[p].copy.on, credential |-> Merged(saver[p].sent)]
<1>1. /\ saver' \in [Savers -> Saver] /\ saver'[p] = NoSaver
      /\ \A q \in Savers \ {p} : saver'[q] = saver[q]
      /\ saver[p] \in Saver /\ saver[p].pc = "saving" /\ store = "oidc" /\ provided
      /\ UNCHANGED <<store, provided>>
  BY DEF SaveOIDC, SaverDone, Saver, Settings, Sent, NoSaver, Unset, Carries
<1>2. Carries(p)'
  BY <1>1 DEF Carries, NoSaver
<1>3. \A q \in Savers : saver[q].pc \in {"idle", "saving"}
  BY <1>1 DEF Carries, Saver
<1>4. new \in Settings /\ memory' = new
      /\ typed' = IF saver[p].sent \in Credentials THEN saver[p].sent ELSE typed
  BY <1>1 DEF SaveOIDC, Merged, Settings, Saver, Sent
<1>5. ~loose => new.credential = typed'
  BY <1>1, <1>3, <1>4 DEF CredentialsKept, Merged, Saver, Sent
<1>6. \A q \in Savers \ {p} : Carries(q)'
  BY <1>1, <1>3 DEF Carries
<1> HIDE DEF new
<1>7. CASE disk' = new /\ UNCHANGED loose /\ exchanger' \in {exchanger, new.credential}
  BY <1>1, <1>2, <1>4, <1>5, <1>6, <1>7 DEF CredentialsKept, Settings
<1>8. CASE WriteFails /\ UNCHANGED exchanger
  BY <1>1, <1>2, <1>4, <1>6, <1>8, WriteFailsKeeps
<1>9. \/ disk' = new /\ UNCHANGED loose /\ exchanger' \in {exchanger, new.credential}
      \/ WriteFails /\ UNCHANGED exchanger
  BY DEF SaveOIDC, new
<1> QED
  BY <1>7, <1>8, <1>9

LEMMA SMTPSteps ==
    ASSUME SettingsInv, NEW p \in Savers, ReadPassword(p) \/ SaveSMTP(p) \/ UpdateMailer(p)
    PROVE  SettingsInv'
<1> USE SettingsConstants DEF SettingsInv, SettingsShapes, Stores
<1>1. CASE ReadPassword(p)
  <2>1. /\ saver' \in [Savers -> Saver] /\ saver'[p].pc = "saving" /\ saver[p].pc = "reading"
        /\ saver'[p].sent = saver[p].sent
        /\ \A q \in Savers \ {p} : saver'[q] = saver[q]
        /\ ~loose' => ~loose /\ saver'[p].copy.credential = disk.credential
        /\ loose' \in BOOLEAN
        /\ UNCHANGED <<store, memory, disk, provided, exchanger, typed>>
    <3>1. saver[p] \in Saver /\ saver[p].pc = "reading"
      BY <1>1 DEF ReadPassword
    <3>2. CASE saver' = [saver EXCEPT ![p].pc = "saving", ![p].copy.credential = disk.credential]
               /\ UNCHANGED loose
      BY <1>1, <3>1, <3>2 DEF ReadPassword, Saver, Settings
    <3>3. CASE saver' = [saver EXCEPT ![p].pc = "saving"] /\ loose' = TRUE
      BY <1>1, <3>1, <3>3 DEF ReadPassword, Saver, Settings
    <3> QED
      BY <1>1, <3>2, <3>3 DEF ReadPassword
  <2>2. Carries(p)'
    BY <2>1 DEF Carries, CredentialsKept
  <2>3. \A q \in Savers \ {p} : Carries(q)'
    BY <2>1, OthersCarry
  <2>4. CredentialsKept'
    BY <2>1 DEF CredentialsKept
  <2> QED
    BY <2>1, <2>2, <2>3, <2>4
<1>2. CASE SaveSMTP(p)
  <2>1. /\ saver' \in [Savers -> Saver] /\ saver[p] \in Saver /\ saver[p].pc = "saving"
        /\ \A q \in Savers \ {p} : saver'[q] = saver[q]
        /\ store = "smtp" /\ UNCHANGED <<store, memory, provided, exchanger>>
    <3>1. saver[p] \in Saver /\ saver[p].pc = "saving" /\ NoSaver \in Saver
      BY <1>2 DEF SaveSMTP, NoSaver, Saver, Sent, Unset, Settings
    <3>2. \E s \in Saver : saver' = [saver EXCEPT ![p] = s]
      BY <1>2, <3>1 DEF SaveSMTP, SaverAt, SaverDone, Saver
    <3> QED
      BY <1>2, <3>1, <3>2 DEF SaveSMTP
  <2>2. CASE /\ disk' = saver[p].copy /\ loose' = (loose \/ Overlapped(p))
             /\ typed' = IF saver[p].sent \in Credentials THEN saver[p].sent ELSE typed
             /\ SaverAt(p, "updating", saver[p].sent, saver[p].copy)
    <3>1. saver'[p] = [saver[p] EXCEPT !.pc = "updating"]
      BY <2>1, <2>2 DEF SaverAt, Saver
    <3>2. ~loose' => saver[p].copy.credential = typed'
      BY <2>1, <2>2 DEF Carries
    <3>3. Carries(p)'
      BY <2>1, <3>1, <3>2 DEF Carries, Saver
    <3>4. \A q \in Savers \ {p} : Carries(q)'
      BY <2>1, <2>2, NobodyElse
    <3>5. disk' = saver[p].copy /\ saver'[p].pc = "updating"
      BY <2>1, <2>2, <3>1 DEF Saver
    <3>6. CredentialsKept'
      BY <2>1, <3>2, <3>5 DEF CredentialsKept
    <3>7. SettingsShapes'
      BY <2>1, <2>2 DEF Saver
    <3> QED
      BY <3>3, <3>4, <3>6, <3>7
  <2>3. CASE SaverDone(p) /\ UNCHANGED <<disk, typed, loose>>
    <3>1. saver'[p] = NoSaver
      BY <2>3 DEF SaverDone
    <3>2. \A q \in Savers \ {p} : Carries(q)'
      BY <2>1, <2>3, OthersCarry
    <3>3. Carries(p)'
      BY <3>1 DEF Carries, NoSaver
    <3>4. CredentialsKept'
      BY <2>1, <2>3, <3>1 DEF CredentialsKept
    <3> QED
      BY <2>1, <2>3, <3>2, <3>3, <3>4
  <2> QED
    BY <1>2, <2>2, <2>3 DEF SaveSMTP
<1>3. CASE UpdateMailer(p)
  <2>1. /\ saver' \in [Savers -> Saver] /\ saver'[p] = NoSaver
        /\ saver[p] \in Saver /\ saver[p].pc = "updating" /\ memory' = saver[p].copy
        /\ \A q \in Savers \ {p} : saver'[q] = saver[q]
        /\ UNCHANGED <<store, disk, provided, exchanger, typed, loose>>
    BY <1>3 DEF UpdateMailer, SaverDone, NoSaver, Saver, Sent, Unset, Settings
  <2>2. Carries(p)'
    BY <2>1 DEF Carries, NoSaver
  <2>3. \A q \in Savers \ {p} : Carries(q)'
    BY <2>1, OthersCarry
  <2>4. CredentialsKept'
    BY <2>1 DEF CredentialsKept, Carries
  <2> QED
    BY <2>1, <2>2, <2>3, <2>4 DEF Saver
<1> QED
  BY <1>1, <1>2, <1>3

LEMMA LoadSteps ==
    ASSUME SettingsInv, LoadSettings \/ LoadWithoutProvider
    PROVE  SettingsInv'
<1> USE SettingsConstants DEF SettingsInv, SettingsShapes, Stores
<1>1. /\ saver' = [p \in Savers |-> NoSaver] /\ NoSaver \in Saver
      /\ UNCHANGED <<store, disk, typed, loose>>
  BY DEF LoadSettings, LoadWithoutProvider, NoSaver, Saver, Sent, Unset, Settings
<1>2. \A p \in Savers : Carries(p)'
  BY <1>1 DEF Carries, NoSaver
<1>3. /\ memory' \in Settings /\ provided' \in BOOLEAN
      /\ exchanger' \in Credentials \union {NoCredential, MaskText}
  <2>1. Unset \in Settings /\ disk.credential \in Credentials \union {NoCredential, MaskText}
    BY DEF Unset, Settings
  <2>2. CASE LoadSettings
    BY <2>1, <2>2 DEF LoadSettings
  <2>3. CASE LoadWithoutProvider
    BY <2>1, <2>3 DEF LoadWithoutProvider
  <2> QED
    BY <2>2, <2>3
<1>4. CredentialsKept'
  BY <1>1 DEF LoadSettings, LoadWithoutProvider, NeedsProvider, CredentialsKept
<1> QED
  BY <1>1, <1>2, <1>3, <1>4

LEMMA SettingsKept ==
    ASSUME SettingsInv, [SettingsNext]_settingsVars
    PROVE  SettingsInv'
<1>1. ASSUME NEW p \in Savers, NEW on \in BOOLEAN, NEW sent \in Sent \ {MaskText},
             BeginSaveWebhook(p, on, sent) \/ BeginSaveSMTP(p, on, sent)
      PROVE  SettingsInv'
  BY <1>1, BeginSaveSteps
<1>2. ASSUME NEW p \in Savers, NEW on \in BOOLEAN, NEW sent \in Sent, BeginSaveOIDC(p, on, sent)
      PROVE  SettingsInv'
  BY <1>2, BeginSaveSteps
<1>3. ASSUME NEW p \in Savers, TestSMTP(p) PROVE SettingsInv'
  BY <1>3, BeginSaveSteps DEF Sent
<1>4. ASSUME NEW p \in Savers, SaveWebhook(p) \/ SaveOIDC(p) \/ ReadPassword(p)
             \/ SaveSMTP(p) \/ UpdateMailer(p)
      PROVE  SettingsInv'
  BY <1>4, SaveWebhookStep, SaveOIDCStep, SMTPSteps
<1>5. CASE LoadSettings \/ LoadWithoutProvider
  BY <1>5, LoadSteps
<1>6. CASE UNCHANGED settingsVars
  BY <1>6 DEF settingsVars, SettingsInv, SettingsShapes, CredentialsKept, Carries
<1> QED
  BY <1>1, <1>2, <1>3, <1>4, <1>5, <1>6 DEF SettingsNext

LEMMA SettingsInitially == SettingsInit => SettingsInv
<1> SUFFICES ASSUME SettingsInit PROVE SettingsInv
  OBVIOUS
<1>1. NoSaver \in Saver /\ Unset \in Settings
  BY DEF Settings, Unset, Saver, Sent, NoSaver
<1>2. \A p \in Savers : saver[p].pc = "idle"
  BY DEF SettingsInit, NoSaver
<1>3. SettingsShapes
  BY <1>1 DEF SettingsInit, SettingsShapes
<1>4. CredentialsKept
  BY DEF SettingsInit, CredentialsKept, Unset
<1> QED
  BY <1>2, <1>3, <1>4 DEF SettingsInv, Carries

\* A form that leaves a credential out changes neither the stored one nor the one in
\* use, in all three stores and for any number of requests and restarts.
THEOREM OmittedMeansUnchanged == SettingsSpec => []OmittedIsKept
<1>1. SettingsInit => SettingsInv
  BY SettingsInitially
<1>2. SettingsInv /\ [SettingsNext]_settingsVars => SettingsInv'
  BY SettingsKept
<1>3. SettingsInv => OmittedIsKept
  BY DEF SettingsInv, CredentialsKept, OmittedIsKept
<1> QED
  BY <1>1, <1>2, <1>3, PTL DEF SettingsSpec
-----------------------------------------------------------------------------
(* All parts together. The parts share no variable, so a step of the server  *)
(* is a step of one part and no step of the others: what was proved of a     *)
(* part by itself holds of it inside of the server.                          *)

LEMMA TunnelTyped ==
    ASSUME TunnelTypeOK, [TunnelNext]_tunnelVars
    PROVE  TunnelTypeOK'
<1> USE TunnelConstants
<1>0. /\ 0 \in Edits /\ Edits \subseteq Nat /\ NoEditor \in Editor
      /\ NoCache \in [edit : Edits, at : Nat]
  BY DEF Edits, NoEditor, Editor, NoCache
<1>1. ASSUME NEW p \in Editors, NEW pc, NEW e \in Edits,
             pc \in {"idle", "reading", "filling", "writing", "caching"}, EditorAt(p, pc, e)
      PROVE  editor' \in [Editors -> Editor]
  BY <1>1 DEF EditorAt, TunnelTypeOK, Editor
<1>2. ASSUME NEW p \in Editors, EditorDone(p) PROVE editor' \in [Editors -> Editor]
  BY <1>0, <1>2 DEF EditorDone, TunnelTypeOK
<1>3. \A p \in Editors : editor[p].edit \in Edits
  BY DEF TunnelTypeOK, Editor
<1>4. CASE LoadCached
  BY <1>4 DEF LoadCached, AfterHit, TunnelTypeOK
<1>5. ASSUME NEW p \in Editors, BeginLoad(p) \/ ReadFile(p) PROVE TunnelTypeOK'
  <2>1. editor' \in [Editors -> Editor]
    BY <1>0, <1>1, <1>2, <1>5 DEF BeginLoad, ReadFile, TunnelTypeOK
  <2> QED
    BY <1>5, <2>1 DEF BeginLoad, ReadFile, TunnelTypeOK
<1>6. ASSUME NEW p \in Editors, NEW pc, FillCache(p, pc) PROVE TunnelTypeOK'
  BY <1>2, <1>3, <1>6 DEF FillCache, TunnelTypeOK
<1>7. ASSUME NEW p \in Editors, BeginSave(p) PROVE TunnelTypeOK'
  <2>1. edits' \in Edits
    BY <1>7 DEF BeginSave, TunnelTypeOK, Edits
  <2>2. editor' \in [Editors -> Editor]
    BY <1>1, <1>7, <2>1 DEF BeginSave
  <2> QED
    BY <1>7, <2>1, <2>2 DEF BeginSave, TunnelTypeOK
<1>8. ASSUME NEW p \in Editors, WriteFile(p) PROVE TunnelTypeOK'
  <2>1. editor' \in [Editors -> Editor]
    BY <1>1, <1>2, <1>3, <1>8 DEF WriteFile
  <2>2. tunnelFile' \in Edits /\ overtaken' \in Nat
    BY <1>0, <1>3, <1>8 DEF WriteFile, TunnelTypeOK
  <2> QED
    BY <1>8, <2>1, <2>2 DEF WriteFile, TunnelTypeOK
<1>9. CASE NextTick \/ UNCHANGED tunnelVars
  BY <1>9 DEF NextTick, tunnelVars, TunnelTypeOK
<1>10. CASE RestartTunnel
  BY <1>0, <1>10 DEF RestartTunnel, TunnelTypeOK
<1> QED
  BY <1>4, <1>5, <1>6, <1>7, <1>8, <1>9, <1>10 DEF TunnelNext

LEMMA ServerTyped ==
    ASSUME ServerTypeOK, [ServerNext]_serverVars
    PROVE  ServerTypeOK'
<1>0. Len(Workers) \in Nat
  BY DEF Workers
<1>1. ASSUME ProcessEnds
      PROVE  /\ stage' = "down" /\ shutdown' = "none" /\ workersStopped' \in 0..Len(Workers)
             /\ request' \in [Requests -> {"none", "running"}]
  BY <1>0, <1>1 DEF ProcessEnds
<1>2. CASE StartServer \/ CloseDatabase \/ RenameToBackup \/ OpenDatabase
  BY <1>2 DEF StartServer, CloseDatabase, RenameToBackup, OpenDatabase, runVars, ServerTypeOK
<1>3. ASSUME MigrationFails
      PROVE  database' \in BOOLEAN /\ spoiled' \in BOOLEAN /\ rows' \subseteq OldShares
             /\ stage' = "down"
  BY <1>3 DEF MigrationFails, AfterRemoval, ServerTypeOK
<1>4. CASE CreateDatabase
  BY <1>3, <1>4 DEF CreateDatabase, runVars, ServerTypeOK
<1>5. ASSUME NEW s \in OldShares, MigrateShare(s) PROVE ServerTypeOK'
  BY <1>3, <1>5 DEF MigrateShare, runVars, ServerTypeOK
<1>6. ASSUME NEW r \in Requests, BeginRequest(r) \/ EndRequest(r) PROVE ServerTypeOK'
  BY <1>6 DEF BeginRequest, EndRequest, ServerTypeOK
<1>7. CASE Signal \/ ShutdownReturns
  BY <1>7 DEF Signal, ShutdownReturns, ServerTypeOK
<1>8. CASE StopWorker
  <2>1. workersStopped' \in 0..Len(Workers)
    BY <1>0, <1>8 DEF StopWorker, ServerTypeOK
  <2> QED
    BY <1>8, <2>1 DEF StopWorker, ServerTypeOK
<1>9. CASE MainReturns
  BY <1>1, <1>9 DEF MainReturns, ServerTypeOK
<1>10. CASE Crash
  <2>1. crashes' \in Nat /\ spoiled' \in BOOLEAN
    BY <1>10 DEF Crash, ServerTypeOK
  <2> QED
    BY <1>1, <1>10, <2>1 DEF Crash, ServerTypeOK
<1>11. CASE UNCHANGED serverVars
  BY <1>11 DEF serverVars, ServerTypeOK
<1> QED
  BY <1>2, <1>4, <1>5, <1>6, <1>7, <1>8, <1>9, <1>10, <1>11 DEF ServerNext

LEMMA TypedInitially == TunnelInit /\ ServerInit => TunnelTypeOK /\ ServerTypeOK
<1>1. TunnelInit => TunnelTypeOK
  BY TunnelConstants
     DEF TunnelInit, TunnelTypeOK, NoCache, NoEditor, Editor, Edits
<1>2. Len(Workers) \in Nat
  BY DEF Workers
<1>3. ASSUME ServerInit PROVE ServerTypeOK
  <2>1. request \in [Requests -> {"none", "running"}]
    BY <1>3 DEF ServerInit
  <2>2. workersStopped \in 0..Len(Workers)
    BY <1>2, <1>3 DEF ServerInit
  <2>3. rows \subseteq OldShares /\ crashes \in Nat
    BY <1>3 DEF ServerInit
  <2> QED
    BY <1>3, <2>1, <2>2, <2>3 DEF ServerInit, ServerTypeOK
<1> QED
  BY <1>1, <1>3

\* What a step of the server is to each part
LEMMA StepsOfParts ==
    ASSUME [FocusNext]_focusVars
    PROVE  /\ [SessionsNext]_sessionVars /\ [LoginNext]_loginVars
           /\ [LimitsNext]_limiterVars /\ [ChallengesNext]_challengeVars
           /\ [AccountsNext]_accountVars /\ [WebhookNext]_webhookVars
           /\ [TransfersNext]_transferVars /\ [TunnelNext]_tunnelVars
           /\ [SettingsNext]_settingsVars /\ [ServerNext]_serverVars
<1>1. CASE SessionsStep
  BY <1>1 DEF SessionsStep
<1>2. CASE LoginStep
  BY <1>2 DEF LoginStep
<1>3. CASE LimitsStep
  BY <1>3 DEF LimitsStep
<1>4. CASE ChallengesStep
  BY <1>4 DEF ChallengesStep
<1>5. CASE AccountsStep
  BY <1>5 DEF AccountsStep
<1>6. CASE WebhookStep
  BY <1>6 DEF WebhookStep
<1>7. CASE TransfersStep
  BY <1>7 DEF TransfersStep
<1>8. CASE TunnelStep
  BY <1>8 DEF TunnelStep
<1>9. CASE SettingsStep
  BY <1>9 DEF SettingsStep
<1>10. CASE ServerStep
  BY <1>10 DEF ServerStep
<1>11. CASE UNCHANGED focusVars
  BY <1>11 DEF focusVars
<1> QED
  BY <1>1, <1>2, <1>3, <1>4, <1>5, <1>6, <1>7, <1>8, <1>9, <1>10, <1>11 DEF FocusNext

\* A behaviour of the server is a behaviour of every part of it: what holds of a part
\* holds of the server, and what the server's runs find is a behaviour of a part.
THEOREM PartsBehave ==
    FocusSpec => /\ SessionsSpec /\ LoginSpec /\ LimitsSpec /\ ChallengesSpec /\ AccountsSpec
                 /\ WebhookSpec /\ TransfersSpec /\ TunnelSpec /\ SettingsSpec /\ ServerSpec
<1>1. FocusInit => /\ SessionsInit /\ LoginInit /\ LimitsInit /\ ChallengesInit /\ AccountsInit
                   /\ WebhookInit /\ TransfersInit /\ TunnelInit /\ SettingsInit /\ ServerInit
  BY DEF FocusInit
<1>2. [FocusNext]_focusVars =>
        /\ [SessionsNext]_sessionVars /\ [LoginNext]_loginVars
        /\ [LimitsNext]_limiterVars /\ [ChallengesNext]_challengeVars
        /\ [AccountsNext]_accountVars /\ [WebhookNext]_webhookVars
        /\ [TransfersNext]_transferVars /\ [TunnelNext]_tunnelVars
        /\ [SettingsNext]_settingsVars /\ [ServerNext]_serverVars
  BY StepsOfParts
<1> QED
  BY <1>1, <1>2, PTL DEF FocusSpec, SessionsSpec, LoginSpec, LimitsSpec, ChallengesSpec,
     AccountsSpec, WebhookSpec, TransfersSpec, TunnelSpec, SettingsSpec, ServerSpec

\* The variables of every part keep their types, whichever requests, clean-ups and
\* restarts of the part overlap.
THEOREM PartsAreTyped == FocusSpec => []ServerPartsTypeOK
<1> DEFINE AccessInv == SessionsInv /\ LoginInv /\ AccountsInv
           PaceInv == LimitsTypeOK /\ ChallengesInv
           OutInv == DrainInv /\ TransfersInv
           KeptInv == TunnelTypeOK /\ SettingsInv /\ ServerTypeOK
<1>1. SessionsInit /\ LoginInit /\ AccountsInit => AccessInv
  BY SessionsInitially, LoginInitially, AccountsInitially
<1>2. LimitsInit /\ ChallengesInit => PaceInv
  BY TypesInitially, ChallengesInitially
<1>3. WebhookInit /\ TransfersInit => OutInv
  BY DrainInitially, TransfersInitially
<1>4. TunnelInit /\ SettingsInit /\ ServerInit => KeptInv
  BY TypedInitially, SettingsInitially
<1>5. AccessInv /\ [SessionsNext]_sessionVars /\ [LoginNext]_loginVars
                /\ [AccountsNext]_accountVars => AccessInv'
  BY SessionsKept, LoginKept, AccountsKept
<1>6. PaceInv /\ [LimitsNext]_limiterVars /\ [ChallengesNext]_challengeVars => PaceInv'
  BY TypesStep, ChallengesKept
<1>7. OutInv /\ [WebhookNext]_webhookVars /\ [TransfersNext]_transferVars => OutInv'
  BY DeliveriesKept, TransfersKept
<1>8. KeptInv /\ [TunnelNext]_tunnelVars /\ [SettingsNext]_settingsVars
              /\ [ServerNext]_serverVars => KeptInv'
  BY TunnelTyped, SettingsKept, ServerTyped
<1>9. AccessInv /\ PaceInv /\ OutInv /\ KeptInv => ServerPartsTypeOK
  <2>1. AccessInv => SessionsTypeOK /\ LoginTypeOK /\ AccountsTypeOK
    BY DEF SessionsInv, LoginInv, AccountsInv
  <2>2. OutInv => WebhookTypeOK /\ TransfersTypeOK
    BY DEF DrainInv, TransfersInv
  <2>3. KeptInv => SettingsTypeOK
    BY DEF SettingsInv, SettingsShapes, SettingsTypeOK
  <2>4. PaceInv => ChallengesTypeOK
    BY DEF ChallengesInv
  <2> QED
    BY <2>1, <2>2, <2>3, <2>4 DEF ServerPartsTypeOK
<1> HIDE DEF AccessInv, PaceInv, OutInv, KeptInv
<1> QED
  BY <1>1, <1>2, <1>3, <1>4, <1>5, <1>6, <1>7, <1>8, <1>9, PartsBehave, PTL
     DEF SessionsSpec, LoginSpec, LimitsSpec, ChallengesSpec, AccountsSpec, WebhookSpec,
         TransfersSpec, TunnelSpec, SettingsSpec, ServerSpec
=============================================================================
