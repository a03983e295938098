--------------------------- MODULE WebhookDelivery ---------------------------
(***************************************************************************)
(* Delivering webhooks. A request that has something to tell reads the     *)
(* settings, asks whether the service has been stopped, takes one of a     *)
(* fixed number of slots or drops the event, joins the wait group and      *)
(* leaves the rest to a goroutine. Stop sets a flag and waits for the      *)
(* group, but not for longer than five seconds.                            *)
(*                                                                         *)
(* The flag, the slots and the group are three things: a step touches one. *)
(***************************************************************************)
EXTENDS Naturals, FiniteSets

CONSTANTS
    Notices,            \* events to tell of
    Slots               \* maxConcurrentWebhooks

ASSUME WebhookConstants == Slots \in Nat \ {0}

VARIABLES
    armed,              \* the settings: is there a URL, and is the event wanted
    halted,             \* Service.stopped
    notice,             \* [Notices -> where the event is]
    stopper,            \* where Stop is
    straddling          \* history: past the test of the flag, and not in the group, when
                        \* the flag was set

webhookVars == <<armed, halted, notice, stopper, straddling>>

NoticePCs == {"none", "wanted", "open", "slotted", "sending", "leaving", "sent", "dropped"}

WebhookTypeOK ==
    /\ armed \in BOOLEAN /\ halted \in BOOLEAN
    /\ notice \in [Notices -> NoticePCs]
    /\ stopper \in {"idle", "waiting", "drained", "timedOut"}
    /\ straddling \subseteq Notices

WebhookInit ==
    /\ armed \in BOOLEAN
    /\ halted = FALSE
    /\ notice = [n \in Notices |-> "none"]
    /\ stopper = "idle"
    /\ straddling = {}

At(pcs) == {n \in Notices : notice[n] \in pcs}
InSlots == At({"slotted", "sending"})
InGroup == At({"sending", "leaving"})
Becomes(n, pc) == notice' = [notice EXCEPT ![n] = pc]

-----------------------------------------------------------------------------
\* NotifyDownload, NotifyLimitReached, NotifyExpire
NotifyEvent(n) ==
    /\ notice[n] = "none"
    /\ armed
    /\ Becomes(n, "wanted")
    /\ UNCHANGED <<armed, halted, stopper, straddling>>

\* mutant: nobody asks
Accepting_Always == TRUE

Accepting == ~halted

TestStopped(n) ==
    /\ notice[n] = "wanted"
    /\ Becomes(n, IF Accepting THEN "open" ELSE "dropped")
    /\ UNCHANGED <<armed, halted, stopper, straddling>>

TakeSlot(n) ==
    /\ notice[n] = "open"
    /\ Becomes(n, IF Cardinality(InSlots) < Slots THEN "slotted" ELSE "dropped")
    /\ UNCHANGED <<armed, halted, stopper, straddling>>

JoinGroup(n) ==
    /\ notice[n] = "slotted"
    /\ Becomes(n, "sending")
    /\ UNCHANGED <<armed, halted, stopper, straddling>>

\* sendWebhook, whatever comes of it; then the slot is free, then the group is left
SendWebhook(n) ==
    /\ notice[n] = "sending"
    /\ Becomes(n, "leaving")
    /\ UNCHANGED <<armed, halted, stopper, straddling>>

LeaveGroup(n) ==
    /\ notice[n] = "leaving"
    /\ Becomes(n, "sent")
    /\ UNCHANGED <<armed, halted, stopper, straddling>>

-----------------------------------------------------------------------------
\* SaveConfig, by the handler that SavedSettings models
ArmWebhook ==
    /\ armed' = ~armed
    /\ UNCHANGED <<halted, notice, stopper, straddling>>

StopWebhooks ==
    /\ stopper = "idle"
    /\ halted' = TRUE
    /\ stopper' = "waiting"
    /\ straddling' = At({"open", "slotted"})
    /\ UNCHANGED <<armed, notice>>

WebhooksDrained ==
    /\ stopper = "waiting"
    /\ InGroup = {}
    /\ stopper' = "drained"
    /\ UNCHANGED <<armed, halted, notice, straddling>>

WebhooksTimeOut ==
    /\ stopper = "waiting"
    /\ stopper' = "timedOut"
    /\ UNCHANGED <<armed, halted, notice, straddling>>

-----------------------------------------------------------------------------
WebhookNext ==
    \/ \E n \in Notices :
        NotifyEvent(n) \/ TestStopped(n) \/ TakeSlot(n) \/ JoinGroup(n) \/ SendWebhook(n)
            \/ LeaveGroup(n)
    \/ ArmWebhook
    \/ StopWebhooks \/ WebhooksDrained \/ WebhooksTimeOut

WebhookSpec == WebhookInit /\ [][WebhookNext]_webhookVars

-----------------------------------------------------------------------------
(* What it guarantees *)

\* When Stop returns without having run out of time, no delivery is under way or
\* begins later: except those of requests that were between the test of the flag and
\* the wait group at the moment it was set, which Stop does not wait for.
StopDrains ==
    stopper = "drained" => At({"open", "slotted", "sending", "leaving"}) \subseteq straddling
=============================================================================
