------------------------------- MODULE Notices -------------------------------
(***************************************************************************)
(* Notices: the notifications of one user.  Tips are batched into digests  *)
(* that a sweep flushes (batching.ts), and each channel's deliveries       *)
(* follow the provider's receipts (delivery.ts), which come late, twice    *)
(* and in any order.                                                       *)
(***************************************************************************)
EXTENDS Integers, FiniteSets, FiniteSetsExt

CONSTANTS
    Flushers,      \* processes that run the digest sweep
    Webhooks,      \* receipts being handled at a time
    Messages,      \* deliveries on the channel
    Threshold,     \* the failures in a row that disable a channel
    MaxTips,       \* bound
    Budgets        \* what a behaviour may use up: [tips, edits, receipts]

\* What the constants may be; MCDeliveries assumes it of its instance.
NoticesAssumption ==
    /\ Threshold \in Nat \ {0} /\ MaxTips \in Nat
    /\ \A b \in Budgets : {b.tips, b.edits, b.receipts} \subseteq Nat

VARIABLES
    preference,   \* [tips, batching]: NotificationPreference
    batch,        \* the NotificationBatch rows: window -> count, 0 for none
    digests,      \* the counts of the tip_digest notifications
    window,       \* the window that is open
    flush,        \* each sweep: [pc, listed], listed is what it read
    tally,        \* [single, muted, batched]: tips notified at once, dropped, and batched
    message,      \* NotificationDelivery.status of each, or "none"
    channel,      \* [failures, disabled, notices]: NotificationChannelState
    receipt,      \* each receipt being handled: [pc, of, seen, status]
    budget

vars == <<preference, batch, digests, window, flush, tally, message, channel, receipt, budget>>
digestVars == <<preference, batch, digests, window, flush, tally>>
channelVars == <<message, channel, receipt>>

Spend(what) == budget[what] > 0 /\ budget' = [budget EXCEPT ![what] = @ - 1]

Windows == 1..2
AsleepFlush == [pc |-> "asleep", listed |-> {}, count |-> 0]
NoReceipt == [pc |-> "idle", of |-> "none", seen |-> "none", status |-> "none"]

-----------------------------------------------------------------------------
(* Digests. *)

\* updatePreferences.
SetPreference(p) ==
    /\ p # preference /\ Spend("edits")
    /\ preference' = p
    /\ UNCHANGED <<batch, digests, window, flush, tally, channelVars>>

\* persistNotification of a tip_received: dropped, batched (enqueueTipBatch: an increment of the
\* row of the window that was open when its time was taken), or a notification of its own.
Notify(w) ==
    /\ w <= window /\ tally.single + tally.muted + tally.batched < MaxTips
    /\ Spend("tips")
    /\ IF ~preference.tips
       THEN tally' = [tally EXCEPT !.muted = @ + 1] /\ UNCHANGED batch
       ELSE IF preference.batching
       THEN /\ batch' = [batch EXCEPT ![w] = @ + 1]
            /\ tally' = [tally EXCEPT !.batched = @ + 1]
       ELSE tally' = [tally EXCEPT !.single = @ + 1] /\ UNCHANGED batch
    /\ UNCHANGED <<preference, digests, window, flush, channelVars>>

WindowCloses ==
    /\ window < 3
    /\ window' = window + 1
    /\ UNCHANGED <<preference, batch, digests, flush, tally, channelVars, budget>>

\* flushNotificationBatches, first await: the batches that are due.
ListBatches(f) ==
    /\ flush[f].pc = "asleep"
    /\ LET due == {w \in Windows : w < window /\ batch[w] > 0} IN
       due # {} /\ flush' = [flush EXCEPT ![f] = [pc |-> "flush", listed |-> due, count |-> batch[Min(due)]]]
    /\ UNCHANGED <<preference, batch, digests, window, tally, channelVars, budget>>

\* As if the digest were made of the batch as it was listed.
ClaimedAsListed(f, w) == flush[f].count

\* DELETE returns the row as it is now.
Claimed(f, w) == batch[w]

\* Then each in a transaction of its own: another sweep may have taken it (P2025), and a user who
\* has turned tips off gets none.
FlushBatch(f) ==
    /\ flush[f].pc = "flush"
    /\ LET w == Min(flush[f].listed)  rest == flush[f].listed \ {w} IN
       /\ batch' = [batch EXCEPT ![w] = 0]
       /\ IF batch[w] = 0 THEN UNCHANGED <<digests, tally>>
          ELSE IF ~preference.tips
          THEN tally' = [tally EXCEPT !.muted = @ + batch[w], !.batched = @ - batch[w]] /\ UNCHANGED digests
          ELSE digests' = digests + Claimed(f, w) /\ UNCHANGED tally
       /\ flush' = [flush EXCEPT ![f] = IF rest = {} THEN AsleepFlush
                                        ELSE [@ EXCEPT !.listed = rest, !.count = batch[Min(rest)]]]
    /\ UNCHANGED <<preference, window, channelVars, budget>>

\* The process stops; the rows are still there.
FlushCrash(f) ==
    /\ flush[f].pc = "flush" /\ Spend("edits")
    /\ flush' = [flush EXCEPT ![f] = AsleepFlush]
    /\ UNCHANGED <<preference, batch, digests, window, tally, channelVars>>

-----------------------------------------------------------------------------
(* Channels. *)

\* TRANSITIONS.
Transitions(status) ==
    CASE status = "queued" -> {"sent", "delivered", "failed", "bounced"}
      [] status = "sent" -> {"delivered", "failed", "bounced"}
      [] status \in {"delivered", "failed"} -> {"bounced"}
      [] OTHER -> {}

\* queueDelivery refuses a channel that is disabled.
QueueDelivery(m) ==
    /\ message[m] = "none" /\ ~channel.disabled
    /\ message' = [message EXCEPT ![m] = "queued"]
    /\ UNCHANGED <<digestVars, channel, receipt, budget>>

\* As if the acknowledgement were written over what came before it.
SentUnguarded(m) == message' = [message EXCEPT ![m] = "sent"]

\* The guard of acknowledgeDeliverySent.
Sent(m) == message' = [message EXCEPT ![m] = IF @ = "queued" THEN "sent" ELSE @]

\* The transport's own acknowledgement, at any time.
AcknowledgeSent(m) ==
    /\ message[m] # "none" /\ Spend("receipts")
    /\ Sent(m)
    /\ UNCHANGED <<digestVars, channel, receipt>>

\* transitionDelivery, its read: a repetition is answered, a step back refused.
Receive(h, m, status) ==
    /\ receipt[h].pc = "idle" /\ message[m] # "none" /\ Spend("receipts")
    /\ status \in Transitions(message[m])
    /\ receipt' = [receipt EXCEPT ![h] = [pc |-> "apply", of |-> m, seen |-> message[m], status |-> status]]
    /\ UNCHANGED <<digestVars, message, channel>>

\* As if the update were not guarded by the status that was read.
StillSeenAlways(h) == TRUE

\* The guard of its update.
StillSeen(h) == message[receipt[h].of] = receipt[h].seen

\* consecutiveFailures after a receipt.
Counted(status) ==
    CASE status \in {"failed", "bounced"} -> channel.failures + 1
      [] status = "delivered" -> 0
      [] OTHER -> channel.failures

\* As if every failure past the threshold told the user.
DisablesAgain(status) ==
    status = "bounced" \/ (status = "failed" /\ Counted(status) >= Threshold)

\* Whether a receipt disables the channel, which happens once (disabledAt: null).
Disables(status) ==
    /\ status = "bounced" \/ (status \in {"failed", "delivered"} /\ Counted(status) >= Threshold)
    /\ ~channel.disabled

\* Its write, with the channel's row, in the same transaction; a delivery that changed meanwhile
\* is refused and the provider sends the receipt again.
ApplyReceipt(h) ==
    /\ receipt[h].pc = "apply"
    /\ LET s == receipt[h].status IN
       IF StillSeen(h)
       THEN /\ message' = [message EXCEPT ![receipt[h].of] = s]
            /\ channel' = [failures |-> Counted(s),
                           disabled |-> channel.disabled \/ Disables(s),
                           notices |-> IF Disables(s) THEN channel.notices + 1 ELSE channel.notices]
       ELSE UNCHANGED <<message, channel>>
    /\ receipt' = [receipt EXCEPT ![h] = NoReceipt]
    /\ UNCHANGED <<digestVars, budget>>

Quiet == UNCHANGED vars

-----------------------------------------------------------------------------
Init ==
    /\ preference \in [tips : {TRUE}, batching : BOOLEAN]
    /\ batch = [w \in 1..3 |-> 0]
    /\ digests = 0
    /\ window = 1
    /\ flush = [f \in Flushers |-> AsleepFlush]
    /\ tally = [single |-> 0, muted |-> 0, batched |-> 0]
    /\ message = [m \in Messages |-> "none"]
    /\ channel = [failures |-> 0, disabled |-> FALSE, notices |-> 0]
    /\ receipt = [h \in Webhooks |-> NoReceipt]
    /\ budget \in Budgets

Next ==
    \/ WindowCloses \/ Quiet
    \/ \E p \in [tips : BOOLEAN, batching : BOOLEAN] : SetPreference(p)
    \/ \E w \in Windows : Notify(w)
    \/ \E f \in Flushers : ListBatches(f) \/ FlushBatch(f) \/ FlushCrash(f)
    \/ \E m \in Messages : \/ QueueDelivery(m) \/ AcknowledgeSent(m)
                           \/ \E h \in Webhooks, s \in {"delivered", "failed", "bounced"} : Receive(h, m, s)
    \/ \E h \in Webhooks : ApplyReceipt(h)

Spec == Init /\ [][Next]_vars

-----------------------------------------------------------------------------
(* Properties. *)

TypeOK ==
    /\ preference \in [tips : BOOLEAN, batching : BOOLEAN]
    /\ batch \in [1..3 -> Nat] /\ digests \in Nat /\ window \in 1..3
    /\ {tally.single, tally.muted, tally.batched} \subseteq Nat
    /\ message \in [Messages -> {"none", "queued", "sent", "delivered", "failed", "bounced"}]
    /\ channel.disabled \in BOOLEAN /\ {channel.failures, channel.notices} \subseteq Nat
    /\ \A h \in Webhooks : receipt[h].pc \in {"idle", "apply"}

\* Every batched tip is in one digest or still in its batch: increments that commit after the
\* sweep listed the batch are not lost, and two sweeps do not send it twice (batching.ts:54-59).
DigestsConserve == tally.batched = digests + batch[1] + batch[2]

\* A delivery's status only moves forward: a late acknowledgement or an old receipt never
\* overwrites a newer one (delivery.ts:101-104).
Rank(status) ==
    CASE status = "none" -> 0 [] status = "queued" -> 1 [] status = "sent" -> 2
      [] status \in {"delivered", "failed"} -> 3 [] OTHER -> 4
StatusMovesForward ==
    [][\A m \in Messages : \/ message'[m] = message[m]
                           \/ Rank(message'[m]) > Rank(message[m])]_vars

\* The channel is suppressed by a bounce or by Threshold failures, and says so once.
SuppressedOnce ==
    /\ channel.notices = IF channel.disabled THEN 1 ELSE 0
    /\ channel.failures >= Threshold => channel.disabled
    /\ (\E m \in Messages : message[m] = "bounced") => channel.disabled

=============================================================================
