------------------------------- MODULE TipFlow -------------------------------
(* The tip page and the registration form of the client: the guard against   *)
(* duplicate submissions, the steps of a tip, and the transactions of the    *)
(* account they start.  A page is mounted under a number of its own; what    *)
(* an earlier page started goes on, unless a reload ended its script.        *)
EXTENDS Integers, Sequences, FiniteSets, FiniteSetsExt

CONSTANTS SendCount,    \* transactions started in a behaviour, at most
          Budgets       \* how often each disturbance may happen

TipFlowAssumption ==
    /\ SendCount \in Nat \ {0}
    /\ Budgets \subseteq [drafts : Nat, retries : Nat, leaves : Nat, faults : Nat, waits : Nat]

Kinds == {"tip", "register"}
Steps == {"form", "confirm", "preparing", "signing", "submitting", "confirming",
          "success", "queued", "error"}
Statuses == {"idle", "signing", "submitting", "confirming", "success", "error"}

VARIABLES page,       \* [mount, kind]: the page on screen
          guard,      \* useTransactionGuard of that page
          active,     \* activeTransactions, of the whole script
          persisted,  \* whether session storage holds a pending guard
          flow,       \* [step, draft]: useTipFlow; draft 0 is none
          tipz,       \* [status, sending, due]: useTipz, and the step its effect will set
          seen,       \* what the last rendering showed and its handlers captured
          sends,      \* the transactions started, oldest first
          account,    \* [landed, paid]: the sequence number, and how often each draft was paid
          history,    \* [drafts, causes, blind]: drafts made, why the guard opened early,
                      \* and the drafts retried with an earlier attempt unsettled
          budget

vars == <<page, guard, active, persisted, flow, tipz, seen, sends, account, history, budget>>
guardVars == <<guard, active, persisted>>

\* useTransactionGuard.ts:121-126: nothing under way
IdleGuard == [lock |-> FALSE, entered |-> FALSE, timer |-> FALSE, restored |-> FALSE,
              status |-> "idle"]
\* useTipz.ts:23-29
IdleTipz == [status |-> "idle", sending |-> FALSE, due |-> "none"]
EmptyFlow == [step |-> "form", draft |-> 0]

Shown == [step |-> flow.step, draft |-> flow.draft, pending |-> guard.status = "pending",
          restored |-> guard.restored, busy |-> tipz.sending, status |-> tipz.status]

Here(s) == sends[s].mount = page.mount
Running(s) == sends[s].pc \in {"queueing", "building", "signing", "polling"}
Unsettled(s) == Running(s) \/ sends[s].chain = "pending"

Spend(what) == budget[what] > 0 /\ budget' = [budget EXCEPT ![what] = @ - 1]

TypeOK ==
    /\ page \in [mount : Nat, kind : Kinds]
    /\ guard \in [lock : BOOLEAN, entered : BOOLEAN, timer : BOOLEAN, restored : BOOLEAN,
                  status : {"idle", "pending", "success", "error"}]
    /\ active \in 0 .. 1 /\ persisted \in BOOLEAN
    /\ flow.step \in Steps /\ flow.draft \in 0 .. history.drafts
    /\ tipz.status \in Statuses /\ tipz.due \in (Statuses \ {"idle"}) \cup {"none"}
    /\ seen.step \in Steps
    /\ Len(sends) <= SendCount
    /\ \A s \in DOMAIN sends :
          /\ sends[s].pc \in {"queueing", "building", "signing", "polling", "settled", "gone"}
          /\ sends[s].chain \in {"none", "pending", "landed", "failed", "dropped"}
    /\ account.landed \in Nat
    /\ history.causes \subseteq {"waited", "dismissed", "retried", "unanswered", "cancelled",
                                "outrun"}

Init ==
    /\ page = [mount |-> 1, kind |-> "tip"]
    /\ guard = IdleGuard /\ active = 0 /\ persisted = FALSE
    /\ flow = EmptyFlow /\ tipz = IdleTipz
    /\ seen = [step |-> "form", draft |-> 0, pending |-> FALSE, restored |-> FALSE,
               busy |-> FALSE, status |-> "idle"]
    /\ sends = <<>>
    /\ account = [landed |-> 0, paid |-> <<>>]
    /\ history = [drafts |-> 0, causes |-> {}, blind |-> {}]
    /\ budget \in Budgets

-----------------------------------------------------------------------------
(* The guard. *)

\* enterTransaction and exitTransaction (useTransactionGuard.ts:51-59)
Entered(n, g) == IF g.entered THEN n ELSE n + 1
Exited(n, g) == IF g.entered THEN Max({0, n - 1}) ELSE n

\* startTransaction up to its await (useTransactionGuard.ts:223-247)
Acquire ==
    /\ guard' = [lock |-> TRUE, entered |-> TRUE, timer |-> TRUE, restored |-> FALSE,
                 status |-> "pending"]
    /\ active' = Entered(active, guard)
    /\ persisted' = TRUE

\* release, and the status its caller sets: it frees the lock of whoever holds it
Release(status, restored) ==
    /\ guard' = [IdleGuard EXCEPT !.status = status, !.restored = restored]
    /\ active' = Exited(active, guard)
    /\ persisted' = FALSE

\* The timeout of the guard, 120 s after the start (useTransactionGuard.ts:152-165)
GuardTimesOut ==
    /\ guard.timer
    /\ Release("error", guard.restored)
    /\ history' = [history EXCEPT !.causes = @ \cup {"waited"}]
    /\ UNCHANGED <<page, flow, tipz, seen, sends, account, budget>>

\* The notice of a restored transaction is dismissed (TransactionRestoredNotice.tsx,
\* useTransactionGuard.ts:259-263)
DismissNotice ==
    /\ seen.restored
    /\ Release("idle", FALSE)
    /\ history' = [history EXCEPT !.causes = @ \cup {"dismissed"}]
    /\ UNCHANGED <<page, flow, tipz, seen, sends, account, budget>>

\* As if the page came back to an open form whatever the storage held.
RestoreNothing(n) == guard' = IdleGuard /\ active' = n /\ UNCHANGED <<persisted, history>>

\* A page mounts, having left n transactions counted: a persisted entry is restored, or has
\* expired (useTransactionGuard.ts:168-205)
Restore(n) ==
    \/ /\ ~persisted
       /\ guard' = IdleGuard /\ active' = n
       /\ UNCHANGED <<persisted, history>>
    \/ /\ persisted
       /\ guard' = [lock |-> TRUE, entered |-> TRUE, timer |-> TRUE, restored |-> TRUE,
                    status |-> "pending"]
       /\ active' = n + 1
       /\ UNCHANGED <<persisted, history>>
    \/ /\ persisted
       /\ guard' = IdleGuard /\ active' = n /\ persisted' = FALSE
       /\ history' = [history EXCEPT !.causes = @ \cup {"waited"}]

Mounted ==
    /\ page' \in [mount : {page.mount + 1}, kind : Kinds]
    /\ flow' = EmptyFlow /\ tipz' = IdleTipz
    /\ seen' = [step |-> "form", draft |-> 0, pending |-> FALSE, restored |-> FALSE,
                busy |-> FALSE, status |-> "idle"]
    /\ Spend("leaves")
    /\ UNCHANGED account

\* Following a link: the page unmounts and gives its place in the count back, its requests
\* go on (useTransactionGuard.ts:266-277; TransactionNavigationBlock.tsx asks first)
Navigate == Mounted /\ Restore(Exited(active, guard)) /\ UNCHANGED sends

\* Reloading ends the script with every request in it; what was broadcast is on its way
Reload ==
    /\ Mounted /\ Restore(0)
    /\ sends' = [s \in DOMAIN sends |->
                    IF Running(s) THEN [sends[s] EXCEPT !.pc = "gone"] ELSE sends[s]]

-----------------------------------------------------------------------------
(* The tip. *)

\* React renders: buttons and handlers are those of the state of now
Render == seen # Shown /\ seen' = Shown
          /\ UNCHANGED <<page, guardVars, flow, tipz, sends, account, history, budget>>

\* The timer that useTipFlow's effect sets on a new status sets the step
\* (useTipFlow.ts:37-59)
FollowStatus ==
    /\ tipz.due # "none"
    /\ flow' = [flow EXCEPT !.step = tipz.due]
    /\ tipz' = [tipz EXCEPT !.due = "none"]
    /\ UNCHANGED <<page, guardVars, seen, sends, account, history, budget>>

\* useTipz's state with a new status: the effect runs when the status changed
WithStatus(status, sending) ==
    [status |-> status, sending |-> sending,
     due |-> IF tipz.status = status THEN tipz.due ELSE status]

\* The timers of 900 and 2400 ms: the tip is taken to progress (useTipz.ts:50-64)
Progress ==
    /\ page.kind = "tip" /\ tipz.sending /\ tipz.status \in {"signing", "submitting"}
    /\ \E s \in DOMAIN sends : Here(s) /\ Running(s)
    /\ tipz' = WithStatus(IF tipz.status = "signing" THEN "submitting" ELSE "confirming", TRUE)
    /\ UNCHANGED <<page, guardVars, flow, seen, sends, account, history, budget>>

\* The form is sent: a draft is made and the confirmation opens (TipPage.tsx:149-173,
\* useTipFlow.ts:61-64)
HandleSubmit ==
    /\ page.kind = "tip"
    /\ seen.step \notin {"queued", "success", "error"}      \* the form is on screen
    /\ ~seen.pending /\ seen.step \notin {"signing", "submitting"}
    /\ Spend("drafts")
    /\ flow' = [step |-> "confirm", draft |-> history.drafts + 1]
    /\ history' = [history EXCEPT !.drafts = @ + 1,
                      !.causes = IF tipz.due = "none" THEN @ ELSE @ \cup {"outrun"}]
    /\ account' = [account EXCEPT !.paid = Append(@, 0)]
    /\ UNCHANGED <<page, guardVars, tipz, seen, sends>>

Started(draft, guarded, pc) ==
    Append(sends, [mount |-> page.mount, draft |-> draft, guarded |-> guarded, pc |-> pc,
                   seq |-> 0, chain |-> "none"])

\* confirmAndSign: to the queue when offline, else sendTip (useTipFlow.ts:66-95,
\* useTipz.ts:37-50); spare is what the budget still has
ConfirmAndSign(draft, guarded, spare) ==
    /\ Len(sends) < SendCount
    /\ flow' = [flow EXCEPT !.step = "preparing"]
    /\ \/ /\ spare.faults > 0                               \* offline
          /\ budget' = [spare EXCEPT !.faults = @ - 1]
          /\ sends' = Started(draft, guarded, "queueing")
          /\ UNCHANGED tipz
       \/ /\ sends' = Started(draft, guarded, "building")
          /\ tipz' = WithStatus("signing", TRUE)
          /\ budget' = spare

\* The message could not be encrypted: the call fails before anything is sent
\* (useTipz.ts:39-47)
EncryptionFails ==
    /\ Spend("faults")
    /\ flow' = [flow EXCEPT !.step = "preparing"]
    /\ tipz' = WithStatus("error", FALSE)
    /\ UNCHANGED sends

\* As if only the rendered status stopped a second confirmation.
ConfirmUnlocked ==
    /\ seen.step = "confirm" /\ ~seen.pending
    /\ \/ Acquire /\ ConfirmAndSign(seen.draft, TRUE, budget)
       \/ EncryptionFails /\ Release("error", FALSE)
    /\ UNCHANGED <<page, seen, account, history>>

\* The confirmation is given: rejected while the lock is held, guarded otherwise
\* (TipPage.tsx:176-180, TipConfirmationModal.tsx:37-49)
HandleConfirmAndSign ==
    /\ seen.step = "confirm" /\ ~seen.pending /\ ~guard.lock
    /\ \/ Acquire /\ ConfirmAndSign(seen.draft, TRUE, budget)
       \/ EncryptionFails /\ Release("error", FALSE)
    /\ UNCHANGED <<page, seen, account, history>>

\* The tracker's retry calls confirmAndSign itself, past the guard (TipPage.tsx:482,
\* TransactionTracker.tsx:103-112)
Retry ==
    /\ page.kind = "tip" /\ seen.step = "error"
    /\ \/ /\ seen.draft = 0
          /\ flow' = [flow EXCEPT !.step = "form"]
          /\ UNCHANGED <<tipz, sends, history, budget>>
       \/ /\ seen.draft # 0 /\ budget.retries > 0
          /\ \/ ConfirmAndSign(seen.draft, FALSE, [budget EXCEPT !.retries = @ - 1])
             \/ EncryptionFails
          /\ history' = [history EXCEPT
                !.causes = @ \cup {"retried"},
                !.blind = IF \E s \in DOMAIN sends :
                                sends[s].draft = seen.draft
                                /\ (Unsettled(s) \/ sends[s].chain = "landed")
                          THEN @ \cup {seen.draft} ELSE @]
    /\ UNCHANGED <<page, guardVars, seen, account>>

\* Clear, cancel, close: the flow and its status start anew, the guard and what is in
\* flight do not (useTipFlow.ts:97-101)
Reset ==
    /\ page.kind = "tip" /\ flow # EmptyFlow
    /\ flow' = EmptyFlow /\ tipz' = IdleTipz
    /\ history' = [history EXCEPT !.causes =
            IF \E s \in DOMAIN sends : Here(s) /\ Running(s) THEN @ \cup {"cancelled"} ELSE @]
    /\ UNCHANGED <<page, guardVars, seen, sends, account, budget>>

\* The registration form is sent (RegisterForm.tsx:183-251); its button is disabled while
\* a submission is pending or running, and after a success
RegisterSubmit ==
    /\ page.kind = "register"
    /\ ~seen.pending /\ ~seen.busy /\ seen.status # "success" /\ ~guard.lock
    /\ Len(sends) < SendCount
    /\ Acquire
    /\ sends' = Started(0, TRUE, "building")
    /\ tipz' = [status |-> "submitting", sending |-> TRUE, due |-> "none"]
    /\ UNCHANGED <<page, flow, seen, account, history, budget>>

-----------------------------------------------------------------------------
(* One transaction. *)

\* What a promise does when it settles: the page that started it takes the status, and a
\* guarded one releases the guard; after its page is gone it still clears the storage
\* (useTransactionGuard.ts:139-150,247-256; useTipz.ts:65-90)
Settle(s, ok) ==
    /\ \/ /\ Here(s)
          /\ tipz' = IF page.kind = "tip"
                     THEN WithStatus(IF ok THEN "success" ELSE "error", FALSE)
                     ELSE [status |-> IF ok THEN "success" ELSE "error", sending |-> FALSE,
                           due |-> "none"]
          /\ IF sends[s].guarded
             THEN Release(IF ok THEN "success" ELSE "error", guard.restored)
             ELSE UNCHANGED guardVars
       \/ /\ ~Here(s)
          /\ persisted' = (persisted /\ ~sends[s].guarded)
          /\ UNCHANGED <<tipz, guard, active>>
    /\ UNCHANGED <<page, flow, seen, account>>

To(s, pc) == [sends EXCEPT ![s].pc = pc]
OnChain(s, pc, chain) == [sends EXCEPT ![s].pc = pc, ![s].chain = chain]

\* The offline queue took the tip, or failed to and only logged it (useTipFlow.ts:75-91)
Queued(s) ==
    /\ sends[s].pc = "queueing"
    /\ sends' = To(s, "settled")
    /\ IF Here(s)
       THEN /\ flow' = [flow EXCEPT !.step = "queued"]
            /\ IF sends[s].guarded THEN Release("success", guard.restored)
                                   ELSE UNCHANGED guardVars
       ELSE /\ persisted' = (persisted /\ ~sends[s].guarded)
            /\ UNCHANGED <<flow, guard, active>>
    /\ UNCHANGED <<page, tipz, seen, account, history, budget>>

\* getTxBuilder reads the account: the next sequence number (useContract.ts:710-742)
Build(s) ==
    /\ sends[s].pc = "building"
    /\ sends' = [sends EXCEPT ![s].pc = "signing", ![s].seq = account.landed + 1]
    /\ UNCHANGED <<page, guardVars, flow, tipz, seen, account, history, budget>>

\* Signed and taken by the network: one transaction of an account at a time, with the next
\* number (soroban.ts:293-305)
Broadcast(s) ==
    /\ sends[s].pc = "signing"
    /\ sends[s].seq = account.landed + 1
    /\ \A t \in DOMAIN sends : sends[t].chain # "pending"
    /\ sends' = OnChain(s, "polling", "pending")
    /\ UNCHANGED <<page, guardVars, flow, tipz, seen, account, history, budget>>

\* Refused: by the network for its number, or by the wallet (soroban.ts:305-309,337-340)
Refused(s) ==
    /\ \/ sends[s].pc = "signing" /\ UNCHANGED budget
          /\ (\/ sends[s].seq # account.landed + 1
              \/ \E t \in DOMAIN sends : sends[t].chain = "pending")
       \/ sends[s].pc \in {"building", "signing"} /\ Spend("faults")
    /\ Settle(s, FALSE)
    /\ sends' = To(s, "settled")
    /\ UNCHANGED history

\* The answer to the broadcast is lost: the call fails, the transaction goes on
Unanswered(s) ==
    /\ sends[s].pc = "signing" /\ sends[s].seq = account.landed + 1
    /\ \A t \in DOMAIN sends : sends[t].chain # "pending"
    /\ Spend("faults")
    /\ Settle(s, FALSE)
    /\ sends' = OnChain(s, "settled", "pending")
    /\ history' = [history EXCEPT !.causes = @ \cup {"unanswered"}]

\* The ledger closes with the transaction in it, or it failed there, or it is dropped
Land(s) ==
    /\ sends[s].chain = "pending"
    /\ \/ /\ sends' = [sends EXCEPT ![s].chain = "landed"]
          /\ account' = [landed |-> account.landed + 1,
                         paid |-> IF sends[s].draft = 0 THEN account.paid
                                  ELSE [account.paid EXCEPT ![sends[s].draft] = @ + 1]]
          /\ UNCHANGED budget
       \/ /\ Spend("faults")
          /\ sends' = [sends EXCEPT ![s].chain = "failed"]
          /\ account' = [account EXCEPT !.landed = @ + 1]
       \/ /\ Spend("faults")
          /\ sends' = [sends EXCEPT ![s].chain = "dropped"]
          /\ UNCHANGED account
    /\ UNCHANGED <<page, guardVars, flow, tipz, seen, history>>

\* getTransaction answers (soroban.ts:311-340)
Polled(s) ==
    /\ sends[s].pc = "polling" /\ sends[s].chain \in {"landed", "failed"}
    /\ Settle(s, sends[s].chain = "landed")
    /\ sends' = To(s, "settled")
    /\ UNCHANGED <<history, budget>>

\* Sixty seconds without one: polling gives up, the transaction does not (soroban.ts:318-322)
PollingTimesOut(s) ==
    /\ sends[s].pc = "polling"
    /\ Spend("waits")
    /\ Settle(s, FALSE)
    /\ sends' = To(s, "settled")
    /\ history' = [history EXCEPT !.causes = @ \cup {"unanswered"}]

UserNext == HandleSubmit \/ Retry \/ Reset \/ DismissNotice \/ Navigate \/ Reload
ClickNext == HandleConfirmAndSign \/ RegisterSubmit
PageNext == FollowStatus \/ Progress \/ GuardTimesOut
SendNext(s) == Queued(s) \/ Build(s) \/ Broadcast(s) \/ Refused(s) \/ Unanswered(s)
               \/ Land(s) \/ Polled(s) \/ PollingTimesOut(s)

Quiet == UNCHANGED vars

\* Rendering takes milliseconds: only the same button, clicked again, comes before it.
Rendered == seen = Shown
Next ==
    \/ Render \/ Quiet
    \/ seen.draft = flow.draft /\ ClickNext
    \/ Rendered /\ (UserNext \/ PageNext \/ \E s \in DOMAIN sends : SendNext(s))

-----------------------------------------------------------------------------
(* What the page promises. *)

\* A lock is held as long as it is counted, shown as pending and about to time out, and the
\* count is that of the page on screen: no page is left locked, and none leaves the
\* navigation blocked behind it (useTransactionGuard.ts:139-277).
GuardAgrees ==
    /\ guard.lock = guard.entered /\ guard.lock = guard.timer
    /\ guard.lock = (guard.status = "pending")
    /\ active = IF guard.entered THEN 1 ELSE 0

\* The hook's promise of no duplicate submission (useTransactionGuard.ts:100-108), across
\* double clicks, navigation and reloads: two transactions are unsettled together only after
\* the guard timed out, was dismissed or bypassed, or an answer was lost.
OneAtATime ==
    history.causes \cap {"waited", "dismissed", "retried", "unanswered"} = {} =>
        Cardinality({s \in DOMAIN sends : Unsettled(s)}) <= 1

\* A draft is paid twice only when it was retried with an earlier attempt not known to be
\* lost (TipPage.tsx:482).
PaidTwiceOnlyByBlindRetry ==
    \A d \in DOMAIN account.paid : account.paid[d] > 1 => d \in history.blind

\* The success on screen is that of the draft on screen (TipPage.tsx:355-366), unless another
\* attempt of the page could settle under it, or the form outran the timer of a status.
SuccessIsOfTheDraft ==
    flow.step = "success" /\ flow.draft # 0
    /\ history.causes \cap {"waited", "cancelled", "retried", "outrun"} = {}
        => account.paid[flow.draft] = 1
=============================================================================
