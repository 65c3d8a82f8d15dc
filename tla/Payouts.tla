------------------------------- MODULE Payouts -------------------------------
(***************************************************************************)
(* Payouts: the withdrawals of one creator.  Wallet-signed withdrawals are *)
(* checked against the balance, broadcast and recorded                     *)
(* (withdrawals.service.ts); the payout sweep pays the whole balance when  *)
(* the creator's schedule is due (payouts.service.ts, payout.worker.ts).   *)
(*                                                                         *)
(* Requests and the sweep interleave at their awaits; the sweep runs in    *)
(* one worker, which may crash.  Time is counted in retry intervals.       *)
(***************************************************************************)
EXTENDS Integers, FiniteSets, FiniteSetsExt

CONSTANTS
    Requests,         \* POST /withdrawals/submit under way at a time
    Transactions,     \* transactions the creator's wallet signs
    Amount,           \* what each of them withdraws
    Cadences,         \* cadence -> days between two payouts
    BackoffBase,      \* config.payouts.backoffBaseSeconds
    MaxAttempts,      \* config.payouts.maxAttempts
    MinAmount,        \* config.payouts.minAmountStroops
    PauseDays,        \* the thirty days a paused schedule is put off
    MaxReceived,      \* bound
    Budgets           \* what a behaviour may use up: [days, sends, edits, crashes, refunds]

\* What the constants may be; MCBackend assumes it of its instance.
PayoutsAssumption ==
    /\ Amount \in [Transactions -> Nat \ {0}]
    /\ Cadences \in [DOMAIN Cadences -> Nat \ {0}] /\ "MANUAL" \in DOMAIN Cadences
    /\ {BackoffBase, MaxAttempts} \subseteq Nat \ {0}
    /\ {MinAmount, PauseDays, MaxReceived} \subseteq Nat
    /\ \A m \in Budgets : {m.days, m.sends, m.edits, m.crashes, m.refunds} \subseteq Nat

VARIABLES
    clock,
    creator,    \* [received, active]: confirmed tips, and whether payouts may go to the account
    withdrawal, \* Withdrawal rows: the transactions recorded, all PENDING
    schedule,   \* PayoutSchedule row, or NoSchedule
    submit,     \* each request: [pc, tx]
    sweep,      \* the payout worker: [pc, seen, at, outcome], seen is the row as it was listed
                \* and at the time then, which the whole sweep goes by
    history,    \* [overlap, edited, failures, lost]: whether two withdrawals were checked before
                \* either was recorded, whether the schedule was edited during a sweep, the failures
                \* since the last success or opt-in, and the tips no longer confirmed since a
                \* withdrawal last passed its check
    budget      \* what is left of the bounds

vars == <<clock, creator, withdrawal, schedule, submit, sweep, history, budget>>

Spend(what) == budget[what] > 0 /\ budget' = [budget EXCEPT ![what] = @ - 1]

NoSchedule == [enabled |-> FALSE, threshold |-> 0, cadence |-> "MANUAL", paused |-> FALSE,
               failures |-> 0, nextRunAt |-> 0]
Idle == [pc |-> "idle", tx |-> "none"]
Asleep == [pc |-> "asleep", seen |-> NoSchedule, at |-> 0, outcome |-> "none"]

-----------------------------------------------------------------------------
(* The balance. *)

Taken == MapThenSumSet(LAMBDA t : Amount[t], withdrawal)

\* As if only confirmed withdrawals counted.
BalanceIgnoringPending == creator.received

\* getWithdrawableBalance: confirmed tips less the pending and confirmed withdrawals.
Balance == IF creator.received > Taken THEN creator.received - Taken ELSE 0

\* The guard of prepareWithdrawal and submitWithdrawal.
Affordable(t) == Amount[t] > 0 /\ Amount[t] <= Balance

\* A tip is confirmed (the indexer).
TipConfirmed ==
    /\ creator.received < MaxReceived
    /\ creator' = [creator EXCEPT !.received = @ + 1]
    /\ UNCHANGED <<clock, withdrawal, schedule, submit, sweep, history, budget>>

\* A tip is confirmed no more: it was refunded, or the ledger that held it was rolled back.  What
\* was withdrawn against it stays withdrawn.
TipUnconfirmed ==
    /\ creator.received > 0 /\ Spend("refunds")
    /\ creator' = [creator EXCEPT !.received = @ - 1]
    /\ history' = [history EXCEPT !.lost = @ + 1]
    /\ UNCHANGED <<clock, withdrawal, schedule, submit, sweep>>

\* The account is deleted, deactivated, blocked or flagged, or restored.
AccountToggled ==
    /\ Spend("edits")
    /\ creator' = [creator EXCEPT !.active = ~@]
    /\ UNCHANGED <<clock, withdrawal, schedule, submit, sweep, history>>

-----------------------------------------------------------------------------
(* Wallet-signed withdrawals. *)

Send(r, t) ==
    /\ submit[r].pc = "idle" /\ Spend("sends")
    /\ submit' = [submit EXCEPT ![r] = [pc |-> "check", tx |-> t]]
    /\ UNCHANGED <<clock, creator, withdrawal, schedule, sweep, history>>

\* Requests that passed the check and have not recorded their transaction.
Admitted(t) == {r \in Requests : submit[r].pc \in {"broadcast", "record"} /\ submit[r].tx # t}

\* submitWithdrawal, first await: the balance.
CheckBalance(r) ==
    /\ submit[r].pc = "check"
    /\ LET t == submit[r].tx IN
       IF Affordable(t)
       THEN /\ submit' = [submit EXCEPT ![r].pc = "broadcast"]
            /\ history' = [history EXCEPT !.overlap = @ \/ Admitted(t) # {}, !.lost = 0]
       ELSE submit' = [submit EXCEPT ![r] = Idle] /\ UNCHANGED history
    /\ UNCHANGED <<clock, creator, withdrawal, schedule, sweep, budget>>

\* Its second: the network accepts the transaction, or the request ends in an error (a refusal,
\* a timeout, or a crash after the network accepted it).
Broadcast(r) ==
    /\ submit[r].pc = "broadcast"
    /\ \/ submit' = [submit EXCEPT ![r].pc = "record"]
       \/ submit' = [submit EXCEPT ![r] = Idle]
    /\ UNCHANGED <<clock, creator, withdrawal, schedule, sweep, history, budget>>

\* Its last: the row of the transaction, unless it is there (txHash is unique).
Record(r) ==
    /\ submit[r].pc = "record"
    /\ withdrawal' = withdrawal \cup {submit[r].tx}
    /\ submit' = [submit EXCEPT ![r] = Idle]
    /\ UNCHANGED <<clock, creator, schedule, sweep, history, budget>>

-----------------------------------------------------------------------------
(* The schedule. *)

Edited == history' = [history EXCEPT !.edited = @ \/ sweep.pc # "asleep",
                                     !.failures = IF schedule'.enabled THEN 0 ELSE @]

\* upsertPayoutSchedule: opting in also clears the failures and makes the schedule due.
OptIn(c, m) ==
    /\ Spend("edits")
    /\ schedule' = [enabled |-> TRUE, threshold |-> m, cadence |-> c, paused |-> FALSE,
                    failures |-> 0, nextRunAt |-> clock]
    /\ Edited
    /\ UNCHANGED <<clock, creator, withdrawal, submit, sweep>>

OptOut ==
    /\ schedule.enabled /\ Spend("edits")
    /\ schedule' = [schedule EXCEPT !.enabled = FALSE]
    /\ Edited
    /\ UNCHANGED <<clock, creator, withdrawal, submit, sweep>>

\* backoffNextRun.
Backoff(failures) == BackoffBase * 2^(failures - 1)

\* scheduleNextRunWhenPaused.
WhenPaused(now) == now + PauseDays

-----------------------------------------------------------------------------
(* The sweep. *)

\* As if the comparison left the present out.
EligibleLater(s) == s.enabled /\ ~s.paused /\ s.nextRunAt < clock /\ creator.active

\* listEligiblePayouts.
Eligible(s) == s.enabled /\ ~s.paused /\ s.nextRunAt <= clock /\ creator.active

\* processDuePayouts lists the schedules that are due.
ListEligible ==
    /\ sweep.pc = "asleep" /\ Eligible(schedule)
    /\ sweep' = [Asleep EXCEPT !.pc = "balance", !.seen = schedule, !.at = clock]
    /\ UNCHANGED <<clock, creator, withdrawal, schedule, submit, history, budget>>

\* attemptPayout, first await: too little is no failure.
ReadBalance ==
    /\ sweep.pc = "balance"
    /\ sweep' = IF Balance < sweep.seen.threshold \/ Balance < MinAmount
                THEN [sweep EXCEPT !.pc = "write", !.outcome = "SKIPPED"]
                ELSE [sweep EXCEPT !.pc = "submit"]
    /\ UNCHANGED <<clock, creator, withdrawal, schedule, submit, history, budget>>

\* submitScheduledWithdrawal: the keeper's transaction is accepted or not; no Withdrawal row
\* is written.
SubmitScheduled ==
    /\ sweep.pc = "submit"
    /\ \E o \in {"SUCCESS", "FAILED"} : sweep' = [sweep EXCEPT !.pc = "write", !.outcome = o]
    /\ UNCHANGED <<clock, creator, withdrawal, schedule, submit, history, budget>>

\* As if it took one more.
ExhaustedLate(failures) == failures > MaxAttempts

\* shouldPauseAfterFailures.
Exhausted(failures) == failures >= MaxAttempts

\* As if a success left the failures.
AfterKeepingFailures(row, seen, now, outcome) ==
    CASE outcome # "FAILED" -> [row EXCEPT !.nextRunAt = now + Cadences[seen.cadence]]
      [] OTHER ->
           LET n == seen.failures + 1 IN
           [row EXCEPT !.failures = n, !.paused = Exhausted(n),
                       !.nextRunAt = IF Exhausted(n) THEN WhenPaused(now) ELSE now + Backoff(n)]

\* As if a failure did not move the next run.
AfterInPlace(row, seen, now, outcome) ==
    CASE outcome = "SKIPPED" -> [row EXCEPT !.nextRunAt = now + Cadences[seen.cadence]]
      [] outcome = "SUCCESS" -> [row EXCEPT !.nextRunAt = now + Cadences[seen.cadence], !.failures = 0]
      [] OTHER -> [row EXCEPT !.failures = seen.failures + 1, !.paused = Exhausted(seen.failures)]

\* The update that ends an attempt, computed from the row as it was listed
\* and the time of the sweep's start
\* (advanceScheduleAfterSuccess, backoffNextRun).
After(row, seen, now, outcome) ==
    CASE outcome = "SKIPPED" -> [row EXCEPT !.nextRunAt = now + Cadences[seen.cadence]]
      [] outcome = "SUCCESS" -> [row EXCEPT !.nextRunAt = now + Cadences[seen.cadence], !.failures = 0]
      [] OTHER ->
           LET n == seen.failures + 1 IN
           [row EXCEPT !.failures = n, !.paused = Exhausted(n),
                       !.nextRunAt = IF Exhausted(n) THEN WhenPaused(now) ELSE now + Backoff(n)]

WriteOutcome ==
    /\ sweep.pc = "write"
    /\ schedule' = After(schedule, sweep.seen, sweep.at, sweep.outcome)
    /\ history' = [history EXCEPT !.failures = CASE sweep.outcome = "SUCCESS" -> 0
                                                 [] sweep.outcome = "FAILED" -> @ + 1
                                                 [] OTHER -> @]
    /\ sweep' = Asleep
    /\ UNCHANGED <<clock, creator, withdrawal, submit, budget>>

\* The worker stops; the job is run again, from the list.
Crash ==
    /\ sweep.pc # "asleep" /\ Spend("crashes")
    /\ sweep' = Asleep
    /\ UNCHANGED <<clock, creator, withdrawal, schedule, submit, history>>

Sweep == ListEligible \/ ReadBalance \/ SubmitScheduled \/ WriteOutcome

Tick ==
    /\ Spend("days")
    /\ clock' = clock + 1
    /\ UNCHANGED <<creator, withdrawal, schedule, submit, sweep, history>>

Quiet == UNCHANGED vars

-----------------------------------------------------------------------------
Init ==
    /\ clock = 0
    /\ creator = [received |-> 0, active |-> TRUE]
    /\ withdrawal = {}
    /\ schedule = NoSchedule
    /\ submit = [r \in Requests |-> Idle]
    /\ sweep = Asleep
    /\ history = [overlap |-> FALSE, edited |-> FALSE, failures |-> 0, lost |-> 0]
    /\ budget \in Budgets

Next ==
    \/ TipConfirmed \/ TipUnconfirmed \/ AccountToggled \/ OptOut \/ Sweep \/ Crash \/ Tick \/ Quiet
    \/ \E c \in DOMAIN Cadences, m \in {0, MaxReceived} : OptIn(c, m)
    \/ \E r \in Requests : \/ CheckBalance(r) \/ Broadcast(r) \/ Record(r)
                           \/ \E t \in Transactions : Send(r, t)

\* The cron job runs the sweep.
Spec == Init /\ [][Next]_vars /\ WF_vars(Sweep)

-----------------------------------------------------------------------------
(* Properties. *)

TypeOK ==
    /\ clock \in Nat
    /\ creator \in [received : 0..MaxReceived, active : BOOLEAN]
    /\ withdrawal \subseteq Transactions
    /\ schedule.cadence \in DOMAIN Cadences /\ schedule.failures \in 0..MaxAttempts
    /\ \A r \in Requests : /\ submit[r].pc \in {"idle", "check", "broadcast", "record"}
                           /\ submit[r].tx \in Transactions \cup {"none"}
    /\ sweep.pc \in {"asleep", "balance", "submit", "write"}
    /\ sweep.outcome \in {"none", "SKIPPED", "SUCCESS", "FAILED"}

\* The recorded withdrawals exceed the confirmed tips by no more than the tips that were refunded
\* or rolled back since the last withdrawal passed its check, unless two submissions overlapped:
\* the check and the row are not one transaction (withdrawals.service.ts:214-258).
OverdrawnForCause == Taken > creator.received + history.lost => history.overlap

\* The failures of a schedule are those in a row since the last success or opt-in, and it is
\* paused by MaxAttempts of them; only an edit during a sweep is overwritten.
PausedAfterFailuresInARow ==
    ~history.edited => /\ schedule.failures = history.failures
                       /\ schedule.paused <=> schedule.failures >= MaxAttempts

\* After a failed attempt the next one waits for its backoff, from the start of the sweep (payouts.service.ts:35).
RetriesWaitStep ==
    WriteOutcome /\ sweep.outcome = "FAILED" => schedule'.paused \/ schedule'.nextRunAt > sweep.at
RetriesWait == [][RetriesWaitStep]_vars

\* A schedule that is due does not stay so: it is paid, skipped, put off, or the creator's to change.
Due == schedule.enabled /\ ~schedule.paused /\ schedule.nextRunAt <= clock
Attended == schedule.nextRunAt > clock \/ ~schedule.enabled \/ ~creator.active
DueIsAttended == Due ~> Attended

=============================================================================
