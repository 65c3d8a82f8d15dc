----------------------------- MODULE TipRecords -----------------------------
(***************************************************************************)
(* TipRecords: the rows behind one pair of accounts that tip each other's  *)
(* page.  recordTip (tips.service.ts) inserts the tip, the notification    *)
(* and the day's counters in one transaction and then, outside it, adds to *)
(* the receiver's goal and to the sender's streak (concurrency.ts); the    *)
(* indexer inserts the same tips from the chain, and takes them out again  *)
(* when a ledger is rolled back (projections.ts, reorg.ts).  The goal and  *)
(* the day's counter have a second writer each, which replaces them: the   *)
(* goal events of the contract and the daily rollup.                       *)
(***************************************************************************)
EXTENDS Integers, FiniteSets, FiniteSetsExt

CONSTANTS
    Calls,        \* POST /tips under way at a time
    Tips,         \* transaction hashes
    Amount,       \* what each of them tips
    MaxRetries,   \* MAX_OPTIMISTIC_RETRIES
    Reports,      \* what the contract may report as raised
    Budgets       \* what a behaviour may use up: [days, calls, chain, faults, reports]

\* What the constants may be; MCBackend assumes it of its instance.
TipRecordsAssumption ==
    /\ Amount \in [Tips -> Nat \ {0}]
    /\ MaxRetries \in Nat \ {0} /\ Reports \subseteq Nat
    /\ \A b \in Budgets : {b.days, b.calls, b.chain, b.faults, b.reports} \subseteq Nat

VARIABLES
    clock,     \* the day
    tip,       \* Tip rows: the status of each, or "none"
    counted,   \* [tips, notes]: AnalyticsDaily.totalTips of the day, and the notifications
    raised,    \* Goal.raisedStroops
    streak,    \* Streak row: [current, longest, last, version], last = -1 for no row
    call,      \* each call: [pc, tx, today, tries, seen]
    history,   \* [owed, daily]: the tips calls recorded since the goal and since the day's row were
               \* replaced; [goalBase, dayBase, noteBase]: what the goal, the row and the
               \* notifications have besides; [lost, late, days]: whether an increment of the goal
               \* was lost, whether a streak update crossed midnight, the days of the updates
    budget

vars == <<clock, tip, counted, raised, streak, call, history, budget>>

Spend(what) == budget[what] > 0 /\ budget' = [budget EXCEPT ![what] = @ - 1]

NoStreak == [current |-> 0, longest |-> 0, last |-> -1, version |-> 0]
Idle == [pc |-> "idle", tx |-> "none", today |-> 0, tries |-> 0, seen |-> NoStreak]

At(c, pc) == call[c].pc = pc
Step(c, pc) == call' = [call EXCEPT ![c].pc = pc]
End(c) == call' = [call EXCEPT ![c] = Idle]

\* The tips that are there, and those a call has recorded and not yet added to the goal.
Present == {t \in Tips : tip[t] # "none"}
Due == {t \in Tips : \E c \in Calls : At(c, "goal") /\ call[c].tx = t}

-----------------------------------------------------------------------------
(* Recording a tip. *)

Post(c, t) ==
    /\ At(c, "idle") /\ Spend("calls")
    /\ call' = [call EXCEPT ![c].pc = "look", ![c].tx = t]
    /\ UNCHANGED <<clock, tip, counted, raised, streak, history>>

\* recordTip, first await: a tip that is there is answered as it is.
LookUp(c) ==
    /\ At(c, "look")
    /\ IF tip[call[c].tx] = "none" THEN Step(c, "commit") ELSE End(c)
    /\ UNCHANGED <<clock, tip, counted, raised, streak, history, budget>>

\* As if the counters were raised before the duplicate was looked for.
InsertCountingDuplicates(t) ==
    /\ tip' = IF tip[t] = "none" THEN [tip EXCEPT ![t] = "PENDING"] ELSE tip
    /\ counted' = [counted EXCEPT !.tips = @ + 1, !.notes = @ + 1]
    /\ history' = [history EXCEPT !.owed = IF tip[t] = "none" THEN @ \cup {t} ELSE @,
                                  !.daily = IF tip[t] = "none" THEN @ \cup {t} ELSE @]

\* The transaction: tip, notification and counters, or a duplicate (txHash is unique).
Insert(t) ==
    IF tip[t] = "none"
    THEN /\ tip' = [tip EXCEPT ![t] = "PENDING"]
         /\ counted' = [counted EXCEPT !.tips = @ + 1, !.notes = @ + 1]
         /\ history' = [history EXCEPT !.owed = @ \cup {t}, !.daily = @ \cup {t}]
    ELSE UNCHANGED <<tip, counted, history>>

\* It commits, or is rolled back: a timeout, or a conflict on the day's row (RepeatableRead).
Commit(c) ==
    /\ At(c, "commit")
    /\ \/ /\ Insert(call[c].tx)
          /\ IF tip[call[c].tx] = "none" THEN Step(c, "goal") ELSE End(c)
          /\ UNCHANGED budget
       \/ /\ Spend("faults")
          /\ End(c)
          /\ UNCHANGED <<tip, counted, history>>
    /\ UNCHANGED <<clock, raised, streak>>

\* As if the goal were overwritten.
IncrementOverwriting(n) == raised' = n

\* atomicIncrementGoalRaised: one statement.
Increment(n) == raised' = raised + n

\* Its failure is logged and dropped; the streak's update takes its date here.
RaiseGoal(c) ==
    /\ At(c, "goal")
    /\ \/ Increment(Amount[call[c].tx]) /\ UNCHANGED <<history, budget>>
       \/ Spend("faults") /\ history' = [history EXCEPT !.lost = TRUE] /\ UNCHANGED raised
    /\ call' = [call EXCEPT ![c].pc = "read", ![c].today = clock]
    /\ UNCHANGED <<clock, tip, counted, streak>>

\* updateStreakForTip, each try: the row as it is, and nothing more on a day that counted.
ReadStreak(c) ==
    /\ At(c, "read")
    /\ IF streak.last = call[c].today THEN End(c)
       ELSE call' = [call EXCEPT ![c].pc = "write", ![c].seen = streak, ![c].tries = @ + 1]
    /\ UNCHANGED <<clock, tip, counted, raised, streak, history, budget>>

\* As if a gap did not reset the streak.
NextWithoutReset(seen, today) ==
    [current |-> seen.current + 1, longest |-> Max({seen.longest, seen.current + 1}),
     last |-> today, version |-> seen.version + 1]

\* The row a try writes.
NextStreak(seen, today) ==
    LET n == IF seen.last >= 0 /\ seen.last = today - 1 THEN seen.current + 1 ELSE 1 IN
    [current |-> n, longest |-> Max({seen.longest, n}), last |-> today, version |-> seen.version + 1]

\* As if the update were not guarded by the version.
SameVersionUnchecked(seen) == (seen.last < 0) => (streak.last < 0)

\* The guard of the write: no row yet, or the version that was read.
SameVersion(seen) == IF seen.last < 0 THEN streak.last < 0 ELSE streak.version = seen.version

WriteStreak(c) ==
    /\ At(c, "write")
    /\ LET seen == call[c].seen  today == call[c].today IN
       IF SameVersion(seen)
       THEN /\ streak' = NextStreak(seen, today)
            /\ history' = [history EXCEPT !.days = @ \cup {today}, !.late = @ \/ today < streak.last]
            /\ End(c)
       ELSE /\ IF call[c].tries < MaxRetries THEN Step(c, "read") ELSE End(c)
            /\ UNCHANGED <<streak, history>>
    /\ UNCHANGED <<clock, tip, counted, raised, budget>>

\* The process stops: what the call had still to do is never done.
Crash(c) ==
    /\ ~At(c, "idle") /\ Spend("faults")
    /\ history' = [history EXCEPT !.lost = @ \/ At(c, "goal")]
    /\ End(c)
    /\ UNCHANGED <<clock, tip, counted, raised, streak>>

-----------------------------------------------------------------------------
(* The indexer, and the status. *)

\* projectTip: the tip and its notification; neither counters, nor goal, nor streak.
Project(t) ==
    /\ tip[t] = "none" /\ Spend("chain")
    /\ tip' = [tip EXCEPT ![t] = "CONFIRMED"]
    /\ counted' = [counted EXCEPT !.notes = @ + 1]
    /\ UNCHANGED <<clock, raised, streak, call, history>>

\* projectRefund.
ProjectRefund(t) ==
    /\ tip[t] # "none" /\ Spend("chain")
    /\ tip' = [tip EXCEPT ![t] = "REFUNDED"]
    /\ UNCHANGED <<clock, counted, raised, streak, call, history>>

\* confirmTip: whatever the status was.
ConfirmTip(t) ==
    /\ tip[t] \notin {"none", "CONFIRMED"}
    /\ tip' = [tip EXCEPT ![t] = "CONFIRMED"]
    /\ UNCHANGED <<clock, counted, raised, streak, call, history, budget>>

\* rollbackToLedger deletes the rows of the ledgers that are gone; the notifications, the goal and
\* the counters of their tips stay, and a call still adds to the goal what it recorded.
RollBack(t) ==
    /\ tip[t] # "none" /\ Spend("chain")
    /\ tip' = [tip EXCEPT ![t] = "none"]
    /\ history' = [history EXCEPT
            !.noteBase = @ + 1,
            !.dayBase  = IF t \in history.daily THEN @ + 1 ELSE @,
            !.daily    = @ \ {t},
            !.goalBase = IF t \in history.owed \ Due THEN @ + Amount[t] ELSE @,
            !.owed     = IF t \in Due THEN @ ELSE @ \ {t},
            !.lost     = @ \/ t \in Due]
    /\ UNCHANGED <<clock, counted, raised, streak, call>>

-----------------------------------------------------------------------------
(* The second writers of the goal and of the day's row. *)

\* projectGoalReached and projectGoalCompleted: the goal is what the contract reports.
ReportGoal(n) ==
    /\ Spend("reports")
    /\ raised' = n
    /\ history' = [history EXCEPT !.goalBase = n, !.owed = Due]
    /\ UNCHANGED <<clock, tip, counted, streak, call>>

\* computeDailyAnalytics, when an operator runs it for the day: the row is what was counted of the
\* confirmed tips, some time before the write.  The scheduled runs are those of days that are over.
RollUp(n) ==
    /\ Spend("reports")
    /\ counted' = [counted EXCEPT !.tips = n]
    /\ history' = [history EXCEPT !.dayBase = n, !.daily = {}]
    /\ UNCHANGED <<clock, tip, raised, streak, call>>

\* The next day has a row of its own.
Tick ==
    /\ Spend("days")
    /\ clock' = clock + 1
    /\ counted' = [counted EXCEPT !.tips = 0]
    /\ history' = [history EXCEPT !.dayBase = 0, !.daily = {}]
    /\ UNCHANGED <<tip, raised, streak, call>>

Quiet == UNCHANGED vars

-----------------------------------------------------------------------------
Init ==
    /\ clock = 0
    /\ tip = [t \in Tips |-> "none"]
    /\ counted = [tips |-> 0, notes |-> 0]
    /\ raised = 0
    /\ streak = NoStreak
    /\ call = [c \in Calls |-> Idle]
    /\ history = [owed |-> {}, daily |-> {}, goalBase |-> 0, dayBase |-> 0, noteBase |-> 0,
                  lost |-> FALSE, late |-> FALSE, days |-> {}]
    /\ budget \in Budgets

Next ==
    \/ Tick \/ Quiet
    \/ \E t \in Tips : Project(t) \/ ProjectRefund(t) \/ ConfirmTip(t) \/ RollBack(t)
    \/ \E n \in Reports : ReportGoal(n)
    \/ \E n \in 0..Cardinality(Present) : RollUp(n)
    \/ \E c \in Calls : \/ LookUp(c) \/ Commit(c) \/ RaiseGoal(c) \/ ReadStreak(c)
                        \/ WriteStreak(c) \/ Crash(c)
                        \/ \E t \in Tips : Post(c, t)

Spec == Init /\ [][Next]_vars

-----------------------------------------------------------------------------
(* Properties. *)

TypeOK ==
    /\ clock \in Nat /\ raised \in Nat
    /\ tip \in [Tips -> {"none", "PENDING", "CONFIRMED", "REFUNDED"}]
    /\ {counted.tips, counted.notes, streak.current, streak.longest, streak.version} \subseteq Nat
    /\ \A c \in Calls : /\ call[c].pc \in {"idle", "look", "commit", "goal", "read", "write"}
                        /\ call[c].tx \in Tips \cup {"none"}
                        /\ call[c].tries \in 0..MaxRetries

Sum(S) == MapThenSumSet(LAMBDA t : Amount[t], S)

\* Every tip is notified once, whoever inserted it, and every tip a call inserted counts once in the
\* row of its day: neither repeats nor the race with the indexer count it again
\* (tips.service.ts:219-222).  A tip that was rolled back and came again does, and so does one
\* that the day's rollup has counted already.
CountedOnce ==
    /\ counted.notes = history.noteBase + Cardinality(Present)
    /\ counted.tips = history.dayBase + Cardinality(history.daily)

\* The goal is what the contract reported last and every tip a call recorded since then, or was
\* about to add then, each of them once: no increment is lost to another, unless one failed, or the
\* process stopped or the ledger was rolled back before it (tips.service.ts:301-309).
GoalIsSum == ~history.lost => raised + Sum(Due) = history.goalBase + Sum(history.owed)

\* The days in a row that end with the last one.
RunLength(d) == Max({n \in 1..(d + 1) : \A k \in 0..(n - 1) : (d - k) \in history.days})

\* The streak is the run of days with an update, unless one that began on an earlier day was
\* written after a later one (concurrency.ts:91: the date is taken before the first read).
StreakCountsDays == ~history.late /\ streak.last >= 0 => streak.current = RunLength(streak.last)

\* No update makes the longest streak shorter, however the calls interleave (concurrency.ts:133).
LongestNeverShrinks == [][streak'.longest >= streak.longest]_vars

=============================================================================
