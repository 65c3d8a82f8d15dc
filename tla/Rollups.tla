------------------------------- MODULE Rollups -------------------------------
(* What the backend derives from the tips again and again: the snapshot of   *)
(* the leaderboard, the daily analytics, and a creator's credit score with   *)
(* its cache.  Runs are jobs of the workers, manual runs and API calls.      *)
EXTENDS Integers, FiniteSets, FiniteSetsExt

CONSTANTS Runs,       \* runs that may be under way together
          Tips, Amount, Receiver,
          Days,       \* days that pass, at most
          Budgets     \* how often each event may happen

None == -1
Creators == {Receiver[t] : t \in Tips}

RollupsAssumption ==
    /\ Amount \in [Tips -> Nat \ {0}] /\ Days \in Nat
    /\ Budgets \subseteq [overlaps : Nat, changes : Nat, calls : Nat, losses : Nat]

VARIABLES topic,    \* what this behaviour derives: "board", "day" or "score"; they share no more
                    \* than the tips, and each has a queue of its own
          today,
          tips,     \* Tip rows: [status, day], day is that of createdAt
          daily,    \* AnalyticsDaily.totalVolume of each day, None for no row
          board,    \* LeaderboardSnapshot rows of one period: [id, creator, total]
          score,    \* [stored, byId, byName]: the score and its two cache entries; a score is
                    \* the version of the tips it was computed from
          run,      \* each run: [task, pc, seen, rows, day]
          history,  \* [version, crossed, lost, rolled]: how often the tips changed, whether runs
                    \* overlapped, whether a cache write was
                    \* lost, and the days whose rollup is newer than their tips
          budget

vars == <<topic, today, tips, daily, board, score, run, history, budget>>

Spend(what) == budget[what] > 0 /\ budget' = [budget EXCEPT ![what] = @ - 1]

ConfirmedOn(d) == {t \in Tips : tips[t].status = "CONFIRMED" /\ tips[t].day = d}
ConfirmedFor(c) == {t \in Tips : tips[t].status = "CONFIRMED" /\ Receiver[t] = c}
VolumeOf(S) == MapThenSumSet(LAMBDA t : Amount[t], S)
Ranking == {[creator |-> c, total |-> VolumeOf(ConfirmedFor(c))] :
               c \in {c \in Creators : ConfirmedFor(c) # {}}}
Idle == [task |-> "none", pc |-> "idle", seen |-> {}, rows |-> {}, day |-> 0]
Resting == \A r \in Runs : run[r] = Idle

TypeOK ==
    /\ topic \in {"board", "day", "score"} /\ today \in 0 .. Days
    /\ \A t \in Tips : tips[t].status \in {"none", "PENDING", "CONFIRMED", "REFUNDED"}
    /\ daily \in [0 .. Days -> Nat \cup {None}]
    /\ \A e \in board : e.creator \in Creators /\ e.total \in Nat \ {0}
    /\ score.stored \in Nat /\ {score.byId, score.byName} \subseteq Nat \cup {None}
    /\ \A r \in Runs : run[r].task \in {"none", "board", "day", "score", "read"}

Init ==
    /\ topic \in {"board", "day", "score"} /\ today = 0
    /\ tips = [t \in Tips |-> [status |-> "none", day |-> 0]]
    /\ daily = [d \in 0 .. Days |-> None]
    /\ board = {}
    /\ score = [stored |-> 0, byId |-> None, byName |-> None]
    /\ run = [r \in Runs |-> Idle]
    /\ history = [version |-> 0, crossed |-> FALSE, lost |-> FALSE, rolled |-> {}]
    /\ budget \in Budgets

-----------------------------------------------------------------------------
(* The tips. *)

Changed(t, row) ==
    /\ Spend("changes")
    /\ tips' = [tips EXCEPT ![t] = row]
    /\ history' = [history EXCEPT !.version = @ + 1, !.rolled = @ \ {row.day}]
    /\ UNCHANGED <<topic, today, board, score, run>>

\* The transaction of recordTip: the row and the counter of the day (tips.service.ts:230-280)
RecordTip(t) ==
    /\ tips[t].status = "none"
    /\ Changed(t, [status |-> "PENDING", day |-> today])
    /\ daily' = [daily EXCEPT ![today] = (IF @ = None THEN 0 ELSE @) + Amount[t]]

\* The indexer confirms, a refund takes back: the counter of the day stays
\* (projections.ts, tips.service.ts)
SettleTip(t) ==
    /\ \/ tips[t].status = "PENDING" /\ Changed(t, [tips[t] EXCEPT !.status = "CONFIRMED"])
       \/ tips[t].status = "CONFIRMED" /\ Changed(t, [tips[t] EXCEPT !.status = "REFUNDED"])
    /\ UNCHANGED daily

Midnight ==
    /\ today < Days
    /\ today' = today + 1
    /\ UNCHANGED <<topic, tips, daily, board, score, run, history, budget>>

-----------------------------------------------------------------------------
(* Runs. *)

Continue(r, next) ==
    /\ run' = [run EXCEPT ![r] = next]
    /\ UNCHANGED <<topic, today, tips>>

\* A run begins.  One queue runs its jobs one after the other: another run of the same kind
\* beside it is one of another process, or one that outlived its lock (jobs/main.ts)
Begin(r, task, pc, day) ==
    /\ run[r] = Idle /\ topic = task
    /\ Continue(r, [Idle EXCEPT !.task = task, !.pc = pc, !.day = day])
    /\ IF Resting THEN UNCHANGED <<history, budget>>
       ELSE /\ Spend("overlaps")
            /\ history' = [history EXCEPT !.crossed = TRUE]
    /\ UNCHANGED <<daily, board, score>>

BeginBoard(r) == Begin(r, "board", "rank", 0)
BeginScore(r) == Begin(r, "score", "sum", 0)
\* The rollup is that of yesterday, or by hand that of a given day (analyticsDaily.worker.ts:9-22)
BeginDay(r) == \E d \in {today - 1, today} \cap Nat : Begin(r, "day", "sum", d)

\* createLeaderboardSnapshot reads the ranking (leaderboard.service.ts:134-156)
RankTips(r) ==
    /\ run[r].pc = "rank"
    /\ Continue(r, [run[r] EXCEPT !.pc = "delete", !.seen = Ranking])
    /\ UNCHANGED <<daily, board, score, history, budget>>

\* The transaction that replaces it begins: deleteMany sees the rows committed by now
\* (leaderboard.service.ts:158-161)
DeleteRows(r) ==
    /\ run[r].pc = "delete"
    /\ Continue(r, [run[r] EXCEPT !.pc = "insert", !.rows = board])
    /\ UNCHANGED <<daily, board, score, history, budget>>

FreshId == CHOOSE i \in 1 .. 3 * Cardinality(Runs) :
               \A e \in board \cup UNION {run[r].rows : r \in Runs} : e.id # i
Inserted(r) == {[id |-> FreshId, creator |-> e.creator, total |-> e.total] : e \in run[r].seen}

\* As if the rows of the last snapshot stayed.
AddSnapshot(r) == board' = board \cup Inserted(r)

\* Those rows go, and the new ones come
ReplaceSnapshot(r) == board' = (board \ run[r].rows) \cup Inserted(r)

InsertRows(r) ==
    /\ run[r].pc = "insert"
    /\ ReplaceSnapshot(r)
    /\ Continue(r, Idle)
    /\ UNCHANGED <<daily, score, history, budget>>

\* computeDailyAnalytics sums the confirmed tips of the day (analytics.service.ts:283-318)
SumDay(r) ==
    /\ run[r].task = "day" /\ run[r].pc = "sum"
    /\ Continue(r, [run[r] EXCEPT !.pc = "write", !.seen = {VolumeOf(ConfirmedOn(run[r].day))}])
    /\ history' = [history EXCEPT !.rolled = @ \cup {run[r].day}]
    /\ UNCHANGED <<daily, board, score, budget>>

\* and replaces the counter (analytics.service.ts:320-336)
WriteDay(r) ==
    /\ run[r].task = "day" /\ run[r].pc = "write"
    /\ \E sum \in run[r].seen : daily' = [daily EXCEPT ![run[r].day] = sum]
    /\ Continue(r, Idle)
    /\ UNCHANGED <<board, score, history, budget>>

\* recalculateCreditScore reads (credit.service.ts:190-219), stores the score with its history
\* (223-239) and caches it under both keys, or logs that it could not (241-251, 49-60)
SumTips(r) ==
    /\ run[r].task = "score" /\ run[r].pc = "sum"
    /\ Continue(r, [run[r] EXCEPT !.pc = "store", !.seen = {history.version}])
    /\ UNCHANGED <<daily, board, score, history, budget>>

StoreScore(r) ==
    /\ run[r].pc = "store"
    /\ \E s \in run[r].seen : score' = [score EXCEPT !.stored = s]
    /\ Continue(r, [run[r] EXCEPT !.pc = "cache"])
    /\ UNCHANGED <<daily, board, history, budget>>

\* As if only the entry asked for were refreshed.
CachedById(s, keys) == [score EXCEPT !.byId = s]

Cached(s, keys) ==
    [score EXCEPT !.byId = IF "byId" \in keys THEN s ELSE @,
                  !.byName = IF "byName" \in keys THEN s ELSE @]

WriteCache(r, keys) ==
    /\ \/ /\ \E s \in run[r].seen : score' = Cached(s, keys)
          /\ UNCHANGED <<history, budget>>
       \/ /\ Spend("losses")
          /\ history' = [history EXCEPT !.lost = TRUE]
          /\ UNCHANGED score
    /\ Continue(r, Idle)
    /\ UNCHANGED <<daily, board>>

CacheScore(r) == run[r].pc = "cache" /\ WriteCache(r, {"byId", "byName"})

\* A score is asked for by id, or by username, and not in the cache: the stored one is read
\* (credit.service.ts:122-137, 141-156)
ReadScore(r) ==
    /\ topic = "score" /\ run[r] = Idle
    /\ budget.calls > 0
    /\ \/ score.byId = None /\ run' = [run EXCEPT ![r] =
             [Idle EXCEPT !.task = "read", !.pc = "fillById", !.seen = {score.stored}]]
       \/ score.byName = None /\ run' = [run EXCEPT ![r] =
             [Idle EXCEPT !.task = "read", !.pc = "fillByName", !.seen = {score.stored}]]
    /\ budget' = [budget EXCEPT !.calls = @ - 1]
    /\ history' = [history EXCEPT !.crossed = @ \/ ~Resting]
    /\ UNCHANGED <<topic, today, tips, daily, board, score>>

\* and cached, under both keys when it was asked for by username
FillCache(r) ==
    \/ run[r].pc = "fillById" /\ WriteCache(r, {"byId"})
    \/ run[r].pc = "fillByName" /\ WriteCache(r, {"byId", "byName"})

\* Entries expire (credit.service.ts:53-55)
Expire ==
    /\ topic = "score" /\ Spend("losses")
    /\ \E key \in {"byId", "byName"} : score' = [score EXCEPT ![key] = None]
    /\ UNCHANGED <<topic, today, tips, daily, board, run, history>>

Step(r) ==
    \/ RankTips(r) \/ DeleteRows(r) \/ InsertRows(r) \/ SumDay(r) \/ WriteDay(r)
    \/ SumTips(r) \/ StoreScore(r) \/ CacheScore(r) \/ FillCache(r)
Run == \E r \in Runs : BeginBoard(r) \/ BeginDay(r) \/ BeginScore(r) \/ Step(r)
Quiet == UNCHANGED vars

Next ==
    \/ \E t \in Tips : RecordTip(t) \/ SettleTip(t)
    \/ Midnight \/ Expire \/ Quiet
    \/ Run \/ \E r \in Runs : ReadScore(r)

-----------------------------------------------------------------------------

\* Whatever the tips do meanwhile, the snapshot lists a creator once, unless two runs of its job
\* overlapped: the transaction of each deletes the rows it saw (leaderboard.service.ts:158-161).
BoardListsOnce ==
    ~history.crossed => \A e, f \in board : e.creator = f.creator => e = f

\* With no run under way the cache holds the stored score or nothing, unless a computation
\* crossed another run or a cache write was lost (credit.service.ts:118-156, 241-251).
CacheAgrees ==
    ~history.crossed /\ ~history.lost /\ Resting
        => {score.byId, score.byName} \subseteq {None, score.stored}

\* The row of a day that was rolled up after its last change is its confirmed volume, and no
\* longer the volume of the tips recorded (analytics.service.ts:275-336), unless runs crossed.
RolledDaysAreExact ==
    ~history.crossed /\ Resting =>
        \A d \in history.rolled : daily[d] = VolumeOf(ConfirmedOn(d))

\* "Re-running always converges" (leaderboardSnapshot.worker.ts:18-24): when the tips rest, the
\* snapshot becomes their ranking, whatever overlapped before; the score catches up and so does
\* its cache, however stale a reader's entry was.
Converged ==
    /\ topic = "board" =>
          /\ {[creator |-> e.creator, total |-> e.total] : e \in board} = Ranking
          /\ Cardinality(board) = Cardinality(Ranking)
    /\ topic = "score" =>
          /\ score.stored = history.version
          /\ {score.byId, score.byName} \subseteq {None, score.stored}
=============================================================================
