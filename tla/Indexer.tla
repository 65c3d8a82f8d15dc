------------------------------- MODULE Indexer -------------------------------
(***************************************************************************)
(* The event indexer: the poll loop, the projections it writes, the        *)
(* checkpoints that detect a chain reorganisation, the rollback, and the   *)
(* backfill command that may run beside the poll loop.                     *)
(*                                                                         *)
(* A ledger holds at most one contract event.  Its hash is the branch that *)
(* produced it: a reorganisation rewrites the ledgers above the fork on a  *)
(* branch of its own.  There is one creator and one subscriber, so a goal, *)
(* a score and a subscription are single rows.  A paging token is the      *)
(* ledger of the event it follows.                                         *)
(***************************************************************************)
EXTENDS Integers, Sequences, FiniteSets, FiniteSetsExt

CONSTANTS Events,         \* contract events, each in at most one ledger
          Topic,          \* the decoded topic of an event
          Readable,       \* the events whose payload the decoder of their topic accepts
          RefundOf,       \* the tip a refund event gives back
          FinalityDepth,  \* INDEXER_FINALITY_DEPTH
          Lookback,       \* INDEXER_REORG_LOOKBACK
          StartLedger,    \* INDEXER_START_LEDGER, where the contract was deployed
          MaxPages,       \* MAX_PAGES_PER_TICK
          Scenarios,      \* the bounds a behaviour may have, see the assumption
          MaxLedger, MaxReorgs \* the largest of them

NoEvent == "no event"
Topics == {"tip", "refund", "goal_set", "goal_reached", "goal_cancel", "credit",
           "sub_created", "sub_cancel", "unknown"}

ASSUME IndexerAssumption ==
    /\ NoEvent \notin Events
    /\ Topic \in [Events -> Topics]
    /\ \A e \in Events : Topic[e] = "refund" => RefundOf[e] \in Events /\ Topic[RefundOf[e]] = "tip"
    /\ Readable \subseteq Events
    /\ {FinalityDepth, MaxReorgs} \subseteq Nat
    /\ {Lookback, StartLedger, MaxPages, MaxLedger} \subseteq Nat \ {0}
    \* What the contract may emit, how far the chain grows, how many events a page has, and
    \* how many forks, failures and backfills there are.
    /\ Scenarios \subseteq [events : SUBSET Events, ledgers : 1..MaxLedger,
                            pageSize : Nat \ {0}, reorgs : 0..MaxReorgs,
                            failures : Nat, backfills : Nat]

OfTopic(t) == {e \in Events : Topic[e] = t}
Tips == OfTopic("tip")
Ledgers == 1..MaxLedger

VARIABLES
    chain,      \* external: the ledgers, [branch, event]
    peak,       \* external: the highest ledger the chain ever had
    cursor,     \* IndexerCursor.lastLedger, 0 when there is no row
    checkpoints,\* LedgerCheckpoint rows, [ledger, hash]
    passed,     \* history: the ledgers of events the cursor passed unread
    eventLog,   \* EventLog rows: copies of each (event, ledger) stored
    tips,       \* Tip rows, with their Refund row and REFUNDED status
    goal,       \* Goal.status
    credit,     \* the event the CreditScore row comes from
    sub,        \* Subscription.status
    published,  \* realtime messages sent for each event
    live,       \* the poll loop: its local variables
    backfill,   \* the backfill command: its local variables
    scenario,   \* the bounds of this behaviour
    faults      \* [reorgs, failures, backfills] so far; blind, once a fork goes unseen

db == <<cursor, checkpoints, eventLog, tips, goal, credit, sub, published>>
rows == <<eventLog, tips, goal, credit, sub, published>>
ghosts == <<passed, scenario>>
vars == <<chain, peak, db, live, backfill, ghosts, faults>>

-----------------------------------------------------------------------------
(* The chain, as the RPC node and Horizon report it. *)

LatestLedger == Len(chain)
OnChain == {l \in DOMAIN chain : chain[l].event # NoEvent}
LedgersOf(e) == {l \in DOMAIN chain : chain[l].event = e}

\* What may come next: an event not on the chain, once the contract is deployed; a refund
\* after its tip, a goal reached or cancelled after one was set (in a form that can be
\* read only if the setting can: contracts are upgraded to the versioned form, never back).
Fresh(e) == /\ LatestLedger + 1 >= StartLedger
            /\ LedgersOf(e) = {}
            /\ Topic[e] = "refund" => LedgersOf(RefundOf[e]) # {}
            /\ Topic[e] \in {"goal_reached", "goal_cancel"}
                   => \E g \in OfTopic("goal_set") :
                          LedgersOf(g) # {} /\ (e \in Readable => g \in Readable)

\* A ledger closes.
Extend ==
    /\ LatestLedger < scenario.ledgers
    /\ \E e \in {NoEvent} \cup {x \in scenario.events : Fresh(x)} :
           chain' = Append(chain, [branch |-> faults.reorgs, event |-> e])
    /\ peak' = Max({peak, LatestLedger + 1})
    /\ UNCHANGED <<db, live, backfill, ghosts, faults>>

\* The highest ledger whose stored hash is still the chain's.
Matches(c) == c.ledger <= LatestLedger /\ chain[c.ledger].branch = c.hash
Agreed == Max({0} \cup {c.ledger : c \in {x \in checkpoints : Matches(x)}})

\* What was read above a ledger.
ReadAbove(fork) == cursor > fork \/ \E t \in Tips : tips[t].ledger > fork

\* Whether the detection can undo a fork: no page in memory goes above it, and what was
\* read above it lies under a checkpoint that goes with it, while the oldest one is at
\* most a ledger above.  Outside these limits a fork leaves rows of the abandoned branch
\* or skips ledgers, see the README.
Seen(fork) ==
    /\ live.pc # "idle" => live.ceiling <= fork
    /\ \A x \in backfill.page : x.ledger <= fork
    /\ ReadAbove(fork)
           => \E c, d \in checkpoints : c.ledger <= fork + 1 /\ fork < d.ledger

\* The chain drops the ledgers above a fork.
Reorg(fork) ==
    /\ faults.reorgs < scenario.reorgs
    /\ fork < LatestLedger
    /\ chain' = SubSeq(chain, 1, fork)
    /\ faults' = [faults EXCEPT !.reorgs = @ + 1, !.blind = @ \/ ~Seen(fork)]
    /\ UNCHANGED <<peak, db, live, backfill, ghosts>>

-----------------------------------------------------------------------------
(* Projections (projections.ts). *)

\* The page of events read forward from a ledger, or after a paging token.
PageFrom(first) ==
    LET ahead == {l \in OnChain : l >= first}
        taken == {l \in ahead : Cardinality({k \in ahead : k <= l}) <= scenario.pageSize}
    IN  {[ledger |-> l, event |-> chain[l].event] : l \in taken}

Earliest(page) == CHOOSE x \in page : \A y \in page : x.ledger <= y.ledger

ProjectTip(x) ==
    IF tips[x.event].ledger # 0 THEN tips
    ELSE [tips EXCEPT ![x.event] = [ledger |-> x.ledger, refunded |-> FALSE]]

\* A refund of a tip that is not there is skipped.
ProjectRefund(x) ==
    IF tips[RefundOf[x.event]].ledger = 0 THEN tips
    ELSE [tips EXCEPT ![RefundOf[x.event]].refunded = TRUE]

\* Only what the decoder accepts is projected, the rest is logged and passed over.
Parsed(x) == x.event \in Readable

ProjectGoalSet(x) == "ACTIVE"
ProjectGoalReached(x) == "COMPLETED"
ProjectGoalCancelled(x) == IF goal = "none" THEN "none" ELSE "CANCELLED"

\* The handler of the event's topic; the subscription handlers return early
\* when the event was logged before.
Project(x, isNew) ==
    LET t == IF Parsed(x) THEN Topic[x.event] ELSE "unknown" IN
    /\ tips' = CASE t = "tip" -> ProjectTip(x)
                 [] t = "refund" -> ProjectRefund(x)
                 [] OTHER -> tips
    /\ goal' = CASE t = "goal_set" -> ProjectGoalSet(x)
                 [] t = "goal_reached" -> ProjectGoalReached(x)
                 [] t = "goal_cancel" -> ProjectGoalCancelled(x)
                 [] OTHER -> goal
    /\ credit' = IF t = "credit" THEN x.event ELSE credit
    /\ sub' = IF ~isNew THEN sub
              ELSE CASE t = "sub_created" -> "ACTIVE"
                     [] t = "sub_cancel" /\ sub # "none" -> "CANCELLED"
                     [] OTHER -> sub

IsLogged(x) == eventLog[x.event][x.ledger] > 0

\* The audit row goes in first; the lookup decided whether there is one to write.
PersistEventLog(x, isNew) ==
    eventLog' = IF isNew THEN [eventLog EXCEPT ![x.event][x.ledger] = @ + 1]
                ELSE eventLog

PublishProjection(x, isNew) ==
    published' = IF isNew THEN [published EXCEPT ![x.event] = @ + 1] ELSE published

\* One call of projectEvent, from its second database call on: it succeeds, or the log
\* insert fails, or the handler fails with the log row already there.
ProjectEvent(x, isNew, outcome) ==
    CASE outcome = "ok" -> /\ PersistEventLog(x, isNew)
                           /\ Project(x, isNew)
                           /\ PublishProjection(x, isNew)
      [] outcome = "log fails" -> UNCHANGED rows
      [] OTHER -> /\ PersistEventLog(x, isNew)
                  /\ UNCHANGED <<tips, goal, credit, sub, published>>

Outcomes == {"ok", "log fails", "handler fails"}
CountFailure(outcome) ==
    /\ outcome # "ok" => faults.failures < scenario.failures
    /\ faults' = IF outcome = "ok" THEN faults
                 ELSE [faults EXCEPT !.failures = @ + 1]

-----------------------------------------------------------------------------
(* The poll loop (poller.ts) and the recovery it starts with (reorg.ts). *)

Idle == [pc |-> "idle", start |-> 0, ceiling |-> 0, token |-> 0, page |-> {},
         isNew |-> FALSE, pages |-> 0, processed |-> FALSE, failed |-> FALSE, seen |-> 0]

\* Newest to oldest, ledgers the chain does not have skipped: the first match is the
\* fork, and there is a reorganisation when a mismatch came before it.
DetectReorg ==
    LET known == {c \in checkpoints : c.ledger <= LatestLedger}
        wrong == {c \in known : ~Matches(c) /\ c.ledger > Agreed}
        oldest == Min({c.ledger : c \in checkpoints})
    IN  IF wrong = {} THEN [reorged |-> FALSE, fork |-> 0]
        ELSE [reorged |-> TRUE,
              fork |-> IF Agreed > 0 THEN Agreed ELSE oldest - 1]

\* As if the projected rows were left to the replay to overwrite.
RollbackKeepsTips(fork) ==
    /\ eventLog' = [e \in Events |-> [l \in Ledgers |-> IF l > fork THEN 0 ELSE eventLog[e][l]]]
    /\ checkpoints' = {c \in checkpoints : c.ledger <= fork}
    /\ cursor' = fork
    /\ passed' = {l \in passed : l <= fork}
    /\ UNCHANGED <<tips, goal, credit, sub, published>>

\* One transaction.  Refunds go with the tips they belong to.
RollbackToLedger(fork) ==
    /\ tips' = [t \in Tips |-> IF tips[t].ledger > fork THEN [ledger |-> 0, refunded |-> FALSE]
                               ELSE tips[t]]
    /\ eventLog' = [e \in Events |-> [l \in Ledgers |-> IF l > fork THEN 0 ELSE eventLog[e][l]]]
    /\ checkpoints' = {c \in checkpoints : c.ledger <= fork}
    /\ cursor' = fork
    /\ passed' = {l \in passed : l <= fork}
    /\ UNCHANGED <<goal, credit, sub, published>>

\* As if the tick resumed one ledger late.
ResumeLate == IF cursor > 0 THEN cursor + 2 ELSE StartLedger

ResolveStartLedger == IF cursor > 0 THEN cursor + 1 ELSE StartLedger

\* checkAndHandleReorg found a reorganisation: the rest of the tick is skipped.
RecoverFromReorg ==
    /\ live.pc = "idle"
    /\ DetectReorg.reorged
    /\ RollbackToLedger(DetectReorg.fork)
    /\ UNCHANGED <<chain, peak, live, backfill, scenario, faults>>

\* A tick with finalised ledgers to read; without any it returns at once.
BeginTick ==
    /\ live.pc = "idle"
    /\ ~DetectReorg.reorged
    /\ LatestLedger - FinalityDepth >= ResolveStartLedger
    /\ live' = [Idle EXCEPT !.pc = "page", !.start = ResolveStartLedger,
                            !.ceiling = LatestLedger - FinalityDepth,
                            !.seen = ResolveStartLedger - 1]
    /\ UNCHANGED <<chain, peak, db, backfill, ghosts, faults>>

\* The next page; what is not final is left for a later tick.  The loop ends at the page
\* cap, on an empty page, or on a page of unfinalised events before any was projected.
ReadPage ==
    /\ live.pc = "page"
    /\ LET page == PageFrom(IF live.token > 0 THEN live.token + 1 ELSE live.start)
           final == {x \in page : x.ledger <= live.ceiling}
           last == \/ live.pages = MaxPages \/ page = {}
                   \/ final = {} /\ ~live.processed
       IN  live' = [live EXCEPT !.pc = IF last THEN "finish"
                                       ELSE IF final = {} THEN "page" ELSE "event",
                                !.page = IF last THEN {} ELSE final,
                                !.pages = IF last THEN @ ELSE @ + 1]
    /\ UNCHANGED <<chain, peak, db, backfill, ghosts, faults>>

\* The RPC call of the tick fails: pollOnce throws and the loop goes on later.
ReadFails ==
    /\ live.pc = "page"
    /\ CountFailure("rpc")
    /\ live' = Idle
    /\ UNCHANGED <<chain, peak, db, backfill, ghosts>>

\* persistEventLog looks for the row of the next event of the page.
LookUp ==
    /\ live.pc = "event"
    /\ live' = [live EXCEPT !.pc = "project", !.isNew = ~IsLogged(Earliest(live.page))]
    /\ UNCHANGED <<chain, peak, db, backfill, ghosts, faults>>

\* A failure is caught and the rest of the page goes on; only success moves the token.
ProjectNext(outcome) ==
    /\ live.pc = "project"
    /\ LET x == Earliest(live.page)
           rest == live.page \ {x}
           done == [live EXCEPT !.pc = IF rest = {} THEN "page" ELSE "event",
                                !.page = rest, !.isNew = FALSE]
       IN  /\ ProjectEvent(x, live.isNew, outcome)
           /\ IF outcome = "ok"
              THEN live' = [done EXCEPT !.token = x.ledger, !.processed = TRUE,
                                        !.seen = Max({@, x.ledger})]
              ELSE live' = [done EXCEPT !.failed = TRUE]
    /\ CountFailure(outcome)
    /\ UNCHANGED <<chain, peak, cursor, checkpoints, backfill, ghosts>>

RecordCheckpoint(ledger) ==
    LET all == {c \in checkpoints : c.ledger # ledger}
                   \cup {[ledger |-> ledger, hash |-> chain[ledger].branch]}
    IN  {c \in all : Cardinality({d \in all : d.ledger >= c.ledger}) <= Lookback}

\* The final events that the page cap left unread.
Unread == {l \in OnChain : /\ live.pages = MaxPages
                           /\ (IF live.token > 0 THEN live.token ELSE live.start - 1) < l
                           /\ l <= live.ceiling}

\* The cursor goes to the finality ceiling whether or not the pages reached it; the
\* checkpoint is recorded when Horizon knows the ledger.
Advance(recorded) ==
    LET next == Max({live.seen, live.ceiling}) IN
    /\ cursor' = next
    /\ passed' = passed \cup Unread
    /\ checkpoints' = IF recorded /\ next <= LatestLedger THEN RecordCheckpoint(next)
                      ELSE checkpoints

\* As if the cursor advanced past an event that failed.
FinishTickAnyway(recorded) ==
    /\ live.pc = "finish"
    /\ recorded
    /\ Advance(recorded)
    /\ live' = Idle
    /\ UNCHANGED <<chain, peak, rows, backfill, scenario, faults>>

\* The end of a tick: nothing moves after a failure, else the cursor advances and the
\* checkpoint is recorded, unless Horizon does not answer or the process stops first.
FinishTick(recorded) ==
    /\ live.pc = "finish"
    /\ IF live.failed THEN UNCHANGED <<cursor, checkpoints, passed>> ELSE Advance(recorded)
    /\ IF recorded THEN UNCHANGED faults ELSE ~live.failed /\ CountFailure("horizon")
    /\ live' = Idle
    /\ UNCHANGED <<chain, peak, rows, backfill, scenario>>

\* The process stops and starts again: what is in memory is lost.
Restart(stored) ==
    /\ live.pc # "idle"
    /\ CountFailure("crash")
    /\ IF stored /\ live.pc = "project"
       THEN /\ PersistEventLog(Earliest(live.page), live.isNew)
            /\ UNCHANGED <<tips, goal, credit, sub, published>>
       ELSE ~stored /\ UNCHANGED rows
    /\ live' = Idle
    /\ UNCHANGED <<chain, peak, cursor, checkpoints, backfill, ghosts>>

-----------------------------------------------------------------------------
(* The backfill command (backfill.ts), on any range, past the finality depth too. *)

NoBackfill == [pc |-> "idle", from |-> 0, to |-> 0, covered |-> 0, token |-> 0,
               page |-> {}, isNew |-> FALSE]

StartBackfill(from, to) ==
    /\ backfill.pc = "idle"
    /\ faults.backfills < scenario.backfills
    /\ from <= to
    /\ backfill' = [NoBackfill EXCEPT !.pc = "page", !.from = from, !.to = to,
                                      !.covered = from - 1]
    /\ faults' = [faults EXCEPT !.backfills = @ + 1]
    /\ UNCHANGED <<chain, peak, db, live, ghosts>>

\* The covered ledger becomes the head the page reports, so the loop ends
\* with the first page whenever the range is below the head.
BackfillPage ==
    /\ backfill.pc = "page"
    /\ LET page == PageFrom(IF backfill.token > 0 THEN backfill.token + 1 ELSE backfill.from)
           wanted == {x \in page : x.ledger <= backfill.to}
           over == backfill.covered >= backfill.to \/ page = {}
       IN  backfill' = IF over THEN NoBackfill
                       ELSE [backfill EXCEPT !.pc = IF wanted = {} THEN "page" ELSE "event",
                                             !.page = wanted,
                                             !.covered = Min({Max({@, LatestLedger}), backfill.to})]
    /\ UNCHANGED <<chain, peak, db, live, ghosts, faults>>

BackfillLookUp ==
    /\ backfill.pc = "event"
    /\ backfill' = [backfill EXCEPT !.pc = "project",
                                    !.isNew = ~IsLogged(Earliest(backfill.page))]
    /\ UNCHANGED <<chain, peak, db, live, ghosts, faults>>

\* A failed event is reported and passed over.
BackfillNext(outcome) ==
    /\ backfill.pc = "project"
    /\ LET x == Earliest(backfill.page)
           rest == backfill.page \ {x}
       IN  /\ ProjectEvent(x, backfill.isNew, outcome)
           /\ backfill' = [backfill EXCEPT !.pc = IF rest = {} THEN "page" ELSE "event",
                                           !.page = rest, !.isNew = FALSE, !.token = x.ledger]
    /\ CountFailure(outcome)
    /\ UNCHANGED <<chain, peak, cursor, checkpoints, live, ghosts>>

-----------------------------------------------------------------------------
Init ==
    /\ chain = <<>> /\ peak = 0
    /\ cursor = 0 /\ checkpoints = {}
    /\ eventLog = [e \in Events |-> [l \in Ledgers |-> 0]]
    /\ tips = [t \in Tips |-> [ledger |-> 0, refunded |-> FALSE]]
    /\ goal = "none" /\ credit = NoEvent /\ sub = "none"
    /\ published = [e \in Events |-> 0]
    /\ live = Idle /\ backfill = NoBackfill
    /\ passed = {} /\ scenario \in Scenarios
    /\ faults = [reorgs |-> 0, failures |-> 0, backfills |-> 0, blind |-> FALSE]

\* A tick with nothing final to read.
EmptyTick ==
    /\ live.pc = "idle"
    /\ ~DetectReorg.reorged
    /\ LatestLedger - FinalityDepth < ResolveStartLedger
    /\ UNCHANGED vars

Poll == RecoverFromReorg \/ BeginTick \/ ReadPage \/ LookUp
            \/ ProjectNext("ok") \/ FinishTick(TRUE)

Next ==
    \/ Extend
    \/ \E fork \in 0..MaxLedger : Reorg(fork)
    \/ RecoverFromReorg \/ BeginTick \/ EmptyTick \/ ReadPage \/ ReadFails \/ LookUp
    \/ \E outcome \in Outcomes : ProjectNext(outcome)
    \/ \E ok \in BOOLEAN : FinishTick(ok) \/ Restart(ok)
    \/ \E from, to \in Ledgers : StartBackfill(from, to)
    \/ BackfillPage \/ BackfillLookUp
    \/ \E outcome \in Outcomes : BackfillNext(outcome)

\* The poll loop always schedules its next tick; nothing makes the chain grow or the
\* operator run a backfill.  A failure may happen, so only success is fair.
Spec == Init /\ [][Next]_vars /\ WF_vars(Poll)

-----------------------------------------------------------------------------
(* Properties. *)

LocalState == {"idle", "page", "event", "project", "finish"}
PageEntries == [ledger : Ledgers, event : Events]

\* Every row, checkpoint and local variable keeps its type: in particular the cursor
\* never passes the highest ledger the chain had.
TypeOK ==
    /\ chain \in Seq([branch : 0..MaxReorgs, event : Events \cup {NoEvent}])
    /\ Len(chain) <= peak /\ peak <= MaxLedger
    /\ cursor \in 0..peak
    /\ checkpoints \subseteq [ledger : Ledgers, hash : 0..MaxReorgs]
    /\ Cardinality(checkpoints) <= Lookback
    /\ eventLog \in [Events -> [Ledgers -> Nat]]
    /\ tips \in [Tips -> [ledger : 0..MaxLedger, refunded : BOOLEAN]]
    /\ goal \in {"none", "ACTIVE", "COMPLETED", "CANCELLED"}
    /\ sub \in {"none", "ACTIVE", "CANCELLED"}
    /\ credit \in {NoEvent} \cup OfTopic("credit")
    /\ published \in [Events -> Nat]
    /\ live.pc \in LocalState /\ live.page \subseteq PageEntries
    /\ backfill.pc \in LocalState /\ backfill.page \subseteq PageEntries
    /\ passed \subseteq Ledgers

\* While every fork was one the detection can undo: up to the highest ledger whose
\* checkpoint still agrees with the chain, the Tip table is the chain.  Every tip the
\* decoder accepts is there unless the page cap passed it, none is left from an abandoned
\* branch, and none is at another ledger.  The rollback relies on it: it keeps those rows.
AgreedTipsAreTheChain ==
    ~faults.blind =>
        \A t \in Tips : \A l \in 1..Agreed :
            /\ tips[t].ledger = l => chain[l].event = t
            /\ chain[l].event = t /\ t \in Readable /\ l \notin passed => tips[t].ledger = l

\* A refund on the agreed part of the chain is in the tables when both it and its tip were
\* read: the handlers run again on every replay, so a refund that came before its tip
\* was stored is not lost.
AgreedRefundsAreStored ==
    ~faults.blind =>
        \A r \in OfTopic("refund") \cap Readable : \A l \in LedgersOf(r) :
            (/\ l <= Agreed /\ l \notin passed
             /\ RefundOf[r] \in Readable /\ LedgersOf(RefundOf[r]) \cap passed = {})
                => tips[RefundOf[r]].refunded

LastOf(topics, upTo) ==
    LET at == {l \in OnChain : /\ l <= upTo /\ chain[l].event \in Readable
                              /\ Topic[chain[l].event] \in topics}
    IN  IF at = {} THEN NoEvent ELSE chain[Max(at)].event
GoalTopics == {"goal_set", "goal_reached", "goal_cancel"}
GoalOnChain(upTo) ==
    LET e == LastOf(GoalTopics, upTo) IN
    IF e = NoEvent THEN "none"
    ELSE CASE Topic[e] = "goal_set" -> "ACTIVE" [] Topic[e] = "goal_reached" -> "COMPLETED"
           [] OTHER -> "CANCELLED"

\* When a tick advances the cursor, the goal and the score are those of the chain at the
\* new cursor, whatever failed and was replayed on the way (no backfill: it
\* writes the same rows out of order; no rollback: it leaves these rows alone; and
\* no event passed at the page cap, which is never read).
TickLeavesChainState ==
    [][(cursor' > cursor /\ faults.backfills = 0 /\ faults.reorgs = 0 /\ passed' = {})
           => goal' = GoalOnChain(cursor') /\ credit' = LastOf({"credit"}, cursor')]_vars

\* Replays never broadcast an event again (no backfill: two processes that look for
\* the log row at once both store it; no rollback: it deletes the row).
BroadcastAtMostOnce ==
    faults.backfills = 0 /\ faults.reorgs = 0 => \A e \in Events : published[e] <= 1

\* What holds of the tables at every step, failures, forks, restarts and backfills included.
Safe == TypeOK /\ AgreedTipsAreTheChain /\ AgreedRefundsAreStored /\ BroadcastAtMostOnce

\* Once failures stop, every final tip the decoder accepts is stored and stays, unless a
\* fork went unseen, the page cap passed it, or the chain is shorter than the cursor,
\* when nothing can be compared yet.
EveryFinalTipIndexed ==
    <>[](LatestLedger >= cursor /\ ~faults.blind =>
             \A t \in Tips \cap Readable : \A l \in LedgersOf(t) :
                 l <= LatestLedger - FinalityDepth /\ l \notin passed => tips[t].ledger = l)

=============================================================================
