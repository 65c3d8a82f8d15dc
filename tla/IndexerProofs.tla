---------------------------- MODULE IndexerProofs ----------------------------
(***************************************************************************)
(* Proofs about the event indexer, for any events, page size, cap of       *)
(* pages, finality depth, lookback, start ledger and number of faults.     *)
(*                                                                         *)
(* The argument, as long as no fork went unseen: a checkpoint whose hash   *)
(* is the chain's vouches for every row up to its ledger, but for what was *)
(* passed at the page cap (TableInv); the checkpoints that still match are *)
(* the older ones (CheckInv); and a tick begins only where all of them     *)
(* match, so that what it has read so far is the chain, and what it has    *)
(* not is on a page still to come, or the cap passes it (LiveInv).  After  *)
(* a fork that went unseen only the types stand (Basic).                   *)
(***************************************************************************)
EXTENDS Indexer, SumsProofs, SequenceTheorems

-----------------------------------------------------------------------------
(* The inductive invariant.                                                  *)

\* What each variable may hold: TypeOK, with the local variables in full.
ChainTypes ==
  /\ chain \in Seq([branch : 0 .. MaxReorgs, event : Events \cup {NoEvent}])
  /\ peak \in Nat /\ Len(chain) <= peak /\ peak <= MaxLedger
MarkTypes ==
  /\ cursor \in 0 .. peak
  /\ checkpoints \subseteq [ledger : Ledgers, hash : 0 .. MaxReorgs]
  /\ IsFiniteSet(checkpoints) /\ Cardinality(checkpoints) <= Lookback
  /\ \A c \in checkpoints : c.ledger <= peak
TipRows == [ledger : 0 .. MaxLedger, refunded : BOOLEAN]
RowTypes ==
  /\ eventLog \in [Events -> [Ledgers -> Nat]]
  /\ tips \in [Tips -> TipRows]
  /\ goal \in {"none", "ACTIVE", "COMPLETED", "CANCELLED"}
  /\ sub \in {"none", "ACTIVE", "CANCELLED"}
  /\ credit \in {NoEvent} \cup OfTopic("credit")
  /\ published \in [Events -> Nat]
LiveRecords ==
  [pc : LocalState, start : Nat, ceiling : Nat, token : Nat, page : SUBSET PageEntries,
   isNew : BOOLEAN, pages : Nat, processed : BOOLEAN, failed : BOOLEAN, seen : Nat]
BackfillRecords ==
  [pc : {"idle", "page", "event", "project"}, from : Nat, to : Nat, covered : Nat,
   token : Nat, page : SUBSET PageEntries, isNew : BOOLEAN]
Faults == [reorgs : 0 .. MaxReorgs, failures : Nat, backfills : Nat, blind : BOOLEAN]
Types ==
  /\ ChainTypes /\ MarkTypes /\ RowTypes
  /\ live \in LiveRecords /\ backfill \in BackfillRecords
  /\ passed \subseteq Ledgers /\ scenario \in Scenarios /\ faults \in Faults

\* The local variables of the two loops as far as the types rely on them.
LiveShape ==
  /\ live.pc # "idle" => /\ live.ceiling >= 1 /\ live.ceiling <= peak /\ live.seen <= peak
                         /\ \A x \in live.page : x.ledger <= live.ceiling
  /\ live.pc \in {"event", "project"} => live.page # {}
BackShape == backfill.pc \in {"event", "project"} => backfill.page # {}
Basic == Types /\ LiveShape /\ BackShape /\ (faults.reorgs = 0 => ~faults.blind)

Final == peak - FinalityDepth

\* The event of ledger k sets the goal, in a form that can be read if that of l can.
SetBefore(k, l) == /\ chain[k].event \in OfTopic("goal_set")
                   /\ chain[l].event \in Readable => chain[k].event \in Readable
\* Branches are numbered by the forks; an event is on the chain once, after what it needs.
ChainInv ==
  /\ \A l \in DOMAIN chain : chain[l].branch <= faults.reorgs
  /\ \A k, l \in OnChain : chain[k].event = chain[l].event => k = l
  /\ \A l \in OnChain : l >= StartLedger
  /\ \A l \in OnChain : Topic[chain[l].event] = "refund"
         => \E k \in 1..(l - 1) : chain[k].event = RefundOf[chain[l].event]
  /\ \A l \in OnChain : Topic[chain[l].event] \in {"goal_reached", "goal_cancel"}
         => \E k \in 1..(l - 1) : SetBefore(k, l)
  /\ faults.reorgs = 0 => peak = Len(chain)

AllMatch == \A c \in checkpoints : Matches(c)

\* Checkpoints are of ledgers read; those of the current branch match, and below one that
\* matches all do.
CheckInv ==
  /\ \A c \in checkpoints : /\ c.ledger <= cursor /\ c.hash <= faults.reorgs
                            /\ c.hash = faults.reorgs => Matches(c)
  /\ \A c, d \in checkpoints : c.ledger <= d.ledger /\ Matches(d) => Matches(c)

\* The tip that the refund e of ledger l gives back was read.
Given(e, l) == /\ RefundOf[e] \in Readable
               /\ \E k \in 1..(l - 1) : k \notin passed /\ chain[k].event = RefundOf[e]
\* The rows hold what the event e of ledger l says, when it was read.
DoneEvent(e, l) ==
  e \in Readable =>
    /\ Topic[e] = "tip" => tips[e].ledger = l
    /\ Topic[e] = "refund" /\ Given(e, l) => tips[RefundOf[e]].refunded
    /\ Topic[e] = "goal_set" => goal # "none"
Done(l) == l \in OnChain /\ l \notin passed => DoneEvent(chain[l].event, l)
\* A stored tip is where the chain has it; and the rows are right up to ledger n.
Right(t) == tips[t].ledger \in DOMAIN chain /\ chain[tips[t].ledger].event = t
Sound(n) ==
  /\ n <= LatestLedger
  /\ \A l \in 1..n : Done(l)
  /\ \A t \in Tips : tips[t].ledger \in 1..n => Right(t)

\* A refunded tip is there.
RowsFit == \A t \in Tips : tips[t].ledger = 0 => ~tips[t].refunded
IsOldest(c) == \A d \in checkpoints : c.ledger <= d.ledger

\* What a checkpoint that matches vouches for, the oldest up to the ledger before it in any
\* case: no fork goes below.  With all of them in place the rows are right up to the cursor.
TableInv ==
  /\ RowsFit
  /\ \A c \in checkpoints : Matches(c) => Sound(c.ledger)
  /\ \A c \in checkpoints : IsOldest(c) => Sound(c.ledger - 1)
  /\ AllMatch => Sound(cursor) /\ \A t \in Tips : tips[t].ledger # 0 => Right(t)

\* How far a tick with the local variables v has come, and that nothing is left of the
\* finalised ledgers above n.
Reached(v) == IF v.token > 0 THEN v.token ELSE v.start - 1
NoneLeft(v, n) == \A l \in OnChain : ~(n < l /\ l <= v.ceiling)
Holds(page, l) == \E x \in page : x.ledger = l
AreOnChain(page) == \A x \in page : x.ledger \in DOMAIN chain /\ chain[x.ledger].event = x.event

\* The bounds of the tick, its page, the events of the page, and the rows it leaves behind.
TickBounds(v) ==
  /\ v.start = ResolveStartLedger
  /\ v.start <= v.ceiling /\ v.ceiling <= Final /\ v.ceiling <= LatestLedger
  /\ v.seen \in (v.start - 1) .. v.ceiling
  /\ v.token = 0 \/ v.token \in v.start .. v.ceiling

PageFits(v) ==
  /\ AreOnChain(v.page)
  /\ \A x \in v.page : x.ledger \in (Reached(v) + 1) .. v.ceiling
  /\ v.pc \in {"event", "project"} => v.page # {}

LastOfPage(v, m) ==
  /\ \A l \in OnChain : Reached(v) < l /\ l <= m => Holds(v.page, l)
  /\ \A x \in v.page : x.ledger <= m

Progress(v) ==
  /\ \A l \in v.start .. Reached(v) : Done(l)
  /\ v.pc \in {"event", "project"} => \E m \in Nat : Holds(v.page, m) /\ LastOfPage(v, m)
  /\ v.pc = "finish" => v.pages = MaxPages \/ NoneLeft(v, Reached(v))

TickFits(v) == TickBounds(v) /\ PageFits(v) /\ (~v.failed => Progress(v))

LiveInv == live.pc # "idle" => AllMatch /\ TickFits(live)

\* A backfill writes events of the chain.
BackInv ==
  /\ AreOnChain(backfill.page)
  /\ backfill.pc \in {"event", "project"} => backfill.page # {}

\* The goal and the score are those of ledger n, or an event up to b is still to set them.
Bears(l, topics) == chain[l].event \in Readable /\ Topic[chain[l].event] \in topics
Coming(topics, n, b) == \E l \in OnChain : n < l /\ l <= b /\ Bears(l, topics)
Told(n, b) ==
  /\ goal = GoalOnChain(n) \/ Coming(GoalTopics, n, b)
  /\ credit = LastOf({"credit"}, n) \/ Coming({"credit"}, n, b)

\* While nothing was forked or backfilled: only the live loop publishes, once for each event.
HistInv ==
  faults.reorgs = 0 /\ faults.backfills = 0 =>
    /\ backfill.pc = "idle"
    /\ \A e \in Events : published[e] <= 1
    /\ \A e \in Events : published[e] = 1 => \E l \in DOMAIN chain : chain[l].event = e /\ eventLog[e][l] > 0
    /\ live.pc = "project" /\ live.isNew => ~IsLogged(Earliest(live.page))
    /\ passed = {} /\ live.pc = "idle" => Told(cursor, LatestLedger - FinalityDepth)
    /\ passed = {} /\ live.pc # "idle"
           => Told(IF live.failed THEN cursor ELSE Reached(live), live.ceiling)

\* What holds while no fork went unseen, and what holds in any case.
FInv == Types /\ ChainInv /\ CheckInv /\ TableInv /\ LiveInv /\ BackInv /\ HistInv
IInv == Basic /\ (~faults.blind => FInv)

-----------------------------------------------------------------------------
(* The constants, and the extremes of finite sets.                           *)

LEMMA Constants ==
  /\ FinalityDepth \in Nat /\ MaxReorgs \in Nat
  /\ Lookback \in Nat \ {0} /\ StartLedger \in Nat \ {0}
  /\ MaxPages \in Nat \ {0} /\ MaxLedger \in Nat \ {0}
BY IndexerAssumption

LEMMA ScenarioIs ==
  ASSUME NEW v \in Scenarios
  PROVE  /\ v.ledgers \in 1 .. MaxLedger /\ v.pageSize \in Nat \ {0} /\ v.reorgs \in 0 .. MaxReorgs
         /\ v.events \subseteq Events
BY IndexerAssumption

LEMMA TopicsAre ==
  /\ NoEvent \notin Events /\ \A e \in Events : Topic[e] \in Topics
  /\ \A e \in Events : e \in Tips <=> Topic[e] = "tip"
  /\ \A e \in Events : Topic[e] = "refund" => RefundOf[e] \in Tips
  /\ Tips \subseteq Events
BY IndexerAssumption DEF Tips, OfTopic

LEMMA MaxIs ==
  ASSUME NEW n \in Nat, NEW S \in SUBSET (0 .. n), S # {}
  PROVE  Max(S) \in S /\ \A y \in S : Max(S) >= y
BY LargestExists DEF Max

LEMMA MinIs ==
  ASSUME NEW S \in SUBSET Nat, S # {}
  PROVE  Min(S) \in S /\ \A y \in S : Min(S) <= y
BY Least DEF Min

LEMMA MaxOfTwo ==
  ASSUME NEW a \in Int, NEW b \in Int PROVE Max({a, b}) = IF a >= b THEN a ELSE b
<1>1. \E x \in {a, b} : \A y \in {a, b} : x >= y
  OBVIOUS
<1>2. Max({a, b}) \in {a, b} /\ \A y \in {a, b} : Max({a, b}) >= y
  BY <1>1 DEF Max
<1> QED BY <1>2

LEMMA MinOfTwo ==
  ASSUME NEW a \in Int, NEW b \in Int PROVE Min({a, b}) = IF a <= b THEN a ELSE b
<1>1. \E x \in {a, b} : \A y \in {a, b} : x <= y
  OBVIOUS
<1>2. Min({a, b}) \in {a, b} /\ \A y \in {a, b} : Min({a, b}) <= y
  BY <1>1 DEF Min
<1> QED BY <1>2

LEMMA EarliestIs ==
  ASSUME NEW page \in SUBSET PageEntries, page # {}
  PROVE  Earliest(page) \in page /\ \A y \in page : Earliest(page).ledger <= y.ledger
<1> DEFINE S == {x.ledger : x \in page}
<1>1. S \in SUBSET Nat /\ S # {}
  BY Constants DEF PageEntries, Ledgers
<1>2. PICK n \in S : \A m \in S : n <= m
  <2> HIDE DEF S
  <2> QED BY <1>1, Least
<1>3. \E x \in page : \A y \in page : x.ledger <= y.ledger
  BY <1>2
<1> QED BY <1>3 DEF Earliest

-----------------------------------------------------------------------------
(* Checkpoints and the chain.                                                *)

LEMMA ChainIs ==
  ASSUME ChainTypes
  PROVE  /\ Len(chain) \in Nat /\ Len(chain) <= MaxLedger /\ DOMAIN chain = 1 .. Len(chain)
         /\ \A l \in 1 .. Len(chain) : /\ chain[l] \in [branch : 0 .. MaxReorgs, event : Events \cup {NoEvent}]
                                       /\ chain[l].branch \in Nat /\ chain[l].event \in Events \cup {NoEvent}
         /\ OnChain = {l \in 1 .. Len(chain) : chain[l].event \in Events}
         /\ peak \in Nat /\ Len(chain) <= peak /\ peak <= MaxLedger
<1>1. /\ chain \in Seq([branch : 0 .. MaxReorgs, event : Events \cup {NoEvent}])
      /\ Len(chain) <= peak /\ peak <= MaxLedger /\ peak \in Nat
  BY DEF ChainTypes
<1>2. Len(chain) \in Nat /\ DOMAIN chain = 1 .. Len(chain)
  BY <1>1, LenProperties
<1>3. \A l \in 1 .. Len(chain) : chain[l] \in [branch : 0 .. MaxReorgs, event : Events \cup {NoEvent}]
  BY <1>1, ElementOfSeq
<1>4. \A l \in 1 .. Len(chain) : chain[l].branch \in Nat /\ chain[l].event \in Events \cup {NoEvent}
  BY <1>3, Constants
<1>5. OnChain = {l \in 1 .. Len(chain) : chain[l].event \in Events}
  BY <1>2, <1>4, TopicsAre DEF OnChain
<1>6. Len(chain) <= MaxLedger
  BY <1>1, <1>2, Constants
<1> QED BY <1>1, <1>2, <1>3, <1>4, <1>5, <1>6

LEMMA MarksAre ==
  ASSUME ChainTypes, MarkTypes
  PROVE  /\ \A c \in checkpoints : c.ledger \in 1 .. MaxLedger /\ c.ledger \in Nat /\ c.hash \in Nat
         /\ cursor \in Nat
<1>1. checkpoints \subseteq [ledger : Ledgers, hash : 0 .. MaxReorgs]
  BY DEF MarkTypes
<1>2. ASSUME NEW c \in checkpoints PROVE c.ledger \in 1 .. MaxLedger /\ c.ledger \in Nat /\ c.hash \in Nat
  BY <1>1, Constants DEF Ledgers
<1>3. cursor \in 0 .. peak /\ peak \in Nat
  BY DEF ChainTypes, MarkTypes
<1> QED BY <1>2, <1>3

LEMMA AgreedIs ==
  ASSUME ChainTypes, MarkTypes
  PROVE  /\ Agreed \in Nat
         /\ \A c \in checkpoints : Matches(c) => c.ledger <= Agreed
         /\ Agreed # 0 => \E c \in checkpoints : Matches(c) /\ Agreed = c.ledger
<1> DEFINE S == {0} \cup {c.ledger : c \in {x \in checkpoints : Matches(x)}}
<1>1. S \in SUBSET (0 .. MaxLedger) /\ S # {} /\ MaxLedger \in Nat
  BY MarksAre, Constants
<1>2. Max(S) \in S /\ (\A y \in S : Max(S) >= y) /\ Max(S) \in Nat
  <2> HIDE DEF S
  <2>1. PICK m : m = Max(S) /\ m \in S /\ \A y \in S : m >= y
    BY <1>1, MaxIs
  <2>2. m \in 0 .. MaxLedger
    BY <1>1, <2>1
  <2> QED BY <2>1, <2>2
<1>3. Agreed = Max(S)
  BY DEF Agreed
<1>5. \A c \in checkpoints : Matches(c) => c.ledger \in S
  OBVIOUS
<1>6. \A c \in checkpoints : Matches(c) => c.ledger <= Agreed
  <2> HIDE DEF S
  <2> QED BY <1>1, <1>2, <1>3, <1>5
<1>7. Agreed # 0 => \E c \in checkpoints : Matches(c) /\ Agreed = c.ledger
  BY <1>2, <1>3
<1> QED BY <1>2, <1>3, <1>6, <1>7

-----------------------------------------------------------------------------
(* What stays as it is when the chain changes above a ledger only.           *)

SameUpTo(n) == /\ n <= Len(chain) /\ n <= Len(chain') /\ \A l \in 1 .. n : chain'[l] = chain[l]

LEMMA OnChainSame ==
  ASSUME ChainTypes, ChainTypes', NEW n \in Nat, SameUpTo(n)
  PROVE  \A l \in 1 .. n : /\ l \in DOMAIN chain /\ l \in DOMAIN chain' /\ chain'[l] = chain[l]
                           /\ l \in OnChain' <=> l \in OnChain
<1>1. Len(chain) \in Nat /\ Len(chain') \in Nat /\ DOMAIN chain = 1 .. Len(chain)
      /\ DOMAIN chain' = 1 .. Len(chain')
  BY ChainIs DEF ChainTypes
<1>2. \A l \in 1 .. n : l \in 1 .. Len(chain) /\ l \in 1 .. Len(chain') /\ chain'[l] = chain[l]
  BY <1>1 DEF SameUpTo
<1> QED BY <1>1, <1>2 DEF OnChain

\* What was passed at the page cap stays so, up to a ledger.
StaysPassed(n) == \A l \in 1 .. n : l \in passed => l \in passed'

LEMMA DoneSame ==
  ASSUME ChainTypes, ChainTypes', NEW n \in Nat, SameUpTo(n), UNCHANGED <<tips, goal>>, StaysPassed(n)
  PROVE  \A l \in 1 .. n : Done(l) => Done(l)'
<1> SUFFICES ASSUME NEW l \in 1 .. n, Done(l), l \in OnChain', l \notin passed' PROVE DoneEvent(chain[l].event, l)'
  BY OnChainSame DEF Done
<1>1. l \in OnChain /\ chain'[l] = chain[l] /\ l \notin passed
  BY OnChainSame DEF StaysPassed
<1>2. PICK e : e = chain[l].event
  OBVIOUS
<1>3. DoneEvent(e, l)
  BY <1>1, <1>2 DEF Done
<1>4. ASSUME Given(e, l)' PROVE Given(e, l)
  <2>1. PICK k \in 1 .. (l - 1) : k \notin passed' /\ chain'[k].event = RefundOf[e]
    BY <1>4 DEF Given
  <2>2. k \in 1 .. n
    OBVIOUS
  <2>3. k \notin passed /\ chain[k].event = RefundOf[e]
    BY <2>1, <2>2, OnChainSame DEF StaysPassed
  <2> QED BY <1>4, <2>1, <2>3 DEF Given
<1>5. DoneEvent(e, l)'
  BY <1>3, <1>4 DEF DoneEvent
<1> QED BY <1>1, <1>2, <1>5

LEMMA SoundSame ==
  ASSUME ChainTypes, ChainTypes', NEW n \in Nat, SameUpTo(n), UNCHANGED <<tips, goal>>, StaysPassed(n), Sound(n)
  PROVE  Sound(n)'
<1>1. n <= LatestLedger'
  BY DEF SameUpTo, LatestLedger
<1>2. \A l \in 1 .. n : Done(l)'
  BY DoneSame DEF Sound
<1>3. ASSUME NEW t \in Tips, tips'[t].ledger \in 1 .. n PROVE Right(t)'
  <2>1. tips[t].ledger \in 1 .. n /\ Right(t)
    BY <1>3 DEF Sound
  <2> QED BY <2>1, OnChainSame DEF Right
<1> QED BY <1>1, <1>2, <1>3 DEF Sound

LEMMA SoundBelow ==
  ASSUME NEW n \in Nat, NEW m \in Nat, m <= n, Sound(n), Len(chain) \in Nat PROVE Sound(m)
<1>1. \A l \in 1 .. m : l \in 1 .. n
  OBVIOUS
<1>2. m <= LatestLedger
  BY DEF Sound, LatestLedger
<1>3. \A l \in 1 .. m : Done(l)
  BY <1>1 DEF Sound
<1>4. \A t \in Tips : tips[t].ledger \in 1 .. m => Right(t)
  BY <1>1 DEF Sound
<1> QED BY <1>2, <1>3, <1>4 DEF Sound

LEMMA TickSame ==
  ASSUME ChainTypes, ChainTypes', NEW v \in LiveRecords, SameUpTo(v.ceiling), TickFits(v),
         UNCHANGED <<tips, goal, cursor, passed>>, cursor \in Nat,
         Final' >= Final, Final \in Int, Final' \in Int
  PROVE  TickFits(v)'
<1>1. v.ceiling \in Nat /\ v.start \in Nat /\ v.token \in Nat /\ v.seen \in Nat /\ v.start >= 1
      /\ v.page \in SUBSET PageEntries
  BY Constants DEF LiveRecords, TickFits, TickBounds, ResolveStartLedger
<1>2. TickBounds(v)'
  BY <1>1 DEF TickFits, TickBounds, ResolveStartLedger, SameUpTo, LatestLedger
<1>3. Reached(v) \in Nat /\ Reached(v) <= v.ceiling /\ Reached(v) + 1 >= v.start
  BY <1>1 DEF Reached, TickFits, TickBounds
<1>4. \A x \in v.page : x.ledger \in 1 .. v.ceiling
  BY <1>1, <1>3 DEF TickFits, PageFits
<1>5. PageFits(v)'
  <2>1. AreOnChain(v.page)'
    BY <1>1, <1>4, OnChainSame DEF TickFits, PageFits, AreOnChain
  <2> QED BY <2>1 DEF TickFits, PageFits, Reached
<1>6. ASSUME Progress(v) PROVE Progress(v)'
  <2>1. \A l \in v.start .. Reached(v) : Done(l)'
    <3>1. \A l \in v.start .. Reached(v) : l \in 1 .. v.ceiling
      BY <1>1, <1>3
    <3>2. StaysPassed(v.ceiling)
      BY DEF StaysPassed
    <3> QED BY <1>1, <1>6, <3>1, <3>2, DoneSame DEF Progress
  <2>2. ASSUME NEW l \in OnChain', l <= v.ceiling PROVE l \in OnChain
    <3>1. l \in 1 .. v.ceiling
      BY <1>1, <2>2, ChainIs DEF OnChain, ChainTypes
    <3> QED BY <1>1, <2>2, <3>1, OnChainSame
  <2>3. \A n : NoneLeft(v, n) => NoneLeft(v, n)'
    BY <2>2 DEF NoneLeft
  <2>5. ASSUME NEW m \in Nat, Holds(v.page, m), LastOfPage(v, m) PROVE LastOfPage(v, m)'
    <3>1. m <= v.ceiling
      BY <1>4, <2>5 DEF Holds
    <3>2. ASSUME NEW l \in OnChain', Reached(v) < l, l <= m PROVE Holds(v.page, l)
      <4>1. l \in Nat
        BY ChainIs DEF OnChain, ChainTypes
      <4>2. l \in OnChain
        BY <1>1, <2>2, <3>1, <3>2, <4>1
      <4> QED BY <2>5, <3>2, <4>2 DEF LastOfPage
    <3> QED BY <2>5, <3>2 DEF LastOfPage, Reached, Holds
  <2> QED BY <1>6, <2>1, <2>3, <2>5 DEF Progress, Reached, Holds
<1> QED BY <1>2, <1>5, <1>6 DEF TickFits

LEMMA LastSame ==
  ASSUME ChainTypes, ChainTypes', NEW n \in Nat, SameUpTo(n), NEW topics
  PROVE  LastOf(topics, n)' = LastOf(topics, n)
<1> DEFINE at == {l \in OnChain : l <= n /\ chain[l].event \in Readable /\ Topic[chain[l].event] \in topics}
           at2 == {l \in OnChain' : l <= n /\ chain'[l].event \in Readable /\ Topic[chain'[l].event] \in topics}
<1>1. at \in SUBSET (1 .. n) /\ at2 \in SUBSET (1 .. n)
  BY ChainIs DEF OnChain, ChainTypes
<1>2. at2 = at
  BY <1>1, OnChainSame
<1>3. LastOf(topics, n) = IF at = {} THEN NoEvent ELSE chain[Max(at)].event
  BY DEF LastOf
<1>4. LastOf(topics, n)' = IF at2 = {} THEN NoEvent ELSE chain'[Max(at2)].event
  BY DEF LastOf
<1> HIDE DEF at, at2
<1>5. at # {} => Max(at) \in 1 .. n
  <2>1. at \in SUBSET (0 .. n)
    BY <1>1
  <2> QED BY <1>1, <2>1, MaxIs
<1>6. at # {} => chain'[Max(at)] = chain[Max(at)]
  BY <1>5, OnChainSame
<1> QED BY <1>2, <1>3, <1>4, <1>6

LEMMA ToldSame ==
  ASSUME ChainTypes, ChainTypes', NEW k \in Nat, SameUpTo(k), NEW n \in Nat, n <= k,
         NEW b \in Int, b <= k, NEW b2 \in Int, b <= b2, UNCHANGED <<goal, credit>>, Told(n, b)
  PROVE  Told(n, b2)'
<1>1. SameUpTo(n)
  BY DEF SameUpTo
<1>2. \A topics : LastOf(topics, n)' = LastOf(topics, n)
  BY <1>1, LastSame
<1>3. GoalOnChain(n)' = GoalOnChain(n)
  BY <1>2 DEF GoalOnChain
<1>4. ASSUME NEW topics, Coming(topics, n, b) PROVE Coming(topics, n, b2)'
  <2>1. PICK l \in OnChain : n < l /\ l <= b /\ Bears(l, topics)
    BY <1>4 DEF Coming
  <2>2. l \in 1 .. k /\ l <= b2
    BY <2>1, ChainIs DEF OnChain
  <2>3. l \in OnChain' /\ chain'[l] = chain[l]
    BY <2>2, OnChainSame
  <2> QED BY <2>1, <2>2, <2>3 DEF Coming, Bears
<1> QED BY <1>2, <1>3, <1>4 DEF Told

-----------------------------------------------------------------------------
(* A ledger closes.                                                          *)

LEMMA ExtendIs ==
  ASSUME ChainTypes, faults \in Faults, scenario \in Scenarios, Extend
  PROVE  /\ UNCHANGED <<db, live, backfill, ghosts, faults>>
         /\ SameUpTo(Len(chain)) /\ Len(chain') = Len(chain) + 1 /\ Len(chain) < MaxLedger
         /\ peak' \in Nat /\ peak' >= peak /\ Len(chain') <= peak' /\ peak' <= MaxLedger
         /\ peak = Len(chain) => peak' = Len(chain')
         /\ ChainTypes'
         /\ \E e \in Events \cup {NoEvent} :
              /\ chain'[Len(chain')] = [branch |-> faults.reorgs, event |-> e]
              /\ e \in Events => Fresh(e)
<1>1. PICK e \in Events \cup {NoEvent} :
        /\ chain' = Append(chain, [branch |-> faults.reorgs, event |-> e])
        /\ e \in Events => Fresh(e)
  <2>1. scenario.events \subseteq Events
    BY ScenarioIs
  <2> QED BY <2>1, TopicsAre DEF Extend
<1>2. PICK new : new = [branch |-> faults.reorgs, event |-> e]
  OBVIOUS
<1>3. new \in [branch : 0 .. MaxReorgs, event : Events \cup {NoEvent}]
  BY SMTT(20), <1>2 DEF Faults
<1>4. PICK n \in Nat : n = Len(chain) /\ n < MaxLedger
  <2>1. scenario.ledgers \in 1 .. MaxLedger /\ MaxLedger \in Nat
    BY ScenarioIs, Constants
  <2>2. Len(chain) \in Nat
    BY ChainIs
  <2>3. Len(chain) < scenario.ledgers
    BY DEF Extend, LatestLedger
  <2> QED BY <2>1, <2>2, <2>3
<1>5. /\ chain' \in Seq([branch : 0 .. MaxReorgs, event : Events \cup {NoEvent}])
      /\ Len(chain') = n + 1 /\ chain'[n + 1] = new /\ \A l \in 1 .. n : chain'[l] = chain[l]
  BY <1>1, <1>2, <1>3, <1>4, AppendProperties DEF ChainTypes
<1>6. SameUpTo(Len(chain))
  BY <1>4, <1>5 DEF SameUpTo
<1>7. peak \in Nat /\ n <= peak /\ peak <= MaxLedger /\ MaxLedger \in Nat
  BY <1>4, Constants DEF ChainTypes
<1>8. peak' = IF peak >= n + 1 THEN peak ELSE n + 1
  BY <1>4, <1>7, MaxOfTwo DEF Extend, LatestLedger
<1>9. peak' \in Nat /\ peak' >= peak /\ n + 1 <= peak' /\ peak' <= MaxLedger /\ (peak = n => peak' = n + 1)
  BY <1>4, <1>7, <1>8
<1>10. ChainTypes'
  BY <1>5, <1>9 DEF ChainTypes
<1>11. UNCHANGED <<db, live, backfill, ghosts, faults>>
  BY SMTT(20) DEF Extend
<1> QED BY <1>1, <1>2, <1>4, <1>5, <1>6, <1>9, <1>10, <1>11

LEMMA ExtendChain ==
  ASSUME ChainTypes, faults \in Faults, scenario \in Scenarios, ChainInv, Extend PROVE ChainInv'
<1>1. PICK n \in Nat, e \in Events \cup {NoEvent} :
        /\ n = Len(chain) /\ SameUpTo(n) /\ Len(chain') = n + 1
        /\ chain'[n + 1] = [branch |-> faults.reorgs, event |-> e]
        /\ e \in Events => Fresh(e)
        /\ faults' = faults /\ (peak = n => peak' = n + 1) /\ ChainTypes'
  BY ExtendIs, ChainIs
<1>2. DOMAIN chain = 1 .. n /\ DOMAIN chain' = 1 .. (n + 1)
  BY <1>1, ChainIs DEF ChainTypes
<1>3. \A l \in 1 .. n : chain'[l] = chain[l] /\ (l \in OnChain' <=> l \in OnChain)
  BY <1>1, OnChainSame
<1>4. OnChain' \subseteq 1 .. (n + 1) /\ OnChain \subseteq 1 .. n
  BY <1>2 DEF OnChain
<1>5. n + 1 \in OnChain' => e \in Events /\ Fresh(e) /\ chain'[n + 1].event = e
  BY <1>1 DEF OnChain
<1>6. \A l \in OnChain' : l \in OnChain \/ l = n + 1
  BY <1>3, <1>4
<1>7. faults.reorgs \in Nat
  BY Constants DEF Faults
<1>8. \A l \in DOMAIN chain' : chain'[l].branch <= faults'.reorgs
  <2>1. ASSUME NEW l \in 1 .. (n + 1) PROVE chain'[l].branch <= faults.reorgs
    <3>1. CASE l \in 1 .. n
      BY <1>2, <1>3, <3>1 DEF ChainInv
    <3>2. CASE l = n + 1
      BY <1>1, <1>7, <3>2
    <3> QED BY <2>1, <3>1, <3>2
  <2> QED BY <1>1, <1>2, <2>1
<1>9. ASSUME NEW k \in OnChain', NEW l \in OnChain', chain'[k].event = chain'[l].event PROVE k = l
  <2>1. ASSUME NEW j \in OnChain, n + 1 \in OnChain' PROVE chain'[j].event # chain'[n + 1].event
    <3>1. LedgersOf(e) = {} /\ j \in 1 .. n /\ chain'[j] = chain[j] /\ j \in DOMAIN chain
      BY <1>2, <1>3, <1>4, <1>5, <2>1 DEF Fresh
    <3> QED BY <1>5, <2>1, <3>1 DEF LedgersOf
  <2>2. CASE k \in OnChain /\ l \in OnChain
    BY <1>3, <1>4, <1>9, <2>2 DEF ChainInv
  <2> QED BY <1>6, <1>9, <2>1, <2>2
<1>10. \A l \in OnChain' : l >= StartLedger
  <2>1. n + 1 \in OnChain' => n + 1 >= StartLedger
    BY <1>1, <1>5 DEF Fresh, LatestLedger
  <2> QED BY <1>6, <2>1 DEF ChainInv
<1>11. ASSUME NEW l \in OnChain', Topic[chain'[l].event] = "refund"
       PROVE  \E k \in 1 .. (l - 1) : chain'[k].event = RefundOf[chain'[l].event]
  <2>1. CASE l \in OnChain
    <3>1. l \in 1 .. n /\ chain'[l] = chain[l]
      BY <1>3, <1>4, <2>1
    <3>2. PICK k \in 1 .. (l - 1) : chain[k].event = RefundOf[chain[l].event]
      BY <1>11, <2>1, <3>1 DEF ChainInv
    <3>3. k \in 1 .. n
      BY <3>1
    <3> QED BY <1>3, <3>1, <3>2, <3>3
  <2>2. CASE l = n + 1
    <3>1. PICK k \in DOMAIN chain : chain[k].event = RefundOf[e]
      BY <1>5, <1>11, <2>2 DEF Fresh, LedgersOf
    <3>2. k \in 1 .. (l - 1) /\ chain'[k] = chain[k]
      BY <1>2, <1>3, <2>2
    <3> QED BY <1>5, <2>2, <3>1, <3>2
  <2> QED BY <1>6, <2>1, <2>2
<1>12. ASSUME NEW l \in OnChain', Topic[chain'[l].event] \in {"goal_reached", "goal_cancel"}
       PROVE  \E k \in 1 .. (l - 1) : SetBefore(k, l)'
  <2>1. CASE l \in OnChain
    <3>1. l \in 1 .. n /\ chain'[l] = chain[l]
      BY <1>3, <1>4, <2>1
    <3>2. PICK k \in 1 .. (l - 1) : SetBefore(k, l)
      BY <1>12, <2>1, <3>1 DEF ChainInv
    <3>3. k \in 1 .. n
      BY <3>1
    <3> QED BY <1>3, <3>1, <3>2, <3>3 DEF SetBefore
  <2>2. CASE l = n + 1
    <3>1. PICK k \in DOMAIN chain : /\ chain[k].event \in OfTopic("goal_set")
                                    /\ e \in Readable => chain[k].event \in Readable
      BY <1>5, <1>12, <2>2 DEF Fresh, LedgersOf
    <3>2. k \in 1 .. (l - 1) /\ chain'[k] = chain[k] /\ chain'[l].event = e
      BY <1>2, <1>3, <1>5, <1>12, <2>2
    <3>3. chain'[k].event \in OfTopic("goal_set") /\ (chain'[l].event \in Readable => chain'[k].event \in Readable)
      <4>1. PICK g : g = chain[k].event /\ g = chain'[k].event
        BY <3>2
      <4>2. g \in OfTopic("goal_set") /\ (e \in Readable => g \in Readable)
        BY <3>1, <4>1
      <4> QED BY Zenon, <3>2, <4>1, <4>2
    <3>4. SetBefore(k, l)'
      BY <3>3 DEF SetBefore
    <3> QED BY <3>2, <3>4
  <2> QED BY <1>6, <2>1, <2>2
<1>13. faults'.reorgs = 0 => peak' = Len(chain')
  BY <1>1 DEF ChainInv
<1>14. \A k, l \in OnChain' : chain'[k].event = chain'[l].event => k = l
  BY <1>9
<1>15. \A l \in OnChain' : Topic[chain'[l].event] = "refund"
         => \E k \in 1..(l - 1) : chain'[k].event = RefundOf[chain'[l].event]
  BY Zenon, <1>11
<1>16. \A l \in OnChain' : Topic[chain'[l].event] \in {"goal_reached", "goal_cancel"}
         => \E k \in 1..(l - 1) : SetBefore(k, l)'
  BY Zenon, <1>12
<1> QED BY Zenon, <1>8, <1>10, <1>13, <1>14, <1>15, <1>16 DEF ChainInv

LEMMA FinalIs == ASSUME ChainTypes PROVE Final \in Int
BY Constants DEF Final, ChainTypes

LEMMA FinalGrows ==
  ASSUME peak \in Nat, peak' \in Nat, peak' >= peak PROVE Final \in Int /\ Final' \in Int /\ Final' >= Final
<1>1. FinalityDepth \in Nat
  BY Constants
<1>2. ASSUME NEW p \in Nat, NEW q \in Nat, q >= p, NEW d \in Nat
      PROVE  p - d \in Int /\ q - d \in Int /\ q - d >= p - d
  BY <1>2
<1>3. /\ peak - FinalityDepth \in Int /\ peak' - FinalityDepth \in Int
      /\ peak' - FinalityDepth >= peak - FinalityDepth
  BY <1>1, <1>2
<1> QED BY Zenon, <1>3 DEF Final

LEMMA TableSame ==
  ASSUME ChainTypes, ChainTypes', MarkTypes, RowTypes, TableInv,
         UNCHANGED <<tips, goal, checkpoints, cursor, passed>>,
         \A c \in checkpoints : Matches(c)' => Matches(c) /\ SameUpTo(c.ledger),
         \A c \in checkpoints : IsOldest(c) => SameUpTo(c.ledger - 1),
         AllMatch' => AllMatch /\ SameUpTo(cursor)
                      /\ \A t \in Tips : tips[t].ledger # 0 => SameUpTo(tips[t].ledger)
  PROVE  TableInv'
<1>1. RowsFit' /\ \A n : StaysPassed(n)
  BY DEF TableInv, RowsFit, StaysPassed
<1>2. ASSUME NEW c \in checkpoints, Matches(c)' PROVE Sound(c.ledger)'
  <2>1. Matches(c) /\ SameUpTo(c.ledger) /\ c.ledger \in Nat
    BY <1>2, MarksAre
  <2>2. Sound(c.ledger)
    BY <2>1 DEF TableInv
  <2>3. PICK n \in Nat : n = c.ledger
    BY <2>1
  <2>4. Sound(n)'
    BY <2>1, <2>2, <2>3, <1>1, SoundSame
  <2> QED BY <2>3, <2>4
<1>3. ASSUME NEW c \in checkpoints, IsOldest(c) PROVE Sound(c.ledger - 1)'
  <2>1. PICK n \in Nat : n = c.ledger - 1
    BY MarksAre
  <2>2. SameUpTo(n) /\ Sound(n)
    BY <1>3, <2>1 DEF TableInv
  <2>3. Sound(n)'
    BY <2>2, <1>1, SoundSame
  <2> QED BY <2>1, <2>3
<1>4. \A c \in checkpoints : IsOldest(c)' => IsOldest(c)
  BY DEF IsOldest
<1>5. ASSUME AllMatch' PROVE Sound(cursor)' /\ \A t \in Tips : tips'[t].ledger # 0 => Right(t)'
  <2>1. PICK n \in Nat : n = cursor
    BY MarksAre
  <2>2. Sound(n) /\ SameUpTo(n)
    BY <1>5, <2>1 DEF TableInv
  <2>3. Sound(n)'
    BY <2>2, <1>1, SoundSame
  <2>4. ASSUME NEW t \in Tips, tips[t].ledger # 0 PROVE Right(t)'
    <3>1. PICK l \in Nat : l = tips[t].ledger
      BY Constants DEF RowTypes, TipRows
    <3>2. Right(t) /\ SameUpTo(l)
      BY <1>5, <2>4, <3>1 DEF TableInv
    <3>3. l \in 1 .. l
      BY <2>4, <3>1
    <3> QED BY <3>1, <3>2, <3>3, OnChainSame DEF Right
  <2> QED BY <2>1, <2>3, <2>4
<1> QED BY <1>1, <1>2, <1>3, <1>4, <1>5 DEF TableInv

LEMMA BackSame ==
  ASSUME ChainTypes, ChainTypes', BackInv, backfill' = backfill, backfill \in BackfillRecords, NEW n \in Nat,
         SameUpTo(n), \A x \in backfill.page : x.ledger <= n
  PROVE  BackInv'
<1>1. ASSUME NEW x \in backfill.page PROVE x.ledger \in DOMAIN chain' /\ chain'[x.ledger].event = x.event
  <2>1. x.ledger \in 1 .. Len(chain) /\ chain[x.ledger].event = x.event /\ x.ledger <= n /\ Len(chain) \in Nat
    BY ChainIs DEF BackInv, AreOnChain
  <2>2. x.ledger \in 1 .. n
    BY <2>1
  <2> QED BY <2>1, <2>2, OnChainSame
<1> QED BY <1>1 DEF BackInv, AreOnChain

LEMMA ExtendInv == ASSUME FInv, Extend PROVE FInv'
<1>1. /\ ChainTypes /\ MarkTypes /\ RowTypes /\ live \in LiveRecords /\ backfill \in BackfillRecords
      /\ faults \in Faults /\ passed \subseteq Ledgers /\ scenario \in Scenarios /\ ChainInv /\ CheckInv /\ TableInv /\ LiveInv /\ BackInv /\ HistInv
  BY SMTT(20) DEF FInv, Types
<1>2. PICK n \in Nat : n = Len(chain)
  BY <1>1, ChainIs
<1>3. /\ UNCHANGED <<db, live, backfill, ghosts, faults>> /\ ChainTypes' /\ peak' \in Nat /\ peak' >= peak
      /\ SameUpTo(n) /\ Len(chain') = n + 1 /\ (peak = n => peak' = n + 1) /\ n + 1 <= peak'
  BY <1>1, <1>2, ExtendIs
<1>4. PICK e : chain'[n + 1] = [branch |-> faults.reorgs, event |-> e]
  BY <1>1, <1>2, <1>3, ExtendIs
<1>5. /\ UNCHANGED <<cursor, checkpoints, eventLog, tips, goal, credit, sub, published>>
      /\ UNCHANGED <<live, backfill, passed, scenario, faults>>
  BY <1>3 DEF db, ghosts
<1>6. Final \in Int /\ Final' \in Int /\ Final' >= Final
  <2>1. peak \in Nat /\ peak' \in Nat /\ peak' >= peak
    BY <1>1, <1>3 DEF ChainTypes
  <2> QED BY <2>1, FinalGrows
<1>7. \A m \in Nat : m <= n => SameUpTo(m)
  BY <1>2, <1>3 DEF SameUpTo
<1>8. Types'
  <2>1. MarkTypes'
    <3>1. 0 .. peak \subseteq 0 .. peak'
      BY <1>1, <1>3 DEF ChainTypes
    <3>2. \A c \in checkpoints : c.ledger <= peak'
      <4>1. \A c \in checkpoints : c.ledger \in Nat /\ c.ledger <= peak
        BY <1>1, MarksAre DEF MarkTypes
      <4>2. peak \in Nat
        BY <1>1 DEF ChainTypes
      <4> QED BY <1>3, <4>1, <4>2
    <3> QED BY <1>1, <1>5, <3>1, <3>2 DEF MarkTypes
  <2>2. RowTypes'
    BY <1>1, <1>5 DEF RowTypes
  <2> QED BY <1>1, <1>3, <1>5, <2>1, <2>2 DEF Types
<1>9. ChainInv'
  BY <1>1, ExtendChain
<1>10. ASSUME NEW c \in checkpoints PROVE Matches(c)' <=> Matches(c)
  <2>1. c.ledger \in Nat /\ c.ledger >= 1
    BY <1>1, MarksAre
  <2>2. CASE c.ledger <= n
    <3>1. chain'[c.ledger] = chain[c.ledger]
      BY <1>2, <1>3, <2>1, <2>2 DEF SameUpTo
    <3> QED BY <1>2, <1>3, <2>1, <2>2, <3>1 DEF Matches, LatestLedger
  <2>3. CASE c.ledger > n
    <3>1. ~Matches(c)
      BY <1>2, <2>1, <2>3 DEF Matches, LatestLedger
    <3>2. c.hash # faults.reorgs
      BY <1>1, <3>1 DEF CheckInv
    <3>3. c.ledger <= n + 1 => c.ledger = n + 1
      BY <2>1, <2>3
    <3>4. ~Matches(c)'
      BY <1>3, <1>4, <3>2, <3>3 DEF Matches, LatestLedger
    <3> QED BY <3>1, <3>4
  <2> QED BY <2>1, <2>2, <2>3
<1>11. AllMatch' <=> AllMatch
  BY <1>5, <1>10 DEF AllMatch
<1>12. CheckInv'
  BY <1>1, <1>5, <1>10, MarksAre DEF CheckInv
<1>13. TableInv'
  <2>1. ASSUME NEW m \in Nat, Sound(m) PROVE SameUpTo(m)
    BY <1>2, <1>7, <2>1 DEF Sound, LatestLedger
  <2>2. \A c \in checkpoints : Matches(c)' => Matches(c) /\ SameUpTo(c.ledger)
    BY <1>1, <1>10, <2>1, MarksAre DEF TableInv
  <2>3. ASSUME NEW c \in checkpoints, IsOldest(c) PROVE SameUpTo(c.ledger - 1)
    <3>1. PICK m \in Nat : m = c.ledger - 1
      BY <1>1, MarksAre
    <3> QED BY <1>1, <2>1, <2>3, <3>1 DEF TableInv
  <2>4. ASSUME AllMatch, NEW t \in Tips, tips[t].ledger # 0 PROVE SameUpTo(tips[t].ledger)
    <3>1. tips[t].ledger \in 1 .. n /\ tips[t].ledger \in Nat /\ tips[t].ledger <= n
      BY <1>1, <1>2, <2>4, ChainIs DEF TableInv, Right
    <3> QED BY <1>7, <3>1
  <2>5. AllMatch => SameUpTo(cursor)
    BY <1>1, <2>1, MarksAre DEF TableInv
  <2> QED BY <1>1, <1>3, <1>5, <1>11, <2>2, <2>3, <2>4, <2>5, TableSame
<1>14. LiveInv'
  <2> SUFFICES ASSUME live.pc # "idle" PROVE AllMatch' /\ TickFits(live)'
    BY <1>5 DEF LiveInv
  <2>1. AllMatch /\ TickFits(live) /\ live.ceiling \in Nat /\ live.ceiling <= n
    BY <1>1, <1>2 DEF LiveInv, LiveRecords, TickFits, TickBounds, LatestLedger
  <2>2. cursor \in Nat /\ SameUpTo(live.ceiling)
    BY <1>1, <1>7, <2>1, MarksAre
  <2>3. PICK v : v = live
    OBVIOUS
  <2>4. TickFits(v)'
    BY <1>1, <1>3, <1>5, <1>6, <2>1, <2>2, <2>3, TickSame
  <2> QED BY <1>5, <1>11, <2>1, <2>3, <2>4
<1>15. BackInv'
  <2>1. \A x \in backfill.page : x.ledger <= n
    BY <1>1, <1>2, ChainIs DEF BackInv, AreOnChain
  <2> QED BY <1>1, <1>3, <1>5, <2>1, BackSame
<1>16. HistInv'
  <2> SUFFICES ASSUME faults.reorgs = 0, faults.backfills = 0 PROVE HistInv'
    BY <1>5 DEF HistInv
  <2>1. peak = n /\ cursor \in Nat /\ cursor <= n /\ n \in Int
    BY <1>1, <1>2, Constants, MarksAre DEF ChainInv, MarkTypes
  <2>2. ASSUME NEW e0 \in Events, published[e0] = 1
        PROVE  \E l \in DOMAIN chain' : chain'[l].event = e0 /\ eventLog[e0][l] > 0
    <3>1. PICK l \in DOMAIN chain : chain[l].event = e0 /\ eventLog[e0][l] > 0
      BY <1>1, <2>2 DEF HistInv
    <3>2. l \in 1 .. n
      BY <1>1, <1>2, <3>1, ChainIs
    <3>3. l \in DOMAIN chain' /\ chain'[l] = chain[l]
      BY <1>1, <1>3, <3>2, OnChainSame
    <3> QED BY <3>1, <3>3
  <2>3. ASSUME passed = {}, live.pc = "idle" PROVE Told(cursor, LatestLedger - FinalityDepth)'
    <3>1. PICK b \in Int, b2 \in Int : b = n - FinalityDepth /\ b2 = n + 1 - FinalityDepth /\ b <= n /\ b <= b2
      BY Constants
    <3>2. Told(cursor, b)
      BY <1>1, <1>2, <2>3, <3>1 DEF HistInv, LatestLedger
    <3>3. PICK k \in Nat : k = cursor /\ k <= n
      BY <2>1
    <3>4. Told(k, b2)'
      <4>1. ChainTypes /\ ChainTypes' /\ SameUpTo(n) /\ UNCHANGED <<goal, credit>>
        BY <1>1, <1>3, <1>5
      <4>2. k <= n /\ b <= n /\ b <= b2 /\ Told(k, b)
        BY <3>1, <3>2, <3>3
      <4>3. k \in Nat /\ n \in Nat /\ b \in Int /\ b2 \in Int
        BY <3>1, <3>3
      <4> QED BY <4>1, <4>2, <4>3, ToldSame
    <3>5. cursor' = k /\ LatestLedger' - FinalityDepth = b2
      <4>1. cursor' = k
        BY <1>5, <3>3
      <4>2. LatestLedger' = n + 1
        BY <1>3 DEF LatestLedger
      <4> QED BY <3>1, <4>1, <4>2, Constants
    <3> QED BY <3>4, <3>5
  <2>4. ASSUME passed = {}, live.pc # "idle" PROVE Told(IF live.failed THEN cursor ELSE Reached(live), live.ceiling)'
    <3>1. live.ceiling \in Nat /\ live.ceiling <= n /\ Reached(live) \in Nat /\ Reached(live) <= n
      BY <1>1, <1>2, <2>4, Constants, MarksAre
         DEF LiveInv, LiveRecords, TickFits, TickBounds, LatestLedger, Reached, ResolveStartLedger
    <3>2. PICK k \in Nat, b \in Int : /\ k = (IF live.failed THEN cursor ELSE Reached(live)) /\ k <= n
                                      /\ b = live.ceiling /\ b <= n
      BY <2>1, <3>1
    <3>3. Told(k, b)
      BY <1>1, <2>4, <3>2 DEF HistInv
    <3>4. Told(k, b)'
      BY <1>1, <1>3, <1>5, <3>2, <3>3, ToldSame
    <3> QED BY <1>5, <3>2, <3>4 DEF Reached
  <2>5. \A x : IsLogged(x)' <=> IsLogged(x)
    BY <1>5 DEF IsLogged
  <2> QED BY <1>1, <1>5, <2>2, <2>3, <2>4, <2>5 DEF HistInv
<1> QED BY <1>8, <1>9, <1>12, <1>13, <1>14, <1>15, <1>16 DEF FInv

-----------------------------------------------------------------------------
(* The chain drops the ledgers above a fork.                                 *)

LEMMA ReorgIs ==
  ASSUME ChainTypes, faults \in Faults, scenario \in Scenarios, NEW fork \in 0 .. MaxLedger, Reorg(fork)
  PROVE  /\ UNCHANGED <<peak, db, live, backfill, ghosts>>
         /\ fork \in Nat /\ fork < Len(chain) /\ Len(chain') = fork /\ SameUpTo(fork) /\ ChainTypes'
         /\ faults' \in Faults /\ faults'.reorgs = faults.reorgs + 1
         /\ faults'.blind <=> faults.blind \/ ~Seen(fork)
<1>1. fork \in Nat /\ fork < Len(chain) /\ Len(chain) \in Nat /\ chain' = SubSeq(chain, 1, fork)
  BY ChainIs, Constants DEF Reorg, LatestLedger
<1>2. \A l \in 1 .. fork : chain[l] \in [branch : 0 .. MaxReorgs, event : Events \cup {NoEvent}]
  <2>1. \A l \in 1 .. fork : l \in 1 .. Len(chain)
    BY <1>1
  <2> QED BY <2>1, ChainIs
<1>3. /\ chain' \in Seq([branch : 0 .. MaxReorgs, event : Events \cup {NoEvent}])
      /\ Len(chain') = fork /\ \A l \in 1 .. fork : chain'[l] = chain[l]
  <2>1. PICK S : S = [branch : 0 .. MaxReorgs, event : Events \cup {NoEvent}]
    OBVIOUS
  <2>2. \A l \in 1 .. fork : chain[l] \in S
    BY <1>2, <2>1
  <2>3. /\ SubSeq(chain, 1, fork) \in Seq(S)
        /\ Len(SubSeq(chain, 1, fork)) = IF 1 <= fork THEN fork - 1 + 1 ELSE 0
        /\ \A i \in 1 .. fork - 1 + 1 : SubSeq(chain, 1, fork)[i] = chain[1 + i - 1]
    BY <1>1, <2>2, SubSeqProperties
  <2>4. Len(chain') = fork
    BY <1>1, <2>3
  <2>5. ASSUME NEW i \in 1 .. fork PROVE chain'[i] = chain[i]
    <3>1. i \in 1 .. fork - 1 + 1 /\ 1 + i - 1 = i
      BY <1>1, <2>5
    <3> QED BY <1>1, <2>3, <3>1
  <2> QED BY <1>1, <2>1, <2>3, <2>4, <2>5
<1>4. SameUpTo(fork)
  BY <1>1, <1>3 DEF SameUpTo
<1>5. peak' = peak /\ fork <= peak
  BY <1>1 DEF Reorg, ChainTypes
<1>6. ChainTypes'
  BY <1>3, <1>5 DEF ChainTypes
<1>7. faults' \in Faults /\ faults'.reorgs = faults.reorgs + 1 /\ (faults'.blind <=> faults.blind \/ ~Seen(fork))
  <2>1. PICK r \in 0 .. MaxReorgs : r = faults.reorgs + 1
    <3>1. scenario.reorgs \in 0 .. MaxReorgs
      BY ScenarioIs
    <3>2. faults.reorgs \in 0 .. MaxReorgs /\ faults.reorgs < scenario.reorgs /\ MaxReorgs \in Nat
      BY Constants DEF Reorg, Faults
    <3> QED BY <3>1, <3>2
  <2>2. PICK u \in BOOLEAN : u <=> faults.blind \/ ~Seen(fork)
    OBVIOUS
  <2>3. faults.blind \in BOOLEAN /\ faults' = [faults EXCEPT !.reorgs = faults.reorgs + 1, !.blind = faults.blind \/ ~Seen(fork)]
    BY DEF Reorg, Faults
  <2>4. faults' = [faults EXCEPT !.reorgs = r, !.blind = u]
    <3>1. u = (faults.blind \/ ~Seen(fork))
      BY Zenon, <2>2, <2>3
    <3> QED BY <2>1, <2>3, <3>1
  <2>5. faults' \in Faults /\ faults'.reorgs = r /\ faults'.blind = u
    BY <2>1, <2>2, <2>4 DEF Faults
  <2> QED BY <2>1, <2>2, <2>5
<1>8. UNCHANGED <<peak, db, live, backfill, ghosts>>
  BY DEF Reorg
<1> QED BY <1>1, <1>3, <1>4, <1>6, <1>7, <1>8

LEMMA ReorgChain ==
  ASSUME ChainTypes, faults \in Faults, scenario \in Scenarios, ChainInv, NEW fork \in 0 .. MaxLedger, Reorg(fork) PROVE ChainInv'
<1>1. /\ fork \in Nat /\ fork < Len(chain) /\ Len(chain') = fork /\ SameUpTo(fork) /\ ChainTypes'
      /\ faults'.reorgs = faults.reorgs + 1 /\ faults.reorgs \in Nat
  BY ReorgIs, Constants DEF Faults
<1>2. DOMAIN chain' = 1 .. fork
  BY <1>1, ChainIs DEF ChainTypes
<1>3. \A l \in 1 .. fork : l \in DOMAIN chain /\ chain'[l] = chain[l] /\ (l \in OnChain' <=> l \in OnChain)
  BY <1>1, OnChainSame
<1>4. \A l \in OnChain' : l \in 1 .. fork /\ l \in OnChain /\ chain'[l] = chain[l]
  BY <1>2, <1>3 DEF OnChain
<1>5. ASSUME NEW l \in DOMAIN chain' PROVE chain'[l].branch <= faults'.reorgs
  <2>1. chain'[l] = chain[l] /\ chain[l].branch <= faults.reorgs /\ chain[l].branch \in Nat
    BY <1>2, <1>3, <1>5, ChainIs DEF ChainInv
  <2> QED BY <1>1, <2>1
<1>6. \A k, l \in OnChain' : chain'[k].event = chain'[l].event => k = l
  BY <1>4 DEF ChainInv
<1>7. \A l \in OnChain' : l >= StartLedger
  BY <1>4 DEF ChainInv
<1>8. ASSUME NEW l \in OnChain', Topic[chain'[l].event] = "refund"
      PROVE  \E k \in 1 .. (l - 1) : chain'[k].event = RefundOf[chain'[l].event]
  <2>1. l \in 1 .. fork /\ l \in OnChain /\ chain'[l] = chain[l]
    BY <1>4
  <2>2. PICK k \in 1 .. (l - 1) : chain[k].event = RefundOf[chain[l].event]
    BY <1>8, <2>1 DEF ChainInv
  <2>3. k \in 1 .. fork
    BY <1>1, <2>1
  <2> QED BY <1>3, <2>1, <2>2, <2>3
<1>9. ASSUME NEW l \in OnChain', Topic[chain'[l].event] \in {"goal_reached", "goal_cancel"}
      PROVE  \E k \in 1 .. (l - 1) : SetBefore(k, l)'
  <2>1. l \in 1 .. fork /\ l \in OnChain /\ chain'[l] = chain[l]
    BY <1>4
  <2>2. PICK k \in 1 .. (l - 1) : SetBefore(k, l)
    BY <1>9, <2>1 DEF ChainInv
  <2>3. k \in 1 .. fork
    BY <1>1, <2>1
  <2> QED BY <1>3, <2>1, <2>2, <2>3 DEF SetBefore
<1>10. faults'.reorgs # 0
  BY <1>1
<1> QED BY <1>5, <1>6, <1>7, <1>8, <1>9, <1>10 DEF ChainInv

\* A fork that the detection sees: what was read above it goes with a checkpoint.
LEMMA ReorgInv == ASSUME FInv, NEW fork \in 0 .. MaxLedger, Reorg(fork), Seen(fork) PROVE FInv'
<1>1. /\ ChainTypes /\ MarkTypes /\ RowTypes /\ live \in LiveRecords /\ backfill \in BackfillRecords
      /\ faults \in Faults /\ passed \subseteq Ledgers /\ scenario \in Scenarios /\ ChainInv /\ CheckInv /\ TableInv /\ LiveInv /\ BackInv /\ HistInv
  BY DEF FInv, Types
<1>2. /\ UNCHANGED <<peak, db, live, backfill, ghosts>>
      /\ fork \in Nat /\ fork < Len(chain) /\ Len(chain') = fork /\ SameUpTo(fork) /\ ChainTypes'
      /\ faults' \in Faults /\ faults'.reorgs = faults.reorgs + 1 /\ Len(chain) \in Nat
  BY <1>1, ReorgIs, ChainIs
<1>3. /\ UNCHANGED <<cursor, checkpoints, eventLog, tips, goal, credit, sub, published>>
      /\ UNCHANGED <<peak, live, backfill, passed, scenario>>
  BY <1>2 DEF db, ghosts
<1>4. Final \in Int /\ Final' = Final /\ cursor \in Nat /\ faults.reorgs \in Nat
  BY <1>1, <1>3, FinalIs, MarksAre, Constants DEF Final, Faults
<1>5. \A m \in Nat : m <= fork => SameUpTo(m)
  BY <1>2 DEF SameUpTo
<1>6. /\ live.pc # "idle" => live.ceiling <= fork
      /\ \A x \in backfill.page : x.ledger <= fork
      /\ ReadAbove(fork) => \E c, d \in checkpoints : c.ledger <= fork + 1 /\ fork < d.ledger
  BY DEF Seen
<1>7. Types'
  <2>1. MarkTypes'
    BY <1>1, <1>3 DEF MarkTypes
  <2>2. RowTypes'
    BY <1>1, <1>3 DEF RowTypes
  <2> QED BY <1>1, <1>2, <1>3, <2>1, <2>2 DEF Types
<1>8. ChainInv'
  BY <1>1, ReorgChain
<1>9. ASSUME NEW c \in checkpoints PROVE Matches(c)' <=> Matches(c) /\ c.ledger <= fork
  <2>1. c.ledger \in Nat /\ c.ledger >= 1
    BY <1>1, MarksAre
  <2>2. CASE c.ledger <= fork
    <3>1. chain'[c.ledger] = chain[c.ledger]
      BY <1>2, <2>1, <2>2 DEF SameUpTo
    <3> QED BY <1>2, <2>1, <2>2, <3>1 DEF Matches, LatestLedger
  <2>3. CASE ~(c.ledger <= fork)
    BY <1>2, <2>3 DEF Matches, LatestLedger
  <2> QED BY <2>2, <2>3
<1>10. CheckInv'
  <2>1. \A c \in checkpoints : c.ledger \in Nat /\ c.hash \in Nat
    BY <1>1, MarksAre
  <2>2. ASSUME NEW c \in checkpoints
        PROVE  c.ledger <= cursor /\ c.hash <= faults'.reorgs /\ c.hash # faults'.reorgs
    <3>1. c.ledger <= cursor /\ c.hash <= faults.reorgs
      BY <1>1 DEF CheckInv
    <3> QED BY <1>2, <1>4, <2>1, <3>1
  <2>3. ASSUME NEW c \in checkpoints, NEW d \in checkpoints, c.ledger <= d.ledger, Matches(d)' PROVE Matches(c)'
    <3>1. Matches(d) /\ d.ledger <= fork
      BY <1>9, <2>3
    <3>2. Matches(c)
      BY <1>1, <2>3, <3>1 DEF CheckInv
    <3> QED BY <1>2, <1>9, <2>1, <2>3, <3>1, <3>2
  <2> QED BY <1>3, <1>4, <2>2, <2>3 DEF CheckInv
<1>11. ASSUME NEW c \in checkpoints, c.ledger > fork PROVE ReadAbove(fork)
  <2>1. c.ledger <= cursor /\ c.ledger \in Nat
    BY <1>1, MarksAre DEF CheckInv
  <2> QED BY <1>2, <1>4, <1>11, <2>1 DEF ReadAbove
<1>12. ASSUME NEW c \in checkpoints, IsOldest(c) PROVE c.ledger - 1 <= fork
  <2>1. c.ledger \in Nat
    BY <1>1, MarksAre
  <2>2. CASE c.ledger > fork
    <3>1. PICK b \in checkpoints : b.ledger <= fork + 1
      BY <1>6, <1>11, <2>2
    <3>2. c.ledger <= b.ledger /\ b.ledger \in Nat
      BY <1>1, <1>12, MarksAre DEF IsOldest
    <3> QED BY <1>2, <2>1, <3>1, <3>2
  <2>3. CASE ~(c.ledger > fork)
    BY <1>2, <2>1, <2>3
  <2> QED BY <2>2, <2>3
<1>13. ASSUME AllMatch'
       PROVE  AllMatch /\ cursor <= fork /\ \A t \in Tips : tips[t].ledger <= fork
  <2>1. \A c \in checkpoints : Matches(c) /\ c.ledger <= fork /\ c.ledger \in Nat
    BY <1>1, <1>3, <1>9, <1>13, MarksAre DEF AllMatch
  <2>2. \A t \in Tips : tips[t].ledger \in Nat
    BY <1>1, Constants DEF RowTypes, TipRows
  <2>3. ~ReadAbove(fork)
    BY <1>2, <1>6, <2>1
  <2> QED BY <1>2, <1>4, <2>1, <2>2, <2>3 DEF AllMatch, ReadAbove
<1>14. TableInv'
  <2>1. \A c \in checkpoints : Matches(c)' => Matches(c) /\ SameUpTo(c.ledger)
    BY <1>1, <1>5, <1>9, MarksAre
  <2>2. ASSUME NEW c \in checkpoints, IsOldest(c) PROVE SameUpTo(c.ledger - 1)
    <3>1. c.ledger - 1 \in Nat
      BY <1>1, MarksAre
    <3> QED BY <1>5, <1>12, <2>2, <3>1
  <2>3. \A t \in Tips : tips[t].ledger \in Nat
    BY <1>1, Constants DEF RowTypes, TipRows
  <2>4. AllMatch' => AllMatch /\ SameUpTo(cursor)
                     /\ \A t \in Tips : tips[t].ledger # 0 => SameUpTo(tips[t].ledger)
    BY <1>4, <1>5, <1>13, <2>3
  <2> QED BY <1>1, <1>2, <1>3, <2>1, <2>2, <2>4, TableSame
<1>15. LiveInv'
  <2> SUFFICES ASSUME live.pc # "idle" PROVE AllMatch' /\ TickFits(live)'
    BY <1>3 DEF LiveInv
  <2>1. AllMatch /\ TickFits(live) /\ live.ceiling \in Nat /\ live.ceiling <= fork
        /\ live.start = ResolveStartLedger /\ live.start <= live.ceiling /\ live.start \in Nat
    BY <1>1, <1>6 DEF LiveInv, LiveRecords, TickFits, TickBounds
  <2>2. cursor <= fork
    BY <1>2, <1>4, <2>1 DEF ResolveStartLedger
  <2>3. AllMatch'
    <3>1. \A c \in checkpoints : c.ledger <= cursor /\ c.ledger \in Nat
      BY <1>1, MarksAre DEF CheckInv
    <3>2. \A c \in checkpoints : c.ledger <= fork
      BY <1>2, <1>4, <2>2, <3>1
    <3> QED BY <1>3, <1>9, <2>1, <3>2 DEF AllMatch
  <2>4. PICK v \in LiveRecords : v = live
    BY <1>1
  <2>5. SameUpTo(v.ceiling)
    BY <1>5, <2>1, <2>4
  <2>6. Final' >= Final /\ Final' \in Int
    BY <1>4
  <2>7. TickFits(v)'
    BY <1>1, <1>2, <1>3, <1>4, <2>1, <2>4, <2>5, <2>6, TickSame
  <2> QED BY <1>3, <2>3, <2>4, <2>7
<1>16. BackInv'
  BY <1>1, <1>2, <1>3, <1>6, BackSame
<1>17. HistInv'
  BY <1>2, <1>4 DEF HistInv
<1> QED BY <1>7, <1>8, <1>10, <1>14, <1>15, <1>16, <1>17 DEF FInv

-----------------------------------------------------------------------------
(* The recovery from a reorganisation.                                       *)

\* The fork that the detection finds: the last checkpoint that agrees, or, without any, the
\* ledger below the oldest.
LEMMA DetectIs ==
  ASSUME ChainTypes, MarkTypes, DetectReorg.reorged
  PROVE  /\ \E c \in checkpoints : ~Matches(c)
         /\ \/ \E c \in checkpoints : Matches(c) /\ DetectReorg.fork = c.ledger /\ Agreed = c.ledger
            \/ /\ \A c \in checkpoints : ~Matches(c)
               /\ \E c \in checkpoints : IsOldest(c) /\ DetectReorg.fork = c.ledger - 1
<1> DEFINE known == {c \in checkpoints : c.ledger <= LatestLedger}
           wrong == {c \in known : ~Matches(c) /\ c.ledger > Agreed}
           oldest == Min({c.ledger : c \in checkpoints})
<1>1. DetectReorg = IF wrong = {} THEN [reorged |-> FALSE, fork |-> 0]
                    ELSE [reorged |-> TRUE, fork |-> IF Agreed > 0 THEN Agreed ELSE oldest - 1]
  BY DEF DetectReorg
<1>2. wrong # {} /\ DetectReorg.fork = IF Agreed > 0 THEN Agreed ELSE oldest - 1
  BY <1>1
<1>3. \E c \in checkpoints : ~Matches(c)
  BY <1>2
<1>4. Agreed \in Nat
  BY AgreedIs
<1>5. CASE Agreed # 0
  <2>1. PICK c \in checkpoints : Matches(c) /\ Agreed = c.ledger
    BY <1>5, AgreedIs
  <2> HIDE DEF oldest, wrong
  <2>2. DetectReorg.fork = Agreed
    BY <1>2, <1>4, <1>5
  <2> QED BY <1>3, <2>1, <2>2
<1>6. CASE Agreed = 0
  <2>1. \A c \in checkpoints : c.ledger \in Nat /\ c.ledger >= 1
    BY MarksAre
  <2>2. ASSUME NEW c \in checkpoints, Matches(c) PROVE FALSE
    <3>1. c.ledger <= Agreed
      BY <2>2, AgreedIs
    <3> QED BY <1>6, <2>1, <3>1
  <2>3. {c.ledger : c \in checkpoints} \in SUBSET Nat /\ {c.ledger : c \in checkpoints} # {}
    BY <1>3, <2>1
  <2>4. PICK c \in checkpoints : oldest = c.ledger /\ \A d \in checkpoints : c.ledger <= d.ledger
    <3> DEFINE S == {c.ledger : c \in checkpoints}
    <3>1. oldest = Min(S) /\ \A d \in checkpoints : d.ledger \in S
      OBVIOUS
    <3>2. Min(S) \in S /\ \A y \in S : Min(S) <= y
      <4> HIDE DEF S
      <4> QED BY <2>3, MinIs DEF S
    <3>3. PICK c \in checkpoints : Min(S) = c.ledger
      BY <3>2
    <3>4. \A d \in checkpoints : c.ledger <= d.ledger
      <4> HIDE DEF S
      <4> QED BY <3>1, <3>2, <3>3
    <3> QED BY <3>1, <3>3, <3>4
  <2> HIDE DEF oldest, wrong
  <2>5. DetectReorg.fork = c.ledger - 1
    BY <1>2, <1>6, <2>4
  <2> QED BY <1>3, <2>2, <2>4, <2>5 DEF IsOldest
<1> QED BY <1>4, <1>5, <1>6

\* The rows that a rollback keeps, and what they say of the ledgers up to the fork.
LEMMA RollbackSound ==
  ASSUME ChainTypes, RowTypes, NEW fork \in Nat, Sound(fork), UNCHANGED <<chain, goal>>,
         passed' = {l \in passed : l <= fork},
         tips' = [t \in Tips |-> IF tips[t].ledger > fork THEN [ledger |-> 0, refunded |-> FALSE]
                                 ELSE tips[t]]
  PROVE  /\ Sound(fork)'
         /\ \A t \in Tips : tips'[t].ledger # 0 => tips'[t] = tips[t] /\ tips[t].ledger \in 1 .. fork
<1>1. \A t \in Tips : tips[t].ledger \in Nat
  BY Constants DEF RowTypes, TipRows
<1>2. \A t \in Tips : tips[t].ledger <= fork => tips'[t] = tips[t]
  BY <1>1
<1>3. \A t \in Tips : tips'[t].ledger # 0 => tips'[t] = tips[t] /\ tips[t].ledger \in 1 .. fork
  <2>1. \A t \in Tips : tips[t].ledger > fork => tips'[t].ledger = 0
    OBVIOUS
  <2> QED BY <1>1, <1>2, <2>1
<1>4. OnChain' = OnChain /\ LatestLedger' = LatestLedger /\ Len(chain) \in Nat
  BY ChainIs DEF OnChain, LatestLedger
<1>5. ASSUME NEW l \in 1 .. fork PROVE Done(l)'
  <2> SUFFICES ASSUME l \in OnChain, l \notin passed' PROVE DoneEvent(chain[l].event, l)'
    BY <1>4 DEF Done
  <2>1. PICK e \in Events : e = chain[l].event
    BY ChainIs
  <2>2. DoneEvent(e, l) /\ l \notin passed
    BY <2>1 DEF Sound, Done
  <2>3. e \in Readable /\ Topic[e] = "tip" => tips'[e].ledger = l
    BY <1>2, <2>2, TopicsAre DEF DoneEvent
  <2>4. ASSUME e \in Readable, Topic[e] = "refund", Given(e, l)' PROVE tips'[RefundOf[e]].refunded
    <3>1. PICK k \in 1 .. (l - 1) : k \notin passed' /\ chain[k].event = RefundOf[e]
      BY <2>4 DEF Given
    <3>2. PICK t \in Tips : t = RefundOf[e] /\ t \in Events /\ Topic[t] = "tip" /\ t \in Readable
      BY <2>4, TopicsAre DEF Given
    <3>3. k \in 1 .. fork /\ k \in 1 .. Len(chain)
      BY ChainIs DEF OnChain
    <3>4. k \in OnChain /\ chain[k].event = t /\ k \notin passed
      BY <3>1, <3>2, <3>3, ChainIs
    <3>5. tips[t].ledger = k
      BY <3>2, <3>3, <3>4 DEF Sound, Done, DoneEvent
    <3>6. tips'[t] = tips[t]
      BY <1>2, <3>3, <3>5
    <3>7. Given(e, l)
      BY <3>1, <3>2, <3>4 DEF Given
    <3> QED BY <2>2, <2>4, <3>2, <3>6, <3>7 DEF DoneEvent
  <2>5. e \in Readable /\ Topic[e] = "goal_set" => goal' # "none"
    BY <2>2 DEF DoneEvent
  <2> QED BY <2>1, <2>3, <2>4, <2>5 DEF DoneEvent
<1>6. ASSUME NEW t \in Tips, tips'[t].ledger \in 1 .. fork PROVE Right(t)'
  <2>1. tips'[t] = tips[t] /\ tips[t].ledger \in 1 .. fork
    BY <1>3, <1>6
  <2> QED BY <2>1 DEF Sound, Right
<1>7. fork <= LatestLedger'
  BY <1>4 DEF Sound
<1> QED BY <1>3, <1>5, <1>6, <1>7 DEF Sound

LEMMA RecoverInv == ASSUME FInv, RecoverFromReorg PROVE FInv'
<1>1. /\ ChainTypes /\ MarkTypes /\ RowTypes /\ live \in LiveRecords /\ backfill \in BackfillRecords
      /\ faults \in Faults /\ passed \subseteq Ledgers /\ scenario \in Scenarios /\ ChainInv /\ CheckInv /\ TableInv /\ LiveInv /\ BackInv /\ HistInv
  BY DEF FInv, Types
<1>2. PICK fork : fork = DetectReorg.fork
  OBVIOUS
<1>3. /\ UNCHANGED <<chain, peak, live, backfill, scenario, faults, goal, credit, sub, published>>
      /\ live.pc = "idle"
      /\ tips' = [t \in Tips |-> IF tips[t].ledger > fork THEN [ledger |-> 0, refunded |-> FALSE]
                                 ELSE tips[t]]
      /\ eventLog' = [e \in Events |-> [l \in Ledgers |-> IF l > fork THEN 0 ELSE eventLog[e][l]]]
      /\ checkpoints' = {c \in checkpoints : c.ledger <= fork}
      /\ cursor' = fork /\ passed' = {l \in passed : l <= fork}
  BY <1>2 DEF RecoverFromReorg, RollbackToLedger
<1>4. \A c \in checkpoints : c.ledger \in Nat /\ c.hash \in Nat /\ c.ledger >= 1 /\ c.ledger <= cursor
  BY <1>1, MarksAre DEF CheckInv
<1>5. (\E c \in checkpoints : ~Matches(c))
      /\ \/ \E c \in checkpoints : Matches(c) /\ fork = c.ledger /\ Agreed = c.ledger
         \/ /\ \A c \in checkpoints : ~Matches(c)
            /\ \E c \in checkpoints : IsOldest(c) /\ fork = c.ledger - 1
  BY <1>1, <1>2, DetectIs DEF RecoverFromReorg
<1>6. /\ fork \in Nat /\ fork <= cursor /\ Sound(fork)
      /\ \A c \in checkpoints : c.ledger <= fork => Matches(c)
  <2>1. ASSUME NEW c \in checkpoints, Matches(c), fork = c.ledger, Agreed = c.ledger
        PROVE  fork \in Nat /\ fork <= cursor /\ Sound(fork)
               /\ \A d \in checkpoints : d.ledger <= fork => Matches(d)
    <3>1. Sound(fork)
      BY <1>1, <2>1 DEF TableInv
    <3>2. \A d \in checkpoints : d.ledger <= fork => Matches(d)
      BY <1>1, <2>1 DEF CheckInv
    <3> QED BY <1>4, <2>1, <3>1, <3>2
  <2>2. ASSUME NEW c \in checkpoints, IsOldest(c), fork = c.ledger - 1
        PROVE  fork \in Nat /\ fork <= cursor /\ Sound(fork)
               /\ \A d \in checkpoints : d.ledger <= fork => Matches(d)
    <3>1. Sound(fork)
      BY <1>1, <2>2 DEF TableInv
    <3>2. cursor \in Nat
      BY <1>1, MarksAre
    <3>3. fork \in Nat /\ fork <= cursor
      BY <1>4, <2>2, <3>2
    <3>4. ASSUME NEW d \in checkpoints PROVE ~(d.ledger <= fork)
      <4>1. c.ledger <= d.ledger
        BY <2>2 DEF IsOldest
      <4> QED BY <1>4, <2>2, <4>1
    <3> QED BY <3>1, <3>3, <3>4
  <2> QED BY <1>5, <2>1, <2>2
<1>7. /\ Sound(fork)'
      /\ \A t \in Tips : tips'[t].ledger # 0 => tips'[t] = tips[t] /\ tips[t].ledger \in 1 .. fork
  BY <1>1, <1>3, <1>6, RollbackSound
<1>8. ChainTypes' /\ OnChain' = OnChain /\ LatestLedger' = LatestLedger /\ Len(chain') \in Nat
  BY <1>1, <1>3, ChainIs DEF ChainTypes, OnChain, LatestLedger
<1>9. \A c \in checkpoints' : c \in checkpoints /\ c.ledger <= fork /\ Matches(c) /\ Matches(c)'
  BY <1>3, <1>6 DEF Matches, LatestLedger
<1>10. Types'
  <2>1. MarkTypes'
    <3>1. checkpoints' \subseteq checkpoints
      BY <1>9
    <3>2. checkpoints' \subseteq [ledger : Ledgers, hash : 0 .. MaxReorgs]
      BY <1>1, <3>1 DEF MarkTypes
    <3>3. IsFiniteSet(checkpoints) /\ Cardinality(checkpoints) <= Lookback /\ Cardinality(checkpoints) \in Nat
      BY <1>1, FS_CardinalityType DEF MarkTypes
    <3>4. IsFiniteSet(checkpoints') /\ Cardinality(checkpoints') <= Cardinality(checkpoints)
      BY <3>1, <3>3, FS_Subset
    <3>5. Cardinality(checkpoints') \in Nat
      BY <3>4, FS_CardinalityType
    <3>6. Cardinality(checkpoints') <= Lookback
      BY <3>3, <3>4, <3>5, Constants
    <3>7. cursor' \in 0 .. peak'
      <4>1. cursor \in 0 .. peak /\ peak \in Nat /\ peak' = peak
        BY <1>1, <1>3 DEF ChainTypes, MarkTypes
      <4> QED BY <1>3, <1>6, <4>1
    <3>8. \A c \in checkpoints' : c.ledger <= peak'
      BY <1>1, <1>3, <3>1 DEF MarkTypes
    <3> QED BY <3>2, <3>4, <3>6, <3>7, <3>8 DEF MarkTypes
  <2>2. RowTypes'
    <3>1. tips' \in [Tips -> TipRows]
      <4>1. [ledger |-> 0, refunded |-> FALSE] \in TipRows
        BY Constants DEF TipRows
      <4>2. tips \in [Tips -> TipRows]
        BY <1>1 DEF RowTypes
      <4> QED BY <1>3, <4>1, <4>2
    <3>2. eventLog' \in [Events -> [Ledgers -> Nat]]
      <4>1. eventLog \in [Events -> [Ledgers -> Nat]]
        BY <1>1 DEF RowTypes
      <4> QED BY <1>3, <4>1
    <3> QED BY <1>1, <1>3, <3>1, <3>2 DEF RowTypes
  <2>3. passed' \subseteq Ledgers
    BY <1>1, <1>3
  <2> QED BY <1>1, <1>3, <1>8, <2>1, <2>2, <2>3 DEF Types
<1>11. ChainInv'
  BY <1>1, <1>3, <1>8 DEF ChainInv, SetBefore
<1>12. CheckInv'
  BY <1>1, <1>3, <1>6, <1>8, <1>9 DEF CheckInv
<1>13. TableInv'
  <2>1. RowsFit'
    <3>1. ASSUME NEW t \in Tips PROVE tips'[t].ledger = 0 => ~tips'[t].refunded
      <4>1. tips'[t] = [ledger |-> 0, refunded |-> FALSE] \/ tips'[t] = tips[t]
        BY <1>3
      <4> QED BY <1>1, <4>1 DEF TableInv, RowsFit
    <3> QED BY <1>8, <3>1 DEF RowsFit
  <2>2. ASSUME NEW m \in Nat, m <= fork PROVE Sound(m)'
    <3>1. \A l \in 1 .. m : l \in 1 .. fork
      BY <1>6, <2>2
    <3>2. m <= LatestLedger'
      BY <1>6, <1>7, <1>8, <2>2 DEF Sound, LatestLedger
    <3> QED BY <1>7, <3>1, <3>2 DEF Sound
  <2>3. \A c \in checkpoints' : c.ledger \in Nat /\ c.ledger - 1 \in Nat /\ c.ledger <= fork /\ c.ledger - 1 <= fork
    BY <1>4, <1>6, <1>9
  <2>4. \A c \in checkpoints' : Sound(c.ledger)' /\ Sound(c.ledger - 1)'
    BY <2>2, <2>3
  <2>5. Sound(cursor)'
    BY <1>3, <1>7
  <2>6. ASSUME NEW t \in Tips, tips'[t].ledger # 0 PROVE Right(t)'
    BY <1>7, <2>6 DEF Sound
  <2> QED BY <2>1, <2>4, <2>5, <2>6 DEF TableInv
<1>14. LiveInv'
  BY <1>3 DEF LiveInv
<1>15. BackInv'
  BY <1>1, <1>3, <1>8 DEF BackInv, AreOnChain
<1>16. HistInv'
  <2>1. PICK c \in checkpoints : ~Matches(c)
    BY <1>5
  <2>2. c.hash <= faults.reorgs /\ c.hash # faults.reorgs /\ c.hash \in Nat
    BY <1>1, <1>4, <2>1 DEF CheckInv
  <2>3. faults.reorgs # 0
    BY <2>2
  <2> QED BY <1>3, <2>3 DEF HistInv
<1> QED BY <1>10, <1>11, <1>12, <1>13, <1>14, <1>15, <1>16 DEF FInv

-----------------------------------------------------------------------------
(* What the goal and the score say, further on and further back.             *)

LEMMA LastSkip ==
  ASSUME ChainTypes, NEW n \in Nat, NEW m \in Nat, n <= m, NEW topics, ~Coming(topics, n, m)
  PROVE  LastOf(topics, m) = LastOf(topics, n)
<1> DEFINE at(k) == {l \in OnChain : l <= k /\ chain[l].event \in Readable /\ Topic[chain[l].event] \in topics}
<1>1. \A l \in OnChain : l \in Nat
  BY ChainIs
<1>2. ASSUME NEW l \in OnChain, chain[l].event \in Readable, Topic[chain[l].event] \in topics
      PROVE  l <= m <=> l <= n
  BY <1>1, <1>2 DEF Coming, Bears
<1>3. at(m) = at(n)
  BY <1>2
<1> HIDE DEF at
<1>4. \A k : LastOf(topics, k) = IF at(k) = {} THEN NoEvent ELSE chain[Max(at(k))].event
  BY DEF LastOf, at
<1> QED BY <1>3, <1>4

LEMMA ToldBack ==
  ASSUME ChainTypes, NEW n \in Nat, NEW m \in Nat, n <= m, NEW b \in Int, NEW b2 \in Int, b <= b2, m <= b2,
         Told(m, b)
  PROVE  Told(n, b2)
<1>1. \A l \in OnChain : l \in Nat
  BY ChainIs
<1>2. ASSUME NEW topics, Coming(topics, m, b) PROVE Coming(topics, n, b2)
  BY <1>1, <1>2 DEF Coming
<1>3. ASSUME NEW topics, ~Coming(topics, n, b2) PROVE LastOf(topics, m) = LastOf(topics, n)
  <2>1. ~Coming(topics, n, m)
    BY <1>1, <1>3 DEF Coming
  <2> QED BY <2>1, LastSkip
<1>4. ~Coming(GoalTopics, n, b2) => GoalOnChain(m) = GoalOnChain(n)
  BY <1>3 DEF GoalOnChain
<1> QED BY <1>2, <1>3, <1>4 DEF Told

LEMMA ToldForward ==
  ASSUME ChainTypes, NEW n \in Nat, NEW m \in Nat, n <= m, NEW b,
         \A l \in OnChain : ~(n < l /\ l <= m), Told(n, b)
  PROVE  Told(m, b)
<1>1. \A l \in OnChain : l \in Nat
  BY ChainIs
<1>2. ASSUME NEW topics, Coming(topics, n, b) PROVE Coming(topics, m, b)
  <2>1. PICK l \in OnChain : n < l /\ l <= b /\ Bears(l, topics)
    BY <1>2 DEF Coming
  <2>2. m < l
    BY <1>1, <2>1
  <2> QED BY <2>1, <2>2 DEF Coming
<1>3. \A topics : LastOf(topics, m) = LastOf(topics, n)
  <2> SUFFICES ASSUME NEW topics PROVE LastOf(topics, m) = LastOf(topics, n)
    OBVIOUS
  <2>1. ~Coming(topics, n, m)
    BY DEF Coming
  <2> QED BY <2>1, LastSkip
<1>4. GoalOnChain(m) = GoalOnChain(n)
  BY <1>3 DEF GoalOnChain
<1> QED BY <1>2, <1>3, <1>4 DEF Told

-----------------------------------------------------------------------------
(* Steps of the poll loop that write nothing.                                *)

TicksTold(v) ==
  /\ v.pc = "project" /\ v.isNew => ~IsLogged(Earliest(v.page))
  /\ passed = {} /\ v.pc = "idle" => Told(cursor, LatestLedger - FinalityDepth)
  /\ passed = {} /\ v.pc # "idle" => Told(IF v.failed THEN cursor ELSE Reached(v), v.ceiling)

\* Without a fork, what is final is what lies deep enough below the head.
LEMMA NoForkYet ==
  ASSUME ChainTypes, ChainInv, faults.reorgs = 0
  PROVE  Final = LatestLedger - FinalityDepth /\ Final \in Int
<1>1. peak = Len(chain) /\ Final \in Int
  BY FinalIs DEF ChainInv
<1> QED BY <1>1 DEF Final, LatestLedger

LEMMA Still ==
  ASSUME UNCHANGED <<chain, peak, cursor, checkpoints, eventLog, tips, goal, credit, passed>>
  PROVE  /\ OnChain' = OnChain /\ LatestLedger' = LatestLedger /\ Final' = Final
         /\ \A n : Sound(n)' <=> Sound(n)
         /\ \A n, b : Told(n, b)' <=> Told(n, b)
         /\ \A v : TickFits(v)' <=> TickFits(v)
         /\ \A v : Reached(v)' = Reached(v)
         /\ AllMatch' <=> AllMatch
         /\ \A x : IsLogged(x)' <=> IsLogged(x)
         /\ ChainTypes' <=> ChainTypes
         /\ MarkTypes' <=> MarkTypes
<1>1. OnChain' = OnChain /\ LatestLedger' = LatestLedger /\ Final' = Final /\ \A v : Reached(v)' = Reached(v)
  BY DEF OnChain, LatestLedger, Final, Reached
<1>2. \A l : Done(l)' <=> Done(l)
  BY <1>1 DEF Done, DoneEvent, Given
<1>3. \A n : Sound(n)' <=> Sound(n)
  BY <1>1, <1>2 DEF Sound, Right
<1>4. \A topics, n : LastOf(topics, n)' = LastOf(topics, n)
  BY <1>1 DEF LastOf
<1>5. \A n, b : Told(n, b)' <=> Told(n, b)
  BY <1>1, <1>4 DEF Told, Coming, Bears, GoalOnChain
<1>6. \A v : TickFits(v)' <=> TickFits(v)
  <2>1. \A v : TickBounds(v)' <=> TickBounds(v)
    BY <1>1 DEF TickBounds, ResolveStartLedger
  <2>2. \A v : PageFits(v)' <=> PageFits(v)
    BY <1>1 DEF PageFits, AreOnChain
  <2>4. \A v, m : LastOfPage(v, m)' <=> LastOfPage(v, m)
    BY <1>1 DEF LastOfPage
  <2>5. \A v : Progress(v)' <=> Progress(v)
    BY <1>1, <1>2, <2>4 DEF Progress, NoneLeft
  <2> QED BY <2>1, <2>2, <2>5 DEF TickFits
<1>7. AllMatch' <=> AllMatch
  BY <1>1 DEF AllMatch, Matches
<1>8. \A x : IsLogged(x)' <=> IsLogged(x)
  BY DEF IsLogged
<1>9. (ChainTypes' <=> ChainTypes) /\ (MarkTypes' <=> MarkTypes)
  BY DEF ChainTypes, MarkTypes
<1> QED BY <1>1, <1>3, <1>5, <1>6, <1>7, <1>8, <1>9

SameLimits == /\ faults' \in Faults /\ faults'.reorgs = faults.reorgs /\ faults'.backfills = faults.backfills
              /\ faults'.blind = faults.blind

LEMMA FailureCounted ==
  ASSUME faults \in Faults, NEW outcome, CountFailure(outcome) PROVE SameLimits
<1>1. CASE outcome = "ok"
  BY <1>1 DEF CountFailure, SameLimits
<1>2. CASE outcome # "ok"
  <2>1. PICK k \in Nat : k = faults.failures + 1
    BY DEF Faults
  <2>2. faults' = [faults EXCEPT !.failures = k]
    BY <1>2, <2>1 DEF CountFailure, Faults
  <2> QED BY <2>1, <2>2 DEF Faults, SameLimits
<1> QED BY <1>1, <1>2

LEMMA LiveStep ==
  ASSUME FInv, UNCHANGED <<chain, peak, db, backfill, ghosts>>, SameLimits,
         NEW w \in LiveRecords, live' = w, w.pc # "idle" => AllMatch /\ TickFits(w),
         faults.reorgs = 0 /\ faults.backfills = 0 => TicksTold(w)
  PROVE  FInv'
<1>1. /\ ChainTypes /\ MarkTypes /\ RowTypes /\ live \in LiveRecords /\ backfill \in BackfillRecords
      /\ faults \in Faults /\ passed \subseteq Ledgers /\ scenario \in Scenarios /\ ChainInv /\ CheckInv /\ TableInv /\ LiveInv /\ BackInv /\ HistInv
  BY DEF FInv, Types
<1>2. /\ UNCHANGED <<chain, peak, backfill, passed, scenario>>
      /\ UNCHANGED <<cursor, checkpoints, eventLog, tips, goal, credit, sub, published>>
  BY DEF db, ghosts
<1>3. /\ OnChain' = OnChain /\ LatestLedger' = LatestLedger /\ Final' = Final
      /\ \A n : Sound(n)' <=> Sound(n)
      /\ \A n, b : Told(n, b)' <=> Told(n, b)
      /\ TickFits(w)' <=> TickFits(w)
      /\ Reached(w)' = Reached(w)
      /\ AllMatch' <=> AllMatch
      /\ \A x : IsLogged(x)' <=> IsLogged(x)
      /\ ChainTypes' <=> ChainTypes
      /\ MarkTypes' <=> MarkTypes
  BY <1>2, Still
<1>4. Types'
  <2>1. RowTypes'
    BY <1>1, <1>2 DEF RowTypes
  <2> QED BY <1>1, <1>2, <1>3, <2>1 DEF Types, SameLimits
<1>5. ChainInv'
  BY <1>1, <1>2, <1>3 DEF ChainInv, SetBefore, SameLimits
<1>6. CheckInv'
  BY <1>1, <1>2, <1>3 DEF CheckInv, SameLimits, Matches
<1>7. TableInv'
  BY <1>1, <1>2, <1>3 DEF TableInv, RowsFit, Matches, IsOldest, Right
<1>8. LiveInv'
  BY <1>3 DEF LiveInv
<1>9. BackInv'
  BY <1>1, <1>2, <1>3 DEF BackInv, AreOnChain
<1>10. HistInv'
  <2> SUFFICES ASSUME faults.reorgs = 0, faults.backfills = 0 PROVE HistInv'
    BY DEF HistInv, SameLimits
  <2>1. TicksTold(w)
    OBVIOUS
  <2>2. w.pc = "project" /\ w.isNew => ~IsLogged(Earliest(w.page))'
    BY <1>3, <2>1 DEF TicksTold
  <2>3. passed = {} /\ w.pc = "idle" => Told(cursor, LatestLedger - FinalityDepth)'
    BY <1>2, <1>3, <2>1 DEF TicksTold
  <2>4. passed = {} /\ w.pc # "idle" => Told(IF w.failed THEN cursor ELSE Reached(w), w.ceiling)'
    BY <1>2, <1>3, <2>1 DEF TicksTold
  <2> QED BY <1>1, <1>2, <2>2, <2>3, <2>4 DEF HistInv
<1> QED BY <1>4, <1>5, <1>6, <1>7, <1>8, <1>9, <1>10 DEF FInv

LEMMA TickNumbers ==
  ASSUME cursor \in Nat, NEW v \in LiveRecords, TickBounds(v)
  PROVE  /\ v.start \in Nat /\ v.start >= 1 /\ v.ceiling \in Nat /\ v.ceiling >= 1
         /\ v.start = IF cursor > 0 THEN cursor + 1 ELSE StartLedger
         /\ Reached(v) \in Nat /\ cursor <= Reached(v) /\ Reached(v) <= v.ceiling /\ Reached(v) + 1 >= v.start
         /\ v.token \in Nat /\ v.pages \in Nat /\ v.seen \in Nat /\ v.page \in SUBSET PageEntries
<1>1. v.start \in Nat /\ v.ceiling \in Nat /\ v.token \in Nat /\ v.pages \in Nat /\ v.seen \in Nat
      /\ v.page \in SUBSET PageEntries
  BY DEF LiveRecords
<1>2. v.start = IF cursor > 0 THEN cursor + 1 ELSE StartLedger
  BY DEF TickBounds, ResolveStartLedger
<1>3. StartLedger \in Nat /\ StartLedger >= 1
  BY Constants
<1>4. v.start >= 1 /\ cursor + 1 <= v.start /\ v.start <= v.ceiling
  <2>1. v.start <= v.ceiling
    BY DEF TickBounds
  <2> QED BY <1>1, <1>2, <1>3, <2>1
<1>5. v.token = 0 \/ (v.start <= v.token /\ v.token <= v.ceiling)
  BY <1>1 DEF TickBounds
<1>6. Reached(v) = IF v.token > 0 THEN v.token ELSE v.start - 1
  BY DEF Reached
<1>7. Reached(v) \in Nat /\ cursor <= Reached(v) /\ Reached(v) <= v.ceiling /\ Reached(v) + 1 >= v.start
  BY <1>1, <1>4, <1>5, <1>6
<1> QED BY <1>1, <1>2, <1>4, <1>7

LEMMA IdleTold ==
  ASSUME ChainTypes, ChainInv, faults.reorgs = 0, cursor \in Nat, NEW v \in LiveRecords, TickBounds(v),
         Told(IF v.failed THEN cursor ELSE Reached(v), v.ceiling)
  PROVE  Told(cursor, LatestLedger - FinalityDepth)
<1>1. PICK b2 \in Int : b2 = LatestLedger - FinalityDepth /\ b2 = Final
  BY NoForkYet
<1>2. PICK m : m = (IF v.failed THEN cursor ELSE Reached(v))
  OBVIOUS
<1>3. m \in Nat /\ cursor <= m /\ m <= v.ceiling /\ v.ceiling \in Int /\ v.ceiling \in Nat
  BY <1>2, TickNumbers
<1>4. v.ceiling <= b2
  BY <1>1 DEF TickBounds
<1>5. m <= b2
  BY <1>1, <1>3, <1>4
<1>6. Told(m, v.ceiling)
  BY <1>2
<1>7. Told(cursor, b2)
  BY <1>1, <1>3, <1>4, <1>5, <1>6, ToldBack
<1> QED BY <1>1, <1>7

LEMMA BeginInv == ASSUME FInv, BeginTick PROVE FInv'
<1>1. /\ ChainTypes /\ MarkTypes /\ RowTypes /\ live \in LiveRecords /\ backfill \in BackfillRecords
      /\ faults \in Faults /\ ChainInv /\ CheckInv /\ TableInv /\ LiveInv /\ BackInv /\ HistInv
  BY DEF FInv, Types
<1>2. PICK start : start = ResolveStartLedger
  OBVIOUS
<1>3. PICK ceiling : ceiling = LatestLedger - FinalityDepth
  OBVIOUS
<1>4. /\ live.pc = "idle" /\ ~DetectReorg.reorged /\ ceiling >= start
      /\ UNCHANGED <<chain, peak, db, backfill, ghosts, faults>>
      /\ live' = [Idle EXCEPT !.pc = "page", !.start = start, !.ceiling = ceiling, !.seen = start - 1]
  <2>1. /\ live.pc = "idle" /\ ~DetectReorg.reorged
        /\ LatestLedger - FinalityDepth >= ResolveStartLedger
        /\ UNCHANGED <<chain, peak, db, backfill, ghosts, faults>>
        /\ live' = [Idle EXCEPT !.pc = "page", !.start = ResolveStartLedger,
                                !.ceiling = LatestLedger - FinalityDepth,
                                !.seen = ResolveStartLedger - 1]
    BY Zenon DEF BeginTick
  <2> QED BY <1>2, <1>3, <2>1
<1>5. PICK n \in Nat : n = Len(chain) /\ n = LatestLedger
  <2>1. Len(chain) \in Nat /\ LatestLedger = Len(chain)
    BY <1>1, ChainIs, Zenon DEF LatestLedger
  <2> QED BY <2>1
<1>6. cursor \in Nat /\ peak \in Nat /\ n <= peak
  BY <1>1, <1>5, MarksAre, ChainIs
<1>7. start \in Nat /\ start >= 1 /\ start = (IF cursor > 0 THEN cursor + 1 ELSE StartLedger)
  BY <1>2, <1>6, Constants DEF ResolveStartLedger
<1>8. ceiling \in Nat /\ start <= ceiling /\ ceiling <= n /\ ceiling <= Final
  <2>1. FinalityDepth \in Nat
    BY Constants
  <2>2. ceiling = n - FinalityDepth /\ Final = peak - FinalityDepth
    BY <1>3, <1>5 DEF Final
  <2> QED BY <1>4, <1>6, <1>7, <2>1, <2>2
<1>9. PICK w \in LiveRecords :
        /\ live' = w /\ w.pc = "page" /\ w.start = start /\ w.ceiling = ceiling /\ w.token = 0 /\ w.page = {}
        /\ w.pages = 0 /\ w.seen = start - 1 /\ w.failed = FALSE
  <2>1. live' = [pc |-> "page", start |-> start, ceiling |-> ceiling, token |-> 0, page |-> {},
                 isNew |-> FALSE, pages |-> 0, processed |-> FALSE, failed |-> FALSE, seen |-> start - 1]
    BY <1>4 DEF Idle
  <2>2. live' \in LiveRecords
    BY <1>7, <1>8, <2>1 DEF LiveRecords, LocalState
  <2> QED BY <2>1, <2>2
<1>10. AllMatch
  <2> SUFFICES ASSUME NEW c \in checkpoints, ~Matches(c) PROVE FALSE
    BY DEF AllMatch
  <2>1. c.ledger \in Nat /\ c.ledger >= 1 /\ c.ledger <= cursor
    BY <1>1, MarksAre DEF CheckInv
  <2>2. c.ledger <= LatestLedger
    BY <1>5, <1>6, <1>7, <1>8, <2>1
  <2>3. Agreed \in Nat /\ ~(c.ledger > Agreed)
    <3>1. ~(c.ledger > Agreed)
      BY <1>4, <2>2 DEF DetectReorg
    <3> QED BY <1>1, <3>1, AgreedIs
  <2>4. PICK d \in checkpoints : Matches(d) /\ Agreed = d.ledger
    BY <1>1, <2>1, <2>3, AgreedIs
  <2>5. c.ledger <= d.ledger
    BY <2>1, <2>3, <2>4
  <2> QED BY <1>1, <2>4, <2>5 DEF CheckInv
<1>11. Reached(w) = start - 1
  BY <1>9 DEF Reached
<1>12. TickBounds(w)
  <2>1. start - 1 \in (start - 1) .. ceiling
    BY <1>7, <1>8
  <2> QED BY <1>2, <1>5, <1>8, <1>9, <2>1 DEF TickBounds
<1>13. PageFits(w)
  BY <1>9 DEF PageFits, AreOnChain
<1>14. Progress(w)
  <2>1. \A l \in start .. (start - 1) : FALSE
    BY <1>7
  <2> QED BY <1>9, <1>11, <2>1 DEF Progress
<1>15. ASSUME faults.reorgs = 0, faults.backfills = 0 PROVE TicksTold(w)
  <2> SUFFICES ASSUME passed = {} PROVE Told(Reached(w), w.ceiling)
    BY <1>9 DEF TicksTold
  <2>1. Told(cursor, ceiling)
    BY <1>1, <1>3, <1>4, <1>15 DEF HistInv
  <2>2. PICK m \in Nat : m = start - 1
    BY <1>7
  <2>3. \A l \in OnChain : ~(cursor < l /\ l <= m)
    <3> SUFFICES ASSUME NEW l \in OnChain, cursor < l, l <= m PROVE FALSE
      OBVIOUS
    <3>1. l \in Nat /\ l >= StartLedger /\ StartLedger \in Nat
      BY <1>1, ChainIs, Constants DEF ChainInv
    <3> QED BY <1>6, <1>7, <2>2, <3>1
  <2>4. cursor <= m
    BY <1>6, <1>7, <2>2, Constants
  <2>5. Told(m, ceiling)
    BY <1>1, <1>6, <2>1, <2>3, <2>4, ToldForward
  <2> QED BY <1>9, <1>11, <2>2, <2>5
<1>16. SameLimits
  BY <1>1, <1>4 DEF SameLimits
<1>17. UNCHANGED <<chain, peak, db, backfill, ghosts>>
  BY <1>1, <1>4
<1> QED BY <1>9, <1>10, <1>12, <1>13, <1>14, <1>15, <1>16, <1>17, LiveStep DEF TickFits

-----------------------------------------------------------------------------
(* A page of events.                                                         *)

LEMMA IdleIs == Idle \in LiveRecords /\ Idle.pc = "idle"
BY DEF Idle, LiveRecords, LocalState

LEMMA ReadFailsInv == ASSUME FInv, ReadFails PROVE FInv'
<1>1. /\ ChainTypes /\ MarkTypes /\ live \in LiveRecords /\ faults \in Faults /\ ChainInv /\ LiveInv /\ HistInv
  BY DEF FInv, Types
<1>2. SameLimits /\ UNCHANGED <<chain, peak, db, backfill, ghosts>> /\ live' = Idle
  BY <1>1, FailureCounted DEF ReadFails
<1>3. PICK w \in LiveRecords : w = Idle /\ w.pc = "idle"
  BY IdleIs
<1>4. ASSUME faults.reorgs = 0, faults.backfills = 0 PROVE TicksTold(w)
  <2> SUFFICES ASSUME passed = {} PROVE Told(cursor, LatestLedger - FinalityDepth)
    BY <1>3 DEF TicksTold
  <2>1. live.pc # "idle" /\ TickBounds(live) /\ cursor \in Nat
    BY <1>1, MarksAre DEF ReadFails, LiveInv, TickFits
  <2>2. Told(IF live.failed THEN cursor ELSE Reached(live), live.ceiling)
    BY <1>1, <1>4, <2>1 DEF HistInv
  <2> QED BY <1>1, <1>4, <2>1, <2>2, IdleTold
<1> QED BY <1>2, <1>3, <1>4, LiveStep

LEMMA LookUpInv == ASSUME FInv, LookUp PROVE FInv'
<1>1. /\ live \in LiveRecords /\ LiveInv /\ HistInv /\ faults \in Faults
  BY DEF FInv, Types
<1>2. /\ UNCHANGED <<chain, peak, db, backfill, ghosts, faults>> /\ live.pc = "event"
      /\ live' = [live EXCEPT !.pc = "project", !.isNew = ~IsLogged(Earliest(live.page))]
  BY DEF LookUp
<1>3. PICK new \in BOOLEAN : new = ~IsLogged(Earliest(live.page))
  BY DEF IsLogged
<1>4. PICK w \in LiveRecords : /\ live' = w /\ w.pc = "project" /\ w.isNew = new /\ w.start = live.start
                               /\ w.ceiling = live.ceiling /\ w.token = live.token /\ w.page = live.page
                               /\ w.pages = live.pages /\ w.failed = live.failed /\ w.seen = live.seen
  <2>1. live' = [live EXCEPT !.pc = "project", !.isNew = new]
    BY <1>2, <1>3
  <2>2. live' \in LiveRecords
    BY <1>1, <2>1 DEF LiveRecords, LocalState
  <2> QED BY <1>1, <2>1, <2>2 DEF LiveRecords
<1>5. AllMatch /\ TickFits(live) /\ Reached(w) = Reached(live)
  BY <1>1, <1>2, <1>4 DEF LiveInv, Reached
<1>6. TickFits(w)
  <2>1. TickBounds(w)
    BY <1>4, <1>5 DEF TickFits, TickBounds
  <2>2. PageFits(w)
    BY <1>2, <1>4, <1>5 DEF TickFits, PageFits
  <2>3. \A m : LastOfPage(live, m) => LastOfPage(w, m)
    BY <1>4, <1>5 DEF LastOfPage
  <2>4. Progress(live) => Progress(w)
    BY <1>2, <1>4, <1>5, <2>3 DEF Progress
  <2> QED BY <1>4, <1>5, <2>1, <2>2, <2>4 DEF TickFits
<1>7. ASSUME faults.reorgs = 0, faults.backfills = 0 PROVE TicksTold(w)
  <2>1. passed = {} => Told(IF live.failed THEN cursor ELSE Reached(live), live.ceiling)
    BY <1>1, <1>2, <1>7 DEF HistInv
  <2> QED BY <1>3, <1>4, <1>5, <2>1 DEF TicksTold
<1>8. SameLimits /\ UNCHANGED <<chain, peak, db, backfill, ghosts>>
  BY <1>1, <1>2 DEF SameLimits
<1> QED BY <1>4, <1>5, <1>6, <1>7, <1>8, LiveStep

UpTo(S, l) == {k \in S : k <= l}
LedgersFrom(S, first, n) == S \in SUBSET (0 .. n) /\ \A l \in S : first <= l
Taken(S) == {l \in S : Cardinality(UpTo(S, l)) <= scenario.pageSize}

\* The first members of a set of ledgers, a page of them: whatever lies before a member
\* taken is taken, and one is when there are any.
LEMMA TakenIs ==
  ASSUME scenario \in Scenarios, NEW n \in Nat, NEW S, NEW first \in Nat, LedgersFrom(S, first, n),
         NEW T, T = Taken(S)
  PROVE  /\ \A l \in T, k \in S : k <= l => k \in T
         /\ S # {} => T # {}
<1>0. S \in SUBSET (0 .. n) /\ \A l \in S : first <= l
  BY DEF LedgersFrom
<1>1. IsFiniteSet(S) /\ \A l \in S : l \in Nat
  <2>1. IsFiniteSet(0 .. n)
    BY FS_Interval
  <2>2. IsFiniteSet(S)
    BY <1>0, <2>1, FS_Subset
  <2>3. \A l \in S : l \in Nat
    BY <1>0
  <2> QED BY <2>2, <2>3
<1>2. \A l : IsFiniteSet(UpTo(S, l)) /\ Cardinality(UpTo(S, l)) \in Nat
  <2> SUFFICES ASSUME NEW l PROVE IsFiniteSet(UpTo(S, l)) /\ Cardinality(UpTo(S, l)) \in Nat
    OBVIOUS
  <2>1. UpTo(S, l) \in SUBSET S
    BY DEF UpTo
  <2>2. IsFiniteSet(UpTo(S, l))
    BY <1>1, <2>1, FS_Subset
  <2> QED BY <2>2, FS_CardinalityType
<1>3. \A l \in S : l \in T <=> Cardinality(UpTo(S, l)) <= scenario.pageSize
  BY DEF Taken
<1>4. T \subseteq S
  BY DEF Taken
<1>5. scenario.pageSize \in Nat /\ scenario.pageSize >= 1
  BY ScenarioIs
<1>6. ASSUME NEW l \in T, NEW k \in S, k <= l PROVE k \in T
  <2>1. UpTo(S, k) \in SUBSET UpTo(S, l)
    <3>1. k \in Nat /\ l \in Nat /\ k <= l
      BY <1>1, <1>4, <1>6
    <3>2. \A j \in S : j <= k => j <= l
      BY <1>1, <3>1
    <3> QED BY <3>2 DEF UpTo
  <2>2. Cardinality(UpTo(S, k)) <= Cardinality(UpTo(S, l))
    <3> QED BY <1>2, <2>1, FS_Subset
  <2>3. Cardinality(UpTo(S, l)) <= scenario.pageSize
    BY <1>3, <1>4
  <2>4. Cardinality(UpTo(S, k)) <= scenario.pageSize
    BY <1>2, <1>5, <2>2, <2>3
  <2> QED BY <1>3, <2>4
<1>7. ASSUME S # {} PROVE T # {}
  <2>1. S \in SUBSET Nat
    BY <1>1
  <2>2. PICK l \in S : \A k \in S : l <= k
    BY <1>7, <2>1, Least
  <2>3. UpTo(S, l) = {l}
    <3>1. \A k \in S : k <= l <=> k = l
      BY <1>1, <2>2
    <3> QED BY <3>1 DEF UpTo
  <2>4. Cardinality(UpTo(S, l)) = 1
    <3>1. Cardinality({l}) = 1
      BY FS_Singleton
    <3> QED BY <2>3, <3>1
  <2> QED BY <1>3, <1>5, <2>4
<1> QED BY <1>6, <1>7

LEMMA PageIs ==
  ASSUME ChainTypes, scenario \in Scenarios, NEW first \in Nat, NEW page, page = PageFrom(first)
  PROVE  /\ page \in SUBSET PageEntries /\ AreOnChain(page) /\ \A x \in page : first <= x.ledger
         /\ \A x \in page, l \in OnChain : first <= l /\ l <= x.ledger => Holds(page, l)
         /\ page = {} => \A l \in OnChain : ~(first <= l)
<1> DEFINE ahead == {l \in OnChain : l >= first}
<1>1. PICK T : T = Taken(ahead)
  OBVIOUS
<1>2. page = {[ledger |-> l, event |-> chain[l].event] : l \in T}
  BY <1>1 DEF PageFrom, UpTo, Taken
<1>3. Len(chain) \in Nat /\ Len(chain) <= MaxLedger /\ MaxLedger \in Nat
  BY ChainIs, Constants
<1>4. \A l \in OnChain : /\ l \in 1 .. Len(chain) /\ l \in Nat /\ l \in Ledgers /\ chain[l].event \in Events
                         /\ l \in DOMAIN chain
  BY <1>3, ChainIs DEF Ledgers
<1>5. ahead \in SUBSET (0 .. Len(chain)) /\ \A l \in ahead : first <= l
  BY <1>3, <1>4
<1>6. T \subseteq OnChain /\ T \subseteq ahead /\ \A l \in T : first <= l
  BY <1>1, <1>4 DEF Taken
<1> HIDE DEF ahead
<1>7. /\ \A l \in T, k \in ahead : k <= l => k \in T
      /\ ahead # {} => T # {}
  <2>1. LedgersFrom(ahead, first, Len(chain))
    BY <1>5 DEF LedgersFrom
  <2> QED BY <1>1, <1>3, <2>1, TakenIs
<1>8. \A x \in page : x.ledger \in T /\ x.event = chain[x.ledger].event
  BY <1>2
<1>9. ASSUME NEW l \in T PROVE Holds(page, l)
  <2>1. PICK x : x = [ledger |-> l, event |-> chain[l].event]
    OBVIOUS
  <2>2. x \in page /\ x.ledger = l
    BY <1>2, <2>1
  <2> QED BY <2>2 DEF Holds
<1>10. page \in SUBSET PageEntries
  <2>1. \A l \in T : [ledger |-> l, event |-> chain[l].event] \in PageEntries
    BY <1>4, <1>6 DEF PageEntries
  <2> QED BY <1>2, <2>1
<1>11. AreOnChain(page) /\ \A x \in page : first <= x.ledger
  BY <1>4, <1>6, <1>8 DEF AreOnChain
<1>12. ASSUME NEW x \in page, NEW l \in OnChain, first <= l, l <= x.ledger PROVE Holds(page, l)
  <2>1. l \in ahead
    BY <1>4, <1>12 DEF ahead
  <2> QED BY <1>7, <1>8, <1>9, <1>12, <2>1
<1>13. page = {} => T = {}
  BY <1>9 DEF Holds
<1>14. ASSUME page = {}, NEW l \in OnChain, first <= l PROVE FALSE
  <2>1. l \in ahead
    BY <1>4, <1>14 DEF ahead
  <2> QED BY <1>7, <1>13, <1>14, <2>1
<1> QED BY <1>10, <1>11, <1>12, <1>14

FinalOnes(page, c) == {x \in page : x.ledger <= c}
WholePage(v, final) ==
  /\ final \in SUBSET PageEntries /\ AreOnChain(final)
  /\ \A x \in final : x.ledger \in (Reached(v) + 1) .. v.ceiling
  /\ final = {} => NoneLeft(v, Reached(v))
  /\ final # {} => \E m \in Nat : /\ Holds(final, m) /\ \A x \in final : x.ledger <= m
                                  /\ \A l \in OnChain : Reached(v) < l /\ l <= m => Holds(final, l)

\* When the page reaches past the ceiling, or is empty, what it holds of the finalised events is all.
LEMMA PageEnds ==
  ASSUME ChainTypes, scenario \in Scenarios, NEW v \in LiveRecords, cursor \in Nat, TickBounds(v), NEW page, NEW final,
         page = PageFrom(Reached(v) + 1), final = FinalOnes(page, v.ceiling)
  PROVE  WholePage(v, final)
<1>1. PICK r \in Nat, c \in Nat : r = Reached(v) /\ c = v.ceiling /\ r <= c
  BY TickNumbers
<1>2. \A l \in OnChain : l \in Nat
  BY ChainIs
<1>3. PICK first \in Nat : first = r + 1
  BY <1>1
<1>4. /\ page \in SUBSET PageEntries /\ AreOnChain(page) /\ \A x \in page : first <= x.ledger
      /\ \A x \in page, l \in OnChain : first <= l /\ l <= x.ledger => Holds(page, l)
      /\ page = {} => \A l \in OnChain : ~(first <= l)
  BY <1>1, <1>3, PageIs
<1>5. \A x \in page : x.ledger \in Nat /\ first <= x.ledger
  BY <1>4, Constants DEF PageEntries, Ledgers
<1>6. \A x : x \in final <=> x \in page /\ x.ledger <= c
  BY <1>1 DEF FinalOnes
<1>7. final \in SUBSET PageEntries /\ AreOnChain(final) /\ \A x \in final : x.ledger \in first .. c
  <2>1. \A x \in final : x.ledger \in first .. c
    BY <1>1, <1>3, <1>5, <1>6
  <2> QED BY <1>4, <1>6, <2>1 DEF AreOnChain
<1>8. \A l \in Nat : Holds(page, l) /\ l <= c => Holds(final, l)
  BY <1>6 DEF Holds
<1>9. ASSUME NEW l \in OnChain, first <= l, l <= c, ~Holds(final, l) PROVE \A x \in page : x \in final /\ x.ledger < l
  <2> SUFFICES ASSUME NEW x \in page PROVE x \in final /\ x.ledger < l
    OBVIOUS
  <2>1. ~Holds(page, l) /\ l \in Nat
    BY <1>2, <1>8, <1>9
  <2>2. ~(l <= x.ledger)
    BY <1>4, <1>9, <2>1
  <2> QED BY <1>1, <1>5, <1>6, <1>9, <2>1, <2>2
<1>10. ASSUME final = {}, NEW l \in OnChain, r < l, l <= c PROVE FALSE
  <2>1. first <= l /\ ~Holds(final, l)
    BY <1>2, <1>3, <1>10 DEF Holds
  <2>2. page = {}
    BY <1>9, <1>10, <2>1
  <2> QED BY <1>4, <2>1, <2>2
<1>11. ASSUME final # {}
       PROVE  \E m \in Nat : /\ Holds(final, m) /\ \A x \in final : x.ledger <= m
                             /\ \A l \in OnChain : r < l /\ l <= m => Holds(final, l)
  <2> DEFINE S == {x.ledger : x \in final}
  <2>2. S \in SUBSET (0 .. c) /\ S # {}
    <3>1. \A x \in final : x.ledger \in 0 .. c
      BY <1>3, <1>7
    <3> QED BY <1>11, <3>1
  <2>3. PICK m \in S : \A y \in S : m >= y
    <3> HIDE DEF S
    <3> QED BY <2>2, LargestExists
  <2>4. m \in Nat /\ Holds(final, m) /\ m <= c
    BY <2>2, <2>3 DEF Holds
  <2>5. ASSUME NEW x \in final PROVE x.ledger <= m
    <3>1. x.ledger \in S /\ x.ledger \in Nat
      BY <1>5, <1>6
    <3>2. m >= x.ledger
      <4> HIDE DEF S
      <4> QED BY <2>3, <3>1
    <3> QED BY <2>4, <3>1, <3>2
  <2> HIDE DEF S
  <2>6. ASSUME NEW l \in OnChain, r < l, l <= m PROVE Holds(final, l)
    <3>1. PICK x \in final : x.ledger = m
      BY <2>4 DEF Holds
    <3>2. first <= l /\ l <= x.ledger /\ x \in page /\ l \in Nat /\ l <= c
      BY <1>2, <1>3, <1>6, <2>4, <2>6, <3>1
    <3> QED BY <1>4, <1>8, <3>2
  <2> QED BY <2>4, <2>5, <2>6
<1> QED BY <1>1, <1>3, <1>7, <1>10, <1>11 DEF NoneLeft, WholePage

LEMMA ReadInv == ASSUME FInv, ReadPage PROVE FInv'
<1>1. /\ ChainTypes /\ MarkTypes /\ live \in LiveRecords /\ faults \in Faults /\ LiveInv /\ HistInv
      /\ scenario \in Scenarios /\ cursor \in Nat
  BY MarksAre DEF FInv, Types
<1>2. live.pc = "page" /\ UNCHANGED <<chain, peak, db, backfill, ghosts, faults>>
  BY DEF ReadPage
<1>3. AllMatch /\ TickBounds(live) /\ PageFits(live) /\ (~live.failed => Progress(live))
  BY <1>1, <1>2 DEF LiveInv, TickFits
<1>4. /\ live.start \in Nat /\ live.start >= 1 /\ live.ceiling \in Nat /\ Reached(live) \in Nat
      /\ Reached(live) <= live.ceiling /\ live.token \in Nat /\ live.pages \in Nat
  BY <1>1, <1>3, TickNumbers
<1>5. PICK page : page = PageFrom(Reached(live) + 1)
  OBVIOUS
<1>6. PICK final : final = FinalOnes(page, live.ceiling)
  OBVIOUS
<1>7. /\ final \in SUBSET PageEntries /\ AreOnChain(final)
      /\ \A x \in final : x.ledger \in (Reached(live) + 1) .. live.ceiling
      /\ final = {} => NoneLeft(live, Reached(live))
      /\ final # {} => \E m \in Nat : /\ Holds(final, m) /\ \A x \in final : x.ledger <= m
                                      /\ \A l \in OnChain : Reached(live) < l /\ l <= m => Holds(final, l)
  <2>1. WholePage(live, final)
    BY <1>1, <1>3, <1>5, <1>6, PageEnds
  <2> QED BY <2>1 DEF WholePage
<1>8. PICK last \in BOOLEAN : last = (live.pages = MaxPages \/ page = {} \/ (final = {} /\ ~live.processed))
  OBVIOUS
<1>9. page = PageFrom(IF live.token > 0 THEN live.token + 1 ELSE live.start)
  <2>1. Reached(live) + 1 = IF live.token > 0 THEN live.token + 1 ELSE live.start
    BY <1>4 DEF Reached
  <2> QED BY <1>5, <2>1
<1>10. PICK pc : pc = IF last THEN "finish" ELSE IF final = {} THEN "page" ELSE "event"
  OBVIOUS
<1>11. PICK left : left = IF last THEN {} ELSE final
  OBVIOUS
<1>12. PICK pages \in Nat : pages = IF last THEN live.pages ELSE live.pages + 1
  BY <1>4
<1>13. live' = [live EXCEPT !.pc = pc, !.page = left, !.pages = pages]
  BY <1>1, <1>6, <1>8, <1>9, <1>10, <1>11, <1>12 DEF ReadPage, FinalOnes
<1>14. PICK w \in LiveRecords : /\ live' = w /\ w.pc = pc /\ w.page = left /\ w.pages = pages
                                /\ w.start = live.start /\ w.ceiling = live.ceiling /\ w.token = live.token
                                /\ w.failed = live.failed /\ w.seen = live.seen
  <2>1. pc \in LocalState /\ left \in SUBSET PageEntries
    BY <1>7, <1>10, <1>11 DEF LocalState
  <2>2. live' \in LiveRecords
    BY <1>1, <1>13, <2>1 DEF LiveRecords
  <2> QED BY <1>1, <1>13, <2>2 DEF LiveRecords
<1>15. Reached(w) = Reached(live) /\ \A n : NoneLeft(w, n) <=> NoneLeft(live, n)
  BY <1>14 DEF Reached, NoneLeft
<1>16. TickBounds(w)
  BY <1>3, <1>14 DEF TickBounds
<1>17. PageFits(w)
  <2>1. pc \in {"event", "project"} => left # {}
    BY <1>10, <1>11
  <2>2. AreOnChain(left) /\ \A x \in left : x.ledger \in (Reached(live) + 1) .. live.ceiling
    BY <1>7, <1>11 DEF AreOnChain
  <2> QED BY <1>14, <1>15, <2>1, <2>2 DEF PageFits
<1>18. ASSUME ~live.failed PROVE Progress(w)
  <2>1. \A l \in w.start .. Reached(w) : Done(l)
    BY <1>2, <1>3, <1>14, <1>15, <1>18 DEF Progress
  <2>2. CASE last
    <3>1. live.pages = MaxPages \/ NoneLeft(live, Reached(live))
      <4>1. page = {} => final = {}
        BY <1>6 DEF FinalOnes
      <4> QED BY <1>7, <1>8, <2>2, <4>1
    <3>2. w.pages = MaxPages \/ NoneLeft(w, Reached(w))
      BY <1>12, <1>14, <1>15, <2>2, <3>1
    <3> QED BY <1>10, <1>14, <2>1, <2>2, <3>2 DEF Progress
  <2>3. CASE ~last /\ final = {}
    BY <1>10, <1>14, <2>1, <2>3 DEF Progress
  <2>4. CASE ~last /\ final # {}
    <3>1. PICK m \in Nat : /\ Holds(final, m) /\ \A x \in final : x.ledger <= m
                           /\ \A l \in OnChain : Reached(live) < l /\ l <= m => Holds(final, l)
      BY <1>7, <2>4
    <3>2. w.pc = "event" /\ w.page = final
      BY <1>10, <1>11, <1>14, <2>4
    <3>3. LastOfPage(w, m)
      BY <1>15, <3>1, <3>2 DEF LastOfPage
    <3> QED BY <2>1, <3>1, <3>2, <3>3 DEF Progress
  <2> QED BY <2>2, <2>3, <2>4
<1>19. ASSUME faults.reorgs = 0, faults.backfills = 0 PROVE TicksTold(w)
  <2>1. passed = {} => Told(IF live.failed THEN cursor ELSE Reached(live), live.ceiling)
    BY <1>1, <1>2, <1>19 DEF HistInv
  <2>2. pc # "project" /\ pc # "idle"
    BY <1>10
  <2> QED BY <1>14, <1>15, <2>1, <2>2 DEF TicksTold
<1>20. SameLimits /\ UNCHANGED <<chain, peak, db, backfill, ghosts>>
  BY <1>1, <1>2 DEF SameLimits
<1>21. TickFits(w)
  BY <1>14, <1>16, <1>17, <1>18 DEF TickFits
<1> QED BY <1>3, <1>14, <1>19, <1>20, <1>21, LiveStep

-----------------------------------------------------------------------------
(* Projecting an event.                                                      *)

\* What projecting an event may do to the rows: a tip that was not there comes to its
\* ledger, one that was there may be marked refunded, and nothing else is undone.
RowsKept(x) ==
  /\ \A t \in Tips : \/ tips'[t].ledger = tips[t].ledger
                     \/ tips[t].ledger = 0 /\ t = x.event /\ tips'[t].ledger = x.ledger
  /\ \A t \in Tips : tips[t].refunded => tips'[t].refunded
  /\ \A t \in Tips : tips'[t].refunded => tips[t].refunded \/ tips[t].ledger # 0
  /\ goal # "none" => goal' # "none"
OnItsLedger(x) == x \in PageEntries /\ x.ledger \in DOMAIN chain /\ chain[x.ledger].event = x.event

LEMMA EntryIs ==
  ASSUME NEW x \in PageEntries
  PROVE  /\ x.ledger \in Ledgers /\ x.ledger \in Nat /\ x.ledger >= 1 /\ x.ledger \in 0 .. MaxLedger
         /\ x.event \in Events
BY Constants DEF PageEntries, Ledgers

LEMMA TipsProjected ==
  ASSUME RowTypes, NEW x \in PageEntries, NEW isNew, Project(x, isNew)
  PROVE  tips' \in [Tips -> TipRows] /\ (RowsFit => RowsKept(x))
<1>1. tips \in [Tips -> TipRows]
  BY DEF RowTypes
<1>2. x.ledger \in 0 .. MaxLedger /\ x.event \in Events
  BY EntryIs
<1>3. \A t \in Tips : tips[t].ledger \in 0 .. MaxLedger /\ tips[t].refunded \in BOOLEAN
  BY <1>1 DEF TipRows
<1>4. goal # "none" => goal' # "none"
  BY DEF Project, ProjectGoalSet, ProjectGoalReached, ProjectGoalCancelled
<1>5. CASE tips' = tips
  BY <1>1, <1>4, <1>5 DEF RowsKept
<1>6. CASE Topic[x.event] = "tip" /\ tips[x.event].ledger = 0
           /\ tips' = [tips EXCEPT ![x.event] = [ledger |-> x.ledger, refunded |-> FALSE]]
  <2>1. PICK row \in TipRows : row = [ledger |-> x.ledger, refunded |-> FALSE]
    BY <1>2 DEF TipRows
  <2>2. x.event \in Tips
    BY <1>2, <1>6, TopicsAre
  <2>3. tips' = [tips EXCEPT ![x.event] = row] /\ row.ledger = x.ledger /\ row.refunded = FALSE
    BY <1>6, <2>1
  <2>4. tips' \in [Tips -> TipRows] /\ tips'[x.event] = row /\ \A t \in Tips : t # x.event => tips'[t] = tips[t]
    BY <1>1, <2>2, <2>3
  <2> QED BY <1>1, <1>4, <1>6, <2>2, <2>3, <2>4 DEF RowsKept, RowsFit
<1>7. CASE Topic[x.event] = "refund" /\ tips[RefundOf[x.event]].ledger # 0
           /\ tips' = [tips EXCEPT ![RefundOf[x.event]].refunded = TRUE]
  <2>1. PICK t \in Tips : t = RefundOf[x.event]
    BY <1>2, <1>7, TopicsAre
  <2>2. PICK row \in TipRows : row = [tips[t] EXCEPT !.refunded = TRUE] /\ row.ledger = tips[t].ledger /\ row.refunded = TRUE
    <3>1. PICK old \in TipRows : old = tips[t]
      BY <1>1
    <3>2. PICK row \in TipRows : row = [old EXCEPT !.refunded = TRUE]
      BY <3>1 DEF TipRows
    <3>3. row.ledger = old.ledger /\ row.refunded = TRUE
      BY <3>1, <3>2 DEF TipRows
    <3> QED BY <3>1, <3>2, <3>3
  <2>3. tips' = [tips EXCEPT ![t] = row]
    BY <1>7, <2>1, <2>2
  <2>4. tips' \in [Tips -> TipRows] /\ tips'[t] = row /\ \A s \in Tips : s # t => tips'[s] = tips[s]
    BY <1>1, <2>1, <2>3
  <2>5. tips[t].ledger # 0
    BY <1>7, <2>1
  <2> QED BY <1>4, <2>2, <2>4, <2>5 DEF RowsKept
<1>8. \/ tips' = tips
      \/ Topic[x.event] = "tip" /\ tips' = ProjectTip(x)
      \/ Topic[x.event] = "refund" /\ tips' = ProjectRefund(x)
  BY DEF Project
<1> QED BY <1>5, <1>6, <1>7, <1>8 DEF ProjectTip, ProjectRefund

LEMMA LogKept ==
  ASSUME RowTypes, NEW x \in PageEntries, NEW isNew \in BOOLEAN, PersistEventLog(x, isNew)
  PROVE  /\ eventLog' \in [Events -> [Ledgers -> Nat]]
         /\ \A e \in Events, l \in Ledgers : eventLog[e][l] > 0 => eventLog'[e][l] > 0
<1>1. eventLog \in [Events -> [Ledgers -> Nat]]
  BY DEF RowTypes
<1>2. x.ledger \in Ledgers /\ x.event \in Events
  BY EntryIs
<1>3. CASE ~isNew
  BY <1>1, <1>3 DEF PersistEventLog
<1>4. CASE isNew
  <2>1. PICK old \in [Ledgers -> Nat] : old = eventLog[x.event]
    BY <1>1, <1>2
  <2>2. PICK k \in Nat : k = old[x.ledger] + 1
    BY <1>2, <2>1
  <2>3. PICK row \in [Ledgers -> Nat] : row = [old EXCEPT ![x.ledger] = k]
    BY <2>1, <2>2
  <2>4. eventLog' = [eventLog EXCEPT ![x.event] = row]
    BY <1>4, <2>1, <2>2, <2>3 DEF PersistEventLog
  <2>5. \A l \in Ledgers : row[l] = IF l = x.ledger THEN k ELSE old[l]
    BY <1>2, <2>1, <2>3
  <2>6. \A l \in Ledgers : old[l] > 0 => row[l] > 0
    BY <1>2, <2>1, <2>2, <2>5
  <2>7. eventLog' \in [Events -> [Ledgers -> Nat]] /\ eventLog'[x.event] = row
        /\ \A e \in Events : e # x.event => eventLog'[e] = eventLog[e]
    BY <1>1, <1>2, <2>3, <2>4
  <2> QED BY <2>1, <2>6, <2>7
<1> QED BY <1>3, <1>4

LEMMA ProjectTypes ==
  ASSUME RowTypes, NEW x \in PageEntries, NEW isNew \in BOOLEAN, NEW outcome,
         ProjectEvent(x, isNew, outcome)
  PROVE  /\ RowTypes' /\ (RowsFit => RowsKept(x))
         /\ \A e \in Events, l \in Ledgers : eventLog[e][l] > 0 => eventLog'[e][l] > 0
         /\ outcome # "ok" => UNCHANGED <<tips, goal, credit, sub, published>>
<1>1. /\ eventLog \in [Events -> [Ledgers -> Nat]] /\ tips \in [Tips -> TipRows]
      /\ goal \in {"none", "ACTIVE", "COMPLETED", "CANCELLED"} /\ sub \in {"none", "ACTIVE", "CANCELLED"}
      /\ credit \in {NoEvent} \cup OfTopic("credit") /\ published \in [Events -> Nat]
  BY DEF RowTypes
<1>2. x.ledger \in Ledgers /\ x.event \in Events
  BY EntryIs
<1>3. ASSUME PersistEventLog(x, isNew)
      PROVE  /\ eventLog' \in [Events -> [Ledgers -> Nat]]
             /\ \A e \in Events, l \in Ledgers : eventLog[e][l] > 0 => eventLog'[e][l] > 0
  BY <1>3, LogKept
<1>4. CASE outcome = "ok"
  <2>1. PersistEventLog(x, isNew) /\ Project(x, isNew) /\ PublishProjection(x, isNew)
    BY <1>4 DEF ProjectEvent
  <2>2. published' \in [Events -> Nat]
    <3>1. PICK k \in Nat : k = published[x.event] + 1
      BY <1>1, <1>2
    <3> QED BY <1>1, <1>2, <2>1, <3>1 DEF PublishProjection
  <2>3. /\ goal' \in {"none", "ACTIVE", "COMPLETED", "CANCELLED"} /\ sub' \in {"none", "ACTIVE", "CANCELLED"}
        /\ credit' \in {NoEvent} \cup OfTopic("credit")
    <3>1. goal' \in {"none", "ACTIVE", "COMPLETED", "CANCELLED"}
      BY <1>1, <2>1 DEF Project, ProjectGoalSet, ProjectGoalReached, ProjectGoalCancelled
    <3>2. sub' \in {"none", "ACTIVE", "CANCELLED"}
      BY <1>1, <2>1 DEF Project
    <3>3. credit' \in {NoEvent} \cup OfTopic("credit")
      BY <1>1, <1>2, <2>1 DEF Project, OfTopic
    <3> QED BY <3>1, <3>2, <3>3
  <2>4. tips' \in [Tips -> TipRows] /\ (RowsFit => RowsKept(x))
    BY <2>1, TipsProjected
  <2> QED BY <1>3, <1>4, <2>1, <2>2, <2>3, <2>4 DEF RowTypes
<1>5. CASE outcome # "ok"
  <2>1. UNCHANGED <<tips, goal, credit, sub, published>> /\ (PersistEventLog(x, isNew) \/ UNCHANGED eventLog)
    BY <1>5 DEF ProjectEvent, rows
  <2>2. RowsKept(x)
    BY <2>1 DEF RowsKept
  <2>3. eventLog' \in [Events -> [Ledgers -> Nat]]
    BY <1>1, <1>3, <2>1
  <2>4. \A e \in Events, l \in Ledgers : eventLog[e][l] > 0 => eventLog'[e][l] > 0
    BY <1>3, <2>1
  <2>5. RowTypes'
    BY <1>1, <2>1, <2>3 DEF RowTypes
  <2> QED BY <2>1, <2>2, <2>4, <2>5
<1> QED BY <1>4, <1>5

\* What was in step with the chain stays in step with it.
LEMMA DoneOnward ==
  ASSUME ChainTypes, RowTypes, RowTypes', RowsFit, NEW x, OnItsLedger(x), RowsKept(x),
         UNCHANGED <<chain, peak, passed>>
  PROVE  /\ \A l : Done(l) => Done(l)'
         /\ \A t \in Tips : Right(t) => Right(t)'
         /\ \A t \in Tips : tips'[t].ledger # tips[t].ledger => Right(t)'
         /\ \A n : Sound(n) => Sound(n)'
         /\ RowsFit'
<1>1. x.ledger \in DOMAIN chain /\ chain[x.ledger].event = x.event /\ x.ledger \in Nat /\ x.ledger >= 1
  BY EntryIs DEF OnItsLedger
<1>2. \A l \in OnChain : l \in Nat /\ l >= 1 /\ chain[l].event \in Events
  BY ChainIs
<1>3. OnChain' = OnChain /\ LatestLedger' = LatestLedger
  BY DEF OnChain, LatestLedger
<1>4. ASSUME NEW l, Done(l) PROVE Done(l)'
  <2> SUFFICES ASSUME l \in OnChain, l \notin passed PROVE DoneEvent(chain[l].event, l)'
    BY <1>3 DEF Done
  <2>1. PICK e \in Events : e = chain[l].event
    BY <1>2
  <2>2. DoneEvent(e, l) /\ l # 0
    BY <1>2, <1>4, <2>1 DEF Done
  <2>3. e \in Readable /\ Topic[e] = "tip" => tips'[e].ledger = l
    BY <2>2, TopicsAre DEF DoneEvent, RowsKept
  <2>4. e \in Readable /\ Topic[e] = "refund" /\ Given(e, l) => tips'[RefundOf[e]].refunded
    BY <2>2, TopicsAre DEF DoneEvent, RowsKept
  <2>5. e \in Readable /\ Topic[e] = "goal_set" => goal' # "none"
    BY <2>2 DEF DoneEvent, RowsKept
  <2>6. Given(e, l)' => Given(e, l)
    BY DEF Given
  <2>7. DoneEvent(e, l)'
    BY <2>3, <2>4, <2>5, <2>6 DEF DoneEvent
  <2> QED BY <2>1, <2>7
<1>5. ASSUME NEW t \in Tips, tips'[t].ledger # tips[t].ledger PROVE Right(t)'
  BY <1>1, <1>5 DEF RowsKept, Right
<1>6. ASSUME NEW t \in Tips, Right(t) PROVE Right(t)'
  BY <1>5, <1>6 DEF Right
<1>7. ASSUME NEW n, Sound(n) PROVE Sound(n)'
  <2>1. n <= LatestLedger' /\ \A l \in 1 .. n : Done(l)'
    BY <1>3, <1>4, <1>7 DEF Sound
  <2>2. ASSUME NEW t \in Tips, tips'[t].ledger \in 1 .. n PROVE Right(t)'
    BY <1>5, <1>6, <1>7, <2>2 DEF Sound
  <2> QED BY <2>1, <2>2 DEF Sound
<1>8. ASSUME NEW t \in Tips PROVE tips'[t].ledger = 0 => ~tips'[t].refunded
  <2>1. tips[t].ledger = 0 => ~tips[t].refunded
    BY DEF RowsFit
  <2>2. \/ tips'[t].ledger = tips[t].ledger
        \/ tips[t].ledger = 0 /\ tips'[t].ledger = x.ledger
    BY DEF RowsKept
  <2>3. tips'[t].refunded => tips[t].refunded \/ tips[t].ledger # 0
    BY DEF RowsKept
  <2> QED BY <1>1, <2>1, <2>2, <2>3
<1>9. RowsFit'
  BY <1>8 DEF RowsFit
<1> QED BY <1>4, <1>5, <1>6, <1>7, <1>9

LEMMA TableOnward ==
  ASSUME ChainTypes, RowTypes, RowTypes', TableInv, NEW x, OnItsLedger(x), RowsKept(x),
         UNCHANGED <<chain, peak, cursor, checkpoints, passed>>
  PROVE  TableInv'
<1>0. RowsFit
  BY DEF TableInv
<1>1. /\ \A t \in Tips : Right(t) => Right(t)'
      /\ \A t \in Tips : tips'[t].ledger # tips[t].ledger => Right(t)'
      /\ \A n : Sound(n) => Sound(n)'
      /\ RowsFit'
  BY <1>0, DoneOnward
<1>2. /\ \A c : Matches(c)' <=> Matches(c)
      /\ \A c : IsOldest(c)' <=> IsOldest(c)
      /\ AllMatch' <=> AllMatch
  BY DEF Matches, IsOldest, AllMatch, LatestLedger
<1>3. \A c \in checkpoints' : Matches(c)' => Sound(c.ledger)'
  BY <1>1, <1>2 DEF TableInv
<1>4. \A c \in checkpoints' : IsOldest(c)' => Sound(c.ledger - 1)'
  BY <1>1, <1>2 DEF TableInv
<1>5. ASSUME AllMatch' PROVE Sound(cursor)' /\ \A t \in Tips : tips'[t].ledger # 0 => Right(t)'
  <2>1. Sound(cursor) /\ \A t \in Tips : tips[t].ledger # 0 => Right(t)
    BY <1>2, <1>5 DEF TableInv
  <2>2. \A t \in Tips : tips'[t].ledger # 0 => Right(t)'
    BY <1>1, <2>1
  <2> QED BY <1>1, <2>1, <2>2
<1> QED BY <1>1, <1>3, <1>4, <1>5 DEF TableInv

\* What does not depend on the rows.
LEMMA Fixed ==
  ASSUME UNCHANGED <<chain, peak, cursor, checkpoints>>
  PROVE  /\ OnChain' = OnChain /\ LatestLedger' = LatestLedger /\ Final' = Final
         /\ \A v : TickBounds(v)' <=> TickBounds(v)
         /\ \A v : PageFits(v)' <=> PageFits(v)
         /\ \A v, n : NoneLeft(v, n)' <=> NoneLeft(v, n)
         /\ \A v, m : LastOfPage(v, m)' <=> LastOfPage(v, m)
         /\ \A v : Reached(v)' = Reached(v)
         /\ \A p : AreOnChain(p)' <=> AreOnChain(p)
         /\ \A topics, n : LastOf(topics, n)' = LastOf(topics, n)
         /\ \A n : GoalOnChain(n)' = GoalOnChain(n)
         /\ \A topics, n, b : Coming(topics, n, b)' <=> Coming(topics, n, b)
         /\ AllMatch' <=> AllMatch
         /\ ChainTypes' <=> ChainTypes
         /\ MarkTypes' <=> MarkTypes
<1>1. OnChain' = OnChain /\ LatestLedger' = LatestLedger /\ Final' = Final /\ \A v : Reached(v)' = Reached(v)
  BY DEF OnChain, LatestLedger, Final, Reached
<1>2. \A topics, n : LastOf(topics, n)' = LastOf(topics, n)
  BY <1>1 DEF LastOf
<1>3. \A n : GoalOnChain(n)' = GoalOnChain(n)
  BY <1>2 DEF GoalOnChain
<1>4. \A topics, n, b : Coming(topics, n, b)' <=> Coming(topics, n, b)
  BY <1>1 DEF Coming, Bears
<1>5. \A v : TickBounds(v)' <=> TickBounds(v)
  BY <1>1 DEF TickBounds, ResolveStartLedger
<1>6. \A p : AreOnChain(p)' <=> AreOnChain(p)
  BY DEF AreOnChain
<1>7. \A v : PageFits(v)' <=> PageFits(v)
  BY <1>1, <1>6 DEF PageFits
<1>8. \A v, n : NoneLeft(v, n)' <=> NoneLeft(v, n)
  BY <1>1 DEF NoneLeft
<1>10. \A v, m : LastOfPage(v, m)' <=> LastOfPage(v, m)
  BY <1>1 DEF LastOfPage
<1>11. AllMatch' <=> AllMatch
  BY <1>1 DEF AllMatch, Matches
<1>12. (ChainTypes' <=> ChainTypes) /\ (MarkTypes' <=> MarkTypes)
  BY DEF ChainTypes, MarkTypes
<1> QED BY <1>1, <1>2, <1>3, <1>4, <1>5, <1>6, <1>7, <1>8, <1>10, <1>11, <1>12

LEMMA ChainStill ==
  ASSUME ChainInv, UNCHANGED <<chain, peak>>, faults'.reorgs = faults.reorgs
  PROVE  ChainInv'
<1>1. OnChain' = OnChain
  BY DEF OnChain
<1> QED BY <1>1 DEF ChainInv, SetBefore

LEMMA CheckStill ==
  ASSUME CheckInv, UNCHANGED <<chain, peak, cursor, checkpoints>>, faults'.reorgs = faults.reorgs
  PROVE  CheckInv'
<1>1. \A c : Matches(c)' <=> Matches(c)
  BY DEF Matches, LatestLedger
<1> QED BY <1>1 DEF CheckInv

LEMMA BackStill ==
  ASSUME BackInv, UNCHANGED <<chain, peak, backfill>> PROVE BackInv'
<1>1. \A p : AreOnChain(p)' <=> AreOnChain(p)
  BY DEF AreOnChain
<1> QED BY <1>1 DEF BackInv

\* A tick is where it was while what it had done stays done.
LEMMA TickOnward ==
  ASSUME UNCHANGED <<chain, peak, cursor, checkpoints>>, \A l : Done(l) => Done(l)', NEW v, TickFits(v)
  PROVE  TickFits(v)'
<1>1. TickBounds(v)' /\ PageFits(v)' /\ Reached(v)' = Reached(v)
  BY Fixed DEF TickFits
<1>2. ASSUME Progress(v) PROVE Progress(v)'
  BY <1>1, <1>2, Fixed DEF Progress
<1> QED BY <1>1, <1>2 DEF TickFits

-----------------------------------------------------------------------------
(* The backfill command.                                                     *)

LEMMA NoBackfillIs == NoBackfill \in BackfillRecords /\ NoBackfill.pc = "idle"
BY DEF NoBackfill, BackfillRecords

\* A step that changes the local variables of the backfill only.
LEMMA BackfillStep ==
  ASSUME FInv, UNCHANGED <<chain, peak, db, live, ghosts>>, faults' \in Faults,
         faults'.reorgs = faults.reorgs, faults'.backfills >= faults.backfills,
         NEW w \in BackfillRecords, backfill' = w,
         AreOnChain(w.page), w.pc \in {"event", "project"} => w.page # {},
         w.pc # "idle" => ~(faults'.reorgs = 0 /\ faults'.backfills = 0)
  PROVE  FInv'
<1>1. /\ ChainTypes /\ MarkTypes /\ RowTypes /\ live \in LiveRecords /\ backfill \in BackfillRecords
      /\ faults \in Faults /\ ChainInv /\ CheckInv /\ TableInv /\ LiveInv /\ BackInv /\ HistInv
      /\ passed \subseteq Ledgers /\ scenario \in Scenarios
  BY DEF FInv, Types
<1>2. /\ UNCHANGED <<chain, peak, live, passed, scenario>>
      /\ UNCHANGED <<cursor, checkpoints, eventLog, tips, goal, credit, sub, published>>
  BY DEF db, ghosts
<1>3. /\ OnChain' = OnChain /\ LatestLedger' = LatestLedger /\ Final' = Final
      /\ \A n : Sound(n)' <=> Sound(n)
      /\ \A n, b : Told(n, b)' <=> Told(n, b)
      /\ \A v : TickFits(v)' <=> TickFits(v)
      /\ \A v : Reached(v)' = Reached(v)
      /\ AllMatch' <=> AllMatch
      /\ \A x : IsLogged(x)' <=> IsLogged(x)
      /\ ChainTypes' <=> ChainTypes
      /\ MarkTypes' <=> MarkTypes
  BY <1>2, Still
<1>4. Types'
  BY <1>1, <1>2, <1>3 DEF Types, RowTypes
<1>5. ChainInv' /\ CheckInv'
  BY <1>1, <1>2, ChainStill, CheckStill
<1>6. TableInv'
  <2>1. (\A c : Matches(c)' <=> Matches(c)) /\ (\A c : IsOldest(c)' <=> IsOldest(c)) /\ (\A t : Right(t)' <=> Right(t))
    BY <1>2, <1>3 DEF Matches, IsOldest, Right
  <2> QED BY <1>1, <1>2, <1>3, <2>1 DEF TableInv, RowsFit
<1>7. LiveInv'
  BY <1>1, <1>2, <1>3 DEF LiveInv
<1>8. BackInv'
  <2>1. \A p : AreOnChain(p)' <=> AreOnChain(p)
    BY <1>2 DEF AreOnChain
  <2> QED BY <2>1 DEF BackInv
<1>9. HistInv'
  <2> SUFFICES ASSUME faults'.reorgs = 0, faults'.backfills = 0 PROVE HistInv'
    BY DEF HistInv
  <2>1. faults.reorgs = 0 /\ faults.backfills = 0 /\ backfill'.pc = "idle"
    BY <1>1 DEF Faults
  <2>2. /\ \A e \in Events : published[e] <= 1
        /\ \A e \in Events : published[e] = 1 => \E l \in DOMAIN chain : chain[l].event = e /\ eventLog[e][l] > 0
        /\ live.pc = "project" /\ live.isNew => ~IsLogged(Earliest(live.page))
        /\ passed = {} /\ live.pc = "idle" => Told(cursor, LatestLedger - FinalityDepth)
        /\ passed = {} /\ live.pc # "idle" => Told(IF live.failed THEN cursor ELSE Reached(live), live.ceiling)
    BY <1>1, <2>1 DEF HistInv
  <2> QED BY <1>2, <1>3, <2>1, <2>2 DEF HistInv
<1> QED BY <1>4, <1>5, <1>6, <1>7, <1>8, <1>9 DEF FInv

LEMMA StartBackfillInv ==
  ASSUME FInv, NEW from \in Ledgers, NEW to \in Ledgers, StartBackfill(from, to) PROVE FInv'
<1>1. faults \in Faults /\ backfill \in BackfillRecords
  BY DEF FInv, Types
<1>2. /\ UNCHANGED <<chain, peak, db, live, ghosts>>
      /\ backfill' = [NoBackfill EXCEPT !.pc = "page", !.from = from, !.to = to, !.covered = from - 1]
      /\ faults' = [faults EXCEPT !.backfills = @ + 1]
  BY DEF StartBackfill
<1>3. PICK k \in Nat : k = faults.backfills + 1
  BY <1>1 DEF Faults
<1>4. faults' = [faults EXCEPT !.backfills = k]
  BY <1>1, <1>2, <1>3 DEF Faults
<1>5. faults' \in Faults /\ faults'.reorgs = faults.reorgs /\ faults'.backfills = k
  BY <1>1, <1>4 DEF Faults
<1>6. k >= faults.backfills /\ k # 0
  BY <1>1, <1>3 DEF Faults
<1>7. PICK w \in BackfillRecords : backfill' = w /\ w.pc = "page" /\ w.page = {}
  <2>1. from \in Nat /\ to \in Nat /\ from - 1 \in Nat
    BY Constants DEF Ledgers
  <2>2. backfill' = [pc |-> "page", from |-> from, to |-> to, covered |-> from - 1, token |-> 0,
                     page |-> {}, isNew |-> FALSE]
    BY <1>2 DEF NoBackfill
  <2>3. backfill' \in BackfillRecords
    BY <2>1, <2>2 DEF BackfillRecords
  <2> QED BY <2>2, <2>3
<1>8. AreOnChain(w.page)
  BY <1>7 DEF AreOnChain
<1> QED BY <1>2, <1>5, <1>6, <1>7, <1>8, BackfillStep

LEMMA Running == ASSUME FInv, backfill.pc # "idle" PROVE ~(faults.reorgs = 0 /\ faults.backfills = 0)
BY DEF FInv, HistInv

LEMMA BackfillPageInv == ASSUME FInv, BackfillPage PROVE FInv'
<1>1. ChainTypes /\ scenario \in Scenarios /\ faults \in Faults /\ backfill \in BackfillRecords /\ BackInv
  BY DEF FInv, Types
<1>2. backfill.pc = "page" /\ UNCHANGED <<chain, peak, db, live, ghosts, faults>>
  BY DEF BackfillPage
<1>3. PICK page : page = PageFrom(IF backfill.token > 0 THEN backfill.token + 1 ELSE backfill.from)
  OBVIOUS
<1>4. PICK wanted : wanted = FinalOnes(page, backfill.to)
  OBVIOUS
<1>5. page \in SUBSET PageEntries /\ AreOnChain(page)
  <2>1. PICK first \in Nat : first = IF backfill.token > 0 THEN backfill.token + 1 ELSE backfill.from
    BY <1>1 DEF BackfillRecords
  <2>2. page = PageFrom(first)
    BY <1>3, <2>1
  <2> QED BY <1>1, <2>2, PageIs
<1>6. wanted \in SUBSET PageEntries /\ AreOnChain(wanted)
  BY <1>4, <1>5 DEF FinalOnes, AreOnChain
<1>7. PICK covered \in Nat : covered = Min({Max({backfill.covered, LatestLedger}), backfill.to})
  <2>1. LatestLedger \in Nat /\ backfill.covered \in Nat /\ backfill.to \in Nat
    BY <1>1, ChainIs DEF LatestLedger, BackfillRecords
  <2>2. PICK m \in Nat : m = Max({backfill.covered, LatestLedger})
    BY <2>1, MaxOfTwo
  <2>3. Min({m, backfill.to}) \in Nat
    BY <2>1, <2>2, MinOfTwo
  <2> QED BY <2>2, <2>3
<1>8. PICK over \in BOOLEAN : over = (backfill.covered >= backfill.to \/ page = {})
  OBVIOUS
<1>9. PICK pc \in {"page", "event"} : pc = IF wanted = {} THEN "page" ELSE "event"
  OBVIOUS
<1>10. backfill' = IF over THEN NoBackfill
                   ELSE [backfill EXCEPT !.pc = pc, !.page = wanted, !.covered = covered]
  BY <1>3, <1>4, <1>7, <1>8, <1>9 DEF BackfillPage, FinalOnes
<1>11. faults' \in Faults /\ faults'.reorgs = faults.reorgs /\ faults'.backfills >= faults.backfills
       /\ ~(faults'.reorgs = 0 /\ faults'.backfills = 0)
  BY <1>1, <1>2, Running DEF Faults
<1>12. CASE over
  <2>1. PICK w \in BackfillRecords : w = NoBackfill /\ w.pc = "idle" /\ w.page = {}
    BY NoBackfillIs DEF NoBackfill
  <2>2. backfill' = w
    BY <1>10, <1>12, <2>1
  <2>3. AreOnChain(w.page)
    BY <2>1 DEF AreOnChain
  <2> QED BY <1>2, <1>11, <2>1, <2>2, <2>3, BackfillStep
<1>13. CASE ~over
  <2>1. backfill' = [backfill EXCEPT !.pc = pc, !.page = wanted, !.covered = covered]
    BY <1>10, <1>13
  <2>2. PICK w \in BackfillRecords : backfill' = w /\ w.pc = pc /\ w.page = wanted
    <3>1. backfill' \in BackfillRecords
      BY <1>1, <1>6, <2>1 DEF BackfillRecords
    <3> QED BY <1>1, <2>1, <3>1 DEF BackfillRecords
  <2>4. w.pc \in {"event", "project"} => w.page # {}
    BY <1>9, <2>2
  <2>5. AreOnChain(w.page)
    BY <1>6, <2>2
  <2> QED BY <1>2, <1>11, <2>2, <2>4, <2>5, BackfillStep
<1> QED BY <1>12, <1>13

LEMMA BackfillLookUpInv == ASSUME FInv, BackfillLookUp PROVE FInv'
<1>1. faults \in Faults /\ backfill \in BackfillRecords /\ BackInv
  BY DEF FInv, Types
<1>2. backfill.pc = "event" /\ UNCHANGED <<chain, peak, db, live, ghosts, faults>>
  BY DEF BackfillLookUp
<1>3. PICK new \in BOOLEAN : new = ~IsLogged(Earliest(backfill.page))
  BY DEF IsLogged
<1>4. backfill' = [backfill EXCEPT !.pc = "project", !.isNew = new]
  BY <1>3 DEF BackfillLookUp
<1>5. PICK w \in BackfillRecords : backfill' = w /\ w.page = backfill.page
  <2>1. backfill' \in BackfillRecords
    BY <1>1, <1>4 DEF BackfillRecords
  <2> QED BY <1>1, <1>4, <2>1 DEF BackfillRecords
<1>6. AreOnChain(w.page) /\ w.page # {}
  BY <1>1, <1>2, <1>5 DEF BackInv
<1>7. faults' \in Faults /\ faults'.reorgs = faults.reorgs /\ faults'.backfills >= faults.backfills
      /\ ~(faults'.reorgs = 0 /\ faults'.backfills = 0)
  BY <1>1, <1>2, Running DEF Faults
<1> QED BY <1>2, <1>5, <1>6, <1>7, BackfillStep

LEMMA BackfillNextInv == ASSUME FInv, NEW outcome \in Outcomes, BackfillNext(outcome) PROVE FInv'
<1>1. /\ ChainTypes /\ MarkTypes /\ RowTypes /\ live \in LiveRecords /\ backfill \in BackfillRecords
      /\ faults \in Faults /\ ChainInv /\ CheckInv /\ TableInv /\ LiveInv /\ BackInv
      /\ passed \subseteq Ledgers /\ scenario \in Scenarios
  BY DEF FInv, Types
<1>2. PICK x : x = Earliest(backfill.page)
  OBVIOUS
<1>3. PICK rest : rest = backfill.page \ {x}
  OBVIOUS
<1>4. PICK pc \in {"page", "event"} : pc = IF rest = {} THEN "page" ELSE "event"
  OBVIOUS
<1>5. /\ backfill.pc = "project" /\ ProjectEvent(x, backfill.isNew, outcome) /\ CountFailure(outcome)
      /\ backfill' = [backfill EXCEPT !.pc = pc, !.page = rest, !.isNew = FALSE, !.token = x.ledger]
      /\ UNCHANGED <<chain, peak, cursor, checkpoints, live, passed, scenario>>
  BY <1>2, <1>3, <1>4 DEF BackfillNext, ghosts
<1>6. /\ backfill.page \in SUBSET PageEntries /\ backfill.isNew \in BOOLEAN /\ backfill.page # {}
      /\ AreOnChain(backfill.page)
  BY <1>1, <1>5 DEF BackInv, BackfillRecords
<1>7. x \in backfill.page /\ x \in PageEntries
  BY <1>2, <1>6, EarliestIs
<1>8. OnItsLedger(x) /\ x.ledger \in Nat
  BY <1>6, <1>7, EntryIs DEF OnItsLedger, AreOnChain
<1>9. RowsFit
  BY <1>1 DEF TableInv
<1>10. RowTypes' /\ RowsKept(x)
  BY <1>1, <1>5, <1>6, <1>7, <1>9, ProjectTypes
<1>11. \A l : Done(l) => Done(l)'
  BY <1>1, <1>5, <1>8, <1>9, <1>10, DoneOnward
<1>12. TableInv'
  BY <1>1, <1>5, <1>8, <1>10, TableOnward
<1>13. SameLimits
  BY <1>1, <1>5, FailureCounted
<1>14. ChainInv' /\ CheckInv'
  BY <1>1, <1>5, <1>13, ChainStill, CheckStill DEF SameLimits
<1>15. LiveInv'
  <2> SUFFICES ASSUME live.pc # "idle" PROVE AllMatch' /\ TickFits(live)'
    BY <1>5 DEF LiveInv
  <2>1. AllMatch /\ TickFits(live)
    BY <1>1 DEF LiveInv
  <2> QED BY <1>5, <1>11, <2>1, Fixed, TickOnward
<1>16. PICK w \in BackfillRecords : backfill' = w /\ w.pc = pc /\ w.page = rest
  <2>1. rest \in SUBSET PageEntries
    BY <1>3, <1>6
  <2>2. backfill' \in BackfillRecords
    BY <1>1, <1>5, <1>8, <2>1 DEF BackfillRecords
  <2> QED BY <1>1, <1>5, <2>2 DEF BackfillRecords
<1>17. BackInv'
  <2>1. AreOnChain(rest)'
    BY <1>3, <1>5, <1>6 DEF AreOnChain
  <2>2. pc \in {"event", "project"} => rest # {}
    BY <1>4
  <2> QED BY <1>16, <2>1, <2>2 DEF BackInv
<1>18. HistInv'
  BY <1>5, <1>13, Running DEF HistInv, SameLimits
<1>19. Types'
  <2>1. ChainTypes' /\ MarkTypes'
    BY <1>1, <1>5, Fixed
  <2> QED BY <1>1, <1>5, <1>10, <1>13, <1>16, <2>1 DEF Types, SameLimits
<1> QED BY <1>12, <1>14, <1>15, <1>17, <1>18, <1>19 DEF FInv

-----------------------------------------------------------------------------
(* The next event of a tick.                                                 *)

LEMMA LastNew ==
  ASSUME ChainTypes, NEW m \in OnChain, NEW topics, Bears(m, topics)
  PROVE  LastOf(topics, m) = chain[m].event
<1> DEFINE at == {l \in OnChain : l <= m /\ chain[l].event \in Readable /\ Topic[chain[l].event] \in topics}
<1>1. (\A l \in OnChain : l \in Nat) /\ m \in Nat
  BY ChainIs
<1>2. at \in SUBSET (0 .. m) /\ m \in at
  <2>1. m <= m /\ \A l \in OnChain : l <= m => l \in 0 .. m
    BY <1>1
  <2> QED BY <2>1 DEF Bears
<1>3. LastOf(topics, m) = IF at = {} THEN NoEvent ELSE chain[Max(at)].event
  BY DEF LastOf
<1> HIDE DEF at
<1>4. PICK k : k = Max(at) /\ k \in at /\ \A y \in at : k >= y
  BY <1>1, <1>2, MaxIs
<1>5. k = m
  <2>1. k >= m /\ k \in 0 .. m
    BY <1>2, <1>4
  <2> QED BY <1>1, <2>1
<1> QED BY <1>2, <1>3, <1>4, <1>5

\* Nothing of these topics from n to m: what is told at n is told at m.
LEMMA ToldOn ==
  ASSUME ChainTypes, NEW n \in Nat, NEW m \in Nat, n <= m, NEW topics, ~Coming(topics, n, m), NEW b,
         Coming(topics, n, b)
  PROVE  Coming(topics, m, b)
<1>1. PICK l \in OnChain : n < l /\ l <= b /\ Bears(l, topics)
  BY DEF Coming
<1>2. l \in Nat /\ ~(l <= m)
  BY <1>1, ChainIs DEF Coming
<1>3. m < l
  BY <1>2
<1> QED BY <1>1, <1>3 DEF Coming

DoneBelow(n) == \A l \in 1 .. (n - 1) : Done(l)

\* After the handler of an event the rows show it, given that they showed what came before.
LEMMA DoneNext ==
  ASSUME ChainTypes, ChainInv, RowTypes, NEW x, OnItsLedger(x), DoneBelow(x.ledger),
         \A t \in Tips : tips[t].ledger # 0 => Right(t), NEW isNew, Project(x, isNew), UNCHANGED <<chain, passed>>
  PROVE  Done(x.ledger)'
<1>1. PICK n \in Nat : n = x.ledger
  BY EntryIs DEF OnItsLedger
<1>2. PICK e \in Events : e = x.event /\ chain[n].event = e
  BY <1>1, EntryIs DEF OnItsLedger
<1>3. n \in OnChain /\ n \in DOMAIN chain
  BY <1>1, <1>2, TopicsAre DEF OnItsLedger, OnChain
<1>4. tips \in [Tips -> TipRows]
  BY DEF RowTypes
<1>0. ASSUME e \in Readable PROVE Parsed(x)
  BY <1>0, <1>2 DEF Parsed
<1>5. ASSUME e \in Readable, Topic[e] = "tip" PROVE tips'[e].ledger = n
  <2>1. e \in Tips /\ tips' = IF tips[e].ledger # 0 THEN tips ELSE [tips EXCEPT ![e] = [ledger |-> n, refunded |-> FALSE]]
    BY <1>0, <1>1, <1>2, <1>5, TopicsAre DEF Project, ProjectTip
  <2>2. CASE tips[e].ledger = 0
    <3>1. tips'[e] = [ledger |-> n, refunded |-> FALSE]
      BY <1>4, <2>1, <2>2
    <3> QED BY <3>1
  <2>3. CASE tips[e].ledger # 0
    <3>1. tips[e].ledger \in DOMAIN chain /\ chain[tips[e].ledger].event = e
      BY <2>1, <2>3 DEF Right
    <3>2. tips[e].ledger \in OnChain
      BY <3>1, TopicsAre DEF OnChain
    <3>3. tips[e].ledger = n
      <4>1. \A k, l \in OnChain : chain[k].event = chain[l].event => k = l
        BY Zenon DEF ChainInv
      <4> QED BY <1>2, <1>3, <3>1, <3>2, <4>1
    <3> QED BY <2>1, <2>3, <3>3
  <2> QED BY <2>2, <2>3
<1>6. ASSUME e \in Readable, Topic[e] = "refund", Given(e, n) PROVE tips'[RefundOf[e]].refunded
  <2>1. PICK t \in Tips : t = RefundOf[e]
    BY <1>6, TopicsAre
  <2>2. t \in Readable /\ \E k \in 1 .. (n - 1) : k \notin passed /\ chain[k].event = t
    BY <1>6, <2>1 DEF Given
  <2>9. PICK k \in 1 .. (n - 1) : k \notin passed /\ chain[k].event = t
    BY <2>2
  <2>3. k \in OnChain
    <3>1. k \in DOMAIN chain
      BY <1>1, <1>3, <2>9, ChainIs
    <3> QED BY <2>9, <3>1, TopicsAre DEF OnChain
  <2>4. tips[t].ledger = k /\ k # 0
    BY <1>1, <2>2, <2>3, <2>9, TopicsAre DEF DoneBelow, Done, DoneEvent
  <2>5. tips' = [tips EXCEPT ![t].refunded = TRUE]
    BY <1>0, <1>2, <1>6, <2>1, <2>4 DEF Project, ProjectRefund
  <2>6. tips'[t] = [tips[t] EXCEPT !.refunded = TRUE]
    BY <1>4, <2>5
  <2>7. tips[t] \in TipRows
    BY <1>4
  <2>8. tips'[t].refunded
    BY <2>6, <2>7 DEF TipRows
  <2> QED BY <2>1, <2>8
<1>7. e \in Readable /\ Topic[e] = "goal_set" => goal' # "none"
  BY <1>0, <1>2 DEF Project, ProjectGoalSet
<1>9. Given(e, n)' => Given(e, n)
  BY DEF Given
<1>8. DoneEvent(e, n)'
  BY <1>5, <1>6, <1>7, <1>9 DEF DoneEvent
<1> QED BY <1>1, <1>2, <1>8 DEF Done

\* And the goal and the score are those of the chain up to it, or a later event will set them.
LEMMA ToldNext ==
  ASSUME ChainTypes, ChainInv, NEW x, OnItsLedger(x), DoneBelow(x.ledger), NEW isNew, Project(x, isNew),
         NEW n \in Nat, n < x.ledger, \A l \in OnChain : n < l /\ l <= x.ledger => l = x.ledger,
         NEW b, Told(n, b), passed = {}, UNCHANGED <<chain, peak, cursor, checkpoints>>
  PROVE  Told(x.ledger, b)'
<1>1. PICK m \in Nat : m = x.ledger /\ n <= m
  BY EntryIs DEF OnItsLedger
<1>2. PICK e \in Events : e = x.event /\ chain[m].event = e
  BY <1>1, EntryIs DEF OnItsLedger
<1>3. m \in OnChain
  BY <1>1, <1>2, TopicsAre DEF OnItsLedger, OnChain
<1>9. Parsed(x) <=> e \in Readable
  BY <1>2 DEF Parsed
<1>4. ASSUME NEW topics, ~Bears(m, topics)
      PROVE  LastOf(topics, m) = LastOf(topics, n) /\ (Coming(topics, n, b) => Coming(topics, m, b))
  <2>1. ~Coming(topics, n, m)
    BY <1>1, <1>2, <1>4 DEF Coming
  <2> QED BY <1>1, <2>1, LastSkip, ToldOn
<1>5. credit' = LastOf({"credit"}, m) \/ Coming({"credit"}, m, b)
  <2>1. CASE Bears(m, {"credit"})
    <3>1. e \in Readable /\ Topic[e] = "credit"
      BY <1>2, <2>1 DEF Bears
    <3>2. credit' = e
      BY <1>2, <1>9, <3>1 DEF Project
    <3> QED BY <1>2, <1>3, <2>1, <3>2, LastNew
  <2>2. CASE ~Bears(m, {"credit"})
    <3>1. ~(e \in Readable /\ Topic[e] = "credit")
      BY <1>2, <2>2 DEF Bears
    <3>2. credit' = credit
      BY <1>2, <1>9, <3>1 DEF Project
    <3>3. credit = LastOf({"credit"}, n) \/ Coming({"credit"}, n, b)
      BY DEF Told
    <3> QED BY <1>4, <2>2, <3>2, <3>3
  <2> QED BY <2>1, <2>2
<1>6. goal' = GoalOnChain(m) \/ Coming(GoalTopics, m, b)
  <2>1. CASE Bears(m, GoalTopics)
    <3>0. e \in Readable /\ Topic[e] \in GoalTopics /\ Parsed(x)
      BY <1>2, <1>9, <2>1 DEF Bears
    <3>1. LastOf(GoalTopics, m) = e
      BY <1>2, <1>3, <2>1, LastNew
    <3>2. GoalOnChain(m) = CASE Topic[e] = "goal_set" -> "ACTIVE" [] Topic[e] = "goal_reached" -> "COMPLETED"
                             [] OTHER -> "CANCELLED"
      BY <3>1, TopicsAre DEF GoalOnChain
    <3>3. CASE Topic[e] = "goal_set"
      BY <1>2, <3>0, <3>2, <3>3 DEF Project, ProjectGoalSet
    <3>4. CASE Topic[e] = "goal_reached"
      BY <1>2, <3>0, <3>2, <3>4 DEF Project, ProjectGoalReached
    <3>5. CASE Topic[e] = "goal_cancel"
      <4>0. PICK k \in 1 .. (m - 1) : SetBefore(k, m)
        BY <1>2, <1>3, <3>5 DEF ChainInv
      <4>1. chain[k].event \in OfTopic("goal_set") /\ chain[k].event \in Readable
        BY <1>2, <3>0, <4>0 DEF SetBefore
      <4>2. PICK g \in Events : g = chain[k].event /\ Topic[g] = "goal_set"
        BY <4>1 DEF OfTopic
      <4>3. k \in OnChain
        <5>1. k \in DOMAIN chain
          BY <1>1, <1>3, <4>0, ChainIs
        <5> QED BY <4>2, <5>1, TopicsAre DEF OnChain
      <4>4. goal # "none"
        BY <1>1, <4>0, <4>1, <4>2, <4>3 DEF DoneBelow, Done, DoneEvent
      <4>5. goal' = "CANCELLED"
        BY <1>2, <3>0, <3>5, <4>4 DEF Project, ProjectGoalCancelled
      <4> QED BY <3>2, <3>5, <4>5
    <3> QED BY <3>0, <3>3, <3>4, <3>5 DEF GoalTopics
  <2>2. CASE ~Bears(m, GoalTopics)
    <3>0. ~(e \in Readable /\ Topic[e] \in GoalTopics)
      BY <1>2, <2>2 DEF Bears
    <3>1. goal' = goal
      BY <1>2, <1>9, <3>0 DEF Project, GoalTopics
    <3>2. goal = GoalOnChain(n) \/ Coming(GoalTopics, n, b)
      BY DEF Told
    <3>3. GoalOnChain(m) = GoalOnChain(n)
      BY <1>4, <2>2 DEF GoalOnChain
    <3> QED BY <1>4, <2>2, <3>1, <3>2, <3>3
  <2> QED BY <2>1, <2>2
<1>7. /\ GoalOnChain(m)' = GoalOnChain(m) /\ LastOf({"credit"}, m)' = LastOf({"credit"}, m)
      /\ Coming(GoalTopics, m, b)' <=> Coming(GoalTopics, m, b)
      /\ Coming({"credit"}, m, b)' <=> Coming({"credit"}, m, b)
  BY Fixed
<1>8. Told(m, b)'
  BY <1>5, <1>6, <1>7 DEF Told
<1> QED BY <1>1, <1>8

\* When an earlier event of the tick failed, the events projected after it are to come again.
LEMMA ToldAgain ==
  ASSUME ChainTypes, NEW x, OnItsLedger(x), NEW isNew, Project(x, isNew),
         NEW n \in Nat, n < x.ledger, NEW b, x.ledger <= b, Told(n, b), UNCHANGED <<chain, peak, cursor, checkpoints>>
  PROVE  Told(n, b)'
<1>1. PICK e \in Events : e = x.event /\ chain[x.ledger].event = e
  BY EntryIs DEF OnItsLedger
<1>2. x.ledger \in OnChain
  BY <1>1, TopicsAre DEF OnItsLedger, OnChain
<1>3. \A topics : Bears(x.ledger, topics) => Coming(topics, n, b)
  BY <1>1, <1>2 DEF Coming
<1>7. Parsed(x) <=> e \in Readable
  BY <1>1 DEF Parsed
<1>4. ~Bears(x.ledger, GoalTopics) => goal' = goal
  BY <1>1, <1>7 DEF Project, GoalTopics, Bears
<1>5. ~Bears(x.ledger, {"credit"}) => credit' = credit
  BY <1>1, <1>7 DEF Project, Bears
<1>6. /\ GoalOnChain(n)' = GoalOnChain(n) /\ LastOf({"credit"}, n)' = LastOf({"credit"}, n)
      /\ Coming(GoalTopics, n, b)' <=> Coming(GoalTopics, n, b)
      /\ Coming({"credit"}, n, b)' <=> Coming({"credit"}, n, b)
  BY Fixed
<1> QED BY <1>3, <1>4, <1>5, <1>6 DEF Told

\* The rest of a page without its first event.
LEMMA RestOfPage ==
  ASSUME NEW page \in SUBSET PageEntries, page # {}, AreOnChain(page), NEW x, x = Earliest(page),
         NEW rest, rest = page \ {x}
  PROVE  /\ x \in page /\ OnItsLedger(x) /\ rest \in SUBSET PageEntries /\ AreOnChain(rest)
         /\ \A y \in page : x.ledger <= y.ledger
         /\ \A y \in rest : y \in page /\ x.ledger < y.ledger
         /\ \A l \in Nat : Holds(page, l) /\ l # x.ledger => Holds(rest, l)
<1>1. x \in page /\ (\A y \in page : x.ledger <= y.ledger) /\ \A y \in rest : y \in page /\ y # x
  BY EarliestIs
<1>2. OnItsLedger(x) /\ AreOnChain(rest) /\ rest \in SUBSET PageEntries
  BY <1>1 DEF OnItsLedger, AreOnChain
<1>3. ASSUME NEW y \in rest PROVE x.ledger < y.ledger
  <2>1. x \in PageEntries /\ y \in PageEntries /\ y # x
    BY <1>1, <1>3
  <2>2. x = [ledger |-> x.ledger, event |-> x.event] /\ y = [ledger |-> y.ledger, event |-> y.event]
    BY <2>1 DEF PageEntries
  <2>3. x.ledger = y.ledger => x.event = y.event
    BY <1>1, <1>3 DEF AreOnChain
  <2>4. x.ledger # y.ledger
    BY <2>1, <2>2, <2>3
  <2>5. x.ledger \in Nat /\ y.ledger \in Nat /\ x.ledger <= y.ledger
    BY <1>1, <1>3, <2>1, EntryIs
  <2> QED BY <2>4, <2>5
<1>4. \A l \in Nat : Holds(page, l) /\ l # x.ledger => Holds(rest, l)
  BY DEF Holds
<1> QED BY <1>1, <1>2, <1>3, <1>4

\* Before the next event everything is done.
LEMMA BelowNext ==
  ASSUME ChainTypes, ChainInv, NEW v \in LiveRecords, cursor \in Nat, TickBounds(v), Progress(v),
         Sound(cursor), NEW n \in Nat, \A l \in OnChain : Reached(v) < l /\ l <= n => l = n
  PROVE  DoneBelow(n)
<1> SUFFICES ASSUME NEW l \in 1 .. (n - 1), l \in OnChain PROVE Done(l)
  BY DEF DoneBelow, Done
<1>1. /\ v.start \in Nat /\ v.start >= 1 /\ v.start = (IF cursor > 0 THEN cursor + 1 ELSE StartLedger)
      /\ Reached(v) \in Nat /\ Reached(v) + 1 >= v.start
  BY TickNumbers
<1>2. l \in Nat /\ l >= 1 /\ l <= n /\ l # n
  OBVIOUS
<1>3. ~(Reached(v) < l)
  BY <1>2
<1>4. CASE l <= cursor
  <2>1. l \in 1 .. cursor
    BY <1>2, <1>4
  <2> QED BY <2>1 DEF Sound
<1>5. CASE ~(l <= cursor)
  <2>1. l >= StartLedger
    BY DEF ChainInv
  <2>2. l >= v.start
    BY <1>1, <1>2, <1>5, <2>1, Constants
  <2>3. l \in v.start .. Reached(v)
    BY <1>1, <1>2, <1>3, <2>2
  <2> QED BY <2>3 DEF Progress
<1> QED BY <1>4, <1>5

\* Between what is reached and the first event of the page there is no event.
LEMMA NothingBetween ==
  ASSUME ChainTypes, NEW v, Progress(v), v.pc \in {"event", "project"},
         v.page \in SUBSET PageEntries, NEW x \in v.page, \A y \in v.page : x.ledger <= y.ledger
  PROVE  \A l \in OnChain : Reached(v) < l /\ l <= x.ledger => l = x.ledger
<1> SUFFICES ASSUME NEW l \in OnChain, Reached(v) < l, l <= x.ledger PROVE l = x.ledger
  OBVIOUS
<1>1. PICK m \in Nat : LastOfPage(v, m)
  BY DEF Progress
<1>2. l \in Nat /\ x.ledger \in Nat /\ x.ledger <= m
  BY <1>1, ChainIs, EntryIs DEF LastOfPage
<1>3. Holds(v.page, l)
  BY <1>1, <1>2 DEF LastOfPage
<1>4. x.ledger <= l
  BY <1>3 DEF Holds
<1> QED BY <1>2, <1>4

\* The tick w after the event x of the tick v was projected.
Onward(v, w, x, rest) ==
  /\ w.pc = IF rest = {} THEN "page" ELSE "event"
  /\ w.page = rest /\ w.token = x.ledger /\ w.start = v.start /\ w.ceiling = v.ceiling
  /\ w.pages = v.pages

LEMMA ProgressOn ==
  ASSUME ChainTypes, NEW v \in LiveRecords, NEW w, NEW x, NEW rest, Onward(v, w, x, rest),
         cursor \in Nat, TickBounds(v), PageFits(v), Progress(v), v.pc = "project",
         x = Earliest(v.page), rest = v.page \ {x}, \A l \in v.start .. x.ledger : Done(l)',
         UNCHANGED <<chain, peak, cursor, checkpoints>>
  PROVE  Progress(w)'
<1>1. v.page \in SUBSET PageEntries /\ v.page # {} /\ AreOnChain(v.page)
  BY DEF LiveRecords, PageFits
<1>2. /\ x \in v.page /\ OnItsLedger(x)
      /\ \A y \in v.page : x.ledger <= y.ledger
      /\ \A y \in rest : y \in v.page /\ x.ledger < y.ledger
      /\ \A l \in Nat : Holds(v.page, l) /\ l # x.ledger => Holds(rest, l)
  BY <1>1, RestOfPage
<1>3. PICK n \in Nat : n = x.ledger /\ n >= 1
  BY <1>2, EntryIs DEF OnItsLedger
<1>4. Reached(w) = n
  BY <1>3 DEF Onward, Reached
<1>5. PICK r \in Nat : r = Reached(v)
  BY TickNumbers
<1>6. r < n
  <2>1. v.ceiling \in Nat /\ x.ledger \in (Reached(v) + 1) .. v.ceiling
    BY <1>2, TickNumbers DEF PageFits
  <2> QED BY <1>3, <1>5, <2>1
<1>8. PICK m \in Nat : Holds(v.page, m) /\ LastOfPage(v, m)
  BY DEF Progress
<1>10. ASSUME rest # {} PROVE Holds(rest, m) /\ LastOfPage(w, m)
  <2>1. PICK y \in rest : y \in v.page /\ n < y.ledger /\ y.ledger \in Nat
    BY <1>1, <1>2, <1>3, <1>10, EntryIs
  <2>2. n < m
    BY <1>8, <2>1 DEF LastOfPage
  <2>3. Holds(rest, m)
    <3>1. m # x.ledger
      BY <1>3, <2>2
    <3> QED BY <1>2, <1>8, <3>1
  <2>4. ASSUME NEW l \in OnChain, n < l, l <= m PROVE Holds(rest, l)
    <3>1. l \in Nat
      BY ChainIs
    <3>2. r < l /\ l # n
      BY <1>6, <2>4, <3>1
    <3>3. Holds(v.page, l)
      BY <1>5, <1>8, <2>4, <3>2 DEF LastOfPage
    <3> QED BY <1>2, <1>3, <3>1, <3>2, <3>3
  <2>5. \A z \in rest : z.ledger <= m
    BY <1>2, <1>8 DEF LastOfPage
  <2> QED BY <1>4, <2>3, <2>4, <2>5 DEF LastOfPage, Onward
<1>11. \A l \in w.start .. Reached(w) : Done(l)'
  BY <1>3, <1>4 DEF Onward
<1>12. /\ Reached(w)' = Reached(w)
       /\ \A k : LastOfPage(w, k)' <=> LastOfPage(w, k)
  BY Fixed
<1>13. w.pc = (IF rest = {} THEN "page" ELSE "event") /\ w.page = rest
  BY DEF Onward
<1> QED BY <1>4, <1>10, <1>11, <1>12, <1>13 DEF Progress

Broadcast ==
  /\ \A e \in Events : published[e] <= 1
  /\ \A e \in Events : published[e] = 1 => \E l \in DOMAIN chain : chain[l].event = e /\ eventLog[e][l] > 0

\* An event is broadcast with its first row, and the row stays.
LEMMA BroadcastOnward ==
  ASSUME ChainTypes, ChainInv, RowTypes, NEW x, OnItsLedger(x), NEW isNew \in BOOLEAN, NEW outcome,
         ProjectEvent(x, isNew, outcome), isNew => ~IsLogged(x), Broadcast, UNCHANGED chain,
         \A e \in Events, l \in Ledgers : eventLog[e][l] > 0 => eventLog'[e][l] > 0,
         outcome # "ok" => UNCHANGED published
  PROVE  Broadcast'
<1>1. published \in [Events -> Nat] /\ eventLog \in [Events -> [Ledgers -> Nat]]
  BY DEF RowTypes
<1>2. \A l \in DOMAIN chain : l \in Ledgers /\ (chain[l].event \in Events => l \in OnChain)
  BY ChainIs, Constants DEF Ledgers
<1>3. PICK k \in Ledgers : k = x.ledger /\ k \in DOMAIN chain
  BY EntryIs DEF OnItsLedger
<1>4. PICK new \in Events : new = x.event /\ chain[k].event = new
  BY <1>3, EntryIs DEF OnItsLedger
<1>5. ASSUME NEW e \in Events, published[e] = 1
      PROVE  \E l \in DOMAIN chain : chain[l].event = e /\ eventLog'[e][l] > 0
  <2>1. PICK l \in DOMAIN chain : chain[l].event = e /\ eventLog[e][l] > 0
    BY <1>5 DEF Broadcast
  <2>2. eventLog'[e][l] > 0
    BY <1>2, <2>1
  <2> QED BY <2>1, <2>2
<1>6. CASE published' = published
  <2>1. \A e \in Events : published'[e] <= 1
    BY <1>6 DEF Broadcast
  <2>2. \A e \in Events : published'[e] = 1 => \E l \in DOMAIN chain' : chain'[l].event = e /\ eventLog'[e][l] > 0
    BY <1>5, <1>6
  <2> QED BY <2>1, <2>2 DEF Broadcast
<1>7. CASE outcome = "ok" /\ isNew
  <2>1. eventLog' = [eventLog EXCEPT ![x.event][x.ledger] = @ + 1] /\ published' = [published EXCEPT ![x.event] = @ + 1]
    BY <1>7 DEF ProjectEvent, PersistEventLog, PublishProjection
  <2>2. PICK old \in [Ledgers -> Nat] : old = eventLog[new]
    BY <1>1
  <2>3. eventLog'[new][k] = old[k] + 1
    BY <1>1, <1>3, <1>4, <2>1, <2>2
  <2>4. eventLog'[new][k] > 0
    BY <2>2, <2>3
  <2>5. published[new] # 1
    <3> SUFFICES ASSUME published[new] = 1 PROVE FALSE
      OBVIOUS
    <3>1. PICK l \in DOMAIN chain : chain[l].event = new /\ eventLog[new][l] > 0
      BY DEF Broadcast
    <3>2. l \in OnChain /\ k \in OnChain
      BY <1>2, <1>3, <1>4, <3>1
    <3>3. l = k
      BY <1>4, <3>1, <3>2 DEF ChainInv
    <3> QED BY <1>3, <1>4, <1>7, <3>1, <3>3 DEF IsLogged
  <2>6. published[new] = 0
    <3>1. PICK count \in Nat : count = published[new]
      BY <1>1
    <3>2. count <= 1 /\ count # 1
      BY <2>5, <3>1 DEF Broadcast
    <3> QED BY <3>1, <3>2
  <2>7. published'[new] = 1 /\ \A e \in Events : e # new => published'[e] = published[e]
    BY <1>1, <1>4, <2>1, <2>6
  <2>8. \A e \in Events : published'[e] <= 1
    BY <2>7 DEF Broadcast
  <2>9. ASSUME NEW e \in Events, published'[e] = 1
        PROVE  \E l \in DOMAIN chain' : chain'[l].event = e /\ eventLog'[e][l] > 0
    <3>1. CASE e = new
      BY <1>3, <1>4, <2>4, <3>1
    <3>2. CASE e # new
      BY <1>5, <2>7, <2>9, <3>2
    <3> QED BY <3>1, <3>2
  <2> QED BY <2>8, <2>9 DEF Broadcast
<1> QED BY <1>6, <1>7 DEF ProjectEvent, PublishProjection

LEMMA ProjectNextInv == ASSUME FInv, NEW outcome \in Outcomes, ProjectNext(outcome) PROVE FInv'
<1>1. /\ ChainTypes /\ MarkTypes /\ RowTypes /\ live \in LiveRecords /\ backfill \in BackfillRecords
      /\ faults \in Faults /\ ChainInv /\ CheckInv /\ TableInv /\ LiveInv /\ BackInv
      /\ passed \subseteq Ledgers /\ scenario \in Scenarios /\ cursor \in Nat
  BY MarksAre DEF FInv, Types
<1>2. PICK v \in LiveRecords : v = live
  BY <1>1
<1>3. PICK x : x = Earliest(v.page)
  OBVIOUS
<1>4. PICK rest : rest = v.page \ {x}
  OBVIOUS
<1>5. /\ v.pc = "project" /\ ProjectEvent(x, v.isNew, outcome) /\ CountFailure(outcome)
      /\ UNCHANGED <<chain, peak, cursor, checkpoints, backfill, passed, scenario>>
  BY <1>2, <1>3 DEF ProjectNext, ghosts
<1>6. AllMatch /\ TickFits(v) /\ TickBounds(v) /\ PageFits(v) /\ v.isNew \in BOOLEAN
  BY <1>1, <1>2, <1>5 DEF LiveInv, TickFits, LiveRecords
<1>7. /\ v.page \in SUBSET PageEntries /\ v.page # {} /\ AreOnChain(v.page)
      /\ \A y \in v.page : y.ledger \in (Reached(v) + 1) .. v.ceiling
  BY <1>5, <1>6 DEF LiveRecords, PageFits
<1>8. /\ x \in v.page /\ OnItsLedger(x) /\ rest \in SUBSET PageEntries /\ AreOnChain(rest)
      /\ \A y \in v.page : x.ledger <= y.ledger
      /\ \A y \in rest : y \in v.page /\ x.ledger < y.ledger
  BY <1>3, <1>4, <1>7, RestOfPage
<1>9. PICK n \in Nat : n = x.ledger /\ n >= 1 /\ n \in 0 .. MaxLedger
  BY <1>8, EntryIs DEF OnItsLedger
<1>10. /\ v.start \in Nat /\ v.start >= 1 /\ v.ceiling \in Nat /\ Reached(v) \in Nat /\ cursor <= Reached(v)
       /\ Reached(v) <= v.ceiling /\ Reached(v) + 1 >= v.start /\ v.seen \in Nat /\ v.token \in Nat
  BY <1>1, <1>6, TickNumbers
<1>11. Reached(v) < n /\ n <= v.ceiling /\ n >= v.start /\ cursor < n
  <2>1. n \in (Reached(v) + 1) .. v.ceiling
    BY <1>7, <1>8, <1>9
  <2> QED BY <1>1, <1>9, <1>10, <2>1
<1>13. x \in PageEntries /\ RowsFit
  BY <1>1, <1>8 DEF OnItsLedger, TableInv
<1>14. /\ RowTypes' /\ RowsKept(x)
       /\ \A e \in Events, l \in Ledgers : eventLog[e][l] > 0 => eventLog'[e][l] > 0
       /\ outcome # "ok" => UNCHANGED <<tips, goal, credit, sub, published>>
  BY <1>1, <1>5, <1>6, <1>13, ProjectTypes
<1>15. \A l : Done(l) => Done(l)'
  BY <1>1, <1>5, <1>8, <1>13, <1>14, DoneOnward
<1>16. TableInv'
  BY <1>1, <1>5, <1>8, <1>14, TableOnward
<1>17. SameLimits
  BY <1>1, <1>5, FailureCounted
<1>18. ChainInv' /\ CheckInv' /\ BackInv'
  BY <1>1, <1>5, <1>17, ChainStill, CheckStill, BackStill DEF SameLimits
<1>19. PICK pc \in {"page", "event"} : pc = IF rest = {} THEN "page" ELSE "event"
  OBVIOUS
<1>20. /\ outcome = "ok" => Project(x, v.isNew)
       /\ outcome = "ok" => live' = [v EXCEPT !.pc = pc, !.page = rest, !.isNew = FALSE, !.token = n,
                                              !.processed = TRUE, !.seen = Max({v.seen, n})]
       /\ outcome # "ok" => live' = [v EXCEPT !.pc = pc, !.page = rest, !.isNew = FALSE, !.failed = TRUE]
  BY <1>1, <1>2, <1>3, <1>4, <1>5, <1>9, <1>19 DEF ProjectNext, ProjectEvent, LiveRecords
<1>21. PICK seen \in Nat : seen = Max({v.seen, n}) /\ seen \in (v.start - 1) .. v.ceiling
  <2>1. v.seen \in (v.start - 1) .. v.ceiling
    BY <1>6 DEF TickBounds
  <2>2. Max({v.seen, n}) = IF v.seen >= n THEN v.seen ELSE n
    BY <1>9, <1>10, MaxOfTwo
  <2> QED BY <1>9, <1>10, <1>11, <2>1, <2>2
<1>23. PICK w \in LiveRecords :
         /\ live' = w /\ w.pc = pc /\ w.page = rest /\ w.start = v.start /\ w.ceiling = v.ceiling
         /\ w.pages = v.pages
         /\ outcome = "ok" => w.token = n /\ w.seen = seen /\ w.failed = v.failed
         /\ outcome # "ok" => w.token = v.token /\ w.seen = v.seen /\ w.failed = TRUE
  <2>1. CASE outcome = "ok"
    <3>1. live' = [v EXCEPT !.pc = pc, !.page = rest, !.isNew = FALSE, !.token = n,
                            !.processed = TRUE, !.seen = seen]
      BY <1>20, <1>21, <2>1
    <3>2. live' \in LiveRecords
      BY <1>8, <3>1 DEF LiveRecords, LocalState
    <3> QED BY <2>1, <3>1, <3>2 DEF LiveRecords
  <2>2. CASE outcome # "ok"
    <3>1. live' = [v EXCEPT !.pc = pc, !.page = rest, !.isNew = FALSE, !.failed = TRUE]
      BY <1>20, <2>2
    <3>2. live' \in LiveRecords
      BY <1>8, <3>1 DEF LiveRecords, LocalState
    <3> QED BY <2>2, <3>1, <3>2 DEF LiveRecords
  <2> QED BY <2>1, <2>2
<1>24. Reached(w) = IF outcome = "ok" THEN n ELSE Reached(v)
  BY <1>9, <1>23 DEF Reached
<1>25. TickBounds(w)
  <2>1. w.seen \in (w.start - 1) .. w.ceiling
    BY <1>6, <1>21, <1>23 DEF TickBounds
  <2>2. w.token = 0 \/ w.token \in w.start .. w.ceiling
    BY <1>6, <1>9, <1>10, <1>11, <1>23 DEF TickBounds
  <2> QED BY <1>6, <1>23, <2>1, <2>2 DEF TickBounds
<1>26. PageFits(w)
  <2>1. ASSUME NEW y \in rest PROVE y.ledger \in (Reached(w) + 1) .. w.ceiling
    <3>1. y.ledger \in Nat /\ n < y.ledger /\ y.ledger \in (Reached(v) + 1) .. v.ceiling
      BY <1>7, <1>8, <1>9, <2>1, EntryIs
    <3> QED BY <1>9, <1>10, <1>23, <1>24, <3>1
  <2>2. w.pc \in {"event", "project"} => w.page # {}
    BY <1>19, <1>23
  <2> QED BY <1>8, <1>23, <2>1, <2>2 DEF PageFits
<1>27. ASSUME ~v.failed
       PROVE  /\ Progress(v) /\ DoneBelow(n)
              /\ \A l \in OnChain : Reached(v) < l /\ l <= n => l = n
  <2>1. Progress(v)
    BY <1>6, <1>27 DEF TickFits
  <2>2. \A l \in OnChain : Reached(v) < l /\ l <= n => l = n
    BY <1>1, <1>5, <1>7, <1>8, <1>9, <2>1, NothingBetween
  <2>3. Sound(cursor)
    BY <1>1, <1>6 DEF TableInv
  <2> QED BY <1>1, <1>6, <2>1, <2>2, <2>3, BelowNext
<1>28. ASSUME ~v.failed, outcome = "ok" PROVE Progress(w)'
  <2>1. \A t \in Tips : tips[t].ledger # 0 => Right(t)
    BY <1>1, <1>6 DEF TableInv
  <2>2. Done(n)'
    BY <1>1, <1>5, <1>8, <1>9, <1>20, <1>27, <1>28, <2>1, DoneNext
  <2>3. ASSUME NEW l \in v.start .. n PROVE Done(l)'
    <3>1. CASE l = n
      BY <2>2, <3>1
    <3>2. CASE l # n
      <4>1. l \in 1 .. (n - 1)
        BY <1>9, <1>10, <2>3, <3>2
      <4> QED BY <1>15, <1>27, <1>28, <4>1 DEF DoneBelow
    <3> QED BY <3>1, <3>2
  <2>4. Onward(v, w, x, rest)
    BY <1>9, <1>19, <1>23, <1>28 DEF Onward
  <2>5. \A l \in v.start .. x.ledger : Done(l)'
    BY <1>9, <2>3
  <2> QED BY <1>1, <1>3, <1>4, <1>5, <1>6, <1>27, <1>28, <2>4, <2>5, ProgressOn
<1>29. LiveInv'
  <2>1. AllMatch' /\ TickBounds(w)' /\ PageFits(w)'
    BY <1>5, <1>6, <1>25, <1>26, Fixed
  <2>2. ~w.failed => Progress(w)'
    BY <1>23, <1>28
  <2> QED BY <1>23, <2>1, <2>2 DEF LiveInv, TickFits
<1>30. HistInv'
  <2> SUFFICES ASSUME faults'.reorgs = 0, faults'.backfills = 0 PROVE HistInv'
    BY DEF HistInv
  <2>1. faults.reorgs = 0 /\ faults.backfills = 0
    BY <1>17 DEF SameLimits
  <2>2. /\ backfill.pc = "idle" /\ Broadcast /\ (v.isNew => ~IsLogged(x))
        /\ passed = {} => Told(IF v.failed THEN cursor ELSE Reached(v), v.ceiling)
    BY <1>2, <1>3, <1>5, <2>1 DEF FInv, HistInv, Broadcast
  <2>3. Broadcast'
    BY <1>1, <1>5, <1>6, <1>8, <1>14, <2>2, BroadcastOnward
  <2>4. ASSUME passed = {} PROVE Told(IF w.failed THEN cursor ELSE Reached(w), w.ceiling)'
    <3>1. CASE outcome = "ok" /\ ~v.failed
      <4>1. \A l \in OnChain : Reached(v) < l /\ l <= n => l = n
        BY <1>27, <3>1
      <4>2. Told(Reached(v), v.ceiling) /\ DoneBelow(n) /\ Project(x, v.isNew)
        BY <1>20, <1>27, <2>2, <2>4, <3>1
      <4>3. PICK r \in Nat : r = Reached(v) /\ r < n
        BY <1>10, <1>11
      <4>4. Told(n, v.ceiling)'
        BY <1>1, <1>5, <1>8, <1>9, <2>4, <4>1, <4>2, <4>3, ToldNext
      <4> QED BY <1>23, <1>24, <3>1, <4>4 DEF Reached
    <3>2. CASE outcome = "ok" /\ v.failed
      <4>1. Told(cursor, v.ceiling) /\ Project(x, v.isNew)
        BY <1>20, <2>2, <2>4, <3>2
      <4>2. PICK c \in Nat : c = cursor /\ c < n
        BY <1>1, <1>11
      <4>3. Told(c, v.ceiling)'
        BY <1>1, <1>5, <1>8, <1>9, <1>11, <4>1, <4>2, ToldAgain
      <4> QED BY <1>5, <1>23, <3>2, <4>2, <4>3
    <3>3. CASE outcome # "ok"
      <4>1. PICK m \in Nat : m = (IF v.failed THEN cursor ELSE Reached(v)) /\ cursor <= m /\ m <= v.ceiling
        BY <1>1, <1>10
      <4>2. Told(cursor, v.ceiling)
        <5>1. Told(m, v.ceiling) /\ v.ceiling \in Int /\ v.ceiling <= v.ceiling
          BY <1>10, <2>2, <2>4, <4>1
        <5> QED BY <1>1, <4>1, <5>1, ToldBack
      <4>3. PICK c : c = cursor
        OBVIOUS
      <4>4. Told(c, v.ceiling) => Told(c, v.ceiling)'
        <5>1. UNCHANGED <<goal, credit>>
          BY <1>14, <3>3
        <5>2. /\ GoalOnChain(c)' = GoalOnChain(c) /\ LastOf({"credit"}, c)' = LastOf({"credit"}, c)
              /\ Coming(GoalTopics, c, v.ceiling)' <=> Coming(GoalTopics, c, v.ceiling)
              /\ Coming({"credit"}, c, v.ceiling)' <=> Coming({"credit"}, c, v.ceiling)
          BY <1>5, Fixed
        <5> QED BY <5>1, <5>2 DEF Told
      <4> QED BY <1>5, <1>23, <3>3, <4>2, <4>3, <4>4
    <3> QED BY <3>1, <3>2, <3>3
  <2>5. w.pc # "project" /\ w.pc # "idle"
    BY <1>19, <1>23
  <2>6. backfill'.pc = "idle"
    BY <1>5, <2>2
  <2> QED BY <1>5, <1>23, <2>3, <2>4, <2>5, <2>6 DEF HistInv, Broadcast
<1>31. Types'
  <2>1. ChainTypes' /\ MarkTypes'
    BY <1>1, <1>5, Fixed
  <2> QED BY <1>1, <1>5, <1>14, <1>17, <1>23, <2>1 DEF Types, SameLimits
<1> QED BY <1>16, <1>18, <1>29, <1>30, <1>31 DEF FInv

-----------------------------------------------------------------------------
(* A restart, the end of a tick, and the initial state.                      *)

LEMMA RestartInv == ASSUME FInv, NEW stored \in BOOLEAN, Restart(stored) PROVE FInv'
<1>1. /\ ChainTypes /\ MarkTypes /\ RowTypes /\ live \in LiveRecords /\ backfill \in BackfillRecords
      /\ faults \in Faults /\ ChainInv /\ CheckInv /\ TableInv /\ LiveInv /\ BackInv /\ HistInv
      /\ passed \subseteq Ledgers /\ scenario \in Scenarios /\ cursor \in Nat
  BY MarksAre DEF FInv, Types
<1>2. PICK v \in LiveRecords : v = live
  BY <1>1
<1>3. PICK x : x = Earliest(v.page)
  OBVIOUS
<1>4. /\ v.pc # "idle" /\ CountFailure("crash") /\ live' = Idle
      /\ UNCHANGED <<chain, peak, cursor, checkpoints, backfill, tips, goal, credit, sub, published, passed, scenario>>
      /\ UNCHANGED eventLog \/ (v.pc = "project" /\ PersistEventLog(x, v.isNew))
  <2>1. /\ live.pc # "idle" /\ CountFailure("crash") /\ live' = Idle
        /\ UNCHANGED <<chain, peak, cursor, checkpoints, backfill, passed, scenario>>
    BY DEF Restart, ghosts
  <2>2. \/ live.pc = "project" /\ PersistEventLog(Earliest(live.page), live.isNew)
           /\ UNCHANGED <<tips, goal, credit, sub, published>>
        \/ UNCHANGED <<eventLog, tips, goal, credit, sub, published>>
    BY DEF Restart, rows
  <2>3. UNCHANGED <<tips, goal, credit, sub, published>>
    BY <2>2
  <2>4. UNCHANGED eventLog \/ (v.pc = "project" /\ PersistEventLog(x, v.isNew))
    BY <1>2, <1>3, <2>2 DEF PersistEventLog
  <2> QED BY <1>2, <2>1, <2>3, <2>4
<1>5. TickBounds(v) /\ PageFits(v)
  BY <1>1, <1>2, <1>4 DEF LiveInv, TickFits
<1>6. ASSUME v.pc = "project"
      PROVE  x \in PageEntries /\ v.isNew \in BOOLEAN
  <2>1. v.page \in SUBSET PageEntries /\ v.page # {}
    BY <1>5, <1>6 DEF PageFits, LiveRecords
  <2> QED BY <1>3, <2>1, EarliestIs DEF LiveRecords
<1>7. /\ eventLog' \in [Events -> [Ledgers -> Nat]]
      /\ \A e \in Events, l \in Ledgers : eventLog[e][l] > 0 => eventLog'[e][l] > 0
  <2>1. CASE UNCHANGED eventLog
    BY <1>1, <2>1 DEF RowTypes
  <2>2. CASE v.pc = "project" /\ PersistEventLog(x, v.isNew)
    BY <1>1, <1>6, <2>2, LogKept
  <2> QED BY <1>4, <2>1, <2>2
<1>8. SameLimits
  BY <1>1, <1>4, FailureCounted
<1>10. live' \in LiveRecords /\ live'.pc = "idle"
  BY <1>4, IdleIs
<1>11. ChainInv' /\ CheckInv' /\ BackInv'
  BY <1>1, <1>4, <1>8, ChainStill, CheckStill, BackStill DEF SameLimits
<1>12. ChainTypes' /\ MarkTypes' /\ (\A n : Sound(n)' <=> Sound(n)) /\ (AllMatch' <=> AllMatch)
  <2>1. \A l : Done(l)' <=> Done(l)
    BY <1>4 DEF Done, DoneEvent, Given, OnChain
  <2>2. \A n : Sound(n)' <=> Sound(n)
    BY <1>4, <2>1 DEF Sound, Right, LatestLedger
  <2> QED BY <1>1, <1>4, <2>2, Fixed
<1>13. TableInv'
  <2>1. /\ \A c : Matches(c)' <=> Matches(c)
        /\ \A c : IsOldest(c)' <=> IsOldest(c)
        /\ \A t : Right(t)' <=> Right(t)
    BY <1>4 DEF Matches, IsOldest, Right, LatestLedger
  <2> QED BY <1>1, <1>4, <1>12, <2>1 DEF TableInv, RowsFit
<1>14. LiveInv'
  BY <1>10 DEF LiveInv
<1>15. HistInv'
  <2> SUFFICES ASSUME faults'.reorgs = 0, faults'.backfills = 0 PROVE HistInv'
    BY DEF HistInv
  <2>1. faults.reorgs = 0 /\ faults.backfills = 0
    BY <1>8 DEF SameLimits
  <2>2. /\ backfill.pc = "idle" /\ Broadcast
        /\ passed = {} => Told(IF v.failed THEN cursor ELSE Reached(v), v.ceiling)
    BY <1>1, <1>2, <1>4, <2>1 DEF HistInv, Broadcast
  <2>3. passed = {} => Told(cursor, LatestLedger - FinalityDepth)
    BY <1>1, <1>5, <2>1, <2>2, IdleTold
  <2>4. \A n, b : Told(n, b)' <=> Told(n, b)
    BY <1>4, Fixed DEF Told
  <2>5. passed = {} => Told(cursor, LatestLedger - FinalityDepth)'
    BY <1>4, <2>3, <2>4 DEF LatestLedger
  <2>6. \A e \in Events : published'[e] <= 1
    BY <1>4, <2>2 DEF Broadcast
  <2>7. ASSUME NEW e \in Events, published'[e] = 1
        PROVE  \E l \in DOMAIN chain' : chain'[l].event = e /\ eventLog'[e][l] > 0
    <3>1. PICK l \in DOMAIN chain : chain[l].event = e /\ eventLog[e][l] > 0
      BY <1>4, <2>2, <2>7 DEF Broadcast
    <3>2. l \in Ledgers
      BY <1>1, ChainIs, Constants DEF Ledgers
    <3> QED BY <1>4, <1>7, <3>1, <3>2
  <2> QED BY <1>4, <1>10, <2>2, <2>5, <2>6, <2>7 DEF HistInv
<1>16. Types'
  BY <1>1, <1>4, <1>7, <1>8, <1>10, <1>12 DEF Types, RowTypes, SameLimits
<1> QED BY <1>11, <1>13, <1>14, <1>15, <1>16 DEF FInv

AtLeast(S, n) == {d \in S : d.ledger >= n}
Newest(S) == {c \in S : Cardinality(AtLeast(S, c.ledger)) <= Lookback}

\* Keeping the newest checkpoints keeps no more than the lookback.
LEMMA NewestAre ==
  ASSUME NEW S, IsFiniteSet(S), \A c \in S : c.ledger \in Nat
  PROVE  /\ Newest(S) \subseteq S /\ IsFiniteSet(Newest(S)) /\ Cardinality(Newest(S)) <= Lookback
<1>1. Newest(S) \subseteq S
  BY DEF Newest
<1>2. IsFiniteSet(Newest(S))
  BY <1>1, FS_Subset
<1>3. CASE Newest(S) = {}
  <2>1. Cardinality({}) = 0
    BY FS_EmptySet
  <2> QED BY <1>1, <1>2, <1>3, <2>1, Constants
<1>4. CASE Newest(S) # {}
  <2> DEFINE N == {c.ledger : c \in Newest(S)}
  <2>1. N \in SUBSET Nat /\ N # {}
    BY <1>1, <1>4
  <2>2. PICK n \in N : \A m \in N : n <= m
    <3> HIDE DEF N
    <3> QED BY <2>1, Least
  <2>3. PICK c \in Newest(S) : \A d \in Newest(S) : c.ledger <= d.ledger
    BY <2>2
  <2>4. Newest(S) \in SUBSET AtLeast(S, c.ledger)
    <3>1. \A d \in Newest(S) : d \in S /\ d.ledger >= c.ledger
      BY <1>1, <2>3
    <3> QED BY <3>1 DEF AtLeast
  <2>5. IsFiniteSet(AtLeast(S, c.ledger))
    <3>1. AtLeast(S, c.ledger) \in SUBSET S
      BY DEF AtLeast
    <3> QED BY <3>1, FS_Subset
  <2>6. Cardinality(Newest(S)) <= Cardinality(AtLeast(S, c.ledger)) /\ Cardinality(Newest(S)) \in Nat
        /\ Cardinality(AtLeast(S, c.ledger)) \in Nat
    BY <1>2, <2>4, <2>5, FS_Subset, FS_CardinalityType
  <2>7. Cardinality(AtLeast(S, c.ledger)) <= Lookback
    BY <2>3 DEF Newest
  <2> QED BY <1>1, <1>2, <2>6, <2>7, Constants
<1> QED BY <1>3, <1>4

\* When a tick ends without a failure everything up to its ceiling is done or passed.
LEMMA FinishIs ==
  ASSUME FInv, NEW recorded, FinishTick(recorded), ~live.failed
  PROVE  \E k \in Nat : /\ k = live.ceiling /\ cursor' = k /\ k >= 1 /\ cursor < k /\ cursor \in Nat
                        /\ k <= Final /\ k <= Len(chain) /\ AllMatch
                        /\ passed' = passed \cup Unread /\ passed' \subseteq Ledgers
                        /\ \A l \in 1 .. k : Done(l)'
                        /\ \A t \in Tips : tips[t].ledger # 0 => Right(t)
                        /\ faults.reorgs = 0 /\ faults.backfills = 0 /\ passed' = {} => Told(k, k)
                        /\ checkpoints' = checkpoints \/ checkpoints' = RecordCheckpoint(k)
<1>1. /\ ChainTypes /\ MarkTypes /\ live \in LiveRecords /\ ChainInv /\ TableInv /\ LiveInv /\ HistInv /\ cursor \in Nat
      /\ passed \subseteq Ledgers
  BY MarksAre DEF FInv, Types
<1>2. PICK v \in LiveRecords : v = live
  BY <1>1
<1>3. v.pc = "finish" /\ ~v.failed
  BY <1>2 DEF FinishTick
<1>4. AllMatch /\ TickBounds(v) /\ Progress(v)
  BY <1>1, <1>2, <1>3 DEF LiveInv, TickFits
<1>5. PICK k \in Nat : k = v.ceiling
  BY <1>1, <1>4, TickNumbers
<1>6. PICK r \in Nat : r = Reached(v) /\ r <= k /\ cursor <= r
  BY <1>1, <1>4, <1>5, TickNumbers
<1>7. /\ v.start \in Nat /\ v.start = (IF cursor > 0 THEN cursor + 1 ELSE StartLedger)
      /\ v.start <= k /\ k >= 1 /\ v.seen \in Nat /\ v.seen <= k
  <2>1. v.seen \in (v.start - 1) .. k /\ v.start <= k
    BY <1>4, <1>5 DEF TickBounds
  <2> QED BY <1>1, <1>4, <1>5, <2>1, TickNumbers
<1>8. cursor < k
  BY <1>1, <1>7, Constants
<1>9. k <= Final /\ k <= Len(chain)
  BY <1>4, <1>5 DEF TickBounds, LatestLedger
<1>10. Max({v.seen, k}) = k
  BY <1>5, <1>7, MaxOfTwo
<1>11. /\ cursor' = k /\ passed' = passed \cup Unread
       /\ checkpoints' = checkpoints \/ checkpoints' = RecordCheckpoint(k)
       /\ UNCHANGED <<chain, peak, tips, goal>>
  <2>1. PICK next : next = Max({live.seen, live.ceiling})
    OBVIOUS
  <2>2. next = k
    BY <1>2, <1>5, <1>10, <2>1
  <2>3. Advance(recorded) /\ UNCHANGED <<chain, peak, tips, goal>>
    BY DEF FinishTick, rows
  <2>4. /\ cursor' = next /\ passed' = passed \cup Unread
        /\ checkpoints' = checkpoints \/ checkpoints' = RecordCheckpoint(next)
    BY <2>1, <2>3 DEF Advance
  <2> QED BY <2>2, <2>3, <2>4
<1>12. \A l \in OnChain : r < l /\ l <= k => l \in passed'
  <2>1. CASE NoneLeft(v, r)
    BY <1>5, <2>1 DEF NoneLeft
  <2>2. CASE v.pages = MaxPages
    <3>1. ASSUME NEW l \in OnChain, r < l, l <= k PROVE l \in Unread
      <4>1. (IF live.token > 0 THEN live.token ELSE live.start - 1) = r
        BY <1>2, <1>6 DEF Reached
      <4> QED BY <1>2, <1>5, <2>2, <3>1, <4>1 DEF Unread
    <3> QED BY <1>11, <3>1
  <2> QED BY <1>3, <1>4, <1>6, <2>1, <2>2 DEF Progress
<1>13. Sound(cursor) /\ \A t \in Tips : tips[t].ledger # 0 => Right(t)
  BY <1>1, <1>4 DEF TableInv
<1>14. \A l \in 1 .. r : Done(l)
  <2>1. PICK n \in Nat : n = r + 1
    OBVIOUS
  <2>2. \A l \in OnChain : Reached(v) < l /\ l <= n => l = n
    <3>1. \A l \in OnChain : l \in Nat
      BY <1>1, ChainIs
    <3> QED BY <1>6, <2>1, <3>1
  <2>3. DoneBelow(n)
    BY <1>1, <1>4, <1>13, <2>2, BelowNext
  <2>4. \A l \in 1 .. r : l \in 1 .. (n - 1)
    BY <2>1
  <2> QED BY <2>3, <2>4 DEF DoneBelow
<1>15. \A l \in 1 .. k : Done(l)'
  <2>1. ChainTypes' /\ SameUpTo(r) /\ StaysPassed(r) /\ OnChain' = OnChain
    <3>1. r <= Len(chain)
      BY <1>1, <1>6, <1>9, ChainIs
    <3> QED BY <1>1, <1>11, <3>1 DEF ChainTypes, SameUpTo, StaysPassed, OnChain
  <2>2. \A l \in 1 .. r : Done(l)'
    BY <1>1, <1>11, <1>14, <2>1, DoneSame
  <2>3. ASSUME NEW l \in 1 .. k, ~(l \in 1 .. r) PROVE Done(l)'
    <3>1. r < l /\ l <= k
      BY <1>6, <2>3
    <3> QED BY <1>12, <2>1, <3>1 DEF Done
  <2> QED BY <2>2, <2>3
<1>16. ASSUME faults.reorgs = 0, faults.backfills = 0, passed' = {} PROVE Told(k, k)
  <2>1. Told(r, k)
    <3>1. passed = {}
      BY <1>11, <1>16
    <3>2. Told(IF live.failed THEN cursor ELSE Reached(live), live.ceiling)
      BY <1>1, <1>2, <1>3, <1>16, <3>1 DEF HistInv
    <3> QED BY <1>2, <1>3, <1>5, <1>6, <3>2
  <2>2. \A l \in OnChain : ~(r < l /\ l <= k)
    BY <1>12, <1>16
  <2> QED BY <1>1, <1>6, <2>1, <2>2, ToldForward
<1>17. k = live.ceiling
  BY <1>2, <1>5
<1>18. passed' \subseteq Ledgers
  <2>1. Unread \subseteq Ledgers
    BY <1>1, ChainIs, Constants DEF Unread, Ledgers
  <2> QED BY <1>1, <1>11, <2>1
<1> QED BY <1>1, <1>4, <1>7, <1>8, <1>9, <1>11, <1>13, <1>15, <1>16, <1>17, <1>18

\* Nothing is to come between a ledger and itself.
LEMMA ToldHere ==
  ASSUME ChainTypes, NEW k \in Nat, Told(k, k) PROVE goal = GoalOnChain(k) /\ credit = LastOf({"credit"}, k)
<1>1. \A topics : ~Coming(topics, k, k)
  <2>1. \A l \in OnChain : l \in Nat
    BY ChainIs
  <2> QED BY <2>1 DEF Coming
<1> QED BY <1>1 DEF Told

\* A recorded checkpoint is of a ledger the chain has, and only the newest stay.
LEMMA RecordTypes ==
  ASSUME ChainTypes, MarkTypes, NEW k \in Nat, k >= 1, k <= Len(chain), checkpoints' = RecordCheckpoint(k)
  PROVE  /\ checkpoints' \subseteq checkpoints \cup {[ledger |-> k, hash |-> chain[k].branch]}
         /\ checkpoints' \subseteq [ledger : Ledgers, hash : 0 .. MaxReorgs]
         /\ IsFiniteSet(checkpoints') /\ Cardinality(checkpoints') <= Lookback
         /\ \A c \in checkpoints' : c.ledger <= peak
<1> DEFINE all == {c \in checkpoints : c.ledger # k} \cup {[ledger |-> k, hash |-> chain[k].branch]}
<1>1. /\ Len(chain) \in Nat /\ Len(chain) <= peak /\ peak <= MaxLedger /\ peak \in Nat /\ MaxLedger \in Nat
      /\ chain[k].branch \in 0 .. MaxReorgs
  <2>1. k \in 1 .. Len(chain)
    BY ChainIs
  <2>2. chain[k] \in [branch : 0 .. MaxReorgs, event : Events \cup {NoEvent}]
    BY <2>1, ChainIs
  <2>3. chain[k].branch \in 0 .. MaxReorgs
    BY <2>2
  <2> QED BY <2>3, ChainIs, Constants
<1>2. checkpoints \subseteq [ledger : Ledgers, hash : 0 .. MaxReorgs] /\ IsFiniteSet(checkpoints)
      /\ \A c \in checkpoints : c.ledger <= peak
  BY DEF MarkTypes
<1>3. PICK new : new = [ledger |-> k, hash |-> chain[k].branch]
  OBVIOUS
<1>4. new \in [ledger : Ledgers, hash : 0 .. MaxReorgs] /\ new.ledger = k
  BY <1>1, <1>3 DEF Ledgers
<1>5. all \subseteq checkpoints \cup {new}
  BY <1>3
<1>6. RecordCheckpoint(k) = Newest(all)
  BY DEF RecordCheckpoint, Newest, AtLeast
<1> HIDE DEF all
<1>7. IsFiniteSet(all) /\ \A c \in all : c.ledger \in Nat
  <2>1. IsFiniteSet(checkpoints \cup {new})
    BY <1>2, FS_AddElement
  <2>2. \A c \in checkpoints : c.ledger \in Nat
    BY MarksAre
  <2> QED BY <1>4, <1>5, <2>1, <2>2, FS_Subset
<1>8. Newest(all) \subseteq all /\ IsFiniteSet(Newest(all)) /\ Cardinality(Newest(all)) <= Lookback
  BY <1>7, NewestAre
<1>9. checkpoints' \subseteq checkpoints \cup {new}
  BY <1>5, <1>6, <1>8
<1>10. IsFiniteSet(checkpoints') /\ Cardinality(checkpoints') <= Lookback
  BY <1>6, <1>8
<1>11. \A c \in checkpoints' : c.ledger <= peak
  BY <1>1, <1>2, <1>4, <1>9
<1> QED BY <1>2, <1>3, <1>4, <1>9, <1>10, <1>11

LEMMA RecordIs ==
  ASSUME ChainTypes, MarkTypes, ChainInv, CheckInv, AllMatch, NEW k \in Nat, k >= 1, k <= Len(chain),
         cursor < k, cursor \in Nat, faults \in Faults,
         checkpoints' = checkpoints \/ checkpoints' = RecordCheckpoint(k), cursor' = k,
         UNCHANGED <<chain, peak>>
  PROVE  /\ MarkTypes'
         /\ \A c \in checkpoints' : Matches(c) /\ c.ledger <= k /\ c.ledger \in Nat /\ c.ledger >= 1
                                    /\ c.hash <= faults.reorgs
<1>1. Len(chain) \in Nat /\ Len(chain) <= peak /\ peak \in Nat /\ k \in DOMAIN chain
  BY ChainIs
<1>2. PICK new : new = [ledger |-> k, hash |-> chain[k].branch]
  OBVIOUS
<1>3. /\ checkpoints' \subseteq checkpoints \cup {new}
      /\ checkpoints' \subseteq [ledger : Ledgers, hash : 0 .. MaxReorgs]
      /\ IsFiniteSet(checkpoints') /\ Cardinality(checkpoints') <= Lookback
      /\ \A c \in checkpoints' : c.ledger <= peak
  <2>1. CASE checkpoints' = checkpoints
    BY <2>1 DEF MarkTypes
  <2>2. CASE checkpoints' = RecordCheckpoint(k)
    BY <1>2, <2>2, RecordTypes
  <2> QED BY <2>1, <2>2
<1>4. ASSUME NEW c \in checkpoints
      PROVE  Matches(c) /\ c.ledger <= k /\ c.ledger \in Nat /\ c.ledger >= 1 /\ c.hash <= faults.reorgs
  <2>1. c.ledger \in Nat /\ c.ledger >= 1 /\ c.ledger <= cursor /\ c.hash <= faults.reorgs
    BY MarksAre DEF CheckInv
  <2> QED BY <2>1 DEF AllMatch
<1>5. Matches(new) /\ new.ledger <= k /\ new.ledger \in Nat /\ new.ledger >= 1 /\ new.hash <= faults.reorgs
  <2>1. new.hash <= faults.reorgs
    BY <1>1, <1>2 DEF ChainInv
  <2> QED BY <1>2, <2>1 DEF Matches, LatestLedger
<1>6. cursor' \in 0 .. peak'
  BY <1>1
<1>7. MarkTypes'
  BY <1>3, <1>6 DEF MarkTypes
<1> QED BY <1>3, <1>4, <1>5, <1>7

LEMMA FinishInv == ASSUME FInv, NEW recorded \in BOOLEAN, FinishTick(recorded) PROVE FInv'
<1>1. /\ ChainTypes /\ MarkTypes /\ RowTypes /\ live \in LiveRecords /\ backfill \in BackfillRecords
      /\ faults \in Faults /\ ChainInv /\ CheckInv /\ TableInv /\ LiveInv /\ BackInv /\ HistInv
      /\ passed \subseteq Ledgers /\ scenario \in Scenarios /\ cursor \in Nat
  BY MarksAre DEF FInv, Types
<1>2. /\ live.pc = "finish" /\ live' = Idle
      /\ UNCHANGED <<chain, peak, eventLog, tips, goal, credit, sub, published, backfill, scenario>>
      /\ live.failed => UNCHANGED <<cursor, checkpoints, passed>>
  BY DEF FinishTick, rows
<1>3. SameLimits
  <2>1. UNCHANGED faults \/ CountFailure("horizon")
    BY DEF FinishTick
  <2> QED BY <1>1, <2>1, FailureCounted DEF SameLimits
<1>4. PICK w \in LiveRecords : w = Idle /\ w.pc = "idle"
  BY IdleIs
<1>5. CASE live.failed
  <2>1. UNCHANGED <<chain, peak, db, backfill, ghosts>>
    BY <1>2, <1>5 DEF db, ghosts
  <2>2. ASSUME faults.reorgs = 0, faults.backfills = 0 PROVE TicksTold(w)
    <3>1. TickBounds(live)
      BY <1>1, <1>2 DEF LiveInv, TickFits
    <3>2. passed = {} => Told(IF live.failed THEN cursor ELSE Reached(live), live.ceiling)
      BY <1>1, <1>2, <2>2 DEF HistInv
    <3>3. passed = {} => Told(cursor, LatestLedger - FinalityDepth)
      BY <1>1, <2>2, <3>1, <3>2, IdleTold
    <3> QED BY <1>4, <3>3 DEF TicksTold
  <2> QED BY <1>2, <1>3, <1>4, <2>1, <2>2, LiveStep
<1>6. CASE ~live.failed
  <2>1. PICK k \in Nat : /\ k = live.ceiling /\ cursor' = k /\ k >= 1 /\ cursor < k
                         /\ k <= Final /\ k <= Len(chain) /\ AllMatch
                         /\ passed' = passed \cup Unread /\ passed' \subseteq Ledgers
                         /\ \A l \in 1 .. k : Done(l)'
                         /\ \A t \in Tips : tips[t].ledger # 0 => Right(t)
                         /\ faults.reorgs = 0 /\ faults.backfills = 0 /\ passed' = {} => Told(k, k)
                         /\ checkpoints' = checkpoints \/ checkpoints' = RecordCheckpoint(k)
    BY <1>6, FinishIs
  <2>2. MarkTypes' /\ \A c \in checkpoints' : /\ Matches(c) /\ c.ledger <= k /\ c.ledger \in Nat /\ c.ledger >= 1
                                              /\ c.hash <= faults.reorgs
    BY <1>1, <1>2, <2>1, RecordIs
  <2>3. /\ \A c : Matches(c)' <=> Matches(c)
        /\ \A t : Right(t)' <=> Right(t)
        /\ Final' = Final /\ LatestLedger' = LatestLedger /\ OnChain' = OnChain
        /\ ChainTypes' /\ RowTypes' /\ RowsFit'
    <3>1. OnChain' = OnChain /\ Final' = Final /\ LatestLedger' = LatestLedger
      BY <1>2 DEF OnChain, Final, LatestLedger
    <3>2. (\A t : Right(t)' <=> Right(t)) /\ (\A c : Matches(c)' <=> Matches(c))
      BY <1>2, <3>1 DEF Right, Matches
    <3>3. ChainTypes' /\ RowTypes' /\ RowsFit'
      BY <1>1, <1>2, <3>1 DEF ChainTypes, RowTypes, RowsFit, TableInv
    <3> QED BY <3>1, <3>2, <3>3
  <2>4. CheckInv'
    BY <1>3, <2>1, <2>2, <2>3 DEF CheckInv, SameLimits
  <2>5. ASSUME NEW n \in Nat, n <= k PROVE Sound(n)'
    <3>1. n <= LatestLedger'
      <4>1. Len(chain) \in Nat /\ LatestLedger' = Len(chain)
        BY <1>1, <2>3, ChainIs DEF LatestLedger
      <4> QED BY <2>1, <2>5, <4>1
    <3>2. \A l \in 1 .. n : l \in 1 .. k
      BY <2>5
    <3>3. \A l \in 1 .. n : Done(l)'
      BY <2>1, <3>2
    <3>4. \A t \in Tips : tips'[t].ledger \in 1 .. n => Right(t)'
      BY <1>2, <2>1, <2>3
    <3> QED BY <3>1, <3>3, <3>4 DEF Sound
  <2>6. TableInv'
    <3>1. ASSUME NEW c \in checkpoints' PROVE Sound(c.ledger)' /\ Sound(c.ledger - 1)'
      <4>1. c.ledger \in Nat /\ c.ledger - 1 \in Nat /\ c.ledger <= k /\ c.ledger - 1 <= k
        BY <2>2, <3>1
      <4> QED BY <2>5, <4>1
    <3>2. Sound(cursor)'
      <4>1. Sound(k)'
        BY <2>5
      <4> QED BY <2>1, <4>1 DEF Sound
    <3>3. \A t \in Tips : tips'[t].ledger # 0 => Right(t)'
      BY <1>2, <2>1, <2>3
    <3> QED BY <2>3, <3>1, <3>2, <3>3 DEF TableInv
  <2>7. ChainInv' /\ BackInv'
    BY <1>1, <1>2, <1>3, ChainStill, BackStill DEF SameLimits
  <2>8. live' \in LiveRecords /\ live'.pc = "idle" /\ LiveInv'
    BY <1>2, <1>4 DEF LiveInv
  <2>10. HistInv'
    <3> SUFFICES ASSUME faults'.reorgs = 0, faults'.backfills = 0 PROVE HistInv'
      BY DEF HistInv
    <3>1. faults.reorgs = 0 /\ faults.backfills = 0
      BY <1>3 DEF SameLimits
    <3>2. backfill.pc = "idle" /\ Broadcast
      BY <1>1, <3>1 DEF HistInv, Broadcast
    <3>3. ASSUME passed' = {} PROVE Told(k, LatestLedger - FinalityDepth)
      <4>1. PICK b2 \in Int : b2 = LatestLedger - FinalityDepth /\ b2 = Final
        BY <1>1, <3>1, NoForkYet
      <4>2. Told(k, b2)
        BY <1>1, <2>1, <3>1, <3>3, <4>1, ToldBack
      <4> QED BY <4>1, <4>2
    <3>4. \A n, b : Told(n, b)' <=> Told(n, b)
      <4>1. \A topics, n : LastOf(topics, n)' = LastOf(topics, n)
        BY <1>2 DEF LastOf, OnChain
      <4>2. (\A n : GoalOnChain(n)' = GoalOnChain(n)) /\ \A topics, n, b : Coming(topics, n, b)' <=> Coming(topics, n, b)
        BY <1>2, <4>1 DEF GoalOnChain, Coming, Bears, OnChain
      <4> QED BY <1>2, <4>1, <4>2 DEF Told
    <3>5. passed' = {} => Told(cursor, LatestLedger - FinalityDepth)'
      BY <2>1, <2>3, <3>3, <3>4
    <3>6. Broadcast'
      BY <1>2, <3>2 DEF Broadcast
    <3> QED BY <1>2, <2>8, <3>2, <3>5, <3>6 DEF HistInv, Broadcast
  <2>11. Types'
    BY <1>1, <1>2, <1>3, <2>1, <2>2, <2>3, <2>8 DEF Types, SameLimits
  <2> QED BY <2>4, <2>6, <2>7, <2>8, <2>10, <2>11 DEF FInv
<1> QED BY <1>5, <1>6

LEMMA StutterInv == ASSUME FInv, UNCHANGED vars PROVE FInv'
<1>1. UNCHANGED <<chain, peak, db, live, backfill, ghosts>> /\ UNCHANGED faults
  BY DEF vars
<1>2. /\ live \in LiveRecords /\ faults \in Faults /\ LiveInv /\ HistInv
  BY DEF FInv, Types
<1>3. PICK w \in LiveRecords : w = live
  BY <1>2
<1>4. w.pc # "idle" => AllMatch /\ TickFits(w)
  BY <1>2, <1>3 DEF LiveInv
<1>5. faults.reorgs = 0 /\ faults.backfills = 0 => TicksTold(w)
  BY <1>2, <1>3 DEF HistInv, TicksTold
<1>6. SameLimits /\ live' = w
  BY <1>1, <1>2, <1>3 DEF SameLimits
<1> QED BY <1>1, <1>4, <1>5, <1>6, LiveStep

-----------------------------------------------------------------------------
(* What stands after a fork that went unseen, too: the types.                *)

SameForks == faults' \in Faults /\ faults'.reorgs = faults.reorgs /\ faults'.blind = faults.blind

LEMMA BasicStep ==
  ASSUME Basic, UNCHANGED <<chain, peak, scenario>>, MarkTypes', RowTypes', passed' \subseteq Ledgers,
         live' \in LiveRecords, backfill' \in BackfillRecords, LiveShape', BackShape', SameForks
  PROVE  Basic'
<1>1. ChainTypes' /\ scenario' \in Scenarios
  BY DEF Basic, Types, ChainTypes
<1>2. Types'
  BY <1>1 DEF Types, SameForks
<1> QED BY <1>2 DEF Basic, SameForks

\* A step that changes local variables only.
LEMMA LocalStep ==
  ASSUME Basic, UNCHANGED <<chain, peak, db, ghosts>>,
         live' \in LiveRecords, backfill' \in BackfillRecords, LiveShape', BackShape', SameForks
  PROVE  Basic'
<1>1. /\ UNCHANGED <<passed, scenario>>
      /\ UNCHANGED <<cursor, checkpoints, eventLog, tips, goal, credit, sub, published>>
  BY DEF db, ghosts
<1>2. MarkTypes /\ RowTypes /\ passed \subseteq Ledgers
  BY DEF Basic, Types
<1>3. MarkTypes' /\ RowTypes' /\ passed' \subseteq Ledgers
  BY <1>1, <1>2 DEF MarkTypes, RowTypes
<1> QED BY <1>1, <1>3, BasicStep

\* A step that writes an event and changes no mark.
LEMMA RowStep ==
  ASSUME Basic, UNCHANGED <<chain, peak, cursor, checkpoints, ghosts>>, RowTypes',
         live' \in LiveRecords, backfill' \in BackfillRecords, LiveShape', BackShape', SameForks
  PROVE  Basic'
<1>1. UNCHANGED <<passed, scenario>> /\ MarkTypes /\ passed \subseteq Ledgers
  BY DEF ghosts, Basic, Types
<1>2. MarkTypes' /\ passed' \subseteq Ledgers
  BY <1>1 DEF MarkTypes
<1> QED BY <1>1, <1>2, BasicStep

LEMMA BasicExtend == ASSUME Basic, Extend PROVE Basic' /\ SameForks
<1>1. /\ ChainTypes /\ MarkTypes /\ RowTypes /\ live \in LiveRecords /\ backfill \in BackfillRecords
      /\ faults \in Faults /\ passed \subseteq Ledgers /\ scenario \in Scenarios /\ LiveShape /\ BackShape
  BY DEF Basic, Types
<1>2. /\ UNCHANGED <<cursor, checkpoints, eventLog, tips, goal, credit, sub, published, live, backfill, passed, scenario, faults>>
      /\ peak \in Nat /\ peak' \in Nat /\ peak' >= peak /\ ChainTypes'
  BY <1>1, ExtendIs, ChainIs DEF db, ghosts
<1>3. MarkTypes'
  <2>1. cursor' \in 0 .. peak'
    BY <1>1, <1>2 DEF MarkTypes
  <2>2. \A c \in checkpoints' : c.ledger <= peak'
    <3>1. \A c \in checkpoints : c.ledger <= peak /\ c.ledger \in Nat
      BY <1>1, MarksAre DEF MarkTypes
    <3> QED BY <1>2, <3>1
  <2> QED BY <1>1, <1>2, <2>1, <2>2 DEF MarkTypes
<1>4. RowTypes'
  BY <1>1, <1>2 DEF RowTypes
<1>5. LiveShape'
  <2>1. live.pc # "idle" => live.ceiling <= peak' /\ live.seen <= peak'
    BY <1>1, <1>2 DEF LiveShape, LiveRecords
  <2> QED BY <1>1, <1>2, <2>1 DEF LiveShape
<1>6. BackShape' /\ SameForks
  BY <1>1, <1>2 DEF BackShape, SameForks
<1>7. Types'
  BY <1>1, <1>2, <1>3, <1>4 DEF Types
<1> QED BY <1>2, <1>5, <1>6, <1>7 DEF Basic

LEMMA BasicReorg ==
  ASSUME Basic, NEW fork \in 0 .. MaxLedger, Reorg(fork) PROVE Basic' /\ (~faults'.blind => ~faults.blind)
<1>1. /\ ChainTypes /\ MarkTypes /\ RowTypes /\ live \in LiveRecords /\ backfill \in BackfillRecords
      /\ faults \in Faults /\ passed \subseteq Ledgers /\ scenario \in Scenarios /\ LiveShape /\ BackShape
  BY DEF Basic, Types
<1>2. /\ UNCHANGED <<peak, cursor, checkpoints, eventLog, tips, goal, credit, sub, published, live, backfill, passed, scenario>>
      /\ ChainTypes' /\ faults' \in Faults /\ faults'.reorgs = faults.reorgs + 1
      /\ faults'.blind <=> faults.blind \/ ~Seen(fork)
  BY <1>1, ReorgIs DEF db, ghosts
<1>3. MarkTypes' /\ RowTypes' /\ LiveShape' /\ BackShape'
  BY <1>1, <1>2 DEF MarkTypes, RowTypes, LiveShape, BackShape
<1>4. faults'.reorgs # 0
  BY <1>1, <1>2, Constants DEF Faults
<1>5. Types'
  BY <1>1, <1>2, <1>3 DEF Types
<1> QED BY <1>2, <1>3, <1>4, <1>5 DEF Basic

LEMMA BasicRecover == ASSUME Basic, RecoverFromReorg PROVE Basic' /\ SameForks
<1>1. /\ ChainTypes /\ MarkTypes /\ RowTypes /\ live \in LiveRecords /\ backfill \in BackfillRecords
      /\ faults \in Faults /\ passed \subseteq Ledgers /\ LiveShape /\ BackShape /\ peak \in Nat
  BY DEF Basic, Types, ChainTypes
<1>2. PICK fork : fork = DetectReorg.fork
  OBVIOUS
<1>3. /\ UNCHANGED <<chain, peak, live, backfill, scenario, faults, goal, credit, sub, published>>
      /\ tips' = [t \in Tips |-> IF tips[t].ledger > fork THEN [ledger |-> 0, refunded |-> FALSE]
                                 ELSE tips[t]]
      /\ eventLog' = [e \in Events |-> [l \in Ledgers |-> IF l > fork THEN 0 ELSE eventLog[e][l]]]
      /\ checkpoints' = {c \in checkpoints : c.ledger <= fork}
      /\ cursor' = fork /\ passed' = {l \in passed : l <= fork}
  BY <1>2 DEF RecoverFromReorg, RollbackToLedger
<1>4. fork \in 0 .. peak
  <2>1. PICK c \in checkpoints : fork = c.ledger \/ fork = c.ledger - 1
    BY <1>1, <1>2, DetectIs DEF RecoverFromReorg
  <2>2. c.ledger \in 1 .. MaxLedger /\ c.ledger \in Nat /\ c.ledger <= peak
    BY <1>1, <2>1, MarksAre DEF MarkTypes
  <2>3. c.ledger >= 1
    BY <2>2, Constants
  <2> QED BY <1>1, <2>1, <2>2, <2>3
<1>5. MarkTypes'
  <2>1. checkpoints' \subseteq checkpoints
    BY <1>3
  <2>2. IsFiniteSet(checkpoints) /\ Cardinality(checkpoints) <= Lookback /\ Cardinality(checkpoints) \in Nat
    BY <1>1, FS_CardinalityType DEF MarkTypes
  <2>3. IsFiniteSet(checkpoints') /\ Cardinality(checkpoints') <= Cardinality(checkpoints)
    BY <2>1, <2>2, FS_Subset
  <2>4. Cardinality(checkpoints') \in Nat
    BY <2>3, FS_CardinalityType
  <2>5. Cardinality(checkpoints') <= Lookback
    BY <2>2, <2>3, <2>4, Constants
  <2>6. cursor' \in 0 .. peak' /\ \A c \in checkpoints' : c.ledger <= peak'
    BY <1>1, <1>3, <1>4, <2>1 DEF MarkTypes
  <2>7. checkpoints' \subseteq [ledger : Ledgers, hash : 0 .. MaxReorgs]
    BY <1>1, <2>1 DEF MarkTypes
  <2> QED BY <2>3, <2>5, <2>6, <2>7 DEF MarkTypes
<1>6. RowTypes'
  <2>1. [ledger |-> 0, refunded |-> FALSE] \in TipRows
    BY Constants DEF TipRows
  <2>2. tips \in [Tips -> TipRows] /\ eventLog \in [Events -> [Ledgers -> Nat]]
    BY <1>1 DEF RowTypes
  <2>3. tips' \in [Tips -> TipRows]
    BY <1>3, <2>1, <2>2
  <2>4. eventLog' \in [Events -> [Ledgers -> Nat]]
    BY <1>3, <2>2
  <2> QED BY <1>1, <1>3, <2>3, <2>4 DEF RowTypes
<1>7. LiveShape' /\ BackShape' /\ SameForks /\ passed' \subseteq Ledgers
  BY <1>1, <1>3 DEF LiveShape, BackShape, SameForks
<1> QED BY <1>1, <1>3, <1>5, <1>6, <1>7, BasicStep

\* What the types say of the two loops.
LEMMA BasicIs ==
  ASSUME Basic
  PROVE  /\ ChainTypes /\ MarkTypes /\ RowTypes /\ live \in LiveRecords /\ backfill \in BackfillRecords
         /\ faults \in Faults /\ passed \subseteq Ledgers /\ scenario \in Scenarios /\ LiveShape /\ BackShape
         /\ peak \in Nat /\ cursor \in Nat
         /\ live.page \in SUBSET PageEntries /\ live.ceiling \in Nat /\ live.seen \in Nat /\ live.isNew \in BOOLEAN
         /\ backfill.page \in SUBSET PageEntries /\ backfill.isNew \in BOOLEAN
         /\ UNCHANGED faults => SameForks
<1>1. /\ ChainTypes /\ MarkTypes /\ RowTypes /\ live \in LiveRecords /\ backfill \in BackfillRecords
      /\ faults \in Faults /\ passed \subseteq Ledgers /\ scenario \in Scenarios /\ LiveShape /\ BackShape
  BY DEF Basic, Types
<1>2. peak \in Nat /\ cursor \in Nat
  BY <1>1, MarksAre DEF ChainTypes
<1> QED BY <1>1, <1>2 DEF LiveRecords, BackfillRecords, SameForks

LEMMA BasicBegin == ASSUME Basic, BeginTick PROVE Basic' /\ SameForks
<1>1. PICK start : start = ResolveStartLedger
  OBVIOUS
<1>2. PICK ceiling : ceiling = LatestLedger - FinalityDepth
  OBVIOUS
<1>3. /\ ceiling >= start /\ UNCHANGED <<chain, peak, db, backfill, ghosts, faults>>
      /\ live' = [Idle EXCEPT !.pc = "page", !.start = start, !.ceiling = ceiling, !.seen = start - 1]
  BY Zenon, <1>1, <1>2 DEF BeginTick
<1>4. start \in Nat /\ start >= 1
  BY <1>1, BasicIs, Constants DEF ResolveStartLedger
<1>5. ceiling \in Nat /\ ceiling >= 1 /\ ceiling <= peak /\ start - 1 <= peak /\ start - 1 \in Nat
  <2>1. LatestLedger \in Nat /\ LatestLedger <= peak /\ peak \in Nat
    BY BasicIs, ChainIs DEF LatestLedger
  <2>2. FinalityDepth \in Nat
    BY Constants
  <2> QED BY <1>2, <1>3, <1>4, <2>1, <2>2
<1>6. live' = [pc |-> "page", start |-> start, ceiling |-> ceiling, token |-> 0, page |-> {},
               isNew |-> FALSE, pages |-> 0, processed |-> FALSE, failed |-> FALSE, seen |-> start - 1]
  BY <1>3 DEF Idle
<1>7. live' \in LiveRecords
  BY <1>4, <1>5, <1>6 DEF LiveRecords, LocalState
<1>8. LiveShape'
  <2>1. live'.pc = "page" /\ live'.ceiling = ceiling /\ live'.seen = start - 1 /\ live'.page = {}
    BY <1>6
  <2>2. live'.ceiling >= 1 /\ live'.ceiling <= peak' /\ live'.seen <= peak'
    BY <1>3, <1>5, <2>1
  <2> QED BY <2>1, <2>2 DEF LiveShape
<1>9. BackShape' /\ backfill' \in BackfillRecords /\ SameForks
  BY <1>3, BasicIs DEF BackShape
<1> QED BY <1>3, <1>7, <1>8, <1>9, LocalStep

LEMMA BasicRead == ASSUME Basic, ReadPage PROVE Basic' /\ SameForks
<1>1. /\ live \in LiveRecords /\ LiveShape /\ ChainTypes /\ scenario \in Scenarios /\ live.pc # "idle"
      /\ UNCHANGED <<chain, peak, db, backfill, ghosts, faults>>
  BY BasicIs DEF ReadPage
<1>2. PICK first \in Nat : first = IF live.token > 0 THEN live.token + 1 ELSE live.start
  BY <1>1 DEF LiveRecords
<1>3. PICK page : page = PageFrom(first) /\ page \in SUBSET PageEntries
  BY <1>1, PageIs
<1>4. PICK final : final = FinalOnes(page, live.ceiling)
  OBVIOUS
<1>5. final \in SUBSET PageEntries /\ \A x \in final : x.ledger <= live.ceiling
  BY <1>3, <1>4 DEF FinalOnes
<1>6. PICK last \in BOOLEAN : last = (live.pages = MaxPages \/ page = {} \/ (final = {} /\ ~live.processed))
  OBVIOUS
<1>7. PICK pc \in LocalState : pc = (IF last THEN "finish" ELSE IF final = {} THEN "page" ELSE "event") /\ pc # "idle"
  BY DEF LocalState
<1>8. PICK left \in SUBSET PageEntries : left = IF last THEN {} ELSE final
  BY <1>5
<1>9. PICK pages \in Nat : pages = IF last THEN live.pages ELSE live.pages + 1
  BY <1>1 DEF LiveRecords
<1>10. live' = [live EXCEPT !.pc = pc, !.page = left, !.pages = pages]
  BY <1>1, <1>2, <1>3, <1>4, <1>6, <1>7, <1>8, <1>9 DEF ReadPage, FinalOnes
<1>11. live' \in LiveRecords /\ live'.pc = pc /\ live'.page = left /\ live'.ceiling = live.ceiling /\ live'.seen = live.seen
  BY <1>1, <1>10 DEF LiveRecords
<1>12. LiveShape'
  <2>1. pc \in {"event", "project"} => left # {}
    BY <1>7, <1>8
  <2>2. \A x \in left : x.ledger <= live.ceiling
    BY <1>5, <1>8
  <2> QED BY <1>1, <1>11, <2>1, <2>2 DEF LiveShape
<1>13. BackShape' /\ backfill' \in BackfillRecords /\ SameForks
  BY <1>1, BasicIs DEF BackShape
<1> QED BY <1>1, <1>11, <1>12, <1>13, LocalStep

LEMMA BasicLookUp == ASSUME Basic, LookUp PROVE Basic' /\ SameForks
<1>1. /\ live \in LiveRecords /\ LiveShape /\ live.pc = "event"
      /\ UNCHANGED <<chain, peak, db, backfill, ghosts, faults>>
  BY BasicIs DEF LookUp
<1>2. PICK new \in BOOLEAN : new = ~IsLogged(Earliest(live.page))
  BY DEF IsLogged
<1>3. live' = [live EXCEPT !.pc = "project", !.isNew = new]
  BY <1>2 DEF LookUp
<1>4. live' \in LiveRecords /\ live'.page = live.page /\ live'.ceiling = live.ceiling /\ live'.seen = live.seen
  BY <1>1, <1>3 DEF LiveRecords, LocalState
<1>5. LiveShape'
  BY <1>1, <1>4 DEF LiveShape
<1>6. BackShape' /\ backfill' \in BackfillRecords /\ SameForks
  BY <1>1, BasicIs DEF BackShape
<1> QED BY <1>1, <1>4, <1>5, <1>6, LocalStep

\* The loop stops: its page is gone.
LEMMA IdleShape == ASSUME live' = Idle PROVE live' \in LiveRecords /\ LiveShape'
<1>1. live' \in LiveRecords /\ live'.pc = "idle"
  BY IdleIs
<1> QED BY <1>1 DEF LiveShape

LEMMA BasicReadFails == ASSUME Basic, ReadFails PROVE Basic' /\ SameForks
<1>1. live' = Idle /\ UNCHANGED <<chain, peak, db, backfill, ghosts>>
  BY DEF ReadFails
<1>2. SameForks
  BY BasicIs, FailureCounted DEF ReadFails, SameLimits, SameForks
<1>3. BackShape' /\ backfill' \in BackfillRecords
  BY <1>1, BasicIs DEF BackShape
<1> QED BY <1>1, <1>2, <1>3, IdleShape, LocalStep

LEMMA BasicProject == ASSUME Basic, NEW outcome \in Outcomes, ProjectNext(outcome) PROVE Basic' /\ SameForks
<1>1. PICK v \in LiveRecords : v = live
  BY BasicIs
<1>2. PICK x : x = Earliest(v.page)
  OBVIOUS
<1>3. /\ v.pc = "project" /\ ProjectEvent(x, v.isNew, outcome) /\ CountFailure(outcome)
      /\ UNCHANGED <<chain, peak, cursor, checkpoints, backfill, passed, scenario>>
  BY <1>1, <1>2 DEF ProjectNext, ghosts
<1>4. /\ v.page \in SUBSET PageEntries /\ v.page # {} /\ v.isNew \in BOOLEAN /\ v.seen \in Nat /\ v.ceiling \in Nat
      /\ v.ceiling >= 1 /\ v.ceiling <= peak /\ v.seen <= peak /\ peak \in Nat
      /\ \A y \in v.page : y.ledger <= v.ceiling
  BY <1>1, <1>3, BasicIs DEF LiveShape
<1>5. x \in v.page /\ x \in PageEntries
  BY <1>2, <1>4, EarliestIs
<1>6. RowTypes'
  BY <1>3, <1>4, <1>5, BasicIs, ProjectTypes
<1>7. PICK rest \in SUBSET PageEntries : rest = v.page \ {x} /\ \A y \in rest : y.ledger <= v.ceiling
  BY <1>4
<1>8. PICK pc \in {"page", "event"} : pc = IF rest = {} THEN "page" ELSE "event"
  OBVIOUS
<1>9. PICK n \in Nat : n = x.ledger /\ n <= peak
  <2>1. x.ledger \in Nat /\ x.ledger <= v.ceiling
    BY <1>4, <1>5, EntryIs
  <2> QED BY <1>4, <2>1
<1>10. PICK seen \in Nat : seen = Max({v.seen, n}) /\ seen <= peak
  BY <1>4, <1>9, MaxOfTwo
<1>11. /\ outcome = "ok" => live' = [v EXCEPT !.pc = pc, !.page = rest, !.isNew = FALSE, !.token = n,
                                              !.processed = TRUE, !.seen = Max({v.seen, n})]
       /\ outcome # "ok" => live' = [v EXCEPT !.pc = pc, !.page = rest, !.isNew = FALSE, !.failed = TRUE]
  BY <1>1, <1>2, <1>7, <1>8, <1>9 DEF ProjectNext, LiveRecords
<1>12. /\ live' \in LiveRecords /\ live'.pc = pc /\ live'.page = rest /\ live'.ceiling = v.ceiling
       /\ live'.seen <= peak
  <2>1. CASE outcome = "ok"
    <3>1. live' = [v EXCEPT !.pc = pc, !.page = rest, !.isNew = FALSE, !.token = n,
                            !.processed = TRUE, !.seen = seen]
      BY <1>10, <1>11, <2>1
    <3> QED BY <1>10, <3>1 DEF LiveRecords, LocalState
  <2>2. CASE outcome # "ok"
    <3>1. live' = [v EXCEPT !.pc = pc, !.page = rest, !.isNew = FALSE, !.failed = TRUE]
      BY <1>11, <2>2
    <3> QED BY <1>4, <3>1 DEF LiveRecords, LocalState
  <2> QED BY <2>1, <2>2
<1>13. LiveShape'
  <2>1. pc \in {"event", "project"} => rest # {}
    BY <1>8
  <2> QED BY <1>3, <1>4, <1>7, <1>12, <2>1 DEF LiveShape
<1>14. SameForks
  BY <1>3, BasicIs, FailureCounted DEF SameLimits, SameForks
<1>15. BackShape' /\ backfill' \in BackfillRecords /\ UNCHANGED ghosts
  BY <1>3, BasicIs DEF BackShape, ghosts
<1> QED BY <1>3, <1>6, <1>12, <1>13, <1>14, <1>15, RowStep

LEMMA BasicRestart == ASSUME Basic, NEW stored \in BOOLEAN, Restart(stored) PROVE Basic' /\ SameForks
<1>1. PICK v \in LiveRecords : v = live
  BY BasicIs
<1>2. PICK x : x = Earliest(v.page)
  OBVIOUS
<1>3. CountFailure("crash") /\ live' = Idle /\ UNCHANGED <<chain, peak, cursor, checkpoints, backfill, ghosts>>
  BY DEF Restart
<1>4. \/ v.pc = "project" /\ PersistEventLog(x, v.isNew) /\ UNCHANGED <<tips, goal, credit, sub, published>>
      \/ UNCHANGED <<eventLog, tips, goal, credit, sub, published>>
  BY <1>1, <1>2 DEF Restart, rows
<1>5. eventLog' \in [Events -> [Ledgers -> Nat]]
  <2>1. CASE v.pc = "project" /\ PersistEventLog(x, v.isNew)
    <3>1. v.page \in SUBSET PageEntries /\ v.page # {} /\ v.isNew \in BOOLEAN
      BY <1>1, <2>1, BasicIs DEF LiveShape
    <3>2. x \in PageEntries
      BY <1>2, <3>1, EarliestIs
    <3> QED BY <2>1, <3>1, <3>2, BasicIs, LogKept
  <2>2. CASE UNCHANGED eventLog
    BY <2>2, BasicIs DEF RowTypes
  <2> QED BY <1>4, <2>1, <2>2
<1>6. RowTypes'
  BY <1>4, <1>5, BasicIs DEF RowTypes
<1>7. BackShape' /\ backfill' \in BackfillRecords
  BY <1>3, BasicIs DEF BackShape
<1>8. SameForks
  BY <1>3, BasicIs, FailureCounted DEF SameLimits, SameForks
<1> QED BY <1>3, <1>6, <1>7, <1>8, IdleShape, RowStep

LEMMA BasicFinish == ASSUME Basic, NEW recorded \in BOOLEAN, FinishTick(recorded) PROVE Basic' /\ SameForks
<1>1. /\ live.pc = "finish" /\ live' = Idle /\ UNCHANGED <<chain, peak, rows, backfill, scenario>>
      /\ (IF live.failed THEN UNCHANGED <<cursor, checkpoints, passed>> ELSE Advance(recorded))
  BY DEF FinishTick
<1>2. SameForks
  <2>1. UNCHANGED faults \/ CountFailure("horizon")
    BY DEF FinishTick
  <2> QED BY <2>1, BasicIs, FailureCounted DEF SameLimits, SameForks
<1>3. RowTypes' /\ BackShape' /\ backfill' \in BackfillRecords
  BY <1>1, BasicIs DEF rows, RowTypes, BackShape
<1>4. CASE live.failed
  <2>1. MarkTypes' /\ passed' \subseteq Ledgers
    BY <1>1, <1>4, BasicIs DEF MarkTypes
  <2> QED BY <1>1, <1>2, <1>3, <2>1, IdleShape, BasicStep
<1>5. CASE ~live.failed
  <2>1. PICK k \in Nat : k = Max({live.seen, live.ceiling}) /\ k >= 1 /\ k <= peak
    <3>1. live.seen <= peak /\ live.ceiling <= peak /\ live.ceiling >= 1
      BY <1>1, BasicIs DEF LiveShape
    <3> QED BY <3>1, BasicIs, MaxOfTwo
  <2>2. /\ cursor' = k /\ passed' = passed \cup Unread
        /\ checkpoints' = checkpoints \/ (k <= Len(chain) /\ checkpoints' = RecordCheckpoint(k))
    BY <1>1, <1>5, <2>1 DEF Advance, LatestLedger
  <2>3. passed' \subseteq Ledgers
    <3>1. Unread \subseteq Ledgers
      BY BasicIs, ChainIs, Constants DEF Unread, Ledgers
    <3> QED BY <2>2, <3>1, BasicIs
  <2>4. /\ checkpoints' \subseteq [ledger : Ledgers, hash : 0 .. MaxReorgs]
        /\ IsFiniteSet(checkpoints') /\ Cardinality(checkpoints') <= Lookback
        /\ \A c \in checkpoints' : c.ledger <= peak
    <3>1. CASE checkpoints' = checkpoints
      BY <3>1, BasicIs DEF MarkTypes
    <3>2. CASE k <= Len(chain) /\ checkpoints' = RecordCheckpoint(k)
      BY <2>1, <3>2, BasicIs, RecordTypes
    <3> QED BY <2>2, <3>1, <3>2
  <2>5. cursor' \in 0 .. peak'
    BY <1>1, <2>1, <2>2, BasicIs
  <2>6. MarkTypes'
    BY <1>1, <2>4, <2>5 DEF MarkTypes
  <2> QED BY <1>1, <1>2, <1>3, <2>3, <2>6, IdleShape, BasicStep
<1> QED BY <1>4, <1>5

LEMMA BasicStart ==
  ASSUME Basic, NEW from \in Ledgers, NEW to \in Ledgers, StartBackfill(from, to) PROVE Basic' /\ SameForks
<1>1. /\ UNCHANGED <<chain, peak, db, live, ghosts>>
      /\ backfill' = [NoBackfill EXCEPT !.pc = "page", !.from = from, !.to = to, !.covered = from - 1]
      /\ faults' = [faults EXCEPT !.backfills = @ + 1]
  BY DEF StartBackfill
<1>2. SameForks
  <2>1. PICK k \in Nat : k = faults.backfills + 1
    BY BasicIs DEF Faults
  <2>2. faults' = [faults EXCEPT !.backfills = k]
    BY <1>1, <2>1, BasicIs DEF Faults
  <2> QED BY <2>1, <2>2, BasicIs DEF Faults, SameForks
<1>3. backfill' \in BackfillRecords /\ BackShape'
  <2>1. from \in Nat /\ to \in Nat /\ from - 1 \in Nat
    BY Constants DEF Ledgers
  <2>2. backfill' = [pc |-> "page", from |-> from, to |-> to, covered |-> from - 1, token |-> 0,
                     page |-> {}, isNew |-> FALSE]
    BY <1>1 DEF NoBackfill
  <2> QED BY <2>1, <2>2 DEF BackfillRecords, BackShape
<1>4. live' \in LiveRecords /\ LiveShape'
  BY <1>1, BasicIs DEF LiveShape
<1> QED BY <1>1, <1>2, <1>3, <1>4, LocalStep

LEMMA BasicBackPage == ASSUME Basic, BackfillPage PROVE Basic' /\ SameForks
<1>1. UNCHANGED <<chain, peak, db, live, ghosts, faults>>
  BY DEF BackfillPage
<1>2. live' \in LiveRecords /\ LiveShape' /\ SameForks
  BY <1>1, BasicIs DEF LiveShape
<1>3. PICK first \in Nat : first = IF backfill.token > 0 THEN backfill.token + 1 ELSE backfill.from
  BY BasicIs DEF BackfillRecords
<1>4. PICK wanted \in SUBSET PageEntries : wanted = FinalOnes(PageFrom(first), backfill.to)
  BY <1>3, BasicIs, PageIs DEF FinalOnes
<1>5. PICK covered \in Nat : covered = Min({Max({backfill.covered, LatestLedger}), backfill.to})
  <2>1. LatestLedger \in Nat /\ backfill.covered \in Nat /\ backfill.to \in Nat
    BY BasicIs, ChainIs DEF LatestLedger, BackfillRecords
  <2>2. PICK m \in Nat : m = Max({backfill.covered, LatestLedger})
    BY <2>1, MaxOfTwo
  <2>3. Min({m, backfill.to}) \in Nat
    BY <2>1, <2>2, MinOfTwo
  <2> QED BY <2>2, <2>3
<1>6. PICK over \in BOOLEAN : over = (backfill.covered >= backfill.to \/ PageFrom(first) = {})
  OBVIOUS
<1>7. PICK pc \in {"page", "event"} : pc = IF wanted = {} THEN "page" ELSE "event"
  OBVIOUS
<1>8. backfill' = IF over THEN NoBackfill
                  ELSE [backfill EXCEPT !.pc = pc, !.page = wanted, !.covered = covered]
  BY <1>3, <1>4, <1>5, <1>6, <1>7 DEF BackfillPage, FinalOnes
<1>9. CASE over
  <2>1. backfill' \in BackfillRecords /\ BackShape'
    BY <1>8, <1>9, NoBackfillIs DEF BackShape
  <2> QED BY <1>1, <1>2, <2>1, LocalStep
<1>10. CASE ~over
  <2>1. backfill' = [backfill EXCEPT !.pc = pc, !.page = wanted, !.covered = covered]
    BY <1>8, <1>10
  <2>2. backfill' \in BackfillRecords /\ backfill'.pc = pc /\ backfill'.page = wanted
    BY <2>1, BasicIs DEF BackfillRecords
  <2>3. BackShape'
    BY <1>7, <2>2 DEF BackShape
  <2> QED BY <1>1, <1>2, <2>2, <2>3, LocalStep
<1> QED BY <1>9, <1>10

LEMMA BasicBackLookUp == ASSUME Basic, BackfillLookUp PROVE Basic' /\ SameForks
<1>1. UNCHANGED <<chain, peak, db, live, ghosts, faults>> /\ backfill.pc = "event"
  BY DEF BackfillLookUp
<1>2. live' \in LiveRecords /\ LiveShape' /\ SameForks
  BY <1>1, BasicIs DEF LiveShape
<1>3. PICK new \in BOOLEAN : new = ~IsLogged(Earliest(backfill.page))
  BY DEF IsLogged
<1>4. backfill' = [backfill EXCEPT !.pc = "project", !.isNew = new]
  BY <1>3 DEF BackfillLookUp
<1>5. backfill' \in BackfillRecords /\ backfill'.page = backfill.page
  BY <1>4, BasicIs DEF BackfillRecords
<1>6. BackShape'
  BY <1>1, <1>5, BasicIs DEF BackShape
<1> QED BY <1>1, <1>2, <1>5, <1>6, LocalStep

LEMMA BasicBackNext == ASSUME Basic, NEW outcome \in Outcomes, BackfillNext(outcome) PROVE Basic' /\ SameForks
<1>1. PICK x : x = Earliest(backfill.page)
  OBVIOUS
<1>2. PICK rest : rest = backfill.page \ {x}
  OBVIOUS
<1>3. PICK pc \in {"page", "event"} : pc = IF rest = {} THEN "page" ELSE "event"
  OBVIOUS
<1>4. /\ backfill.pc = "project" /\ ProjectEvent(x, backfill.isNew, outcome) /\ CountFailure(outcome)
      /\ backfill' = [backfill EXCEPT !.pc = pc, !.page = rest, !.isNew = FALSE, !.token = x.ledger]
      /\ UNCHANGED <<chain, peak, cursor, checkpoints, live, ghosts>>
  BY <1>1, <1>2, <1>3 DEF BackfillNext
<1>5. backfill.page \in SUBSET PageEntries /\ backfill.isNew \in BOOLEAN /\ backfill.page # {}
  BY <1>4, BasicIs DEF BackShape
<1>6. x \in PageEntries /\ x.ledger \in Nat
  BY <1>1, <1>5, EarliestIs, EntryIs
<1>7. RowTypes'
  BY <1>4, <1>5, <1>6, BasicIs, ProjectTypes
<1>8. backfill' \in BackfillRecords /\ backfill'.pc = pc /\ backfill'.page = rest
  <2>1. rest \in SUBSET PageEntries
    BY <1>2, <1>5
  <2> QED BY <1>4, <1>6, <2>1, BasicIs DEF BackfillRecords
<1>9. BackShape'
  BY <1>3, <1>8 DEF BackShape
<1>10. SameForks
  BY <1>4, BasicIs, FailureCounted DEF SameLimits, SameForks
<1>11. live' \in LiveRecords /\ LiveShape'
  BY <1>4, BasicIs DEF LiveShape
<1> QED BY <1>4, <1>7, <1>8, <1>9, <1>10, <1>11, RowStep

LEMMA BasicStutter == ASSUME Basic, UNCHANGED vars PROVE Basic' /\ SameForks
<1>1. UNCHANGED <<chain, peak, db, live, backfill, ghosts>> /\ UNCHANGED faults
  BY DEF vars
<1>2. /\ live' \in LiveRecords /\ LiveShape' /\ backfill' \in BackfillRecords /\ BackShape' /\ SameForks
  BY <1>1, BasicIs DEF LiveShape, BackShape
<1> QED BY <1>1, <1>2, LocalStep

\* The types stand at every step, and a fork once unseen stays so.
LEMMA BasicInv == ASSUME Basic, [Next]_vars PROVE Basic' /\ (~faults'.blind => ~faults.blind)
<1>1. CASE \E fork \in 0 .. MaxLedger : Reorg(fork)
  BY <1>1, BasicReorg
<1>2. ASSUME Basic' /\ SameForks PROVE Basic' /\ (~faults'.blind => ~faults.blind)
  BY <1>2 DEF SameForks
<1>3. CASE Next
  <2>1. CASE Extend
    BY <1>2, <2>1, BasicExtend
  <2>2. CASE RecoverFromReorg
    BY <1>2, <2>2, BasicRecover
  <2>3. CASE BeginTick
    BY <1>2, <2>3, BasicBegin
  <2>4. CASE EmptyTick
    BY <1>2, <2>4, BasicStutter DEF EmptyTick
  <2>5. CASE ReadPage
    BY <1>2, <2>5, BasicRead
  <2>6. CASE ReadFails
    BY <1>2, <2>6, BasicReadFails
  <2>7. CASE LookUp
    BY <1>2, <2>7, BasicLookUp
  <2>8. CASE \E outcome \in Outcomes : ProjectNext(outcome)
    BY <1>2, <2>8, BasicProject
  <2>9. CASE \E ok \in BOOLEAN : FinishTick(ok) \/ Restart(ok)
    BY <1>2, <2>9, BasicFinish, BasicRestart
  <2>10. CASE \E from, to \in Ledgers : StartBackfill(from, to)
    BY <1>2, <2>10, BasicStart
  <2>11. CASE BackfillPage
    BY <1>2, <2>11, BasicBackPage
  <2>12. CASE BackfillLookUp
    BY <1>2, <2>12, BasicBackLookUp
  <2>13. CASE \E outcome \in Outcomes : BackfillNext(outcome)
    BY <1>2, <2>13, BasicBackNext
  <2> QED BY <1>1, <1>3, <2>1, <2>2, <2>3, <2>4, <2>5, <2>6, <2>7, <2>8, <2>9, <2>10, <2>11, <2>12, <2>13 DEF Next
<1>4. CASE UNCHANGED vars
  BY <1>2, <1>4, BasicStutter
<1> QED BY <1>3, <1>4

-----------------------------------------------------------------------------
(* The whole invariant.                                                      *)

LEMMA InitInv == ASSUME Init PROVE IInv
<1>1. /\ chain = <<>> /\ peak = 0 /\ cursor = 0 /\ checkpoints = {}
      /\ eventLog = [e \in Events |-> [l \in Ledgers |-> 0]]
      /\ tips = [t \in Tips |-> [ledger |-> 0, refunded |-> FALSE]]
      /\ goal = "none" /\ credit = NoEvent /\ sub = "none" /\ published = [e \in Events |-> 0]
      /\ live = Idle /\ backfill = NoBackfill /\ passed = {} /\ scenario \in Scenarios
      /\ faults = [reorgs |-> 0, failures |-> 0, backfills |-> 0, blind |-> FALSE]
  BY DEF Init
<1>2. Len(chain) = 0 /\ DOMAIN chain = {} /\ OnChain = {} /\ LatestLedger = 0
  BY <1>1 DEF OnChain, LatestLedger
<1>3. \A t \in Tips : tips[t].ledger = 0 /\ tips[t].refunded = FALSE
  BY <1>1
<1>4. ChainTypes
  <2>1. chain \in Seq([branch : 0 .. MaxReorgs, event : Events \cup {NoEvent}])
    BY <1>1
  <2> QED BY <1>1, <1>2, <2>1, Constants DEF ChainTypes
<1>5. MarkTypes
  <2>1. IsFiniteSet({}) /\ Cardinality({}) = 0
    BY FS_EmptySet
  <2> QED BY <1>1, <2>1, Constants DEF MarkTypes
<1>6. RowTypes
  <2>1. [ledger |-> 0, refunded |-> FALSE] \in TipRows
    BY Constants DEF TipRows
  <2>2. tips \in [Tips -> TipRows]
    BY <1>1, <2>1
  <2> QED BY <1>1, <2>2 DEF RowTypes
<1>7. Types
  <2>1. live \in LiveRecords /\ backfill \in BackfillRecords
    BY <1>1, IdleIs, NoBackfillIs
  <2>2. faults \in Faults
    BY <1>1, Constants DEF Faults
  <2> QED BY <1>1, <1>4, <1>5, <1>6, <2>1, <2>2 DEF Types
<1>8. ChainInv
  BY <1>1, <1>2 DEF ChainInv
<1>9. CheckInv
  BY <1>1 DEF CheckInv
<1>10. Sound(0)
  BY <1>2, <1>3 DEF Sound
<1>11. TableInv
  BY <1>1, <1>3, <1>10 DEF TableInv, RowsFit
<1>12. LiveInv /\ BackInv
  BY <1>1, IdleIs, NoBackfillIs DEF LiveInv, BackInv, AreOnChain, NoBackfill
<1>13. HistInv
  <2>1. \A topics, b : LastOf(topics, 0) = NoEvent
    BY <1>2 DEF LastOf
  <2>2. \A b : Told(0, b)
    BY <1>1, <2>1 DEF Told, GoalOnChain
  <2>3. Told(cursor, LatestLedger - FinalityDepth)
    BY <1>1, <2>2
  <2>4. \A e \in Events : published[e] = 0
    BY <1>1
  <2> QED BY <1>1, <2>3, <2>4, IdleIs, NoBackfillIs DEF HistInv
<1>14. LiveShape /\ BackShape
  BY <1>1, IdleIs, NoBackfillIs DEF LiveShape, BackShape
<1>15. Basic
  BY <1>1, <1>7, <1>14 DEF Basic
<1>16. FInv
  BY <1>7, <1>8, <1>9, <1>11, <1>12, <1>13 DEF FInv
<1> QED BY <1>15, <1>16 DEF IInv

LEMMA StepInv == ASSUME FInv, [Next]_vars, ~faults'.blind PROVE FInv'
<1>1. CASE Next
  <2>1. CASE Extend
    BY <2>1, ExtendInv
  <2>2. CASE \E fork \in 0 .. MaxLedger : Reorg(fork)
    <3>1. PICK fork \in 0 .. MaxLedger : Reorg(fork)
      BY <2>2
    <3>2. ChainTypes /\ faults \in Faults /\ scenario \in Scenarios
      BY DEF FInv, Types
    <3>3. Seen(fork)
      BY <3>1, <3>2, ReorgIs
    <3> QED BY <3>1, <3>3, ReorgInv
  <2>3. CASE RecoverFromReorg
    BY <2>3, RecoverInv
  <2>4. CASE BeginTick
    BY <2>4, BeginInv
  <2>5. CASE EmptyTick
    BY <2>5, StutterInv DEF EmptyTick
  <2>6. CASE ReadPage
    BY <2>6, ReadInv
  <2>7. CASE ReadFails
    BY <2>7, ReadFailsInv
  <2>8. CASE LookUp
    BY <2>8, LookUpInv
  <2>9. CASE \E outcome \in Outcomes : ProjectNext(outcome)
    BY <2>9, ProjectNextInv
  <2>10. CASE \E ok \in BOOLEAN : FinishTick(ok) \/ Restart(ok)
    BY <2>10, FinishInv, RestartInv
  <2>11. CASE \E from, to \in Ledgers : StartBackfill(from, to)
    BY <2>11, StartBackfillInv
  <2>12. CASE BackfillPage
    BY <2>12, BackfillPageInv
  <2>13. CASE BackfillLookUp
    BY <2>13, BackfillLookUpInv
  <2>14. CASE \E outcome \in Outcomes : BackfillNext(outcome)
    BY <2>14, BackfillNextInv
  <2> QED BY <1>1, <2>1, <2>2, <2>3, <2>4, <2>5, <2>6, <2>7, <2>8, <2>9, <2>10, <2>11, <2>12, <2>13, <2>14 DEF Next
<1>2. CASE UNCHANGED vars
  BY <1>2, StutterInv
<1> QED BY <1>1, <1>2

LEMMA NextInv == ASSUME IInv, [Next]_vars PROVE IInv'
<1>1. Basic' /\ (~faults'.blind => ~faults.blind)
  BY BasicInv DEF IInv
<1>2. ASSUME ~faults'.blind PROVE FInv'
  <2>1. FInv
    BY <1>1, <1>2 DEF IInv
  <2> QED BY <1>2, <2>1, StepInv
<1> QED BY <1>1, <1>2 DEF IInv

-----------------------------------------------------------------------------
(* The theorems.                                                             *)

LEMMA InvIsSafe == ASSUME IInv PROVE Safe
<1>1. /\ ChainTypes /\ MarkTypes /\ RowTypes /\ live \in LiveRecords /\ backfill \in BackfillRecords
      /\ faults \in Faults /\ passed \subseteq Ledgers
  BY DEF IInv, Basic, Types
<1>0. ~faults.blind => ChainInv /\ TableInv /\ HistInv
  BY DEF IInv, FInv
<1>2. TypeOK
  <2>1. live.pc \in LocalState /\ live.page \subseteq PageEntries
    BY <1>1 DEF LiveRecords
  <2>2. backfill.pc \in LocalState /\ backfill.page \subseteq PageEntries
    BY <1>1 DEF BackfillRecords, LocalState
  <2>4. /\ chain \in Seq([branch : 0 .. MaxReorgs, event : Events \cup {NoEvent}])
        /\ Len(chain) <= peak /\ peak <= MaxLedger
    BY <1>1 DEF ChainTypes
  <2>5. /\ cursor \in 0 .. peak /\ Cardinality(checkpoints) <= Lookback
        /\ checkpoints \subseteq [ledger : Ledgers, hash : 0 .. MaxReorgs]
    BY <1>1 DEF MarkTypes
  <2>6. /\ eventLog \in [Events -> [Ledgers -> Nat]]
        /\ tips \in [Tips -> [ledger : 0 .. MaxLedger, refunded : BOOLEAN]]
        /\ goal \in {"none", "ACTIVE", "COMPLETED", "CANCELLED"}
        /\ sub \in {"none", "ACTIVE", "CANCELLED"}
        /\ credit \in {NoEvent} \cup OfTopic("credit")
        /\ published \in [Events -> Nat]
    BY <1>1 DEF RowTypes, TipRows
  <2> QED BY <1>1, <2>1, <2>2, <2>4, <2>5, <2>6 DEF TypeOK
<1>3. Agreed \in Nat /\ (~faults.blind /\ Agreed # 0 => Sound(Agreed))
  BY <1>0, <1>1, AgreedIs DEF TableInv
<1>4. ASSUME ~faults.blind, NEW l \in 1 .. Agreed PROVE Sound(Agreed) /\ Done(l) /\ l \in DOMAIN chain
  <2>1. Agreed # 0 /\ Sound(Agreed)
    BY <1>3, <1>4
  <2>2. l \in 1 .. Len(chain)
    BY <1>1, <1>3, <1>4, <2>1, ChainIs DEF Sound, LatestLedger
  <2> QED BY <1>1, <1>4, <2>1, <2>2, ChainIs DEF Sound
<1>5. AgreedTipsAreTheChain
  <2> SUFFICES ASSUME ~faults.blind, NEW t \in Tips, NEW l \in 1 .. Agreed
               PROVE  /\ tips[t].ledger = l => chain[l].event = t
                      /\ chain[l].event = t /\ t \in Readable /\ l \notin passed => tips[t].ledger = l
    BY DEF AgreedTipsAreTheChain
  <2>1. Sound(Agreed) /\ Done(l) /\ l \in DOMAIN chain
    BY <1>4
  <2>2. tips[t].ledger = l => chain[l].event = t
    BY <2>1 DEF Sound, Right
  <2>3. ASSUME chain[l].event = t, t \in Readable, l \notin passed PROVE tips[t].ledger = l
    <3>1. t \in Events /\ Topic[t] = "tip" /\ t # NoEvent
      BY TopicsAre
    <3>2. l \in OnChain
      BY <2>1, <2>3, <3>1 DEF OnChain
    <3> QED BY <2>1, <2>3, <3>1, <3>2 DEF Done, DoneEvent
  <2> QED BY <2>2, <2>3
<1>6. AgreedRefundsAreStored
  <2> SUFFICES ASSUME ~faults.blind, NEW r \in OfTopic("refund") \cap Readable, NEW l \in LedgersOf(r),
                      l <= Agreed, l \notin passed, RefundOf[r] \in Readable, LedgersOf(RefundOf[r]) \cap passed = {}
               PROVE  tips[RefundOf[r]].refunded
    BY DEF AgreedRefundsAreStored
  <2>1. r \in Events /\ Topic[r] = "refund" /\ r # NoEvent /\ l \in DOMAIN chain /\ chain[l].event = r
    BY TopicsAre DEF OfTopic, LedgersOf
  <2>2. l \in OnChain
    BY <2>1 DEF OnChain
  <2>3. l \in 1 .. Agreed
    <3>1. l \in Nat /\ l >= 1
      BY <1>1, <2>2, ChainIs
    <3> QED BY <1>3, <3>1
  <2>4. Done(l)
    BY <1>4, <2>3
  <2>5. PICK k \in 1 .. (l - 1) : chain[k].event = RefundOf[r]
    BY <1>0, <2>1, <2>2 DEF ChainInv
  <2>6. k \in DOMAIN chain
    BY <1>1, <2>1, ChainIs
  <2>7. k \notin passed
    BY <2>5, <2>6 DEF LedgersOf
  <2>8. Given(r, l)
    BY <2>5, <2>7 DEF Given
  <2> QED BY <2>1, <2>2, <2>4, <2>8 DEF Done, DoneEvent
<1>7. BroadcastAtMostOnce
  BY <1>0 DEF BroadcastAtMostOnce, HistInv, IInv, Basic
<1> QED BY <1>2, <1>5, <1>6, <1>7 DEF Safe

LEMMA TickStep ==
  ASSUME IInv, [Next]_vars, cursor' > cursor, faults.backfills = 0, faults.reorgs = 0, passed' = {}
  PROVE  goal' = GoalOnChain(cursor') /\ credit' = LastOf({"credit"}, cursor')
<1>0. FInv
  BY DEF IInv, Basic
<1>1. ChainTypes /\ MarkTypes /\ CheckInv /\ cursor \in Nat
  BY <1>0, MarksAre DEF FInv, Types
<1>2. ASSUME NEW ok, FinishTick(ok) PROVE goal' = GoalOnChain(cursor') /\ credit' = LastOf({"credit"}, cursor')
  <2>1. ~live.failed
    <3> SUFFICES ASSUME live.failed PROVE FALSE
      OBVIOUS
    <3>1. cursor' = cursor
      BY <1>2 DEF FinishTick
    <3> QED BY <1>1, <3>1
  <2>2. PICK k \in Nat : cursor' = k /\ Told(k, k)
    BY <1>0, <1>2, <2>1, FinishIs
  <2>3. goal = GoalOnChain(k) /\ credit = LastOf({"credit"}, k)
    BY <1>1, <2>2, ToldHere
  <2>4. UNCHANGED <<goal, credit>>
    BY <1>2 DEF FinishTick, rows
  <2> QED BY <2>2, <2>3, <2>4
<1>3. ASSUME RecoverFromReorg PROVE FALSE
  <2>1. PICK fork : fork = DetectReorg.fork
    OBVIOUS
  <2>2. cursor' = fork
    BY <1>3, <2>1 DEF RecoverFromReorg, RollbackToLedger
  <2>3. PICK c \in checkpoints : fork = c.ledger \/ fork = c.ledger - 1
    BY <1>1, <1>3, <2>1, DetectIs DEF RecoverFromReorg
  <2>4. c.ledger \in Nat /\ c.ledger <= cursor
    BY <1>1, MarksAre DEF CheckInv
  <2> QED BY <1>1, <2>2, <2>3, <2>4
<1>4. cursor' # cursor
  BY <1>1
<1>5. RecoverFromReorg \/ \E ok \in BOOLEAN : FinishTick(ok)
  BY <1>4 DEF Next, vars, db, Extend, Reorg, BeginTick, EmptyTick, ReadPage, ReadFails, LookUp, ProjectNext, Restart,
              StartBackfill, BackfillPage, BackfillLookUp, BackfillNext
<1> QED BY <1>2, <1>3, <1>5

\* At every step every row, checkpoint and local variable keeps its type, whatever the chain
\* does.  While no fork went unseen, the tips and refunds on the agreed part of the chain that
\* the decoder accepts and no page cap passed are stored, at their ledger; and without forks
\* and backfills replays broadcast no event twice.  For any events, any of them
\* readable, any lookback, finality depth, page size and page cap, and any number of forks
\* at any ledger, failures, restarts and backfills of any range.
THEOREM IndexerIsSafe == Spec => []Safe
<1>1. Init => IInv
  BY InitInv
<1>2. IInv /\ [Next]_vars => IInv'
  BY NextInv
<1>3. IInv => Safe
  BY InvIsSafe
<1> QED BY <1>1, <1>2, <1>3, PTL DEF Spec

\* When a tick advances the cursor the goal and the score are those of the chain there, as
\* far as it can be read, unless an event was passed at the page cap.
THEOREM TicksFollowTheChain == Spec => TickLeavesChainState
<1>1. Init => IInv
  BY InitInv
<1>2. IInv /\ [Next]_vars => IInv'
  BY NextInv
<1>3. IInv /\ [Next]_vars
        => [(cursor' > cursor /\ faults.backfills = 0 /\ faults.reorgs = 0 /\ passed' = {})
              => goal' = GoalOnChain(cursor') /\ credit' = LastOf({"credit"}, cursor')]_vars
  BY TickStep
<1> QED BY <1>1, <1>2, <1>3, PTL DEF Spec, TickLeavesChainState
=============================================================================
