-------------------------- MODULE ChargeWorkerProofs --------------------------
(* The subscription row against the contract and against the processes that  *)
(* charge it, for any number of processes, any intervals and any claim time. *)
EXTENDS ChargeWorker, SequenceTheorems, TLAPS

Topics == {"sub_created", "sub_exec", "sub_cancel", "sub_change"}
RowType == [status : Statuses, due : Times, failures : 0..(Len(DunningDays) + 1),
            dunning : None..MaxTime, retry : Int, claim : Claims]
WorkerType == [pc : {"idle", "found", "claimed", "sent", "failed"}, sub : RowType,
               claim : Claims, error : Int, fresh : BOOLEAN]

Types ==
    /\ now \in 0..MaxTime
    /\ onChain \in [exists : BOOLEAN, active : BOOLEAN, due : Times]
    /\ events \in Seq([topic : Topics, due : Times])
    /\ row \in RowType
    /\ userTx \in {"none", "create", "cancel"}
    /\ handler \in {"idle", "created", "cancelled"}
    /\ worker \in [Workers -> WorkerType]
    /\ keeperTx \in [Workers -> {"none", "pending", "success", "failed", "expired"}]
    /\ used \in [ops : Nat, faults : Nat, dropped : BOOLEAN]

-----------------------------------------------------------------------------
(* The row against the contract. *)

\* What an event tells of the subscription; a change of terms tells nothing of it.
Telling(i) == events[i].topic # "sub_change"
LastTold(i) == Telling(i) /\ \A j \in DOMAIN events : j > i => ~Telling(j)
NothingToTell == \A i \in DOMAIN events : ~Telling(i)

\* The last telling event the indexer has not projected says what the contract says.
EventsInAccord ==
    \A i \in DOMAIN events :
        LastTold(i) => /\ events[i].topic = "sub_cancel" <=> ~onChain.active
                       /\ onChain.active => events[i].due = onChain.due

Running == row.status \in {"ACTIVE", "PAST_DUE", "FAILED"}

\* Once every telling event is projected, the row is ahead of the contract by the
\* transaction on its way, and by nothing else.
RowInAccord ==
    NothingToTell =>
        /\ onChain.active /\ Running => row.due >= onChain.due
        /\ ~used.dropped => /\ userTx = "none" => (Running <=> onChain.active)
                            /\ userTx = "create" => (onChain.active => Running)

\* A handler has yet to write what its transaction does, or has done.
HandlerInAccord ==
    ~used.dropped =>
        /\ userTx = "cancel" => onChain.active
        /\ handler = "created" => userTx # "cancel" /\ (userTx = "none" => onChain.active)
        /\ handler = "cancelled" => userTx # "create" /\ (userTx = "none" => ~onChain.active)

\* A charge is never due later than an interval from now.
DueSoon == onChain.active => onChain.due <= now + Interval

ChainInv == EventsInAccord /\ RowInAccord /\ HandlerInAccord /\ DueSoon

-----------------------------------------------------------------------------
(* The row against the processes. *)

Found(w) == worker[w].pc = "found"
Holding(w) == Attempting(w) /\ worker[w].fresh
Sub(w) == worker[w].sub
Mine(w) == worker[w].claim

\* A claim names its process and the time of its run.
ClaimsAreNamed ==
    \A w \in Workers : Found(w) \/ Attempting(w) => Mine(w) \in [at : 0..now, by : {w}]

\* What a run has read was due and free at the time of the run.
ReadWasDue(w) ==
    /\ SoundRow(Sub(w))
    /\ Sub(w).status \in {"ACTIVE", "PAST_DUE"}
    /\ Sub(w).status = "PAST_DUE" => Sub(w).retry <= Mine(w).at /\ Sub(w).dunning >= 0
    /\ Sub(w).claim = NoClaim \/ Sub(w).claim.at + ClaimTTL <= Mine(w).at

\* Since then the dunning of that row went on, or it began anew, at that time or later.
DunningWentOn(w) ==
    Sub(w).status = "PAST_DUE" /\ row.dunning = Sub(w).dunning => row.failures >= Sub(w).failures

\* Nobody carries the claim a run has not made yet.
Unused(w) == row.claim # Mine(w) /\ \A v \in Workers : Found(v) => Sub(v).claim # Mine(w)

ReadsAreOld == \A w \in Workers : Found(w) => ReadWasDue(w) /\ DunningWentOn(w) /\ Unused(w)

\* The row that carries a claim is the row its process read.
ClaimedIsRead ==
    \A w \in Workers : Attempting(w) /\ row.claim = Mine(w) =>
        /\ worker[w].fresh
        /\ row.status = Sub(w).status /\ row.status \in {"ACTIVE", "PAST_DUE"}
        /\ row.failures = Sub(w).failures /\ row.dunning = Sub(w).dunning

\* Whoever still holds a claim the row does not carry has held it for its time to live,
\* when the row was claimed again, or is found again.
HeldForItsTime ==
    \A v \in Workers : Holding(v) =>
        /\ row.claim # Mine(v) =>
              Mine(v).at + ClaimTTL <= IF row.claim = NoClaim THEN now ELSE row.claim.at
        /\ \A w \in Workers : Found(w) /\ UnchangedSince(Sub(w)) =>
              Mine(v).at + ClaimTTL <= Mine(w).at

\* A row in dunning says since when, and the claim it carries was made before.
RowInv ==
    /\ SoundRow(row)
    /\ row.status = "PAST_DUE" => row.dunning >= 0
    /\ row.claim # NoClaim => row.claim.at <= now

ClaimInv ==
    ClaimsAreNamed /\ ReadsAreOld /\ ClaimedIsRead /\ HeldForItsTime /\ OneAttemptPerClaim

IInv == Types /\ ChainInv /\ RowInv /\ ClaimInv

-----------------------------------------------------------------------------
(* Types. *)

LEMMA Constants ==
    /\ Interval \in Nat /\ Interval > 0 /\ ClaimTTL \in Nat /\ ClaimTTL > 0
    /\ DunningDays \in Seq(Nat \ {0}) /\ Len(DunningDays) \in Nat
    /\ MaxTime \in Nat
BY ChargeWorkerAssumption

LEMMA Defaults == NoClaim \in Claims /\ NoRow \in RowType /\ IdleWorker \in WorkerType
<1>1. NoClaim \in Claims
  BY DEF Claims
<1>2. NoRow \in RowType
  BY <1>1, Constants DEF NoRow, RowType, Statuses, Times, None
<1> QED BY <1>1, <1>2 DEF IdleWorker, WorkerType, None

\* What a row is after one of the writes that settle it.
LEMMA ClearedRow ==
    ASSUME Types, NEW st \in Statuses, NEW d \in Times
    PROVE  LET r == Cleared([row EXCEPT !.status = st, !.due = d]) IN
           /\ r \in RowType /\ r.status = st /\ r.due = d
           /\ r.failures = 0 /\ r.dunning = None /\ r.retry = None /\ r.claim = NoClaim
<1>1. row \in RowType
  BY DEF Types
<1>2. NoClaim \in Claims /\ 0 \in 0..(Len(DunningDays) + 1) /\ None \in None..MaxTime /\ None \in Int
  BY Defaults, Constants DEF None
<1> QED BY <1>1, <1>2 DEF RowType, Cleared

LEMMA CancelledRow ==
    ASSUME Types
    PROVE  LET r == [row EXCEPT !.status = "CANCELLED", !.retry = None, !.claim = NoClaim] IN
           /\ r \in RowType /\ r.status = "CANCELLED" /\ r.due = row.due
           /\ r.failures = row.failures /\ r.dunning = row.dunning
           /\ r.retry = None /\ r.claim = NoClaim
<1>1. row \in RowType
  BY DEF Types
<1>2. NoClaim \in Claims /\ None \in Int /\ "CANCELLED" \in Statuses
  BY Defaults DEF None, Statuses
<1> QED BY <1>1, <1>2 DEF RowType

LEMMA ClaimedRow ==
    ASSUME Types, NEW c \in Claims
    PROVE  LET r == [row EXCEPT !.claim = c] IN
           /\ r \in RowType /\ r.status = row.status /\ r.due = row.due
           /\ r.failures = row.failures /\ r.dunning = row.dunning
           /\ r.retry = row.retry /\ r.claim = c
BY DEF Types, RowType

\* A failure is counted once, and leaves a row the job can act on.
LEMMA FailedRow ==
    ASSUME Types, RowInv, ClaimedIsRead, NEW w \in Workers, NEW again \in BOOLEAN,
           worker[w].pc = "failed", StillClaimed(w)
    PROVE  LET r == AfterFailure(Sub(w), again) IN
           /\ r \in RowType /\ SoundRow(r)
           /\ r.status \in {"PAST_DUE", "FAILED"} /\ r.due = row.due
           /\ r.failures = row.failures + 1 /\ r.claim = NoClaim
           /\ r.dunning = (IF row.dunning = None THEN now ELSE row.dunning) /\ r.dunning >= 0
<1>1. row \in RowType /\ now \in 0..MaxTime
  BY DEF Types
<1>2. /\ row.failures = Sub(w).failures /\ row.dunning = Sub(w).dunning
      /\ row.status \in {"ACTIVE", "PAST_DUE"}
  BY DEF ClaimedIsRead, StillClaimed, Attempting, Mine
<1>3. row.failures \in 0..Len(DunningDays)
  <2>1. CASE row.status = "ACTIVE"
    BY <2>1, Constants DEF RowInv, SoundRow
  <2>2. CASE row.status = "PAST_DUE"
    BY <2>2, Constants DEF RowInv, SoundRow
  <2> QED BY <1>2, <2>1, <2>2
<1> DEFINE failures == Sub(w).failures + 1
           start == IF Sub(w).dunning = None THEN now ELSE Sub(w).dunning
           retry == IF again THEN NextRetry(start, failures) ELSE None
<1>4. failures \in 1..(Len(DunningDays) + 1) /\ failures = row.failures + 1
  BY <1>2, <1>3, Constants
<1>5. /\ start \in 0..MaxTime
      /\ start = (IF row.dunning = None THEN now ELSE row.dunning)
  <2>1. row.dunning \in None..MaxTime
    BY <1>1 DEF RowType
  <2> QED BY <1>1, <1>2, <2>1, Constants DEF None
<1> HIDE DEF failures, start
<1>6. /\ retry \in Int
      /\ retry # None => failures \in 1..Len(DunningDays) /\ retry = start + DunningDays[failures]
  <2>1. CASE again /\ failures <= Len(DunningDays)
    <3>1. DunningDays[failures] \in Nat \ {0}
      BY <1>4, <2>1, Constants
    <3> QED BY <1>4, <1>5, <2>1, <3>1, Constants DEF NextRetry, None
  <2>2. CASE ~(again /\ failures <= Len(DunningDays))
    BY <2>2 DEF NextRetry, None
  <2> QED BY <2>1, <2>2
<1> HIDE DEF retry
<1>7. AfterFailure(Sub(w), again) =
         [row EXCEPT !.status = IF retry = None THEN "FAILED" ELSE "PAST_DUE",
                     !.failures = failures, !.dunning = start, !.retry = retry,
                     !.claim = NoClaim]
  BY DEF AfterFailure, failures, start, retry
<1> DEFINE r == AfterFailure(Sub(w), again)
<1>8. /\ r.status = (IF retry = None THEN "FAILED" ELSE "PAST_DUE") /\ r.due = row.due
      /\ r.failures = failures /\ r.dunning = start /\ r.retry = retry /\ r.claim = NoClaim
  BY <1>1, <1>7 DEF RowType
<1>9. r \in RowType
  <2>1. failures \in 0..(Len(DunningDays) + 1) /\ start \in None..MaxTime
    BY <1>4, <1>5, Constants DEF None
  <2>2. (IF retry = None THEN "FAILED" ELSE "PAST_DUE") \in Statuses
    BY DEF Statuses
  <2> QED BY <1>1, <1>6, <1>7, <2>1, <2>2, Defaults DEF RowType
<1> HIDE DEF r
<1>10. SoundRow(r)
  BY <1>6, <1>8 DEF SoundRow
<1>11. start >= 0
  BY <1>5
<1> QED BY <1>4, <1>5, <1>8, <1>9, <1>10, <1>11 DEF r
LEMMA InitInv == Init => IInv
<1> SUFFICES ASSUME Init PROVE IInv
  OBVIOUS
<1>1. Types
  <2>1. worker \in [Workers -> WorkerType]
    BY Defaults DEF Init
  <2>2. used \in [ops : Nat, faults : Nat, dropped : BOOLEAN]
    BY DEF Init
  <2>3. onChain \in [exists : BOOLEAN, active : BOOLEAN, due : Times]
    <3>1. None \in Times
      BY Constants DEF None, Times
    <3> QED BY <3>1, Zenon DEF Init
  <2>4. /\ events \in Seq([topic : Topics, due : Times])
        /\ keeperTx \in [Workers -> {"none", "pending", "success", "failed", "expired"}]
        /\ now \in 0..MaxTime
    BY Constants DEF Init
  <2> QED BY <2>1, <2>2, <2>3, <2>4, Defaults DEF Init, Types
<1>2. ChainInv
  BY DEF Init, ChainInv, EventsInAccord, RowInAccord, HandlerInAccord, DueSoon, NothingToTell,
         Running, NoRow
<1>3. RowInv
  BY DEF Init, RowInv, SoundRow, NoRow
<1>4. ClaimInv
  BY DEF Init, ClaimInv, ClaimsAreNamed, ReadsAreOld, ClaimedIsRead, HeldForItsTime,
         OneAttemptPerClaim, Found, Holding, Attempting, IdleWorker
<1> QED BY <1>1, <1>2, <1>3, <1>4 DEF IInv

LEMMA QueueHead ==
    ASSUME NEW T, NEW s \in Seq(T), s # <<>>
    PROVE  /\ Head(s) \in T /\ Head(s) = s[1] /\ 1 \in DOMAIN s
           /\ Tail(s) \in Seq(T)
           /\ \A i \in DOMAIN Tail(s) : i \in Nat /\ i + 1 \in DOMAIN s /\ Tail(s)[i] = s[i + 1]
           /\ \A i \in DOMAIN s : i \in Nat /\ (i > 1 => i - 1 \in DOMAIN Tail(s))
<1>1. Len(s) \in Nat /\ Len(s) > 0 /\ DOMAIN s = 1..Len(s)
  BY EmptySeq, LenProperties
<1>2. /\ Tail(s) \in Seq(T) /\ Len(Tail(s)) = Len(s) - 1
      /\ \A i \in 1..Len(Tail(s)) : Tail(s)[i] = s[i + 1]
  BY <1>1, HeadTailProperties
<1>3. DOMAIN Tail(s) = 1..(Len(s) - 1)
  BY <1>2, LenProperties
<1> QED BY <1>1, <1>2, <1>3

LEMMA QueueEnd ==
    ASSUME NEW T, NEW s \in Seq(T), NEW e \in T
    PROVE  /\ Append(s, e) \in Seq(T)
           /\ DOMAIN Append(s, e) = DOMAIN s \cup {Len(s) + 1}
           /\ \A i \in DOMAIN s : i \in Nat /\ i < Len(s) + 1 /\ Append(s, e)[i] = s[i]
           /\ Append(s, e)[Len(s) + 1] = e
           /\ Len(s) \in Nat
<1>1. Len(s) \in Nat /\ DOMAIN s = 1..Len(s)
  BY LenProperties
<1>2. /\ Append(s, e) \in Seq(T) /\ Len(Append(s, e)) = Len(s) + 1
      /\ \A i \in 1..Len(s) : Append(s, e)[i] = s[i]
      /\ Append(s, e)[Len(s) + 1] = e
  BY AppendProperties
<1>3. DOMAIN Append(s, e) = 1..(Len(s) + 1)
  BY <1>2, LenProperties
<1> QED BY <1>1, <1>2, <1>3

\* An event is of its type, and is projected into a row of its type.
LEMMA ProjectedRow ==
    ASSUME Types, events # <<>>
    PROVE  LET e == Head(events) IN
           /\ e \in [topic : Topics, due : Times]
           /\ e = events[1] /\ 1 \in DOMAIN events
           /\ SubscriptionCreated(e) \in RowType /\ SubscriptionCharged(e) \in RowType
           /\ SubscriptionCancelled \in RowType
<1>1. Head(events) \in [topic : Topics, due : Times] /\ Head(events) = events[1]
      /\ 1 \in DOMAIN events
  BY QueueHead DEF Types
<1>2. Head(events).due \in Times /\ "ACTIVE" \in Statuses
  BY <1>1 DEF Statuses
<1>3. SubscriptionCancelled \in RowType
  BY CancelledRow DEF SubscriptionCancelled, Types
<1> QED BY <1>1, <1>2, <1>3, ClearedRow DEF SubscriptionCreated, SubscriptionCharged

\* A process moves to another step, or rests; what it has read and claimed stays.
LEMMA Moved ==
    ASSUME Types, NEW w \in Workers, NEW pc \in {"idle", "found", "claimed", "sent", "failed"},
           NEW error \in Int, NEW fresh \in BOOLEAN
    PROVE  LET t == [worker[w] EXCEPT !.pc = pc, !.error = error, !.fresh = fresh] IN
           /\ t \in WorkerType /\ t.pc = pc /\ t.fresh = fresh
           /\ t.sub = Sub(w) /\ t.claim = Mine(w)
<1>1. worker[w] \in WorkerType
  BY DEF Types
<1> QED BY <1>1 DEF WorkerType, Sub, Mine

LEMMA RewrittenWorkers ==
    ASSUME Types
    PROVE  /\ Rewritten \in [Workers -> WorkerType]
           /\ \A w \in Workers : /\ Rewritten[w].pc = worker[w].pc /\ Rewritten[w].sub = Sub(w)
                                 /\ Rewritten[w].claim = Mine(w) /\ ~Rewritten[w].fresh
<1>1. ASSUME NEW w \in Workers
      PROVE  /\ Rewritten[w] \in WorkerType
             /\ Rewritten[w].pc = worker[w].pc /\ Rewritten[w].sub = Sub(w)
             /\ Rewritten[w].claim = Mine(w) /\ ~Rewritten[w].fresh
  <2>1. worker[w] \in WorkerType
    BY DEF Types
  <2>2. Rewritten[w] = [worker[w] EXCEPT !.fresh = FALSE]
    BY DEF Rewritten
  <2> QED BY <2>1, <2>2 DEF WorkerType, Sub, Mine
<1>2. Rewritten = [w \in Workers |-> Rewritten[w]]
  BY DEF Rewritten
<1> QED BY <1>1, <1>2

\* The run of a process that finds a due row.
LEMMA FoundWorker ==
    ASSUME Types, NEW w \in Workers
    PROVE  LET t == [IdleWorker EXCEPT !.pc = "found", !.sub = row,
                                       !.claim = [at |-> now, by |-> w]] IN
           /\ t \in WorkerType /\ t.pc = "found" /\ t.sub = row
           /\ t.claim = [at |-> now, by |-> w] /\ ~t.fresh
<1>1. row \in RowType /\ [at |-> now, by |-> w] \in Claims
  BY DEF Types, Claims
<1> QED BY <1>1, Defaults DEF IdleWorker, WorkerType, None

\* The steps of the contract and of the network keep the types.
LEMMA ChainTypes ==
    ASSUME Types, DueSoon, Tick \/ LandCreate \/ LandCancel \/ \E w \in Workers : LandCharge(w)
    PROVE  Types'
<1> DEFINE Event == [topic : Topics, due : Times]
           Chain == [exists : BOOLEAN, active : BOOLEAN, due : Times]
           Sent == {"none", "pending", "success", "failed", "expired"}
           Used == [ops : Nat, faults : Nat, dropped : BOOLEAN]
<1>1. /\ now \in 0..MaxTime /\ onChain \in Chain /\ events \in Seq(Event)
      /\ keeperTx \in [Workers -> Sent] /\ used \in Used
  BY DEF Types
<1>2. /\ onChain.exists \in BOOLEAN /\ onChain.active \in BOOLEAN /\ onChain.due \in Times
  BY <1>1
<1>3. now + Interval \in Times /\ None \in Times
  BY <1>1, Constants DEF Times, None
<1>4. ASSUME NEW w \in Workers, NEW result \in Sent PROVE Outcome(w, result) \in Sent
  BY DEF Outcome
<1>9. ASSUME NEW e \in Event, Emit(e) PROVE events' \in Seq(Event)
  <2> HIDE DEF Event
  <2> QED BY <1>1, <1>9, QueueEnd DEF Emit
<1>5. CASE Tick
  <2>1. now' \in 0..MaxTime
    BY <1>1, <1>5, Constants DEF Tick
  <2>2. keeperTx' \in [Workers -> Sent]
    <3>1. \A w \in Workers : (IF keeperTx[w] = "pending" THEN Outcome(w, "expired")
                              ELSE keeperTx[w]) \in Sent
      BY <1>1, <1>4
    <3> QED BY <1>5, <3>1 DEF Tick
  <2>3. used' \in Used
    BY <1>1, <1>5 DEF Tick
  <2>4. userTx' = "none" /\ UNCHANGED <<onChain, events, row, handler, worker>>
    BY <1>5 DEF Tick
  <2> QED BY <2>1, <2>2, <2>3, <2>4 DEF Types
<1>6. CASE LandCreate
  <2>1. onChain' \in Chain
    <3>1. [exists |-> TRUE, active |-> TRUE, due |-> now + Interval] \in Chain
      BY <1>3
    <3> QED BY <1>1, <1>6, <3>1 DEF LandCreate
  <2>2. events' \in Seq(Event)
    <3>1. [topic |-> "sub_change", due |-> onChain.due] \in Event
      BY <1>2 DEF Topics
    <3>2. [topic |-> "sub_created", due |-> now + Interval] \in Event
      BY <1>3 DEF Topics
    <3> QED BY <1>6, <1>9, <3>1, <3>2 DEF LandCreate
  <2>3. userTx' = "none" /\ UNCHANGED <<now, row, handler, worker, keeperTx, used>>
    BY <1>6 DEF LandCreate
  <2> QED BY <2>1, <2>2, <2>3 DEF Types
<1>7. CASE LandCancel
  <2>1. onChain' \in Chain
    <3>1. [onChain EXCEPT !.active = FALSE] \in Chain
      BY <1>1
    <3> QED BY <1>1, <1>7, <3>1 DEF LandCancel
  <2>2. events' \in Seq(Event)
    <3>1. [topic |-> "sub_cancel", due |-> None] \in Event
      BY <1>3 DEF Topics
    <3> QED BY <1>1, <1>7, <1>9, <3>1 DEF LandCancel
  <2>3. userTx' = "none" /\ UNCHANGED <<now, row, handler, worker, keeperTx, used>>
    BY <1>7 DEF LandCancel
  <2> QED BY <2>1, <2>2, <2>3 DEF Types
<1>8. ASSUME NEW w \in Workers, LandCharge(w) PROVE Types'
  <2>1. Chargeable => onChain.due + Interval \in Times
    BY <1>1, <1>2, Constants DEF Chargeable, Times, None
  <2>2. onChain' \in Chain
    <3>1. Chargeable => [onChain EXCEPT !.due = @ + Interval] \in Chain
      BY <1>1, <2>1
    <3> QED BY <1>1, <1>8, <3>1 DEF LandCharge
  <2>3. events' \in Seq(Event)
    <3>1. Chargeable => [topic |-> "sub_exec", due |-> onChain.due + Interval] \in Event
      BY <2>1 DEF Topics
    <3> QED BY <1>1, <1>8, <1>9, <3>1 DEF LandCharge
  <2>4. used' \in Used
    BY <1>1, <1>8 DEF LandCharge, CountFault
  <2>5. keeperTx' \in [Workers -> Sent]
    BY <1>1, <1>4, <1>8 DEF LandCharge
  <2>6. UNCHANGED <<now, row, userTx, handler, worker>>
    BY <1>8 DEF LandCharge
  <2> QED BY <2>2, <2>3, <2>4, <2>5, <2>6 DEF Types
<1> QED BY <1>5, <1>6, <1>7, <1>8

\* The steps of the indexer and of the API keep the types.
LEMMA ServerTypes ==
    ASSUME Types, ProjectEvent \/ SendCreate \/ WriteCreate \/ SendCancel \/ WriteCancel
    PROVE  Types'
<1> DEFINE Used == [ops : Nat, faults : Nat, dropped : BOOLEAN]
<1>1. now \in 0..MaxTime /\ row \in RowType /\ used \in Used /\ worker \in [Workers -> WorkerType]
  BY DEF Types
<1>2. CASE ProjectEvent
  <2>1. Head(events).topic \in Topics
    BY <1>2, ProjectedRow DEF ProjectEvent
  <2>2. row' \in RowType
    BY <1>1, <1>2, <2>1, ProjectedRow DEF ProjectEvent, Topics
  <2>3. events' \in Seq([topic : Topics, due : Times])
    BY <1>2, QueueHead DEF ProjectEvent, Types
  <2>4. worker' \in [Workers -> WorkerType]
    BY <1>1, <1>2, RewrittenWorkers DEF ProjectEvent
  <2>5. UNCHANGED <<now, onChain, userTx, handler, keeperTx, used>>
    BY <1>2 DEF ProjectEvent
  <2> QED BY <2>2, <2>3, <2>4, <2>5 DEF Types
<1>3. CASE SendCreate \/ SendCancel
  <2>1. used' \in Used
    BY <1>1, <1>3 DEF SendCreate, SendCancel, CountOp
  <2>2. /\ userTx' \in {"none", "create", "cancel"} /\ handler' \in {"idle", "created", "cancelled"}
        /\ UNCHANGED <<now, onChain, events, row, worker, keeperTx>>
    BY <1>3 DEF SendCreate, SendCancel
  <2> QED BY <2>1, <2>2 DEF Types
<1>4. CASE WriteCreate
  <2>1. now + Interval \in Times /\ "ACTIVE" \in Statuses
    BY <1>1, Constants DEF Times, None, Statuses
  <2>2. Cleared([row EXCEPT !.status = "ACTIVE", !.due = now + Interval]) \in RowType
    BY <2>1, ClearedRow
  <2>4. row' \in RowType /\ worker' \in [Workers -> WorkerType]
    BY <1>1, <1>4, <2>2, RewrittenWorkers DEF WriteCreate
  <2>3. handler' = "idle" /\ UNCHANGED <<now, onChain, events, userTx, keeperTx, used>>
    BY <1>4 DEF WriteCreate
  <2> QED BY <2>3, <2>4 DEF Types
<1>5. CASE WriteCancel
  <2>1. row' \in RowType /\ worker' \in [Workers -> WorkerType]
    BY <1>5, CancelledRow, RewrittenWorkers DEF WriteCancel
  <2>2. handler' = "idle" /\ UNCHANGED <<now, onChain, events, userTx, keeperTx, used>>
    BY <1>5 DEF WriteCancel
  <2> QED BY <2>1, <2>2 DEF Types
<1> QED BY <1>2, <1>3, <1>4, <1>5

\* The steps of a process.
LEMMA WorkerTypes ==
    ASSUME Types, RowInv, ClaimedIsRead, NEW w \in Workers,
           FindDue(w) \/ Claim(w) \/ Charge(w) \/ Confirm(w) \/ PersistFailure(w) \/ Crash(w)
    PROVE  Types'
<1> DEFINE Used == [ops : Nat, faults : Nat, dropped : BOOLEAN]
           Sent == {"none", "pending", "success", "failed", "expired"}
<1>1. /\ now \in 0..MaxTime /\ row \in RowType /\ used \in Used
      /\ worker \in [Workers -> WorkerType] /\ worker[w] \in WorkerType
      /\ keeperTx \in [Workers -> Sent]
  BY DEF Types
<1>2. UNCHANGED <<now, onChain, events, userTx, handler>>
  BY DEF FindDue, Claim, Charge, Confirm, PersistFailure, Crash
<1>3. row' \in RowType
  <2>1. Mine(w) \in Claims
    BY <1>1 DEF WorkerType, Mine
  <2>2. CASE Claim(w)
    BY <1>1, <2>1, <2>2, ClaimedRow DEF Claim, Mine
  <2>3. CASE PersistFailure(w)
    <3>1. Retryable(worker[w].error) \in BOOLEAN
      BY DEF Retryable
    <3> QED BY <1>1, <2>3, <3>1, FailedRow DEF PersistFailure, Sub
  <2> QED BY <1>1, <2>2, <2>3 DEF FindDue, Charge, Confirm, Crash
<1>4. used' \in Used
  BY <1>1 DEF FindDue, Claim, Charge, Confirm, PersistFailure, Crash, CountFault
<1>5. keeperTx' \in [Workers -> Sent]
  BY <1>1 DEF FindDue, Claim, Charge, Confirm, PersistFailure, Crash
<1>6. worker' \in [Workers -> WorkerType]
  <2>1. CASE FindDue(w)
    BY <1>1, <2>1, FoundWorker DEF FindDue
  <2>2. CASE Claim(w)
    <3>1. [worker EXCEPT ![w].pc = "claimed", ![w].fresh = TRUE] \in [Workers -> WorkerType]
      BY <1>1 DEF WorkerType
    <3> QED BY <1>1, <2>2, <3>1, Defaults DEF Claim
  <2>3. ASSUME NEW error \in Int, Fail(w, error) PROVE worker' \in [Workers -> WorkerType]
    BY <1>1, <2>3 DEF Fail, WorkerType
  <2>4. CASE Charge(w)
    <3>1. ChargeErrors \subseteq Int /\ None \in Int /\ NotFound \in Int
      BY DEF ChargeErrors, None, NotFound, ProfileDeactivated, RateLimited
    <3>2. [worker EXCEPT ![w].pc = "sent"] \in [Workers -> WorkerType]
      BY <1>1 DEF WorkerType
    <3> QED BY <2>3, <2>4, <3>1, <3>2 DEF Charge
  <2>5. CASE Confirm(w)
    <3>1. None \in Int
      BY DEF None
    <3> QED BY <1>1, <2>3, <2>5, <3>1, Defaults DEF Confirm
  <2>6. CASE PersistFailure(w) \/ Crash(w)
    BY <1>1, <2>6, Defaults DEF PersistFailure, Crash
  <2> QED BY <2>1, <2>2, <2>4, <2>5, <2>6
<1> QED BY <1>2, <1>3, <1>4, <1>5, <1>6 DEF Types

LEMMA TypesStep == ASSUME IInv, [Next]_vars PROVE Types'
<1>1. Types /\ DueSoon /\ RowInv /\ ClaimedIsRead
  BY DEF IInv, ChainInv, ClaimInv
<1>2. CASE UNCHANGED vars \/ EmptyRun
  BY <1>1, <1>2 DEF vars, EmptyRun, Types
<1> QED BY <1>1, <1>2, ChainTypes, ServerTypes, WorkerTypes DEF Next

-----------------------------------------------------------------------------
(* The kinds of steps the row and the processes take. *)

Rests == UNCHANGED <<row, worker>> /\ now' \in {now, now + 1}

\* A process that has read or claimed the row goes on with its attempt, or gives it up.
GoesOn(w) ==
    /\ UNCHANGED <<now, row>>
    /\ \A v \in Workers \ {w} : worker'[v] = worker[v]
    /\ \/ worker'[w].pc = "idle"
       \/ /\ Attempting(w) /\ worker'[w].pc \in {"claimed", "sent", "failed"}
          /\ worker'[w].sub = Sub(w) /\ worker'[w].claim = Mine(w)
          /\ worker'[w].fresh = worker[w].fresh

Finds(w) ==
    /\ UNCHANGED <<now, row>>
    /\ IsDue /\ ClaimIsFree
    /\ \A v \in Workers \ {w} : worker'[v] = worker[v]
    /\ worker'[w].pc = "found" /\ worker'[w].sub = row
    /\ worker'[w].claim = [at |-> now, by |-> w] /\ ~worker'[w].fresh

Claimed(w) ==
    /\ Found(w) /\ UnchangedSince(Sub(w))
    /\ now' = now
    /\ \A v \in Workers \ {w} : worker'[v] = worker[v]
    /\ worker'[w].pc = "claimed" /\ worker'[w].fresh
    /\ worker'[w].sub = Sub(w) /\ worker'[w].claim = Mine(w)
    /\ row'.status = row.status /\ row'.due = row.due /\ row'.failures = row.failures
    /\ row'.dunning = row.dunning /\ row'.retry = row.retry /\ row'.claim = Mine(w)

\* An attempt fails, and the row is still the one it claimed.
Fails(w) ==
    /\ worker[w].pc = "failed" /\ StillClaimed(w)
    /\ now' = now
    /\ \A v \in Workers \ {w} : worker'[v] = worker[v]
    /\ worker'[w].pc = "idle"
    /\ SoundRow(row') /\ row'.status \in {"PAST_DUE", "FAILED"} /\ row'.due = row.due
    /\ row'.failures = row.failures + 1 /\ row'.claim = NoClaim
    /\ row'.dunning = (IF row.dunning = None THEN now ELSE row.dunning) /\ row'.dunning >= 0

\* Somebody else writes the row: the claim is gone, and a failure is not counted.
Settles ==
    /\ now' = now
    /\ \A v \in Workers : /\ worker'[v].pc = worker[v].pc /\ worker'[v].sub = Sub(v)
                          /\ worker'[v].claim = Mine(v) /\ ~worker'[v].fresh
    /\ row'.claim = NoClaim /\ SoundRow(row') /\ row'.status \in {"ACTIVE", "CANCELLED"}
    /\ \/ row'.failures = 0 /\ row'.dunning = None
       \/ row'.failures = row.failures /\ row'.dunning = row.dunning

LEMMA ProjectionKind == ASSUME IInv, ProjectEvent PROVE Rests \/ Settles
<1>1. Types /\ row \in RowType /\ worker \in [Workers -> WorkerType]
  BY DEF IInv, Types
<1> DEFINE e == Head(events)
<1>2. e \in [topic : Topics, due : Times]
  BY <1>1, ProjectedRow DEF ProjectEvent
<1>3. CASE row' = row
  BY <1>3 DEF ProjectEvent, Rests
<1>4. CASE row' # row /\ e.topic \in {"sub_created", "sub_exec"}
  <2>1. row' = Cleared([row EXCEPT !.status = "ACTIVE", !.due = e.due])
    BY <1>4 DEF ProjectEvent, SubscriptionCreated, SubscriptionCharged
  <2>2. e.due \in Times /\ "ACTIVE" \in Statuses
    BY <1>2 DEF Statuses
  <2> HIDE DEF e
  <2>3. /\ row'.status = "ACTIVE" /\ row'.failures = 0 /\ row'.dunning = None
        /\ row'.retry = None /\ row'.claim = NoClaim
    BY <1>1, <2>1, <2>2, ClearedRow
  <2>4. SoundRow(row')
    BY <2>3 DEF SoundRow
  <2>5. worker' = Rewritten /\ now' = now
    BY <1>4 DEF ProjectEvent
  <2> QED BY <1>1, <2>3, <2>4, <2>5, RewrittenWorkers DEF Settles
<1>5. CASE row' # row /\ e.topic = "sub_cancel"
  <2>1. row' = [row EXCEPT !.status = "CANCELLED", !.retry = None, !.claim = NoClaim]
    BY <1>5 DEF ProjectEvent, SubscriptionCancelled
  <2>2. /\ row'.status = "CANCELLED" /\ row'.failures = row.failures /\ row'.dunning = row.dunning
        /\ row'.retry = None /\ row'.claim = NoClaim
    BY <1>1, <2>1, CancelledRow
  <2>3. SoundRow(row')
    BY <2>2 DEF SoundRow
  <2>4. worker' = Rewritten /\ now' = now
    BY <1>5 DEF ProjectEvent
  <2> QED BY <1>1, <2>2, <2>3, <2>4, RewrittenWorkers DEF Settles
<1>6. CASE e.topic = "sub_change"
  BY <1>3, <1>6 DEF ProjectEvent
<1> QED BY <1>2, <1>3, <1>4, <1>5, <1>6 DEF Topics

LEMMA HandlerKind == ASSUME IInv, WriteCreate \/ WriteCancel PROVE Rests \/ Settles
<1>1. Types /\ row \in RowType /\ now \in 0..MaxTime
  BY DEF IInv, Types
<1>2. CASE WriteCreate /\ row.status = "ACTIVE"
  BY <1>2 DEF WriteCreate, Rests
<1>3. CASE WriteCreate /\ row.status # "ACTIVE"
  <2>1. now + Interval \in Times /\ "ACTIVE" \in Statuses
    BY <1>1, Constants DEF Times, None, Statuses
  <2>2. row' = Cleared([row EXCEPT !.status = "ACTIVE", !.due = now + Interval])
    BY <1>3 DEF WriteCreate
  <2>3. /\ row'.status = "ACTIVE" /\ row'.failures = 0 /\ row'.dunning = None
        /\ row'.retry = None /\ row'.claim = NoClaim
    BY <1>1, <2>1, <2>2, ClearedRow
  <2>4. SoundRow(row')
    BY <2>3 DEF SoundRow
  <2>5. worker' = Rewritten /\ now' = now
    BY <1>3 DEF WriteCreate
  <2> QED BY <1>1, <2>3, <2>4, <2>5, RewrittenWorkers DEF Settles
<1>4. CASE WriteCancel
  <2>1. row' = [row EXCEPT !.status = "CANCELLED", !.retry = None, !.claim = NoClaim]
    BY <1>4 DEF WriteCancel
  <2>2. /\ row'.status = "CANCELLED" /\ row'.failures = row.failures /\ row'.dunning = row.dunning
        /\ row'.retry = None /\ row'.claim = NoClaim
    BY <1>1, <2>1, CancelledRow
  <2>3. SoundRow(row')
    BY <2>2 DEF SoundRow
  <2>4. worker' = Rewritten /\ now' = now
    BY <1>4 DEF WriteCancel
  <2> QED BY <1>1, <2>2, <2>3, <2>4, RewrittenWorkers DEF Settles
<1> QED BY <1>2, <1>3, <1>4

LEMMA WorkerKind ==
    ASSUME IInv, NEW w \in Workers,
           FindDue(w) \/ Claim(w) \/ Charge(w) \/ Confirm(w) \/ PersistFailure(w) \/ Crash(w)
    PROVE  GoesOn(w) \/ Finds(w) \/ Claimed(w) \/ Fails(w)
<1>1. /\ Types /\ RowInv /\ ClaimedIsRead /\ row \in RowType
      /\ worker \in [Workers -> WorkerType] /\ worker[w] \in WorkerType
  BY DEF IInv, ClaimInv, Types
<1>2. CASE FindDue(w)
  BY <1>1, <1>2, FoundWorker DEF FindDue, Finds
<1>3. CASE Claim(w) /\ UnchangedSince(Sub(w))
  <2>1. Mine(w) \in Claims
    BY <1>1 DEF WorkerType, Mine
  <2>2. row' = [row EXCEPT !.claim = Mine(w)] /\ now' = now
    BY <1>3 DEF Claim, Mine, Sub
  <2>3. /\ \A v \in Workers \ {w} : worker'[v] = worker[v]
        /\ worker'[w] = [worker[w] EXCEPT !.pc = "claimed", !.fresh = TRUE]
    BY <1>1, <1>3 DEF Claim, Sub
  <2> QED BY <1>1, <1>3, <2>1, <2>2, <2>3, ClaimedRow
          DEF Claim, Claimed, WorkerType, Found, Sub, Mine
<1>4. CASE Claim(w) /\ ~UnchangedSince(Sub(w))
  BY <1>1, <1>4 DEF Claim, Sub, GoesOn, IdleWorker
<1>5. ASSUME NEW error \in Int, Fail(w, error), Attempting(w), UNCHANGED <<now, row>>
      PROVE  GoesOn(w)
  BY <1>1, <1>5 DEF Fail, GoesOn, WorkerType, Sub, Mine
<1>6. CASE Charge(w)
  <2>1. ChargeErrors \subseteq Int /\ None \in Int /\ NotFound \in Int
    BY DEF ChargeErrors, None, NotFound, ProfileDeactivated, RateLimited
  <2>2. Attempting(w) /\ UNCHANGED <<now, row>>
    BY <1>6 DEF Charge, Attempting
  <2>3. CASE worker' = [worker EXCEPT ![w].pc = "sent"]
    BY <1>1, <2>2, <2>3 DEF GoesOn, WorkerType, Sub, Mine
  <2> QED BY <1>5, <1>6, <2>1, <2>2, <2>3 DEF Charge
<1>7. CASE Confirm(w)
  <2>1. Attempting(w) /\ UNCHANGED <<now, row>> /\ None \in Int
    BY <1>7 DEF Confirm, Attempting, None
  <2>2. CASE worker' = [worker EXCEPT ![w] = IdleWorker]
    BY <1>1, <2>1, <2>2 DEF GoesOn, IdleWorker
  <2> QED BY <1>5, <1>7, <2>1, <2>2 DEF Confirm
<1>8. CASE PersistFailure(w) /\ StillClaimed(w)
  <2>1. Retryable(worker[w].error) \in BOOLEAN
    BY DEF Retryable
  <2>2. row' = AfterFailure(Sub(w), Retryable(worker[w].error)) /\ now' = now
    BY <1>8 DEF PersistFailure, Sub
  <2>3. worker' = [worker EXCEPT ![w] = IdleWorker] /\ worker[w].pc = "failed"
    BY <1>8 DEF PersistFailure
  <2> QED BY <1>1, <1>8, <2>1, <2>2, <2>3, FailedRow DEF Fails, IdleWorker
<1>9. CASE PersistFailure(w) /\ ~StillClaimed(w)
  BY <1>1, <1>9 DEF PersistFailure, GoesOn, IdleWorker
<1>10. CASE Crash(w)
  BY <1>1, <1>10 DEF Crash, GoesOn, IdleWorker
<1> QED BY <1>2, <1>3, <1>4, <1>6, <1>7, <1>8, <1>9, <1>10

LEMMA KindOfStep ==
    ASSUME IInv, [Next]_vars
    PROVE  \/ Rests \/ Settles
           \/ \E w \in Workers : GoesOn(w) \/ Finds(w) \/ Claimed(w) \/ Fails(w)
<1>1. CASE UNCHANGED vars \/ EmptyRun \/ Tick \/ LandCreate \/ LandCancel \/ SendCreate \/ SendCancel
  BY <1>1 DEF vars, EmptyRun, Tick, LandCreate, LandCancel, SendCreate, SendCancel, Rests
<1>2. ASSUME NEW w \in Workers, LandCharge(w) PROVE Rests
  BY <1>2 DEF LandCharge, Rests
<1> QED BY <1>1, <1>2, ProjectionKind, HandlerKind, WorkerKind DEF Next

-----------------------------------------------------------------------------
(* The claims are kept by every kind of step. *)

\* What the invariant says of one process, and of the claim of the row.
LEMMA Named ==
    ASSUME IInv, NEW w \in Workers, Found(w) \/ Attempting(w)
    PROVE  /\ Mine(w).at \in Nat /\ Mine(w).at <= now /\ Mine(w).by = w
           /\ Mine(w) = [at |-> Mine(w).at, by |-> w] /\ Mine(w) # NoClaim
<1>1. Mine(w) \in [at : 0..now, by : {w}] /\ now \in Nat
  BY Constants DEF IInv, ClaimInv, ClaimsAreNamed, Types
<1> QED BY <1>1 DEF NoClaim, None

LEMMA RowFacts ==
    ASSUME IInv
    PROVE  /\ now \in Nat /\ row.failures \in Nat /\ row.dunning \in Int /\ row.retry \in Int
           /\ row.due \in Int /\ row.status \in Statuses
           /\ row.claim \in Claims /\ row.claim.at \in Int /\ row.dunning >= None
           /\ (row.claim # NoClaim => row.claim.at \in Nat /\ row.claim.at <= now)
<1>1. row \in RowType /\ now \in Nat /\ (row.claim # NoClaim => row.claim.at <= now)
  BY Constants DEF IInv, Types, RowInv
<1>2. row.claim \in Claims
  BY <1>1 DEF RowType
<1>3. row.claim = NoClaim \/ row.claim \in [at : 0..MaxTime, by : Workers]
  BY <1>2 DEF Claims
<1>4. row.claim.at \in Int /\ (row.claim # NoClaim => row.claim.at \in Nat)
  BY <1>3, Constants DEF NoClaim, None
<1> QED BY <1>1, <1>2, <1>4, Constants DEF RowType, Times, None

LEMMA SubFacts ==
    ASSUME IInv, NEW w \in Workers
    PROVE  /\ Sub(w).failures \in Nat /\ Sub(w).dunning \in Int /\ Sub(w).retry \in Int
           /\ Sub(w).claim \in Claims /\ Sub(w).claim.at \in Int
<1>1. Sub(w) \in RowType
  BY DEF IInv, Types, WorkerType, Sub
<1>2. Sub(w).claim = NoClaim \/ Sub(w).claim \in [at : 0..MaxTime, by : Workers]
  BY <1>1 DEF RowType, Claims
<1>3. Sub(w).claim.at \in Int
  BY <1>2, Constants DEF NoClaim, None
<1> QED BY <1>1, <1>3, Constants DEF RowType, None

LEMMA RestsKeepsClaims ==
    ASSUME IInv, Rests
    PROVE  RowInv' /\ ClaimInv'
<1>1. /\ RowInv /\ ClaimsAreNamed /\ ReadsAreOld /\ ClaimedIsRead /\ HeldForItsTime
      /\ OneAttemptPerClaim
  BY DEF IInv, ClaimInv
<1>2. row' = row /\ worker' = worker /\ now' \in {now, now + 1}
  BY DEF Rests
<1>3. RowInv'
  BY <1>1, <1>2, RowFacts DEF RowInv
<1>4. ClaimsAreNamed'
  <2> SUFFICES ASSUME NEW w \in Workers, Found(w) \/ Attempting(w)
               PROVE  Mine(w) \in [at : 0..now', by : {w}]
    BY <1>2 DEF ClaimsAreNamed, Found, Attempting, Mine
  <2> QED BY <1>2, Named, RowFacts
<1>5. ReadsAreOld' /\ ClaimedIsRead' /\ OneAttemptPerClaim'
  BY <1>1, <1>2 DEF ReadsAreOld, ReadWasDue, DunningWentOn, Unused, ClaimedIsRead,
                    OneAttemptPerClaim, Found, Sub, Mine, Attempting
<1>6. HeldForItsTime'
  <2> SUFFICES ASSUME NEW v \in Workers, Holding(v)
               PROVE  /\ row.claim # Mine(v) =>
                             Mine(v).at + ClaimTTL <= IF row.claim = NoClaim THEN now' ELSE row.claim.at
                      /\ \A w \in Workers : Found(w) /\ UnchangedSince(Sub(w)) =>
                             Mine(v).at + ClaimTTL <= Mine(w).at
    BY <1>2 DEF HeldForItsTime, Found, Holding, Attempting, Sub, Mine, UnchangedSince, SameDate
  <2>1. Mine(v).at \in Nat
    BY Named DEF Holding
  <2> QED BY <1>1, <1>2, <2>1, RowFacts, Constants DEF HeldForItsTime
<1> QED BY <1>3, <1>4, <1>5, <1>6 DEF ClaimInv

\* Processes other than w are as they were.
LEMMA GoesOnKeepsClaims ==
    ASSUME IInv, NEW w \in Workers, GoesOn(w)
    PROVE  RowInv' /\ ClaimInv'
<1>1. /\ RowInv /\ ClaimsAreNamed /\ ReadsAreOld /\ ClaimedIsRead /\ HeldForItsTime
      /\ OneAttemptPerClaim
  BY DEF IInv, ClaimInv
<1>2. now' = now /\ row' = row
  BY DEF GoesOn
<1>3. \A v \in Workers :
         /\ Found(v)' => Found(v) /\ v # w
         /\ Attempting(v)' => Attempting(v) /\ Sub(v)' = Sub(v) /\ Mine(v)' = Mine(v)
                              /\ worker'[v].fresh = worker[v].fresh
         /\ v # w => Sub(v)' = Sub(v) /\ Mine(v)' = Mine(v)
  BY DEF GoesOn, Found, Attempting, Sub, Mine
<1>4. \A v \in Workers : Holding(v)' => Holding(v)
  BY <1>3 DEF Holding
<1>5. RowInv'
  BY <1>1, <1>2 DEF RowInv
<1>6. ClaimsAreNamed'
  BY <1>1, <1>2, <1>3 DEF ClaimsAreNamed
<1>7. ReadsAreOld'
  BY <1>1, <1>2, <1>3 DEF ReadsAreOld, ReadWasDue, DunningWentOn, Unused
<1>8. ClaimedIsRead'
  BY <1>1, <1>2, <1>3 DEF ClaimedIsRead
<1>9. HeldForItsTime'
  <2>1. \A v \in Workers : Found(v)' /\ UnchangedSince(Sub(v))' => UnchangedSince(Sub(v))
    BY <1>2, <1>3 DEF UnchangedSince, SameDate
  <2> QED BY <1>1, <1>2, <1>3, <1>4, <2>1 DEF HeldForItsTime, Holding
<1>10. OneAttemptPerClaim'
  BY <1>1, <1>3 DEF OneAttemptPerClaim, Mine
<1> QED BY <1>5, <1>6, <1>7, <1>8, <1>9, <1>10 DEF ClaimInv

LEMMA FindsKeepsClaims ==
    ASSUME IInv, NEW w \in Workers, Finds(w)
    PROVE  RowInv' /\ ClaimInv'
<1>1. /\ RowInv /\ ClaimsAreNamed /\ ReadsAreOld /\ ClaimedIsRead /\ HeldForItsTime
      /\ OneAttemptPerClaim
  BY DEF IInv, ClaimInv
<1>2. /\ now' = now /\ row' = row /\ now \in Nat
      /\ Found(w)' /\ Sub(w)' = row /\ Mine(w)' = [at |-> now, by |-> w]
      /\ ~Attempting(w)' /\ ~Holding(w)'
  BY RowFacts DEF Finds, Found, Sub, Mine, Attempting, Holding
<1>3. \A v \in Workers \ {w} :
         /\ Found(v)' = Found(v) /\ Attempting(v)' = Attempting(v)
         /\ Holding(v)' = Holding(v)
         /\ Sub(v)' = Sub(v) /\ Mine(v)' = Mine(v) /\ worker'[v].fresh = worker[v].fresh
  BY DEF Finds, Found, Attempting, Sub, Mine, Holding
<1>4. row.claim = NoClaim \/ row.claim.at + ClaimTTL <= now
  BY RowFacts, Constants DEF Finds, ClaimIsFree
<1>5. row.claim # [at |-> now, by |-> w]
  BY <1>4, RowFacts, Constants DEF NoClaim, None
<1>6. RowInv'
  BY <1>1, <1>2 DEF RowInv
<1>7. ClaimsAreNamed'
  <2>1. [at |-> now, by |-> w] \in [at : 0..now, by : {w}]
    BY <1>2
  <2> QED BY <1>1, <1>2, <1>3, <2>1 DEF ClaimsAreNamed
<1>8. ReadsAreOld'
  <2> SUFFICES ASSUME NEW v \in Workers, Found(v)'
               PROVE  (ReadWasDue(v) /\ DunningWentOn(v) /\ Unused(v))'
    BY DEF ReadsAreOld
  <2>1. CASE v = w
    <3>1. row.status \in {"ACTIVE", "PAST_DUE"} /\ (row.status = "PAST_DUE" => row.retry <= now)
      BY DEF Finds, IsDue
    <3>2. ReadWasDue(w)'
      BY <1>1, <1>2, <1>4, <3>1 DEF ReadWasDue, RowInv
    <3>3. DunningWentOn(w)'
      BY <1>2, RowFacts DEF DunningWentOn
    <3>4. \A u \in Workers : u # w /\ Found(u) => Sub(u).claim # [at |-> now, by |-> w]
      <4> SUFFICES ASSUME NEW u \in Workers, u # w, Found(u)
                   PROVE  Sub(u).claim # [at |-> now, by |-> w]
        OBVIOUS
      <4>1. Sub(u).claim = NoClaim \/ Sub(u).claim.at + ClaimTTL <= Mine(u).at
        BY <1>1 DEF ReadsAreOld, ReadWasDue
      <4>2. Mine(u).at \in Nat /\ Mine(u).at <= now
        BY Named
      <4> QED BY <1>2, <4>1, <4>2, SubFacts, Constants DEF NoClaim, None
    <3>5. Unused(w)'
      BY <1>2, <1>3, <1>5, <3>4 DEF Unused
    <3> QED BY <2>1, <3>2, <3>3, <3>5
  <2>2. CASE v # w
    <3>1. Found(v) /\ ReadWasDue(v) /\ DunningWentOn(v) /\ Unused(v)
      BY <1>1, <1>3, <2>2 DEF ReadsAreOld
    <3>2. ReadWasDue(v)' /\ DunningWentOn(v)'
      BY <1>2, <1>3, <2>2, <3>1 DEF ReadWasDue, DunningWentOn
    <3>3. Unused(v)'
      BY <1>2, <1>3, <2>2, <3>1 DEF Unused
    <3> QED BY <3>2, <3>3
  <2> QED BY <2>1, <2>2
<1>9. ClaimedIsRead'
  BY <1>1, <1>2, <1>3 DEF ClaimedIsRead
<1>10. HeldForItsTime'
  <2> SUFFICES ASSUME NEW v \in Workers, Holding(v)'
               PROVE  (/\ row.claim # Mine(v) =>
                             Mine(v).at + ClaimTTL <= IF row.claim = NoClaim THEN now ELSE row.claim.at
                       /\ \A u \in Workers : Found(u) /\ UnchangedSince(Sub(u)) =>
                             Mine(v).at + ClaimTTL <= Mine(u).at)'
    BY DEF HeldForItsTime
  <2>1. v # w /\ Holding(v) /\ Mine(v)' = Mine(v) /\ Mine(v).at \in Nat
    BY <1>2, <1>3, Named DEF Holding
  <2>2. row.claim # Mine(v) =>
             Mine(v).at + ClaimTTL <= IF row.claim = NoClaim THEN now ELSE row.claim.at
    BY <1>1, <2>1 DEF HeldForItsTime
  <2>3. Mine(v).at + ClaimTTL <= now
    <3>1. Mine(v) # NoClaim
      BY <2>1, Named DEF Holding
    <3> QED BY <1>4, <2>1, <2>2, <3>1, RowFacts, Constants
  <2>4. ASSUME NEW u \in Workers, Found(u)', UnchangedSince(Sub(u))'
        PROVE  Mine(v)'.at + ClaimTTL <= Mine(u)'.at
    <3>1. CASE u = w
      BY <1>2, <2>1, <2>3, <3>1
    <3>2. CASE u # w
      <4>1. Found(u) /\ UnchangedSince(Sub(u)) /\ Mine(u)' = Mine(u)
        BY <1>2, <1>3, <2>4, <3>2 DEF UnchangedSince, SameDate
      <4> QED BY <1>1, <2>1, <4>1 DEF HeldForItsTime
    <3> QED BY <3>1, <3>2
  <2> QED BY <1>2, <2>1, <2>2, <2>4
<1>11. OneAttemptPerClaim'
  BY <1>1, <1>2, <1>3 DEF OneAttemptPerClaim, Mine
<1> QED BY <1>6, <1>7, <1>8, <1>9, <1>10, <1>11 DEF ClaimInv

LEMMA ClaimedKeepsClaims ==
    ASSUME IInv, NEW w \in Workers, Claimed(w)
    PROVE  RowInv' /\ ClaimInv'
<1>1. /\ RowInv /\ ClaimsAreNamed /\ ReadsAreOld /\ ClaimedIsRead /\ HeldForItsTime
      /\ OneAttemptPerClaim
  BY DEF IInv, ClaimInv
<1>2. /\ now' = now /\ row'.claim = Mine(w)
      /\ row'.status = row.status /\ row'.failures = row.failures /\ row'.dunning = row.dunning
      /\ row'.retry = row.retry
      /\ ~Found(w)' /\ Attempting(w)' /\ Holding(w)' /\ worker'[w].fresh
      /\ Sub(w)' = Sub(w) /\ Mine(w)' = Mine(w)
  BY DEF Claimed, Found, Sub, Mine, Attempting, Holding
<1>3. \A v \in Workers \ {w} :
         /\ Found(v)' = Found(v) /\ Attempting(v)' = Attempting(v)
         /\ Holding(v)' = Holding(v)
         /\ Sub(v)' = Sub(v) /\ Mine(v)' = Mine(v) /\ worker'[v].fresh = worker[v].fresh
  BY DEF Claimed, Found, Attempting, Sub, Mine, Holding
<1>4. Found(w) /\ UnchangedSince(Sub(w)) /\ ReadWasDue(w) /\ Unused(w)
  BY <1>1 DEF Claimed, ReadsAreOld
<1>5. row.status \in {"ACTIVE", "PAST_DUE"} /\ row.status = Sub(w).status
  BY <1>4 DEF UnchangedSince, ReadWasDue
<1>6. RowInv'
  <2>1. SoundRow(row')
    BY <1>1, <1>2, <1>5 DEF RowInv, SoundRow
  <2>2. Mine(w).at <= now
    BY <1>4, Named
  <2> QED BY <1>1, <1>2, <2>1, <2>2 DEF RowInv
<1>7. ClaimsAreNamed'
  BY <1>1, <1>2, <1>3, <1>4 DEF ClaimsAreNamed
<1>8. ReadsAreOld'
  <2> SUFFICES ASSUME NEW v \in Workers, Found(v)'
               PROVE  (ReadWasDue(v) /\ DunningWentOn(v) /\ Unused(v))'
    BY DEF ReadsAreOld
  <2>1. v # w /\ Found(v) /\ ReadWasDue(v) /\ DunningWentOn(v) /\ Unused(v)
    BY <1>1, <1>2, <1>3 DEF ReadsAreOld
  <2>2. ReadWasDue(v)' /\ DunningWentOn(v)'
    BY <1>2, <1>3, <2>1 DEF ReadWasDue, DunningWentOn
  <2>3. Mine(w) # Mine(v)
    BY <1>4, <2>1, Named
  <2>4. Unused(v)'
    BY <1>2, <1>3, <2>1, <2>3 DEF Unused
  <2> QED BY <2>2, <2>4
<1>9. ClaimedIsRead'
  <2> SUFFICES ASSUME NEW v \in Workers, Attempting(v)', row'.claim = Mine(v)'
               PROVE  /\ worker'[v].fresh
                      /\ row'.status = Sub(v)'.status /\ row'.status \in {"ACTIVE", "PAST_DUE"}
                      /\ row'.failures = Sub(v)'.failures /\ row'.dunning = Sub(v)'.dunning
    BY DEF ClaimedIsRead
  <2>1. v = w
    <3>1. v # w => Attempting(v) /\ Mine(v)' = Mine(v)
      BY <1>3
    <3> QED BY <1>2, <1>4, <3>1, Named
  <2>2. row.failures = Sub(w).failures /\ row.dunning = Sub(w).dunning
    <3>1. row.failures = Sub(w).failures
      BY <1>4 DEF UnchangedSince
    <3>2. CASE row.status = "ACTIVE"
      BY <1>1, <1>4, <1>5, <3>2 DEF RowInv, SoundRow, ReadWasDue
    <3>3. CASE row.status = "PAST_DUE"
      <4>1. row.retry = Sub(w).retry
        BY <1>4, <1>5, <3>3 DEF UnchangedSince, SameDate
      <4>2. /\ row.retry = row.dunning + DunningDays[row.failures]
            /\ row.failures \in 1..Len(DunningDays)
        BY <1>1, <3>3 DEF RowInv, SoundRow
      <4>3. Sub(w).retry = Sub(w).dunning + DunningDays[Sub(w).failures]
        BY <1>4, <1>5, <3>3 DEF ReadWasDue, SoundRow
      <4>4. DunningDays[row.failures] \in Nat
        BY <4>2, Constants
      <4>5. row.dunning \in Int /\ Sub(w).dunning \in Int
        BY RowFacts, SubFacts
      <4>6. Sub(w).retry = Sub(w).dunning + DunningDays[row.failures]
        BY <3>1, <4>3
      <4>7. row.dunning = Sub(w).dunning
        <5>1. \A a, b, d \in Int : a + d = b + d => a = b
          OBVIOUS
        <5>2. row.dunning + DunningDays[row.failures] = Sub(w).dunning + DunningDays[row.failures]
          BY <4>1, <4>2, <4>6
        <5>3. DunningDays[row.failures] \in Int
          BY <4>4
        <5> QED BY <4>5, <5>1, <5>2, <5>3
      <4> QED BY <3>1, <4>7
    <3> QED BY <1>5, <3>1, <3>2, <3>3
  <2> QED BY <1>2, <1>5, <2>1, <2>2
<1>10. \A v \in Workers \ {w} : Holding(v) => Mine(v).at + ClaimTTL <= Mine(w).at
  BY <1>1, <1>4 DEF HeldForItsTime
<1>11. HeldForItsTime'
  <2> SUFFICES ASSUME NEW v \in Workers, Holding(v)'
               PROVE  /\ row'.claim # Mine(v)' => Mine(v)'.at + ClaimTTL <=
                             IF row'.claim = NoClaim THEN now' ELSE row'.claim.at
                      /\ \A u \in Workers : Found(u)' /\ UnchangedSince(Sub(u))' =>
                             Mine(v)'.at + ClaimTTL <= Mine(u)'.at
    BY DEF HeldForItsTime
  <2>1. row'.claim # Mine(v)' => v # w /\ Holding(v) /\ Mine(v)' = Mine(v)
    BY <1>2, <1>3
  <2>2. Mine(w) # NoClaim
    BY <1>4, Named
  <2>3. ASSUME NEW u \in Workers, Found(u)', UnchangedSince(Sub(u))' PROVE FALSE
    <3>1. u # w /\ Found(u) /\ Sub(u)' = Sub(u)
      BY <1>2, <1>3, <2>3
    <3>2. Sub(u).claim = Mine(w)
      BY <1>2, <2>3, <3>1 DEF UnchangedSince
    <3> QED BY <1>4, <3>1, <3>2 DEF Unused
  <2> QED BY <1>2, <1>10, <2>1, <2>2, <2>3
<1>12. OneAttemptPerClaim'
  <2> SUFFICES ASSUME NEW u \in Workers, NEW v \in Workers, u # v, Holding(u)', Holding(v)'
               PROVE  \/ Mine(u)'.at + ClaimTTL <= Mine(v)'.at
                      \/ Mine(v)'.at + ClaimTTL <= Mine(u)'.at
    BY DEF OneAttemptPerClaim, Holding, Mine
  <2>1. CASE u # w /\ v # w
    BY <1>1, <1>3, <2>1 DEF OneAttemptPerClaim, Holding, Mine
  <2>2. CASE u = w \/ v = w
    BY <1>2, <1>3, <1>10, <2>2
  <2> QED BY <2>1, <2>2
<1> QED BY <1>6, <1>7, <1>8, <1>9, <1>11, <1>12 DEF ClaimInv

LEMMA FailsKeepsClaims ==
    ASSUME IInv, NEW w \in Workers, Fails(w)
    PROVE  RowInv' /\ ClaimInv'
<1>1. /\ RowInv /\ ClaimsAreNamed /\ ReadsAreOld /\ ClaimedIsRead /\ HeldForItsTime
      /\ OneAttemptPerClaim
  BY DEF IInv, ClaimInv
<1>2. /\ now' = now /\ row'.claim = NoClaim /\ row'.failures = row.failures + 1
      /\ row'.dunning = (IF row.dunning = None THEN now ELSE row.dunning) /\ row'.dunning >= 0
      /\ row'.status \in {"PAST_DUE", "FAILED"} /\ SoundRow(row')
      /\ ~Found(w)' /\ ~Attempting(w)' /\ ~Holding(w)'
  BY DEF Fails, Found, Attempting, Holding
<1>3. \A v \in Workers \ {w} :
         /\ Found(v)' = Found(v) /\ Attempting(v)' = Attempting(v)
         /\ Holding(v)' = Holding(v)
         /\ Sub(v)' = Sub(v) /\ Mine(v)' = Mine(v) /\ worker'[v].fresh = worker[v].fresh
  BY DEF Fails, Found, Attempting, Sub, Mine, Holding
<1>4. Attempting(w) /\ row.claim = Mine(w) /\ Mine(w) # NoClaim
  BY Named DEF Fails, StillClaimed, Attempting, Mine
<1>5. RowInv'
  BY <1>2 DEF RowInv
<1>6. ClaimsAreNamed'
  BY <1>1, <1>2, <1>3 DEF ClaimsAreNamed
\* Nobody has read, or can have read, a row with this failure in it.
<1>7. ASSUME NEW v \in Workers, Found(v), v # w, Sub(v).status = "PAST_DUE",
             row'.dunning = Sub(v).dunning
      PROVE  row.failures >= Sub(v).failures
  <2>1. ReadWasDue(v) /\ DunningWentOn(v)
    BY <1>1, <1>7 DEF ReadsAreOld
  <2>2. CASE row.dunning = None
    <3>1. /\ Sub(v).failures \in 1..Len(DunningDays)
          /\ Sub(v).retry = Sub(v).dunning + DunningDays[Sub(v).failures]
          /\ Sub(v).retry <= Mine(v).at
      BY <1>7, <2>1 DEF ReadWasDue, SoundRow
    <3>2. DunningDays[Sub(v).failures] \in Nat \ {0} /\ Mine(v).at <= now /\ Mine(v).at \in Nat
      BY <1>7, <3>1, Constants, Named
    <3> QED BY <1>2, <1>7, <2>2, <3>1, <3>2, SubFacts, RowFacts
  <2>3. CASE row.dunning # None
    BY <1>2, <1>7, <2>1, <2>3 DEF DunningWentOn
  <2> QED BY <2>2, <2>3
<1>8. ReadsAreOld'
  <2> SUFFICES ASSUME NEW v \in Workers, Found(v)'
               PROVE  (ReadWasDue(v) /\ DunningWentOn(v) /\ Unused(v))'
    BY DEF ReadsAreOld
  <2>1. v # w /\ Found(v) /\ ReadWasDue(v) /\ DunningWentOn(v) /\ Unused(v)
    BY <1>1, <1>2, <1>3 DEF ReadsAreOld
  <2>2. ReadWasDue(v)'
    BY <1>3, <2>1 DEF ReadWasDue
  <2>3. DunningWentOn(v)'
    BY <1>2, <1>3, <1>7, <2>1, RowFacts, SubFacts DEF DunningWentOn
  <2>4. Unused(v)'
    <3>1. Mine(v) # NoClaim
      BY <2>1, Named
    <3> QED BY <1>2, <1>3, <2>1, <3>1 DEF Unused
  <2> QED BY <2>2, <2>3, <2>4
<1>9. \A v \in Workers : Attempting(v)' => row'.claim # Mine(v)'
  <2> SUFFICES ASSUME NEW v \in Workers, Attempting(v)' PROVE row'.claim # Mine(v)'
    OBVIOUS
  <2>1. Attempting(v) /\ Mine(v)' = Mine(v)
    BY <1>2, <1>3
  <2> QED BY <1>2, <2>1, Named
<1>10. ClaimedIsRead'
  BY <1>9 DEF ClaimedIsRead
<1>11. HeldForItsTime'
  <2> SUFFICES ASSUME NEW v \in Workers, Holding(v)'
               PROVE  /\ Mine(v)'.at + ClaimTTL <= now'
                      /\ \A u \in Workers : Found(u)' /\ UnchangedSince(Sub(u))' =>
                             Mine(v)'.at + ClaimTTL <= Mine(u)'.at
    BY <1>2 DEF HeldForItsTime
  <2>1. v # w /\ Holding(v) /\ Attempting(v) /\ Mine(v)' = Mine(v)
    BY <1>2, <1>3 DEF Holding
  <2>2. Mine(v).at + ClaimTTL <= Mine(w).at
    <3>1. row.claim # Mine(v) /\ row.claim # NoClaim
      BY <1>4, <2>1, Named
    <3> QED BY <1>1, <1>4, <2>1, <3>1 DEF HeldForItsTime
  <2>3. Mine(v)'.at + ClaimTTL <= now'
    BY <1>2, <1>4, <2>1, <2>2, Named, RowFacts, Constants
  <2>4. ASSUME NEW u \in Workers, Found(u)', UnchangedSince(Sub(u))' PROVE FALSE
    <3>1. u # w /\ Found(u) /\ Sub(u)' = Sub(u) /\ ReadWasDue(u)
      BY <1>1, <1>2, <1>3, <2>4 DEF ReadsAreOld
    <3>2. /\ row'.status = Sub(u).status /\ row'.failures = Sub(u).failures
          /\ (Sub(u).status # "ACTIVE" => row'.retry = Sub(u).retry)
      BY <2>4, <3>1 DEF UnchangedSince, SameDate
    <3>3. Sub(u).status = "PAST_DUE"
      BY <1>2, <3>1, <3>2 DEF ReadWasDue
    <3>4. /\ row'.retry = row'.dunning + DunningDays[row'.failures]
          /\ row'.failures \in 1..Len(DunningDays)
          /\ Sub(u).retry = Sub(u).dunning + DunningDays[Sub(u).failures]
      BY <1>2, <3>1, <3>2, <3>3 DEF SoundRow, ReadWasDue
    <3>5. DunningDays[row'.failures] \in Nat /\ row'.dunning \in Int
      BY <1>2, <3>4, Constants, RowFacts
    <3>6. row'.dunning = Sub(u).dunning
      BY <3>2, <3>3, <3>4, <3>5, SubFacts
    <3>7. row.failures >= Sub(u).failures
      BY <1>7, <3>1, <3>3, <3>6
    <3> QED BY <1>2, <3>2, <3>7, RowFacts, SubFacts
  <2> QED BY <2>3, <2>4
<1>12. OneAttemptPerClaim'
  BY <1>1, <1>2, <1>3 DEF OneAttemptPerClaim, Mine
<1> QED BY <1>5, <1>6, <1>8, <1>10, <1>11, <1>12 DEF ClaimInv

LEMMA SettlesKeepsClaims ==
    ASSUME IInv, Settles
    PROVE  RowInv' /\ ClaimInv'
<1>1. ClaimsAreNamed /\ ReadsAreOld
  BY DEF IInv, ClaimInv
<1>2. /\ now' = now /\ row'.claim = NoClaim
      /\ SoundRow(row') /\ row'.status \in {"ACTIVE", "CANCELLED"}
      /\ \/ row'.failures = 0 /\ row'.dunning = None
         \/ row'.failures = row.failures /\ row'.dunning = row.dunning
  BY DEF Settles
<1>3. \A v \in Workers :
         /\ Found(v)' = Found(v) /\ Attempting(v)' = Attempting(v) /\ ~Holding(v)'
         /\ Sub(v)' = Sub(v) /\ Mine(v)' = Mine(v)
  BY DEF Settles, Found, Attempting, Sub, Mine, Holding
<1>4. RowInv'
  BY <1>2 DEF RowInv
<1>5. ClaimsAreNamed'
  BY <1>1, <1>2, <1>3 DEF ClaimsAreNamed
<1>6. ReadsAreOld'
  <2> SUFFICES ASSUME NEW v \in Workers, Found(v)'
               PROVE  (ReadWasDue(v) /\ DunningWentOn(v) /\ Unused(v))'
    BY DEF ReadsAreOld
  <2>1. Found(v) /\ ReadWasDue(v) /\ DunningWentOn(v) /\ Unused(v)
    BY <1>1, <1>3 DEF ReadsAreOld
  <2>2. ReadWasDue(v)'
    BY <1>3, <2>1 DEF ReadWasDue
  <2>3. DunningWentOn(v)'
    <3>1. Sub(v).status = "PAST_DUE" => Sub(v).dunning # None
      BY <2>1, SubFacts DEF ReadWasDue, None
    <3> QED BY <1>2, <1>3, <2>1, <3>1 DEF DunningWentOn
  <2>4. Unused(v)'
    <3>1. Mine(v) # NoClaim
      BY <2>1, Named
    <3> QED BY <1>2, <1>3, <2>1, <3>1 DEF Unused
  <2> QED BY <2>2, <2>3, <2>4
<1>7. ClaimedIsRead'
  <2>1. \A v \in Workers : Attempting(v) => Mine(v) # NoClaim
    BY Named
  <2> QED BY <1>2, <1>3, <2>1 DEF ClaimedIsRead
<1>8. HeldForItsTime'
  BY <1>3 DEF HeldForItsTime
<1>9. OneAttemptPerClaim'
  BY <1>3 DEF OneAttemptPerClaim, Holding
<1> QED BY <1>4, <1>5, <1>6, <1>7, <1>8, <1>9 DEF ClaimInv

LEMMA ClaimStep == ASSUME IInv, [Next]_vars PROVE RowInv' /\ ClaimInv'
BY KindOfStep, RestsKeepsClaims, GoesOnKeepsClaims, FindsKeepsClaims, ClaimedKeepsClaims,
   FailsKeepsClaims, SettlesKeepsClaims

-----------------------------------------------------------------------------
(* The row and the contract agree through every step. *)

Event == [topic : Topics, due : Times]

\* The contract tells what it has become.
LEMMA ToldLast ==
    ASSUME Types, NEW e \in Event, Emit(e), e.topic # "sub_change",
           e.topic = "sub_cancel" <=> ~onChain'.active, onChain'.active => e.due = onChain'.due
    PROVE  EventsInAccord' /\ ~NothingToTell'
<1> DEFINE n == Len(events) + 1
<1>1. events \in Seq(Event)
  BY DEF Types, Event
<1>2. /\ DOMAIN events' = DOMAIN events \cup {n} /\ events'[n] = e
      /\ n \in DOMAIN events' /\ \A i \in DOMAIN events : i \in Nat /\ i < n
  BY <1>1, QueueEnd DEF Emit
<1> HIDE DEF n
<1>3. \A i \in DOMAIN events' : i # n => ~LastTold(i)'
  BY <1>2 DEF LastTold, Telling
<1>4. EventsInAccord'
  BY <1>2, <1>3 DEF EventsInAccord
<1> QED BY <1>2, <1>4 DEF NothingToTell, Telling

\* A change of terms is not telling.
LEMMA ChangeIsNotTold ==
    ASSUME Types, EventsInAccord, NEW e \in Event, Emit(e), e.topic = "sub_change",
           onChain' = onChain
    PROVE  EventsInAccord' /\ (NothingToTell' => NothingToTell)
<1>0. PICK n : n = Len(events) + 1
  OBVIOUS
<1>1. events \in Seq(Event)
  BY DEF Types, Event
<1>2. /\ DOMAIN events' = DOMAIN events \cup {n} /\ events'[n] = e
      /\ \A i \in DOMAIN events : i \in Nat /\ i < n /\ events'[i] = events[i]
  BY <1>0, <1>1, QueueEnd DEF Emit
<1>3. ~Telling(n)' /\ \A i \in DOMAIN events : Telling(i)' = Telling(i)
  BY <1>2 DEF Telling
<1>4. \A i \in DOMAIN events' : LastTold(i)' => i \in DOMAIN events /\ LastTold(i)
  BY <1>2, <1>3 DEF LastTold
<1>5. EventsInAccord'
  BY <1>2, <1>4 DEF EventsInAccord
<1> QED BY <1>2, <1>3, <1>5 DEF NothingToTell

\* The indexer takes the first event.
LEMMA ToldFirst ==
    ASSUME Types, EventsInAccord, events # <<>>, events' = Tail(events), onChain' = onChain
    PROVE  /\ EventsInAccord' /\ (NothingToTell' /\ ~Telling(1) => NothingToTell)
           /\ (NothingToTell' /\ Telling(1) => LastTold(1) /\ 1 \in DOMAIN events)
<1>1. events \in Seq(Event)
  BY DEF Types, Event
<1>2. /\ 1 \in DOMAIN events
      /\ \A i \in DOMAIN events' : i \in Nat /\ i + 1 \in DOMAIN events /\ events'[i] = events[i + 1]
      /\ \A i \in DOMAIN events : i \in Nat /\ (i > 1 => i - 1 \in DOMAIN events')
  BY <1>1, QueueHead
<1>3. \A i \in DOMAIN events' : Telling(i)' = Telling(i + 1)
  BY <1>2 DEF Telling
<1>4. \A j \in DOMAIN events : j > 1 => j - 1 \in DOMAIN events' /\ Telling(j - 1)' = Telling(j)
  <2> SUFFICES ASSUME NEW j \in DOMAIN events, j > 1
               PROVE  j - 1 \in DOMAIN events' /\ Telling(j - 1)' = Telling(j)
    OBVIOUS
  <2>1. j - 1 \in DOMAIN events' /\ j \in Nat /\ (j - 1) + 1 = j
    BY <1>2
  <2>2. events'[j - 1] = events[j]
    BY <1>2, <2>1
  <2> QED BY <2>1, <2>2 DEF Telling
<1>5. ASSUME NEW i \in DOMAIN events', LastTold(i)' PROVE LastTold(i + 1)
  <2>1. Telling(i + 1)
    BY <1>3, <1>5 DEF LastTold
  <2>2. ASSUME NEW j \in DOMAIN events, j > i + 1 PROVE ~Telling(j)
    <3>1. j > 1 /\ j \in Nat /\ i \in Nat /\ j - 1 > i
      BY <1>2, <2>2
    <3>2. j - 1 \in DOMAIN events' /\ ~Telling(j - 1)'
      BY <1>4, <1>5, <2>2, <3>1 DEF LastTold
    <3> QED BY <1>4, <3>1, <3>2
  <2> QED BY <2>1, <2>2 DEF LastTold
<1>6. EventsInAccord'
  BY <1>2, <1>5 DEF EventsInAccord
<1>7. NothingToTell' => \A j \in DOMAIN events : j > 1 => ~Telling(j)
  BY <1>4 DEF NothingToTell
<1>8. NothingToTell' /\ ~Telling(1) => NothingToTell
  BY <1>2, <1>7 DEF NothingToTell
<1> QED BY <1>2, <1>6, <1>7, <1>8 DEF LastTold

LEMMA LandingKeepsAccord ==
    ASSUME IInv, Tick \/ LandCreate \/ LandCancel \/ \E w \in Workers : LandCharge(w)
    PROVE  ChainInv'
<1>1. /\ Types /\ EventsInAccord /\ RowInAccord /\ HandlerInAccord /\ DueSoon
      /\ now \in Nat /\ onChain.due \in Int /\ onChain.due \in Times /\ onChain.active \in BOOLEAN
      /\ onChain \in [exists : BOOLEAN, active : BOOLEAN, due : Times]
      /\ used \in [ops : Nat, faults : Nat, dropped : BOOLEAN]
      /\ userTx \in {"none", "create", "cancel"}
  BY Constants DEF IInv, ChainInv, Types, Times, None
<1>2. Interval \in Nat /\ Interval > 0 /\ now + Interval \in Times /\ None \in Times
  BY <1>1, Constants DEF Types, Times, None
<1>3. CASE Tick
  <2>1. /\ now' = now + 1 /\ userTx' = "none" /\ onChain' = onChain /\ events' = events
        /\ row' = row /\ handler' = handler
        /\ used'.dropped = (used.dropped \/ userTx # "none")
    BY <1>1, <1>3 DEF Tick
  <2>2. EventsInAccord'
    BY <1>1, <2>1 DEF EventsInAccord, LastTold, Telling
  <2>3. NothingToTell' = NothingToTell /\ Running' = Running
    BY <2>1 DEF NothingToTell, Telling, Running
  <2>4. RowInAccord'
    BY <1>1, <2>1, <2>3 DEF RowInAccord
  <2>5. HandlerInAccord'
    BY <1>1, <2>1 DEF HandlerInAccord
  <2>6. DueSoon'
    BY <1>1, <1>2, <2>1 DEF DueSoon
  <2> QED BY <2>2, <2>4, <2>5, <2>6 DEF ChainInv
<1>4. CASE LandCreate /\ onChain.active
  <2>1. /\ Emit([topic |-> "sub_change", due |-> onChain.due]) /\ onChain' = onChain
        /\ userTx = "create" /\ userTx' = "none" /\ now' = now /\ row' = row
        /\ handler' = handler /\ used' = used
    BY <1>4 DEF LandCreate
  <2>2. [topic |-> "sub_change", due |-> onChain.due] \in Event
    BY <1>1 DEF Event, Topics
  <2>3. EventsInAccord' /\ (NothingToTell' => NothingToTell)
    BY <1>1, <2>1, <2>2, ChangeIsNotTold
  <2>4. RowInAccord'
    BY <1>1, <1>4, <2>1, <2>3 DEF RowInAccord, Running
  <2>5. HandlerInAccord' /\ DueSoon'
    BY <1>1, <1>4, <2>1 DEF HandlerInAccord, DueSoon
  <2> QED BY <2>3, <2>4, <2>5 DEF ChainInv
<1>5. CASE LandCreate /\ ~onChain.active
  <2> DEFINE e == [topic |-> "sub_created", due |-> now + Interval]
  <2>1. /\ Emit(e) /\ onChain'.active /\ onChain'.due = now + Interval
        /\ userTx = "create" /\ userTx' = "none" /\ now' = now /\ row' = row
        /\ handler' = handler /\ used' = used
    BY <1>5 DEF LandCreate
  <2>2. e \in Event /\ e.topic = "sub_created" /\ e.due = now + Interval
    BY <1>2 DEF Event, Topics
  <2> HIDE DEF e
  <2>3. EventsInAccord' /\ ~NothingToTell'
    BY <1>1, <2>1, <2>2, ToldLast
  <2>4. RowInAccord' /\ HandlerInAccord' /\ DueSoon'
    BY <1>1, <1>2, <2>1, <2>3 DEF RowInAccord, HandlerInAccord, DueSoon
  <2> QED BY <2>3, <2>4 DEF ChainInv
<1>6. CASE LandCancel /\ onChain.active
  <2> DEFINE e == [topic |-> "sub_cancel", due |-> None]
  <2>1. /\ Emit(e) /\ ~onChain'.active
        /\ userTx = "cancel" /\ userTx' = "none" /\ now' = now /\ row' = row
        /\ handler' = handler /\ used' = used
    BY <1>1, <1>6 DEF LandCancel
  <2>2. e \in Event /\ e.topic = "sub_cancel"
    BY <1>2 DEF Event, Topics
  <2> HIDE DEF e
  <2>3. EventsInAccord' /\ ~NothingToTell'
    BY <1>1, <2>1, <2>2, ToldLast
  <2>4. RowInAccord' /\ HandlerInAccord' /\ DueSoon'
    BY <1>1, <2>1, <2>3 DEF RowInAccord, HandlerInAccord, DueSoon
  <2> QED BY <2>3, <2>4 DEF ChainInv
<1>7. CASE LandCancel /\ ~onChain.active
  <2>1. /\ UNCHANGED <<onChain, events, now, row, handler, used>>
        /\ userTx = "cancel" /\ userTx' = "none"
    BY <1>7 DEF LandCancel
  <2>2. used.dropped
    BY <1>1, <1>7, <2>1 DEF HandlerInAccord
  <2>3. EventsInAccord'
    BY <1>1, <2>1 DEF EventsInAccord, LastTold, Telling
  <2>4. RowInAccord' /\ HandlerInAccord' /\ DueSoon'
    BY <1>1, <1>7, <2>1, <2>2 DEF RowInAccord, HandlerInAccord, DueSoon
  <2> QED BY <2>3, <2>4 DEF ChainInv
<1>8. ASSUME NEW w \in Workers, LandCharge(w) PROVE ChainInv'
  <2>1. UNCHANGED <<now, row, userTx, handler>> /\ used'.dropped = used.dropped
    BY <1>1, <1>8 DEF LandCharge, CountFault
  <2>2. CASE UNCHANGED <<onChain, events>>
    <3>1. EventsInAccord'
      BY <1>1, <2>2 DEF EventsInAccord, LastTold, Telling
    <3>2. RowInAccord' /\ HandlerInAccord' /\ DueSoon'
      BY <1>1, <2>1, <2>2
         DEF RowInAccord, HandlerInAccord, DueSoon, NothingToTell, Telling, Running
    <3> QED BY <3>1, <3>2 DEF ChainInv
  <2>3. CASE ~UNCHANGED <<onChain, events>>
    <3> DEFINE e == [topic |-> "sub_exec", due |-> onChain.due + Interval]
    <3>1. Chargeable /\ onChain' = [onChain EXCEPT !.due = @ + Interval] /\ Emit(e)
      BY <1>8, <2>3 DEF LandCharge
    <3>2. /\ onChain.active /\ onChain'.active /\ now >= onChain.due
          /\ onChain'.due = onChain.due + Interval
      BY <1>1, <3>1 DEF Chargeable
    <3>3. onChain.due + Interval \in Times
      BY <1>1, <1>2, <3>2, Constants DEF Types, Times, None
    <3>4. e \in Event /\ e.topic = "sub_exec" /\ e.due = onChain'.due
      BY <3>2, <3>3 DEF Event, Topics
    <3> HIDE DEF e
    <3>5. EventsInAccord' /\ ~NothingToTell'
      BY <1>1, <3>1, <3>2, <3>4, ToldLast
    <3>6. RowInAccord' /\ HandlerInAccord' /\ DueSoon'
      BY <1>1, <1>2, <2>1, <3>2, <3>5 DEF RowInAccord, HandlerInAccord, DueSoon
    <3> QED BY <3>5, <3>6 DEF ChainInv
  <2> QED BY <2>2, <2>3
<1> QED BY <1>3, <1>4, <1>5, <1>6, <1>7, <1>8 DEF LandCreate, LandCancel

LEMMA ProjectingKeepsAccord == ASSUME IInv, ProjectEvent PROVE ChainInv'
<1>1. /\ Types /\ EventsInAccord /\ RowInAccord /\ HandlerInAccord /\ DueSoon /\ row \in RowType
      /\ onChain.due \in Int
  BY Constants DEF IInv, ChainInv, Types, Times, None
<1>2. /\ events # <<>> /\ events' = Tail(events)
      /\ UNCHANGED <<now, onChain, userTx, handler, used>>
  BY DEF ProjectEvent
<1>3. /\ EventsInAccord' /\ (NothingToTell' /\ ~Telling(1) => NothingToTell)
      /\ (NothingToTell' /\ Telling(1) => LastTold(1) /\ 1 \in DOMAIN events)
  BY <1>1, <1>2, ToldFirst
<1>4. HandlerInAccord' /\ DueSoon'
  BY <1>1, <1>2 DEF HandlerInAccord, DueSoon
<1> DEFINE e == Head(events)
<1>5. e = events[1] /\ e.topic \in Topics /\ e.due \in Times
  BY <1>1, <1>2, ProjectedRow
<1>6. RowInAccord'
  <2> SUFFICES ASSUME NothingToTell' PROVE RowInAccord'
    BY DEF RowInAccord
  <2>1. CASE ~Telling(1)
    <3>1. NothingToTell /\ row' = row
      BY <1>3, <1>5, <2>1 DEF ProjectEvent, Telling
    <3> QED BY <1>1, <1>2, <3>1 DEF RowInAccord, Running
  <2>2. CASE Telling(1)
    <3>1. /\ e.topic = "sub_cancel" <=> ~onChain.active
          /\ onChain.active => e.due = onChain.due
      BY <1>1, <1>3, <1>5, <2>2 DEF EventsInAccord
    <3>2. CASE e.topic = "sub_cancel"
      <4>1. row' = SubscriptionCancelled
        BY <3>2 DEF ProjectEvent
      <4>2. ~Running'
        BY <1>1, <4>1, CancelledRow DEF SubscriptionCancelled, Running
      <4> QED BY <1>2, <3>1, <3>2, <4>2 DEF RowInAccord
    <3>3. CASE e.topic # "sub_cancel"
      <4>1. row' = Cleared([row EXCEPT !.status = "ACTIVE", !.due = e.due])
        BY <1>5, <2>2, <3>3 DEF ProjectEvent, SubscriptionCreated, SubscriptionCharged, Telling, Topics
      <4>2. row'.status = "ACTIVE" /\ row'.due = e.due
        <5>1. "ACTIVE" \in Statuses
          BY DEF Statuses
        <5> HIDE DEF e
        <5> QED BY <1>1, <1>5, <4>1, <5>1, ClearedRow
      <4> HIDE DEF e
      <4> QED BY <1>1, <1>2, <3>1, <3>3, <4>2 DEF RowInAccord, Running
    <3> QED BY <3>2, <3>3
  <2> QED BY <2>1, <2>2
<1> QED BY <1>3, <1>4, <1>6 DEF ChainInv

LEMMA HandlersKeepAccord ==
    ASSUME IInv, SendCreate \/ WriteCreate \/ SendCancel \/ WriteCancel
    PROVE  ChainInv'
<1>1. /\ Types /\ EventsInAccord /\ RowInAccord /\ HandlerInAccord /\ DueSoon /\ row \in RowType
      /\ now \in 0..MaxTime /\ onChain.due \in Int
      /\ userTx \in {"none", "create", "cancel"}
      /\ used \in [ops : Nat, faults : Nat, dropped : BOOLEAN]
  BY Constants DEF IInv, ChainInv, Types, Times, None
<1>2. now' = now /\ onChain' = onChain /\ events' = events /\ used'.dropped = used.dropped
  BY <1>1 DEF SendCreate, SendCancel, WriteCreate, WriteCancel, CountOp
<1>3. EventsInAccord' /\ DueSoon' /\ NothingToTell' = NothingToTell
  BY <1>1, <1>2 DEF EventsInAccord, LastTold, Telling, DueSoon, NothingToTell
<1>4. CASE SendCreate \/ SendCancel
  BY <1>1, <1>2, <1>3, <1>4
     DEF SendCreate, SendCancel, CanSubmit, ChainInv, RowInAccord, HandlerInAccord, Running
<1>5. CASE WriteCreate /\ row.status = "ACTIVE"
  BY <1>1, <1>2, <1>3, <1>5 DEF WriteCreate, ChainInv, RowInAccord, HandlerInAccord, Running
<1>6. CASE WriteCreate /\ row.status # "ACTIVE"
  <2>1. now + Interval \in Times /\ "ACTIVE" \in Statuses
    BY <1>1, Constants DEF Times, None, Statuses
  <2>2. row' = Cleared([row EXCEPT !.status = "ACTIVE", !.due = now + Interval])
    BY <1>6 DEF WriteCreate
  <2>3. row'.status = "ACTIVE" /\ row'.due = now + Interval
    BY <1>1, <2>1, <2>2, ClearedRow
  <2>4. handler = "created" /\ handler' = "idle" /\ userTx' = userTx
    BY <1>6 DEF WriteCreate
  <2>5. RowInAccord'
    BY <1>1, <1>2, <1>3, <2>3, <2>4, Constants DEF RowInAccord, HandlerInAccord, DueSoon, Running
  <2>6. HandlerInAccord'
    BY <1>1, <1>2, <2>4 DEF HandlerInAccord
  <2> QED BY <1>3, <2>5, <2>6 DEF ChainInv
<1>7. CASE WriteCancel
  <2>1. row' = [row EXCEPT !.status = "CANCELLED", !.retry = None, !.claim = NoClaim]
    BY <1>7 DEF WriteCancel
  <2>2. row'.status = "CANCELLED"
    BY <1>1, <2>1, CancelledRow
  <2>3. handler = "cancelled" /\ handler' = "idle" /\ userTx' = userTx
    BY <1>7 DEF WriteCancel
  <2>4. RowInAccord' /\ HandlerInAccord'
    BY <1>1, <1>2, <1>3, <2>2, <2>3 DEF RowInAccord, HandlerInAccord, Running
  <2> QED BY <1>3, <2>4 DEF ChainInv
<1> QED BY <1>4, <1>5, <1>6, <1>7

LEMMA WorkersKeepAccord ==
    ASSUME IInv, NEW w \in Workers,
           FindDue(w) \/ Claim(w) \/ Charge(w) \/ Confirm(w) \/ PersistFailure(w) \/ Crash(w)
    PROVE  ChainInv'
<1>1. /\ Types /\ EventsInAccord /\ RowInAccord /\ HandlerInAccord /\ DueSoon /\ ClaimedIsRead
      /\ used \in [ops : Nat, faults : Nat, dropped : BOOLEAN]
  BY DEF IInv, ChainInv, ClaimInv, Types
<1>2. UNCHANGED <<now, onChain, events, userTx, handler>> /\ used'.dropped = used.dropped
  BY <1>1 DEF FindDue, Claim, Charge, Confirm, PersistFailure, Crash, CountFault
<1>3. Running' = Running /\ row'.due = row.due
  <2>1. CASE GoesOn(w) \/ Finds(w) \/ Claimed(w)
    BY <2>1 DEF GoesOn, Finds, Claimed, Running
  <2>2. CASE Fails(w)
    <3>1. row.status \in {"ACTIVE", "PAST_DUE"}
      BY <1>1, <2>2 DEF ClaimedIsRead, Fails, StillClaimed, Attempting, Mine
    <3> QED BY <2>2, <3>1 DEF Fails, Running
  <2> QED BY <2>1, <2>2, WorkerKind
<1> QED BY <1>1, <1>2, <1>3
        DEF ChainInv, EventsInAccord, LastTold, Telling, RowInAccord, NothingToTell,
            HandlerInAccord, DueSoon

LEMMA ChainStep == ASSUME IInv, [Next]_vars PROVE ChainInv'
<1>1. CASE UNCHANGED vars \/ EmptyRun
  BY <1>1 DEF vars, EmptyRun, IInv, ChainInv, EventsInAccord, LastTold, Telling, RowInAccord,
              NothingToTell, HandlerInAccord, DueSoon, Running
<1> QED BY <1>1, LandingKeepsAccord, ProjectingKeepsAccord, HandlersKeepAccord, WorkersKeepAccord
        DEF Next

-----------------------------------------------------------------------------
(* The theorems. *)

\* The row, the contract and the processes stay in accord (subscriptionCharge.worker.ts,
\* subscriptions.service.ts, projections.ts).
LEMMA Inductive == Spec => []IInv
<1>1. IInv /\ [Next]_vars => IInv'
  BY TypesStep, ChainStep, ClaimStep DEF IInv
<1> QED BY InitInv, <1>1, PTL DEF Spec

\* Whoever wrote the row last, its dunning state is one the job can act on, and two processes
\* attempt the same charge only when the first claim has outlived its time, or the row was
\* rewritten in between (subscriptionCharge.worker.ts: claimSubscription, persistFailure).
THEOREM ChargesAreSafe == Spec => []Safe
<1>1. IInv => Safe
  <2> SUFFICES ASSUME IInv PROVE Safe
    OBVIOUS
  <2>1. Types /\ DunningStateIsSound /\ OneAttemptPerClaim
    BY DEF IInv, RowInv, ClaimInv, DunningStateIsSound
  <2>2. \A w \in Workers : worker[w] \in WorkerType
    BY <2>1 DEF Types
  <2>3. TypeOK
    BY <2>1, <2>2 DEF Types, TypeOK, RowType, WorkerType
  <2> QED BY <2>1, <2>3 DEF Safe
<1> QED BY <1>1, Inductive, PTL

\* When nothing is under way and no broadcast transaction was dropped, the row says what the
\* contract says, and is never due earlier than the contract is (subscriptions.service.ts,
\* projections.ts).
THEOREM SettledRowsAgree == Spec => []SettledRowAgrees
<1>1. IInv => SettledRowAgrees
  <2> SUFFICES ASSUME IInv, Settled, ~used.dropped PROVE SettledRowAgrees
    BY DEF SettledRowAgrees
  <2>1. NothingToTell
    BY DEF Settled, NothingToTell
  <2> QED BY <2>1 DEF IInv, ChainInv, RowInAccord, Settled, SettledRowAgrees, Running
<1> QED BY <1>1, Inductive, PTL

\* A failure is stored only against the row its attempt claimed, however late it comes
\* (subscriptionCharge.worker.ts, persistFailure).
THEOREM LateFailuresAreIgnored == Spec => LateFailureIsIgnored
<1> DEFINE Late == row'.failures > row.failures =>
                      \E w \in Workers : worker[w].pc = "failed" /\ worker'[w].pc = "idle"
                                         /\ worker[w].fresh
<1>1. ASSUME IInv, [Next]_vars PROVE Late
  <2>1. row.failures \in Nat
    BY <1>1, RowFacts
  <2>2. CASE Rests \/ Settles
    BY <2>1, <2>2 DEF Rests, Settles
  <2>3. ASSUME NEW w \in Workers, GoesOn(w) \/ Finds(w) \/ Claimed(w) PROVE Late
    BY <2>1, <2>3 DEF GoesOn, Finds, Claimed
  <2>4. ASSUME NEW w \in Workers, Fails(w) PROVE Late
    <3>1. worker[w].pc = "failed" /\ worker'[w].pc = "idle" /\ row.claim = Mine(w)
      BY <2>4 DEF Fails, StillClaimed, Mine
    <3>2. worker[w].fresh
      BY <1>1, <3>1 DEF IInv, ClaimInv, ClaimedIsRead, Attempting
    <3> QED BY <3>1, <3>2
  <2> QED BY <1>1, <2>2, <2>3, <2>4, KindOfStep
<1>2. IInv /\ [Next]_vars => [Late]_vars
  BY <1>1
<1> QED BY <1>2, Inductive, PTL DEF Spec, LateFailureIsIgnored
=============================================================================
