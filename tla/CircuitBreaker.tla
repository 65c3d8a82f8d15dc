--------------------------- MODULE CircuitBreaker ---------------------------
(***************************************************************************)
(* The withdrawal circuit breaker of the Tipz contract: a ring of buckets  *)
(* with the XLM withdrawn in each stretch of time, reused as time goes on, *)
(* and a threshold on what the buckets of the last window hold together.   *)
(*                                                                         *)
(* An entry point that returns an error leaves no trace in the ledger, so  *)
(* a withdrawal over the threshold is refused and changes nothing: the     *)
(* pause and the status that circuit_breaker.rs writes before it returns   *)
(* the error are undone with the rest.  withdraw_tips is the only caller;  *)
(* its checks of the balance are TipzFunds'.                               *)
(***************************************************************************)
EXTENDS Integers, FiniteSets, Sums

CONSTANTS
  Configs,   \* configurations offered to set_circuit_breaker_config
  Amounts,   \* gross amounts withdrawn
  Genesis,   \* ledger time at the start
  LastTime,  \* bound on the clock
  MaxStep    \* bound on the time between two ledgers

ConfigType ==
  [enabled : BOOLEAN, threshold : Nat, window : Nat, buckets : Nat \ {0}]

\* The checks of configure.  A window longer than the chain is old is left
\* out: the cutoff, a saturating subtraction, never meets 0.
CircuitBreakerAssumption ==
  /\ Configs \subseteq ConfigType
  /\ \A c \in Configs :
       c.enabled => c.threshold > 0 /\ c.window > 0 /\ c.window < Genesis
  /\ Amounts \subseteq Nat \ {0}
  /\ Genesis \in Nat /\ LastTime \in Nat /\ Genesis <= LastTime /\ MaxStep \in Nat

VARIABLES
  now,      \* ledger timestamp
  config,   \* CircuitBreakerConfig
  starts,   \* CircuitBreakerStatus.bucket_starts, slots numbered from 1
  volumes,  \* CircuitBreakerStatus.bucket_volumes
  tripped,  \* CircuitBreakerStatus.tripped
  paused,   \* the contract's pause, as a whole
  \* History, which the contract does not keep:
  taken,    \* XLM withdrawn at each time, since the breaker was last set
  alarm     \* the last call was a withdrawal the breaker refused

vars == <<now, config, starts, volumes, tripped, paused, taken, alarm>>

Times == Genesis .. LastTime

-----------------------------------------------------------------------------
(* The ring of buckets.                                                    *)

BucketSecs(c) == IF c.window \div c.buckets = 0 THEN 1 ELSE c.window \div c.buckets

Block == now \div BucketSecs(config)
BlockStart == Block * BucketSecs(config)
Slot == (Block % config.buckets) + 1

\* The slot of the current block is emptied when an earlier block left it.
Renewed == starts[Slot] # BlockStart
RingVolumesKept == volumes  \* as if the slot kept its earlier volume
RingVolumes == IF Renewed THEN [volumes EXCEPT ![Slot] = 0] ELSE volumes
RingStarts == [starts EXCEPT ![Slot] = BlockStart]

Cutoff == now - config.window
RollingTotalShort(amount) ==  \* as if the cutoff were a bucket late
  amount + SumTo([i \in 1 .. config.buckets |->
                    IF RingStarts[i] > Cutoff + BucketSecs(config)
                      THEN RingVolumes[i] ELSE 0],
                 config.buckets)
RollingTotal(amount) ==
  amount + SumTo([i \in 1 .. config.buckets |->
                    IF RingStarts[i] >= Cutoff THEN RingVolumes[i] ELSE 0],
                 config.buckets)

Exceeds(amount) == config.enabled /\ RollingTotal(amount) > config.threshold

-----------------------------------------------------------------------------
(* The entry points.                                                       *)

EmptyRingBefore(c) ==  \* as if sized by the configuration replaced
  [i \in 1 .. config.buckets |-> 0]
EmptyRing(c) == [i \in 1 .. c.buckets |-> 0]
NothingTaken == [t \in Times |-> 0]

Init ==
  /\ now = Genesis
  /\ config \in {c \in Configs : ~c.enabled}
  /\ starts = EmptyRing(config) /\ volumes = EmptyRing(config)
  /\ tripped = FALSE /\ paused = FALSE
  /\ taken = NothingTaken /\ alarm = FALSE

Tick ==
  /\ \E later \in now + 1 .. now + MaxStep : later <= LastTime /\ now' = later
  /\ alarm' = FALSE
  /\ UNCHANGED <<config, starts, volumes, tripped, paused, taken>>

\* set_circuit_breaker_config, by the admin
Configure(c) ==
  /\ config' = c
  /\ starts' = EmptyRing(c) /\ volumes' = EmptyRing(c) /\ tripped' = FALSE
  /\ taken' = NothingTaken /\ alarm' = FALSE
  /\ UNCHANGED <<now, paused>>

\* reset_circuit_breaker, by the admin
Reset ==
  /\ starts' = EmptyRing(config) /\ volumes' = EmptyRing(config)
  /\ tripped' = FALSE
  /\ paused' = (paused /\ ~tripped)
  /\ taken' = NothingTaken /\ alarm' = FALSE
  /\ UNCHANGED <<now, config>>

\* pause and unpause, by the admin
SetPaused(on) ==
  /\ paused' = on /\ alarm' = FALSE
  /\ UNCHANGED <<now, config, starts, volumes, tripped, taken>>

\* withdraw_tips, as far as the breaker sees it
Withdraw(amount) ==
  /\ ~paused
  /\ ~Exceeds(amount)
  /\ IF config.enabled
       THEN /\ starts' = RingStarts
            /\ volumes' = [RingVolumes EXCEPT ![Slot] = @ + amount]
            /\ taken' = [taken EXCEPT ![now] = @ + amount]
       ELSE UNCHANGED <<starts, volumes, taken>>
  /\ alarm' = FALSE
  /\ UNCHANGED <<now, config, tripped, paused>>

\* withdraw_tips over the threshold: an error, and all its writes undone
Refuse(amount) ==
  /\ ~paused
  /\ Exceeds(amount)
  /\ alarm' = TRUE
  /\ UNCHANGED <<now, config, starts, volumes, tripped, paused, taken>>

Next ==
  \/ Tick
  \/ \E c \in Configs : Configure(c)
  \/ Reset
  \/ \E on \in BOOLEAN : SetPaused(on)
  \/ \E amount \in Amounts : Withdraw(amount) \/ Refuse(amount)

Spec == Init /\ [][Next]_vars

-----------------------------------------------------------------------------
(* Properties.                                                             *)

\* XLM withdrawn between two times, both included.
TakenBetween(from, to) ==
  SumTo([i \in 1 .. to - from + 1 |->
           IF from + i - 1 \in Times THEN taken[from + i - 1] ELSE 0],
        to - from + 1)

\* The ring has a slot for each bucket of the configuration in force (the
\* status never needs normalize_status), and a trip leaves no mark on it.
TypeOK ==
  /\ now \in Times
  /\ config \in Configs
  /\ starts \in [1 .. config.buckets -> Nat]
  /\ volumes \in [1 .. config.buckets -> Nat]
  /\ tripped = FALSE /\ paused \in BOOLEAN /\ alarm \in BOOLEAN
  /\ taken \in [Times -> Nat]

\* The stretch of time the ring is sure to remember: all the buckets but the
\* one that is being filled, and no more than the window.
Remembered ==
  LET kept == (config.buckets - 1) * BucketSecs(config)
  IN  IF kept < config.window THEN kept ELSE config.window

\* However withdrawals are spread over time, bucket borders and reused slots,
\* no more than the threshold leaves within the time the ring remembers
\* (record_withdrawal_or_trip).
VolumeIsLimited ==
  config.enabled => TakenBetween(now - Remembered, now) <= config.threshold

\* A withdrawal is refused only when it would really take more than the
\* threshold out within the window: no slot left from an earlier round of the
\* ring, and no volume from before the window, is counted against it.
NoFalseAlarm ==
  \A amount \in Amounts :
    Exceeds(amount) =>
      TakenBetween(now - config.window, now) + amount > config.threshold

\* What test/test_circuit_breaker.rs asserts of a withdrawal over the
\* threshold: that the contract is paused after it.
TripPauses == alarm => paused

\* The limit, with the shape of the ring it rests on.
Safe == TypeOK /\ VolumeIsLimited
=============================================================================
