------------------------------- MODULE MCRules -------------------------------
(* The contract's rules beside its money: who may change its settings, the   *)
(* limit on withdrawals, the credit score of a creator, and the recurring    *)
(* tips a keeper charges.  A behaviour is a behaviour of one of them, named  *)
(* by focus, and the others rest; the pause, which one sets and another      *)
(* reads, is set and lifted at any step of the latter.                       *)
EXTENDS Governance, TLC

CONSTANTS
  ann, bob, sue, tom, bea,
  BreakerConfigs, Withdrawals, Genesis, BreakerEnd, MaxStep,           \* CircuitBreaker's
  Tips, TipAmount, Metrics, Waits, ScoreEnd,                           \* Credit's
  Subscribers, Creators, Pledges, Intervals, SubscriptionLimit,        \* Subscriptions'
  MaxOps, RateWindow, BatchLimits, MaxWallet, LastDay

VARIABLES focus,
          time,                                               \* of the breaker and the score
          setting, starts, volumes, tripped, paused, taken, alarm,
          creator, tip, lastTip,
          day, halted, accepting, wallet, subs, change, listed, rate, guard, signed

B == INSTANCE CircuitBreaker WITH
       now <- time, config <- setting,
       Configs <- BreakerConfigs, Amounts <- Withdrawals, LastTime <- BreakerEnd
C == INSTANCE Credit WITH now <- time, Amount <- TipAmount, LastTime <- ScoreEnd
S == INSTANCE Subscriptions WITH
       now <- day, paused <- halted, Amounts <- Pledges, Window <- RateWindow, MaxTime <- LastDay

ASSUME RulesAssumption ==
  B!CircuitBreakerAssumption /\ C!CreditAssumption /\ S!SubscriptionsAssumption

breakerVars == <<setting, starts, volumes, tripped, paused, taken, alarm>>
creditVars == <<creator, tip, lastTip>>
subscriptionVars == <<day, halted, accepting, wallet, subs, change, listed, rate, guard, signed>>
ruleVars == <<focus, vars, time, breakerVars, creditVars, subscriptionVars>>

NoBreaker ==
  /\ setting = 0 /\ starts = 0 /\ volumes = 0 /\ tripped = 0 /\ paused = 0
  /\ taken = 0 /\ alarm = 0
NoCredit == creator = 0 /\ tip = 0 /\ lastTip = 0

RulesInit ==
  /\ Init /\ S!Init
  /\ \/ focus = "governance" /\ time = 0 /\ NoBreaker /\ NoCredit
     \/ focus = "breaker" /\ fee = MaxFeeBps /\ B!Init /\ NoCredit
     \/ focus = "credit" /\ fee = MaxFeeBps /\ C!Init /\ NoBreaker
     \/ focus = "subscriptions" /\ fee = MaxFeeBps /\ time = 0 /\ NoBreaker /\ NoCredit

InGovernance ==
  focus = "governance" /\ UNCHANGED <<focus, time, breakerVars, creditVars, subscriptionVars>>
InBreaker == focus = "breaker" /\ UNCHANGED <<focus, vars, creditVars, subscriptionVars>>
InCredit == focus = "credit" /\ UNCHANGED <<focus, vars, breakerVars, subscriptionVars>>
InSubscriptions ==
  focus = "subscriptions" /\ UNCHANGED <<focus, vars, time, breakerVars, creditVars>>

GovernanceNext == InGovernance /\ Next
BreakerNext == InBreaker /\ B!Next
CreditNext == InCredit /\ C!Next
SubscriptionsNext == InSubscriptions /\ S!Next
RulesNext == GovernanceNext \/ BreakerNext \/ CreditNext \/ SubscriptionsNext

\* The days go by, and the keeper runs batches that cover the list again and again: a pause
\* or a missing signature disables what they do, and may come and go for ever.
RulesSpec ==
  /\ RulesInit /\ [][RulesNext]_ruleVars
  /\ WF_ruleVars(InSubscriptions /\ S!NewDay)
  /\ \A limit \in S!FullLimits : SF_ruleVars(InSubscriptions /\ S!ExecuteSubscriptions(limit))

-----------------------------------------------------------------------------
\* However withdrawals are spread over time, no more than the threshold leaves within the
\* time the ring remembers, and none is refused that would not exceed it within the window
\* (circuit_breaker.rs, record_withdrawal_or_trip).
BreakerIsExact == focus = "breaker" => B!Safe /\ B!NoFalseAlarm

\* No operation leaves a stored score above what the creator's numbers give, and the formula
\* of the backend agrees with the contract's (credit.rs:121-206, credit.formula.ts:42-170).
ScoresAreHonest == focus = "credit" => C!Safe

\* The list the batch walks, the due dates and the deferred changes stay exact through any
\* sequence of creations, changes, charges and cancellations (subscription.rs:10-260).
SubscriptionsSafe == focus = "subscriptions" => S!Safe

\* A running subscription keeps its amount and its due date until it is due
\* (subscription.rs:36-84).
TermsHoldForPeriod == S!TermsHoldForPeriod

\* Nobody's money moves while the contract is paused (subscription.rs:229-260).
PauseStopsCharges == S!PauseStopsCharges

\* A due subscription that stays chargeable is charged in the end, even when others in the
\* batch fail every time, unless signatures keep missing (subscription.rs:148-189, tips.rs:293).
ReadyIsCharged == S!ReadyIsCharged

-----------------------------------------------------------------------------
(* The values of the constants for TLC.                                      *)

AnnAndBob == {ann, bob}
\* Under the second roster ann is a stranger, and bob is named twice: two approvals
\* are then out of reach.
TwoRosters == {<<ann, bob>>, <<bob, bob>>}

Setting(enabled, threshold, length, buckets) ==
  [enabled |-> enabled, threshold |-> threshold, window |-> length, buckets |-> buckets]
\* The default, one with whole buckets, one whose window is not a multiple of
\* the buckets, and one with more buckets than seconds.
Settings == {Setting(FALSE, 0, 4, 2), Setting(TRUE, 3, 4, 2),
             Setting(TRUE, 3, 5, 3), Setting(TRUE, 2, 2, 3)}

\* Tips about the half and the whole of the capped volume; waits that end before, within and
\* after the seconds in which a score decays.
ThreeTips == [t1 |-> 499999999, t2 |-> 500000001, t3 |-> 9999999]
TwoReports == {[followers |-> 49, engagement |-> 0], [followers |-> 9000, engagement |-> 95]}
=============================================================================
