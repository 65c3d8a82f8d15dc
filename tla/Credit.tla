------------------------------- MODULE Credit --------------------------------
(* The credit score of one creator: the formula of the contract, with its    *)
(* two variants and the operations that store one or the other, and the      *)
(* formula of the backend that has to give the same.                         *)
(* The points of streaks are left out of the state: the contract's store of  *)
(* them is a stub that gives 0.                                              *)
EXTENDS Integers

CONSTANTS Tips, Amount, \* tips that may be sent, and their stroops
          Metrics,      \* [followers, engagement] the admin may report
          Waits,        \* seconds that may pass at a time
          LastTime      \* bound on the clock

CreditAssumption ==
    /\ Amount \in [Tips -> Nat \ {0}] /\ Metrics \subseteq [followers : Nat, engagement : Nat]
    /\ Waits \subseteq Nat \ {0} /\ LastTime \in Nat

Base == 40
MaxScore == 100
StreakCap == 10
TipDivisor == 1000 * 10000          \* stroops in an XLM
TipVolumeCap == 100 * TipDivisor
SecondsPerDay == 86400
DecayWindow == 90 * SecondsPerDay   \* CREDIT_DECAY_INACTIVITY_WINDOW_SECS

VARIABLES now,      \* ledger timestamp
          creator,  \* Profile: [tips, followers, engagement, registered, active, score]
          tip,      \* what became of each tip: "unsent", "kept" or "refunded"
          lastTip   \* history: when the creator last received a tip, or registered

vars == <<now, creator, tip, lastTip>>

Least(m, n) == IF m < n THEN m ELSE n
Clamp(x, low, high) == IF x < low THEN low ELSE IF x > high THEN high ELSE x

-----------------------------------------------------------------------------
(* The contract's formula (credit.rs:121-206). *)

TipPart(tips) == ((Clamp(tips, 0, TipVolumeCap) \div TipDivisor) * 20) \div MaxScore

XPart(followers, engagement) ==
    ((Least(followers \div 50, 50) + Least(engagement \div 10, 50)) * 30) \div MaxScore

Days(registered, time) == IF time <= registered THEN 0 ELSE (time - registered) \div SecondsPerDay
AgePart(days) == (Least(days \div 10, 100) * 10) \div MaxScore

Weighed(tips, followers, engagement, days) ==
    Least(MaxScore, Base + TipPart(tips) + XPart(followers, engagement) + AgePart(days))

\* get_credit_breakdown_with_raw_streak
WithStreak(tips, followers, engagement, days, raw) ==
    Least(MaxScore, Weighed(tips, followers, engagement, days) + Least(raw, StreakCap))

Total(c, time) == Weighed(c.tips, c.followers, c.engagement, Days(c.registered, time))

\* As if the decay went below the base.
SunkBelowBase(c, time) ==
    LET idle == time - c.active IN
    IF idle > DecayWindow THEN Total(c, time) - (idle - DecayWindow) ELSE Total(c, time)

\* calculate_credit_score: past the window the score falls by a point each second, to the base
Decayed(c, time) ==
    LET idle == time - c.active IN
    IF idle > DecayWindow
    THEN Total(c, time) - Least(idle - DecayWindow, Total(c, time) - Base)
    ELSE Total(c, time)

-----------------------------------------------------------------------------
(* The backend's formula (credit.formula.ts:42-170) under its default weights, *)
(* from its own records of the same creator.                                   *)

\* As if the streak were added as it is.
BackendRawStreak(raw) == raw
BackendStreak(raw) == Clamp(raw, 0, Clamp(StreakCap, 0, MaxScore))

BackendTip(tips) == Least(Clamp(tips, 0, TipVolumeCap) \div TipDivisor, 100)
BackendX(followers, engagement) ==
    IF followers = 0 /\ engagement = 0 THEN 0
    ELSE Least(Least(followers \div 50, 50) + Least(engagement \div 10, 50), MaxScore)
BackendAge(days) == IF days < 1 THEN 0 ELSE Least(days \div 10, 100)
Weight(sub, weight) == (sub * weight) \div MaxScore

BackendTotal(tips, followers, engagement, days, raw) ==
    Clamp(Base + Weight(BackendTip(tips), 20) + Weight(BackendX(followers, engagement), 30)
               + Weight(BackendAge(days), 10) + BackendStreak(raw), 0, MaxScore)

-----------------------------------------------------------------------------

TypeOK ==
    /\ now \in Nat
    /\ creator \in [tips : Int, followers : Nat, engagement : Nat, registered : Nat,
                    active : Nat, score : Nat]
    /\ tip \in [Tips -> {"unsent", "kept", "refunded"}] /\ lastTip \in Nat
    /\ creator.registered <= now /\ creator.active <= now

\* register_profile (profile.rs:117-141)
Init ==
    /\ now = 0
    /\ creator = [tips |-> 0, followers |-> 0, engagement |-> 0, registered |-> 0,
                  active |-> 0, score |-> Base]
    /\ tip = [t \in Tips |-> "unsent"]
    /\ lastTip = 0

Wait(seconds) ==
    /\ now + seconds <= LastTime
    /\ now' = now + seconds
    /\ UNCHANGED <<creator, tip, lastTip>>

Receive(t) ==
    /\ tip[t] = "unsent"
    /\ tip' = [tip EXCEPT ![t] = "kept"]
    /\ lastTip' = now
    /\ UNCHANGED now
Tipped(t) == [creator EXCEPT !.tips = @ + Amount[t]]
Scored(c) == [c EXCEPT !.score = Total(c, now)]
ScoredDecayed(c) == [c EXCEPT !.score = Decayed(c, now)]

\* send_tip, and a tip in another token: the creator's last activity is kept apart from the
\* profile (tips.rs:325-347, 419)
SendTip(t) ==
    /\ Receive(t)
    /\ creator' = Scored(Tipped(t))

\* send_tip_on_behalf: the score comes before the mark of activity (tips.rs:474-513)
SendTipOnBehalf(t) ==
    /\ Receive(t)
    /\ creator' = [ScoredDecayed(Tipped(t)) EXCEPT !.active = now]

\* deliver_scheduled_tip (tips.rs:795-843)
DeliverScheduledTip(t) ==
    /\ Receive(t)
    /\ creator' = [Scored(Tipped(t)) EXCEPT !.active = now]

\* As if a refund left the score for the next tip to compute.
UnscoredRefund(t) == [creator EXCEPT !.tips = @ - Amount[t]]
Refunded(t) == Scored([creator EXCEPT !.tips = @ - Amount[t]])

\* process_refund takes back a tip that was received (refund.rs:329-346)
Refund(t) ==
    /\ tip[t] = "kept"
    /\ tip' = [tip EXCEPT ![t] = "refunded"]
    /\ creator' = Refunded(t)
    /\ UNCHANGED <<now, lastTip>>

\* update_x_metrics and its batch (admin.rs:222-243)
UpdateXMetrics(m) ==
    /\ creator' = ScoredDecayed([creator EXCEPT !.followers = m.followers, !.engagement = m.engagement])
    /\ UNCHANGED <<now, tip, lastTip>>

\* calculate_credit_score, anybody's, and recompute_credit_scores_page (lib.rs:409, credit.rs:340-352)
Recompute ==
    /\ creator' = Scored(creator)
    /\ UNCHANGED <<now, tip, lastTip>>

Quiet == UNCHANGED vars

Next ==
    \/ \E seconds \in Waits : Wait(seconds)
    \/ \E t \in Tips : SendTip(t) \/ SendTipOnBehalf(t) \/ DeliverScheduledTip(t) \/ Refund(t)
    \/ \E m \in Metrics : UpdateXMetrics(m)
    \/ Recompute \/ Quiet

Spec == Init /\ [][Next]_vars

-----------------------------------------------------------------------------

\* Whatever sequence of tips, refunds, reports and time, the stored score is at least the base and
\* never more than what the creator's numbers give now: no operation that takes something
\* back leaves the score as it was (refund.rs:343, admin.rs:235).
NeverFlatters == Base <= creator.score /\ creator.score <= Total(creator, now)

\* "The two implementations must agree" (credit.rs:84-106, credit.formula.ts:88): for the numbers the
\* contract holds, with any points of streaks, the backend's formula gives the same score.
FormulasAgree ==
    LET days == Days(creator.registered, now) IN
    \A raw \in {0, 1, 9, 10, 11, 60, 1000} :
        BackendTotal(creator.tips, creator.followers, creator.engagement, days, raw)
            = WithStreak(creator.tips, creator.followers, creator.engagement, days, raw)

\* "last_active_at: when the creator was last active (receiving a tip)" (types.rs:193): who received
\* a tip within the window is not scored as inactive.
TippedAreActive == now - lastTip <= DecayWindow => Decayed(creator, now) = Total(creator, now)

\* The score, where a run checks it as one.
Safe == TypeOK /\ NeverFlatters /\ FormulasAgree
=============================================================================
