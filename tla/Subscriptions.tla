--------------------------- MODULE Subscriptions ---------------------------
(***************************************************************************)
(* Recurring tips of the Tipz contract: a subscription is charged when it  *)
(* is due, one interval at a time, by whoever calls; a batch charges the   *)
(* due ones in list order and carries on when one of them returns an       *)
(* error.  But send_tip asks for the subscriber's authorization, and where *)
(* it is missing that traps instead of returning: the whole batch is       *)
(* rolled back, however many others it had charged.                        *)
(*                                                                         *)
(* A charge is a call of send_tip inside the contract.  When it fails and  *)
(* the batch swallows the error, what send_tip wrote before it failed      *)
(* stays: the rate limiter's count, and the guard set before the transfer. *)
(* The books of the tip itself are TipzFunds'; a tip refused for its       *)
(* amount or by a blocklist is refused where a deactivated creator's is.   *)
(***************************************************************************)
EXTENDS Integers, FiniteSets, SequencesExt

CONSTANTS
  Subscribers, Creators,
  Amounts,           \* amounts offered to create_subscription
  Intervals,         \* interval_days: 1, 7 and 30 in the code
  SubscriptionLimit, \* active subscriptions a subscriber may have
  MaxOps, Window,    \* rate limit: operations per window
  BatchLimits,       \* limits offered to execute_subscriptions
  MaxWallet,         \* bound on a subscriber's own XLM
  MaxTime            \* bound on the clock, in days

SubscriptionsAssumption ==
  /\ Amounts \subseteq Nat \ {0} /\ Intervals \subseteq Nat \ {0}
  /\ SubscriptionLimit \in Nat /\ MaxOps \in Nat /\ Window \in Nat
  /\ BatchLimits \subseteq Nat /\ MaxWallet \in Nat /\ MaxTime \in Nat
  /\ Subscribers \cap Creators = {}

Pairs == Subscribers \X Creators

VARIABLES
  now,        \* ledger timestamp, in days
  paused,     \* a pause flag is set
  accepting,  \* creators with an active profile
  wallet,     \* XLM of each subscriber
  subs,       \* Subscription records
  change,     \* SubscriptionChange records: the terms asked for meanwhile
  listed,     \* ActiveSubscriptions
  rate,       \* RateLimitStatus of each subscriber: count, last_op_time
  guard,      \* ReentrancyGuard
  signed      \* subscribers whose authorization comes with the calls made now

vars == <<now, paused, accepting, wallet, subs, change, listed, rate, guard, signed>>

NoSub == [active |-> FALSE, amount |-> 0, interval |-> 0, due |-> 0]
NoTerms == [amount |-> 0, interval |-> 0]
Terms == [amount : Amounts, interval : Intervals]

Active(p) == subs[p].active
ActiveOf(s) == {p \in Pairs : p[1] = s /\ Active(p)}
RoomFor(s) == Cardinality(ActiveOf(s)) < SubscriptionLimit

DueAlways(sub) == sub.active
IsDue(sub) == sub.active /\ now >= sub.due

-----------------------------------------------------------------------------
(* One charge, as a function of the state it works on.                     *)

State == [wallet |-> wallet, subs |-> subs, change |-> change, rate |-> rate,
          guard |-> guard, charged |-> 0, trapped |-> FALSE]

\* check_rate_limit_with_config: a fixed window that opens with its first call.
WindowOver(status) == now >= status.at + Window
Counted(status) ==
  IF WindowOver(status) THEN [count |-> 1, at |-> now] ELSE [status EXCEPT !.count = @ + 1]
WithinRateAndOne(status) == WindowOver(status) \/ status.count <= MaxOps
WithinRate(status) == WindowOver(status) \/ status.count < MaxOps

\* The terms a charge is made under: the change asked for, if any.
TermsNow(st, p) ==
  IF st.change[p] # NoTerms THEN st.change[p]
  ELSE [amount |-> st.subs[p].amount, interval |-> st.subs[p].interval]

\* What send_tip has written when it fails.
RefusedCharge(st, p) ==
  LET s == p[1]
      counted == [st EXCEPT !.rate[s] = Counted(@)]
  IN  IF paused \/ ~ WithinRate(st.rate[s]) THEN st
      ELSE IF p[2] \notin accepting THEN counted
      ELSE [counted EXCEPT !.guard = TRUE]

\* send_tip succeeds ...
ChargeableAnyTime(st, p) ==
  /\ WithinRate(st.rate[p[1]]) /\ p[2] \in accepting
  /\ TermsNow(st, p).amount <= st.wallet[p[1]]
Chargeable(st, p) ==
  /\ ~ paused
  /\ WithinRate(st.rate[p[1]])
  /\ p[2] \in accepting
  /\ TermsNow(st, p).amount <= st.wallet[p[1]]

\* ... and the next charge is due one interval later, however late this one is.
Charge(st, p) ==
  LET terms == TermsNow(st, p)
  IN  [st EXCEPT !.wallet[p[1]] = @ - terms.amount,
                 !.rate[p[1]] = Counted(@),
                 !.guard = FALSE,
                 !.change[p] = NoTerms,
                 !.subs[p] = [active |-> TRUE, amount |-> terms.amount,
                              interval |-> terms.interval, due |-> @.due + terms.interval],
                 !.charged = @ + 1]

\* require_auth, which comes after the pause flags and before anything is written.
Trap(p) == ~ paused /\ p[1] \notin signed

\* The batch loop's turn for one listed subscription: a failure is skipped.
BatchStopsAtFailure(st, p, limit) ==
  IF st.trapped \/ st.charged >= limit \/ ~ IsDue(st.subs[p]) THEN st
  ELSE IF Trap(p) THEN [st EXCEPT !.trapped = TRUE]
  ELSE IF Chargeable(st, p) THEN Charge(st, p)
  ELSE [RefusedCharge(st, p) EXCEPT !.charged = limit]
BatchTurn(st, p, limit) ==
  IF st.trapped \/ st.charged >= limit \/ ~ IsDue(st.subs[p]) THEN st
  ELSE IF Trap(p) THEN [st EXCEPT !.trapped = TRUE]
  ELSE IF Chargeable(st, p) THEN Charge(st, p)
  ELSE RefusedCharge(st, p)

\* (The choice from one element makes TLC evaluate each turn once, also in ENABLED.)
Batch(limit) ==
  FoldLeft(LAMBDA st, p : CHOOSE next \in {BatchTurn(s, p, limit) : s \in {st}} : TRUE,
           State, listed)

Commit(st) ==
  /\ ~ st.trapped
  /\ wallet' = st.wallet /\ subs' = st.subs /\ change' = st.change
  /\ rate' = st.rate /\ guard' = st.guard
  /\ UNCHANGED <<now, paused, accepting, listed, signed>>

-----------------------------------------------------------------------------
Init ==
  /\ now = 0 /\ paused = FALSE /\ accepting = Creators
  /\ wallet = [s \in Subscribers |-> MaxWallet]
  /\ subs = [p \in Pairs |-> NoSub]
  /\ change = [p \in Pairs |-> NoTerms]
  /\ listed = <<>>
  /\ rate = [s \in Subscribers |-> [count |-> 0, at |-> 0]]
  /\ guard = FALSE
  /\ signed = {}

NewDay ==
  /\ now < MaxTime
  /\ now' = now + 1
  /\ UNCHANGED <<paused, accepting, wallet, subs, change, listed, rate, guard, signed>>

SetPaused ==
  /\ paused' = ~ paused
  /\ UNCHANGED <<now, accepting, wallet, subs, change, listed, rate, guard, signed>>

\* A creator deactivates or deregisters, or comes back.
SetAccepting(c) ==
  /\ accepting' = IF c \in accepting THEN accepting \ {c} ELSE accepting \cup {c}
  /\ UNCHANGED <<now, paused, wallet, subs, change, listed, rate, guard, signed>>

\* A subscriber authorizes the keeper's next calls, or no longer does.
SetSigned(s) ==
  /\ signed' = IF s \in signed THEN signed \ {s} ELSE signed \cup {s}
  /\ UNCHANGED <<now, paused, accepting, wallet, subs, change, listed, rate, guard>>

TopUp(s) ==
  /\ wallet[s] < MaxWallet
  /\ wallet' = [wallet EXCEPT ![s] = MaxWallet]
  /\ UNCHANGED <<now, paused, accepting, subs, change, listed, rate, guard, signed>>

CreateSubscription(p, terms) ==
  /\ ~ paused
  /\ p[2] \in accepting
  /\ ~ Active(p)
  /\ RoomFor(p[1])
  /\ subs' = [subs EXCEPT ![p] = [active |-> TRUE, amount |-> terms.amount,
                                  interval |-> terms.interval, due |-> now + terms.interval]]
  /\ listed' = Append(listed, p)
  /\ UNCHANGED <<now, paused, accepting, wallet, change, rate, guard, signed>>

\* create_subscription on an active one: the new terms wait for the next charge.
TermsAtOnce(p, terms) ==
  /\ subs' = [subs EXCEPT ![p].amount = terms.amount, ![p].interval = terms.interval]
  /\ UNCHANGED change
TermsAside(p, terms) ==
  /\ change' = [change EXCEPT ![p] = terms]
  /\ UNCHANGED subs

ChangeSubscription(p, terms) ==
  /\ ~ paused
  /\ p[2] \in accepting
  /\ Active(p) /\ now < subs[p].due
  /\ TermsAside(p, terms)
  /\ UNCHANGED <<now, paused, accepting, wallet, listed, rate, guard, signed>>

Kept(p) == change
Discarded(p) == [change EXCEPT ![p] = NoTerms]
StillListed(p) == listed
Unlisted(p) == FoldLeft(LAMBDA kept, q : IF q # p THEN Append(kept, q) ELSE kept, <<>>, listed)

CancelSubscription(p) ==
  /\ ~ paused
  /\ Active(p)
  /\ change' = Discarded(p)
  /\ subs' = [subs EXCEPT ![p].active = FALSE]
  /\ listed' = Unlisted(p)
  /\ UNCHANGED <<now, paused, accepting, wallet, rate, guard, signed>>

\* The caller sees the error, and the invocation is rolled back.
ExecuteDueSubscription(p) ==
  /\ ~ paused
  /\ IsDue(subs[p])
  /\ p[1] \in signed
  /\ Chargeable(State, p)
  /\ Commit(Charge(State, p))

ExecuteSubscriptions(limit) == \E st \in {Batch(limit)} : Commit(st)

Next ==
  \/ NewDay \/ SetPaused
  \/ \E c \in Creators : SetAccepting(c)
  \/ \E s \in Subscribers : TopUp(s) \/ SetSigned(s)
  \/ \E p \in Pairs, terms \in Terms : CreateSubscription(p, terms) \/ ChangeSubscription(p, terms)
  \/ \E p \in Pairs : CancelSubscription(p) \/ ExecuteDueSubscription(p)
  \/ \E limit \in BatchLimits : ExecuteSubscriptions(limit)

Spec == Init /\ [][Next]_vars

\* The days go by, and the keeper runs batches whose limit covers the list again and
\* again.  (A smaller limit may be used up by the first of the list, batch after batch.)
FullLimits == {limit \in BatchLimits : limit >= Cardinality(Pairs)}

FairSpec ==
  /\ Spec
  /\ WF_vars(NewDay)
  /\ \A limit \in FullLimits : SF_vars(ExecuteSubscriptions(limit))

-----------------------------------------------------------------------------
(* Properties.                                                             *)

TypeOK ==
  /\ now \in 0 .. MaxTime /\ paused \in BOOLEAN /\ accepting \subseteq Creators
  /\ wallet \in [Subscribers -> 0 .. MaxWallet]
  /\ subs \in [Pairs -> [active : BOOLEAN, amount : Amounts \cup {0},
                         interval : Intervals \cup {0}, due : Nat]]
  /\ change \in [Pairs -> Terms \cup {NoTerms}]
  /\ listed \in Seq(Pairs)
  /\ rate \in [Subscribers -> [count : 0 .. IF MaxOps = 0 THEN 1 ELSE MaxOps, at : 0 .. MaxTime]]
  /\ guard \in BOOLEAN /\ signed \subseteq Subscribers

\* The list the batch walks holds every active subscription once and nothing
\* else, through any sequence of creations, cancellations and re-creations.
ListedAreActive ==
  /\ IsInjective(listed)
  /\ ToSet(listed) = {p \in Pairs : Active(p)}

\* No subscriber pays for a period that has not begun: after any sequence of
\* charges, batches, changes and re-creations the next charge is at most one
\* interval away.
NeverPaidAhead == \A p \in Pairs : Active(p) => subs[p].due <= now + subs[p].interval

\* Terms asked for in one subscription never reach a later one of the same pair.
ChangesDieWithSubscription == \A p \in Pairs : change[p] # NoTerms => Active(p)

\* A running subscription keeps its amount and its due date until it is due: a
\* change "never resets the current period or increases its charge mid-period".
TermsHoldForPeriod ==
  [][ \A p \in Pairs :
        Active(p) /\ Active(p)' /\ now < subs[p].due => subs'[p] = subs[p] ]_vars

\* Nobody's money moves and no due date advances while the contract is paused,
\* although the batch itself does not look at the pause flags.
PauseStopsCharges ==
  [][ paused => \A p \in Pairs : wallet'[p[1]] >= wallet[p[1]] /\ subs'[p].due = subs[p].due ]_vars

\* A due subscription that stays chargeable (money, creator, rate limit) is charged
\* in the end, even when others in the batch fail every time: unless again and again
\* somebody whose subscription is due has not signed, which stops them all.
Ready(p) == Chargeable(State, p)
SignatureMissing == \E p \in Pairs : IsDue(subs[p]) /\ p[1] \notin signed
ReadyIsCharged ==
  []<>SignatureMissing
    \/ \A p \in Pairs : ([]<>(~ IsDue(subs[p]))) \/ ([]<>(~ Ready(p)))

\* is_reentrancy_guard_active: "a fund-moving operation is in progress".  Between
\* invocations none is.
GuardIsClear == guard = FALSE

\* The list, the due dates and the deferred changes, with the types they rest on.
Safe == TypeOK /\ ListedAreActive /\ NeverPaidAhead /\ ChangesDieWithSubscription
=============================================================================
