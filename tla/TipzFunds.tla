----------------------------- MODULE TipzFunds -----------------------------
(***************************************************************************)
(* Custody of XLM by the Tipz contract: one pooled token balance, and the  *)
(* records that say whose money it is.  Tips are credited to the           *)
(* creator's profile balance and paid out by withdrawals; scheduled tips   *)
(* are held in escrow until they are delivered or cancelled; refunds pay   *)
(* the tipper from the pool and debit the creator; the pause flags stop    *)
(* all of it, except an emergency withdrawal after a delay.                *)
(*                                                                         *)
(* A Soroban invocation is atomic and rolled back when it returns Err or   *)
(* panics, so each entry point is one action whose guard is the            *)
(* conjunction of the conditions under which it returns Ok.  Checks that   *)
(* can only refuse a call and write nothing when they do (minimum amounts, *)
(* message format, rate limits, blocklist, circuit breaker, the tipper's   *)
(* own wallet) are left out: every behaviour with them is one without.     *)
(***************************************************************************)
EXTENDS Sums

CONSTANTS
  NumCreators,      \* addresses 1..NumCreators may register a profile
  Fans,             \* addresses that only send tips
  TipAmounts,       \* amounts offered to send_tip and send_scheduled_tip
  WithdrawAmounts,  \* amounts offered to withdrawals (0: the whole balance)
  FeeRates,         \* values the fee_bps setting takes over time
  PauseBits,        \* the single-bit pause flags in use
  RefundFeeRates,   \* values RefundConfig.non_refundable_fee_bps takes over time
  RequestWindow,    \* RefundConfig.request_window_secs
  ResponseWindow,   \* RefundConfig.response_window_secs
  RequestTtl,       \* RefundConfig.request_ttl_ledgers
  EmergencyDelay,   \* EMERGENCY_WITHDRAWAL_DELAY_SECS
  LedgerOffset,     \* ledger sequence number minus ledger timestamp
  MaxTips,          \* bound on tips
  MaxScheduled,     \* bound on scheduled tips
  MaxTime           \* bound on the ledger clock

CreatorIds   == 1 .. NumCreators
Addresses    == CreatorIds \cup Fans
TipIds       == 1 .. MaxTips
ScheduledIds == 1 .. MaxScheduled
Unpaused     == -1          \* PausedAt is absent

\* What is assumed of the constants; MCCustody states it of its instance.
CountsAssumption ==
  NumCreators \in Nat /\ MaxTips \in Nat /\ MaxScheduled \in Nat /\ MaxTime \in Nat

AmountsAssumption ==
  /\ TipAmounts \subseteq Nat \ {0}
  /\ WithdrawAmounts \subseteq Nat
  /\ FeeRates \subseteq 0 .. 1000
  /\ RefundFeeRates \subseteq 0 .. 10000

WindowsAssumption ==
  /\ RequestWindow \in Nat /\ ResponseWindow \in Nat
  /\ RequestTtl \in Nat \ {0} /\ EmergencyDelay \in Nat
  /\ LedgerOffset \in Int

VARIABLES
  now,            \* ledger timestamp
  pauseFlags,     \* the pause bits that are set
  pausedAt,       \* PausedAt, or Unpaused
  xlm,            \* the contract's balance in the native token contract
  profile,        \* per creator: "absent", "active" or "deactivated"
  balance,        \* Profile.balance (0 when there is no profile)
  received,       \* Profile.total_tips_received
  tipCount,       \* TipCount
  tips,           \* Tip records
  refunds,        \* RefundRequest records: status, requested_at, non_refundable_fee
  scheduledCount, \* ScheduledTipCount
  scheduled,      \* ScheduledTip records
  tipsVolume,     \* TotalTipsVolume
  feesCollected,  \* TotalFeesCollected
  \* History variables, which no action reads:
  keptFees,       \* non-refundable parts of refunded tips, left in the pool
  writtenOff,     \* debts of profiles removed with a negative balance
  refundsPaid     \* how many times each tip has been refunded

clockVars == <<now, pauseFlags, pausedAt>>
profileVars == <<profile, balance, received>>
tipVars == <<tipCount, tips, tipsVolume>>
scheduledVars == <<scheduledCount, scheduled>>
refundVars == <<refunds, refundsPaid, keptFees>>
vars == <<clockVars, xlm, profileVars, tipVars, refundVars, scheduledVars,
          feesCollected, writtenOff>>

NoTip == [from |-> 0, to |-> 0, amount |-> 0, at |-> 0]
NoRefund == [status |-> "none", at |-> 0, kept |-> 0]
NoScheduled == [from |-> 0, to |-> 0, amount |-> 0, at |-> 0, status |-> "unused"]

-----------------------------------------------------------------------------
(* The operators the handlers are built from.                              *)

\* is_set tests flags & flag # 0, and All is the mask of every bit: any flag
\* that is set makes is_paused(All), and with it every is_paused, true.
IsSet(flags, mask) == flags \cap mask # {}
IsPaused(mask) == IsSet(pauseFlags, mask) \/ IsSet(pauseFlags, PauseBits)
RequireNotPaused == ~ IsPaused(PauseBits)

\* The emergency exit opens some time after the pause began.
EmergencyDelayFromGenesis == pausedAt # Unpaused /\ now >= EmergencyDelay
EmergencyDelayOver == pausedAt # Unpaused /\ now >= pausedAt + EmergencyDelay

AtLeast(x, low) == IF x < low THEN low ELSE x

\* calculate_fee: at least one stroop when the rate is positive.
CalculateFee(amount, bps) ==
  IF bps = 0 THEN 0 ELSE AtLeast((amount * bps) \div 10000, 1)

CancellationFee(amount) == amount \div 100
NonRefundableFee(amount, bps) == (amount * bps) \div 10000

\* The amount validate_withdrawal_amount lets through: 0 asks for everything.
GrossWithdrawal(c, amount) == IF amount = 0 THEN balance[c] ELSE amount

HasProfile(c) == profile[c] # "absent"

\* transfer_xlm fails when the pool is short; the entry point then fails too.
PoolUnchecked(amount) == TRUE
PoolCovers(amount) == amount <= xlm

BalanceUnchecked(c, amount) == TRUE
BalanceCovers(c, amount) == amount <= balance[c]

RefundRequested(t) == refunds[t].status # "none"
RefundPending(t) == refunds[t].status = "pending"

FullAmount(t) == tips[t].amount
RefundAmount(t) == tips[t].amount - refunds[t].kept

\* process_pending_refunds measures the age of a request in seconds ...
ResponseOverdue(t) == now - refunds[t].at >= ResponseWindow
\* ... and expire_refund subtracts the timestamp from the ledger sequence.
RequestLedgerAge(t) == AtLeast((now + LedgerOffset) - refunds[t].at, 0)

-----------------------------------------------------------------------------
Init ==
  /\ now = 0 /\ pauseFlags = {} /\ pausedAt = Unpaused
  /\ xlm = 0
  /\ profile = [c \in CreatorIds |-> "absent"]
  /\ balance = [c \in CreatorIds |-> 0]
  /\ received = [c \in CreatorIds |-> 0]
  /\ tipCount = 0
  /\ tips = [t \in TipIds |-> NoTip]
  /\ refunds = [t \in TipIds |-> NoRefund]
  /\ scheduledCount = 0
  /\ scheduled = [s \in ScheduledIds |-> NoScheduled]
  /\ tipsVolume = 0 /\ feesCollected = 0
  /\ keptFees = 0 /\ writtenOff = 0
  /\ refundsPaid = [t \in TipIds |-> 0]

\* Ledgers close and their timestamps advance.
Tick ==
  /\ now < MaxTime
  /\ now' = now + 1
  /\ UNCHANGED <<pauseFlags, pausedAt, xlm, profileVars, tipVars, refundVars,
                 scheduledVars, feesCollected, writtenOff>>

-----------------------------------------------------------------------------
(* Pausing: the admin sets or clears one flag, or all of them.             *)

PauseMasks == {{b} : b \in PauseBits} \cup {PauseBits}

SetPauseFlags(flags) ==
  /\ pauseFlags' = flags
  /\ pausedAt' = IF ~ IsSet(flags, PauseBits) THEN Unpaused
                 ELSE IF pausedAt = Unpaused THEN now ELSE pausedAt
  /\ UNCHANGED <<now, xlm, profileVars, tipVars, refundVars, scheduledVars,
                 feesCollected, writtenOff>>

Pause(mask) == SetPauseFlags(pauseFlags \cup mask)
Unpause(mask) == SetPauseFlags(pauseFlags \ mask)

-----------------------------------------------------------------------------
(* Profiles, as far as they hold money.                                    *)

RegisterProfile(c) ==
  /\ RequireNotPaused
  /\ profile[c] = "absent"
  /\ profile' = [profile EXCEPT ![c] = "active"]
  /\ UNCHANGED <<clockVars, xlm, balance, received, tipVars, refundVars,
                 scheduledVars, feesCollected, writtenOff>>

DeactivateProfile(c) ==
  /\ RequireNotPaused
  /\ profile[c] = "active"
  /\ profile' = [profile EXCEPT ![c] = "deactivated"]
  /\ UNCHANGED <<clockVars, xlm, balance, received, tipVars, refundVars,
                 scheduledVars, feesCollected, writtenOff>>

ReactivateProfile(c) ==
  /\ RequireNotPaused
  /\ profile[c] = "deactivated"
  /\ profile' = [profile EXCEPT ![c] = "active"]
  /\ UNCHANGED <<clockVars, xlm, balance, received, tipVars, refundVars,
                 scheduledVars, feesCollected, writtenOff>>

RemoveProfile(c) ==
  /\ HasProfile(c)
  /\ profile' = [profile EXCEPT ![c] = "absent"]
  /\ balance' = [balance EXCEPT ![c] = 0]
  /\ received' = [received EXCEPT ![c] = 0]
  /\ writtenOff' = writtenOff - balance[c]
  /\ UNCHANGED <<clockVars, xlm, tipVars, refundVars, scheduledVars, feesCollected>>

\* deregister_profile refuses a positive balance, not a negative one.
DeregisterProfile(c) ==
  /\ RequireNotPaused
  /\ balance[c] <= 0
  /\ RemoveProfile(c)

\* The admin removes an idle profile, also while the contract is paused.
CleanupInactiveProfile(c) ==
  /\ balance[c] = 0
  /\ RemoveProfile(c)

-----------------------------------------------------------------------------
(* Tips.                                                                   *)

\* What every path that credits a tip does to the books.
CreditTip(a, c, amount) ==
  /\ tipCount < MaxTips
  /\ balance' = [balance EXCEPT ![c] = @ + amount]
  /\ received' = [received EXCEPT ![c] = @ + amount]
  /\ tips' = [tips EXCEPT ![tipCount + 1] =
                [from |-> a, to |-> c, amount |-> amount, at |-> now]]
  /\ tipCount' = tipCount + 1
  /\ tipsVolume' = tipsVolume + amount
  /\ UNCHANGED <<clockVars, profile, refundVars, feesCollected, writtenOff>>

SendTip(a, c, amount) ==
  /\ ~ IsPaused(PauseBits)
  /\ profile[c] = "active"
  /\ a # c
  /\ CreditTip(a, c, amount)
  /\ xlm' = xlm + amount
  /\ UNCHANGED scheduledVars

\* The sender pays and the tip is recorded as the sender's.
SendTipOnBehalf(a, onBehalfOf, c, amount) ==
  /\ RequireNotPaused
  /\ profile[c] = "active"
  /\ a # c /\ onBehalfOf # c
  /\ CreditTip(a, c, amount)
  /\ xlm' = xlm + amount
  /\ UNCHANGED scheduledVars

\* Two transfers, net to the creator and fee to the collector; each fails on a
\* non-positive amount or a short pool, and then nothing is changed.
WithdrawTips(c, amount, bps) ==
  LET gross == GrossWithdrawal(c, amount)
      fee   == CalculateFee(gross, bps)
  IN  /\ ~ IsPaused(PauseBits)
      /\ HasProfile(c)
      /\ balance[c] > 0 /\ BalanceCovers(c, gross)
      /\ gross - fee > 0
      /\ PoolCovers(gross)
      /\ xlm' = xlm - gross
      /\ balance' = [balance EXCEPT ![c] = @ - gross]
      /\ feesCollected' = feesCollected + fee
      /\ UNCHANGED <<clockVars, profile, received, tipVars, refundVars,
                     scheduledVars, writtenOff>>

EmergencyWithdrawTips(c, amount) ==
  /\ IsPaused(PauseBits)
  /\ EmergencyDelayOver
  /\ HasProfile(c)
  /\ 0 < amount /\ BalanceCovers(c, amount)
  /\ PoolCovers(amount)
  /\ xlm' = xlm - amount
  /\ balance' = [balance EXCEPT ![c] = @ - amount]
  /\ UNCHANGED <<clockVars, profile, received, tipVars, refundVars,
                 scheduledVars, feesCollected, writtenOff>>

-----------------------------------------------------------------------------
(* Scheduled tips.                                                         *)

SendScheduledTip(a, c, amount, at) ==
  /\ ~ IsPaused(PauseBits)
  /\ profile[c] = "active"
  /\ a # c
  /\ now < at
  /\ scheduledCount < MaxScheduled
  /\ xlm' = xlm + amount
  /\ scheduledCount' = scheduledCount + 1
  /\ scheduled' = [scheduled EXCEPT ![scheduledCount + 1] =
       [from |-> a, to |-> c, amount |-> amount, at |-> at, status |-> "locked"]]
  /\ UNCHANGED <<clockVars, profileVars, tipVars, refundVars, feesCollected, writtenOff>>

\* Anyone may deliver; get_profile panics when the creator has deregistered.
DeliverScheduledTip(s) ==
  /\ RequireNotPaused
  /\ scheduled[s].status = "locked"
  /\ now >= scheduled[s].at
  /\ HasProfile(scheduled[s].to)
  /\ scheduled' = [scheduled EXCEPT ![s].status = "delivered"]
  /\ CreditTip(scheduled[s].from, scheduled[s].to, scheduled[s].amount)
  /\ UNCHANGED <<xlm, scheduledCount>>

\* The sender gets the amount back less the cancellation fee.
CancelScheduledTip(s) ==
  /\ RequireNotPaused
  /\ scheduled[s].status = "locked"
  /\ now < scheduled[s].at
  /\ PoolCovers(scheduled[s].amount)
  /\ scheduled' = [scheduled EXCEPT ![s].status = "cancelled"]
  /\ xlm' = xlm - scheduled[s].amount
  /\ feesCollected' = feesCollected + CancellationFee(scheduled[s].amount)
  /\ UNCHANGED <<clockVars, profileVars, tipVars, refundVars, scheduledCount, writtenOff>>

-----------------------------------------------------------------------------
(* Refunds.  RefundQueue models the index and the sweeps; here a sweep is  *)
(* a sequence of AutoApproveRefund steps.                                  *)

\* The fee kept back is fixed by the configuration at the time of the request.
RequestRefund(t, bps) ==
  /\ ~ IsPaused(PauseBits)
  /\ t <= tipCount
  /\ refunds[t].status = "none"
  /\ now - tips[t].at <= RequestWindow
  /\ refunds' = [refunds EXCEPT ![t] =
       [status |-> "pending", at |-> now, kept |-> NonRefundableFee(tips[t].amount, bps)]]
  /\ UNCHANGED <<clockVars, xlm, profileVars, tipVars, refundsPaid, keptFees,
                 scheduledVars, feesCollected, writtenOff>>

\* i128's saturating_sub does not stop at zero: the balance may go negative.
ProcessRefund(t, status) ==
  LET c == tips[t].to
      amount == tips[t].amount
  IN  /\ RefundPending(t)
      /\ HasProfile(c)
      /\ 0 < RefundAmount(t) /\ PoolCovers(RefundAmount(t))
      /\ balance' = [balance EXCEPT ![c] = @ - amount]
      /\ received' = [received EXCEPT ![c] = @ - amount]
      /\ xlm' = xlm - RefundAmount(t)
      /\ keptFees' = keptFees + refunds[t].kept
      /\ refunds' = [refunds EXCEPT ![t].status = status]
      /\ refundsPaid' = [refundsPaid EXCEPT ![t] = @ + 1]
      /\ UNCHANGED <<clockVars, profile, tipVars, scheduledVars, feesCollected, writtenOff>>

ApproveRefund(t) == ~ IsPaused(PauseBits) /\ ProcessRefund(t, "approved")

AutoApproveRefund(t) ==
  /\ ~ IsPaused(PauseBits)
  /\ ResponseOverdue(t)
  /\ ProcessRefund(t, "auto_approved")

RejectRefund(t) ==
  /\ ~ IsPaused(PauseBits)
  /\ RefundPending(t)
  /\ refunds' = [refunds EXCEPT ![t].status = "rejected"]
  /\ UNCHANGED <<clockVars, xlm, profileVars, tipVars, refundsPaid, keptFees,
                 scheduledVars, feesCollected, writtenOff>>

\* Drops the request: the tip may be asked for again inside its window.
ExpireRefund(t) ==
  /\ RequireNotPaused
  /\ RefundPending(t)
  /\ RequestLedgerAge(t) >= RequestTtl
  /\ refunds' = [refunds EXCEPT ![t] = NoRefund]
  /\ UNCHANGED <<clockVars, xlm, profileVars, tipVars, refundsPaid, keptFees,
                 scheduledVars, feesCollected, writtenOff>>

-----------------------------------------------------------------------------
ProfileStep(c) ==
  \/ RegisterProfile(c) \/ DeactivateProfile(c) \/ ReactivateProfile(c)
  \/ DeregisterProfile(c) \/ CleanupInactiveProfile(c)

PayoutStep(c, amount) ==
  \/ \E bps \in FeeRates : WithdrawTips(c, amount, bps)
  \/ EmergencyWithdrawTips(c, amount)

TipStep(a, c, amount) ==
  \/ SendTip(a, c, amount)
  \/ \E b \in Addresses : SendTipOnBehalf(a, b, c, amount)
  \/ \E at \in 0 .. MaxTime : SendScheduledTip(a, c, amount, at)

ScheduledStep(s) == DeliverScheduledTip(s) \/ CancelScheduledTip(s)

RefundStep(t) ==
  \/ \E bps \in RefundFeeRates : RequestRefund(t, bps)
  \/ ApproveRefund(t) \/ AutoApproveRefund(t)
  \/ RejectRefund(t) \/ ExpireRefund(t)

Next ==
  \/ Tick
  \/ \E mask \in PauseMasks : Pause(mask) \/ Unpause(mask)
  \/ \E c \in CreatorIds : ProfileStep(c)
  \/ \E c \in CreatorIds, amount \in WithdrawAmounts : PayoutStep(c, amount)
  \/ \E a \in Addresses, c \in CreatorIds, amount \in TipAmounts : TipStep(a, c, amount)
  \/ \E s \in ScheduledIds : ScheduledStep(s)
  \/ \E t \in TipIds : RefundStep(t)

Spec == Init /\ [][Next]_vars

\* Time passes, and whenever it can be delivered again and again, someone delivers
\* a scheduled tip: anyone may call deliver_scheduled_tip.
FairSpec ==
  /\ Spec
  /\ WF_vars(Tick)
  /\ \A s \in ScheduledIds : SF_vars(DeliverScheduledTip(s))

-----------------------------------------------------------------------------
(* Properties.                                                             *)

Statuses == {"none", "pending", "approved", "auto_approved", "rejected"}
PaidStatuses == {"approved", "auto_approved"}

\* Every variable keeps the type of the storage entry it stands for.
TypeOK ==
  /\ now \in 0 .. MaxTime
  /\ pauseFlags \subseteq PauseBits
  /\ pausedAt \in (0 .. MaxTime) \cup {Unpaused}
  /\ xlm \in Nat
  /\ profile \in [CreatorIds -> {"absent", "active", "deactivated"}]
  /\ balance \in [CreatorIds -> Int]
  /\ received \in [CreatorIds -> Int]
  /\ tipCount \in 0 .. MaxTips
  /\ tips \in [TipIds -> [from : Addresses \cup {0}, to : CreatorIds \cup {0},
                          amount : Nat, at : 0 .. MaxTime]]
  /\ refunds \in [TipIds -> [status : Statuses, at : 0 .. MaxTime, kept : Nat]]
  /\ scheduledCount \in 0 .. MaxScheduled
  /\ scheduled \in [ScheduledIds ->
       [from : Addresses \cup {0}, to : CreatorIds \cup {0}, amount : Nat, at : 0 .. MaxTime,
        status : {"unused", "locked", "delivered", "cancelled"}]]
  /\ tipsVolume \in Nat /\ feesCollected \in Nat
  /\ keptFees \in Nat /\ writtenOff \in Nat
  /\ refundsPaid \in [TipIds -> Nat]

TotalBalance == SumTo(balance, NumCreators)
\* What each scheduled tip holds in escrow.
Held == [s \in ScheduledIds |-> IF scheduled[s].status = "locked" THEN scheduled[s].amount ELSE 0]
Escrow == SumTo(Held, MaxScheduled)

\* The pool holds, to the stroop, what the books say: the creators' balances,
\* the escrowed tips and the fees kept back from refunds, less the debts that
\* deregistration wrote off.
BooksBalance == xlm + writtenOff = TotalBalance + Escrow + keptFees

\* A tip is refunded at most once, and exactly when its request says so, in
\* whatever order requests, sweeps, approvals and expiries happen.
RefundedOnce ==
  \A t \in TipIds : refundsPaid[t] = IF refunds[t].status \in PaidStatuses THEN 1 ELSE 0

\* A creator's balance is never below minus what has been refunded of the tips
\* that creator received: no other operation can create a debt.
RefundedTips(c) ==
  [t \in TipIds |-> IF tips[t].to = c /\ refunds[t].status \in PaidStatuses
                    THEN tips[t].amount ELSE 0]
RefundedFrom(c) == SumTo(RefundedTips(c), MaxTips)
DebtBoundedByRefunds == \A c \in CreatorIds : balance[c] + RefundedFrom(c) >= 0

\* While the contract is paused the only way XLM leaves it is an emergency
\* withdrawal: after the delay, and out of the withdrawing creator's balance.
EmergencyExit ==
  /\ now >= pausedAt + EmergencyDelay
  /\ \E c \in CreatorIds : balance[c] - balance'[c] = xlm - xlm' /\ balance'[c] >= 0

OnlyEmergencyExitWhilePaused == [][pauseFlags # {} /\ xlm' < xlm => EmergencyExit]_vars

-----------------------------------------------------------------------------
(* What the documents say and the code does not do: each of these has a    *)
(* run that shows the counterexample.                                      *)

\* types.rs calls the flags "granular": an operation is refused only while its
\* own flag is set.
PauseIsGranular == \A b \in PauseBits : IsPaused({b}) => b \in pauseFlags

\* Profile.balance is the "current withdrawable balance": the pool can pay every
\* creator's positive balance at once.
AllBalancesWithdrawable ==
  SumTo([c \in CreatorIds |-> AtLeast(balance[c], 0)], NumCreators) <= xlm

\* A scheduled tip is locked "until the delivery time": once that time has come
\* and anyone may deliver it, it does leave escrow (unless other tips use up the
\* model's MaxTips first).
DueTipLeavesEscrow ==
  \A s \in ScheduledIds :
    (scheduled[s].status = "locked" /\ now >= scheduled[s].at)
      ~> (scheduled[s].status # "locked" \/ tipCount = MaxTips)

=============================================================================
