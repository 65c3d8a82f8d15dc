------------------------------ MODULE MCCustody ------------------------------
(* The pool of TipzFunds beside the index of RefundQueue: the money of a     *)
(* refund and the list it waits in, which are two views of the same refunds. *)
(* A behaviour is a behaviour of one of them, named by focus, and the other  *)
(* rests.  The queue is checked by a run of its own, with the fairness of    *)
(* the keeper; here it is kept small.                                        *)
EXTENDS RefundQueue

CONSTANTS
  NumCreators, Fans, TipAmounts, WithdrawAmounts, FeeRates, PauseBits,  \* TipzFunds'
  RefundFeeRates, PoolRequestWindow, PoolResponseWindow, PoolRequestTtl,
  EmergencyDelay, LedgerOffset, MaxRecords, MaxScheduled, MaxTime

VARIABLES focus,
          now, pauseFlags, pausedAt, xlm, profile, balance, received,
          tipCount, records, refunds, scheduledCount, scheduled,
          tipsVolume, feesCollected, keptFees, writtenOff, refundsPaid

F == INSTANCE TipzFunds WITH
       tips <- records, MaxTips <- MaxRecords, RequestWindow <- PoolRequestWindow,
       ResponseWindow <- PoolResponseWindow, RequestTtl <- PoolRequestTtl

ASSUME CustodyAssumption ==
  F!CountsAssumption /\ F!AmountsAssumption /\ F!WindowsAssumption

fundsVars == <<now, pauseFlags, pausedAt, xlm, profile, balance, received, tipCount, records,
               refunds, scheduledCount, scheduled, tipsVolume, feesCollected, keptFees,
               writtenOff, refundsPaid>>
custodyVars == <<focus, vars, fundsVars>>

\* The pool that rests.
NoFunds ==
  /\ now = 0 /\ pauseFlags = {} /\ pausedAt = 0 /\ xlm = 0
  /\ profile = 0 /\ balance = 0 /\ received = 0
  /\ tipCount = 0 /\ records = 0 /\ refunds = 0 /\ scheduledCount = 0 /\ scheduled = 0
  /\ tipsVolume = 0 /\ feesCollected = 0 /\ keptFees = 0 /\ writtenOff = 0 /\ refundsPaid = 0

CustodyInit ==
  /\ Init
  /\ \/ focus = "queue" /\ NoFunds
     \/ focus = "funds" /\ F!Init

InQueue == focus = "queue" /\ UNCHANGED <<focus, fundsVars>>
InFunds == focus = "funds" /\ UNCHANGED <<focus, vars>>

QueueNext == InQueue /\ Next
FundsNext == InFunds /\ F!Next
CustodyNext == QueueNext \/ FundsNext

CustodySpec == CustodyInit /\ [][CustodyNext]_custodyVars

-----------------------------------------------------------------------------
\* The pool holds, to the stroop, what the books say (tips.rs, withdrawals.rs, refund.rs).
BooksBalance == focus = "funds" => F!BooksBalance

\* A tip is refunded at most once, whatever the order of requests, sweeps, approvals and
\* expiries (refund.rs).
RefundedOnce == focus = "funds" => F!RefundedOnce

\* A creator's balance is never below minus what has been refunded of the tips received
\* (refund.rs, process_refund_internal).
DebtBoundedByRefunds == focus = "funds" => F!DebtBoundedByRefunds

\* While the contract is paused the only way XLM leaves it is an emergency withdrawal, after
\* the delay and out of the withdrawing creator's balance (emergency_withdraw_tips).
OnlyEmergencyExitWhilePaused == F!OnlyEmergencyExitWhilePaused
=============================================================================
