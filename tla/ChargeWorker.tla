----------------------------- MODULE ChargeWorker -----------------------------
(***************************************************************************)
(* Recurring charges off chain: one subscription row, written by the job   *)
(* that charges what is due, by the API that submits a subscriber's signed *)
(* transactions, and by the indexer that projects the contract's events.   *)
(*                                                                         *)
(* The contract (module Subscriptions) is reduced to what these see of it: *)
(* whether the subscription is active, when it is due, and its events, in  *)
(* order.  Terms and their changes are left to that module.  Time is in    *)
(* units of the claim's time to live; a transaction expires within one.    *)
(***************************************************************************)
EXTENDS Integers, Sequences, FiniteSets

CONSTANTS Workers,     \* job processes
          Interval,    \* INTERVAL_DAYS
          DunningDays, \* DUNNING_RETRY_DAYS
          ClaimTTL,    \* CHARGE_CLAIM_TTL_MS
          MaxTime, MaxUserOps, MaxFaults \* bounds

None == -1

ASSUME ChargeWorkerAssumption ==
    /\ {Interval, ClaimTTL} \subseteq Nat \ {0}
    /\ DunningDays \in Seq(Nat \ {0})
    /\ {MaxTime, MaxUserOps, MaxFaults} \subseteq Nat

VARIABLES
    now,
    onChain,   \* external: the contract's Subscription, [exists, active, due]
    events,    \* contract events the indexer has not projected yet
    row,       \* the Subscription row
    userTx,    \* external: the subscriber's transaction on its way
    handler,   \* the API handler: submitCreateSubscription, submitCancelSubscription
    worker,    \* processDueSubscriptions of each process; fresh is history: nobody else
               \* rewrote the row since this process claimed it
    keeperTx,  \* external: the charge each process sent
    used       \* history: [ops, faults, dropped] for the bounds

vars == <<now, onChain, events, row, userTx, handler, worker, keeperTx, used>>

Statuses == {"none", "ACTIVE", "PAST_DUE", "FAILED", "CANCELLED"}
\* chargeAttemptStartedAt: the time of a run, which no two runs share.
NoClaim == [at |-> None, by |-> "nobody"]
NoRow == [status |-> "none", due |-> None, failures |-> 0, dunning |-> None,
          retry |-> None, claim |-> NoClaim]
IdleWorker == [pc |-> "idle", sub |-> NoRow, claim |-> NoClaim, error |-> None, fresh |-> FALSE]

Faulty == used.faults < MaxFaults
CountFault == used' = [used EXCEPT !.faults = @ + 1]

-----------------------------------------------------------------------------
(* The contract and the network. *)

\* What became of a charge, for the process that waits for it.
Outcome(w, result) == IF worker[w].pc = "sent" THEN result ELSE "none"

\* Time passes; transactions still on their way expire.
Tick ==
    /\ now < MaxTime
    /\ now' = now + 1
    /\ keeperTx' = [w \in Workers |-> IF keeperTx[w] = "pending" THEN Outcome(w, "expired")
                                     ELSE keeperTx[w]]
    /\ userTx' = "none"
    /\ used' = IF userTx = "none" THEN used ELSE [used EXCEPT !.dropped = TRUE]
    /\ UNCHANGED <<onChain, events, row, handler, worker>>

Emit(e) == events' = Append(events, e)

\* create_subscription on an active subscription only asks for a change of terms.
LandCreate ==
    /\ userTx = "create"
    /\ IF onChain.active
       THEN Emit([topic |-> "sub_change", due |-> onChain.due]) /\ UNCHANGED onChain
       ELSE /\ onChain' = [exists |-> TRUE, active |-> TRUE, due |-> now + Interval]
            /\ Emit([topic |-> "sub_created", due |-> now + Interval])
    /\ userTx' = "none"
    /\ UNCHANGED <<now, row, handler, worker, keeperTx, used>>

LandCancel ==
    /\ userTx = "cancel"
    /\ userTx' = "none"
    /\ IF onChain.active
       THEN /\ onChain' = [onChain EXCEPT !.active = FALSE]
            /\ Emit([topic |-> "sub_cancel", due |-> None])
       ELSE UNCHANGED <<onChain, events>>
    /\ UNCHANGED <<now, row, handler, worker, keeperTx, used>>

\* As if execute_due_subscription charged whenever it is called.
ChargeableAtAnyTime == onChain.active

Chargeable == onChain.active /\ now >= onChain.due

\* execute_due_subscription: it succeeds without effect when inactive or not due.
LandCharge(w) ==
    /\ keeperTx[w] = "pending"
    /\ IF Chargeable
       THEN \/ /\ keeperTx' = [keeperTx EXCEPT ![w] = Outcome(w, "success")]
               /\ onChain' = [onChain EXCEPT !.due = @ + Interval]
               /\ Emit([topic |-> "sub_exec", due |-> onChain.due + Interval])
               /\ UNCHANGED used
            \/ /\ Faulty /\ CountFault
               /\ keeperTx' = [keeperTx EXCEPT ![w] = Outcome(w, "failed")]
               /\ UNCHANGED <<onChain, events>>
       ELSE /\ keeperTx' = [keeperTx EXCEPT ![w] = Outcome(w, "success")]
            /\ UNCHANGED <<onChain, events, used>>
    /\ UNCHANGED <<now, row, userTx, handler, worker>>

-----------------------------------------------------------------------------
(* The indexer's projections of the subscription events (projections.ts). *)

Rewritten == [w \in Workers |-> [worker[w] EXCEPT !.fresh = FALSE]]

\* As if a confirmed charge only released the claim.
ClearedClaim(r) == [r EXCEPT !.claim = NoClaim]

Cleared(r) == [r EXCEPT !.failures = 0, !.dunning = None, !.retry = None, !.claim = NoClaim]

SubscriptionCreated(e) == Cleared([row EXCEPT !.status = "ACTIVE", !.due = e.due])
\* As if a charge left the next date to the job.
SubscriptionChargedUndated(e) == Cleared([row EXCEPT !.status = "ACTIVE"])

SubscriptionCharged(e) == Cleared([row EXCEPT !.status = "ACTIVE", !.due = e.due])
SubscriptionCancelled ==
    IF row.status = "none" THEN row
    ELSE [row EXCEPT !.status = "CANCELLED", !.retry = None, !.claim = NoClaim]

ProjectEvent ==
    /\ events # <<>>
    /\ LET e == Head(events) IN
       row' = CASE e.topic = "sub_created" -> SubscriptionCreated(e)
                [] e.topic = "sub_exec" -> SubscriptionCharged(e)
                [] e.topic = "sub_cancel" -> SubscriptionCancelled
                [] e.topic = "sub_change" -> row
    /\ events' = Tail(events)
    /\ worker' = IF row' = row THEN worker ELSE Rewritten
    /\ UNCHANGED <<now, onChain, userTx, handler, keeperTx, used>>

-----------------------------------------------------------------------------
(* The API handlers (subscriptions.service.ts). *)

CanSubmit == handler = "idle" /\ userTx = "none" /\ used.ops < MaxUserOps
CountOp == used' = [used EXCEPT !.ops = @ + 1]

\* The signed transaction is broadcast, and accepted as PENDING.
SendCreate ==
    /\ CanSubmit /\ CountOp
    /\ userTx' = "create" /\ handler' = "created"
    /\ UNCHANGED <<now, onChain, events, row, worker, keeperTx>>

\* Then the row is written, unless it is active already.
WriteCreate ==
    /\ handler = "created"
    /\ handler' = "idle"
    /\ IF row.status = "ACTIVE" THEN UNCHANGED <<row, worker>>
       ELSE /\ row' = Cleared([row EXCEPT !.status = "ACTIVE", !.due = now + Interval])
            /\ worker' = Rewritten
    /\ UNCHANGED <<now, onChain, events, userTx, keeperTx, used>>

\* A cancellation needs a row that is not cancelled, and a simulation that passes.
SendCancel ==
    /\ CanSubmit /\ CountOp
    /\ row.status \notin {"none", "CANCELLED"}
    /\ onChain.active
    /\ userTx' = "cancel" /\ handler' = "cancelled"
    /\ UNCHANGED <<now, onChain, events, row, worker, keeperTx>>

WriteCancel ==
    /\ handler = "cancelled"
    /\ handler' = "idle"
    /\ row' = [row EXCEPT !.status = "CANCELLED", !.retry = None, !.claim = NoClaim]
    /\ worker' = Rewritten
    /\ UNCHANGED <<now, onChain, events, userTx, keeperTx, used>>

-----------------------------------------------------------------------------
(* The charge job (subscriptionCharge.worker.ts). *)

IsDue == \/ row.status = "ACTIVE" /\ row.due <= now
         \/ row.status = "PAST_DUE" /\ row.retry <= now
ClaimIsFree == row.claim = NoClaim \/ row.claim.at <= now - ClaimTTL

\* processDueSubscriptions reads what is due.
FindDue(w) ==
    /\ worker[w].pc = "idle"
    /\ IsDue /\ ClaimIsFree
    /\ worker' = [worker EXCEPT ![w] = [IdleWorker EXCEPT !.pc = "found", !.sub = row,
                                                          !.claim = [at |-> now, by |-> w]]]
    /\ UNCHANGED <<now, onChain, events, row, userTx, handler, keeperTx, used>>

SameDate(sub) == IF sub.status = "ACTIVE" THEN row.due = sub.due ELSE row.retry = sub.retry

\* As if the claim did not look at an earlier claim.
UnchangedButClaim(sub) ==
    row.status = sub.status /\ row.failures = sub.failures /\ SameDate(sub)

\* The predicate of claimSubscription: the row is still what was read.
UnchangedSince(sub) ==
    /\ row.status = sub.status /\ row.failures = sub.failures /\ row.claim = sub.claim
    /\ SameDate(sub)

\* The claim is the time the run began.
Claim(w) ==
    /\ worker[w].pc = "found"
    /\ IF UnchangedSince(worker[w].sub)
       THEN /\ row' = [row EXCEPT !.claim = worker[w].claim]
            /\ worker' = [worker EXCEPT ![w].pc = "claimed", ![w].fresh = TRUE]
       ELSE worker' = [worker EXCEPT ![w] = IdleWorker] /\ UNCHANGED row
    /\ UNCHANGED <<now, onChain, events, userTx, handler, keeperTx, used>>

\* Contract errors that no retry can mend (CONTRACT_FAILURES).
TerminalCodes == {3, 13, 17, 18, 24, 28, 29, 31, 32}
NotFound == 17
ProfileDeactivated == 18
RateLimited == 27

\* classifySubscriptionChargeFailure: other contract errors, a network error and an error
\* it does not know (None here) are worth another attempt.
Retryable(error) == error \notin TerminalCodes

\* A simulation refuses a subscription the contract does not have, and a due charge whose
\* tip is refused, for good or for now; anything else is an RPC error.
ChargeErrors == IF ~onChain.exists THEN {NotFound}
                ELSE IF Chargeable THEN {ProfileDeactivated, RateLimited} ELSE {}

Fail(w, error) == worker' = [worker EXCEPT ![w].pc = "failed", ![w].error = error]

\* chargeSubscriptionOnChain up to the broadcast; the keeper signs.
Charge(w) ==
    /\ worker[w].pc = "claimed"
    /\ \/ /\ onChain.exists
          /\ worker' = [worker EXCEPT ![w].pc = "sent"]
          /\ keeperTx' = [keeperTx EXCEPT ![w] = "pending"]
          /\ UNCHANGED used
       \/ ~onChain.exists /\ Fail(w, NotFound) /\ UNCHANGED <<keeperTx, used>>
       \/ /\ Faulty /\ CountFault
          /\ \E error \in ChargeErrors \cup {None} : Fail(w, error)
          /\ UNCHANGED keeperTx
    /\ UNCHANGED <<now, onChain, events, row, userTx, handler>>

\* confirmSubscriptionCharge: success keeps the claim until the event is projected; a
\* failed, expired or unconfirmed transaction is retryable, even when it lands.
Confirm(w) ==
    /\ worker[w].pc = "sent"
    /\ \/ /\ keeperTx[w] = "success"
          /\ worker' = [worker EXCEPT ![w] = IdleWorker]
          /\ UNCHANGED used
       \/ keeperTx[w] \in {"failed", "expired"} /\ Fail(w, None) /\ UNCHANGED used
       \/ keeperTx[w] \in {"pending", "success"} /\ Faulty /\ CountFault /\ Fail(w, None)
    /\ keeperTx' = [keeperTx EXCEPT ![w] = IF @ = "pending" THEN @ ELSE "none"]
    /\ UNCHANGED <<now, onChain, events, row, userTx, handler>>

\* getNextDunningRetryAt: the retry date, counted from the first failure, if there is one.
NextRetry(start, failures) ==
    IF failures <= Len(DunningDays) THEN start + DunningDays[failures] ELSE None

\* The row after a failure of the attempt that read sub.
AfterFailure(sub, retryable) ==
    LET failures == sub.failures + 1
        start == IF sub.dunning = None THEN now ELSE sub.dunning
        retry == IF retryable THEN NextRetry(start, failures) ELSE None
    IN  [row EXCEPT !.status = IF retry = None THEN "FAILED" ELSE "PAST_DUE",
                    !.failures = failures, !.dunning = start, !.retry = retry, !.claim = NoClaim]

\* As if only the status were compared when a failure is stored.
SameStatus(w) == row.status = worker[w].sub.status

\* The predicate of persistFailure: the row still carries this attempt's claim.
StillClaimed(w) == row.status = worker[w].sub.status /\ row.claim = worker[w].claim

PersistFailure(w) ==
    /\ worker[w].pc = "failed"
    /\ row' = IF StillClaimed(w) THEN AfterFailure(worker[w].sub, Retryable(worker[w].error)) ELSE row
    /\ worker' = [worker EXCEPT ![w] = IdleWorker]
    /\ UNCHANGED <<now, onChain, events, userTx, handler, keeperTx, used>>

\* The process stops; what it had claimed stays claimed.
Crash(w) ==
    /\ worker[w].pc # "idle"
    /\ Faulty /\ CountFault
    /\ worker' = [worker EXCEPT ![w] = IdleWorker]
    /\ keeperTx' = [keeperTx EXCEPT ![w] = IF @ = "pending" THEN @ ELSE "none"]
    /\ UNCHANGED <<now, onChain, events, row, userTx, handler>>

-----------------------------------------------------------------------------
Init ==
    /\ now = 0
    /\ onChain = [exists |-> FALSE, active |-> FALSE, due |-> None]
    /\ events = <<>> /\ row = NoRow
    /\ userTx = "none" /\ handler = "idle"
    /\ worker = [w \in Workers |-> IdleWorker]
    /\ keeperTx = [w \in Workers |-> "none"]
    /\ used = [ops |-> 0, faults |-> 0, dropped |-> FALSE]

\* The job runs and finds nothing it may charge.
EmptyRun == (~IsDue \/ ~ClaimIsFree) /\ UNCHANGED vars

Next ==
    \/ Tick \/ LandCreate \/ LandCancel \/ ProjectEvent
    \/ SendCreate \/ WriteCreate \/ SendCancel \/ WriteCancel
    \/ \E w \in Workers : \/ LandCharge(w) \/ FindDue(w) \/ Claim(w) \/ Charge(w)
                          \/ Confirm(w) \/ PersistFailure(w) \/ Crash(w)
    \/ EmptyRun

Spec == Init /\ [][Next]_vars

-----------------------------------------------------------------------------
(* Properties. *)

Times == None..(MaxTime + Interval)
Claims == {NoClaim} \cup [at : 0..MaxTime, by : Workers]

TypeOK ==
    /\ now \in 0..MaxTime
    /\ onChain \in [exists : BOOLEAN, active : BOOLEAN, due : Times]
    /\ row \in [status : Statuses, due : Times, failures : 0..(Len(DunningDays) + 1),
                dunning : None..MaxTime, retry : Int, claim : Claims]
    /\ userTx \in {"none", "create", "cancel"}
    /\ handler \in {"idle", "created", "cancelled"}
    /\ \A w \in Workers :
        /\ worker[w].pc \in {"idle", "found", "claimed", "sent", "failed"}
        /\ worker[w].claim \in Claims
        /\ keeperTx[w] \in {"none", "pending", "success", "failed", "expired"}

\* What the job can act on: an overdue row has a retry date and fewer failures than there
\* are retries; an active one has none; a row that is not charged is not claimed.
SoundRow(r) ==
    /\ r.status = "PAST_DUE" => /\ r.failures \in 1..Len(DunningDays)
                                /\ r.retry = r.dunning + DunningDays[r.failures]
    /\ r.status = "ACTIVE" => r.failures = 0 /\ r.dunning = None /\ r.retry = None
    /\ r.status \in {"FAILED", "CANCELLED"} => r.retry = None /\ r.claim = NoClaim

\* Whoever wrote the row last, its dunning state is one the job can act on.
DunningStateIsSound == SoundRow(row)

Attempting(w) == worker[w].pc \in {"claimed", "sent", "failed"}

\* Two processes attempt the same charge only when the first claim is past its time to
\* live, or the row was rewritten (confirmed, renewed, cancelled) in between.
OneAttemptPerClaim ==
    \A v, w \in Workers :
        v # w /\ Attempting(v) /\ Attempting(w) /\ worker[v].fresh /\ worker[w].fresh
            => \/ worker[v].claim.at + ClaimTTL <= worker[w].claim.at
               \/ worker[w].claim.at + ClaimTTL <= worker[v].claim.at

\* The row at every step, whoever wrote it last.
Safe == TypeOK /\ DunningStateIsSound /\ OneAttemptPerClaim

\* A failure is stored only against the row its attempt claimed: an attempt that fails
\* late does not put a confirmed, renewed or cancelled subscription into dunning.
LateFailureIsIgnored ==
    [][row'.failures > row.failures =>
           \E w \in Workers : worker[w].pc = "failed" /\ worker'[w].pc = "idle"
                              /\ worker[w].fresh]_vars

Settled == events = <<>> /\ handler = "idle" /\ userTx = "none"

\* When nothing is under way and no broadcast transaction was dropped, the row says what
\* the contract says: cancelled or never created on both sides, else active on
\* both, and never due earlier off chain than on chain.
SettledRowAgrees ==
    Settled /\ ~used.dropped =>
        /\ onChain.active <=> row.status \in {"ACTIVE", "PAST_DUE", "FAILED"}
        /\ onChain.active => row.due >= onChain.due

=============================================================================
