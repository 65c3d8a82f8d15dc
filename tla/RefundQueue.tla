---------------------------- MODULE RefundQueue ----------------------------
(***************************************************************************)
(* The refund requests of the Tipz contract as storage sees them: requests *)
(* and tips are temporary entries that disappear when their time to live   *)
(* is over, pending requests are listed in a dense index with swap-remove, *)
(* and a keeper walks the index with the cursor each sweep returns.        *)
(*                                                                         *)
(* The money, to the stroop, is in TipzFunds; here it is counted in tips,  *)
(* each of one unit that a refund returns whole.  A refund fails when the  *)
(* creator's profile is gone (get_profile panics) or the pool is short     *)
(* (transfer_xlm), and takes the whole sweep with it; any pause flag       *)
(* refuses every call here.  The checks of the caller are left out.        *)
(***************************************************************************)
EXTENDS Integers, SequencesExt

CONSTANTS
  Creators,       \* addresses that may hold a profile
  Leavers,        \* the creators that may deregister
  RequestWindow,  \* RefundConfig.request_window_secs
  ResponseWindow, \* RefundConfig.response_window_secs
  RequestTtl,     \* RefundConfig.request_ttl_ledgers
  EntryTtl,       \* TIP_TTL_LEDGERS
  GenesisTime,    \* timestamp of ledger 0
  LedgerSeconds,  \* seconds from one ledger to the next
  MaxTips,        \* bound on tips
  MaxLedger,      \* bound on the ledger sequence number
  BatchLimits     \* limits a sweep is called with, at most MAX_PENDING_REFUND_BATCH

TipIds == 1 .. MaxTips

ASSUME QueueAssumption ==
  /\ MaxTips \in Nat /\ MaxLedger \in Nat /\ Leavers \subseteq Creators
  /\ RequestWindow \in Nat /\ ResponseWindow \in Nat
  /\ RequestTtl \in Nat \ {0} /\ EntryTtl \in Nat \ {0}
  /\ GenesisTime \in Nat /\ LedgerSeconds \in Nat \ {0}
  /\ BatchLimits \subseteq Nat \ {0}

VARIABLES
  ledger,      \* ledger sequence number
  registered,  \* creators with a profile
  tips,        \* the tips sent: recipient and the ledger of the Tip entry
  requests,    \* per tip: RefundRequest status, requested_at, ledger of the last write
  pending,     \* PendingRefundTip(0), PendingRefundTip(1), ...
  cursor,      \* the cursor the keeper sweeps from next
  paid,        \* how many times each tip has been refunded
  paused,      \* a pause flag is set: is_paused, of whichever flag
  held,        \* per creator: Profile.balance
  pool         \* the contract's balance in the native token contract

moneyVars == <<held, pool>>
vars == <<ledger, registered, tips, requests, pending, cursor, paid, paused, moneyVars>>

NoRequest == [status |-> "none", at |-> 0, written |-> 0]
Timestamp == GenesisTime + LedgerSeconds * ledger

\* A temporary entry can be read until its time to live is over; every write of
\* the request extends it.
EntryLive(written) == ledger <= written + EntryTtl
Stored(t) == t \in DOMAIN tips /\ EntryLive(tips[t].written)
RequestedNotExtended(reqs, t) == reqs[t].status # "none" /\ ledger <= reqs[t].written + EntryTtl \div 2
RequestedLive(reqs, t) == reqs[t].status # "none" /\ EntryLive(reqs[t].written)
Requested(t) == RequestedLive(requests, t)
Pending(t) == Requested(t) /\ requests[t].status = "pending"

ResponseOverdue(t) == Timestamp - requests[t].at >= ResponseWindow

\* expire_refund: the ledger number minus the timestamp, saturating at zero.
RequestLedgerAge(t) == IF ledger < requests[t].at THEN 0 ELSE ledger - requests[t].at

-----------------------------------------------------------------------------
(* The index.                                                              *)

\* Only the last entry is dropped.
DropLast(s, t) == IF \A i \in DOMAIN s : s[i] # t THEN s ELSE Front(s)

\* The last entry takes the place of the removed one.
SwapRemove(s, t) ==
  IF \A i \in DOMAIN s : s[i] # t THEN s
  ELSE LET i == CHOOSE j \in DOMAIN s : s[j] = t /\ \A k \in 1 .. j - 1 : s[k] # t
       IN  Front([s EXCEPT ![i] = Last(s)])

-----------------------------------------------------------------------------
(* What a call does to the refund state, as a record: a call that fails    *)
(* has no effect at all.                                                   *)

Books == [requests |-> requests, pending |-> pending, paid |-> paid, held |-> held,
          pool |-> pool, failed |-> FALSE]

\* process_refund_internal, and the removal from the index that follows it.
Settle(books, t, status) ==
  IF tips[t].to \notin registered \/ books.pool < 1 THEN [books EXCEPT !.failed = TRUE]
  ELSE [books EXCEPT !.requests[t].status = status, !.requests[t].written = ledger,
                     !.paid[t] = @ + 1, !.held[tips[t].to] = @ - 1, !.pool = @ - 1,
                     !.pending = SwapRemove(@, t)]

WaitedLongEnough(books, t) ==
  RequestedLive(books.requests, t) /\ Timestamp - books.requests[t].at >= ResponseWindow
Due(books, t) ==
  /\ RequestedLive(books.requests, t) /\ books.requests[t].status = "pending"
  /\ Timestamp - books.requests[t].at >= ResponseWindow

\* One turn of the loop of process_pending_refunds.
ProcessListed(books, t) ==
  IF ~ books.failed /\ Due(books, t) THEN Settle(books, t, "auto_approved") ELSE books

\* One turn of the loop of process_pending_refunds_from, for the count of entries
\* it read at the start.
SweepEntry(walk, count, limit) ==
  IF walk.books.failed \/ walk.index >= count \/ walk.processed >= limit THEN walk
  ELSE IF walk.index >= Len(walk.books.pending) THEN [walk EXCEPT !.index = @ + 1]
  ELSE LET t == walk.books.pending[walk.index + 1]
       IN  IF ~ RequestedLive(walk.books.requests, t)
             THEN [walk EXCEPT !.books.pending = SwapRemove(@, t)]
           ELSE IF Due(walk.books, t)
             THEN [walk EXCEPT !.books = Settle(@, t, "auto_approved"), !.processed = @ + 1]
           ELSE [walk EXCEPT !.index = @ + 1]

\* Every turn advances the index or removes an entry, so twice the count is enough.
\* (The choice from one element makes TLC evaluate each turn once, also in ENABLED.)
Walk(from, limit) ==
  FoldLeft(LAMBDA walk, turn :
             CHOOSE next \in {SweepEntry(w, Len(pending), limit) : w \in {walk}} : TRUE,
           [books |-> Books, index |-> from, processed |-> 0],
           [turn \in 1 .. 2 * Len(pending) |-> turn])

\* The cursor a sweep returns, over the index it leaves behind.
NextCursor(walk) ==
  IF walk.index >= Len(walk.books.pending) THEN 0 ELSE walk.index

Commit(books) ==
  /\ ~ paused /\ ~ books.failed
  /\ requests' = books.requests /\ pending' = books.pending /\ paid' = books.paid
  /\ held' = books.held /\ pool' = books.pool
  /\ UNCHANGED <<ledger, registered, tips, paused>>

-----------------------------------------------------------------------------
Init ==
  /\ ledger = 0 /\ registered = Creators
  /\ tips = <<>>
  /\ requests = [t \in TipIds |-> NoRequest]
  /\ pending = <<>> /\ cursor = 0
  /\ paid = [t \in TipIds |-> 0]
  /\ paused = FALSE
  /\ held = [c \in Creators |-> 0] /\ pool = 0

CloseLedger ==
  /\ ledger < MaxLedger
  /\ ledger' = ledger + 1
  /\ UNCHANGED <<registered, tips, requests, pending, cursor, paid, paused, moneyVars>>

\* The admin pauses and resumes.
SetPaused ==
  /\ paused' = ~ paused
  /\ UNCHANGED <<ledger, registered, tips, requests, pending, cursor, paid, moneyVars>>

RegisterProfile(c) ==
  /\ ~ paused
  /\ c \notin registered
  /\ registered' = registered \cup {c}
  /\ UNCHANGED <<ledger, tips, requests, pending, cursor, paid, paused, moneyVars>>

RemoveProfile(c) ==
  /\ c \in registered
  /\ registered' = registered \ {c}
  /\ held' = [held EXCEPT ![c] = 0]
  /\ UNCHANGED <<ledger, tips, requests, pending, cursor, paid, paused, pool>>

\* A pending refund does not stop it, a positive balance does.
DeregisterProfile(c) == ~ paused /\ held[c] <= 0 /\ RemoveProfile(c)

\* The admin removes an idle profile, also while the contract is paused.
CleanupInactiveProfile(c) == held[c] = 0 /\ RemoveProfile(c)

SendTip(c) ==
  /\ ~ paused
  /\ Len(tips) < MaxTips
  /\ c \in registered
  /\ tips' = Append(tips, [to |-> c, written |-> ledger])
  /\ held' = [held EXCEPT ![c] = @ + 1] /\ pool' = pool + 1
  /\ UNCHANGED <<ledger, registered, requests, pending, cursor, paid, paused>>

\* withdraw_tips of one tip, refunded later or not; while the contract is paused,
\* emergency_withdraw_tips, whose delay is in TipzFunds.
WithdrawTips(c) ==
  /\ c \in registered
  /\ held[c] > 0 /\ pool > 0
  /\ held' = [held EXCEPT ![c] = @ - 1] /\ pool' = pool - 1
  /\ UNCHANGED <<ledger, registered, tips, requests, pending, cursor, paid, paused>>

RequestRefund(t) ==
  /\ ~ paused
  /\ Stored(t)
  /\ ~ Requested(t)
  /\ LedgerSeconds * (ledger - tips[t].written) <= RequestWindow
  /\ requests' = [requests EXCEPT ![t] =
       [status |-> "pending", at |-> Timestamp, written |-> ledger]]
  /\ pending' = Append(pending, t)
  /\ UNCHANGED <<ledger, registered, tips, cursor, paid, paused, moneyVars>>

ApproveRefund(t) ==
  /\ Pending(t)
  /\ Commit(Settle(Books, t, "approved"))
  /\ UNCHANGED cursor

RejectRefund(t) ==
  /\ ~ paused
  /\ Pending(t)
  /\ requests' = [requests EXCEPT ![t].status = "rejected", ![t].written = ledger]
  /\ pending' = SwapRemove(pending, t)
  /\ UNCHANGED <<ledger, registered, tips, cursor, paid, paused, moneyVars>>

ExpireRefund(t) ==
  /\ ~ paused
  /\ Pending(t)
  /\ RequestLedgerAge(t) >= RequestTtl
  /\ requests' = [requests EXCEPT ![t] = NoRequest]
  /\ pending' = SwapRemove(pending, t)
  /\ UNCHANGED <<ledger, registered, tips, cursor, paid, paused, moneyVars>>

\* Anyone names the tips, in any order and as often as they like.
ProcessPendingRefunds(ids) ==
  /\ Commit(FoldLeft(ProcessListed, Books, ids))
  /\ UNCHANGED cursor

\* Anyone may sweep from anywhere ...
ProcessPendingRefundsFrom(from, limit) ==
  /\ ~ paused /\ from < Len(pending)
  /\ \E walk \in {Walk(from, limit)} : Commit(walk.books)
  /\ UNCHANGED cursor

\* ... and the keeper resumes where its last sweep told it to.
KeeperSweep(limit) ==
  /\ ~ paused
  /\ IF cursor >= Len(pending)
     THEN /\ cursor' = 0
          /\ UNCHANGED <<ledger, registered, tips, requests, pending, paid, paused, moneyVars>>
     ELSE \E walk \in {Walk(cursor, limit)} :
            Commit(walk.books) /\ cursor' = NextCursor(walk)

Next ==
  \/ CloseLedger \/ SetPaused
  \/ \E c \in Leavers : \/ RegisterProfile(c) \/ DeregisterProfile(c)
                        \/ CleanupInactiveProfile(c)
  \/ \E c \in Creators : SendTip(c) \/ WithdrawTips(c)
  \/ \E t \in TipIds : \/ RequestRefund(t) \/ ApproveRefund(t)
                       \/ RejectRefund(t) \/ ExpireRefund(t)
  \/ \E t, u \in TipIds : ProcessPendingRefunds(<<t, u>>)
  \/ \E from \in 0 .. MaxTips, limit \in BatchLimits : ProcessPendingRefundsFrom(from, limit)
  \/ \E limit \in BatchLimits : KeeperSweep(limit)

Spec == Init /\ [][Next]_vars

\* Ledgers close, and the keeper sweeps again and again.
FairSpec ==
  /\ Spec
  /\ WF_vars(CloseLedger)
  /\ WF_vars(\E limit \in BatchLimits : KeeperSweep(limit))

-----------------------------------------------------------------------------
(* Properties.                                                             *)

TypeOK ==
  /\ ledger \in 0 .. MaxLedger
  /\ registered \subseteq Creators
  /\ tips \in Seq([to : Creators, written : 0 .. MaxLedger]) /\ Len(tips) <= MaxTips
  /\ requests \in [TipIds ->
       [status : {"none", "pending", "approved", "auto_approved", "rejected"},
        at : Nat, written : 0 .. MaxLedger]]
  /\ pending \in Seq(TipIds)
  /\ cursor \in 0 .. MaxTips
  /\ paid \in [TipIds -> Nat]
  /\ paused \in BOOLEAN
  /\ held \in [Creators -> Int] /\ pool \in Nat

\* The index lists every pending request exactly once, and nothing else except
\* requests whose entry has disappeared: no sequence of swap-removes, sweeps and
\* re-requests loses or repeats one.
IndexListsPending ==
  /\ IsInjective(pending)
  /\ \A t \in TipIds : Pending(t) => t \in ToSet(pending)
  /\ \A t \in ToSet(pending) : Requested(t) => Pending(t)

\* A tip is paid back at most once, although both the tip and the record that it
\* was refunded are entries that disappear.
PaidAtMostOnce == \A t \in TipIds : paid[t] <= 1

\* The stage of each tip's refund, and the promise that it moves only as
\* RefundLifecycle allows: an answered request is never asked or answered again.
Stage(t) ==
  CASE paid[t] > 0                       -> "paid"
    [] paid[t] = 0 /\ t \notin DOMAIN tips -> "unsent"
    [] paid[t] = 0 /\ Pending(t)         -> "pending"
    [] paid[t] = 0 /\ Requested(t) /\ ~ Pending(t) -> "rejected"
    [] OTHER -> IF Stored(t) THEN "open" ELSE "closed"

Lifecycle == INSTANCE RefundLifecycle
  WITH Tips <- TipIds, stage <- [t \in TipIds |-> Stage(t)]
FollowsLifecycle == Lifecycle!Spec

Overdue(t) == Pending(t) /\ ResponseOverdue(t)

\* What stops a sweep at a request: the contract is paused, the creator of a tip that
\* waits has left, or the pool cannot pay every request that is due, because tips were
\* withdrawn before they were refunded.
SweepStopped ==
  \/ paused
  \/ registered # Creators
  \/ pool < Cardinality({t \in TipIds : Overdue(t)})

\* A request the creator has left unanswered for too long is answered by the
\* keeper's sweeps, even though each sweep moves entries around under its cursor
\* and one refund that fails takes the others of its sweep with it: unless sweeps
\* are stopped again and again, or for ever, each such request is answered.
OverdueIsAnswered ==
  <>[](~ SweepStopped) => \A t \in TipIds : Overdue(t) ~> ~ Pending(t)

\* The same whatever stops the sweeps: the request is "eligible for auto-approval".
OverdueIsAlwaysAnswered == \A t \in TipIds : Overdue(t) ~> ~ Pending(t)

\* The index and the payments, with the types they rest on.
Safe == TypeOK /\ IndexListsPending /\ PaidAtMostOnce
=============================================================================
