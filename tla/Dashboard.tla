------------------------------ MODULE Dashboard ------------------------------
(* The creator's dashboard (useDashboard): one fetch at a time, asked for the *)
(* wallet of the moment, a poll while the wallet counts as registered, and    *)
(* withdrawals whose amount is taken off the balance on screen until the next *)
(* answer, or put back.                                                       *)
EXTENDS Integers, Sequences, FiniteSetsExt

CONSTANTS Wallets,
          Ledgers,     \* what the contract may hold of each wallet at first
          Budgets      \* how often each event may happen

None == "none"
Missing == -1          \* no profile
Unread == -2           \* no answer yet
Unset == -3            \* nothing to put back

DashboardAssumption ==
    /\ None \notin Wallets
    /\ Ledgers \subseteq [Wallets -> Nat \cup {Missing}]
    /\ Budgets \subseteq [switches : Nat, withdrawals : Nat, tips : Nat, faults : Nat, pulls : Nat]

VARIABLES wallet,      \* the wallet selected, or None
          ledger,      \* the balance the contract holds of each wallet
          shown,       \* the profile on screen: a set of at most one
          flight,      \* the fetch under way (isFetchingRef): a set of at most one
          polling,     \* isRegisteredRef
          failed,      \* whether the error is on screen
          before,      \* optimisticBalanceRef
          withdrawals, \* those submitted, oldest first
          causes,      \* why the screen may be off: mixed, early, reverted, lost
          budget

vars == <<wallet, ledger, shown, flight, polling, failed, before, withdrawals, causes, budget>>

Spend(what) == budget[what] > 0 /\ budget' = [budget EXCEPT ![what] = @ - 1]

TypeOK ==
    /\ wallet \in Wallets \cup {None}
    /\ ledger \in [Wallets -> Nat \cup {Missing}]
    /\ Cardinality(shown) <= 1 /\ shown \subseteq [owner : Wallets, balance : Nat]
    /\ Cardinality(flight) <= 1
    /\ \A f \in flight : f.for \in Wallets /\ f.answer \in Nat \cup {Missing, Unread}
    /\ polling \in BOOLEAN /\ failed \in BOOLEAN
    /\ before \in Nat \cup {Unset}
    /\ \A i \in DOMAIN withdrawals :
          withdrawals[i].from \in Wallets
          /\ withdrawals[i].chain \in {"pending", "landed", "dropped"}
    /\ causes \subseteq {"mixed", "early", "reverted", "lost"}

Init ==
    /\ wallet = None
    /\ ledger \in Ledgers
    /\ shown = {} /\ flight = {} /\ polling = TRUE /\ failed = FALSE
    /\ before = Unset /\ withdrawals = <<>> /\ causes = {}
    /\ budget \in Budgets

\* fetchDashboard up to its await: dropped while another one is under way
\* (useDashboard.ts:87-117)
Fetching(w) == IF flight = {} THEN {[for |-> w, answer |-> Unread]} ELSE flight

\* The wallet changes: the screen is cleared and the new wallet's fetch tried; the one under
\* way is not called off (useDashboard.ts:166-183)
Select(w) ==
    /\ w # wallet
    /\ Spend("switches")
    /\ wallet' = w
    /\ shown' = {} /\ polling' = TRUE /\ failed' = FALSE
    /\ flight' = IF w = None THEN flight ELSE Fetching(w)
    /\ causes' = IF flight = {} THEN causes ELSE causes \cup {"mixed"}
    /\ UNCHANGED <<ledger, before, withdrawals>>

\* Every thirty seconds (useDashboard.ts:185-193)
Tick ==
    /\ wallet # None /\ polling /\ flight = {}
    /\ flight' = Fetching(wallet) /\ failed' = FALSE
    /\ UNCHANGED <<wallet, ledger, shown, polling, before, withdrawals, causes, budget>>

\* The page is pulled down, or the error's Retry pressed: polling begins again
\* (useDashboard.ts:195-200, DashboardPage.tsx:85-91,221)
Refetch ==
    /\ wallet # None /\ (shown # {} \/ failed)
    /\ Spend("pulls")
    /\ polling' = TRUE
    /\ flight' = Fetching(wallet)
    /\ failed' = (failed /\ flight # {})
    /\ UNCHANGED <<wallet, ledger, shown, before, withdrawals, causes>>

\* The node reads the ledger
Read ==
    /\ \E f \in flight :
          /\ f.answer = Unread
          /\ flight' = {[f EXCEPT !.answer = ledger[f.for]]}
    /\ UNCHANGED <<wallet, ledger, shown, polling, failed, before, withdrawals, causes, budget>>

\* An answer of the wallet selected, read after all that landed, puts the screen right
Cleared(f) == IF f.for = wallet /\ f.answer = ledger[wallet] THEN {} ELSE causes

\* The answer: whosever it is, it is shown; "not found" stops the polling
\* (useDashboard.ts:122-140,155-163)
Answer ==
    /\ \E f \in flight :
          /\ f.answer # Unread
          /\ polling' = (f.answer # Missing)
          /\ shown' = IF f.answer = Missing THEN {}
                      ELSE {[owner |-> f.for, balance |-> f.answer]}
          /\ causes' = Cleared(f)
    /\ flight' = {}
    /\ UNCHANGED <<wallet, ledger, failed, before, withdrawals, budget>>

\* Anything else that goes wrong leaves what is shown (useDashboard.ts:137-139,160-163)
AnswerFails ==
    /\ flight # {}
    /\ Spend("faults")
    /\ flight' = {} /\ failed' = TRUE
    /\ UNCHANGED <<wallet, ledger, shown, polling, before, withdrawals, causes>>

-----------------------------------------------------------------------------
(* Withdrawals from the overview and the earnings tab. *)

\* The amount is checked against the balance on screen; the wallet of now signs
\* (features/dashboard/WithdrawModal.tsx:57-103)
HandleWithdraw ==
    /\ wallet # None
    /\ Spend("withdrawals")
    /\ \E s \in shown : \E a \in 1 .. s.balance :
          withdrawals' = Append(withdrawals, [from |-> wallet, amount |-> a,
                                              chain |-> "pending", reported |-> FALSE])
    /\ UNCHANGED <<wallet, ledger, shown, flight, polling, failed, before, causes>>

Early(w) == \E f \in flight : f.for = w /\ f.answer # Unread

\* The contract pays, or refuses what it does not hold
Land(i) ==
    /\ withdrawals[i].chain = "pending"
    /\ LET w == withdrawals[i].from
           pays == ledger[w] >= withdrawals[i].amount
       IN /\ withdrawals' = [withdrawals EXCEPT ![i].chain = IF pays THEN "landed" ELSE "dropped"]
          /\ ledger' = IF pays THEN [ledger EXCEPT ![w] = @ - withdrawals[i].amount] ELSE ledger
          /\ causes' = causes \cup (IF pays /\ Early(w) THEN {"early"} ELSE {})
                              \cup (IF pays /\ withdrawals[i].reported THEN {"lost"} ELSE {})
    /\ UNCHANGED <<wallet, shown, flight, polling, failed, before, budget>>

\* As if the screen waited for the next answer.
ApplyNothing(amount) == UNCHANGED <<shown, before>>

\* applyOptimisticWithdrawal (useDashboard.ts:57-80): the balance of before the first amount
\* taken off is kept
Apply(amount) ==
    /\ shown' = {[s EXCEPT !.balance = Max({0, @ - amount})] : s \in shown}
    /\ before' = IF before = Unset /\ shown # {} THEN Max({s.balance : s \in shown}) ELSE before

\* onSuccess, with the refetch of the rendering that began it (OverviewTab.tsx:65-75,
\* EarningsTab.tsx:210-218)
HandleWithdrawSuccess(i) ==
    /\ withdrawals[i].chain = "landed" /\ ~withdrawals[i].reported
    /\ Apply(withdrawals[i].amount)
    /\ withdrawals' = [withdrawals EXCEPT ![i].reported = TRUE]
    /\ polling' = TRUE
    /\ flight' = Fetching(withdrawals[i].from)
    /\ failed' = (failed /\ flight # {})
    /\ causes' = IF withdrawals[i].from = wallet THEN causes ELSE causes \cup {"mixed"}
    /\ UNCHANGED <<wallet, ledger, budget>>

\* revertOptimisticWithdrawal (useDashboard.ts:82-87): the balance kept, if one is, whichever
\* withdrawal it was kept for
Revert ==
    IF before = Unset THEN UNCHANGED <<shown, before, causes>>
    ELSE /\ before' = Unset
         /\ shown' = {[s EXCEPT !.balance = before] : s \in shown}
         /\ causes' = causes \cup {"reverted"}

\* onFailure: refused, rejected by the user, or the answer was lost or late
HandleWithdrawFailure(i) ==
    /\ ~withdrawals[i].reported
    /\ \/ withdrawals[i].chain = "dropped"
          /\ withdrawals' = [withdrawals EXCEPT ![i].reported = TRUE] /\ UNCHANGED budget
       \/ withdrawals[i].chain = "pending" /\ Spend("faults")
          /\ \E chain \in {"pending", "dropped"} :
                withdrawals' = [withdrawals EXCEPT ![i].reported = TRUE, ![i].chain = chain]
    /\ Revert
    /\ UNCHANGED <<wallet, ledger, flight, polling, failed>>

\* Somebody tips the creator
TipArrives(w) ==
    /\ ledger[w] # Missing
    /\ Spend("tips")
    /\ ledger' = [ledger EXCEPT ![w] = @ + 1]
    /\ UNCHANGED <<wallet, shown, flight, polling, failed, before, withdrawals, causes>>

Quiet == UNCHANGED vars

\* What timers and answers do by themselves
Refreshes == Tick \/ Read \/ Answer

Next ==
    \/ Refreshes \/ Refetch \/ AnswerFails \/ HandleWithdraw \/ Quiet
    \/ \E w \in Wallets \cup {None} : Select(w)
    \/ \E w \in Wallets : TipArrives(w)
    \/ \E i \in DOMAIN withdrawals :
          Land(i) \/ HandleWithdrawSuccess(i) \/ HandleWithdrawFailure(i)

Spec == Init /\ [][Next]_vars /\ WF_vars(Refreshes)

-----------------------------------------------------------------------------

\* Another wallet's profile is on screen only after the wallet changed under a fetch, or under
\* a withdrawal, and until the next answer of its own (useDashboard.ts:88,122-126).
ShownIsSelected == wallet # None /\ "mixed" \notin causes => \A s \in shown : s.owner = wallet

Unreported(w) ==
    MapThenSumSet(LAMBDA i : IF withdrawals[i].from = w /\ withdrawals[i].chain = "landed"
                                /\ ~withdrawals[i].reported
                             THEN withdrawals[i].amount ELSE 0, DOMAIN withdrawals)

\* The balance on screen exceeds the contract's by no more than withdrawals about to be
\* reported, unless the answer was read before a withdrawal landed, a failure put back the
\* balance of an earlier one, or a withdrawal taken for failed landed after all
\* (useDashboard.ts:53-87).
NeverOverstated ==
    causes = {} => \A s \in shown : s.balance <= ledger[s.owner] + Unreported(s.owner)

FreshOrStopped ==
    wallet # None /\ ledger[wallet] # Missing =>
        \/ \E s \in shown : s.owner = wallet /\ s.balance = ledger[wallet]
        \/ ~polling

\* Polling brings the screen in line with the contract, unless it was stopped by "not found"
\* (useDashboard.ts:122-163,185-193).
DashboardSettles == <>[]FreshOrStopped

\* "Fetches all data required by the dashboard and keeps it fresh" (useDashboard.ts:39): of
\* every registered wallet that stays selected.
KeptFresh ==
    <>[](wallet # None /\ ledger[wallet] # Missing =>
            \E s \in shown : s.owner = wallet /\ s.balance = ledger[wallet])
=============================================================================
