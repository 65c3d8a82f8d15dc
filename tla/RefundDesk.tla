----------------------------- MODULE RefundDesk -----------------------------
(***************************************************************************)
(* RefundDesk: the off-chain row of one refund (refunds.service.ts).  The  *)
(* sender asks, the creator submits a signed approval or rejection, which  *)
(* is recorded when the network has taken it; the contract carries out the *)
(* first that reaches it, later or never, and the indexer projects what it *)
(* paid.  The contract is modelled in RefundQueue; here it is its          *)
(* decision.                                                               *)
(***************************************************************************)
EXTENDS Integers, FiniteSets

CONSTANTS
    Clerks,    \* requests of the sender or of the creator under way at a time
    Budgets    \* what a behaviour may use up: [calls, faults]

\* What the constants may be; MCBackend assumes it of its instance.
RefundDeskAssumption == \A b \in Budgets : {b.calls, b.faults} \subseteq Nat

VARIABLES
    tip,       \* the status of the tip
    row,       \* the status of the Refund row, or "none"
    rows,      \* how many rows were ever created for the tip
    sent,      \* the decisions submitted to the network, which it may carry out or not
    chain,     \* what the contract decided: "open", "approved" or "rejected"
    told,      \* whether the decision has been projected
    desk,      \* each request: [pc, status, seen], seen is the row it was checked against
    history,   \* [crossed]: whether a submission wrote over a row that had changed since its check
    budget

vars == <<tip, row, rows, sent, chain, told, desk, history, budget>>

Spend(what) == budget[what] > 0 /\ budget' = [budget EXCEPT ![what] = @ - 1]
Idle == [pc |-> "idle", status |-> "none", seen |-> "none"]
End(c) == desk' = [desk EXCEPT ![c] = Idle]

\* requestRefund, first awaits: only confirmed tips.
Ask(c) ==
    /\ desk[c].pc = "idle" /\ tip = "CONFIRMED" /\ Spend("calls")
    /\ desk' = [desk EXCEPT ![c] = [pc |-> "create", status |-> "pending", seen |-> row]]
    /\ UNCHANGED <<tip, row, rows, sent, chain, told, history>>

\* As if the row were not unique for its tip.
TakenNever == FALSE

\* The unique constraint on tipId.
Taken == row # "none"

\* Its last: the row, or 409.
Create(c) ==
    /\ desk[c].pc = "create"
    /\ IF Taken THEN UNCHANGED <<row, rows>> ELSE row' = "pending" /\ rows' = rows + 1
    /\ End(c)
    /\ UNCHANGED <<tip, sent, chain, told, history, budget>>

\* As if any refund could be resolved.
ResolvableAlways == row # "none"

\* loadPendingRefundForCreator.
Resolvable == row = "pending"

\* submitApproveRefund and submitRejectRefund, first await.
Resolve(c, status) ==
    /\ desk[c].pc = "idle" /\ Resolvable /\ Spend("calls")
    /\ desk' = [desk EXCEPT ![c] = [pc |-> "send", status |-> status, seen |-> row]]
    /\ UNCHANGED <<tip, row, rows, sent, chain, told, history>>

\* Its second: the network takes the transaction, which is still to be carried out: it may be put
\* off, expire, or fail on the chain.
Send(c) ==
    /\ desk[c].pc = "send"
    /\ desk' = [desk EXCEPT ![c].pc = "write"]
    /\ sent' = sent \cup {desk[c].status}
    /\ UNCHANGED <<tip, row, rows, chain, told, history, budget>>

\* The contract carries a submitted decision out.
Execute(s) ==
    /\ s \in sent /\ chain = "open"
    /\ chain' = s
    /\ UNCHANGED <<tip, row, rows, sent, told, desk, history, budget>>

\* Its last: the status that was asked for, whatever the row has become.
Write(c) ==
    /\ desk[c].pc = "write"
    /\ row' = desk[c].status
    /\ history' = [history EXCEPT !.crossed = @ \/ row # desk[c].seen]
    /\ End(c)
    /\ UNCHANGED <<tip, rows, sent, chain, told, budget>>

\* The network refuses the transaction, or the process stops.
Fail(c) ==
    /\ desk[c].pc # "idle" /\ Spend("faults")
    /\ End(c)
    /\ UNCHANGED <<tip, row, rows, sent, chain, told, history>>

\* The contract's own sweep answers an overdue request (RefundQueue), which the sender may have made
\* with no row here.
AutoApprove ==
    /\ chain = "open"
    /\ chain' = "approved"
    /\ UNCHANGED <<tip, row, rows, sent, told, desk, history, budget>>

\* projectRefund: the refund paid on chain, in one transaction with the tip.
ProjectRefund ==
    /\ chain = "approved" /\ ~told
    /\ row' = "completed" /\ tip' = "REFUNDED" /\ told' = TRUE
    /\ rows' = IF row = "none" THEN rows + 1 ELSE rows
    /\ UNCHANGED <<sent, chain, desk, history, budget>>

\* confirmTip of tips.service.ts, whatever the status was.
ConfirmTip ==
    /\ tip # "CONFIRMED"
    /\ tip' = "CONFIRMED"
    /\ UNCHANGED <<row, rows, sent, chain, told, desk, history, budget>>

Quiet == UNCHANGED vars

-----------------------------------------------------------------------------
Init ==
    /\ tip = "PENDING" /\ row = "none" /\ rows = 0 /\ sent = {} /\ chain = "open" /\ told = FALSE
    /\ desk = [c \in Clerks |-> Idle]
    /\ history = [crossed |-> FALSE]
    /\ budget \in Budgets

Next ==
    \/ AutoApprove \/ ProjectRefund \/ ConfirmTip \/ Quiet
    \/ \E c \in Clerks : \/ Ask(c) \/ Create(c) \/ Send(c) \/ Write(c) \/ Fail(c)
                         \/ \E s \in {"approved", "rejected"} : Resolve(c, s)
    \/ \E s \in {"approved", "rejected"} : Execute(s)

Spec == Init /\ [][Next]_vars

-----------------------------------------------------------------------------
(* Properties. *)

TypeOK ==
    /\ tip \in {"PENDING", "CONFIRMED", "REFUNDED"}
    /\ row \in {"none", "pending", "approved", "rejected", "completed"}
    /\ rows \in Nat /\ sent \subseteq {"approved", "rejected"} /\ chain \in {"open", "approved", "rejected"} /\ told \in BOOLEAN
    /\ \A c \in Clerks : desk[c].pc \in {"idle", "create", "send", "write"}

\* One refund for a tip, however many requests race (refunds.service.ts:184-186).
OneRequest == rows <= 1

\* A refund that was projected as paid stays completed, whatever the creator submitted meanwhile,
\* unless two submissions, or a submission and the projection, were under way at once; and an
\* approval or a rejection is never recorded that was not submitted (refunds.service.ts:150-175).
\* That the contract carried it out the row does not say.
RowFollowsDecisions ==
    /\ told /\ ~history.crossed => row = "completed"
    /\ row \in {"approved", "rejected"} => row \in sent
    /\ chain = "rejected" => row # "completed"

=============================================================================
