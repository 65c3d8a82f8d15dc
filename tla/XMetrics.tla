------------------------------ MODULE XMetrics -------------------------------
(* The calls of an upstream service through a circuit breaker, and the       *)
(* metrics of one X account that such calls fetch and store.                 *)
EXTENDS Integers, FiniteSets

CONSTANTS Calls,      \* calls that may be under way together
          Threshold,  \* failures in a row that open the breaker: 5
          Reset,      \* ticks an open breaker rests: 30 s
          MaxRetries, \* further attempts of one call: 3
          Budgets     \* how often each event may happen

XMetricsAssumption ==
    /\ Threshold \in Nat \ {0} /\ Reset \in Nat \ {0} /\ MaxRetries \in Nat
    /\ Budgets \subseteq [outages : Nat, misses : Nat, changes : Nat]

VARIABLES api,      \* the service: [up, metrics], metrics numbers what it says of the account, from 1
          breaker,  \* [state, failures, since]: failures counts up to Threshold, since the ticks
                    \* from the last failure, up to Reset, and Reset when there is none
          fetch,    \* each call: [pc, attempt, found, answer]
          account,  \* the XAccount row: the metrics it holds, 0 for no row
          record,   \* [inARow, opened, settled]: failures since the last success (up to Threshold),
                    \* ticks since the breaker opened (up to Reset), and whether a success came since
          budget

vars == <<api, breaker, fetch, account, record, budget>>

Spend(what) == budget[what] > 0 /\ budget' = [budget EXCEPT ![what] = @ - 1]
Idle == [pc |-> "idle", attempt |-> 0, found |-> TRUE, answer |-> 0]
UpTo(bound, n) == IF n < bound THEN n ELSE bound

TypeOK ==
    /\ api \in [up : BOOLEAN, metrics : Nat]
    /\ breaker \in [state : {"CLOSED", "OPEN", "HALF_OPEN"}, failures : 0 .. Threshold, since : 0 .. Reset]
    /\ \A c \in Calls : /\ fetch[c].pc \in {"idle", "fetching", "storing"}
                        /\ fetch[c].attempt \in 0 .. MaxRetries /\ fetch[c].answer \in 0 .. api.metrics
    /\ account \in 0 .. api.metrics
    /\ record \in [inARow : 0 .. Threshold, opened : 0 .. Reset, settled : BOOLEAN]

Init ==
    /\ api = [up |-> TRUE, metrics |-> 1]
    /\ breaker = [state |-> "CLOSED", failures |-> 0, since |-> Reset]
    /\ fetch = [c \in Calls |-> Idle]
    /\ account = 0
    /\ record = [inARow |-> 0, opened |-> Reset, settled |-> FALSE]
    /\ budget \in Budgets

-----------------------------------------------------------------------------
(* The breaker (circuitBreaker.ts:71-131). *)

\* As if an open breaker let every call try.
AnyMayCall == TRUE
MayCall == breaker.state = "OPEN" => breaker.since = Reset

\* A call that an open and rested breaker lets through makes it half open; others go through too
\* until one of them settles.  A refused one changes nothing.
Enter == breaker' = [breaker EXCEPT !.state = IF @ = "OPEN" THEN "HALF_OPEN" ELSE @]

\* As if a success left the failures counted while the breaker is closed.
KeptFailures == IF breaker.state = "HALF_OPEN"
                THEN [state |-> "CLOSED", failures |-> 0, since |-> Reset] ELSE breaker

\* A success closes a half-open breaker; an open one stays open and rests no more
AfterSuccess == [state |-> IF breaker.state = "HALF_OPEN" THEN "CLOSED" ELSE breaker.state,
                 failures |-> 0, since |-> Reset]

\* A failure counts in every state, and opens the breaker at the threshold
AfterFailure ==
    LET failures == UpTo(Threshold, breaker.failures + 1) IN
    [state |-> IF failures = Threshold THEN "OPEN" ELSE breaker.state,
     failures |-> failures, since |-> 0]

Succeed ==
    /\ breaker' = AfterSuccess
    /\ record' = [record EXCEPT !.inARow = 0, !.settled = TRUE]
Fail ==
    /\ breaker' = AfterFailure
    /\ record' = [inARow  |-> UpTo(Threshold, record.inARow + 1),
                  opened  |-> IF breaker.state # "OPEN" /\ breaker'.state = "OPEN" THEN 0 ELSE record.opened,
                  settled |-> IF breaker.state # "OPEN" /\ breaker'.state = "OPEN" THEN FALSE
                              ELSE record.settled]

-----------------------------------------------------------------------------
(* A call: fetchXMetrics (x.service.ts:187-212), made by a job for the accounts  *)
(* that have a row and by requests.  What a failed one falls back to is a read.  *)

BeginCall(c, found) ==
    /\ fetch[c] = Idle /\ MayCall
    /\ fetch' = [fetch EXCEPT ![c] = [Idle EXCEPT !.pc = "fetching", !.found = found]]
    /\ Enter
    /\ UNCHANGED <<api, account, record>>

\* The job goes through the accounts that have a row (xMetricsRefresh.worker.ts:16-36)
Refresh(c) == account # 0 /\ BeginCall(c, TRUE) /\ UNCHANGED budget

\* A request asks for any handle, and its answer makes the row (x.controller.ts:30)
Ask(c) == BeginCall(c, TRUE) /\ UNCHANGED budget

\* A call that fails though the service answers: the handle is not found (404), or the client left,
\* whose attempts all end at once (x.service.ts:117-123, 129-131)
FetchInVain(c) == Spend("misses") /\ BeginCall(c, FALSE)

\* The answer (x.service.ts:71-97, 126-155)
TakeAnswer(c) ==
    /\ fetch[c].pc = "fetching" /\ api.up /\ fetch[c].found
    /\ fetch' = [fetch EXCEPT ![c].pc = "storing", ![c].answer = api.metrics]
    /\ Succeed
    /\ UNCHANGED <<api, account, budget>>

\* One that does not come, or is a 429 or a 5xx, is waited for again
Retry(c) ==
    /\ fetch[c].pc = "fetching" /\ ~api.up /\ fetch[c].found
    /\ fetch[c].attempt < MaxRetries
    /\ fetch' = [fetch EXCEPT ![c].attempt = @ + 1]
    /\ UNCHANGED <<api, breaker, account, record, budget>>

GiveUp(c) ==
    /\ fetch[c].pc = "fetching"
    /\ \/ ~fetch[c].found
       \/ ~api.up /\ fetch[c].attempt = MaxRetries
    /\ fetch' = [fetch EXCEPT ![c] = Idle]
    /\ Fail
    /\ UNCHANGED <<api, account, budget>>

\* The row is replaced by the answer (x.service.ts:199-212), in the order the stores arrive
Store(c) ==
    /\ fetch[c].pc = "storing"
    /\ account' = fetch[c].answer
    /\ fetch' = [fetch EXCEPT ![c] = Idle]
    /\ UNCHANGED <<api, breaker, record, budget>>

-----------------------------------------------------------------------------
(* Around it. *)

\* The service goes down or comes back
Outage ==
    /\ Spend("outages")
    /\ api' = [api EXCEPT !.up = ~@]
    /\ UNCHANGED <<breaker, fetch, account, record>>

\* The account gains followers
Change ==
    /\ Spend("changes")
    /\ api' = [api EXCEPT !.metrics = @ + 1]
    /\ UNCHANGED <<breaker, fetch, account, record>>

\* clearCachedXMetrics (x.service.ts:287-292)
Clear ==
    /\ account # 0 /\ Spend("changes")
    /\ account' = 0
    /\ UNCHANGED <<api, breaker, fetch, record>>

Tick ==
    /\ breaker.since < Reset \/ record.opened < Reset
    /\ breaker' = [breaker EXCEPT !.since = UpTo(Reset, @ + 1)]
    /\ record' = [record EXCEPT !.opened = UpTo(Reset, @ + 1)]
    /\ UNCHANGED <<api, fetch, account, budget>>

Work ==
    \/ \E c \in Calls : Refresh(c) \/ TakeAnswer(c) \/ Retry(c) \/ GiveUp(c) \/ Store(c)
    \/ Tick
Quiet == UNCHANGED vars
Next == Work \/ Outage \/ Change \/ Clear \/ Quiet \/ \E c \in Calls : Ask(c) \/ FetchInVain(c)

Spec == Init /\ [][Next]_vars

-----------------------------------------------------------------------------

\* The breaker is open only after Threshold failures with no success between them, or until its
\* next call when a success came late (circuitBreaker.ts:90-120).
OpenForCause ==
    breaker.state = "OPEN" => record.inARow = Threshold \/ record.settled

\* For the whole reset time after it opened no call goes out, unless one that had been under way
\* succeeded (circuitBreaker.ts:72-88): a late failure prolongs it.
RestsWhenOpen(c) ==
    fetch[c].pc = "idle" /\ fetch'[c].pc = "fetching" /\ breaker.state # "CLOSED"
        => record.opened = Reset \/ record.settled

\* When the service is up for good and the account has a row, the breaker is closed again,
\* whatever calls failed or settled late, and the row is brought up to date
\* (x.service.ts:187-212, xMetricsRefresh.worker.ts:15-37).
Recovered == api.up /\ account # 0 => breaker.state = "CLOSED" /\ account = api.metrics
=============================================================================
