# Stellar-Tipz: TLA+ models and proofs

Stellar-Tipz is a tipping platform on Stellar. A Soroban contract (Rust,
`contracts/tipz`) holds the money, the profiles and the rules; a backend
(TypeScript, `backend`) indexes the contract's events into a database and runs
the jobs around it; a React front end (`frontend-scaffold`) reads both and
submits transactions. This directory models the parts whose correctness depends
on the order of things: who calls what when, what happens between a read and
the write that rests on it, what is retried, lost, or answered too late.

    tlc   -workers 2 -config MCCustody.cfg MCCustody    # model-check one instance
    tlapm CustodyProofs.tla                             # check the proofs of a module

The reference is the code. At this commit parts of the repository come from an
unfinished merge and would not build as they stand: in the contract one-argument
calls of the two-argument `is_paused`, `?` on functions that return nothing, a
parameter listed twice; in the backend imports of functions that do not exist
(`auth.controller.ts`, the X and IPFS workers, `admin/config.service.ts`) and
columns the Prisma schema lacks (`familyId`, `sessionId`, `deactivatedAt`).
Where that happens the models take the evident meaning, which is the one the
neighbouring functions, the migrations and the tests use: `is_paused(env)` is
"any flag is set", a refresh token has the family the service writes.

## The system

### Contract (`contracts/tipz/src`)

| Component | State | Operations | What makes it correct |
| --- | --- | --- | --- |
| Funds custody (`tips.rs`, `refund.rs`, `profile.rs`, `fees.rs`) | the pooled XLM, a balance per creator, tip records, scheduled tips in escrow, refund requests, pause flags and clock | send (also on behalf of another), schedule, deliver, cancel, withdraw, emergency withdrawal, request/approve/reject/expire/auto-approve a refund, register, deactivate, deregister, pause | the pool equals the books; each tip is paid back at most once; a pause holds the money |
| Refund queue (`refund.rs`, `storage.rs`) | requests and tips as temporary entries with a time to live, a dense index of pending ones, a cursor kept by the caller | request, answer, expire, sweep by ids, sweep by cursor | the index lists exactly the pending requests; overdue ones are answered unless a pause, a short pool or a creator who left stops the sweep |
| Subscriptions (`subscription.rs`) | one record per pair, the terms asked for, a list of active pairs, a rate limit per subscriber, the reentrancy guard | create, change, cancel, charge one, charge a batch | nobody pays for a period that has not begun; terms hold for a period; a failing charge does not stop the others, a missing authorization does |
| Governance (`admin.rs`, `multisig.rs`) | admin and pending admin, fee and pending fee, multisig configuration with its epoch, proposals | propose, confirm, cancel, approve, execute | raises are announced; a quorum of the configuration in force executes; the multisig guards what it says |
| Withdrawal circuit breaker (`circuit_breaker.rs`) | a ring of volume buckets, a threshold | configure, reset, count or refuse a withdrawal | no more than the threshold leaves within the window; no false alarms |
| Credit score (`credit.rs`) | a score, volumes and metrics per profile | every tip and refund, reports of X metrics, recomputation, a read that decays | no operation leaves a score above what the numbers give; the backend's formula gives the same |
| Versioning (`migrations.rs`), verification, profiles, leaderboards, multi-token tips, streaks, goals, admission | records and counters per profile | see `PROJECT.json` | see `PROJECT.json` |

A Soroban invocation is atomic: when it returns an error or panics the host undoes
all of it. Concurrency in the contract is therefore the interleaving of whole
invocations by anybody, with ledgers closing between them; what goes wrong goes
wrong through sequences of legal calls, and through errors that are *swallowed*
inside an invocation (the batch of subscriptions), which are not undone.

### Backend (`backend/src`)

| Component | State | Hard behaviour |
| --- | --- | --- |
| Event indexer (`indexer/`) | cursor, ledger-hash checkpoints, event log, projections | pages against a finality ceiling and a cap, payloads the decoders skip, failure between log and projection, reorganisations anywhere, a restart between projection and cursor, a backfill beside the poll loop |
| Subscription charge worker (`jobs/subscriptionCharge.worker.ts`, `modules/subscriptions`) | claims and dunning state per subscription | claims that time out while the charge is in flight; the result arrives through the indexer |
| Tip records (`modules/tips`, `common/utils/concurrency.ts`) | tips, daily counters, notifications, goals, streaks | what is outside the transaction; an insertion that races the indexer and its rollback; second writers of the goal and of the day's row; version-guarded retries across midnight |
| Refund decisions (`modules/refunds`) | one row per tip | a submission that crosses the projection of another decision, or is recorded and never carried out |
| Withdrawals and payouts (`modules/withdrawals`) | schedules, withdrawal rows | check and record in different transactions; a sweep that writes what it read; a crash after the broadcast; a tip refunded after it was withdrawn |
| Webhook delivery (`modules/webhooks`, `jobs/webhookDelivery.ts`) | rows, jobs, dead letters | at-least-once jobs, a crash between the writes of a last attempt, many exhausted deliveries at once |
| Sessions (`modules/auth`, the client's `tokenManager.ts`, `client.ts`) | challenges, token families, keys | transactions under READ COMMITTED, lost answers, two tabs, rotation of tokens and of keys |
| API keys and webhook secrets (`modules/apiKeys`, `modules/webhooks`) | current and previous secret | two rotations at once, the grace period |
| Notifications (`modules/notifications`) | batches, digests, delivery status | a sweep beside increments; receipts late, twice and out of order |
| Realtime gateway (`realtime/`) | a bounded stream per room | live events between a subscription and its catch-up, appends that fail, a relay that misses events, requests past the rate limit |
| Derived figures (`modules/leaderboard`, `analytics`, `credit`) | snapshots, daily rows, the score and two cache entries | overlapping runs; cache fills that cross an invalidation |
| Backend profiles (`modules/profiles`) | rows and the cache of public profiles | writes that do not clear the cache, readers that fill it with an older row |
| Service circuit breaker, X metrics (`common/utils/circuitBreaker.ts`, `modules/x`) | three states, counts | calls that overlap a change of state and settle late |

The backend calls the contract (charges, payouts) and learns what the contract
did only from its events, later, through the indexer.

### Front end (`frontend-scaffold/src`)

| Component | State | Hard behaviour |
| --- | --- | --- |
| Tip page and transactions (`TipPage.tsx`, `useTipFlow`, `useTipz`, `useContract`, `useTransactionGuard`) | guard, step, active transactions | double clicks and stale handlers, retry, cancellation, leaving and reloading while a transaction goes on |
| Wallet connection (`walletStore.ts`, `useWallet.ts`, `useSessionTimeout.ts`) | connected wallets, the kit, dialogs, timers | overlapping dialogs, components that unmount under them, rehydration, a kit that signs with another wallet than the active one |
| Form drafts (`useFormAutosave.ts`, `DraftRestoreBanner.tsx`) | form, debounced writer, stored draft | a timer armed by the rendering before, a write that storage refuses |
| Dashboard (`useDashboard.ts`) | one profile, one fetch, optimistic withdrawals | a wallet that changes under a fetch or a withdrawal |
| Leaderboard page and query cache (`useLeaderboard.ts`, `services/cache.ts`) | entries per network, stale-while-revalidate cache | reads that cross an invalidation, a question dropped while another waits |
| Profile of the wallet (`useProfile.ts`, `profileStore.ts`, `ProfileEditPage.tsx`) | one store, a flag per hook | several instances that fetch into one store, late answers, a page that judges before its fetch shows |
| Registration form (`useUsernameCheck.ts`, `RegisterForm.tsx`) | name, debounced name, verdict, cache | late and reversed answers, a name typed back within the debounce, a cache that outlives the network |

`PROJECT.json` lists each component with its status, and each hazard at its line
with the properties that would catch it.

## Modules

| Module | What it is |
| --- | --- |
| `Sums`, `SumsProofs` | sums of functions over 1..n, and the facts about sums and folds that the proofs use |
| `TipzFunds` | custody of XLM |
| `RefundLifecycle` | abstract: what may become of one tip's refund |
| `RefundQueue` | the refund index, sweeps and expiring entries; implements `RefundLifecycle` |
| `MCCustody`, `CustodyProofs` | `TipzFunds` and `RefundQueue` beside each other, and their proofs |
| `Governance`, `CircuitBreaker`, `Credit`, `Subscriptions`, composed in `MCRules`, with `RulesProofs` | the contract's rules beside its pool |
| `Indexer`, `IndexerProofs`, `MCIndexer` | the event indexer |
| `ChargeWorker`, `ChargeWorkerProofs`, `MCChargeWorker` | recurring charges off chain, with the contract and the indexer around them |
| `Sessions`, `SessionsProofs`, `MCSessions` | sign-in, tokens and the client that refreshes them |
| `Payouts`, `TipRecords`, `RefundDesk`, `Secrets`, `Webhooks`, `Notices`, `Realtime`, `Rollups`, `Accounts`, `XMetrics`, composed in `MCBackend`, with `BackendProofs` | the rest of the backend |
| `TipFlow`, `Wallet`, `Drafts`, `Dashboard`, `Board`, `OwnProfile`, `NameCheck`, composed in `MCClients`, with `ClientsProofs` | the front end |
| `MCCredit`, `MCDrafts`, `MCDashboard` | instances for the counterexamples |

**How a model corresponds to the code.** `PROJECT.json` maps every definition to
its lines. In the contract an action is an entry point: its guard is the
conjunction of the conditions under which it returns `Ok`, and an error is not an
action, since nothing of it remains. In TypeScript an action is what runs between
two awaits: a handler with three of them is four actions and a `pc`, and what it
read before an await stays in a local field (`seen`) while others write the row. A
database transaction is one action where its isolation makes it one, and two where
READ COMMITTED lets another commit in between. In React an action is an event
handler, an effect or a rendering; handlers see the values of the rendering that
made them (`seen` in `TipFlow`).
Crashes, lost answers and failures of the network are actions of their own, with
the code's error path as their effect. Checks that can only refuse a call, and
write nothing when they do, are left out where nothing depends on them, so a model
has every behaviour of the code and some more.

**History variables** say why something may be off: whether two submissions
overlapped (`Payouts`), which causes opened a guard early (`TipFlow`), whether an
entry was dropped under a read (`Board`). A property of the form "X, unless C"
states both the promise and the exact list of its exceptions; the mutants of
`PROJECT.json` show that each is violated by a plausible slip in the code.

**Composition.** `TipzFunds` and `ChargeWorker` contain what interacts through one
state: refunds, withdrawals and pauses meet in one balance; the worker, the API,
the indexer and the contract meet in one row. `RefundQueue` is composed with
`RefundLifecycle` by refinement. `Sessions` composes the server with the client's
token manager, `TipFlow` the guard, the flow and the transactions, `XMetrics` the
breaker with the callers in front of it.
`MCCustody`, `MCRules`, `MCBackend` and `MCClients` put modules beside each other: `focus`
says which one a behaviour is of, and the others rest in a fixed state; variables of the
same name belong to whichever module has the focus. Such a run checks its modules one
after the other. They are not independent in the code, and what one does to the state of
another is a step of the environment in the other's module, which may come at any moment
its writer could bring it about:
- `Tip.status` and the tips that are CONFIRMED are written by the API and the indexer
  (`TipRecords`), read by `RefundDesk` and summed by `Payouts`. `RefundDesk` and
  `TipRecords` each have the projections and `ConfirmTip` as steps, and `Payouts` has
  `TipConfirmed` and `TipUnconfirmed`.
- `Goal.raisedStroops` is incremented in `TipRecords` and overwritten by the contract's
  reports (`projections.ts:372-383, 414-425`), `AnalyticsDaily` is incremented there and
  overwritten by the rollup (`analytics.service.ts:330-345`), whose own races are in
  `Rollups`: `ReportGoal` and `RollUp` are the second writers, with any figure.
- The contract's pause is set in `Governance` and in `TipzFunds`, and read by
  `Subscriptions` and `RefundQueue`, which set and lift it at any step. `TipzFunds` and
  `RefundQueue` are the same refunds twice: the money of all of them, and the index with
  one creator's share of the pool.
- The wallet of `Wallet` is the `wallet`, `picked` and `on` of the other modules of
  `MCClients`, which change it at any step; a successful tip clears the form's draft,
  which is `DiscardDraft` of `Drafts` at any step.

So the composed runs do not check what only follows from two modules together, such as
that a goal is reported to the very value its tips add up to.

## Runs

| Run | Instance | What it shows |
| --- | --- | --- |
| `custody` | two creators who tip each other, two tips, one of them perhaps scheduled, one flag | books, single refunds, bounded debts and the pause hold in all interleavings |
| `refunds` | `RefundQueue` alone: three tips of one creator, entries that live two ledgers, sweeps of one and two, pauses, withdrawals of what is refunded later, a creator who leaves by every way there is and comes back | the index is exact, nothing is paid twice, every step is one of `RefundLifecycle`; an overdue request is answered unless a pause, a pool that cannot pay or a creator who left stops the sweeps again and again |
| `rules` | two rosters sharing a signer; four breaker settings; three tips and months of waiting; two subscribers, some of whom sign their charges and some not, in batches of one and of all | raises are announced and a quorum of the roster in force executes; the limit is exact; no stored score flatters and both formulas agree; nobody is charged ahead, and a chargeable subscription is charged in the end |
| `indexer` | up to four ledgers, pages of one and two, two pages a tick, in seven mixes of forks, failures, backfills and events, some of them unreadable (`MCScenarios`) | what the tables hold of the final chain while the detection can undo the forks, and nothing else lost but what the page cap passed |
| `charging` | two workers, two faults, two retries | claims exclude, dunning is sound, late failures are ignored, a settled row agrees with the contract |
| `sessions` | two tabs, two slots of the server, up to four tokens, a rotation of keys | one session per challenge, one live token per family unless writes overlapped, every call ends |
| `backend` | ten modules around one creator, with two or three processes each | see the comments above each property in `MCBackend` |
| `clients` | seven modules of one tab | see the comments above each property in `MCClients` |
| `solvency` | two creators, two tips | violated: a tip withdrawn and then refunded leaves the pool short of the other balances |
| `credit_decay` | one creator | violated: a tip sent by `send_tip` does not count as activity, so the score of a tipped creator decays |
| `found_draft` | one form | violated: one second after it is opened, the untouched form has been written over the draft that the banner offers |
| `stopped_dashboard` | a registered wallet and another | violated: the late "not found" of one wallet stops the polling of the other |

The last four end in a counterexample on purpose: each states a sentence of the
source, quoted in `PROJECT.json`, that the code does not keep.

### Bounds, and why they are enough

- Two processes (requests, workers, runs, tabs, dialogs) for every pair of handlers
  that may overlap; three calls in `TipRecords`, where a retry can lose twice. What
  is proved below holds for any number.
- Three entries where a position in the middle matters (`RefundQueue`'s
  swap-remove), three or four ledgers and pages of one or two events in `Indexer`, so that a page
  ends inside the range, a fork lies below, between and above the checkpoints (two of
  them are kept), a second fork meets the rollback of the first, and a tick is cut by the
  finality ceiling or by its two pages.
- Three selections of two wallets in `OwnProfile`, so that a wallet is left and selected
  again while its first fetch is still out; four edits of two names in `NameCheck`, so
  that a name is typed, left and typed back before and after its lookup, with two
  lookups out at once.
- Clocks run for as many steps as the longest chain of windows: in `TipzFunds` each
  window is open at time 0 and closed at time 1; the breaker's ring goes round at
  least three times with steps longer than a bucket; the waits of `Credit` end
  before, within and after the seconds in which a score decays; the idle clock of
  `Wallet` passes warning and limit.
- Counters the code does not bound are bounded by a **budget**: `Spend(what)` takes
  one of `budget[what]`, and a run explores every budget of the set `Budgets`. A
  budget is a mix of events (edits with crashes, receipts without tips), because the
  product of all of them is out of reach; each is explored in full. `MaxVersion`,
  `MaxEpoch`, `MaxProposals`, `MaxTips`, `MaxScheduled`, `MaxTime`, `MaxLedger`,
  `MaxWallet`, `MaxOps`, `LastTime`, `MaxReorgs`,
  `MaxUserOps` and `MaxFaults` bound the counters of the modules without one; each
  appears in the guard of the action that counts. `Scenarios` of `Indexer` is its set of
  budgets, with the events, the length of the chain and the size of a page.
- When the budget is spent a system may rest; the step `Quiet`, which changes nothing,
  stands for that. In the modules that have it a deadlock cannot show as such: that
  nothing waits for ever is what their liveness properties say.
- Amounts are distinct powers of two where a sum must tell its terms apart
  (`TipRecords`), divide evenly where the fee is not the question (`TipzFunds`), and lie
  on both sides of the cap of the score (`Credit`).

### Fairness

- `RefundQueue`: ledgers close, and the keeper sweeps again and again (weak); nothing
  is assumed of creators, tippers or other callers.
- `Subscriptions`: days go by (weak), and the batch runs (strong, because a pause
  disables what it does and may be lifted and set again for ever).
- `Indexer`: the poll loop schedules its next tick whatever happened
  (`poller.ts`); only its successful steps are fair, failures need not happen.
- `Sessions`: a request that reached the server is served, an answer is handled.
- `MCBackend`: the repeatable jobs (`payout.worker.ts`, the rollup schedules,
  `xMetricsRefresh.worker.ts`), the delivery worker, the gateway with a client that
  follows the protocol, requests that were accepted, and the clock of redis keys.
- `MCClients`: timers fire (`setTimeout`, `setInterval`), React renders after a
  change, and the node answers reads. Nothing is assumed of users, wallets,
  transactions, or of the chain.

In the composed runs fairness is one `WF` of the disjunction of these steps, each
under its `focus`; since exactly one focus is ever enabled this is the weak fairness
of that module's steps together: it asks only that they do not all stop while one of
them could go on, and not that each of them happens.
The leads-to properties say what they do not promise. `OverdueIsAnswered` asks that from
some time on nothing stops the sweeps: no pause, no creator who left, and a pool that can
pay what is overdue, because one settlement that fails reverts its whole sweep.
`ReadyIsCharged` asks the subscription to stay chargeable and is excused while, again and
again, the subscriber of a due subscription has not signed, because the trap undoes the
whole batch; it speaks of batches as long as the list, since a shorter one may be used up
by the first of the list every time. `ClientSettles` excuses the dialog of a component
that was unmounted and what storage refused; `EveryFinalTipIndexed` excuses forks the
detection cannot undo and ledgers the page cap passed;
`EverythingArrives` speaks of the time after the budgets are spent.

## What is proved

`tlapm` checks these for every value of the constants, under the assumptions named
in the modules: `QueueAssumption`, `CustodyAssumption` (which is `CountsAssumption`,
`AmountsAssumption` and `WindowsAssumption` of `TipzFunds`), `GovernanceAssumption`,
`RulesAssumption`, `IndexerAssumption`, `ChargeWorkerAssumption`, `SessionsAssumption` and the `Assumptions` of `MCBackend` and
of `MCClients`: amounts are positive, rates within their limits, windows and thresholds
natural numbers, budgets records of natural numbers, no page the header, no key the
word for "none". TLC evaluates each of them in a run. `MCCustody`, `MCRules`, `MCBackend` and
`MCClients` declare the constants of the modules they compose and get their values in the
`.cfg`, so that their theorems speak of any number of users, requests, tips, days,
dialogs and attempts.

`PROJECT.json` lists every theorem with the property it states. The inductive
invariant is the heart of each proof, and says why the code is right:

**Sums and folds** (`SumsProofs`). `SumToChange` (changing one term changes the sum by
the difference), `SumToMonotone`, `SumToZero`, `SumToInt` for sums over 1..n;
`SetSumTakes`, `SetSumAdds`, `SetSumNat` for sums over sets, which are folds that take
the elements in an order nobody chose. `FoldIs` says that the function a fold of
the community modules chooses does exist, and `FoldStays` that what every turn keeps
holds of the result. The library's induction theorem cannot be instantiated; these
lemmas use the least-number argument of `Least` instead. `PrefixGrows`, `PrefixStands`,
`PrefixChange` and `PrefixShift` are the same for the partial sums of an endless sequence:
they turn a sum over a window into a difference of two of them.

**TipzFunds** (in `CustodyProofs`). `Support` is `TypeOK` with two facts it needs: `RecordsInUse` (tip and
scheduled-tip slots are filled in order, and unused ones are empty, so that a new
record adds its amount to a sum that had 0 there) and `PauseClock` (the pause clock
runs exactly while a flag is set).
- `TypeCorrect`: `[]TypeOK`.
- `PoolMatchesBooks`: `[]BooksBalance`. Each action moves `xlm` and exactly one term
  of one or two sums; `BalanceMoved` and `EscrowMoved` are `SumToChange` applied to them.
- `NoDoubleRefund`: `[]RefundedOnce`.
- `DebtsAreRefunds`: `[]DebtBoundedByRefunds`. A refund lowers a balance and raises
  what has been refunded of that creator's tips by the same amount; every other
  debit is checked against the balance.
- `PauseHoldsFunds`: the action property `OnlyEmergencyExitWhilePaused`, from `PauseClock`
  and the fact that every other payment requires that no flag is set.

**RefundQueue** (in `CustodyProofs`). What makes the index and the payments right across the expiry of
entries is a fact about time in `QueueInv`: the entry of a request is written no
earlier than that of its tip, so it can be read at least as long. A tip that can be
asked for therefore has no forgotten answer, and `paid` is 1 exactly while the stored
status says so, even of an entry that can no longer be read. The index is a list
without repetitions of requests whose stored status is pending, and
holds every one that can be read; swap-remove keeps that (`SwapRemoved`). A batch or a
sweep is a fold of turns: `SoundBooks` is what every turn keeps (`SettleStays`,
`DropStays`, `SweepStays`) and what the whole call commits (`IdsStay`, `WalkStays`,
`CommitKeeps`); a turn that fails ends the fold as it was and nothing is committed.
- `QueueIsSafe`: `[]Safe`, that is the types, `IndexListsPending` and `PaidAtMostOnce`.
- `LifecycleIsFollowed`: the queue implements `RefundLifecycle`; the initial state maps
  to its initial state, and every step, a sweep of many included, to one of its steps
  or a stutter (`QueueKeeps`).

**Governance** (in `RulesProofs`). `Inv` is `TypeOK` with `FeeChangeWaits` (a
pending raise is effective no earlier than the minimum delay after its proposal, and
one that is not a raise when proposed cannot become one before it is applied),
`ConfigCounted` (a configuration carries an epoch) and `AllApprovalsCount` (a proposal's
approvals are by different addresses, and by signers if its epoch is the current one).
- `TypeCorrect`, `RaisesAreAnnounced`, `QuorumsExecute`, `AnswersStand`, `MultisigGuards`.

**Credit** (in `RulesProofs`). The two formulas cap their parts and their sum in
different ways and places, so their equality is arithmetic over nested minima and
divisions: `ImplementationsAgree` splits it into one lemma per part. `CreditInv` is
the type with `NeverFlatters`: every operation that changes a number stores the score
it gives, or one decayed from it, and the formula only grows with the age that time adds.
- `ImplementationsAgree`, `ScoreInRange`, `ScoresStayHonest`.

**Subscriptions** (in `RulesProofs`). The list, the due dates and the waiting changes
are inductive together (`SubInv`); none of them is alone, since removing from the list
must find the pair once, and a charge moves the due date of what the list names. The
batch of `execute_subscriptions` is a fold whose turns keep all of it and each touch one pair;
a trap undoes all of them.
- `SubscriptionsStayExact`: `[]SubscriptionsSafe`; the action properties `TermsHold` and
  `PauseHoldsCharges`.

**Withdrawal circuit breaker** (in `RulesProofs`). The ring keeps sums per block of time, in slots
that are used again every `buckets` blocks; the limit is about what was taken at each second.
`RingInv` compares the two through the partial sums of what was taken: a slot is empty or
holds a block of its own place in the ring (`SlotsInPlace`); what the slots hold from any
time on was taken from then on (`CountedOnce`, so nothing is counted twice or too long);
and from the start of any block the ring can still hold, all that was taken is in a slot
(`AllCounted`). When a slot is renewed, the block it held is a whole round earlier
(`RoundsApart`) and too old for either. The threshold then bounds what was taken within the
remembered time whenever the clock stops (`Limited`).
- `LimitIsExact`: `[]BreakerIsExact`.

**Indexer.** `IInv` is `Basic` (types, and what the poll loop's and the backfill's own
variables may look like) and, until a fork is *blind*, `FInv`, which says what vouches for
the tables. A checkpoint whose hash is still the chain's vouches for every row up to its
ledger, and the oldest one, match or not, for the ledgers before it (`TableInv`, `Sound`);
of two checkpoints the older matches if the newer does, and the current branch's own all do
(`CheckInv`), so a rollback that keeps the rows up to the newest match keeps rows that are
right, wherever between two checkpoints the fork lies. A tick begins only where every
checkpoint matches, and from then on what it has read is stored and what it has not is on the
page it holds, on one to come, or among the ledgers passed at the page cap (`LiveInv`,
`Progress`). A backfill writes only events of the chain (`BackInv`), and until one runs or
the chain forks the goal and the score are those of the last ledger read, or an event that
sets them is still on its way (`HistInv`, `Told`).
- `IndexerIsSafe`: `[]Safe`, that is the types, `AgreedTipsAreTheChain`, `AgreedRefundsAreStored`
  and `BroadcastAtMostOnce`; `TicksFollowTheChain`: the action property `TickLeavesChainState`.

A fork is blind (`~Seen`) when a page in memory, of a tick or of a backfill, goes above it;
or when something was read above it and no checkpoint lies above it to disagree, or none at
most a ledger above it to start from. A checkpoint is missing above what was read when
Horizon did not answer (`poller.ts:108-117`), when a backfill went past the newest one
(`backfill.ts:56` goes to the head of the chain by default), and for every ledger older than
`Lookback` checkpoints. After a blind fork only the types hold, and the abandoned branch's
rows may stay. `MCIndexer` reaches blind forks of each kind, except one below checkpoints that
were pruned: that one only the proof covers.

**ChargeWorker.** `IInv` has two halves. `ChainInv` relates the row to the contract
through the events not yet projected: the last event that tells of the subscription
says what the contract says, and once none is left the row is ahead by the transaction
on its way and nothing else. `ClaimInv` relates it to the processes: what a run has read
was due and free then, a row that carries a claim is the row its process read, and
whoever holds a claim the row no longer carries has held it for its time to live.
- `ChargesAreSafe`: `[]Safe`; `SettledRowsAgree`: `[]SettledRowAgrees`;
  `LateFailuresAreIgnored`: the action property `LateFailureIsIgnored`.

**Sessions.** Of the rows: a family begins with one token and a challenge that was used,
and, unless it was raced, has one live token, or none after a reuse was detected
(`FamiliesBegin`, `FamiliesLive`). Of the tabs: a call waits only for a refresh under
way, of which there is one (`TabsFit`, `OneFlight`), and a request speaks of rows that exist.
- `SessionsAreSafe`, `FamiliesHaveOneLiveToken`, `RotationIsGraceful`.

**The backend around one creator** (`BackendProofs`). One inductive invariant per module,
put together under `focus` at the end.
- `IdentityIsSafe`: `SecretInv` (the row of an API key is what the last rotation wrote, and
  keeps what that one had read) and `AccountInv`. `ServedIsCurrent` is not inductive, because the
  entry is empty just while a reader is about to fill it: `ReadersAgree` says that what
  such a reader holds is the row as it is, of a user that neither lags nor is being cleared.
- `RecordsAreSafe`: `RecordInv` (`Counts`: since the last rollup, rollback or report, what was
  counted is what calls that are over, or past that step, recorded, by `SetSumAdds`; `Raises` and `Versions`: a retry of the optimistic
  write finds a version it has not seen; `Runs`: the streak is the run of days) and `DeskSafe`.
- `FiguresAreSafe`: `RollupInv` (while no two runs of a job crossed, each is alone, and a
  day that is not being written holds its volume) and `UpstreamInv`.
- `PayoutsAreSafe`: `PayoutInv` (what the sweep has seen is the schedule, unless it was edited;
  a withdrawal is covered by what was ever received unless submissions overlapped; what was
  taken back since is `history.lost`).
- `WebhooksAreSafe`: `WebhookInv`, per delivery what its status, job and attempts allow, with
  crashes between any two steps.
- `MessagesAreSafe`: `NoticeInv`, and `RoomInv`: what is on its way to the client is, but for
  events missed live or never appended, a run of events that ends with the last one the
  gateway has heard of.
- `NothingTurnsBack`: the action property `NothingGoesBack`.

**The browser tab** (`ClientsProofs`). One inductive invariant per module, put together under
`focus` at the end.
- `TipFlowIsSafe`: `[]TipFlowSafe`, from `TipInv`. That a draft is paid once is not inductive:
  what has to be known of a draft that was not retried blindly is that at most one of its
  transactions is *live*, which means landed or still able to land (`PaidOnce`); that a draft
  waiting for its confirmation has none (`Waiting`), in the handlers of an earlier rendering
  too; and that, unless the guard was opened early, whatever is unsettled is behind it and alone
  (`OneUnsettled`). `OneOnScreen` and `Earned` are the same for the success that is shown, and
  `PagesAgree` says which steps a restored guard or the registration page leaves possible.
- `WalletIsSafe`: `[]WalletSafe`, from `WalletInv`: `Sound` of the store and of its stored copy,
  `KitInPlace` (with no cause named, one dialog at most has a choice, and the kit is at that
  choice or at the connected wallet) and `Watched` (an armed timer has a wallet, and whoever
  could see the warning has had it).
- `ScreensAreSafe`: `[]ScreensSafe`, which is five modules.
  `DraftInv`: the text of an open form is stored, or the timer that will store it is armed, or
  the rendering that arms it is to come, or a cause is named why it is none of these (`Kept`).
  `DashInv`: what is shown is covered by the contract's balance with the withdrawals that are due
  (`Covered`, a sum over the withdrawals on their way).
  `BoardInv`: of every network none of whose reads lost its mark, versions are in order (shown ≤
  cached ≤ read ≤ on chain, `InOrder`), and each read is marked, by the entry it refreshes or by
  the page that waits for it (`Marked`), which is why a second one does not begin. Without
  `Marked` the order is not inductive: the later of two answers would win.
  `OwnInv`: with nothing in between, the store and each hook agree with the contract or a fetch
  for the selected wallet is out (`Agreeing`).
  `NameInv`: what is shown is what is remembered of the debounced name, or its lookup is under way
  (`Judging`), and what is remembered or on its way is the contract's word (`WordsAreTrue`).

Some of these proofs corrected the model where a run had been too small to show it. A blind
retry was tied to the budget of faults in a way that left out a retry made while offline
(`TipFlow!ConfirmAndSign`). `HooksAgree` was false after three changes of the selected wallet
around one registration: a fetch that missed the registration outlives the selection it was
made for, so its cause must too (`OwnProfile!Outlasting`). With a start ledger above 1, which
no run has, the chain of `Indexer` could hold events from before the contract was deployed,
which no tick reads; `INDEXER_START_LEDGER` is that of the deployment, and now `Fresh` says so.
And a fork the detection can undo (`Indexer!Seen`) must lie under a checkpoint also when only a
stored tip is above it, which a backfill wrote.

**Only model-checked.** All liveness (`OverdueIsAnswered`, `ReadyIsCharged`, `CallsEnd`,
`DueIsAttended`, `EverythingArrives`, `ClientSettles`, `EveryFinalTipIndexed`), which with
`ENABLED` is out of the proof system's reach. Every invariant and every action property that
a passing run checks is proved.

## Disagreements met without a run

Each was met while modelling; the runs are kept for the questions above. The models
contain what the code does.

Contract.
- `expire_refund` subtracts a timestamp in seconds from a ledger number
  (`refund.rs:304`): on every real network the age is 0 and a request never expires
  (`RequestLedgerAge`; with `GenesisTime` above the ledger numbers `ExpireRefund` is
  never enabled). A sweep that fills its limit returns the cursor 0 that also means
  "done" (`refund.rs:271`); `test/test_refund.rs:659` expects a positive one.
- One pause flag pauses everything (`TipzFunds!PauseIsGranular`); a scheduled tip
  whose creator left stays in escrow (`DueTipLeavesEscrow`); a pending refund of a
  creator who left, or one the pool cannot pay, is never answered, and its failure reverts
  every sweep it is met in, those of other creators' requests included
  (`RefundQueue!OverdueIsAlwaysAnswered`, `refund.rs:353-358`); a failed
  transfer in a batch leaves the reentrancy guard set (`Subscriptions!GuardIsClear`);
  an admin change pending when the multisig is set up is confirmed without the signers
  (`Governance!AdminChangesByQuorum`); the refusal of a withdrawal undoes the pause it
  was meant to cause (`CircuitBreaker!TripPauses`, `circuit_breaker.rs:118`), and the
  removal of an expired admin proposal is undone by the error after it
  (`admin.rs:608`).
- `subscription.rs:146-147` says that subscriptions that fail are skipped; one whose
  subscriber has not authorized the charge (`tips.rs:293`) traps, and the batch is undone
  for everybody (`Subscriptions!SignatureMissing`). A limit shorter than the list may be
  used up by the first of it in every batch: nothing remembers where the last one ended.
- `credit.rs:124` calls 10 000 000 stroops "10 XLM"; they are 1 XLM.

Backend.
- The favourites the client offers have no route: every signed-in toggle answers 404
  and is undone, though `services/api/favorites.ts:47` promises an idempotent POST.
- `auth.service.ts:295-297` promises one challenge per wallet; two requests at once
  make two. Two tabs that refresh with the same stored token trigger the detection of
  a reuse, and the family is revoked.
- Any failure after the commit of a profile update is answered as a bad request.
- A confirmed tip that was refunded before is confirmed again; a tip that the indexer
  saw first is never counted in goal, streak and day (`TipRecords`). The contract's report
  of a goal includes tips whose increment is still to come, which are then added twice
  (`projections.ts:372-383`, `Due`), and a daily rollup run on the day itself counts tips
  that are counted again, or loses those counted since its read. A tip that was rolled
  back and recorded again is notified again and added to the goal again.
- A refund row says "approved" or "rejected" as soon as the network has queued the
  transaction (`refunds.service.ts:153-175`); if it expires or fails on the chain nothing
  undoes the row, and it cannot be submitted again.
- A tip that is refunded or rolled back after it was withdrawn leaves the creator's balance
  negative (`Payouts!TipUnconfirmed`), as it does in the contract (`solvency`).
- `rotateSubscriptionSecret` answers `previousSecretValidUntil` and stores the previous
  secret of a webhook (`webhooks.service.ts:85-92`), but nothing reads it: deliveries are
  signed with one secret, and a job and its retries with the one it was queued with
  (`webhooks.dispatcher.ts:46-54`).
- The decoders expect the events of an earlier contract. `parseTip` drops a leading version
  and takes sender, receiver and amount from there, where the contract publishes the tip's
  number first (`events.rs:94-107`): every tip of the present contract is skipped with a
  warning. Goal and score payloads carry a version their decoders do not drop, and the
  refund topics of the contract are not in `REFUND_TOPICS` (`projections.ts:15`). The tests
  use the earlier form. With the present contract only subscription events are `Readable`,
  and what is shown of tips, refunds, goals and scores holds vacuously of it.
- After fifty pages a tick moves the cursor to the finality ceiling all the same
  (`poller.ts:66, 101`): what it did not read is never read, unless an operator backfills.
- A subscription event whose handler fails after its log row was written is never
  projected: on the replay it is not new, and the handler returns at once.
- Two processes that look for the log row of an event at once both store it and both
  publish it; no constraint of the schema stands against it.
- A `realtime:catchup` past the rate limit is answered with a general error and not through
  its callback, and a subscription past it joins no room (`gateway.ts:147, 182`,
  `Realtime!Refuse`): a client that waits for the callback waits for ever.
- Scheduled payouts leave no withdrawal row, and rows never leave PENDING (`Payouts`).
- `leaderboardSnapshot.worker.ts:18-24` ("always converges") holds from the next run
  that is not overlapped on (`Rollups!Converged`).
- `monitor.ts:17` counts as stalled ticks those that left the cursor where it was,
  also at the tip of the chain.
- `backpressure.ts:36-88` looks sockets up under an identifier they are not stored
  under, and drops nothing.

Front end.
- A retry goes round the guard and pays twice when the first attempt settles after
  the poll gave up (`TipFlow!PaidTwiceOnlyByBlindRetry` names it). A cancellation while
  the wallet signs may later show success.
- A draft is written back after a successful submission: `clearSaved` renders the form
  again with its text still in it, the effect arms the timer for that text, and unless the
  form is emptied in time the submitted text is the draft of the next visit
  (`TipPage.tsx:143-147`, against `useFormAutosave.ts:75-77`). A write that storage refuses
  is not tried again until the text changes or the form is rendered.
- A component that unmounts while its connection dialog is open stops the dialog's timer
  and leaves `connecting` set (`useWallet.ts:188-194`, `Wallet!Unmount`); if the dialog
  never returns nothing clears it.
- The automatic reconnection (`useWallet.ts:138-184`) never finds anything to do
  (`Wallet!NothingToReconnect`). The kit may sign with another application after a
  wallet was switched or removed (`KitFollowsActive` names the causes).
- A failed withdrawal puts back the balance of an earlier one that succeeded
  (`Dashboard`, cause "reverted").
- Polls of the leaderboard merge and never drop anybody who fell off; after a change
  of network while a question waits they merge the boards of two networks (`Board`,
  `stray`).
- `ProfileEditPage.tsx:29` says "Redirect to register if no profile exists after loading
  completes"; the effect below it runs in the first rendering too, where nothing loads
  and `isRegistered` is still false, so a registered creator who opens the page is sent
  to the registration, unless another fetch happens to be loading (`OwnProfile!Visit`).
  A fetch that fails sends there as well, and its Retry is never seen
  (`OwnProfile!Settle`).
- A username typed away from and back within half a second is never checked again:
  no tick, no cross and no error, and it may be submitted though it is remembered as
  taken (cause "returned" of `NameCheck`). The answer about an earlier name may come
  last and stay as the verdict on this one ("late"); what was learnt on one network is
  shown on the other ("moved").

## Not modelled

- The contents of messages, names, pages and events; storage rent (except where an
  expired entry changes an outcome); 128-bit overflow, which the code checks and
  which small amounts do not reach.
- The token contract, the price oracle, the ledger, the database, redis, the job queue
  and the wallet applications: external, taken as they are used.
- In the contract: versioning beyond the upgrade itself (an upgrade during a batched
  migration bumps the version under it), usernames and their reverse index,
  verification, leaderboards, multi-token tips, goals, streaks and the block lists:
  sequential bookkeeping of one record, whose tests reach it.
- In the backend: search, discovery, previews and the read endpoints; the comparison
  jobs (reconciliation, leaderboard verification), which work on stand-in data; the
  monitor's counters and alerts, and the rows a blind fork leaves behind, in `Indexer`;
  the secrets of webhooks; the rooms a socket may not join and the events emitted beside
  the stream in `Realtime`; the row of the score that the indexer may write
  (`projections.ts:575-625`), which the payloads of the contract never reach, in `Rollups`.
- Two subscriptions of one subscriber in one batch need an authorization each;
  `Subscriptions` has one per subscriber.
- In the front end: pages and components that only render; `useTransactionHistory` and
  `useTips`, which like the dashboard keep another wallet's answer after a switch, and
  which for sent tips append the first page again for every later one, since the read
  has no offset (`useTransactionHistory.ts:217`, `useTips.ts:59`);
  the hooks no page uses (`useTipNotifications`, `useRealTimeNotifications`,
  `useWalletResilience`, `useOptimisticTip`, `lib/queryCache`); the service worker's
  queue of tips, which posts to a route without a transaction hash.

The map covers a tenth of the repository's TypeScript and, beside it, the Rust of the
contract that moves money or decides; the rest is rendering, queries, validation
schemas, generated clients, configuration and tests of them, where no order of steps
is at stake.

## Plan

1. `Versioning` (upgrade and batched migration) and `ProfileRegistry` (usernames).
2. Composition of `Indexer` with the rows of `TipRecords`, `RefundDesk` and `Payouts`, which
   now take its projections, rollbacks and reports as single steps of the environment.
