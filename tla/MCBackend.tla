----------------------------- MODULE MCBackend ------------------------------
(* The backend around one creator: payouts, tip records, refund decisions,   *)
(* API keys, webhooks, notifications, the realtime room, what is derived     *)
(* from tips, accounts and the metrics fetched upstream.  A behaviour is a   *)
(* behaviour of one of them, named by focus.  What another component does to *)
(* the rows of one (the status of a tip, a goal, a day's figures) is a step  *)
(* of the environment in its module.                                         *)
EXTENDS Integers, FiniteSets, Sequences, TLC

CONSTANTS Requests,  \* what may be under way together: requests, jobs, deliveries
          Transactions, SentAmount, Cadences, BackoffBase, Attempts, MinAmount, PauseDays,
          MaxReceived, PayoutBudgets,
          Tips, Amount, MaxRetries, GoalReports, RecordBudgets, DeskBudgets,
          Grace, Life, SecretBudgets,
          Subscriptions, Target, MaxAttempts, WebhookBudgets,
          Messages, DigestSize, MaxTips, NoticeBudgets,
          Limit, MaxEvents, RoomBudgets,
          RolledTips, RolledAmount, Receiver, Days, RollupBudgets,
          Users, Names, Ttl, AccountBudgets,
          Threshold, Reset, Retries, UpstreamBudgets

VARIABLES focus, budget, history,
          clock, creator, withdrawal, schedule, submit, sweep,
          tip, counted, raised, streak, call,
          row, rows, sent, chain, told, desk,
          key, issued, rotation,
          subscription, notices, job, attempt, posts, deadLetters,
          preference, batch, digests, window, flush, tally, message, channel, receipt,
          published, stream, heard, missed, socket, toServer, toClient, client,
          topic, today, tips, daily, board, score, run,
          user, entry, request, lagging,
          api, breaker, fetch, account, record

payoutVars == <<creator, withdrawal, schedule, submit, sweep>>
recordVars == <<tip, counted, raised, streak, call>>
deskVars == <<rows, sent, chain, told, desk>>
secretVars == <<key, issued, rotation>>
webhookVars == <<subscription, notices, job, attempt, posts, deadLetters>>
noticeVars == <<preference, batch, digests, window, flush, tally, message, channel, receipt>>
roomVars == <<published, stream, heard, missed, socket, toServer, toClient, client>>
rollupVars == <<topic, today, tips, daily, board, score, run>>
accountVars == <<user, entry, request, lagging>>
upstreamVars == <<api, breaker, fetch, account, record>>
lateVars == <<rollupVars, accountVars, upstreamVars>>
earlyVars == <<payoutVars, recordVars, deskVars, secretVars, webhookVars, noticeVars, roomVars>>
vars == <<focus, budget, history, clock, row, earlyVars, lateVars>>

P == INSTANCE Payouts WITH Amount <- SentAmount, MaxAttempts <- Attempts, Budgets <- PayoutBudgets
T == INSTANCE TipRecords WITH
        Calls <- Requests, Reports <- GoalReports, Budgets <- RecordBudgets
D == INSTANCE RefundDesk WITH Clerks <- Requests, Budgets <- DeskBudgets
S == INSTANCE Secrets WITH Rotations <- Requests, Budgets <- SecretBudgets
W == INSTANCE Webhooks WITH Deliveries <- Requests, Budgets <- WebhookBudgets
N == INSTANCE Notices WITH
        Flushers <- Requests, Webhooks <- Requests, Threshold <- DigestSize, Budgets <- NoticeBudgets
R == INSTANCE Realtime WITH Budgets <- RoomBudgets
U == INSTANCE Rollups WITH
        Runs <- Requests, Tips <- RolledTips, Amount <- RolledAmount, Budgets <- RollupBudgets
A == INSTANCE Accounts WITH Budgets <- AccountBudgets
X == INSTANCE XMetrics WITH
        Calls <- Requests, MaxRetries <- Retries, Budgets <- UpstreamBudgets

ASSUME Assumptions ==
    /\ P!PayoutsAssumption /\ T!TipRecordsAssumption /\ D!RefundDeskAssumption
    /\ S!SecretsAssumption /\ W!WebhooksAssumption /\ N!NoticesAssumption
    /\ R!RealtimeAssumption /\ U!RollupsAssumption /\ A!AccountsAssumption
    /\ X!XMetricsAssumption

NoPayouts == creator = 0 /\ withdrawal = 0 /\ schedule = 0 /\ submit = 0 /\ sweep = 0
NoRecords == tip = 0 /\ counted = 0 /\ raised = 0 /\ streak = 0 /\ call = 0
NoDesk == rows = 0 /\ sent = 0 /\ chain = 0 /\ told = 0 /\ desk = 0
NoSecrets == key = 0 /\ issued = 0 /\ rotation = 0
NoWebhooks ==
    /\ subscription = 0 /\ notices = 0 /\ job = 0 /\ attempt = 0 /\ posts = 0 /\ deadLetters = 0
NoNotices ==
    /\ preference = 0 /\ batch = 0 /\ digests = 0 /\ window = 0
    /\ flush = 0 /\ tally = 0 /\ message = 0 /\ channel = 0 /\ receipt = 0
NoRoom ==
    /\ published = 0 /\ stream = 0 /\ heard = 0 /\ missed = 0 /\ socket = 0
    /\ toServer = 0 /\ toClient = 0 /\ client = 0
NoRollups ==
    /\ topic = 0 /\ today = 0 /\ tips = 0 /\ daily = 0 /\ board = 0 /\ score = 0 /\ run = 0
NoAccounts == user = 0 /\ entry = 0 /\ request = 0 /\ lagging = 0
NoUpstream == api = 0 /\ breaker = 0 /\ fetch = 0 /\ account = 0 /\ record = 0
NoEarly ==
    /\ NoPayouts /\ NoRecords /\ NoDesk /\ NoSecrets /\ NoWebhooks /\ NoNotices /\ NoRoom
    /\ row = 0

EarlyInit ==
    \/ /\ focus = "payouts" /\ P!Init /\ row = 0
       /\ NoRecords /\ NoDesk /\ NoSecrets /\ NoWebhooks /\ NoNotices /\ NoRoom
    \/ /\ focus = "records" /\ T!Init /\ row = 0
       /\ NoPayouts /\ NoDesk /\ NoSecrets /\ NoWebhooks /\ NoNotices /\ NoRoom
    \/ /\ focus = "desk" /\ D!Init /\ clock = 0 /\ counted = 0 /\ raised = 0 /\ streak = 0 /\ call = 0
       /\ NoPayouts /\ NoSecrets /\ NoWebhooks /\ NoNotices /\ NoRoom
    \/ /\ focus = "secrets" /\ S!Init /\ row = 0
       /\ NoPayouts /\ NoRecords /\ NoDesk /\ NoWebhooks /\ NoNotices /\ NoRoom
    \/ /\ focus = "webhooks" /\ W!Init /\ clock = 0
       /\ NoPayouts /\ NoRecords /\ NoDesk /\ NoSecrets /\ NoNotices /\ NoRoom
    \/ /\ focus = "notices" /\ N!Init /\ clock = 0 /\ row = 0 /\ history = 0
       /\ NoPayouts /\ NoRecords /\ NoDesk /\ NoSecrets /\ NoWebhooks /\ NoRoom
    \/ /\ focus = "room" /\ R!Init /\ clock = 0 /\ row = 0 /\ history = 0
       /\ NoPayouts /\ NoRecords /\ NoDesk /\ NoSecrets /\ NoWebhooks /\ NoNotices

LateInit ==
    \/ focus = "rollups" /\ U!Init /\ clock = 0 /\ NoAccounts /\ NoUpstream
    \/ focus = "accounts" /\ A!Init /\ clock = 0 /\ history = 0 /\ NoRollups /\ NoUpstream
    \/ focus = "upstream" /\ X!Init /\ clock = 0 /\ history = 0 /\ NoRollups /\ NoAccounts

Init ==
    \/ EarlyInit /\ NoRollups /\ NoAccounts /\ NoUpstream
    \/ LateInit /\ NoEarly

InPayouts ==
    focus = "payouts" /\ UNCHANGED <<focus, row, recordVars, deskVars, secretVars,
                                     webhookVars, noticeVars, roomVars, lateVars>>
InRecords ==
    focus = "records" /\ UNCHANGED <<focus, row, payoutVars, deskVars, secretVars,
                                     webhookVars, noticeVars, roomVars, lateVars>>
InDesk ==
    focus = "desk" /\ UNCHANGED <<focus, clock, counted, raised, streak, call, payoutVars,
                                  secretVars, webhookVars, noticeVars, roomVars, lateVars>>
InSecrets ==
    focus = "secrets" /\ UNCHANGED <<focus, row, payoutVars, recordVars, deskVars,
                                     webhookVars, noticeVars, roomVars, lateVars>>
InWebhooks ==
    focus = "webhooks" /\ UNCHANGED <<focus, clock, payoutVars, recordVars, deskVars, secretVars,
                                      noticeVars, roomVars, lateVars>>
InNotices ==
    focus = "notices" /\ UNCHANGED <<focus, clock, history, row, payoutVars, recordVars, deskVars,
                                     secretVars, webhookVars, roomVars, lateVars>>
InRoom ==
    focus = "room" /\ UNCHANGED <<focus, clock, history, row, payoutVars, recordVars, deskVars,
                                  secretVars, webhookVars, noticeVars, lateVars>>
InRollups ==
    focus = "rollups" /\ UNCHANGED <<focus, clock, row, earlyVars, accountVars, upstreamVars>>
InAccounts ==
    focus = "accounts" /\ UNCHANGED <<focus, clock, history, row, earlyVars, rollupVars, upstreamVars>>
InUpstream ==
    focus = "upstream" /\ UNCHANGED <<focus, clock, history, row, earlyVars, rollupVars, accountVars>>

PayoutsNext == InPayouts /\ P!Next
RecordsNext == InRecords /\ T!Next
DeskNext == InDesk /\ D!Next
SecretsNext == InSecrets /\ S!Next
WebhooksNext == InWebhooks /\ W!Next
NoticesNext == InNotices /\ N!Next
RoomNext == InRoom /\ R!Next
RollupsNext == InRollups /\ U!Next
AccountsNext == InAccounts /\ A!Next
UpstreamNext == InUpstream /\ X!Next
Next ==
    \/ PayoutsNext \/ RecordsNext \/ DeskNext \/ SecretsNext
    \/ WebhooksNext \/ NoticesNext \/ RoomNext
    \/ RollupsNext \/ AccountsNext \/ UpstreamNext

\* The fairness of those that state some: the sweep of the payouts, the delivery worker, the
\* gateway with its client, the repeated jobs, the requests that were accepted with the clock
\* of redis, and the refresh of the metrics do not stop.
Spec ==
    /\ Init /\ [][Next]_vars
    /\ WF_vars(\/ InPayouts /\ P!Sweep
               \/ InWebhooks /\ \E d \in Requests : W!Work(d)
               \/ InRoom /\ (R!Relay \/ R!Join \/ R!HandleCatchup \/ R!Connect
                             \/ R!TakeAnswer \/ R!TakeLive)
               \/ InRollups /\ U!Run
               \/ InAccounts /\ A!Serve
               \/ InUpstream /\ X!Work)

-----------------------------------------------------------------------------
(* What each component promises, under the names its module gives. *)

\* Withdrawals overdraw the balance only when their submissions overlapped, or by the tips that
\* were refunded or rolled back since, and a schedule is paused by failures in a row and by
\* nothing else (withdrawals.service.ts:188-230, payouts.service.ts:182-255).
PayoutsSafe ==
    focus = "payouts" => P!TypeOK /\ P!OverdrawnForCause /\ P!PausedAfterFailuresInARow

\* Tips, notifications and counters agree, the goal is what was last reported and the tips that
\* reached it since, and the streak is a run of days (tips.service.ts:219-309,
\* concurrency.ts:90-158); one refund row for a tip, which stays completed once the refund was
\* projected unless requests crossed (refunds.service.ts:150-186).
RecordsSafe ==
    /\ focus = "records" => T!TypeOK /\ T!CountedOnce /\ T!GoalIsSum /\ T!StreakCountsDays
    /\ focus = "desk" => D!TypeOK /\ D!OneRequest /\ D!RowFollowsDecisions

\* A rotation leaves the old secret at work for the grace, and no older one
\* (apiKeys.service.ts:110-213); a profile served from the cache is that of an active row as it
\* is now, but for the writes that do not clear it and the readers they cross
\* (profiles.service.ts:118-217, privacy.service.ts:141).
IdentitySafe ==
    /\ focus = "secrets" => S!TypeOK /\ S!RotationIsGraceful /\ S!OldSecretsDie
    /\ focus = "accounts" => A!TypeOK /\ A!ServedIsCurrent

\* A subscription is disabled for an exhausted delivery and says so once, what is exhausted
\* is kept, and posts are bounded by attempts and crashes (webhookDelivery.ts:150-380,
\* notifications.service.ts:268-333, deadLetter.ts:22-66).
WebhooksSafe ==
    focus = "webhooks" => /\ W!TypeOK /\ W!OneDisableNotice /\ W!DisabledForCause
                          /\ W!NothingForgotten /\ W!ExhaustedAreKept /\ W!PostsAreBounded

\* A batched tip reaches one digest, and a channel is suppressed when it should be
\* (batching.ts:40-90, delivery.ts:44-110); a client that follows the protocol misses
\* only events that were lost live or never appended (catchup.ts:53-73, gateway.ts:120-164).
MessagesSafe ==
    /\ focus = "notices" => N!TypeOK /\ N!DigestsConserve /\ N!SuppressedOnce
    /\ focus = "room" => R!TypeOK /\ R!GapsForCause

\* A snapshot lists a creator once, the cache of the score agrees with it, and a day rolled up
\* has its confirmed volume, unless runs of the same job crossed (leaderboard.service.ts:134-163,
\* credit.service.ts:118-253, analytics.service.ts:275-347); the breaker before the upstream
\* metrics is open for failures in a row and for nothing else (circuitBreaker.ts:90-131).
FiguresSafe ==
    /\ focus = "rollups" => /\ U!TypeOK /\ U!BoardListsOnce
                            /\ U!CacheAgrees /\ U!RolledDaysAreExact
    /\ focus = "upstream" => X!TypeOK /\ X!OpenForCause

\* A delivered webhook stays delivered unless its worker died, and the status of a
\* notification moves forward, whatever receipts come late or twice
\* (webhookDelivery.ts:315-335, delivery.ts:101-104); an open breaker lets no call out for its
\* whole rest, unless one that was under way succeeds (circuitBreaker.ts:71-89).
NothingGoesBack ==
    [][/\ focus = "webhooks" => \A d \in Requests : row[d].status = "SUCCESS" /\ d \notin history.crashed
                                                    => row'[d].status = "SUCCESS"
       /\ focus = "notices" => \A m \in Messages : \/ message'[m] = message[m]
                                                   \/ N!Rank(message'[m]) > N!Rank(message[m])
       /\ focus = "upstream" => \A c \in Requests : X!RestsWhenOpen(c)]_vars

\* A schedule that is due is attended to, whatever its attempts before did (payout.worker.ts).
DueIsAttended == focus = "payouts" /\ P!Due ~> (focus = "payouts" /\ P!Attended)

\* Every queued webhook settles in the end, and a connected client whose requests were
\* not refused is brought up to date, but for the events that were lost.  When
\* the changes end, what was derived from them becomes right, whatever crossed before: the
\* snapshot and the score (leaderboardSnapshot.worker.ts:18-24), the cached profiles
\* (profiles.service.ts:106, 155), the breaker and the metrics of an account with a row
\* (xMetricsRefresh.worker.ts:15-37).
EverythingArrives == <>[](/\ focus = "webhooks" => W!Settling
                          /\ focus = "room" => R!UpToDate
                          /\ focus = "rollups" => U!Converged
                          /\ focus = "accounts" => A!CacheHeals
                          /\ focus = "upstream" => X!Recovered)

-----------------------------------------------------------------------------
(* The values of the constants for TLC.                                      *)

OneAndTwo == [t1 |-> 1, t2 |-> 2]
PowersOfTwo == [t1 |-> 1, t2 |-> 2, t3 |-> 4]
TwoCadences == [MANUAL |-> 1, WEEKLY |-> 3]
OneSubscription == [d \in Requests |-> CHOOSE b \in Subscriptions : TRUE]
TwoReceivers == [t1 |-> "c1", t2 |-> "c2"]

PayoutEvents == {[days |-> 0, sends |-> 3, edits |-> 0, crashes |-> 0, refunds |-> 2],
                 [days |-> 3, sends |-> 0, edits |-> 2, crashes |-> 1, refunds |-> 1]}
RecordEvents == {[days |-> 2, calls |-> 3, chain |-> 0, faults |-> 0, reports |-> 0],
                 [days |-> 0, calls |-> 2, chain |-> 2, faults |-> 1, reports |-> 0],
                 [days |-> 1, calls |-> 2, chain |-> 0, faults |-> 0, reports |-> 2]}
DeskEvents == {[calls |-> 4, faults |-> 1]}
SecretEvents == {[ticks |-> 5, rotations |-> 3]}
WebhookEvents == {[crashes |-> 2, faults |-> 0], [crashes |-> 0, faults |-> 2],
                  [crashes |-> 1, faults |-> 1]}
NoticeEvents == {[tips |-> 4, edits |-> 2, receipts |-> 0], [tips |-> 0, edits |-> 0, receipts |-> 6]}
RoomEvents == {[drops |-> 2, expiries |-> 1, faults |-> 0], [drops |-> 1, expiries |-> 0, faults |-> 2],
               [drops |-> 1, expiries |-> 1, faults |-> 1]}
RollupEvents == {[overlaps |-> 1, changes |-> 3, calls |-> 1, losses |-> 0],
                 [overlaps |-> 1, changes |-> 2, calls |-> 2, losses |-> 1]}
AccountEvents == {[changes |-> 2, reads |-> 2, losses |-> 1]}
UpstreamEvents == {[outages |-> 2, misses |-> 2, changes |-> 2]}
=============================================================================
