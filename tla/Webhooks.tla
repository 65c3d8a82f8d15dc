------------------------------ MODULE Webhooks ------------------------------
(***************************************************************************)
(* Webhooks: the deliveries of webhook events (webhooks.dispatcher.ts,     *)
(* jobs/webhookDelivery.ts).  A delivery is a row and a job; the job is    *)
(* attempted, retried with a delay, and at its last failure disables the   *)
(* subscription and tells its owner (notifications.service.ts).            *)
(*                                                                         *)
(* The queue is modelled from how the worker uses it: a job whose worker   *)
(* dies while it is active waits again with the same attempt number, and   *)
(* fails without being run when that happens a second time.                *)
(***************************************************************************)
EXTENDS Integers, FiniteSets

CONSTANTS
    Subscriptions,
    Deliveries,    \* delivery ids
    Target,        \* the subscription each of them is for
    MaxAttempts,   \* WEBHOOK_MAX_ATTEMPTS
    Budgets        \* what a behaviour may use up: [crashes, faults]

\* What the constants may be; MCDeliveries assumes it of its instance.
WebhooksAssumption ==
    /\ Target \in [Deliveries -> Subscriptions]
    /\ MaxAttempts \in Nat \ {0}
    /\ \A b \in Budgets : {b.crashes, b.faults} \subseteq Nat

VARIABLES
    subscription,   \* WebhookSubscription.status of each
    notices,        \* the webhook_disabled notifications of each
    row,            \* WebhookDelivery rows: [status, attempts]
    job,            \* queued jobs: [state, made, stalls]
    attempt,        \* the attempt under way: [pc, response]
    posts,          \* how often each delivery was posted
    deadLetters,    \* the deliveries with a DeadLetterJob
    history,        \* [crashed, lost]: the deliveries a worker died on, and those no dead letter
                    \* could be written for
    budget

vars == <<subscription, notices, row, job, attempt, posts, deadLetters, history, budget>>

Spend(what) == budget[what] > 0 /\ budget' = [budget EXCEPT ![what] = @ - 1]

Idle == [pc |-> "idle", response |-> "none"]
At(d, pc) == job[d].state = "active" /\ attempt[d].pc = pc
Goto(d, pc) == attempt' = [attempt EXCEPT ![d].pc = pc]

\* attemptDetails.
AttemptNumber(d) == job[d].made + 1

\* As if the attempts were not counted from one.
LastAttemptLate(d) == job[d].made > MaxAttempts

LastAttempt(d) == AttemptNumber(d) >= MaxAttempts

-----------------------------------------------------------------------------
(* Dispatching. *)

\* dispatchWebhookEvent: the row of each active subscription.
Dispatch(d) ==
    /\ row[d].status = "none" /\ subscription[Target[d]] = "ACTIVE"
    /\ row' = [row EXCEPT ![d].status = "PENDING"]
    /\ job' = [job EXCEPT ![d].state = "new"]
    /\ UNCHANGED <<subscription, notices, attempt, posts, deadLetters, history, budget>>

\* scheduleWebhookDelivery, whose failure is logged: the row stays.
Enqueue(d) ==
    /\ job[d].state = "new"
    /\ \/ job' = [job EXCEPT ![d].state = "waiting"] /\ UNCHANGED budget
       \/ Spend("faults") /\ job' = [job EXCEPT ![d].state = "dropped"]
    /\ UNCHANGED <<subscription, notices, row, attempt, posts, deadLetters, history>>

\* deleteSubscription: what is queued for it is still sent.
DeleteSubscription(s) ==
    /\ subscription[s] # "DELETED"
    /\ subscription' = [subscription EXCEPT ![s] = "DELETED"]
    /\ UNCHANGED <<notices, row, job, attempt, posts, deadLetters, history, budget>>

-----------------------------------------------------------------------------
(* One attempt. *)

\* As if retries were never taken up.
StartOnce(d) ==
    /\ job[d].state = "waiting" /\ job[d].made = 0
    /\ job' = [job EXCEPT ![d].state = "active"]
    /\ attempt' = [attempt EXCEPT ![d] = [pc |-> "post", response |-> "none"]]
    /\ UNCHANGED <<subscription, notices, row, posts, deadLetters, history, budget>>

Start(d) ==
    /\ job[d].state = "waiting"
    /\ job' = [job EXCEPT ![d].state = "active"]
    /\ attempt' = [attempt EXCEPT ![d] = [pc |-> "post", response |-> "none"]]
    /\ UNCHANGED <<subscription, notices, row, posts, deadLetters, history, budget>>

\* The request, and classifyWebhookResponse; a transport error or a timeout is retryable, and may
\* come after the receiver took the event.
Post(d) ==
    /\ At(d, "post")
    /\ \E r \in {"success", "permanent", "retryable"} :
          attempt' = [attempt EXCEPT ![d] = [pc |-> "persist", response |-> r]]
    /\ posts' = [posts EXCEPT ![d] = @ + 1]
    /\ UNCHANGED <<subscription, notices, row, job, deadLetters, history, budget>>

\* processWebhookDelivery's terminal: no attempt follows this failure.
Terminal(d) == attempt[d].response = "permanent" \/ LastAttempt(d)

\* As if a success were persisted as another attempt.
StatusAfterPending(d) == IF attempt[d].response # "success" /\ Terminal(d) THEN "FAILED" ELSE "PENDING"

\* The status an attempt leaves.
StatusAfter(d) ==
    CASE attempt[d].response = "success" -> "SUCCESS"
      [] attempt[d].response # "success" /\ Terminal(d) -> "FAILED"
      [] OTHER -> "PENDING"

\* As if every failed attempt disabled the subscription.
PersistDisablingAlways(d) ==
    /\ At(d, "persist")
    /\ row' = [row EXCEPT ![d] = [status |-> StatusAfter(d), attempts |-> AttemptNumber(d)]]
    /\ Goto(d, IF StatusAfter(d) # "SUCCESS" THEN "disable" ELSE "settle")
    /\ UNCHANGED <<subscription, notices, job, posts, deadLetters, history, budget>>

\* persistAttempt: the attempt and the delivery, in one transaction.
Persist(d) ==
    /\ At(d, "persist")
    /\ row' = [row EXCEPT ![d] = [status |-> StatusAfter(d), attempts |-> AttemptNumber(d)]]
    /\ Goto(d, IF StatusAfter(d) = "FAILED" THEN "disable" ELSE "settle")
    /\ UNCHANGED <<subscription, notices, job, posts, deadLetters, history, budget>>

\* As if the notification were not tied to the update.
DisableRepeating(s) ==
    /\ subscription' = [subscription EXCEPT ![s] = IF @ = "ACTIVE" THEN "DISABLED" ELSE @]
    /\ notices' = [notices EXCEPT ![s] = @ + 1]

\* disableWebhookSubscriptionAndNotify: one transaction, guarded by the status.
DisableAndNotify(s) ==
    IF subscription[s] = "ACTIVE"
    THEN /\ subscription' = [subscription EXCEPT ![s] = "DISABLED"]
         /\ notices' = [notices EXCEPT ![s] = @ + 1]
    ELSE UNCHANGED <<subscription, notices>>

Disable(d) ==
    /\ At(d, "disable")
    /\ DisableAndNotify(Target[d])
    /\ Goto(d, "settle")
    /\ UNCHANGED <<row, job, posts, deadLetters, history, budget>>

\* recordDeadLetter, which may fail in its turn.
DeadLetter(d) ==
    \/ deadLetters' = deadLetters \cup {d} /\ UNCHANGED <<history, budget>>
    \/ Spend("faults") /\ history' = [history EXCEPT !.lost = @ \cup {d}] /\ UNCHANGED deadLetters

\* As if the attempts were not counted.
RetriedForever(d) == job' = [job EXCEPT ![d].state = "waiting"]

\* A failure of the job: another attempt after webhookBackoffStrategy's delay, or none.
Retried(d) ==
    job' = [job EXCEPT ![d].made = @ + 1, ![d].state = IF LastAttempt(d) THEN "failed" ELSE "waiting"]
Abandoned(d) == job' = [job EXCEPT ![d].state = "failed"]

\* As if the handler left the exhausted jobs out too.
SettleWithoutLetter(d) ==
    CASE attempt[d].response = "success" ->
             job' = [job EXCEPT ![d].state = "completed"] /\ UNCHANGED <<deadLetters, history, budget>>
      [] attempt[d].response = "permanent" ->
             Abandoned(d) /\ UNCHANGED <<deadLetters, history, budget>>
      [] OTHER -> Retried(d) /\ UNCHANGED <<deadLetters, history, budget>>

\* As if a job that returns were put back.
SettledRetryingAll(d) == Retried(d) /\ UNCHANGED <<deadLetters, history, budget>>

\* What the job becomes when the processor returns or throws: attachDeadLetterHandler keeps an
\* exhausted job, and leaves out one that failed for good (UnrecoverableError).
Settled(d) ==
    CASE attempt[d].response = "success" ->
             job' = [job EXCEPT ![d].state = "completed"] /\ UNCHANGED <<deadLetters, history, budget>>
      [] attempt[d].response = "permanent" ->
             Abandoned(d) /\ UNCHANGED <<deadLetters, history, budget>>
      [] OTHER ->
             /\ Retried(d)
             /\ IF LastAttempt(d) THEN DeadLetter(d) ELSE UNCHANGED <<deadLetters, history, budget>>

Settle(d) ==
    /\ At(d, "settle")
    /\ Settled(d)
    /\ attempt' = [attempt EXCEPT ![d] = Idle]
    /\ UNCHANGED <<subscription, notices, row, posts>>

\* The database fails in persistAttempt or in the disabling.  A permanent failure is kept as a
\* dead letter and not retried (recordPermanentFailure); any other is a failure of the job.
DatabaseFails(d) ==
    /\ At(d, "persist") \/ At(d, "disable")
    /\ budget.faults > 0
    /\ attempt' = [attempt EXCEPT ![d] = Idle]
    /\ IF attempt[d].response = "permanent" THEN Abandoned(d) ELSE Retried(d)
    /\ IF attempt[d].response = "permanent" \/ LastAttempt(d)
       THEN \/ deadLetters' = deadLetters \cup {d} /\ UNCHANGED history
            \/ history' = [history EXCEPT !.lost = @ \cup {d}] /\ UNCHANGED deadLetters
       ELSE UNCHANGED <<deadLetters, history>>
    /\ budget' = [budget EXCEPT !.faults = @ - 1]
    /\ UNCHANGED <<subscription, notices, row, posts>>

\* The worker dies: the job is found stalled.
Crash(d) ==
    /\ job[d].state = "active" /\ Spend("crashes")
    /\ job' = [job EXCEPT ![d].stalls = @ + 1, ![d].state = IF @ = "active" /\ job[d].stalls >= 1
                                                             THEN "failed" ELSE "waiting"]
    /\ attempt' = [attempt EXCEPT ![d] = Idle]
    /\ history' = [history EXCEPT !.crashed = @ \cup {d}]
    /\ UNCHANGED <<subscription, notices, row, posts, deadLetters>>

Quiet == UNCHANGED vars

-----------------------------------------------------------------------------
Init ==
    /\ subscription = [s \in Subscriptions |-> "ACTIVE"]
    /\ notices = [s \in Subscriptions |-> 0]
    /\ row = [d \in Deliveries |-> [status |-> "none", attempts |-> 0]]
    /\ job = [d \in Deliveries |-> [state |-> "none", made |-> 0, stalls |-> 0]]
    /\ attempt = [d \in Deliveries |-> Idle]
    /\ posts = [d \in Deliveries |-> 0]
    /\ deadLetters = {}
    /\ history = [crashed |-> {}, lost |-> {}]
    /\ budget \in Budgets

Work(d) == Start(d) \/ Post(d) \/ Persist(d) \/ Disable(d) \/ Settle(d)

Next ==
    \/ Quiet
    \/ \E s \in Subscriptions : DeleteSubscription(s)
    \/ \E d \in Deliveries : Dispatch(d) \/ Enqueue(d) \/ Work(d) \/ DatabaseFails(d) \/ Crash(d)

\* The worker takes the jobs that wait and finishes what it takes.
Spec == Init /\ [][Next]_vars /\ WF_vars(\E d \in Deliveries : Work(d))

-----------------------------------------------------------------------------
(* Properties. *)

TypeOK ==
    /\ subscription \in [Subscriptions -> {"ACTIVE", "DISABLED", "DELETED"}]
    /\ notices \in [Subscriptions -> Nat]
    /\ \A d \in Deliveries :
          /\ row[d].status \in {"none", "PENDING", "SUCCESS", "FAILED"}
          /\ row[d].attempts \in 0..MaxAttempts /\ job[d].made \in 0..MaxAttempts
          /\ job[d].state \in {"none", "new", "dropped", "waiting", "active", "completed", "failed"}
          /\ attempt[d].pc \in {"idle", "post", "persist", "disable", "settle"}
    /\ deadLetters \subseteq Deliveries

\* A subscription is disabled with one notification, however many deliveries fail at once or
\* again after a crash (notifications.service.ts:268-271).
OneDisableNotice ==
    \A s \in Subscriptions : /\ notices[s] <= 1
                             /\ subscription[s] = "DISABLED" => notices[s] = 1

\* A subscription is disabled only when a delivery to it failed for good; after a crash the
\* attempt is made again and its row may say otherwise.
DisabledForCause ==
    \A s \in Subscriptions : notices[s] > 0 =>
        \E d \in Deliveries : Target[d] = s /\ (row[d].status = "FAILED" \/ d \in history.crashed)

\* A job that is over has told its row, or left a dead letter, unless that too failed or the
\* worker died on it twice (deadLetter.ts:22-27).
NothingForgotten ==
    \A d \in Deliveries :
        /\ job[d].state = "completed" => row[d].status = "SUCCESS"
        /\ job[d].state = "failed" => \/ row[d].status = "FAILED" \/ d \in deadLetters \cup history.lost
                                      \/ job[d].stalls > 1

\* Only exhausted or unpersisted deliveries are dead letters, and every exhausted one is.
ExhaustedAreKept ==
    \A d \in Deliveries : job[d].state = "failed" /\ job[d].made = MaxAttempts
                          => d \in deadLetters \cup history.lost

\* A delivery is posted at most MaxAttempts times, and once more for every crash.
PostsAreBounded == \A d \in Deliveries : posts[d] <= MaxAttempts + job[d].stalls

\* A delivered event stays delivered, unless the worker died between the row and the end of the
\* job: then it is sent again and may fail (webhookDelivery.ts:315-335).
SuccessIsFinal ==
    [][\A d \in Deliveries : row[d].status = "SUCCESS" /\ d \notin history.crashed
                             => row'[d].status = "SUCCESS"]_vars

\* Every delivery that is queued settles: none is retried for ever or left in the queue.
Settling == \A d \in Deliveries : job[d].state \notin {"waiting", "active"}
EveryJobEnds == <>[]Settling

=============================================================================
