--------------------------- MODULE EventScheduler ---------------------------
(***************************************************************************)
(* The task scheduler of @axrone/event (event-scheduler.ts): a pool of     *)
(* ConcurrencyLimit slots in front of bounded FIFO queues, one per         *)
(* priority, with timeouts, delayed retries, drain and two ways to dispose.*)
(*                                                                         *)
(* JavaScript runs each callback to its end, so an action is one callback: *)
(* a call of the public interface, the continuation of an awaited task     *)
(* function, a timer.  A task function cannot be cancelled: when a task    *)
(* times out its function goes on running, and ends later, when the task   *)
(* may be waiting for a retry, running a second attempt or settled.        *)
(*                                                                         *)
(* Every element of Tasks stands for one call of schedule.  The attempts   *)
(* of a task are numbered by the value retryCount had when they started.   *)
(***************************************************************************)
EXTENDS Integers, FiniteSets

CONSTANTS
    Tasks,             \* the calls of schedule() and trySchedule()
    Callers,           \* the calls of drain() and gracefulDispose()
    Priority,          \* Priority[t] is the priority of t, 0 is IMMEDIATE
    TimedTasks,        \* the tasks with a timeout greater than 0
    ConcurrencyLimit,  \* at least Cardinality(Tasks) stands for Infinity
    MaxQueueSize,
    MaxRetries,        \* 0 also stands for enableRetries = false
    EnableMetrics

ASSUME TasksAssumption == IsFiniteSet(Tasks) /\ TimedTasks \subseteq Tasks
ASSUME PriorityAssumption == Priority \in [Tasks -> Nat]
ASSUME LimitsAssumption ==
    /\ ConcurrencyLimit \in Nat \ {0}
    /\ MaxQueueSize \in Nat \ {0}
    /\ MaxRetries \in Nat
ASSUME MetricsAssumption == EnableMetrics \in BOOLEAN

VARIABLES
    taskState,         \* task.state, "none" before the call of schedule
    retryCount,        \* task.retryCount
    queued,            \* the tasks in taskQueues
    arrival,           \* arrival[t]: when t was last enqueued, FIFO order
    arrivals,          \* how many times a task was enqueued
    queuedCount,       \* queuedCountValue
    activeTasks,       \* the keys of activeTasks
    attempts,          \* <<t, k>>: attempt k of the function of t is running
    timers,            \* <<t, k>>: the timeout of attempt k of t is armed
    retryTimers,       \* the tasks whose retry timer is armed
    delayedRetryCount,
    settlement,        \* the promise schedule returned for a task
    settleCalls,       \* how often resolve or reject of a task was called
    callers,           \* where each caller of drain or gracefulDispose is
    isDisposed,
    tracked,           \* the keys of taskMetrics
    completedCount,
    failedCount

poolVars == <<queued, arrival, arrivals, queuedCount, activeTasks>>
taskVars == <<taskState, retryCount>>
asyncVars == <<attempts, timers, retryTimers, delayedRetryCount>>
promiseVars == <<settlement, settleCalls>>
statVars == <<tracked, completedCount, failedCount>>
vars == <<poolVars, taskVars, asyncVars, promiseVars, statVars, callers, isDisposed>>

States == {"none", "PENDING", "RUNNING", "COMPLETED", "FAILED", "CANCELLED"}
Attempts == Tasks \X (0..MaxRetries)

Init ==
    /\ taskState = [t \in Tasks |-> "none"]
    /\ retryCount = [t \in Tasks |-> 0]
    /\ queued = {}
    /\ arrival = [t \in Tasks |-> 0]
    /\ arrivals = 0
    /\ queuedCount = 0
    /\ activeTasks = {}
    /\ attempts = {}
    /\ timers = {}
    /\ retryTimers = {}
    /\ delayedRetryCount = 0
    /\ settlement = [t \in Tasks |-> "none"]
    /\ settleCalls = [t \in Tasks |-> 0]
    /\ callers = [c \in Callers |-> "idle"]
    /\ isDisposed = FALSE
    /\ tracked = {}
    /\ completedCount = 0
    /\ failedCount = 0

-----------------------------------------------------------------------------
(* Mutated forms of the definitions below: plausible bugs that the properties *)
(* at the end of the module must detect.  Nothing else uses them.            *)

HasFreeSlot_OneTooMany(active) == Cardinality(active) <= ConcurrencyLimit
isAtCapacity_TooEarly == queuedCount + 1 >= MaxQueueSize
Accepts_Always(t) == TRUE
Accepts_WaitingForRetry(t) == taskState[t] \in {"PENDING", "RUNNING"}
ExecuteTasks_TimeFirstAttempt(S, state, fns, armed) ==
    LET started == {<<t, retryCount[t]>> : t \in S}
    IN  /\ taskState' = [t \in Tasks |-> IF t \in S THEN "RUNNING" ELSE state[t]]
        /\ attempts' = fns \union started
        /\ timers' = armed \union {a \in started : a[1] \in TimedTasks /\ a[2] = 0}
isIdle_ForgetsRetries == activeTasks = {} /\ queuedCount = 0
resolveDrainWaiters_DrainOnly ==
    callers' = [c \in Callers |-> IF callers[c] = "draining" THEN "drained" ELSE callers[c]]

-----------------------------------------------------------------------------
(* Helpers of the handlers *)

isAtCapacity == queuedCount >= MaxQueueSize
HasFreeSlot(active) == Cardinality(active) < ConcurrencyLimit

\* The first settlement of a promise is the one that counts.
Settled(t, outcome) ==
    [settlement EXCEPT ![t] = IF @ = "pending" THEN outcome ELSE @]
Settle(t, outcome) ==
    /\ settlement' = Settled(t, outcome)
    /\ settleCalls' = [settleCalls EXCEPT ![t] = @ + 1]

RetriesLeft(t) == retryCount[t] < MaxRetries

\* What handleTaskSuccess and handleTaskError check before they act.  It does
\* not tell the attempts of one task apart.
Accepts(t) == t \in activeTasks /\ taskState[t] = "RUNNING"

\* clearTimeout(task.timeoutId): the timer of the attempt started last.
ClearTimer(t) == timers \ {<<t, retryCount[t]>>}

\* executeTask for every task of S: state, fns and armed are the states, the
\* running functions and the armed timers before.
ExecuteTasks(S, state, fns, armed) ==
    LET started == {<<t, retryCount[t]>> : t \in S}
    IN  /\ taskState' = [t \in Tasks |-> IF t \in S THEN "RUNNING" ELSE state[t]]
        /\ attempts' = fns \union started
        /\ timers' = armed \union {a \in started : a[1] \in TimedTasks}

\* dequeueTask takes the queues by priority and each queue from its front.
Before(t, u) ==
    \/ Priority[t] < Priority[u]
    \/ Priority[t] = Priority[u] /\ arrival'[t] < arrival'[u]

enqueueTask(t) ==
    /\ arrival' = [arrival EXCEPT ![t] = arrivals]
    /\ arrivals' = arrivals + 1

resolveDrainWaiters ==
    callers' = [c \in Callers |->
        CASE callers[c] = "draining" -> "drained"
          [] callers[c] = "retiring" -> "retirable"
          [] OTHER -> callers[c]]

isIdle == activeTasks = {} /\ queuedCount = 0 /\ delayedRetryCount = 0

resolveDrainWaitersIfIdle == IF isIdle' THEN resolveDrainWaiters ELSE UNCHANGED callers

\* The loop starts the queued tasks that come first until no slot is free or
\* no task is left.
processQueue(state, active, waiting, count, fns, armed) ==
    /\ \E S \in SUBSET waiting :
        /\ \A t \in S, u \in waiting \ S : Before(t, u)
        /\ S # {} => ~isDisposed /\ Cardinality(active \union S) <= ConcurrencyLimit
        /\ S # waiting => isDisposed \/ Cardinality(active \union S) >= ConcurrencyLimit
        /\ queued' = waiting \ S
        /\ queuedCount' = count - Cardinality(S)
        /\ activeTasks' = active \union S
        /\ ExecuteTasks(S, state, fns, armed)
    /\ IF isDisposed THEN UNCHANGED callers ELSE resolveDrainWaitersIfIdle

\* A mutated form of the next definition: a free slot is enough.
StartOrEnqueue_Overtakes(t, state) ==
    IF HasFreeSlot(activeTasks)
    THEN /\ activeTasks' = activeTasks \union {t}
         /\ ExecuteTasks({t}, state, attempts, timers)
         /\ UNCHANGED <<queued, arrival, arrivals, queuedCount, callers>>
    ELSE /\ enqueueTask(t)
         /\ processQueue(state, activeTasks, queued \union {t}, queuedCount + 1,
                         attempts, timers)

\* Start the task at once when a slot is free and nothing waits, else put it
\* at the end of its queue: the tail of schedule and of the retry timer.
StartOrEnqueue(t, state) ==
    IF HasFreeSlot(activeTasks) /\ queuedCount = 0
    THEN /\ activeTasks' = activeTasks \union {t}
         /\ ExecuteTasks({t}, state, attempts, timers)
         /\ UNCHANGED <<queued, arrival, arrivals, queuedCount, callers>>
    ELSE /\ enqueueTask(t)
         /\ processQueue(state, activeTasks, queued \union {t}, queuedCount + 1,
                         attempts, timers)

-----------------------------------------------------------------------------
(* The public interface *)

\* schedule rejects, trySchedule returns null: no task is made.
Refuse(t) ==
    /\ settlement[t] = "none"
    /\ isDisposed \/ isAtCapacity
    /\ settlement' = [settlement EXCEPT ![t] = "refused"]
    /\ UNCHANGED <<poolVars, taskVars, asyncVars, statVars, settleCalls, callers, isDisposed>>

schedule(t) ==
    /\ settlement[t] = "none"
    /\ ~isDisposed /\ ~isAtCapacity
    /\ settlement' = [settlement EXCEPT ![t] = "pending"]
    /\ tracked' = IF EnableMetrics THEN tracked \union {t} ELSE tracked
    /\ UNCHANGED <<retryCount, retryTimers, delayedRetryCount, settleCalls,
                   completedCount, failedCount, isDisposed>>
    /\ StartOrEnqueue(t, [taskState EXCEPT ![t] = "PENDING"])

drain(c) ==
    /\ callers[c] = "idle"
    /\ callers' = [callers EXCEPT ![c] =
                      IF isDisposed \/ isIdle THEN "drained" ELSE "draining"]
    /\ UNCHANGED <<poolVars, taskVars, asyncVars, promiseVars, statVars, isDisposed>>

clearMetrics ==
    /\ tracked' = {}
    /\ completedCount' = 0
    /\ failedCount' = 0
    /\ UNCHANGED <<poolVars, taskVars, asyncVars, promiseVars, callers, isDisposed>>

\* Everything dispose changes but the callers.  The retry timers stay armed.
DisposeEffect ==
    LET cancelled == activeTasks \union queued
    IN  /\ isDisposed' = TRUE
        /\ taskState' = [t \in Tasks |->
                            IF t \in cancelled THEN "CANCELLED" ELSE taskState[t]]
        /\ timers' = timers \ {<<t, retryCount[t]>> : t \in activeTasks}
        /\ settlement' = [t \in Tasks |->
                            IF t \in cancelled /\ settlement[t] = "pending"
                            THEN "rejected" ELSE settlement[t]]
        /\ settleCalls' = [t \in Tasks |->
                            IF t \in cancelled THEN settleCalls[t] + 1 ELSE settleCalls[t]]
        /\ queued' = {}
        /\ queuedCount' = 0
        /\ delayedRetryCount' = 0
        /\ activeTasks' = {}
        /\ tracked' = {}
        /\ UNCHANGED <<arrival, arrivals, retryCount, attempts, retryTimers,
                       completedCount, failedCount>>

dispose ==
    /\ ~isDisposed
    /\ DisposeEffect
    /\ resolveDrainWaiters

\* gracefulDispose up to its await: drain() may return at once, but the code
\* after the await is a microtask of its own.
gracefulDispose(c) ==
    /\ callers[c] = "idle"
    /\ callers' = [callers EXCEPT ![c] =
                      IF isDisposed THEN "retired"
                      ELSE IF isIdle THEN "retirable" ELSE "retiring"]
    /\ UNCHANGED <<poolVars, taskVars, asyncVars, promiseVars, statVars, isDisposed>>

\* gracefulDispose after its await: dispose().
GracefulResume(c) ==
    /\ callers[c] = "retirable"
    /\ IF isDisposed
       THEN /\ callers' = [callers EXCEPT ![c] = "retired"]
            /\ UNCHANGED <<poolVars, taskVars, asyncVars, promiseVars, statVars, isDisposed>>
       ELSE /\ DisposeEffect
            /\ callers' = [d \in Callers |->
                  CASE d = c -> "retired"
                    [] callers[d] = "draining" -> "drained"
                    [] callers[d] = "retiring" -> "retirable"
                    [] OTHER -> callers[d]]

-----------------------------------------------------------------------------
(* Continuations of task functions, and timers *)

handleTaskSuccess(t, fns) ==
    /\ completedCount' = completedCount + 1
    /\ Settle(t, "resolved")
    /\ UNCHANGED <<arrival, arrivals, delayedRetryCount>>
    /\ processQueue([taskState EXCEPT ![t] = "COMPLETED"], activeTasks \ {t},
                    queued, queuedCount, fns, ClearTimer(t))
    /\ UNCHANGED <<retryCount, retryTimers, tracked, failedCount, isDisposed>>

\* handleTaskError while retries are left: the slot is free from here on, but
\* processQueue is not called.
RetryLater(t, fns) ==
    /\ RetriesLeft(t)
    /\ timers' = ClearTimer(t)
    /\ activeTasks' = activeTasks \ {t}
    /\ retryCount' = [retryCount EXCEPT ![t] = @ + 1]
    /\ taskState' = [taskState EXCEPT ![t] = "PENDING"]
    /\ delayedRetryCount' = delayedRetryCount + 1
    /\ retryTimers' = retryTimers \union {t}
    /\ attempts' = fns
    /\ UNCHANGED <<queued, arrival, arrivals, queuedCount, promiseVars, statVars,
                   callers, isDisposed>>

FailForGood(t, fns) ==
    /\ ~RetriesLeft(t)
    /\ failedCount' = failedCount + 1
    /\ Settle(t, "rejected")
    /\ UNCHANGED <<arrival, arrivals, delayedRetryCount>>
    /\ processQueue([taskState EXCEPT ![t] = "FAILED"], activeTasks \ {t},
                    queued, queuedCount, fns, ClearTimer(t))
    /\ UNCHANGED <<retryCount, retryTimers, tracked, completedCount, isDisposed>>

handleTaskError(t, fns) == RetryLater(t, fns) \/ FailForGood(t, fns)

\* The continuation of an attempt whose task is settled, waits for a retry or
\* was cancelled: the handlers return early.
Ignored(t, k) ==
    /\ ~Accepts(t)
    /\ attempts' = attempts \ {<<t, k>>}
    /\ UNCHANGED <<poolVars, taskVars, timers, retryTimers, delayedRetryCount,
                   promiseVars, statVars, callers, isDisposed>>

AttemptSucceeds(t, k) ==
    /\ <<t, k>> \in attempts
    /\ \/ Accepts(t) /\ handleTaskSuccess(t, attempts \ {<<t, k>>})
       \/ Ignored(t, k)

AttemptFails(t, k) ==
    /\ <<t, k>> \in attempts
    /\ \/ Accepts(t) /\ handleTaskError(t, attempts \ {<<t, k>>})
       \/ Ignored(t, k)

\* The timer of attempt k of t fires.
handleTaskTimeout(t, k) ==
    /\ <<t, k>> \in timers
    /\ IF Accepts(t)
       THEN handleTaskError(t, attempts)
       ELSE /\ timers' = timers \ {<<t, k>>}
            /\ UNCHANGED <<poolVars, taskVars, attempts, retryTimers, delayedRetryCount,
                           promiseVars, statVars, callers, isDisposed>>

RetryTimerFires(t) ==
    /\ t \in retryTimers
    /\ retryTimers' = retryTimers \ {t}
    /\ delayedRetryCount' = delayedRetryCount - 1
    /\ \/ /\ isDisposed
          /\ Settle(t, "rejected")
          /\ UNCHANGED <<poolVars, taskState, attempts, timers>>
          /\ resolveDrainWaitersIfIdle
       \/ /\ ~isDisposed
          /\ isAtCapacity
          /\ Settle(t, "rejected")
          /\ UNCHANGED <<poolVars, taskState, attempts, timers, callers>>
       \/ /\ ~isDisposed
          /\ ~isAtCapacity
          /\ UNCHANGED promiseVars
          /\ StartOrEnqueue(t, taskState)
    /\ UNCHANGED <<retryCount, statVars, isDisposed>>

\* The metrics collector drops the entries of tasks that ended long ago.
runGarbageCollection ==
    /\ ~isDisposed
    /\ \E old \in SUBSET {t \in tracked : taskState[t] \in {"COMPLETED", "FAILED"}} :
        /\ old # {}
        /\ tracked' = tracked \ old
    /\ UNCHANGED <<poolVars, taskVars, asyncVars, promiseVars, completedCount,
                   failedCount, callers, isDisposed>>

Next ==
    \/ \E t \in Tasks : Refuse(t) \/ schedule(t) \/ RetryTimerFires(t)
    \/ \E t \in Tasks, k \in 0..MaxRetries :
          AttemptSucceeds(t, k) \/ AttemptFails(t, k) \/ handleTaskTimeout(t, k)
    \/ \E c \in Callers : drain(c) \/ gracefulDispose(c) \/ GracefulResume(c)
    \/ dispose
    \/ clearMetrics
    \/ runGarbageCollection

Spec == Init /\ [][Next]_vars

\* The event loop runs every timer that stays armed and every microtask.  No
\* fairness is assumed of task functions: they may run for ever.
Fairness ==
    /\ \A t \in Tasks : WF_vars(RetryTimerFires(t))
    /\ \A t \in Tasks, k \in 0..MaxRetries : WF_vars(handleTaskTimeout(t, k))
    /\ \A c \in Callers : WF_vars(GracefulResume(c))

FairSpec == Spec /\ Fairness

-----------------------------------------------------------------------------
(* Properties *)

\* Every variable has its type; delayedRetryCount may fall below 0, because
\* dispose resets it while retry timers are still armed.
TypeOK ==
    /\ taskState \in [Tasks -> States]
    /\ retryCount \in [Tasks -> 0..MaxRetries]
    /\ queued \subseteq Tasks
    /\ arrival \in [Tasks -> Nat]
    /\ arrivals \in Nat
    /\ queuedCount \in Nat
    /\ activeTasks \subseteq Tasks
    /\ attempts \subseteq Attempts
    /\ timers \subseteq Attempts
    /\ retryTimers \subseteq Tasks
    /\ delayedRetryCount \in Int
    /\ settlement \in [Tasks -> {"none", "refused", "pending", "resolved", "rejected"}]
    /\ settleCalls \in [Tasks -> Nat]
    /\ callers \in [Callers -> {"idle", "draining", "drained", "retiring", "retirable", "retired"}]
    /\ isDisposed \in BOOLEAN
    /\ tracked \subseteq Tasks
    /\ completedCount \in Nat
    /\ failedCount \in Nat

\* The slots in use never exceed concurrencyLimit and the queues never hold
\* more than maxQueueSize tasks, whatever the order of timeouts, retries and
\* late continuations.
WithinLimits ==
    /\ Cardinality(activeTasks) <= ConcurrencyLimit
    /\ Cardinality(queued) <= MaxQueueSize

\* A task whose promise is pending is in exactly one of the active set, the
\* queues and the retry timers, and a task that is in one of them still has
\* its promise pending: no task is lost, none is executed after its end.
PendingIsSomewhere ==
    /\ \A t \in Tasks :
          settlement[t] = "pending" <=> t \in activeTasks \union queued \union retryTimers
    /\ activeTasks \intersect queued = {}
    /\ activeTasks \intersect retryTimers = {}
    /\ queued \intersect retryTimers = {}

\* resolve and reject are called at most once between them for each task,
\* also when an attempt ends after its timeout, after a retry or after dispose.
SettledOnce == \A t \in Tasks : settleCalls[t] <= 1

\* The metrics entry of a task that is settled can be collected: otherwise it
\* stays in taskMetrics until clearMetrics or dispose.
SettledIsCollectable ==
    \A t \in tracked :
        settlement[t] \in {"resolved", "rejected"} => taskState[t] \in {"COMPLETED", "FAILED"}

\* The counters that isAtCapacity and isIdle read agree with the queues and
\* with the armed retry timers as long as the scheduler is not disposed, and
\* the statistics agree with the tasks that ended; what is settled can be
\* collected.
CountersAgree ==
    /\ queuedCount = Cardinality(queued)
    /\ ~isDisposed => delayedRetryCount = Cardinality(retryTimers)
    /\ completedCount <= Cardinality({t \in Tasks : taskState[t] = "COMPLETED"})
    /\ failedCount <= Cardinality({t \in Tasks : taskState[t] = "FAILED"})
    /\ Cardinality({t \in tracked : taskState[t] = "COMPLETED"}) <= completedCount
    /\ Cardinality({t \in tracked : taskState[t] = "FAILED"}) <= failedCount
    /\ SettledIsCollectable

\* The timeout of the current attempt of every active task is armed and no
\* other one is: a retry never inherits the timer of an earlier attempt.
TimersOfActiveAttempts ==
    timers = {<<t, retryCount[t]>> : t \in activeTasks \intersect TimedTasks}

\* While a task is queued every slot is in use, but for the slots that tasks
\* waiting for a retry gave up, since handleTaskError does not refill those.
\* Without it a queued task can be stranded: nothing would start it.
FreeSlotsAreOwed ==
    ~isDisposed /\ queued # {} =>
        Cardinality(activeTasks) + Cardinality(retryTimers) >= ConcurrencyLimit

\* What the counters say is so, and no free slot is forgotten.
SlotsAccounted == CountersAgree /\ FreeSlotsAreOwed

\* A disposed scheduler holds no task, no timeout and no waiting caller; only
\* retry timers are left.
DisposedIsQuiet ==
    isDisposed =>
        /\ activeTasks = {} /\ queued = {} /\ timers = {}
        /\ \A c \in Callers : callers[c] \notin {"draining", "retiring"}

\* Whatever attempts end late, timers fire and drain and dispose are called:
\* every pending task is in one place, settled once, with the timers of its
\* current attempt, and after dispose nothing is left but retry timers.
TasksAccounted ==
    TypeOK /\ PendingIsSomewhere /\ SettledOnce /\ TimersOfActiveAttempts /\ DisposedIsQuiet

\* A task that starts leaves no task of a higher priority in the queues.  A
\* task of its own priority that was queued and stays so came after it: no
\* direct start and no retry overtakes it.
NoOvertaking ==
    [][\A t \in activeTasks' \ activeTasks, u \in queued' :
          /\ Priority[t] <= Priority[u]
          /\ Priority[t] = Priority[u] /\ u \in queued
                => t \in queued /\ arrival[t] < arrival[u]]_vars

\* When drain() returns on a scheduler that is not disposed, every task it
\* had accepted is settled.
DrainedMeansSettled ==
    [][\A c \in Callers :
          /\ callers[c] \in {"idle", "draining", "retiring"}
          /\ callers'[c] \in {"drained", "retirable"}
          /\ ~isDisposed'
          => \A t \in Tasks : settlement'[t] # "pending"]_vars

\* After dispose no attempt starts and no promise is resolved.
NothingStartsAfterDispose ==
    [][isDisposed =>
          /\ attempts' \subseteq attempts
          /\ \A t \in Tasks : settlement'[t] = "resolved" => settlement[t] = "resolved"]_vars

\* Every accepted task is settled in the end: by its function, its timeout,
\* its last retry or dispose.
AcceptedIsSettled ==
    \A t \in Tasks : settlement[t] = "pending" ~> settlement[t] # "pending"

\* Every caller of drain() or gracefulDispose() gets an answer.
CallersReturn ==
    \A c \in Callers :
        callers[c] \in {"draining", "retiring", "retirable"}
            ~> callers[c] \in {"drained", "retired"}
=============================================================================
