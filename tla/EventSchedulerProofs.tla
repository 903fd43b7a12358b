------------------------ MODULE EventSchedulerProofs ------------------------
(***************************************************************************)
(* Proofs about EventScheduler for every set of tasks and callers and all  *)
(* limits.  The inductive invariant IInv is the conjunction of the safety  *)
(* invariants with the facts they need about each other: the counters that *)
(* the guards read are the sizes of the sets, and the number of settlement *)
(* calls follows from the promise.  SInv adds what the metrics and the     *)
(* free slots need.                                                        *)
(***************************************************************************)
EXTENDS EventScheduler, FiniteSetTheorems, TLAPS

\* isAtCapacity and isIdle read the counters, the invariants speak of the sets.
QueueCounted == queuedCount = Cardinality(queued)
RetriesCounted == ~isDisposed => delayedRetryCount = Cardinality(retryTimers)

\* So an armed timeout always finds its task RUNNING.
ActiveIsRunning == \A t \in activeTasks : taskState[t] = "RUNNING"

\* One call of resolve or reject settles the promise.
CallsFitPromise ==
    \A t \in Tasks :
        settleCalls[t] = IF settlement[t] \in {"resolved", "rejected"} THEN 1 ELSE 0

\* A task ends as FAILED only when all its retries were used.
FailedAfterRetries ==
    \A t \in Tasks : taskState[t] = "FAILED" => retryCount[t] = MaxRetries

IInv ==
    /\ TypeOK
    /\ QueueCounted
    /\ RetriesCounted
    /\ WithinLimits
    /\ PendingIsSomewhere
    /\ ActiveIsRunning
    /\ CallsFitPromise
    /\ TimersOfActiveAttempts
    /\ FailedAfterRetries
    /\ DisposedIsQuiet

CallerStates == {"idle", "draining", "drained", "retiring", "retirable", "retired"}

\* What processQueue and StartOrEnqueue have in common: the tasks of S start.
Started(S, state, active, waiting, fns, armed) ==
    /\ queued' = waiting \ S
    /\ queuedCount' = Cardinality(queued')
    /\ Cardinality(queued') <= Cardinality(waiting)
    /\ activeTasks' = active \union S
    /\ Cardinality(activeTasks') <= ConcurrencyLimit
    /\ ExecuteTasks(S, state, fns, armed)
    /\ isDisposed => S = {}

-----------------------------------------------------------------------------

\* Tasks that start keep the types of the task states, attempts and timers.
LEMMA ExecuteTyped ==
    ASSUME TypeOK,
           NEW S \in SUBSET Tasks, NEW state \in [Tasks -> States],
           NEW fns \in SUBSET Attempts, NEW armed \in SUBSET Attempts,
           ExecuteTasks(S, state, fns, armed)
    PROVE  /\ taskState' \in [Tasks -> States]
           /\ attempts' \in SUBSET Attempts
           /\ timers' \in SUBSET Attempts
<1>1. {<<t, retryCount[t]>> : t \in S} \in SUBSET Attempts
  BY DEF TypeOK, Attempts
<1>2. taskState' \in [Tasks -> States]
  BY DEF ExecuteTasks, States
<1> QED
  BY <1>1, <1>2 DEF ExecuteTasks

\* resolveDrainWaiters keeps the type of the callers.
LEMMA ResolveTyped ==
    ASSUME TypeOK, resolveDrainWaiters \/ resolveDrainWaitersIfIdle
    PROVE  callers' \in [Callers -> CallerStates]
BY DEF TypeOK, resolveDrainWaiters, resolveDrainWaitersIfIdle, CallerStates

\* processQueue starts a set of waiting tasks within the limit and leaves the
\* counter equal to the number of tasks still queued.
LEMMA ProcessQueueStarts ==
    ASSUME TypeOK,
           NEW state, NEW fns, NEW armed,
           NEW active \in SUBSET Tasks, NEW waiting \in SUBSET Tasks,
           Cardinality(active) <= ConcurrencyLimit,
           processQueue(state, active, waiting, Cardinality(waiting), fns, armed)
    PROVE  /\ \E S \in SUBSET waiting : Started(S, state, active, waiting, fns, armed)
           /\ callers' \in [Callers -> CallerStates]
<1>1. PICK S \in SUBSET waiting :
          /\ S # {} => ~isDisposed /\ Cardinality(active \union S) <= ConcurrencyLimit
          /\ queued' = waiting \ S
          /\ queuedCount' = Cardinality(waiting) - Cardinality(S)
          /\ activeTasks' = active \union S
          /\ ExecuteTasks(S, state, fns, armed)
  BY DEF processQueue
<1>2. IsFiniteSet(waiting) /\ IsFiniteSet(S) /\ IsFiniteSet(waiting \ S)
  BY FS_Subset, TasksAssumption
<1>3. Cardinality(waiting \ S) = Cardinality(waiting) - Cardinality(S)
  <2>1. (waiting \ S) \union S = waiting /\ (waiting \ S) \intersect S = {}
    OBVIOUS
  <2>2. Cardinality(waiting) = Cardinality(waiting \ S) + Cardinality(S) - Cardinality({})
    BY <2>1, <1>2, FS_Union
  <2> QED
    BY <2>2, <1>2, FS_EmptySet, FS_CardinalityType
<1>4. Cardinality(waiting \ S) <= Cardinality(waiting)
  BY <1>2, FS_Subset
<1>5. Cardinality(active \union S) <= ConcurrencyLimit
  <2>1. CASE S = {}
    BY <2>1, active \union {} = active
  <2>2. CASE S # {}
    BY <2>2, <1>1
  <2> QED
    BY <2>1, <2>2
<1>6. Started(S, state, active, waiting, fns, armed)
  BY <1>1, <1>3, <1>4, <1>5 DEF Started
<1>7. callers' \in [Callers -> CallerStates]
  BY ResolveTyped DEF processQueue, TypeOK, CallerStates
<1> QED
  BY <1>6, <1>7

\* A task that is scheduled, or whose retry is due, starts or is queued; in
\* both cases the limits hold.
LEMMA StartOrEnqueueStarts ==
    ASSUME IInv, NEW t \in Tasks, NEW state,
           ~isDisposed, ~isAtCapacity, t \notin activeTasks, t \notin queued,
           StartOrEnqueue(t, state)
    PROVE  /\ \E S \in SUBSET (queued \union {t}) :
                  Started(S, state, activeTasks, queued \union {t}, attempts, timers)
           /\ Cardinality(queued \union {t}) <= MaxQueueSize
           /\ arrival' \in [Tasks -> Nat]
           /\ arrivals' \in Nat
           /\ callers' \in [Callers -> CallerStates]
<1>1. IsFiniteSet(queued) /\ IsFiniteSet(activeTasks)
  BY FS_Subset, TasksAssumption DEF IInv, TypeOK
<1>2. /\ Cardinality(queued \union {t}) = Cardinality(queued) + 1
      /\ Cardinality(activeTasks \union {t}) = Cardinality(activeTasks) + 1
  BY <1>1, FS_AddElement
<1>3. Cardinality(queued) \in Nat /\ Cardinality(activeTasks) \in Nat
  BY <1>1, FS_CardinalityType
<1>4. Cardinality(queued \union {t}) <= MaxQueueSize
  BY <1>2, <1>3, LimitsAssumption DEF isAtCapacity, IInv, QueueCounted
<1>5. CASE HasFreeSlot(activeTasks) /\ queuedCount = 0
  <2>1. queued = {}
    BY <1>5, <1>1, FS_EmptySet DEF IInv, QueueCounted
  <2>2. /\ activeTasks' = activeTasks \union {t}
        /\ queued' = {} /\ queuedCount' = 0
        /\ ExecuteTasks({t}, state, attempts, timers)
    BY <1>5, <2>1 DEF StartOrEnqueue
  <2>3. Cardinality(activeTasks') <= ConcurrencyLimit
    BY <1>2, <1>3, <1>5, <2>2, LimitsAssumption DEF HasFreeSlot
  <2>4. /\ queued' = (queued \union {t}) \ {t}
        /\ Cardinality(queued') = 0
    BY <2>1, <2>2, FS_EmptySet
  <2>5. Started({t}, state, activeTasks, queued \union {t}, attempts, timers)
    BY <1>2, <1>3, <2>2, <2>3, <2>4 DEF Started
  <2>6. UNCHANGED <<arrival, arrivals, callers>>
    BY <1>5 DEF StartOrEnqueue
  <2> QED
    BY <1>4, <2>5, <2>6 DEF IInv, TypeOK, CallerStates
<1>6. CASE ~(HasFreeSlot(activeTasks) /\ queuedCount = 0)
  <2>1. /\ enqueueTask(t)
        /\ processQueue(state, activeTasks, queued \union {t}, queuedCount + 1,
                        attempts, timers)
    BY <1>6 DEF StartOrEnqueue
  <2>2. queuedCount + 1 = Cardinality(queued \union {t})
    BY <1>2 DEF IInv, QueueCounted
  <2>3. arrival' \in [Tasks -> Nat] /\ arrivals' \in Nat
    BY <2>1 DEF enqueueTask, IInv, TypeOK
  <2>4. /\ activeTasks \in SUBSET Tasks /\ queued \union {t} \in SUBSET Tasks
        /\ Cardinality(activeTasks) <= ConcurrencyLimit /\ TypeOK
    BY DEF IInv, TypeOK, WithinLimits
  <2> QED
    BY <1>4, <2>1, <2>2, <2>3, <2>4, ProcessQueueStarts
<1> QED
  BY <1>5, <1>6

-----------------------------------------------------------------------------
(* Every action preserves the invariant *)

LEMMA InitIInv == Init => IInv
<1> SUFFICES ASSUME Init PROVE IInv
  OBVIOUS
<1>1. Cardinality({}) = 0
  BY FS_EmptySet
<1>2. TypeOK
  <2>1. retryCount \in [Tasks -> 0..MaxRetries]
    BY LimitsAssumption DEF Init
  <2>2. taskState \in [Tasks -> States]
    BY DEF Init, States
  <2>3. arrival \in [Tasks -> Nat] /\ settleCalls \in [Tasks -> Nat]
    BY DEF Init
  <2>4. settlement \in [Tasks -> {"none", "refused", "pending", "resolved", "rejected"}]
    BY DEF Init
  <2>5. callers \in [Callers -> CallerStates]
    BY DEF Init, CallerStates
  <2>6. arrivals \in Nat /\ queuedCount \in Nat /\ delayedRetryCount \in Int
        /\ completedCount \in Nat /\ failedCount \in Nat
    BY DEF Init
  <2> QED
    BY <2>1, <2>2, <2>3, <2>4, <2>5, <2>6 DEF Init, TypeOK, CallerStates
<1>3. QueueCounted /\ RetriesCounted /\ WithinLimits
  BY <1>1, LimitsAssumption DEF Init, QueueCounted, RetriesCounted, WithinLimits
<1>4. /\ PendingIsSomewhere /\ ActiveIsRunning /\ CallsFitPromise
      /\ FailedAfterRetries /\ DisposedIsQuiet
  BY DEF Init, PendingIsSomewhere, ActiveIsRunning, CallsFitPromise, FailedAfterRetries, DisposedIsQuiet
<1>5. TimersOfActiveAttempts
  BY DEF Init, TimersOfActiveAttempts
<1> QED
  BY <1>2, <1>3, <1>4, <1>5 DEF IInv

\* The timers fit the active tasks after tasks of S start: the tasks that
\* stay active are those of active, whose timers are armed.
LEMMA TimersAfterStart ==
    ASSUME NEW S \in SUBSET Tasks, NEW active \in SUBSET Tasks,
           NEW state, NEW fns, NEW waiting, NEW armed,
           armed = {<<t, retryCount[t]>> : t \in active \intersect TimedTasks},
           Started(S, state, active, waiting, fns, armed),
           UNCHANGED retryCount
    PROVE  TimersOfActiveAttempts'
<1>1. timers' = armed \union {a \in {<<t, retryCount[t]>> : t \in S} : a[1] \in TimedTasks}
  BY DEF Started, ExecuteTasks
<1>2. {a \in {<<t, retryCount[t]>> : t \in S} : a[1] \in TimedTasks}
        = {<<t, retryCount[t]>> : t \in S \intersect TimedTasks}
  OBVIOUS
<1>3. activeTasks' = active \union S
  BY DEF Started
<1> QED
  BY <1>1, <1>2, <1>3 DEF TimersOfActiveAttempts

\* The types of the variables that starting tasks does not touch.
RestTyped ==
    /\ retryCount \in [Tasks -> 0..MaxRetries]
    /\ arrival \in [Tasks -> Nat]
    /\ arrivals \in Nat
    /\ retryTimers \subseteq Tasks
    /\ delayedRetryCount \in Int
    /\ settlement \in [Tasks -> {"none", "refused", "pending", "resolved", "rejected"}]
    /\ settleCalls \in [Tasks -> Nat]
    /\ callers \in [Callers -> CallerStates]
    /\ isDisposed \in BOOLEAN
    /\ tracked \subseteq Tasks
    /\ completedCount \in Nat
    /\ failedCount \in Nat

\* A step that ends by starting tasks of waiting preserves the invariant when
\* active, waiting and the armed retry timers hold the pending tasks.
LEMMA StartedIInv ==
    ASSUME IInv, ~isDisposed, UNCHANGED <<isDisposed, retryCount>>,
           NEW active \in SUBSET Tasks, NEW waiting \in SUBSET Tasks,
           NEW S \in SUBSET waiting, NEW state \in [Tasks -> States],
           NEW fns \in SUBSET Attempts, NEW armed \in SUBSET Attempts,
           Started(S, state, active, waiting, fns, armed),
           active \intersect waiting = {},
           retryTimers' \intersect (active \union waiting) = {},
           \A u \in Tasks : settlement'[u] = "pending"
                             <=> u \in active \union waiting \union retryTimers',
           Cardinality(waiting) <= MaxQueueSize,
           armed = {<<u, retryCount[u]>> : u \in active \intersect TimedTasks},
           \A u \in Tasks : state[u] = "FAILED" => retryCount[u] = MaxRetries,
           \A u \in active : state[u] = "RUNNING",
           CallsFitPromise', RetriesCounted', RestTyped'
    PROVE  IInv'
<1>1. /\ queued' = waiting \ S
      /\ queuedCount' = Cardinality(queued')
      /\ Cardinality(queued') <= Cardinality(waiting)
      /\ activeTasks' = active \union S
      /\ Cardinality(activeTasks') <= ConcurrencyLimit
      /\ ExecuteTasks(S, state, fns, armed)
  BY DEF Started
<1>2. IsFiniteSet(waiting) /\ IsFiniteSet(queued')
  BY <1>1, FS_Subset, TasksAssumption
<1>3. Cardinality(waiting) \in Nat /\ Cardinality(queued') \in Nat
  BY <1>2, FS_CardinalityType
<1>4. TypeOK'
  <2>1. /\ taskState' \in [Tasks -> States]
        /\ attempts' \in SUBSET Attempts
        /\ timers' \in SUBSET Attempts
    BY <1>1, ExecuteTyped DEF IInv
  <2>2. queued' \subseteq Tasks /\ activeTasks' \subseteq Tasks /\ queuedCount' \in Nat
    BY <1>1, <1>3
  <2> QED
    BY <2>1, <2>2 DEF TypeOK, RestTyped, CallerStates
<1>5. QueueCounted'
  BY <1>1 DEF QueueCounted
<1>6. WithinLimits'
  BY <1>1, <1>3, LimitsAssumption DEF WithinLimits
<1>7. PendingIsSomewhere'
  BY <1>1 DEF PendingIsSomewhere
<1>8. TimersOfActiveAttempts'
  BY TimersAfterStart
<1>9. FailedAfterRetries'
  BY <1>1 DEF FailedAfterRetries, ExecuteTasks
<1>10. DisposedIsQuiet'
  BY DEF DisposedIsQuiet
<1>11. ActiveIsRunning'
  BY <1>1 DEF ActiveIsRunning, ExecuteTasks
<1> QED
  BY <1>4, <1>5, <1>6, <1>7, <1>8, <1>9, <1>10, <1>11 DEF IInv

LEMMA ScheduleIInv ==
    ASSUME IInv, NEW t \in Tasks, schedule(t)
    PROVE  IInv'
<1> DEFINE state == [taskState EXCEPT ![t] = "PENDING"]
<1>1. /\ settlement[t] = "none" /\ ~isDisposed /\ ~isAtCapacity
      /\ settlement' = [settlement EXCEPT ![t] = "pending"]
      /\ tracked' = IF EnableMetrics THEN tracked \union {t} ELSE tracked
      /\ UNCHANGED <<retryCount, retryTimers, delayedRetryCount, settleCalls,
                     completedCount, failedCount, isDisposed>>
      /\ StartOrEnqueue(t, state)
  BY DEF schedule
<1>2. TypeOK
  BY DEF IInv
<1>3. t \notin activeTasks /\ t \notin queued /\ t \notin retryTimers
  BY <1>1 DEF IInv, PendingIsSomewhere
<1>4. PICK S \in SUBSET (queued \union {t}) :
          Started(S, state, activeTasks, queued \union {t}, attempts, timers)
  BY <1>1, <1>3, StartOrEnqueueStarts
<1>5. /\ Cardinality(queued \union {t}) <= MaxQueueSize
      /\ arrival' \in [Tasks -> Nat] /\ arrivals' \in Nat
      /\ callers' \in [Callers -> CallerStates]
  BY <1>1, <1>3, StartOrEnqueueStarts
<1>6. state \in [Tasks -> States]
  BY <1>2 DEF TypeOK, States
<1>7. /\ \A u \in Tasks : settlement'[u] = "pending"
            <=> u \in activeTasks \union (queued \union {t}) \union retryTimers'
      /\ activeTasks \intersect (queued \union {t}) = {}
      /\ retryTimers' \intersect (activeTasks \union (queued \union {t})) = {}
  BY <1>1, <1>2, <1>3 DEF IInv, PendingIsSomewhere, TypeOK
<1>8. CallsFitPromise'
  BY <1>1, <1>2 DEF IInv, CallsFitPromise, TypeOK
<1>9. RetriesCounted'
  BY <1>1 DEF IInv, RetriesCounted
<1>10. \A u \in Tasks : state[u] = "FAILED" => retryCount[u] = MaxRetries
  BY <1>2 DEF IInv, FailedAfterRetries, TypeOK
<1>11. RestTyped'
  BY <1>1, <1>2, <1>5 DEF TypeOK, RestTyped
<1>12. timers = {<<u, retryCount[u]>> : u \in activeTasks \intersect TimedTasks}
  BY DEF IInv, TimersOfActiveAttempts
<1>13. /\ activeTasks \in SUBSET Tasks /\ queued \union {t} \in SUBSET Tasks
       /\ attempts \in SUBSET Attempts /\ timers \in SUBSET Attempts
  BY <1>2 DEF TypeOK
<1>14. \A u \in activeTasks : state[u] = "RUNNING"
  BY <1>2, <1>3 DEF IInv, ActiveIsRunning, TypeOK
<1> HIDE DEF state
<1> QED
  BY <1>1, <1>4, <1>5, <1>6, <1>7, <1>8, <1>9, <1>10, <1>11, <1>12, <1>13, <1>14, StartedIInv

\* Facts about a task that a handler accepts, and about the timers that stay.
LEMMA AcceptedTask ==
    ASSUME IInv, NEW t \in Tasks, Accepts(t)
    PROVE  /\ ~isDisposed /\ t \in activeTasks /\ settlement[t] = "pending"
           /\ settleCalls[t] = 0
           /\ t \notin queued /\ t \notin retryTimers
           /\ ClearTimer(t)
                 = {<<u, retryCount[u]>> : u \in (activeTasks \ {t}) \intersect TimedTasks}
           /\ ClearTimer(t) \in SUBSET Attempts
           /\ Cardinality(activeTasks \ {t}) <= ConcurrencyLimit
<1>1. t \in activeTasks /\ ~isDisposed
  BY DEF Accepts, IInv, DisposedIsQuiet
<1>2. settlement[t] = "pending" /\ t \notin queued /\ t \notin retryTimers
  BY <1>1 DEF IInv, PendingIsSomewhere
<1>3. settleCalls[t] = 0
  BY <1>2 DEF IInv, CallsFitPromise
<1>4. ClearTimer(t)
         = {<<u, retryCount[u]>> : u \in (activeTasks \ {t}) \intersect TimedTasks}
  BY DEF IInv, TimersOfActiveAttempts, ClearTimer
<1>5. ClearTimer(t) \in SUBSET Attempts
  BY DEF IInv, TypeOK, ClearTimer
<1>6. IsFiniteSet(activeTasks)
  BY FS_Subset, TasksAssumption DEF IInv, TypeOK
<1>7. Cardinality(activeTasks \ {t}) <= Cardinality(activeTasks)
  BY <1>6, FS_Subset
<1>8. Cardinality(activeTasks \ {t}) \in Nat /\ Cardinality(activeTasks) \in Nat
  BY <1>6, FS_Subset, FS_CardinalityType
<1>9. Cardinality(activeTasks \ {t}) <= ConcurrencyLimit
  BY <1>7, <1>8, LimitsAssumption DEF IInv, WithinLimits
<1> QED
  BY <1>1, <1>2, <1>3, <1>4, <1>5, <1>9

\* The end of a task, by success or by its last failure: the promise is
\* settled, the slot is freed and processQueue refills it.
LEMMA SettledStepIInv ==
    ASSUME IInv, NEW t \in Tasks, Accepts(t),
           NEW outcome \in {"resolved", "rejected"},
           NEW state \in [Tasks -> States], NEW fns \in SUBSET Attempts,
           \A u \in Tasks : state[u] = "FAILED" => retryCount[u] = MaxRetries,
           \A u \in activeTasks \ {t} : state[u] = "RUNNING",
           Settle(t, outcome),
           completedCount' \in Nat, failedCount' \in Nat,
           UNCHANGED <<arrival, arrivals, delayedRetryCount, retryCount, retryTimers,
                       tracked, isDisposed>>,
           processQueue(state, activeTasks \ {t}, queued, queuedCount, fns, ClearTimer(t))
    PROVE  IInv'
<1>1. TypeOK /\ queuedCount = Cardinality(queued)
  BY DEF IInv, QueueCounted
<1>2. /\ ~isDisposed /\ t \in activeTasks /\ settlement[t] = "pending"
      /\ settleCalls[t] = 0 /\ t \notin queued /\ t \notin retryTimers
      /\ ClearTimer(t)
            = {<<u, retryCount[u]>> : u \in (activeTasks \ {t}) \intersect TimedTasks}
      /\ ClearTimer(t) \in SUBSET Attempts
      /\ Cardinality(activeTasks \ {t}) <= ConcurrencyLimit
  BY AcceptedTask
<1>3. activeTasks \ {t} \in SUBSET Tasks /\ queued \in SUBSET Tasks
  BY <1>1 DEF TypeOK
<1>4. /\ \E S \in SUBSET queued :
            Started(S, state, activeTasks \ {t}, queued, fns, ClearTimer(t))
      /\ callers' \in [Callers -> CallerStates]
  BY <1>1, <1>2, <1>3, ProcessQueueStarts
<1>5. PICK S \in SUBSET queued :
          Started(S, state, activeTasks \ {t}, queued, fns, ClearTimer(t))
  BY <1>4
<1>6. /\ settlement' = [settlement EXCEPT ![t] = outcome]
      /\ settleCalls' = [settleCalls EXCEPT ![t] = 1]
  BY <1>1, <1>2 DEF Settle, Settled, TypeOK
<1>7. /\ \A u \in Tasks : settlement'[u] = "pending"
            <=> u \in (activeTasks \ {t}) \union queued \union retryTimers'
      /\ (activeTasks \ {t}) \intersect queued = {}
      /\ retryTimers' \intersect ((activeTasks \ {t}) \union queued) = {}
  BY <1>1, <1>2, <1>6 DEF IInv, PendingIsSomewhere, TypeOK
<1>8. CallsFitPromise'
  BY <1>1, <1>6 DEF IInv, CallsFitPromise, TypeOK
<1>9. RetriesCounted'
  BY DEF IInv, RetriesCounted
<1>10. RestTyped'
  BY <1>1, <1>4, <1>6 DEF TypeOK, RestTyped
<1>11. Cardinality(queued) <= MaxQueueSize
  BY DEF IInv, WithinLimits
<1> QED
  BY <1>2, <1>3, <1>5, <1>7, <1>8, <1>9, <1>10, <1>11, StartedIInv

LEMMA handleTaskSuccessIInv ==
    ASSUME IInv, NEW t \in Tasks, NEW fns \in SUBSET Attempts,
           Accepts(t), handleTaskSuccess(t, fns)
    PROVE  IInv'
<1> DEFINE state == [taskState EXCEPT ![t] = "COMPLETED"]
<1>1. TypeOK
  BY DEF IInv
<1>2. state \in [Tasks -> States]
  BY <1>1 DEF TypeOK, States
<1>3. \A u \in Tasks : state[u] = "FAILED" => retryCount[u] = MaxRetries
  BY <1>1 DEF IInv, FailedAfterRetries, TypeOK
<1>4. /\ Settle(t, "resolved")
      /\ completedCount' \in Nat /\ failedCount' \in Nat
      /\ UNCHANGED <<arrival, arrivals, delayedRetryCount, retryCount, retryTimers,
                     tracked, isDisposed>>
      /\ processQueue(state, activeTasks \ {t}, queued, queuedCount, fns, ClearTimer(t))
  BY <1>1 DEF handleTaskSuccess, TypeOK
<1>5. \A u \in activeTasks \ {t} : state[u] = "RUNNING"
  BY <1>1 DEF IInv, ActiveIsRunning, TypeOK
<1> HIDE DEF state
<1> QED
  BY <1>2, <1>3, <1>4, <1>5, SettledStepIInv

LEMMA FailForGoodIInv ==
    ASSUME IInv, NEW t \in Tasks, NEW fns \in SUBSET Attempts,
           Accepts(t), FailForGood(t, fns)
    PROVE  IInv'
<1> DEFINE state == [taskState EXCEPT ![t] = "FAILED"]
<1>1. TypeOK
  BY DEF IInv
<1>2. state \in [Tasks -> States]
  BY <1>1 DEF TypeOK, States
<1>3. retryCount[t] = MaxRetries
  BY <1>1, LimitsAssumption DEF TypeOK, FailForGood, RetriesLeft
<1>4. \A u \in Tasks : state[u] = "FAILED" => retryCount[u] = MaxRetries
  BY <1>1, <1>3 DEF IInv, FailedAfterRetries, TypeOK
<1>5. /\ Settle(t, "rejected")
      /\ completedCount' \in Nat /\ failedCount' \in Nat
      /\ UNCHANGED <<arrival, arrivals, delayedRetryCount, retryCount, retryTimers,
                     tracked, isDisposed>>
      /\ processQueue(state, activeTasks \ {t}, queued, queuedCount, fns, ClearTimer(t))
  BY <1>1 DEF FailForGood, TypeOK
<1>6. \A u \in activeTasks \ {t} : state[u] = "RUNNING"
  BY <1>1 DEF IInv, ActiveIsRunning, TypeOK
<1> HIDE DEF state
<1> QED
  BY <1>2, <1>4, <1>5, <1>6, SettledStepIInv

LEMMA RetryLaterIInv ==
    ASSUME IInv, NEW t \in Tasks, NEW fns \in SUBSET Attempts,
           Accepts(t), RetryLater(t, fns)
    PROVE  IInv'
<1>1. TypeOK
  BY DEF IInv
<1>2. /\ ~isDisposed /\ t \in activeTasks /\ settlement[t] = "pending"
      /\ t \notin queued /\ t \notin retryTimers
      /\ ClearTimer(t)
            = {<<u, retryCount[u]>> : u \in (activeTasks \ {t}) \intersect TimedTasks}
      /\ ClearTimer(t) \in SUBSET Attempts
      /\ Cardinality(activeTasks \ {t}) <= ConcurrencyLimit
  BY AcceptedTask
<1>3. /\ timers' = ClearTimer(t)
      /\ activeTasks' = activeTasks \ {t}
      /\ retryCount' = [retryCount EXCEPT ![t] = @ + 1]
      /\ taskState' = [taskState EXCEPT ![t] = "PENDING"]
      /\ delayedRetryCount' = delayedRetryCount + 1
      /\ retryTimers' = retryTimers \union {t}
      /\ attempts' = fns
      /\ UNCHANGED <<queued, arrival, arrivals, queuedCount, promiseVars, statVars,
                     callers, isDisposed>>
  BY DEF RetryLater
<1>4. retryCount' \in [Tasks -> 0..MaxRetries]
  BY <1>1, <1>3, LimitsAssumption DEF RetryLater, RetriesLeft, TypeOK
<1>5. TypeOK'
  BY <1>1, <1>2, <1>3, <1>4 DEF TypeOK, States, promiseVars, statVars
<1>6. QueueCounted' /\ CallsFitPromise' /\ DisposedIsQuiet'
  BY <1>2, <1>3 DEF IInv, QueueCounted, CallsFitPromise, DisposedIsQuiet, promiseVars
<1>7. RetriesCounted'
  <2>1. IsFiniteSet(retryTimers)
    BY <1>1, FS_Subset, TasksAssumption DEF TypeOK
  <2>2. Cardinality(retryTimers \union {t}) = Cardinality(retryTimers) + 1
    BY <1>2, <2>1, FS_AddElement
  <2> QED
    BY <1>2, <1>3, <2>2 DEF IInv, RetriesCounted
<1>8. WithinLimits'
  BY <1>2, <1>3 DEF IInv, WithinLimits
<1>9. PendingIsSomewhere'
  BY <1>1, <1>2, <1>3 DEF IInv, PendingIsSomewhere, promiseVars
<1>10. TimersOfActiveAttempts'
  <2>1. \A u \in activeTasks \ {t} : retryCount'[u] = retryCount[u]
    BY <1>1, <1>3 DEF TypeOK
  <2> QED
    BY <1>2, <1>3, <2>1 DEF TimersOfActiveAttempts
<1>11. FailedAfterRetries' /\ ActiveIsRunning'
  BY <1>1, <1>3 DEF IInv, FailedAfterRetries, ActiveIsRunning, TypeOK
<1> QED
  BY <1>5, <1>6, <1>7, <1>8, <1>9, <1>10, <1>11 DEF IInv

LEMMA handleTaskErrorIInv ==
    ASSUME IInv, NEW t \in Tasks, NEW fns \in SUBSET Attempts,
           Accepts(t), handleTaskError(t, fns)
    PROVE  IInv'
BY RetryLaterIInv, FailForGoodIInv DEF handleTaskError

\* Steps that leave the pool, the tasks and their promises alone preserve the
\* invariant if they keep the types and give a disposed scheduler no waiter.
LEMMA QuietIInv ==
    ASSUME IInv,
           UNCHANGED <<poolVars, taskVars, timers, retryTimers, delayedRetryCount,
                       promiseVars, isDisposed>>,
           attempts' \in SUBSET Attempts,
           callers' \in [Callers -> CallerStates],
           isDisposed => \A c \in Callers : callers'[c] \notin {"draining", "retiring"},
           tracked' \in SUBSET Tasks, completedCount' \in Nat, failedCount' \in Nat
    PROVE  IInv'
<1> USE DEF IInv, poolVars, taskVars, promiseVars
<1>1. TypeOK'
  BY DEF TypeOK, CallerStates
<1>2. QueueCounted' /\ RetriesCounted' /\ WithinLimits'
  BY DEF QueueCounted, RetriesCounted, WithinLimits
<1>3. PendingIsSomewhere' /\ ActiveIsRunning' /\ CallsFitPromise' /\ FailedAfterRetries'
  BY DEF PendingIsSomewhere, ActiveIsRunning, CallsFitPromise, FailedAfterRetries
<1>4. TimersOfActiveAttempts'
  BY DEF TimersOfActiveAttempts
<1>5. DisposedIsQuiet'
  BY DEF DisposedIsQuiet
<1> QED
  BY <1>1, <1>2, <1>3, <1>4, <1>5

\* The end of an attempt, whatever its task is doing by then.
LEMMA AttemptEndsIInv ==
    ASSUME IInv, NEW t \in Tasks, NEW k \in 0..MaxRetries,
           AttemptSucceeds(t, k) \/ AttemptFails(t, k)
    PROVE  IInv'
<1>1. attempts \ {<<t, k>>} \in SUBSET Attempts
  BY DEF IInv, TypeOK
<1>2. CASE Accepts(t) /\ handleTaskSuccess(t, attempts \ {<<t, k>>})
  BY <1>1, <1>2, handleTaskSuccessIInv
<1>3. CASE Accepts(t) /\ handleTaskError(t, attempts \ {<<t, k>>})
  BY <1>1, <1>3, handleTaskErrorIInv
<1>4. CASE Ignored(t, k)
  BY <1>1, <1>4, QuietIInv DEF Ignored, IInv, TypeOK, DisposedIsQuiet, CallerStates, statVars
<1> QED
  BY <1>2, <1>3, <1>4 DEF AttemptSucceeds, AttemptFails

\* An armed timer belongs to an active task, so no timeout comes too late.
LEMMA handleTaskTimeoutIInv ==
    ASSUME IInv, NEW t \in Tasks, NEW k \in 0..MaxRetries, handleTaskTimeout(t, k)
    PROVE  IInv'
<1>1. attempts \in SUBSET Attempts
  BY DEF IInv, TypeOK
<1>2. t \in activeTasks
  BY DEF handleTaskTimeout, IInv, TimersOfActiveAttempts
<1>3. Accepts(t)
  BY <1>2 DEF Accepts, IInv, ActiveIsRunning
<1> QED
  BY <1>1, <1>3, handleTaskErrorIInv DEF handleTaskTimeout

\* The retry timer settles the promise, when the scheduler is disposed or the
\* queues are full, or it starts or queues the task again.
LEMMA RetryTimerFiresIInv ==
    ASSUME IInv, NEW t \in Tasks, RetryTimerFires(t)
    PROVE  IInv'
<1>1. TypeOK
  BY DEF IInv
<1>2. /\ t \in retryTimers
      /\ retryTimers' = retryTimers \ {t}
      /\ delayedRetryCount' = delayedRetryCount - 1
      /\ UNCHANGED <<retryCount, statVars, isDisposed>>
  BY DEF RetryTimerFires
<1>3. settlement[t] = "pending" /\ t \notin activeTasks /\ t \notin queued
  BY <1>2 DEF IInv, PendingIsSomewhere
<1>4. RetriesCounted'
  <2>1. IsFiniteSet(retryTimers)
    BY <1>1, FS_Subset, TasksAssumption DEF TypeOK
  <2>2. Cardinality(retryTimers \ {t}) = Cardinality(retryTimers) - 1
    BY <1>2, <2>1, FS_RemoveElement
  <2> QED
    BY <1>2, <2>2 DEF IInv, RetriesCounted
<1>5. CASE isDisposed \/ isAtCapacity
  <2>1. /\ Settle(t, "rejected")
        /\ UNCHANGED <<poolVars, taskState, attempts, timers>>
        /\ UNCHANGED callers \/ (isDisposed /\ resolveDrainWaitersIfIdle)
    BY <1>5 DEF RetryTimerFires
  <2>2. callers' \in [Callers -> CallerStates]
    BY <1>1, <2>1, ResolveTyped DEF TypeOK, CallerStates
  <2>3. isDisposed => \A c \in Callers : callers'[c] \notin {"draining", "retiring"}
    BY <1>1, <2>1 DEF IInv, DisposedIsQuiet, resolveDrainWaitersIfIdle, resolveDrainWaiters, TypeOK
  <2>4. /\ settlement' = [settlement EXCEPT ![t] = "rejected"]
        /\ settleCalls' = [settleCalls EXCEPT ![t] = 1]
    <3>1. settleCalls[t] = 0
      BY <1>2, <1>3 DEF IInv, CallsFitPromise
    <3> QED
      BY <1>1, <1>3, <2>1, <3>1 DEF Settle, Settled, TypeOK
  <2>5. TypeOK'
    BY <1>1, <1>2, <2>1, <2>2, <2>4 DEF TypeOK, CallerStates, poolVars, statVars
  <2>6. QueueCounted' /\ WithinLimits' /\ ActiveIsRunning' /\ FailedAfterRetries'
    BY <1>2, <2>1 DEF IInv, QueueCounted, WithinLimits, ActiveIsRunning,
                      FailedAfterRetries, poolVars
  <2>7. PendingIsSomewhere' /\ CallsFitPromise'
    BY <1>1, <1>2, <1>3, <2>1, <2>4
       DEF IInv, PendingIsSomewhere, CallsFitPromise, poolVars, TypeOK
  <2>8. TimersOfActiveAttempts' /\ DisposedIsQuiet'
    BY <1>2, <2>1, <2>3 DEF IInv, TimersOfActiveAttempts, DisposedIsQuiet, poolVars
  <2> QED
    BY <1>4, <2>5, <2>6, <2>7, <2>8 DEF IInv
<1>6. CASE ~isDisposed /\ ~isAtCapacity
  <2>1. StartOrEnqueue(t, taskState) /\ UNCHANGED promiseVars
    BY <1>6 DEF RetryTimerFires
  <2>2. PICK S \in SUBSET (queued \union {t}) :
            Started(S, taskState, activeTasks, queued \union {t}, attempts, timers)
    BY <1>3, <1>6, <2>1, StartOrEnqueueStarts
  <2>3. /\ Cardinality(queued \union {t}) <= MaxQueueSize
        /\ arrival' \in [Tasks -> Nat] /\ arrivals' \in Nat
        /\ callers' \in [Callers -> CallerStates]
    BY <1>3, <1>6, <2>1, StartOrEnqueueStarts
  <2>4. /\ \A u \in Tasks : settlement'[u] = "pending"
              <=> u \in activeTasks \union (queued \union {t}) \union retryTimers'
        /\ activeTasks \intersect (queued \union {t}) = {}
        /\ retryTimers' \intersect (activeTasks \union (queued \union {t})) = {}
    BY <1>2, <1>3, <2>1 DEF IInv, PendingIsSomewhere, promiseVars
  <2>5. CallsFitPromise'
    BY <2>1 DEF IInv, CallsFitPromise, promiseVars
  <2>6. RestTyped'
    BY <1>1, <1>2, <2>1, <2>3 DEF TypeOK, RestTyped, promiseVars, statVars
  <2>7. /\ timers = {<<u, retryCount[u]>> : u \in activeTasks \intersect TimedTasks}
        /\ \A u \in Tasks : taskState[u] = "FAILED" => retryCount[u] = MaxRetries
        /\ \A u \in activeTasks : taskState[u] = "RUNNING"
    BY DEF IInv, TimersOfActiveAttempts, FailedAfterRetries, ActiveIsRunning
  <2>8. /\ activeTasks \in SUBSET Tasks /\ queued \union {t} \in SUBSET Tasks
        /\ attempts \in SUBSET Attempts /\ timers \in SUBSET Attempts
        /\ taskState \in [Tasks -> States]
    BY <1>1 DEF TypeOK
  <2> QED
    BY <1>2, <1>4, <1>6, <2>2, <2>3, <2>4, <2>5, <2>6, <2>7, <2>8, StartedIInv
<1> QED
  BY <1>5, <1>6

\* dispose rejects what is active or queued and leaves the retry timers, whose
\* tasks are the only ones still pending.
LEMMA DisposeIInv ==
    ASSUME IInv, ~isDisposed, DisposeEffect,
           callers' \in [Callers -> CallerStates],
           \A c \in Callers : callers'[c] \notin {"draining", "retiring"}
    PROVE  IInv'
<1> DEFINE cancelled == activeTasks \union queued
<1>1. TypeOK
  BY DEF IInv
<1>2. /\ isDisposed' = TRUE
      /\ taskState' = [t \in Tasks |->
                          IF t \in cancelled THEN "CANCELLED" ELSE taskState[t]]
      /\ timers' = timers \ {<<t, retryCount[t]>> : t \in activeTasks}
      /\ settlement' = [t \in Tasks |->
                          IF t \in cancelled /\ settlement[t] = "pending"
                          THEN "rejected" ELSE settlement[t]]
      /\ settleCalls' = [t \in Tasks |->
                          IF t \in cancelled THEN settleCalls[t] + 1 ELSE settleCalls[t]]
      /\ queued' = {} /\ queuedCount' = 0 /\ delayedRetryCount' = 0
      /\ activeTasks' = {} /\ tracked' = {}
      /\ UNCHANGED <<arrival, arrivals, retryCount, attempts, retryTimers,
                     completedCount, failedCount>>
  BY DEF DisposeEffect
<1>3. \A t \in cancelled : t \in Tasks /\ settlement[t] = "pending" /\ settleCalls[t] = 0
  <2>1. \A t \in cancelled : t \in Tasks /\ settlement[t] = "pending"
    BY <1>1 DEF IInv, PendingIsSomewhere, TypeOK
  <2> QED
    BY <2>1 DEF IInv, CallsFitPromise
<1>4. TypeOK'
  <2>1. taskState' \in [Tasks -> States]
    BY <1>1, <1>2 DEF TypeOK, States
  <2>2. settlement' \in [Tasks -> {"none", "refused", "pending", "resolved", "rejected"}]
    BY <1>1, <1>2 DEF TypeOK
  <2>3. settleCalls' \in [Tasks -> Nat]
    BY <1>1, <1>2 DEF TypeOK
  <2>4. timers' \subseteq Attempts
    BY <1>1, <1>2 DEF TypeOK
  <2> QED
    BY <1>1, <1>2, <2>1, <2>2, <2>3, <2>4 DEF TypeOK, CallerStates
<1>5. QueueCounted' /\ RetriesCounted' /\ WithinLimits'
  BY <1>2, FS_EmptySet, LimitsAssumption DEF QueueCounted, RetriesCounted, WithinLimits
<1>6. PendingIsSomewhere'
  BY <1>2, <1>3 DEF IInv, PendingIsSomewhere
<1>7. CallsFitPromise'
  BY <1>1, <1>2, <1>3 DEF IInv, CallsFitPromise, TypeOK
<1>8. ActiveIsRunning' /\ FailedAfterRetries'
  BY <1>2 DEF IInv, ActiveIsRunning, FailedAfterRetries
<1>9. timers' = {}
  BY <1>2 DEF IInv, TimersOfActiveAttempts
<1>10. TimersOfActiveAttempts' /\ DisposedIsQuiet'
  BY <1>2, <1>9 DEF TimersOfActiveAttempts, DisposedIsQuiet
<1> QED
  BY <1>4, <1>5, <1>6, <1>7, <1>8, <1>10 DEF IInv

LEMMA CallersIInv ==
    ASSUME IInv, NEW c \in Callers,
           drain(c) \/ gracefulDispose(c) \/ GracefulResume(c)
    PROVE  IInv'
<1>1. TypeOK /\ DisposedIsQuiet
  BY DEF IInv
<1>2. CASE drain(c) \/ gracefulDispose(c)
  <2>1. callers' \in [Callers -> CallerStates]
    BY <1>1, <1>2 DEF drain, gracefulDispose, TypeOK, CallerStates
  <2>2. isDisposed => \A d \in Callers : callers'[d] \notin {"draining", "retiring"}
    BY <1>1, <1>2 DEF drain, gracefulDispose, TypeOK, DisposedIsQuiet
  <2>3. /\ UNCHANGED <<poolVars, taskVars, timers, retryTimers, delayedRetryCount,
                       promiseVars, isDisposed>>
        /\ attempts' \in SUBSET Attempts /\ tracked' \in SUBSET Tasks
        /\ completedCount' \in Nat /\ failedCount' \in Nat
    BY <1>1, <1>2 DEF drain, gracefulDispose, TypeOK, asyncVars, statVars
  <2> QED
    BY <2>1, <2>2, <2>3, QuietIInv
<1>3. CASE GracefulResume(c) /\ isDisposed
  <2>1. /\ callers' = [callers EXCEPT ![c] = "retired"]
        /\ UNCHANGED <<poolVars, taskVars, asyncVars, promiseVars, statVars, isDisposed>>
    BY <1>3 DEF GracefulResume
  <2>2. callers' \in [Callers -> CallerStates]
    BY <1>1, <2>1 DEF TypeOK, CallerStates
  <2>3. \A d \in Callers : callers'[d] \notin {"draining", "retiring"}
    BY <1>1, <1>3, <2>1 DEF TypeOK, DisposedIsQuiet
  <2>4. /\ UNCHANGED <<poolVars, taskVars, timers, retryTimers, delayedRetryCount,
                       promiseVars, isDisposed>>
        /\ attempts' \in SUBSET Attempts /\ tracked' \in SUBSET Tasks
        /\ completedCount' \in Nat /\ failedCount' \in Nat
    BY <1>1, <2>1 DEF TypeOK, asyncVars, statVars
  <2> QED
    BY <2>2, <2>3, <2>4, QuietIInv
<1>4. CASE GracefulResume(c) /\ ~isDisposed
  <2>1. DisposeEffect
    BY <1>4 DEF GracefulResume
  <2>2. callers' = [d \in Callers |->
                      CASE d = c -> "retired"
                        [] callers[d] = "draining" -> "drained"
                        [] callers[d] = "retiring" -> "retirable"
                        [] OTHER -> callers[d]]
    BY <1>4 DEF GracefulResume
  <2>3. /\ callers' \in [Callers -> CallerStates]
        /\ \A d \in Callers : callers'[d] \notin {"draining", "retiring"}
    BY <1>1, <2>2, Zenon DEF TypeOK, CallerStates
  <2> QED
    BY <1>4, <2>1, <2>3, DisposeIInv
<1> QED
  BY <1>2, <1>3, <1>4

LEMMA RefuseIInv ==
    ASSUME IInv, NEW t \in Tasks, Refuse(t)
    PROVE  IInv'
<1>1. TypeOK
  BY DEF IInv
<1>2. /\ settlement[t] = "none"
      /\ settlement' = [settlement EXCEPT ![t] = "refused"]
      /\ UNCHANGED <<poolVars, taskVars, asyncVars, statVars, settleCalls, callers, isDisposed>>
  BY DEF Refuse
<1> USE <1>2 DEF poolVars, taskVars, asyncVars, statVars
<1>3. TypeOK'
  BY <1>1 DEF TypeOK
<1>4. QueueCounted' /\ RetriesCounted' /\ WithinLimits' /\ DisposedIsQuiet'
  BY DEF IInv, QueueCounted, RetriesCounted, WithinLimits, DisposedIsQuiet
<1>5. PendingIsSomewhere' /\ CallsFitPromise'
  BY <1>1 DEF IInv, PendingIsSomewhere, CallsFitPromise, TypeOK
<1>6. ActiveIsRunning' /\ FailedAfterRetries' /\ TimersOfActiveAttempts'
  BY DEF IInv, ActiveIsRunning, FailedAfterRetries, TimersOfActiveAttempts
<1> QED
  BY <1>3, <1>4, <1>5, <1>6 DEF IInv

LEMMA MetricsIInv ==
    ASSUME IInv, clearMetrics \/ runGarbageCollection
    PROVE  IInv'
<1>1. TypeOK /\ DisposedIsQuiet
  BY DEF IInv
<1>2. /\ UNCHANGED <<poolVars, taskVars, timers, retryTimers, delayedRetryCount,
                     promiseVars, isDisposed, attempts, callers>>
      /\ tracked' \in SUBSET Tasks /\ completedCount' \in Nat /\ failedCount' \in Nat
  BY <1>1 DEF clearMetrics, runGarbageCollection, TypeOK, asyncVars
<1> QED
  BY <1>1, <1>2, QuietIInv DEF TypeOK, DisposedIsQuiet, CallerStates

LEMMA StutterIInv == IInv /\ UNCHANGED vars => IInv'
<1> SUFFICES ASSUME IInv, UNCHANGED vars PROVE IInv'
  OBVIOUS
<1> QED
  BY QuietIInv DEF vars, asyncVars, statVars, IInv, TypeOK, DisposedIsQuiet, CallerStates

\* The invariant is inductive.
THEOREM NextIInv == IInv /\ [Next]_vars => IInv'
<1> SUFFICES ASSUME IInv, [Next]_vars PROVE IInv'
  OBVIOUS
<1>1. CASE \E t \in Tasks : Refuse(t) \/ schedule(t) \/ RetryTimerFires(t)
  BY <1>1, RefuseIInv, ScheduleIInv, RetryTimerFiresIInv
<1>2. CASE \E t \in Tasks, k \in 0..MaxRetries :
            AttemptSucceeds(t, k) \/ AttemptFails(t, k) \/ handleTaskTimeout(t, k)
  BY <1>2, AttemptEndsIInv, handleTaskTimeoutIInv
<1>3. CASE \E c \in Callers : drain(c) \/ gracefulDispose(c) \/ GracefulResume(c)
  BY <1>3, CallersIInv
<1>4. CASE dispose
  BY <1>4, ResolveTyped, DisposeIInv DEF dispose, resolveDrainWaiters, IInv
<1>5. CASE clearMetrics \/ runGarbageCollection
  BY <1>5, MetricsIInv
<1>6. CASE UNCHANGED vars
  BY <1>6, StutterIInv
<1> QED
  BY <1>1, <1>2, <1>3, <1>4, <1>5, <1>6 DEF Next

THEOREM SpecIInv == Spec => []IInv
BY InitIInv, NextIInv, PTL DEF Spec

-----------------------------------------------------------------------------
(* The theorems a reader should know of *)

\* Every variable keeps its type.
THEOREM TypeCorrect == Spec => []TypeOK
<1>1. IInv => TypeOK
  BY DEF IInv
<1> QED
  BY <1>1, SpecIInv, PTL

\* No task is lost and none is executed after its end, for any number of tasks
\* and retries and whatever the order of timers and continuations.
THEOREM NoTaskIsLost == Spec => []PendingIsSomewhere
<1>1. IInv => PendingIsSomewhere
  BY DEF IInv
<1> QED
  BY <1>1, SpecIInv, PTL

\* concurrencyLimit bounds the active tasks and maxQueueSize the queued ones.
THEOREM LimitsHold == Spec => []WithinLimits
<1>1. IInv => WithinLimits
  BY DEF IInv
<1> QED
  BY <1>1, SpecIInv, PTL

\* No promise is settled twice.
THEOREM NoDoubleSettlement == Spec => []SettledOnce
<1>1. IInv => SettledOnce
  BY DEF IInv, CallsFitPromise, SettledOnce
<1> QED
  BY <1>1, SpecIInv, PTL

\* A disposed scheduler holds no task, no timeout and no waiting caller.
THEOREM DisposeIsFinal == Spec => []DisposedIsQuiet
<1>1. IInv => DisposedIsQuiet
  BY DEF IInv
<1> QED
  BY <1>1, SpecIInv, PTL

\* The timeouts that are armed are those of the attempts in the active set.
THEOREM NoStaleTimeout == Spec => []TimersOfActiveAttempts
<1>1. IInv => TimersOfActiveAttempts
  BY DEF IInv
<1> QED
  BY <1>1, SpecIInv, PTL

\* All of it together: the tasks are accounted for.
THEOREM TasksStayAccounted == Spec => []TasksAccounted
BY TypeCorrect, NoTaskIsLost, NoDoubleSettlement, DisposeIsFinal, NoStaleTimeout, PTL
   DEF TasksAccounted

\* A caller of drain or gracefulDispose gets its answer in a step that leaves
\* the scheduler idle, or disposed.
LEMMA AnswerMeansIdle ==
    ASSUME TypeOK, [Next]_vars, NEW c \in Callers,
           callers[c] \in {"idle", "draining", "retiring"},
           callers'[c] \in {"drained", "retirable"},
           ~isDisposed'
    PROVE  activeTasks' = {} /\ queuedCount' = 0 /\ delayedRetryCount' = 0
<1>1. CASE callers' = callers
  BY <1>1
<1>2. CASE resolveDrainWaitersIfIdle /\ callers' # callers
  BY <1>2 DEF resolveDrainWaitersIfIdle, isIdle
<1>3. ASSUME NEW state, NEW active, NEW waiting, NEW count, NEW fns, NEW armed,
             processQueue(state, active, waiting, count, fns, armed)
      PROVE  resolveDrainWaitersIfIdle \/ callers' = callers
  BY <1>3 DEF processQueue
<1>4. ASSUME NEW t \in Tasks, NEW state, StartOrEnqueue(t, state)
      PROVE  resolveDrainWaitersIfIdle \/ callers' = callers
  BY <1>3, <1>4 DEF StartOrEnqueue
<1>5. CASE \E t \in Tasks : Refuse(t) \/ schedule(t) \/ RetryTimerFires(t)
  BY <1>1, <1>2, <1>4, <1>5 DEF Refuse, schedule, RetryTimerFires
<1>6. ASSUME NEW t \in Tasks, NEW fns, handleTaskError(t, fns) \/ handleTaskSuccess(t, fns)
      PROVE  resolveDrainWaitersIfIdle \/ callers' = callers
  BY <1>3, <1>6 DEF handleTaskError, handleTaskSuccess, RetryLater, FailForGood
<1>7. CASE \E t \in Tasks, k \in 0..MaxRetries :
            AttemptSucceeds(t, k) \/ AttemptFails(t, k) \/ handleTaskTimeout(t, k)
  BY <1>1, <1>2, <1>6, <1>7 DEF AttemptSucceeds, AttemptFails, Ignored, handleTaskTimeout
<1>8. CASE \E d \in Callers : drain(d) \/ gracefulDispose(d)
  BY <1>8 DEF drain, gracefulDispose, isIdle, poolVars, asyncVars, TypeOK
<1>9. CASE \E d \in Callers : GracefulResume(d)
  BY <1>9 DEF GracefulResume, DisposeEffect, TypeOK
<1>10. CASE dispose \/ clearMetrics \/ runGarbageCollection
  BY <1>1, <1>10 DEF dispose, DisposeEffect, clearMetrics, runGarbageCollection
<1>11. CASE UNCHANGED vars
  BY <1>1, <1>11 DEF vars
<1> QED
  BY <1>5, <1>7, <1>8, <1>9, <1>10, <1>11 DEF Next

\* An idle scheduler has settled every task it accepted.
LEMMA IdleMeansSettled ==
    ASSUME IInv, ~isDisposed, isIdle
    PROVE  \A t \in Tasks : settlement[t] # "pending"
<1>1. IsFiniteSet(queued) /\ IsFiniteSet(retryTimers)
  BY FS_Subset, TasksAssumption DEF IInv, TypeOK
<1>2. activeTasks = {} /\ queued = {} /\ retryTimers = {}
  BY <1>1, FS_EmptySet DEF isIdle, IInv, QueueCounted, RetriesCounted
<1> QED
  BY <1>2 DEF IInv, PendingIsSomewhere

\* drain() returns only when every accepted task is settled.
THEOREM DrainIsComplete == Spec => DrainedMeansSettled
<1>1. IInv /\ [Next]_vars =>
        (\A c \in Callers :
            /\ callers[c] \in {"idle", "draining", "retiring"}
            /\ callers'[c] \in {"drained", "retirable"}
            /\ ~isDisposed'
            => \A t \in Tasks : settlement'[t] # "pending")
  <2> SUFFICES ASSUME IInv, [Next]_vars, NEW c \in Callers,
                      callers[c] \in {"idle", "draining", "retiring"},
                      callers'[c] \in {"drained", "retirable"},
                      ~isDisposed'
               PROVE  \A t \in Tasks : settlement'[t] # "pending"
    OBVIOUS
  <2>1. IInv'
    BY NextIInv
  <2>2. activeTasks' = {} /\ queuedCount' = 0 /\ delayedRetryCount' = 0
    BY AnswerMeansIdle DEF IInv
  <2>3. isIdle'
    BY <2>2 DEF isIdle
  <2>4. (IInv /\ ~isDisposed /\ isIdle => \A t \in Tasks : settlement[t] # "pending")'
    BY IdleMeansSettled, PTL
  <2> QED
    BY <2>1, <2>3, <2>4
<1> QED
  BY <1>1, SpecIInv, PTL DEF Spec, DrainedMeansSettled

\* After dispose no attempt starts, also when retry timers fire or attempts
\* of cancelled tasks end, and no promise is resolved.
THEOREM DisposeStopsWork == Spec => NothingStartsAfterDispose
<1>1. IInv /\ [Next]_vars =>
        (isDisposed =>
            /\ attempts' \subseteq attempts
            /\ \A t \in Tasks : settlement'[t] = "resolved" => settlement[t] = "resolved")
  <2> SUFFICES ASSUME IInv, [Next]_vars, isDisposed
               PROVE  /\ attempts' \subseteq attempts
                      /\ \A t \in Tasks :
                            settlement'[t] = "resolved" => settlement[t] = "resolved"
    OBVIOUS
  <2>1. TypeOK /\ (\A t \in Tasks : ~Accepts(t)) /\ timers = {}
    BY DEF IInv, DisposedIsQuiet, Accepts
  <2>2. CASE \E t \in Tasks : Refuse(t) \/ schedule(t)
    BY <2>1, <2>2 DEF Refuse, schedule, asyncVars, TypeOK
  <2>3. CASE \E t \in Tasks : RetryTimerFires(t)
    <3>1. PICK t \in Tasks : RetryTimerFires(t)
      BY <2>3
    <3>2. UNCHANGED attempts /\ Settle(t, "rejected")
      BY <3>1 DEF RetryTimerFires
    <3> QED
      BY <2>1, <3>2 DEF Settle, Settled, TypeOK
  <2>4. CASE \E t \in Tasks, k \in 0..MaxRetries :
              AttemptSucceeds(t, k) \/ AttemptFails(t, k) \/ handleTaskTimeout(t, k)
    BY <2>1, <2>4 DEF AttemptSucceeds, AttemptFails, Ignored, handleTaskTimeout, promiseVars
  <2>5. CASE \E c \in Callers : drain(c) \/ gracefulDispose(c) \/ GracefulResume(c)
    BY <2>5 DEF drain, gracefulDispose, GracefulResume, asyncVars, promiseVars
  <2>6. CASE dispose \/ clearMetrics \/ runGarbageCollection \/ UNCHANGED vars
    BY <2>6 DEF dispose, clearMetrics, runGarbageCollection, vars, asyncVars, promiseVars
  <2> QED
    BY <2>2, <2>3, <2>4, <2>5, <2>6 DEF Next
<1> QED
  BY <1>1, SpecIInv, PTL DEF Spec, NothingStartsAfterDispose

-----------------------------------------------------------------------------
(* The counters and the free slots *)

Ends == {"COMPLETED", "FAILED"}

\* A task that ended stays ended: it holds no slot, waits nowhere and is not
\* scheduled again.
EndedIsSettled ==
    \A t \in Tasks : taskState[t] \in Ends => settlement[t] \in {"resolved", "rejected"}

\* A retry timer was armed by a failed attempt.
RetriesWereCounted == \A t \in retryTimers : retryCount[t] > 0

DisposedTracksNothing == isDisposed => tracked = {}

\* The part of CountersAgree about the statistics: since clearMetrics they
\* count the tasks that ended, among them all that are still tracked.
StatsAgree ==
    /\ completedCount <= Cardinality({t \in Tasks : taskState[t] = "COMPLETED"})
    /\ failedCount <= Cardinality({t \in Tasks : taskState[t] = "FAILED"})
    /\ Cardinality({t \in tracked : taskState[t] = "COMPLETED"}) <= completedCount
    /\ Cardinality({t \in tracked : taskState[t] = "FAILED"}) <= failedCount

\* No retry finds the queues full: there are no retries, or the queues hold
\* every task that is ever scheduled.
RetriesFit == MaxRetries = 0 \/ Cardinality(Tasks) <= MaxQueueSize

\* What SlotsAccounted needs besides IInv.
SInv ==
    /\ EndedIsSettled
    /\ RetriesWereCounted
    /\ DisposedTracksNothing
    /\ StatsAgree
    /\ RetriesFit => SettledIsCollectable /\ FreeSlotsAreOwed

\* A step that ends no task and changes no statistics keeps them right.
LEMMA StatsKept ==
    ASSUME TypeOK, TypeOK', StatsAgree, UNCHANGED <<completedCount, failedCount>>,
           \A t \in Tasks, o \in Ends : taskState'[t] = o <=> taskState[t] = o,
           \A t \in tracked' : t \in tracked \/ taskState'[t] \notin Ends
    PROVE  StatsAgree'
<1> DEFINE all(o) == {t \in Tasks : taskState[t] = o}
           now(o) == {t \in Tasks : taskState'[t] = o}
           seen(o) == {t \in tracked : taskState[t] = o}
           left(o) == {t \in tracked' : taskState'[t] = o}
<1>1. ASSUME NEW o \in Ends
      PROVE  /\ now(o) = all(o)
             /\ Cardinality(left(o)) <= Cardinality(seen(o))
             /\ Cardinality(left(o)) \in Nat /\ Cardinality(seen(o)) \in Nat
  <2>1. now(o) = all(o)
    OBVIOUS
  <2>2. left(o) \subseteq seen(o)
    BY <1>1 DEF TypeOK, Ends
  <2>3. IsFiniteSet(seen(o))
    BY FS_Subset, TasksAssumption DEF TypeOK
  <2> QED
    BY <2>1, <2>2, <2>3, FS_Subset, FS_CardinalityType
<1>2. /\ completedCount \in Nat /\ failedCount \in Nat
  BY DEF TypeOK
<1>3. "COMPLETED" \in Ends /\ "FAILED" \in Ends
  BY DEF Ends
<1>4. /\ completedCount' <= Cardinality(now("COMPLETED"))
      /\ failedCount' <= Cardinality(now("FAILED"))
  BY <1>1, <1>3 DEF StatsAgree
<1>5. /\ Cardinality(seen("COMPLETED")) <= completedCount
      /\ Cardinality(seen("FAILED")) <= failedCount
  BY DEF StatsAgree
<1> HIDE DEF seen
<1>6. Cardinality(left("COMPLETED")) <= completedCount'
  <2>1. /\ Cardinality(left("COMPLETED")) <= Cardinality(seen("COMPLETED"))
        /\ Cardinality(left("COMPLETED")) \in Nat /\ Cardinality(seen("COMPLETED")) \in Nat
    BY <1>1, <1>3
  <2> HIDE DEF left
  <2> QED
    BY <1>2, <1>5, <2>1
<1>7. Cardinality(left("FAILED")) <= failedCount'
  <2>1. /\ Cardinality(left("FAILED")) <= Cardinality(seen("FAILED"))
        /\ Cardinality(left("FAILED")) \in Nat /\ Cardinality(seen("FAILED")) \in Nat
    BY <1>1, <1>3
  <2> HIDE DEF left
  <2> QED
    BY <1>2, <1>5, <2>1
<1> QED
  BY <1>4, <1>6, <1>7 DEF StatsAgree

\* One more task of those in S: their number and the counter grow by one.
LEMMA OneMoreEnds ==
    ASSUME TypeOK, NEW t \in Tasks, NEW all, NEW now, NEW seen, NEW left,
           all \in SUBSET Tasks, seen \in SUBSET Tasks, t \notin all,
           now = all \union {t}, left \subseteq seen \union {t},
           NEW n \in Nat, n <= Cardinality(all), Cardinality(seen) <= n
    PROVE  n + 1 <= Cardinality(now) /\ Cardinality(left) <= n + 1
<1>1. IsFiniteSet(all) /\ IsFiniteSet(seen) /\ IsFiniteSet(seen \union {t})
  BY FS_Subset, FS_AddElement, TasksAssumption
<1>2. Cardinality(now) = Cardinality(all) + 1
  BY <1>1, FS_AddElement
<1>3. Cardinality(seen \union {t}) <= Cardinality(seen) + 1
  <2>1. Cardinality(seen \union {t}) = Cardinality(seen) \/ Cardinality(seen \union {t}) = Cardinality(seen) + 1
    BY <1>1, FS_AddElement
  <2>2. Cardinality(seen) \in Nat
    BY <1>1, FS_CardinalityType
  <2> QED
    BY <2>1, <2>2
<1>4. Cardinality(left) <= Cardinality(seen \union {t})
  BY <1>1, FS_Subset
<1>5. /\ Cardinality(seen) \in Nat /\ Cardinality(seen \union {t}) \in Nat
      /\ Cardinality(left) \in Nat /\ Cardinality(all) \in Nat
  BY <1>1, FS_Subset, FS_CardinalityType
<1> QED
  BY <1>2, <1>3, <1>4, <1>5

\* A retry that is due finds room in the queues.
LEMMA RetryFindsRoom ==
    ASSUME IInv, RetriesWereCounted, RetriesFit, NEW t \in retryTimers
    PROVE  ~isAtCapacity
<1>1. t \in Tasks /\ t \notin queued /\ queued \subseteq Tasks
  BY DEF IInv, TypeOK, PendingIsSomewhere
<1>2. MaxRetries # 0
  BY <1>1 DEF RetriesWereCounted, IInv, TypeOK
<1>3. IsFiniteSet(queued) /\ IsFiniteSet(Tasks)
  BY <1>1, FS_Subset, TasksAssumption
<1>4. Cardinality(queued) \in Nat /\ Cardinality(Tasks) \in Nat
  BY <1>3, FS_CardinalityType
<1>5. Cardinality(queued) <= Cardinality(Tasks) /\ Cardinality(queued) # Cardinality(Tasks)
  <2>1. queued \in SUBSET Tasks /\ queued # Tasks
    BY <1>1
  <2> QED
    BY <1>3, <2>1, FS_Subset
<1>6. Cardinality(queued) < Cardinality(Tasks)
  BY <1>4, <1>5
<1> QED
  BY <1>2, <1>4, <1>6, LimitsAssumption DEF RetriesFit, isAtCapacity, IInv, QueueCounted

\* A step about task t: the promise of another task stays as it is, and its
\* state too unless the task starts.
StepOfTask(t) ==
    \A u \in Tasks \ {t} :
        /\ settlement'[u] = settlement[u]
        /\ taskState'[u] = taskState[u] \/ u \in activeTasks'

\* Such a step ends no task but t.
LEMMA OnlyOneEnds ==
    ASSUME IInv, IInv', EndedIsSettled, NEW t \in Tasks, StepOfTask(t)
    PROVE  \A u \in Tasks \ {t}, o \in Ends : taskState'[u] = o <=> taskState[u] = o
<1> SUFFICES ASSUME NEW u \in Tasks \ {t}, NEW o \in Ends
             PROVE  taskState'[u] = o <=> taskState[u] = o
  OBVIOUS
<1>1. settlement'[u] = settlement[u] /\ (taskState'[u] = taskState[u] \/ u \in activeTasks')
  BY DEF StepOfTask
<1>2. CASE taskState'[u] = taskState[u]
  BY <1>2
<1>3. CASE u \in activeTasks'
  <2>1. taskState'[u] = "RUNNING"
    BY <1>3 DEF IInv, ActiveIsRunning
  <2>2. settlement'[u] = "pending"
    BY <1>3 DEF IInv, PendingIsSomewhere
  <2>3. taskState[u] \notin Ends
    BY <1>1, <2>2 DEF EndedIsSettled
  <2> QED
    BY <2>1, <2>3 DEF Ends
<1> QED
  BY <1>1, <1>2, <1>3

\* What the states say about the promises after such a step.
LEMMA EndsAfterStep ==
    ASSUME IInv, IInv', EndedIsSettled, NEW t \in Tasks, StepOfTask(t),
           taskState'[t] \in Ends => settlement'[t] \in {"resolved", "rejected"}
    PROVE  EndedIsSettled'
<1> SUFFICES ASSUME NEW u \in Tasks, taskState'[u] \in Ends, u # t
             PROVE  settlement'[u] \in {"resolved", "rejected"}
  BY DEF EndedIsSettled
<1>1. taskState[u] \in Ends
  BY OnlyOneEnds
<1>2. settlement'[u] = settlement[u]
  BY DEF StepOfTask
<1> QED
  BY <1>1, <1>2 DEF EndedIsSettled

LEMMA CollectableAfterStep ==
    ASSUME IInv, IInv', EndedIsSettled, SettledIsCollectable,
           NEW t \in Tasks, StepOfTask(t),
           tracked' \subseteq tracked \union {t},
           settlement'[t] \in {"resolved", "rejected"} => taskState'[t] \in Ends
    PROVE  SettledIsCollectable'
<1> SUFFICES ASSUME NEW u \in tracked', settlement'[u] \in {"resolved", "rejected"}, u # t
             PROVE  taskState'[u] \in Ends
  BY DEF SettledIsCollectable, Ends
<1>1. u \in tracked /\ u \in Tasks \ {t}
  BY DEF IInv, TypeOK
<1>2. settlement[u] \in {"resolved", "rejected"}
  BY <1>1 DEF StepOfTask
<1>3. taskState[u] \in Ends
  BY <1>1, <1>2 DEF SettledIsCollectable, Ends
<1> QED
  BY <1>1, <1>3, OnlyOneEnds

\* processQueue leaves a task queued only when every slot is in use.
LEMMA QueueOwesNothing ==
    ASSUME UNCHANGED isDisposed, NEW state, NEW fns, NEW armed, NEW count,
           NEW active \in SUBSET Tasks, NEW waiting \in SUBSET Tasks,
           processQueue(state, active, waiting, count, fns, armed),
           retryTimers' \in SUBSET Tasks
    PROVE  FreeSlotsAreOwed'
<1> SUFFICES ASSUME ~isDisposed, queued' # {}
             PROVE  Cardinality(activeTasks') + Cardinality(retryTimers') >= ConcurrencyLimit
  BY DEF FreeSlotsAreOwed
<1>1. PICK S \in SUBSET waiting :
          /\ S # waiting => isDisposed \/ Cardinality(active \union S) >= ConcurrencyLimit
          /\ queued' = waiting \ S
          /\ activeTasks' = active \union S
  BY DEF processQueue
<1>2. Cardinality(activeTasks') >= ConcurrencyLimit
  BY <1>1
<1>3. IsFiniteSet(activeTasks') /\ IsFiniteSet(retryTimers')
  BY <1>1, FS_Subset, TasksAssumption
<1>4. Cardinality(activeTasks') \in Nat /\ Cardinality(retryTimers') \in Nat
  BY <1>3, FS_CardinalityType
<1> QED
  BY <1>2, <1>4, LimitsAssumption

\* The tasks that start are in their new state active.
LEMMA QueueStepStates ==
    ASSUME NEW state, NEW fns, NEW armed, NEW count, NEW active, NEW waiting,
           processQueue(state, active, waiting, count, fns, armed)
    PROVE  \A u \in Tasks : taskState'[u] = state[u] \/ (u \in activeTasks' /\ taskState'[u] = "RUNNING")
BY DEF processQueue, ExecuteTasks

\* The same for a task that starts at once or waits.
LEMMA StartOrEnqueueStates ==
    ASSUME IInv, UNCHANGED isDisposed, NEW t \in Tasks, NEW state, StartOrEnqueue(t, state),
           retryTimers' \in SUBSET Tasks
    PROVE  /\ FreeSlotsAreOwed'
           /\ \A u \in Tasks :
                 taskState'[u] = state[u] \/ (u \in activeTasks' /\ taskState'[u] = "RUNNING")
<1>1. CASE HasFreeSlot(activeTasks) /\ queuedCount = 0
  <2>1. /\ activeTasks' = activeTasks \union {t} /\ UNCHANGED queued
        /\ ExecuteTasks({t}, state, attempts, timers)
    BY <1>1 DEF StartOrEnqueue
  <2>2. queued' = {}
    BY <1>1, <2>1, FS_EmptySet, FS_Subset, TasksAssumption DEF IInv, QueueCounted, TypeOK
  <2> QED
    BY <2>1, <2>2 DEF FreeSlotsAreOwed, ExecuteTasks
<1>2. CASE ~(HasFreeSlot(activeTasks) /\ queuedCount = 0)
  <2>1. processQueue(state, activeTasks, queued \union {t}, queuedCount + 1, attempts, timers)
    BY <1>2 DEF StartOrEnqueue
  <2>2. activeTasks \in SUBSET Tasks /\ queued \union {t} \in SUBSET Tasks
    BY DEF IInv, TypeOK
  <2> QED
    BY <2>1, <2>2, QueueOwesNothing, QueueStepStates
<1> QED
  BY <1>1, <1>2

\* A scheduled task starts or waits; nothing else ends or is freed.
LEMMA ScheduleSInv ==
    ASSUME IInv, SInv, NEW t \in Tasks, schedule(t)
    PROVE  SInv'
<1> DEFINE state == [taskState EXCEPT ![t] = "PENDING"]
<1>1. /\ settlement[t] = "none" /\ ~isDisposed
      /\ settlement' = [settlement EXCEPT ![t] = "pending"]
      /\ tracked' = IF EnableMetrics THEN tracked \union {t} ELSE tracked
      /\ UNCHANGED <<retryCount, retryTimers, completedCount, failedCount, isDisposed>>
      /\ StartOrEnqueue(t, state)
  BY DEF schedule
<1>2. IInv' /\ TypeOK /\ TypeOK'
  BY ScheduleIInv DEF IInv
<1>3. retryTimers' \in SUBSET Tasks
  BY <1>2 DEF TypeOK
<1>4. /\ FreeSlotsAreOwed'
      /\ \A u \in Tasks :
            taskState'[u] = state[u] \/ (u \in activeTasks' /\ taskState'[u] = "RUNNING")
  BY <1>1, <1>3, StartOrEnqueueStates
<1>5. StepOfTask(t)
  BY <1>1, <1>2, <1>4 DEF StepOfTask, TypeOK
<1>6. taskState'[t] \notin Ends /\ settlement'[t] = "pending" /\ taskState[t] \notin Ends
  BY <1>1, <1>2, <1>4 DEF TypeOK, Ends, SInv, EndedIsSettled
<1>7. \A u \in Tasks, o \in Ends : taskState'[u] = o <=> taskState[u] = o
  BY <1>2, <1>5, <1>6, OnlyOneEnds DEF SInv
<1>8. \A u \in tracked' : u \in tracked \/ taskState'[u] \notin Ends
  BY <1>1, <1>6
<1>9. StatsAgree'
  BY <1>1, <1>2, <1>7, <1>8, StatsKept DEF SInv
<1>10. EndedIsSettled'
  BY <1>2, <1>5, <1>6, EndsAfterStep DEF SInv
<1>11. RetriesFit => SettledIsCollectable'
  BY <1>1, <1>2, <1>5, <1>6, CollectableAfterStep DEF SInv
<1>12. RetriesWereCounted' /\ DisposedTracksNothing'
  BY <1>1 DEF SInv, RetriesWereCounted, DisposedTracksNothing
<1> QED
  BY <1>4, <1>9, <1>10, <1>11, <1>12 DEF SInv, RetriesFit

\* A retry that is due starts or waits again; where the retries fit, no
\* promise is rejected instead but those of a disposed scheduler, which
\* tracks nothing and owes nothing.
LEMMA RetryTimerFiresSInv ==
    ASSUME IInv, SInv, NEW t \in Tasks, RetryTimerFires(t)
    PROVE  SInv'
<1>1. /\ t \in retryTimers
      /\ retryTimers' = retryTimers \ {t}
      /\ UNCHANGED <<retryCount, tracked, completedCount, failedCount, isDisposed>>
  BY DEF RetryTimerFires, statVars
<1>2. IInv' /\ TypeOK /\ TypeOK'
  BY RetryTimerFiresIInv DEF IInv
<1>3. settlement[t] = "pending" /\ taskState[t] \notin Ends
  BY <1>1 DEF IInv, PendingIsSomewhere, SInv, EndedIsSettled
<1>4. RetriesWereCounted' /\ DisposedTracksNothing'
  BY <1>1 DEF SInv, RetriesWereCounted, DisposedTracksNothing
<1>5. retryTimers' \in SUBSET Tasks
  BY <1>2 DEF TypeOK
<1>6. CASE isDisposed \/ isAtCapacity
  <2>1. /\ settlement' = Settled(t, "rejected")
        /\ UNCHANGED <<poolVars, taskState>>
    BY <1>6 DEF RetryTimerFires, Settle
  <2>2. StepOfTask(t)
    BY <1>2, <2>1 DEF StepOfTask, Settled, TypeOK
  <2>3. /\ \A u \in Tasks, o \in Ends : taskState'[u] = o <=> taskState[u] = o
        /\ \A u \in tracked' : u \in tracked \/ taskState'[u] \notin Ends
    BY <1>1, <2>1
  <2>4. StatsAgree'
    BY <1>1, <1>2, <2>3, StatsKept DEF SInv
  <2>5. EndedIsSettled'
    BY <1>2, <1>3, <2>1, <2>2, EndsAfterStep DEF SInv
  <2>6. RetriesFit => isDisposed
    BY <1>1, <1>6, RetryFindsRoom DEF SInv
  <2>7. RetriesFit => SettledIsCollectable' /\ FreeSlotsAreOwed'
    BY <1>1, <2>6 DEF SInv, DisposedTracksNothing, SettledIsCollectable, FreeSlotsAreOwed
  <2> QED
    BY <1>4, <2>4, <2>5, <2>7 DEF SInv, RetriesFit
<1>7. CASE ~isDisposed /\ ~isAtCapacity
  <2>1. UNCHANGED settlement /\ StartOrEnqueue(t, taskState)
    BY <1>7 DEF RetryTimerFires, promiseVars
  <2>2. /\ FreeSlotsAreOwed'
        /\ \A u \in Tasks :
              taskState'[u] = taskState[u] \/ (u \in activeTasks' /\ taskState'[u] = "RUNNING")
    BY <1>1, <1>5, <2>1, StartOrEnqueueStates
  <2>3. StepOfTask(t)
    BY <2>1, <2>2 DEF StepOfTask
  <2>4. taskState'[t] \notin Ends /\ settlement'[t] = "pending"
    BY <1>3, <2>1, <2>2 DEF Ends
  <2>5. \A u \in Tasks, o \in Ends : taskState'[u] = o <=> taskState[u] = o
    BY <1>2, <1>3, <2>3, <2>4, OnlyOneEnds DEF SInv
  <2>6. \A u \in tracked' : u \in tracked \/ taskState'[u] \notin Ends
    BY <1>1
  <2>7. StatsAgree'
    BY <1>1, <1>2, <2>5, <2>6, StatsKept DEF SInv
  <2>8. EndedIsSettled'
    BY <1>2, <2>3, <2>4, EndsAfterStep DEF SInv
  <2>9. RetriesFit => SettledIsCollectable'
    BY <1>1, <1>2, <2>3, <2>4, CollectableAfterStep DEF SInv
  <2> QED
    BY <1>4, <2>2, <2>7, <2>8, <2>9 DEF SInv, RetriesFit
<1> QED
  BY <1>6, <1>7

\* The task that ends is counted with those of its outcome.
LEMMA EndCounted ==
    ASSUME TypeOK, TypeOK', StatsAgree, NEW t \in Tasks, NEW outcome \in Ends,
           taskState[t] \notin Ends, taskState'[t] = outcome,
           \A u \in Tasks \ {t}, o \in Ends : taskState'[u] = o <=> taskState[u] = o,
           completedCount' = IF outcome = "COMPLETED" THEN completedCount + 1 ELSE completedCount,
           failedCount' = IF outcome = "FAILED" THEN failedCount + 1 ELSE failedCount,
           UNCHANGED tracked
    PROVE  StatsAgree'
<1> DEFINE all(o) == {u \in Tasks : taskState[u] = o}
           now(o) == {u \in Tasks : taskState'[u] = o}
           seen(o) == {u \in tracked : taskState[u] = o}
           left(o) == {u \in tracked' : taskState'[u] = o}
<1>1. /\ completedCount \in Nat /\ failedCount \in Nat /\ tracked \subseteq Tasks
  BY DEF TypeOK
<1>2. ASSUME NEW o \in Ends
      PROVE  /\ all(o) \in SUBSET Tasks /\ seen(o) \in SUBSET Tasks /\ t \notin all(o)
             /\ now(o) = IF o = outcome THEN all(o) \union {t} ELSE all(o)
             /\ left(o) \subseteq IF o = outcome THEN seen(o) \union {t} ELSE seen(o)
             /\ o # outcome => left(o) = seen(o)
  BY <1>1
<1>3. "COMPLETED" \in Ends /\ "FAILED" \in Ends /\ Ends = {"COMPLETED", "FAILED"}
  BY DEF Ends
<1>4. /\ completedCount <= Cardinality(all("COMPLETED"))
      /\ failedCount <= Cardinality(all("FAILED"))
      /\ Cardinality(seen("COMPLETED")) <= completedCount
      /\ Cardinality(seen("FAILED")) <= failedCount
  BY DEF StatsAgree
<1> SUFFICES /\ completedCount' <= Cardinality(now("COMPLETED"))
             /\ failedCount' <= Cardinality(now("FAILED"))
             /\ Cardinality(left("COMPLETED")) <= completedCount'
             /\ Cardinality(left("FAILED")) <= failedCount'
  BY DEF StatsAgree
<1> HIDE DEF all, now, seen, left
<1>5. CASE outcome = "COMPLETED"
  <2>1. /\ completedCount + 1 <= Cardinality(now("COMPLETED"))
        /\ Cardinality(left("COMPLETED")) <= completedCount + 1
    <3>1. /\ all("COMPLETED") \in SUBSET Tasks /\ seen("COMPLETED") \in SUBSET Tasks
          /\ t \notin all("COMPLETED") /\ now("COMPLETED") = all("COMPLETED") \union {t}
          /\ left("COMPLETED") \subseteq seen("COMPLETED") \union {t}
      BY <1>2, <1>3, <1>5
    <3> QED
      BY <1>1, <1>4, <3>1, OneMoreEnds
  <2>2. now("FAILED") = all("FAILED") /\ left("FAILED") = seen("FAILED")
    BY <1>2, <1>3, <1>5
  <2> QED
    BY <1>4, <1>5, <2>1, <2>2
<1>6. CASE outcome = "FAILED"
  <2>1. /\ failedCount + 1 <= Cardinality(now("FAILED"))
        /\ Cardinality(left("FAILED")) <= failedCount + 1
    <3>1. /\ all("FAILED") \in SUBSET Tasks /\ seen("FAILED") \in SUBSET Tasks
          /\ t \notin all("FAILED") /\ now("FAILED") = all("FAILED") \union {t}
          /\ left("FAILED") \subseteq seen("FAILED") \union {t}
      BY <1>2, <1>3, <1>6
    <3> QED
      BY <1>1, <1>4, <3>1, OneMoreEnds
  <2>2. now("COMPLETED") = all("COMPLETED") /\ left("COMPLETED") = seen("COMPLETED")
    BY <1>2, <1>3, <1>6
  <2> QED
    BY <1>4, <1>6, <2>1, <2>2
<1> QED
  BY <1>3, <1>5, <1>6

\* The end of a task: it is counted, and its slot is refilled.
LEMMA EndSInv ==
    ASSUME IInv, IInv', SInv, NEW t \in Tasks, Accepts(t), NEW fns,
           \/ handleTaskSuccess(t, fns)
           \/ FailForGood(t, fns)
    PROVE  SInv'
<1>1. TypeOK /\ TypeOK' /\ queued \in SUBSET Tasks /\ activeTasks \ {t} \in SUBSET Tasks
  BY DEF IInv, TypeOK
<1>2. settlement[t] = "pending" /\ t \in activeTasks /\ taskState[t] \notin Ends
  BY AcceptedTask DEF Accepts, Ends
<1>3. PICK outcome \in Ends :
        /\ completedCount' = IF outcome = "COMPLETED" THEN completedCount + 1 ELSE completedCount
        /\ failedCount' = IF outcome = "FAILED" THEN failedCount + 1 ELSE failedCount
        /\ \E s \in {"resolved", "rejected"} : Settle(t, s)
        /\ UNCHANGED <<retryCount, retryTimers, tracked, isDisposed>>
        /\ processQueue([taskState EXCEPT ![t] = outcome], activeTasks \ {t}, queued,
                        queuedCount, fns, ClearTimer(t))
  <2>1. CASE handleTaskSuccess(t, fns)
    <3>1. "COMPLETED" \in Ends
      BY DEF Ends
    <3> QED
      BY <2>1, <3>1 DEF handleTaskSuccess
  <2>2. CASE FailForGood(t, fns)
    <3>1. "FAILED" \in Ends
      BY DEF Ends
    <3> QED
      BY <2>2, <3>1 DEF FailForGood
  <2> QED
    BY <2>1, <2>2
<1> DEFINE state == [taskState EXCEPT ![t] = outcome]
<1>4. \A u \in Tasks : state[u] = IF u = t THEN outcome ELSE taskState[u]
  BY <1>1 DEF TypeOK
<1>5. processQueue(state, activeTasks \ {t}, queued, queuedCount, fns, ClearTimer(t))
  BY <1>3
<1> HIDE DEF state
<1>6. \A u \in Tasks :
        taskState'[u] = state[u] \/ (u \in activeTasks' /\ taskState'[u] = "RUNNING")
  BY <1>5, QueueStepStates
<1>7. FreeSlotsAreOwed'
  <2>1. retryTimers' \in SUBSET Tasks
    BY <1>1 DEF TypeOK
  <2> QED
    BY <1>1, <1>3, <1>5, <2>1, QueueOwesNothing
<1>8. /\ settlement'[t] \in {"resolved", "rejected"}
      /\ \A u \in Tasks \ {t} : settlement'[u] = settlement[u]
  BY <1>1, <1>2, <1>3 DEF Settle, Settled, TypeOK
<1>9. taskState'[t] = outcome
  <2>1. t \notin activeTasks'
    BY <1>8 DEF IInv, PendingIsSomewhere
  <2> QED
    BY <1>4, <1>6, <2>1
<1>10. StepOfTask(t)
  BY <1>4, <1>6, <1>8 DEF StepOfTask
<1>11. \A u \in Tasks \ {t}, o \in Ends : taskState'[u] = o <=> taskState[u] = o
  BY <1>10, OnlyOneEnds DEF SInv
<1>12. StatsAgree'
  BY <1>1, <1>2, <1>3, <1>9, <1>11, EndCounted DEF SInv
<1>13. EndedIsSettled'
  BY <1>8, <1>10, EndsAfterStep DEF SInv
<1>14. RetriesFit => SettledIsCollectable'
  BY <1>3, <1>9, <1>10, CollectableAfterStep DEF SInv
<1>15. RetriesWereCounted' /\ DisposedTracksNothing'
  BY <1>3 DEF SInv, RetriesWereCounted, DisposedTracksNothing
<1> QED
  BY <1>7, <1>12, <1>13, <1>14, <1>15 DEF SInv, RetriesFit

\* The slot a failed task gives up is owed by its retry timer.
LEMMA RetryLaterSInv ==
    ASSUME IInv, IInv', SInv, NEW t \in Tasks, Accepts(t), NEW fns, RetryLater(t, fns)
    PROVE  SInv'
<1>1. TypeOK /\ TypeOK'
  BY DEF IInv
<1>2. /\ t \in activeTasks /\ t \notin retryTimers
      /\ settlement[t] = "pending" /\ taskState[t] \notin Ends
  BY AcceptedTask DEF Accepts, Ends
<1>3. /\ activeTasks' = activeTasks \ {t}
      /\ retryCount' = [retryCount EXCEPT ![t] = @ + 1]
      /\ taskState' = [taskState EXCEPT ![t] = "PENDING"]
      /\ retryTimers' = retryTimers \union {t}
      /\ UNCHANGED <<queued, settlement, tracked, completedCount, failedCount, isDisposed>>
  BY DEF RetryLater, promiseVars, statVars
<1>4. StepOfTask(t)
  BY <1>1, <1>3 DEF StepOfTask, TypeOK
<1>5. taskState'[t] \notin Ends /\ settlement'[t] = "pending"
  BY <1>1, <1>2, <1>3 DEF TypeOK, Ends
<1>6. \A u \in Tasks, o \in Ends : taskState'[u] = o <=> taskState[u] = o
  BY <1>2, <1>4, <1>5, OnlyOneEnds DEF SInv
<1>7. \A u \in tracked' : u \in tracked \/ taskState'[u] \notin Ends
  BY <1>3
<1>8. StatsAgree'
  BY <1>1, <1>3, <1>6, <1>7, StatsKept DEF SInv
<1>9. EndedIsSettled'
  BY <1>4, <1>5, EndsAfterStep DEF SInv
<1>10. RetriesFit => SettledIsCollectable'
  BY <1>3, <1>4, <1>5, CollectableAfterStep DEF SInv
<1>11. RetriesWereCounted' /\ DisposedTracksNothing'
  BY <1>1, <1>3 DEF SInv, RetriesWereCounted, DisposedTracksNothing, TypeOK
<1>12. Cardinality(activeTasks') + Cardinality(retryTimers')
          = Cardinality(activeTasks) + Cardinality(retryTimers)
  <2>1. IsFiniteSet(activeTasks) /\ IsFiniteSet(retryTimers)
    BY <1>1, FS_Subset, TasksAssumption DEF TypeOK
  <2>2. Cardinality(activeTasks') = Cardinality(activeTasks) - 1
    BY <1>2, <1>3, <2>1, FS_RemoveElement
  <2>3. Cardinality(retryTimers') = Cardinality(retryTimers) + 1
    BY <1>2, <1>3, <2>1, FS_AddElement
  <2>4. Cardinality(activeTasks) \in Nat /\ Cardinality(retryTimers) \in Nat
    BY <2>1, FS_CardinalityType
  <2> QED
    BY <2>2, <2>3, <2>4
<1>13. FreeSlotsAreOwed => FreeSlotsAreOwed'
  BY <1>3, <1>12 DEF FreeSlotsAreOwed
<1> QED
  BY <1>8, <1>9, <1>10, <1>11, <1>13 DEF SInv, RetriesFit

\* Steps that touch neither the pool nor the tasks that are tracked keep what
\* SInv says; a promise may be refused before its task is made.
LEMMA QuietSInv ==
    ASSUME IInv, IInv', SInv,
           UNCHANGED <<activeTasks, queued, taskState, retryCount, retryTimers, isDisposed>>,
           \A t \in Tasks : \/ settlement'[t] = settlement[t]
                            \/ settlement[t] = "none" /\ settlement'[t] = "refused",
           \/ UNCHANGED <<tracked, completedCount, failedCount>>
           \/ tracked' \subseteq tracked /\ UNCHANGED <<completedCount, failedCount>>
           \/ tracked' = {} /\ completedCount' = 0 /\ failedCount' = 0
    PROVE  SInv'
<1>1. TypeOK /\ TypeOK' /\ tracked' \subseteq tracked
  BY DEF IInv
<1>2. EndedIsSettled' /\ RetriesWereCounted' /\ DisposedTracksNothing'
  BY <1>1 DEF SInv, EndedIsSettled, RetriesWereCounted, DisposedTracksNothing
<1>3. RetriesFit => SettledIsCollectable' /\ FreeSlotsAreOwed'
  <2>1. \A t \in tracked' : t \in tracked /\ t \in Tasks
    BY <1>1 DEF TypeOK
  <2> QED
    BY <2>1 DEF SInv, SettledIsCollectable, FreeSlotsAreOwed
<1>4. StatsAgree'
  <2>1. CASE UNCHANGED <<completedCount, failedCount>>
    BY <1>1, <2>1, StatsKept DEF SInv
  <2>2. CASE tracked' = {} /\ completedCount' = 0 /\ failedCount' = 0
    <3> DEFINE now(o) == {t \in Tasks : taskState'[t] = o}
               left(o) == {t \in tracked' : taskState'[t] = o}
    <3>1. ASSUME NEW o PROVE Cardinality(now(o)) \in Nat /\ Cardinality(left(o)) = 0
      <4>1. IsFiniteSet(now(o))
        BY FS_Subset, TasksAssumption
      <4>2. left(o) = {}
        BY <2>2
      <4> QED
        BY <4>1, <4>2, FS_CardinalityType, FS_EmptySet
    <3>2. SUFFICES /\ completedCount' <= Cardinality(now("COMPLETED"))
                   /\ failedCount' <= Cardinality(now("FAILED"))
                   /\ Cardinality(left("COMPLETED")) <= completedCount'
                   /\ Cardinality(left("FAILED")) <= failedCount'
      BY DEF StatsAgree
    <3> HIDE DEF now, left
    <3>3. /\ Cardinality(now("COMPLETED")) \in Nat /\ Cardinality(now("FAILED")) \in Nat
          /\ Cardinality(left("COMPLETED")) = 0 /\ Cardinality(left("FAILED")) = 0
      BY <3>1
    <3> QED
      BY <2>2, <3>3
  <2> QED
    BY <2>1, <2>2
<1> QED
  BY <1>2, <1>3, <1>4 DEF SInv, RetriesFit

\* dispose cancels tasks that did not end, and tracks nothing any more.
LEMMA DisposeSInv ==
    ASSUME IInv, IInv', SInv, DisposeEffect
    PROVE  SInv'
<1>1. TypeOK /\ TypeOK'
  BY DEF IInv
<1>2. /\ isDisposed' = TRUE
      /\ taskState' = [t \in Tasks |->
                          IF t \in activeTasks \union queued THEN "CANCELLED" ELSE taskState[t]]
      /\ settlement' = [t \in Tasks |->
                          IF t \in activeTasks \union queued /\ settlement[t] = "pending"
                          THEN "rejected" ELSE settlement[t]]
      /\ tracked' = {}
      /\ UNCHANGED <<retryCount, retryTimers, completedCount, failedCount>>
  BY DEF DisposeEffect
<1>3. \A t \in activeTasks \union queued : t \in Tasks /\ taskState[t] \notin Ends
  BY <1>1 DEF IInv, PendingIsSomewhere, SInv, EndedIsSettled, TypeOK
<1>4. \A u \in Tasks, o \in Ends : taskState'[u] = o <=> taskState[u] = o
  BY <1>2, <1>3 DEF Ends
<1>5. \A u \in tracked' : u \in tracked \/ taskState'[u] \notin Ends
  BY <1>2
<1>6. StatsAgree'
  BY <1>1, <1>2, <1>4, <1>5, StatsKept DEF SInv
<1>7. EndedIsSettled'
  <2> SUFFICES ASSUME NEW u \in Tasks, taskState'[u] \in Ends
               PROVE  settlement'[u] \in {"resolved", "rejected"}
    BY DEF EndedIsSettled
  <2>1. taskState[u] \in Ends
    BY <1>4
  <2> QED
    BY <1>2, <2>1 DEF SInv, EndedIsSettled
<1>8. RetriesWereCounted' /\ DisposedTracksNothing'
  BY <1>1, <1>2 DEF SInv, RetriesWereCounted, DisposedTracksNothing
<1>9. SettledIsCollectable' /\ FreeSlotsAreOwed'
  BY <1>2 DEF SettledIsCollectable, FreeSlotsAreOwed
<1> QED
  BY <1>6, <1>7, <1>8, <1>9 DEF SInv

LEMMA InitSInv == Init => SInv
<1> SUFFICES ASSUME Init PROVE SInv
  OBVIOUS
<1>1. \A t \in Tasks : taskState[t] \notin Ends
  BY DEF Init, Ends
<1>2. {t \in Tasks : taskState[t] = "COMPLETED"} = {} /\ {t \in Tasks : taskState[t] = "FAILED"} = {}
  BY <1>1 DEF Ends
<1>3. {t \in tracked : taskState[t] = "COMPLETED"} = {} /\ {t \in tracked : taskState[t] = "FAILED"} = {}
  BY DEF Init
<1>4. StatsAgree
  BY <1>2, <1>3, FS_EmptySet DEF Init, StatsAgree
<1> QED
  BY <1>1, <1>4
     DEF Init, SInv, EndedIsSettled, RetriesWereCounted, DisposedTracksNothing,
         SettledIsCollectable, FreeSlotsAreOwed

\* Every action preserves it too.
LEMMA NextSInv == IInv /\ SInv /\ [Next]_vars => SInv'
<1> SUFFICES ASSUME IInv, SInv, [Next]_vars PROVE SInv'
  OBVIOUS
<1> USE NextIInv
<1>1. CASE \E t \in Tasks : schedule(t) \/ RetryTimerFires(t)
  BY <1>1, ScheduleSInv, RetryTimerFiresSInv
<1>2. CASE \E t \in Tasks : Refuse(t)
  <2>1. PICK t \in Tasks : Refuse(t)
    BY <1>2
  <2> QED
    BY <2>1, QuietSInv DEF Refuse, poolVars, taskVars, asyncVars, statVars, IInv, TypeOK
<1>3. ASSUME NEW t \in Tasks, NEW fns, Accepts(t), handleTaskError(t, fns) \/ handleTaskSuccess(t, fns)
      PROVE  SInv'
  BY <1>3, EndSInv, RetryLaterSInv DEF handleTaskError
<1>4. CASE \E t \in Tasks, k \in 0..MaxRetries : AttemptSucceeds(t, k) \/ AttemptFails(t, k)
  <2>1. PICK t \in Tasks, k \in 0..MaxRetries : AttemptSucceeds(t, k) \/ AttemptFails(t, k)
    BY <1>4
  <2>2. CASE Ignored(t, k)
    BY <2>2, QuietSInv DEF Ignored, poolVars, taskVars, promiseVars, statVars
  <2> QED
    BY <1>3, <2>1, <2>2 DEF AttemptSucceeds, AttemptFails
<1>5. CASE \E t \in Tasks, k \in 0..MaxRetries : handleTaskTimeout(t, k)
  <2>1. PICK t \in Tasks, k \in 0..MaxRetries : handleTaskTimeout(t, k)
    BY <1>5
  <2>2. t \in activeTasks
    BY <2>1 DEF handleTaskTimeout, IInv, TimersOfActiveAttempts
  <2>3. Accepts(t)
    BY <2>2 DEF Accepts, IInv, ActiveIsRunning
  <2> QED
    BY <1>3, <2>1, <2>3 DEF handleTaskTimeout
<1>6. CASE \E c \in Callers : drain(c) \/ gracefulDispose(c) \/ GracefulResume(c)
  <2>1. CASE DisposeEffect
    BY <2>1, DisposeSInv
  <2>2. CASE UNCHANGED <<poolVars, taskVars, asyncVars, promiseVars, statVars, isDisposed>>
    BY <2>2, QuietSInv DEF poolVars, taskVars, asyncVars, promiseVars, statVars
  <2> QED
    BY <1>6, <2>1, <2>2 DEF drain, gracefulDispose, GracefulResume
<1>7. CASE dispose
  BY <1>7, DisposeSInv DEF dispose
<1>8. CASE clearMetrics
  BY <1>8, QuietSInv DEF clearMetrics, poolVars, taskVars, asyncVars, promiseVars
<1>9. CASE runGarbageCollection
  <2>1. tracked' \subseteq tracked
    BY <1>9 DEF runGarbageCollection
  <2> QED
    BY <1>9, <2>1, QuietSInv DEF runGarbageCollection, poolVars, taskVars, asyncVars, promiseVars
<1>10. CASE UNCHANGED vars
  BY <1>10, QuietSInv DEF vars, poolVars, taskVars, asyncVars, promiseVars, statVars
<1> QED
  BY <1>1, <1>2, <1>4, <1>5, <1>6, <1>7, <1>8, <1>9, <1>10 DEF Next

\* The counters that isAtCapacity and isIdle read are the sizes of the queues
\* and of the set of armed retry timers, and the statistics count the tasks
\* that ended since clearMetrics, whatever the limits.
THEOREM CountersAreExact ==
    Spec => [](QueueCounted /\ RetriesCounted /\ StatsAgree)
<1>1. IInv /\ SInv => QueueCounted /\ RetriesCounted /\ StatsAgree
  BY DEF IInv, SInv
<1>2. Spec => []SInv
  BY InitSInv, NextSInv, SpecIInv, PTL DEF Spec
<1> QED
  BY <1>1, <1>2, SpecIInv, PTL

\* Where no retry can find the queues full, a free slot beside a queued task
\* is one that a task waiting for its retry gave up, and whatever is settled
\* can be collected.  The other case is the one scheduler_stranded shows.
THEOREM SlotsStayAccounted == RetriesFit => (Spec => []SlotsAccounted)
<1> SUFFICES ASSUME RetriesFit PROVE Spec => []SlotsAccounted
  OBVIOUS
<1>1. IInv /\ SInv => SlotsAccounted
  BY DEF IInv, SInv, QueueCounted, RetriesCounted, StatsAgree, SlotsAccounted, CountersAgree
<1>2. Spec => []SInv
  BY InitSInv, NextSInv, SpecIInv, PTL DEF Spec
<1> QED
  BY <1>1, <1>2, SpecIInv, PTL

-----------------------------------------------------------------------------
(* The order of the queues *)

\* What NoOvertaking says of one step.
KeepsOrder ==
    \A t \in activeTasks' \ activeTasks, u \in queued' :
        /\ Priority[t] <= Priority[u]
        /\ Priority[t] = Priority[u] /\ u \in queued
              => t \in queued /\ arrival[t] < arrival[u]

\* No task is in a queue since after the last enqueueTask.
ArrivalsAgree == \A t \in Tasks : arrival[t] <= arrivals

\* enqueueTask is what changes arrival and arrivals, nothing else does.
LEMMA EnqueuedOrNot ==
    ASSUME Next
    PROVE  \/ UNCHANGED <<arrival, arrivals>>
           \/ \E t \in Tasks : enqueueTask(t)
<1>1. ASSUME NEW t \in Tasks, NEW state, StartOrEnqueue(t, state)
      PROVE  UNCHANGED <<arrival, arrivals>> \/ enqueueTask(t)
  BY <1>1 DEF StartOrEnqueue
<1>2. ASSUME NEW t \in Tasks, NEW fns, handleTaskError(t, fns) \/ handleTaskSuccess(t, fns)
      PROVE  UNCHANGED <<arrival, arrivals>>
  BY <1>2 DEF handleTaskError, handleTaskSuccess, RetryLater, FailForGood
<1>3. CASE \E t \in Tasks : Refuse(t)
  BY <1>3 DEF Refuse, poolVars
<1>4. CASE \E t \in Tasks : schedule(t)
  <2>1. PICK t \in Tasks : schedule(t)
    BY <1>4
  <2>2. StartOrEnqueue(t, [taskState EXCEPT ![t] = "PENDING"])
    BY <2>1 DEF schedule
  <2> QED
    BY <1>1, <2>2
<1>5. CASE \E t \in Tasks : RetryTimerFires(t)
  <2>1. PICK t \in Tasks : RetryTimerFires(t)
    BY <1>5
  <2>2. UNCHANGED <<arrival, arrivals>> \/ StartOrEnqueue(t, taskState)
    BY <2>1 DEF RetryTimerFires, poolVars
  <2> QED
    BY <1>1, <2>2
<1>6. CASE \E t \in Tasks, k \in 0..MaxRetries :
            AttemptSucceeds(t, k) \/ AttemptFails(t, k) \/ handleTaskTimeout(t, k)
  BY <1>2, <1>6 DEF AttemptSucceeds, AttemptFails, Ignored, handleTaskTimeout, poolVars
<1>7. CASE \E c \in Callers : drain(c) \/ gracefulDispose(c) \/ GracefulResume(c)
  BY <1>7 DEF drain, gracefulDispose, GracefulResume, DisposeEffect, poolVars
<1>8. CASE dispose \/ clearMetrics \/ runGarbageCollection
  BY <1>8 DEF dispose, DisposeEffect, clearMetrics, runGarbageCollection, poolVars
<1> QED
  BY <1>3, <1>4, <1>5, <1>6, <1>7, <1>8 DEF Next

\* So arrivals are counted.
LEMMA ArrivalsStayAgreed == Spec => []ArrivalsAgree
<1>1. Init => ArrivalsAgree
  BY DEF Init, ArrivalsAgree
<1>2. ASSUME IInv, ArrivalsAgree, [Next]_vars PROVE ArrivalsAgree'
  <2>1. arrivals \in Nat /\ \A t \in Tasks : arrival[t] \in Nat
    BY <1>2 DEF IInv, TypeOK
  <2>2. CASE UNCHANGED <<arrival, arrivals>>
    BY <1>2, <2>2 DEF ArrivalsAgree
  <2>3. ASSUME NEW t \in Tasks, enqueueTask(t) PROVE ArrivalsAgree'
    <3>1. /\ arrivals' = arrivals + 1
          /\ \A u \in Tasks : arrival'[u] = IF u = t THEN arrivals ELSE arrival[u]
      BY <1>2, <2>3 DEF enqueueTask, IInv, TypeOK
    <3>2. \A u \in Tasks : arrival[u] <= arrivals
      BY <1>2 DEF ArrivalsAgree
    <3>3. \A u \in Tasks : arrival'[u] <= arrivals'
      BY <2>1, <3>1, <3>2
    <3> QED
      BY <3>3 DEF ArrivalsAgree
  <2>4. CASE UNCHANGED vars
    BY <2>2, <2>4 DEF vars, poolVars
  <2> QED
    BY <1>2, <2>2, <2>3, <2>4, EnqueuedOrNot
<1> QED
  BY <1>1, <1>2, SpecIInv, PTL DEF Spec

\* processQueue starts the first of the waiting tasks; those that were queued
\* before keep their place among them, and a new one comes after them.
LEMMA QueueKeepsOrder ==
    ASSUME NEW state, NEW fns, NEW armed, NEW count,
           NEW active \in SUBSET activeTasks, NEW waiting \in SUBSET Tasks,
           processQueue(state, active, waiting, count, fns, armed),
           \A t \in queued : arrival'[t] = arrival[t],
           \A t \in waiting \ queued, u \in queued : ~(arrival'[t] < arrival'[u])
    PROVE  KeepsOrder
<1>1. PICK S \in SUBSET waiting :
          /\ \A t \in S, u \in waiting \ S : Before(t, u)
          /\ queued' = waiting \ S
          /\ activeTasks' = active \union S
  BY DEF processQueue
<1> SUFFICES ASSUME NEW t \in activeTasks' \ activeTasks, NEW u \in queued'
             PROVE  /\ Priority[t] <= Priority[u]
                    /\ Priority[t] = Priority[u] /\ u \in queued
                          => t \in queued /\ arrival[t] < arrival[u]
  BY DEF KeepsOrder
<1>2. t \in S /\ u \in waiting \ S /\ t \in Tasks /\ u \in Tasks
  BY <1>1
<1>3. Before(t, u)
  BY <1>1, <1>2
<1>4. Priority[t] \in Nat /\ Priority[u] \in Nat
  BY <1>2, PriorityAssumption
<1>5. Priority[t] <= Priority[u] /\ (Priority[t] = Priority[u] => arrival'[t] < arrival'[u])
  BY <1>3, <1>4 DEF Before
<1>6. ASSUME Priority[t] = Priority[u], u \in queued
      PROVE  t \in queued /\ arrival[t] < arrival[u]
  <2>1. arrival'[t] < arrival'[u]
    BY <1>5, <1>6
  <2>2. t \in queued
    BY <1>2, <1>6, <2>1
  <2>3. arrival'[t] = arrival[t] /\ arrival'[u] = arrival[u]
    BY <1>6, <2>2
  <2> QED
    BY <2>1, <2>2, <2>3
<1> QED
  BY <1>5, <1>6

\* So does a task that starts at once, when nothing is queued.
LEMMA StartOrEnqueueKeepsOrder ==
    ASSUME IInv, ArrivalsAgree, NEW t \in Tasks, t \notin queued, NEW state,
           StartOrEnqueue(t, state)
    PROVE  KeepsOrder
<1>1. CASE HasFreeSlot(activeTasks) /\ queuedCount = 0
  <2>1. queued' = queued
    BY <1>1 DEF StartOrEnqueue
  <2>2. queued' = {}
    BY <1>1, <2>1, FS_EmptySet, FS_Subset, TasksAssumption DEF IInv, QueueCounted, TypeOK
  <2> QED
    BY <2>2 DEF KeepsOrder
<1>2. CASE ~(HasFreeSlot(activeTasks) /\ queuedCount = 0)
  <2>1. /\ processQueue(state, activeTasks, queued \union {t}, queuedCount + 1, attempts, timers)
        /\ arrival' = [arrival EXCEPT ![t] = arrivals]
    BY <1>2 DEF StartOrEnqueue, enqueueTask
  <2>2. queued \union {t} \in SUBSET Tasks /\ \A u \in queued : arrival'[u] = arrival[u]
    BY <2>1 DEF IInv, TypeOK
  <2>3. \A u \in queued : ~(arrival'[t] < arrival'[u])
    <3>1. /\ arrivals \in Nat /\ arrival'[t] = arrivals
          /\ \A u \in queued : arrival[u] \in Nat /\ arrival[u] <= arrivals
      BY <2>1 DEF IInv, TypeOK, ArrivalsAgree
    <3> QED
      BY <2>2, <3>1
  <2> QED
    BY <2>1, <2>2, <2>3, QueueKeepsOrder
<1> QED
  BY <1>1, <1>2

\* No task starts before one of a higher priority, nor before one of its own
\* that was queued earlier, also when it starts at once or when retries are
\* queued between new tasks.
THEOREM OrderIsKept == Spec => NoOvertaking
<1>1. IInv /\ ArrivalsAgree /\ [Next]_vars => KeepsOrder
  <2> SUFFICES ASSUME IInv, ArrivalsAgree, [Next]_vars PROVE KeepsOrder
    OBVIOUS
  <2>1. activeTasks \in SUBSET Tasks /\ queued \in SUBSET Tasks
    BY DEF IInv, TypeOK
  <2>2. CASE activeTasks' \subseteq activeTasks
    BY <2>2 DEF KeepsOrder
  <2>3. ASSUME NEW t \in Tasks, NEW fns, handleTaskError(t, fns) \/ handleTaskSuccess(t, fns)
        PROVE  KeepsOrder
    <3>1. CASE RetryLater(t, fns)
      BY <2>2, <3>1 DEF RetryLater
    <3>2. CASE FailForGood(t, fns) \/ handleTaskSuccess(t, fns)
      <4>1. UNCHANGED arrival
            /\ \E state : processQueue(state, activeTasks \ {t}, queued, queuedCount, fns, ClearTimer(t))
        BY <3>2 DEF FailForGood, handleTaskSuccess
      <4> QED
        BY <2>1, <4>1, QueueKeepsOrder
    <3> QED
      BY <2>3, <3>1, <3>2 DEF handleTaskError
  <2>4. CASE \E t \in Tasks : Refuse(t)
    BY <2>2, <2>4 DEF Refuse, poolVars
  <2>5. CASE \E t \in Tasks : schedule(t)
    <3>1. PICK t \in Tasks : schedule(t)
      BY <2>5
    <3>2. t \notin queued
      BY <3>1 DEF schedule, IInv, PendingIsSomewhere
    <3> QED
      BY <3>1, <3>2, StartOrEnqueueKeepsOrder DEF schedule
  <2>6. CASE \E t \in Tasks : RetryTimerFires(t)
    <3>1. PICK t \in Tasks : RetryTimerFires(t)
      BY <2>6
    <3>2. t \notin queued
      BY <3>1 DEF RetryTimerFires, IInv, PendingIsSomewhere
    <3> QED
      BY <2>2, <3>1, <3>2, StartOrEnqueueKeepsOrder DEF RetryTimerFires, poolVars
  <2>7. CASE \E t \in Tasks, k \in 0..MaxRetries :
              AttemptSucceeds(t, k) \/ AttemptFails(t, k) \/ handleTaskTimeout(t, k)
    BY <2>2, <2>3, <2>7 DEF AttemptSucceeds, AttemptFails, Ignored, handleTaskTimeout, poolVars
  <2>8. CASE \E c \in Callers : drain(c) \/ gracefulDispose(c) \/ GracefulResume(c)
    BY <2>2, <2>8 DEF drain, gracefulDispose, GracefulResume, DisposeEffect, poolVars
  <2>9. CASE dispose \/ clearMetrics \/ runGarbageCollection \/ UNCHANGED vars
    BY <2>2, <2>9 DEF dispose, DisposeEffect, clearMetrics, runGarbageCollection, vars, poolVars
  <2> QED
    BY <2>4, <2>5, <2>6, <2>7, <2>8, <2>9 DEF Next
<1> QED
  BY <1>1, SpecIInv, ArrivalsStayAgreed, PTL DEF Spec, NoOvertaking, KeepsOrder
=============================================================================
