---------------------------- MODULE EventEmitter ----------------------------
(***************************************************************************)
(* The buffering and dispatch of EventEmitter (event-emitter.ts of         *)
(* @axrone/event): pause, resume, flush, drain and dispose against         *)
(* listeners that take their time.                                         *)
(*                                                                         *)
(* emit is an async function: it runs at once up to its await, and its     *)
(* caller goes on when the scheduler has settled the calls of all          *)
(* listeners.  resume and flush start loops that await one emit after      *)
(* another; what other callers do between two rounds is the subject here.  *)
(*                                                                         *)
(* A listener runs up to its first await inside the call that emits its    *)
(* event.  What it does there is a step of its own after the emit, which   *)
(* schedules the calls of all listeners of the event at once; only in      *)
(* resume() does anything come after it in the same call, and while such a *)
(* call is on the stack nothing that awaits goes on.                       *)
(*                                                                         *)
(* An element of Events is one event with its payload, emitted by the user *)
(* at most once.  The scheduler is used through its contract: a scheduled  *)
(* call is settled in the end and dispose settles all calls by rejection   *)
(* (EventScheduler.tla).  captureRejections and weakReferences are off.    *)
(***************************************************************************)
EXTENDS Subsequences

CONSTANTS
    Events,       \* the events the user emits
    Name,         \* Name[e] is the name of event e
    Priority,     \* Priority[e] is 0 (high), 1 (normal) or 2 (low)
    Listeners,    \* the subscriptions, each made at most once
    ListensTo,    \* ListensTo[l] is the event name l subscribes to
    Once,         \* the subscriptions made by once()
    Throwing,     \* the listeners that may throw or reject
    Processors,   \* the runs of processBufferedEvents, started by resume()
    Flushers,     \* the calls of flush()
    FlushOf,      \* FlushOf[f] is the event name flush f is called with
    Drainers,     \* the calls of drain()
    BufferSize,   \* options.bufferSize, a bound for each event name
    MaxPauses,    \* bound: how often the user calls pause()
    MayDispose,   \* whether the user calls dispose()
    None          \* no run of processBufferedEvents

Names == {Name[e] : e \in Events}
Loops == Processors \union Flushers

ASSUME EventsAssumption ==
    /\ IsFiniteSet(Events) /\ IsFiniteSet(Listeners)
    /\ Priority \in [Events -> 0..2]
    /\ ListensTo \in [Listeners -> Names]
    /\ Once \subseteq Listeners /\ Throwing \subseteq Listeners
ASSUME BoundsAssumption ==
    /\ BufferSize \in Nat \ {0} /\ MaxPauses \in Nat /\ MayDispose \in BOOLEAN
    /\ FlushOf \in [Flushers -> Names]
    /\ None \notin Processors /\ Processors \intersect Flushers = {}
    /\ Processors \intersect {"idle", "scheduler", "resumed", "returned", "rejected"} = {}

VARIABLES
    isPaused, isDisposed,
    buffer,       \* the buffered events of all names in the order of their ids
    bufferedEventCount,
    bufferProcessing, \* the current run of processBufferedEvents, or None
    resuming,     \* the runs whose resume() has not returned, the innermost first
    hidden,       \* history: the runs whose place in bufferProcessing was taken
                  \* when an outer resume() returned
    fate,         \* where each event is, or how it ended
    subscribed,   \* the live subscriptions
    calls,        \* <<e, l>>: the scheduler still has the call of l for e
    loopAt,       \* where each run of resume or flush is
    awaited,      \* the event whose emit the loop awaits
    todo,         \* the events the loop has taken and not yet emitted
    wasPaused,    \* the local of flush()
    drainAt,      \* where each call of drain is, or the run it awaits
    heard,        \* history: the events each listener was called with
    pauses        \* how often pause() was called

pauseVars == <<isPaused, pauses>>
bufferVars == <<buffer, bufferedEventCount>>
runVars == <<bufferProcessing, resuming, hidden>>
loopVars == <<runVars, loopAt, awaited, todo, wasPaused>>
dispatchVars == <<fate, subscribed, calls, heard, isDisposed>>
vars == <<pauseVars, bufferVars, loopVars, dispatchVars, drainAt>>

Init ==
    /\ isPaused = FALSE /\ isDisposed = FALSE
    /\ buffer = <<>> /\ bufferedEventCount = 0
    /\ bufferProcessing = None /\ resuming = <<>> /\ hidden = {}
    /\ fate = [e \in Events |-> "new"]
    /\ subscribed = {}
    /\ calls = {}
    /\ loopAt = [l \in Loops |-> "unused"]
    /\ awaited = [l \in Loops |-> None]
    /\ todo = [l \in Loops |-> <<>>]
    /\ wasPaused = [f \in Flushers |-> FALSE]
    /\ drainAt = [d \in Drainers |-> "idle"]
    /\ heard = [l \in Listeners |-> {}]
    /\ pauses = 0

-----------------------------------------------------------------------------
(* Mutated forms, for the check that the properties detect plausible bugs *)

removeOnceSubscriptions_Never(S) == subscribed
deleteBucket_Kept(N) == buffer
MustProcess_EvenIfProcessing == bufferedEventCount # 0
ProcessingAfter_Kept(p) == bufferProcessing
DrainIsOver_SchedulerOnly == calls = {}

-----------------------------------------------------------------------------
(* Helpers *)

Named(N) == {e \in Events : Name[e] \in N}
BufferedOf(N) == Keep(buffer, Named(N))
BufferIsFull(n) == Len(BufferedOf({n})) >= BufferSize

\* The buffers of the names N are deleted, their events are no longer counted.
deleteBucket(N) == Keep(buffer, Events \ Named(N))
clearedCount(N) == bufferedEventCount - Len(BufferedOf(N))

\* By priority, then by id.
OfPriority(p) == {e \in Events : Priority[e] = p}

getQueuedEvents(s) ==
    Keep(s, OfPriority(0)) \o Keep(s, OfPriority(1)) \o Keep(s, OfPriority(2))

snapshotListeners(e) == {l \in subscribed : ListensTo[l] = Name[e]}
removeOnceSubscriptions(S) == subscribed \ (S \intersect Once)

\* The rest of emit when it is not paused.  before is fate as the caller
\* leaves it.  Listeners get their calls in a scheduler of their own if the
\* emitter had been disposed (ensureRuntime).
Dispatch(e, before) ==
    LET S == snapshotListeners(e)
    IN  /\ fate' = [before EXCEPT ![e] = IF S = {} THEN "unheard" ELSE "flying"]
        /\ subscribed' = removeOnceSubscriptions(S)
        /\ calls' = calls \union {<<e, l>> : l \in S}
        /\ heard' = [l \in Listeners |-> IF l \in S THEN heard[l] \union {e} ELSE heard[l]]
        /\ isDisposed' = FALSE

\* enqueueBufferedEvent; overflow is the fate of an event that finds no room.
Enqueue(e, overflow) ==
    /\ IF BufferIsFull(Name[e])
       THEN /\ fate' = [fate EXCEPT ![e] = overflow]
            /\ UNCHANGED bufferVars
       ELSE /\ fate' = [fate EXCEPT ![e] = "buffered"]
            /\ buffer' = Append(buffer, e)
            /\ bufferedEventCount' = bufferedEventCount + 1
    /\ isDisposed' = FALSE
    /\ UNCHANGED <<subscribed, calls, heard>>

-----------------------------------------------------------------------------
(* Subscriptions *)

on(l) ==
    /\ heard[l] = {} /\ l \notin subscribed
    /\ subscribed' = subscribed \union {l}
    /\ isDisposed' = FALSE
    /\ UNCHANGED <<pauseVars, bufferVars, loopVars, fate, calls, heard, drainAt>>

\* off by id or callback, or removeAllListeners: a call already scheduled for
\* a removed listener is still made.
off(S) ==
    /\ S # {} /\ S \subseteq subscribed
    /\ subscribed' = subscribed \ S
    /\ UNCHANGED <<pauseVars, bufferVars, loopVars, fate, calls, heard, isDisposed, drainAt>>

-----------------------------------------------------------------------------
(* emit, pause, resume, flush *)

emit(e) ==
    /\ fate[e] = "new"
    /\ \/ isPaused /\ Enqueue(e, "refused")
       \/ ~isPaused /\ Dispatch(e, fate) /\ UNCHANGED bufferVars
    /\ UNCHANGED <<pauseVars, loopVars, drainAt>>

\* emitSync calls the listeners itself; a listener that throws ends it, and
\* those after it are not called though once() subscriptions are gone.
emitSync(e) ==
    /\ fate[e] = "new"
    /\ \/ isPaused /\ Enqueue(e, "refused")
       \/ /\ ~isPaused
          /\ LET S == snapshotListeners(e)
             IN  /\ subscribed' = removeOnceSubscriptions(S)
                 /\ \E called \in SUBSET S, thrown \in BOOLEAN :
                       /\ thrown => called \intersect Throwing # {}
                       /\ ~thrown => called = S
                       /\ fate' = [fate EXCEPT ![e] =
                             IF S = {} THEN "unheard" ELSE IF thrown THEN "failed" ELSE "done"]
                       /\ heard' = [l \in Listeners |->
                             IF l \in called THEN heard[l] \union {e} ELSE heard[l]]
                 /\ isDisposed' = FALSE
          /\ UNCHANGED <<bufferVars, calls>>
    /\ UNCHANGED <<pauseVars, loopVars, drainAt>>

pause ==
    /\ pauses < MaxPauses
    /\ isPaused' = TRUE /\ pauses' = pauses + 1
    /\ isDisposed' = FALSE
    /\ UNCHANGED <<bufferVars, loopVars, fate, subscribed, calls, heard, drainAt>>

\* Loop l takes the events of q and emits the first: it runs at once up to the
\* await of that emit.
TakeAndEmitFirst(l, q) ==
    LET taken == [e \in Events |-> IF e \in Elements(q) THEN "taken" ELSE fate[e]]
    IN  /\ Dispatch(Head(q), taken)
        /\ todo' = [todo EXCEPT ![l] = Tail(q)]
        /\ awaited' = [awaited EXCEPT ![l] = Head(q)]
        /\ loopAt' = [loopAt EXCEPT ![l] =
                         IF snapshotListeners(Head(q)) = {} THEN "ready" ELSE "awaiting"]

\* Continuations are microtasks, which wait for the calls on the stack to return.
StackIsEmpty == resuming = <<>>

\* resume starts a run of processBufferedEvents unless one is in progress.
MustProcess == bufferedEventCount # 0 /\ bufferProcessing = None

resume ==
    /\ isPaused
    /\ isPaused' = FALSE
    /\ ~MustProcess
    /\ UNCHANGED <<pauses, bufferVars, loopVars, dispatchVars, drainAt>>

\* The listeners of its first event run before bufferProcessing is set, and may
\* pause, emit and resume themselves.
ResumeAndProcess(p) ==
    /\ isPaused
    /\ isPaused' = FALSE
    /\ MustProcess
    /\ loopAt[p] = "unused"
    /\ buffer' = deleteBucket(Names)
    /\ bufferedEventCount' = 0
    /\ TakeAndEmitFirst(p, getQueuedEvents(buffer))
    /\ \/ /\ snapshotListeners(Head(getQueuedEvents(buffer))) # {}
          /\ resuming' = <<p>> \o resuming
          /\ UNCHANGED bufferProcessing
       \/ /\ snapshotListeners(Head(getQueuedEvents(buffer))) = {}
          /\ bufferProcessing' = p
          /\ UNCHANGED resuming
    /\ UNCHANGED <<pauses, wasPaused, hidden, drainAt>>

\* The innermost resume() records its run, over one that was recorded meanwhile.
ResumeReturns ==
    /\ ~StackIsEmpty
    /\ bufferProcessing' = Head(resuming)
    /\ hidden' = hidden \union ({bufferProcessing} \ {None})
    /\ resuming' = Tail(resuming)
    /\ UNCHANGED <<pauseVars, bufferVars, dispatchVars, loopAt, awaited, todo,
                   wasPaused, drainAt>>

\* flush from the point where no run of processBufferedEvents is awaited.
FlushBuffered(f) ==
    LET N == {FlushOf[f]}
    IN  IF BufferedOf(N) = <<>>
        THEN /\ loopAt' = [loopAt EXCEPT ![f] = "done"]
             /\ UNCHANGED <<isPaused, wasPaused, bufferVars, dispatchVars, awaited, todo>>
        ELSE /\ buffer' = deleteBucket(N)
             /\ bufferedEventCount' = clearedCount(N)
             /\ wasPaused' = [wasPaused EXCEPT ![f] = isPaused]
             /\ isPaused' = FALSE
             /\ TakeAndEmitFirst(f, getQueuedEvents(BufferedOf(N)))

flush(f) ==
    /\ loopAt[f] = "unused"
    /\ IF bufferProcessing # None
       THEN /\ loopAt' = [loopAt EXCEPT ![f] = "blocked"]
            /\ awaited' = [awaited EXCEPT ![f] = bufferProcessing]
            /\ UNCHANGED <<isPaused, wasPaused, bufferVars, dispatchVars, todo>>
       ELSE FlushBuffered(f)
    /\ UNCHANGED <<pauses, runVars, drainAt>>

\* The run of processBufferedEvents that flush awaits is settled.
FlushResumes(f) ==
    /\ StackIsEmpty /\ loopAt[f] = "blocked"
    /\ \/ loopAt[awaited[f]] = "done" /\ FlushBuffered(f)
       \/ /\ loopAt[awaited[f]] = "failed"
          /\ loopAt' = [loopAt EXCEPT ![f] = "failed"]
          /\ UNCHANGED <<isPaused, wasPaused, bufferVars, dispatchVars, awaited, todo>>
    /\ UNCHANGED <<pauses, runVars, drainAt>>

-----------------------------------------------------------------------------
(* The rounds of the loops *)

\* The awaited emit returned and events are left: emit the next.  When the
\* emitter was paused meanwhile the event is buffered again under a new id,
\* or finds the buffer full.
LoopEmitsNext(l) ==
    /\ StackIsEmpty /\ loopAt[l] = "ready" /\ todo[l] # <<>>
    /\ LET e == Head(todo[l])
       IN  /\ \/ isPaused /\ Enqueue(e, "overflow")
              \/ ~isPaused /\ Dispatch(e, fate) /\ UNCHANGED bufferVars
           /\ awaited' = [awaited EXCEPT ![l] = e]
           /\ loopAt' = [loopAt EXCEPT ![l] =
                            IF fate'[e] = "flying" THEN "awaiting"
                            ELSE IF fate'[e] = "overflow" THEN "broken" ELSE "ready"]
    /\ todo' = [todo EXCEPT ![l] = Tail(@)]
    /\ UNCHANGED <<pauseVars, runVars, wasPaused, drainAt>>

\* The loop ends: flush sets isPaused back, processBufferedEvents has its
\* finally callback still to come.
LoopEnds(l) ==
    /\ StackIsEmpty /\ loopAt[l] = "ready" /\ todo[l] = <<>>
    /\ loopAt' = [loopAt EXCEPT ![l] = IF l \in Flushers THEN "done" ELSE "ending"]
    /\ isPaused' = IF l \in Flushers THEN wasPaused[l] ELSE isPaused
    /\ UNCHANGED <<pauses, bufferVars, runVars, awaited, todo,
                   wasPaused, dispatchVars, drainAt>>

\* The awaited emit rejected: the events not yet emitted are dropped.
LoopBreaks(l) ==
    /\ StackIsEmpty /\ loopAt[l] = "broken"
    /\ loopAt' = [loopAt EXCEPT ![l] = IF l \in Flushers THEN "failed" ELSE "failing"]
    /\ fate' = [e \in Events |-> IF e \in Elements(todo[l]) THEN "lost" ELSE fate[e]]
    /\ todo' = [todo EXCEPT ![l] = <<>>]
    /\ isPaused' = IF l \in Flushers THEN wasPaused[l] ELSE isPaused
    /\ UNCHANGED <<pauses, bufferVars, runVars, awaited, wasPaused,
                   subscribed, calls, heard, isDisposed, drainAt>>

\* The finally callback of resume, unless another run has taken the place of p.
ProcessingAfter(p) == IF bufferProcessing = p THEN None ELSE bufferProcessing

ProcessingSettles(p) ==
    /\ StackIsEmpty /\ loopAt[p] \in {"ending", "failing"}
    /\ loopAt' = [loopAt EXCEPT ![p] = IF @ = "ending" THEN "done" ELSE "failed"]
    /\ bufferProcessing' = ProcessingAfter(p)
    /\ UNCHANGED <<pauseVars, bufferVars, dispatchVars, resuming, hidden, awaited, todo,
                   wasPaused, drainAt>>

-----------------------------------------------------------------------------
(* The calls of listeners, drain, clearBuffer, dispose *)

\* Loops that await the emit of an event of E go on as outcome says.
Wake(E, outcome) ==
    [l \in Loops |-> IF loopAt[l] = "awaiting" /\ awaited[l] \in E THEN outcome ELSE loopAt[l]]

\* drain() callers that wait for the scheduler go on when it is idle.
WakeDrainers ==
    [d \in Drainers |-> IF drainAt[d] = "scheduler" THEN "resumed" ELSE drainAt[d]]

CallSettles(e, l) ==
    /\ StackIsEmpty /\ <<e, l>> \in calls
    /\ calls' = calls \ {<<e, l>>}
    /\ drainAt' = IF calls' = {} THEN WakeDrainers ELSE drainAt
    /\ UNCHANGED <<pauseVars, bufferVars, subscribed, heard, isDisposed,
                   runVars, awaited, todo, wasPaused>>

CallReturns(e, l) ==
    /\ CallSettles(e, l)
    /\ IF fate[e] = "flying" /\ \A k \in Listeners : <<e, k>> \notin calls'
       THEN fate' = [fate EXCEPT ![e] = "done"] /\ loopAt' = Wake({e}, "ready")
       ELSE UNCHANGED <<fate, loopAt>>

\* The listener threw, rejected, or its task timed out: emit rejects at once,
\* other listeners of the event are still called.
CallThrows(e, l) ==
    /\ l \in Throwing
    /\ CallSettles(e, l)
    /\ IF fate[e] = "flying"
       THEN fate' = [fate EXCEPT ![e] = "failed"] /\ loopAt' = Wake({e}, "broken")
       ELSE UNCHANGED <<fate, loopAt>>

\* One round of drain: await the run in progress, else the scheduler.
DrainRound ==
    IF bufferProcessing # None THEN bufferProcessing
    ELSE IF calls = {} THEN "resumed" ELSE "scheduler"

DrainIsOver == bufferProcessing = None /\ calls = {}

drain(d) ==
    /\ drainAt[d] = "idle"
    /\ drainAt' = [drainAt EXCEPT ![d] = DrainRound]
    /\ UNCHANGED <<pauseVars, bufferVars, loopVars, dispatchVars>>

DrainGoesOn(d) ==
    /\ StackIsEmpty
    /\ \/ /\ drainAt[d] = "resumed"
          /\ drainAt' = [drainAt EXCEPT ![d] = IF DrainIsOver THEN "returned" ELSE DrainRound]
       \/ /\ drainAt[d] \in Processors
          /\ loopAt[drainAt[d]] \in {"done", "failed"}
          /\ drainAt' = [drainAt EXCEPT ![d] =
                IF loopAt[@] = "failed" THEN "rejected" ELSE DrainRound]
    /\ UNCHANGED <<pauseVars, bufferVars, loopVars, dispatchVars>>

\* clearBuffer of one event name, or of all.
clearBuffer(N) ==
    /\ BufferedOf(N) # <<>>
    /\ buffer' = deleteBucket(N)
    /\ bufferedEventCount' = clearedCount(N)
    /\ fate' = [e \in Events |-> IF e \in Elements(BufferedOf(N)) THEN "cleared" ELSE fate[e]]
    /\ UNCHANGED <<pauseVars, loopVars, subscribed, calls, heard, isDisposed, drainAt>>

\* The loops are not stopped: one whose emit was in flight gets a rejection,
\* one between two rounds emits its next event on a revived emitter.
dispose ==
    /\ MayDispose /\ ~isDisposed
    /\ isDisposed' = TRUE
    /\ calls' = {}
    /\ subscribed' = {}
    /\ buffer' = <<>> /\ bufferedEventCount' = 0
    /\ bufferProcessing' = None
    /\ isPaused' = FALSE
    /\ LET flying == {e \in Events : fate[e] = "flying"}
       IN  /\ fate' = [e \in Events |-> IF e \in flying THEN "failed"
                                     ELSE IF e \in Elements(buffer) THEN "cleared"
                                     ELSE fate[e]]
           /\ loopAt' = Wake(flying, "broken")
    /\ drainAt' = WakeDrainers
    /\ UNCHANGED <<pauses, resuming, hidden, awaited, todo, wasPaused, heard>>

Next ==
    \/ \E l \in Listeners : on(l)
    \/ \E S \in SUBSET subscribed : off(S)
    \/ \E e \in Events : emit(e) \/ emitSync(e)
    \/ pause \/ resume \/ ResumeReturns \/ dispose
    \/ \E p \in Processors : ResumeAndProcess(p) \/ ProcessingSettles(p)
    \/ \E f \in Flushers : flush(f) \/ FlushResumes(f)
    \/ \E l \in Loops : LoopEmitsNext(l) \/ LoopEnds(l) \/ LoopBreaks(l)
    \/ \E e \in Events, l \in Listeners : CallReturns(e, l) \/ CallThrows(e, l)
    \/ \E d \in Drainers : drain(d) \/ DrainGoesOn(d)
    \/ \E n \in Names : clearBuffer({n})
    \/ clearBuffer(Names)

Spec == Init /\ [][Next]_vars

\* Listeners return to resume(), continuations run, and the scheduler settles every
\* call (its tasks time out), see AcceptedIsSettled in EventScheduler.
Fairness ==
    /\ WF_vars(ResumeReturns)
    /\ \A l \in Loops : WF_vars(LoopEmitsNext(l) \/ LoopEnds(l) \/ LoopBreaks(l))
    /\ \A p \in Processors : WF_vars(ProcessingSettles(p))
    /\ \A e \in Events, l \in Listeners : WF_vars(CallReturns(e, l) \/ CallThrows(e, l))
    /\ \A f \in Flushers : WF_vars(FlushResumes(f))
    /\ \A d \in Drainers : WF_vars(DrainGoesOn(d))

FairSpec == Spec /\ Fairness

-----------------------------------------------------------------------------
(* Properties *)

Fates == {"new", "buffered", "taken", "flying", "done", "failed", "unheard",
          "refused", "overflow", "lost", "cleared"}

RunsTyped ==
    /\ bufferProcessing \in Processors \union {None}
    /\ resuming \in Seq(Processors) /\ hidden \subseteq Processors

TypeOK ==
    /\ isPaused \in BOOLEAN /\ isDisposed \in BOOLEAN
    /\ buffer \in Seq(Events) /\ bufferedEventCount \in Nat
    /\ RunsTyped
    /\ fate \in [Events -> Fates]
    /\ subscribed \subseteq Listeners
    /\ calls \subseteq Events \X Listeners
    /\ loopAt \in [Loops -> {"unused", "blocked", "awaiting", "ready", "broken",
                             "ending", "failing", "done", "failed"}]
    /\ todo \in [Loops -> Seq(Events)]
    /\ heard \in [Listeners -> SUBSET Events]

\* bufferedEventCount, which resume and getPendingCount read, is the number of
\* buffered events, and no event name has more than bufferSize of them,
\* however events are buffered again, flushed and cleared by several callers.
BufferAccounted ==
    /\ bufferedEventCount = Len(buffer)
    /\ \A n \in Names : Len(BufferedOf({n})) <= BufferSize

\* An event is in one place: buffered once, or in the hands of one loop, or
\* with the scheduler, or it has ended.  It is never emitted by two loops.
EventInOnePlace ==
    \A e \in Events :
        /\ Cardinality({i \in 1..Len(buffer) : buffer[i] = e})
              = (IF fate[e] = "buffered" THEN 1 ELSE 0)
        /\ Cardinality({at \in Loops \X (1..Cardinality(Events)) :
                            at[2] <= Len(todo[at[1]]) /\ todo[at[1]][at[2]] = e})
              = (IF fate[e] = "taken" THEN 1 ELSE 0)
        /\ fate[e] = "flying" => \E l \in Listeners : <<e, l>> \in calls

\* A loop never awaits an event while one of higher priority, buffered with it,
\* is still to be emitted, under whatever names the two were buffered.
LoopsFollowPriority ==
    \A l \in Loops : \A i \in 1..Len(todo[l]) :
        loopAt[l] = "awaiting" => Priority[awaited[l]] <= Priority[todo[l][i]]

\* The account of the buffer, the place of every event and the order in which
\* the loops take them agree at all times.
EventsAccounted == TypeOK /\ BufferAccounted /\ EventInOnePlace /\ LoopsFollowPriority

\* A listener subscribed by once() is called at most once, also when several
\* emits overlap.
OnceIsOnce == \A l \in Once : Cardinality(heard[l]) <= 1

\* As long as the emitter is not disposed, resume() tests bufferProcessing in vain
\* only for runs that it is still starting, further up the stack, and for those
\* that an outer resume() hid when it returned: each other run in progress is the
\* one that bufferProcessing names.
OneProcessor ==
    \A p \in Processors :
        loopAt[p] \in {"awaiting", "ready", "broken", "ending", "failing"}
            => bufferProcessing = p \/ p \in Elements(resuming) \/ p \in hidden

\* When drain() returns, no listener is running and no event taken by resume()
\* is still to be emitted, whatever was emitted and resumed while it waited,
\* but for what a hidden run still holds.
DrainCompletes ==
    [][\A d \in Drainers :
          drainAt[d] # "returned" /\ drainAt'[d] = "returned"
              => /\ \A e \in Events : fate[e] # "flying"
                 /\ \A p \in Processors \ hidden : todo[p] = <<>>]_vars

\* When drain() returns, no listener is running or still to be called for an event
\* that resume() took.
DrainHearsAll ==
    [][\A d \in Drainers :
          drainAt[d] # "returned" /\ drainAt'[d] = "returned"
              => \A e \in Events :
                    /\ fate[e] # "flying"
                    /\ fate[e] = "taken" => snapshotListeners(e) = {}]_vars

\* When drain() returns and the emitter is not paused, nothing is buffered.
DrainEmptiesBuffer ==
    [][\A d \in Drainers :
          drainAt[d] # "returned" /\ drainAt'[d] = "returned" /\ ~isPaused
              => buffer = <<>>]_vars

\* Every call of drain() ends.
DrainReturns ==
    \A d \in Drainers : drainAt[d] # "idle" ~> drainAt[d] \in {"returned", "rejected"}
=============================================================================
