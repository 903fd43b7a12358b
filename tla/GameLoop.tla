------------------------------ MODULE GameLoop ------------------------------
(***************************************************************************)
(* The game loop (packages/game-loop) with its runner of systems.  A frame *)
(* is one synchronous call of the frame scheduler, but the hooks of the    *)
(* systems it runs may call the loop back: every operation can happen      *)
(* between frames and inside each hook.  dispose() calls the dispose hooks *)
(* between its two halves, and there as well.  Time is counted in whole    *)
(* units, timeScale is 1, all systems are enabled and have all hooks, and  *)
(* the frame scheduler never fails to cancel a frame.                      *)
(***************************************************************************)
EXTENDS Integers, Sequences, FiniteSets, Subsequences

CONSTANTS
    Systems,       \* system objects, each added at most once
    IdOf(_), Priority(_),
    FixedDelta, MaxDelta, MaxSubSteps,
    RetryAttempts, \* option retry.attempts
    MaxElapsed,    \* bound: time the loop may run
    MaxOperations  \* bound: operations other than frames

LoopAssumption ==
    /\ {FixedDelta, MaxDelta, MaxSubSteps} \subseteq Nat \ {0} /\ RetryAttempts \in Nat
    /\ \A s \in Systems : Priority(s) \in Int

VARIABLES
    status,      \* _status
    registered,  \* _systems, in the order of registration
    sorted,      \* _sortedSystems
    dirty,       \* _systemsDirty
    retired,     \* systems that were taken out, and their dispose() called
    accumulator, elapsed,
    ticking,     \* _lastTimestamp is not null
    scheduled,   \* _scheduledFrame: a request, or 0
    requests,    \* the requests the frame scheduler has
    refused,     \* the running loop was left without a frame: the scheduler refused
                 \* the last request, or a dispose() that cancelled it did not end
    revived,     \* history: the last request was made by a dispose hook of dispose()
    disposed,    \* _disposed
    disposing,   \* calls of dispose() on the stack
    frame,       \* where the frame under way stands
    spent,       \* time given to fixed updates, dropped, and forgotten
    operations   \* operations so far

frameVars == <<status, disposed, accumulator, elapsed, ticking, scheduled, requests, refused,
               revived, spent>>
systemVars == <<registered, sorted, dirty, retired>>
callVars == <<disposing, operations>>
loopVars == <<frameVars, systemVars, frame, callVars>>

Requests == 1..2
Phases == {"before-update", "fixed-update", "update", "render", "after-frame"}
noFrame == [phase |-> "none", todo |-> <<>>, hook |-> {}, attempt |-> 0, steps |-> 0]
LoopTypeOK ==
    /\ status \in {"idle", "running", "paused", "stopped", "disposed"}
    /\ registered \in Seq(Systems) /\ sorted \in Seq(Systems) /\ retired \subseteq Systems
    /\ dirty \in BOOLEAN /\ disposed \in BOOLEAN
    /\ accumulator \in Nat /\ elapsed \in Nat /\ ticking \in BOOLEAN
    /\ scheduled \in Requests \cup {0} /\ requests \subseteq Requests
    /\ refused \in BOOLEAN /\ revived \in BOOLEAN /\ disposing \in Nat
    /\ frame \in [phase : Phases \cup {"none"}, todo : Seq(Systems), hook : SUBSET Systems,
                  attempt : Nat, steps : Nat]
    /\ spent \in [fixed : Nat, dropped : Nat, forgotten : Nat]

LoopInit ==
    /\ status = "idle" /\ registered = <<>> /\ sorted = <<>> /\ dirty = FALSE
    /\ retired = {} /\ accumulator = 0 /\ elapsed = 0 /\ ticking = FALSE
    /\ scheduled = 0 /\ requests = {} /\ refused = FALSE /\ frame = noFrame
    /\ disposed = FALSE /\ revived = FALSE /\ disposing = 0
    /\ spent = [fixed |-> 0, dropped |-> 0, forgotten |-> 0] /\ operations = 0

-----------------------------------------------------------------------------
(* Mutated forms, for the check that the properties detect plausible bugs   *)

stillRequested_All == requests
isRegistered_Always(s) == TRUE

-----------------------------------------------------------------------------
(* Frames and their requests                                               *)

\* _scheduleNextFrame for a loop whose status is running: the scheduler may throw.
requestFrame(s, rs) ==
    IF s # 0 THEN scheduled' = s /\ requests' = rs /\ UNCHANGED <<refused, revived>>
    ELSE \/ /\ scheduled' \in Requests \ rs
            /\ requests' = rs \cup {scheduled'} /\ refused' = FALSE
            /\ revived' = (disposing # 0)
         \/ scheduled' = 0 /\ requests' = rs /\ refused' = TRUE /\ UNCHANGED revived

\* _cancelScheduledFrame.
stillRequested == requests \ {scheduled}
cancelFrame == scheduled' = 0 /\ requests' = stillRequested /\ UNCHANGED <<refused, revived>>

forget == [spent EXCEPT !.forgotten = @ + accumulator]

\* The systems of a phase, by priority and then in the order of registration.
Before(ss, s, t) ==
    \/ Priority(s) > Priority(t)
    \/ /\ Priority(s) = Priority(t)
       /\ \E i, j \in 1..Len(ss) : i < j /\ ss[i] = s /\ ss[j] = t
Earlier(ss, s) == {t \in Elements(ss) : Before(ss, t, s)}
byPriority(ss) ==
    [k \in 1..Len(ss) |-> CHOOSE s \in Elements(ss) : Cardinality(Earlier(ss, s)) = k - 1]
sortedSystems == IF dirty THEN byPriority(registered) ELSE sorted

enter(phase, steps) ==
    /\ frame' = [noFrame EXCEPT !.phase = phase, !.todo = sortedSystems, !.steps = steps]
    /\ sorted' = sortedSystems /\ dirty' = FALSE /\ UNCHANGED <<registered, retired>>

\* The scheduler calls _handleFrame; a frame requested before the loop left the
\* state running does nothing.
FrameFires(r, delta) ==
    /\ frame.phase = "none" /\ disposing = 0 /\ r \in requests /\ requests' = requests \ {r}
    /\ scheduled' = 0
    /\ IF status = "running"
       THEN /\ delta <= IF ticking THEN MaxDelta ELSE 0
            /\ elapsed + delta <= MaxElapsed
            /\ elapsed' = elapsed + delta /\ accumulator' = accumulator + delta
            /\ ticking' = TRUE
            /\ enter("before-update", 0)
       ELSE delta = 0 /\ UNCHANGED <<elapsed, accumulator, ticking, frame, systemVars>>
    /\ UNCHANGED <<status, disposed, refused, revived, spent, callVars>>

InPhase == frame.phase # "none" /\ frame.hook = {} /\ disposing = 0

\* A hook left the state running: the frame ends, without another request.
FrameBreaksOff ==
    /\ InPhase /\ status # "running"
    /\ frame' = noFrame
    /\ UNCHANGED <<frameVars, systemVars, callVars>>

registeredIds == {IdOf(t) : t \in Elements(registered)}

\* invokePhase takes the next system, if its id is still registered.
isRegistered(s) == IdOf(s) \in registeredIds
InvokeSystem ==
    LET s == Head(frame.todo) IN
    /\ InPhase /\ status = "running" /\ frame.todo # <<>>
    /\ frame' = [frame EXCEPT !.todo = Tail(@), !.attempt = 1,
                              !.hook = IF isRegistered(s) THEN {s} ELSE {}]
    /\ UNCHANGED <<frameVars, systemVars, callVars>>

\* The phase is over.  Fixed updates repeat until the accumulated time is used up
\* or the limit is reached, when what is left is dropped but for a remainder.
StepIsDue(steps) == accumulator >= FixedDelta /\ steps < MaxSubSteps
remainder == accumulator % FixedDelta
afterPhase(phase) == IF phase = "update" THEN "render" ELSE "after-frame"
PhaseEnds ==
    /\ InPhase /\ status = "running" /\ frame.todo = <<>>
    /\ \/ /\ frame.phase \in {"before-update", "fixed-update"} /\ StepIsDue(frame.steps)
          /\ accumulator' = accumulator - FixedDelta
          /\ spent' = [spent EXCEPT !.fixed = @ + FixedDelta]
          /\ enter("fixed-update", frame.steps + 1)
          /\ UNCHANGED <<scheduled, requests, refused, revived>>
       \/ /\ frame.phase \in {"before-update", "fixed-update"} /\ ~StepIsDue(frame.steps)
          /\ accumulator' = remainder
          /\ spent' = [spent EXCEPT !.dropped = @ + (accumulator - remainder)]
          /\ enter("update", frame.steps)
          /\ UNCHANGED <<scheduled, requests, refused, revived>>
       \/ /\ frame.phase \in {"update", "render"}
          /\ enter(afterPhase(frame.phase), frame.steps)
          /\ UNCHANGED <<accumulator, spent, scheduled, requests, refused, revived>>
       \/ /\ frame.phase = "after-frame"
          /\ frame' = noFrame
          /\ requestFrame(scheduled, requests)
          /\ UNCHANGED <<accumulator, spent, systemVars>>
    /\ UNCHANGED <<status, disposed, elapsed, ticking, callVars>>

InHook == frame.hook # {} /\ disposing = 0

HookReturns ==
    /\ InHook /\ frame' = [frame EXCEPT !.hook = {}]
    /\ UNCHANGED <<frameVars, systemVars, callVars>>

-----------------------------------------------------------------------------
(* Pausing, stopping and failing                                           *)

pause ==
    IF status = "running"
    THEN /\ status' = "paused" /\ ticking' = FALSE /\ cancelFrame
         /\ UNCHANGED <<disposed, accumulator, elapsed, spent>>
    ELSE UNCHANGED frameVars

stop ==
    IF status # "stopped"
    THEN /\ status' = "stopped" /\ ticking' = FALSE /\ cancelFrame
         /\ accumulator' = 0 /\ spent' = forget
         /\ UNCHANGED <<disposed, elapsed>>
    ELSE UNCHANGED frameVars

\* _invokeSystem tries a hook again, whatever it did to the loop before it threw.
MayRetry == frame.attempt < RetryAttempts + 1
HookIsRetried ==
    /\ InHook /\ MayRetry
    /\ frame' = [frame EXCEPT !.attempt = @ + 1]
    /\ UNCHANGED <<frameVars, systemVars, callVars>>

\* _handleSystemFailure, when no attempt is left or shouldRetry declines: errorPolicy,
\* or what onError answers in its place, is to continue, pause or stop.
FailureIsHandled ==
    /\ InHook
    /\ UNCHANGED frameVars \/ (~disposed /\ pause) \/ (~disposed /\ stop)
    /\ frame' = [frame EXCEPT !.hook = {}]
    /\ UNCHANGED <<systemVars, callVars>>

\* An error leaves the frame: the policy is to throw, or a disposed loop refuses to
\* be paused or stopped.  _handleFrame stops the loop and keeps a frame a hook has requested.
FailureLeavesFrame ==
    /\ InHook
    /\ frame' = noFrame
    /\ status' = "stopped" /\ ticking' = FALSE /\ accumulator' = 0 /\ spent' = forget
    /\ UNCHANGED <<disposed, elapsed, scheduled, requests, refused, revived, systemVars, callVars>>

-----------------------------------------------------------------------------
(* Operations, between frames or from inside a hook                        *)

Callable == (frame.phase = "none" \/ frame.hook # {}) /\ operations < MaxOperations
counted == operations' = operations + 1 /\ UNCHANGED <<frame, disposing>>

\* start and resume, for a loop that is not running.
Start ==
    /\ Callable /\ ~disposed /\ status # "running" /\ counted
    /\ status' = "running" /\ ticking' = TRUE
    /\ requestFrame(scheduled, requests)
    /\ UNCHANGED <<disposed, accumulator, elapsed, spent, systemVars>>

Pause == Callable /\ ~disposed /\ status = "running" /\ counted /\ pause /\ UNCHANGED systemVars
Stop == Callable /\ ~disposed /\ counted /\ stop /\ UNCHANGED systemVars

\* restore, from the snapshot of a loop that had left a time unused.
Restore(st, unused) ==
    /\ Callable /\ ~disposed /\ counted
    /\ status' = st /\ ticking' = (st = "running")
    /\ accumulator' = unused /\ elapsed' = unused
    /\ spent' = [fixed |-> 0, dropped |-> 0, forgotten |-> 0]
    /\ IF st = "running" THEN requestFrame(0, stillRequested) ELSE cancelFrame
    /\ UNCHANGED <<disposed, systemVars>>

AddSystem(s) ==
    /\ Callable /\ ~disposed /\ s \notin retired /\ IdOf(s) \notin registeredIds
    /\ counted
    /\ registered' = Append(registered, s) /\ dirty' = TRUE
    /\ UNCHANGED <<sorted, retired, frameVars>>

RemoveSystem(s) ==
    /\ Callable /\ ~disposed /\ s \in Elements(registered) /\ counted
    /\ registered' = Keep(registered, Systems \ {s}) /\ dirty' = TRUE
    /\ retired' = retired \cup {s}
    /\ UNCHANGED <<sorted, frameVars>>

\* disposeAllSystems.
retireAll ==
    /\ registered' = <<>> /\ sorted' = <<>> /\ dirty' = FALSE
    /\ retired' = retired \cup Elements(registered)

ClearSystems == Callable /\ ~disposed /\ counted /\ retireAll /\ UNCHANGED frameVars

\* The second half of dispose.
finishDispose ==
    /\ status' = "disposed" /\ disposed' = TRUE /\ ticking' = FALSE
    /\ accumulator' = 0 /\ spent' = forget

\* dispose up to the first dispose hook, or as a whole if no system is registered.
DisposeLoop ==
    /\ Callable /\ ~disposed
    /\ cancelFrame /\ retireAll
    /\ \/ /\ registered = <<>> /\ counted /\ finishDispose
       \/ /\ registered # <<>>
          /\ disposing' = disposing + 1 /\ operations' = operations + 1
          /\ UNCHANGED <<status, disposed, ticking, accumulator, spent, frame>>
    /\ UNCHANGED elapsed

\* All dispose hooks have returned or thrown.
DisposeEnds ==
    /\ disposing # 0 /\ disposing' = disposing - 1
    /\ finishDispose
    /\ UNCHANGED <<elapsed, scheduled, requests, refused, revived, systemVars, frame, operations>>

\* onError throws on the error of a dispose hook: dispose ends where it is.
DisposeBreaksOff ==
    /\ disposing # 0 /\ disposing' = disposing - 1
    /\ refused' = (refused \/ (status = "running" /\ scheduled = 0))
    /\ UNCHANGED <<status, disposed, accumulator, elapsed, ticking, scheduled, requests, revived,
                   spent, systemVars, frame, operations>>

LoopNext ==
    \/ \E r \in requests, delta \in 0..MaxDelta : FrameFires(r, delta)
    \/ InvokeSystem \/ PhaseEnds \/ FrameBreaksOff
    \/ HookReturns \/ HookIsRetried \/ FailureIsHandled \/ FailureLeavesFrame
    \/ Start \/ Pause \/ Stop \/ ClearSystems
    \/ DisposeLoop \/ DisposeEnds \/ DisposeBreaksOff
    \/ \E st \in {"idle", "running", "paused", "stopped"}, unused \in 0..MaxDelta :
          Restore(st, unused)
    \/ \E s \in Systems : AddSystem(s) \/ RemoveSystem(s)

LoopSpec == LoopInit /\ [][LoopNext]_loopVars

-----------------------------------------------------------------------------
(* Correctness                                                             *)

\* Whatever hooks do to the loop, the scheduler has at most one request of it, the
\* one the loop knows; between frames, and while no dispose() is under way, a running
\* loop has one, unless the scheduler refused or dispose() threw; a loop that is idle
\* or paused has none, and a disposed one only that which a dispose hook made.
FramesFollowStatus ==
    /\ LoopTypeOK
    /\ requests = {scheduled} \ {0}
    /\ frame.phase = "none" /\ disposing = 0 /\ status = "running" => scheduled # 0 \/ refused
    /\ status \in {"idle", "paused"} => scheduled = 0
    /\ status = "disposed" => scheduled = 0 \/ revived

\* Time that passed while the loop ran is accumulated until fixed updates use it,
\* a frame drops it or a stop forgets it; no unit is used twice or vanishes, also
\* when hooks pause, stop and restart the loop in the middle of a frame.
TimeIsAccounted == elapsed = accumulator + spent.fixed + spent.dropped + spent.forgotten

\* Unless it is marked as dirty, the list that phases take is that of the systems
\* that are registered, by priority and then in the order of registration.
ListIsCurrent ==
    ~dirty => /\ Elements(sorted) = Elements(registered) /\ Len(sorted) = Len(registered)
              /\ \A i, j \in 1..Len(sorted) : i < j => Before(registered, sorted[i], sorted[j])

\* Frames, time and the list of systems agree with what was asked of the loop.
LoopAgrees == FramesFollowStatus /\ TimeIsAccounted /\ ListIsCurrent

\* A hook begins on a system that was taken out only where another system
\* was registered under its id meanwhile.
OnlyRegisteredRun ==
    [][\A s \in frame'.hook : s \notin frame.hook =>
          s \notin retired \/ \E t \in Elements(registered) : t # s /\ IdOf(t) = IdOf(s)]_loopVars
=============================================================================
