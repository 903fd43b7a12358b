------------------------- MODULE AnimationStreaming -------------------------
(***************************************************************************)
(* Chunks of an animation clip, loaded while it plays.  The Animator       *)
(* (components/animator.ts of @axrone/scene-runtime) keeps their states in *)
(* an AnimationClipStreamingScheduler (streaming.ts of @axrone/animation)  *)
(* and announces what it needs as events of the World; the                 *)
(* AnimationStreamingBridge (animation-streaming-bridge.ts) loads it.      *)
(*                                                                         *)
(* The model follows one entity id, which animators have one after another *)
(* since ids are reused: requests of different ids share nothing but       *)
(* waitForIdle.  Weights, ranges and reasons are left out, and the order   *)
(* of the requests of one update, which all go out at once.  An animator   *)
(* finds the nodes its clips move whenever it makes a controller.          *)
(* markStreamingChunkRequested, which announces nothing, is for callers    *)
(* that load the chunk themselves.                                         *)
(***************************************************************************)
EXTENDS Naturals, FiniteSets

CONSTANTS
    Chunks,          \* of the clip of every animator
    Waiters,         \* callers of waitForIdle
    MaxAnimators     \* bound: animators that get the entity id

StreamAssumption == MaxAnimators \in Nat

VARIABLES
    live,            \* the animator of the entity, a number, or 0
    born,            \* animators so far
    status,          \* chunkStates of its scheduler; "none" without a scheduler
    due,             \* by animator: after a reset, the chunks it will ask for
                     \* when its clips are looked at the next time
    bytes,           \* chunks whose bytes are in the clip definitions of the live one
    bridge,          \* "new", "started" or "disposed"
    inFlight,        \* keys of _inFlight
    tasks,           \* _inFlightTasks, by key: how far, and for which animator
    waiters,         \* _idleResolvers
    lost,            \* history: chunks requested of nobody, or whose load broke off
    overtaken        \* history: chunks whose bytes went to an earlier configuration

streamVars ==
    <<live, born, status, due, bytes, bridge, inFlight, tasks, waiters, lost, overtaken>>

Animators == 1..MaxAnimators

All(s) == [c \in Chunks |-> s]
Task(stage, animator) == [stage |-> stage, animator |-> animator]

StreamInit ==
    /\ live = 0 /\ born = 0 /\ status = All("none") /\ bytes = {}
    /\ due = [a \in Animators |-> {}]
    /\ bridge = "new" /\ inFlight = {} /\ tasks = [c \in {} |-> Task("queued", 0)] /\ waiters = {}
    /\ lost = {} /\ overtaken = {}

HasScheduler == status # All("none")

\* The task of the key will still settle a chunk of the animator of today.
Serves(task) == task.stage = "queued" \/ (task.animator = live /\ task.stage # "over")

----------------------------------------------------------------------------
(* The animator                                                            *)

\* The chunks that are asked for when those of S are played or about to be.
idleOf(before, S) == {c \in S : before[c] = "idle"}

\* _queueRequest takes no second request of a key.
accepted(R) == IF bridge = "started" THEN R \ inFlight ELSE {}

unserved(R, running) ==
    IF bridge = "started"
    THEN {c \in R \intersect inFlight : ~Serves(running[c])} ELSE R

\* Requests, which listeners hear at once, become tasks.
requested(R, running) ==
    /\ inFlight' = inFlight \union accepted(R)
    /\ tasks' = [c \in DOMAIN running \union accepted(R) |->
           IF c \in accepted(R) THEN Task("queued", 0) ELSE running[c]]

\* _syncStreamingState: the scheduler is brought up to date and announces what
\* of S it has not asked for.
sync(before, S, running) ==
    LET R == idleOf(before, S)
    IN  /\ status' = [c \in Chunks |-> IF c \in R THEN "requested" ELSE before[c]]
        /\ due' = [due EXCEPT ![live] = {}]
        /\ requested(R, running)
        /\ lost' = (lost \ R) \union unserved(R, running)

\* An actor with the id and its Animator.  The Animator of a destroyed actor
\* stays as it is, its entity and world included.
CreateAnimator ==
    /\ live = 0 /\ born < MaxAnimators
    /\ live' = born + 1 /\ born' = born + 1
    /\ UNCHANGED <<status, due, bytes, bridge, inFlight, tasks, waiters, lost, overtaken>>

DestroyAnimator ==
    /\ live # 0
    /\ live' = 0 /\ status' = All("none") /\ bytes' = {} /\ lost' = {} /\ overtaken' = {}
    /\ UNCHANGED <<born, due, bridge, inFlight, tasks, waiters>>

withoutScheduler ==
    status' = All("none") /\ due' = [due EXCEPT ![live] = {}] /\ lost' = {}

\* _applyConfig drops the scheduler, and the definitions the bytes went to.
Configure ==
    /\ live # 0
    /\ withoutScheduler /\ bytes' = {}
    /\ overtaken' = {c \in DOMAIN tasks : tasks[c] = Task("delivering", live)}
    /\ UNCHANGED <<live, born, bridge, inFlight, tasks, waiters>>

\* A change of applyRootMotion drops the scheduler and keeps the definitions.
SetApplyRootMotion ==
    /\ live # 0
    /\ withoutScheduler
    /\ UNCHANGED <<live, born, bytes, bridge, inFlight, tasks, waiters, overtaken>>

\* play, seek, stop and the update of each frame; the first of them makes the
\* controller and the scheduler.
Play(S) ==
    /\ live # 0
    /\ sync(IF HasScheduler THEN status ELSE All("idle"), S, tasks)
    /\ UNCHANGED <<live, born, bytes, bridge, waiters, overtaken>>

\* What S was of the clips that play is known by what had been asked for.
ResetStreaming(S) ==
    /\ live # 0 /\ HasScheduler /\ \A c \in S : status[c] # "idle"
    /\ status' = All("idle") /\ due' = [due EXCEPT ![live] = @ \union S]
    /\ UNCHANGED <<live, born, bytes, bridge, inFlight, tasks, waiters, lost, overtaken>>

----------------------------------------------------------------------------
(* The bridge                                                              *)

StartBridge ==
    /\ bridge = "new" /\ bridge' = "started"
    /\ UNCHANGED <<live, born, status, due, bytes, inFlight, tasks, waiters, lost, overtaken>>

\* The controllers are aborted, but tasks that go on still count.
DisposeBridge ==
    /\ bridge # "disposed" /\ bridge' = "disposed"
    /\ inFlight' = {}
    /\ waiters' = IF DOMAIN tasks = {} THEN {} ELSE waiters
    /\ UNCHANGED <<live, born, status, due, bytes, tasks, lost, overtaken>>

WaitForIdle(w) ==
    /\ DOMAIN tasks # {} /\ waiters' = waiters \union {w}
    /\ UNCHANGED <<live, born, status, due, bytes, bridge, inFlight, tasks, lost, overtaken>>

At(c, stage) == c \in DOMAIN tasks /\ tasks[c].stage = stage

moved(c, stage) == [tasks EXCEPT ![c].stage = stage]

\* A task goes on after an await, unless the bridge was disposed of meanwhile.
Goes(c, stage) ==
    /\ tasks' = moved(c, IF bridge = "disposed" THEN "over" ELSE stage)
    /\ UNCHANGED <<live, born, status, due, bridge, inFlight, waiters, lost, overtaken>>

\* The Animator is the one the entity has by now; without one the task fails.
TaskStarts(c) ==
    /\ At(c, "queued")
    /\ tasks' = [tasks EXCEPT ![c] = Task(IF live = 0 THEN "failing" ELSE "resolving", live)]
    /\ UNCHANGED <<live, born, status, due, bytes, bridge, inFlight, waiters, lost, overtaken>>

\* The bytes go to the animator, which is an option of the bridge and its
\* default, before onChunkLoaded is awaited.
ResolverAnswers(c) ==
    /\ At(c, "resolving") /\ Goes(c, "delivering")
    /\ bytes' = IF bridge # "disposed" /\ tasks[c].animator = live
                THEN bytes \union {c} ELSE bytes

\* The resolver throws, has no data or data that cannot be decoded, or
\* onChunkLoaded throws.
LoadFails(c) ==
    /\ At(c, "resolving") \/ At(c, "delivering")
    /\ Goes(c, "failing")
    /\ UNCHANGED bytes

\* Ends that mark nothing: an AbortError of the resolver, of onChunkLoaded or of
\* a listener that hears of the load, and an onChunkFailed that throws.
TaskBreaksOff(c) ==
    /\ At(c, "resolving") \/ At(c, "delivering") \/ At(c, "failing")
    /\ tasks' = moved(c, "over")
    /\ lost' = IF tasks[c].animator = live THEN lost \union {c} ELSE lost
    /\ UNCHANGED <<live, born, status, due, bytes, bridge, inFlight, waiters, overtaken>>

\* Mutated form: the animator that the entity has by then is marked.
marked_ByEntity(c, mark) ==
    IF bridge = "disposed" \/ live = 0 \/ ~HasScheduler
    THEN tasks' = moved(c, "over") /\ UNCHANGED <<status, due, inFlight, lost>>
    ELSE sync([status EXCEPT ![c] = mark], due[live], moved(c, "over"))

\* The mark and the update that follows it; the clips are where they were, so
\* that it asks for chunks only after a reset.  The animator of a destroyed
\* actor does the same, and its requests name the entity.
marked(c, mark) ==
    LET a == tasks[c].animator
        over == moved(c, "over")
    IN  IF bridge = "disposed" \/ a = 0 \/ (a = live /\ ~HasScheduler)
        THEN tasks' = over /\ UNCHANGED <<status, due, inFlight, lost>>
        ELSE IF a = live THEN sync([status EXCEPT ![c] = mark], due[a], over)
        ELSE /\ requested(due[a] \ {c}, over) /\ due' = [due EXCEPT ![a] = {}]
             /\ UNCHANGED <<status, lost>>

MarksLoaded(c) ==
    /\ At(c, "delivering") /\ marked(c, "loaded")
    /\ UNCHANGED <<live, born, bytes, bridge, waiters, overtaken>>

MarksFailed(c) ==
    /\ At(c, "failing") /\ marked(c, "failed")
    /\ UNCHANGED <<live, born, bytes, bridge, waiters, overtaken>>

TaskFinishes(c) ==
    /\ At(c, "over")
    /\ inFlight' = inFlight \ {c}
    /\ tasks' = [k \in DOMAIN tasks \ {c} |-> tasks[k]]
    /\ waiters' = IF DOMAIN tasks = {c} THEN {} ELSE waiters
    /\ UNCHANGED <<live, born, status, due, bytes, bridge, lost, overtaken>>

StreamNext ==
    \/ CreateAnimator \/ DestroyAnimator
    \/ Configure \/ SetApplyRootMotion
    \/ StartBridge \/ DisposeBridge
    \/ \E S \in SUBSET Chunks : Play(S) \/ ResetStreaming(S)
    \/ \E w \in Waiters : WaitForIdle(w)
    \/ \E c \in Chunks :
          \/ TaskStarts(c) \/ ResolverAnswers(c) \/ LoadFails(c) \/ TaskBreaksOff(c)
          \/ MarksLoaded(c) \/ MarksFailed(c) \/ TaskFinishes(c)

StreamSpec == StreamInit /\ [][StreamNext]_streamVars

----------------------------------------------------------------------------
\* A key is in flight as long as its task, so that no chunk is loaded twice at a
\* time, and who waits for the bridge to be idle waits for a task.
TasksAreKnown ==
    /\ DOMAIN tasks \subseteq Chunks
    /\ bridge # "disposed" => inFlight = DOMAIN tasks
    /\ waiters # {} => DOMAIN tasks # {}

\* A chunk stays requested only while a task is on its way that will mark it, or
\* else nobody took its request or the load broke off without a mark; nothing
\* but a reset gets the animator out of that.
RequestsAreServed ==
    \A c \in Chunks :
        live # 0 /\ bridge # "disposed" /\ c \notin lost =>
            (status[c] = "requested" => c \in DOMAIN tasks /\ Serves(tasks[c]))

\* A chunk counts as loaded when the clip has its bytes, unless the clip was
\* configured anew between the two.
LoadedIsThere ==
    \A c \in Chunks :
        live # 0 => (status[c] = "loaded" => c \in bytes \/ c \in overtaken)

\* Loads that race with updates, resets, new configurations and the death of the
\* actor end in the state the animator believes in.
StreamingAgrees == TasksAreKnown /\ RequestsAreServed /\ LoadedIsThere
=============================================================================
