# Verification of Axrone

Axrone (`src/web/packages`) is a browser game engine in TypeScript: its packages have about
170 000 lines.  This directory holds TLA+ models of its core, the TLC runs that check
them on small instances, and TLAPS proofs of their main safety properties for all
instances.

Everything runs on one JavaScript thread, so the unit of atomicity is a callback: a call
of a public method, the continuation of an `await`, a timer, a microtask.  Two kinds of
behaviour are out of reach of unit tests and are what the models are about:

* asynchronous code that tests a condition, awaits, and acts on the old answer, with
  timeouts, retries, `drain` and `dispose` in between;
* indexes, caches and free lists that each operation updates by hand, and that only a
  long sequence of legal calls can bring out of step.

Contents: [Inventory](#inventory), [Models](#models), [Runs](#runs), [Proofs](#proofs),
[Disagreements found](#disagreements-found), [Behaviour met on the way](#behaviour-met-on-the-way),
[What is not modelled](#what-is-not-modelled).

## Inventory

For each component: the state it keeps, its operations, what it interacts with, what is
hard about it, and what makes it correct.  `PROJECT.json` lists the same components with
their source files and the hazards by line.

### Events (`event`)

* **EventScheduler**.  State: a slot for each active task, a FIFO queue per priority with
  counters, retry timers, callers waiting in `drain`, metrics of each task.  Operations:
  `schedule`, `trySchedule`, `drain`, `dispose`, `gracefulDispose`, `clearMetrics`; timers
  for timeout and retry; a collector.  Used by EventEmitter, which has one of its own.
  Hard: a task function cannot be cancelled, so it may end after its timeout, during a
  retry or after dispose.  Correct when no accepted task is lost or settled twice, limits
  and order hold, and `drain` tells the truth and returns.
* **EventEmitter**.  State: subscriptions by event and priority, buffers of a paused
  emitter, the run of `processBufferedEvents`, the scheduler.  Operations: `on`, `once`,
  `off`, `emit`, `emitSync`, `pause`, `resume`, `flush`, `drain`, `clearBuffer`, `dispose`.
  Hard: `resume` and `flush` emit one event after another, and pausing, flushing and
  emitting go on between the rounds.  Correct when an event is delivered by one path, in
  order, and `once` means once.
* **EventGroup and emitter extras**.  State: the subscriptions made through a group or a
  derived emitter (filter, exclude, bridge, merge, namespace).  Hard: the group, the
  emitter and the source are disposed in any order.  Correct when a disposed group leaves
  no subscription behind and removes no other.

### Entities (`ecs-runtime`, `ecs-storage`, `ecs-query`, `ecs-world-support`)

* **World and storage**.  State: the archetype of each entity, parallel arrays per
  archetype, ids in reuse, caches of queries by mask and by key, the depth of batches,
  registries of singletons and actors.  Operations: create and destroy entities, add and
  remove components, query, batch, register types, `clear`.  Hard: an entity moves
  between archetypes with every change and the last one takes its place; ids have no
  generation; components registered late change masks.  Correct when the storage is a
  table in which a call changes one row, and queries see all of it.
* **Component pools**.  State: free and used instances per archetype and type.  Correct
  when an instance is held by one entity and comes back to its pool.
* **Actor and component lifecycle**, **system manager**.  State: per component awake,
  started, enabled, destroyed; systems in groups by priority.  Hard: callbacks that add,
  destroy or reparent during the walk.  Correct when each callback happens once, in order.
* **Transform hierarchy**.  State: parent, children, cached matrices with dirty flags.
  Correct when the two directions agree, no cycle appears and no stale matrix is read.
* **ECS observers**, **decorators**, **metrics**.  Subjects fed from world events; static
  tables; counters.

### Assets (`asset-core`, `asset-gltf`, `asset-shader`, `asset-2d`)

* **AssetDatabase**.  State: assets by id with indexes by key, alias, fingerprint,
  revision, dependents and source identity; pending events; data with disposers.
  Operations: `upsert`, `upsertMany`, `import`, `importMany`, `delete`, `clear`, `snapshot`,
  `hydrate`, binding of identities, `subscribe`, `dispose`.  Hard: all indexes kept by
  hand, disposers and hydration that throw midway, revisions with data of their own, imports
  that end late.  Correct when
  every index is a function of the assets and data is disposed once.
* **AssetImportPipeline**.  State: importers and stages in registries.  Operations: a run
  of stages with retries and abort.  Hard: `dispose` or a changed registry during a run.
* **Importers**, **sprite atlases**.  Parsers and packers without shared state.

### Time and control (`game-loop`, `tween`, `input`, `audio`, `observer`, `utility`)

* **GameLoop**. State: status, frame, elapsed time, accumulator, the requested frame, systems in
  order. Operations: `start`, `pause`, `resume`, `stop`, `step`, `restore`, `addSystem`,
  `removeSystem`, `dispose`. Hard: all of them called from a system during a frame or from its
  dispose hook inside `dispose`, retries and four error policies. Correct when at most one frame is
  requested, a running loop has one, and a frame runs at most `maxSubSteps` fixed steps.
* **Tweens, chains, timelines**.  State: start time, pauses, repeats, direction.  Hard:
  callbacks that start and stop tweens during an update.
* **InputSystem**.  State: contexts, users, devices, a rebinding session.  Hard: devices
  that leave, a session that times out or is cancelled, handlers of a session that call the
  system while it works on that session.
* **AudioSystem**.  State: clips with pending decodes, buses, sources with a voice.  Hard:
  `playSource` awaits the clip between stopping the old voice and starting the new one; a source
  is stopped for later; `restore` writes states that voices had in another life.
  Correct when a source has at most one voice and a removed or disposed one has none.
* **Subject and observers**.  State: observers, a replay ring, timers for debounce,
  throttle and buffers.  Hard: timers that outlive `complete`, `error` and `dispose`.
* **Singletons**.  State: value, factory, pending initialisation, pending disposal.  Hard:
  `disposeAsync` from several callers during an initialisation that retries, and what other
  microtasks do before it goes on.

### Memory (`memory`)

* **MemoryPool and object pools**.  State: slots, free list, LRU heap, waiters.  Hard:
  waiters of `acquireAsync` against `release`, `resize`, `drain` and `dispose`.  Correct
  when no object is handed out twice and no waiter waits beside a free object.
* **Containers, byte buffers**.  Heaps, queues and typed arrays; sequential.

### Scenes, rendering, simulation

* **Scene runtime** (`scene-runtime`, `scene-2d`, `scene-3d`, `scene-runtime-gltf`): composes
  World, assets, loop and renderer; textures load while scenes go; prefabs are compared.
* **Animation streaming**: one request in flight for each chunk, for actors that may end.
* **Animation, particles, physics, lighting, geometry, numbers, random numbers**: numeric.
* **Render core, WebGL2, 2D rendering, user interface**: frames built from the state of
  the scene; the state they keep is mostly in the graphics driver.
* **Runtime profiles, examples, scripts**: re-exports, demonstrations, tooling.

### How they interact

EventEmitter schedules each call of a listener with its EventScheduler and awaits them.
The World emits its events through an emitter, synchronously; reactive queries, observers
and the animation bridge listen to them.  Actors create and destroy entities in the World.
The AssetDatabase awaits the import pipeline and tells listeners in a microtask.  A scene
owns a World, registers assets and is driven by the GameLoop.  An Animator asks for chunks of
its clips through events of its actor, which the AnimationStreamingBridge turns into loads.

The emitter is modelled on the contract of the scheduler, the database on that of the import
pipeline (an import answers at some time, or fails), and an `Actor` in `World` is what both
`TransformHierarchy` and `AnimationStreaming` mean by an entity id that can be used again.
The other components share no state, and are checked one by one.

## Models

| Module | Models | Proofs |
|---|---|---|
| `EventScheduler` | `event/src/event-scheduler.ts` | `EventSchedulerProofs` |
| `EventEmitter` | `event/src/event-emitter.ts` | `EventEmitterProofs` |
| `AssetDatabase` | `asset-core/src/database.ts` and its transaction runtime and catalog | `AssetDatabaseProofs` |
| `World` | `world.ts` with mutation and query runtime, `ecs-storage`, `ecs-query` | `WorldProofs` |
| `EntityTable` | what the World promises; `World` is shown to implement it | |
| `AsyncSingleton` | `utility/src/singleton/async-singleton-impl.ts` | `ServiceProofs` |
| `AudioSystem` | `audio/src/system.ts` and its clip store | `LoopProofs` |
| `MemoryPool` | `memory/src/pool/mempool.ts` | `ServiceProofs` |
| `AnimationStreaming` | `scene-runtime/src/animation-streaming-bridge.ts`, the Animator component and `animation/src/streaming.ts` | `ServiceProofs` |
| `ImportPipeline` | `asset-core/src/importer.ts` and its registries | `ServiceProofs` |
| `GameLoop` | `game-loop/src/game-loop.ts` and its system runner | `LoopProofs` |
| `Subject` | `observer/src/subject.ts` | `FrameProofs` |
| `TransformHierarchy` | `ecs-runtime/.../components/hierarchy.ts` and `transform.ts` | `FrameProofs` |
| `RenderPipeline` | `render-core/src/pipeline.ts`, its planner and `graph.ts` | `FrameProofs` |
| `InputSystem` | `input/src/system.ts` with rebinding, evaluator, source state and state commit | `LoopProofs` |
| `PriorityQueue` | `memory/src/containers/queue/priority-queue.ts` | `FrameProofs` |
| `QueuedWork` | what the priority queue promises; `PriorityQueue` is shown to implement it | |
| `Subsequences` | the elements of a sequence that lie in a set, in their order: what `filter` and a compaction leave; a set in its order: what `sort` returns | `SubsequenceProofs` |
| `MC...` | the instances for TLC | |

An action is one callback.  Names follow the source: `schedule`, `drain` or `upsertMany` is
the method, a name such as `AttemptSucceeds` or `LoopEmitsNext` is a continuation that has
no name in the code.  The `map` of `PROJECT.json` gives the lines of each definition.
Operators with an underscore (`isAtCapacity_TooEarly`) are mutated forms of the definition
before the underscore; a property is kept only if TLC finds it violated by such a bug.

### EventScheduler

An element of `Tasks` is one call of `schedule` or `trySchedule`; `<<t, k>>` in `attempts`
is the task function called for the `k`-th retry of `t` and not yet ended.  Attempts end
(`AttemptSucceeds`, `AttemptFails`) at any time after they started.  `Accepts(t)` is the
guard of `handleTaskSuccess` and `handleTaskError`, which does not know the attempt.

* The FIFO queues are the set `queued` with a stamp `arrival`: all that is read of a queue
  is its order.  `Before` is the order of `dequeueTask`.
* `ConcurrencyLimit` at least the number of tasks stands for `Infinity`; `MaxRetries = 0`
  also stands for `enableRetries: false`.
* `processQueue` starts several tasks at once.  Task functions that call the scheduler
  back before their first `await` are left out, as are durations and throughput.

### EventEmitter

An element of `Events` is one event with its payload; `fate` says where it is or how it
ended.  `Processors` are runs of `processBufferedEvents`, `Flushers` and `Drainers` calls of
`flush` and `drain`; `loopAt` and `awaited` are where they stand between two awaits.  What a
listener does before its first `await` happens inside the call that emits its event; in the model
those are steps after it, which see the calls of all listeners of the event as made.  This matters
only where something comes after the emit in the same call, in `resume`: `resuming` is the stack of
the calls of `resume` whose first event is with its listeners, and `ResumeReturns` assigns
`bufferProcessing` on their return.  No continuation goes on while that stack is not empty.
`hidden` is a history variable: the runs which such an assignment took out of sight.  The
scheduler is used by its contract: each call in `calls` is settled in the end, and
`dispose` rejects all of them.  These are the properties `AcceptedIsSettled` and
`DisposedIsQuiet` of `EventScheduler`.  `heard` is a history variable.

### AssetDatabase

`db` is a record with one field for each map of the class.  A call that throws keeps what
it changed up to there: `hydrateInto` returns early with the database as the code leaves
it.  `import` is two actions, before and after its pipeline; `flushEvents` is the
microtask of `_endBatch`.

* Data objects are numbered as they are stored and every write makes one (or shares the
  one of its asset, `sameData`); the number serves as fingerprint.
* `revisions` gives the data object of each revision.  `hydrate` makes a new object with a
  disposer for every asset of the snapshot and for every older revision in its history
  (`historyData`).  `spare` is a history variable: the objects it made that no asset had, those
  of histories and those of a snapshot it then refused.
* A write without an id is one with the id of no asset, its uuid; a write without a key is
  one with the key of its asset or a key of its own.
* `FailingData` are objects whose disposer throws.

### World and EntityTable

An archetype is named by its signature, a set; that is what its mask and key encode.
`store` holds the arrays of each archetype with `entityToIndex`, and `removeEntity` moves
the last entity into the gap.  The key of a query names its components, its mask only the
registered ones (`createBitMask`); `cache` has the entries of both.  An instance is named
by the entity and component it was first added for.  `EntityTable` has one variable, the
row of each entity; `World` maps its storage to it by reading each component at its index
(`Table` at the end of `World.tla`).  `create` covers `createEntity`, its variant with components,
and both ways an `Actor` makes its entity; `destroy` is `Actor.destroy`, which emits nothing,
and `destroyEntity` the call of the user.  Edges between archetypes are a shortcut to
`getOrCreateArchetype` and are part of it.

### AsyncSingleton

`getting` and `disposing` say where each call of `getInstance` and `disposeAsync` stands, and
`running` which initialisations are under way, each with its attempts.  `FactoryMakes` and
`FactoryFails` are the continuations of the loop in `initialize`; a timeout is a failure after
which the factory's late answer is not looked at.  `DisposerResumes` is what `disposeAsync` does
once the initialisation it waited for has ended, `DisposerAnswers` what follows the disposer.
Between the two ends of such a wait anything else may run: `DisposerResumes` is enabled from the
settling on and need not be next.  `displaced` is a history variable: a disposal went on while
another initialisation or disposal was under way.  The factory and the disposer are taken not to
call the singleton before they first wait.

### AudioSystem

Sources and voices are numbered objects; `sources` is the map from id to source, so that a
play can hold a source which that map no longer has.  A play goes through `PlaySource`,
`ContextResumes` (the await of a suspended context), and `ClipArrives` or `PlayFails`.
`clipCache` and `decodes` are the clip store: an entry is the decode it waits for, and
`meaning` numbers the registrations of the clip.  `overtaken` is a history variable: another
call touched the source while the play was waiting.

`StopSource(i, later)` is `stopSource` without and with the option `when`: with it the
source says `stopped` at once and its voice sounds until its ended event.  `restore` is the steps
`RestoreClears` (unless `clearExisting` is false) and one `RestoreSource` for each source of the
snapshot; the plays it ends with are plays like others, as are the retries of `resumeSource`.  The
steps of a call that awaits nothing are thus apart, which allows more than the code does.
`restored` is a history variable of a source: its state was written by a restore and has not changed
since.  `play` marks the id as one shot (`MarkTransient`), also that of a source that exists, and
then is `upsertSource` and `playSource`.  `ContextSwitches` is `suspend`, `resume` and what the
browser does to the context.  A node that was told to stop at once has stopped before it is told
anything else.  The option `when` of a start, which delays a voice that counts as sounding, and
listeners of the system's events that call it back are left out.

### MemoryPool

`slots` is the array of slots, `freeList` the ids it gives out, `poolId` the number written
into each object.  `release` hands the object to the first waiter; `compactPool` renumbers.
`ExpandAsync` asks the factory for objects for certain slot numbers and `Fill` is its answer,
whatever those slots are by then.  `ousted` collects slots whose object such an answer replaced.

### AnimationStreaming

One entity id, whose animators come and go and are numbered (`live`); `status` is the state of
each chunk in the scheduler of the live one, `inFlight` the keys of the bridge and `tasks` what
became of the promise behind each.  `Play` is an update that may ask for chunks.  `lost` are the
chunks whose request was not heard, with the reasons in the code: no bridge, a bridge not
started, a key already in flight, and those whose load ended without a mark (`TaskBreaksOff`): by an
`AbortError` of the resolver, of `onChunkLoaded` or of a listener, or an `onChunkFailed` that
throws; `overtaken` those whose clip was configured anew under way.

### ImportPipeline

`imports` has one record for each call: its attempt, phase, the stages it has yet to reach,
the awaited one, and what is known of source, importer and result.  Stages and importers are
ranked by a number (priority, then id); `Tier` is the index through which an importer is found.
`attempted` starts an attempt, `resumed` is the loop of `_runStages` up to its next await, and
`thrown` is the `catch` clause.

### GameLoop

`frame` is the stack of the synchronous frame: its phase, the systems captured for it, the one
whose hook runs.  Every operation is enabled between frames and inside each hook.  `requests` are
those the frame scheduler has, `scheduled` the one the loop remembers.  `spent` accounts for each
unit of time that left the accumulator.  `dispose` is two steps, since it calls the dispose hooks
of the systems in between: `DisposeLoop` cancels the frame and takes the systems out, `DisposeEnds`
sets the status, and `DisposeBreaksOff` is an `onError` that throws.  `disposing` counts the calls
that are under way; every operation is enabled between the two, for a hook may do it.  `revived` is
a history variable, the last request was made there; `refused` says why a running loop has no
frame.  That the frame scheduler throws when a frame is cancelled is left out.

### Subject

`buckets` are the arrays by priority, in which an unsubscribed observer leaves its entry until
compaction; `walks` is the stack of the loops over them, each with the bucket and index it has
reached.  `due` and `told` are history variables of a walk.  `concurrent` is the counter of the
concurrency window.

### TransformHierarchy

`parent` and `children` are those of `Hierarchy`; `seen` is the list of child transforms cached
by a Transform with the version of the hierarchy it was made under.  A place is not a matrix but
the set of local places it was composed of, so that a stale factor shows.

### RenderPipeline

`textures` is the registry: one record for each transient, persistent or free texture with its
descriptor and the native texture behind it (a number).  A frame is `building` while the planner
asks for textures and may throw, then in flight until the backend answers.  `alone` says that no
other frame overlapped it, `clash` that a name was given to two textures.

### InputSystem

`table` has the contexts in the order of the map, with the sorted list and its dirty flag;
`owners` the user of each gamepad.  `rebinding` is the session with its token, and for each
session how it was told of its end.  `Update` is a frame: it polls the gamepads, ends sessions
whose time is up, and evaluates the actions of all contexts in order.  Controls are digital; a
`tap` records the keys the button was held by and whether configuration excuses it.

The accept handler of a session is called with a control that came from an event or an update
(`asked`).  Until it answers (`Accept`, `Refuse`) it may configure the system, begin sessions, dispose
of handles and dispose of the system; events and updates wait, and an update evaluates after the
answer (`updating`, `Evaluate`).  `Accept` binds the control to the target of the session it was
asked about and completes that session, whatever became of it: `late` are those that had
ended.  A cancel handler may begin a session (`again`).  Handlers that dispatch an event or run an
update themselves, what an update does to a system that its handler disposed of, and listeners of
the events of actions are left out.

### PriorityQueue and QueuedWork

The heap is a sequence of nodes with an index, a function from handles to places; `enqueue`,
`enqueueEntries`, `dequeue`, `replaceHead`, `remove`, `updatePriority` and `clear` sift as the code
does.  A round of the loop of `siftUp` is `rise`, one of `siftDown` is `sink`; the loops are
recursive functions over the number of rounds, in which a finished loop rests.  A node changes places
with each one it passes, where the code carries it and stores it at the end.  `QueuedWork` knows
only the priority of each handle in the queue: `dequeue` answers the first by priority and age.  The
mapping `Contents` forgets the positions, and turns the numbers of a queue whose largest is first.

## Runs

All runs are exhaustive.  The number is that of distinct states.

| Run | Shows | States |
|---|---|---|
| `scheduler_retries` | no task lost, settled twice or overtaken; limits; what `drain` and `dispose` promise | 1 595 200 |
| `scheduler_liveness` | every accepted task is settled, every caller of `drain` returns; counters and free slots | 169 507 |
| `scheduler_stranded` | violation of `AcceptedIsSettled` with a full queue | |
| `emitter_overlap` | an event is in one place, buffers are accounted, loops follow priority; `once` is once | 2 471 900 |
| `waiting` | EventEmitter: `bufferProcessing` names the run in progress; `drain` waits for it, and returns.  MemoryPool: slots and objects agree, waiters are served | 114 209 |
| `emitter_stranded` | violation of `DrainEmptiesBuffer` | |
| `emitter_hidden` | violation of `DrainHearsAll` | |
| `asset_indexes` | all indexes agree, mirrors follow, data disposed once, snapshots restore, keys are kept | 2 315 511 |
| `asset_import` | violation of `DisposedIsEmpty` | |
| `world_storage` | storage, ids, caches, singletons, actors, reactive queries; refinement of `EntityTable` | 307 726 |
| `services` | AsyncSingleton, AudioSystem, AnimationStreaming, ImportPipeline, InputSystem | 2 199 814 |
| `frames` | Subject, GameLoop, TransformHierarchy, PriorityQueue, RenderPipeline | 2 597 082 |

`MCWaiting`, `MCServices` and `MCFrames` put components side by side that share nothing: a variable
(`waited`, `service`, `part`) that never changes says which of them moves.  The states of such a run are
the sum, not the product, of those of its components, and a property says something about a
component exactly in the behaviours where it moves.

What the properties of `services` and `frames`, and those of the pool in `waiting`, say:

| Property | Says |
|---|---|
| `OneInitialisation` | one initialisation is under way at a time, exactly while the state says so, and whoever waits, waits for it |
| `DisposedOfOnce` | the disposer sees a value once, unless it failed or a disposal that had waited ran into another one or another life of the singleton |
| `AudioAgrees` | a sounding voice can be stopped by its id; a source is `playing` exactly with a voice that sounds and was not told to stop, unless its state was restored or an overtaken play failed; a cached clip is of the present registration |
| `PoolAgrees` | free list, heap and numbers describe the slots; no object has two holders; what is held can be given back |
| `WaitersServed` | who waits in `acquireAsync` is served or turned away |
| `StreamingAgrees` | a requested chunk has a load that will settle it, unless it is one of the losses the code allows (`lost`); a loaded one has its bytes |
| `ImportsAgree`, `StopsAreHeard` | an import ends as its attempts and its signal say; nothing begins after an abort, nothing new after `dispose` |
| `ObserversAgree` | who is subscribed is told once by each walk; the concurrency window loses no place |
| `LoopAgrees` | at most one frame requested, one while running, none when disposed but that of a dispose hook; each unit of time used once |
| `OnlyRegisteredRun` | a hook begins only on a registered system, or under an id given to another |
| `HierarchyAgrees`, `WorldIsCurrent` | parents and children are inverse, no cycles; a place that is not dirty is current |
| `TexturesAgree`, `FramesHold` | no texture leaks or is destroyed twice; a frame on its own keeps its textures to its end |
| `InputAgrees` | each rebinding session is told of its end once, but for what its handlers do to it; order and owners agree |
| `TapsAreReleases` | a button that is taken away while it is held does not tap |
| `ImplementsQueuedWork` | the heap with its index is a priority queue that is stable |

### Bounds

* **scheduler_retries**: three tasks, one slot, a queue of two, one retry, one caller.  One
  slot makes every task compete; the third finds the queue full, also from its retry
  timer; two of a priority and one above it give both orders; an attempt can end after
  its timeout while the second one runs.  `scheduler_liveness` has two tasks and two
  retries: queues that never fill, since a full queue strands tasks
  (`scheduler_stranded`).
* **emitter_overlap**: three events, one above the others, two listeners (one throws, one is
  `once`), two runs of `resume`, one `flush`, buffers of two, `MaxPauses = 2`, the least that
  pauses a run and resumes it; with `dispose`.  `emitter_hidden` has one name and no `dispose`.
* **waiting**: for the emitter two names, one listener for one of them, the event of higher priority
  under the other, and no `dispose` (after which `OneProcessor` is not promised); for the pool
  three callers, and one slot that grows to two, shrinks and is compacted.
* **asset_indexes**: two assets, three keys, one identity, one import, batches of two,
  `MaxData = 4`, `MaxRevision = 2`, `MaxPending = 1` (calls are made with at most one event
  pending; one call may add several).  The inputs (`MCWrites`) move an asset to another key,
  claim the alias of another, depend by key and by id, and share data.  The disposer of the
  last data object throws (`FailingData = {4}`).  Two settings leave out behaviour for which the
  repository states no rule, see the observations below: `DisjointBatches = TRUE`,
  `MayMerge = FALSE`.
* **world_storage**: three entities, two components (one a singleton, the other registered
  late), two actors, one level of batch, one query.  Three entities are what swap
  removal needs: one that goes, one that takes its place, one that stays.  Actors are
  interchangeable and only safety is checked, so they are symmetric.  `DestroyUnderActor
  = FALSE`: the user does not destroy the entity of a live actor.
* **services**: three callers and two disposals of a singleton with one retry, the least in which
  two disposals wait for one initialisation and a third caller begins another; one audio source and
  two plays that overtake each other (symmetric, as only safety is checked), two objects under its
  id one after another, two decodes, two registrations of the clip; two chunks and two animators of
  one entity id; two stages, two importers and two attempts, of which one stage and one importer
  take only some sources; of input a context that everybody plays under one that captures, one
  gamepad that two users want, two configuring calls and three sessions: one that ends, one that its
  handler begins, and one that replaces it.
* **frames**: three observers on two priorities (one `once`, one debounced) and two walks, one
  inside the other; three systems, two under one id, two fixed updates in a frame and one retry;
  three actors and eight changes (the least that replaces a hierarchy and reads a place through
  its old cache); six handles and a batch of three, which makes a heap of three levels; three
  settings of frames, two of a size and two of a format, two of them overlapping.

Every constant that is a bound of the model and not of the code says so where it is declared
(`bound:`): `MaxPauses`, `MaxData`, `MaxRevision`, `MaxPending`, `MaxBatchDepth`, `MaxInits`,
`MaxObjects`, `MaxDecodes`, `MaxMeanings`, `MaxMade`, `MaxResizes`, `MaxAnimators`, `MaxElapsed`,
`MaxCalls`, `MaxOperations`, `MaxWalks`, `MaxChanges`, `MaxSessions`, `MaxTextures`, `MaxHandles`,
`MaxBatch`. The sets of calls (`Tasks`, `Callers`, `Events`, `Processors`, `Imports`, `Actors`,
`Getters`, `Plays`, `Renders`, `Notifications`) are the others. `CHECK_DEADLOCK FALSE` is set
because the user may have made all calls.

### Fairness

The event loop runs each timer that stays armed and each continuation that is ready:
`FairSpec` of the scheduler has weak fairness of timeouts, retry timers and the microtask of
`gracefulDispose`; that of the emitter has it for the continuations of its loops and for the
scheduler, which settles each call.  Task functions, listeners that never
return and the user are not fair: tasks are settled by timeouts alone in
`scheduler_liveness`, where every task has one.  `PoolFairness` assumes of the users of a pool
what waiting for an object cannot do without: that who holds one releases it, and that the
asynchronous factory answers.

## Proofs

The proofs hold for all values of the constants under the assumptions named in the modules:
finite sets of tasks, events or actors, positive limits, priorities that are numbers.  TLC
checks each inductive invariant, or the property it strengthens, before it is proved.

**Subsequences** (`SubsequenceProofs`): lemmas, no theorem.  The code filters arrays, takes the
head of a queue and appends to it.  The library defines `SelectSeq` by recursion, about which
nothing can be proved here, so `Keep(s, S)` defines the same sequence by the rank of each place
(`Nth`).  `KeepSeq`, `KeepOrder`, `KeepHasNoRepeats`, `AppendElements`, `TailElements` and
`ConcatElements` say what is in the result, in which order, and that nothing occurs twice.
`InOrder(S, R)` is the set `S` as a sequence sorted by the strict order `R`, defined by the number
of elements before each: `InOrderIs` says that it holds every element once and in order.
`StepsExist` gives the states between the steps of a loop over a list without an induction over
the list, `CountingUp` the last of the numbers up to which something holds.

**EventScheduler** (`EventSchedulerProofs`): `TypeCorrect`, `NoTaskIsLost`, `LimitsHold`,
`NoDoubleSettlement`, `NoStaleTimeout`, `DisposeIsFinal`, their conjunction `TasksStayAccounted`,
`DrainIsComplete`, `DisposeStopsWork`.  They follow from one inductive invariant, `IInv`
(`NextIInv`).  The properties are not inductive alone, for three reasons.  The guards read
counters where the properties speak of sets: `QueueCounted` and `RetriesCounted` tie them.  A
timeout settles its task without a test, so that `SettledOnce` needs `TimersOfActiveAttempts`
and `ActiveIsRunning` (an armed timeout finds its task running) and `CallsFitPromise` (its
promise is pending).  `drain` tests the counters and the set of active tasks:
`PendingIsSomewhere` turns "nothing there" into "all settled".  The number of running task
functions is bounded nowhere, and the proofs do not need it.  `CountersAreExact` and
`SlotsStayAccounted` need `SInv` besides: a task that ended is settled, a retry timer was armed by
a failure, statistics count at least the ended tasks that are still tracked.  `SlotsStayAccounted`
assumes `RetriesFit`: there are no retries, or the queues hold every task.  Without it a retry
that finds the queues full leaves free slots beside queued tasks, which is what
`scheduler_stranded` shows.  `OrderIsKept` is the action property `NoOvertaking`.

**EventEmitter** (`EventEmitterProofs`): `OnceListenersHearOnce`, `OneRunAtATime`,
`DrainWaitsForAll`, for any number of overlapping emits, runs, flushes and drains. The first needs
that a live `once` subscription has not been heard of (`OnceInv`): the callback that takes a
snapshot also removes it. The second assumes that `dispose` is not called, which forgets a run in
progress; its invariant `RunInv` follows a run from the stack of `resuming` to `bufferProcessing`,
which is cleared together with it, or to `hidden`. `DrainWaitsForAll` is the action property
`DrainCompletes`: where `drain` returns there is no call, no run on the stack and none in
`bufferProcessing`, and a loop that is not in progress holds nothing (`IdleHoldsNothing`).
`EventsStayAccounted` puts each event in one place at a time. Its invariant `EInv` says that the
buffer and the lists of the loops hold an event once between them, just when its `fate` says so;
that the counter is the length of the buffer, which each name fills at most to its limit; that the
scheduler has a call for what is in flight; and that what a loop has still to emit is sorted and
comes after what it awaits. A loop drops an event that was emitted and keeps the rest (`Keep`), so
this rests on the lemmas about subsequences.

**World** (`WorldProofs`): all that the run `world_storage` checks.  `CacheIsAlwaysComplete`,
`QueriesAreExact`, `ReactiveQueryFollows` and `WorldImplementsEntityTable` hold for any use;
`StorageStaysConsistent` holds when no singleton is given to `createEntityWithComponents` and the
user does not destroy the entity of a live actor, the two uses of which the repository's code
takes no care (see below).  The invariant has four parts.  `StorageInv` says that each archetype
is `Kept`: its arrays are parallel, its index is the inverse of its array of entities, and an
instance is that of its entity.  Without that, swap removal could put an entity where the index of
another points.  `RemoveKeeps` and `AddKeeps` prove it for one archetype, `GrowsHolds`,
`ShrinksHolds` and `TurnsHolds` for a creation, a destruction and a move between two.  `IdsInv` says
that ids are alive or free; that the next id is unused rests on counting (`AllocatedIsNew`).
`CacheInv` speaks of all masks, not only of those queries have now: a mask that no query has may
become one again when a component is registered.  `OwnersAgree` and `ActorsKeepTheirEntity` are the
registries.  `StorageReadsWell` says what the storage reads as, and from it the refinement follows:
what is shown is the row of each entity's own instances, and each action is one of the table's or
leaves it alone (`CreatedInTable`, `DestroyedInTable`, `ChangedInTable`, `AllGoneInTable`).
`NoneAssumption` says that `None` is none of the values it stands beside.

**AssetDatabase** (`AssetDatabaseProofs`): all that the run `asset_indexes` checks, as
`AssetsAgree`, `AssetDataDisposedOnce`, `ClosedSnapshotsRestore` and the action property
`AssetKeysAreKept`, for any ids, keys, writes, imports, lengths of batches and disposers that throw.
The invariant `DatabaseInv` has three parts. `Agrees` says of a database that its maps are exact;
the snapshot is one that agrees too, or a restore would not give one back. `DataAgrees` ties each
data object to one asset and to the calls of its disposer; without "one asset" an update would
dispose what another asset still uses. Objects that `hydrate` made and no asset had are told apart
from those (`spare`), and their disposer is never called. `EventsAgree` says that the last event
about an asset tells its revision, and that a mirror is right about the assets which no pending
event is about, so that it is right about all once the events are applied (`ToldKnows`). Since a
call replaces the database as a whole, the parts are operators of a database and the lemmas speak of
any: what one commit makes of the maps (`CommitKeys`, `CommitAgrees`), a removal (`RemoveAgrees`), a
binding (`BindAgrees`). A batch is a sequence of commits, a cascade the smallest set closed under
dependents, a deletion a sequence of events; what holds after n commits follows from n - 1 by the
least number at which it would not (`CountingUp`), which the prover accepts where it has no
induction. The step that carries a batch is that the writes still to come find their keys free: a
commit takes no key that a later asset of the batch has (`NextCommit`), which is where
`DisjointBatches` is used. `ClosedSnapshotsRestore` needs that the snapshot fits an empty database
in any order, because its keys, and its aliases, belong to one asset each (`RestoreFits`). The
theorems assume what the run assumes: `DisjointBatches`, and that `hydrate` replaces the content
(`~MayMerge`); the section on behaviour met says what happens otherwise.

**AsyncSingleton** (`ServiceProofs`): `OneInitialisationAtATime`, `ValuesAreDisposedOfOnce`.  The
invariant is `displaced \/ Alone`, since `displaced` is never undone.  `Alone` ties the state to the
promise, the run and the value, and says that a disposal in progress is the only one and that
values not yet made have not been disposed.  A disposal that waited and goes on when neither an
initialisation nor a disposal is under way finds the singleton as one that never waited would, so
that nothing has to be known of the waiting ones.

**AnimationStreaming** (`ServiceProofs`): `StreamingStaysAgreed`.  Four facts make
`StreamingAgrees` inductive: types; no chunk has a state without an animator; tasks know only
animators that were born, so that a new one is none of theirs; and a load about to mark its
chunk has put its bytes there (`Delivered`).

**ImportPipeline** (`ServiceProofs`): `ImportsStayAgreed` and the action property
`StopsStayHeard`, for any importers, stages, sources and retries.  Each call keeps `Holds` on its
own, and one lemma for each part of an attempt (`ThrownHolds`, `ResumedHolds`, `PhaseHolds`,
`AttemptHolds`) says what it makes of a call that is `Ready`.  That `find` and the loop over the
stages have a first element to choose follows from the well-foundedness of the numbers
(`LeastNumber`); that nothing new begins after `dispose` from `EmptiedByDispose`.

**TransformHierarchy** (`FrameProofs`): `HierarchyStaysAgreed` and `WorldStaysCurrent`, for
finite sets of actors.  What is below an actor is the smallest set closed under children, so each
step is proved by showing a closed set, and nothing by induction on the height of a tree.
`WorldIsCurrent` needs what a transform may believe of its children: a list seen under the
present version of its hierarchy is right.

**RenderPipeline** (`FrameProofs`): `TexturesStayAgreed` and `FramesStayHeld`.  `TexturesAgree` is
itself inductive; the lemmas are the ways a record is handed over, freed and made anew.  For
`FramesHold` the invariant `FramesInv` says that a plan has still to ask only for names it has not
asked for, that a frame on its own has what it asked for and nothing else is active, and that no
name was given to two textures while frames did not overlap.

**Subject** (`FrameProofs`): `ObserversStayAgreed`, for any observers, priorities and depth of
nesting.  `SubjectInv` follows each loop of the stack: what it still has to tell lies in its bucket
at or after its index and in later buckets, what it told lies before (`WalksAgree`).  A compaction
takes entries out of a bucket under the feet of the loops in it; that it happens only when no loop
is there is what makes the indices keep their meaning.  `AsyncAgrees` ties the loops of
asynchronous notifications to the stage of their call, and `WindowAgrees` the counter of the
concurrency window to the calls that entered it.

**GameLoop** (`LoopProofs`): `LoopStaysAgreed`, and the action property `DisposedSystemsStayQuiet`.
A phase takes the registered systems sorted by priority and, among equals, by registration: `Before`
is shown to be a strict order (`BeforeIsOrder`), so that the numbers of systems before each are
those from zero on, and the sorted list holds each system once. `LoopInv` ties the requested frame
to the status, says that the frame under way took the place of its request, and accounts for each
unit of time. While a `dispose` is under way its hooks may request a frame, which `revived` records
and the second half does not cancel. A hook may do anything between two systems of a phase; that one
which was disposed of does not run rests on the test before each.

**AudioSystem** (`LoopProofs`): `AudioStaysAgreed`.  Each play is followed through its two awaits
(`WaitsFor`): unless it was overtaken, the object it started from is still registered and, once it
waits for its clip, silent.  A voice that sounds is then the active one of a registered object, or
its object belongs to a play that was overtaken and started all the same (`Stray`).  The state of
a source follows its voice (`States`) unless it was restored, or a play of it failed after it was
overtaken (`Spoilt`).  `StoreHolds` is the
clip store on its own: a decode answers into the entry it was made for.

**MemoryPool** (`ServiceProofs`): `PoolStaysAgreed`, for any capacities and callers.  `PoolInv` says
that the slots, the free list, the heap and the numbers in the objects describe each other
(`SlotsHold`), that no object is in two hands (`HandsHold`), that there are as many allocated slots
as holders and each holder's object lies in one or is lost (`Backed`), and that the queue holds
those who wait, once (`QueueHolds`).  The counting is needed where `clear` finds no allocated slot
and concludes that nobody holds anything.  `resize` and `drain` number the slots anew: `Piece` says
that a part of the new numbering takes no slot twice, `PiecesJoin` that parts with different slots
make one of both, and `SameUsed` that a numbering which leaves no allocated slot out has as many.

**InputSystem** (`LoopProofs`): `InputAlwaysAgrees` and `TapsAlwaysAreReleases`, for any contexts,
users, devices, definitions and requests under `InputAssumption`, which is what the constructor
requires. Both follow from `InputInv`. `TableOK`: each context has one stamp of its last activation,
so that priority and stamp order the contexts totally and the sorted list has each of them once
(`SortedIs`); with it a call that changes neither and does not mark the cached list as stale leaves
it current (`SortedSame`). `SystemOK` and `Played`: owners and users describe each other, and who
plays a context is there. `SnapshotOK` says the same of the snapshot, since restoring it makes the
system anew. `RebindingOK` accounts for every session, also one that ended while its accept handler
was asked (`AskedOK`); `SessionTarget` says that one whose bindings nothing touched still finds its
target. `HeldAll` is what taps need: unless the system was reconfigured since the last frame, the
controls that held a button are still bound to it in the context that drove it and accessible to who
plays that. So when a button goes up within a frame and `isButtonInteractionInterrupted` finds none
of the controls of its binding down, none of those that held it is. The definitions of a snapshot
and of the constructor are upserted one after the other: `UpsertsStay` says that they stay in a set
which each upsert keeps, `UpsertedUsersIs` that all its users are there at the end.

**PriorityQueue** (`FrameProofs`): `QueueStaysHeap` and the refinement `QueueImplementsQueuedWork`,
for any priorities, both orders, batches of any length and any calls.  The invariant `QueueInv` says
that the index has each handle of the array at the place of its node and no other (`Indexed`), that
no node comes before its parent (`Heaped`), and that handles are not above the last one given out;
without the last, a new node could take the handle of another.  Between two rounds the array is a
heap but for one place: `HeapedBut` for a node that goes up, `HeapedFrom` for one that goes down,
which also counts from where on a half-made heap of `heapify` is in order.  Each also says that no
child of that place comes before the parent of it, or a round would break what it leaves behind.
A loop ends because each round leaves less of the array above a rising node or below a sinking
one.  `Stages` carries this through all loops: a recursive function whose
n-th value is in the n-th of a sequence of sets is well defined and stays in them, by the least
number at which it would not.  That the root is the first of all (`RootIsFirst`) is shown in the
same way, by the least place at which it would not be.  Then each method answers a
queue of the same nodes but for those it adds, drops or gives another priority (`Joined`, `Without`,
`Gained`), and each action is one of `QueuedWork` (`DequeueWorks`, `EntriesWork` and the others).

Only model-checked: liveness, which the prover does not reach, since it knows neither fairness nor
`ENABLED`.  Every other property that a run checks and expects to hold has a theorem: the safety
invariants, the action properties and the two refinements.

## Disagreements found

Each has a run that ends with the behaviour, and an entry under `findings`.

1. `scheduler_stranded`: a retry timer that finds the queues full rejects its task and does not
   call `processQueue`; with all slots free, the queued tasks are never started.
2. `emitter_stranded`: `resume` gives up while a run is in progress, so that events of a second
   pause stay buffered on a resumed emitter, and `drain` returns with them.
3. `emitter_hidden`: `resume` assigns `bufferProcessing` after the listeners of the first event have
   run; the run that one of them starts by `pause`, `emit` and `resume` is overwritten, and `drain`
   returns before it is over.
4. `asset_import`: an import whose pipeline answers after `dispose` stores its asset.

## Behaviour met on the way

The repository states no rule about these, but for the singletons of the World, and no run judges
them. Where a property would fail on one, it names it as its exception; what was read and not
modelled is marked (read).

**Scheduler and emitter.**  Functions of timed-out tasks go on, so more than `concurrencyLimit` of
them may run; the late end of one attempt settles the task while the next one runs.  `flush`
lifts a pause for all callers across its awaits and undoes a `pause` or `resume` made meanwhile;
events behind one whose listener throws are gone.

**Database.**  Two writes of a batch for one asset or key are checked against the database before
the batch (`DisjointBatches = FALSE` breaks `FingerprintsAgree` and `KeysAgree`).  `hydrate` into
a database with content that fails loses revisions (`MayMerge = TRUE` breaks
`RevisionsComplete`).  When a disposer throws, the assets of its call all stay, some of them with
disposed data, which is disposed again with the next deletion.  `hydrate` makes data with a disposer
for each older revision of a history too: it is never disposed, neither when its asset is deleted
nor by `dispose` of the database; the same goes for all data of a snapshot that is refused.  A
dependency given as a reference is not looked up when it is written, but `hydrate` refuses the
snapshot that has it, after it deleted everything.

**World.**  The destroyed entity of a live actor: its id is given to another entity, which the
actor then destroys (`DestroyUnderActor = TRUE` breaks `ActorsKeepTheirEntity`; storage, ids and
singletons still agree).  `Actor.destroy` unregisters first, so that no event tells reactive
queries.  In a batch a reactive query reads a cache that is not up to date; pooled components
that moved with their entity do not return to their pool.
`createEntityWithComponents` passes the registry of singletons by, so that several entities can have
a component declared singleton (with one in `Preloaded`, `SingletonsAgree` is violated), although the
test 'should enforce singleton components across entities'
(`ecs-runtime/src/__tests__/world.test.ts:205`) has `addComponent` refuse the second.

**Import pipeline.**  `importer.import` may be called after an abort, which nothing tests between
the stages and it.  A before-import stage can hand the importer a source it does not match.
After `dispose` the phases that follow run no stages, and the result is delivered if the importer
had been found.  Importers indexed by kind precede wildcards of higher priority.

**Audio.**  `playSource` looks at nothing after its await: of two plays of one source both start,
and the first voice cannot be stopped; a `stopSource` during the wait is ignored; one that fails
says `stopped` of a source that another play started.  A source stopped for later says `stopped`
while it sounds.  After `restore` with `restorePlayback` false a source says `playing` and has no
voice; with `clearExisting` false one that sounds says what the snapshot says.  A decode that
fails deletes the cache entry of its key, also when that is the entry of a newer decode.

**Pool.**  The asynchronous factory's object replaces what has taken its slot number meanwhile,
which leaks the slot and disowns the object.  `resize`, `drain` and `clear` make slots free and do
not look at who waits.

**Singleton.**  `disposeAsync` looks at nothing after it waited for an initialisation.  Another
disposal that waited too, or that a microtask calls between the settling and the continuation, has
the disposer called twice; `reset` and `getInstance` there have it end another initialisation than
the one it waited for.  A `dispose()` whose disposer throws leaves the state DISPOSING for good.

**Streaming.**  A request made by a listener of `failed` or `loaded`, or before the `finally` of
the load, is dropped since its key is still in flight; one made before `start()` is not heard.  An
entity id that is used again delivers the loads of one actor to another and drops the requests of
the later one; a destroyed Animator keeps its scheduler.  An AbortError of the resolver, of
`onChunkLoaded` or of a listener of `loaded`, or an `onChunkFailed` that throws, leaves its chunk
requested.  A configuration during
the await of `onChunkLoaded` has a chunk marked loaded whose bytes the new clip lacks.

**Game loop.**  A system registered under the id of a removed one is invoked in its place, and a
removed one is tried again by its retry.  An error after `dispose` sets the status to stopped; one
whose policy stops the loop leaves the requested frame; a frame request that is refused leaves a
running loop without one.  A dispose hook that starts, resumes or restores the loop leaves a
disposed loop with a requested frame, one that adds a system leaves it registered; an `onError` that
throws on the error of such a hook leaves the loop undisposed, and without a frame if it runs.

**Subject.**  A notification turned away by the concurrency limit leaves a window it never
entered, so that the limit can be exceeded afterwards.  Observers are told after `complete` when
`onBeforeNotify` was awaited; a `once` observer with an asynchronous callback may be called
again while the first call is pending; buffered observers are never called, since the batch that
is flushed is buffered again (read).

**Transforms.**  Replacing the `Hierarchy` of an actor starts a version at zero, which a child list
cached from the old one can have; places below it stay stale until its own children change.

**Priority queue.**  `enqueueValues` with a selector that throws leaves empty slots behind (read).

**Rendering.**  Two `render()` calls under way end each other's frames, so that textures are shared
or freed while the backend uses them.  A frame whose building throws leaves its textures active,
and after a resize every further frame throws a resource conflict.  A refused re-creation leaves
the new descriptor with the old texture.  TAA histories with another usage are made anew in each
frame.  The bake scheduler takes frame 0 for "never", and a late `fail` puts a completed task back
(both read).

**Input.** A request for a new binding (no index) is reported with an index one too large and an
undefined binding. `restore` reverses contexts of equal priority. Replacing the definition of a
context leaves a session whose target is gone, and every input that matches it throws. A session
begun inside a cancel handler is overwritten by the one that replaced the cancelled session, and is
never told. An accept handler that ends its own session, by its handle or by another session, and
then agrees, has it told twice; the session that is active by then is cleared and never told.
Disabling the user, rebinding, or the loss of focus while a key is held gives a tap.

**Tweens** (read).  A tween that throws leaves `_isUpdating` true until an update completes, so that
additions and removals wait.  A Timeline starts items that are finished again and emits `complete`
in every update.  A `stop()` in an `update` listener is overridden by the repetition that follows.

## What is not modelled

In modelled components: calls back into the scheduler from `processQueue`; execution times;
`captureRejections`, weak references, taps and metrics of the emitter; kinds, the other metadata
indexes, the codecs of snapshots (but for the data objects they make) and the order of a cascade in
the database; component pools, metrics, pausing of world events and listeners that call back into
the World; the components an Actor keeps itself; keys and diagnostics of imports; buses, the node
graph and the listeners of audio, and voices that start later than they were made; the idle timer,
validators and metrics of pools; the order of chunk requests and the targets of animation tracks;
time scale and statistics of the loop; throttling, buffers, replay and weak references of Subject;
matrices; passes, uniforms and bake tasks of a frame; axes, vectors, modifiers, text and attachments
of input, listeners of its actions that configure it inside a frame, and accept handlers that
dispatch events or run an update.

Other components are listed with their reasons in `PROJECT.json`.  In short: numeric code
has no order of steps to get wrong and TLC has no reals; the renderers are sequences of calls
whose state is in the driver; parsers and comparers are pure functions that unit tests reach.
The hooks of actors and components run over lists captured before, and no code guards a hook that
changes the actor again, so that there is no promise to check; the same goes for tweens.

What could be added: axes and vectors of input with numbers abstracted to their signs.
