------------------------------- MODULE World -------------------------------
(***************************************************************************)
(* The World of @axrone/ecs-runtime (world.ts, world-mutation-runtime.ts)  *)
(* with its storage (entity-store.ts, archetype-store.ts, archetype.ts),   *)
(* the query cache (world-query-runtime.ts), the registries of singletons  *)
(* and actors, and one reactive query.                                     *)
(*                                                                         *)
(* Entities with the same set of components share an archetype, which      *)
(* keeps them and their component instances in parallel arrays.  To add or *)
(* to remove a component moves the entity to another archetype; the last   *)
(* entity of the old one takes its place.  Every call is synchronous; the  *)
(* subject is long sequences of calls, with ids and caches in reuse.       *)
(*                                                                         *)
(* Abstractions: an archetype is named by its signature, a set.  The       *)
(* arrays are cut at entityCount: nothing reads the rest.  sparse,         *)
(* entities and size of a ComponentPool are written and never read and     *)
(* are left out.  An instance is named by the entity and the component it  *)
(* was first added for, whether the caller or a pool supplied it: a pool   *)
(* hands out an instance that no entity holds.  Validation is on.          *)
(* Listeners do not call back into the World.                              *)
(***************************************************************************)
EXTENDS Integers, Sequences, FiniteSets

CONSTANTS
    Components,       \* the component types
    InitialRegistry,  \* those the World is created with
    Singletons,       \* those declared singleton
    Preloaded,        \* those given to createEntityWithComponents
    Queries,          \* the component sets the user queries
    Reactive,         \* the component set of the reactive query
    MaxEntities,      \* config.maxEntities
    Actors,           \* the Actor objects, each constructed at most once
    MaxBatchDepth,    \* bound: nested calls of batchStructureChanges
    WithoutActors,    \* whether the user creates entities without an Actor
    DestroyUnderActor,\* whether the user destroys the entity of an Actor itself
    None              \* no archetype, actor, cached or published result

Entities == 1..MaxEntities   \* see FreeIdsAgree
Signatures == SUBSET Components
Instances == Entities \X Components

ASSUME ComponentsAssumption ==
    /\ IsFiniteSet(Components)
    /\ InitialRegistry \subseteq Components /\ Singletons \subseteq Components
    /\ Preloaded \subseteq Components
    /\ Queries \subseteq Signatures \ {{}} /\ Reactive \in Signatures \ {{}}
ASSUME BoundsAssumption ==
    /\ MaxEntities \in Nat /\ MaxBatchDepth \in Nat
    /\ WithoutActors \in BOOLEAN /\ DestroyUnderActor \in BOOLEAN
ASSUME NoneAssumption ==
    /\ None \notin Actors
    /\ \A S \in Signatures : S # None /\ \A row \in [S -> Instances] : row # None

VARIABLES
    state,            \* "ready" or "disposed"
    entityArchetypes, \* EntityStore: the archetype of each entity, or None
    freeEntities, nextEntityId,
    archetypes,       \* ArchetypeStore: the archetypes created so far
    store,            \* their contents
    registered,       \* the component types that have a bit in a mask
    cache,            \* OptimizedQueryCache: the archetypes of masks and of keys
    batchDepth, structureChanged,
    singletonOwner,   \* SingletonRegistry: the entity, or 0
    actorOf,          \* ActorRegistry: the actor of each entity, or None
    actorState, entityOf,  \* of each Actor: "new", "active", "destroyed"; its entity
    published         \* the last result of the reactive query, or None

entityVars == <<entityArchetypes, freeEntities, nextEntityId>>
storageVars == <<entityVars, archetypes, store>>
cacheVars == <<cache, structureChanged, published>>
actorVars == <<actorOf, actorState, entityOf>>
vars == <<state, storageVars, registered, cacheVars, batchDepth, singletonOwner, actorVars>>

EmptyCache == [bit |-> [m \in Signatures |-> None], key |-> [Q \in Signatures |-> None]]
EmptyArchetype(sig) ==
    [entities |-> <<>>, entityToIndex |-> [e \in Entities |-> 0],
     components |-> [c \in sig |-> <<>>]]

Init ==
    /\ state = "ready"
    /\ entityArchetypes = [e \in Entities |-> None]
    /\ freeEntities = <<>> /\ nextEntityId = 1
    /\ archetypes = {{}}
    /\ store = [sig \in Signatures |-> EmptyArchetype(sig)]
    /\ registered = InitialRegistry
    /\ cache = EmptyCache
    /\ batchDepth = 0 /\ structureChanged = FALSE
    /\ singletonOwner = [c \in Singletons |-> 0]
    /\ actorOf = [e \in Entities |-> None]
    /\ actorState = [a \in Actors |-> "new"]
    /\ entityOf = [a \in Actors |-> 0]
    /\ published = None

-----------------------------------------------------------------------------
(* Mutated forms, for the check that the properties detect plausible bugs *)

Moved_Kept(s, i) == SubSeq(s, 1, Len(s) - 1)
reindexed_MovedKept(A, e) == [A.entityToIndex EXCEPT ![e] = 0]
invalidated_Never(created, cch) == cch
endOfBatch_Kept == cache

-----------------------------------------------------------------------------
(* Archetypes *)

\* Found by its signature or along an edge that an earlier move has recorded.
getOrCreateArchetype(sig) == archetypes \union {sig}

Elements(s) == {s[i] : i \in 1..Len(s)}
entityCount == Cardinality({e \in Entities : entityArchetypes[e] # None})

\* The last element takes the place of element i.
Moved(s, i) == SubSeq([s EXCEPT ![i] = s[Len(s)]], 1, Len(s) - 1)

reindexed(A, e) ==
    [A.entityToIndex EXCEPT ![A.entities[Len(A.entities)]] = A.entityToIndex[e], ![e] = 0]

removeEntity(A, e) ==
    LET i == A.entityToIndex[e]
    IN  [entities |-> Moved(A.entities, i),
         entityToIndex |-> reindexed(A, e),
         components |-> [c \in DOMAIN A.components |-> Moved(A.components[c], i)]]

\* What removeEntity returns.
removedComponents(A, e) ==
    [c \in DOMAIN A.components |-> A.components[c][A.entityToIndex[e]]]

addEntity(A, e, row) ==
    [entities |-> Append(A.entities, e),
     entityToIndex |-> [A.entityToIndex EXCEPT ![e] = Len(A.entities) + 1],
     components |-> [c \in DOMAIN A.components |-> Append(A.components[c], row[c])]]

\* The entity moves with its instances, and with a new one of each component
\* it had not.
transfer(e, from, to) ==
    LET old == removedComponents(store[from], e)
        row == [c \in to |-> IF c \in from THEN old[c] ELSE <<e, c>>]
    IN  [store EXCEPT ![from] = removeEntity(@, e), ![to] = addEntity(@, e, row)]

\* getComponent of a living entity; an index or a component it has not gives
\* undefined.
hasComponent(e, c) ==
    LET sig == entityArchetypes[e]
    IN  /\ sig # None
        /\ c \in sig
        /\ store[sig].entityToIndex[e] \in 1..Len(store[sig].components[c])
getComponent(e, c) ==
    LET A == store[entityArchetypes[e]]
    IN  A.components[c][A.entityToIndex[e]]

-----------------------------------------------------------------------------
(* Queries and their cache *)

\* createBitMask leaves out names that are not registered.
createBitMask(Q) == Q \intersect registered

matchingArchetypes(cch, archs, Q) ==
    LET m == createBitMask(Q)
    IN  IF cch.bit[m] # None THEN cch.bit[m]
        ELSE IF cch.key[Q] # None THEN cch.key[Q]
        ELSE {sig \in archs : m \subseteq sig}

cachedAfter(cch, archs, Q) ==
    LET m == createBitMask(Q)
        found == matchingArchetypes(cch, archs, Q)
    IN  IF cch.bit[m] # None THEN cch
        ELSE [bit |-> [cch.bit EXCEPT ![m] = found], key |-> [cch.key EXCEPT ![Q] = found]]

\* Mutated form: the event comes before the change is made.
result_BeforeTheChange(cch, archs, contents, Q) ==
    UNION {Elements(store[sig].entities) :
              sig \in {sg \in matchingArchetypes(cch, archetypes, Q) : Q \subseteq sg}}

\* The entities of a query result; their order is left out.
result(cch, archs, contents, Q) ==
    UNION {Elements(contents[sig].entities) :
              sig \in {sg \in matchingArchetypes(cch, archs, Q) : Q \subseteq sg}}

\* _invalidateStructureCaches: deferred in a batch.
invalidated(created, cch) == IF created /\ batchDepth = 0 THEN EmptyCache ELSE cch

\* What a mutation does to the cache: the archetype it may have created
\* invalidates it, then the event it may emit makes the reactive query run.
CacheStep(created, emitted) ==
    LET cch == invalidated(created, cache)
    IN  /\ structureChanged' = (structureChanged \/ (created /\ batchDepth > 0))
        /\ IF emitted /\ published # None
           THEN /\ cache' = cachedAfter(cch, archetypes', Reactive)
                /\ published' = result(cch, archetypes', store', Reactive)
           ELSE /\ cache' = cch
                /\ UNCHANGED published

query(Q) ==
    /\ state = "ready"
    /\ cache' = cachedAfter(cache, archetypes, Q)
    /\ cache' # cache
    /\ UNCHANGED <<state, storageVars, registered, structureChanged, published, batchDepth,
                   singletonOwner, actorVars>>

\* createReactiveQuery subscribes and runs the query once.
createReactiveQuery ==
    /\ state = "ready" /\ published = None
    /\ cache' = cachedAfter(cache, archetypes, Reactive)
    /\ published' = result(cache, archetypes, store, Reactive)
    /\ UNCHANGED <<state, storageVars, registered, structureChanged, batchDepth,
                   singletonOwner, actorVars>>

registerComponentType(c) ==
    /\ state = "ready" /\ c \notin registered
    /\ registered' = registered \union {c}
    /\ UNCHANGED <<state, storageVars, cacheVars, batchDepth, singletonOwner, actorVars>>

batchBegin ==
    /\ state = "ready" /\ batchDepth < MaxBatchDepth
    /\ batchDepth' = batchDepth + 1
    /\ UNCHANGED <<state, storageVars, registered, cacheVars, singletonOwner, actorVars>>

endOfBatch == IF structureChanged THEN EmptyCache ELSE cache

\* The finally clause of batchStructureChanges, also when the callback threw.
batchEnd ==
    /\ batchDepth > 0
    /\ batchDepth' = batchDepth - 1
    /\ IF batchDepth = 1
       THEN cache' = endOfBatch /\ structureChanged' = FALSE
       ELSE UNCHANGED <<cache, structureChanged>>
    /\ UNCHANGED <<state, storageVars, registered, published, singletonOwner, actorVars>>

-----------------------------------------------------------------------------
(* Entities and components *)

allocated ==
    IF freeEntities = <<>> THEN nextEntityId ELSE freeEntities[Len(freeEntities)]
unfreed == IF freeEntities = <<>> THEN <<>> ELSE SubSeq(freeEntities, 1, Len(freeEntities) - 1)
freed(e) == Append(freeEntities, e)

\* createEntity (sig = {}) or createEntityWithComponents, by the user (a =
\* None) or by the constructor of Actor a or Actor.createWithComponents, which
\* registers the actor.  The core components are added by later calls of
\* addComponent.
create(a, sig) ==
    LET e == allocated
    IN  /\ state = "ready" /\ entityCount < MaxEntities
        /\ sig \subseteq registered
        /\ freeEntities' = unfreed
        /\ nextEntityId' = IF freeEntities = <<>> THEN nextEntityId + 1 ELSE nextEntityId
        /\ entityArchetypes' = [entityArchetypes EXCEPT ![e] = sig]
        /\ archetypes' = getOrCreateArchetype(sig)
        /\ store' = [store EXCEPT ![sig] = addEntity(@, e, [c \in sig |-> <<e, c>>])]
        /\ IF a = None
           THEN UNCHANGED actorVars
           ELSE /\ actorState[a] = "new"
                /\ actorState' = [actorState EXCEPT ![a] = "active"]
                /\ entityOf' = [entityOf EXCEPT ![a] = e]
                /\ actorOf' = [actorOf EXCEPT ![e] = a]
        /\ CacheStep(sig \notin archetypes, a # None)
        /\ UNCHANGED <<state, registered, batchDepth, singletonOwner>>

clearEntity(e, sig) ==
    [c \in Singletons |->
        IF c \in sig /\ singletonOwner[c] = e THEN 0 ELSE singletonOwner[c]]

\* WorldMutationRuntime.destroyEntity.
DestroyStep(e) ==
    IF entityArchetypes[e] = None
    THEN UNCHANGED <<storageVars, singletonOwner>>
    ELSE LET sig == entityArchetypes[e]
         IN  /\ store' = [store EXCEPT ![sig] = removeEntity(@, e)]
             /\ entityArchetypes' = [entityArchetypes EXCEPT ![e] = None]
             /\ freeEntities' = freed(e)
             /\ singletonOwner' = clearEntity(e, sig)
             /\ UNCHANGED <<nextEntityId, archetypes>>

\* Called by the user: EntityDestroyed is emitted if there is an actor.
destroyEntity(e) ==
    /\ state = "ready" /\ entityArchetypes[e] # None
    /\ DestroyUnderActor \/ actorOf[e] = None
    /\ DestroyStep(e)
    /\ actorOf' = [actorOf EXCEPT ![e] = None]
    /\ CacheStep(FALSE, actorOf[e] # None)
    /\ UNCHANGED <<state, registered, batchDepth, actorState, entityOf>>

\* Actor.destroy unregisters the actor before it destroys the entity, so that
\* no event is emitted.  On a disposed World both calls do nothing.
destroy(a) ==
    /\ actorState[a] = "active"
    /\ actorState' = [actorState EXCEPT ![a] = "destroyed"]
    /\ IF state = "ready"
       THEN /\ DestroyStep(entityOf[a])
            /\ actorOf' = [actorOf EXCEPT ![entityOf[a]] = None]
       ELSE UNCHANGED <<storageVars, singletonOwner, actorOf>>
    /\ UNCHANGED <<state, registered, cacheVars, batchDepth, entityOf>>

\* A singleton that another entity owns is refused; a component the entity has
\* is returned.
addComponent(e, c) ==
    LET from == entityArchetypes[e]
    IN  /\ state = "ready" /\ from # None /\ c \in registered
        /\ c \notin from
        /\ c \in Singletons => singletonOwner[c] = 0
        /\ LET to == from \union {c}
           IN  /\ store' = transfer(e, from, to)
               /\ entityArchetypes' = [entityArchetypes EXCEPT ![e] = to]
               /\ archetypes' = getOrCreateArchetype(to)
               /\ singletonOwner' = [d \in Singletons |->
                                        IF d = c THEN e ELSE singletonOwner[d]]
               /\ CacheStep(to \notin archetypes, actorOf[e] # None /\ c \in Reactive)
        /\ UNCHANGED <<state, freeEntities, nextEntityId, registered, batchDepth, actorVars>>

removeComponent(e, c) ==
    LET from == entityArchetypes[e]
    IN  /\ state = "ready" /\ from # None /\ c \in registered
        /\ c \in from
        /\ LET to == from \ {c}
           IN  /\ store' = transfer(e, from, to)
               /\ entityArchetypes' = [entityArchetypes EXCEPT ![e] = to]
               /\ archetypes' = getOrCreateArchetype(to)
               /\ singletonOwner' = clearEntity(e, {c})
               /\ CacheStep(to \notin archetypes, actorOf[e] # None /\ c \in Reactive)
        /\ UNCHANGED <<state, freeEntities, nextEntityId, registered, batchDepth, actorVars>>

clear ==
    /\ state = "ready"
    /\ state' = "disposed"
    /\ actorOf' = [e \in Entities |-> None]
    /\ singletonOwner' = [c \in Singletons |-> 0]
    /\ cache' = EmptyCache
    /\ entityArchetypes' = [e \in Entities |-> None]
    /\ freeEntities' = <<>> /\ nextEntityId' = 1
    /\ archetypes' = {{}}
    /\ store' = [sig \in Signatures |-> EmptyArchetype(sig)]
    /\ UNCHANGED <<registered, structureChanged, published, batchDepth, actorState, entityOf>>

Creators == IF WithoutActors THEN Actors \union {None} ELSE Actors

Next ==
    \/ \E a \in Creators, sig \in SUBSET Preloaded : create(a, sig)
    \/ \E e \in Entities : destroyEntity(e)
    \/ \E a \in Actors : destroy(a)
    \/ \E e \in Entities, c \in Components : addComponent(e, c) \/ removeComponent(e, c)
    \/ \E Q \in Queries : query(Q)
    \/ \E c \in Components : registerComponentType(c)
    \/ createReactiveQuery
    \/ batchBegin \/ batchEnd
    \/ clear

Spec == Init /\ [][Next]_vars

-----------------------------------------------------------------------------
(* Properties *)

TypeOK ==
    /\ state \in {"ready", "disposed"}
    /\ entityArchetypes \in [Entities -> Signatures \union {None}]
    /\ freeEntities \in Seq(Entities) /\ nextEntityId \in 1..(MaxEntities + 1)
    /\ archetypes \subseteq Signatures
    /\ \A sig \in Signatures :
          /\ store[sig].entities \in Seq(Entities)
          /\ store[sig].entityToIndex \in [Entities -> 0..MaxEntities]
          /\ store[sig].components \in [sig -> Seq(Instances)]
    /\ registered \subseteq Components
    /\ cache.bit \in [Signatures -> {None} \union SUBSET Signatures]
    /\ cache.key \in [Signatures -> {None} \union SUBSET Signatures]
    /\ batchDepth \in 0..MaxBatchDepth /\ structureChanged \in BOOLEAN
    /\ singletonOwner \in [Singletons -> Entities \union {0}]
    /\ actorOf \in [Entities -> Actors \union {None}]
    /\ actorState \in [Actors -> {"new", "active", "destroyed"}]
    /\ entityOf \in [Actors -> Entities \union {0}]
    /\ published \in {None} \union SUBSET Entities

\* The archetype recorded for an entity is the one whose arrays hold it, at the
\* index recorded there; no other archetype holds it or has an index for it.
StorageAgrees ==
    \A e \in Entities, sig \in Signatures :
        LET i == store[sig].entityToIndex[e]
        IN  IF entityArchetypes[e] = sig
            THEN /\ sig \in archetypes
                 /\ i \in 1..Len(store[sig].entities) /\ store[sig].entities[i] = e
            ELSE i = 0 /\ e \notin Elements(store[sig].entities)

\* An id handed out before is alive or free, never both, and is free once: no
\* sequence of destroying and creating gives two entities the same id.
FreeIdsAgree ==
    /\ \A i, j \in 1..Len(freeEntities) : freeEntities[i] = freeEntities[j] => i = j
    /\ \A e \in Entities :
          /\ e \in Elements(freeEntities) => entityArchetypes[e] = None
          /\ e < nextEntityId <=> (e \in Elements(freeEntities) \/ entityArchetypes[e] # None)

\* Outside a batch the cache has not become stale: for every mask and key in
\* it, all archetypes that match are listed, whatever was created, queried and
\* registered in whatever order.
CacheIsComplete ==
    ~structureChanged =>
        \A Q \in Signatures, sig \in archetypes :
            createBitMask(Q) \subseteq sig =>
                /\ cache.bit[createBitMask(Q)] # None => sig \in cache.bit[createBitMask(Q)]
                /\ cache.key[Q] # None => sig \in cache.key[Q]

\* Outside a batch a query, cached or not, gives exactly the entities that have
\* the components.
QueriesExact ==
    batchDepth = 0 =>
        \A Q \in Queries :
            result(cache, archetypes, store, Q)
                = {e \in Entities : entityArchetypes[e] # None /\ \A c \in Q : hasComponent(e, c)}

\* The registry names the one entity that has a singleton component, through
\* moves, destruction and the reuse of ids.
SingletonsAgree ==
    \A c \in Singletons, e \in Entities : hasComponent(e, c) <=> singletonOwner[c] = e

\* An actor that is not destroyed has its entity, and the entity has this actor.
ActorsKeepTheirEntity ==
    state = "ready" =>
        \A a \in Actors : actorState[a] = "active" =>
            actorOf[entityOf[a]] = a /\ entityArchetypes[entityOf[a]] # None

\* The indexes of the storage, the free ids and what is kept beside them, the
\* owners of singletons and the actors, follow every creation, move and
\* destruction.
StorageConsistent ==
    TypeOK /\ StorageAgrees /\ FreeIdsAgree /\ SingletonsAgree /\ ActorsKeepTheirEntity

\* The storage implements the table of entities and component instances: a
\* call changes the row of its own entity and no other row.
Table == INSTANCE EntityTable WITH
    NoRow <- None,
    table <- [e \in Entities |->
                 IF entityArchetypes[e] = None THEN None
                 ELSE [c \in {d \in Components : hasComponent(e, d)} |-> getComponent(e, c)]]
ImplementsEntityTable == Table!TableSpec

\* A change outside a batch that makes the entity of an actor join or leave a
\* reactive query is in the result published with it.  (Nothing is published for
\* an actor that is destroyed, nor when a batch ends.)
Belongs(e) == entityArchetypes[e] # None /\ \A c \in Reactive : hasComponent(e, c)
ReactiveFollows ==
    [][batchDepth = 0 /\ published # None /\ state' = "ready" =>
          \A e \in Entities :
              actorOf'[e] # None /\ Belongs(e) # Belongs(e)'
                  => (e \in published' <=> Belongs(e)')]_vars
=============================================================================
