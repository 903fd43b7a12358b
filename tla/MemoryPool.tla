----------------------------- MODULE MemoryPool -----------------------------
(***************************************************************************)
(* The object pool of packages/memory: slots that hold objects, the list   *)
(* of free slots, the callers that wait for a release and the objects an   *)
(* asynchronous factory is still making.  Sorting by time of access only   *)
(* decides which free slot is taken or given up: any of them.  Options:    *)
(* evictionPolicy 'none', preallocate FALSE, expansionFactor 2,            *)
(* compactionThreshold at least MaxCapacity, callbacks that do not throw.  *)
(***************************************************************************)
EXTENDS Naturals, Sequences, FiniteSets, FiniteSetsExt, Subsequences

CONSTANTS
    Callers,         \* who acquires and releases, one object at a time
    InitialCapacity, MaxCapacity, MinFree,
    AutoExpand,      \* option autoExpand
    AsyncFactory,    \* whether the option asyncFactory is set
    KeepsHeap,       \* allocationStrategy is least- or most-recently-used
    MaxMade,         \* bound: objects made
    MaxResizes       \* bound: calls of resize, drain and clear

PoolAssumption ==
    /\ InitialCapacity \in Nat \ {0} /\ MaxCapacity \in Nat /\ InitialCapacity <= MaxCapacity
    /\ MinFree \in Nat /\ {AutoExpand, AsyncFactory, KeepsHeap} \subseteq BOOLEAN

VARIABLES
    slots,      \* _slots: the object (0: none) and the status of each slot
    freeList,   \* _freeList
    lruHeap,    \* _lruHeap, as a set
    poolId,     \* __poolId of each object made so far
    waitQueue,  \* _waitQueue, the callers whose callbacks it holds
    fillings,   \* creations of _expandAsync under way: slot and caller
    callers,    \* caller -> what it does and the object it has
    ousted,     \* objects a filling has put another one in the place of
    poolGone,   \* _isDisposed
    resizes     \* calls of resize, drain and clear so far

poolVars == <<slots, freeList, lruHeap, poolId, waitQueue, fillings, callers, ousted,
              poolGone, resizes>>

empty == [obj |-> 0, status |-> "free"]
slotIds(ss) == DOMAIN ss
freeIds(ss) == {i \in slotIds(ss) : ss[i].status = "free"}
allocatedCount == Len(slots) - Cardinality(freeList)
idle == [stage |-> "idle", obj |-> 0]

PoolTypeOK ==
    /\ \A i \in slotIds(slots) : slots[i] \in [obj : 0..Len(poolId), status : {"free", "allocated"}]
    /\ freeList \subseteq slotIds(slots) /\ lruHeap \subseteq Nat
    /\ Elements(waitQueue) \subseteq Callers
    /\ callers \in [Callers -> [stage : {"idle", "waiting", "filling", "holding"},
                                obj : 0..Len(poolId)]]

PoolInit ==
    /\ slots = [i \in 1..InitialCapacity |-> empty]
    /\ freeList = slotIds(slots) /\ lruHeap = {} /\ poolId = <<>>
    /\ waitQueue = <<>> /\ fillings = {} /\ callers = [c \in Callers |-> idle]
    /\ ousted = {} /\ poolGone = FALSE /\ resizes = 0

-----------------------------------------------------------------------------
(* Mutated forms, for the check that the properties detect plausible bugs   *)

rewrittenIds_Kept(ss) == poolId
MustServe_Never == FALSE

-----------------------------------------------------------------------------
(* Taking and giving                                                       *)

\* _rebuildLruHeap.
rebuiltHeap(ss) == IF KeepsHeap THEN freeIds(ss) ELSE {}

\* _getNextFreeId: the heap first, when there is one.
nextFreeIds(free, heap) == IF heap # {} THEN heap ELSE free

\* The new capacity of _expand and _expandAsync, and the slots of _grow.
expanded == Min({2 * Len(slots), MaxCapacity})
grown(n) == slots \o [i \in 1..(n - Len(slots)) |-> empty]
CanExpand == AutoExpand /\ Len(slots) < MaxCapacity

\* acquire() with the slots ss, the free ids free and the heap: it takes slot i,
\* makes its object if it has none, and puts i back if the validator objects.
take(c, ss, free, heap) ==
    \E i \in nextFreeIds(free, heap) :
        LET fresh == ss[i].obj = 0
            o == IF fresh THEN Len(poolId) + 1 ELSE ss[i].obj
            made == IF fresh THEN Append(poolId, i) ELSE poolId
        IN /\ Len(made) <= MaxMade
           /\ poolId' = [made EXCEPT ![o] = i]
           /\ lruHeap' = heap \ {i}
           /\ \/ /\ slots' = [ss EXCEPT ![i] = [obj |-> o, status |-> "allocated"]]
                 /\ freeList' = free \ {i}
                 /\ callers' = [callers EXCEPT ![c] = [stage |-> "holding", obj |-> o]]
              \/ /\ slots' = [ss EXCEPT ![i].obj = o] /\ freeList' = free
                 /\ callers' = [callers EXCEPT ![c] = idle]

\* acquire() as a whole, when it does not throw that the pool is depleted.
acquire(c) ==
    \/ freeList # {} /\ take(c, slots, freeList, lruHeap)
    \/ /\ freeList = {} /\ CanExpand
       /\ LET ss == grown(expanded) IN take(c, ss, freeIds(ss), rebuiltHeap(ss))
Depleted == freeList = {} /\ ~CanExpand

Acquire(c) ==
    /\ ~poolGone /\ callers[c].stage = "idle" /\ acquire(c)
    /\ UNCHANGED <<waitQueue, fillings, ousted, poolGone, resizes>>

\* acquireAsync, and tryAcquireAsync where it does the same.
Wait(c) ==
    /\ ~poolGone /\ callers[c].stage = "idle" /\ Depleted
    /\ waitQueue' = Append(waitQueue, c)
    /\ callers' = [callers EXCEPT ![c].stage = "waiting"]
    /\ UNCHANGED <<slots, freeList, lruHeap, poolId, fillings, ousted, poolGone, resizes>>

\* acquireAsync with an asynchronous factory: _expandAsync frees the new slots at
\* once and fills them later.
ExpandAsync(c) ==
    /\ ~poolGone /\ callers[c].stage = "idle" /\ freeList = {} /\ CanExpand /\ AsyncFactory
    /\ slots' = grown(expanded)
    /\ freeList' = freeIds(slots')
    /\ fillings' = fillings \cup {[slot |-> i, caller |-> c] : i \in freeList'}
    /\ callers' = [callers EXCEPT ![c].stage = "filling"]
    /\ UNCHANGED <<lruHeap, poolId, waitQueue, ousted, poolGone, resizes>>

\* The factory answers: whatever slot now has the number gets the new object.
filled(i) == IF i \in slotIds(slots) /\ Len(poolId) < MaxMade /\ ~poolGone
             THEN {Len(poolId) + 1} ELSE {}
Fill(f) ==
    /\ f \in fillings /\ fillings' = fillings \ {f}
    /\ \/ \E o \in filled(f.slot) :
             /\ slots' = [slots EXCEPT ![f.slot].obj = o]
             /\ poolId' = Append(poolId, f.slot)
             /\ ousted' = ousted \cup ({slots[f.slot].obj} \ {0})
       \/ UNCHANGED <<slots, poolId, ousted>>  \* it failed, or the slot is gone
    /\ UNCHANGED <<freeList, lruHeap, waitQueue, callers, poolGone, resizes>>

\* acquireAsync goes on with acquire(), which throws when others were quicker.
AcquireFilled(c) ==
    /\ callers[c].stage = "filling" /\ \A f \in fillings : f.caller # c
    /\ \/ ~poolGone /\ acquire(c)
       \/ /\ poolGone \/ Depleted
          /\ callers' = [callers EXCEPT ![c] = idle]
          /\ UNCHANGED <<slots, freeList, lruHeap, poolId>>
    /\ UNCHANGED <<waitQueue, fillings, ousted, poolGone, resizes>>

\* The timer of tryAcquireAsync.
WaitTimeout(c) ==
    /\ callers[c].stage = "waiting"
    /\ waitQueue' = Keep(waitQueue, Callers \ {c})
    /\ callers' = [callers EXCEPT ![c] = idle]
    /\ UNCHANGED <<slots, freeList, lruHeap, poolId, fillings, ousted, poolGone, resizes>>

\* release() throws 'Object not from this pool' unless the slot has the object.
IsFromPool(o) == poolId[o] \in slotIds(slots) /\ slots[poolId[o]].obj = o

MustServe == waitQueue # <<>>
release(c) ==
    LET o == callers[c].obj
        i == poolId[o]
    IN IF MustServe
       THEN /\ callers' = [callers EXCEPT ![c] = idle,
                             ![Head(waitQueue)] = [stage |-> "holding", obj |-> o]]
            /\ waitQueue' = Tail(waitQueue)
            /\ UNCHANGED <<slots, freeList, lruHeap>>
       ELSE /\ callers' = [callers EXCEPT ![c] = idle]
            /\ slots' = [slots EXCEPT ![i].status = "free"]
            /\ freeList' = freeList \cup {i}
            /\ lruHeap' = rebuiltHeap(slots')
            /\ UNCHANGED waitQueue

Release(c) ==
    /\ ~poolGone /\ callers[c].stage = "holding" /\ IsFromPool(callers[c].obj)
    /\ slots[poolId[callers[c].obj]].status = "allocated"
    /\ release(c)
    /\ UNCHANGED <<poolId, fillings, ousted, poolGone, resizes>>

-----------------------------------------------------------------------------
(* Changing the capacity                                                   *)

\* _compactPool and drain number the slots again and rewrite __poolId.
rewrittenIds(ss) ==
    [o \in DOMAIN poolId |-> IF \E i \in slotIds(ss) : ss[i].obj = o
                             THEN CHOOSE i \in slotIds(ss) : ss[i].obj = o ELSE poolId[o]]
renumber(ss) ==
    /\ slots' = ss /\ freeList' = freeIds(ss) /\ lruHeap' = rebuiltHeap(ss)
    /\ poolId' = rewrittenIds(ss)
numbered(ids) == [n \in 1..Cardinality(ids) |-> slots[Nth(ids, n)]]

\* resize(n): _shrink gives up free slots only, _grow adds empty ones.
clamped(n) == Max({allocatedCount, Min({n, MaxCapacity})})
Resize(n) ==
    /\ \/ /\ clamped(n) < Len(slots)
          /\ \E gone \in kSubset(Len(slots) - clamped(n), freeList) :
                renumber(numbered(slotIds(slots) \ gone))
       \/ /\ clamped(n) > Len(slots)
          /\ slots' = grown(clamped(n))
          /\ freeList' = freeList \cup (slotIds(slots') \ slotIds(slots))
          /\ lruHeap' = rebuiltHeap(slots')
          /\ UNCHANGED poolId

\* drain(): allocated slots first, then free ones that have an object, as many as
\* the capacity leaves room for, then empty ones.
drainTarget == Max({InitialCapacity, MinFree + allocatedCount})
Drain ==
    LET used == slotIds(slots) \ freeIds(slots)
        full == {i \in freeIds(slots) : slots[i].obj # 0}
        room == drainTarget - Cardinality(used)
    IN \E kept \in kSubset(Min({Cardinality(full), room}), full) :
          LET ss == numbered(used) \o numbered(kept) IN
          renumber(ss \o [i \in 1..(drainTarget - Len(ss)) |-> empty])

\* clear(): refused while an object is allocated.
Clear ==
    /\ allocatedCount = 0
    /\ slots' = [i \in 1..InitialCapacity |-> empty]
    /\ freeList' = slotIds(slots') /\ lruHeap' = {}
    /\ UNCHANGED poolId

ChangeCapacity ==
    /\ ~poolGone /\ resizes < MaxResizes /\ resizes' = resizes + 1
    /\ (\E n \in 1..MaxCapacity : Resize(n)) \/ Drain \/ Clear
    /\ UNCHANGED <<waitQueue, fillings, callers, ousted, poolGone>>

DisposePool ==
    /\ ~poolGone /\ poolGone' = TRUE
    /\ callers' = [c \in Callers |-> IF callers[c].stage = "waiting" THEN idle ELSE callers[c]]
    /\ waitQueue' = <<>> /\ slots' = <<>> /\ freeList' = {} /\ lruHeap' = {}
    /\ UNCHANGED <<poolId, fillings, ousted, resizes>>

PoolNext ==
    \/ \E c \in Callers : \/ Acquire(c) \/ Wait(c) \/ ExpandAsync(c) \/ AcquireFilled(c)
                          \/ WaitTimeout(c) \/ Release(c)
    \/ \E f \in fillings : Fill(f)
    \/ ChangeCapacity \/ DisposePool

PoolSpec == PoolInit /\ [][PoolNext]_poolVars

\* Callers give back what they hold, and the factory answers.
PoolFairness ==
    /\ \A c \in Callers : WF_poolVars(Release(c)) /\ WF_poolVars(AcquireFilled(c))
    /\ WF_poolVars(\E f \in fillings : Fill(f))

-----------------------------------------------------------------------------
(* Correctness                                                             *)

Holders == {c \in Callers : callers[c].stage = "holding"}

\* No object is in two hands, whatever is released, resized and filled meanwhile.
HeldOnce == \A c, d \in Holders : callers[c].obj = callers[d].obj => c = d

\* What a caller holds can be given back: its slot has it and is allocated.  Only
\* an object that a filling took the slot of is lost to the pool, with the slot.
HeldIsReturnable ==
    ~poolGone => \A c \in Holders :
        LET o == callers[c].obj IN
        \/ IsFromPool(o) /\ slots[poolId[o]].status = "allocated"
        \/ o \in ousted

\* However acquire, release, resize, drain and late fillings interleave: the free
\* list, the heap and the numbers written into the objects describe the slots, and
\* every allocated slot is somebody's, who can give its object back.
PoolAgrees ==
    /\ PoolTypeOK
    /\ freeList = freeIds(slots) /\ lruHeap \subseteq freeList
    /\ \A i \in slotIds(slots) : slots[i].obj # 0 => poolId[slots[i].obj] = i
    /\ ~poolGone => Len(slots) - Cardinality(freeList) = Cardinality(Holders)
    /\ HeldOnce /\ HeldIsReturnable

\* Who waits is served or turned away, but beside slots that resize, drain or clear
\* made free, which do not look at the queue, and when a filling has lost a slot.
WaitersServed ==
    \A c \in Callers :
        callers[c].stage = "waiting" ~>
            \/ callers[c].stage # "waiting"
            \/ freeList # {} /\ resizes > 0
            \/ ousted # {}
=============================================================================
