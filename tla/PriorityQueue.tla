--------------------------- MODULE PriorityQueue ---------------------------
(***************************************************************************)
(* The priority queue of @axrone/memory (priority-queue.ts): a binary heap *)
(* in an array, with an index of the position of each handle so that a     *)
(* node can be removed or given another priority where it is.              *)
(*                                                                         *)
(* Positions count from 1 here, from 0 in the code.  Values, which the     *)
(* heap does not look at, are left out.  Handles and sequence numbers are  *)
(* given out together and are one number; they do not wrap (at 2^53).      *)
(***************************************************************************)
EXTENDS Integers, Sequences, SequencesExt

CONSTANTS
    NodePriorities,  \* numbers; the comparator is their order
    Order,           \* "min" or "max"
    MaxHandles,      \* bound: nodes ever enqueued
    MaxBatch         \* bound: nodes of one call of enqueueEntries

QueueAssumption ==
    /\ NodePriorities \subseteq Int /\ Order \in {"min", "max"}
    /\ {MaxHandles, MaxBatch} \subseteq Nat

VARIABLES
    heap,            \* store: nodes by position; index: position by handle
    nextHandle,      \* handles given out so far
    taken            \* the handle the last call asked for and the one it took out

Taken(h, g) == [asked |-> h, got |-> g]
Nothing == Taken(0, 0)

queueVars == <<heap, nextHandle, taken>>

QueueInit == heap = [store |-> << >>, index |-> << >>] /\ nextHandle = 0 /\ taken = Nothing

Sooner(p, q) == IF Order = "min" THEN p < q ELSE p > q

comesBefore(n, m) ==
    \/ Sooner(n.priority, m.priority)
    \/ n.priority = m.priority /\ n.handle < m.handle

----------------------------------------------------------------------------
\* indexByHandle.set
indexed(index, h, i) ==
    [g \in DOMAIN index \union {h} |-> IF g = h THEN i ELSE index[g]]

\* A node that sifts changes places with each node on its way; the code moves
\* those and stores the node where it ends.
Swapped(q, i, j) ==
    [store |-> [q.store EXCEPT ![i] = q.store[j], ![j] = q.store[i]],
     index |-> indexed(indexed(q.index, q.store[j].handle, i), q.store[i].handle, j)]

\* A round of a loop, of the queue and the place the node is at; what breaks
\* the loop leaves both as they are.  There are fewer rounds than nodes.
rise(s) ==
    LET parent == s.at \div 2
    IN  IF s.at > 1 /\ comesBefore(s.queue.store[s.at], s.queue.store[parent])
        THEN [queue |-> Swapped(s.queue, s.at, parent), at |-> parent] ELSE s

siftUp(q, i) ==
    LET after[n \in 0..Len(q.store)] ==
            IF n = 0 THEN [queue |-> q, at |-> i] ELSE rise(after[n - 1])
    IN  after[Len(q.store)].queue

bestChild(store, i) ==
    IF 2 * i + 1 <= Len(store) /\ comesBefore(store[2 * i + 1], store[2 * i])
    THEN 2 * i + 1 ELSE 2 * i

sink(s) ==
    LET store == s.queue.store
        best == bestChild(store, s.at)
    IN  IF s.at <= Len(store) \div 2 /\ comesBefore(store[best], store[s.at])
        THEN [queue |-> Swapped(s.queue, s.at, best), at |-> best] ELSE s

siftDown(q, i) ==
    LET after[n \in 0..Len(q.store)] ==
            IF n = 0 THEN [queue |-> q, at |-> i] ELSE sink(after[n - 1])
    IN  after[Len(q.store)].queue

heapify(q) ==
    LET half == Len(q.store) \div 2
        after[n \in 0..half] ==
            IF n = 0 THEN q ELSE siftDown(after[n - 1], half + 1 - n)
    IN  after[half]

\* The node is stored at a position that is free or the first one behind.
Placed(q, i, node) ==
    [store |-> IF i > Len(q.store) THEN Append(q.store, node) ELSE [q.store EXCEPT ![i] = node],
     index |-> indexed(q.index, node.handle, i)]

Forgotten(q, h) == [q EXCEPT !.index = [g \in DOMAIN @ \ {h} |-> @[g]]]

pop(q) == [q EXCEPT !.store = Front(@)]

insert(q, node) ==
    LET i == Len(q.store) + 1
    IN  IF i = 1 THEN Placed(q, i, node) ELSE siftUp(Placed(q, i, node), i)

insertAll(q, nodes) ==
    LET after[n \in 0..Len(nodes)] == IF n = 0 THEN q ELSE insert(after[n - 1], nodes[n])
    IN  after[Len(nodes)]

\* All nodes of a batch are stored behind the last one.
appendAll(q, nodes) ==
    [store |-> q.store \o nodes,
     index |-> [h \in DOMAIN q.index \union {nodes[k].handle : k \in DOMAIN nodes} |->
                   IF \E k \in DOMAIN nodes : nodes[k].handle = h
                   THEN Len(q.store) + CHOOSE k \in DOMAIN nodes : nodes[k].handle = h
                   ELSE q.index[h]]]

\* The tail, which took the place i, goes up when it comes before the parent.
resettled_Down(q, i) == siftDown(q, i)

resettled(q, i) ==
    IF i > 1 /\ comesBefore(q.store[i], q.store[i \div 2]) THEN siftUp(q, i) ELSE siftDown(q, i)

removeAt(q, i) ==
    LET rest == pop(Forgotten(q, q.store[i].handle))
    IN  IF i > Len(rest.store) THEN rest ELSE resettled(Placed(rest, i, Last(q.store)), i)

\* A batch is inserted one by one if that is cheaper than to heapify:
\* incoming <= ceil(base / log2(base + incoming + 1)).
InsertsSingly(base, incoming) == (base + incoming + 1) ^ (incoming - 1) < 2 ^ base

----------------------------------------------------------------------------
Node(h, p) == [handle |-> h, priority |-> p]

Enqueue(p) ==
    /\ nextHandle < MaxHandles
    /\ heap' = insert(heap, Node(nextHandle + 1, p))
    /\ nextHandle' = nextHandle + 1 /\ taken' = Nothing

\* enqueueEntries and enqueueValues
EnqueueEntries(entries) ==
    LET nodes == [k \in DOMAIN entries |-> Node(nextHandle + k, entries[k])]
        base == Len(heap.store)
    IN  /\ entries # << >> /\ nextHandle + Len(entries) <= MaxHandles
        /\ heap' = IF base > 0 /\ InsertsSingly(base, Len(entries))
                   THEN insertAll(heap, nodes)
                   ELSE heapify(appendAll(heap, nodes))
        /\ nextHandle' = nextHandle + Len(entries) /\ taken' = Nothing

\* dequeue, and each round of drain
Dequeue ==
    /\ heap.store # << >>
    /\ LET root == Head(heap.store)
           rest == pop(Forgotten(heap, root.handle))
       IN  /\ heap' = IF Len(heap.store) = 1 THEN rest
                      ELSE siftDown(Placed(rest, 1, Last(heap.store)), 1)
           /\ taken' = Taken(0, root.handle)
    /\ UNCHANGED nextHandle

ReplaceHead(p) ==
    /\ heap.store # << >> /\ nextHandle < MaxHandles
    /\ LET root == Head(heap.store)
       IN  /\ heap' = siftDown(Placed(Forgotten(heap, root.handle), 1, Node(nextHandle + 1, p)), 1)
           /\ taken' = Taken(0, root.handle)
    /\ nextHandle' = nextHandle + 1

\* remove finds the node by its handle, delete by its value.
RemoveNode(h) ==
    /\ h \in DOMAIN heap.index
    /\ heap' = removeAt(heap, heap.index[h])
    /\ taken' = Taken(h, heap.store[heap.index[h]].handle)
    /\ UNCHANGED nextHandle

UpdatePriority(h, p) ==
    /\ h \in DOMAIN heap.index
    /\ LET i == heap.index[h]
           old == heap.store[i].priority
           changed == [heap EXCEPT !.store[i].priority = p]
       IN  heap' = IF p = old THEN changed
                   ELSE IF Sooner(p, old) THEN siftUp(changed, i) ELSE siftDown(changed, i)
    /\ taken' = Nothing
    /\ UNCHANGED nextHandle

Clear ==
    /\ heap' = [store |-> << >>, index |-> << >>] /\ taken' = Nothing
    /\ UNCHANGED nextHandle

Batches == UNION {[1..n -> NodePriorities] : n \in 2..MaxBatch}

QueueNext ==
    \/ \E p \in NodePriorities : Enqueue(p) \/ ReplaceHead(p)
    \/ \E entries \in Batches : EnqueueEntries(entries)
    \/ Dequeue \/ Clear
    \/ \E h \in DOMAIN heap.index : RemoveNode(h) \/ \E p \in NodePriorities : UpdatePriority(h, p)

QueueSpec == QueueInit /\ [][QueueNext]_queueVars

----------------------------------------------------------------------------
\* The queue refines QueuedWork: the priority of a handle is that of the node
\* at its index.  The smallest is first, so priorities are turned for "max".
Turned(p) == IF Order = "min" THEN p ELSE -p

Contents == [h \in DOMAIN heap.index |-> Turned(heap.store[heap.index[h]].priority)]

Work == INSTANCE QueuedWork WITH
    Priorities <- {Turned(p) : p \in NodePriorities},
    contents <- Contents,
    issued <- nextHandle,
    answer <- taken

\* A caller sees the nodes it enqueued, dequeued in the order of priority and
\* age, through every mixture of single and batched insertions, removals in
\* the middle and changes of priority: the array stays a heap, and the index
\* of handles follows each move of a node.
ImplementsQueuedWork == Work!WorkSpec
=============================================================================
