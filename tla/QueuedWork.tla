----------------------------- MODULE QueuedWork -----------------------------
(***************************************************************************)
(* What PriorityQueue of @axrone/memory promises its callers: the nodes    *)
(* enqueued and not yet taken, each under its handle, of which dequeue     *)
(* answers the first, by priority and among equals by age.  How it finds   *)
(* the first one is the subject of PriorityQueue.tla.                      *)
(***************************************************************************)
EXTENDS Integers

CONSTANT Priorities   \* numbers, the smallest first

VARIABLES
    contents,        \* the priority of each handle in the queue
    issued,          \* how many handles were given out
    answer           \* the handle the last call asked for and the one it took out

\* Handles count from 1: dequeue asks for none, the other calls take none out.
NoNode == 0
Nothing == [asked |-> NoNode, got |-> NoNode]

First(h) ==
    /\ h \in DOMAIN contents
    /\ \A g \in DOMAIN contents :
          \/ contents[h] < contents[g]
          \/ contents[h] = contents[g] /\ h <= g

\* What stays when the handles S leave, joined by new ones with the next numbers.
Replaced(S) ==
    /\ issued' >= issued
    /\ DOMAIN contents' = (DOMAIN contents \ S) \union (issued + 1 .. issued')
    /\ \A h \in DOMAIN contents \ S : contents'[h] = contents[h]
    /\ \A h \in issued + 1 .. issued' : contents'[h] \in Priorities

workVars == <<contents, issued, answer>>

WorkInit == contents = << >> /\ issued = 0 /\ answer = Nothing

Enqueue == issued' > issued /\ Replaced({}) /\ answer' = Nothing

\* dequeue takes the first out; replaceHead puts another node in its place.
TakeFirst ==
    \E h \in DOMAIN contents :
        First(h) /\ Replaced({h}) /\ issued' <= issued + 1
        /\ answer' = [asked |-> NoNode, got |-> h]

Remove ==
    \E h \in DOMAIN contents :
        Replaced({h}) /\ issued' = issued /\ answer' = [asked |-> h, got |-> h]

Update ==
    /\ \E h \in DOMAIN contents, p \in Priorities : contents' = [contents EXCEPT ![h] = p]
    /\ UNCHANGED issued /\ answer' = Nothing

Clear == contents' = << >> /\ UNCHANGED issued /\ answer' = Nothing

WorkNext == Enqueue \/ TakeFirst \/ Remove \/ Update \/ Clear

WorkSpec == WorkInit /\ [][WorkNext]_workVars
=============================================================================
