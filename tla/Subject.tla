------------------------------ MODULE Subject ------------------------------
(***************************************************************************)
(* The Subject of packages/observer: observers kept in buckets by          *)
(* priority, walked by notify, notifySync, complete and error, whose       *)
(* callbacks may call the subject back; debounce timers; and the window    *)
(* that bounds concurrent notifications.  Values, filters, transforms that *)
(* return promises, throttling, buffering, replay and weak references are  *)
(* left out, and so is onAfterNotify.                                      *)
(***************************************************************************)
EXTENDS Naturals, Sequences, FiniteSets, SequencesExt, Subsequences

CONSTANTS
    Observers,     \* records of observers, each added at most once
    Rank(_),       \* priority of an observer: 0, 1 or 2
    Once,          \* those with the option once
    Debounced,     \* those with the option debounceMs
    Notifications, \* calls of notify
    MaxConcurrent, \* option concurrency.maxConcurrent
    MaxWalks,      \* bound: walks and timers on the stack
    MaxCalls,      \* bound: calls of notifySync, complete and error
    NoOne

ASSUME SubjectAssumption ==
    (\A o \in Observers : Rank(o) \in 0..2) /\ MaxConcurrent \in Nat

VARIABLES
    observers,    \* _observers; isActive is TRUE for exactly these
    added,        \* observers added so far
    buckets,      \* _buckets
    compaction,   \* _needsCompaction
    walks,        \* the stack of calls of _forEachObserver and of timers
    timers,       \* observer -> who armed its debounceTimer
    awaited,      \* promises of callbacks: their observer and notification
    stage,        \* notification -> how far it is
    concurrent,   \* _concurrentNotifications
    turnedAway,   \* whether a notification failed before it entered the window
    completed,    \* _isCompleted
    subjectGone,  \* _isDisposed
    subjectCalls  \* calls of notifySync, complete and error so far

recordVars == <<observers, added, buckets, compaction, timers>>
windowVars == <<stage, concurrent, turnedAway>>
flagVars == <<completed, subjectGone, subjectCalls>>
subjectVars == <<recordVars, walks, awaited, windowVars, flagVars>>

Priorities == 0..2
SubjectTypeOK ==
    /\ observers \subseteq added /\ added \subseteq Observers
    /\ \A p \in Priorities : Range(buckets[p]) \subseteq Observers
    /\ \A o \in Observers : timers[o] \in {"off", "sync", "async"}
    /\ awaited \subseteq Observers \X (Notifications \cup {NoOne})
    /\ stage \in [Notifications -> {"new", "asked", "walking", "settling", "over"}]
    /\ concurrent \in Nat
    /\ {compaction, turnedAway, completed, subjectGone} \subseteq BOOLEAN

SubjectInit ==
    /\ observers = {} /\ added = {} /\ buckets = [p \in Priorities |-> <<>>]
    /\ compaction = FALSE /\ walks = <<>> /\ timers = [o \in Observers |-> "off"]
    /\ awaited = {} /\ stage = [n \in Notifications |-> "new"]
    /\ concurrent = 0 /\ turnedAway = FALSE
    /\ completed = FALSE /\ subjectGone = FALSE /\ subjectCalls = 0

-----------------------------------------------------------------------------
(* Mutated forms, for the check that the properties detect plausible bugs   *)

IsStill_Always(ws) == TRUE

-----------------------------------------------------------------------------
(* Walks                                                                   *)

\* "due" and "told" are not kept by the code: who was there when the walk began
\* and is still to be visited, and who was visited.
Walk(kind, n) ==
    [kind |-> kind, of |-> n, at |-> <<0, 0>>, calling |-> NoOne,
     due |-> IF kind = "single" THEN {} ELSE observers, told |-> {}]

top == walks[Len(walks)]
pushed(w) == Append(walks, w)
changed(w) == [walks EXCEPT ![Len(walks)] = w]
returned == changed([top EXCEPT !.calling = NoOne])
Between == walks = <<>>
\* The user calls between two turns of the event loop, or in a callback.
Calling == ~Between /\ top.calling # NoOne
MayCall == Between \/ Calling

notificationDepth(ws) == Cardinality({i \in DOMAIN ws : ws[i].kind # "single"})
Walking == ~Between /\ top.kind # "single" /\ top.calling = NoOne

\* The entries that the walk has not come to, as <<bucket, index>>.
Later(x, y) == x[1] > y[1] \/ (x[1] = y[1] /\ x[2] > y[2])
Entries == UNION {{<<p, i>> : i \in DOMAIN buckets[p]} : p \in Priorities}
Ahead(w) == {x \in Entries : Later(x, w.at)}
entry(x) == buckets[x[1]][x[2]]
ActiveAhead(w) == {x \in Ahead(w) : entry(x) \in observers}

IsStill(ws) == notificationDepth(ws) = 0

\* _deactivateObserver, with the stack ws: an entry is removed at once only when
\* no walk is under way.
deactivate(o, ws) ==
    /\ observers' = observers \ {o}
    /\ timers' = [timers EXCEPT ![o] = "off"]
    /\ IF o \in observers /\ IsStill(ws)
       THEN /\ buckets' = [buckets EXCEPT ![Rank(o)] = Keep(@, Observers \ {o})]
            /\ UNCHANGED compaction
       ELSE /\ compaction' = (compaction \/ o \in observers)
            /\ UNCHANGED buckets
    /\ walks' = [i \in DOMAIN ws |-> [ws[i] EXCEPT !.due = @ \ {o}]]
    /\ UNCHANGED added

\* _finalizeObserverExecution.
finalize(o, ws) ==
    IF o \in Once THEN deactivate(o, ws) ELSE walks' = ws /\ UNCHANGED recordVars

\* _forEachObserver comes to the next active observer: a filter refuses the value,
\* a debounced observer gets a timer in place of its old one, or it is called.
VisitNext ==
    LET x == CHOOSE x \in ActiveAhead(top) : \A y \in ActiveAhead(top) : ~Later(x, y)
        o == entry(x)
        passed == {y \in Ahead(top) : Later(x, y)}
        w == [top EXCEPT !.at = x, !.due = @ \ {o}, !.told = @ \cup {o}]
    IN /\ Walking /\ ActiveAhead(top) # {}
       /\ compaction' = (compaction \/ passed # {})
       /\ \/ top.kind # "announce" /\ walks' = changed(w) /\ UNCHANGED timers
          \/ /\ top.kind # "announce" /\ o \in Debounced
             /\ timers' = [timers EXCEPT ![o] = top.kind]
             /\ walks' = changed(w)
          \/ /\ top.kind = "announce" \/ o \notin Debounced
             /\ walks' = changed([w EXCEPT !.calling = o])
             /\ UNCHANGED timers
       /\ UNCHANGED <<observers, added, buckets, awaited, windowVars, flagVars>>

\* The end of a walk, also by an exception: _compactObserversIfNeeded.
endWalk ==
    LET rest == Front(walks)
        compact == IsStill(rest) /\ (compaction \/ Ahead(top) # {})
    IN /\ walks' = rest
       /\ IF compact
          THEN /\ buckets' = [p \in Priorities |->
                                Keep(buckets[p], observers)]
               /\ compaction' = FALSE
          ELSE /\ compaction' = (compaction \/ Ahead(top) # {})
               /\ UNCHANGED buckets
       /\ stage' = IF top.kind = "async" THEN [stage EXCEPT ![top.of] = "settling"] ELSE stage
       /\ UNCHANGED <<observers, added, timers, awaited, concurrent, turnedAway, flagVars>>
WalkEnds == Walking /\ ActiveAhead(top) = {} /\ endWalk

-----------------------------------------------------------------------------
(* Callbacks                                                               *)

\* A timer is gone with its callback.
afterCall == IF top.kind = "single" THEN Front(walks) ELSE returned

CallReturns ==
    /\ Calling
    /\ IF top.kind = "announce" THEN walks' = afterCall /\ UNCHANGED recordVars
       ELSE finalize(top.calling, afterCall)
    /\ UNCHANGED <<awaited, windowVars, flagVars>>

\* It returns a promise: only notify, and the timers it arms, wait for it.
CallPromises ==
    /\ Calling
    /\ IF top.kind = "async" \/ (top.kind = "single" /\ top.of = "async")
       THEN /\ awaited' = awaited \cup
                    {<<top.calling, IF top.kind = "async" THEN top.of ELSE NoOne>>}
            /\ walks' = afterCall /\ UNCHANGED recordVars
       ELSE /\ IF top.kind = "announce" THEN walks' = afterCall /\ UNCHANGED recordVars
               ELSE finalize(top.calling, afterCall)
            /\ UNCHANGED awaited
    /\ UNCHANGED <<windowVars, flagVars>>

\* It throws: the error ends a walk of notifySync, unless the observer handles it.
CallThrows ==
    /\ Calling
    /\ walks' = afterCall
    /\ UNCHANGED <<recordVars, awaited, windowVars, flagVars>>
CallThrowsOut ==
    /\ Calling /\ top.kind = "sync"
    /\ walks' = Front(walks)
    /\ IF compaction /\ IsStill(walks')
       THEN /\ buckets' = [p \in Priorities |->
                             Keep(buckets[p], observers)]
            /\ compaction' = FALSE
       ELSE UNCHANGED <<buckets, compaction>>
    /\ UNCHANGED <<observers, added, timers, awaited, windowVars, flagVars>>

PromiseSettles(a) ==
    /\ Between /\ a \in awaited /\ awaited' = awaited \ {a}
    /\ finalize(a[1], walks) \/ (walks' = walks /\ UNCHANGED recordVars)
    /\ UNCHANGED <<windowVars, flagVars>>

TimerFires(o) ==
    /\ Between /\ timers[o] # "off"
    /\ timers' = [timers EXCEPT ![o] = "off"]
    /\ walks' = IF o \in observers
                THEN pushed([Walk("single", timers[o]) EXCEPT !.calling = o]) ELSE walks
    /\ UNCHANGED <<observers, added, buckets, compaction, awaited, windowVars, flagVars>>

-----------------------------------------------------------------------------
(* Notifications                                                           *)

\* _enterConcurrencyWindow and _leaveConcurrencyWindow; the latter also runs for a
\* notification that failed its validation or was refused.
WindowIsOpen == concurrent < MaxConcurrent
left == IF concurrent = 0 THEN 0 ELSE concurrent - 1

notify(n) ==
    /\ MayCall /\ ~subjectGone /\ ~completed /\ stage[n] = "new" /\ Len(walks) < MaxWalks
    /\ \/ /\ concurrent' = left /\ turnedAway' = TRUE  \* refused, or invalid data
          /\ stage' = [stage EXCEPT ![n] = "over"]
          /\ UNCHANGED walks
       \/ /\ WindowIsOpen /\ concurrent' = concurrent + 1 /\ UNCHANGED turnedAway
          /\ \/ stage' = [stage EXCEPT ![n] = "asked"] /\ UNCHANGED walks
             \/ /\ stage' = [stage EXCEPT ![n] = "walking"]
                /\ walks' = pushed(Walk("async", n))
    /\ UNCHANGED <<recordVars, awaited, flagVars>>

\* onBeforeNotify answers.  Nothing is asked again: the subject may be completed.
HookAnswers(n) ==
    /\ Between /\ stage[n] = "asked"
    /\ \/ /\ stage' = [stage EXCEPT ![n] = "walking"] /\ walks' = pushed(Walk("async", n))
          /\ UNCHANGED concurrent
       \/ /\ stage' = [stage EXCEPT ![n] = "over"] /\ concurrent' = left /\ UNCHANGED walks
    /\ UNCHANGED <<recordVars, awaited, turnedAway, flagVars>>

NotifyReturns(n) ==
    /\ Between /\ stage[n] = "settling" /\ \A a \in awaited : a[2] # n
    /\ stage' = [stage EXCEPT ![n] = "over"] /\ concurrent' = left
    /\ UNCHANGED <<recordVars, walks, awaited, turnedAway, flagVars>>

subjectCall ==
    /\ MayCall /\ ~subjectGone /\ subjectCalls < MaxCalls /\ Len(walks) < MaxWalks
    /\ subjectCalls' = subjectCalls + 1
    /\ UNCHANGED <<recordVars, awaited, windowVars, subjectGone>>

NotifySync ==
    /\ subjectCall /\ ~completed /\ UNCHANGED completed
    /\ walks' = pushed(Walk("sync", NoOne))

Complete == subjectCall /\ ~completed /\ completed' = TRUE /\ walks' = pushed(Walk("announce", NoOne))
Error == subjectCall /\ UNCHANGED completed /\ walks' = pushed(Walk("announce", NoOne))

-----------------------------------------------------------------------------
(* Observers come and go                                                   *)

AddObserver(o) ==
    /\ MayCall /\ ~subjectGone /\ ~completed /\ o \notin added
    /\ observers' = observers \cup {o} /\ added' = added \cup {o}
    /\ buckets' = [buckets EXCEPT ![Rank(o)] = Append(@, o)]
    /\ UNCHANGED <<compaction, walks, timers, awaited, windowVars, flagVars>>

RemoveObserver(o) ==
    /\ MayCall /\ o \in observers
    /\ deactivate(o, walks)
    /\ UNCHANGED <<awaited, windowVars, flagVars>>

\* dispose, also at the end of complete with the option autoComplete.
DisposeSubject ==
    /\ MayCall /\ ~subjectGone /\ subjectGone' = TRUE
    /\ observers' = {} /\ buckets' = [p \in Priorities |-> <<>>]
    /\ timers' = [o \in Observers |-> "off"]
    /\ walks' = [i \in DOMAIN walks |-> [walks[i] EXCEPT !.due = {}]]
    /\ UNCHANGED <<added, compaction, awaited, windowVars, completed, subjectCalls>>

SubjectNext ==
    \/ VisitNext \/ WalkEnds \/ CallReturns \/ CallPromises \/ CallThrows \/ CallThrowsOut
    \/ \E a \in awaited : PromiseSettles(a)
    \/ \E o \in Observers : TimerFires(o) \/ AddObserver(o) \/ RemoveObserver(o)
    \/ \E n \in Notifications : notify(n) \/ HookAnswers(n) \/ NotifyReturns(n)
    \/ NotifySync \/ Complete \/ Error \/ DisposeSubject

SubjectSpec == SubjectInit /\ [][SubjectNext]_subjectVars

-----------------------------------------------------------------------------
(* Correctness                                                             *)

\* Whatever callbacks add, remove, notify and dispose: every observer is in the
\* buckets once, at its priority, nothing else is left there when no walk is under
\* way, and only observers have timers.
BucketsAgree ==
    /\ SubjectTypeOK
    /\ \A o \in observers : Cardinality({x \in Entries : entry(x) = o}) = 1
    /\ \A o \in observers : o \in Range(buckets[Rank(o)])
    /\ Between => \A p \in Priorities : Range(buckets[p]) \subseteq observers
    /\ \A o \in Observers : timers[o] # "off" => o \in observers

\* A walk skips nobody and visits nobody twice, on any level of nesting: who was
\* there when it began and was not removed since is still ahead of it, who was
\* visited is behind.
WalksAreFair ==
    \A i \in DOMAIN walks : LET w == walks[i] IN
        w.kind # "single" =>
            /\ w.due \subseteq {entry(x) : x \in ActiveAhead(w)}
            /\ \A x \in Ahead(w) : entry(x) \notin w.told

\* The window counts the notifications inside it and bounds them, as long as none
\* was turned away; one that was turned away leaves a window it never entered,
\* but no place is ever lost.
Inside == {n \in Notifications : stage[n] \in {"asked", "walking", "settling"}}
WindowHolds ==
    /\ concurrent <= Cardinality(Inside)
    /\ ~turnedAway => concurrent = Cardinality(Inside) /\ concurrent <= MaxConcurrent

\* Observers that come, go and call back while walks are under way are told
\* once, in order, and at most MaxConcurrent notifications are about.
ObserversAgree == BucketsAgree /\ WalksAreFair /\ WindowHolds
=============================================================================
