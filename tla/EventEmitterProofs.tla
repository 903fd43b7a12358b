------------------------- MODULE EventEmitterProofs -------------------------
(***************************************************************************)
(* Proofs about EventEmitter, for any events, listeners and callers.       *)
(*                                                                         *)
(* OnceIsOnce rests on this: a live once() subscription has not been heard *)
(* of yet, since every snapshot that contains it removes it in the same    *)
(* callback.  OneProcessor follows a run from the stack, where its resume  *)
(* has not returned, to bufferProcessing, which is cleared together with   *)
(* it, or to the runs that were hidden.  DrainCompletes follows from this  *)
(* and from EInv.  All hold with any number of loops in progress.          *)
(*                                                                         *)
(* EventsAccounted rests on EInv: the buffer, the hands of the loops and   *)
(* the scheduler partition the events that have not ended, as fate says;   *)
(* what a loop holds is sorted by priority and comes after what it awaits; *)
(* and a loop holds events only between its first emit and its end, so     *)
(* that none is lost when it starts again.                                 *)
(***************************************************************************)
EXTENDS EventEmitter, SubsequenceProofs

-----------------------------------------------------------------------------
(* once() *)

OnceInv ==
    /\ subscribed \subseteq Listeners
    /\ \A l \in Once : l \in subscribed => heard[l] = {}
    /\ \A l \in Once : \E e : heard[l] \subseteq {e}

\* A set within a singleton has at most one element.
LEMMA AtMostOne ==
    ASSUME NEW S, NEW e, S \subseteq {e}
    PROVE  Cardinality(S) <= 1
<1>1. IsFiniteSet({e}) /\ Cardinality({e}) = 1
    BY FS_Singleton
<1> QED
    BY <1>1, FS_Subset

LEMMA OnceInvImplies == OnceInv => OnceIsOnce
<1> SUFFICES ASSUME OnceInv, NEW l \in Once
             PROVE  Cardinality(heard[l]) <= 1
    BY DEF OnceIsOnce
<1>1. PICK e : heard[l] \subseteq {e}
    BY DEF OnceInv
<1> QED
    BY <1>1, AtMostOne

\* The listeners of S hear of e, and those of S that are subscribed by once()
\* are removed: what emit and emitSync do to the subscriptions.
LEMMA HearingKeepsOnce ==
    ASSUME OnceInv, NEW e, NEW S, NEW T,
           S \subseteq subscribed, T \subseteq S,
           subscribed' = subscribed \ (S \intersect Once),
           heard' = [l \in Listeners |-> IF l \in T THEN heard[l] \union {e} ELSE heard[l]]
    PROVE  OnceInv'
<1>1. Once \subseteq Listeners
    BY EventsAssumption
<1>2. (subscribed \subseteq Listeners)'
    BY DEF OnceInv
<1>3. ASSUME NEW l \in Once, l \in subscribed'
      PROVE  heard'[l] = {}
    <2>1. l \in subscribed /\ l \notin T
        BY <1>3
    <2> QED
        BY <2>1, <1>1 DEF OnceInv
<1>4. ASSUME NEW l \in Once
      PROVE  \E x : heard'[l] \subseteq {x}
    <2>1. CASE l \in T
        <3>1. heard[l] = {}
            BY <2>1 DEF OnceInv
        <3>2. heard'[l] \subseteq {e}
            BY <2>1, <3>1, <1>1
        <3> QED
            BY <3>2
    <2>2. CASE l \notin T
        <3>1. heard'[l] = heard[l]
            BY <2>2, <1>1
        <3> QED
            BY <3>1 DEF OnceInv
    <2> QED
        BY <2>1, <2>2
<1> QED
    BY <1>2, <1>3, <1>4 DEF OnceInv

LEMMA DispatchKeepsOnce ==
    ASSUME OnceInv, NEW e, NEW before, Dispatch(e, before)
    PROVE  OnceInv'
<1> DEFINE S == snapshotListeners(e)
<1>1. S \subseteq subscribed
    BY DEF snapshotListeners
<1>2. subscribed' = subscribed \ (S \intersect Once)
    BY DEF Dispatch, removeOnceSubscriptions
<1>3. heard' = [l \in Listeners |-> IF l \in S THEN heard[l] \union {e} ELSE heard[l]]
    BY DEF Dispatch
<1> HIDE DEF S
<1> QED
    BY <1>1, <1>2, <1>3, HearingKeepsOnce

LEMMA SameListenersKeepOnce ==
    ASSUME OnceInv, UNCHANGED <<subscribed, heard>>
    PROVE  OnceInv'
BY DEF OnceInv

LEMMA InitOnceInv == Init => OnceInv
<1> SUFFICES ASSUME Init PROVE OnceInv
    OBVIOUS
<1>1. \A l \in Once : heard[l] = {}
    BY EventsAssumption DEF Init
<1> QED
    BY <1>1 DEF Init, OnceInv

\* The actions that call no listener and make no subscription, by what they
\* leave alone.
LEMMA QuietKeepOnce ==
    ASSUME OnceInv,
           \/ UNCHANGED vars
           \/ pause \/ resume \/ ResumeReturns
           \/ \E p \in Processors : ProcessingSettles(p)
           \/ \E l \in Loops : LoopEnds(l) \/ LoopBreaks(l)
           \/ \E e \in Events, l \in Listeners : CallReturns(e, l) \/ CallThrows(e, l)
           \/ \E d \in Drainers : drain(d) \/ DrainGoesOn(d)
           \/ \E n \in Names : clearBuffer({n})
           \/ clearBuffer(Names)
    PROVE  OnceInv'
<1>1. CASE UNCHANGED vars
    BY <1>1, SameListenersKeepOnce DEF vars, dispatchVars
<1>2. CASE pause \/ resume \/ ResumeReturns
    BY <1>2, SameListenersKeepOnce DEF pause, resume, ResumeReturns, dispatchVars
<1>3. CASE \E p \in Processors : ProcessingSettles(p)
    BY <1>3, SameListenersKeepOnce DEF ProcessingSettles, dispatchVars
<1>4. CASE \E l \in Loops : LoopEnds(l) \/ LoopBreaks(l)
    BY <1>4, SameListenersKeepOnce DEF LoopEnds, LoopBreaks, dispatchVars
<1>5. CASE \E e \in Events, l \in Listeners : CallReturns(e, l) \/ CallThrows(e, l)
    BY <1>5, SameListenersKeepOnce DEF CallReturns, CallThrows, CallSettles
<1>6. CASE \E d \in Drainers : drain(d) \/ DrainGoesOn(d)
    BY <1>6, SameListenersKeepOnce DEF drain, DrainGoesOn, dispatchVars
<1>7. CASE (\E n \in Names : clearBuffer({n})) \/ clearBuffer(Names)
    BY <1>7, SameListenersKeepOnce DEF clearBuffer
<1> QED
    BY <1>1, <1>2, <1>3, <1>4, <1>5, <1>6, <1>7

LEMMA FlushKeepsOnce ==
    ASSUME OnceInv, NEW f, FlushBuffered(f)
    PROVE  OnceInv'
<1>1. CASE BufferedOf({FlushOf[f]}) = <<>>
    BY <1>1, SameListenersKeepOnce DEF FlushBuffered, dispatchVars
<1>2. CASE BufferedOf({FlushOf[f]}) # <<>>
    BY <1>2, DispatchKeepsOnce DEF FlushBuffered, TakeAndEmitFirst
<1> QED
    BY <1>1, <1>2

LEMMA EnqueueKeepsOnce ==
    ASSUME OnceInv, NEW e, NEW overflow, Enqueue(e, overflow)
    PROVE  OnceInv'
BY SameListenersKeepOnce DEF Enqueue

\* The heart of the proof: every step keeps the once() invariant.
LEMMA NextOnceInv == OnceInv /\ [Next]_vars => OnceInv'
<1> SUFFICES ASSUME OnceInv, [Next]_vars PROVE OnceInv'
    OBVIOUS
<1>0. Once \subseteq Listeners
    BY EventsAssumption
<1>1. CASE \E l \in Listeners : on(l)
    <2>1. PICK l \in Listeners : on(l)
        BY <1>1
    <2>2. heard' = heard /\ subscribed' = subscribed \union {l} /\ heard[l] = {}
        BY <2>1 DEF on
    <2> QED
        BY <2>2 DEF OnceInv
<1>2. CASE \E S \in SUBSET subscribed : off(S)
    <2>1. heard' = heard /\ subscribed' \subseteq subscribed
        BY <1>2 DEF off
    <2> QED
        BY <2>1 DEF OnceInv
<1>3. CASE \E e \in Events : emit(e)
    BY <1>3, DispatchKeepsOnce, EnqueueKeepsOnce DEF emit
<1>4. CASE \E e \in Events : emitSync(e)
    <2>1. PICK e \in Events : emitSync(e)
        BY <1>4
    <2>2. CASE isPaused /\ Enqueue(e, "refused")
        BY <2>2, EnqueueKeepsOnce
    <2>3. CASE ~(isPaused /\ Enqueue(e, "refused"))
        <3> DEFINE S == snapshotListeners(e)
        <3>1. S \subseteq subscribed
            BY DEF snapshotListeners
        <3>2. subscribed' = subscribed \ (S \intersect Once)
            BY <2>1, <2>3 DEF emitSync, removeOnceSubscriptions
        <3>3. PICK T \in SUBSET S :
                  heard' = [l \in Listeners |-> IF l \in T THEN heard[l] \union {e} ELSE heard[l]]
            BY <2>1, <2>3 DEF emitSync
        <3> HIDE DEF S
        <3> QED
            BY <3>1, <3>2, <3>3, HearingKeepsOnce
    <2> QED
        BY <2>2, <2>3
<1>5. CASE \E p \in Processors : ResumeAndProcess(p)
    BY <1>5, DispatchKeepsOnce DEF ResumeAndProcess, TakeAndEmitFirst
<1>6. CASE \E f \in Flushers : flush(f)
    BY <1>6, FlushKeepsOnce, SameListenersKeepOnce DEF flush, dispatchVars
<1>7. CASE \E f \in Flushers : FlushResumes(f)
    BY <1>7, FlushKeepsOnce, SameListenersKeepOnce DEF FlushResumes, dispatchVars
<1>8. CASE \E l \in Loops : LoopEmitsNext(l)
    BY <1>8, DispatchKeepsOnce, EnqueueKeepsOnce DEF LoopEmitsNext
<1>9. CASE dispose
    <2>1. heard' = heard /\ subscribed' = {}
        BY <1>9 DEF dispose
    <2> QED
        BY <2>1 DEF OnceInv
<1> QED
    BY <1>1, <1>2, <1>3, <1>4, <1>5, <1>6, <1>7, <1>8, <1>9, QuietKeepOnce DEF Next

\* A listener subscribed by once() is called for at most one event, however
\* emits, resumed and flushed loops overlap (removeOnceSubscriptions).
THEOREM OnceListenersHearOnce == Spec => []OnceIsOnce
<1>1. Init => OnceInv
    BY InitOnceInv
<1>2. OnceInv /\ [Next]_vars => OnceInv'
    BY NextOnceInv
<1>3. OnceInv => OnceIsOnce
    BY OnceInvImplies
<1> QED
    BY <1>1, <1>2, <1>3, PTL DEF Spec

-----------------------------------------------------------------------------
(* The run of processBufferedEvents *)

InProgress == {"awaiting", "ready", "broken", "ending", "failing"}

RunInv ==
    /\ DOMAIN loopAt = Loops
    /\ resuming \in Seq(Processors)
    /\ OneProcessor

LEMMA ProcessorsAreLoops == Processors \subseteq Loops /\ \A p \in Processors : p \notin Flushers
    BY BoundsAssumption DEF Loops

LEMMA InitRunInv == Init => RunInv
BY ProcessorsAreLoops DEF Init, RunInv, OneProcessor

\* A step that starts no run and leaves bufferProcessing alone: each loop keeps
\* its place, or was in progress before, or is a flush.
LEMMA SameRunKeepsRunInv ==
    ASSUME RunInv, UNCHANGED runVars,
           DOMAIN loopAt' = Loops,
           \A p \in Processors : loopAt'[p] = loopAt[p] \/ loopAt[p] \in InProgress
    PROVE  RunInv'
BY DEF RunInv, OneProcessor, InProgress, runVars

\* What one loop l does: its place changes, those of the others do not.
LEMMA OneLoopKeepsRunInv ==
    ASSUME RunInv, UNCHANGED runVars,
           NEW l \in Loops, NEW x,
           loopAt' = [loopAt EXCEPT ![l] = x],
           l \in Flushers \/ loopAt[l] \in InProgress
    PROVE  RunInv'
<1>1. DOMAIN loopAt' = Loops
    BY DEF RunInv
<1>2. ASSUME NEW p \in Processors
      PROVE  loopAt'[p] = loopAt[p] \/ loopAt[p] \in InProgress
    BY ProcessorsAreLoops DEF RunInv
<1> QED
    BY <1>1, <1>2, SameRunKeepsRunInv

\* The loops that wait for a settled emit go on.
LEMMA WakeKeepsRunInv ==
    ASSUME RunInv, UNCHANGED runVars,
           NEW E, NEW outcome, loopAt' = Wake(E, outcome)
    PROVE  RunInv'
<1>1. DOMAIN loopAt' = Loops
    BY DEF Wake
<1>2. ASSUME NEW p \in Processors
      PROVE  loopAt'[p] = loopAt[p] \/ loopAt[p] \in InProgress
    BY ProcessorsAreLoops DEF Wake, InProgress
<1> QED
    BY <1>1, <1>2, SameRunKeepsRunInv

LEMMA NothingMovesKeepsRunInv ==
    ASSUME RunInv, UNCHANGED <<runVars, loopAt>>
    PROVE  RunInv'
BY DEF RunInv, OneProcessor, runVars

LEMMA FlushKeepsRunInv ==
    ASSUME RunInv, NEW f \in Flushers, FlushBuffered(f), UNCHANGED runVars
    PROVE  RunInv'
<1>1. f \in Loops
    BY DEF Loops
<1>2. \E x : loopAt' = [loopAt EXCEPT ![f] = x]
    <2>1. CASE BufferedOf({FlushOf[f]}) = <<>>
        BY <2>1 DEF FlushBuffered
    <2>2. CASE BufferedOf({FlushOf[f]}) # <<>>
        BY <2>2 DEF FlushBuffered, TakeAndEmitFirst
    <2> QED
        BY <2>1, <2>2
<1> QED
    BY <1>1, <1>2, OneLoopKeepsRunInv

LEMMA CallKeepsRunInv ==
    ASSUME RunInv, NEW e, NEW l, CallReturns(e, l) \/ CallThrows(e, l)
    PROVE  RunInv'
<1>1. UNCHANGED runVars
    BY DEF CallReturns, CallThrows, CallSettles
<1>2. loopAt' = loopAt \/ loopAt' = Wake({e}, "ready") \/ loopAt' = Wake({e}, "broken")
    BY DEF CallReturns, CallThrows
<1> QED
    BY <1>1, <1>2, WakeKeepsRunInv, NothingMovesKeepsRunInv

\* A call comes on top of the stack, or leaves it.
LEMMA StackGrows ==
    ASSUME resuming \in Seq(Processors), NEW p \in Processors
    PROVE  /\ <<p>> \o resuming \in Seq(Processors)
           /\ Elements(<<p>> \o resuming) = Elements(resuming) \union {p}
<1>1. <<p>> \in Seq(Processors)
    OBVIOUS
<1>2. Len(<<p>>) = 1 /\ <<p>>[1] = p /\ Len(resuming) \in Nat
    BY LenProperties
<1> DEFINE one == <<p>>
           q == one \o resuming
<1>3. /\ q \in Seq(Processors) /\ Len(q) = Len(one) + Len(resuming)
      /\ \A i \in 1..Len(q) :
            \/ i \in 1..Len(one) /\ q[i] = one[i]
            \/ i - Len(one) \in 1..Len(resuming) /\ i > Len(one) /\ q[i] = resuming[i - Len(one)]
    BY <1>1, ConcatElements
<1>4. Len(one) = 1 /\ one[1] = p
    BY <1>2
<1> HIDE DEF one, q
<1>5. Elements(q) \subseteq Elements(resuming) \union {p}
    <2> SUFFICES ASSUME NEW i \in 1..Len(q) PROVE q[i] \in Elements(resuming) \union {p}
        BY DEF Elements
    <2>1. CASE i \in 1..Len(one) /\ q[i] = one[i]
        BY <1>4, <2>1
    <2>2. CASE i - Len(one) \in 1..Len(resuming) /\ q[i] = resuming[i - Len(one)]
        BY <2>2 DEF Elements
    <2> QED
        BY <1>3, <2>1, <2>2
<1>6. q[1] = p /\ 1 \in 1..Len(q)
    BY <1>1, <1>2, <1>3, <1>4 DEF q, one
<1>7. ASSUME NEW j \in 1..Len(resuming)
      PROVE  j + 1 \in 1..Len(q) /\ q[j + 1] = resuming[j]
    <2>1. j + 1 \in 1..Len(q) /\ j + 1 \notin 1..Len(one) /\ (j + 1) - Len(one) = j
        BY <1>2, <1>3, <1>4
    <2> QED
        BY <1>3, <2>1
<1>8. Elements(resuming) \union {p} \subseteq Elements(q)
    BY <1>6, <1>7 DEF Elements
<1> QED
    BY <1>3, <1>5, <1>8 DEF q, one

LEMMA StackShrinks ==
    ASSUME resuming \in Seq(Processors), resuming # <<>>
    PROVE  /\ Head(resuming) \in Processors /\ Tail(resuming) \in Seq(Processors)
           /\ Elements(resuming) \subseteq Elements(Tail(resuming)) \union {Head(resuming)}
<1>1. /\ Head(resuming) \in Processors /\ Tail(resuming) \in Seq(Processors)
      /\ Len(resuming) \in Nat \ {0} /\ Len(Tail(resuming)) = Len(resuming) - 1
    BY EmptySeq, LenProperties, HeadTailProperties
<1>2. ASSUME NEW i \in 1..Len(resuming)
      PROVE  resuming[i] \in Elements(Tail(resuming)) \union {Head(resuming)}
    <2>1. CASE i = 1
        BY <2>1
    <2>2. CASE i # 1
        <3>1. i - 1 \in 1..Len(Tail(resuming)) /\ Tail(resuming)[i - 1] = resuming[i]
            BY <1>1, <2>2, HeadTailProperties
        <3> QED
            BY <3>1 DEF Elements
    <2> QED
        BY <2>1, <2>2
<1> QED
    BY <1>1, <1>2 DEF Elements

\* A run starts when none is in progress but those on the stack and those hidden.
LEMMA ResumeKeepsRunInv ==
    ASSUME RunInv, NEW p \in Processors, ResumeAndProcess(p)
    PROVE  RunInv'
<1>1. bufferProcessing = None /\ hidden' = hidden /\ resuming \in Seq(Processors)
    BY DEF ResumeAndProcess, MustProcess, RunInv
<1>2. PICK x : loopAt' = [loopAt EXCEPT ![p] = x]
    BY DEF ResumeAndProcess, TakeAndEmitFirst
<1>3. \/ resuming' = resuming /\ bufferProcessing' = p
      \/ /\ resuming' \in Seq(Processors) /\ bufferProcessing' = None
         /\ Elements(resuming') = Elements(resuming) \union {p}
    BY <1>1, StackGrows DEF ResumeAndProcess
<1>4. ASSUME NEW q \in Processors, loopAt'[q] \in InProgress
      PROVE  bufferProcessing' = q \/ q \in Elements(resuming') \/ q \in hidden'
    <2>1. CASE q = p
        BY <1>3, <2>1
    <2>2. CASE q # p
        <3>1. loopAt[q] \in InProgress
            BY <1>2, <1>4, <2>2
        <3>2. q \in Elements(resuming) \/ q \in hidden
            BY <1>1, <3>1, BoundsAssumption DEF RunInv, OneProcessor, InProgress
        <3> QED
            BY <1>1, <1>3, <3>2
    <2> QED
        BY <2>1, <2>2
<1>5. resuming' \in Seq(Processors)
    BY <1>1, <1>3
<1> QED
    BY <1>2, <1>4, <1>5 DEF RunInv, OneProcessor, InProgress

\* What resume() finds in bufferProcessing when it returns is hidden.
LEMMA ReturnKeepsRunInv ==
    ASSUME RunInv, ResumeReturns
    PROVE  RunInv'
<1>1. /\ resuming \in Seq(Processors) /\ resuming # <<>>
      /\ bufferProcessing' = Head(resuming) /\ resuming' = Tail(resuming)
      /\ hidden' = hidden \union ({bufferProcessing} \ {None}) /\ loopAt' = loopAt
    BY DEF ResumeReturns, StackIsEmpty, RunInv
<1>2. ASSUME NEW q \in Processors, loopAt[q] \in InProgress
      PROVE  bufferProcessing' = q \/ q \in Elements(resuming') \/ q \in hidden'
    <2>1. bufferProcessing = q \/ q \in Elements(resuming) \/ q \in hidden
        BY <1>2 DEF RunInv, OneProcessor, InProgress
    <2>2. q # None
        BY BoundsAssumption
    <2> QED
        BY <1>1, <2>1, <2>2, StackShrinks
<1> QED
    BY <1>1, <1>2, StackShrinks DEF RunInv, OneProcessor, InProgress

\* bufferProcessing is cleared together with the end of the run it names.
LEMMA SettlingKeepsRunInv ==
    ASSUME RunInv, NEW p \in Processors, ProcessingSettles(p)
    PROVE  RunInv'
<1>1. /\ bufferProcessing' = IF bufferProcessing = p THEN None ELSE bufferProcessing
      /\ resuming' = resuming /\ hidden' = hidden
    BY DEF ProcessingSettles, ProcessingAfter
<1>2. PICK x \in {"done", "failed"} : loopAt' = [loopAt EXCEPT ![p] = x]
    BY DEF ProcessingSettles
<1>3. ASSUME NEW q \in Processors, loopAt'[q] \in InProgress
      PROVE  bufferProcessing' = q \/ q \in Elements(resuming') \/ q \in hidden'
    <2>1. q # p
        BY <1>2, <1>3, ProcessorsAreLoops DEF RunInv, InProgress
    <2>2. loopAt[q] \in InProgress
        BY <1>2, <1>3, <2>1
    <2> QED
        BY <1>1, <2>1, <2>2 DEF RunInv, OneProcessor, InProgress
<1> QED
    BY <1>1, <1>2, <1>3 DEF RunInv, OneProcessor, InProgress

LEMMA NextRunInv == MayDispose = FALSE /\ RunInv /\ [Next]_vars => RunInv'
<1> SUFFICES ASSUME MayDispose = FALSE, RunInv, [Next]_vars PROVE RunInv'
    OBVIOUS
<1>1. CASE \E l \in Listeners : on(l)
    BY <1>1, NothingMovesKeepsRunInv DEF on, loopVars
<1>2. CASE \E S \in SUBSET subscribed : off(S)
    BY <1>2, NothingMovesKeepsRunInv DEF off, loopVars
<1>3. CASE \E e \in Events : emit(e)
    BY <1>3, NothingMovesKeepsRunInv DEF emit, loopVars
<1>4. CASE \E e \in Events : emitSync(e)
    BY <1>4, NothingMovesKeepsRunInv DEF emitSync, loopVars
<1>5. CASE pause \/ resume
    BY <1>5, NothingMovesKeepsRunInv DEF pause, resume, loopVars
<1>6. CASE \E p \in Processors : ResumeAndProcess(p)
    BY <1>6, ResumeKeepsRunInv
<1>7. CASE \E p \in Processors : ProcessingSettles(p)
    BY <1>7, SettlingKeepsRunInv
<1>8. CASE \E f \in Flushers : flush(f)
    <2>1. PICK f \in Flushers : flush(f)
        BY <1>8
    <2>2. f \in Loops /\ UNCHANGED runVars
        BY <2>1 DEF flush, Loops
    <2>3. CASE bufferProcessing # None
        BY <2>1, <2>2, <2>3, OneLoopKeepsRunInv DEF flush
    <2>4. CASE bufferProcessing = None
        BY <2>1, <2>2, <2>4, FlushKeepsRunInv DEF flush
    <2> QED
        BY <2>3, <2>4
<1>9. CASE \E f \in Flushers : FlushResumes(f)
    <2>1. PICK f \in Flushers : FlushResumes(f)
        BY <1>9
    <2>2. f \in Loops /\ UNCHANGED runVars
        BY <2>1 DEF FlushResumes, Loops
    <2>3. FlushBuffered(f) \/ loopAt' = [loopAt EXCEPT ![f] = "failed"]
        BY <2>1 DEF FlushResumes
    <2> QED
        BY <2>2, <2>3, FlushKeepsRunInv, OneLoopKeepsRunInv
<1>10. CASE \E l \in Loops : LoopEmitsNext(l) \/ LoopEnds(l) \/ LoopBreaks(l)
    <2>1. PICK l \in Loops : LoopEmitsNext(l) \/ LoopEnds(l) \/ LoopBreaks(l)
        BY <1>10
    <2>2. UNCHANGED runVars
        BY <2>1 DEF LoopEmitsNext, LoopEnds, LoopBreaks
    <2>3. loopAt[l] \in InProgress
        BY <2>1 DEF LoopEmitsNext, LoopEnds, LoopBreaks, InProgress
    <2>4. \E x : loopAt' = [loopAt EXCEPT ![l] = x]
        BY <2>1 DEF LoopEmitsNext, LoopEnds, LoopBreaks
    <2> QED
        BY <2>2, <2>3, <2>4, OneLoopKeepsRunInv
<1>11. CASE \E e \in Events, l \in Listeners : CallReturns(e, l) \/ CallThrows(e, l)
    BY <1>11, CallKeepsRunInv
<1>12. CASE \E d \in Drainers : drain(d) \/ DrainGoesOn(d)
    BY <1>12, NothingMovesKeepsRunInv DEF drain, DrainGoesOn, loopVars
<1>13. CASE (\E n \in Names : clearBuffer({n})) \/ clearBuffer(Names)
    BY <1>13, NothingMovesKeepsRunInv DEF clearBuffer, loopVars
<1>16. CASE ResumeReturns
    BY <1>16, ReturnKeepsRunInv
<1>14. CASE UNCHANGED vars
    BY <1>14, NothingMovesKeepsRunInv DEF vars, loopVars
<1>15. ~dispose
    BY DEF dispose
<1> QED
    BY <1>1, <1>2, <1>3, <1>4, <1>5, <1>6, <1>7, <1>8, <1>9, <1>10, <1>11, <1>12,
       <1>13, <1>14, <1>15, <1>16 DEF Next

\* On an emitter that is not disposed bufferProcessing names the run of
\* processBufferedEvents that is in progress, for any number of calls of resume,
\* flush and drain between its rounds; all others are still being started by calls
\* of resume() on the stack, or were hidden when such a call returned.
THEOREM OneRunAtATime == MayDispose = FALSE => (Spec => []OneProcessor)
<1> SUFFICES ASSUME MayDispose = FALSE PROVE Spec => []OneProcessor
    OBVIOUS
<1>1. Init => RunInv
    BY InitRunInv
<1>2. RunInv /\ [Next]_vars => RunInv'
    BY NextRunInv
<1>3. RunInv => OneProcessor
    BY DEF RunInv
<1> QED
    BY <1>1, <1>2, <1>3, PTL DEF Spec

-----------------------------------------------------------------------------
(* The place of every event *)

\* The buffer holds each event once, and those whose fate says so.
BufferHolds ==
    /\ HasNoRepeats(buffer)
    /\ \A e \in Events : e \in Elements(buffer) <=> fate[e] = "buffered"

\* Its size is counted, and bounded for each event name.
BufferCounted ==
    /\ bufferedEventCount = Len(buffer)
    /\ \A n \in Names : Cardinality(Elements(buffer) \intersect Named({n})) <= BufferSize

\* The loops hold each event that is taken and not yet emitted once between
\* them, and a loop that is not between two emits holds none.
LoopsHold ==
    /\ \A l \in Loops : HasNoRepeats(todo[l])
    /\ \A l, m \in Loops : l # m => Elements(todo[l]) \intersect Elements(todo[m]) = {}
    /\ \A e \in Events : fate[e] = "taken" <=> \E l \in Loops : e \in Elements(todo[l])

IdleHoldsNothing ==
    \A l \in Loops : loopAt[l] \notin {"awaiting", "ready", "broken"} => todo[l] = <<>>

\* The scheduler still has a call for an event that is in flight.
FlyingIsCalled ==
    \A e \in Events : fate[e] = "flying" => \E l \in Listeners : <<e, l>> \in calls

\* What a loop has still to emit is in the order of the priorities and comes
\* after what it awaits.
ByPriority(s) == \A i, j \in 1..Len(s) : i < j => Priority[s[i]] <= Priority[s[j]]
TodoInOrder == \A l \in Loops : ByPriority(todo[l])
AwaitedIsFirst ==
    \A l \in Loops : loopAt[l] = "awaiting" =>
        /\ awaited[l] \in Events
        /\ \A i \in 1..Len(todo[l]) : Priority[awaited[l]] <= Priority[todo[l][i]]

LocalsTyped == wasPaused \in [Flushers -> BOOLEAN] /\ DOMAIN awaited = Loops

EInv ==
    /\ TypeOK /\ LocalsTyped
    /\ BufferHolds /\ BufferCounted
    /\ LoopsHold /\ IdleHoldsNothing
    /\ FlyingIsCalled
    /\ TodoInOrder /\ AwaitedIsFirst

\* The fates and the limits are typed, so priorities can be compared.
LEMMA PriorityTyped == \A e \in Events : Priority[e] \in Nat
BY EventsAssumption

\* What the invariant says about the number of places of an event.
LEMMA OncePlaced ==
    ASSUME NEW s \in Seq(Events), HasNoRepeats(s), NEW e
    PROVE  Cardinality({i \in 1..Len(s) : s[i] = e}) = IF e \in Elements(s) THEN 1 ELSE 0
<1> DEFINE P == {i \in 1..Len(s) : s[i] = e}
<1>1. CASE e \in Elements(s)
  <2>1. PICK i \in 1..Len(s) : s[i] = e
    BY <1>1 DEF Elements
  <2>2. P = {i}
    BY <2>1 DEF HasNoRepeats
  <2> QED
    BY <1>1, <2>2, FS_Singleton
<1>2. CASE e \notin Elements(s)
  <2>1. P = {}
    BY <1>2 DEF Elements
  <2> QED
    BY <1>2, <2>1, FS_EmptySet
<1> QED
  BY <1>1, <1>2

LEMMA EInvImplies == EInv => EventsAccounted
<1> SUFFICES ASSUME EInv PROVE EventsAccounted
  OBVIOUS
<1>1. TypeOK /\ buffer \in Seq(Events) /\ \A l \in Loops : todo[l] \in Seq(Events)
  BY DEF EInv, TypeOK
<1>2. BufferAccounted
  <2> SUFFICES ASSUME NEW n \in Names PROVE Len(BufferedOf({n})) <= BufferSize
    BY DEF EInv, BufferCounted, BufferAccounted
  <2>1. /\ BufferedOf({n}) \in Seq(Events) /\ HasNoRepeats(BufferedOf({n}))
        /\ Elements(BufferedOf({n})) = Elements(buffer) \intersect Named({n})
    BY <1>1, KeepSeq, KeepHasNoRepeats DEF EInv, BufferHolds, BufferedOf
  <2>2. Len(BufferedOf({n})) = Cardinality(Elements(buffer) \intersect Named({n}))
    BY <2>1, LengthWithoutRepeats
  <2> QED
    BY <2>2 DEF EInv, BufferCounted
<1>3. EventInOnePlace
  <2> SUFFICES ASSUME NEW e \in Events
               PROVE  /\ Cardinality({i \in 1..Len(buffer) : buffer[i] = e})
                            = (IF fate[e] = "buffered" THEN 1 ELSE 0)
                      /\ Cardinality({at \in Loops \X (1..Cardinality(Events)) :
                                        at[2] <= Len(todo[at[1]]) /\ todo[at[1]][at[2]] = e})
                            = (IF fate[e] = "taken" THEN 1 ELSE 0)
                      /\ fate[e] = "flying" => \E l \in Listeners : <<e, l>> \in calls
    BY DEF EventInOnePlace
  <2>1. Cardinality({i \in 1..Len(buffer) : buffer[i] = e})
          = (IF fate[e] = "buffered" THEN 1 ELSE 0)
    BY <1>1, OncePlaced DEF EInv, BufferHolds
  <2> DEFINE at == {a \in Loops \X (1..Cardinality(Events)) :
                      a[2] <= Len(todo[a[1]]) /\ todo[a[1]][a[2]] = e}
  <2>2. Cardinality(at) = (IF fate[e] = "taken" THEN 1 ELSE 0)
    <3>1. CASE fate[e] # "taken"
      <4>1. \A l \in Loops : e \notin Elements(todo[l])
        BY <3>1 DEF EInv, LoopsHold
      <4>2. \A l \in Loops : Len(todo[l]) \in Nat /\ \A i \in 1..Len(todo[l]) : todo[l][i] # e
        BY <1>1, <4>1, LenProperties DEF Elements
      <4>3. IsFiniteSet(Events)
        BY EventsAssumption
      <4>4. Cardinality(Events) \in Nat
        BY <4>3, FS_CardinalityType
      <4>5. at = {}
        <5> SUFFICES ASSUME NEW l \in Loops, NEW i \in 1..Cardinality(Events),
                            i <= Len(todo[l]), todo[l][i] = e
                     PROVE  FALSE
          OBVIOUS
        <5>1. i \in 1..Len(todo[l])
          BY <4>2, <4>4
        <5> QED
          BY <4>2, <5>1
      <4> HIDE DEF at
      <4> QED
        BY <3>1, <4>5, FS_EmptySet
    <3>2. CASE fate[e] = "taken"
      <4>1. PICK l \in Loops : e \in Elements(todo[l])
        BY <3>2 DEF EInv, LoopsHold
      <4>2. PICK i \in 1..Len(todo[l]) : todo[l][i] = e
        BY <4>1 DEF Elements
      <4>3. Len(todo[l]) \in Nat /\ Len(todo[l]) <= Cardinality(Events) /\ Cardinality(Events) \in Nat
        <5>1. Elements(todo[l]) \in SUBSET Events
          BY <1>1, ElementsTyped
        <5>2. Cardinality(Elements(todo[l])) = Len(todo[l])
          BY <1>1, LengthWithoutRepeats DEF EInv, LoopsHold
        <5>3. IsFiniteSet(Events)
          BY EventsAssumption
        <5> QED
          BY <1>1, <5>1, <5>2, <5>3, FS_Subset, FS_CardinalityType, LenProperties
      <4>4. <<l, i>> \in at
        BY <4>2, <4>3
      <4>5. \A a \in at : a = <<l, i>>
        <5> SUFFICES ASSUME NEW m \in Loops, NEW j \in 1..Cardinality(Events),
                            j <= Len(todo[m]), todo[m][j] = e
                     PROVE  m = l /\ j = i
          OBVIOUS
        <5>1. Len(todo[m]) \in Nat
          BY <1>1, LenProperties
        <5>2. j \in 1..Len(todo[m])
          BY <4>3, <5>1
        <5>3. e \in Elements(todo[m])
          BY <5>2 DEF Elements
        <5>4. m = l
          BY <4>1, <5>3 DEF EInv, LoopsHold
        <5> QED
          BY <4>2, <5>2, <5>4 DEF EInv, LoopsHold, HasNoRepeats
      <4>6. at = {<<l, i>>}
        BY <4>4, <4>5
      <4> HIDE DEF at
      <4> QED
        BY <3>2, <4>6, FS_Singleton
    <3> QED
      BY <3>1, <3>2
  <2> QED
    BY <2>1, <2>2 DEF EInv, FlyingIsCalled
<1>4. LoopsFollowPriority
  BY DEF EInv, AwaitedIsFirst, LoopsFollowPriority
<1> QED
  BY <1>1, <1>2, <1>3, <1>4 DEF EventsAccounted

\* What enqueueing does to the buffer: an event that was not in it is
\* appended, or finds no room.
LEMMA EnqueueBuffers ==
    ASSUME EInv, NEW e \in Events, fate[e] # "buffered",
           NEW overflow \in {"refused", "overflow"}, Enqueue(e, overflow)
    PROVE  /\ buffer' \in Seq(Events) /\ bufferedEventCount' \in Nat
           /\ fate' = [fate EXCEPT ![e] = fate'[e]]
           /\ fate'[e] \in {"buffered", overflow}
           /\ BufferHolds' /\ BufferCounted'
<1>1. /\ buffer \in Seq(Events) /\ fate \in [Events -> Fates] /\ bufferedEventCount \in Nat
      /\ HasNoRepeats(buffer) /\ e \notin Elements(buffer)
  BY DEF EInv, TypeOK, BufferHolds
<1>2. CASE BufferIsFull(Name[e])
  <2>1. fate' = [fate EXCEPT ![e] = overflow] /\ UNCHANGED <<buffer, bufferedEventCount>>
    BY <1>2 DEF Enqueue, bufferVars
  <2>2. BufferHolds'
    BY <1>1, <2>1 DEF EInv, BufferHolds
  <2>3. BufferCounted'
    BY <2>1 DEF EInv, BufferCounted
  <2> QED
    BY <1>1, <2>1, <2>2, <2>3
<1>3. CASE ~BufferIsFull(Name[e])
  <2>1. /\ fate' = [fate EXCEPT ![e] = "buffered"]
        /\ buffer' = Append(buffer, e)
        /\ bufferedEventCount' = bufferedEventCount + 1
    BY <1>3 DEF Enqueue
  <2>2. /\ buffer' \in Seq(Events) /\ Len(buffer') = Len(buffer) + 1
        /\ Elements(buffer') = Elements(buffer) \union {e} /\ HasNoRepeats(buffer')
    BY <1>1, <2>1, AppendElements
  <2>3. BufferHolds'
    BY <1>1, <2>1, <2>2 DEF EInv, BufferHolds
  <2>4. BufferCounted'
    <3>1. ASSUME NEW n \in Names
          PROVE  Cardinality((Elements(buffer) \union {e}) \intersect Named({n})) <= BufferSize
      <4>1. CASE Name[e] = n
        <5>1. (Elements(buffer) \union {e}) \intersect Named({n})
                = (Elements(buffer) \intersect Named({n})) \union {e}
          BY <4>1 DEF Named
        <5>2. /\ BufferedOf({n}) \in Seq(Events) /\ HasNoRepeats(BufferedOf({n}))
              /\ Elements(BufferedOf({n})) = Elements(buffer) \intersect Named({n})
          BY <1>1, KeepSeq, KeepHasNoRepeats DEF BufferedOf
        <5>3. /\ IsFiniteSet(Elements(buffer) \intersect Named({n}))
              /\ Cardinality(Elements(buffer) \intersect Named({n})) = Len(BufferedOf({n}))
          BY <5>2, LengthWithoutRepeats
        <5>4. Len(BufferedOf({n})) < BufferSize /\ Len(BufferedOf({n})) \in Nat
          BY <1>3, <4>1, <5>2, BoundsAssumption, LenProperties DEF BufferIsFull
        <5>5. Cardinality((Elements(buffer) \intersect Named({n})) \union {e})
                = Len(BufferedOf({n})) + 1
          BY <1>1, <5>3, FS_AddElement
        <5>6. BufferSize \in Nat
          BY BoundsAssumption
        <5> DEFINE m == Len(BufferedOf({n}))
                   x == Cardinality((Elements(buffer) \union {e}) \intersect Named({n}))
        <5>7. x = m + 1 /\ m \in Nat /\ m < BufferSize
          BY <5>1, <5>4, <5>5
        <5> HIDE DEF m, x
        <5>8. x <= BufferSize
          BY <5>6, <5>7
        <5> QED
          BY <5>8 DEF x
      <4>2. CASE Name[e] # n
        <5>1. (Elements(buffer) \union {e}) \intersect Named({n})
                = Elements(buffer) \intersect Named({n})
          BY <4>2 DEF Named
        <5> QED
          BY <5>1 DEF EInv, BufferCounted
      <4> QED
        BY <4>1, <4>2
    <3> QED
      BY <2>1, <2>2, <3>1 DEF EInv, BufferCounted
  <2> QED
    BY <1>1, <2>1, <2>2, <2>3, <2>4
<1> QED
  BY <1>2, <1>3

\* The buffers of the names N are deleted: the rest stays counted, and the
\* bounds hold.
LEMMA DeletedBuffers ==
    ASSUME EInv, NEW N \in SUBSET Names, buffer' = deleteBucket(N),
           bufferedEventCount' = clearedCount(N)
    PROVE  /\ buffer' \in Seq(Events) /\ bufferedEventCount' \in Nat
           /\ HasNoRepeats(buffer')
           /\ Elements(buffer') = Elements(buffer) \ Named(N)
           /\ Elements(BufferedOf(N)) = Elements(buffer) \intersect Named(N)
           /\ BufferedOf(N) \in Seq(Events) /\ HasNoRepeats(BufferedOf(N))
           /\ BufferCounted'
<1>1. /\ buffer \in Seq(Events) /\ HasNoRepeats(buffer)
      /\ bufferedEventCount = Len(buffer)
  BY DEF EInv, TypeOK, BufferHolds, BufferCounted
<1>2. /\ buffer' \in Seq(Events) /\ HasNoRepeats(buffer')
      /\ Elements(buffer') = Elements(buffer) \intersect (Events \ Named(N))
  BY <1>1, KeepSeq, KeepHasNoRepeats DEF deleteBucket
<1>3. /\ BufferedOf(N) \in Seq(Events) /\ HasNoRepeats(BufferedOf(N))
      /\ Elements(BufferedOf(N)) = Elements(buffer) \intersect Named(N)
  BY <1>1, KeepSeq, KeepHasNoRepeats DEF BufferedOf
<1>4. Elements(buffer) \in SUBSET Events
  BY <1>1, ElementsTyped
<1>5. Elements(buffer') = Elements(buffer) \ Named(N)
  BY <1>2, <1>4
<1>6. /\ IsFiniteSet(Elements(buffer)) /\ Cardinality(Elements(buffer)) = Len(buffer)
      /\ IsFiniteSet(Elements(buffer')) /\ Cardinality(Elements(buffer')) = Len(buffer')
      /\ IsFiniteSet(Elements(BufferedOf(N)))
      /\ Cardinality(Elements(BufferedOf(N))) = Len(BufferedOf(N))
  BY <1>1, <1>2, <1>3, LengthWithoutRepeats
<1>7. Len(buffer) = Len(BufferedOf(N)) + Len(buffer')
  <2>1. Elements(buffer) = Elements(buffer') \union Elements(BufferedOf(N))
    BY <1>3, <1>5
  <2>2. Elements(buffer') \intersect Elements(BufferedOf(N)) = {}
    BY <1>3, <1>5
  <2>3. Cardinality(Elements(buffer))
          = Cardinality(Elements(buffer')) + Cardinality(Elements(BufferedOf(N)))
              - Cardinality({})
    BY <1>6, <2>1, <2>2, FS_Union
  <2>4. Len(buffer) \in Nat /\ Len(buffer') \in Nat /\ Len(BufferedOf(N)) \in Nat
    BY <1>1, <1>2, <1>3, LenProperties
  <2> QED
    BY <1>6, <2>3, <2>4, FS_EmptySet
<1>8. bufferedEventCount' = Len(buffer') /\ Len(buffer') \in Nat
  <2>1. Len(buffer) \in Nat /\ Len(buffer') \in Nat /\ Len(BufferedOf(N)) \in Nat
    BY <1>1, <1>2, <1>3, LenProperties
  <2> QED
    BY <1>1, <1>7, <2>1 DEF clearedCount
<1>9. ASSUME NEW n \in Names
      PROVE  Cardinality(Elements(buffer') \intersect Named({n})) <= BufferSize
  <2>1. Elements(buffer') \intersect Named({n}) \in SUBSET (Elements(buffer) \intersect Named({n}))
    BY <1>5
  <2>2. IsFiniteSet(Elements(buffer) \intersect Named({n}))
    BY <1>6, FS_Subset
  <2>3. /\ Cardinality(Elements(buffer') \intersect Named({n}))
             <= Cardinality(Elements(buffer) \intersect Named({n}))
        /\ Cardinality(Elements(buffer') \intersect Named({n})) \in Nat
        /\ Cardinality(Elements(buffer) \intersect Named({n})) \in Nat
    BY <2>1, <2>2, FS_Subset, FS_CardinalityType
  <2>4. Cardinality(Elements(buffer) \intersect Named({n})) <= BufferSize
    BY DEF EInv, BufferCounted
  <2> QED
    BY <2>3, <2>4, BoundsAssumption
<1> QED
  BY <1>2, <1>3, <1>5, <1>8, <1>9 DEF BufferCounted

\* getQueuedEvents returns the events it is given, those of a higher priority
\* first.
LEMMA QueuedInOrder ==
    ASSUME NEW s \in Seq(Events), HasNoRepeats(s)
    PROVE  /\ getQueuedEvents(s) \in Seq(Events)
           /\ HasNoRepeats(getQueuedEvents(s))
           /\ Elements(getQueuedEvents(s)) = Elements(s)
           /\ ByPriority(getQueuedEvents(s))
<1> DEFINE part(p) == Keep(s, OfPriority(p))
<1>1. \A p \in 0..2 : /\ part(p) \in Seq(Events) /\ HasNoRepeats(part(p))
                      /\ Elements(part(p)) = Elements(s) \intersect OfPriority(p)
  BY KeepSeq, KeepHasNoRepeats
<1>2. \A p \in 0..2 : \A i \in 1..Len(part(p)) : Priority[part(p)[i]] = p
  <2> SUFFICES ASSUME NEW p \in 0..2, NEW i \in 1..Len(part(p)) PROVE Priority[part(p)[i]] = p
    OBVIOUS
  <2>1. part(p)[i] \in OfPriority(p)
    <3>1. part(p)[i] \in Elements(part(p))
      BY DEF Elements
    <3> QED
      BY <1>1, <3>1
  <2> QED
    BY <2>1 DEF OfPriority
<1>3. \A p, r \in 0..2 : p # r => Elements(part(p)) \intersect Elements(part(r)) = {}
  BY <1>1 DEF OfPriority
<1>4. Elements(s) \subseteq Elements(part(0)) \union Elements(part(1)) \union Elements(part(2))
  <2>1. Elements(s) \in SUBSET Events
    BY ElementsTyped
  <2>2. \A e \in Events : Priority[e] = 0 \/ Priority[e] = 1 \/ Priority[e] = 2
    BY EventsAssumption
  <2> QED
    BY <1>1, <2>1, <2>2 DEF OfPriority
<1>5. getQueuedEvents(s) = part(0) \o part(1) \o part(2)
  BY DEF getQueuedEvents
<1> DEFINE a == part(0)
           b == part(1)
           c == part(2)
<1>6. /\ a \in Seq(Events) /\ HasNoRepeats(a) /\ b \in Seq(Events) /\ HasNoRepeats(b)
      /\ c \in Seq(Events) /\ HasNoRepeats(c)
      /\ Elements(a) \intersect Elements(b) = {} /\ Elements(a) \intersect Elements(c) = {}
      /\ Elements(b) \intersect Elements(c) = {}
      /\ Elements(a) \union Elements(b) \union Elements(c) = Elements(s)
      /\ \A i \in 1..Len(a) : Priority[a[i]] = 0
      /\ \A i \in 1..Len(b) : Priority[b[i]] = 1
      /\ \A i \in 1..Len(c) : Priority[c[i]] = 2
      /\ getQueuedEvents(s) = (a \o b) \o c
  BY <1>1, <1>2, <1>3, <1>4, <1>5
<1> HIDE DEF a, b, c
<1> DEFINE ab == a \o b
<1>7. /\ ab \in Seq(Events) /\ HasNoRepeats(ab) /\ Elements(ab) = Elements(a) \union Elements(b)
      /\ \A i \in 1..Len(ab) : \/ i \in 1..Len(a) /\ ab[i] = a[i]
                               \/ i - Len(a) \in 1..Len(b) /\ i > Len(a) /\ ab[i] = b[i - Len(a)]
  BY <1>6, ConcatElements
<1> HIDE DEF ab
<1> DEFINE q == ab \o c
<1>8. /\ q \in Seq(Events) /\ HasNoRepeats(q) /\ Elements(q) = Elements(ab) \union Elements(c)
      /\ \A i \in 1..Len(q) : \/ i \in 1..Len(ab) /\ q[i] = ab[i]
                              \/ i - Len(ab) \in 1..Len(c) /\ i > Len(ab) /\ q[i] = c[i - Len(ab)]
  BY <1>6, <1>7, ConcatElements
<1> HIDE DEF q
<1>9. ByPriority(q)
  <2>1. Len(a) \in Nat /\ Len(ab) \in Nat
    BY <1>6, <1>7, LenProperties
  <2>2. \A i \in 1..Len(ab) : \/ i <= Len(a) /\ Priority[ab[i]] = 0
                              \/ i > Len(a) /\ Priority[ab[i]] = 1
    <3> SUFFICES ASSUME NEW i \in 1..Len(ab)
                 PROVE  \/ i <= Len(a) /\ Priority[ab[i]] = 0
                        \/ i > Len(a) /\ Priority[ab[i]] = 1
      OBVIOUS
    <3>1. CASE i \in 1..Len(a) /\ ab[i] = a[i]
      <4>1. i <= Len(a)
        BY <2>1, <3>1
      <4> QED
        BY <1>6, <3>1, <4>1
    <3>2. CASE i - Len(a) \in 1..Len(b) /\ i > Len(a) /\ ab[i] = b[i - Len(a)]
      BY <1>6, <3>2
    <3> QED
      BY <1>7, <3>1, <3>2
  <2>3. \A i \in 1..Len(q) : \/ i <= Len(ab) /\ i <= Len(a) /\ Priority[q[i]] = 0
                             \/ i <= Len(ab) /\ i > Len(a) /\ Priority[q[i]] = 1
                             \/ i > Len(ab) /\ Priority[q[i]] = 2
    <3> SUFFICES ASSUME NEW i \in 1..Len(q)
                 PROVE  \/ i <= Len(ab) /\ i <= Len(a) /\ Priority[q[i]] = 0
                        \/ i <= Len(ab) /\ i > Len(a) /\ Priority[q[i]] = 1
                        \/ i > Len(ab) /\ Priority[q[i]] = 2
      OBVIOUS
    <3>1. CASE i \in 1..Len(ab) /\ q[i] = ab[i]
      <4>1. i <= Len(ab)
        BY <2>1, <3>1
      <4> QED
        BY <2>2, <3>1, <4>1
    <3>2. CASE i - Len(ab) \in 1..Len(c) /\ i > Len(ab) /\ q[i] = c[i - Len(ab)]
      BY <1>6, <3>2
    <3> QED
      BY <1>8, <3>1, <3>2
  <2>4. Len(q) \in Nat
    BY <1>8, LenProperties
  <2> SUFFICES ASSUME NEW i \in 1..Len(q), NEW j \in 1..Len(q), i < j
               PROVE  Priority[q[i]] <= Priority[q[j]]
    BY DEF ByPriority
  <2>5. i \in Nat /\ j \in Nat
    BY <2>4
  <2> DEFINE x == Priority[q[i]]
             y == Priority[q[j]]
             m == Len(a)
             n == Len(ab)
  <2>6. /\ \/ i <= n /\ i <= m /\ x = 0
           \/ i <= n /\ i > m /\ x = 1
           \/ i > n /\ x = 2
        /\ \/ j <= n /\ j <= m /\ y = 0
           \/ j <= n /\ j > m /\ y = 1
           \/ j > n /\ y = 2
    BY <2>3
  <2>7. m \in Nat /\ n \in Nat
    BY <2>1
  <2> HIDE DEF x, y, m, n
  <2>8. x <= y
    BY <2>5, <2>6, <2>7
  <2> QED
    BY <2>8 DEF x, y
<1> QED
  BY <1>6, <1>7, <1>8, <1>9 DEF q, ab

\* A step that leaves the buffer alone and the events in it.
LEMMA SameBuffer ==
    ASSUME EInv, UNCHANGED bufferVars,
           \A e \in Events : fate'[e] = "buffered" <=> fate[e] = "buffered"
    PROVE  BufferHolds' /\ BufferCounted'
<1>1. buffer' = buffer /\ bufferedEventCount' = bufferedEventCount
  BY DEF bufferVars
<1>2. BufferHolds'
  BY <1>1 DEF EInv, BufferHolds
<1>3. BufferCounted'
  BY <1>1 DEF EInv, BufferCounted
<1> QED
  BY <1>2, <1>3

\* A step that leaves alone what the loops have taken.
LEMMA SameTodo ==
    ASSUME EInv, todo' = todo,
           \A e \in Events : fate'[e] = "taken" <=> fate[e] = "taken"
    PROVE  LoopsHold' /\ TodoInOrder'
<1>1. LoopsHold'
  BY DEF EInv, LoopsHold
<1>2. TodoInOrder'
  BY DEF EInv, TodoInOrder
<1> QED
  BY <1>1, <1>2

\* A step after which the loops that await an emit or hold events did so before.
LEMMA SamePlaces ==
    ASSUME EInv, todo' = todo, awaited' = awaited,
           \A l \in Loops : loopAt'[l] = "awaiting" => loopAt[l] = "awaiting",
           \A l \in Loops : loopAt'[l] \notin {"awaiting", "ready", "broken"} =>
               loopAt[l] \notin {"awaiting", "ready", "broken"} \/ todo[l] = <<>>
    PROVE  IdleHoldsNothing' /\ AwaitedIsFirst'
<1>1. IdleHoldsNothing'
  BY DEF EInv, IdleHoldsNothing
<1>2. AwaitedIsFirst'
  BY DEF EInv, AwaitedIsFirst
<1> QED
  BY <1>1, <1>2

\* A step that touches neither an event nor a loop.
LEMMA QuietKeepsEInv ==
    ASSUME EInv, TypeOK',
           UNCHANGED <<buffer, bufferedEventCount, fate, loopAt, awaited, todo, wasPaused, calls>>
    PROVE  EInv'
<1>1. BufferHolds' /\ BufferCounted'
  BY SameBuffer DEF bufferVars
<1>2. LoopsHold' /\ TodoInOrder'
  BY SameTodo
<1>3. IdleHoldsNothing' /\ AwaitedIsFirst'
  BY SamePlaces
<1>4. FlyingIsCalled' /\ LocalsTyped'
  BY DEF EInv, FlyingIsCalled, LocalsTyped
<1> QED
  BY <1>1, <1>2, <1>3, <1>4 DEF EInv

LEMMA QuietActionsKeepEInv ==
    ASSUME EInv,
           \/ \E l \in Listeners : on(l)
           \/ \E S \in SUBSET subscribed : off(S)
           \/ pause \/ resume \/ ResumeReturns
           \/ \E d \in Drainers : drain(d) \/ DrainGoesOn(d)
           \/ UNCHANGED vars
    PROVE  EInv'
<1>0. TypeOK
  BY DEF EInv
<1>1. CASE \E l \in Listeners : on(l)
  BY <1>0, <1>1, QuietKeepsEInv DEF TypeOK, on, pauseVars, bufferVars, loopVars, RunsTyped, runVars
<1>2. CASE \E S \in SUBSET subscribed : off(S)
  BY <1>0, <1>2, QuietKeepsEInv DEF TypeOK, off, pauseVars, bufferVars, loopVars, RunsTyped, runVars
<1>3. CASE pause
  BY <1>0, <1>3, QuietKeepsEInv DEF TypeOK, pause, bufferVars, loopVars, RunsTyped, runVars
<1>4. CASE resume
  BY <1>0, <1>4, QuietKeepsEInv DEF TypeOK, resume, bufferVars, loopVars, dispatchVars, RunsTyped, runVars
<1>5. CASE \E d \in Drainers : drain(d) \/ DrainGoesOn(d)
  <2>1. UNCHANGED <<pauseVars, bufferVars, loopVars, dispatchVars>>
    BY <1>5 DEF drain, DrainGoesOn
  <2> QED
    BY <1>0, <2>1, QuietKeepsEInv DEF TypeOK, pauseVars, bufferVars, loopVars, dispatchVars, RunsTyped, runVars
<1>7. CASE ResumeReturns
  <2>1. /\ resuming \in Seq(Processors) /\ resuming # <<>>
        /\ bufferProcessing' = Head(resuming) /\ resuming' = Tail(resuming)
        /\ hidden' = hidden \union ({bufferProcessing} \ {None})
    BY <1>0, <1>7 DEF ResumeReturns, StackIsEmpty, TypeOK, RunsTyped
  <2>2. RunsTyped'
    BY <1>0, <2>1, StackShrinks DEF TypeOK, RunsTyped
  <2>3. UNCHANGED <<isPaused, isDisposed, buffer, bufferedEventCount, fate, subscribed, calls,
                    heard, loopAt, awaited, todo, wasPaused>>
    BY <1>7 DEF ResumeReturns, pauseVars, bufferVars, dispatchVars
  <2>4. TypeOK'
    BY <1>0, <2>2, <2>3 DEF TypeOK
  <2> QED
    BY <2>3, <2>4, QuietKeepsEInv
<1>6. CASE UNCHANGED vars
  BY <1>0, <1>6, QuietKeepsEInv DEF TypeOK, vars, pauseVars, bufferVars, loopVars, dispatchVars, RunsTyped, runVars
<1> QED
  BY <1>1, <1>2, <1>3, <1>4, <1>5, <1>6, <1>7

\* What Dispatch does to the events: e is in flight with a call for each of
\* its listeners, or there are none.
LEMMA DispatchFlies ==
    ASSUME EInv, NEW e \in Events, NEW before \in [Events -> Fates], Dispatch(e, before),
           \A x \in Events : before[x] = "flying" => fate[x] = "flying"
    PROVE  /\ fate' = [before EXCEPT ![e] = fate'[e]]
           /\ fate' \in [Events -> Fates]
           /\ fate'[e] = IF snapshotListeners(e) = {} THEN "unheard" ELSE "flying"
           /\ subscribed' \subseteq Listeners
           /\ calls' \subseteq Events \X Listeners
           /\ heard' \in [Listeners -> SUBSET Events]
           /\ isDisposed' \in BOOLEAN
           /\ FlyingIsCalled'
<1> DEFINE S == snapshotListeners(e)
           x == IF S = {} THEN "unheard" ELSE "flying"
<1>1. /\ subscribed \subseteq Listeners /\ calls \subseteq Events \X Listeners
      /\ heard \in [Listeners -> SUBSET Events]
      /\ S \subseteq subscribed
  BY DEF EInv, TypeOK, snapshotListeners
<1>2. /\ fate' = [before EXCEPT ![e] = x]
      /\ subscribed' = removeOnceSubscriptions(S)
      /\ calls' = calls \union {<<e, l>> : l \in S}
      /\ heard' = [l \in Listeners |-> IF l \in S THEN heard[l] \union {e} ELSE heard[l]]
      /\ isDisposed' = FALSE
  BY DEF Dispatch
<1>3. x \in {"unheard", "flying"} /\ {"unheard", "flying"} \subseteq Fates /\ (x = "flying" => S # {})
  BY DEF Fates
<1>4. x = IF snapshotListeners(e) = {} THEN "unheard" ELSE "flying"
  OBVIOUS
<1> HIDE DEF S, x
<1>5. fate' \in [Events -> Fates] /\ fate'[e] = x
  BY <1>2, <1>3
<1>6. heard' \in [Listeners -> SUBSET Events]
  BY <1>1, <1>2
<1>7. FlyingIsCalled'
  <2> SUFFICES ASSUME NEW y \in Events, fate'[y] = "flying"
               PROVE  \E l \in Listeners : <<y, l>> \in calls'
    BY DEF FlyingIsCalled
  <2>1. CASE y = e
    <3>1. PICK l \in S : TRUE
      BY <1>3, <1>5, <2>1
    <3> QED
      BY <1>1, <1>2, <2>1, <3>1
  <2>2. CASE y # e
    <3>1. fate[y] = "flying"
      BY <1>2, <2>2
    <3> QED
      BY <1>2, <3>1 DEF EInv, FlyingIsCalled
  <2> QED
    BY <2>1, <2>2
<1>8. fate' = [before EXCEPT ![e] = fate'[e]]
  BY <1>2, <1>5
<1>9. subscribed' \subseteq Listeners
  BY <1>1, <1>2 DEF removeOnceSubscriptions
<1>10. calls' \subseteq Events \X Listeners
  BY <1>1, <1>2
<1> QED
  BY <1>2, <1>4, <1>5, <1>6, <1>7, <1>8, <1>9, <1>10

\* An event that nobody holds yet is enqueued, or finds no room.
LEMMA EnqueueKeeps ==
    ASSUME EInv, NEW e \in Events, fate[e] \notin {"buffered", "flying"},
           NEW overflow \in {"refused", "overflow"}, Enqueue(e, overflow)
    PROVE  /\ BufferHolds' /\ BufferCounted' /\ FlyingIsCalled'
           /\ buffer' \in Seq(Events) /\ bufferedEventCount' \in Nat
           /\ fate' = [fate EXCEPT ![e] = fate'[e]]
           /\ fate'[e] \in {"buffered", overflow}
           /\ fate' \in [Events -> Fates]
           /\ isDisposed' \in BOOLEAN /\ UNCHANGED <<subscribed, calls, heard>>
<1>1. /\ buffer' \in Seq(Events) /\ bufferedEventCount' \in Nat
      /\ fate' = [fate EXCEPT ![e] = fate'[e]]
      /\ fate'[e] \in {"buffered", overflow}
      /\ BufferHolds' /\ BufferCounted'
  BY EnqueueBuffers
<1>2. fate \in [Events -> Fates] /\ {"buffered", overflow} \subseteq Fates
  BY DEF EInv, TypeOK, Fates
<1>3. isDisposed' = FALSE /\ UNCHANGED <<subscribed, calls, heard>>
  BY DEF Enqueue
<1> DEFINE x == fate'[e]
<1>4. fate' = [fate EXCEPT ![e] = x] /\ x \in {"buffered", overflow}
  BY <1>1
<1> HIDE DEF x
<1>5. fate' \in [Events -> Fates]
  BY <1>2, <1>4
<1>6. FlyingIsCalled'
  <2> SUFFICES ASSUME NEW y \in Events, fate'[y] = "flying"
               PROVE  \E l \in Listeners : <<y, l>> \in calls'
    BY DEF FlyingIsCalled
  <2>1. fate[y] = "flying"
    BY <1>2, <1>4
  <2> QED
    BY <1>3, <2>1 DEF EInv, FlyingIsCalled
<1> QED
  BY <1>1, <1>3, <1>5, <1>6

\* The caller of emit and emitSync gives up an event nobody holds yet.
LEMMA EmitKeepsEInv ==
    ASSUME EInv, NEW e \in Events, emit(e) \/ emitSync(e)
    PROVE  EInv'
<1>0. /\ fate[e] = "new" /\ fate \in [Events -> Fates] /\ TypeOK
      /\ UNCHANGED <<isPaused, pauses, runVars, loopAt, awaited, todo, wasPaused>>
  BY DEF EInv, TypeOK, emit, emitSync, pauseVars, loopVars
<1>1. IdleHoldsNothing' /\ AwaitedIsFirst' /\ LocalsTyped'
  <2>1. IdleHoldsNothing' /\ AwaitedIsFirst'
    BY <1>0, SamePlaces
  <2>2. LocalsTyped'
    BY <1>0 DEF EInv, LocalsTyped
  <2> QED
    BY <2>1, <2>2
<1>2. CASE Enqueue(e, "refused")
  <2>1. /\ BufferHolds' /\ BufferCounted' /\ FlyingIsCalled'
        /\ buffer' \in Seq(Events) /\ bufferedEventCount' \in Nat
        /\ fate' = [fate EXCEPT ![e] = fate'[e]] /\ fate'[e] \in {"buffered", "refused"}
        /\ fate' \in [Events -> Fates]
        /\ isDisposed' \in BOOLEAN /\ UNCHANGED <<subscribed, calls, heard>>
    BY <1>0, <1>2, EnqueueKeeps
  <2>2. \A x \in Events : fate'[x] = "taken" <=> fate[x] = "taken"
    BY <1>0, <2>1
  <2>3. LoopsHold' /\ TodoInOrder'
    BY <1>0, <2>2, SameTodo
  <2>4. TypeOK'
    BY <1>0, <2>1 DEF TypeOK, RunsTyped, runVars
  <2> QED
    BY <1>1, <2>1, <2>3, <2>4 DEF EInv
<1>3. CASE Dispatch(e, fate) /\ UNCHANGED bufferVars
  <2>1. /\ fate' = [fate EXCEPT ![e] = fate'[e]] /\ fate' \in [Events -> Fates]
        /\ fate'[e] = IF snapshotListeners(e) = {} THEN "unheard" ELSE "flying"
        /\ subscribed' \subseteq Listeners /\ calls' \subseteq Events \X Listeners
        /\ heard' \in [Listeners -> SUBSET Events] /\ isDisposed' \in BOOLEAN
        /\ FlyingIsCalled'
    BY <1>0, <1>3, DispatchFlies
  <2>2. fate'[e] \in {"unheard", "flying"}
    BY <2>1
  <2>3. \A x \in Events : /\ fate'[x] = "taken" <=> fate[x] = "taken"
                          /\ fate'[x] = "buffered" <=> fate[x] = "buffered"
    BY <1>0, <2>1, <2>2
  <2>4. LoopsHold' /\ TodoInOrder'
    BY <1>0, <2>3, SameTodo
  <2>5. BufferHolds' /\ BufferCounted'
    BY <1>3, <2>3, SameBuffer
  <2>6. TypeOK'
    BY <1>0, <1>3, <2>1 DEF TypeOK, bufferVars, RunsTyped, runVars
  <2> QED
    BY <1>1, <2>1, <2>4, <2>5, <2>6 DEF EInv
<1>4. CASE emitSync(e) /\ ~Enqueue(e, "refused")
  <2> DEFINE S == snapshotListeners(e)
  <2>1. S \subseteq Listeners
    BY <1>0 DEF TypeOK, snapshotListeners
  <2>2. /\ subscribed' = subscribed \ (S \intersect Once)
        /\ isDisposed' = FALSE /\ UNCHANGED <<bufferVars, calls>>
        /\ \E called \in SUBSET S, x \in {"unheard", "failed", "done"} :
              /\ fate' = [fate EXCEPT ![e] = x]
              /\ heard' = [l \in Listeners |->
                    IF l \in called THEN heard[l] \union {e} ELSE heard[l]]
    BY <1>4 DEF emitSync, removeOnceSubscriptions
  <2> HIDE DEF S
  <2>3. PICK called \in SUBSET S, x \in {"unheard", "failed", "done"} :
              /\ fate' = [fate EXCEPT ![e] = x]
              /\ heard' = [l \in Listeners |->
                    IF l \in called THEN heard[l] \union {e} ELSE heard[l]]
    BY <2>2
  <2>4. heard' \in [Listeners -> SUBSET Events]
    BY <1>0, <2>3 DEF TypeOK
  <2>5. \A y \in Events : /\ fate'[y] = "taken" <=> fate[y] = "taken"
                          /\ fate'[y] = "buffered" <=> fate[y] = "buffered"
                          /\ fate'[y] = "flying" => fate[y] = "flying"
    BY <1>0, <2>3
  <2>6. fate' \in [Events -> Fates]
    BY <1>0, <2>3 DEF Fates
  <2>7. LoopsHold' /\ TodoInOrder'
    BY <1>0, <2>5, SameTodo
  <2>8. BufferHolds' /\ BufferCounted'
    BY <2>2, <2>5, SameBuffer
  <2>9. FlyingIsCalled'
    BY <2>2, <2>5 DEF EInv, FlyingIsCalled
  <2>10. TypeOK'
    BY <1>0, <2>2, <2>4, <2>6 DEF TypeOK, bufferVars, RunsTyped, runVars
  <2> QED
    BY <1>1, <2>7, <2>8, <2>9, <2>10 DEF EInv
<1> QED
  BY <1>2, <1>3, <1>4 DEF emit

\* A loop that is done with its events: nothing but its place moves.
LEMMA EndingKeepsEInv ==
    ASSUME EInv,
           \/ \E l \in Loops : LoopEnds(l)
           \/ \E p \in Processors : ProcessingSettles(p)
    PROVE  EInv'
<1>0. TypeOK
  BY DEF EInv
<1>1. PICK l \in Loops, x \in {"done", "ending", "failed"} :
          /\ loopAt' = [loopAt EXCEPT ![l] = x]
          /\ (loopAt[l] = "ready" /\ todo[l] = <<>>) \/ loopAt[l] \in {"ending", "failing"}
          /\ UNCHANGED <<pauses, bufferVars, dispatchVars, awaited, todo, wasPaused, drainAt>>
          /\ isPaused' \in BOOLEAN /\ RunsTyped'
  <2>1. CASE \E l \in Loops : LoopEnds(l)
    <3>1. PICK l \in Loops : LoopEnds(l)
      BY <2>1
    <3>2. isPaused' \in BOOLEAN
      BY <1>0, <3>1 DEF LoopEnds, EInv, LocalsTyped, TypeOK
    <3>3. RunsTyped'
      BY <1>0, <3>1 DEF LoopEnds, TypeOK, RunsTyped, runVars
    <3> DEFINE x == IF l \in Flushers THEN "done" ELSE "ending"
    <3>4. loopAt' = [loopAt EXCEPT ![l] = x]
      BY <3>1 DEF LoopEnds
    <3>5. x \in {"done", "ending", "failed"}
      OBVIOUS
    <3> HIDE DEF x
    <3> QED
      BY <3>1, <3>2, <3>3, <3>4, <3>5 DEF LoopEnds
  <2>2. CASE \E p \in Processors : ProcessingSettles(p)
    <3>1. PICK p \in Processors : ProcessingSettles(p)
      BY <2>2
    <3>2. p \in Loops
      BY DEF Loops
    <3>3. isPaused' \in BOOLEAN
      BY <1>0, <3>1 DEF ProcessingSettles, TypeOK, pauseVars
    <3>4. RunsTyped'
      BY <1>0, <3>1 DEF ProcessingSettles, ProcessingAfter, TypeOK, RunsTyped
    <3>5. PICK x \in {"done", "failed"} : loopAt' = [loopAt EXCEPT ![p] = x]
      BY <3>1 DEF ProcessingSettles
    <3> QED
      BY <3>1, <3>2, <3>3, <3>4, <3>5 DEF ProcessingSettles, pauseVars
  <2> QED
    BY <2>1, <2>2
<1>2. loopAt \in [Loops -> {"unused", "blocked", "awaiting", "ready", "broken",
                            "ending", "failing", "done", "failed"}]
  BY <1>0 DEF TypeOK
<1>3. TypeOK'
  <2>1. loopAt' \in [Loops -> {"unused", "blocked", "awaiting", "ready", "broken",
                               "ending", "failing", "done", "failed"}]
    BY <1>1, <1>2
  <2> QED
    BY <1>0, <1>1, <2>1 DEF TypeOK, bufferVars, dispatchVars
<1>4. IdleHoldsNothing' /\ AwaitedIsFirst'
  <2>1. \A m \in Loops : loopAt'[m] = "awaiting" => loopAt[m] = "awaiting"
    BY <1>1, <1>2
  <2>2. \A m \in Loops : loopAt'[m] \notin {"awaiting", "ready", "broken"} =>
               loopAt[m] \notin {"awaiting", "ready", "broken"} \/ todo[m] = <<>>
    BY <1>1, <1>2
  <2> QED
    BY <1>1, <2>1, <2>2, SamePlaces
<1>5. BufferHolds' /\ BufferCounted'
  BY <1>1, SameBuffer DEF dispatchVars
<1>6. LoopsHold' /\ TodoInOrder'
  BY <1>1, SameTodo DEF dispatchVars
<1>7. FlyingIsCalled' /\ LocalsTyped'
  BY <1>1 DEF EInv, FlyingIsCalled, LocalsTyped, dispatchVars
<1> QED
  BY <1>3, <1>4, <1>5, <1>6, <1>7 DEF EInv

\* A loop that drops the events it still has.
LEMMA BreakingKeepsEInv ==
    ASSUME EInv, NEW l \in Loops, LoopBreaks(l)
    PROVE  EInv'
<1>0. /\ TypeOK /\ fate \in [Events -> Fates] /\ todo \in [Loops -> Seq(Events)]
      /\ loopAt \in [Loops -> {"unused", "blocked", "awaiting", "ready", "broken",
                               "ending", "failing", "done", "failed"}]
  BY DEF EInv, TypeOK
<1>1. PICK x \in {"failed", "failing"} : loopAt' = [loopAt EXCEPT ![l] = x]
  <2> DEFINE x == IF l \in Flushers THEN "failed" ELSE "failing"
  <2>1. loopAt' = [loopAt EXCEPT ![l] = x] /\ x \in {"failed", "failing"}
    BY DEF LoopBreaks
  <2> QED
    BY <2>1
<1>2. /\ fate' = [e \in Events |-> IF e \in Elements(todo[l]) THEN "lost" ELSE fate[e]]
      /\ todo' = [todo EXCEPT ![l] = <<>>]
      /\ UNCHANGED <<pauses, bufferVars, runVars, awaited, wasPaused,
                     subscribed, calls, heard, isDisposed, drainAt>>
  BY DEF LoopBreaks
<1>3. isPaused' \in BOOLEAN
  BY <1>0 DEF LoopBreaks, EInv, LocalsTyped, TypeOK
<1>4. fate' \in [Events -> Fates]
  BY <1>0, <1>2 DEF Fates
<1>5. todo' \in [Loops -> Seq(Events)]
  BY <1>0, <1>2, EmptySeq
<1>6. loopAt' \in [Loops -> {"unused", "blocked", "awaiting", "ready", "broken",
                             "ending", "failing", "done", "failed"}]
  BY <1>0, <1>1
<1>7. TypeOK'
  BY <1>0, <1>2, <1>3, <1>4, <1>5, <1>6 DEF TypeOK, bufferVars, RunsTyped, runVars
<1>8. \A e \in Elements(todo[l]) : fate[e] = "taken"
  <2>1. Elements(todo[l]) \in SUBSET Events
    BY <1>0, ElementsTyped
  <2> QED
    BY <2>1 DEF EInv, LoopsHold
<1>9. \A e \in Events : /\ fate'[e] = "buffered" <=> fate[e] = "buffered"
                        /\ fate'[e] = "flying" => fate[e] = "flying"
                        /\ fate'[e] = "taken" <=> fate[e] = "taken" /\ e \notin Elements(todo[l])
  BY <1>2, <1>8
<1>10. BufferHolds' /\ BufferCounted'
  BY <1>2, <1>9, SameBuffer
<1>11. Elements(<<>>) = {} /\ HasNoRepeats(<<>>) /\ ByPriority(<<>>)
  BY EmptySeq DEF Elements, HasNoRepeats, ByPriority
<1>12. \A m \in Loops : todo'[m] = IF m = l THEN <<>> ELSE todo[m]
  BY <1>0, <1>2
<1>13. LoopsHold'
  <2>1. \A m \in Loops : HasNoRepeats(todo'[m])
    BY <1>11, <1>12 DEF EInv, LoopsHold
  <2>2. \A m \in Loops : Elements(todo'[m]) = IF m = l THEN {} ELSE Elements(todo[m])
    BY <1>11, <1>12
  <2>3. \A m, n \in Loops : m # n => Elements(todo'[m]) \intersect Elements(todo'[n]) = {}
    BY <2>2 DEF EInv, LoopsHold
  <2>4. ASSUME NEW e \in Events
        PROVE  fate'[e] = "taken" <=> \E m \in Loops : e \in Elements(todo'[m])
    BY <1>9, <2>2 DEF EInv, LoopsHold
  <2> QED
    BY <2>1, <2>3, <2>4 DEF LoopsHold
<1>14. TodoInOrder'
  BY <1>11, <1>12 DEF EInv, TodoInOrder
<1>15. IdleHoldsNothing'
  BY <1>0, <1>1, <1>12 DEF EInv, IdleHoldsNothing
<1>16. AwaitedIsFirst'
  <2> SUFFICES ASSUME NEW m \in Loops, loopAt'[m] = "awaiting"
               PROVE  /\ awaited'[m] \in Events
                      /\ \A i \in 1..Len(todo'[m]) : Priority[awaited'[m]] <= Priority[todo'[m][i]]
    BY DEF AwaitedIsFirst
  <2>1. m # l /\ loopAt[m] = "awaiting"
    BY <1>0, <1>1
  <2>2. todo'[m] = todo[m] /\ awaited'[m] = awaited[m]
    BY <1>2, <1>12, <2>1
  <2> QED
    BY <2>1, <2>2 DEF EInv, AwaitedIsFirst
<1>17. FlyingIsCalled' /\ LocalsTyped'
  BY <1>2, <1>9 DEF EInv, FlyingIsCalled, LocalsTyped
<1> QED
  BY <1>7, <1>10, <1>13, <1>14, <1>15, <1>16, <1>17 DEF EInv

\* The loops that wait for a settled emit go on; they keep what they hold.
LEMMA WakeKeepsPlaces ==
    ASSUME EInv, NEW E, NEW outcome \in {"ready", "broken"},
           loopAt' = Wake(E, outcome), todo' = todo, awaited' = awaited
    PROVE  /\ loopAt' \in [Loops -> {"unused", "blocked", "awaiting", "ready", "broken",
                                     "ending", "failing", "done", "failed"}]
           /\ IdleHoldsNothing' /\ AwaitedIsFirst'
<1>1. loopAt \in [Loops -> {"unused", "blocked", "awaiting", "ready", "broken",
                            "ending", "failing", "done", "failed"}]
  BY DEF EInv, TypeOK
<1>2. \A l \in Loops : loopAt'[l] = loopAt[l] \/ (loopAt[l] = "awaiting" /\ loopAt'[l] = outcome)
  BY DEF Wake
<1>3. loopAt' \in [Loops -> {"unused", "blocked", "awaiting", "ready", "broken",
                             "ending", "failing", "done", "failed"}]
  BY <1>1, <1>2 DEF Wake
<1>4. IdleHoldsNothing' /\ AwaitedIsFirst'
  BY <1>2, SamePlaces
<1> QED
  BY <1>3, <1>4

\* A call of a listener is settled: the event it was the last call of, or the
\* one it failed, is settled with it.
LEMMA CallsKeepEInv ==
    ASSUME EInv, NEW e \in Events, NEW k \in Listeners, CallReturns(e, k) \/ CallThrows(e, k)
    PROVE  EInv'
<1>0. TypeOK /\ fate \in [Events -> Fates] /\ calls \subseteq Events \X Listeners
  BY DEF EInv, TypeOK
<1>1. /\ calls' = calls \ {<<e, k>>}
      /\ UNCHANGED <<pauseVars, bufferVars, subscribed, heard, isDisposed,
                     runVars, awaited, todo, wasPaused>>
  BY DEF CallReturns, CallThrows, CallSettles
<1>2. \/ /\ fate[e] = "flying"
         /\ fate' = [fate EXCEPT ![e] = "done"] /\ loopAt' = Wake({e}, "ready")
      \/ /\ fate[e] = "flying"
         /\ fate' = [fate EXCEPT ![e] = "failed"] /\ loopAt' = Wake({e}, "broken")
      \/ /\ fate[e] = "flying" => \E l \in Listeners : <<e, l>> \in calls'
         /\ UNCHANGED <<fate, loopAt>>
  BY DEF CallReturns, CallThrows
<1>3. /\ fate' \in [Events -> Fates]
      /\ \A y \in Events : /\ fate'[y] = "taken" <=> fate[y] = "taken"
                           /\ fate'[y] = "buffered" <=> fate[y] = "buffered"
                           /\ fate'[y] = "flying" => fate[y] = "flying"
      /\ fate'[e] = "flying" => \E l \in Listeners : <<e, l>> \in calls'
  BY <1>0, <1>2 DEF Fates
<1>4. /\ loopAt' \in [Loops -> {"unused", "blocked", "awaiting", "ready", "broken",
                                "ending", "failing", "done", "failed"}]
      /\ IdleHoldsNothing' /\ AwaitedIsFirst'
  <2>1. CASE loopAt' = Wake({e}, "ready") \/ loopAt' = Wake({e}, "broken")
    BY <1>1, <2>1, WakeKeepsPlaces
  <2>2. CASE loopAt' = loopAt
    BY <1>0, <1>1, <2>2, SamePlaces DEF TypeOK
  <2> QED
    BY <1>2, <2>1, <2>2
<1>5. TypeOK'
  BY <1>0, <1>1, <1>3, <1>4 DEF TypeOK, pauseVars, bufferVars, RunsTyped, runVars
<1>6. BufferHolds' /\ BufferCounted'
  BY <1>1, <1>3, SameBuffer
<1>7. LoopsHold' /\ TodoInOrder'
  BY <1>1, <1>3, SameTodo
<1>8. FlyingIsCalled'
  <2> SUFFICES ASSUME NEW y \in Events, fate'[y] = "flying"
               PROVE  \E l \in Listeners : <<y, l>> \in calls'
    BY DEF FlyingIsCalled
  <2>1. CASE y = e
    BY <1>3, <2>1
  <2>2. CASE y # e
    <3>1. PICK l \in Listeners : <<y, l>> \in calls
      BY <1>3 DEF EInv, FlyingIsCalled
    <3> QED
      BY <1>1, <2>2, <3>1
  <2> QED
    BY <2>1, <2>2
<1>9. LocalsTyped'
  BY <1>1 DEF EInv, LocalsTyped
<1> QED
  BY <1>4, <1>5, <1>6, <1>7, <1>8, <1>9 DEF EInv

\* Clearing some names ends the events buffered under them, and only those.
LEMMA ClearKeepsEInv ==
    ASSUME EInv, NEW N \in SUBSET Names, clearBuffer(N)
    PROVE  EInv'
<1>0. TypeOK /\ fate \in [Events -> Fates]
  BY DEF EInv, TypeOK
<1>1. /\ buffer' = deleteBucket(N) /\ bufferedEventCount' = clearedCount(N)
      /\ fate' = [e \in Events |-> IF e \in Elements(BufferedOf(N)) THEN "cleared" ELSE fate[e]]
      /\ UNCHANGED <<pauseVars, loopVars, subscribed, calls, heard, isDisposed, drainAt>>
  BY DEF clearBuffer
<1>2. /\ buffer' \in Seq(Events) /\ bufferedEventCount' \in Nat
      /\ HasNoRepeats(buffer')
      /\ Elements(buffer') = Elements(buffer) \ Named(N)
      /\ Elements(BufferedOf(N)) = Elements(buffer) \intersect Named(N)
      /\ BufferCounted'
  BY <1>1, DeletedBuffers
<1>3. \A e \in Events : e \in Elements(buffer) <=> fate[e] = "buffered"
  BY DEF EInv, BufferHolds
<1>4. /\ fate' \in [Events -> Fates]
      /\ \A e \in Events : /\ fate'[e] = "buffered" <=> fate[e] = "buffered" /\ e \notin Named(N)
                           /\ fate'[e] = "taken" <=> fate[e] = "taken"
                           /\ fate'[e] = "flying" => fate[e] = "flying"
  BY <1>0, <1>1, <1>2, <1>3 DEF Fates
<1>5. BufferHolds'
  BY <1>2, <1>3, <1>4 DEF BufferHolds
<1>6. UNCHANGED <<todo, awaited, loopAt, wasPaused, runVars>>
  BY <1>1 DEF loopVars
<1>7. LoopsHold' /\ TodoInOrder'
  BY <1>4, <1>6, SameTodo
<1>8. IdleHoldsNothing' /\ AwaitedIsFirst'
  BY <1>6, SamePlaces
<1>9. FlyingIsCalled'
  BY <1>1, <1>4 DEF EInv, FlyingIsCalled
<1>10. LocalsTyped'
  BY <1>6 DEF EInv, LocalsTyped
<1>11. TypeOK'
  BY <1>0, <1>1, <1>2, <1>4, <1>6 DEF TypeOK, pauseVars, RunsTyped, runVars
<1> QED
  BY <1>2, <1>5, <1>7, <1>8, <1>9, <1>10, <1>11 DEF EInv

\* dispose ends what is buffered and what is in flight; the loops keep what
\* they have taken.
LEMMA DisposeKeepsEInv == ASSUME EInv, dispose PROVE EInv'
<1>0. TypeOK /\ fate \in [Events -> Fates]
  BY DEF EInv, TypeOK
<1> DEFINE flying == {e \in Events : fate[e] = "flying"}
<1>1. /\ isDisposed' = TRUE /\ calls' = {} /\ subscribed' = {} /\ buffer' = <<>>
      /\ bufferedEventCount' = 0 /\ bufferProcessing' = None /\ isPaused' = FALSE
      /\ loopAt' = Wake(flying, "broken")
      /\ UNCHANGED <<pauses, resuming, hidden, awaited, todo, wasPaused, heard>>
  BY DEF dispose
<1>2. fate' = [e \in Events |-> IF e \in flying THEN "failed"
                                ELSE IF e \in Elements(buffer) THEN "cleared"
                                ELSE fate[e]]
  BY DEF dispose
<1>3. \A e \in Events : /\ e \in flying <=> fate[e] = "flying"
                        /\ e \in Elements(buffer) <=> fate[e] = "buffered"
  BY DEF EInv, BufferHolds
<1> HIDE DEF flying
<1>4. \A e \in Events :
          /\ fate[e] = "flying" => fate'[e] = "failed"
          /\ fate[e] = "buffered" => fate'[e] = "cleared"
          /\ fate[e] \notin {"flying", "buffered"} => fate'[e] = fate[e]
  BY <1>2, <1>3
<1>5. fate' \in [Events -> Fates]
  BY <1>0, <1>2 DEF Fates
<1>6. \A e \in Events : /\ fate'[e] \notin {"buffered", "flying"}
                        /\ fate'[e] = "taken" <=> fate[e] = "taken"
  BY <1>4
<1>7. /\ loopAt' \in [Loops -> {"unused", "blocked", "awaiting", "ready", "broken",
                                "ending", "failing", "done", "failed"}]
      /\ IdleHoldsNothing' /\ AwaitedIsFirst'
  BY <1>1, WakeKeepsPlaces
<1>8. TypeOK'
  <2>1. RunsTyped'
    BY <1>0, <1>1 DEF TypeOK, RunsTyped
  <2>2. <<>> \in Seq(Events)
    BY EmptySeq
  <2> QED
    BY <1>0, <1>1, <1>5, <1>7, <2>1, <2>2 DEF TypeOK
<1>9. Elements(<<>>) = {} /\ HasNoRepeats(<<>>) /\ Len(<<>>) = 0
  BY EmptySeq DEF Elements, HasNoRepeats
<1>10. BufferHolds'
  BY <1>1, <1>6, <1>9 DEF BufferHolds
<1>11. BufferCounted'
  <2>1. Cardinality({}) <= BufferSize
    <3>1. Cardinality({}) = 0 /\ BufferSize \in Nat
      BY FS_EmptySet, BoundsAssumption
    <3> QED
      BY <3>1
  <2>2. ASSUME NEW n \in Names
        PROVE  Cardinality(Elements(<<>>) \intersect Named({n})) <= BufferSize
    <3>1. Elements(<<>>) \intersect Named({n}) = {}
      BY <1>9
    <3>2. Cardinality(Elements(<<>>) \intersect Named({n})) = Cardinality({})
      BY <3>1, Zenon
    <3> QED
      BY <2>1, <3>2
  <2> QED
    BY <1>1, <1>9, <2>2 DEF BufferCounted
<1>12. LoopsHold' /\ TodoInOrder'
  BY <1>1, <1>6, SameTodo
<1>13. FlyingIsCalled' /\ LocalsTyped'
  BY <1>1, <1>6 DEF EInv, FlyingIsCalled, LocalsTyped
<1> QED
  BY <1>7, <1>8, <1>10, <1>11, <1>12, <1>13 DEF EInv

\* What is left after the first event of q is still in order, and after it.
LEMMA TailInOrder ==
    ASSUME NEW q \in Seq(Events), q # <<>>, HasNoRepeats(q), ByPriority(q)
    PROVE  ByPriority(Tail(q)) /\ \A i \in 1..Len(Tail(q)) : Priority[Head(q)] <= Priority[Tail(q)[i]]
<1> DEFINE h == Head(q)
           t == Tail(q)
<1>1. \A i \in 1..Len(t) : i + 1 \in 1..Len(q) /\ t[i] = q[i + 1]
  BY TailElements
<1>2. t \in Seq(Events) /\ q[1] = h
  BY TailElements
<1>3. \A i, j \in 1..Len(q) : i < j => Priority[q[i]] <= Priority[q[j]]
  BY DEF ByPriority
<1>4. ByPriority(t) /\ \A i \in 1..Len(t) : Priority[h] <= Priority[t[i]]
  <2>1. Len(q) \in Nat /\ Len(t) \in Nat /\ q[1] = h /\ 1 \in 1..Len(q)
    BY <1>2, LenProperties, EmptySeq
  <2>2. ASSUME NEW i \in 1..Len(t), NEW j \in 1..Len(t), i < j
        PROVE  Priority[t[i]] <= Priority[t[j]]
    <3>1. i + 1 \in 1..Len(q) /\ j + 1 \in 1..Len(q) /\ i + 1 < j + 1
      BY <1>1, <2>1, <2>2
    <3>2. t[i] = q[i + 1] /\ t[j] = q[j + 1]
      BY <1>1
    <3>3. Priority[q[i + 1]] <= Priority[q[j + 1]]
      BY <1>3, <3>1
    <3> QED
      BY <3>2, <3>3
  <2>3. ASSUME NEW i \in 1..Len(t)
        PROVE  Priority[h] <= Priority[t[i]]
    <3>1. i + 1 \in 1..Len(q) /\ 1 < i + 1
      BY <1>1, <2>1
    <3>2. t[i] = q[i + 1]
      BY <1>1
    <3>3. Priority[q[1]] <= Priority[q[i + 1]]
      BY <1>3, <2>1, <3>1
    <3> QED
      BY <2>1, <3>2, <3>3
  <2> QED
    BY <2>2, <2>3 DEF ByPriority
<1> QED
  BY <1>4

\* A loop that holds nothing takes the events of q, which were buffered, and
\* emits the first of them.
LEMMA TakingKeeps ==
    ASSUME EInv, NEW l \in Loops, loopAt[l] \in {"unused", "blocked"},
           NEW q \in Seq(Events), q # <<>>, HasNoRepeats(q), ByPriority(q),
           \A e \in Elements(q) : fate[e] = "buffered",
           TakeAndEmitFirst(l, q)
    PROVE  /\ fate' \in [Events -> Fates]
           /\ \A e \in Events : fate'[e] = "buffered" <=> fate[e] = "buffered" /\ e \notin Elements(q)
           /\ todo' \in [Loops -> Seq(Events)]
           /\ loopAt' \in [Loops -> {"unused", "blocked", "awaiting", "ready", "broken",
                                     "ending", "failing", "done", "failed"}]
           /\ DOMAIN awaited' = Loops
           /\ subscribed' \subseteq Listeners /\ calls' \subseteq Events \X Listeners
           /\ heard' \in [Listeners -> SUBSET Events] /\ isDisposed' \in BOOLEAN
           /\ LoopsHold' /\ IdleHoldsNothing' /\ FlyingIsCalled'
           /\ TodoInOrder' /\ AwaitedIsFirst'
<1>0. /\ fate \in [Events -> Fates] /\ todo \in [Loops -> Seq(Events)]
      /\ loopAt \in [Loops -> {"unused", "blocked", "awaiting", "ready", "broken",
                               "ending", "failing", "done", "failed"}]
      /\ DOMAIN awaited = Loops
  BY DEF EInv, TypeOK, LocalsTyped
<1> DEFINE h == Head(q)
           t == Tail(q)
           taken == [e \in Events |-> IF e \in Elements(q) THEN "taken" ELSE fate[e]]
           x == IF snapshotListeners(h) = {} THEN "ready" ELSE "awaiting"
<1>1. /\ Dispatch(h, taken)
      /\ todo' = [todo EXCEPT ![l] = t]
      /\ awaited' = [awaited EXCEPT ![l] = h]
      /\ loopAt' = [loopAt EXCEPT ![l] = x]
  BY DEF TakeAndEmitFirst
<1>2. /\ h \in Events /\ t \in Seq(Events) /\ HasNoRepeats(t)
      /\ Elements(t) = Elements(q) \ {h} /\ h \in Elements(q)
      /\ \A i \in 1..Len(t) : i + 1 \in 1..Len(q) /\ t[i] = q[i + 1]
  BY TailElements
<1>3. Elements(q) \in SUBSET Events
  BY ElementsTyped
<1>4. taken \in [Events -> Fates] /\ \A e \in Events : taken[e] = "flying" => fate[e] = "flying"
  BY <1>0 DEF Fates
<1>5. /\ fate' = [taken EXCEPT ![h] = fate'[h]]
      /\ fate' \in [Events -> Fates]
      /\ fate'[h] = IF snapshotListeners(h) = {} THEN "unheard" ELSE "flying"
      /\ subscribed' \subseteq Listeners /\ calls' \subseteq Events \X Listeners
      /\ heard' \in [Listeners -> SUBSET Events] /\ isDisposed' \in BOOLEAN
      /\ FlyingIsCalled'
  <2> HIDE DEF h, taken
  <2> QED
    BY <1>1, <1>2, <1>4, DispatchFlies
<1>6. fate'[h] \in {"unheard", "flying"}
  BY <1>5
<1>7. x \in {"ready", "awaiting"}
  OBVIOUS
<1> HIDE DEF x
<1>8. \A e \in Events : e # h => fate'[e] = IF e \in Elements(q) THEN "taken" ELSE fate[e]
  BY <1>5
<1>10. ByPriority(t) /\ \A i \in 1..Len(t) : Priority[h] <= Priority[t[i]]
  BY TailInOrder
<1> HIDE DEF h, t, taken
<1>11. \A e \in Events : fate'[e] = "buffered" <=> fate[e] = "buffered" /\ e \notin Elements(q)
  BY <1>2, <1>6, <1>8
<1>12. /\ todo' \in [Loops -> Seq(Events)] /\ DOMAIN awaited' = Loops
       /\ loopAt' \in [Loops -> {"unused", "blocked", "awaiting", "ready", "broken",
                                 "ending", "failing", "done", "failed"}]
  BY <1>0, <1>1, <1>2, <1>7
<1>13. /\ todo[l] = <<>> /\ todo'[l] = t /\ loopAt'[l] = x /\ awaited'[l] = h
       /\ \A m \in Loops : m # l => /\ todo'[m] = todo[m] /\ loopAt'[m] = loopAt[m]
                                    /\ awaited'[m] = awaited[m]
  BY <1>0, <1>1 DEF EInv, IdleHoldsNothing
<1>14. LoopsHold'
  <2>1. \A m \in Loops : HasNoRepeats(todo'[m])
    BY <1>2, <1>13 DEF EInv, LoopsHold
  <2>2. \A e \in Elements(t) : fate[e] = "buffered"
    BY <1>2
  <2>3. \A m \in Loops : \A e \in Elements(todo[m]) : fate[e] = "taken"
    <3> SUFFICES ASSUME NEW m \in Loops PROVE \A e \in Elements(todo[m]) : fate[e] = "taken"
      OBVIOUS
    <3>1. Elements(todo[m]) \in SUBSET Events
      BY <1>0, ElementsTyped
    <3> QED
      BY <3>1 DEF EInv, LoopsHold
  <2>4. \A m, n \in Loops : m # n => Elements(todo'[m]) \intersect Elements(todo'[n]) = {}
    <3> SUFFICES ASSUME NEW m \in Loops, NEW n \in Loops, m # n,
                        NEW e, e \in Elements(todo'[m]), e \in Elements(todo'[n])
                 PROVE  FALSE
      OBVIOUS
    <3>1. CASE m # l /\ n # l
      BY <1>13, <3>1 DEF EInv, LoopsHold
    <3>2. CASE m = l \/ n = l
      BY <1>13, <2>2, <2>3, <3>2
    <3> QED
      BY <3>1, <3>2
  <2>5. ASSUME NEW e \in Events
        PROVE  fate'[e] = "taken" <=> \E m \in Loops : e \in Elements(todo'[m])
    <3>1. CASE e = h
      <4>1. fate'[e] # "taken"
        BY <1>6, <3>1
      <4>2. ASSUME NEW m \in Loops, e \in Elements(todo'[m]) PROVE FALSE
        <5>1. m # l
          BY <1>2, <1>13, <3>1, <4>2
        <5> QED
          BY <1>2, <1>13, <2>3, <3>1, <4>2, <5>1
      <4> QED
        BY <4>1, <4>2
    <3>2. CASE e # h /\ e \in Elements(q)
      BY <1>2, <1>8, <1>13, <3>2
    <3>3. CASE e \notin Elements(q)
      <4>1. fate'[e] = fate[e]
        BY <1>2, <1>8, <3>3
      <4>2. fate[e] = "taken" <=> \E m \in Loops : e \in Elements(todo[m])
        BY DEF EInv, LoopsHold
      <4>3. \A m \in Loops : e \in Elements(todo'[m]) <=> e \in Elements(todo[m])
        <5> SUFFICES ASSUME NEW m \in Loops
                     PROVE  e \in Elements(todo'[m]) <=> e \in Elements(todo[m])
          OBVIOUS
        <5>1. CASE m = l
          <6>1. Elements(todo[m]) = {}
            BY <1>13, <5>1, EmptySeq DEF Elements
          <6> QED
            BY <1>2, <1>13, <3>3, <5>1, <6>1
        <5>2. CASE m # l
          BY <1>13, <5>2
        <5> QED
          BY <5>1, <5>2
      <4> QED
        BY <4>1, <4>2, <4>3
    <3> QED
      BY <3>1, <3>2, <3>3
  <2> QED
    BY <2>1, <2>4, <2>5 DEF LoopsHold
<1>15. IdleHoldsNothing'
  BY <1>7, <1>13 DEF EInv, IdleHoldsNothing
<1>16. TodoInOrder'
  BY <1>10, <1>13 DEF EInv, TodoInOrder
<1>17. AwaitedIsFirst'
  <2> SUFFICES ASSUME NEW m \in Loops, loopAt'[m] = "awaiting"
               PROVE  /\ awaited'[m] \in Events
                      /\ \A i \in 1..Len(todo'[m]) : Priority[awaited'[m]] <= Priority[todo'[m][i]]
    BY DEF AwaitedIsFirst
  <2>1. CASE m = l
    BY <1>2, <1>10, <1>13, <2>1
  <2>2. CASE m # l
    BY <1>13, <2>2 DEF EInv, AwaitedIsFirst
  <2> QED
    BY <2>1, <2>2
<1> QED
  BY <1>5, <1>11, <1>12, <1>14, <1>15, <1>16, <1>17
\* A flush that only changes its place: it holds nothing before and after.
LEMMA FlushPlaceKeepsEInv ==
    ASSUME EInv, NEW f \in Loops, loopAt[f] \in {"unused", "blocked"},
           NEW x \in {"done", "blocked", "failed"}, loopAt' = [loopAt EXCEPT ![f] = x],
           UNCHANGED <<isPaused, wasPaused, bufferVars, dispatchVars, todo, runVars>>,
           awaited' = awaited \/ \E y : awaited' = [awaited EXCEPT ![f] = y]
    PROVE  EInv'
<1>1. /\ TypeOK /\ loopAt \in [Loops -> {"unused", "blocked", "awaiting", "ready", "broken",
                                         "ending", "failing", "done", "failed"}]
      /\ todo[f] = <<>> /\ DOMAIN awaited = Loops
  BY DEF EInv, TypeOK, IdleHoldsNothing, LocalsTyped
<1>2. /\ loopAt' \in [Loops -> {"unused", "blocked", "awaiting", "ready", "broken",
                                "ending", "failing", "done", "failed"}]
      /\ loopAt'[f] = x /\ \A m \in Loops : m # f => loopAt'[m] = loopAt[m]
  BY <1>1
<1>3. /\ DOMAIN awaited' = Loops
      /\ \A m \in Loops : m # f => awaited'[m] = awaited[m]
  BY <1>1
<1>4. IdleHoldsNothing'
  BY <1>1, <1>2 DEF EInv, IdleHoldsNothing
<1>5. AwaitedIsFirst'
  <2> SUFFICES ASSUME NEW m \in Loops, loopAt'[m] = "awaiting"
               PROVE  /\ awaited'[m] \in Events
                      /\ \A i \in 1..Len(todo'[m]) : Priority[awaited'[m]] <= Priority[todo'[m][i]]
    BY DEF AwaitedIsFirst
  <2>1. m # f /\ loopAt[m] = "awaiting" /\ awaited'[m] = awaited[m]
    BY <1>2, <1>3
  <2> QED
    BY <2>1 DEF EInv, AwaitedIsFirst
<1>6. BufferHolds' /\ BufferCounted'
  BY SameBuffer DEF dispatchVars
<1>7. LoopsHold' /\ TodoInOrder'
  BY SameTodo DEF dispatchVars
<1>8. FlyingIsCalled' /\ LocalsTyped'
  BY <1>3 DEF EInv, FlyingIsCalled, LocalsTyped, dispatchVars
<1>9. TypeOK'
  BY <1>1, <1>2 DEF TypeOK, bufferVars, dispatchVars, RunsTyped, runVars
<1> QED
  BY <1>4, <1>5, <1>6, <1>7, <1>8, <1>9 DEF EInv

\* A loop that takes what is buffered under the names N, with its order.
LEMMA TakingNamesKeepsEInv ==
    ASSUME EInv, NEW N \in SUBSET Names, BufferedOf(N) # <<>>,
           buffer' = deleteBucket(N), bufferedEventCount' = clearedCount(N),
           NEW l \in Loops, loopAt[l] \in {"unused", "blocked"},
           TakeAndEmitFirst(l, getQueuedEvents(BufferedOf(N))),
           isPaused' \in BOOLEAN, RunsTyped',
           wasPaused' \in [Flushers -> BOOLEAN]
    PROVE  EInv'
<1> DEFINE q == getQueuedEvents(BufferedOf(N))
<1>1. /\ buffer' \in Seq(Events) /\ bufferedEventCount' \in Nat
      /\ HasNoRepeats(buffer')
      /\ Elements(buffer') = Elements(buffer) \ Named(N)
      /\ Elements(BufferedOf(N)) = Elements(buffer) \intersect Named(N)
      /\ BufferedOf(N) \in Seq(Events) /\ HasNoRepeats(BufferedOf(N))
      /\ BufferCounted'
  BY DeletedBuffers
<1>2. q \in Seq(Events) /\ HasNoRepeats(q) /\ Elements(q) = Elements(BufferedOf(N)) /\ ByPriority(q)
  BY <1>1, QueuedInOrder
<1>3. q # <<>>
  <2>1. Len(BufferedOf(N)) \in Nat /\ Len(BufferedOf(N)) # 0
    BY <1>1, LenProperties, EmptySeq
  <2>2. BufferedOf(N)[1] \in Elements(BufferedOf(N))
    BY <2>1 DEF Elements
  <2>3. Elements(<<>>) = {}
    BY EmptySeq DEF Elements
  <2> HIDE DEF q
  <2> QED
    BY <1>2, <2>2, <2>3
<1>4. \A e \in Events : e \in Elements(buffer) <=> fate[e] = "buffered"
  BY DEF EInv, BufferHolds
<1>5. Elements(q) \in SUBSET Events
  BY <1>2, ElementsTyped
<1>6. \A e \in Elements(q) : fate[e] = "buffered"
  BY <1>1, <1>2, <1>4, <1>5
<1>7. TakeAndEmitFirst(l, q)
  OBVIOUS
<1> HIDE DEF q
<1>8. /\ fate' \in [Events -> Fates]
      /\ \A e \in Events : fate'[e] = "buffered" <=> fate[e] = "buffered" /\ e \notin Elements(q)
      /\ todo' \in [Loops -> Seq(Events)]
      /\ loopAt' \in [Loops -> {"unused", "blocked", "awaiting", "ready", "broken",
                                "ending", "failing", "done", "failed"}]
      /\ DOMAIN awaited' = Loops
      /\ subscribed' \subseteq Listeners /\ calls' \subseteq Events \X Listeners
      /\ heard' \in [Listeners -> SUBSET Events] /\ isDisposed' \in BOOLEAN
      /\ LoopsHold' /\ IdleHoldsNothing' /\ FlyingIsCalled'
      /\ TodoInOrder' /\ AwaitedIsFirst'
  BY <1>2, <1>3, <1>6, <1>7, TakingKeeps
<1>9. BufferHolds'
  <2> SUFFICES ASSUME NEW e \in Events
               PROVE  e \in Elements(buffer') <=> fate'[e] = "buffered"
    BY <1>1 DEF BufferHolds
  <2> QED
    BY <1>1, <1>2, <1>4, <1>8
<1>10. TypeOK'
  BY <1>1, <1>8 DEF TypeOK
<1>11. LocalsTyped'
  BY <1>8 DEF LocalsTyped
<1> QED
  BY <1>1, <1>8, <1>9, <1>10, <1>11 DEF EInv

\* resume takes the whole buffer, whatever names it holds.
LEMMA AllNames ==
    ASSUME EInv
    PROVE  /\ BufferedOf(Names) = buffer /\ deleteBucket(Names) = <<>>
           /\ clearedCount(Names) = 0
<1>1. buffer \in Seq(Events) /\ bufferedEventCount = Len(buffer)
  BY DEF EInv, TypeOK, BufferCounted
<1>2. Named(Names) = Events
  BY DEF Named, Names
<1>3. Keep(buffer, Events) = buffer
  BY <1>1, KeepAll
<1>4. Keep(buffer, Events \ Events) = <<>>
  BY <1>1, KeepNone
<1>5. BufferedOf(Names) = buffer /\ deleteBucket(Names) = <<>>
  BY <1>2, <1>3, <1>4 DEF BufferedOf, deleteBucket
<1> QED
  BY <1>1, <1>5, LenProperties DEF clearedCount

LEMMA ResumingKeepsEInv ==
    ASSUME EInv, NEW p \in Processors, ResumeAndProcess(p)
    PROVE  EInv'
<1>1. /\ buffer \in Seq(Events) /\ bufferedEventCount = Len(buffer)
      /\ wasPaused \in [Flushers -> BOOLEAN]
  BY DEF EInv, TypeOK, BufferCounted, LocalsTyped
<1>2. /\ isPaused' = FALSE /\ bufferedEventCount # 0 /\ loopAt[p] = "unused"
      /\ buffer' = deleteBucket(Names) /\ bufferedEventCount' = 0
      /\ TakeAndEmitFirst(p, getQueuedEvents(buffer))
      /\ wasPaused' = wasPaused
  BY DEF ResumeAndProcess, MustProcess
<1>6. RunsTyped'
  <2>1. /\ resuming \in Seq(Processors) /\ bufferProcessing \in Processors \union {None}
        /\ hidden \subseteq Processors
    BY DEF EInv, TypeOK, RunsTyped
  <2>2. /\ hidden' = hidden
        /\ bufferProcessing' \in {bufferProcessing, p} /\ resuming' \in {resuming, <<p>> \o resuming}
    BY DEF ResumeAndProcess
  <2>3. resuming' \in Seq(Processors)
    BY <2>1, <2>2, StackGrows
  <2> QED
    BY <2>1, <2>2, <2>3 DEF RunsTyped
<1>3. buffer # <<>>
  BY <1>1, <1>2, EmptySeq
<1>4. /\ BufferedOf(Names) = buffer /\ bufferedEventCount' = clearedCount(Names)
  BY <1>2, AllNames
<1>5. p \in Loops /\ Names \in SUBSET Names
  BY DEF Loops
<1> QED
  BY <1>1, <1>2, <1>3, <1>4, <1>5, <1>6, TakingNamesKeepsEInv

\* flush, once no run of processBufferedEvents is awaited.
LEMMA FlushingKeepsEInv ==
    ASSUME EInv, NEW f \in Flushers, loopAt[f] \in {"unused", "blocked"},
           FlushBuffered(f), UNCHANGED <<pauses, runVars, drainAt>>
    PROVE  EInv'
<1> DEFINE N == {FlushOf[f]}
<1>0. /\ TypeOK /\ wasPaused \in [Flushers -> BOOLEAN] /\ f \in Loops
      /\ RunsTyped'
      /\ loopAt \in [Loops -> {"unused", "blocked", "awaiting", "ready", "broken",
                               "ending", "failing", "done", "failed"}]
  BY DEF EInv, TypeOK, LocalsTyped, Loops, RunsTyped, runVars
<1>1. N \in SUBSET Names
  BY BoundsAssumption
<1>2. CASE BufferedOf(N) = <<>>
  <2>1. /\ loopAt' = [loopAt EXCEPT ![f] = "done"]
        /\ UNCHANGED <<isPaused, wasPaused, bufferVars, dispatchVars, awaited, todo>>
    BY <1>2 DEF FlushBuffered
  <2>2. todo[f] = <<>>
    BY <1>0 DEF EInv, IdleHoldsNothing
  <2> QED
    BY <1>0, <2>1, <2>2, FlushPlaceKeepsEInv
<1>3. CASE BufferedOf(N) # <<>>
  <2>1. /\ buffer' = deleteBucket(N)
        /\ bufferedEventCount' = clearedCount(N)
        /\ wasPaused' = [wasPaused EXCEPT ![f] = isPaused]
        /\ isPaused' = FALSE
        /\ TakeAndEmitFirst(f, getQueuedEvents(BufferedOf(N)))
    BY <1>3 DEF FlushBuffered
  <2>2. wasPaused' \in [Flushers -> BOOLEAN] /\ isPaused' \in BOOLEAN
    BY <1>0, <2>1 DEF TypeOK
  <2> QED
    BY <1>0, <1>1, <1>3, <2>1, <2>2, TakingNamesKeepsEInv
<1> QED
  BY <1>2, <1>3

LEMMA FlushesKeepEInv ==
    ASSUME EInv, NEW f \in Flushers, flush(f) \/ FlushResumes(f)
    PROVE  EInv'
<1>0. f \in Loops /\ loopAt[f] \in {"unused", "blocked"}
      /\ UNCHANGED <<pauses, runVars, drainAt>>
  BY DEF flush, FlushResumes, Loops
<1>1. CASE FlushBuffered(f)
  BY <1>0, <1>1, FlushingKeepsEInv
<1>2. CASE ~FlushBuffered(f)
  <2>1. /\ \E x \in {"done", "blocked", "failed"} : loopAt' = [loopAt EXCEPT ![f] = x]
        /\ UNCHANGED <<isPaused, wasPaused, bufferVars, dispatchVars, todo>>
        /\ awaited' = awaited \/ \E y : awaited' = [awaited EXCEPT ![f] = y]
    BY <1>2 DEF flush, FlushResumes
  <2> QED
    BY <1>0, <2>1, FlushPlaceKeepsEInv
<1> QED
  BY <1>1, <1>2

\* The next event of a loop is emitted, or, on an emitter that was paused
\* meanwhile, buffered again.
LEMMA EmittingNextKeepsEInv ==
    ASSUME EInv, NEW l \in Loops, LoopEmitsNext(l)
    PROVE  EInv'
<1> DEFINE q == todo[l]
           h == Head(q)
           t == Tail(q)
<1>0. /\ TypeOK /\ fate \in [Events -> Fates] /\ todo \in [Loops -> Seq(Events)]
      /\ loopAt \in [Loops -> {"unused", "blocked", "awaiting", "ready", "broken",
                               "ending", "failing", "done", "failed"}]
      /\ DOMAIN awaited = Loops
      /\ q \in Seq(Events) /\ q # <<>> /\ HasNoRepeats(q) /\ ByPriority(q)
  BY DEF EInv, TypeOK, LocalsTyped, LoopsHold, TodoInOrder, LoopEmitsNext
<1>1. /\ h \in Events /\ t \in Seq(Events) /\ HasNoRepeats(t)
      /\ Elements(t) = Elements(q) \ {h} /\ h \in Elements(q)
      /\ \A i \in 1..Len(t) : i + 1 \in 1..Len(q) /\ t[i] = q[i + 1]
  BY <1>0, TailElements
<1>2. /\ \/ isPaused /\ Enqueue(h, "overflow")
         \/ ~isPaused /\ Dispatch(h, fate) /\ UNCHANGED bufferVars
      /\ awaited' = [awaited EXCEPT ![l] = h]
      /\ todo' = [todo EXCEPT ![l] = t]
      /\ UNCHANGED <<pauseVars, runVars, wasPaused, drainAt>>
  BY DEF LoopEmitsNext
<1>3. PICK x \in {"awaiting", "broken", "ready"} : loopAt' = [loopAt EXCEPT ![l] = x]
  <2> DEFINE x == IF fate'[h] = "flying" THEN "awaiting"
                  ELSE IF fate'[h] = "overflow" THEN "broken" ELSE "ready"
  <2>1. loopAt' = [loopAt EXCEPT ![l] = x] /\ x \in {"awaiting", "broken", "ready"}
    BY DEF LoopEmitsNext
  <2> QED
    BY <2>1
<1>4. fate[h] = "taken"
  BY <1>1 DEF EInv, LoopsHold
<1>5. ByPriority(t) /\ \A i \in 1..Len(t) : Priority[h] <= Priority[t[i]]
  BY <1>0, TailInOrder
<1> HIDE DEF q, h, t
<1>6. /\ fate' = [fate EXCEPT ![h] = fate'[h]] /\ fate' \in [Events -> Fates]
      /\ fate'[h] \in {"buffered", "overflow", "unheard", "flying"}
      /\ buffer' \in Seq(Events) /\ bufferedEventCount' \in Nat
      /\ subscribed' \subseteq Listeners /\ calls' \subseteq Events \X Listeners
      /\ heard' \in [Listeners -> SUBSET Events] /\ isDisposed' \in BOOLEAN
      /\ BufferHolds' /\ BufferCounted' /\ FlyingIsCalled'
  <2>1. CASE Enqueue(h, "overflow")
    <3>1. fate[h] \notin {"buffered", "flying"}
      BY <1>4
    <3>2. /\ BufferHolds' /\ BufferCounted' /\ FlyingIsCalled'
          /\ buffer' \in Seq(Events) /\ bufferedEventCount' \in Nat
          /\ fate' = [fate EXCEPT ![h] = fate'[h]]
          /\ fate'[h] \in {"buffered", "overflow"}
          /\ fate' \in [Events -> Fates]
          /\ isDisposed' \in BOOLEAN /\ UNCHANGED <<subscribed, calls, heard>>
      BY <1>1, <2>1, <3>1, EnqueueKeeps
    <3>3. /\ subscribed' \subseteq Listeners /\ calls' \subseteq Events \X Listeners
          /\ heard' \in [Listeners -> SUBSET Events]
      BY <1>0, <3>2 DEF TypeOK
    <3>4. fate'[h] \in {"buffered", "overflow", "unheard", "flying"}
      BY <3>2
    <3> QED
      BY <3>2, <3>3, <3>4
  <2>2. CASE Dispatch(h, fate) /\ UNCHANGED bufferVars
    <3>1. /\ fate' = [fate EXCEPT ![h] = fate'[h]]
          /\ fate' \in [Events -> Fates]
          /\ fate'[h] = IF snapshotListeners(h) = {} THEN "unheard" ELSE "flying"
          /\ subscribed' \subseteq Listeners /\ calls' \subseteq Events \X Listeners
          /\ heard' \in [Listeners -> SUBSET Events] /\ isDisposed' \in BOOLEAN
          /\ FlyingIsCalled'
      BY <1>0, <1>1, <2>2, DispatchFlies
    <3>2. fate'[h] \in {"unheard", "flying"}
      BY <3>1
    <3>3. \A e \in Events : fate'[e] = "buffered" <=> fate[e] = "buffered"
      BY <1>0, <1>4, <3>1, <3>2
    <3>4. BufferHolds' /\ BufferCounted'
      BY <2>2, <3>3, SameBuffer
    <3>5. buffer' \in Seq(Events) /\ bufferedEventCount' \in Nat
      BY <1>0, <2>2 DEF TypeOK, bufferVars
    <3>6. fate'[h] \in {"buffered", "overflow", "unheard", "flying"}
      BY <3>2
    <3> QED
      BY <3>1, <3>4, <3>5, <3>6
  <2> QED
    BY <1>2, <2>1, <2>2
<1>7. /\ todo' \in [Loops -> Seq(Events)] /\ DOMAIN awaited' = Loops
      /\ loopAt' \in [Loops -> {"unused", "blocked", "awaiting", "ready", "broken",
                                "ending", "failing", "done", "failed"}]
      /\ wasPaused' \in [Flushers -> BOOLEAN]
  BY <1>0, <1>1, <1>2, <1>3 DEF EInv, LocalsTyped
<1>8. /\ todo[l] = q /\ todo'[l] = t /\ loopAt'[l] = x /\ awaited'[l] = h
      /\ \A m \in Loops : m # l => /\ todo'[m] = todo[m] /\ loopAt'[m] = loopAt[m]
                                   /\ awaited'[m] = awaited[m]
  BY <1>0, <1>2, <1>3 DEF q
<1>9. LoopsHold'
  <2>1. \A m \in Loops : HasNoRepeats(todo'[m])
    BY <1>1, <1>8 DEF EInv, LoopsHold
  <2>2. \A m \in Loops : Elements(todo'[m]) = IF m = l THEN Elements(q) \ {h} ELSE Elements(todo[m])
    BY <1>1, <1>8
  <2>3. \A m, n \in Loops : m # n => Elements(todo[m]) \intersect Elements(todo[n]) = {}
    BY DEF EInv, LoopsHold
  <2>4. \A m, n \in Loops : m # n => Elements(todo'[m]) \intersect Elements(todo'[n]) = {}
    BY <1>8, <2>2, <2>3
  <2>5. ASSUME NEW e \in Events
        PROVE  fate'[e] = "taken" <=> \E m \in Loops : e \in Elements(todo'[m])
    <3>1. CASE e = h
      <4>1. fate'[e] # "taken"
        BY <1>6, <3>1
      <4>2. \A m \in Loops : e \notin Elements(todo'[m])
        BY <1>1, <1>8, <2>2, <2>3, <3>1
      <4> QED
        BY <4>1, <4>2
    <3>2. CASE e # h
      <4>1. fate'[e] = fate[e]
        BY <1>6, <3>2
      <4>2. \A m \in Loops : e \in Elements(todo'[m]) <=> e \in Elements(todo[m])
        BY <1>8, <2>2, <3>2
      <4>3. fate[e] = "taken" <=> \E m \in Loops : e \in Elements(todo[m])
        BY DEF EInv, LoopsHold
      <4> QED
        BY <4>1, <4>2, <4>3
    <3> QED
      BY <3>1, <3>2
  <2> QED
    BY <2>1, <2>4, <2>5 DEF LoopsHold
<1>10. IdleHoldsNothing'
  BY <1>3, <1>8 DEF EInv, IdleHoldsNothing
<1>11. TodoInOrder'
  BY <1>5, <1>8 DEF EInv, TodoInOrder, q, h, t
<1>12. AwaitedIsFirst'
  <2> SUFFICES ASSUME NEW m \in Loops, loopAt'[m] = "awaiting"
               PROVE  /\ awaited'[m] \in Events
                      /\ \A i \in 1..Len(todo'[m]) : Priority[awaited'[m]] <= Priority[todo'[m][i]]
    BY DEF AwaitedIsFirst
  <2>1. CASE m = l
    BY <1>1, <1>5, <1>8, <2>1
  <2>2. CASE m # l
    BY <1>8, <2>2 DEF EInv, AwaitedIsFirst
  <2> QED
    BY <2>1, <2>2
<1>13. TypeOK'
  BY <1>0, <1>2, <1>6, <1>7 DEF TypeOK, pauseVars, RunsTyped, runVars
<1>14. LocalsTyped'
  BY <1>7 DEF LocalsTyped
<1> QED
  BY <1>6, <1>9, <1>10, <1>11, <1>12, <1>13, <1>14 DEF EInv

LEMMA InitEInv == Init => EInv
<1> SUFFICES ASSUME Init PROVE EInv
  OBVIOUS
<1>1. Elements(<<>>) = {} /\ HasNoRepeats(<<>>) /\ Len(<<>>) = 0 /\ ByPriority(<<>>)
      /\ <<>> \in Seq(Events)
  BY EmptySeq DEF Elements, HasNoRepeats, ByPriority
<1>2. TypeOK /\ LocalsTyped
  <2>1. RunsTyped
    BY EmptySeq DEF Init, RunsTyped
  <2> QED
    BY <1>1, <2>1 DEF Init, TypeOK, LocalsTyped, Fates
<1>3. BufferHolds /\ FlyingIsCalled
  BY <1>1 DEF Init, BufferHolds, FlyingIsCalled
<1>4. BufferCounted
  <2>1. Cardinality({}) <= BufferSize
    <3>1. Cardinality({}) = 0 /\ BufferSize \in Nat
      BY FS_EmptySet, BoundsAssumption
    <3> QED
      BY <3>1
  <2>2. ASSUME NEW n \in Names
        PROVE  Cardinality(Elements(buffer) \intersect Named({n})) <= BufferSize
    <3>1. Elements(buffer) \intersect Named({n}) = {}
      BY <1>1 DEF Init
    <3>2. Cardinality(Elements(buffer) \intersect Named({n})) = Cardinality({})
      BY <3>1, Zenon
    <3> QED
      BY <2>1, <3>2
  <2> QED
    BY <1>1, <2>2 DEF Init, BufferCounted
<1>5. LoopsHold /\ IdleHoldsNothing /\ TodoInOrder /\ AwaitedIsFirst
  <2>1. \A l \in Loops : todo[l] = <<>> /\ loopAt[l] = "unused"
    BY DEF Init
  <2>2. \A e \in Events : fate[e] # "taken"
    BY DEF Init
  <2>3. LoopsHold
    BY <1>1, <2>1, <2>2 DEF LoopsHold
  <2> QED
    BY <1>1, <2>1, <2>3 DEF IdleHoldsNothing, TodoInOrder, AwaitedIsFirst
<1> QED
  BY <1>2, <1>3, <1>4, <1>5 DEF EInv

\* Every step keeps the account of the events.
LEMMA NextEInv == EInv /\ [Next]_vars => EInv'
<1> SUFFICES ASSUME EInv, [Next]_vars PROVE EInv'
  OBVIOUS
<1>1. CASE \/ \E l \in Listeners : on(l)
           \/ \E S \in SUBSET subscribed : off(S)
           \/ pause \/ resume \/ ResumeReturns
           \/ \E d \in Drainers : drain(d) \/ DrainGoesOn(d)
           \/ UNCHANGED vars
  BY <1>1, QuietActionsKeepEInv
<1>2. CASE \E e \in Events : emit(e) \/ emitSync(e)
  BY <1>2, EmitKeepsEInv
<1>3. CASE \E p \in Processors : ResumeAndProcess(p)
  BY <1>3, ResumingKeepsEInv
<1>4. CASE \E f \in Flushers : flush(f) \/ FlushResumes(f)
  BY <1>4, FlushesKeepEInv
<1>5. CASE \E l \in Loops : LoopEmitsNext(l)
  BY <1>5, EmittingNextKeepsEInv
<1>6. CASE (\E l \in Loops : LoopEnds(l)) \/ \E p \in Processors : ProcessingSettles(p)
  BY <1>6, EndingKeepsEInv
<1>7. CASE \E l \in Loops : LoopBreaks(l)
  BY <1>7, BreakingKeepsEInv
<1>8. CASE \E e \in Events, k \in Listeners : CallReturns(e, k) \/ CallThrows(e, k)
  BY <1>8, CallsKeepEInv
<1>9. CASE (\E n \in Names : clearBuffer({n})) \/ clearBuffer(Names)
  <2>1. PICK N \in SUBSET Names : clearBuffer(N)
    BY <1>9
  <2> QED
    BY <2>1, ClearKeepsEInv
<1>10. CASE dispose
  BY <1>10, DisposeKeepsEInv
<1> QED
  BY <1>1, <1>2, <1>3, <1>4, <1>5, <1>6, <1>7, <1>8, <1>9, <1>10 DEF Next

\* Whoever lets drain() return finds no call of a listener, no run on the stack and
\* none in bufferProcessing: what is left to be emitted is held by hidden runs.
DrainHearsOf(d) ==
    drainAt[d] # "returned" /\ drainAt'[d] = "returned"
        => /\ \A e \in Events : fate[e] # "flying"
           /\ \A p \in Processors \ hidden : todo[p] = <<>>

LEMMA DrainWaits ==
    ASSUME EInv, RunInv, NEW d \in Drainers, StackIsEmpty, DrainIsOver
    PROVE  /\ \A e \in Events : fate[e] # "flying"
           /\ \A p \in Processors \ hidden : todo[p] = <<>>
<1>1. \A e \in Events : fate[e] # "flying"
  BY DEF DrainIsOver, EInv, FlyingIsCalled
<1>2. ASSUME NEW p \in Processors \ hidden PROVE todo[p] = <<>>
  <2>1. Elements(resuming) = {} /\ bufferProcessing = None
    BY EmptySeq DEF Elements, DrainIsOver, StackIsEmpty
  <2>2. loopAt[p] \notin {"awaiting", "ready", "broken"}
    BY <2>1, BoundsAssumption DEF RunInv, OneProcessor
  <2> QED
    BY <2>2 DEF EInv, IdleHoldsNothing, Loops
<1> QED
  BY <1>1, <1>2

\* A round of drain that goes on returns to its caller in no case.
LEMMA RoundGoesOn == EInv => DrainRound # "returned"
BY BoundsAssumption DEF EInv, TypeOK, RunsTyped, DrainRound

\* Only a step of drain itself lets it return.
LEMMA StepHearsOf ==
    ASSUME MayDispose = FALSE, EInv, RunInv, [Next]_vars, NEW d \in Drainers
    PROVE  DrainHearsOf(d)
<1> SUFFICES ASSUME drainAt[d] # "returned", drainAt'[d] = "returned"
             PROVE  /\ \A e \in Events : fate[e] # "flying"
                    /\ \A p \in Processors \ hidden : todo[p] = <<>>
  BY DEF DrainHearsOf
<1>1. DrainRound # "returned"
  BY RoundGoesOn
<1>2. drainAt' # drainAt /\ drainAt' # WakeDrainers
  <2>1. WakeDrainers[d] # "returned"
    BY DEF WakeDrainers
  <2> QED
    BY <2>1
<1>3. CASE \E c \in Drainers : drain(c)
  <2>1. PICK c \in Drainers : drainAt' = [drainAt EXCEPT ![c] = DrainRound]
    BY <1>3 DEF drain
  <2> QED
    BY <1>1, <2>1
<1>4. CASE \E c \in Drainers : DrainGoesOn(c)
  <2>1. PICK c \in Drainers : DrainGoesOn(c)
    BY <1>4
  <2>2. CASE DrainIsOver
    BY <2>1, <2>2, DrainWaits DEF DrainGoesOn
  <2>3. CASE ~DrainIsOver
    <3>1. PICK x \in {"rejected", DrainRound} : drainAt' = [drainAt EXCEPT ![c] = x]
      BY <2>1, <2>3 DEF DrainGoesOn
    <3> QED
      BY <1>1, <3>1
  <2> QED
    BY <2>2, <2>3
<1>5. CASE \E e \in Events, l \in Listeners : CallReturns(e, l) \/ CallThrows(e, l)
  BY <1>2, <1>5 DEF CallReturns, CallThrows, CallSettles
<1>6. CASE \/ \E l \in Listeners : on(l)
           \/ \E S \in SUBSET subscribed : off(S)
           \/ \E e \in Events : emit(e) \/ emitSync(e)
           \/ pause \/ resume \/ ResumeReturns
  BY <1>2, <1>6 DEF on, off, emit, emitSync, pause, resume, ResumeReturns
<1>7. CASE \/ \E p \in Processors : ResumeAndProcess(p) \/ ProcessingSettles(p)
           \/ \E f \in Flushers : flush(f) \/ FlushResumes(f)
           \/ \E l \in Loops : LoopEmitsNext(l) \/ LoopEnds(l) \/ LoopBreaks(l)
  BY <1>2, <1>7 DEF ResumeAndProcess, ProcessingSettles, flush, FlushResumes,
                    LoopEmitsNext, LoopEnds, LoopBreaks
<1>8. CASE (\E n \in Names : clearBuffer({n})) \/ clearBuffer(Names) \/ UNCHANGED vars
  BY <1>2, <1>8 DEF clearBuffer, vars
<1>9. ~dispose
  BY DEF dispose
<1> QED
  BY <1>3, <1>4, <1>5, <1>6, <1>7, <1>8, <1>9 DEF Next

\* However emits, pauses, loops, clears and disposals interleave, no event is
\* in two places or emitted twice, the buffer is counted and bounded, and every
\* loop emits in the order of the priorities (enqueueBufferedEvent,
\* processBufferedEvents, flush, clearBuffer, dispose).
THEOREM EventsStayAccounted == Spec => []EventsAccounted
<1>1. Init => EInv
  BY InitEInv
<1>2. EInv /\ [Next]_vars => EInv'
  BY NextEInv
<1>3. EInv => EventsAccounted
  BY EInvImplies
<1> QED
  BY <1>1, <1>2, <1>3, PTL DEF Spec

\* On an emitter that is not disposed drain() returns when no listener is running and
\* no run but a hidden one still has an event to emit, for any number of emits, pauses,
\* resumes, flushes and other drains between its rounds.
THEOREM DrainWaitsForAll == MayDispose = FALSE => (Spec => DrainCompletes)
<1> SUFFICES ASSUME MayDispose = FALSE PROVE Spec => DrainCompletes
  OBVIOUS
<1> DEFINE I == EInv /\ RunInv
           A == \A d \in Drainers : DrainHearsOf(d)
<1>1. Init => I
  BY InitEInv, InitRunInv
<1>2. I /\ [Next]_vars => I'
  BY NextEInv, NextRunInv
<1>3. I /\ [Next]_vars => [A]_vars
  BY StepHearsOf
<1>4. Spec => [][A]_vars
  BY <1>1, <1>2, <1>3, PTL DEF Spec
<1> QED
  BY <1>4 DEF DrainCompletes, DrainHearsOf
=============================================================================
