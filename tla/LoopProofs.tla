----------------------------- MODULE LoopProofs -----------------------------
(***************************************************************************)
(* What is proved about the game loop, the audio system and the input      *)
(* system: that the loop and its list of systems stay in agreement, that   *)
(* no system runs once it is out of the registry; that sources, voices and *)
(* the clip store agree through every order of plays, removals, ended      *)
(* events and decodings; that contexts, users, gamepads and rebinding      *)
(* sessions agree, and that an action taps only when its controls were let *)
(* go.  Each part has its inductive invariant first, then what its         *)
(* operations keep, then its theorems.                                     *)
(***************************************************************************)
EXTENDS GameLoop, AudioSystem, InputSystem, SubsequenceProofs, FiniteSetTheorems,
        SequenceTheorems, TLAPS

-----------------------------------------------------------------------------
(***************************************************************************)
(* The list of systems.  Before is a strict order of the registered        *)
(* systems, so that the numbers of those before each are 0..n-1.           *)
(***************************************************************************)

LEMMA BeforeIsOrder ==
    ASSUME LoopAssumption, NEW ss \in Seq(Systems), HasNoRepeats(ss)
    PROVE  /\ \A s \in Elements(ss) : ~Before(ss, s, s)
           /\ \A s, t \in Elements(ss) : s = t \/ Before(ss, s, t) \/ Before(ss, t, s)
           /\ \A s, t, u \in Elements(ss) :
                 Before(ss, s, t) /\ Before(ss, t, u) => Before(ss, s, u)
<1>1. Len(ss) \in Nat /\ \A i \in 1..Len(ss) : ss[i] \in Systems
  BY LenProperties
<1>2. \A s \in Elements(ss) : s \in Systems /\ Priority(s) \in Int
                              /\ \E i \in 1..Len(ss) : ss[i] = s
  BY <1>1 DEF Elements, LoopAssumption
<1>3. \A i, j \in 1..Len(ss) : ss[i] = ss[j] => i = j
  BY DEF HasNoRepeats
<1>4. \A s \in Elements(ss) : ~Before(ss, s, s)
  <2> TAKE s \in Elements(ss)
  <2>1. ~(Priority(s) > Priority(s))
    BY <1>2
  <2>2. ASSUME NEW i \in 1..Len(ss), NEW j \in 1..Len(ss), i < j, ss[i] = s, ss[j] = s
        PROVE  FALSE
    BY <2>2, <1>1, <1>3
  <2> QED
    BY <2>1, <2>2 DEF Before
<1>5. \A s, t \in Elements(ss) : s = t \/ Before(ss, s, t) \/ Before(ss, t, s)
  <2> TAKE s, t \in Elements(ss)
  <2>1. PICK i \in 1..Len(ss) : ss[i] = s
    BY <1>2
  <2>2. PICK j \in 1..Len(ss) : ss[j] = t
    BY <1>2
  <2>3. i < j \/ j < i \/ i = j
    BY <1>1
  <2>4. Priority(s) > Priority(t) \/ Priority(t) > Priority(s) \/ Priority(s) = Priority(t)
    BY <1>2
  <2> QED
    BY <2>1, <2>2, <2>3, <2>4 DEF Before
<1>6. ASSUME NEW s \in Elements(ss), NEW t \in Elements(ss), NEW u \in Elements(ss),
             Before(ss, s, t), Before(ss, t, u)
      PROVE  Before(ss, s, u)
  <2>1. /\ Priority(s) \in Int /\ Priority(t) \in Int /\ Priority(u) \in Int
    BY <1>2
  <2>2. CASE Priority(s) > Priority(t) \/ Priority(t) > Priority(u)
    <3>1. Priority(s) >= Priority(t) /\ Priority(t) >= Priority(u)
      BY <1>6, <2>1 DEF Before
    <3>2. Priority(s) > Priority(u)
      BY <2>1, <2>2, <3>1
    <3> QED
      BY <3>2 DEF Before
  <2>3. CASE ~(Priority(s) > Priority(t)) /\ ~(Priority(t) > Priority(u))
    <3>1. Priority(s) = Priority(t) /\ Priority(t) = Priority(u)
      BY <1>6, <2>3 DEF Before
    <3>2. PICK i, j \in 1..Len(ss) : i < j /\ ss[i] = s /\ ss[j] = t
      BY <1>6, <2>3 DEF Before
    <3>3. PICK k, l \in 1..Len(ss) : k < l /\ ss[k] = t /\ ss[l] = u
      BY <1>6, <2>3 DEF Before
    <3>4. i < l
      BY <1>1, <1>3, <3>2, <3>3
    <3> QED
      BY <3>1, <3>2, <3>3, <3>4 DEF Before
  <2> QED
    BY <2>2, <2>3
<1> QED
  BY <1>4, <1>5, <1>6

LEMMA EarlierGrows ==
    ASSUME LoopAssumption, NEW ss \in Seq(Systems), HasNoRepeats(ss)
    PROVE  /\ \A s \in Elements(ss) : Cardinality(Earlier(ss, s)) \in 0..(Len(ss) - 1)
           /\ \A s, t \in Elements(ss) : Before(ss, s, t) =>
                 Cardinality(Earlier(ss, s)) < Cardinality(Earlier(ss, t))
<1> DEFINE S == Elements(ss)
<1>1. IsFiniteSet(S) /\ Cardinality(S) = Len(ss) /\ Len(ss) \in Nat
  BY LengthWithoutRepeats, LenProperties
<1>2. \A s \in S : Earlier(ss, s) \subseteq S /\ s \notin Earlier(ss, s)
  BY BeforeIsOrder DEF Earlier
<1>3. \A s \in S : IsFiniteSet(Earlier(ss, s)) /\ Cardinality(Earlier(ss, s)) \in Nat
  <2> HIDE DEF S
  <2> QED
    BY <1>1, <1>2, FS_Subset, FS_CardinalityType
<1>4. ASSUME NEW s \in S PROVE Cardinality(Earlier(ss, s)) < Len(ss)
  <2>1. Earlier(ss, s) \in SUBSET S /\ Earlier(ss, s) # S
    BY <1>2
  <2> HIDE DEF S
  <2>2. Cardinality(Earlier(ss, s)) <= Len(ss) /\ Cardinality(Earlier(ss, s)) # Len(ss)
    BY <1>1, <2>1, FS_Subset
  <2> QED
    BY <1>1, <1>3, <2>2
<1>5. ASSUME NEW s \in S, NEW t \in S, Before(ss, s, t)
      PROVE  Cardinality(Earlier(ss, s)) < Cardinality(Earlier(ss, t))
  <2>1. Earlier(ss, s) \subseteq Earlier(ss, t)
    BY <1>5, BeforeIsOrder DEF Earlier
  <2>2. s \in Earlier(ss, t) /\ s \notin Earlier(ss, s)
    BY <1>5, <1>2 DEF Earlier
  <2> DEFINE E == Earlier(ss, s)
             F == Earlier(ss, t)
  <2>3. E \in SUBSET F /\ E # F
    BY <2>1, <2>2
  <2>4. IsFiniteSet(F) /\ Cardinality(E) \in Nat /\ Cardinality(F) \in Nat
    BY <1>3
  <2> HIDE DEF E, F
  <2>5. Cardinality(E) <= Cardinality(F) /\ Cardinality(E) # Cardinality(F)
    BY <2>3, <2>4, FS_Subset
  <2>6. Cardinality(E) < Cardinality(F)
    BY <2>4, <2>5
  <2> QED
    BY <2>6 DEF E, F
<1>6. \A s \in S : Cardinality(Earlier(ss, s)) \in 0..(Len(ss) - 1)
  <2> TAKE s \in S
  <2> DEFINE c == Cardinality(Earlier(ss, s))
  <2>1. c \in Nat /\ c < Len(ss)
    BY <1>3, <1>4
  <2> HIDE DEF c
  <2>2. c \in 0..(Len(ss) - 1)
    BY <1>1, <2>1
  <2> QED
    BY <2>2 DEF c
<1> QED
  BY <1>5, <1>6

\* _getSortedSystems answers the registered systems, each once, by priority and then
\* in the order of registration.
LEMMA SortsSystems ==
    ASSUME LoopAssumption, NEW ss \in Seq(Systems), HasNoRepeats(ss)
    PROVE  /\ byPriority(ss) \in Seq(Systems)
           /\ Len(byPriority(ss)) = Len(ss)
           /\ Elements(byPriority(ss)) = Elements(ss)
           /\ \A i, j \in 1..Len(ss) : i < j => Before(ss, byPriority(ss)[i], byPriority(ss)[j])
<1> DEFINE S == Elements(ss)
           n == Len(ss)
           c(s) == Cardinality(Earlier(ss, s))
           rank == [s \in S |-> c(s) + 1]
           b == byPriority(ss)
<1>1. IsFiniteSet(S) /\ Cardinality(S) = n /\ n \in Nat /\ S \subseteq Systems
  BY LengthWithoutRepeats, LenProperties, ElementsTyped
<1>2. /\ \A s \in S : c(s) \in 0..(n - 1)
      /\ \A s, t \in S : Before(ss, s, t) => c(s) < c(t)
  BY EarlierGrows
<1>3. \A s, t \in S : s = t \/ Before(ss, s, t) \/ Before(ss, t, s)
  BY BeforeIsOrder
<1> HIDE DEF c
<1>4. \A s, t \in S : /\ c(s) = c(t) => s = t
                      /\ c(s) < c(t) => Before(ss, s, t)
  <2> TAKE s \in S, t \in S
  <2>1. c(s) \in Int /\ c(t) \in Int
    BY <1>1, <1>2
  <2>2. Before(ss, s, t) => c(s) < c(t)
    BY <1>2
  <2>3. Before(ss, t, s) => c(t) < c(s)
    BY <1>2
  <2>4. s = t \/ Before(ss, s, t) \/ Before(ss, t, s)
    BY <1>3
  <2> QED
    BY <2>1, <2>2, <2>3, <2>4
<1>5. rank \in Injection(S, 1..n)
  <2>1. rank \in [S -> 1..n]
    BY <1>1, <1>2
  <2>2. ASSUME NEW s \in S, NEW t \in S, rank[s] = rank[t] PROVE s = t
    <3>1. c(s) + 1 = c(t) + 1 /\ c(s) \in Int /\ c(t) \in Int
      BY <1>1, <1>2, <2>2
    <3> QED
      BY <3>1, <1>4
  <2> HIDE DEF rank, S
  <2> QED
    BY <2>1, <2>2 DEF Injection, IsInjective
<1>6. IsFiniteSet(1..n) /\ Cardinality(1..n) = n
  <2> HIDE DEF n, S
  <2> QED
    BY <1>1, FS_Interval
<1>7. rank \in Surjection(S, 1..n)
  <2> HIDE DEF rank, S, n
  <2> QED
    BY <1>1, <1>5, <1>6, FS_Injection
<1>8. \A k \in 1..n : \E s \in S : c(s) = k - 1
  <2>1. \A k \in 1..n : \E s \in S : rank[s] = k
    <3> HIDE DEF rank, S, n
    <3> QED
      BY <1>7 DEF Surjection
  <2> TAKE k \in 1..n
  <2>2. PICK s \in S : rank[s] = k
    BY <2>1
  <2>3. c(s) + 1 = k /\ c(s) \in Int /\ k \in Int
    BY <1>1, <1>2, <2>2
  <2> QED
    BY <2>3
<1>9. b = [k \in 1..n |-> CHOOSE s \in S : c(s) = k - 1]
  BY DEF byPriority, c
<1> HIDE DEF S, n, b
<1>10. \A k \in 1..n : b[k] \in S /\ c(b[k]) = k - 1
  BY <1>8, <1>9
<1>11. \A k \in 1..n : (CHOOSE s \in S : c(s) = k - 1) \in Systems
  BY <1>1, <1>8
<1>12. b \in Seq(Systems) /\ Len(b) = n
  <2> DEFINE f(k) == CHOOSE s \in S : c(s) = k - 1
  <2>1. \A k \in 1..n : f(k) \in Systems
    BY <1>11
  <2> HIDE DEF f
  <2>2. [k \in 1..n |-> f(k)] \in Seq(Systems)
    BY <1>1, <2>1, IsASeq
  <2>3. Len([k \in 1..n |-> f(k)]) = n
    BY <1>1
  <2> QED
    BY <1>9, <2>2, <2>3 DEF f
<1>13. Elements(b) = S
  <2>1. Elements(b) \subseteq S
    BY <1>10, <1>12 DEF Elements
  <2>2. ASSUME NEW s \in S PROVE s \in Elements(b)
    <3>1. c(s) \in 0..(n - 1)
      BY <1>2
    <3>2. c(s) + 1 \in 1..n /\ (c(s) + 1) - 1 = c(s)
      BY <3>1, <1>1
    <3>3. b[c(s) + 1] \in S /\ c(b[c(s) + 1]) = c(s)
      BY <1>10, <3>2
    <3>4. b[c(s) + 1] = s
      BY <3>3, <1>4
    <3> QED
      BY <3>2, <3>4, <1>12 DEF Elements
  <2> QED
    BY <2>1, <2>2
<1>14. ASSUME NEW i \in 1..n, NEW j \in 1..n, i < j PROVE Before(ss, b[i], b[j])
  <2>1. b[i] \in S /\ b[j] \in S /\ c(b[i]) = i - 1 /\ c(b[j]) = j - 1
    BY <1>10
  <2>2. i - 1 < j - 1
    BY <1>1, <1>14
  <2> QED
    BY <2>1, <2>2, <1>4
<1> QED
  BY <1>12, <1>13, <1>14 DEF S, n, b

-----------------------------------------------------------------------------
(***************************************************************************)
(* What holds in every state.  SystemsHold is about the runner of systems, *)
(* FlowHolds about status, requests and time, FrameTyped about the frame   *)
(* under way.                                                              *)
(***************************************************************************)

SystemsHold ==
    /\ registered \in Seq(Systems) /\ sorted \in Seq(Systems) /\ retired \in SUBSET Systems
    /\ dirty \in BOOLEAN
    /\ HasNoRepeats(registered)
    /\ \A s \in Elements(registered) : s \notin retired
    /\ ListIsCurrent

FlowTyped ==
    /\ status \in {"idle", "running", "paused", "stopped", "disposed"}
    /\ accumulator \in Nat /\ elapsed \in Nat /\ ticking \in BOOLEAN /\ disposed \in BOOLEAN
    /\ scheduled \in Requests \cup {0} /\ requests \subseteq Requests
    /\ refused \in BOOLEAN /\ revived \in BOOLEAN /\ disposing \in Nat
    /\ spent \in [fixed : Nat, dropped : Nat, forgotten : Nat]

FlowHolds ==
    /\ FlowTyped
    /\ requests = {scheduled} \ {0}
    /\ frame.phase = "none" /\ disposing = 0 /\ status = "running" => scheduled # 0 \/ refused
    /\ status \in {"idle", "paused"} => scheduled = 0
    /\ status = "disposed" \/ disposing # 0 => scheduled = 0 \/ revived
    /\ TimeIsAccounted

FrameTyped ==
    frame \in [phase : Phases \cup {"none"}, todo : Seq(Systems), hook : SUBSET Systems,
               attempt : Nat, steps : Nat]

LoopInv == SystemsHold /\ FlowHolds /\ FrameTyped

LEMMA SystemsStay ==
    ASSUME SystemsHold, UNCHANGED systemVars
    PROVE  SystemsHold'
BY DEF SystemsHold, systemVars, ListIsCurrent

LEMMA EntersPhase ==
    ASSUME LoopAssumption, SystemsHold, FrameTyped,
           NEW p \in Phases, NEW n \in Nat, enter(p, n)
    PROVE  /\ SystemsHold' /\ FrameTyped'
           /\ frame'.phase = p
<1>1. PICK b : b = byPriority(registered)
  OBVIOUS
<1>2. /\ b \in Seq(Systems) /\ Len(b) = Len(registered)
      /\ Elements(b) = Elements(registered)
      /\ \A i, j \in 1..Len(registered) : i < j => Before(registered, b[i], b[j])
  BY <1>1, SortsSystems DEF SystemsHold
<1>3. sorted' = (IF dirty THEN b ELSE sorted) /\ registered' = registered /\ retired' = retired
      /\ dirty' = FALSE
  BY <1>1 DEF enter, sortedSystems
<1>4. sorted' \in Seq(Systems)
  BY <1>2, <1>3 DEF SystemsHold
<1>5. /\ Elements(sorted') = Elements(registered') /\ Len(sorted') = Len(registered')
      /\ \A i, j \in 1..Len(sorted') : i < j => Before(registered', sorted'[i], sorted'[j])
  BY <1>2, <1>3 DEF SystemsHold, ListIsCurrent
<1>6. ListIsCurrent'
  BY <1>5 DEF ListIsCurrent, Elements, Before
<1>7. HasNoRepeats(registered)' /\ \A s \in Elements(registered') : s \notin retired'
  BY <1>3 DEF SystemsHold, HasNoRepeats
<1>8. SystemsHold'
  BY <1>3, <1>4, <1>6, <1>7 DEF SystemsHold, HasNoRepeats, Elements
<1>9. frame' = [phase |-> p, todo |-> sorted', hook |-> {}, attempt |-> 0, steps |-> n]
  BY DEF enter, noFrame
<1>10. p \in Phases \cup {"none"} /\ {} \in SUBSET Systems /\ 0 \in Nat
  OBVIOUS
<1>11. FrameTyped'
  BY <1>4, <1>9, <1>10 DEF FrameTyped, Phases
<1> QED
  BY <1>8, <1>9, <1>11

LEMMA AddsSystem ==
    ASSUME LoopAssumption, SystemsHold, NEW s \in Systems, AddSystem(s)
    PROVE  SystemsHold'
<1>1. /\ registered' = Append(registered, s) /\ dirty' = TRUE
      /\ sorted' = sorted /\ retired' = retired /\ s \notin retired
      /\ IdOf(s) \notin registeredIds
  BY DEF AddSystem
<1>2. s \notin Elements(registered)
  BY <1>1 DEF registeredIds
<1>3. /\ Append(registered, s) \in Seq(Systems)
      /\ Elements(Append(registered, s)) = Elements(registered) \cup {s}
      /\ HasNoRepeats(Append(registered, s))
  BY <1>2, AppendElements DEF SystemsHold
<1>4. HasNoRepeats(registered)' /\ \A t \in Elements(registered') : t \notin retired'
  BY <1>1, <1>3 DEF SystemsHold, HasNoRepeats
<1> QED
  BY <1>1, <1>3, <1>4 DEF SystemsHold, ListIsCurrent, HasNoRepeats, Elements

LEMMA RemovesSystem ==
    ASSUME LoopAssumption, SystemsHold, NEW s \in Systems, RemoveSystem(s)
    PROVE  SystemsHold'
<1> DEFINE k == Keep(registered, Systems \ {s})
<1>1. /\ registered' = k /\ dirty' = TRUE
      /\ sorted' = sorted /\ retired' = retired \cup {s}
  BY DEF RemoveSystem
<1>2. k \in Seq(Systems) /\ Elements(k) = Elements(registered) \cap (Systems \ {s})
  BY KeepSeq DEF SystemsHold
<1>3. HasNoRepeats(k)
  BY KeepHasNoRepeats DEF SystemsHold
<1> HIDE DEF k
<1>4. HasNoRepeats(registered)' /\ \A t \in Elements(registered') : t \notin retired'
  BY <1>1, <1>2, <1>3 DEF SystemsHold, HasNoRepeats
<1> QED
  BY <1>1, <1>2, <1>4 DEF SystemsHold, ListIsCurrent, HasNoRepeats, Elements

LEMMA RetiresAll ==
    ASSUME SystemsHold, retireAll
    PROVE  SystemsHold'
<1>1. registered' = <<>> /\ sorted' = <<>> /\ dirty' = FALSE
      /\ retired' = retired \cup Elements(registered)
  BY DEF retireAll
<1>2. Elements(registered) \in SUBSET Systems
  BY ElementsTyped DEF SystemsHold
<1>3. <<>> \in Seq(Systems) /\ Len(<<>>) = 0 /\ Elements(<<>>) = {}
  BY DEF Elements
<1>4. HasNoRepeats(registered)' /\ \A t \in Elements(registered') : t \notin retired'
  BY <1>1, <1>3 DEF HasNoRepeats
<1>5. ListIsCurrent'
  BY <1>1, <1>3 DEF ListIsCurrent, Elements
<1> QED
  BY <1>1, <1>2, <1>3, <1>4, <1>5 DEF SystemsHold, HasNoRepeats, Elements

-----------------------------------------------------------------------------
(***************************************************************************)
(* Requests, status and time.                                              *)
(***************************************************************************)

LEMMA RequestsFrame ==
    ASSUME NEW s \in Requests \cup {0}, refused \in BOOLEAN, revived \in BOOLEAN,
           s = 0 \/ revived \/ disposing = 0, requestFrame(s, {s} \ {0})
    PROVE  /\ scheduled' \in Requests \cup {0} /\ requests' \subseteq Requests
           /\ refused' \in BOOLEAN /\ revived' \in BOOLEAN
           /\ requests' = {scheduled'} \ {0}
           /\ scheduled' # 0 \/ refused'
           /\ disposing # 0 => scheduled' = 0 \/ revived'
<1>1. CASE s # 0
  <2>1. scheduled' = s /\ requests' = {s} \ {0} /\ refused' = refused /\ revived' = revived
    BY <1>1 DEF requestFrame
  <2>2. s \in Requests /\ {s} \ {0} = {s}
    BY <1>1
  <2> QED
    BY <1>1, <2>1, <2>2
<1>2. CASE s = 0
  <2>1. {s} \ {0} = {} /\ 0 \notin Requests
    BY <1>2 DEF Requests
  <2>2. \/ /\ scheduled' \in Requests /\ requests' = {scheduled'} /\ refused' = FALSE
           /\ revived' = (disposing # 0)
        \/ scheduled' = 0 /\ requests' = {} /\ refused' = TRUE /\ revived' = revived
    BY <1>2, <2>1 DEF requestFrame
  <2> QED
    BY <2>1, <2>2
<1> QED
  BY <1>1, <1>2

LEMMA Cancels ==
    ASSUME FlowTyped, requests = {scheduled} \ {0}, cancelFrame
    PROVE  /\ scheduled' = 0 /\ requests' = {} /\ refused' = refused /\ revived' = revived
           /\ stillRequested = {}
BY DEF cancelFrame, stillRequested, FlowTyped, Requests

LEMMA ForgetsTime ==
    ASSUME FlowTyped, TimeIsAccounted, spent' = forget, elapsed' = elapsed, accumulator' = 0
    PROVE  /\ spent' \in [fixed : Nat, dropped : Nat, forgotten : Nat]
           /\ TimeIsAccounted'
<1>1. /\ spent.fixed \in Nat /\ spent.dropped \in Nat /\ spent.forgotten \in Nat
      /\ accumulator \in Nat /\ elapsed \in Nat
  BY DEF FlowTyped
<1>2. /\ spent'.fixed = spent.fixed /\ spent'.dropped = spent.dropped
      /\ spent'.forgotten = spent.forgotten + accumulator
      /\ spent' \in [fixed : Nat, dropped : Nat, forgotten : Nat]
  BY <1>1 DEF forget, FlowTyped
<1> QED
  BY <1>1, <1>2 DEF TimeIsAccounted

LEMMA FlowStays ==
    ASSUME FlowHolds, UNCHANGED frameVars, disposing' = disposing,
           frame'.phase = frame.phase \/ (frame'.phase = "none" /\ status # "running")
           \/ frame'.phase # "none"
    PROVE  FlowHolds'
BY DEF FlowHolds, FlowTyped, frameVars, TimeIsAccounted

LEMMA Pauses ==
    ASSUME FlowHolds, pause, disposing' = disposing,
           frame'.phase = frame.phase
    PROVE  FlowHolds'
<1>1. CASE status = "running"
  <2>1. /\ status' = "paused" /\ ticking' = FALSE /\ cancelFrame
        /\ UNCHANGED <<disposed, accumulator, elapsed, spent>>
    BY <1>1 DEF pause
  <2>2. scheduled' = 0 /\ requests' = {} /\ refused' = refused /\ revived' = revived
    BY <2>1, Cancels DEF FlowHolds
  <2> QED
    BY <2>1, <2>2 DEF FlowHolds, FlowTyped, TimeIsAccounted
<1>2. CASE status # "running"
  <2>1. UNCHANGED frameVars
    BY <1>2 DEF pause
  <2> QED
    BY <2>1, FlowStays
<1> QED
  BY <1>1, <1>2

LEMMA Stops ==
    ASSUME FlowHolds, stop, disposing' = disposing,
           frame'.phase = frame.phase
    PROVE  FlowHolds'
<1>1. CASE status # "stopped"
  <2>1. /\ status' = "stopped" /\ ticking' = FALSE /\ cancelFrame
        /\ accumulator' = 0 /\ spent' = forget
        /\ UNCHANGED <<disposed, elapsed>>
    BY <1>1 DEF stop
  <2>2. scheduled' = 0 /\ requests' = {} /\ refused' = refused /\ revived' = revived
    BY <2>1, Cancels DEF FlowHolds
  <2>3. spent' \in [fixed : Nat, dropped : Nat, forgotten : Nat] /\ TimeIsAccounted'
    BY <2>1, ForgetsTime DEF FlowHolds
  <2> QED
    BY <2>1, <2>2, <2>3 DEF FlowHolds, FlowTyped
<1>2. CASE status = "stopped"
  <2>1. UNCHANGED frameVars
    BY <1>2 DEF stop
  <2> QED
    BY <2>1, FlowStays
<1> QED
  BY <1>1, <1>2

LEMMA FiresHolds ==
    ASSUME LoopAssumption, LoopInv, NEW r \in requests, NEW d \in 0..MaxDelta, FrameFires(r, d)
    PROVE  LoopInv'
<1>1. /\ requests' = requests \ {r} /\ scheduled' = 0 /\ refused' = refused /\ revived' = revived
      /\ status' = status /\ disposed' = disposed /\ spent' = spent
      /\ disposing = 0 /\ disposing' = 0
  BY DEF FrameFires, callVars
<1>2. requests' = {}
  BY <1>1 DEF LoopInv, FlowHolds
<1>3. d \in Nat
  BY DEF LoopAssumption
<1>4. CASE status = "running"
  <2>1. /\ elapsed' = elapsed + d /\ accumulator' = accumulator + d
        /\ ticking' = TRUE /\ enter("before-update", 0)
    BY <1>4 DEF FrameFires
  <2>2. "before-update" \in Phases
    BY DEF Phases
  <2>3. SystemsHold' /\ FrameTyped' /\ frame'.phase = "before-update"
    BY <2>1, <2>2, EntersPhase DEF LoopInv
  <2>4. elapsed' \in Nat /\ accumulator' \in Nat /\ TimeIsAccounted'
    BY <1>1, <1>3, <2>1 DEF LoopInv, FlowHolds, FlowTyped, TimeIsAccounted
  <2>5. FlowHolds'
    BY <1>1, <1>2, <1>4, <2>1, <2>3, <2>4 DEF LoopInv, FlowHolds, FlowTyped
  <2> QED
    BY <2>3, <2>5 DEF LoopInv
<1>5. CASE status # "running"
  <2>1. UNCHANGED <<elapsed, accumulator, ticking, frame, systemVars>>
    BY <1>5 DEF FrameFires
  <2>2. SystemsHold'
    BY <2>1, SystemsStay DEF LoopInv
  <2>3. FlowHolds'
    BY <1>1, <1>2, <1>5, <2>1 DEF LoopInv, FlowHolds, FlowTyped, TimeIsAccounted
  <2> QED
    BY <2>1, <2>2, <2>3 DEF LoopInv, FrameTyped
<1> QED
  BY <1>4, <1>5

LEMMA PhaseEndsHolds ==
    ASSUME LoopAssumption, LoopInv, PhaseEnds
    PROVE  LoopInv'
<1>1. /\ status = "running" /\ frame.phase # "none"
      /\ status' = status /\ disposed' = disposed /\ elapsed' = elapsed /\ ticking' = ticking
      /\ disposing = 0 /\ disposing' = 0
  BY DEF PhaseEnds, InPhase, callVars
<1>2. /\ frame.steps \in Nat /\ frame.steps + 1 \in Nat
  BY DEF LoopInv, FrameTyped
<1>3. /\ spent.fixed \in Nat /\ spent.dropped \in Nat /\ spent.forgotten \in Nat
      /\ accumulator \in Nat /\ elapsed \in Nat
      /\ elapsed = accumulator + spent.fixed + spent.dropped + spent.forgotten
      /\ spent \in [fixed : Nat, dropped : Nat, forgotten : Nat]
  BY DEF LoopInv, FlowHolds, FlowTyped, TimeIsAccounted
<1>4. FixedDelta \in Nat /\ FixedDelta > 0
  BY DEF LoopAssumption
<1>5. "fixed-update" \in Phases /\ "update" \in Phases
  BY DEF Phases
<1>6. CASE /\ StepIsDue(frame.steps)
           /\ accumulator' = accumulator - FixedDelta
           /\ spent' = [spent EXCEPT !.fixed = @ + FixedDelta]
           /\ enter("fixed-update", frame.steps + 1)
           /\ UNCHANGED <<scheduled, requests, refused, revived>>
  <2>1. SystemsHold' /\ FrameTyped' /\ frame'.phase = "fixed-update"
    BY <1>2, <1>5, <1>6, EntersPhase DEF LoopInv
  <2>2. accumulator' \in Nat
    BY <1>3, <1>4, <1>6 DEF StepIsDue
  <2>3. /\ spent'.fixed = spent.fixed + FixedDelta /\ spent'.dropped = spent.dropped
        /\ spent'.forgotten = spent.forgotten
        /\ spent' \in [fixed : Nat, dropped : Nat, forgotten : Nat]
    BY <1>3, <1>4, <1>6
  <2>4. TimeIsAccounted'
    BY <1>1, <1>3, <1>4, <1>6, <2>3 DEF TimeIsAccounted
  <2>5. FlowHolds'
    BY <1>1, <1>6, <2>1, <2>2, <2>3, <2>4 DEF LoopInv, FlowHolds, FlowTyped
  <2> QED
    BY <2>1, <2>5 DEF LoopInv
<1>7. CASE /\ ~StepIsDue(frame.steps)
           /\ accumulator' = remainder
           /\ spent' = [spent EXCEPT !.dropped = @ + (accumulator - remainder)]
           /\ enter("update", frame.steps)
           /\ UNCHANGED <<scheduled, requests, refused, revived>>
  <2>1. SystemsHold' /\ FrameTyped' /\ frame'.phase = "update"
    BY <1>2, <1>5, <1>7, EntersPhase DEF LoopInv
  <2>2. remainder \in Nat /\ accumulator - remainder \in Nat
    BY <1>3, <1>4 DEF remainder
  <2>3. /\ spent'.fixed = spent.fixed /\ spent'.dropped = spent.dropped + (accumulator - remainder)
        /\ spent'.forgotten = spent.forgotten
        /\ spent' \in [fixed : Nat, dropped : Nat, forgotten : Nat]
    BY <1>3, <1>4, <1>7, <2>2
  <2>4. TimeIsAccounted'
    BY <1>1, <1>3, <1>7, <2>2, <2>3 DEF TimeIsAccounted
  <2>5. FlowHolds'
    BY <1>1, <1>7, <2>1, <2>2, <2>3, <2>4 DEF LoopInv, FlowHolds, FlowTyped
  <2> QED
    BY <2>1, <2>5 DEF LoopInv
<1>8. CASE /\ enter(afterPhase(frame.phase), frame.steps)
           /\ UNCHANGED <<accumulator, spent, scheduled, requests, refused, revived>>
  <2>1. afterPhase(frame.phase) \in Phases /\ "none" \notin Phases
    BY DEF afterPhase, Phases
  <2>2. SystemsHold' /\ FrameTyped' /\ frame'.phase # "none"
    BY <1>2, <1>8, <2>1, EntersPhase DEF LoopInv
  <2>3. FlowHolds'
    BY <1>1, <1>8, <2>2 DEF LoopInv, FlowHolds, FlowTyped, TimeIsAccounted
  <2> QED
    BY <2>2, <2>3 DEF LoopInv
<1>9. CASE /\ frame' = noFrame
           /\ requestFrame(scheduled, requests)
           /\ UNCHANGED <<accumulator, spent, systemVars>>
  <2>1. requestFrame(scheduled, {scheduled} \ {0})
    BY <1>9 DEF LoopInv, FlowHolds
  <2>2. /\ scheduled' \in Requests \cup {0} /\ requests' \subseteq Requests
        /\ refused' \in BOOLEAN /\ revived' \in BOOLEAN /\ requests' = {scheduled'} \ {0}
        /\ scheduled' # 0 \/ refused'
    BY <1>1, <2>1, RequestsFrame DEF LoopInv, FlowHolds, FlowTyped
  <2>3. FlowHolds'
    BY <1>1, <1>9, <2>2 DEF LoopInv, FlowHolds, FlowTyped, TimeIsAccounted
  <2>4. FrameTyped'
    BY <1>9 DEF FrameTyped, noFrame
  <2>5. SystemsHold'
    BY <1>9, SystemsStay DEF LoopInv
  <2> QED
    BY <2>3, <2>4, <2>5 DEF LoopInv
<1> QED
  BY <1>6, <1>7, <1>8, <1>9 DEF PhaseEnds

\* A step that changes the frame only, within its types and without ending it.
LEMMA FrameMoves ==
    ASSUME LoopInv, UNCHANGED <<frameVars, systemVars>>, disposing' = disposing, FrameTyped',
           frame'.phase = frame.phase \/ (frame'.phase = "none" /\ status # "running")
    PROVE  LoopInv'
<1>1. UNCHANGED frameVars /\ UNCHANGED systemVars
  OBVIOUS
<1>2. SystemsHold'
  BY <1>1, SystemsStay DEF LoopInv
<1>3. FlowHolds'
  BY <1>1, FlowStays DEF LoopInv
<1> QED
  BY <1>2, <1>3 DEF LoopInv

LEMMA InvokesHolds ==
    ASSUME LoopInv, InvokeSystem
    PROVE  LoopInv'
<1>1. PICK s : s = Head(frame.todo)
  OBVIOUS
<1>2. /\ frame.todo # <<>> /\ UNCHANGED <<frameVars, systemVars>> /\ disposing' = disposing
      /\ frame' = [frame EXCEPT !.todo = Tail(@), !.attempt = 1,
                                !.hook = IF isRegistered(s) THEN {s} ELSE {}]
  BY <1>1 DEF InvokeSystem, callVars
<1>3. /\ frame.todo \in Seq(Systems) /\ s \in Systems /\ Tail(frame.todo) \in Seq(Systems)
      /\ frame.phase \in Phases \cup {"none"} /\ frame.steps \in Nat
  BY <1>1, <1>2, HeadTailProperties DEF LoopInv, FrameTyped
<1>4. PICK h : h = (IF isRegistered(s) THEN {s} ELSE {})
  OBVIOUS
<1>5. h \in SUBSET Systems
  BY <1>3, <1>4
<1>6. frame' = [phase |-> frame.phase, todo |-> Tail(frame.todo), hook |-> h, attempt |-> 1,
                steps |-> frame.steps]
  BY <1>2, <1>4 DEF LoopInv, FrameTyped
<1>7. FrameTyped' /\ frame'.phase = frame.phase
  BY <1>3, <1>5, <1>6 DEF FrameTyped, Phases
<1> QED
  BY <1>2, <1>7, FrameMoves

LEMMA OperationHolds ==
    ASSUME LoopInv, frame' = frame, SystemsHold', FlowHolds'
    PROVE  LoopInv'
BY DEF LoopInv, FrameTyped

LEMMA StartHolds ==
    ASSUME LoopInv, Start
    PROVE  LoopInv'
<1>1. /\ status' = "running" /\ ticking' = TRUE /\ frame' = frame /\ disposing' = disposing
      /\ requestFrame(scheduled, requests)
      /\ UNCHANGED <<disposed, accumulator, elapsed, spent>> /\ UNCHANGED systemVars
  BY DEF Start, counted
<1>2. requestFrame(scheduled, {scheduled} \ {0})
  BY <1>1 DEF LoopInv, FlowHolds
<1>3. /\ scheduled' \in Requests \cup {0} /\ requests' \subseteq Requests
      /\ refused' \in BOOLEAN /\ revived' \in BOOLEAN /\ requests' = {scheduled'} \ {0}
      /\ scheduled' # 0 \/ refused'
      /\ disposing # 0 => scheduled' = 0 \/ revived'
  BY <1>2, RequestsFrame DEF LoopInv, FlowHolds, FlowTyped
<1>4. FlowHolds'
  BY <1>1, <1>3 DEF LoopInv, FlowHolds, FlowTyped, TimeIsAccounted
<1>5. SystemsHold'
  BY <1>1, SystemsStay DEF LoopInv
<1> QED
  BY <1>1, <1>4, <1>5, OperationHolds

LEMMA RestoreHolds ==
    ASSUME LoopAssumption, LoopInv,
           NEW st \in {"idle", "running", "paused", "stopped"}, NEW unused \in 0..MaxDelta,
           Restore(st, unused)
    PROVE  LoopInv'
<1>1. /\ status' = st /\ ticking' = (st = "running") /\ frame' = frame /\ disposing' = disposing
      /\ accumulator' = unused /\ elapsed' = unused
      /\ spent' = [fixed |-> 0, dropped |-> 0, forgotten |-> 0]
      /\ disposed' = disposed /\ UNCHANGED systemVars
      /\ IF st = "running" THEN requestFrame(0, stillRequested) ELSE cancelFrame
  BY DEF Restore, counted
<1>2. unused \in Nat
  BY DEF LoopAssumption
<1>3. spent' \in [fixed : Nat, dropped : Nat, forgotten : Nat] /\ TimeIsAccounted'
  BY <1>1, <1>2 DEF TimeIsAccounted
<1>4. stillRequested = {}
  BY DEF LoopInv, FlowHolds, FlowTyped, stillRequested
<1>5. /\ scheduled' \in Requests \cup {0} /\ requests' \subseteq Requests
      /\ refused' \in BOOLEAN /\ revived' \in BOOLEAN /\ requests' = {scheduled'} \ {0}
      /\ IF st = "running" THEN scheduled' # 0 \/ refused' ELSE scheduled' = 0
      /\ disposing # 0 => scheduled' = 0 \/ revived'
  <2>1. CASE st = "running"
    <3>1. requestFrame(0, {0} \ {0})
      BY <1>1, <1>4, <2>1
    <3> QED
      BY <2>1, <3>1, RequestsFrame DEF LoopInv, FlowHolds, FlowTyped
  <2>2. CASE st # "running"
    <3>1. scheduled' = 0 /\ requests' = {} /\ refused' = refused /\ revived' = revived
      BY <1>1, <2>2, Cancels DEF LoopInv, FlowHolds
    <3> QED
      BY <2>2, <3>1 DEF LoopInv, FlowHolds, FlowTyped
  <2> QED
    BY <2>1, <2>2
<1>6. FlowHolds'
  BY <1>1, <1>2, <1>3, <1>5 DEF LoopInv, FlowHolds, FlowTyped
<1>7. SystemsHold'
  BY <1>1, SystemsStay DEF LoopInv
<1> QED
  BY <1>1, <1>6, <1>7, OperationHolds

LEMMA FinishesDispose ==
    ASSUME LoopInv, finishDispose, elapsed' = elapsed, frame' = frame, SystemsHold',
           scheduled' \in Requests \cup {0}, requests' = {scheduled'} \ {0},
           refused' = refused, revived' = revived, scheduled' = 0 \/ revived',
           disposing' \in Nat
    PROVE  LoopInv'
<1>1. /\ status' = "disposed" /\ disposed' = TRUE /\ ticking' = FALSE
      /\ accumulator' = 0 /\ spent' = forget
  BY DEF finishDispose
<1>2. spent' \in [fixed : Nat, dropped : Nat, forgotten : Nat] /\ TimeIsAccounted'
  BY <1>1, ForgetsTime DEF LoopInv, FlowHolds
<1>3. requests' \subseteq Requests
  OBVIOUS
<1>4. FlowHolds'
  BY <1>1, <1>2, <1>3 DEF LoopInv, FlowHolds, FlowTyped
<1> QED
  BY <1>4, OperationHolds

LEMMA DisposeHolds ==
    ASSUME LoopInv, DisposeLoop
    PROVE  LoopInv'
<1>1. cancelFrame /\ retireAll /\ elapsed' = elapsed /\ frame' = frame
  BY DEF DisposeLoop, counted
<1>2. scheduled' = 0 /\ requests' = {} /\ refused' = refused /\ revived' = revived
  BY <1>1, Cancels DEF LoopInv, FlowHolds
<1>3. SystemsHold'
  BY <1>1, RetiresAll DEF LoopInv
<1>4. disposing \in Nat /\ disposing + 1 \in Nat /\ disposing + 1 # 0
  BY DEF LoopInv, FlowHolds, FlowTyped
<1>5. CASE finishDispose /\ disposing' = disposing
  BY <1>1, <1>2, <1>3, <1>4, <1>5, FinishesDispose
<1>6. CASE disposing' = disposing + 1 /\ UNCHANGED <<status, disposed, ticking, accumulator, spent>>
  <2>1. FlowHolds'
    BY <1>1, <1>2, <1>4, <1>6 DEF LoopInv, FlowHolds, FlowTyped, TimeIsAccounted
  <2> QED
    BY <1>1, <1>3, <2>1, OperationHolds
<1> QED
  BY <1>5, <1>6 DEF DisposeLoop, counted

LEMMA DisposeEndsHolds ==
    ASSUME LoopInv, DisposeEnds \/ DisposeBreaksOff
    PROVE  LoopInv'
<1>1. /\ disposing # 0 /\ disposing' = disposing - 1
      /\ elapsed' = elapsed /\ frame' = frame /\ UNCHANGED systemVars
      /\ UNCHANGED <<scheduled, requests, revived>>
  BY DEF DisposeEnds, DisposeBreaksOff
<1>2. SystemsHold'
  BY <1>1, SystemsStay DEF LoopInv
<1>3. disposing' \in Nat
  BY <1>1 DEF LoopInv, FlowHolds, FlowTyped
<1>4. scheduled' \in Requests \cup {0} /\ requests' = {scheduled'} \ {0} /\ (scheduled' = 0 \/ revived')
  BY <1>1 DEF LoopInv, FlowHolds, FlowTyped
<1>5. CASE DisposeEnds
  <2>1. finishDispose /\ refused' = refused
    BY <1>5 DEF DisposeEnds
  <2> QED
    BY <1>1, <1>2, <1>3, <1>4, <2>1, FinishesDispose
<1>6. CASE DisposeBreaksOff
  <2>1. /\ UNCHANGED <<status, disposed, accumulator, ticking, spent>>
        /\ refused' = (refused \/ (status = "running" /\ scheduled = 0))
    BY <1>6 DEF DisposeBreaksOff
  <2>2. refused' \in BOOLEAN /\ (status = "running" => scheduled # 0 \/ refused')
    BY <2>1 DEF LoopInv, FlowHolds, FlowTyped
  <2>3. FlowHolds'
    BY <1>1, <1>3, <1>4, <2>1, <2>2 DEF LoopInv, FlowHolds, FlowTyped, TimeIsAccounted
  <2> QED
    BY <1>1, <1>2, <2>3, OperationHolds
<1> QED
  BY <1>5, <1>6

LEMMA FailureHolds ==
    ASSUME LoopInv, FailureIsHandled \/ FailureLeavesFrame
    PROVE  LoopInv'
<1>1. CASE FailureIsHandled
  <2>1. /\ UNCHANGED frameVars \/ pause \/ stop
        /\ UNCHANGED systemVars
        /\ frame' = [frame EXCEPT !.hook = {}] /\ disposing' = disposing
    BY <1>1 DEF FailureIsHandled, callVars
  <2>2. frame'.phase = frame.phase /\ FrameTyped'
    BY <2>1 DEF LoopInv, FrameTyped
  <2>3. FlowHolds'
    BY <2>1, <2>2, FlowStays, Pauses, Stops DEF LoopInv
  <2>4. SystemsHold'
    BY <2>1, SystemsStay DEF LoopInv
  <2> QED
    BY <2>2, <2>3, <2>4 DEF LoopInv
<1>2. CASE FailureLeavesFrame
  <2>1. /\ frame' = noFrame
        /\ status' = "stopped" /\ ticking' = FALSE /\ accumulator' = 0 /\ spent' = forget
        /\ UNCHANGED <<disposed, elapsed, scheduled, requests, refused, revived>>
        /\ UNCHANGED systemVars /\ disposing = 0 /\ disposing' = 0
    BY <1>2 DEF FailureLeavesFrame, InHook, callVars
  <2>2. spent' \in [fixed : Nat, dropped : Nat, forgotten : Nat] /\ TimeIsAccounted'
    BY <2>1, ForgetsTime DEF LoopInv, FlowHolds
  <2>3. FlowHolds'
    BY <2>1, <2>2 DEF LoopInv, FlowHolds, FlowTyped
  <2>4. FrameTyped'
    BY <2>1 DEF FrameTyped, noFrame
  <2>5. SystemsHold'
    BY <2>1, SystemsStay DEF LoopInv
  <2> QED
    BY <2>3, <2>4, <2>5 DEF LoopInv
<1> QED
  BY <1>1, <1>2

LEMMA LoopStep ==
    ASSUME LoopAssumption, LoopInv, [LoopNext]_loopVars
    PROVE  LoopInv'
<1>1. CASE \E r \in requests, delta \in 0..MaxDelta : FrameFires(r, delta)
  BY <1>1, FiresHolds
<1>2. CASE InvokeSystem
  BY <1>2, InvokesHolds
<1>3. CASE PhaseEnds
  BY <1>3, PhaseEndsHolds
<1>4. CASE FrameBreaksOff
  <2>1. /\ frame' = noFrame /\ status # "running" /\ UNCHANGED <<frameVars, systemVars>>
        /\ disposing' = disposing
    BY <1>4 DEF FrameBreaksOff, callVars
  <2>2. FrameTyped' /\ frame'.phase = "none"
    BY <2>1 DEF FrameTyped, noFrame
  <2> QED
    BY <2>1, <2>2, FrameMoves
<1>5. CASE HookReturns \/ HookIsRetried
  <2>1. /\ UNCHANGED <<frameVars, systemVars>> /\ disposing' = disposing
        /\ \/ frame' = [frame EXCEPT !.hook = {}]
           \/ frame' = [frame EXCEPT !.attempt = @ + 1]
    BY <1>5 DEF HookReturns, HookIsRetried, callVars
  <2>2. FrameTyped' /\ frame'.phase = frame.phase
    BY <2>1 DEF LoopInv, FrameTyped
  <2> QED
    BY <2>1, <2>2, FrameMoves
<1>6. CASE FailureIsHandled \/ FailureLeavesFrame
  BY <1>6, FailureHolds
<1>7. CASE Start
  BY <1>7, StartHolds
<1>8. CASE Pause \/ Stop
  <2>1. (pause \/ stop) /\ UNCHANGED systemVars /\ frame' = frame /\ disposing' = disposing
    BY <1>8 DEF Pause, Stop, counted
  <2>2. FlowHolds'
    BY <2>1, Pauses, Stops DEF LoopInv
  <2>3. SystemsHold'
    BY <2>1, SystemsStay DEF LoopInv
  <2> QED
    BY <2>1, <2>2, <2>3, OperationHolds
<1>9. CASE ClearSystems
  <2>1. retireAll /\ UNCHANGED frameVars /\ frame' = frame /\ disposing' = disposing
    BY <1>9 DEF ClearSystems, counted
  <2>2. SystemsHold'
    BY <2>1, RetiresAll DEF LoopInv
  <2>3. FlowHolds'
    BY <2>1, FlowStays DEF LoopInv
  <2> QED
    BY <2>1, <2>2, <2>3, OperationHolds
<1>10. CASE DisposeLoop
  BY <1>10, DisposeHolds
<1>14. CASE DisposeEnds \/ DisposeBreaksOff
  BY <1>14, DisposeEndsHolds
<1>11. CASE \E st \in {"idle", "running", "paused", "stopped"}, unused \in 0..MaxDelta :
               Restore(st, unused)
  BY <1>11, RestoreHolds
<1>12. CASE \E s \in Systems : AddSystem(s) \/ RemoveSystem(s)
  <2>1. PICK s \in Systems : AddSystem(s) \/ RemoveSystem(s)
    BY <1>12
  <2>2. SystemsHold'
    BY <2>1, AddsSystem, RemovesSystem DEF LoopInv
  <2>3. UNCHANGED frameVars /\ frame' = frame /\ disposing' = disposing
    BY <2>1 DEF AddSystem, RemoveSystem, counted
  <2>4. FlowHolds'
    BY <2>3, FlowStays DEF LoopInv
  <2> QED
    BY <2>2, <2>3, <2>4, OperationHolds
<1>13. CASE UNCHANGED loopVars
  <2>1. UNCHANGED <<frameVars, systemVars>> /\ frame' = frame /\ disposing' = disposing
    BY <1>13 DEF loopVars, callVars
  <2> QED
    BY <2>1, FrameMoves DEF LoopInv, FrameTyped
<1> QED
  BY <1>1, <1>2, <1>3, <1>4, <1>5, <1>6, <1>7, <1>8, <1>9, <1>10, <1>11, <1>12, <1>13,
     <1>14 DEF LoopNext

LEMMA LoopStarts ==
    ASSUME LoopInit
    PROVE  LoopInv
<1>1. <<>> \in Seq(Systems) /\ Len(<<>>) = 0 /\ Elements(<<>>) = {} /\ HasNoRepeats(<<>>)
  BY DEF Elements, HasNoRepeats
<1>2. SystemsHold
  <2>1. /\ registered = <<>> /\ sorted = <<>> /\ retired = {} /\ dirty = FALSE
    BY DEF LoopInit
  <2>2. ListIsCurrent
    BY <1>1, <2>1 DEF ListIsCurrent
  <2> QED
    BY <1>1, <2>1, <2>2 DEF SystemsHold
<1>3. FrameTyped
  BY <1>1 DEF LoopInit, FrameTyped, noFrame
<1>4. FlowHolds
  <2>1. /\ status = "idle" /\ accumulator = 0 /\ elapsed = 0 /\ ticking = FALSE
        /\ scheduled = 0 /\ requests = {} /\ refused = FALSE /\ disposed = FALSE
        /\ revived = FALSE /\ disposing = 0
    BY DEF LoopInit
  <2>2. /\ spent = [fixed |-> 0, dropped |-> 0, forgotten |-> 0]
    BY DEF LoopInit
  <2>3. TimeIsAccounted /\ spent \in [fixed : Nat, dropped : Nat, forgotten : Nat]
    BY <2>1, <2>2 DEF TimeIsAccounted
  <2> QED
    BY <2>1, <2>3 DEF FlowHolds, FlowTyped
<1> QED
  BY <1>2, <1>3, <1>4 DEF LoopInv

LEMMA LoopInvIsInvariant ==
    ASSUME LoopAssumption
    PROVE  LoopSpec => []LoopInv
<1>1. LoopInit => LoopInv
  BY LoopStarts
<1>2. LoopInv /\ [LoopNext]_loopVars => LoopInv'
  BY LoopStep
<1> QED
  BY <1>1, <1>2, PTL DEF LoopSpec

\* Whatever hooks and callers do to the loop: at most one frame is requested, the one
\* the loop knows, no unit of time is lost or used twice, and a phase takes the
\* registered systems in their order.
THEOREM LoopStaysAgreed == LoopAssumption => (LoopSpec => []LoopAgrees)
<1> SUFFICES ASSUME LoopAssumption PROVE LoopSpec => []LoopAgrees
  OBVIOUS
<1>1. LoopInv => LoopAgrees
  BY DEF LoopInv, LoopAgrees, FramesFollowStatus, LoopTypeOK, SystemsHold, FlowHolds, FlowTyped,
         FrameTyped
<1> QED
  BY <1>1, LoopInvIsInvariant, PTL

\* A hook begins only on a system that was not disposed of, unless another system
\* is registered under its id: removing a system from within a hook is heeded.
THEOREM DisposedSystemsStayQuiet == LoopAssumption => (LoopSpec => OnlyRegisteredRun)
<1> SUFFICES ASSUME LoopAssumption PROVE LoopSpec => OnlyRegisteredRun
  OBVIOUS
<1> DEFINE Begins ==
      \A s \in frame'.hook : s \notin frame.hook =>
          s \notin retired \/ \E t \in Elements(registered) : t # s /\ IdOf(t) = IdOf(s)
<1>1. LoopInv /\ [LoopNext]_loopVars => Begins \/ UNCHANGED loopVars
  <2> SUFFICES ASSUME LoopInv, LoopNext PROVE Begins
    OBVIOUS
  <2>1. ASSUME frame'.hook \subseteq frame.hook PROVE Begins
    BY <2>1
  <2>2. CASE InvokeSystem
    <3>1. PICK s : s = Head(frame.todo)
      OBVIOUS
    <3>2. frame'.hook = (IF isRegistered(s) THEN {s} ELSE {})
      BY <2>2, <3>1 DEF InvokeSystem, LoopInv, FrameTyped
    <3>3. ASSUME isRegistered(s)
          PROVE  s \notin retired \/ \E t \in Elements(registered) : t # s /\ IdOf(t) = IdOf(s)
      BY <3>3 DEF isRegistered, registeredIds, LoopInv, SystemsHold
    <3> QED
      BY <3>2, <3>3
  <2>3. ASSUME NEW r, NEW d, FrameFires(r, d) PROVE frame'.hook \subseteq frame.hook
    BY <2>3 DEF FrameFires, enter, noFrame
  <2>4. CASE PhaseEnds
    <3>1. frame' = noFrame \/ \E p, n : enter(p, n)
      BY <2>4 DEF PhaseEnds
    <3>2. ASSUME NEW p, NEW n, enter(p, n) PROVE frame'.hook = {}
      BY <3>2 DEF enter, noFrame
    <3>3. noFrame.hook = {}
      BY DEF noFrame
    <3>4. frame'.hook = {}
      BY <3>1, <3>2, <3>3
    <3> QED
      BY <3>4
  <2>5. CASE FrameBreaksOff \/ HookReturns \/ HookIsRetried \/ FailureIsHandled
             \/ FailureLeavesFrame
    <3>1. \/ frame' = noFrame
          \/ frame' = [frame EXCEPT !.hook = {}]
          \/ frame' = [frame EXCEPT !.attempt = @ + 1]
      BY <2>5 DEF FrameBreaksOff, HookReturns, HookIsRetried, FailureIsHandled, FailureLeavesFrame
    <3>2. frame'.hook \subseteq frame.hook
      BY <3>1 DEF LoopInv, FrameTyped, noFrame
    <3> QED
      BY <2>1, <3>2
  <2>6. ASSUME frame' = frame PROVE Begins
    BY <2>1, <2>6
  <2>7. CASE \/ Start \/ Pause \/ Stop \/ ClearSystems
             \/ DisposeLoop \/ DisposeEnds \/ DisposeBreaksOff
             \/ \E st \in {"idle", "running", "paused", "stopped"}, unused \in 0..MaxDelta :
                   Restore(st, unused)
             \/ \E s \in Systems : AddSystem(s) \/ RemoveSystem(s)
    <3>1. frame' = frame
      BY <2>7 DEF Start, Pause, Stop, ClearSystems, DisposeLoop, DisposeEnds, DisposeBreaksOff,
                  Restore, AddSystem, RemoveSystem, counted
    <3> QED
      BY <2>6, <3>1
  <2> QED
    BY <2>1, <2>2, <2>3, <2>4, <2>5, <2>7 DEF LoopNext
<1>2. LoopInv /\ [LoopNext]_loopVars => [Begins]_loopVars
  BY <1>1
<1> QED
  BY <1>2, LoopInvIsInvariant, PTL DEF LoopSpec, OnlyRegisteredRun

-----------------------------------------------------------------------------
(***************************************************************************)
(* The audio system.  A play that waits and was not overtaken finds its    *)
(* object registered, and once it waits for the clip no voice of the       *)
(* object sounds: so the voice it starts can be reached and replaces none. *)
(***************************************************************************)

ObjectSet == [id : Ids, active : Nat, playback : Playbacks, restored : BOOLEAN]
VoiceSet == [object : Nat, stage : {"sounding", "halted", "over"},
             control : {"playing", "pausing", "stopping"}]
PlaySet == [stage : PlayStages, object : Nat, replace : BOOLEAN, decode : Nat,
            overtaken : BOOLEAN]

Registered(src, objs, o) == src[objs[o].id] = o
Silent(objs, vs, o) == objs[o].active = 0 \/ vs[objs[o].active].stage # "sounding"

\* The voice of object o, if it sounds, was told to stop.
Still(objs, vs, o) == Silent(objs, vs, o) \/ vs[objs[o].active].control # "playing"

\* A source is registered under its id and a voice belongs to the object that has it.
Linked(src, objs, vs) ==
    /\ \A i \in Ids : src[i] # 0 => src[i] \in 1..Len(objs) /\ objs[src[i]].id = i
    /\ \A o \in 1..Len(objs) : objs[o].active # 0 =>
          objs[o].active \in 1..Len(vs) /\ vs[objs[o].active].object = o
    /\ \A v \in 1..Len(vs) : vs[v].object \in 1..Len(objs)

WaitsFor(src, objs, vs, q) ==
    /\ q.object \in 0..Len(objs)
    /\ InFlight(q) => q.object # 0
    /\ InFlight(q) /\ ~q.overtaken =>
          /\ Registered(src, objs, q.object)
          /\ q.stage = "decoding" => Silent(objs, vs, q.object)

Stray(ps, o) == \E p \in Plays : ps[p].stage = "started" /\ ps[p].overtaken /\ ps[p].object = o
Sounds(src, objs, vs, ps) ==
    \A v \in 1..Len(vs) : vs[v].stage = "sounding" =>
        \/ Registered(src, objs, vs[v].object) /\ objs[vs[v].object].active = v
        \/ Stray(ps, vs[v].object)

Spoilt(ps, o) == \E p \in Plays : ps[p].object = o /\ ps[p].stage = "failed" /\ ps[p].overtaken
States(src, objs, vs, ps) ==
    \A i \in Ids : src[i] # 0 =>
        \/ objs[src[i]].playback = "playing" <=> ~Still(objs, vs, src[i])
        \/ objs[src[i]].restored
        \/ Spoilt(ps, src[i])

MixHolds(src, objs, vs, ps) ==
    /\ src \in [Ids -> Nat] /\ objs \in Seq(ObjectSet) /\ vs \in Seq(VoiceSet)
    /\ ps \in [Plays -> PlaySet]
    /\ Linked(src, objs, vs)
    /\ \A p \in Plays : WaitsFor(src, objs, vs, ps[p])
    /\ Sounds(src, objs, vs, ps)
    /\ States(src, objs, vs, ps)

\* A play goes on, or fails, and starts no voice.
LEMMA PlayMoves ==
    ASSUME NEW src, NEW objs, NEW vs, NEW ps, MixHolds(src, objs, vs, ps),
           NEW p \in Plays, NEW ps2 \in [Plays -> PlaySet],
           ps[p].stage \notin {"started", "failed"},
           \A r \in Plays : r # p => ps2[r] = ps[r],
           WaitsFor(src, objs, vs, ps2[p])
    PROVE  MixHolds(src, objs, vs, ps2)
<1>1. \A r \in Plays : WaitsFor(src, objs, vs, ps2[r])
  BY DEF MixHolds
<1>2. \A o : (Stray(ps, o) => Stray(ps2, o)) /\ (Spoilt(ps, o) => Spoilt(ps2, o))
  BY DEF Stray, Spoilt
<1>3. Sounds(src, objs, vs, ps2) /\ States(src, objs, vs, ps2)
  BY <1>2 DEF MixHolds, Sounds, States
<1> QED
  BY <1>1, <1>3 DEF MixHolds

\* The playback of object o changes, and what it has sounding is told to stop.
LEMMA Silences ==
    ASSUME NEW src, NEW objs, NEW vs, NEW ps, MixHolds(src, objs, vs, ps),
           NEW objs2 \in Seq(ObjectSet), NEW vs2 \in Seq(VoiceSet), NEW o \in 1..Len(objs),
           Len(objs2) = Len(objs), Len(vs2) = Len(vs),
           \A x \in 1..Len(objs) : /\ objs2[x].id = objs[x].id
                                   /\ objs2[x].active = objs[x].active
                                   /\ x # o => /\ objs2[x].playback = objs[x].playback
                                               /\ objs2[x].restored = objs[x].restored,
           objs2[o].playback # "playing",
           \A v \in 1..Len(vs) : /\ vs2[v].object = vs[v].object
                                 /\ v # objs[o].active => /\ vs2[v].stage = vs[v].stage
                                                          /\ vs2[v].control = vs[v].control
                                 /\ vs2[v].stage = "sounding" => vs[v].stage = "sounding"
                                 /\ v = objs[o].active => \/ vs2[v].stage # "sounding"
                                                          \/ vs2[v].control # "playing"
    PROVE  MixHolds(src, objs2, vs2, ps)
<1>1. Linked(src, objs, vs) /\ Linked(src, objs2, vs2)
  <2>1. Linked(src, objs, vs)
    BY DEF MixHolds
  <2>2. \A i \in Ids : src[i] # 0 => src[i] \in 1..Len(objs2) /\ objs2[src[i]].id = i
    BY <2>1 DEF Linked
  <2>3. \A x \in 1..Len(objs2) : objs2[x].active # 0 =>
            objs2[x].active \in 1..Len(vs2) /\ vs2[objs2[x].active].object = x
    BY <2>1 DEF Linked
  <2>4. \A v \in 1..Len(vs2) : vs2[v].object \in 1..Len(objs2)
    BY <2>1 DEF Linked
  <2> QED
    BY <2>1, <2>2, <2>3, <2>4 DEF Linked
<1>2. Still(objs2, vs2, o) /\ (Silent(objs, vs, o) => Silent(objs2, vs2, o))
  BY <1>1 DEF Silent, Still, Linked
<1>3. \A x \in 1..Len(objs) : x # o => /\ Silent(objs2, vs2, x) <=> Silent(objs, vs, x)
                                       /\ Still(objs2, vs2, x) <=> Still(objs, vs, x)
  <2> SUFFICES ASSUME NEW x \in 1..Len(objs), x # o, objs[x].active # 0
               PROVE  /\ vs2[objs[x].active].stage = vs[objs[x].active].stage
                      /\ vs2[objs[x].active].control = vs[objs[x].active].control
    BY DEF Silent, Still
  <2>1. objs[x].active \in 1..Len(vs) /\ vs[objs[x].active].object = x
    BY <1>1 DEF Linked
  <2>2. objs[x].active # objs[o].active
    BY <2>1, <1>1 DEF Linked
  <2> QED
    BY <2>1, <2>2
<1>4. \A x \in 1..Len(objs) : Registered(src, objs2, x) <=> Registered(src, objs, x)
  BY DEF Registered
<1>5. ASSUME NEW p \in Plays PROVE WaitsFor(src, objs2, vs2, ps[p])
  <2>1. WaitsFor(src, objs, vs, ps[p])
    BY DEF MixHolds
  <2>2. InFlight(ps[p]) => ps[p].object \in 1..Len(objs)
    BY <2>1 DEF WaitsFor
  <2> QED
    BY <2>1, <2>2, <1>2, <1>3, <1>4 DEF WaitsFor
<1>6. Sounds(src, objs2, vs2, ps)
  <2> SUFFICES ASSUME NEW v \in 1..Len(vs), vs2[v].stage = "sounding"
               PROVE  \/ Registered(src, objs2, vs2[v].object) /\ objs2[vs2[v].object].active = v
                      \/ Stray(ps, vs2[v].object)
    BY DEF Sounds
  <2>1. vs[v].stage = "sounding" /\ vs2[v].object = vs[v].object /\ vs[v].object \in 1..Len(objs)
    BY <1>1 DEF Linked
  <2> QED
    BY <2>1, <1>4 DEF MixHolds, Sounds
<1>7. States(src, objs2, vs2, ps)
  <2> SUFFICES ASSUME NEW i \in Ids, src[i] # 0
               PROVE  \/ objs2[src[i]].playback = "playing" <=> ~Still(objs2, vs2, src[i])
                      \/ objs2[src[i]].restored
                      \/ Spoilt(ps, src[i])
    BY DEF States
  <2>1. src[i] \in 1..Len(objs)
    BY <1>1 DEF Linked
  <2>2. CASE src[i] = o
    BY <2>2, <1>2
  <2>3. CASE src[i] # o
    BY <2>1, <2>3, <1>3 DEF MixHolds, States
  <2> QED
    BY <2>2, <2>3
<1> QED
  BY <1>1, <1>5, <1>6, <1>7 DEF MixHolds

\* Plays that wait for object o are marked as overtaken, the others are left alone.
Overtakes(ps, ps2, o) ==
    \A r \in Plays :
        /\ ps2[r].stage = ps[r].stage /\ ps2[r].object = ps[r].object
        /\ IF InFlight(ps[r]) /\ ps[r].object = o
           THEN ps2[r].overtaken ELSE ps2[r].overtaken = ps[r].overtaken

\* Play p of object o has its clip.
Starts(ps, ps1, p, o) ==
    /\ ps[p].stage = "decoding" /\ ps[p].object = o
    /\ ps1[p].stage = "started" /\ ps1[p].object = o /\ ps1[p].overtaken = ps[p].overtaken
    /\ \A r \in Plays : r # p => ps1[r] = ps[r]

\* A voice v of object o is added and sounds.
Joins(vs, vs2, v, o) ==
    /\ v = Len(vs) + 1 /\ Len(vs2) = v
    /\ \A x \in 1..Len(vs) : vs2[x] = vs[x]
    /\ vs2[v].object = o /\ vs2[v].stage = "sounding" /\ vs2[v].control = "playing"

\* Object o has voice a, or none, and its playback is pb.
Gets(objs, objs2, o, a, pb) ==
    /\ Len(objs2) = Len(objs)
    /\ \A x \in 1..Len(objs) : x # o => objs2[x] = objs[x]
    /\ objs2[o].id = objs[o].id /\ objs2[o].active = a /\ objs2[o].playback = pb

\* Play p, which waited for the clip, starts a voice of its object.
LEMMA VoiceStarts ==
    ASSUME NEW src, NEW objs, NEW vs, NEW ps, MixHolds(src, objs, vs, ps),
           NEW p \in Plays, NEW o, NEW v, NEW ps1, Starts(ps, ps1, p, o),
           NEW objs2 \in Seq(ObjectSet), NEW vs2 \in Seq(VoiceSet), NEW ps2 \in [Plays -> PlaySet],
           Joins(vs, vs2, v, o), Gets(objs, objs2, o, v, "playing"),
           Overtakes(ps1, ps2, o)
    PROVE  MixHolds(src, objs2, vs2, ps2)
<1> USE DEF Starts, Joins, Gets
<1>1. /\ Linked(src, objs, vs) /\ Len(vs) \in Nat /\ Len(objs) \in Nat
      /\ src \in [Ids -> Nat] /\ objs \in Seq(ObjectSet) /\ vs \in Seq(VoiceSet)
      /\ \A x \in 1..Len(objs) : objs[x].id \in Ids
  <2>1. /\ Linked(src, objs, vs) /\ src \in [Ids -> Nat] /\ objs \in Seq(ObjectSet)
        /\ vs \in Seq(VoiceSet)
    BY DEF MixHolds
  <2>2. Len(vs) \in Nat /\ Len(objs) \in Nat
    BY <2>1, LenProperties
  <2>3. \A x \in 1..Len(objs) : objs[x] \in ObjectSet
    BY <2>1, ElementOfSeq
  <2> QED
    BY <2>1, <2>2, <2>3 DEF ObjectSet
<1>2. o \in 1..Len(objs)
  BY <1>1 DEF MixHolds, WaitsFor, InFlight
<1>3. Linked(src, objs2, vs2)
  <2>1. \A i \in Ids : src[i] # 0 => src[i] \in 1..Len(objs2) /\ objs2[src[i]].id = i
    BY <1>1 DEF Linked
  <2>2. \A x \in 1..Len(objs2) : objs2[x].active # 0 =>
            objs2[x].active \in 1..Len(vs2) /\ vs2[objs2[x].active].object = x
    <3> TAKE x \in 1..Len(objs2)
    <3>1. CASE x = o
      BY <1>1, <3>1
    <3>2. CASE x # o
      <4>1. objs2[x].active # 0 => objs[x].active \in 1..Len(vs) /\ vs[objs[x].active].object = x
        BY <1>1, <3>2 DEF Linked
      <4> QED
        BY <1>1, <3>2, <4>1
    <3> QED
      BY <3>1, <3>2
  <2>3. \A x \in 1..Len(vs2) : vs2[x].object \in 1..Len(objs2)
    <3> TAKE x \in 1..Len(vs2)
    <3>1. x = v \/ x \in 1..Len(vs)
      BY <1>1
    <3> QED
      BY <1>1, <1>2, <3>1 DEF Linked
  <2> QED
    BY <2>1, <2>2, <2>3 DEF Linked
<1>4. \A x \in 1..Len(objs) : /\ Registered(src, objs2, x) <=> Registered(src, objs, x)
                              /\ x # o => /\ Silent(objs2, vs2, x) <=> Silent(objs, vs, x)
                                          /\ Still(objs2, vs2, x) <=> Still(objs, vs, x)
  <2> TAKE x \in 1..Len(objs)
  <2>1. objs2[x].id = objs[x].id
    OBVIOUS
  <2>2. x # o => /\ Silent(objs2, vs2, x) <=> Silent(objs, vs, x)
                 /\ Still(objs2, vs2, x) <=> Still(objs, vs, x)
    BY <1>1 DEF Silent, Still, Linked
  <2> QED
    BY <2>1, <2>2 DEF Registered
<1>5. ASSUME NEW r \in Plays PROVE WaitsFor(src, objs2, vs2, ps2[r])
  <2>1. CASE r = p
    BY <1>2, <2>1 DEF WaitsFor, InFlight, Overtakes
  <2>2. CASE r # p
    <3>1. WaitsFor(src, objs, vs, ps[r]) /\ ps1[r] = ps[r]
      BY <2>2 DEF MixHolds
    <3>2. /\ ps2[r].stage = ps[r].stage /\ ps2[r].object = ps[r].object
          /\ InFlight(ps2[r]) <=> InFlight(ps[r])
          /\ InFlight(ps[r]) /\ ps[r].object = o => ps2[r].overtaken
          /\ ~(InFlight(ps[r]) /\ ps[r].object = o) => ps2[r].overtaken = ps[r].overtaken
      BY <3>1 DEF Overtakes, InFlight
    <3>3. InFlight(ps[r]) => ps[r].object \in 1..Len(objs)
      BY <1>1, <3>1 DEF WaitsFor
    <3>4. ps[r].object \in 0..Len(objs)
      BY <3>1 DEF WaitsFor
    <3>5. ASSUME InFlight(ps2[r]), ~ps2[r].overtaken
          PROVE  /\ Registered(src, objs2, ps2[r].object)
                 /\ ps2[r].stage = "decoding" => Silent(objs2, vs2, ps2[r].object)
      BY <3>1, <3>2, <3>3, <3>5, <1>4 DEF WaitsFor
    <3> QED
      BY <3>2, <3>3, <3>4, <3>5 DEF WaitsFor
  <2> QED
    BY <2>1, <2>2
<1>6. \A x : (Stray(ps, x) => Stray(ps2, x)) /\ (Spoilt(ps, x) => Spoilt(ps2, x))
  <2>1. ASSUME NEW r \in Plays, ps[r].stage \in {"started", "failed"}
        PROVE  /\ ps2[r].stage = ps[r].stage /\ ps2[r].object = ps[r].object
               /\ ps2[r].overtaken = ps[r].overtaken
    <3>1. r # p /\ ~InFlight(ps[r]) /\ ps1[r] = ps[r]
      BY <2>1 DEF InFlight
    <3> QED
      BY <3>1 DEF Overtakes
  <2> QED
    BY <2>1 DEF Stray, Spoilt
<1>7. ps[p].overtaken => Stray(ps2, o)
  BY DEF Stray, Overtakes, InFlight
<1>8. ~ps[p].overtaken => Registered(src, objs, o) /\ Silent(objs, vs, o)
  BY DEF MixHolds, WaitsFor, InFlight
<1>9. Sounds(src, objs2, vs2, ps2)
  <2> SUFFICES ASSUME NEW x \in 1..Len(vs2), vs2[x].stage = "sounding"
               PROVE  \/ Registered(src, objs2, vs2[x].object) /\ objs2[vs2[x].object].active = x
                      \/ Stray(ps2, vs2[x].object)
    BY DEF Sounds
  <2>1. CASE x = v
    BY <1>2, <1>4, <1>7, <1>8, <2>1 DEF MixHolds, PlaySet
  <2>2. CASE x # v
    <3>1. x \in 1..Len(vs) /\ vs2[x] = vs[x] /\ vs[x].stage = "sounding"
          /\ vs[x].object \in 1..Len(objs)
      BY <1>1, <2>2 DEF Linked
    <3>2. \/ Registered(src, objs, vs[x].object) /\ objs[vs[x].object].active = x
          \/ Stray(ps, vs[x].object)
      BY <3>1 DEF MixHolds, Sounds
    <3>3. CASE Stray(ps, vs[x].object)
      BY <1>6, <3>1, <3>3
    <3>4. CASE Registered(src, objs, vs[x].object) /\ objs[vs[x].object].active = x
      <4>1. CASE vs[x].object = o
        <5>1. ~Silent(objs, vs, o)
          BY <1>1, <3>1, <3>4, <4>1 DEF Silent
        <5> QED
          BY <1>7, <1>8, <3>1, <4>1, <5>1
      <4>2. CASE vs[x].object # o
        BY <1>4, <3>1, <3>4, <4>2
      <4> QED
        BY <4>1, <4>2
    <3> QED
      BY <3>2, <3>3, <3>4
  <2> QED
    BY <2>1, <2>2
<1>10. States(src, objs2, vs2, ps2)
  <2> SUFFICES ASSUME NEW i \in Ids, src[i] # 0
               PROVE  \/ objs2[src[i]].playback = "playing" <=> ~Still(objs2, vs2, src[i])
                      \/ objs2[src[i]].restored
                      \/ Spoilt(ps2, src[i])
    BY DEF States
  <2>1. src[i] \in 1..Len(objs)
    BY <1>1 DEF Linked
  <2>2. CASE src[i] = o
    <3>1. /\ objs2[o].active = v /\ vs2[v].stage = "sounding" /\ vs2[v].control = "playing"
          /\ v # 0 /\ objs2[o].playback = "playing"
      BY <1>1
    <3>2. ~Still(objs2, vs2, o)
      BY <3>1 DEF Silent, Still
    <3> QED
      BY <2>2, <3>1, <3>2
  <2>3. CASE src[i] # o
    <3>1. objs2[src[i]] = objs[src[i]] /\ (Still(objs2, vs2, src[i]) <=> Still(objs, vs, src[i]))
      BY <2>1, <2>3, <1>4
    <3>2. \/ objs[src[i]].playback = "playing" <=> ~Still(objs, vs, src[i])
          \/ objs[src[i]].restored
          \/ Spoilt(ps, src[i])
      BY DEF MixHolds, States
    <3> QED
      BY <1>6, <3>1, <3>2
  <2> QED
    BY <2>2, <2>3
<1> QED
  BY <1>1, <1>3, <1>5, <1>9, <1>10 DEF MixHolds

LEMMA MixTypes ==
    ASSUME NEW src, NEW objs, NEW vs, NEW ps, MixHolds(src, objs, vs, ps)
    PROVE  /\ Linked(src, objs, vs) /\ Len(vs) \in Nat /\ Len(objs) \in Nat
           /\ src \in [Ids -> Nat] /\ objs \in Seq(ObjectSet) /\ vs \in Seq(VoiceSet)
           /\ ps \in [Plays -> PlaySet]
           /\ \A x \in 1..Len(objs) : objs[x] \in ObjectSet /\ objs[x].id \in Ids
                                      /\ objs[x].active \in Nat
           /\ \A v \in 1..Len(vs) : vs[v] \in VoiceSet /\ vs[v].object \in 1..Len(objs)
<1>1. /\ Linked(src, objs, vs) /\ src \in [Ids -> Nat] /\ objs \in Seq(ObjectSet)
      /\ vs \in Seq(VoiceSet) /\ ps \in [Plays -> PlaySet]
  BY DEF MixHolds
<1>2. Len(vs) \in Nat /\ Len(objs) \in Nat
  BY <1>1, LenProperties
<1>3. \A x \in 1..Len(objs) : objs[x] \in ObjectSet
  BY <1>1, ElementOfSeq
<1>4. \A v \in 1..Len(vs) : vs[v] \in VoiceSet
  BY <1>1, ElementOfSeq
<1> QED
  BY <1>1, <1>2, <1>3, <1>4 DEF ObjectSet, Linked

LEMMA OvertakesKeeps ==
    ASSUME NEW src, NEW objs, NEW vs, NEW ps, MixHolds(src, objs, vs, ps),
           NEW ps2, NEW o, Overtakes(ps, ps2, o)
    PROVE  /\ \A x : Stray(ps, x) => Stray(ps2, x)
           /\ \A x : Spoilt(ps, x) => Spoilt(ps2, x)
           /\ \A r \in Plays :
                 /\ ps2[r].object \in 0..Len(objs)
                 /\ InFlight(ps2[r]) <=> InFlight(ps[r])
                 /\ InFlight(ps[r]) => ps[r].object \in 1..Len(objs)
                 /\ InFlight(ps2[r]) /\ ~ps2[r].overtaken =>
                       /\ ps[r].object # o
                       /\ Registered(src, objs, ps[r].object)
                       /\ ps[r].stage = "decoding" => Silent(objs, vs, ps[r].object)
<1>1. \A r \in Plays : WaitsFor(src, objs, vs, ps[r])
  BY DEF MixHolds
<1>2. ASSUME NEW r \in Plays, ~InFlight(ps[r])
      PROVE  /\ ps2[r].stage = ps[r].stage /\ ps2[r].object = ps[r].object
             /\ ps2[r].overtaken = ps[r].overtaken
  BY <1>2 DEF Overtakes
<1>3. \A r \in Plays : ps[r].stage \in {"started", "failed"} => ~InFlight(ps[r])
  BY DEF InFlight
<1>4. /\ \A x : Stray(ps, x) => Stray(ps2, x)
      /\ \A x : Spoilt(ps, x) => Spoilt(ps2, x)
  BY <1>2, <1>3 DEF Stray, Spoilt
<1>5. ASSUME NEW r \in Plays
      PROVE  /\ ps2[r].object \in 0..Len(objs)
             /\ InFlight(ps2[r]) <=> InFlight(ps[r])
             /\ InFlight(ps[r]) => ps[r].object \in 1..Len(objs)
             /\ InFlight(ps2[r]) /\ ~ps2[r].overtaken =>
                   /\ ps[r].object # o
                   /\ Registered(src, objs, ps[r].object)
                   /\ ps[r].stage = "decoding" => Silent(objs, vs, ps[r].object)
  <2>1. Len(objs) \in Nat
    BY MixTypes
  <2>2. /\ ps2[r].stage = ps[r].stage /\ ps2[r].object = ps[r].object
        /\ InFlight(ps[r]) /\ ps[r].object = o => ps2[r].overtaken
        /\ ~(InFlight(ps[r]) /\ ps[r].object = o) => ps2[r].overtaken = ps[r].overtaken
    BY DEF Overtakes
  <2>3. InFlight(ps2[r]) <=> InFlight(ps[r])
    BY <2>2 DEF InFlight
  <2> QED
    BY <1>1, <2>1, <2>2, <2>3 DEF WaitsFor
<1> QED
  BY <1>4, <1>5

\* Voice v, if any, is over.
Falls(vs, vs2, v) ==
    /\ Len(vs2) = Len(vs)
    /\ \A x \in 1..Len(vs) : /\ vs2[x].object = vs[x].object
                             /\ IF x = v THEN vs2[x].stage = "over" ELSE vs2[x] = vs[x]

\* Object o, registered under i, loses its voice, and its registration when the
\* plays that wait for it are overtaken.
LEMMA ObjectRests ==
    ASSUME NEW src, NEW objs, NEW vs, NEW ps, MixHolds(src, objs, vs, ps),
           NEW i \in Ids, NEW o, o = src[i], o # 0,
           NEW objs2 \in Seq(ObjectSet), NEW vs2 \in Seq(VoiceSet), NEW src2 \in [Ids -> Nat],
           NEW ps2 \in [Plays -> PlaySet], NEW pb, pb # "playing",
           Gets(objs, objs2, o, 0, pb), Falls(vs, vs2, objs[o].active),
           \/ src2 = src /\ ps2 = ps
           \/ src2 = [src EXCEPT ![i] = 0] /\ Overtakes(ps, ps2, o)
    PROVE  MixHolds(src2, objs2, vs2, ps2)
<1>0. /\ Len(objs2) = Len(objs) /\ Len(vs2) = Len(vs)
      /\ \A x \in 1..Len(objs) : x # o => objs2[x] = objs[x]
      /\ objs2[o].id = objs[o].id /\ objs2[o].active = 0 /\ objs2[o].playback # "playing"
      /\ \A v \in 1..Len(vs) : v # objs[o].active => vs2[v] = vs[v]
      /\ \A v \in 1..Len(vs) : v = objs[o].active =>
            vs2[v].object = vs[v].object /\ vs2[v].stage = "over"
  BY DEF Gets, Falls
<1> USE <1>0
<1>1. /\ Linked(src, objs, vs) /\ Len(vs) \in Nat /\ Len(objs) \in Nat
      /\ src \in [Ids -> Nat] /\ objs \in Seq(ObjectSet) /\ vs \in Seq(VoiceSet)
      /\ \A x \in 1..Len(objs) : objs[x].id \in Ids /\ objs[x].active \in Nat
      /\ \A v \in 1..Len(vs) : vs[v].object \in 1..Len(objs)
  BY MixTypes
<1>2. o \in 1..Len(objs) /\ objs[o].id = i /\ objs2[o].id = i
  BY <1>1 DEF Linked
<1>3. \A j \in Ids : /\ j # i => src2[j] = src[j]
                     /\ src2[j] # 0 => src2[j] = src[j]
  BY <1>1
<1>4. \A v \in 1..Len(vs) : /\ vs2[v].object = vs[v].object
                            /\ vs2[v].stage = "sounding" => vs2[v] = vs[v] /\ v # objs[o].active
  OBVIOUS
<1>5. Linked(src2, objs2, vs2)
  <2>1. \A j \in Ids : src2[j] # 0 => src2[j] \in 1..Len(objs2) /\ objs2[src2[j]].id = j
    <3> TAKE j \in Ids
    <3>1. src2[j] # 0 => src2[j] = src[j] /\ src[j] \in 1..Len(objs) /\ objs[src[j]].id = j
      BY <1>1, <1>3 DEF Linked
    <3>2. src2[j] = o => j = i
      BY <1>2, <1>3, <3>1
    <3> QED
      BY <1>2, <3>1, <3>2
  <2>2. \A x \in 1..Len(objs2) : objs2[x].active # 0 =>
            objs2[x].active \in 1..Len(vs2) /\ vs2[objs2[x].active].object = x
    <3> TAKE x \in 1..Len(objs2)
    <3>1. x # o => objs2[x] = objs[x]
      OBVIOUS
    <3> QED
      BY <1>1, <1>4, <3>1 DEF Linked
  <2>3. \A v \in 1..Len(vs2) : vs2[v].object \in 1..Len(objs2)
    BY <1>1, <1>4
  <2> QED
    BY <2>1, <2>2, <2>3 DEF Linked
<1>6. \A x \in 1..Len(objs) : x # o =>
          /\ Registered(src2, objs2, x) <=> Registered(src, objs, x)
          /\ Silent(objs2, vs2, x) <=> Silent(objs, vs, x)
          /\ Still(objs2, vs2, x) <=> Still(objs, vs, x)
  <2> TAKE x \in 1..Len(objs)
  <2>1. x # o => /\ Silent(objs2, vs2, x) <=> Silent(objs, vs, x)
                 /\ Still(objs2, vs2, x) <=> Still(objs, vs, x)
    <3> SUFFICES ASSUME x # o, objs[x].active # 0
                 PROVE  vs2[objs[x].active] = vs[objs[x].active]
      BY DEF Silent, Still
    <3>1. objs[x].active \in 1..Len(vs) /\ vs[objs[x].active].object = x
      BY <1>1 DEF Linked
    <3>2. objs[o].active # 0 => vs[objs[o].active].object = o
      BY <1>1, <1>2 DEF Linked
    <3>3. objs[x].active # objs[o].active
      BY <3>1, <3>2
    <3> QED
      BY <3>1, <3>3
  <2>2. x # o => (Registered(src2, objs2, x) <=> Registered(src, objs, x))
    <3> SUFFICES ASSUME x # o PROVE src2[objs[x].id] = x <=> src[objs[x].id] = x
      BY DEF Registered
    <3>1. objs[x].id \in Ids /\ x # 0
      BY <1>1
    <3>2. CASE objs[x].id # i
      BY <1>3, <3>1, <3>2
    <3>3. CASE objs[x].id = i
      BY <1>3, <3>1, <3>3
    <3> QED
      BY <3>2, <3>3
  <2> QED
    BY <2>1, <2>2
<1>7. Silent(objs2, vs2, o) /\ Still(objs2, vs2, o)
  BY DEF Silent, Still
<1>8. /\ \A x : Stray(ps, x) => Stray(ps2, x)
      /\ \A x : Spoilt(ps, x) => Spoilt(ps2, x)
  BY OvertakesKeeps
<1>9. ASSUME NEW r \in Plays PROVE WaitsFor(src2, objs2, vs2, ps2[r])
  <2>1. CASE src2 = src /\ ps2 = ps
    <3>1. WaitsFor(src, objs, vs, ps[r])
      BY DEF MixHolds
    <3>2. InFlight(ps[r]) => ps[r].object \in 1..Len(objs)
      BY <1>1, <3>1 DEF WaitsFor
    <3>3. Registered(src, objs2, o)
      BY <1>2, <2>1 DEF Registered
    <3> QED
      BY <1>6, <1>7, <2>1, <3>1, <3>2, <3>3 DEF WaitsFor
  <2>2. CASE src2 = [src EXCEPT ![i] = 0] /\ Overtakes(ps, ps2, o)
    <3>1. /\ ps2[r].object \in 0..Len(objs)
          /\ InFlight(ps2[r]) <=> InFlight(ps[r])
          /\ InFlight(ps[r]) => ps[r].object \in 1..Len(objs)
          /\ InFlight(ps2[r]) /\ ~ps2[r].overtaken =>
                /\ ps[r].object # o
                /\ Registered(src, objs, ps[r].object)
                /\ ps[r].stage = "decoding" => Silent(objs, vs, ps[r].object)
      BY <2>2, OvertakesKeeps
    <3>2. ps2[r].stage = ps[r].stage /\ ps2[r].object = ps[r].object
      BY <2>2 DEF Overtakes
    <3>3. ps[r].object # 0 \/ ~InFlight(ps2[r])
      BY <1>1, <3>1
    <3>4. ASSUME InFlight(ps2[r]), ~ps2[r].overtaken
          PROVE  /\ Registered(src2, objs2, ps[r].object)
                 /\ ps[r].stage = "decoding" => Silent(objs2, vs2, ps[r].object)
      BY <1>6, <3>1, <3>4
    <3> QED
      BY <3>1, <3>2, <3>3, <3>4 DEF WaitsFor
  <2> QED
    BY <2>1, <2>2
<1>10. Sounds(src2, objs2, vs2, ps2)
  <2> SUFFICES ASSUME NEW v \in 1..Len(vs2), vs2[v].stage = "sounding"
               PROVE  \/ Registered(src2, objs2, vs2[v].object) /\ objs2[vs2[v].object].active = v
                      \/ Stray(ps2, vs2[v].object)
    BY DEF Sounds
  <2>1. vs2[v] = vs[v] /\ v # objs[o].active /\ vs[v].object \in 1..Len(objs)
    BY <1>1, <1>4
  <2>2. \/ Registered(src, objs, vs[v].object) /\ objs[vs[v].object].active = v
        \/ Stray(ps, vs[v].object)
    BY <2>1 DEF MixHolds, Sounds
  <2> QED
    BY <1>6, <1>8, <2>1, <2>2
<1>11. States(src2, objs2, vs2, ps2)
  <2> SUFFICES ASSUME NEW j \in Ids, src2[j] # 0
               PROVE  \/ objs2[src2[j]].playback = "playing" <=> ~Still(objs2, vs2, src2[j])
                      \/ objs2[src2[j]].restored
                      \/ Spoilt(ps2, src2[j])
    BY DEF States
  <2>1. src2[j] = src[j] /\ src[j] \in 1..Len(objs)
    BY <1>1, <1>3 DEF Linked
  <2>2. CASE src[j] = o
    BY <1>7, <2>1, <2>2
  <2>3. CASE src[j] # o
    <3>1. \/ objs[src[j]].playback = "playing" <=> ~Still(objs, vs, src[j])
          \/ objs[src[j]].restored
          \/ Spoilt(ps, src[j])
      BY <2>1 DEF MixHolds, States
    <3> QED
      BY <1>6, <1>8, <2>1, <2>3, <3>1
  <2> QED
    BY <2>2, <2>3
<1> QED
  BY <1>5, <1>9, <1>10, <1>11 DEF MixHolds

\* A voice ends that no registered source has.
LEMMA VoiceEnds ==
    ASSUME NEW src, NEW objs, NEW vs, NEW ps, MixHolds(src, objs, vs, ps),
           NEW v \in 1..Len(vs), NEW vs2 \in Seq(VoiceSet), Len(vs2) = Len(vs),
           \A x \in 1..Len(vs) : x # v => vs2[x] = vs[x],
           vs2[v].object = vs[v].object, vs2[v].stage = "over",
           \A i \in Ids : src[i] # 0 => objs[src[i]].active # v
    PROVE  MixHolds(src, objs, vs2, ps)
<1>1. /\ Linked(src, objs, vs) /\ Len(vs) \in Nat /\ Len(objs) \in Nat
      /\ \A x \in 1..Len(objs) : objs[x].id \in Ids /\ objs[x].active \in Nat
      /\ \A x \in 1..Len(vs) : vs[x].object \in 1..Len(objs)
  BY MixTypes
<1>2. \A x \in 1..Len(vs) : /\ vs2[x].object = vs[x].object
                            /\ vs2[x].stage = "sounding" => vs[x].stage = "sounding"
  OBVIOUS
<1>3. Linked(src, objs, vs2)
  <2>1. \A x \in 1..Len(objs) : objs[x].active # 0 =>
            objs[x].active \in 1..Len(vs2) /\ vs2[objs[x].active].object = x
    BY <1>1, <1>2 DEF Linked
  <2> QED
    BY <1>1, <1>2, <2>1 DEF Linked
<1>4. \A x \in 1..Len(objs) : Silent(objs, vs, x) => Silent(objs, vs2, x)
  BY <1>1, <1>2 DEF Silent, Linked
<1>5. ASSUME NEW r \in Plays PROVE WaitsFor(src, objs, vs2, ps[r])
  <2>1. WaitsFor(src, objs, vs, ps[r])
    BY DEF MixHolds
  <2>2. InFlight(ps[r]) => ps[r].object \in 1..Len(objs)
    BY <1>1, <2>1 DEF WaitsFor
  <2> QED
    BY <2>1, <2>2, <1>4 DEF WaitsFor
<1>6. Sounds(src, objs, vs2, ps)
  BY <1>2 DEF MixHolds, Sounds
<1>7. States(src, objs, vs2, ps)
  <2> SUFFICES ASSUME NEW i \in Ids, src[i] # 0
               PROVE  Still(objs, vs2, src[i]) <=> Still(objs, vs, src[i])
    BY DEF MixHolds, States
  <2>1. objs[src[i]].active # v /\ src[i] \in 1..Len(objs)
    BY <1>1 DEF Linked
  <2>2. objs[src[i]].active # 0 => objs[src[i]].active \in 1..Len(vs)
    BY <1>1, <2>1 DEF Linked
  <2> QED
    BY <2>1, <2>2 DEF Silent, Still
<1> QED
  BY <1>3, <1>5, <1>6, <1>7 DEF MixHolds

\* A source is made under an id that has none.
LEMMA SourceJoins ==
    ASSUME NEW src, NEW objs, NEW vs, NEW ps, MixHolds(src, objs, vs, ps),
           NEW i \in Ids, src[i] = 0, NEW objs2 \in Seq(ObjectSet),
           Len(objs2) = Len(objs) + 1,
           \A x \in 1..Len(objs) : objs2[x] = objs[x],
           objs2[Len(objs) + 1].id = i, objs2[Len(objs) + 1].active = 0,
           objs2[Len(objs) + 1].playback # "playing" \/ objs2[Len(objs) + 1].restored
    PROVE  MixHolds([src EXCEPT ![i] = Len(objs) + 1], objs2, vs, ps)
<1> DEFINE n == Len(objs) + 1
           src2 == [src EXCEPT ![i] = n]
<1>1. /\ Linked(src, objs, vs) /\ Len(vs) \in Nat /\ Len(objs) \in Nat
      /\ src \in [Ids -> Nat]
      /\ \A x \in 1..Len(objs) : objs[x].id \in Ids /\ objs[x].active \in Nat
      /\ \A x \in 1..Len(vs) : vs[x].object \in 1..Len(objs)
  BY MixTypes
<1>2. /\ n \in Nat /\ n # 0 /\ \A x \in 1..Len(objs2) : x \in 1..Len(objs) \/ x = n
      /\ \A x \in 1..Len(objs) : x \in 1..Len(objs2) /\ x # n
  BY <1>1
<1>3. /\ src2 \in [Ids -> Nat] /\ src2[i] = n
      /\ \A j \in Ids : j # i => src2[j] = src[j]
  BY <1>1, <1>2
<1> HIDE DEF n, src2
<1>4. objs2[n].id = i /\ objs2[n].active = 0 /\ (objs2[n].playback # "playing" \/ objs2[n].restored)
  BY DEF n
<1>5. Linked(src2, objs2, vs)
  <2>1. \A j \in Ids : src2[j] # 0 => src2[j] \in 1..Len(objs2) /\ objs2[src2[j]].id = j
    <3> TAKE j \in Ids
    <3>1. CASE j = i
      BY <1>1, <1>3, <1>4, <3>1 DEF n
    <3>2. CASE j # i
      BY <1>1, <1>2, <1>3, <3>2 DEF Linked
    <3> QED
      BY <3>1, <3>2
  <2>2. \A x \in 1..Len(objs2) : objs2[x].active # 0 =>
            objs2[x].active \in 1..Len(vs) /\ vs[objs2[x].active].object = x
    BY <1>1, <1>2, <1>4 DEF Linked
  <2>3. \A x \in 1..Len(vs) : vs[x].object \in 1..Len(objs2)
    BY <1>1, <1>2
  <2> QED
    BY <2>1, <2>2, <2>3 DEF Linked
<1>6. \A x \in 1..Len(objs) :
          /\ Registered(src, objs, x) => Registered(src2, objs2, x)
          /\ Silent(objs2, vs, x) <=> Silent(objs, vs, x)
          /\ Still(objs2, vs, x) <=> Still(objs, vs, x)
  <2> TAKE x \in 1..Len(objs)
  <2>1. objs2[x] = objs[x] /\ objs[x].id \in Ids /\ x # 0
    BY <1>1
  <2>2. /\ Silent(objs2, vs, x) <=> Silent(objs, vs, x)
        /\ Still(objs2, vs, x) <=> Still(objs, vs, x)
    BY <2>1 DEF Silent, Still
  <2>3. Registered(src, objs, x) => Registered(src2, objs2, x)
    BY <1>3, <2>1 DEF Registered
  <2> QED
    BY <2>2, <2>3
<1>7. ASSUME NEW r \in Plays PROVE WaitsFor(src2, objs2, vs, ps[r])
  <2>1. WaitsFor(src, objs, vs, ps[r])
    BY DEF MixHolds
  <2>2. InFlight(ps[r]) => ps[r].object \in 1..Len(objs)
    BY <1>1, <2>1 DEF WaitsFor
  <2>3. ps[r].object \in 0..Len(objs2)
    BY <1>1, <2>1 DEF WaitsFor
  <2> QED
    BY <2>1, <2>2, <2>3, <1>6 DEF WaitsFor
<1>8. Sounds(src2, objs2, vs, ps)
  BY <1>1, <1>6 DEF MixHolds, Sounds
<1>9. States(src2, objs2, vs, ps)
  <2> SUFFICES ASSUME NEW j \in Ids, src2[j] # 0
               PROVE  \/ objs2[src2[j]].playback = "playing" <=> ~Still(objs2, vs, src2[j])
                      \/ objs2[src2[j]].restored
                      \/ Spoilt(ps, src2[j])
    BY DEF States
  <2>1. CASE j = i
    BY <1>3, <1>4, <2>1 DEF Silent, Still
  <2>2. CASE j # i
    <3>1. src2[j] = src[j] /\ src[j] \in 1..Len(objs)
      BY <1>1, <1>3, <2>2 DEF Linked
    <3>2. objs2[src[j]] = objs[src[j]]
      BY <3>1
    <3>3. \/ objs[src[j]].playback = "playing" <=> ~Still(objs, vs, src[j])
          \/ objs[src[j]].restored
          \/ Spoilt(ps, src[j])
      BY <2>2, <3>1 DEF MixHolds, States
    <3> QED
      BY <1>6, <3>1, <3>2, <3>3
  <2> QED
    BY <2>1, <2>2
<1>10. MixHolds(src2, objs2, vs, ps)
  BY <1>3, <1>5, <1>7, <1>8, <1>9 DEF MixHolds
<1> QED
  BY <1>10 DEF src2, n

\* What #clearSources leaves: no source is registered, the voices of those that were are
\* over, and every play that waits is overtaken.
Rested(src, objs, vs, ps, src2, objs2, vs2, ps2) ==
    /\ Len(objs2) = Len(objs) /\ Len(vs2) = Len(vs)
    /\ \A i \in Ids : src2[i] = 0
    /\ \A x \in 1..Len(objs) : objs2[x] = objs[x] \/ objs2[x].active = 0
    /\ \A v \in 1..Len(vs) :
          /\ vs2[v].object = vs[v].object
          /\ vs2[v].stage = "sounding" =>
                vs[v].stage = "sounding" /\ \A i \in Ids : src[i] # 0 => objs[src[i]].active # v
    /\ \A p \in Plays : IF InFlight(ps[p])
                         THEN /\ ps2[p].stage = ps[p].stage /\ ps2[p].object = ps[p].object
                              /\ ps2[p].overtaken
                         ELSE ps2[p] = ps[p]

LEMMA AllRest ==
    ASSUME NEW src, NEW objs, NEW vs, NEW ps, MixHolds(src, objs, vs, ps),
           NEW objs2 \in Seq(ObjectSet), NEW vs2 \in Seq(VoiceSet),
           NEW ps2 \in [Plays -> PlaySet], NEW src2 \in [Ids -> Nat],
           Rested(src, objs, vs, ps, src2, objs2, vs2, ps2)
    PROVE  MixHolds(src2, objs2, vs2, ps2)
<1>0. /\ Len(objs2) = Len(objs) /\ Len(vs2) = Len(vs)
      /\ \A i \in Ids : src2[i] = 0
      /\ \A x \in 1..Len(objs) : objs2[x] = objs[x] \/ objs2[x].active = 0
      /\ \A v \in 1..Len(vs) :
            /\ vs2[v].object = vs[v].object
            /\ vs2[v].stage = "sounding" =>
                  vs[v].stage = "sounding" /\ \A i \in Ids : src[i] # 0 => objs[src[i]].active # v
      /\ \A p \in Plays : IF InFlight(ps[p])
                           THEN /\ ps2[p].stage = ps[p].stage /\ ps2[p].object = ps[p].object
                                /\ ps2[p].overtaken
                           ELSE ps2[p] = ps[p]
  BY DEF Rested
<1> USE <1>0
<1>1. /\ Linked(src, objs, vs) /\ Len(vs) \in Nat /\ Len(objs) \in Nat
      /\ \A x \in 1..Len(objs) : objs[x].id \in Ids /\ objs[x].active \in Nat
      /\ \A x \in 1..Len(vs) : vs[x].object \in 1..Len(objs)
  BY MixTypes
<1>2. Linked(src2, objs2, vs2)
  <2>1. \A x \in 1..Len(objs2) : objs2[x].active # 0 =>
            objs2[x].active \in 1..Len(vs2) /\ vs2[objs2[x].active].object = x
    <3> TAKE x \in 1..Len(objs2)
    <3>1. objs2[x].active # 0 => objs2[x] = objs[x]
      OBVIOUS
    <3> QED
      BY <1>1, <3>1 DEF Linked
  <2>2. \A v \in 1..Len(vs2) : vs2[v].object \in 1..Len(objs2)
    BY <1>1
  <2> QED
    BY <2>1, <2>2 DEF Linked
<1>3. ASSUME NEW r \in Plays PROVE WaitsFor(src2, objs2, vs2, ps2[r])
  <2>1. WaitsFor(src, objs, vs, ps[r])
    BY DEF MixHolds
  <2>2. /\ ps2[r].object = ps[r].object
        /\ InFlight(ps2[r]) <=> InFlight(ps[r])
        /\ InFlight(ps2[r]) => ps2[r].overtaken
    BY DEF InFlight
  <2> QED
    BY <2>1, <2>2 DEF WaitsFor
<1>4. \A x : Stray(ps, x) => Stray(ps2, x)
  <2>1. \A p \in Plays : ps[p].stage = "started" => ps2[p] = ps[p]
    BY DEF InFlight
  <2> QED
    BY <2>1 DEF Stray
<1>5. Sounds(src2, objs2, vs2, ps2)
  <2> SUFFICES ASSUME NEW v \in 1..Len(vs2), vs2[v].stage = "sounding"
               PROVE  Stray(ps2, vs2[v].object)
    BY DEF Sounds
  <2>1. /\ vs[v].stage = "sounding" /\ vs2[v].object = vs[v].object
        /\ \A i \in Ids : src[i] # 0 => objs[src[i]].active # v
    OBVIOUS
  <2>2. \/ Registered(src, objs, vs[v].object) /\ objs[vs[v].object].active = v
        \/ Stray(ps, vs[v].object)
    BY <2>1 DEF MixHolds, Sounds
  <2>3. vs[v].object \in 1..Len(objs) /\ vs[v].object # 0 /\ objs[vs[v].object].id \in Ids
    BY <1>1
  <2>4. ~(Registered(src, objs, vs[v].object) /\ objs[vs[v].object].active = v)
    BY <2>1, <2>3 DEF Registered
  <2> QED
    BY <1>4, <2>1, <2>2, <2>4
<1>6. States(src2, objs2, vs2, ps2)
  BY DEF States
<1> QED
  BY <1>2, <1>3, <1>5, <1>6 DEF MixHolds

DecodeSet == [meaning : 0..MaxMeanings, state : {"pending", "done", "failed"}]

\* The clip store.
StoreHolds ==
    /\ meanings \in 0..MaxMeanings /\ meaning \in 0..meanings
    /\ decodes \in Seq(DecodeSet) /\ clipCache \in 0..Len(decodes)
    /\ CachedClipIsCurrent

FlagsTyped == oneShots \in SUBSET Ids /\ suspended \in BOOLEAN /\ silenced \in BOOLEAN

DecodesFit == \A p \in Plays : plays[p].decode \in 0..Len(decodes)

AudioInv ==
    /\ MixHolds(sources, objects, voices, plays)
    /\ StoreHolds /\ DecodesFit /\ FlagsTyped

LEMMA StoreStays ==
    ASSUME StoreHolds, UNCHANGED storeVars
    PROVE  StoreHolds'
BY DEF StoreHolds, storeVars, CachedClipIsCurrent

LEMMA DecodeResolves ==
    ASSUME AudioAssumption, StoreHolds,
           NEW p \in Plays, NEW ps \in [Plays -> PlaySet], resolveSelector(p, ps),
           \A r \in Plays : r # p => ps[r].decode \in 0..Len(decodes)
    PROVE  /\ StoreHolds' /\ DecodesFit'
           /\ plays' \in [Plays -> PlaySet]
           /\ plays'[p].stage = "decoding" /\ plays'[p].object = ps[p].object
           /\ plays'[p].overtaken = ps[p].overtaken
           /\ \A r \in Plays : r # p => plays'[r] = ps[r]
<1> DEFINE fresh == Len(decodes) + 1
<1>1. /\ decodes \in Seq(DecodeSet) /\ Len(decodes) \in Nat /\ fresh \in Nat
      /\ meaning \in 0..MaxMeanings
  BY LenProperties DEF StoreHolds, AudioAssumption
<1>2. PICK d : d = (IF clipCache # 0 THEN clipCache ELSE fresh)
  OBVIOUS
<1>3. /\ d \in Nat /\ plays' = [ps EXCEPT ![p].stage = "decoding", ![p].decode = d]
      /\ meaning' = meaning /\ meanings' = meanings
  <2>1. d \in Nat
    BY <1>1, <1>2 DEF StoreHolds
  <2>2. plays' = [ps EXCEPT ![p].stage = "decoding", ![p].decode = d]
    <3>1. CASE clipCache # 0
      BY <1>2, <3>1 DEF resolveSelector
    <3>2. CASE clipCache = 0
      BY <1>2, <3>2 DEF resolveSelector
    <3> QED
      BY <3>1, <3>2
  <2> QED
    BY <2>1, <2>2 DEF resolveSelector
<1>4. /\ StoreHolds' /\ d \in 0..Len(decodes') /\ Len(decodes) <= Len(decodes')
      /\ Len(decodes') \in Nat
  <2>1. CASE clipCache # 0
    <3>1. UNCHANGED storeVars /\ d = clipCache
      BY <1>2, <2>1 DEF resolveSelector, storeVars
    <3> QED
      BY <1>1, <3>1, StoreStays DEF StoreHolds, storeVars
  <2>2. CASE clipCache = 0
    <3>1. /\ decodes' = Append(decodes, [meaning |-> meaning, state |-> "pending"])
          /\ clipCache' = fresh /\ d = fresh
      BY <1>2, <2>2 DEF resolveSelector
    <3>2. [meaning |-> meaning, state |-> "pending"] \in DecodeSet
      BY <1>1 DEF DecodeSet
    <3>3. /\ decodes' \in Seq(DecodeSet) /\ Len(decodes') = fresh
          /\ decodes'[fresh] = [meaning |-> meaning, state |-> "pending"]
      BY <1>1, <3>1, <3>2, AppendProperties
    <3>4. CachedClipIsCurrent'
      BY <1>3, <3>1, <3>3 DEF CachedClipIsCurrent
    <3> QED
      BY <1>1, <1>3, <3>1, <3>3, <3>4 DEF StoreHolds
  <2> QED
    BY <2>1, <2>2
<1>5. /\ plays' \in [Plays -> PlaySet]
      /\ plays'[p].stage = "decoding" /\ plays'[p].object = ps[p].object
      /\ plays'[p].overtaken = ps[p].overtaken /\ plays'[p].decode = d
      /\ \A r \in Plays : r # p => plays'[r] = ps[r]
  BY <1>3 DEF PlaySet, PlayStages
<1>6. DecodesFit'
  <2> SUFFICES ASSUME NEW r \in Plays PROVE plays'[r].decode \in 0..Len(decodes')
    BY DEF DecodesFit
  <2>1. CASE r = p
    BY <1>4, <1>5, <2>1
  <2>2. CASE r # p
    BY <1>1, <1>4, <1>5, <2>2
  <2> QED
    BY <2>1, <2>2
<1> QED
  BY <1>4, <1>5, <1>6

\* sourceNode.stop() for the voice of object o.
HaltedTo(objs, vs, o, pb, control, later, objs2, vs2) ==
    /\ objs2 = [objs EXCEPT ![o] = [@ EXCEPT !.playback = pb, !.restored = FALSE]]
    /\ vs2 = halt(vs, objs[o].active, control, later)

LEMMA Halting ==
    ASSUME NEW objs \in Seq(ObjectSet), NEW vs \in Seq(VoiceSet), NEW o \in 1..Len(objs),
           objs[o].active # 0 => objs[o].active \in 1..Len(vs),
           NEW control \in {"pausing", "stopping"}, NEW pb \in {"stopped", "paused"},
           NEW later \in BOOLEAN,
           NEW objs2, NEW vs2, HaltedTo(objs, vs, o, pb, control, later, objs2, vs2)
    PROVE  /\ objs2 \in Seq(ObjectSet) /\ vs2 \in Seq(VoiceSet)
           /\ Len(objs2) = Len(objs) /\ Len(vs2) = Len(vs)
           /\ \A x \in 1..Len(objs) : /\ objs2[x].id = objs[x].id
                                      /\ objs2[x].active = objs[x].active
                                      /\ x # o => /\ objs2[x].playback = objs[x].playback
                                                  /\ objs2[x].restored = objs[x].restored
           /\ objs2[o].playback # "playing"
           /\ \A v \in 1..Len(vs) : /\ vs2[v].object = vs[v].object
                                    /\ v # objs[o].active => /\ vs2[v].stage = vs[v].stage
                                                             /\ vs2[v].control = vs[v].control
                                    /\ vs2[v].stage = "sounding" => vs[v].stage = "sounding"
                                    /\ v = objs[o].active =>
                                          /\ vs2[v].control # "playing"
                                          /\ ~later => vs2[v].stage # "sounding"
<1>1. objs[o] \in ObjectSet /\ \A x \in 1..Len(objs) : objs[x] \in ObjectSet
  BY ElementOfSeq
<1>2. PICK e : e = [objs[o] EXCEPT !.playback = pb, !.restored = FALSE]
  OBVIOUS
<1>3. /\ e \in ObjectSet /\ e.id = objs[o].id /\ e.active = objs[o].active /\ e.playback = pb
  BY <1>1, <1>2 DEF ObjectSet, Playbacks
<1>4. objs2 = [objs EXCEPT ![o] = e]
  BY <1>2 DEF HaltedTo
<1>5. /\ objs2 \in Seq(ObjectSet) /\ Len(objs2) = Len(objs)
      /\ \A x \in 1..Len(objs) : objs2[x] = IF x = o THEN e ELSE objs[x]
  BY <1>3, <1>4, ExceptSeq
<1>6. PICK a : a = objs[o].active
  OBVIOUS
<1>7. /\ vs2 \in Seq(VoiceSet) /\ Len(vs2) = Len(vs)
      /\ \A v \in 1..Len(vs) : /\ vs2[v].object = vs[v].object
                               /\ v # a => /\ vs2[v].stage = vs[v].stage
                                           /\ vs2[v].control = vs[v].control
                               /\ vs2[v].stage = "sounding" => vs[v].stage = "sounding"
                               /\ v = a => /\ vs2[v].control # "playing"
                                           /\ ~later => vs2[v].stage # "sounding"
  <2>1. CASE a = 0
    BY <1>6, <2>1 DEF HaltedTo, halt
  <2>2. CASE a # 0
    <3>1. a \in 1..Len(vs) /\ vs[a] \in VoiceSet
      BY <1>6, <2>2, ElementOfSeq
    <3>2. PICK w : w = [vs[a] EXCEPT !.control = control, !.stage = muted(vs[a].stage, later)]
      OBVIOUS
    <3>3. vs2 = [vs EXCEPT ![a] = w]
      BY <1>6, <2>2, <3>2 DEF HaltedTo, halt
    <3>4. /\ w \in VoiceSet /\ w.object = vs[a].object /\ w.control # "playing"
          /\ w.stage = "sounding" => later /\ vs[a].stage = "sounding"
      BY <3>1, <3>2 DEF VoiceSet, muted
    <3>5. /\ vs2 \in Seq(VoiceSet) /\ Len(vs2) = Len(vs)
          /\ \A v \in 1..Len(vs) : vs2[v] = IF v = a THEN w ELSE vs[v]
      BY <3>1, <3>3, <3>4, ExceptSeq
    <3> QED
      BY <3>4, <3>5
  <2> QED
    BY <2>1, <2>2
<1> QED
  BY <1>3, <1>5, <1>6, <1>7

LEMMA StoppingHolds ==
    ASSUME AudioInv, NEW i \in Ids, sources[i] # 0,
           NEW pb \in {"stopped", "paused"}, NEW control \in {"pausing", "stopping"},
           NEW later \in BOOLEAN,
           objects' = says(sources[i], pb),
           voices' = halt(voices, objects[sources[i]].active, control, later)
    PROVE  /\ MixHolds(sources, objects', voices', plays)
           /\ Len(objects') = Len(objects)
           /\ \A x \in 1..Len(objects) : objects'[x].id = objects[x].id
           /\ ~later => Silent(objects', voices', sources[i])
<1>1. /\ Linked(sources, objects, voices) /\ Len(voices) \in Nat /\ Len(objects) \in Nat
      /\ objects \in Seq(ObjectSet) /\ voices \in Seq(VoiceSet)
      /\ MixHolds(sources, objects, voices, plays)
  BY MixTypes DEF AudioInv
<1>2. PICK o : o = sources[i]
  OBVIOUS
<1>3. o \in 1..Len(objects)
  BY <1>1, <1>2 DEF Linked
<1>4. objects[o].active # 0 => objects[o].active \in 1..Len(voices)
  BY <1>1, <1>3 DEF Linked
<1>5. PICK objs2, vs2 : objs2 = objects' /\ vs2 = voices'
  OBVIOUS
<1>6. HaltedTo(objects, voices, o, pb, control, later, objs2, vs2)
  BY <1>2, <1>5 DEF HaltedTo, says
<1>7. /\ objs2 \in Seq(ObjectSet) /\ vs2 \in Seq(VoiceSet)
      /\ Len(objs2) = Len(objects) /\ Len(vs2) = Len(voices)
      /\ \A x \in 1..Len(objects) : /\ objs2[x].id = objects[x].id
                                    /\ objs2[x].active = objects[x].active
                                    /\ x # o => /\ objs2[x].playback = objects[x].playback
                                                /\ objs2[x].restored = objects[x].restored
      /\ objs2[o].playback # "playing"
      /\ \A v \in 1..Len(voices) : /\ vs2[v].object = voices[v].object
                                   /\ v # objects[o].active => /\ vs2[v].stage = voices[v].stage
                                                               /\ vs2[v].control = voices[v].control
                                   /\ vs2[v].stage = "sounding" => voices[v].stage = "sounding"
                                   /\ v = objects[o].active =>
                                         /\ vs2[v].control # "playing"
                                         /\ ~later => vs2[v].stage # "sounding"
  BY <1>1, <1>3, <1>4, <1>6, Halting
<1>8. MixHolds(sources, objs2, vs2, plays)
  <2>1. \A v \in 1..Len(voices) :
            /\ vs2[v].object = voices[v].object
            /\ v # objects[o].active => /\ vs2[v].stage = voices[v].stage
                                        /\ vs2[v].control = voices[v].control
            /\ vs2[v].stage = "sounding" => voices[v].stage = "sounding"
            /\ v = objects[o].active => \/ vs2[v].stage # "sounding"
                                        \/ vs2[v].control # "playing"
    BY <1>7
  <2>2. \A x \in 1..Len(objects) : /\ objs2[x].id = objects[x].id
                                   /\ objs2[x].active = objects[x].active
                                   /\ x # o => /\ objs2[x].playback = objects[x].playback
                                               /\ objs2[x].restored = objects[x].restored
    BY <1>7
  <2>3. /\ objs2 \in Seq(ObjectSet) /\ vs2 \in Seq(VoiceSet)
        /\ Len(objs2) = Len(objects) /\ Len(vs2) = Len(voices)
        /\ objs2[o].playback # "playing"
    BY <1>7
  <2> QED
    BY <1>1, <1>3, <2>1, <2>2, <2>3, Silences
<1>9. ~later => Silent(objs2, vs2, o)
  BY <1>3, <1>4, <1>7 DEF Silent
<1> QED
  BY <1>2, <1>5, <1>7, <1>8, <1>9

LEMMA ReplaceHolds ==
    ASSUME AudioAssumption, AudioInv, NEW p \in Plays, NEW ps \in [Plays -> PlaySet],
           plays[p].stage \notin {"started", "failed"},
           \A r \in Plays : r # p => ps[r] = plays[r],
           NEW o, o = ps[p].object, o \in 1..Len(objects),
           ps[p].decode = plays[p].decode,
           ~ps[p].overtaken => Registered(sources, objects, o),
           replaceAndResolve(p, o, ps)
    PROVE  /\ MixHolds(sources', objects', voices', plays')
           /\ StoreHolds' /\ DecodesFit' /\ oneShots' = oneShots
<1>1. /\ Linked(sources, objects, voices) /\ Len(objects) \in Nat
      /\ MixHolds(sources, objects, voices, plays)
      /\ \A x \in 1..Len(objects) : objects[x].id \in Ids
  BY MixTypes DEF AudioInv
<1>2. StoreHolds /\ Len(decodes) \in Nat
  BY LenProperties DEF AudioInv, StoreHolds
<1>3. \A r \in Plays : ps[r].decode \in 0..Len(decodes)
  BY DEF AudioInv, DecodesFit
<1>4. PICK i \in Ids : i = objects[o].id
  BY <1>1
<1>5. ASSUME NEW st \in {"returned", "failed"}, plays' = [ps EXCEPT ![p].stage = st],
             UNCHANGED <<mixerVars, storeVars>>
      PROVE  /\ MixHolds(sources', objects', voices', plays')
             /\ StoreHolds' /\ DecodesFit' /\ oneShots' = oneShots
  <2>1. /\ sources' = sources /\ objects' = objects /\ voices' = voices /\ oneShots' = oneShots
        /\ UNCHANGED storeVars
    BY <1>5 DEF mixerVars
  <2>2. /\ plays' \in [Plays -> PlaySet]
        /\ plays'[p].stage = st /\ plays'[p].object = o /\ plays'[p].decode = ps[p].decode
        /\ \A r \in Plays : r # p => plays'[r] = ps[r]
    BY <1>5 DEF PlaySet, PlayStages
  <2>3. ~InFlight(plays'[p])
    BY <2>2 DEF InFlight
  <2>4. WaitsFor(sources, objects, voices, plays'[p])
    BY <1>1, <2>2, <2>3 DEF WaitsFor
  <2>5. PICK ps2 : ps2 = plays'
    OBVIOUS
  <2>6. MixHolds(sources, objects, voices, ps2)
    BY <1>1, <2>2, <2>4, <2>5, PlayMoves
  <2>7. DecodesFit'
    BY <1>3, <2>1, <2>2 DEF DecodesFit, storeVars
  <2>8. StoreHolds'
    BY <1>2, <2>1, StoreStays
  <2> QED
    BY <2>1, <2>5, <2>6, <2>7, <2>8
<1>6. ASSUME resolveSelector(p, ps), sources' = sources, oneShots' = oneShots,
             MixHolds(sources, objects', voices', plays),
             Len(objects') = Len(objects),
             ~ps[p].overtaken => /\ Registered(sources, objects', o)
                                 /\ Silent(objects', voices', o)
      PROVE  /\ MixHolds(sources', objects', voices', plays')
             /\ StoreHolds' /\ DecodesFit' /\ oneShots' = oneShots
  <2>1. /\ StoreHolds' /\ DecodesFit'
        /\ plays' \in [Plays -> PlaySet]
        /\ plays'[p].stage = "decoding" /\ plays'[p].object = o
        /\ plays'[p].overtaken = ps[p].overtaken
        /\ \A r \in Plays : r # p => plays'[r] = ps[r]
    BY <1>2, <1>3, <1>6, DecodeResolves
  <2>2. PICK ps2, objs2, vs2 : ps2 = plays' /\ objs2 = objects' /\ vs2 = voices'
    OBVIOUS
  <2>3. WaitsFor(sources, objs2, vs2, ps2[p])
    BY <1>1, <1>6, <2>1, <2>2 DEF WaitsFor
  <2>4. MixHolds(sources, objs2, vs2, ps2)
    BY <1>6, <2>1, <2>2, <2>3, PlayMoves
  <2> QED
    BY <1>6, <2>1, <2>2, <2>4
<1>7. CASE objects[o].active # 0
  <2>1. CASE ~ps[p].replace /\ plays' = [ps EXCEPT ![p].stage = "returned"]
             /\ UNCHANGED <<mixerVars, storeVars>>
    BY <1>5, <2>1
  <2>2. CASE plays' = fail(p, ps) /\ UNCHANGED <<mixerVars, storeVars>>
    BY <1>5, <2>2 DEF fail
  <2>3. CASE /\ ~silenced /\ sources[i] # 0
             /\ stopSource(i, FALSE)
             /\ resolveSelector(p, ps)
             /\ UNCHANGED <<sources, oneShots>>
    <3>1. /\ MixHolds(sources, objects', voices', plays)
          /\ Len(objects') = Len(objects)
          /\ \A x \in 1..Len(objects) : objects'[x].id = objects[x].id
          /\ Silent(objects', voices', sources[i])
      BY <2>3, StoppingHolds DEF stopSource
    <3>2. ~ps[p].overtaken => sources[i] = o
      BY <1>4 DEF Registered
    <3>3. ~ps[p].overtaken => /\ Registered(sources, objects', o)
                              /\ Silent(objects', voices', o)
      BY <1>4, <3>1, <3>2 DEF Registered
    <3> QED
      BY <1>6, <2>3, <3>1, <3>3
  <2> QED
    BY <1>4, <1>7, <2>1, <2>2, <2>3 DEF replaceAndResolve
<1>8. CASE objects[o].active = 0
  <2>1. resolveSelector(p, ps) /\ UNCHANGED mixerVars
    BY <1>8 DEF replaceAndResolve
  <2>2. Silent(objects, voices, o)
    BY <1>8 DEF Silent
  <2> QED
    BY <1>1, <1>6, <2>1, <2>2 DEF mixerVars
<1> QED
  BY <1>7, <1>8

LEMMA OvertakeOvertakes ==
    ASSUME NEW ps \in [Plays -> PlaySet], NEW o, NEW ps2, ps2 = overtake(ps, o)
    PROVE  /\ ps2 \in [Plays -> PlaySet]
           /\ Overtakes(ps, ps2, o)
           /\ \A r \in Plays : ps2[r].decode = ps[r].decode
<1>1. \A r \in Plays : ps2[r] = IF InFlight(ps[r]) /\ ps[r].object = o
                                THEN [ps[r] EXCEPT !.overtaken = TRUE] ELSE ps[r]
  BY DEF overtake
<1>2. ASSUME NEW r \in Plays
      PROVE  /\ ps2[r] \in PlaySet /\ ps2[r].decode = ps[r].decode
             /\ ps2[r].stage = ps[r].stage /\ ps2[r].object = ps[r].object
             /\ IF InFlight(ps[r]) /\ ps[r].object = o
                THEN ps2[r].overtaken ELSE ps2[r].overtaken = ps[r].overtaken
  <2>1. ps[r] \in PlaySet
    OBVIOUS
  <2>2. CASE InFlight(ps[r]) /\ ps[r].object = o
    <3>1. ps2[r] = [ps[r] EXCEPT !.overtaken = TRUE]
      BY <1>1, <2>2
    <3> QED
      BY <2>1, <2>2, <3>1 DEF PlaySet
  <2>3. CASE ~(InFlight(ps[r]) /\ ps[r].object = o)
    <3>1. ps2[r] = ps[r]
      BY <1>1, <2>3
    <3> QED
      BY <2>1, <2>3, <3>1
  <2> QED
    BY <2>2, <2>3
<1>3. ps2 \in [Plays -> PlaySet]
  BY <1>2 DEF overtake
<1> QED
  BY <1>2, <1>3 DEF Overtakes

\* An object gets another voice, or none, and its playback changes.
ChangedTo(objs, o, a, pb, objs2) ==
    objs2 = [objs EXCEPT ![o] = [@ EXCEPT !.active = a, !.playback = pb, !.restored = FALSE]]

LEMMA Changes ==
    ASSUME NEW objs \in Seq(ObjectSet), NEW o \in 1..Len(objs), NEW a \in Nat,
           NEW pb \in Playbacks, NEW objs2, ChangedTo(objs, o, a, pb, objs2)
    PROVE  objs2 \in Seq(ObjectSet) /\ Gets(objs, objs2, o, a, pb)
<1>1. objs[o] \in ObjectSet
  BY ElementOfSeq
<1>2. PICK e : e = [objs[o] EXCEPT !.active = a, !.playback = pb, !.restored = FALSE]
  OBVIOUS
<1>3. /\ e \in ObjectSet /\ e.id = objs[o].id /\ e.active = a /\ e.playback = pb
  BY <1>1, <1>2 DEF ObjectSet
<1>4. objs2 = [objs EXCEPT ![o] = e]
  BY <1>2 DEF ChangedTo
<1>5. /\ objs2 \in Seq(ObjectSet) /\ Len(objs2) = Len(objs)
      /\ \A x \in 1..Len(objs) : objs2[x] = IF x = o THEN e ELSE objs[x]
  BY <1>3, <1>4, ExceptSeq
<1> QED
  BY <1>3, <1>5 DEF Gets

\* The nodes of voice v are disconnected.
LEMMA Disconnects ==
    ASSUME NEW vs \in Seq(VoiceSet), NEW v \in 0..Len(vs), NEW vs2, vs2 = disconnect(vs, v)
    PROVE  vs2 \in Seq(VoiceSet) /\ Falls(vs, vs2, v)
<1>1. CASE v = 0
  BY <1>1 DEF disconnect, Falls
<1>2. CASE v # 0
  <2>1. v \in 1..Len(vs) /\ vs[v] \in VoiceSet
    BY <1>2, ElementOfSeq, LenProperties
  <2>2. PICK w : w = [vs[v] EXCEPT !.stage = "over"]
    OBVIOUS
  <2>3. w \in VoiceSet /\ w.object = vs[v].object /\ w.stage = "over"
    BY <2>1, <2>2 DEF VoiceSet
  <2>4. vs2 = [vs EXCEPT ![v] = w]
    BY <1>2, <2>2 DEF disconnect
  <2>5. /\ vs2 \in Seq(VoiceSet) /\ Len(vs2) = Len(vs)
        /\ \A x \in 1..Len(vs) : vs2[x] = IF x = v THEN w ELSE vs[x]
    BY <2>1, <2>3, <2>4, ExceptSeq
  <2> QED
    BY <2>1, <2>3, <2>5 DEF Falls
<1> QED
  BY <1>1, <1>2

\* The playback of an object changes that a failed play had spoilt, or by a restore.
LEMMA SpoiltChanges ==
    ASSUME NEW src, NEW objs, NEW vs, NEW ps, MixHolds(src, objs, vs, ps),
           NEW objs2 \in Seq(ObjectSet), NEW o \in 1..Len(objs),
           Spoilt(ps, o) \/ objs2[o].restored,
           Len(objs2) = Len(objs),
           \A x \in 1..Len(objs) : /\ objs2[x].id = objs[x].id
                                   /\ objs2[x].active = objs[x].active
                                   /\ x # o => /\ objs2[x].playback = objs[x].playback
                                               /\ objs2[x].restored = objs[x].restored
    PROVE  MixHolds(src, objs2, vs, ps)
<1>1. Linked(src, objs, vs) /\ Len(objs) \in Nat /\ \A v \in 1..Len(vs) : vs[v].object \in 1..Len(objs)
  BY MixTypes
<1>2. Linked(src, objs2, vs)
  <2>1. \A i \in Ids : src[i] # 0 => src[i] \in 1..Len(objs2) /\ objs2[src[i]].id = i
    BY <1>1 DEF Linked
  <2>2. \A x \in 1..Len(objs2) : objs2[x].active # 0 =>
            objs2[x].active \in 1..Len(vs) /\ vs[objs2[x].active].object = x
    BY <1>1 DEF Linked
  <2> QED
    BY <1>1, <2>1, <2>2 DEF Linked
<1>3. \A x \in 1..Len(objs) : /\ Silent(objs2, vs, x) <=> Silent(objs, vs, x)
                              /\ Still(objs2, vs, x) <=> Still(objs, vs, x)
                              /\ Registered(src, objs2, x) <=> Registered(src, objs, x)
  BY DEF Silent, Still, Registered
<1>4. ASSUME NEW p \in Plays PROVE WaitsFor(src, objs2, vs, ps[p])
  <2>1. WaitsFor(src, objs, vs, ps[p])
    BY DEF MixHolds
  <2>2. InFlight(ps[p]) => ps[p].object \in 1..Len(objs)
    BY <1>1, <2>1 DEF WaitsFor
  <2> QED
    BY <2>1, <2>2, <1>3 DEF WaitsFor
<1>5. Sounds(src, objs2, vs, ps)
  BY <1>1, <1>3 DEF MixHolds, Sounds
<1>6. States(src, objs2, vs, ps)
  <2> SUFFICES ASSUME NEW i \in Ids, src[i] # 0, src[i] # o
               PROVE  \/ objs2[src[i]].playback = "playing" <=> ~Still(objs2, vs, src[i])
                      \/ objs2[src[i]].restored
                      \/ Spoilt(ps, src[i])
    BY DEF States
  <2>1. src[i] \in 1..Len(objs)
    BY <1>1 DEF Linked
  <2> QED
    BY <1>3, <2>1 DEF MixHolds, States
<1> QED
  BY <1>2, <1>4, <1>5, <1>6 DEF MixHolds

-----------------------------------------------------------------------------
(* Each operation keeps AudioInv.                                          *)

LEMMA AudioTypes ==
    ASSUME AudioInv
    PROVE  /\ Linked(sources, objects, voices) /\ Len(voices) \in Nat /\ Len(objects) \in Nat
           /\ sources \in [Ids -> Nat] /\ objects \in Seq(ObjectSet) /\ voices \in Seq(VoiceSet)
           /\ plays \in [Plays -> PlaySet]
           /\ MixHolds(sources, objects, voices, plays)
           /\ \A x \in 1..Len(objects) : /\ objects[x].id \in Ids
                                         /\ objects[x].active \in 0..Len(voices)
           /\ \A v \in 1..Len(voices) : voices[v].object \in 1..Len(objects)
           /\ DOMAIN voices = 1..Len(voices) /\ DOMAIN objects = 1..Len(objects)
           /\ Len(decodes) \in Nat /\ DOMAIN decodes = 1..Len(decodes)
<1>1. MixHolds(sources, objects, voices, plays) /\ decodes \in Seq(DecodeSet)
  BY DEF AudioInv, StoreHolds
<1>2. /\ Linked(sources, objects, voices) /\ Len(voices) \in Nat /\ Len(objects) \in Nat
      /\ sources \in [Ids -> Nat] /\ objects \in Seq(ObjectSet) /\ voices \in Seq(VoiceSet)
      /\ plays \in [Plays -> PlaySet]
      /\ \A x \in 1..Len(objects) : objects[x].id \in Ids /\ objects[x].active \in Nat
      /\ \A v \in 1..Len(voices) : voices[v].object \in 1..Len(objects)
  BY <1>1, MixTypes
<1>3. \A x \in 1..Len(objects) : objects[x].active \in 0..Len(voices)
  BY <1>2 DEF Linked
<1>4. DOMAIN voices = 1..Len(voices) /\ DOMAIN objects = 1..Len(objects)
      /\ Len(decodes) \in Nat /\ DOMAIN decodes = 1..Len(decodes)
  BY <1>1, <1>2, LenProperties
<1> QED
  BY <1>1, <1>2, <1>3, <1>4

LEMMA PlaySourceHolds ==
    ASSUME AudioAssumption, AudioInv, NEW p \in Plays, NEW i \in Ids, NEW replace \in BOOLEAN,
           PlaySource(p, i, replace)
    PROVE  AudioInv'
<1>1. /\ Linked(sources, objects, voices) /\ Len(objects) \in Nat
      /\ sources \in [Ids -> Nat] /\ plays \in [Plays -> PlaySet]
      /\ MixHolds(sources, objects, voices, plays)
  BY AudioTypes
<1>2. PICK o : o = sources[i]
  OBVIOUS
<1>3. PICK ps : ps = [plays EXCEPT ![p].object = o, ![p].replace = replace]
  OBVIOUS
<1>4. /\ o # 0 /\ plays[p].stage = "none" /\ suspended' = suspended /\ silenced' = silenced
      /\ IF suspended
         THEN /\ plays' = [ps EXCEPT ![p].stage = "resuming"]
              /\ UNCHANGED <<mixerVars, storeVars>>
         ELSE replaceAndResolve(p, o, ps)
  BY <1>2, <1>3 DEF PlaySource
<1>5. o \in Nat /\ o \in 1..Len(objects) /\ objects[o].id = i
  BY <1>1, <1>2, <1>4 DEF Linked
<1>6. /\ ps \in [Plays -> PlaySet]
      /\ ps[p].object = o /\ ps[p].decode = plays[p].decode
      /\ \A r \in Plays : r # p => ps[r] = plays[r]
  BY <1>1, <1>3, <1>5 DEF PlaySet
<1>7. Registered(sources, objects, o)
  BY <1>2, <1>5 DEF Registered
<1>8. CASE suspended
  <2>1. /\ plays' = [ps EXCEPT ![p].stage = "resuming"]
        /\ sources' = sources /\ objects' = objects /\ voices' = voices /\ oneShots' = oneShots
        /\ UNCHANGED storeVars
    BY <1>4, <1>8 DEF mixerVars
  <2>2. /\ plays' \in [Plays -> PlaySet] /\ plays'[p].stage = "resuming" /\ plays'[p].object = o
        /\ plays'[p].decode = ps[p].decode
        /\ \A r \in Plays : r # p => plays'[r] = ps[r]
    BY <1>6, <2>1 DEF PlaySet, PlayStages
  <2>3. WaitsFor(sources, objects, voices, plays'[p])
    BY <1>1, <1>5, <1>7, <2>2 DEF WaitsFor
  <2>4. PICK ps2 : ps2 = plays'
    OBVIOUS
  <2>5. MixHolds(sources, objects, voices, ps2)
    BY <1>1, <1>4, <1>6, <2>2, <2>3, <2>4, PlayMoves
  <2>6. StoreHolds'
    BY <2>1, StoreStays DEF AudioInv
  <2>7. DecodesFit'
    BY <1>6, <2>1, <2>2 DEF DecodesFit, AudioInv, storeVars
  <2> QED
    BY <1>4, <2>1, <2>4, <2>5, <2>6, <2>7 DEF AudioInv, FlagsTyped
<1>9. CASE ~suspended
  <2>1. /\ MixHolds(sources', objects', voices', plays')
        /\ StoreHolds' /\ DecodesFit' /\ oneShots' = oneShots
    BY <1>4, <1>5, <1>6, <1>7, <1>9, ReplaceHolds
  <2> QED
    BY <1>4, <2>1 DEF AudioInv, FlagsTyped
<1> QED
  BY <1>8, <1>9 DEF AudioInv, FlagsTyped

LEMMA ContextResumesHolds ==
    ASSUME AudioAssumption, AudioInv, NEW p \in Plays, ContextResumes(p)
    PROVE  AudioInv'
<1>1. /\ plays \in [Plays -> PlaySet] /\ Len(objects) \in Nat
      /\ WaitsFor(sources, objects, voices, plays[p])
  BY AudioTypes DEF AudioInv, MixHolds
<1>2. /\ plays[p].stage = "resuming" /\ suspended' = FALSE /\ silenced' = silenced
      /\ replaceAndResolve(p, plays[p].object, plays)
  BY DEF ContextResumes
<1>3. /\ plays[p].object \in 1..Len(objects)
      /\ ~plays[p].overtaken => Registered(sources, objects, plays[p].object)
  BY <1>1, <1>2 DEF WaitsFor, InFlight
<1>4. /\ MixHolds(sources', objects', voices', plays')
      /\ StoreHolds' /\ DecodesFit' /\ oneShots' = oneShots
  BY <1>1, <1>2, <1>3, ReplaceHolds
<1> QED
  BY <1>2, <1>4 DEF AudioInv, FlagsTyped

LEMMA ClipArrivesHolds ==
    ASSUME AudioInv, NEW p \in Plays, ClipArrives(p)
    PROVE  AudioInv'
<1>1. /\ plays \in [Plays -> PlaySet] /\ Len(objects) \in Nat /\ Len(voices) \in Nat
      /\ voices \in Seq(VoiceSet) /\ objects \in Seq(ObjectSet)
      /\ MixHolds(sources, objects, voices, plays)
      /\ WaitsFor(sources, objects, voices, plays[p])
  BY AudioTypes DEF AudioInv, MixHolds
<1>2. PICK o : o = plays[p].object
  OBVIOUS
<1>3. PICK v : v = Len(voices) + 1
  OBVIOUS
<1>4. PICK ps1 : ps1 = [plays EXCEPT ![p].stage = "started"]
  OBVIOUS
<1>5. /\ plays[p].stage = "decoding"
      /\ voices' = Append(voices, [object |-> o, stage |-> "sounding", control |-> "playing"])
      /\ ChangedTo(objects, o, v, "playing", objects')
      /\ plays' = overtake(ps1, o)
      /\ UNCHANGED <<sources, oneShots, suspended, silenced>> /\ UNCHANGED storeVars
  BY <1>2, <1>3, <1>4 DEF ClipArrives, ChangedTo
<1>6. o \in 1..Len(objects) /\ v \in Nat
  BY <1>1, <1>2, <1>3, <1>5 DEF WaitsFor, InFlight
<1>7. /\ ps1 \in [Plays -> PlaySet]
      /\ ps1[p].stage = "started" /\ ps1[p].object = o /\ ps1[p].overtaken = plays[p].overtaken
      /\ ps1[p].decode = plays[p].decode
      /\ \A r \in Plays : r # p => ps1[r] = plays[r]
  BY <1>1, <1>2, <1>4 DEF PlaySet, PlayStages
<1>8. PICK ps2, objs2, vs2 : ps2 = plays' /\ objs2 = objects' /\ vs2 = voices'
  OBVIOUS
<1>9. /\ ps2 \in [Plays -> PlaySet] /\ Overtakes(ps1, ps2, o)
      /\ \A r \in Plays : ps2[r].decode = ps1[r].decode
  BY <1>5, <1>7, <1>8, OvertakeOvertakes
<1>10. [object |-> o, stage |-> "sounding", control |-> "playing"] \in VoiceSet
  BY <1>1, <1>6 DEF VoiceSet
<1>11. /\ vs2 \in Seq(VoiceSet) /\ Len(vs2) = v
       /\ \A x \in 1..Len(voices) : vs2[x] = voices[x]
       /\ vs2[v].object = o /\ vs2[v].stage = "sounding" /\ vs2[v].control = "playing"
  <2>1. PICK w : w = [object |-> o, stage |-> "sounding", control |-> "playing"]
    OBVIOUS
  <2>2. w \in VoiceSet /\ w.object = o /\ w.stage = "sounding" /\ w.control = "playing"
    BY <1>10, <2>1
  <2>3. vs2 = Append(voices, w)
    BY <1>5, <1>8, <2>1
  <2>4. vs2 \in Seq(VoiceSet) /\ Len(vs2) = v /\ vs2[v] = w
        /\ \A x \in 1..Len(voices) : vs2[x] = voices[x]
    BY <1>1, <1>3, <2>2, <2>3, AppendProperties
  <2> QED
    BY <2>2, <2>4
<1>12. ChangedTo(objects, o, v, "playing", objs2) /\ "playing" \in Playbacks
  BY <1>5, <1>8 DEF Playbacks
<1>13. /\ objs2 \in Seq(ObjectSet) /\ Len(objs2) = Len(objects)
       /\ \A x \in 1..Len(objects) : x # o => objs2[x] = objects[x]
       /\ objs2[o].id = objects[o].id /\ objs2[o].active = v /\ objs2[o].playback = "playing"
  BY <1>1, <1>6, <1>12, Changes DEF Gets
<1>14. MixHolds(sources, objs2, vs2, ps2)
  <2>1. Starts(plays, ps1, p, o)
    BY <1>2, <1>5, <1>7 DEF Starts
  <2>2. Joins(voices, vs2, v, o)
    BY <1>3, <1>11 DEF Joins
  <2>3. Gets(objects, objs2, o, v, "playing")
    BY <1>13 DEF Gets
  <2>4. Overtakes(ps1, ps2, o) /\ ps2 \in [Plays -> PlaySet]
    BY <1>9
  <2>5. objs2 \in Seq(ObjectSet) /\ vs2 \in Seq(VoiceSet)
    BY <1>11, <1>13
  <2> QED
    BY <1>1, <2>1, <2>2, <2>3, <2>4, <2>5, VoiceStarts
<1>15. StoreHolds' /\ decodes' = decodes
  BY <1>5, StoreStays DEF AudioInv, storeVars
<1>16. DecodesFit'
  <2>1. \A r \in Plays : ps2[r].decode = plays[r].decode
    BY <1>7, <1>9
  <2> QED
    BY <1>8, <1>15, <2>1 DEF AudioInv, DecodesFit
<1> QED
  BY <1>5, <1>8, <1>14, <1>15, <1>16 DEF AudioInv, FlagsTyped

\* What an operation that leaves the clip store alone has to keep.
LEMMA MixIsEnough ==
    ASSUME AudioInv, MixHolds(sources', objects', voices', plays'),
           oneShots' \in SUBSET Ids, suspended' \in BOOLEAN, silenced' \in BOOLEAN,
           UNCHANGED storeVars, \A r \in Plays : plays'[r].decode = plays[r].decode
    PROVE  AudioInv'
<1>1. StoreHolds'
  BY StoreStays DEF AudioInv
<1>2. DecodesFit'
  BY DEF AudioInv, DecodesFit, storeVars
<1> QED
  BY <1>1, <1>2 DEF AudioInv, FlagsTyped

LEMMA PlayFailsHolds ==
    ASSUME AudioInv, NEW p \in Plays, PlayFails(p)
    PROVE  AudioInv'
<1>1. /\ plays \in [Plays -> PlaySet] /\ Len(objects) \in Nat /\ Len(voices) \in Nat
      /\ voices \in Seq(VoiceSet) /\ objects \in Seq(ObjectSet)
      /\ MixHolds(sources, objects, voices, plays)
      /\ WaitsFor(sources, objects, voices, plays[p])
  BY AudioTypes DEF AudioInv, MixHolds
<1>2. PICK o : o = plays[p].object
  OBVIOUS
<1>3. PICK ps2, objs2 : ps2 = plays' /\ objs2 = objects'
  OBVIOUS
<1>4. /\ plays[p].stage \in {"resuming", "decoding"}
      /\ \/ objs2 = objects
         \/ plays[p].stage = "decoding" /\ objs2 = says(o, "stopped")
      /\ ps2 = [plays EXCEPT ![p].stage = "failed"]
      /\ sources' = sources /\ voices' = voices
      /\ UNCHANGED <<oneShots, suspended, silenced>> /\ UNCHANGED storeVars
  BY <1>2, <1>3 DEF PlayFails, fail
<1>5. plays[p].stage = "decoding" /\ ~plays[p].overtaken => Silent(objects, voices, o)
  BY <1>1, <1>2, <1>4 DEF WaitsFor, InFlight
<1>6. o \in 1..Len(objects)
  BY <1>1, <1>2, <1>4 DEF WaitsFor, InFlight
<1>7. /\ ps2 \in [Plays -> PlaySet]
      /\ ps2[p].stage = "failed" /\ ps2[p].object = o /\ ps2[p].overtaken = plays[p].overtaken
      /\ ps2[p].decode = plays[p].decode
      /\ \A r \in Plays : r # p => ps2[r] = plays[r]
  BY <1>1, <1>2, <1>4 DEF PlaySet, PlayStages
<1>8. WaitsFor(sources, objects, voices, ps2[p])
  BY <1>1, <1>6, <1>7 DEF WaitsFor, InFlight
<1>9. plays[p].stage \notin {"started", "failed"}
  BY <1>4
<1>10. MixHolds(sources, objects, voices, ps2)
  BY <1>1, <1>7, <1>8, <1>9, PlayMoves
<1>11. CASE objs2 = objects
  BY <1>3, <1>4, <1>7, <1>10, <1>11, MixIsEnough DEF AudioInv, FlagsTyped
<1>12. CASE plays[p].stage = "decoding" /\ objs2 = says(o, "stopped")
  <2>1. objects[o] \in ObjectSet
    BY <1>1, <1>6, ElementOfSeq
  <2>2. PICK e : e = [objects[o] EXCEPT !.playback = "stopped", !.restored = FALSE]
    OBVIOUS
  <2>3. /\ e \in ObjectSet /\ e.id = objects[o].id /\ e.active = objects[o].active
        /\ e.playback = "stopped"
    BY <2>1, <2>2 DEF ObjectSet, Playbacks
  <2>4. objs2 = [objects EXCEPT ![o] = e]
    BY <1>12, <2>2 DEF says
  <2>5. /\ objs2 \in Seq(ObjectSet) /\ Len(objs2) = Len(objects)
        /\ \A x \in 1..Len(objects) : objs2[x] = IF x = o THEN e ELSE objects[x]
    BY <1>1, <1>6, <2>3, <2>4, ExceptSeq
  <2>6. \A x \in 1..Len(objects) : /\ objs2[x].id = objects[x].id
                                   /\ objs2[x].active = objects[x].active
                                   /\ x # o => /\ objs2[x].playback = objects[x].playback
                                               /\ objs2[x].restored = objects[x].restored
    BY <2>3, <2>5
  <2>7. MixHolds(sources, objs2, voices, ps2)
    <3>1. CASE plays[p].overtaken
      <4>1. Spoilt(ps2, o)
        BY <1>7, <3>1 DEF Spoilt
      <4> QED
        BY <1>6, <1>10, <2>5, <2>6, <4>1, SpoiltChanges
    <3>2. CASE ~plays[p].overtaken
      <4>1. Silent(objects, voices, o)
        BY <1>5, <1>12, <3>2
      <4>2. objs2[o].playback # "playing"
        BY <1>6, <2>3, <2>5
      <4>3. \A v \in 1..Len(voices) : v = objects[o].active => voices[v].stage # "sounding"
        BY <4>1 DEF Silent
      <4> QED
        BY <1>1, <1>6, <1>10, <2>5, <2>6, <4>2, <4>3, Silences
    <3> QED
      BY <3>1, <3>2
  <2> QED
    BY <1>3, <1>4, <1>7, <2>7, MixIsEnough DEF AudioInv, FlagsTyped
<1> QED
  BY <1>4, <1>11, <1>12

LEMMA AddHolds ==
    ASSUME AudioInv, NEW i \in Ids, NEW state \in Playbacks, NEW restored \in BOOLEAN,
           state # "playing" \/ restored, add(i, state, restored),
           UNCHANGED <<oneShots, voices, plays, suspended, silenced, storeVars>>
    PROVE  AudioInv'
<1>1. /\ objects \in Seq(ObjectSet) /\ Len(objects) \in Nat
      /\ MixHolds(sources, objects, voices, plays)
  BY AudioTypes
<1>2. PICK e : e = [id |-> i, active |-> 0, playback |-> state, restored |-> restored]
  OBVIOUS
<1>3. e \in ObjectSet /\ e.id = i /\ e.active = 0 /\ (e.playback # "playing" \/ e.restored)
  BY <1>2 DEF ObjectSet
<1>4. PICK objs2 : objs2 = objects'
  OBVIOUS
<1>5. /\ sources[i] = 0 /\ objs2 = Append(objects, e)
      /\ sources' = [sources EXCEPT ![i] = Len(objs2)]
      /\ voices' = voices /\ plays' = plays
  BY <1>2, <1>4 DEF add
<1>6. /\ objs2 \in Seq(ObjectSet) /\ Len(objs2) = Len(objects) + 1
      /\ objs2[Len(objects) + 1] = e
      /\ \A x \in 1..Len(objects) : objs2[x] = objects[x]
  BY <1>1, <1>3, <1>5, AppendProperties
<1>7. MixHolds([sources EXCEPT ![i] = Len(objects) + 1], objs2, voices, plays)
  BY <1>1, <1>3, <1>5, <1>6, SourceJoins
<1> QED
  BY <1>4, <1>5, <1>6, <1>7, MixIsEnough DEF AudioInv, FlagsTyped

LEMMA UpsertSourceHolds ==
    ASSUME AudioInv, NEW i \in Ids, UpsertSource(i)
    PROVE  AudioInv'
<1>1. add(i, "idle", FALSE) /\ "idle" \in Playbacks
  BY DEF UpsertSource, Playbacks
<1>2. UNCHANGED <<oneShots, voices, plays, suspended, silenced, storeVars>>
  BY DEF UpsertSource
<1> QED
  BY <1>1, <1>2, AddHolds

LEMMA RestoreSourceHolds ==
    ASSUME AudioInv, NEW i \in Ids, NEW state \in Playbacks, RestoreSource(i, state)
    PROVE  AudioInv'
<1>1. UNCHANGED <<oneShots, voices, plays, suspended, silenced, storeVars>>
  BY DEF RestoreSource
<1>2. CASE add(i, state, TRUE)
  BY <1>1, <1>2, AddHolds
<1>3. CASE /\ sources[i] # 0 /\ sources' = sources
           /\ objects' = [objects EXCEPT ![sources[i]] = [@ EXCEPT !.playback = state,
                                                                   !.restored = TRUE]]
  <2>1. /\ Linked(sources, objects, voices) /\ objects \in Seq(ObjectSet)
        /\ MixHolds(sources, objects, voices, plays)
    BY AudioTypes
  <2>2. PICK o : o = sources[i]
    OBVIOUS
  <2>3. o \in 1..Len(objects)
    BY <1>3, <2>1, <2>2 DEF Linked
  <2>4. PICK e : e = [objects[o] EXCEPT !.playback = state, !.restored = TRUE]
    OBVIOUS
  <2>5. /\ e \in ObjectSet /\ e.id = objects[o].id /\ e.active = objects[o].active
        /\ e.restored
    <3>1. objects[o] \in ObjectSet
      BY <2>1, <2>3, ElementOfSeq
    <3> QED
      BY <2>4, <3>1 DEF ObjectSet
  <2>6. PICK objs2 : objs2 = objects'
    OBVIOUS
  <2>7. objs2 = [objects EXCEPT ![o] = e]
    BY <1>3, <2>2, <2>4, <2>6
  <2>8. /\ objs2 \in Seq(ObjectSet) /\ Len(objs2) = Len(objects)
        /\ \A x \in 1..Len(objects) : objs2[x] = IF x = o THEN e ELSE objects[x]
    BY <2>1, <2>3, <2>5, <2>7, ExceptSeq
  <2>9. /\ objs2[o].restored
        /\ \A x \in 1..Len(objects) : /\ objs2[x].id = objects[x].id
                                      /\ objs2[x].active = objects[x].active
                                      /\ x # o => /\ objs2[x].playback = objects[x].playback
                                                  /\ objs2[x].restored = objects[x].restored
    BY <2>3, <2>5, <2>8
  <2>10. MixHolds(sources, objs2, voices, plays)
    BY <2>1, <2>3, <2>8, <2>9, SpoiltChanges
  <2> QED
    BY <1>1, <1>3, <2>6, <2>10, MixIsEnough DEF AudioInv, FlagsTyped
<1> QED
  BY <1>2, <1>3 DEF RestoreSource

LEMMA MarkSwitchHolds ==
    ASSUME AudioInv, ContextSwitches \/ \E i \in Ids : MarkTransient(i)
    PROVE  AudioInv'
<1>1. /\ sources' = sources /\ objects' = objects /\ voices' = voices /\ plays' = plays
      /\ silenced' = silenced /\ UNCHANGED storeVars
      /\ oneShots' \in SUBSET Ids
  BY DEF ContextSwitches, MarkTransient, mixerVars, AudioInv, FlagsTyped
<1>2. suspended' \in BOOLEAN
  BY DEF ContextSwitches, MarkTransient, AudioInv, FlagsTyped
<1> QED
  BY <1>1, <1>2, MixIsEnough DEF AudioInv, FlagsTyped

LEMMA PauseStopHolds ==
    ASSUME AudioInv, NEW i \in Ids, PauseSource(i) \/ \E later \in BOOLEAN : StopSource(i, later)
    PROVE  AudioInv'
<1>1. /\ sources[i] # 0
      /\ UNCHANGED <<sources, oneShots, plays, suspended, silenced>> /\ UNCHANGED storeVars
  BY DEF PauseSource, StopSource
<1>2. PICK pb \in {"stopped", "paused"}, control \in {"pausing", "stopping"}, later \in BOOLEAN :
          /\ objects' = says(sources[i], pb)
          /\ voices' = halt(voices, objects[sources[i]].active, control, later)
  <2>1. CASE PauseSource(i)
    BY <2>1 DEF PauseSource
  <2>2. ASSUME NEW later \in BOOLEAN, StopSource(i, later)
        PROVE  /\ objects' = says(sources[i], "stopped")
               /\ voices' = halt(voices, objects[sources[i]].active, "stopping", later)
    BY <2>2 DEF StopSource, stopSource
  <2> QED
    BY <2>1, <2>2
<1>3. MixHolds(sources, objects', voices', plays)
  BY <1>1, <1>2, StoppingHolds
<1>4. sources' = sources /\ plays' = plays
  BY <1>1
<1> QED
  BY <1>1, <1>3, <1>4, MixIsEnough DEF AudioInv, FlagsTyped

LEMMA RemoveSourceHolds ==
    ASSUME AudioInv, NEW i \in Ids, RemoveSource(i)
    PROVE  AudioInv'
<1>1. /\ Linked(sources, objects, voices) /\ sources \in [Ids -> Nat]
      /\ voices \in Seq(VoiceSet) /\ objects \in Seq(ObjectSet) /\ plays \in [Plays -> PlaySet]
      /\ MixHolds(sources, objects, voices, plays)
      /\ \A x \in 1..Len(objects) : objects[x].active \in 0..Len(voices)
  BY AudioTypes
<1>2. PICK o : o = sources[i]
  OBVIOUS
<1>3. PICK src2, objs2, vs2, ps2 :
          src2 = sources' /\ objs2 = objects' /\ vs2 = voices' /\ ps2 = plays'
  OBVIOUS
<1>4. /\ o # 0 /\ vs2 = disconnect(voices, objects[o].active)
      /\ ChangedTo(objects, o, 0, "stopped", objs2)
      /\ src2 = [sources EXCEPT ![i] = 0] /\ oneShots' = oneShots \ {i}
      /\ ps2 = overtake(plays, o)
      /\ UNCHANGED <<suspended, silenced>> /\ UNCHANGED storeVars
  BY <1>2, <1>3 DEF RemoveSource, ChangedTo
<1>5. o \in 1..Len(objects)
  BY <1>1, <1>2, <1>4 DEF Linked
<1>6. vs2 \in Seq(VoiceSet) /\ Falls(voices, vs2, objects[o].active)
  BY <1>1, <1>4, <1>5, Disconnects
<1>7. "stopped" \in Playbacks
  BY DEF Playbacks
<1>8. objs2 \in Seq(ObjectSet) /\ Gets(objects, objs2, o, 0, "stopped")
  BY <1>1, <1>4, <1>5, <1>7, Changes
<1>9. /\ ps2 \in [Plays -> PlaySet] /\ Overtakes(plays, ps2, o)
      /\ \A r \in Plays : ps2[r].decode = plays[r].decode
  BY <1>1, <1>4, OvertakeOvertakes
<1>10. src2 \in [Ids -> Nat]
  BY <1>1, <1>4
<1>11. MixHolds(src2, objs2, vs2, ps2)
  BY <1>1, <1>2, <1>4, <1>6, <1>8, <1>9, <1>10, ObjectRests
<1> QED
  BY <1>3, <1>4, <1>9, <1>11, MixIsEnough DEF AudioInv, FlagsTyped

LEMMA EndedHolds ==
    ASSUME AudioInv, NEW v \in DOMAIN voices, Ended(v)
    PROVE  AudioInv'
<1>1. /\ Linked(sources, objects, voices) /\ sources \in [Ids -> Nat]
      /\ voices \in Seq(VoiceSet) /\ objects \in Seq(ObjectSet) /\ plays \in [Plays -> PlaySet]
      /\ MixHolds(sources, objects, voices, plays)
      /\ \A x \in 1..Len(objects) : objects[x].id \in Ids /\ objects[x].active \in 0..Len(voices)
      /\ v \in 1..Len(voices) /\ v \in 0..Len(voices) /\ v # 0
      /\ voices[v].object \in 1..Len(objects)
  <2>1. v \in 1..Len(voices) /\ Len(voices) \in Nat
    BY AudioTypes
  <2>2. v \in 0..Len(voices) /\ v # 0
    BY <2>1
  <2>3. voices[v].object \in 1..Len(objects)
    BY <2>1, AudioTypes
  <2> QED
    BY <2>1, <2>2, <2>3, AudioTypes
<1>2. PICK i \in Ids : i = objects[voices[v].object].id
  BY <1>1
<1>3. PICK o : o = sources[i]
  OBVIOUS
<1>4. PICK src2, objs2, vs2, ps2 :
          src2 = sources' /\ objs2 = objects' /\ vs2 = voices' /\ ps2 = plays'
  OBVIOUS
<1>5. PICK pb : pb = IF voices[v].control = "pausing" THEN "paused" ELSE "stopped"
  OBVIOUS
<1>6. /\ vs2 = disconnect(voices, v)
      /\ UNCHANGED <<suspended, silenced>> /\ UNCHANGED storeVars
      /\ IF ~handlesEnd(o, v)
         THEN src2 = sources /\ objs2 = objects /\ ps2 = plays /\ oneShots' = oneShots
         ELSE /\ ChangedTo(objects, o, 0, pb, objs2)
              /\ \/ src2 = sources /\ ps2 = plays /\ oneShots' = oneShots
                 \/ /\ src2 = [sources EXCEPT ![i] = 0] /\ oneShots' = oneShots \ {i}
                    /\ ps2 = overtake(plays, o)
  BY <1>2, <1>3, <1>4, <1>5 DEF Ended, ChangedTo
<1>7. vs2 \in Seq(VoiceSet) /\ Falls(voices, vs2, v)
  BY <1>1, <1>6, Disconnects
<1>8. CASE handlesEnd(o, v)
  <2>1. o # 0 /\ objects[o].active = v
    BY <1>8 DEF handlesEnd
  <2>2. o \in 1..Len(objects)
    BY <1>1, <1>3, <2>1 DEF Linked
  <2>3. pb \in Playbacks /\ pb # "playing"
    BY <1>5 DEF Playbacks
  <2>4. objs2 \in Seq(ObjectSet) /\ Gets(objects, objs2, o, 0, pb)
    BY <1>1, <1>6, <1>8, <2>2, <2>3, Changes
  <2>5. /\ src2 \in [Ids -> Nat] /\ ps2 \in [Plays -> PlaySet]
        /\ oneShots' \in SUBSET Ids
        /\ \A r \in Plays : ps2[r].decode = plays[r].decode
        /\ \/ src2 = sources /\ ps2 = plays
           \/ src2 = [sources EXCEPT ![i] = 0] /\ Overtakes(plays, ps2, o)
    <3>1. CASE src2 = sources /\ ps2 = plays /\ oneShots' = oneShots
      BY <1>1, <3>1 DEF AudioInv, FlagsTyped
    <3>2. CASE /\ src2 = [sources EXCEPT ![i] = 0] /\ oneShots' = oneShots \ {i}
               /\ ps2 = overtake(plays, o)
      <4>1. /\ ps2 \in [Plays -> PlaySet] /\ Overtakes(plays, ps2, o)
            /\ \A r \in Plays : ps2[r].decode = plays[r].decode
        BY <1>1, <3>2, OvertakeOvertakes
      <4> QED
        BY <1>1, <3>2, <4>1 DEF AudioInv, FlagsTyped
    <3> QED
      BY <1>6, <1>8, <3>1, <3>2
  <2>6. MixHolds(src2, objs2, vs2, ps2)
    BY <1>1, <1>3, <1>7, <2>1, <2>3, <2>4, <2>5, ObjectRests
  <2> QED
    BY <1>4, <1>6, <2>5, <2>6, MixIsEnough DEF AudioInv, FlagsTyped
<1>9. CASE ~handlesEnd(o, v)
  <2>1. ASSUME NEW j \in Ids, sources[j] # 0, objects[sources[j]].active = v PROVE FALSE
    <3>1. sources[j] \in 1..Len(objects) /\ objects[sources[j]].id = j
      BY <1>1, <2>1 DEF Linked
    <3>2. voices[v].object = sources[j]
      BY <1>1, <2>1, <3>1 DEF Linked
    <3>3. o = sources[j]
      BY <1>2, <1>3, <3>1, <3>2
    <3> QED
      BY <1>9, <2>1, <3>3 DEF handlesEnd
  <2>2. /\ Len(vs2) = Len(voices)
        /\ \A x \in 1..Len(voices) : x # v => vs2[x] = voices[x]
        /\ vs2[v].object = voices[v].object /\ vs2[v].stage = "over"
    BY <1>1, <1>7 DEF Falls
  <2>3. MixHolds(sources, objects, vs2, plays)
    BY <1>1, <1>7, <2>1, <2>2, VoiceEnds
  <2>4. src2 = sources /\ objs2 = objects /\ ps2 = plays /\ oneShots' = oneShots
    BY <1>6, <1>9
  <2> QED
    BY <1>4, <1>6, <2>3, <2>4, MixIsEnough DEF AudioInv, FlagsTyped
<1> QED
  BY <1>8, <1>9

LEMMA ClearingHolds ==
    ASSUME AudioInv, clearSources
    PROVE  /\ MixHolds(sources', objects', voices', plays') /\ oneShots' = {}
           /\ \A r \in Plays : plays'[r].decode = plays[r].decode
<1>1. /\ Linked(sources, objects, voices) /\ sources \in [Ids -> Nat]
      /\ Len(objects) \in Nat /\ Len(voices) \in Nat
      /\ voices \in Seq(VoiceSet) /\ objects \in Seq(ObjectSet) /\ plays \in [Plays -> PlaySet]
      /\ MixHolds(sources, objects, voices, plays)
      /\ DOMAIN voices = 1..Len(voices) /\ DOMAIN objects = 1..Len(objects)
  BY AudioTypes
<1>2. PICK known : known = {sources[i] : i \in Ids}
  OBVIOUS
<1>3. PICK src2, objs2, vs2, ps2 :
          src2 = sources' /\ objs2 = objects' /\ vs2 = voices' /\ ps2 = plays'
  OBVIOUS
<1>4. /\ vs2 = [v \in 1..Len(voices) |->
                  IF \E o \in known \ {0} : objects[o].active = v
                  THEN [voices[v] EXCEPT !.stage = "over"] ELSE voices[v]]
      /\ objs2 = [o \in 1..Len(objects) |->
                    IF o \in known THEN [objects[o] EXCEPT !.active = 0, !.playback = "stopped",
                                                           !.restored = FALSE]
                    ELSE objects[o]]
      /\ src2 = [i \in Ids |-> 0] /\ oneShots' = {}
      /\ ps2 = [p \in Plays |-> IF InFlight(plays[p]) THEN [plays[p] EXCEPT !.overtaken = TRUE]
                                ELSE plays[p]]
  BY <1>1, <1>2, <1>3 DEF clearSources
<1>5. ASSUME NEW x \in 1..Len(objects)
      PROVE  objs2[x] \in ObjectSet /\ (objs2[x] = objects[x] \/ objs2[x].active = 0)
  <2>1. objects[x] \in ObjectSet
    BY <1>1, ElementOfSeq
  <2>2. CASE x \in known
    <3>1. objs2[x] = [objects[x] EXCEPT !.active = 0, !.playback = "stopped", !.restored = FALSE]
      BY <1>4, <2>2
    <3>2. PICK e : e = objs2[x]
      OBVIOUS
    <3>3. e = [objects[x] EXCEPT !.active = 0, !.playback = "stopped", !.restored = FALSE]
      BY <3>1, <3>2
    <3>4. e.active = 0 /\ e \in ObjectSet
      BY <2>1, <3>3 DEF ObjectSet, Playbacks
    <3> QED
      BY <3>2, <3>4
  <2>3. CASE x \notin known
    BY <1>4, <2>1, <2>3
  <2> QED
    BY <2>2, <2>3
<1>6. objs2 \in Seq(ObjectSet) /\ Len(objs2) = Len(objects)
  <2>1. objs2 \in [1..Len(objects) -> ObjectSet]
    BY <1>4, <1>5
  <2> QED
    BY <1>1, <2>1, SeqDef, LenProperties
<1>7. ASSUME NEW v \in 1..Len(voices)
      PROVE  /\ vs2[v] \in VoiceSet /\ vs2[v].object = voices[v].object
             /\ vs2[v].stage = "sounding" =>
                   /\ voices[v].stage = "sounding"
                   /\ \A i \in Ids : sources[i] # 0 => objects[sources[i]].active # v
  <2>1. voices[v] \in VoiceSet
    BY <1>1, ElementOfSeq
  <2>2. CASE \E o \in known \ {0} : objects[o].active = v
    <3>1. vs2[v] = [voices[v] EXCEPT !.stage = "over"]
      BY <1>4, <2>2
    <3> QED
      BY <2>1, <3>1 DEF VoiceSet
  <2>3. CASE ~\E o \in known \ {0} : objects[o].active = v
    <3>1. vs2[v] = voices[v]
      BY <1>4, <2>3
    <3>2. \A i \in Ids : sources[i] # 0 => objects[sources[i]].active # v
      BY <1>2, <2>3
    <3> QED
      BY <2>1, <3>1, <3>2
  <2> QED
    BY <2>2, <2>3
<1>8. vs2 \in Seq(VoiceSet) /\ Len(vs2) = Len(voices)
  <2>1. vs2 \in [1..Len(voices) -> VoiceSet]
    BY <1>4, <1>7
  <2> QED
    BY <1>1, <2>1, SeqDef, LenProperties
<1>9. ASSUME NEW p \in Plays
      PROVE  /\ ps2[p] \in PlaySet /\ ps2[p].decode = plays[p].decode
             /\ IF InFlight(plays[p])
                THEN /\ ps2[p].stage = plays[p].stage /\ ps2[p].object = plays[p].object
                     /\ ps2[p].overtaken
                ELSE ps2[p] = plays[p]
  <2>1. CASE InFlight(plays[p])
    <3>1. ps2[p] = [plays[p] EXCEPT !.overtaken = TRUE] /\ plays[p] \in PlaySet
      BY <1>1, <1>4, <2>1
    <3> QED
      BY <2>1, <3>1 DEF PlaySet
  <2>2. CASE ~InFlight(plays[p])
    BY <1>1, <1>4, <2>2
  <2> QED
    BY <2>1, <2>2
<1>10. ps2 \in [Plays -> PlaySet]
  BY <1>4, <1>9
<1>11. src2 \in [Ids -> Nat] /\ \A i \in Ids : src2[i] = 0
  BY <1>4
<1>12. MixHolds(src2, objs2, vs2, ps2)
  <2>1. Rested(sources, objects, voices, plays, src2, objs2, vs2, ps2)
    BY <1>5, <1>6, <1>7, <1>8, <1>9, <1>11 DEF Rested
  <2> QED
    BY <1>1, <1>6, <1>8, <1>10, <1>11, <2>1, AllRest
<1> QED
  BY <1>3, <1>4, <1>9, <1>12

LEMMA AudioDisposeHolds ==
    ASSUME AudioAssumption, AudioInv, Dispose \/ RestoreClears
    PROVE  AudioInv'
<1>1. /\ MixHolds(sources', objects', voices', plays') /\ oneShots' = {}
      /\ \A r \in Plays : plays'[r].decode = plays[r].decode
  BY ClearingHolds DEF Dispose, RestoreClears
<1>2. CASE RestoreClears
  <2>1. suspended' = suspended /\ silenced' = silenced /\ UNCHANGED storeVars
    BY <1>2 DEF RestoreClears
  <2> QED
    BY <1>1, <2>1, MixIsEnough DEF AudioInv, FlagsTyped
<1>3. CASE Dispose
  <2>1. StoreHolds /\ DecodesFit /\ Len(decodes) \in Nat
    BY AudioTypes DEF AudioInv
  <2>2. /\ meaning' = 0 /\ clipCache' = 0 /\ silenced' = TRUE /\ suspended' = suspended
        /\ meanings' = meanings /\ decodes' = decodes
    BY <1>3 DEF Dispose
  <2>3. StoreHolds'
    <3>1. meanings \in 0..MaxMeanings /\ meanings \in Nat /\ decodes \in Seq(DecodeSet)
      BY <2>1 DEF StoreHolds, AudioAssumption
    <3> QED
      BY <2>1, <2>2, <3>1 DEF StoreHolds, CachedClipIsCurrent
  <2>4. DecodesFit'
    BY <1>1, <2>1, <2>2 DEF DecodesFit
  <2> QED
    BY <1>1, <2>2, <2>3, <2>4 DEF AudioInv, FlagsTyped
<1> QED
  BY <1>2, <1>3

LEMMA RegisterHolds ==
    ASSUME AudioAssumption, AudioInv, register \/ unregister
    PROVE  AudioInv'
<1>1. StoreHolds /\ Len(decodes) \in Nat
  BY AudioTypes DEF AudioInv
<1>2. /\ sources' = sources /\ objects' = objects /\ oneShots' = oneShots /\ voices' = voices
      /\ plays' = plays /\ suspended' = suspended /\ silenced' = silenced
      /\ decodes' = decodes /\ clipCache' = 0
      /\ meanings' \in 0..MaxMeanings /\ meaning' \in 0..meanings'
  BY <1>1 DEF register, unregister, mixerVars, invalidated, StoreHolds, AudioAssumption
<1>3. StoreHolds' /\ DecodesFit'
  BY <1>1, <1>2 DEF AudioInv, StoreHolds, DecodesFit, CachedClipIsCurrent
<1> QED
  BY <1>2, <1>3 DEF AudioInv, FlagsTyped

LEMMA DecodeEndsHolds ==
    ASSUME AudioAssumption, AudioInv, NEW d \in DOMAIN decodes, DecodeEnds(d)
    PROVE  AudioInv'
<1>1. /\ StoreHolds /\ Len(decodes) \in Nat /\ d \in 1..Len(decodes)
      /\ decodes \in Seq(DecodeSet)
  BY AudioTypes DEF AudioInv, StoreHolds
<1>2. PICK st \in {"done", "failed"} :
          /\ decodes' = [decodes EXCEPT ![d].state = st]
          /\ IF st = "done" THEN clipCache' = clipCache ELSE clipCache' = 0
  BY DEF DecodeEnds
<1>3. /\ sources' = sources /\ objects' = objects /\ oneShots' = oneShots /\ voices' = voices
      /\ plays' = plays /\ suspended' = suspended /\ silenced' = silenced
      /\ meaning' = meaning /\ meanings' = meanings
  BY DEF DecodeEnds, mixerVars
<1>4. PICK e : e = [decodes[d] EXCEPT !.state = st]
  OBVIOUS
<1>5. PICK ds : ds = decodes'
  OBVIOUS
<1>6. e \in DecodeSet /\ e.meaning = decodes[d].meaning /\ e.state = st
  <2>1. decodes[d] \in DecodeSet
    BY <1>1, ElementOfSeq
  <2> QED
    BY <1>4, <2>1 DEF DecodeSet
<1>7. ds = [decodes EXCEPT ![d] = e]
  BY <1>2, <1>4, <1>5
<1>8. /\ ds \in Seq(DecodeSet) /\ Len(ds) = Len(decodes)
      /\ \A x \in 1..Len(decodes) : ds[x] = IF x = d THEN e ELSE decodes[x]
  BY <1>1, <1>6, <1>7, ExceptSeq
<1>9. CachedClipIsCurrent'
  BY <1>1, <1>2, <1>3, <1>5, <1>6, <1>8 DEF StoreHolds, CachedClipIsCurrent
<1>10. StoreHolds'
  BY <1>1, <1>2, <1>3, <1>5, <1>8, <1>9 DEF StoreHolds
<1>11. DecodesFit'
  BY <1>3, <1>5, <1>8 DEF AudioInv, DecodesFit
<1> QED
  BY <1>3, <1>10, <1>11 DEF AudioInv, FlagsTyped

LEMMA AudioInitHolds ==
    ASSUME AudioAssumption, AudioInit
    PROVE  AudioInv
<1>1. Len(objects) = 0 /\ Len(voices) = 0 /\ Len(decodes) = 0
  BY DEF AudioInit
<1>2. objects \in Seq(ObjectSet) /\ voices \in Seq(VoiceSet) /\ decodes \in Seq(DecodeSet)
  BY DEF AudioInit
<1>3. PICK q : q = [stage |-> "none", object |-> 0, replace |-> TRUE, decode |-> 0,
                    overtaken |-> FALSE]
  OBVIOUS
<1>4. /\ q \in PlaySet /\ q.stage = "none" /\ q.object = 0 /\ q.decode = 0
  BY <1>3 DEF PlaySet, PlayStages
<1>5. plays = [p \in Plays |-> q] /\ sources = [i \in Ids |-> 0]
  BY <1>3 DEF AudioInit
<1>6. plays \in [Plays -> PlaySet] /\ sources \in [Ids -> Nat]
  BY <1>4, <1>5
<1>7. \A p \in Plays : plays[p] = q
  BY <1>5
<1>8. WaitsFor(sources, objects, voices, q)
  BY <1>1, <1>4 DEF WaitsFor, InFlight
<1>9. /\ Linked(sources, objects, voices)
      /\ Sounds(sources, objects, voices, plays) /\ States(sources, objects, voices, plays)
  BY <1>1, <1>5 DEF Linked, Sounds, States
<1>10. MixHolds(sources, objects, voices, plays)
  BY <1>2, <1>6, <1>7, <1>8, <1>9 DEF MixHolds
<1>11. StoreHolds
  BY <1>1, <1>2 DEF StoreHolds, AudioInit, AudioAssumption, CachedClipIsCurrent
<1>12. DecodesFit
  BY <1>1, <1>4, <1>7 DEF DecodesFit
<1> QED
  BY <1>10, <1>11, <1>12 DEF AudioInv, FlagsTyped, AudioInit, AudioAssumption

LEMMA AudioStep ==
    ASSUME AudioAssumption, AudioInv, [AudioNext]_audioVars
    PROVE  AudioInv'
<1>1. CASE \E p \in Plays : \/ \E i \in Ids, replace \in BOOLEAN : PlaySource(p, i, replace)
                            \/ ContextResumes(p) \/ ClipArrives(p) \/ PlayFails(p)
  BY <1>1, PlaySourceHolds, ContextResumesHolds, ClipArrivesHolds, PlayFailsHolds
<1>2. CASE \E i \in Ids : \/ UpsertSource(i) \/ PauseSource(i) \/ RemoveSource(i)
                          \/ \E later \in BOOLEAN : StopSource(i, later)
                          \/ \E state \in Playbacks : RestoreSource(i, state)
  BY <1>2, UpsertSourceHolds, PauseStopHolds, RemoveSourceHolds, RestoreSourceHolds
<1>8. CASE ContextSwitches \/ \E i \in Ids : MarkTransient(i)
  BY <1>8, MarkSwitchHolds
<1>3. CASE \E v \in DOMAIN voices : Ended(v)
  BY <1>3, EndedHolds
<1>4. CASE \E d \in DOMAIN decodes : DecodeEnds(d)
  BY <1>4, DecodeEndsHolds
<1>5. CASE register \/ unregister
  BY <1>5, RegisterHolds
<1>6. CASE Dispose \/ RestoreClears
  BY <1>6, AudioDisposeHolds
<1>7. CASE UNCHANGED audioVars
  <2>1. /\ sources' = sources /\ objects' = objects /\ oneShots' = oneShots /\ voices' = voices
        /\ plays' = plays /\ suspended' = suspended /\ silenced' = silenced
        /\ UNCHANGED storeVars
    BY <1>7 DEF audioVars, mixerVars
  <2> QED
    BY <2>1, MixIsEnough DEF AudioInv, FlagsTyped
<1> QED
  BY <1>1, <1>2, <1>3, <1>4, <1>5, <1>6, <1>7, <1>8 DEF AudioNext

LEMMA AudioInvIsEnough ==
    ASSUME AudioAssumption, AudioInv
    PROVE  AudioAgrees
<1>1. /\ Linked(sources, objects, voices) /\ Len(voices) \in Nat /\ Len(objects) \in Nat
      /\ sources \in [Ids -> Nat] /\ plays \in [Plays -> PlaySet]
      /\ MixHolds(sources, objects, voices, plays)
      /\ DOMAIN voices = 1..Len(voices) /\ DOMAIN objects = 1..Len(objects)
      /\ Len(decodes) \in Nat /\ DOMAIN decodes = 1..Len(decodes)
      /\ \A x \in 1..Len(objects) : objects[x].active \in 0..Len(voices)
      /\ \A v \in 1..Len(voices) : voices[v].object \in 1..Len(objects)
  BY AudioTypes
<1>2. /\ \A x \in 1..Len(objects) : objects[x] \in ObjectSet
      /\ \A v \in 1..Len(voices) : voices[v] \in VoiceSet
  BY <1>1, MixTypes
<1>3. StoreHolds /\ \A d \in 1..Len(decodes) : decodes[d] \in DecodeSet
  BY ElementOfSeq DEF AudioInv, StoreHolds
<1>4. AudioTypeOK
  <2>1. sources \in [Ids -> 0..Len(objects)]
    BY <1>1 DEF Linked
  <2>2. \A o \in DOMAIN objects :
            objects[o] \in [id : Ids, active : 0..Len(voices),
                            playback : Playbacks, restored : BOOLEAN]
    BY <1>1, <1>2 DEF ObjectSet
  <2>3. \A v \in DOMAIN voices :
            voices[v] \in [object : DOMAIN objects, stage : {"sounding", "halted", "over"},
                           control : {"playing", "pausing", "stopping"}]
    BY <1>1, <1>2 DEF VoiceSet
  <2>4. ASSUME NEW p \in Plays
        PROVE  plays[p] \in [stage : PlayStages, object : 0..Len(objects), replace : BOOLEAN,
                             decode : 0..Len(decodes), overtaken : BOOLEAN]
    <3>1. plays[p] \in PlaySet /\ plays[p].decode \in 0..Len(decodes)
      BY <1>1 DEF AudioInv, DecodesFit
    <3>2. plays[p].object \in 0..Len(objects)
      BY <1>1 DEF MixHolds, WaitsFor
    <3> QED
      BY <3>1, <3>2 DEF PlaySet
  <2>5. \A d \in DOMAIN decodes :
            decodes[d] \in [meaning : 0..MaxMeanings, state : {"pending", "done", "failed"}]
    BY <1>1, <1>3 DEF DecodeSet
  <2> QED
    BY <1>3, <2>1, <2>2, <2>3, <2>4, <2>5 DEF AudioTypeOK, AudioInv, FlagsTyped, StoreHolds
<1>5. SoundingIsOwned
  BY <1>1 DEF MixHolds, Sounds, Stray, Registered, SoundingIsOwned, Owned
<1>6. StateFollowsVoice
  <2> SUFFICES ASSUME NEW i \in Ids, sources[i] # 0
               PROVE  \/ objects[sources[i]].playback = "playing"
                           <=> ~Still(objects, voices, sources[i])
                      \/ objects[sources[i]].restored
                      \/ Spoilt(plays, sources[i])
    BY DEF StateFollowsVoice, Silent, Still, Spoilt
  <2> QED
    BY <1>1 DEF MixHolds, States
<1> QED
  BY <1>3, <1>4, <1>5, <1>6 DEF AudioAgrees, StoreHolds

\* Whatever is removed, made again, replaced or overtaken while plays wait for the
\* context and for their clip, a voice that sounds belongs to a source that can stop
\* it, or to a play that was overtaken and started all the same; a source says it is
\* playing when its voice sounds; and the cached clip is of the present registration.
THEOREM AudioStaysAgreed == AudioAssumption => (AudioSpec => []AudioAgrees)
<1> SUFFICES ASSUME AudioAssumption PROVE AudioSpec => []AudioAgrees
  OBVIOUS
<1>1. AudioInit => AudioInv
  BY AudioInitHolds
<1>2. AudioInv /\ [AudioNext]_audioVars => AudioInv'
  BY AudioStep
<1>3. AudioInv => AudioAgrees
  BY AudioInvIsEnough
<1> QED
  BY <1>1, <1>2, <1>3, PTL DEF AudioSpec

-----------------------------------------------------------------------------
(***************************************************************************)
(* The input system.  InputInv is inductive where InputAgrees and          *)
(* TapsAreReleases are not: a table has one stamp for each context, so     *)
(* that its order is total and sorting it has one outcome; owners and      *)
(* users agree, and contexts are played by users that exist, also in the   *)
(* snapshot that restore brings back; a session that nothing touched still *)
(* finds its target, so that capturing a control binds it; and until the   *)
(* bindings are changed, the controls that hold an action are bound to it  *)
(* and belong to who plays its context, which is why an action that is let *)
(* go within a frame was let go by its controls.  The lists of a snapshot  *)
(* and of the constructor are upserted one by one: StepsExist gives the    *)
(* tables in between.                                                      *)
(***************************************************************************)

\* The tables of contexts.
Tables ==
    [contexts : UNION {[D -> ContextRecords] : D \in SUBSET Contexts},
     recency : Seq(Contexts), ordered : Seq(Contexts), dirty : BOOLEAN]
\* Each context has its stamp, and one.
TableOK(t) == t \in Tables /\ HasNoRepeats(t.recency) /\ Elements(t.recency) = Known(t)

\* Contexts that are left have their users and bindings.
SameBindings(t, t2) ==
    /\ Known(t2) \subseteq Known(t)
    /\ \A c \in Known(t2) : t2.contexts[c].user = t.contexts[c].user
    /\ \A c \in Known(t2), a \in Actions : Current(t2, c, a) = Current(t, c, a)
\* The same contexts with the same order.
SameOrder(t, t2) ==
    /\ Known(t2) = Known(t)
    /\ \A c \in Known(t) : t2.contexts[c].priority = t.contexts[c].priority
    /\ t2.recency = t.recency /\ t2.ordered = t.ordered /\ t2.dirty = t.dirty

\* The fields of a table, typed.
LEMMA TableFields ==
    ASSUME NEW t \in Tables
    PROVE  /\ Known(t) \in SUBSET Contexts
           /\ t.contexts \in [Known(t) -> ContextRecords]
           /\ t.recency \in Seq(Contexts) /\ t.ordered \in Seq(Contexts) /\ t.dirty \in BOOLEAN
           /\ t = [contexts |-> t.contexts, recency |-> t.recency, ordered |-> t.ordered,
                   dirty |-> t.dirty]
<1>1. PICK D \in SUBSET Contexts : t.contexts \in [D -> ContextRecords]
  BY DEF Tables
<1>2. Known(t) = D
  BY <1>1 DEF Known
<1> QED
  BY <1>1, <1>2 DEF Tables

\* and of a context.
LEMMA ContextFields ==
    ASSUME NEW x \in ContextRecords
    PROVE  /\ x.priority \in Nat /\ x.enabled \in BOOLEAN /\ x.capture \in BOOLEAN
           /\ x.user \in Users \cup {Nobody} /\ x.actions \in Seq(Bindings)
           /\ Len(x.actions) \in Nat /\ DOMAIN x.actions = 1..Len(x.actions)
           /\ \A n \in 1..Len(x.actions) :
                 /\ x.actions[n] \in Bindings /\ x.actions[n].action \in Actions
                 /\ x.actions[n].current \in Seq(Controls) /\ x.actions[n].defaults \in Seq(Controls)
<1>1. x.actions \in Seq(Bindings)
  BY DEF ContextRecords
<1>2. /\ Len(x.actions) \in Nat /\ DOMAIN x.actions = 1..Len(x.actions)
      /\ \A n \in 1..Len(x.actions) : x.actions[n] \in Bindings
  BY <1>1, LenProperties, ElementOfSeq
<1> QED
  BY <1>1, <1>2 DEF ContextRecords, Bindings

\* The entry of an action is where the action is, and 0 when it is nowhere.
LEMMA EntryIs ==
    ASSUME NEW x \in ContextRecords, NEW a
    PROVE  /\ Entry(x, a) \in 0..Len(x.actions)
           /\ Entry(x, a) # 0 => Entry(x, a) \in 1..Len(x.actions) /\ x.actions[Entry(x, a)].action = a
           /\ Entry(x, a) = 0 => \A n \in 1..Len(x.actions) : x.actions[n].action # a
<1>1. PICK at : at = {n \in 1..Len(x.actions) : x.actions[n].action = a}
  OBVIOUS
<1>2. DOMAIN x.actions = 1..Len(x.actions) /\ Len(x.actions) \in Nat
  BY ContextFields
<1>3. Entry(x, a) = IF at = {} THEN 0 ELSE CHOOSE n \in at : TRUE
  BY <1>1, <1>2 DEF Entry
<1> QED
  BY <1>1, <1>2, <1>3

\* It depends on where the action is only.
LEMMA EntrySame ==
    ASSUME NEW x \in ContextRecords, NEW y \in ContextRecords, NEW a,
           \A n : n \in 1..Len(x.actions) /\ x.actions[n].action = a
              <=> n \in 1..Len(y.actions) /\ y.actions[n].action = a
    PROVE  Entry(x, a) = Entry(y, a)
<1>1. DOMAIN x.actions = 1..Len(x.actions) /\ DOMAIN y.actions = 1..Len(y.actions)
  BY ContextFields
<1>2. PICK at : at = {n \in DOMAIN x.actions : x.actions[n].action = a}
  OBVIOUS
<1>3. at = {n \in DOMAIN y.actions : y.actions[n].action = a}
  BY <1>1, <1>2
<1>4. Entry(x, a) = IF at = {} THEN 0 ELSE CHOOSE n \in at : TRUE
  BY <1>2 DEF Entry
<1>5. Entry(y, a) = IF at = {} THEN 0 ELSE CHOOSE n \in at : TRUE
  BY <1>3 DEF Entry
<1> QED
  BY <1>4, <1>5

\* The table with another record for context c.
With(t, c, x) == [t EXCEPT !.contexts[c] = x]

\* The result is a table that differs in that record only.
LEMMA WithIs ==
    ASSUME NEW t, TableOK(t), NEW c \in Known(t), NEW x \in ContextRecords
    PROVE  /\ With(t, c, x) \in Tables /\ Known(With(t, c, x)) = Known(t)
           /\ TableOK(With(t, c, x))
           /\ \A d \in Known(t) : With(t, c, x).contexts[d] = IF d = c THEN x ELSE t.contexts[d]
           /\ With(t, c, x).recency = t.recency /\ With(t, c, x).ordered = t.ordered
           /\ With(t, c, x).dirty = t.dirty
<1>1. t \in Tables
  BY DEF TableOK
<1>2. PICK f, u : f = [t.contexts EXCEPT ![c] = x] /\ u = With(t, c, x)
  OBVIOUS
<1>3. f \in [Known(t) -> ContextRecords] /\ \A d \in Known(t) : f[d] = IF d = c THEN x ELSE t.contexts[d]
  BY <1>1, <1>2, TableFields
<1>4. u = [contexts |-> f, recency |-> t.recency, ordered |-> t.ordered, dirty |-> t.dirty]
  <2>1. t = [contexts |-> t.contexts, recency |-> t.recency, ordered |-> t.ordered,
             dirty |-> t.dirty]
    BY <1>1 DEF Tables
  <2>2. u = [t EXCEPT !.contexts = f]
    BY <1>2 DEF With
  <2> QED
    BY <2>1, <2>2
<1>5. /\ Known(u) = Known(t) /\ u.contexts = f
      /\ u.recency = t.recency /\ u.ordered = t.ordered /\ u.dirty = t.dirty
  BY <1>3, <1>4 DEF Known
<1>6. u \in Tables
  BY <1>1, <1>3, <1>4, TableFields DEF Tables
<1>7. TableOK(u)
  BY <1>5, <1>6 DEF TableOK
<1> QED
  BY <1>2, <1>3, <1>5, <1>6, <1>7

\* The contexts that are left have their users.
SameUsers(t, t2) ==
    /\ Known(t2) \subseteq Known(t)
    /\ \A c \in Known(t2) : t2.contexts[c].user = t.contexts[c].user

\* The bindings a context record has of an action.
CurrentIn(x, a) == IF Entry(x, a) = 0 THEN <<>> ELSE x.actions[Entry(x, a)].current

\* Another record of a context changes the order when it has another priority.
LEMMA WithOrder ==
    ASSUME NEW t, TableOK(t), NEW c \in Known(t), NEW x \in ContextRecords,
           x.priority = t.contexts[c].priority, x.user = t.contexts[c].user
    PROVE  SameOrder(t, With(t, c, x)) /\ SameUsers(t, With(t, c, x))
BY WithIs DEF SameOrder, SameUsers

\* Another record with the same bindings and user leaves every binding.
LEMMA WithBindings ==
    ASSUME NEW t, TableOK(t), NEW c \in Known(t), NEW x \in ContextRecords,
           x.user = t.contexts[c].user, \A a \in Actions : CurrentIn(x, a) = CurrentIn(t.contexts[c], a)
    PROVE  SameBindings(t, With(t, c, x))
<1>1. PICK u : u = With(t, c, x)
  OBVIOUS
<1>2. Known(u) = Known(t) /\ \A d \in Known(t) : u.contexts[d] = IF d = c THEN x ELSE t.contexts[d]
  BY <1>1, WithIs
<1>3. \A d \in Known(t), a \in Actions : Current(u, d, a) = Current(t, d, a)
  BY <1>2 DEF Current, CurrentIn
<1> QED
  BY <1>1, <1>2, <1>3 DEF SameBindings

\* The record with an entry of the action (_requireContextAction).
Required(x, a) ==
    IF Entry(x, a) # 0 THEN x
    ELSE [x EXCEPT !.actions = Append(@, [action |-> a, current |-> <<>>, defaults |-> <<>>])]

\* The entry that is required is there and has no bindings.
LEMMA RequiredIs ==
    ASSUME NEW x \in ContextRecords, NEW a \in Actions
    PROVE  /\ Required(x, a) \in ContextRecords
           /\ Required(x, a).priority = x.priority /\ Required(x, a).user = x.user
           /\ Entry(Required(x, a), a) \in 1..Len(Required(x, a).actions)
           /\ \A b : CurrentIn(Required(x, a), b) = CurrentIn(x, b)
<1>1. CASE Entry(x, a) # 0
  BY <1>1, EntryIs DEF Required
<1>2. CASE Entry(x, a) = 0
  <2>1. PICK y, e, s : /\ e = [action |-> a, current |-> <<>>, defaults |-> <<>>]
                       /\ s = Append(x.actions, e) /\ y = Required(x, a)
    OBVIOUS
  <2>2. /\ x.actions \in Seq(Bindings) /\ Len(x.actions) \in Nat
        /\ x = [priority |-> x.priority, enabled |-> x.enabled, capture |-> x.capture,
                user |-> x.user, actions |-> x.actions]
    BY ContextFields DEF ContextRecords
  <2>3. e \in Bindings
    BY <2>1, EmptySeq DEF Bindings
  <2>4. /\ s \in Seq(Bindings) /\ Len(s) = Len(x.actions) + 1
        /\ \A n \in 1..Len(x.actions) : s[n] = x.actions[n]
        /\ s[Len(x.actions) + 1] = e
    BY <2>1, <2>2, <2>3, AppendProperties
  <2>5. y = [priority |-> x.priority, enabled |-> x.enabled, capture |-> x.capture,
             user |-> x.user, actions |-> s]
    BY <1>2, <2>1, <2>2 DEF Required
  <2>6. y \in ContextRecords /\ y.actions = s /\ y.priority = x.priority /\ y.user = x.user
    BY <2>4, <2>5, ContextFields DEF ContextRecords
  <2>7. \A n \in 1..Len(x.actions) : x.actions[n].action # a
    BY <1>2, EntryIs
  <2>8. Entry(y, a) = Len(x.actions) + 1
    <3>1. y.actions[Len(x.actions) + 1].action = a
      BY <2>1, <2>4, <2>6
    <3>2. Entry(y, a) # 0
      BY <2>2, <2>4, <2>6, <3>1, EntryIs
    <3>3. Entry(y, a) \in 1..(Len(x.actions) + 1) /\ y.actions[Entry(y, a)].action = a
      BY <2>4, <2>6, <3>2, EntryIs
    <3> QED
      BY <2>2, <2>4, <2>6, <2>7, <3>3
  <2>9. ASSUME NEW b, b # a PROVE CurrentIn(y, b) = CurrentIn(x, b)
    <3>1. Entry(y, b) = Entry(x, b)
      <4>1. \A n : n \in 1..Len(y.actions) /\ y.actions[n].action = b
                 <=> n \in 1..Len(x.actions) /\ x.actions[n].action = b
        BY <2>1, <2>2, <2>4, <2>6, <2>9
      <4> QED
        BY <2>6, <4>1, EntrySame
    <3>2. Entry(x, b) # 0 => Entry(x, b) \in 1..Len(x.actions)
      BY EntryIs
    <3> QED
      BY <2>4, <2>6, <3>1, <3>2 DEF CurrentIn
  <2>10. CurrentIn(y, a) = CurrentIn(x, a)
    <3>1. CurrentIn(x, a) = <<>>
      BY <1>2 DEF CurrentIn
    <3>2. CurrentIn(y, a) = e.current
      BY <2>2, <2>4, <2>6, <2>8 DEF CurrentIn
    <3> QED
      BY <2>1, <3>1, <3>2
  <2> QED
    BY <2>1, <2>2, <2>4, <2>6, <2>8, <2>9, <2>10
<1> QED
  BY <1>1, <1>2

\* _requireContextAction adds an entry without bindings.
LEMMA RequireIs ==
    ASSUME NEW t, TableOK(t), NEW c \in Known(t), NEW a \in Actions
    PROVE  /\ TableOK(requireContextAction(t, c, a))
           /\ SameBindings(t, requireContextAction(t, c, a))
           /\ SameOrder(t, requireContextAction(t, c, a))
           /\ Entry(requireContextAction(t, c, a).contexts[c], a)
                 \in 1..Len(requireContextAction(t, c, a).contexts[c].actions)
<1>1. t.contexts[c] \in ContextRecords
  BY TableFields DEF TableOK
<1>2. PICK x : x = Required(t.contexts[c], a)
  OBVIOUS
<1>3. /\ x \in ContextRecords /\ x.priority = t.contexts[c].priority /\ x.user = t.contexts[c].user
      /\ Entry(x, a) \in 1..Len(x.actions) /\ \A b : CurrentIn(x, b) = CurrentIn(t.contexts[c], b)
  BY <1>1, <1>2, RequiredIs
<1>4. CASE Entry(t.contexts[c], a) # 0
  <2>1. requireContextAction(t, c, a) = t
    BY <1>4 DEF requireContextAction
  <2>2. Entry(t.contexts[c], a) \in 1..Len(t.contexts[c].actions)
    BY <1>1, <1>4, EntryIs
  <2> QED
    BY <2>1, <2>2 DEF SameBindings, SameOrder
<1>5. CASE Entry(t.contexts[c], a) = 0
  <2>1. requireContextAction(t, c, a) = With(t, c, x)
    BY <1>2, <1>5 DEF requireContextAction, With, Required
  <2>2. With(t, c, x).contexts[c] = x
    BY <1>3, WithIs
  <2> QED
    BY <1>3, <2>1, <2>2, WithIs, WithOrder, WithBindings
<1> QED
  BY <1>4, <1>5

\* What rebound and reset change are bindings.
LEMMA ReboundIs ==
    ASSUME NEW t, TableOK(t), NEW c \in Known(t), NEW a \in Actions, NEW list \in Seq(Controls)
    PROVE  /\ TableOK(rebound(t, c, a, list))
           /\ SameUsers(t, rebound(t, c, a, list)) /\ SameOrder(t, rebound(t, c, a, list))
<1>1. PICK u, x, e, y : /\ u = requireContextAction(t, c, a) /\ x = u.contexts[c] /\ e = Entry(x, a)
                        /\ y = [x EXCEPT !.actions[e].current = list]
  OBVIOUS
<1>2. TableOK(u) /\ SameBindings(t, u) /\ SameOrder(t, u) /\ e \in 1..Len(x.actions)
  BY <1>1, RequireIs
<1>3. c \in Known(u) /\ x \in ContextRecords
  <2>1. c \in Known(u) /\ u \in Tables
    BY <1>2 DEF SameOrder, TableOK
  <2> QED
    BY <1>1, <2>1, TableFields
<1>4. y \in ContextRecords /\ y.priority = x.priority /\ y.user = x.user
  <2>1. /\ x = [priority |-> x.priority, enabled |-> x.enabled, capture |-> x.capture,
                user |-> x.user, actions |-> x.actions]
        /\ x.actions \in Seq(Bindings) /\ x.actions[e] \in Bindings
    BY <1>2, <1>3, ContextFields DEF ContextRecords
  <2>2. PICK b, s : b = [x.actions[e] EXCEPT !.current = list] /\ s = [x.actions EXCEPT ![e] = b]
    OBVIOUS
  <2>3. b \in Bindings
    BY <2>1, <2>2 DEF Bindings
  <2>4. s \in Seq(Bindings)
    BY <1>2, <2>1, <2>2, <2>3, ExceptSeq
  <2>5. y = [priority |-> x.priority, enabled |-> x.enabled, capture |-> x.capture,
             user |-> x.user, actions |-> s]
    BY <1>1, <2>1, <2>2
  <2> QED
    BY <1>3, <2>4, <2>5, ContextFields DEF ContextRecords
<1>5. rebound(t, c, a, list) = With(u, c, y)
  BY <1>1 DEF rebound, With
<1>6. TableOK(With(u, c, y)) /\ SameOrder(u, With(u, c, y)) /\ SameUsers(u, With(u, c, y))
  BY <1>1, <1>2, <1>3, <1>4, WithIs, WithOrder
<1> QED
  BY <1>2, <1>5, <1>6 DEF SameOrder, SameUsers, SameBindings

\* What is reset has the default bindings; users and order stay.
LEMMA ResetIs ==
    ASSUME NEW t, TableOK(t), NEW c \in Known(t), NEW as
    PROVE  /\ TableOK(reset(t, c, as))
           /\ SameUsers(t, reset(t, c, as)) /\ SameOrder(t, reset(t, c, as))
<1> DEFINE x == t.contexts[c]
           new(n) == IF x.actions[n].action \in as
                     THEN [x.actions[n] EXCEPT !.current = x.actions[n].defaults] ELSE x.actions[n]
           s == [n \in DOMAIN x.actions |-> new(n)]
           y == [x EXCEPT !.actions = s]
<1>1. x \in ContextRecords
  BY TableFields DEF TableOK
<1>2. \A n \in 1..Len(x.actions) : new(n) \in Bindings
  <2> TAKE n \in 1..Len(x.actions)
  <2>1. PICK b : b = x.actions[n]
    OBVIOUS
  <2>2. b \in Bindings
    BY <1>1, <2>1, ContextFields
  <2>3. [b EXCEPT !.current = b.defaults] \in Bindings
    BY <2>2 DEF Bindings
  <2> HIDE DEF x
  <2> QED
    BY <2>1, <2>2, <2>3
<1>3. s \in Seq(Bindings)
  <2>1. DOMAIN x.actions = 1..Len(x.actions) /\ Len(x.actions) \in Nat
    BY <1>1, ContextFields
  <2> HIDE DEF x, new
  <2> QED
    BY <1>2, <2>1, IsASeq
<1>4. y \in ContextRecords /\ y.priority = x.priority /\ y.user = x.user
  <2>1. /\ x = [priority |-> x.priority, enabled |-> x.enabled, capture |-> x.capture,
                user |-> x.user, actions |-> x.actions]
    BY <1>1 DEF ContextRecords
  <2> HIDE DEF x, s
  <2>2. y = [priority |-> x.priority, enabled |-> x.enabled, capture |-> x.capture,
             user |-> x.user, actions |-> s]
    BY <2>1
  <2> HIDE DEF y
  <2> QED
    BY <1>1, <1>3, <2>2, ContextFields DEF ContextRecords
<1>5. reset(t, c, as) = With(t, c, y)
  BY DEF reset, With
<1> HIDE DEF y
<1> QED
  BY <1>4, <1>5, WithIs, WithOrder

\* The user system: a gamepad is among the devices of a user exactly when the user
\* is its owner, and owners exist.
UserSystems == UNION {[V -> [enabled : BOOLEAN, devices : SUBSET Devices]] : V \in SUBSET Users}
SystemOK(us, os) ==
    /\ us \in UserSystems
    /\ os \in [Gamepads -> Users \cup {Nobody}]
    /\ \A u \in DOMAIN us, i \in Gamepads : i \in us[u].devices <=> os[i] = u
    /\ \A i \in Gamepads : os[i] \in DOMAIN us \cup {Nobody}
\* Who plays a context exists.
Played(t, us) == \A c \in Known(t) : t.contexts[c].user \in DOMAIN us \cup {Nobody}
\* The cached order is the sorted one unless it is marked as stale.
Orderly(t) == ~t.dirty => t.ordered = Sorted(t)

\* The sessions and what is noted of them.
Sessions == [token : 1..MaxSessions, request : RebindingRequests, touched : BOOLEAN]
Reasons == {"replaced", "manual", "timeout", "disposed", "complete"}
Rebindings ==
    [session : {NoSession} \cup Sessions, begun : 0..MaxSessions, told : Seq(Seq(Reasons)),
     disposed : SUBSET (1..MaxSessions), lost : SUBSET (1..MaxSessions),
     late : SUBSET (1..MaxSessions)]
\* Each session that ended, and was not lost to another that was begun or completed,
\* was told once, or twice when it completed late; "manual" needs a disposed handle.
RebindingOK(rb) ==
    /\ rb \in Rebindings
    /\ Len(rb.told) = rb.begun
    /\ rb.lost \subseteq 1..rb.begun /\ rb.late \subseteq 1..rb.begun
    /\ rb.session # NoSession => /\ rb.session.token \in 1..rb.begun
                                /\ rb.session.token \notin rb.lost \cup rb.late
    /\ \A n \in 1..rb.begun :
          /\ Len(rb.told[n]) = IF Active(rb, n) \/ n \in rb.lost THEN 0
                              ELSE IF n \in rb.late THEN 2 ELSE 1
          /\ rb.told[n] = <<"manual">> => n \in rb.disposed
\* A session whose bindings nothing touched still finds what it is to rebind.
SessionTarget(t, rb) ==
    rb.session # NoSession /\ ~rb.session.touched => Resolves(t, rb.session.request)

\* The session that a handler is asked about was begun, and completes at most once more.
AskedOK(q, rb) ==
    q # NotAsked =>
       /\ q.session \in Sessions /\ q.control \in Controls
       /\ q.session.token \in 1..rb.begun /\ q.session.token \notin rb.lost \cup rb.late
\* No session that was there is lost or completes late.
Grows(rb, new) ==
    rb.begun <= new.begun /\ new.late = rb.late /\ \A n \in 1..rb.begun : n \in new.lost => n \in rb.lost

\* A snapshot lists contexts that are played by its own users.
SavedContexts == [id : Contexts, context : ContextRecords]
SnapshotOK(s) ==
    \/ s = NoSnapshot
    \/ /\ s.users \in UserSystems /\ s.contexts \in Seq(SavedContexts)
       /\ \A n \in 1..Len(s.contexts) : s.contexts[n].context.user \in DOMAIN s.users \cup {Nobody}

\* The controls that hold an action are bound to it, for who plays the context.
HeldBy(t, us, os, c, a, held) ==
    c \in Known(t) => \A k \in held : k \in ControlsOf(t, c, a)
                                      /\ Accessible(us, os, t.contexts[c].user, k)
HeldAll(changed, t, us, os, bt) ==
    ~changed => \A a \in Actions : HeldBy(t, us, os, bt[a].context, a, bt[a].held)
\* An action is down through a context.
Buttons == [value : BOOLEAN, context : Contexts \cup {Nowhere}, held : SUBSET Controls]
ButtonsOK(bt) ==
    bt \in [Actions -> Buttons] /\ \A a \in Actions : bt[a].value => bt[a].context # Nowhere

\* The tables that requests change, together, and the inductive invariant.
CoreOK(t, us, os, rb) ==
    TableOK(t) /\ SystemOK(us, os) /\ Played(t, us) /\ RebindingOK(rb) /\ SessionTarget(t, rb)
InputInv ==
    /\ CoreOK(table, users, owners, rebinding) /\ SnapshotOK(saved)
    /\ AskedOK(asked, rebinding) /\ updating \in BOOLEAN
    /\ ~inputGone => Orderly(table)
    /\ reconfigured \in BOOLEAN /\ HeldAll(reconfigured, table, users, owners, button)
    /\ ButtonsOK(button) /\ down \subseteq Controls /\ pads \subseteq PadControls
    /\ configured \in 0..MaxConfigured /\ inputGone \in BOOLEAN
    /\ TapsAreReleases

\* The table with other contexts and stamps.
LEMMA TableIs ==
    ASSUME NEW t \in Tables, NEW u, NEW D \in SUBSET Contexts, NEW f \in [D -> ContextRecords],
           NEW r \in Seq(Contexts), NEW dirtied \in BOOLEAN,
           u = [contexts |-> f, recency |-> r, ordered |-> t.ordered, dirty |-> dirtied],
           HasNoRepeats(r), Elements(r) = D
    PROVE  /\ TableOK(u) /\ Known(u) = D /\ u.contexts = f /\ u.recency = r
           /\ u.ordered = t.ordered /\ u.dirty = dirtied
<1>1. u.contexts = f /\ u.recency = r /\ u.ordered = t.ordered /\ u.dirty = dirtied
  OBVIOUS
<1>2. Known(u) = D
  BY <1>1 DEF Known
<1>3. t.ordered \in Seq(Contexts)
  BY TableFields
<1>4. u \in Tables
  BY <1>3 DEF Tables
<1> QED
  BY <1>1, <1>2, <1>4 DEF TableOK

\* The stamps without c, and with c last.
LEMMA Restamped ==
    ASSUME NEW r \in Seq(Contexts), HasNoRepeats(r), NEW c \in Contexts
    PROVE  /\ Keep(r, Contexts \ {c}) \in Seq(Contexts)
           /\ HasNoRepeats(Keep(r, Contexts \ {c}))
           /\ Elements(Keep(r, Contexts \ {c})) = Elements(r) \ {c}
           /\ Append(Keep(r, Contexts \ {c}), c) \in Seq(Contexts)
           /\ HasNoRepeats(Append(Keep(r, Contexts \ {c}), c))
           /\ Elements(Append(Keep(r, Contexts \ {c}), c)) = Elements(r) \cup {c}
<1>1. PICK s : s = Keep(r, Contexts \ {c})
  OBVIOUS
<1>2. s \in Seq(Contexts) /\ HasNoRepeats(s) /\ Elements(s) = Elements(r) \cap (Contexts \ {c})
  BY <1>1, KeepSeq, KeepHasNoRepeats
<1>3. Elements(r) \subseteq Contexts
  BY ElementsTyped
<1>4. Elements(s) = Elements(r) \ {c} /\ c \notin Elements(s)
  BY <1>2, <1>3
<1>5. /\ Append(s, c) \in Seq(Contexts) /\ HasNoRepeats(Append(s, c))
      /\ Elements(Append(s, c)) = Elements(s) \cup {c}
  BY <1>2, <1>4, AppendElements
<1> QED
  BY <1>1, <1>2, <1>4, <1>5

\* A context gets the last stamp.
LEMMA StampedIs ==
    ASSUME NEW t \in Tables, NEW u, NEW D \in SUBSET Contexts, NEW f \in [D -> ContextRecords],
           NEW c \in D, HasNoRepeats(t.recency), Elements(t.recency) \cup {c} = D,
           NEW x, x = [t EXCEPT !.contexts = f], u = reordered(stamped(x, c))
    PROVE  /\ TableOK(u) /\ Known(u) = D /\ u.contexts = f /\ u.ordered = t.ordered /\ u.dirty
<1>1. PICK r : r = Append(Keep(t.recency, Contexts \ {c}), c)
  OBVIOUS
<1>2. t.recency \in Seq(Contexts) /\ c \in Contexts
  BY TableFields
<1>3. r \in Seq(Contexts) /\ HasNoRepeats(r) /\ Elements(r) = D
  BY <1>1, <1>2, Restamped
<1>4. u = [contexts |-> f, recency |-> r, ordered |-> t.ordered, dirty |-> TRUE]
  <2>1. PICK g, v, w : /\ g = t.contexts /\ v = x /\ w = stamped(v, c)
    OBVIOUS
  <2>2. v = [contexts |-> f, recency |-> t.recency, ordered |-> t.ordered, dirty |-> t.dirty]
    BY <2>1, TableFields
  <2>3. w = [contexts |-> f, recency |-> r, ordered |-> t.ordered, dirty |-> t.dirty]
    BY <1>1, <2>1, <2>2 DEF stamped
  <2>4. u = reordered(w)
    BY <2>1
  <2> QED
    BY <2>3, <2>4 DEF reordered
<1>5. PICK yes \in BOOLEAN : yes = TRUE
  OBVIOUS
<1>6. u = [contexts |-> f, recency |-> r, ordered |-> t.ordered, dirty |-> yes]
  BY <1>4, <1>5
<1>7. /\ TableOK(u) /\ Known(u) = D /\ u.contexts = f
      /\ u.ordered = t.ordered /\ u.dirty = yes
  BY <1>3, <1>6, TableIs
<1> QED
  BY <1>5, <1>7

\* The context of a definition.
LEMMA ContextOfIs ==
    ASSUME NEW def \in ContextDefinitions
    PROVE  ContextOf(def) \in ContextRecords /\ ContextOf(def).user = def.user
<1>1. PICK as : as = def.actions
  OBVIOUS
<1>2. PICK s : s = [n \in DOMAIN as |-> [action |-> as[n].action, current |-> as[n].bindings,
                                         defaults |-> as[n].bindings]]
  OBVIOUS
<1>3. as \in Seq([action : Actions, bindings : Seq(Controls)])
  BY <1>1 DEF ContextDefinitions
<1>4. /\ DOMAIN as = 1..Len(as) /\ Len(as) \in Nat
      /\ \A n \in 1..Len(as) : as[n] \in [action : Actions, bindings : Seq(Controls)]
  BY <1>3, LenProperties, ElementOfSeq
<1>5. s \in Seq(Bindings)
  <2>1. \A n \in 1..Len(as) : s[n] \in Bindings
    BY <1>2, <1>4 DEF Bindings
  <2>2. DOMAIN s = 1..Len(as) /\ s = [n \in 1..Len(as) |-> s[n]]
    BY <1>2, <1>4
  <2>3. s \in [1..Len(as) -> Bindings]
    BY <2>1, <2>2
  <2> QED
    BY <1>4, <2>3, SeqDef
<1>6. ContextOf(def) = [priority |-> def.priority, enabled |-> def.enabled,
                        capture |-> def.capture, user |-> def.user, actions |-> s]
  BY <1>1, <1>2 DEF ContextOf
<1> QED
  BY <1>5, <1>6 DEF ContextDefinitions, ContextRecords

\* upsertContext
LEMMA UpsertedContextIs ==
    ASSUME NEW t, TableOK(t), NEW def \in ContextDefinitions
    PROVE  /\ TableOK(upsertedContext(t, def)) /\ upsertedContext(t, def).dirty
           /\ \A us : /\ Played(t, us) /\ def.user \in DOMAIN us \cup {Nobody}
                         => Played(upsertedContext(t, def), us)
<1>1. PICK D, f : /\ D = Known(t) \cup {def.id}
                  /\ f = [c \in D |-> IF c = def.id THEN ContextOf(def) ELSE t.contexts[c]]
  OBVIOUS
<1>2. t \in Tables /\ def.id \in Contexts /\ Known(t) \subseteq Contexts /\ D \in SUBSET Contexts
  BY <1>1, TableFields DEF TableOK, ContextDefinitions
<1>3. f \in [D -> ContextRecords]
  BY <1>1, <1>2, ContextOfIs, TableFields
<1>4. PICK u : u = upsertedContext(t, def)
  OBVIOUS
<1>5. PICK x, c : x = [t EXCEPT !.contexts = f] /\ c = def.id
  OBVIOUS
<1>9. u = reordered(stamped(x, c))
  BY <1>1, <1>4, <1>5 DEF upsertedContext
<1>6. HasNoRepeats(t.recency) /\ Elements(t.recency) \cup {c} = D /\ c \in D
  BY <1>1, <1>5 DEF TableOK
<1>7. TableOK(u) /\ Known(u) = D /\ u.contexts = f /\ u.dirty
  BY <1>2, <1>3, <1>5, <1>6, <1>9, StampedIs
<1>8. ASSUME NEW us, Played(t, us), def.user \in DOMAIN us \cup {Nobody} PROVE Played(u, us)
  <2>1. ContextOf(def).user = def.user
    BY ContextOfIs
  <2> QED
    BY <1>1, <1>7, <1>8, <2>1 DEF Played
<1> QED
  BY <1>4, <1>7, <1>8

\* S has what each of the upserts makes of a member.
Upserts(S, defs) ==
    Len(defs) \in Nat /\ \A s \in S, n \in 1..Len(defs) : upsertedContext(s, defs[n]) \in S
\* The same of users, with the devices that are theirs.
UserUpserts(S, defs) ==
    /\ Len(defs) \in Nat
    /\ \A s \in S, n \in 1..Len(defs) : upsertedUser(s.users, s.owners, defs[n]) \in S

\* Upserts that stay in a set of tables, one after the other, end in it.
LEMMA UpsertsStay ==
    ASSUME NEW S, NEW t, t \in S, NEW defs, Upserts(S, defs)
    PROVE  upsertedContexts(t, defs) \in S
<1>1. PICK m : m = Len(defs)
  OBVIOUS
<1>2. m \in Nat /\ \A s \in S, n \in 1..m : upsertedContext(s, defs[n]) \in S
  BY <1>1 DEF Upserts
<1>14. m \in Nat
  BY <1>2
<1>3. PICK F : F = [n \in 1..m |-> [s \in S |-> upsertedContext(s, defs[n])]]
  OBVIOUS
<1>4. F \in [1..m -> [S -> S]]
  BY <1>2, <1>3
<1>5. PICK g \in [0..m -> S] : g[0] = t /\ \A n \in 1..m : g[n] = F[n][g[n - 1]]
  BY <1>4, <1>14, StepsExist
<1> DEFINE Runs(h) == h = [n \in 0..m |-> IF n = 0 THEN t ELSE upsertedContext(h[n - 1], defs[n])]
<1>6. Runs(g)
  <2>1. \A n \in 1..m : g[n - 1] \in S
    BY <1>2, <1>5
  <2>2. \A n \in 1..m : g[n] = upsertedContext(g[n - 1], defs[n])
    BY <1>3, <1>5, <2>1
  <2>3. \A n \in 0..m : n # 0 => n \in 1..m
    BY <1>2
  <2>4. \A n \in 0..m : g[n] = IF n = 0 THEN t ELSE upsertedContext(g[n - 1], defs[n])
    BY <1>5, <2>2, <2>3, Zenon
  <2> QED
    BY <1>5, <2>4
<1>7. PICK after : after = CHOOSE h : Runs(h)
  OBVIOUS
<1>8. Runs(after)
  <2> HIDE DEF Runs
  <2> QED
    BY <1>6, <1>7
<1>9. upsertedContexts(t, defs) = after[m]
  BY <1>1, <1>7 DEF upsertedContexts
<1>10. after[0] = t /\ \A n \in 1..m : after[n] = upsertedContext(after[n - 1], defs[n])
  <2>1. \A n \in 0..m : after[n] = IF n = 0 THEN t ELSE upsertedContext(after[n - 1], defs[n])
    BY <1>8
  <2> QED
    BY <1>2, <2>1
<1>11. PICK P : P = {n \in 0..m : after[n] \in S}
  OBVIOUS
<1>12. 0 \in P /\ \A n \in 1..m : n - 1 \in P => n \in P
  BY <1>2, <1>10, <1>11
<1>13. \A n \in 0..m : n \in P
  BY <1>2, <1>11, <1>12, CountingUp
<1> QED
  BY <1>2, <1>9, <1>11, <1>13

\* The contexts of a snapshot, or of the constructor, are as good as one.
LEMMA UpsertedContextsIs ==
    ASSUME NEW t, TableOK(t), Orderly(t), NEW us, Played(t, us),
           NEW defs \in Seq(ContextDefinitions),
           \A n \in 1..Len(defs) : defs[n].user \in DOMAIN us \cup {Nobody}
    PROVE  /\ TableOK(upsertedContexts(t, defs)) /\ Orderly(upsertedContexts(t, defs))
           /\ Played(upsertedContexts(t, defs), us)
<1> DEFINE Good(u) == TableOK(u) /\ Orderly(u) /\ Played(u, us)
<1>1. Len(defs) \in Nat /\ \A n \in 1..Len(defs) : defs[n] \in ContextDefinitions
  BY LenProperties, ElementOfSeq
<1>2. PICK S : S = {u \in Tables : Good(u)}
  OBVIOUS
<1>3. t \in S /\ \A u \in S : Good(u)
  BY <1>2 DEF TableOK
<1>4. \A u \in S, n \in 1..Len(defs) : upsertedContext(u, defs[n]) \in S
  <2> TAKE u \in S, n \in 1..Len(defs)
  <2>1. PICK d, v : d = defs[n] /\ v = upsertedContext(u, defs[n])
    OBVIOUS
  <2>2. TableOK(u) /\ Played(u, us) /\ d \in ContextDefinitions /\ d.user \in DOMAIN us \cup {Nobody}
    BY <1>1, <1>3, <2>1
  <2>3. TableOK(v) /\ v.dirty /\ Played(v, us)
    BY <2>1, <2>2, UpsertedContextIs
  <2>4. v \in Tables /\ Orderly(v)
    BY <2>3 DEF TableOK, Orderly
  <2> QED
    BY <1>2, <2>1, <2>3, <2>4
<1> HIDE DEF Good
<1>5. upsertedContexts(t, defs) \in S
  BY <1>1, <1>3, <1>4, UpsertsStay DEF Upserts
<1> QED
  BY <1>3, <1>5 DEF Good

\* The users of a system, typed.
LEMMA UsersFields ==
    ASSUME NEW us \in UserSystems
    PROVE  /\ DOMAIN us \in SUBSET Users
           /\ us \in [DOMAIN us -> [enabled : BOOLEAN, devices : SUBSET Devices]]
           /\ \A u \in DOMAIN us : /\ us[u].enabled \in BOOLEAN /\ us[u].devices \in SUBSET Devices
                                   /\ us[u] = [enabled |-> us[u].enabled, devices |-> us[u].devices]
<1>1. PICK V \in SUBSET Users : us \in [V -> [enabled : BOOLEAN, devices : SUBSET Devices]]
  BY DEF UserSystems
<1>2. DOMAIN us = V
  BY <1>1
<1> QED
  BY <1>1, <1>2

\* A function from users to their records is a user system.
LEMMA IsUserSystem ==
    ASSUME NEW V \in SUBSET Users, NEW us \in [V -> [enabled : BOOLEAN, devices : SUBSET Devices]]
    PROVE  us \in UserSystems /\ DOMAIN us = V
BY DEF UserSystems

\* Devices are given to a user, and leave their owners.
LEMMA GivenIs ==
    ASSUME InputAssumption, NEW us, NEW os, SystemOK(us, os), NEW u \in DOMAIN us,
           NEW ds \in SUBSET Devices
    PROVE  /\ SystemOK(given(us, os, u, ds).users, given(us, os, u, ds).owners)
           /\ DOMAIN given(us, os, u, ds).users = DOMAIN us
<1>1. PICK V, so, vs, ps : /\ V = DOMAIN us /\ so = given(us, os, u, ds)
                           /\ vs = so.users /\ ps = so.owners
  OBVIOUS
<1>2. /\ V \in SUBSET Users /\ us \in UserSystems /\ os \in [Gamepads -> Users \cup {Nobody}]
      /\ \A v \in V : us[v].enabled \in BOOLEAN /\ us[v].devices \in SUBSET Devices
      /\ \A v \in V : us[v] = [enabled |-> us[v].enabled, devices |-> us[v].devices]
      /\ \A v \in V, i \in Gamepads : i \in us[v].devices <=> os[i] = v
      /\ \A i \in Gamepads : os[i] \in V \cup {Nobody}
      /\ u \in V
  BY <1>1, UsersFields DEF SystemOK
<1>3. vs = [v \in V |-> IF v = u THEN [us[u] EXCEPT !.devices = @ \cup ds]
                        ELSE [us[v] EXCEPT !.devices = @ \ {i \in ds \cap Gamepads : os[i] = v}]]
  <2>1. V \cup {u} = V
    BY <1>2
  <2> QED
    BY <1>1, <2>1 DEF given
<1>4. ps = [i \in Gamepads |-> IF i \in ds THEN u ELSE os[i]]
  BY <1>1 DEF given
<1>5. \A v \in V : vs[v] = [enabled |-> us[v].enabled,
                            devices |-> IF v = u THEN us[v].devices \cup ds
                                        ELSE us[v].devices \ {i \in ds \cap Gamepads : os[i] = v}]
  <2> TAKE v \in V
  <2>1. PICK x : x = us[v]
    OBVIOUS
  <2>2. x = [enabled |-> x.enabled, devices |-> x.devices]
    BY <1>2, <2>1
  <2>3. CASE v = u
    <3>1. vs[v] = [x EXCEPT !.devices = @ \cup ds]
      BY <1>3, <2>1, <2>3
    <3> QED
      BY <2>1, <2>2, <2>3, <3>1
  <2>4. CASE v # u
    <3>1. PICK gone : gone = {i \in ds \cap Gamepads : os[i] = v}
      OBVIOUS
    <3>2. vs[v] = [x EXCEPT !.devices = @ \ gone]
      BY <1>3, <2>1, <2>4, <3>1
    <3>3. vs[v] = [enabled |-> x.enabled, devices |-> x.devices \ gone]
      BY <2>2, <3>2
    <3> QED
      BY <2>1, <2>4, <3>1, <3>3
  <2> QED
    BY <2>3, <2>4
<1>6. vs \in UserSystems /\ DOMAIN vs = V
  <2>1. \A v \in V : vs[v] \in [enabled : BOOLEAN, devices : SUBSET Devices]
    <3> TAKE v \in V
    <3>1. PICK D : D = IF v = u THEN us[v].devices \cup ds
                       ELSE us[v].devices \ {i \in ds \cap Gamepads : os[i] = v}
      OBVIOUS
    <3>2. D \in SUBSET Devices
      BY <1>2, <3>1
    <3>3. vs[v] = [enabled |-> us[v].enabled, devices |-> D]
      BY <1>5, <3>1
    <3> QED
      BY <1>2, <3>2, <3>3
  <2>2. vs \in [V -> [enabled : BOOLEAN, devices : SUBSET Devices]]
    BY <1>3, <2>1
  <2> QED
    BY <1>2, <2>2, IsUserSystem
<1>7. ps \in [Gamepads -> Users \cup {Nobody}] /\ \A i \in Gamepads : ps[i] \in V \cup {Nobody}
  BY <1>2, <1>4
<1>8. ASSUME NEW v \in V, NEW i \in Gamepads PROVE i \in vs[v].devices <=> ps[i] = v
  <2>1. i \in us[v].devices <=> os[i] = v
    BY <1>2
  <2>2. ps[i] = IF i \in ds THEN u ELSE os[i]
    BY <1>4
  <2>3. vs[v].devices = IF v = u THEN us[v].devices \cup ds
                        ELSE us[v].devices \ {j \in ds \cap Gamepads : os[j] = v}
    <3>1. PICK D : D = IF v = u THEN us[v].devices \cup ds
                       ELSE us[v].devices \ {j \in ds \cap Gamepads : os[j] = v}
      OBVIOUS
    <3>2. vs[v] = [enabled |-> us[v].enabled, devices |-> D]
      BY <1>5, <3>1
    <3> QED
      BY <3>1, <3>2
  <2> QED
    BY <2>1, <2>2, <2>3
<1> QED
  BY <1>1, <1>6, <1>7, <1>8 DEF SystemOK

\* upsertUser: what the user had is released, then the devices are given.
LEMMA UpsertedUserIs ==
    ASSUME InputAssumption, NEW us, NEW os, SystemOK(us, os), NEW def \in DefinitionsOfUsers
    PROVE  /\ SystemOK(upsertedUser(us, os, def).users, upsertedUser(us, os, def).owners)
           /\ DOMAIN upsertedUser(us, os, def).users = DOMAIN us \cup {def.id}
<1>1. PICK V, W, before, fresh, vs, ps :
         /\ V = DOMAIN us /\ W = V \cup {def.id}
         /\ before = IF def.id \in DOMAIN us THEN us[def.id].devices ELSE {}
         /\ fresh = [enabled |-> def.enabled, devices |-> {}]
         /\ vs = [v \in W |-> IF v = def.id THEN fresh ELSE us[v]]
         /\ ps = [i \in Gamepads |-> IF i \in before THEN Nobody ELSE os[i]]
  OBVIOUS
<1>2. def.id \in Users /\ def.enabled \in BOOLEAN /\ def.devices \in SUBSET Devices
  BY DEF DefinitionsOfUsers
<1>3. /\ V \in SUBSET Users /\ os \in [Gamepads -> Users \cup {Nobody}]
      /\ us \in [V -> [enabled : BOOLEAN, devices : SUBSET Devices]]
      /\ \A v \in V, i \in Gamepads : i \in us[v].devices <=> os[i] = v
      /\ \A i \in Gamepads : os[i] \in V \cup {Nobody}
  BY <1>1, UsersFields DEF SystemOK
<1>4. fresh \in [enabled : BOOLEAN, devices : SUBSET Devices] /\ fresh.devices = {}
  BY <1>1, <1>2
<1>5. vs \in UserSystems /\ DOMAIN vs = W
  <2>1. W \in SUBSET Users
    BY <1>1, <1>2, <1>3
  <2>2. vs \in [W -> [enabled : BOOLEAN, devices : SUBSET Devices]]
    BY <1>1, <1>3, <1>4
  <2> QED
    BY <2>1, <2>2, IsUserSystem
<1>6. def.id # Nobody
  BY <1>2 DEF InputAssumption
<1>7. SystemOK(vs, ps)
  <2>1. ps \in [Gamepads -> Users \cup {Nobody}] /\ \A i \in Gamepads : ps[i] \in W \cup {Nobody}
    BY <1>1, <1>3
  <2>2. ASSUME NEW v \in W, NEW i \in Gamepads PROVE i \in vs[v].devices <=> ps[i] = v
    <3>1. ps[i] = IF i \in before THEN Nobody ELSE os[i]
      BY <1>1
    <3>2. i \in before <=> os[i] = def.id
      BY <1>1, <1>3, <1>6
    <3>3. CASE v = def.id
      <4>1. vs[v].devices = {}
        BY <1>1, <1>4, <3>3
      <4> QED
        BY <1>6, <3>1, <3>2, <3>3, <4>1
    <3>4. CASE v # def.id
      <4>1. vs[v] = us[v] /\ v \in V /\ v # Nobody
        <5>1. Nobody \notin Users
          BY DEF InputAssumption
        <5> QED
          BY <1>1, <1>3, <3>4, <5>1
      <4> QED
        BY <1>3, <3>1, <3>2, <3>4, <4>1
    <3> QED
      BY <3>3, <3>4
  <2> QED
    BY <1>5, <2>1, <2>2 DEF SystemOK
<1>8. upsertedUser(us, os, def) = given(vs, ps, def.id, def.devices)
  BY <1>1 DEF upsertedUser
<1>9. def.id \in DOMAIN vs
  BY <1>1, <1>5
<1>10. PICK so : so = given(vs, ps, def.id, def.devices)
  OBVIOUS
<1>11. SystemOK(so.users, so.owners) /\ DOMAIN so.users = DOMAIN vs
  BY <1>2, <1>7, <1>9, <1>10, GivenIs
<1> QED
  BY <1>1, <1>5, <1>8, <1>10, <1>11
\* The same of users.
LEMMA UserUpsertsStay ==
    ASSUME NEW S, NEW us, NEW os, NEW t, t = [users |-> us, owners |-> os], t \in S,
           NEW defs, UserUpserts(S, defs)
    PROVE  \E after : /\ \A n \in 0..Len(defs) : after[n] \in S
                      /\ after[0] = t /\ upsertedUsers(us, os, defs) = after[Len(defs)]
                      /\ \A n \in 1..Len(defs) :
                            after[n] = upsertedUser(after[n - 1].users, after[n - 1].owners, defs[n])
<1>1. PICK m : m = Len(defs)
  OBVIOUS
<1>2. m \in Nat /\ \A s \in S, n \in 1..m : upsertedUser(s.users, s.owners, defs[n]) \in S
  BY <1>1 DEF UserUpserts
<1>14. m \in Nat
  BY <1>2
<1>3. PICK F : F = [n \in 1..m |-> [s \in S |-> upsertedUser(s.users, s.owners, defs[n])]]
  OBVIOUS
<1>4. F \in [1..m -> [S -> S]]
  BY <1>2, <1>3
<1>5. PICK g \in [0..m -> S] : g[0] = t /\ \A n \in 1..m : g[n] = F[n][g[n - 1]]
  BY <1>4, <1>14, StepsExist
<1> DEFINE Runs(h) ==
      h = [n \in 0..m |->
             IF n = 0 THEN t ELSE upsertedUser(h[n - 1].users, h[n - 1].owners, defs[n])]
<1>6. Runs(g)
  <2>1. \A n \in 1..m : g[n - 1] \in S
    BY <1>2, <1>5
  <2>2. \A n \in 1..m : g[n] = upsertedUser(g[n - 1].users, g[n - 1].owners, defs[n])
    BY <1>3, <1>5, <2>1
  <2>3. \A n \in 0..m : n # 0 => n \in 1..m
    BY <1>2
  <2>4. \A n \in 0..m : g[n] = IF n = 0 THEN t ELSE upsertedUser(g[n - 1].users, g[n - 1].owners, defs[n])
    BY <1>5, <2>2, <2>3, Zenon
  <2> QED
    BY <1>5, <2>4
<1>7. PICK after : after = CHOOSE h : Runs(h)
  OBVIOUS
<1>8. Runs(after)
  <2> HIDE DEF Runs
  <2> QED
    BY <1>6, <1>7
<1>9. upsertedUsers(us, os, defs) = after[m]
  BY <1>1, <1>7 DEF upsertedUsers
<1>10. /\ after[0] = t
       /\ \A n \in 1..m : after[n] = upsertedUser(after[n - 1].users, after[n - 1].owners, defs[n])
  <2>1. \A n \in 0..m :
            after[n] = IF n = 0 THEN t
                       ELSE upsertedUser(after[n - 1].users, after[n - 1].owners, defs[n])
    BY <1>8
  <2> QED
    BY <1>2, <2>1
<1>11. PICK P : P = {n \in 0..m : after[n] \in S}
  OBVIOUS
<1>12. 0 \in P /\ \A n \in 1..m : n - 1 \in P => n \in P
  BY <1>2, <1>10, <1>11
<1>13. \A n \in 0..m : n \in P
  BY <1>2, <1>11, <1>12, CountingUp
<1>15. \A n \in 0..m : after[n] \in S
  BY <1>11, <1>13
<1> QED
  BY <1>1, <1>9, <1>10, <1>15

\* A user system with its owners.
OwnedSystems == [users : UserSystems, owners : [Gamepads -> Users \cup {Nobody}]]

\* The users of a snapshot, or of the constructor: each is there in the end.
LEMMA UpsertedUsersIs ==
    ASSUME InputAssumption, NEW us, NEW os, SystemOK(us, os), NEW defs \in Seq(DefinitionsOfUsers)
    PROVE  /\ SystemOK(upsertedUsers(us, os, defs).users, upsertedUsers(us, os, defs).owners)
           /\ DOMAIN us \subseteq DOMAIN upsertedUsers(us, os, defs).users
           /\ \A n \in 1..Len(defs) : defs[n].id \in DOMAIN upsertedUsers(us, os, defs).users
<1>1. PICK t, S : /\ t = [users |-> us, owners |-> os]
                  /\ S = {so \in OwnedSystems : SystemOK(so.users, so.owners)}
  OBVIOUS
<1>2. t \in S /\ t.users = us /\ t.owners = os
  <2>1. t.users = us /\ t.owners = os
    BY <1>1
  <2>2. us \in UserSystems /\ os \in [Gamepads -> Users \cup {Nobody}]
    BY DEF SystemOK
  <2>3. t \in OwnedSystems
    BY <1>1, <2>2 DEF OwnedSystems
  <2> QED
    BY <1>1, <2>1, <2>3
<1>3. PICK m : m = Len(defs)
  OBVIOUS
<1>4. m \in Nat /\ \A n \in 1..m : defs[n] \in DefinitionsOfUsers
  BY <1>3, LenProperties, ElementOfSeq
<1>5. \A so \in S, n \in 1..m :
         /\ upsertedUser(so.users, so.owners, defs[n]) \in S
         /\ DOMAIN upsertedUser(so.users, so.owners, defs[n]).users = DOMAIN so.users \cup {defs[n].id}
  <2> TAKE so \in S, n \in 1..m
  <2>1. PICK vs, ps, d, r : /\ vs = so.users /\ ps = so.owners /\ d = defs[n]
                            /\ r = upsertedUser(vs, ps, d)
    OBVIOUS
  <2>2. SystemOK(vs, ps) /\ d \in DefinitionsOfUsers
    BY <1>1, <1>4, <2>1
  <2>3. SystemOK(r.users, r.owners) /\ DOMAIN r.users = DOMAIN vs \cup {d.id}
    BY <2>1, <2>2, UpsertedUserIs
  <2>4. r = [users |-> r.users, owners |-> r.owners]
    BY <2>1 DEF upsertedUser, given
  <2>5. r.users \in UserSystems /\ r.owners \in [Gamepads -> Users \cup {Nobody}]
    BY <2>3 DEF SystemOK
  <2>6. r \in OwnedSystems
    BY <2>4, <2>5 DEF OwnedSystems
  <2>7. r \in S
    BY <1>1, <2>3, <2>6
  <2> QED
    BY <2>1, <2>3, <2>7
<1>6. UserUpserts(S, defs)
  BY <1>3, <1>4, <1>5 DEF UserUpserts
<1>7. PICK after : /\ \A n \in 0..m : after[n] \in S
                   /\ after[0] = t /\ upsertedUsers(us, os, defs) = after[m]
                   /\ \A n \in 1..m :
                         after[n] = upsertedUser(after[n - 1].users, after[n - 1].owners, defs[n])
  <2>1. t = [users |-> us, owners |-> os] /\ t \in S
    BY <1>1, <1>2
  <2>2. PICK after : /\ \A n \in 0..Len(defs) : after[n] \in S
                     /\ after[0] = t /\ upsertedUsers(us, os, defs) = after[Len(defs)]
                     /\ \A n \in 1..Len(defs) :
                           after[n] = upsertedUser(after[n - 1].users, after[n - 1].owners, defs[n])
    BY <1>6, <2>1, UserUpsertsStay
  <2> QED
    BY <1>3, <2>2
<1>8. PICK P : P = {n \in 0..m : /\ DOMAIN us \subseteq DOMAIN after[n].users
                                 /\ \A k \in 1..n : defs[k].id \in DOMAIN after[n].users}
  OBVIOUS
<1>9. 0 \in P
  <2>1. \A k \in 1..0 : FALSE
    OBVIOUS
  <2> QED
    BY <1>2, <1>4, <1>7, <1>8, <2>1
<1>10. ASSUME NEW n \in 1..m, n - 1 \in P PROVE n \in P
  <2>1. n - 1 \in 0..m /\ n \in 0..m /\ n \in Nat
    BY <1>4
  <2>2. PICK x, y : x = after[n - 1].users /\ y = after[n].users
    OBVIOUS
  <2>4. DOMAIN y = DOMAIN x \cup {defs[n].id}
    BY <1>5, <1>7, <2>1, <2>2
  <2>5. DOMAIN us \subseteq DOMAIN x /\ \A k \in 1..(n - 1) : defs[k].id \in DOMAIN x
    BY <1>8, <1>10, <2>2
  <2>6. ASSUME NEW k \in 1..n PROVE defs[k].id \in DOMAIN y
    <3>1. k = n \/ k \in 1..(n - 1)
      BY <2>1
    <3> QED
      BY <2>4, <2>5, <3>1
  <2> QED
    BY <1>8, <2>1, <2>2, <2>4, <2>5, <2>6
<1>11. \A n \in 0..m : n \in P
  BY <1>4, <1>8, <1>9, <1>10, CountingUp
<1>12. m \in P
  BY <1>4, <1>11
<1>13. m \in 0..m
  BY <1>4
<1>14. SystemOK(after[m].users, after[m].owners)
  BY <1>1, <1>7, <1>13
<1> QED
  BY <1>3, <1>7, <1>8, <1>12, <1>14

\* The contexts are ordered by priority and stamp, each once.
LEMMA SortedIs ==
    ASSUME InputAssumption, NEW t, TableOK(t)
    PROVE  Sorted(t) \in Seq(Contexts) /\ Elements(Sorted(t)) = Known(t)
<1>1. PICK K, f, r : K = Known(t) /\ f = t.contexts /\ r = t.recency
  OBVIOUS
<1>2. /\ K \in SUBSET Contexts /\ f \in [K -> ContextRecords] /\ r \in Seq(Contexts)
      /\ HasNoRepeats(r) /\ Elements(r) = K
  BY <1>1, TableFields DEF TableOK
<1>3. Len(r) \in Nat /\ DOMAIN r = 1..Len(r)
  BY <1>2, LenProperties
<1>4. \A c \in K : Stamp(t, c) \in Nat /\ Stamp(t, c) \in 1..Len(r) /\ r[Stamp(t, c)] = c
  <2> TAKE c \in K
  <2>1. \E n \in 1..Len(r) : r[n] = c
    BY <1>2 DEF Elements
  <2>2. Stamp(t, c) = CHOOSE n \in 1..Len(r) : r[n] = c
    BY <1>1, <1>3 DEF Stamp
  <2>3. Stamp(t, c) \in 1..Len(r) /\ r[Stamp(t, c)] = c
    BY <2>1, <2>2
  <2> QED
    BY <1>3, <2>3
<1>5. \A c, d \in K : Stamp(t, c) = Stamp(t, d) => c = d
  BY <1>4
<1>6. PICK p, s : p = [c \in K |-> f[c].priority] /\ s = [c \in K |-> Stamp(t, c)]
  OBVIOUS
<1>7. p \in [K -> Nat] /\ s \in [K -> Nat] /\ \A c, d \in K : s[c] = s[d] => c = d
  <2>1. \A c \in K : f[c].priority \in Nat
    BY <1>2, ContextFields
  <2> QED
    BY <1>4, <1>5, <1>6, <2>1
<1>8. PICK R : R = {q \in K \X K : Precedes(t, q[1], q[2])}
  OBVIOUS
<1>9. \A c, d \in K : <<c, d>> \in R <=> p[c] > p[d] \/ (p[c] = p[d] /\ s[c] > s[d])
  <2> TAKE c \in K, d \in K
  <2>1. PICK q : q = <<c, d>>
    OBVIOUS
  <2>2. q \in K \X K /\ q[1] = c /\ q[2] = d
    BY <2>1
  <2>3. q \in R <=> Precedes(t, c, d)
    BY <1>8, <2>2
  <2>4. Precedes(t, c, d) <=> p[c] > p[d] \/ (p[c] = p[d] /\ s[c] > s[d])
    BY <1>1, <1>6 DEF Precedes
  <2> QED
    BY <2>1, <2>3, <2>4
<1>10. Sorted(t) = InOrder(K, R)
  BY <1>1, <1>8 DEF Sorted
<1>11. IsFiniteSet(K)
  BY <1>2, FS_Subset DEF InputAssumption
<1>12. \A c \in K : <<c, c>> \notin R
  BY <1>7, <1>9
<1>13. \A c, d \in K : c = d \/ <<c, d>> \in R \/ <<d, c>> \in R
  <2> TAKE c \in K, d \in K
  <2>1. p[c] \in Nat /\ p[d] \in Nat /\ s[c] \in Nat /\ s[d] \in Nat
    BY <1>7
  <2> QED
    BY <1>7, <1>9, <2>1
<1>14. \A c, d, e \in K : <<c, d>> \in R /\ <<d, e>> \in R => <<c, e>> \in R
  <2> TAKE c \in K, d \in K, e \in K
  <2>1. /\ p[c] \in Nat /\ p[d] \in Nat /\ p[e] \in Nat
        /\ s[c] \in Nat /\ s[d] \in Nat /\ s[e] \in Nat
    BY <1>7
  <2> QED
    BY <1>9, <2>1
<1>15. /\ InOrder(K, R) \in Seq(K) /\ Elements(InOrder(K, R)) = K
  BY <1>11, <1>12, <1>13, <1>14, InOrderIs
<1>16. \A q \in Seq(K) : q \in Seq(Contexts)
  BY <1>2
<1> QED
  BY <1>1, <1>10, <1>15, <1>16

\* The order depends on what SameOrder keeps only.
LEMMA SortedSame ==
    ASSUME NEW t, NEW t2, SameOrder(t, t2)
    PROVE  Sorted(t2) = Sorted(t) /\ (Orderly(t) => Orderly(t2))
<1>1. PICK K, r : K = Known(t) /\ r = t.recency
  OBVIOUS
<1>2. /\ Known(t2) = K /\ t2.recency = r /\ t2.ordered = t.ordered /\ t2.dirty = t.dirty
      /\ \A c \in K : t2.contexts[c].priority = t.contexts[c].priority
  BY <1>1 DEF SameOrder
<1>3. \A c \in K : Stamp(t2, c) = Stamp(t, c)
  BY <1>1, <1>2 DEF Stamp
<1>4. \A c, d \in K : Precedes(t2, c, d) <=> Precedes(t, c, d)
  BY <1>2, <1>3 DEF Precedes
<1>5. PICK R : R = {p \in K \X K : Precedes(t, p[1], p[2])}
  OBVIOUS
<1>6. R = {p \in K \X K : Precedes(t2, p[1], p[2])}
  BY <1>4, <1>5
<1>7. Sorted(t) = InOrder(K, R) /\ Sorted(t2) = InOrder(K, R)
  BY <1>1, <1>2, <1>5, <1>6 DEF Sorted
<1> QED
  BY <1>2, <1>7 DEF Orderly

\* getOrderedContexts leaves the order of the contexts that are there.
LEMMA OrderedIs ==
    ASSUME InputAssumption, NEW t, TableOK(t), Orderly(t)
    PROVE  /\ TableOK(getOrderedContexts(t)) /\ Orderly(getOrderedContexts(t))
           /\ getOrderedContexts(t).contexts = t.contexts
           /\ Elements(getOrderedContexts(t).ordered) = Known(t)
<1>1. Sorted(t) \in Seq(Contexts) /\ Elements(Sorted(t)) = Known(t)
  BY SortedIs
<1>2. CASE ~t.dirty
  <2>1. getOrderedContexts(t) = t /\ t.ordered = Sorted(t)
    BY <1>2 DEF getOrderedContexts, Orderly
  <2> QED
    BY <1>1, <2>1
<1>3. CASE t.dirty
  <2>1. PICK s, u : s = Sorted(t) /\ u = getOrderedContexts(t)
    OBVIOUS
  <2>2. u = [t EXCEPT !.ordered = s, !.dirty = FALSE]
    BY <1>3, <2>1 DEF getOrderedContexts
  <2>3. t \in Tables /\ HasNoRepeats(t.recency) /\ Elements(t.recency) = Known(t)
    BY DEF TableOK
  <2>11. t = [contexts |-> t.contexts, recency |-> t.recency, ordered |-> t.ordered,
              dirty |-> t.dirty]
    BY <2>3, TableFields
  <2>4. u = [contexts |-> t.contexts, recency |-> t.recency, ordered |-> s, dirty |-> FALSE]
    BY <2>2, <2>11
  <2>5. u \in Tables
    BY <1>1, <2>1, <2>3, <2>4, TableFields DEF Tables
  <2>6. u.contexts = t.contexts /\ u.recency = t.recency /\ u.ordered = s
    BY <2>4
  <2>7. Known(u) = Known(t)
    BY <2>6 DEF Known
  <2>8. TableOK(u)
    BY <2>3, <2>5, <2>6, <2>7 DEF TableOK
  <2>9. Sorted(u) = s
    <3>1. PICK K, r : K = Known(t) /\ r = t.recency
      OBVIOUS
    <3>2. \A c \in K : Stamp(u, c) = Stamp(t, c)
      BY <2>6 DEF Stamp
    <3>3. \A c, d \in K : Precedes(u, c, d) <=> Precedes(t, c, d)
      BY <2>6, <3>2 DEF Precedes
    <3>4. PICK R : R = {p \in K \X K : Precedes(t, p[1], p[2])}
      OBVIOUS
    <3>5. R = {p \in K \X K : Precedes(u, p[1], p[2])}
      BY <3>3, <3>4
    <3> QED
      BY <2>1, <2>7, <3>1, <3>4, <3>5 DEF Sorted
  <2>10. Orderly(u)
    BY <2>6, <2>9 DEF Orderly
  <2> QED
    BY <1>1, <2>1, <2>6, <2>8, <2>10
<1>4. t.dirty \in BOOLEAN
  BY TableFields DEF TableOK
<1> QED
  BY <1>2, <1>3, <1>4

\* What drives an action is one of the ordered contexts.
LEMMA CollectIs ==
    ASSUME NEW t, t.ordered \in Seq(Contexts), NEW us, NEW os, NEW dn, NEW a \in Actions
    PROVE  \/ collectActionInputs(t, us, os, dn)[a] = Nowhere
           \/ collectActionInputs(t, us, os, dn)[a] \in Elements(t.ordered)
<1> DEFINE context(p) == t.ordered[p[1]]
           entry(p) == t.contexts[context(p)].actions[p[2]]
           control(p) == entry(p).current[p[3]]
           read == {p \in BindingPlaces(t) : Reads(t, us, os, dn, context(p), control(p))}
           used == {p \in read : ~\E q \in read : /\ EvaluatedBefore(q, p) /\ control(q) = control(p)
                                                  /\ t.contexts[context(q)].capture}
           driving == {p[1] : p \in {q \in used : entry(q).action = a}}
<1>1. collectActionInputs(t, us, os, dn)[a] =
         IF driving = {} THEN Nowhere
         ELSE t.ordered[CHOOSE n \in driving : \A k \in driving : n <= k]
  BY DEF collectActionInputs
<1>2. PICK m : m = Len(t.ordered) /\ m \in Nat
  BY LenProperties
<1>3. \A p \in BindingPlaces(t) : p[1] \in 1..m
  BY <1>2 DEF BindingPlaces
<1>4. driving \in SUBSET (1..m)
  <2>1. used \subseteq BindingPlaces(t)
    OBVIOUS
  <2> HIDE DEF used
  <2> QED
    BY <1>3, <2>1
<1>5. PICK D : D = driving
  OBVIOUS
<1> HIDE DEF driving
<1>6. IsFiniteSet(D) /\ D \in SUBSET Nat /\ D \in SUBSET (1..m)
  <2> HIDE DEF used, read, control, entry, context
  <2>1. 1 \in Int /\ m \in Int
    BY <1>2
  <2>2. IsFiniteSet(1..m)
    BY <2>1, FS_Interval
  <2>3. D \in SUBSET (1..m)
    BY <1>4, <1>5
  <2>4. IsFiniteSet(D)
    BY <2>2, <2>3, FS_Subset
  <2>5. \A n \in 1..m : n \in Nat
    BY <1>2
  <2> QED
    BY <2>3, <2>4, <2>5
<1>7. D # {} => \E n \in D : \A k \in D : n <= k
  BY <1>6, FirstAndLast
<1>8. PICK first : first = CHOOSE n \in D : \A k \in D : n <= k
  OBVIOUS
<1>9. D # {} => first \in D
  BY <1>7, <1>8
<1>10. D # {} => t.ordered[first] \in Elements(t.ordered)
  BY <1>2, <1>6, <1>9 DEF Elements
<1> QED
  BY <1>1, <1>5, <1>8, <1>10

\* commitButtonState: the context that drives an action, and the controls of
\* its binding that hold it.
LEMMA CommittedIs ==
    ASSUME InputAssumption, NEW t, TableOK(t), Elements(t.ordered) = Known(t), NEW us, NEW os,
           NEW dn \in SUBSET Controls
    PROVE  /\ committed(t, us, os, dn) \in [Actions -> Buttons]
           /\ \A a \in Actions :
                 /\ committed(t, us, os, dn)[a].value => committed(t, us, os, dn)[a].context # Nowhere
                 /\ HeldBy(t, us, os, committed(t, us, os, dn)[a].context, a,
                           committed(t, us, os, dn)[a].held)
<1>1. PICK source, next : source = collectActionInputs(t, us, os, dn) /\ next = committed(t, us, os, dn)
  OBVIOUS
<1>2. t.ordered \in Seq(Contexts) /\ Known(t) \subseteq Contexts
  BY TableFields DEF TableOK
<1>3. \A a \in Actions : source[a] = Nowhere \/ source[a] \in Known(t)
  BY <1>1, <1>2, CollectIs
<1>4. next = [a \in Actions |-> [value |-> source[a] # Nowhere, context |-> source[a],
                                 held |-> Holding(t, us, os, dn, source[a], a)]]
  BY <1>1 DEF committed
<1>5. ASSUME NEW a \in Actions
      PROVE  /\ next[a] \in Buttons /\ (next[a].value => next[a].context # Nowhere)
             /\ HeldBy(t, us, os, next[a].context, a, next[a].held)
  <2>1. PICK c, h : c = source[a] /\ h = Holding(t, us, os, dn, c, a)
    OBVIOUS
  <2>2. next[a] = [value |-> c # Nowhere, context |-> c, held |-> h]
    BY <1>4, <2>1
  <2>3. next[a].value = (c # Nowhere) /\ next[a].context = c /\ next[a].held = h
    BY <2>2
  <2>4. h \in SUBSET Controls
    BY <2>1 DEF Holding, Reads
  <2>5. c \in Contexts \cup {Nowhere}
    BY <1>2, <1>3, <2>1
  <2>6. next[a] \in Buttons
    <3>1. PICK yes \in BOOLEAN : yes = (c # Nowhere)
      OBVIOUS
    <3>2. next[a] = [value |-> yes, context |-> c, held |-> h]
      BY <2>2, <3>1
    <3> QED
      BY <2>4, <2>5, <3>1, <3>2 DEF Buttons
  <2>7. HeldBy(t, us, os, c, a, h)
    BY <1>2, <2>1 DEF HeldBy, Holding, Reads, InputAssumption
  <2> QED
    BY <2>3, <2>6, <2>7
<1>6. next \in [Actions -> Buttons]
  BY <1>4, <1>5
<1> QED
  BY <1>1, <1>5, <1>6

\* What holds a button goes on when the bindings and the users are the same.
LEMMA HeldStays ==
    ASSUME NEW t, NEW t2, SameBindings(t, t2), NEW us, NEW os, NEW c, NEW a \in Actions, NEW held,
           HeldBy(t, us, os, c, a, held)
    PROVE  HeldBy(t2, us, os, c, a, held)
<1> SUFFICES ASSUME c \in Known(t2) PROVE HeldBy(t2, us, os, c, a, held)
  BY DEF HeldBy
<1>1. c \in Known(t) /\ t2.contexts[c].user = t.contexts[c].user /\ Current(t2, c, a) = Current(t, c, a)
  BY DEF SameBindings
<1>2. ControlsOf(t2, c, a) = ControlsOf(t, c, a)
  BY <1>1 DEF ControlsOf
<1> QED
  BY <1>1, <1>2 DEF HeldBy

\* The bindings of an action, typed.
LEMMA CurrentTyped ==
    ASSUME NEW t, TableOK(t), NEW c \in Known(t), NEW a
    PROVE  Current(t, c, a) \in Seq(Controls)
<1>1. PICK x : x = t.contexts[c] /\ x \in ContextRecords
  BY TableFields DEF TableOK
<1>2. Entry(x, a) # 0 => Entry(x, a) \in 1..Len(x.actions)
  BY <1>1, EntryIs
<1>3. Entry(x, a) # 0 => x.actions[Entry(x, a)].current \in Seq(Controls)
  BY <1>1, <1>2, ContextFields
<1>4. Current(t, c, a) = IF Entry(x, a) = 0 THEN <<>> ELSE x.actions[Entry(x, a)].current
  BY <1>1 DEF Current
<1> QED
  BY <1>3, <1>4, EmptySeq

\* A target goes on when the bindings are the same and its context is there.
LEMMA ResolvesStays ==
    ASSUME NEW t, NEW t2, SameBindings(t, t2), NEW r, r \in Targets, Resolves(t, r),
           r.context \in Known(t2)
    PROVE  Resolves(t2, r)
BY DEF Resolves, SameBindings, Targets

\* A table that reads the same has the same users.
LEMMA PlayedStays ==
    ASSUME NEW t, NEW t2, SameUsers(t, t2), NEW us, Played(t, us)
    PROVE  Played(t2, us)
BY DEF SameUsers, Played

\* Contexts with the same bindings have the same users.
LEMMA BindingsUsers ==
    ASSUME NEW t, NEW t2, SameBindings(t, t2)
    PROVE  SameUsers(t, t2)
BY DEF SameUsers, SameBindings

\* What Bound writes is a binding of the target.
LEMMA BoundIs ==
    ASSUME NEW t, TableOK(t), NEW r, r \in Targets, Resolves(t, r), NEW k \in Controls
    PROVE  TableOK(Bound(t, r, k)) /\ SameUsers(t, Bound(t, r, k)) /\ SameOrder(t, Bound(t, r, k))
<1>1. PICK c, a, i, list : c = r.context /\ a = r.action /\ i = r.index /\ list = Current(t, c, a)
  OBVIOUS
<1>2. c \in Known(t) /\ a \in Actions /\ i \in Nat /\ list \in Seq(Controls)
  BY <1>1, CurrentTyped DEF Resolves, Targets
<1>3. i = 0 \/ i \in 1..Len(list)
  BY <1>1, <1>2 DEF Resolves
<1>4. PICK new : new = IF i = 0 THEN Append(list, k) ELSE [list EXCEPT ![i] = k]
  OBVIOUS
<1>5. new \in Seq(Controls)
  BY <1>2, <1>3, <1>4, AppendProperties, ExceptSeq
<1>6. Bound(t, r, k) = rebound(t, c, a, new)
  BY <1>1, <1>4 DEF Bound
<1> QED
  BY <1>2, <1>5, <1>6, ReboundIs

\* The fields of a rebinding, typed; a session is not the absence of one.
LEMMA RebindingFields ==
    ASSUME NEW rb, RebindingOK(rb)
    PROVE  /\ rb = [session |-> rb.session, begun |-> rb.begun, told |-> rb.told,
                    disposed |-> rb.disposed, lost |-> rb.lost, late |-> rb.late]
           /\ rb.begun \in 0..MaxSessions /\ rb.told \in Seq(Seq(Reasons)) /\ Len(rb.told) = rb.begun
           /\ rb.disposed \in SUBSET (1..MaxSessions)
           /\ rb.lost \in SUBSET (1..rb.begun) /\ rb.late \in SUBSET (1..rb.begun)
           /\ rb.session = NoSession \/ rb.session \in Sessions
           /\ rb.session # NoSession =>
                 /\ rb.session \in Sessions /\ rb.session.token \in 1..rb.begun
                 /\ rb.session.token \notin rb.lost /\ rb.session.token \notin rb.late
                 /\ rb.session.request \in RebindingRequests
                 /\ rb.session = [token |-> rb.session.token, request |-> rb.session.request,
                                  touched |-> rb.session.touched]
           /\ \A n \in 1..rb.begun :
                 /\ rb.told[n] \in Seq(Reasons)
                 /\ Len(rb.told[n]) = IF Active(rb, n) \/ n \in rb.lost THEN 0
                                      ELSE IF n \in rb.late THEN 2 ELSE 1
                 /\ rb.told[n] = <<"manual">> => n \in rb.disposed
<1>1. rb \in Rebindings /\ Len(rb.told) = rb.begun
  BY DEF RebindingOK
<1>2. /\ rb = [session |-> rb.session, begun |-> rb.begun, told |-> rb.told,
               disposed |-> rb.disposed, lost |-> rb.lost, late |-> rb.late]
      /\ rb.begun \in 0..MaxSessions /\ rb.told \in Seq(Seq(Reasons))
      /\ rb.disposed \in SUBSET (1..MaxSessions)
      /\ rb.session = NoSession \/ rb.session \in Sessions
  BY <1>1 DEF Rebindings
<1>3. rb.session # NoSession =>
         /\ rb.session \in Sessions /\ rb.session.token \in 1..rb.begun
         /\ rb.session.token \notin rb.lost /\ rb.session.token \notin rb.late
  BY <1>2 DEF RebindingOK
<1>4. \A s \in Sessions : /\ s.request \in RebindingRequests
                          /\ s = [token |-> s.token, request |-> s.request, touched |-> s.touched]
  BY DEF Sessions
<1>5. \A n \in 1..rb.begun : rb.told[n] \in Seq(Reasons)
  BY <1>1, <1>2, ElementOfSeq
<1>6. rb.lost \in SUBSET (1..rb.begun) /\ rb.late \in SUBSET (1..rb.begun)
  BY DEF RebindingOK
<1>7. \A n \in 1..rb.begun :
         /\ Len(rb.told[n]) = IF Active(rb, n) \/ n \in rb.lost THEN 0
                              ELSE IF n \in rb.late THEN 2 ELSE 1
         /\ rb.told[n] = <<"manual">> => n \in rb.disposed
  BY DEF RebindingOK
<1> QED
  BY <1>1, <1>2, <1>3, <1>4, <1>5, <1>6, <1>7

\* The number of sessions begun is a natural number.
LEMMA BegunNat ==
    ASSUME NEW rb, RebindingOK(rb)
    PROVE  rb.begun \in Nat
<1>1. rb.begun \in 0..MaxSessions
  BY RebindingFields
<1> QED
  BY <1>1

\* A session that begins is a session, and not the absent one.
LEMMA IsSession ==
    ASSUME MaxSessions \in Nat, NEW n \in 1..MaxSessions, NEW r \in RebindingRequests,
           NEW touched \in BOOLEAN
    PROVE  /\ [token |-> n, request |-> r, touched |-> touched] \in Sessions
           /\ [token |-> n, request |-> r, touched |-> touched] # NoSession
<1>1. PICK s : s = [token |-> n, request |-> r, touched |-> touched]
  OBVIOUS
<1>2. s \in Sessions /\ s.token = n
  BY <1>1 DEF Sessions
<1>3. NoSession.token = 0
  BY DEF NoSession
<1>4. n # 0
  OBVIOUS
<1> QED
  BY <1>1, <1>2, <1>3, <1>4

\* What sessions were told, and the session that goes on.
Accounted(s, b, told, handles, lost, late) ==
    \A n \in 1..b : /\ Len(told[n]) = IF (s # NoSession /\ s.token = n) \/ n \in lost THEN 0
                                     ELSE IF n \in late THEN 2 ELSE 1
                    /\ told[n] = <<"manual">> => n \in handles
\* It was begun and not lost.
GoesOn(s, b, lost, late) ==
    s = NoSession \/ (s \in Sessions /\ s.token \in 1..b /\ s.token \notin lost \cup late)

\* A record of sessions, put together.
LEMMA IsRebinding ==
    ASSUME NEW rb, rb \in Rebindings, Len(rb.told) = rb.begun, rb.lost \subseteq 1..rb.begun,
           rb.late \subseteq 1..rb.begun, GoesOn(rb.session, rb.begun, rb.lost, rb.late),
           Accounted(rb.session, rb.begun, rb.told, rb.disposed, rb.lost, rb.late)
    PROVE  RebindingOK(rb)
BY DEF RebindingOK, Active, GoesOn, Accounted

\* A record of sessions put together from its fields has its type.
LEMMA RebindingTyped ==
    ASSUME MaxSessions \in Nat, NEW s \in {NoSession} \cup Sessions, NEW b \in 0..MaxSessions,
           NEW told \in Seq(Seq(Reasons)), NEW handles \in SUBSET (1..MaxSessions),
           NEW lost \in SUBSET (1..b), NEW late \in SUBSET (1..b)
    PROVE  [session |-> s, begun |-> b, told |-> told, disposed |-> handles, lost |-> lost, late |-> late]
              \in Rebindings
<1>1. lost \in SUBSET (1..MaxSessions) /\ late \in SUBSET (1..MaxSessions)
  OBVIOUS
<1> QED
  BY <1>1 DEF Rebindings

\* A session begins, and others are lost; a handle is disposed of.
BegunOver(rb, r, over) == [opened(rb, r) EXCEPT !.lost = @ \cup over]
\* The handle of session n is disposed of.
Noted(rb, n) == [rb EXCEPT !.disposed = @ \cup {n}]

\* A session begins; what waited is lost.
LEMMA BegunIs ==
    ASSUME MaxSessions \in Nat, NEW rb, RebindingOK(rb), rb.begun < MaxSessions,
           NEW r \in RebindingRequests,
           NEW over, over = IF rb.session = NoSession THEN {} ELSE {rb.session.token},
           NEW new, new = BegunOver(rb, r, over)
    PROVE  /\ RebindingOK(new) /\ new.begun = rb.begun + 1
           /\ new.session = [token |-> rb.begun + 1, request |-> r, touched |-> FALSE]
           /\ new.session # NoSession /\ new.lost = rb.lost \cup over /\ new.late = rb.late
<1>1. PICK b, told, n, s : /\ b = rb.begun /\ told = Append(rb.told, <<>>) /\ n = b + 1
                           /\ s = [token |-> n, request |-> r, touched |-> FALSE]
  OBVIOUS
<1>2. new = [session |-> s, begun |-> n, told |-> told, disposed |-> rb.disposed,
             lost |-> rb.lost \cup over, late |-> rb.late]
  <2>1. PICK x, d, l, q : x = opened(rb, r) /\ d = rb.disposed /\ l = rb.lost /\ q = rb.late
    OBVIOUS
  <2>2. rb = [session |-> rb.session, begun |-> b, told |-> rb.told, disposed |-> d, lost |-> l,
              late |-> q]
    BY <1>1, <2>1, RebindingFields
  <2>3. x = [session |-> s, begun |-> n, told |-> told, disposed |-> d, lost |-> l,
             late |-> q]
    BY <1>1, <2>1, <2>2 DEF opened
  <2>4. PICK y : y = l \cup over
    OBVIOUS
  <2>5. new = [x EXCEPT !.lost = @ \cup over]
    BY <2>1 DEF BegunOver
  <2>6. new = [session |-> s, begun |-> n, told |-> told, disposed |-> d, lost |-> y,
               late |-> q]
    BY <2>3, <2>4, <2>5
  <2> QED
    BY <2>1, <2>4, <2>6
<1>12. /\ rb.begun \in 0..MaxSessions /\ rb.told \in Seq(Seq(Reasons)) /\ Len(rb.told) = rb.begun
       /\ rb.disposed \in SUBSET (1..MaxSessions)
  BY RebindingFields
<1>3. b \in Nat /\ n \in 1..MaxSessions /\ rb.told \in Seq(Seq(Reasons)) /\ Len(rb.told) = b
  <2>1. rb.begun \in Nat /\ rb.begun + 1 \in 1..MaxSessions
    BY <1>12
  <2> QED
    BY <1>1, <1>12, <2>1
<1>4. /\ told \in Seq(Seq(Reasons)) /\ Len(told) = n /\ told[n] = <<>>
      /\ \A k \in 1..b : told[k] = rb.told[k]
  <2>1. <<>> \in Seq(Reasons)
    BY EmptySeq
  <2> QED
    BY <1>1, <1>3, <2>1, AppendProperties
<1>5. s \in Sessions /\ s # NoSession /\ s.token = n
  <2>1. PICK no \in BOOLEAN : no = FALSE
    OBVIOUS
  <2>2. s \in Sessions /\ s # NoSession
    BY <1>1, <1>3, <2>1, IsSession
  <2> QED
    BY <1>1, <2>2
<1>6. over \in SUBSET (1..b)
  BY <1>1, RebindingFields
<1>7. rb.lost \in SUBSET (1..b)
  BY <1>1, RebindingFields
<1>13. rb.late \in SUBSET (1..b)
  BY <1>1, RebindingFields
<1>14. rb.late \in SUBSET (1..n) /\ n \notin rb.late
  BY <1>1, <1>3, <1>13
<1>8. rb.lost \cup over \in SUBSET (1..n) /\ n \notin rb.lost \cup over /\ n \in 1..n
  BY <1>1, <1>3, <1>6, <1>7
<1>9. \A k \in 1..n : /\ Len(told[k]) = IF (s # NoSession /\ s.token = k) \/ k \in rb.lost \cup over
                                        THEN 0 ELSE IF k \in rb.late THEN 2 ELSE 1
                      /\ told[k] = <<"manual">> => k \in rb.disposed
  <2> TAKE k \in 1..n
  <2>1. k = n \/ (k \in 1..b /\ k # n)
    BY <1>1, <1>3
  <2>2. CASE k = n
    BY <1>4, <1>5, <2>2
  <2>3. CASE k \in 1..b /\ k # n
    <3>1. /\ Len(rb.told[k]) = IF Active(rb, k) \/ k \in rb.lost THEN 0
                               ELSE IF k \in rb.late THEN 2 ELSE 1
          /\ rb.told[k] = <<"manual">> => k \in rb.disposed
      BY <1>1, <2>3, RebindingFields
    <3>2. Active(rb, k) <=> k \in over
      BY DEF Active
    <3> QED
      BY <1>4, <1>5, <2>3, <3>1, <3>2
  <2> QED
    BY <2>1, <2>2, <2>3
<1>10. rb.disposed \in SUBSET (1..MaxSessions) /\ n \in 0..MaxSessions
  BY <1>3, <1>12
<1>11. /\ RebindingOK(new) /\ new.session = s /\ new.begun = n /\ new.lost = rb.lost \cup over
       /\ new.late = rb.late
  <2>1. /\ GoesOn(s, n, rb.lost \cup over, rb.late)
        /\ Accounted(s, n, told, rb.disposed, rb.lost \cup over, rb.late)
    BY <1>5, <1>8, <1>9, <1>14 DEF GoesOn, Accounted
  <2>2. s \in {NoSession} \cup Sessions
    BY <1>5
  <2>6. PICK d, l, q : d = rb.disposed /\ l = rb.lost \cup over /\ q = rb.late
    OBVIOUS
  <2>7. /\ d \in SUBSET (1..MaxSessions) /\ l \in SUBSET (1..n) /\ n \in 0..MaxSessions
        /\ q \in SUBSET (1..n)
    BY <1>8, <1>10, <1>14, <2>6
  <2>8. new = [session |-> s, begun |-> n, told |-> told, disposed |-> d, lost |-> l,
               late |-> q]
    BY <1>2, <2>6
  <2>9. told \in Seq(Seq(Reasons))
    BY <1>4
  <2>3. new \in Rebindings
    BY <2>2, <2>7, <2>8, <2>9, RebindingTyped
  <2>4. /\ new.session = s /\ new.begun = n /\ new.told = told /\ new.disposed = rb.disposed
        /\ new.lost = rb.lost \cup over /\ new.late = rb.late
    BY <1>2
  <2>5. Len(told) = n /\ rb.lost \cup over \subseteq 1..n /\ rb.late \subseteq 1..n
    BY <1>2, <1>4, <1>8, <1>10, <1>14
  <2> QED
    BY <2>1, <2>3, <2>4, <2>5, IsRebinding
<1> QED
  BY <1>1, <1>5, <1>11

\* A session ends, and is told how.
LEMMA EndedIs ==
    ASSUME MaxSessions \in Nat, NEW rb, RebindingOK(rb), rb.session # NoSession,
           NEW reason \in Reasons, reason = "manual" => rb.session.token \in rb.disposed
    PROVE  /\ RebindingOK(ended(rb, reason)) /\ ended(rb, reason).session = NoSession
           /\ ended(rb, reason).begun = rb.begun /\ Grows(rb, ended(rb, reason))
<1>1. PICK b, n, told, new : /\ b = rb.begun /\ n = rb.session.token /\ new = ended(rb, reason)
                             /\ told = [rb.told EXCEPT ![n] = Append(@, reason)]
  OBVIOUS
<1>2. /\ b \in Nat /\ b \in 0..MaxSessions /\ n \in 1..b /\ n \notin rb.lost /\ n \notin rb.late
      /\ rb.told \in Seq(Seq(Reasons)) /\ Len(rb.told) = b /\ rb.told[n] \in Seq(Reasons)
      /\ rb.disposed \in SUBSET (1..MaxSessions) /\ rb.lost \in SUBSET (1..b)
      /\ rb.late \in SUBSET (1..b)
  <2>1. /\ rb.begun \in 0..MaxSessions /\ n \in 1..rb.begun /\ n \notin rb.lost
        /\ n \notin rb.late /\ rb.late \in SUBSET (1..rb.begun)
        /\ rb.told \in Seq(Seq(Reasons)) /\ Len(rb.told) = rb.begun
        /\ rb.disposed \in SUBSET (1..MaxSessions) /\ rb.lost \in SUBSET (1..rb.begun)
    BY <1>1, RebindingFields
  <2>2. rb.told[n] \in Seq(Reasons)
    BY <2>1, RebindingFields
  <2> QED
    BY <1>1, <2>1, <2>2
<1>3. PICK one : one = Append(rb.told[n], reason)
  OBVIOUS
<1>4. Len(rb.told[n]) = 0
  <2>1. Active(rb, n)
    BY <1>1 DEF Active
  <2> QED
    BY <1>1, <1>2, <2>1, RebindingFields
<1>5. one \in Seq(Reasons) /\ Len(one) = 1 /\ one[1] = reason
  BY <1>2, <1>3, <1>4, AppendProperties
<1>6. told \in Seq(Seq(Reasons)) /\ Len(told) = b /\ told[n] = one
      /\ \A k \in 1..b : k # n => told[k] = rb.told[k]
  <2>1. told = [rb.told EXCEPT ![n] = one]
    BY <1>1, <1>3
  <2> QED
    BY <1>2, <1>5, <2>1, ExceptSeq
<1>7. new = [session |-> NoSession, begun |-> b, told |-> told, disposed |-> rb.disposed,
             lost |-> rb.lost, late |-> rb.late]
  <2>1. PICK d, l, q, s, ts : /\ d = rb.disposed /\ l = rb.lost /\ q = rb.late
                              /\ s = rb.session /\ ts = rb.told
    OBVIOUS
  <2>2. rb = [session |-> s, begun |-> b, told |-> ts, disposed |-> d, lost |-> l,
              late |-> q]
    BY <1>1, <2>1, RebindingFields
  <2>3. new = [rb EXCEPT !.told[n] = Append(@, reason), !.session = NoSession]
    BY <1>1 DEF ended
  <2>4. told = [ts EXCEPT ![n] = Append(@, reason)]
    BY <1>1, <2>1
  <2>5. new = [session |-> NoSession, begun |-> b, told |-> told, disposed |-> d, lost |-> l,
               late |-> q]
    BY <2>2, <2>3, <2>4
  <2> QED
    BY <2>1, <2>5
<1>8. \A k \in 1..b : /\ Len(told[k]) = IF k \in rb.lost THEN 0 ELSE IF k \in rb.late THEN 2 ELSE 1
                      /\ told[k] = <<"manual">> => k \in rb.disposed
  <2> TAKE k \in 1..b
  <2>1. CASE k = n
    <3>1. one = <<"manual">> => reason = "manual"
      BY <1>5
    <3> QED
      BY <1>1, <1>2, <1>5, <1>6, <2>1, <3>1
  <2>2. CASE k # n
    <3>1. /\ Len(rb.told[k]) = IF Active(rb, k) \/ k \in rb.lost THEN 0
                               ELSE IF k \in rb.late THEN 2 ELSE 1
          /\ rb.told[k] = <<"manual">> => k \in rb.disposed
      BY <1>1, RebindingFields
    <3>2. ~Active(rb, k)
      BY <1>1, <2>2 DEF Active
    <3> QED
      BY <1>6, <2>2, <3>1, <3>2
  <2> QED
    BY <2>1, <2>2
<1>9. RebindingOK(new) /\ new.session = NoSession /\ new.begun = b /\ Grows(rb, new)
  <2>1. /\ GoesOn(NoSession, b, rb.lost, rb.late)
        /\ Accounted(NoSession, b, told, rb.disposed, rb.lost, rb.late)
    BY <1>8 DEF GoesOn, Accounted
  <2>2. NoSession \in {NoSession} \cup Sessions
    BY Zenon
  <2>3. new \in Rebindings
    BY <1>2, <1>6, <1>7, <2>2, RebindingTyped
  <2>4. /\ new.session = NoSession /\ new.begun = b /\ new.told = told /\ new.disposed = rb.disposed
        /\ new.lost = rb.lost /\ new.late = rb.late
    BY <1>7
  <2>5. Len(told) = b /\ rb.lost \subseteq 1..b /\ rb.late \subseteq 1..b
    BY <1>2, <1>6, <1>7
  <2>6. Grows(rb, new)
    BY <1>1, <1>2, <2>4 DEF Grows
  <2> QED
    BY <2>1, <2>3, <2>4, <2>5, <2>6, IsRebinding
<1> QED
  BY <1>1, <1>9

\* cancelRebindingSession, with the session that its handler begins.
LEMMA CancelledIs ==
    ASSUME MaxSessions \in Nat, NEW rb, RebindingOK(rb), NEW reason \in Reasons,
           rb.session # NoSession /\ reason = "manual" => rb.session.token \in rb.disposed,
           NEW again, again # NoSession => again \in RebindingRequests /\ rb.begun < MaxSessions,
           NEW new, new = cancelled(rb, reason, again)
    PROVE  /\ RebindingOK(new) /\ Grows(rb, new)
           /\ rb.session = NoSession => new = rb
           /\ rb.session # NoSession /\ again = NoSession => new.session = NoSession
           /\ rb.session # NoSession /\ again # NoSession =>
                 /\ new.begun = rb.begun + 1 /\ new.session # NoSession
                 /\ new.session = [token |-> rb.begun + 1, request |-> again, touched |-> FALSE]
<1>1. CASE rb.session = NoSession
  <2>1. rb.begun \in Nat
    BY BegunNat
  <2> QED
    BY <1>1, <2>1 DEF cancelled, Grows
<1>2. CASE rb.session # NoSession
  <2>1. PICK e : e = ended(rb, reason)
    OBVIOUS
  <2>2. RebindingOK(e) /\ e.session = NoSession /\ e.begun = rb.begun /\ Grows(rb, e)
    BY <1>2, <2>1, EndedIs
  <2>3. CASE again = NoSession
    BY <1>2, <2>1, <2>2, <2>3 DEF cancelled
  <2>4. CASE again # NoSession
    <3>1. new = opened(e, again)
      BY <1>2, <2>1, <2>4 DEF cancelled
    <3>2. PICK none : none = {}
      OBVIOUS
    <3>3. opened(e, again) = BegunOver(e, again, none)
      <4>1. PICK x, l, q, s, b, ts, d :
               /\ x = opened(e, again) /\ l = e.lost /\ d = e.disposed /\ b = e.begun + 1
               /\ q = e.late
               /\ ts = Append(e.told, <<>>)
               /\ s = [token |-> e.begun + 1, request |-> again, touched |-> FALSE]
        OBVIOUS
      <4>2. e = [session |-> e.session, begun |-> e.begun, told |-> e.told, disposed |-> d, lost |-> l,
                 late |-> q]
        BY <2>2, <4>1, RebindingFields
      <4>3. x = [session |-> s, begun |-> b, told |-> ts, disposed |-> d, lost |-> l,
                 late |-> q]
        BY <4>1, <4>2 DEF opened
      <4>4. l \cup none = l
        BY <3>2
      <4>5. BegunOver(e, again, none) = [x EXCEPT !.lost = @ \cup none]
        BY <4>1 DEF BegunOver
      <4>7. x.lost = l
        BY <4>3
      <4>8. [x EXCEPT !.lost = @ \cup none] = [x EXCEPT !.lost = l]
        BY <4>4, <4>7
      <4>9. [x EXCEPT !.lost = l] = x
        BY <4>3
      <4>6. [x EXCEPT !.lost = @ \cup none] = x
        BY <4>8, <4>9
      <4> QED
        BY <4>1, <4>5, <4>6
    <3>4. again \in RebindingRequests /\ e.begun < MaxSessions
      BY <2>2, <2>4
    <3>5. none = IF e.session = NoSession THEN {} ELSE {e.session.token}
      BY <2>2, <3>2
    <3>6. /\ RebindingOK(new) /\ new.begun = e.begun + 1 /\ new.session # NoSession
          /\ new.session = [token |-> e.begun + 1, request |-> again, touched |-> FALSE]
          /\ new.lost = e.lost \cup none /\ new.late = e.late
      <4>1. new = BegunOver(e, again, none)
        BY <3>1, <3>3
      <4>2. MaxSessions \in Nat /\ RebindingOK(e) /\ e.begun < MaxSessions /\ again \in RebindingRequests
        BY <2>2, <3>4
      <4> QED
        BY <3>5, <4>1, <4>2, BegunIs
    <3>7. Grows(rb, new)
      <4>1. rb.begun \in Nat
        BY BegunNat
      <4> QED
        BY <2>2, <3>2, <3>6, <4>1 DEF Grows
    <3> QED
      BY <1>2, <2>2, <2>4, <3>6, <3>7
  <2> QED
    BY <2>3, <2>4
<1> QED
  BY <1>1, <1>2

\* Bindings were replaced meanwhile.
LEMMA ChangedIs ==
    ASSUME MaxSessions \in Nat, NEW rb, RebindingOK(rb)
    PROVE  /\ RebindingOK(rebindingChanged(rb)) /\ Grows(rb, rebindingChanged(rb))
           /\ \A t : SessionTarget(t, rebindingChanged(rb))
<1>1. PICK new : new = rebindingChanged(rb)
  OBVIOUS
<1>4. rb.begun \in Nat
  BY BegunNat
<1>2. CASE rb.session = NoSession
  <2>1. new = rb
    BY <1>1, <1>2 DEF rebindingChanged
  <2> QED
    BY <1>1, <1>2, <1>4, <2>1 DEF SessionTarget, Grows
<1>3. CASE rb.session # NoSession
  <2>1. PICK s, n, r : /\ s = [rb.session EXCEPT !.touched = TRUE]
                       /\ n = rb.session.token /\ r = rb.session.request
    OBVIOUS
  <2>2. /\ rb.session = [token |-> n, request |-> r, touched |-> rb.session.touched]
        /\ n \in 1..rb.begun /\ r \in RebindingRequests /\ rb.begun \in 0..MaxSessions
        /\ n \notin rb.lost /\ n \notin rb.late
    BY <1>3, <2>1, RebindingFields
  <2>3. s = [token |-> n, request |-> r, touched |-> TRUE]
    BY <2>1, <2>2
  <2>4. s \in Sessions /\ s # NoSession /\ s.token = n /\ s.touched
    <3>1. PICK yes \in BOOLEAN : yes = TRUE
      OBVIOUS
    <3>2. n \in 1..MaxSessions
      BY <2>2
    <3>3. s \in Sessions /\ s # NoSession
      BY <2>2, <2>3, <3>1, <3>2, IsSession
    <3> QED
      BY <2>3, <3>3
  <2>5. new = [session |-> s, begun |-> rb.begun, told |-> rb.told, disposed |-> rb.disposed,
               lost |-> rb.lost, late |-> rb.late]
    <3>1. PICK b, ts, d, l, q, s0 : /\ b = rb.begun /\ ts = rb.told /\ d = rb.disposed /\ l = rb.lost
                                    /\ q = rb.late /\ s0 = rb.session
      OBVIOUS
    <3>2. rb = [session |-> s0, begun |-> b, told |-> ts, disposed |-> d, lost |-> l,
                late |-> q]
      BY <3>1, RebindingFields
    <3>3. new = [rb EXCEPT !.session.touched = TRUE] /\ s = [s0 EXCEPT !.touched = TRUE]
      BY <1>1, <1>3, <2>1, <3>1 DEF rebindingChanged
    <3>4. new = [session |-> s, begun |-> b, told |-> ts, disposed |-> d, lost |-> l,
                 late |-> q]
      BY <3>2, <3>3
    <3> QED
      BY <3>1, <3>4
  <2>6. Accounted(s, rb.begun, rb.told, rb.disposed, rb.lost, rb.late)
    <3> SUFFICES ASSUME NEW k \in 1..rb.begun
                 PROVE  /\ Len(rb.told[k]) = IF (s # NoSession /\ s.token = k) \/ k \in rb.lost
                                             THEN 0 ELSE IF k \in rb.late THEN 2 ELSE 1
                        /\ rb.told[k] = <<"manual">> => k \in rb.disposed
      BY DEF Accounted
    <3>1. (s # NoSession /\ s.token = k) <=> Active(rb, k)
      BY <1>3, <2>1, <2>4 DEF Active
    <3>2. /\ Len(rb.told[k]) = IF Active(rb, k) \/ k \in rb.lost THEN 0
                               ELSE IF k \in rb.late THEN 2 ELSE 1
          /\ rb.told[k] = <<"manual">> => k \in rb.disposed
      BY RebindingFields
    <3> QED
      BY <3>1, <3>2
  <2>7. RebindingOK(new) /\ new.session = s /\ Grows(rb, new)
    <3>1. GoesOn(s, rb.begun, rb.lost, rb.late)
      BY <2>2, <2>4 DEF GoesOn
    <3>2. /\ rb.begun \in 0..MaxSessions /\ rb.told \in Seq(Seq(Reasons)) /\ Len(rb.told) = rb.begun
          /\ rb.disposed \in SUBSET (1..MaxSessions) /\ rb.lost \in SUBSET (1..rb.begun)
          /\ rb.late \in SUBSET (1..rb.begun)
      BY RebindingFields
    <3>3. s \in {NoSession} \cup Sessions
      BY <2>4
    <3>4. new \in Rebindings
      BY <2>5, <3>2, <3>3, RebindingTyped
    <3>5. /\ new.session = s /\ new.begun = rb.begun /\ new.told = rb.told
          /\ new.disposed = rb.disposed /\ new.lost = rb.lost /\ new.late = rb.late
      BY <2>5
    <3>6. Grows(rb, new)
      BY <1>4, <3>5 DEF Grows
    <3> QED
      BY <2>6, <3>1, <3>2, <3>4, <3>5, <3>6, IsRebinding
  <2> QED
    BY <1>1, <2>4, <2>7 DEF SessionTarget
<1> QED
  BY <1>2, <1>3

\* A handle is disposed of.
LEMMA NotedIs ==
    ASSUME MaxSessions \in Nat, NEW rb, RebindingOK(rb), NEW n \in 1..rb.begun,
           NEW new, new = Noted(rb, n)
    PROVE  /\ RebindingOK(new) /\ new.session = rb.session /\ new.begun = rb.begun
           /\ n \in new.disposed /\ Grows(rb, new)
<1>1. PICK d : d = rb.disposed \cup {n}
  OBVIOUS
<1>2. new = [session |-> rb.session, begun |-> rb.begun, told |-> rb.told, disposed |-> d,
             lost |-> rb.lost, late |-> rb.late]
  <2>1. PICK b, ts, d0, l, q, s0 : /\ b = rb.begun /\ ts = rb.told /\ d0 = rb.disposed /\ l = rb.lost
                                   /\ q = rb.late /\ s0 = rb.session
    OBVIOUS
  <2>2. rb = [session |-> s0, begun |-> b, told |-> ts, disposed |-> d0, lost |-> l,
              late |-> q]
    BY <2>1, RebindingFields
  <2>3. new = [session |-> s0, begun |-> b, told |-> ts, disposed |-> d, lost |-> l,
               late |-> q]
    <3>1. new = [rb EXCEPT !.disposed = @ \cup {n}]
      BY DEF Noted
    <3> QED
      BY <1>1, <2>1, <2>2, <3>1
  <2> QED
    BY <2>1, <2>3
<1>3. /\ rb.begun \in 0..MaxSessions /\ rb.told \in Seq(Seq(Reasons)) /\ Len(rb.told) = rb.begun
      /\ rb.disposed \in SUBSET (1..MaxSessions) /\ rb.lost \in SUBSET (1..rb.begun)
      /\ rb.late \in SUBSET (1..rb.begun)
  BY RebindingFields
<1>6. d \in SUBSET (1..MaxSessions)
  BY <1>1, <1>3
<1>4. /\ Accounted(rb.session, rb.begun, rb.told, d, rb.lost, rb.late)
      /\ GoesOn(rb.session, rb.begun, rb.lost, rb.late)
  <2>1. GoesOn(rb.session, rb.begun, rb.lost, rb.late)
    BY RebindingFields DEF GoesOn
  <2> SUFFICES ASSUME NEW k \in 1..rb.begun
               PROVE  /\ Len(rb.told[k]) = IF Active(rb, k) \/ k \in rb.lost THEN 0
                                           ELSE IF k \in rb.late THEN 2 ELSE 1
                      /\ rb.told[k] = <<"manual">> => k \in d
    BY <2>1 DEF Accounted, Active
  <2> QED
    BY <1>1, RebindingFields
<1>5. /\ RebindingOK(new) /\ new.session = rb.session /\ new.begun = rb.begun /\ new.disposed = d
      /\ Grows(rb, new)
  <2>1. rb.session \in {NoSession} \cup Sessions
    BY RebindingFields
  <2>2. new \in Rebindings
    BY <1>2, <1>3, <1>6, <2>1, RebindingTyped
  <2>3. /\ new.session = rb.session /\ new.begun = rb.begun /\ new.told = rb.told
        /\ new.disposed = d /\ new.lost = rb.lost /\ new.late = rb.late
    BY <1>2
  <2>4. Grows(rb, new)
    BY <1>3, <2>3 DEF Grows
  <2> QED
    BY <1>3, <1>4, <2>2, <2>3, <2>4, IsRebinding
<1> QED
  BY <1>1, <1>5

\* Bindings that stay through two changes stay through both.
LEMMA SameTrans ==
    ASSUME NEW t, NEW u, NEW v, SameBindings(t, u), SameBindings(u, v)
    PROVE  SameBindings(t, v)
BY DEF SameBindings

\* A table is like itself.
LEMMA SameItself ==
    ASSUME NEW t
    PROVE  SameBindings(t, t) /\ SameOrder(t, t) /\ SameUsers(t, t)
BY DEF SameBindings, SameOrder, SameUsers

\* The contexts are the same, however they are ordered.
LEMMA SameContexts ==
    ASSUME NEW t, NEW u, u.contexts = t.contexts
    PROVE  Known(u) = Known(t) /\ SameBindings(t, u)
<1>1. Known(u) = Known(t)
  BY DEF Known
<1>2. \A c, a : Current(u, c, a) = Current(t, c, a)
  BY DEF Current
<1> QED
  BY <1>1, <1>2 DEF SameBindings

\* The session that a cancel handler begins enters its context.
LEMMA EnteredIs ==
    ASSUME NEW t, TableOK(t), NEW again,
           again # NoSession => again \in Targets /\ again.context \in Known(t)
    PROVE  /\ TableOK(entered(t, again)) /\ SameBindings(t, entered(t, again))
           /\ SameOrder(t, entered(t, again))
<1>1. CASE again = NoSession
  BY <1>1, SameItself DEF entered
<1>2. CASE again # NoSession
  <2>1. again.context \in Known(t) /\ again.action \in Actions
    BY <1>2 DEF Targets
  <2>2. entered(t, again) = requireContextAction(t, again.context, again.action)
    BY <1>2 DEF entered
  <2> QED
    BY <2>1, <2>2, RequireIs
<1> QED
  BY <1>1, <1>2

\* _contextOrderDirty = true
LEMMA ReorderedIs ==
    ASSUME NEW t, TableOK(t)
    PROVE  /\ TableOK(reordered(t)) /\ reordered(t).dirty /\ Orderly(reordered(t))
           /\ reordered(t).contexts = t.contexts
<1>1. PICK u, D, f, r, yes :
         /\ u = reordered(t) /\ D = Known(t) /\ f = t.contexts /\ r = t.recency
         /\ yes = TRUE /\ yes \in BOOLEAN
  OBVIOUS
<1>2. /\ t \in Tables /\ D \in SUBSET Contexts /\ f \in [D -> ContextRecords] /\ r \in Seq(Contexts)
      /\ HasNoRepeats(r) /\ Elements(r) = D
  BY <1>1, TableFields DEF TableOK
<1>5. yes \in BOOLEAN
  BY <1>1
<1>3. u = [contexts |-> f, recency |-> r, ordered |-> t.ordered, dirty |-> yes]
  <2>1. t = [contexts |-> f, recency |-> r, ordered |-> t.ordered, dirty |-> t.dirty]
    BY <1>1, <1>2, TableFields
  <2> QED
    BY <1>1, <2>1 DEF reordered
<1>4. TableOK(u) /\ u.contexts = f /\ u.dirty = yes
  BY <1>2, <1>3, <1>5, TableIs
<1> QED
  BY <1>1, <1>4 DEF Orderly

\* removeContext, before what a handler does.
Removed(t, c) == [t EXCEPT !.contexts = [d \in Known(t) \ {c} |-> t.contexts[d]],
                           !.recency = Keep(@, Contexts \ {c})]
\* The table without c is a table, and the bindings of the others stay.
LEMMA RemovedIs ==
    ASSUME NEW t, TableOK(t), NEW c \in Known(t), NEW u,
           u = reordered(Removed(t, c))
    PROVE  TableOK(u) /\ u.dirty /\ Known(u) = Known(t) \ {c} /\ SameBindings(t, u)
<1>1. PICK D, f, r, yes :
         /\ D = Known(t) \ {c} /\ f = [d \in D |-> t.contexts[d]]
         /\ r = Keep(t.recency, Contexts \ {c}) /\ yes = TRUE /\ yes \in BOOLEAN
  OBVIOUS
<1>2. /\ t \in Tables /\ Known(t) \in SUBSET Contexts /\ t.contexts \in [Known(t) -> ContextRecords]
      /\ t.recency \in Seq(Contexts) /\ HasNoRepeats(t.recency) /\ Elements(t.recency) = Known(t)
      /\ t = [contexts |-> t.contexts, recency |-> t.recency, ordered |-> t.ordered,
              dirty |-> t.dirty]
  BY TableFields DEF TableOK
<1>3. D \in SUBSET Contexts /\ f \in [D -> ContextRecords] /\ c \in Contexts
  BY <1>1, <1>2
<1>4. r \in Seq(Contexts) /\ HasNoRepeats(r) /\ Elements(r) = D
  BY <1>1, <1>2, <1>3, Restamped
<1>5. u = [contexts |-> f, recency |-> r, ordered |-> t.ordered, dirty |-> yes]
  <2>1. PICK g, q, o, b, v : /\ g = t.contexts /\ q = t.recency /\ o = t.ordered /\ b = t.dirty
                             /\ v = Removed(t, c)
    OBVIOUS
  <2>2. t = [contexts |-> g, recency |-> q, ordered |-> o, dirty |-> b]
    BY <1>2, <2>1
  <2>3. v = [t EXCEPT !.contexts = f, !.recency = r]
    BY <1>1, <2>1, <2>2 DEF Removed
  <2>4. v = [contexts |-> f, recency |-> r, ordered |-> o, dirty |-> b]
    BY <2>2, <2>3
  <2>5. u = [v EXCEPT !.dirty = TRUE]
    BY <2>1 DEF reordered
  <2>6. u = [contexts |-> f, recency |-> r, ordered |-> o, dirty |-> TRUE]
    BY <2>4, <2>5
  <2> QED
    BY <1>1, <2>1, <2>6
<1>8. t \in Tables /\ yes \in BOOLEAN
  BY <1>1, <1>2
<1>6. TableOK(u) /\ Known(u) = D /\ u.contexts = f /\ u.dirty = yes
  BY <1>3, <1>4, <1>5, <1>8, TableIs
<1>7. SameBindings(t, u)
  <2>1. \A d \in D : u.contexts[d] = t.contexts[d]
    BY <1>1, <1>6
  <2>2. \A d \in D : \A a : Current(u, d, a) = Current(t, d, a)
    BY <2>1 DEF Current
  <2> QED
    BY <1>1, <1>6, <2>1, <2>2 DEF SameBindings
<1> QED
  BY <1>1, <1>6, <1>7

\* A context is switched on or off, or gets a priority.
LEMMA RecordWith ==
    ASSUME NEW x \in ContextRecords, NEW enabled \in BOOLEAN, NEW p \in Nat
    PROVE  /\ [x EXCEPT !.enabled = enabled] \in ContextRecords
           /\ [x EXCEPT !.priority = p] \in ContextRecords
           /\ [x EXCEPT !.enabled = enabled].user = x.user /\ [x EXCEPT !.priority = p].user = x.user
           /\ \A a : /\ CurrentIn([x EXCEPT !.enabled = enabled], a) = CurrentIn(x, a)
                     /\ CurrentIn([x EXCEPT !.priority = p], a) = CurrentIn(x, a)
<1>1. PICK q, e, ca, us, as : /\ q = x.priority /\ e = x.enabled /\ ca = x.capture /\ us = x.user
                              /\ as = x.actions
  OBVIOUS
<1>2. /\ x = [priority |-> q, enabled |-> e, capture |-> ca, user |-> us, actions |-> as]
      /\ q \in Nat /\ e \in BOOLEAN /\ ca \in BOOLEAN /\ us \in Users \cup {Nobody}
      /\ as \in Seq(Bindings)
  BY <1>1 DEF ContextRecords
<1>3. PICK y, z : y = [x EXCEPT !.enabled = enabled] /\ z = [x EXCEPT !.priority = p]
  OBVIOUS
<1>4. /\ y = [priority |-> q, enabled |-> enabled, capture |-> ca, user |-> us, actions |-> as]
      /\ z = [priority |-> p, enabled |-> e, capture |-> ca, user |-> us, actions |-> as]
  BY <1>2, <1>3
<1>5. y \in ContextRecords /\ z \in ContextRecords
  BY <1>2, <1>4 DEF ContextRecords
<1>6. y.user = x.user /\ z.user = x.user /\ y.actions = x.actions /\ z.actions = x.actions
  BY <1>1, <1>4
<1>7. \A a : Entry(y, a) = Entry(x, a) /\ Entry(z, a) = Entry(x, a)
  BY <1>6 DEF Entry
<1>8. \A a : CurrentIn(y, a) = CurrentIn(x, a) /\ CurrentIn(z, a) = CurrentIn(x, a)
  BY <1>6, <1>7 DEF CurrentIn
<1> QED
  BY <1>3, <1>5, <1>6, <1>8

\* setContextEnabled and setContextPriority leave every binding.
LEMMA SwitchedIs ==
    ASSUME NEW t, TableOK(t), NEW c \in Known(t), NEW enabled \in BOOLEAN, NEW p \in Nat
    PROVE  /\ TableOK([t EXCEPT !.contexts[c].enabled = enabled])
           /\ TableOK([t EXCEPT !.contexts[c].priority = p])
           /\ SameBindings(t, [t EXCEPT !.contexts[c].enabled = enabled])
           /\ SameBindings(t, [t EXCEPT !.contexts[c].priority = p])
           /\ Known([t EXCEPT !.contexts[c].enabled = enabled]) = Known(t)
           /\ Known([t EXCEPT !.contexts[c].priority = p]) = Known(t)
<1>1. PICK x, y, z : /\ x = t.contexts[c] /\ y = [x EXCEPT !.enabled = enabled]
                     /\ z = [x EXCEPT !.priority = p]
  OBVIOUS
<1>2. x \in ContextRecords
  BY <1>1, TableFields DEF TableOK
<1>3. /\ y \in ContextRecords /\ z \in ContextRecords /\ y.user = x.user /\ z.user = x.user
      /\ \A a : CurrentIn(y, a) = CurrentIn(x, a) /\ CurrentIn(z, a) = CurrentIn(x, a)
  BY <1>1, <1>2, RecordWith
<1>4. /\ TableOK(With(t, c, y)) /\ TableOK(With(t, c, z))
      /\ Known(With(t, c, y)) = Known(t) /\ Known(With(t, c, z)) = Known(t)
  BY <1>3, WithIs
<1>5. SameBindings(t, With(t, c, y)) /\ SameBindings(t, With(t, c, z))
  BY <1>1, <1>3, WithBindings
<1>6. /\ [t EXCEPT !.contexts[c].enabled = enabled] = With(t, c, y)
      /\ [t EXCEPT !.contexts[c].priority = p] = With(t, c, z)
  BY <1>1 DEF With
<1> QED
  BY <1>4, <1>5, <1>6

\* activateContext: a switched context gets the last stamp.
LEMMA ActivatedIs ==
    ASSUME NEW t, TableOK(t), NEW c \in Known(t), NEW u, u = reordered(stamped(t, c))
    PROVE  TableOK(u) /\ u.dirty /\ u.contexts = t.contexts
<1>1. PICK f, x : f = t.contexts /\ x = [t EXCEPT !.contexts = f]
  OBVIOUS
<1>2. /\ t \in Tables /\ Known(t) \in SUBSET Contexts /\ f \in [Known(t) -> ContextRecords]
      /\ HasNoRepeats(t.recency) /\ Elements(t.recency) \cup {c} = Known(t)
      /\ t = [contexts |-> f, recency |-> t.recency, ordered |-> t.ordered, dirty |-> t.dirty]
  BY <1>1, TableFields DEF TableOK
<1>3. x = t
  BY <1>1, <1>2
<1>4. u = reordered(stamped(x, c))
  BY <1>3
<1>5. TableOK(u) /\ u.contexts = f /\ u.dirty
  BY <1>1, <1>2, <1>4, StampedIs
<1> QED
  BY <1>1, <1>5

-----------------------------------------------------------------------------
\* A record of sessions grows from itself, and by two steps.
LEMMA GrowsItself ==
    ASSUME NEW rb, RebindingOK(rb)
    PROVE  Grows(rb, rb)
BY BegunNat DEF Grows

\* What a handler is asked about goes on or ended once, also when others begin.
LEMMA AskedStays ==
    ASSUME NEW q, NEW rb, NEW new, RebindingOK(rb), RebindingOK(new), AskedOK(q, rb), Grows(rb, new)
    PROVE  AskedOK(q, new)
<1> SUFFICES ASSUME q # NotAsked
             PROVE  /\ q.session \in Sessions /\ q.control \in Controls
                    /\ q.session.token \in 1..new.begun /\ q.session.token \notin new.lost \cup new.late
  BY DEF AskedOK
<1>1. PICK n : n = q.session.token
  OBVIOUS
<1>2. /\ q.session \in Sessions /\ q.control \in Controls /\ n \in 1..rb.begun
      /\ n \notin rb.lost /\ n \notin rb.late
  BY <1>1 DEF AskedOK
<1>3. rb.begun \in 0..MaxSessions /\ new.begun \in 0..MaxSessions
  BY RebindingFields
<1>4. n \in 1..new.begun /\ n \notin new.lost /\ n \notin new.late
  BY <1>2, <1>3 DEF Grows
<1> QED
  BY <1>1, <1>2, <1>4

\* The session that is there may be asked about.
LEMMA QuestionIs ==
    ASSUME NEW rb, RebindingOK(rb), NEW k \in Controls, Admits(rb, k)
    PROVE  AskedOK(Question(rb, k), rb)
BY RebindingFields DEF AskedOK, Question, Admits

\* No one, or the session that is there, is asked.
LEMMA AsksAre ==
    ASSUME NEW rb, RebindingOK(rb), NEW ks \in SUBSET Controls, Asks(rb, ks)
    PROVE  AskedOK(asked', rb)
<1>1. asked' = NotAsked \/ \E k \in ks : Admits(rb, k) /\ asked' = Question(rb, k)
  BY DEF Asks
<1>2. CASE asked' = NotAsked
  BY <1>2 DEF AskedOK
<1>3. ASSUME NEW k \in ks, Admits(rb, k), asked' = Question(rb, k) PROVE AskedOK(asked', rb)
  BY <1>3, QuestionIs
<1> QED
  BY <1>1, <1>2, <1>3

\* The session that was asked about completes; it may have ended before, and the one
\* that is there is forgotten.
LEMMA ConcludedIs ==
    ASSUME MaxSessions \in Nat, NEW rb, RebindingOK(rb), NEW q, q # NotAsked, AskedOK(q, rb),
           NEW new, new = concluded(rb, q.session)
    PROVE  RebindingOK(new) /\ new.session = NoSession
<1>1. PICK n : n = q.session.token
  OBVIOUS
<1>2. n \in 1..rb.begun /\ n \notin rb.lost /\ n \notin rb.late
  BY <1>1 DEF AskedOK
<1>3. CASE Active(rb, n)
  <2>1. "complete" \in Reasons
    BY DEF Reasons
  <2>2. rb.session # NoSession /\ ("complete" = "manual" => rb.session.token \in rb.disposed)
    BY <1>3 DEF Active
  <2>3. new = ended(rb, "complete")
    BY <1>1, <1>3 DEF concluded
  <2> QED
    BY <2>1, <2>2, <2>3, EndedIs
<1>4. CASE ~Active(rb, n)
  <2>1. PICK b, d, l, f, s, ts, reason :
           /\ b = rb.begun /\ d = rb.disposed /\ l = rb.lost /\ f = rb.late /\ s = rb.session
           /\ ts = rb.told /\ reason = "complete"
    OBVIOUS
  <2>2. PICK told, late, lost : /\ told = [ts EXCEPT ![n] = Append(@, reason)] /\ late = f \cup {n}
                                /\ lost = IF s = NoSession THEN l ELSE l \cup {s.token}
    OBVIOUS
  <2>3. new = [session |-> NoSession, begun |-> b, told |-> told, disposed |-> d, lost |-> lost,
               late |-> late]
    <3>1. rb = [session |-> s, begun |-> b, told |-> ts, disposed |-> d, lost |-> l, late |-> f]
      BY <2>1, RebindingFields
    <3>2. new = [rb EXCEPT !.told[n] = Append(@, reason), !.late = late, !.lost = lost,
                           !.session = NoSession]
      BY <1>1, <1>4, <2>1, <2>2 DEF concluded
    <3> QED
      BY <2>2, <3>1, <3>2
  <2>4. /\ b \in 0..MaxSessions /\ ts \in Seq(Seq(Reasons)) /\ Len(ts) = b
        /\ d \in SUBSET (1..MaxSessions) /\ l \in SUBSET (1..b) /\ f \in SUBSET (1..b)
        /\ n \in 1..b /\ n \notin l /\ n \notin f
        /\ (s # NoSession => s.token \in 1..b /\ s.token # n)
    BY <1>2, <1>4, <2>1, RebindingFields DEF Active
  <2>5. PICK one : one = Append(ts[n], reason)
    OBVIOUS
  <2>6. ts[n] \in Seq(Reasons) /\ Len(ts[n]) = 1
    BY <1>2, <1>4, <2>1, RebindingFields
  <2>7. one \in Seq(Reasons) /\ Len(one) = 2
    <3>1. reason \in Reasons
      BY <2>1 DEF Reasons
    <3> QED
      BY <2>5, <2>6, <3>1, AppendProperties
  <2>8. told \in Seq(Seq(Reasons)) /\ Len(told) = b /\ told[n] = one
        /\ \A k \in 1..b : k # n => told[k] = ts[k]
    <3>1. told = [ts EXCEPT ![n] = one]
      BY <2>2, <2>5
    <3> QED
      BY <2>4, <2>7, <3>1, ExceptSeq
  <2>9. late \in SUBSET (1..b) /\ lost \in SUBSET (1..b) /\ n \notin lost /\ n \in late
    BY <2>2, <2>4
  <2>10. \A k \in 1..b : /\ Len(told[k]) = IF k \in lost THEN 0 ELSE IF k \in late THEN 2 ELSE 1
                         /\ told[k] = <<"manual">> => k \in d
    <3> TAKE k \in 1..b
    <3>1. CASE k = n
      <4>1. PICK m : m = <<"manual">>
        OBVIOUS
      <4>3. Len(m) = 1
        BY <4>1
      <4>5. told[k] = one
        BY <2>8, <3>1
      <4>6. Len(one) = 2
        BY <2>7
      <4>4. told[k] # m
        BY <4>3, <4>5, <4>6
      <4>2. told[k] # <<"manual">>
        BY <4>1, <4>4
      <4> QED
        BY <2>7, <2>8, <2>9, <3>1, <4>2
    <3>2. CASE k # n
      <4>1. /\ Len(ts[k]) = IF Active(rb, k) \/ k \in l THEN 0 ELSE IF k \in f THEN 2 ELSE 1
            /\ ts[k] = <<"manual">> => k \in d
        BY <2>1, RebindingFields
      <4>2. k \in late <=> k \in f
        BY <2>2, <3>2
      <4>3. k \in lost <=> Active(rb, k) \/ k \in l
        BY <2>1, <2>2 DEF Active
      <4>4. told[k] = ts[k]
        BY <2>8, <3>2
      <4> QED
        BY <4>1, <4>2, <4>3, <4>4
    <3> QED
      BY <3>1, <3>2
  <2>11. /\ new.session = NoSession /\ new.begun = b /\ new.told = told /\ new.disposed = d
         /\ new.lost = lost /\ new.late = late
    BY <2>3
  <2>12. new \in Rebindings
    <3>1. NoSession \in {NoSession} \cup Sessions
      BY Zenon
    <3>2. [session |-> NoSession, begun |-> b, told |-> told, disposed |-> d, lost |-> lost, late |-> late]
             \in Rebindings
      <4>1. b \in 0..MaxSessions /\ d \in SUBSET (1..MaxSessions)
        BY <2>4
      <4>2. told \in Seq(Seq(Reasons))
        BY <2>8
      <4>3. lost \in SUBSET (1..b) /\ late \in SUBSET (1..b)
        BY <2>9
      <4> QED
        BY <3>1, <4>1, <4>2, <4>3, RebindingTyped
    <3> QED
      BY <2>3, <3>2
  <2>13. GoesOn(NoSession, b, lost, late) /\ Accounted(NoSession, b, told, d, lost, late)
    BY <2>10 DEF GoesOn, Accounted
  <2> QED
    BY <2>8, <2>9, <2>11, <2>12, <2>13, IsRebinding
<1> QED
  BY <1>3, <1>4

\* A step that evaluates nothing leaves the buttons and taps nothing.  Unless
\* it counts as a change of the configuration, the bindings, the users and the
\* owners are the same.
LEMMA QuietHolds ==
    ASSUME InputInv, CoreOK(table', users', owners', rebinding'), SnapshotOK(saved'),
           ~inputGone' => Orderly(table'), inputGone' \in BOOLEAN,
           AskedOK(asked', rebinding'), updating' \in BOOLEAN, reconfigured' \in BOOLEAN,
           ~reconfigured' => ~reconfigured /\ SameBindings(table, table')
                             /\ users' = users /\ owners' = owners,
           button' = button, taps' = {}, down' \subseteq Controls, pads' \subseteq PadControls,
           configured' \in 0..MaxConfigured
    PROVE  InputInv'
<1>1. HeldAll(reconfigured', table', users', owners', button')
  <2> SUFFICES ASSUME ~reconfigured', NEW a \in Actions
               PROVE  HeldBy(table', users', owners', button'[a].context, a, button'[a].held)
    BY DEF HeldAll
  <2>1. HeldBy(table, users, owners, button[a].context, a, button[a].held)
    BY DEF InputInv, HeldAll
  <2>2. HeldBy(table', users, owners, button[a].context, a, button[a].held)
    BY <2>1, HeldStays
  <2> QED
    BY <2>2
<1>2. ButtonsOK(button')
  BY DEF InputInv
<1>3. TapsAreReleases'
  BY DEF TapsAreReleases
<1> QED
  BY <1>1, <1>2, <1>3 DEF InputInv

\* A call that configures the system.
LEMMA ConfiguresHolds ==
    ASSUME InputAssumption, InputInv, Configures, CoreOK(table', users', owners', rebinding'),
           Orderly(table'), SnapshotOK(saved'), Grows(rebinding, rebinding'), reconfigured' \in BOOLEAN,
           ~reconfigured' => ~reconfigured /\ SameBindings(table, table')
                             /\ users' = users /\ owners' = owners
    PROVE  InputInv'
<1>1. /\ inputGone' = inputGone /\ button' = button /\ taps' = {} /\ down' = down /\ pads' = pads
      /\ configured < MaxConfigured /\ configured' = configured + 1
      /\ asked' = asked /\ updating' = updating
  BY DEF Configures, askedVars
<1>2. configured' \in 0..MaxConfigured
  BY <1>1 DEF InputInv, InputAssumption
<1>3. /\ inputGone' \in BOOLEAN /\ down' \subseteq Controls /\ pads' \subseteq PadControls
      /\ updating' \in BOOLEAN
  BY <1>1 DEF InputInv
<1>4. AskedOK(asked', rebinding')
  <2>1. RebindingOK(rebinding) /\ AskedOK(asked, rebinding) /\ RebindingOK(rebinding')
    BY DEF InputInv, CoreOK
  <2> QED
    BY <1>1, <2>1, AskedStays
<1> QED
  BY <1>1, <1>2, <1>3, <1>4, QuietHolds

\* upsertContext keeps the invariant.
LEMMA UpsertContextHolds ==
    ASSUME InputAssumption, InputInv, NEW def \in Definitions, UpsertContext(def)
    PROVE  InputInv'
<1>1. /\ Configures /\ def.user \in DOMAIN users \cup {Nobody}
      /\ table' = upsertedContext(table, def) /\ reconfigured' = TRUE
      /\ rebinding' = rebindingChanged(rebinding) /\ users' = users /\ owners' = owners /\ saved' = saved
  BY DEF UpsertContext, ChangesBindings
<1>2. CoreOK(table, users, owners, rebinding) /\ SnapshotOK(saved) /\ def \in ContextDefinitions
  BY DEF InputInv, InputAssumption
<1>3. TableOK(table') /\ table'.dirty /\ Played(table', users')
  BY <1>1, <1>2, UpsertedContextIs DEF CoreOK
<1>4. /\ RebindingOK(rebinding') /\ SessionTarget(table', rebinding')
      /\ Grows(rebinding, rebinding')
  BY <1>1, <1>2, ChangedIs DEF CoreOK, InputAssumption
<1>5. CoreOK(table', users', owners', rebinding') /\ Orderly(table')
  BY <1>1, <1>2, <1>3, <1>4 DEF CoreOK, Orderly
<1> QED
  BY <1>1, <1>2, <1>4, <1>5, ConfiguresHolds

\* What a request may begin.
LEMMA MayBeginIs ==
    ASSUME InputAssumption, NEW t, NEW rb, NEW again, MayBegin(t, rb, again)
    PROVE  again # NoSession => /\ again \in RebindingRequests /\ again \in Targets
                                /\ rb.begun < MaxSessions
                                /\ again.context \in Known(t) /\ Resolves(t, again)
BY DEF MayBegin, InputAssumption, Resolves

\* A session is cancelled, and what its handler begins has its target.
LEMMA CancelHolds ==
    ASSUME InputAssumption, NEW t, TableOK(t), NEW us, Played(t, us),
           NEW rb, RebindingOK(rb), rb.session # NoSession,
           NEW reason \in Reasons, reason = "manual" => rb.session.token \in rb.disposed,
           NEW again, MayBegin(t, rb, again), NEW new, new = cancelled(rb, reason, again)
    PROVE  /\ TableOK(entered(t, again)) /\ Played(entered(t, again), us)
           /\ SameBindings(t, entered(t, again)) /\ SameOrder(t, entered(t, again))
           /\ RebindingOK(new) /\ SessionTarget(entered(t, again), new) /\ Grows(rb, new)
<1>1. PICK u : u = entered(t, again)
  OBVIOUS
<1>2. again # NoSession => /\ again \in RebindingRequests /\ again \in Targets
                           /\ rb.begun < MaxSessions
                           /\ again.context \in Known(t) /\ Resolves(t, again)
  BY MayBeginIs
<1>3. TableOK(u) /\ SameBindings(t, u) /\ SameOrder(t, u)
  BY <1>1, <1>2, EnteredIs
<1>4. Played(u, us)
  BY <1>3, BindingsUsers, PlayedStays
<1>5. MaxSessions \in Nat
  BY DEF InputAssumption
<1>6. /\ RebindingOK(new) /\ Grows(rb, new)
      /\ again = NoSession => new.session = NoSession
      /\ again # NoSession =>
            /\ new.session = [token |-> rb.begun + 1, request |-> again, touched |-> FALSE]
  BY <1>2, <1>5, CancelledIs
<1>7. SessionTarget(u, new)
  <2>1. CASE again = NoSession
    BY <1>6, <2>1 DEF SessionTarget
  <2>2. CASE again # NoSession
    <3>1. again.context \in Known(u)
      BY <1>2, <1>3, <2>2 DEF SameOrder
    <3>2. Resolves(u, again)
      BY <1>2, <1>3, <2>2, <3>1, ResolvesStays
    <3>3. new.session.request = again
      BY <1>6, <2>2
    <3> QED
      BY <3>2, <3>3 DEF SessionTarget
  <2> QED
    BY <2>1, <2>2
<1> QED
  BY <1>1, <1>3, <1>4, <1>6, <1>7

\* A target goes on while the bindings are the same.
LEMMA TargetStays ==
    ASSUME InputAssumption, NEW t, NEW u, SameBindings(t, u), NEW rb, RebindingOK(rb),
           SessionTarget(t, rb), rb.session # NoSession => rb.session.request.context \in Known(u)
                                     \/ rb.session.request.context \notin Known(t)
    PROVE  SessionTarget(u, rb)
<1> SUFFICES ASSUME rb.session # NoSession, ~rb.session.touched
             PROVE  Resolves(u, rb.session.request)
  BY DEF SessionTarget
<1>1. Resolves(t, rb.session.request)
  BY DEF SessionTarget
<1>2. rb.session.request.context \in Known(u)
  BY <1>1 DEF Resolves
<1>3. rb.session.request \in Targets
  BY RebindingFields DEF InputAssumption
<1> QED
  BY <1>1, <1>2, <1>3, ResolvesStays

\* removeContext cancels the session whose target goes, and its handler may begin
\* another one.
LEMMA RemoveContextHolds ==
    ASSUME InputAssumption, InputInv, NEW c, NEW again, RemoveContext(c, again)
    PROVE  InputInv'
<1>1. PICK left, targets : /\ left = reordered(Removed(table, c))
                           /\ targets = (rebinding.session # NoSession
                                         /\ rebinding.session.request.context = c)
  OBVIOUS
<1>2. /\ Configures /\ c \in Known(table)
      /\ MayBegin(left, rebinding, again) /\ (again # NoSession => targets)
      /\ table' = entered(left, again)
      /\ rebinding' = IF targets THEN cancelled(rebinding, "replaced", again) ELSE rebinding
      /\ users' = users /\ owners' = owners /\ saved' = saved /\ reconfigured' = reconfigured
  BY <1>1 DEF RemoveContext, Removed
<1>3. CoreOK(table, users, owners, rebinding) /\ SnapshotOK(saved) /\ reconfigured \in BOOLEAN
  BY DEF InputInv
<1>4. TableOK(left) /\ left.dirty /\ Known(left) = Known(table) \ {c} /\ SameBindings(table, left)
  BY <1>1, <1>2, <1>3, RemovedIs DEF CoreOK
<1>5. Played(left, users)
  BY <1>3, <1>4, BindingsUsers, PlayedStays DEF CoreOK
<1>6. /\ TableOK(table') /\ Played(table', users) /\ SameBindings(left, table')
      /\ SameOrder(left, table') /\ RebindingOK(rebinding') /\ SessionTarget(table', rebinding')
      /\ Grows(rebinding, rebinding')
  <2>1. CASE targets
    <3>1. rebinding.session # NoSession /\ rebinding' = cancelled(rebinding, "replaced", again)
      BY <1>1, <1>2, <2>1
    <3>2. "replaced" \in Reasons /\ ~("replaced" = "manual")
      BY DEF Reasons
    <3>3. RebindingOK(rebinding)
      BY <1>3 DEF CoreOK
    <3> QED
      BY <1>2, <1>4, <1>5, <3>1, <3>2, <3>3, CancelHolds
  <2>2. CASE ~targets
    <3>1. table' = left /\ rebinding' = rebinding
      BY <1>2, <2>2 DEF entered
    <3>2. SessionTarget(left, rebinding)
      <4>1. rebinding.session # NoSession => rebinding.session.request.context # c
        BY <1>1, <2>2
      <4> QED
        BY <1>3, <1>4, <4>1, TargetStays DEF CoreOK
    <3> QED
      BY <1>3, <1>4, <1>5, <3>1, <3>2, SameItself, GrowsItself DEF CoreOK
  <2> QED
    BY <2>1, <2>2
<1>7. Orderly(table')
  BY <1>4, <1>6 DEF SameOrder, Orderly
<1>8. SameBindings(table, table')
  BY <1>4, <1>6, SameTrans
<1>9. CoreOK(table', users', owners', rebinding')
  BY <1>2, <1>3, <1>6 DEF CoreOK
<1> QED
  BY <1>2, <1>3, <1>6, <1>7, <1>8, <1>9, ConfiguresHolds

\* A call that changes contexts and leaves the bindings, the users, the owners
\* and the session.
LEMMA ContextsHold ==
    ASSUME InputAssumption, InputInv, Configures,
           UNCHANGED <<users, owners, rebinding, saved, reconfigured>>,
           TableOK(table'), Orderly(table'), SameBindings(table, table'), Known(table') = Known(table)
    PROVE  InputInv'
<1>1. /\ users' = users /\ owners' = owners /\ rebinding' = rebinding /\ saved' = saved
      /\ reconfigured' = reconfigured
  OBVIOUS
<1>2. CoreOK(table, users, owners, rebinding) /\ SnapshotOK(saved) /\ reconfigured \in BOOLEAN
  BY DEF InputInv
<1>3. Played(table', users)
  BY <1>2, BindingsUsers, PlayedStays DEF CoreOK
<1>4. SessionTarget(table', rebinding)
  BY <1>2, TargetStays DEF CoreOK
<1>5. CoreOK(table', users', owners', rebinding')
  BY <1>1, <1>2, <1>3, <1>4 DEF CoreOK
<1>6. Grows(rebinding, rebinding')
  BY <1>1, <1>2, GrowsItself DEF CoreOK
<1> QED
  BY <1>1, <1>2, <1>5, <1>6, ConfiguresHolds

\* activateContext, deactivateContext, setContextPriority
LEMMA SwitchHolds ==
    ASSUME InputAssumption, InputInv, NEW c, NEW p \in Nat,
           ActivateContext(c) \/ DeactivateContext(c) \/ SetContextPriority(c, p)
    PROVE  InputInv'
<1>1. /\ Configures /\ c \in Known(table) /\ UNCHANGED <<users, owners, rebinding, saved, reconfigured>>
  BY DEF ActivateContext, DeactivateContext, SetContextPriority
<1>2. TableOK(table)
  BY DEF InputInv, CoreOK
<1>3. PICK t, u, v : /\ t = [table EXCEPT !.contexts[c].enabled = TRUE]
                     /\ u = [table EXCEPT !.contexts[c].enabled = FALSE]
                     /\ v = [table EXCEPT !.contexts[c].priority = p]
  OBVIOUS
<1>4. PICK yes, no : yes = TRUE /\ no = FALSE /\ yes \in BOOLEAN /\ no \in BOOLEAN
  OBVIOUS
<1>5. TableOK(t) /\ SameBindings(table, t) /\ Known(t) = Known(table)
  <2>1. t = [table EXCEPT !.contexts[c].enabled = yes]
    BY <1>3, <1>4
  <2> QED
    BY <1>1, <1>2, <1>4, <2>1, SwitchedIs
<1>6. TableOK(u) /\ SameBindings(table, u) /\ Known(u) = Known(table)
  <2>1. u = [table EXCEPT !.contexts[c].enabled = no]
    BY <1>3, <1>4
  <2> QED
    BY <1>1, <1>2, <1>4, <2>1, SwitchedIs
<1>7. TableOK(v) /\ SameBindings(table, v) /\ Known(v) = Known(table)
  BY <1>1, <1>2, <1>3, <1>4, SwitchedIs
<1>8. \/ table' = reordered(stamped(t, c)) \/ table' = reordered(u) \/ table' = reordered(v)
  BY <1>3 DEF ActivateContext, DeactivateContext, SetContextPriority
<1>9. /\ TableOK(table') /\ table'.dirty
      /\ table'.contexts = t.contexts \/ table'.contexts = u.contexts \/ table'.contexts = v.contexts
  <2>1. CASE table' = reordered(stamped(t, c))
    BY <1>1, <1>5, <2>1, ActivatedIs
  <2>2. CASE table' = reordered(u)
    BY <1>6, <2>2, ReorderedIs
  <2>3. CASE table' = reordered(v)
    BY <1>7, <2>3, ReorderedIs
  <2> QED
    BY <1>8, <2>1, <2>2, <2>3
<1>10. SameBindings(table, table') /\ Known(table') = Known(table)
  <2>1. ASSUME NEW w, table'.contexts = w.contexts, SameBindings(table, w), Known(w) = Known(table)
        PROVE  SameBindings(table, table') /\ Known(table') = Known(table)
    <3>1. Known(table') = Known(w) /\ SameBindings(w, table')
      BY <2>1, SameContexts
    <3> QED
      BY <2>1, <3>1, SameTrans
  <2> QED
    BY <1>5, <1>6, <1>7, <1>9, <2>1
<1>11. Orderly(table')
  BY <1>9 DEF Orderly
<1> QED
  BY <1>1, <1>9, <1>10, <1>11, ContextsHold

\* A call that replaces bindings: the session has been touched.
LEMMA BindingsHold ==
    ASSUME InputAssumption, InputInv, Configures, ChangesBindings, UNCHANGED <<users, owners, saved>>,
           TableOK(table'), SameUsers(table, table'), SameOrder(table, table')
    PROVE  InputInv'
<1>1. /\ users' = users /\ owners' = owners /\ saved' = saved /\ reconfigured' = TRUE
      /\ rebinding' = rebindingChanged(rebinding)
  BY DEF ChangesBindings
<1>2. /\ CoreOK(table, users, owners, rebinding) /\ SnapshotOK(saved) /\ ~inputGone
      /\ Orderly(table)
  BY DEF InputInv, Configures
<1>3. Played(table', users)
  BY <1>2, PlayedStays DEF CoreOK
<1>4. /\ RebindingOK(rebinding') /\ SessionTarget(table', rebinding')
      /\ Grows(rebinding, rebinding')
  BY <1>1, <1>2, ChangedIs DEF CoreOK, InputAssumption
<1>5. Orderly(table')
  BY <1>2, SortedSame
<1>6. CoreOK(table', users', owners', rebinding')
  BY <1>1, <1>2, <1>3, <1>4 DEF CoreOK
<1> QED
  BY <1>1, <1>2, <1>4, <1>5, <1>6, ConfiguresHolds

\* rebind
LEMMA RebindHolds ==
    ASSUME InputAssumption, InputInv, NEW r \in RebindingRequests, NEW k \in Controls, Rebind(r, k)
    PROVE  InputInv'
<1>1. /\ Configures /\ ChangesBindings /\ UNCHANGED <<users, owners, saved>>
      /\ Resolves(table, r) /\ table' = Bound(table, r, k)
  BY DEF Rebind
<1>2. TableOK(table) /\ r \in Targets
  BY DEF InputInv, CoreOK, InputAssumption
<1>3. TableOK(table') /\ SameUsers(table, table') /\ SameOrder(table, table')
  BY <1>1, <1>2, BoundIs
<1> QED
  BY <1>1, <1>3, BindingsHold

\* replaceBindings
LEMMA ReplaceBindingsHolds ==
    ASSUME InputAssumption, InputInv, NEW c, NEW a \in Actions, NEW list \in Lists,
           ReplaceBindings(c, a, list)
    PROVE  InputInv'
<1>1. /\ Configures /\ ChangesBindings /\ UNCHANGED <<users, owners, saved>>
      /\ c \in Known(table) /\ table' = rebound(table, c, a, list)
  BY DEF ReplaceBindings
<1>2. TableOK(table) /\ list \in Seq(Controls)
  BY DEF InputInv, CoreOK, InputAssumption
<1>3. TableOK(table') /\ SameUsers(table, table') /\ SameOrder(table, table')
  BY <1>1, <1>2, ReboundIs
<1> QED
  BY <1>1, <1>3, BindingsHold

\* resetBindings, of an action or of a context
LEMMA ResetBindingsHolds ==
    ASSUME InputAssumption, InputInv, NEW c, NEW as, ResetBindings(c, as)
    PROVE  InputInv'
<1>1. PICK t : t = IF \E a \in Actions : as = {a}
                   THEN requireContextAction(table, c, CHOOSE a \in as : TRUE) ELSE table
  OBVIOUS
<1>2. /\ Configures /\ ChangesBindings /\ UNCHANGED <<users, owners, saved>>
      /\ c \in Known(table) /\ table' = reset(t, c, as)
  BY <1>1 DEF ResetBindings
<1>3. TableOK(table)
  BY DEF InputInv, CoreOK
<1>4. TableOK(t) /\ SameBindings(table, t) /\ SameOrder(table, t)
  <2>1. CASE \E a \in Actions : as = {a}
    <3>1. PICK a \in Actions : as = {a}
      BY <2>1
    <3>2. (CHOOSE b \in as : TRUE) = a
      BY <3>1
    <3>3. t = requireContextAction(table, c, a)
      BY <1>1, <2>1, <3>2
    <3> QED
      BY <1>2, <1>3, <3>3, RequireIs
  <2>2. CASE ~\E a \in Actions : as = {a}
    BY <1>1, <1>3, <2>2, SameItself
  <2> QED
    BY <2>1, <2>2
<1>5. c \in Known(t)
  BY <1>2, <1>4 DEF SameOrder
<1>6. TableOK(table') /\ SameUsers(t, table') /\ SameOrder(t, table')
  BY <1>2, <1>4, <1>5, ResetIs
<1>7. SameUsers(table, table') /\ SameOrder(table, table')
  BY <1>4, <1>6, BindingsUsers DEF SameUsers, SameOrder
<1> QED
  BY <1>2, <1>6, <1>7, BindingsHold

-----------------------------------------------------------------------------
\* A call that changes the users.
LEMMA UsersHold ==
    ASSUME InputAssumption, InputInv, Configures, UNCHANGED <<rebinding, saved>>,
           reconfigured' = TRUE, SystemOK(users', owners'), TableOK(table'),
           Played(table', users'), SameOrder(table, table'), SessionTarget(table', rebinding)
    PROVE  InputInv'
<1>1. rebinding' = rebinding /\ saved' = saved
  OBVIOUS
<1>2. /\ CoreOK(table, users, owners, rebinding) /\ SnapshotOK(saved) /\ Orderly(table)
  BY DEF InputInv, Configures
<1>3. CoreOK(table', users', owners', rebinding') /\ Orderly(table')
  BY <1>1, <1>2, SortedSame DEF CoreOK
<1>4. Grows(rebinding, rebinding')
  BY <1>1, <1>2, GrowsItself DEF CoreOK
<1> QED
  BY <1>1, <1>2, <1>3, <1>4, ConfiguresHolds

\* and leaves the table.
LEMMA UsersOnlyHold ==
    ASSUME InputAssumption, InputInv, Configures, UNCHANGED <<table, rebinding, saved>>,
           reconfigured' = TRUE, SystemOK(users', owners'), DOMAIN users \subseteq DOMAIN users'
    PROVE  InputInv'
<1>1. table' = table /\ rebinding' = rebinding
  OBVIOUS
<1>2. CoreOK(table, users, owners, rebinding)
  BY DEF InputInv
<1>3. Played(table', users')
  BY <1>1, <1>2 DEF CoreOK, Played
<1>4. SameOrder(table, table') /\ TableOK(table') /\ SessionTarget(table', rebinding)
  BY <1>1, <1>2, SameItself DEF CoreOK
<1> QED
  BY <1>3, <1>4, UsersHold

\* upsertUser
LEMMA UpsertUserHolds ==
    ASSUME InputAssumption, InputInv, NEW def \in UserDefinitions, UpsertUser(def)
    PROVE  InputInv'
<1>1. /\ Configures /\ UNCHANGED <<table, rebinding, saved>> /\ reconfigured' = TRUE
      /\ users' = upsertedUser(users, owners, def).users
      /\ owners' = upsertedUser(users, owners, def).owners
  BY DEF UpsertUser, SystemIs
<1>2. SystemOK(users, owners) /\ def \in DefinitionsOfUsers
  BY DEF InputInv, CoreOK, InputAssumption
<1>3. SystemOK(users', owners') /\ DOMAIN users' = DOMAIN users \cup {def.id}
  BY <1>1, <1>2, UpsertedUserIs
<1> QED
  BY <1>1, <1>3, UsersOnlyHold

\* assignGamepad
LEMMA AssignGamepadHolds ==
    ASSUME InputAssumption, InputInv, NEW u, NEW i \in Gamepads, AssignGamepad(u, i)
    PROVE  InputInv'
<1>1. /\ Configures /\ UNCHANGED <<table, rebinding, saved>> /\ reconfigured' = TRUE
      /\ users' = given(users, owners, u, {i}).users
      /\ owners' = given(users, owners, u, {i}).owners /\ u \in DOMAIN users
  BY DEF AssignGamepad, SystemIs
<1>2. SystemOK(users, owners) /\ {i} \in SUBSET Devices
  BY DEF InputInv, CoreOK, InputAssumption
<1>3. SystemOK(users', owners') /\ DOMAIN users' = DOMAIN users
  BY <1>1, <1>2, GivenIs
<1> QED
  BY <1>1, <1>3, UsersOnlyHold

\* setUserEnabled
LEMMA SetUserEnabledHolds ==
    ASSUME InputAssumption, InputInv, NEW u, NEW enabled \in BOOLEAN, SetUserEnabled(u, enabled)
    PROVE  InputInv'
<1>1. /\ Configures /\ UNCHANGED <<table, owners, rebinding, saved>> /\ reconfigured' = TRUE
      /\ users' = [users EXCEPT ![u].enabled = enabled] /\ u \in DOMAIN users
  BY DEF SetUserEnabled
<1>2. PICK V, x, y : V = DOMAIN users /\ x = users[u] /\ y = [x EXCEPT !.enabled = enabled]
  OBVIOUS
<1>3. /\ V \in SUBSET Users /\ users \in [V -> [enabled : BOOLEAN, devices : SUBSET Devices]]
      /\ owners \in [Gamepads -> Users \cup {Nobody}]
      /\ \A v \in V, i \in Gamepads : i \in users[v].devices <=> owners[i] = v
      /\ \A i \in Gamepads : owners[i] \in V \cup {Nobody}
  BY <1>2, UsersFields DEF InputInv, CoreOK, SystemOK
<1>4. x = [enabled |-> x.enabled, devices |-> x.devices] /\ x.devices \in SUBSET Devices
  BY <1>1, <1>2, <1>3
<1>5. y = [enabled |-> enabled, devices |-> x.devices]
  BY <1>2, <1>4
<1>6. y \in [enabled : BOOLEAN, devices : SUBSET Devices] /\ y.devices = x.devices
  BY <1>4, <1>5
<1>7. users' = [users EXCEPT ![u] = y]
  BY <1>1, <1>2
<1>8. users' \in [V -> [enabled : BOOLEAN, devices : SUBSET Devices]]
  BY <1>3, <1>6, <1>7
<1>9. \A v \in V : users'[v].devices = users[v].devices
  BY <1>1, <1>2, <1>3, <1>6, <1>7
<1>10. users' \in UserSystems /\ DOMAIN users' = V
  BY <1>3, <1>8, IsUserSystem
<1>11. SystemOK(users', owners')
  <2>1. owners' = owners
    BY <1>1
  <2> QED
    BY <1>3, <1>9, <1>10, <2>1 DEF SystemOK
<1> QED
  BY <1>1, <1>2, <1>10, <1>11, UsersOnlyHold

\* releaseGamepad
LEMMA ReleaseGamepadHolds ==
    ASSUME InputAssumption, InputInv, NEW i \in Gamepads, ReleaseGamepad(i)
    PROVE  InputInv'
<1>1. PICK V, o : V = DOMAIN users /\ o = owners[i]
  OBVIOUS
<1>2. /\ Configures /\ UNCHANGED <<table, rebinding, saved>> /\ reconfigured' = TRUE /\ o # Nobody
      /\ users' = [u \in V |-> IF u = o THEN [users[u] EXCEPT !.devices = @ \ {i}] ELSE users[u]]
      /\ owners' = [owners EXCEPT ![i] = Nobody]
  BY <1>1 DEF ReleaseGamepad, SystemIs
<1>3. /\ V \in SUBSET Users /\ users \in [V -> [enabled : BOOLEAN, devices : SUBSET Devices]]
      /\ owners \in [Gamepads -> Users \cup {Nobody}]
      /\ \A v \in V, j \in Gamepads : j \in users[v].devices <=> owners[j] = v
      /\ \A j \in Gamepads : owners[j] \in V \cup {Nobody}
  BY <1>1, UsersFields DEF InputInv, CoreOK, SystemOK
<1>4. o \in V
  BY <1>1, <1>2, <1>3
<1>5. PICK x, y : x = users[o] /\ y = [x EXCEPT !.devices = @ \ {i}]
  OBVIOUS
<1>6. /\ x = [enabled |-> x.enabled, devices |-> x.devices]
      /\ x.devices \in SUBSET Devices /\ x.enabled \in BOOLEAN
  BY <1>3, <1>4, <1>5
<1>7. y = [enabled |-> x.enabled, devices |-> x.devices \ {i}]
  BY <1>5, <1>6
<1>8. y \in [enabled : BOOLEAN, devices : SUBSET Devices] /\ y.devices = x.devices \ {i}
  <2>1. x.devices \ {i} \in SUBSET Devices
    BY <1>6
  <2> QED
    BY <1>6, <1>7, <2>1
<1>9. \A u \in V : users'[u] = IF u = o THEN y ELSE users[u]
  BY <1>2, <1>5
<1>10. users' \in [V -> [enabled : BOOLEAN, devices : SUBSET Devices]]
  BY <1>2, <1>3, <1>8, <1>9
<1>11. users' \in UserSystems /\ DOMAIN users' = V
  BY <1>3, <1>10, IsUserSystem
<1>12. \A j \in Gamepads : owners'[j] = IF j = i THEN Nobody ELSE owners[j]
  BY <1>2, <1>3
<1>13. owners' \in [Gamepads -> Users \cup {Nobody}] /\ \A j \in Gamepads : owners'[j] \in V \cup {Nobody}
  BY <1>2, <1>3, <1>12
<1>14. ASSUME NEW v \in V, NEW j \in Gamepads PROVE j \in users'[v].devices <=> owners'[j] = v
  <2>1. j \in users[v].devices <=> owners[j] = v
    BY <1>3
  <2>2. v # Nobody
    BY <1>3 DEF InputAssumption
  <2>3. users'[v].devices = IF v = o THEN users[v].devices \ {i} ELSE users[v].devices
    BY <1>5, <1>8, <1>9
  <2> QED
    BY <1>1, <1>12, <2>1, <2>2, <2>3
<1>15. SystemOK(users', owners')
  BY <1>11, <1>13, <1>14 DEF SystemOK
<1> QED
  BY <1>1, <1>2, <1>11, <1>15, UsersOnlyHold

\* The contexts of a user who is removed are nobody's.
Userless(t, u) ==
    [t EXCEPT !.contexts = [c \in DOMAIN @ |->
        IF @[c].user = u THEN [@[c] EXCEPT !.user = Nobody] ELSE @[c]]]

\* They keep their bindings and their order.
LEMMA UserlessIs ==
    ASSUME InputAssumption, NEW t, TableOK(t), NEW u \in Users, NEW v, v = Userless(t, u)
    PROVE  /\ TableOK(v) /\ SameOrder(t, v)
           /\ \A c \in Known(t) : v.contexts[c].user = IF t.contexts[c].user = u THEN Nobody
                                                       ELSE t.contexts[c].user
           /\ \A r : Resolves(t, r) => Resolves(v, r)
<1>1. PICK D, g, nobody : /\ D = Known(t) /\ g = t.contexts
                          /\ nobody = [c \in D |-> [g[c] EXCEPT !.user = Nobody]]
  OBVIOUS
<1>2. PICK f : f = [c \in D |-> IF g[c].user = u THEN nobody[c] ELSE g[c]]
  OBVIOUS
<1>3. D \in SUBSET Contexts /\ g \in [D -> ContextRecords] /\ t \in Tables /\ t.recency \in Seq(Contexts)
      /\ t.dirty \in BOOLEAN /\ HasNoRepeats(t.recency) /\ Elements(t.recency) = D
      /\ t = [contexts |-> g, recency |-> t.recency, ordered |-> t.ordered, dirty |-> t.dirty]
  BY <1>1, TableFields DEF TableOK
<1>4. \A c \in D : /\ nobody[c] \in ContextRecords /\ nobody[c].user = Nobody
                   /\ nobody[c].actions = g[c].actions /\ nobody[c].priority = g[c].priority
  <2> TAKE c \in D
  <2>1. PICK x, y : x = g[c] /\ y = [x EXCEPT !.user = Nobody]
    OBVIOUS
  <2>2. x = [priority |-> x.priority, enabled |-> x.enabled, capture |-> x.capture, user |-> x.user,
             actions |-> x.actions] /\ x \in ContextRecords
    BY <1>3, <2>1 DEF ContextRecords
  <2>3. y = [priority |-> x.priority, enabled |-> x.enabled, capture |-> x.capture, user |-> Nobody,
             actions |-> x.actions]
    BY <2>1, <2>2
  <2>4. y \in ContextRecords
    BY <2>2, <2>3, ContextFields DEF ContextRecords
  <2> QED
    BY <1>1, <2>1, <2>3, <2>4
<1>5. f \in [D -> ContextRecords]
  BY <1>2, <1>3, <1>4
<1>6. \A c \in D : /\ f[c].user = (IF g[c].user = u THEN Nobody ELSE g[c].user)
                   /\ f[c].actions = g[c].actions /\ f[c].priority = g[c].priority
  BY <1>2, <1>4
<1>7. v = [contexts |-> f, recency |-> t.recency, ordered |-> t.ordered, dirty |-> t.dirty]
  <2>1. DOMAIN g = D
    BY <1>3
  <2>2. f = [c \in D |-> IF g[c].user = u THEN [g[c] EXCEPT !.user = Nobody] ELSE g[c]]
    BY <1>1, <1>2
  <2>3. v = [t EXCEPT !.contexts = f]
    BY <1>1, <2>1, <2>2 DEF Userless
  <2> QED
    BY <1>3, <2>3
<1>8. TableOK(v) /\ Known(v) = D /\ v.contexts = f /\ v.recency = t.recency
      /\ v.ordered = t.ordered /\ v.dirty = t.dirty
  BY <1>3, <1>5, <1>7, TableIs
<1>9. SameOrder(t, v)
  BY <1>1, <1>6, <1>8 DEF SameOrder
<1>10. \A c \in D : \A a : Current(v, c, a) = Current(t, c, a)
  <2> TAKE c \in D
  <2> TAKE a
  <2>1. PICK x, y : x = t.contexts[c] /\ y = v.contexts[c]
    OBVIOUS
  <2>2. y.actions = x.actions
    BY <1>1, <1>6, <1>8, <2>1
  <2>3. Entry(y, a) = Entry(x, a)
    BY <2>2 DEF Entry
  <2> QED
    BY <2>1, <2>2, <2>3 DEF Current
<1>11. \A r : Resolves(t, r) => Resolves(v, r)
  BY <1>1, <1>8, <1>10 DEF Resolves
<1> QED
  BY <1>1, <1>6, <1>8, <1>9, <1>11

\* removeUser: contexts and gamepads lose the user.
LEMMA RemoveUserHolds ==
    ASSUME InputAssumption, InputInv, NEW u, RemoveUser(u)
    PROVE  InputInv'
<1>1. PICK V : V = DOMAIN users
  OBVIOUS
<1>2. /\ Configures /\ UNCHANGED <<rebinding, saved>> /\ reconfigured' = TRUE /\ u \in V
      /\ users' = [v \in V \ {u} |-> users[v]]
      /\ owners' = [i \in Gamepads |-> IF owners[i] = u THEN Nobody ELSE owners[i]]
      /\ table' = Userless(table, u)
  BY <1>1 DEF RemoveUser, SystemIs, Userless
<1>3. TableOK(table) /\ Played(table, users) /\ SessionTarget(table, rebinding)
  BY DEF InputInv, CoreOK
<1>4. /\ V \in SUBSET Users /\ users \in [V -> [enabled : BOOLEAN, devices : SUBSET Devices]]
      /\ owners \in [Gamepads -> Users \cup {Nobody}]
      /\ \A v \in V, i \in Gamepads : i \in users[v].devices <=> owners[i] = v
      /\ \A i \in Gamepads : owners[i] \in V \cup {Nobody}
  BY <1>1, UsersFields DEF InputInv, CoreOK, SystemOK
<1>5. u \in Users /\ u # Nobody
  BY <1>2, <1>4 DEF InputAssumption
<1>6. /\ TableOK(table') /\ SameOrder(table, table')
      /\ \A c \in Known(table) : table'.contexts[c].user = IF table.contexts[c].user = u THEN Nobody
                                                           ELSE table.contexts[c].user
      /\ \A r : Resolves(table, r) => Resolves(table', r)
  BY <1>2, <1>3, <1>5, UserlessIs
<1>7. users' \in UserSystems /\ DOMAIN users' = V \ {u}
  <2>1. users' \in [V \ {u} -> [enabled : BOOLEAN, devices : SUBSET Devices]] /\ V \ {u} \in SUBSET Users
    BY <1>2, <1>4
  <2> QED
    BY <2>1, IsUserSystem
<1>8. Played(table', users')
  BY <1>1, <1>3, <1>6, <1>7 DEF Played, SameOrder
<1>9. SystemOK(users', owners')
  <2>1. \A i \in Gamepads : owners'[i] = IF owners[i] = u THEN Nobody ELSE owners[i]
    BY <1>2
  <2>2. owners' \in [Gamepads -> Users \cup {Nobody}]
    BY <1>2, <1>4
  <2>3. \A i \in Gamepads : owners'[i] \in (V \ {u}) \cup {Nobody}
    BY <1>4, <2>1
  <2>4. \A v \in V \ {u} : users'[v] = users[v] /\ v # Nobody
    BY <1>2, <1>4 DEF InputAssumption
  <2>5. \A v \in V \ {u}, i \in Gamepads : i \in users'[v].devices <=> owners'[i] = v
    BY <1>4, <2>1, <2>4
  <2> QED
    BY <1>7, <2>2, <2>3, <2>5 DEF SystemOK
<1>10. SessionTarget(table', rebinding)
  BY <1>3, <1>6 DEF SessionTarget
<1> QED
  BY <1>2, <1>6, <1>8, <1>9, <1>10, UsersHold

\* beginRebinding: the session that it replaces is cancelled, and one that the
\* handler of that began is overwritten.
LEMMA BeginRebindingHolds ==
    ASSUME InputAssumption, InputInv, NEW r \in RebindingRequests, NEW again, BeginRebinding(r, again)
    PROVE  InputInv'
<1>1. PICK t, freed, over : /\ t = requireContextAction(table, r.context, r.action)
                            /\ freed = cancelled(rebinding, "replaced", again)
                            /\ over = Overwritten(rebinding, again)
  OBVIOUS
<1>2. /\ Configures /\ Resolves(table, r)
      /\ again # NoSession => rebinding.session # NoSession /\ MayBegin(t, rebinding, again)
      /\ freed.begun < MaxSessions
      /\ table' = entered(t, again) /\ rebinding' = BegunOver(freed, r, over)
      /\ users' = users /\ owners' = owners /\ saved' = saved /\ reconfigured' = reconfigured
  BY <1>1 DEF BeginRebinding, BegunOver
<1>3. /\ CoreOK(table, users, owners, rebinding) /\ SnapshotOK(saved) /\ ~inputGone /\ Orderly(table)
      /\ reconfigured \in BOOLEAN
  BY <1>2 DEF InputInv, Configures
<1>4. r \in Targets /\ MaxSessions \in Nat /\ r.context \in Known(table) /\ r.action \in Actions
  BY <1>2 DEF InputAssumption, Resolves, Targets
<1>5. TableOK(t) /\ SameBindings(table, t) /\ SameOrder(table, t)
  BY <1>1, <1>3, <1>4, RequireIs DEF CoreOK
<1>6. again # NoSession => /\ again \in RebindingRequests /\ again \in Targets
                           /\ rebinding.begun < MaxSessions
                           /\ again.context \in Known(t) /\ Resolves(t, again)
  BY <1>2, MayBeginIs
<1>7. TableOK(table') /\ SameBindings(t, table') /\ SameOrder(t, table')
  BY <1>2, <1>5, <1>6, EnteredIs
<1>8. SameBindings(table, table') /\ SameOrder(table, table')
  BY <1>5, <1>7, SameTrans DEF SameOrder
<1>9. /\ RebindingOK(freed) /\ Grows(rebinding, freed)
      /\ rebinding.session = NoSession => freed = rebinding
      /\ rebinding.session # NoSession /\ again = NoSession => freed.session = NoSession
      /\ rebinding.session # NoSession /\ again # NoSession =>
            /\ freed.begun = rebinding.begun + 1 /\ freed.session # NoSession
            /\ freed.session = [token |-> rebinding.begun + 1, request |-> again, touched |-> FALSE]
  <2>1. "replaced" \in Reasons /\ ~("replaced" = "manual")
    BY DEF Reasons
  <2>2. RebindingOK(rebinding)
    BY <1>3 DEF CoreOK
  <2> QED
    BY <1>1, <1>4, <1>6, <2>1, <2>2, CancelledIs
<1>10. over = IF freed.session = NoSession THEN {} ELSE {freed.session.token}
  <2>1. CASE rebinding.session # NoSession /\ again # NoSession
    BY <1>1, <1>9, <2>1 DEF Overwritten
  <2>2. CASE ~(rebinding.session # NoSession /\ again # NoSession)
    <3>1. freed.session = NoSession /\ over = {}
      BY <1>1, <1>2, <1>9, <2>2 DEF Overwritten
    <3> QED
      BY <3>1
  <2> QED
    BY <2>1, <2>2
<1>11. /\ RebindingOK(rebinding')
       /\ rebinding'.session = [token |-> freed.begun + 1, request |-> r, touched |-> FALSE]
       /\ rebinding'.begun = freed.begun + 1 /\ rebinding'.late = freed.late
       /\ rebinding'.lost = freed.lost \cup over
  BY <1>2, <1>4, <1>9, <1>10, BegunIs
<1>12. SessionTarget(table', rebinding')
  <2>1. r.context \in Known(table')
    BY <1>4, <1>8 DEF SameOrder
  <2>2. Resolves(table', r)
    BY <1>2, <1>4, <1>8, <2>1, ResolvesStays
  <2>3. rebinding'.session.request = r
    BY <1>11
  <2> QED
    BY <2>2, <2>3 DEF SessionTarget
<1>13. Played(table', users')
  BY <1>2, <1>3, <1>8, BindingsUsers, PlayedStays DEF CoreOK
<1>14. CoreOK(table', users', owners', rebinding')
  BY <1>2, <1>3, <1>7, <1>11, <1>12, <1>13 DEF CoreOK
<1>15. Orderly(table')
  BY <1>3, <1>8, SortedSame
<1>16. over \subseteq {rebinding.begun + 1}
  BY <1>1 DEF Overwritten
<1>17. Grows(rebinding, rebinding')
  <2>1. RebindingOK(rebinding)
    BY <1>3 DEF CoreOK
  <2>2. rebinding.begun \in Nat
    BY <2>1, BegunNat
  <2>3. RebindingOK(freed)
    BY <1>9
  <2>4. freed.begun \in Nat
    BY <2>3, BegunNat
  <2>5. /\ rebinding.begun <= freed.begun /\ freed.late = rebinding.late
        /\ \A n \in 1..rebinding.begun : n \in freed.lost => n \in rebinding.lost
    BY <1>9 DEF Grows
  <2>6. /\ rebinding'.begun = freed.begun + 1 /\ rebinding'.late = freed.late
        /\ rebinding'.lost = freed.lost \cup over
    BY <1>11
  <2>7. \A n \in 1..rebinding.begun : n \notin over
    BY <1>16, <2>2
  <2> QED
    BY <2>2, <2>4, <2>5, <2>6, <2>7 DEF Grows
<1> QED
  BY <1>2, <1>3, <1>8, <1>14, <1>15, <1>17, ConfiguresHolds

\* The handle of a session ends its session only.
LEMMA DisposeHandleHolds ==
    ASSUME InputAssumption, InputInv, NEW n, NEW again, DisposeHandle(n, again)
    PROVE  InputInv'
<1>1. PICK noted, active : /\ noted = Noted(rebinding, n)
                           /\ active = (rebinding.session # NoSession /\ rebinding.session.token = n)
  OBVIOUS
<1>2. /\ n \in 1..rebinding.begun
      /\ MayBegin(table, rebinding, again) /\ (again # NoSession => active)
      /\ rebinding' = IF active THEN cancelled(noted, "manual", again) ELSE noted
      /\ table' = entered(table, again) /\ taps' = {}
      /\ users' = users /\ owners' = owners /\ down' = down /\ pads' = pads /\ button' = button
      /\ reconfigured' = reconfigured /\ saved' = saved /\ configured' = configured
      /\ inputGone' = inputGone /\ asked' = asked /\ updating' = updating
  BY <1>1 DEF DisposeHandle, Noted, askedVars
<1>3. /\ CoreOK(table, users, owners, rebinding) /\ SnapshotOK(saved)
      /\ reconfigured \in BOOLEAN /\ MaxSessions \in Nat
  BY DEF InputInv, InputAssumption
<1>4. /\ RebindingOK(noted) /\ noted.session = rebinding.session /\ noted.begun = rebinding.begun
      /\ n \in noted.disposed /\ Grows(rebinding, noted)
  BY <1>1, <1>2, <1>3, NotedIs DEF CoreOK
<1>5. /\ TableOK(table') /\ Played(table', users) /\ SameBindings(table, table')
      /\ SameOrder(table, table') /\ RebindingOK(rebinding') /\ SessionTarget(table', rebinding')
      /\ Grows(noted, rebinding')
  <2>1. CASE active
    <3>1. /\ noted.session # NoSession /\ noted.session.token \in noted.disposed
          /\ rebinding' = cancelled(noted, "manual", again)
      BY <1>1, <1>2, <1>4, <2>1
    <3>2. "manual" \in Reasons
      BY DEF Reasons
    <3>3. MayBegin(table, noted, again)
      BY <1>2, <1>4 DEF MayBegin
    <3> QED
      BY <1>2, <1>3, <1>4, <3>1, <3>2, <3>3, CancelHolds DEF CoreOK
  <2>2. CASE ~active
    <3>1. table' = table /\ rebinding' = noted
      BY <1>2, <2>2 DEF entered
    <3>2. SessionTarget(table, noted)
      BY <1>3, <1>4 DEF CoreOK, SessionTarget
    <3> QED
      BY <1>3, <1>4, <3>1, <3>2, SameItself, GrowsItself DEF CoreOK
  <2> QED
    BY <2>1, <2>2
<1>6. ~inputGone' => Orderly(table')
  BY <1>2, <1>5, SortedSame DEF InputInv
<1>7. CoreOK(table', users', owners', rebinding')
  BY <1>2, <1>3, <1>5 DEF CoreOK
<1>8. /\ inputGone' \in BOOLEAN /\ configured' \in 0..MaxConfigured /\ down' \subseteq Controls
      /\ pads' \subseteq PadControls
  BY <1>2 DEF InputInv
<1>9. AskedOK(asked', rebinding') /\ updating' \in BOOLEAN
  <2>1. RebindingOK(rebinding) /\ AskedOK(asked, rebinding) /\ asked' = asked /\ updating' \in BOOLEAN
    BY <1>2 DEF InputInv, CoreOK
  <2>2. AskedOK(asked, noted)
    BY <1>4, <2>1, AskedStays
  <2> QED
    BY <1>4, <1>5, <2>1, <2>2, AskedStays
<1> QED
  BY <1>2, <1>3, <1>5, <1>6, <1>7, <1>8, <1>9, QuietHolds

\* getSnapshot: the contexts in their order, and the users that play them.
LEMMA SnapshotHolds ==
    ASSUME InputAssumption, InputInv, Snapshot
    PROVE  InputInv'
<1>1. PICK t, s : /\ t = getOrderedContexts(table)
                  /\ s = [n \in DOMAIN t.ordered |->
                             [id |-> t.ordered[n], context |-> t.contexts[t.ordered[n]]]]
  OBVIOUS
<1>2. /\ Configures /\ table' = t /\ saved' = [users |-> users, contexts |-> s]
      /\ users' = users /\ owners' = owners /\ rebinding' = rebinding /\ reconfigured' = reconfigured
  BY <1>1 DEF Snapshot
<1>3. /\ CoreOK(table, users, owners, rebinding) /\ ~inputGone /\ Orderly(table)
      /\ reconfigured \in BOOLEAN
  BY <1>2 DEF InputInv, Configures
<1>4. TableOK(t) /\ Orderly(t) /\ t.contexts = table.contexts /\ Elements(t.ordered) = Known(table)
  BY <1>1, <1>3, OrderedIs DEF CoreOK
<1>5. Known(t) = Known(table) /\ SameBindings(table, t)
  BY <1>4, SameContexts
<1>6. Played(t, users) /\ SessionTarget(t, rebinding)
  <2>1. Played(t, users)
    BY <1>3, <1>5, BindingsUsers, PlayedStays DEF CoreOK
  <2>2. RebindingOK(rebinding) /\ SessionTarget(table, rebinding)
    BY <1>3 DEF CoreOK
  <2> QED
    BY <1>5, <2>1, <2>2, TargetStays
<1>7. CoreOK(table', users', owners', rebinding')
  BY <1>2, <1>3, <1>4, <1>6 DEF CoreOK
<1>8. /\ t.ordered \in Seq(Contexts) /\ Len(t.ordered) \in Nat /\ DOMAIN t.ordered = 1..Len(t.ordered)
      /\ t.contexts \in [Known(t) -> ContextRecords] /\ Known(t) \in SUBSET Contexts
  BY <1>4, TableFields, LenProperties DEF TableOK
<1>9. PICK m : m = Len(t.ordered)
  OBVIOUS
<1>10. \A n \in 1..m : t.ordered[n] \in Known(t)
  BY <1>4, <1>5, <1>9 DEF Elements
<1>11. \A n \in 1..m : /\ s[n] \in SavedContexts
                       /\ s[n].context.user \in DOMAIN users \cup {Nobody}
  <2> TAKE n \in 1..m
  <2>1. PICK c, x : c = t.ordered[n] /\ x = t.contexts[c]
    OBVIOUS
  <2>2. s[n] = [id |-> c, context |-> x]
    BY <1>1, <1>8, <1>9, <2>1
  <2>3. c \in Known(t) /\ c \in Contexts /\ x \in ContextRecords
    BY <1>8, <1>10, <2>1
  <2>4. x.user \in DOMAIN users \cup {Nobody}
    BY <1>6, <2>1, <2>3 DEF Played
  <2> QED
    BY <2>2, <2>3, <2>4 DEF SavedContexts
<1>12. s \in Seq(SavedContexts) /\ Len(s) = m
  <2>1. DOMAIN s = 1..m /\ m \in Nat
    BY <1>1, <1>8, <1>9
  <2>2. s \in [1..m -> SavedContexts]
    BY <1>1, <1>11, <2>1
  <2>3. s \in Seq(SavedContexts)
    BY <2>1, <2>2, SeqDef
  <2> QED
    BY <2>1, <2>3, LenProperties
<1>13. users \in UserSystems
  BY <1>3 DEF CoreOK, SystemOK
<1>14. saved'.users = users /\ saved'.contexts = s
  BY <1>2
<1>15. SnapshotOK(saved')
  BY <1>11, <1>12, <1>13, <1>14 DEF SnapshotOK
<1>16. Grows(rebinding, rebinding')
  BY <1>2, <1>3, GrowsItself DEF CoreOK
<1> QED
  BY <1>2, <1>3, <1>4, <1>5, <1>7, <1>15, <1>16, ConfiguresHolds

\* The definition of a context in a snapshot.
LEMMA DefinitionIs ==
    ASSUME NEW s \in SavedContexts
    PROVE  Definition(s) \in ContextDefinitions /\ Definition(s).user = s.context.user
<1>1. PICK x, as : x = s.context /\ as = x.actions
  OBVIOUS
<1>2. s.id \in Contexts /\ x \in ContextRecords
  BY <1>1 DEF SavedContexts
<1>3. PICK d : d = [n \in DOMAIN as |-> [action |-> as[n].action, bindings |-> as[n].current]]
  OBVIOUS
<1>4. /\ x.priority \in Nat /\ x.enabled \in BOOLEAN /\ x.capture \in BOOLEAN
      /\ x.user \in Users \cup {Nobody} /\ Len(as) \in Nat /\ DOMAIN as = 1..Len(as)
      /\ \A n \in 1..Len(as) : as[n].action \in Actions /\ as[n].current \in Seq(Controls)
  BY <1>1, <1>2, ContextFields
<1>5. d \in Seq([action : Actions, bindings : Seq(Controls)])
  <2>4. PICK B, m : B = [action : Actions, bindings : Seq(Controls)] /\ m = Len(as)
    OBVIOUS
  <2>1. \A n \in 1..m : d[n] \in B
    BY <1>3, <1>4, <2>4
  <2>2. DOMAIN d = 1..m /\ m \in Nat
    BY <1>3, <1>4, <2>4
  <2>3. d \in [1..m -> B]
    BY <1>3, <2>1, <2>2
  <2>5. d \in Seq(B)
    BY <2>2, <2>3, SeqDef
  <2> QED
    BY <2>4, <2>5
<1>6. Definition(s) = [id |-> s.id, priority |-> x.priority, enabled |-> x.enabled,
                       capture |-> x.capture, user |-> x.user, actions |-> d]
  BY <1>1, <1>3 DEF Definition
<1> QED
  BY <1>1, <1>2, <1>4, <1>5, <1>6 DEF ContextDefinitions

\* A system without users, and a table without contexts.
LEMMA Emptied ==
    ASSUME InputAssumption
    PROVE  /\ SystemOK(<<>>, [i \in Gamepads |-> Nobody]) /\ DOMAIN <<>> = {}
           /\ \A list \in Seq(Contexts), dirtied \in BOOLEAN : \A t :
                 t = [contexts |-> <<>>, recency |-> <<>>, ordered |-> list, dirty |-> dirtied]
                 => TableOK(t) /\ Known(t) = {} /\ t.dirty = dirtied /\ t.ordered = list
<1>1. PICK none, os : none = <<>> /\ os = [i \in Gamepads |-> Nobody]
  OBVIOUS
<1>2. DOMAIN none = {}
  BY <1>1
<1>3. none \in [{} -> [enabled : BOOLEAN, devices : SUBSET Devices]]
  BY <1>1
<1>4. {} \in SUBSET Users /\ {} \in SUBSET Contexts
  OBVIOUS
<1>5. none \in UserSystems
  BY <1>3, <1>4, IsUserSystem
<1>6. os \in [Gamepads -> Users \cup {Nobody}] /\ \A i \in Gamepads : os[i] = Nobody
  BY <1>1
<1>7. SystemOK(none, os)
  BY <1>2, <1>5, <1>6 DEF SystemOK
<1>8. none \in [{} -> ContextRecords] /\ none \in Seq(Contexts)
  BY <1>1, EmptySeq
<1>9. HasNoRepeats(none) /\ Elements(none) = {}
  <2>1. Len(none) = 0 /\ 1..0 = {}
    BY <1>1, EmptySeq
  <2> QED
    BY <2>1 DEF HasNoRepeats, Elements
<1>10. ASSUME NEW list \in Seq(Contexts), NEW dirtied \in BOOLEAN, NEW t,
              t = [contexts |-> none, recency |-> none, ordered |-> list, dirty |-> dirtied]
       PROVE  TableOK(t) /\ Known(t) = {} /\ t.dirty = dirtied /\ t.ordered = list
  <2>1. t.contexts = none /\ t.recency = none /\ t.ordered = list /\ t.dirty = dirtied
    BY <1>10
  <2>2. Known(t) = {}
    BY <1>2, <2>1 DEF Known
  <2>3. t \in Tables
    BY <1>4, <1>8, <1>10 DEF Tables
  <2> QED
    BY <1>9, <2>1, <2>2, <2>3 DEF TableOK
<1> QED
  BY <1>1, <1>2, <1>7, <1>10

\* restoreSnapshot: the users first, then the contexts that they play.
LEMMA RestoreSnapshotHolds ==
    ASSUME InputAssumption, InputInv, NEW merge \in BOOLEAN, RestoreSnapshot(merge)
    PROVE  InputInv'
<1>1. PICK order, list, defs, us, os, base :
         /\ order = SetToSeq(DOMAIN saved.users)
         /\ list = [n \in 1..Len(order) |-> UserDefinition(order[n])]
         /\ defs = [n \in 1..Len(saved.contexts) |-> Definition(saved.contexts[n])]
         /\ us = (IF merge THEN users ELSE <<>>)
         /\ os = (IF merge THEN owners ELSE [i \in Gamepads |-> Nobody])
         /\ base = IF merge THEN table ELSE
                     [contexts |-> <<>>, recency |-> <<>>, ordered |-> table.ordered, dirty |-> TRUE]
  OBVIOUS
<1>2. /\ Configures /\ saved # NoSnapshot
      /\ users' = upsertedUsers(us, os, list).users /\ owners' = upsertedUsers(us, os, list).owners
      /\ table' = upsertedContexts(base, defs)
      /\ reconfigured' = TRUE /\ rebinding' = rebindingChanged(rebinding) /\ saved' = saved
  BY <1>1 DEF RestoreSnapshot, SystemIs, ChangesBindings
<1>3. /\ TableOK(table) /\ SystemOK(users, owners) /\ Played(table, users) /\ RebindingOK(rebinding)
      /\ SnapshotOK(saved) /\ ~inputGone /\ Orderly(table) /\ MaxSessions \in Nat
  BY <1>2 DEF InputInv, CoreOK, Configures, InputAssumption
<1>4. /\ saved.users \in UserSystems /\ saved.contexts \in Seq(SavedContexts)
      /\ \A n \in 1..Len(saved.contexts) :
            saved.contexts[n].context.user \in DOMAIN saved.users \cup {Nobody}
  BY <1>2, <1>3 DEF SnapshotOK
<1>5. PICK U, m, k : U = DOMAIN saved.users /\ m = Len(order) /\ k = Len(saved.contexts)
  OBVIOUS
<1>6. U \in SUBSET Users /\ \A u \in U : /\ saved.users[u].enabled \in BOOLEAN
                                       /\ saved.users[u].devices \in SUBSET Devices
  BY <1>4, <1>5, UsersFields
<1>7. m \in Nat /\ (\A n \in 1..m : order[n] \in U) /\ \A u \in U : \E n \in 1..m : order[n] = u
  <2>1. IsFiniteSet(U)
    BY <1>6, FS_Subset DEF InputAssumption
  <2>2. /\ order \in Seq(U) /\ m = Cardinality(U) /\ m \in Nat
        /\ \A u \in U : \E n \in 1..m : order[n] = u
    BY <1>1, <1>5, <2>1, SetInOrder
  <2> QED
    BY <1>5, <2>2, ElementOfSeq
<1>8. /\ list \in Seq(DefinitionsOfUsers) /\ Len(list) = m
      /\ \A n \in 1..m : list[n].id = order[n]
  <2>1. \A n \in 1..m : list[n] \in DefinitionsOfUsers /\ list[n].id = order[n]
    BY <1>1, <1>5, <1>6, <1>7 DEF UserDefinition, DefinitionsOfUsers
  <2>2. DOMAIN list = 1..m /\ list = [n \in 1..m |-> list[n]]
    BY <1>1, <1>5
  <2>3. list \in [1..m -> DefinitionsOfUsers]
    BY <2>1, <2>2
  <2>4. list \in Seq(DefinitionsOfUsers)
    BY <1>7, <2>3, SeqDef
  <2>5. Len(list) = m
    BY <1>7, <2>2, <2>4, LenProperties
  <2> QED
    BY <2>1, <2>4, <2>5
<1>9. SystemOK(us, os) /\ TableOK(base) /\ Orderly(base) /\ Played(base, us)
  <2>1. CASE merge
    BY <1>1, <1>3, <2>1
  <2>2. CASE ~merge
    <3>1. us = <<>> /\ os = [i \in Gamepads |-> Nobody]
      BY <1>1, <2>2
    <3>2. PICK yes \in BOOLEAN : yes = TRUE
      OBVIOUS
    <3>3. PICK old \in Seq(Contexts) : old = table.ordered
      BY <1>3, TableFields DEF TableOK
    <3>4. base = [contexts |-> <<>>, recency |-> <<>>, ordered |-> old, dirty |-> yes]
      BY <1>1, <2>2, <3>2, <3>3
    <3>5. TableOK(base) /\ Known(base) = {} /\ base.dirty = yes
      BY <3>4, Emptied
    <3>6. SystemOK(us, os)
      BY <3>1, Emptied
    <3> QED
      BY <3>2, <3>5, <3>6 DEF Orderly, Played
  <2> QED
    BY <2>1, <2>2
<1>10. /\ SystemOK(users', owners') /\ DOMAIN us \subseteq DOMAIN users'
       /\ \A n \in 1..m : list[n].id \in DOMAIN users'
  BY <1>2, <1>8, <1>9, UpsertedUsersIs
<1>11. U \subseteq DOMAIN users'
  BY <1>7, <1>8, <1>10
<1>12. Played(base, users')
  BY <1>9, <1>10 DEF Played
<1>13. /\ defs \in Seq(ContextDefinitions) /\ Len(defs) = k
       /\ \A n \in 1..k : defs[n].user \in DOMAIN users' \cup {Nobody}
  <2>1. k \in Nat /\ \A n \in 1..k : saved.contexts[n] \in SavedContexts
    BY <1>4, <1>5, LenProperties, ElementOfSeq
  <2>2. \A n \in 1..k : defs[n] = Definition(saved.contexts[n])
    BY <1>1, <1>5
  <2>3. \A n \in 1..k : /\ defs[n] \in ContextDefinitions
                        /\ defs[n].user = saved.contexts[n].context.user
    <3> TAKE n \in 1..k
    <3>1. PICK s \in SavedContexts : s = saved.contexts[n]
      BY <2>1
    <3>2. Definition(s) \in ContextDefinitions /\ Definition(s).user = s.context.user
      BY DefinitionIs
    <3> QED
      BY <2>2, <3>1, <3>2
  <2>4. DOMAIN defs = 1..k /\ defs = [n \in 1..k |-> defs[n]]
    BY <1>1, <1>5
  <2>5. defs \in [1..k -> ContextDefinitions]
    BY <2>3, <2>4
  <2>6. defs \in Seq(ContextDefinitions)
    BY <2>1, <2>5, SeqDef
  <2>7. Len(defs) = k
    BY <2>1, <2>4, <2>6, LenProperties
  <2>8. \A n \in 1..k : defs[n].user \in DOMAIN users' \cup {Nobody}
    BY <1>4, <1>5, <1>11, <2>3
  <2> QED
    BY <2>6, <2>7, <2>8
<1>14. TableOK(table') /\ Orderly(table') /\ Played(table', users')
  <2>1. \A n \in 1..Len(defs) : defs[n].user \in DOMAIN users' \cup {Nobody}
    BY <1>13
  <2> QED
    BY <1>2, <1>9, <1>12, <1>13, <2>1, UpsertedContextsIs
<1>15. /\ RebindingOK(rebinding') /\ SessionTarget(table', rebinding')
       /\ Grows(rebinding, rebinding')
  BY <1>2, <1>3, ChangedIs
<1>16. CoreOK(table', users', owners', rebinding')
  BY <1>10, <1>14, <1>15 DEF CoreOK
<1> QED
  BY <1>2, <1>3, <1>14, <1>15, <1>16, ConfiguresHolds

\* A step that leaves the configuration.
LEMMA IdleHolds ==
    ASSUME InputAssumption, InputInv,
           UNCHANGED <<table, users, owners, rebinding, button>>,
           UNCHANGED <<reconfigured, saved, configured, inputGone>>,
           AskedOK(asked', rebinding), updating' \in BOOLEAN,
           taps' = {}, down' \in SUBSET Controls, pads' \in SUBSET PadControls
    PROVE  InputInv'
<1>1. /\ table' = table /\ users' = users /\ owners' = owners /\ rebinding' = rebinding
      /\ button' = button /\ reconfigured' = reconfigured /\ saved' = saved
      /\ configured' = configured /\ inputGone' = inputGone
  OBVIOUS
<1>2. /\ CoreOK(table', users', owners', rebinding') /\ SnapshotOK(saved')
      /\ ~inputGone' => Orderly(table')
      /\ inputGone' \in BOOLEAN /\ reconfigured' \in BOOLEAN /\ configured' \in 0..MaxConfigured
  BY <1>1 DEF InputInv
<1>3. SameBindings(table, table')
  BY <1>1, SameItself
<1>4. AskedOK(asked', rebinding')
  BY <1>1
<1> QED
  BY <1>1, <1>2, <1>3, <1>4, QuietHolds

\* What the gamepads have down is down once they are polled.
LEMMA PolledIs ==
    ASSUME InputInv
    PROVE  Polled \in SUBSET Controls
BY DEF Polled, InputInv, PadControls

\* What an event leaves.
LEMMA DispatchesIs ==
    ASSUME InputInv, Dispatches
    PROVE  /\ UNCHANGED <<table, users, owners, rebinding, button>>
           /\ UNCHANGED <<reconfigured, saved, configured, inputGone>>
           /\ taps' = {} /\ updating' \in BOOLEAN
           /\ RebindingOK(rebinding) /\ AskedOK(NotAsked, rebinding)
BY DEF Dispatches, InputInv, CoreOK, AskedOK

\* keydown and its like, which the accept handler may be asked about.
LEMMA PressHolds ==
    ASSUME InputAssumption, InputInv, NEW k, NEW repeat, Press(k, repeat)
    PROVE  InputInv'
<1>1. /\ Dispatches /\ k \in Controls /\ down' = down \cup {k} /\ pads' = pads
      /\ Asks(rebinding, IF repeat THEN {} ELSE {k})
  BY DEF Press
<1>2. PICK ks \in SUBSET Controls : ks = IF repeat THEN {} ELSE {k}
  BY <1>1
<1>3. AskedOK(asked', rebinding)
  BY <1>1, <1>2, DispatchesIs, AsksAre
<1>4. down' \in SUBSET Controls /\ pads' \in SUBSET PadControls
  BY <1>1 DEF InputInv
<1> QED
  BY <1>1, <1>3, <1>4, DispatchesIs, IdleHolds

\* keyup and its like, and the loss of the focus.
LEMMA ReleaseHolds ==
    ASSUME InputAssumption, InputInv, NEW k, Release(k) \/ FocusLost
    PROVE  InputInv'
<1>1. /\ Dispatches /\ asked = NotAsked /\ asked' = asked
      /\ pads' = pads /\ (down' = down \ {k} \/ down' = {})
  BY DEF Release, FocusLost, Dispatches, Undisturbed
<1>2. down' \in SUBSET Controls /\ pads' \in SUBSET PadControls
  BY <1>1 DEF InputInv
<1>3. AskedOK(asked', rebinding)
  BY <1>1, DispatchesIs
<1> QED
  BY <1>1, <1>2, <1>3, DispatchesIs, IdleHolds

\* A gamepad that moves changes what the next poll reads.
LEMMA PadMovesHolds ==
    ASSUME InputAssumption, InputInv, NEW k, PadMoves(k)
    PROVE  InputInv'
<1>1. /\ Dispatches /\ asked = NotAsked /\ asked' = asked /\ down' = down
      /\ k \in PadControls /\ (pads' = pads \ {k} \/ pads' = pads \cup {k})
  BY DEF PadMoves, Dispatches, Undisturbed
<1>2. down' \in SUBSET Controls /\ pads' \in SUBSET PadControls
  BY <1>1 DEF InputInv
<1>3. AskedOK(asked', rebinding)
  BY <1>1, DispatchesIs
<1> QED
  BY <1>1, <1>2, <1>3, DispatchesIs, IdleHolds

\* gamepadconnected and gamepaddisconnected poll, and the handler may be asked.
LEMMA GamepadEventHolds ==
    ASSUME InputAssumption, InputInv, GamepadEvent
    PROVE  InputInv'
<1>1. Dispatches /\ down' = Polled /\ pads' = pads /\ Asks(rebinding, pads)
  BY DEF GamepadEvent
<1>2. pads \in SUBSET PadControls /\ pads \in SUBSET Controls
  BY DEF InputInv, PadControls
<1>3. AskedOK(asked', rebinding)
  BY <1>1, <1>2, DispatchesIs, AsksAre
<1>4. down' \in SUBSET Controls /\ pads' \in SUBSET PadControls
  BY <1>1, <1>2, PolledIs
<1> QED
  BY <1>1, <1>3, <1>4, DispatchesIs, IdleHolds

\* The handler agrees: its control is bound, whatever it did before.
LEMMA AcceptHolds ==
    ASSUME InputAssumption, InputInv, Accept
    PROVE  InputInv'
<1>1. PICK r : r = asked.session.request
  OBVIOUS
<1>2. /\ asked # NotAsked /\ asked' = NotAsked /\ taps' = {}
      /\ updating' = (updating /\ Resolves(table, r))
      /\ users' = users /\ owners' = owners /\ down' = down /\ pads' = pads /\ button' = button
      /\ saved' = saved /\ configured' = configured /\ inputGone' = inputGone
  BY <1>1 DEF Accept
<1>3. \/ /\ Resolves(table, r) /\ table' = Bound(table, r, asked.control)
         /\ rebinding' = concluded(rebinding, asked.session) /\ reconfigured' = TRUE
      \/ /\ ~Resolves(table, r)
         /\ table' = IF r.context \in Known(table) THEN requireContextAction(table, r.context, r.action)
                     ELSE table
         /\ rebinding' = rebinding /\ reconfigured' = reconfigured
  BY <1>1 DEF Accept
<1>4. /\ CoreOK(table, users, owners, rebinding) /\ SnapshotOK(saved) /\ (~inputGone => Orderly(table))
      /\ reconfigured \in BOOLEAN /\ configured \in 0..MaxConfigured /\ inputGone \in BOOLEAN
      /\ down \subseteq Controls /\ pads \subseteq PadControls /\ AskedOK(asked, rebinding)
      /\ updating \in BOOLEAN
  BY DEF InputInv
<1>5. /\ r \in Targets /\ r.action \in Actions /\ asked.control \in Controls /\ MaxSessions \in Nat
      /\ TableOK(table) /\ RebindingOK(rebinding) /\ Played(table, users)
      /\ SessionTarget(table, rebinding)
  BY <1>1, <1>2, <1>4 DEF InputAssumption, AskedOK, Sessions, CoreOK, Targets
<1>6. /\ TableOK(table') /\ SameUsers(table, table') /\ SameOrder(table, table')
      /\ RebindingOK(rebinding') /\ SessionTarget(table', rebinding') /\ reconfigured' \in BOOLEAN
      /\ ~reconfigured' => ~reconfigured /\ SameBindings(table, table')
  <2>1. CASE Resolves(table, r)
    <3>1. TableOK(table') /\ SameUsers(table, table') /\ SameOrder(table, table')
      BY <1>3, <1>5, <2>1, BoundIs
    <3>2. RebindingOK(rebinding') /\ rebinding'.session = NoSession
      BY <1>2, <1>3, <1>4, <1>5, <2>1, ConcludedIs
    <3> QED
      BY <1>3, <2>1, <3>1, <3>2 DEF SessionTarget
  <2>2. CASE ~Resolves(table, r)
    <3>1. TableOK(table') /\ SameBindings(table, table') /\ SameOrder(table, table')
      BY <1>3, <1>5, <2>2, RequireIs, SameItself
    <3>2. Known(table') = Known(table)
      BY <3>1 DEF SameOrder
    <3>3. SessionTarget(table', rebinding)
      BY <1>5, <3>1, <3>2, TargetStays
    <3> QED
      BY <1>3, <1>4, <1>5, <2>2, <3>1, <3>3, BindingsUsers
  <2> QED
    BY <2>1, <2>2
<1>7. Played(table', users) /\ (~inputGone' => Orderly(table'))
  BY <1>2, <1>4, <1>5, <1>6, PlayedStays, SortedSame
<1>8. CoreOK(table', users', owners', rebinding')
  BY <1>2, <1>4, <1>6, <1>7 DEF CoreOK
<1>9. AskedOK(asked', rebinding') /\ updating' \in BOOLEAN
  BY <1>2, <1>4 DEF AskedOK
<1>10. /\ inputGone' \in BOOLEAN /\ SnapshotOK(saved') /\ configured' \in 0..MaxConfigured
       /\ down' \subseteq Controls /\ pads' \subseteq PadControls
  BY <1>2, <1>4
<1> QED
  BY <1>2, <1>6, <1>7, <1>8, <1>9, <1>10, QuietHolds

\* The handler refuses.
LEMMA RefuseHolds ==
    ASSUME InputAssumption, InputInv, Refuse
    PROVE  InputInv'
<1>1. /\ asked' = NotAsked /\ taps' = {}
      /\ UNCHANGED <<table, users, owners, rebinding, button>>
      /\ UNCHANGED <<reconfigured, saved, configured, inputGone>>
      /\ updating' = updating /\ down' = down /\ pads' = pads
  BY DEF Refuse, configVars
<1>2. /\ AskedOK(asked', rebinding) /\ updating' \in BOOLEAN /\ down' \in SUBSET Controls
      /\ pads' \in SUBSET PadControls
  BY <1>1 DEF InputInv, AskedOK
<1> QED
  BY <1>1, <1>2, IdleHolds

\* dispose ends the session and, when its handler does not throw, forgets the rest.
LEMMA DisposeInputHolds ==
    ASSUME InputAssumption, InputInv, NEW throws, DisposeInput(throws)
    PROVE  InputInv'
<1>1. /\ inputGone' = TRUE /\ taps' = {} /\ rebinding' = cancelled(rebinding, "disposed", NoSession)
      /\ pads' = pads /\ button' = button /\ reconfigured' = reconfigured /\ saved' = saved
      /\ configured' = configured /\ asked' = asked /\ updating' = updating
      /\ \/ table' = table /\ users' = users /\ owners' = owners /\ down' = down
         \/ /\ table' = [table EXCEPT !.contexts = <<>>, !.recency = <<>>]
            /\ users' = <<>> /\ owners' = [i \in Gamepads |-> Nobody] /\ down' = {}
  BY DEF DisposeInput, askedVars
<1>2. /\ CoreOK(table, users, owners, rebinding) /\ SnapshotOK(saved) /\ MaxSessions \in Nat
      /\ reconfigured \in BOOLEAN /\ down \subseteq Controls /\ pads \subseteq PadControls
      /\ configured \in 0..MaxConfigured /\ ButtonsOK(button)
      /\ HeldAll(reconfigured, table, users, owners, button)
      /\ AskedOK(asked, rebinding) /\ updating \in BOOLEAN
  BY DEF InputInv, InputAssumption
<1>3. RebindingOK(rebinding') /\ rebinding'.session = NoSession /\ Grows(rebinding, rebinding')
  <2>1. "disposed" \in Reasons /\ ~("disposed" = "manual")
    BY DEF Reasons
  <2>2. PICK again : again = NoSession
    OBVIOUS
  <2>3. rebinding' = cancelled(rebinding, "disposed", again) /\ RebindingOK(rebinding)
    BY <1>1, <1>2, <2>2 DEF CoreOK
  <2>4. /\ RebindingOK(rebinding') /\ Grows(rebinding, rebinding')
        /\ rebinding.session = NoSession => rebinding' = rebinding
        /\ rebinding.session # NoSession /\ again = NoSession => rebinding'.session = NoSession
    BY <1>2, <2>1, <2>2, <2>3, CancelledIs
  <2> QED
    BY <2>2, <2>4
<1>4. \A t : SessionTarget(t, rebinding')
  BY <1>3 DEF SessionTarget
<1>5. /\ TableOK(table') /\ SystemOK(users', owners') /\ Played(table', users')
      /\ HeldAll(reconfigured', table', users', owners', button') /\ down' \subseteq Controls
  <2>1. CASE table' = table /\ users' = users /\ owners' = owners /\ down' = down
    BY <1>1, <1>2, <2>1 DEF CoreOK
  <2>2. CASE /\ table' = [table EXCEPT !.contexts = <<>>, !.recency = <<>>]
             /\ users' = <<>> /\ owners' = [i \in Gamepads |-> Nobody] /\ down' = {}
    <3>1. table \in Tables
      BY <1>2 DEF CoreOK, TableOK
    <3>2. PICK list \in Seq(Contexts), dirtied \in BOOLEAN : list = table.ordered /\ dirtied = table.dirty
      BY <3>1, TableFields
    <3>3. table = [contexts |-> table.contexts, recency |-> table.recency,
                     ordered |-> list, dirty |-> dirtied]
      BY <3>1, <3>2, TableFields
    <3>4. table' = [contexts |-> <<>>, recency |-> <<>>, ordered |-> list, dirty |-> dirtied]
      <4>1. PICK none, t, g, q, u :
               /\ none = <<>> /\ t = table /\ g = table.contexts /\ q = table.recency
               /\ u = [t EXCEPT !.contexts = none, !.recency = none]
        OBVIOUS
      <4>2. t = [contexts |-> g, recency |-> q, ordered |-> list, dirty |-> dirtied]
        BY <3>3, <4>1
      <4>3. u = [contexts |-> none, recency |-> none, ordered |-> list, dirty |-> dirtied]
        <5>1. u = [t EXCEPT !.contexts = none, !.recency = none]
          BY <4>1
        <5> QED
          BY <4>2, <5>1
      <4>4. table' = u
        BY <2>2, <4>1
      <4> QED
        BY <4>1, <4>3, <4>4
    <3>5. TableOK(table') /\ Known(table') = {}
      BY <3>4, Emptied
    <3>6. SystemOK(users', owners')
      BY <2>2, Emptied
    <3>7. HeldAll(reconfigured', table', users', owners', button') /\ Played(table', users')
      BY <3>5 DEF HeldAll, HeldBy, Played
    <3> QED
      BY <2>2, <3>5, <3>6, <3>7
  <2> QED
    BY <1>1, <2>1, <2>2
<1>6. CoreOK(table', users', owners', rebinding')
  BY <1>3, <1>4, <1>5 DEF CoreOK
<1>7. TapsAreReleases'
  BY <1>1 DEF TapsAreReleases
<1>8. /\ SnapshotOK(saved') /\ reconfigured' \in BOOLEAN /\ ButtonsOK(button')
      /\ pads' \subseteq PadControls /\ configured' \in 0..MaxConfigured /\ inputGone' \in BOOLEAN
      /\ ~inputGone' => Orderly(table')
  BY <1>1, <1>2
<1>9. AskedOK(asked', rebinding') /\ updating' \in BOOLEAN
  <2>1. RebindingOK(rebinding) /\ AskedOK(asked', rebinding) /\ updating' \in BOOLEAN
    BY <1>1, <1>2 DEF CoreOK
  <2> QED
    BY <1>3, <2>1, AskedStays
<1> QED
  BY <1>5, <1>6, <1>7, <1>8, <1>9 DEF InputInv

\* A button that nothing holds back taps when its controls went up.
LEMMA TapIs ==
    ASSUME InputAssumption, NEW t, NEW us, NEW os, NEW dn, NEW a \in Actions, NEW b,
           b = button[a], b.context # Nowhere,
           HeldBy(t, us, os, b.context, a, b.held), ~interrupted(t, us, os, dn, a)
    PROVE  b.held \cap dn = {}
<1>1. PICK c : c = b.context
  OBVIOUS
<1>2. c \in Known(t) /\ Holding(t, us, os, dn, c, a) = {}
  BY <1>1 DEF interrupted
<1>3. ASSUME NEW k \in b.held, k \in dn PROVE FALSE
  <2>1. k \in ControlsOf(t, c, a) /\ Accessible(us, os, t.contexts[c].user, k)
    BY <1>1, <1>2, <1>3 DEF HeldBy
  <2>2. k \in Holding(t, us, os, dn, c, a)
    BY <1>1, <1>3, <2>1 DEF Holding, Reads
  <2> QED
    BY <1>2, <2>2
<1> QED
  BY <1>3

\* What is asked about in an update: the session that did not expire, or the
\* one that the handler of the expired session began.
LEMMA ExpiryHolds ==
    ASSUME InputAssumption, InputInv, NEW again, MayBegin(table, rebinding, again),
           NEW expires \in BOOLEAN, expires => rebinding.session # NoSession,
           again # NoSession => expires,
           NEW waiting, waiting = IF expires THEN cancelled(rebinding, "timeout", again) ELSE rebinding
    PROVE  /\ TableOK(entered(table, again)) /\ Played(entered(table, again), users)
           /\ SameBindings(table, entered(table, again)) /\ SameOrder(table, entered(table, again))
           /\ RebindingOK(waiting) /\ SessionTarget(entered(table, again), waiting)
<1>1. /\ TableOK(table) /\ Played(table, users) /\ RebindingOK(rebinding)
      /\ SessionTarget(table, rebinding)
  BY DEF InputInv, CoreOK
<1>2. CASE expires
  <2>1. waiting = cancelled(rebinding, "timeout", again) /\ rebinding.session # NoSession
    BY <1>2
  <2>2. "timeout" \in Reasons /\ ~("timeout" = "manual")
    BY DEF Reasons
  <2> QED
    BY <1>1, <2>1, <2>2, CancelHolds
<1>3. CASE ~expires
  <2>1. again = NoSession /\ waiting = rebinding
    BY <1>3
  <2>2. entered(table, again) = table
    BY <2>1 DEF entered
  <2> QED
    BY <1>1, <2>1, <2>2, SameItself
<1> QED
  BY <1>2, <1>3

\* One frame: what is held is what the bindings of the ordered contexts say,
\* and an action that taps had its controls released.
LEMMA EvaluatesHolds ==
    ASSUME InputAssumption, InputInv, NEW u, NEW dn \in SUBSET Controls, NEW quick \in SUBSET Actions,
           Evaluates(u, dn, quick), TableOK(u), Orderly(u), Played(u, users), SameBindings(table, u),
           RebindingOK(rebinding'), SessionTarget(u, rebinding'), AskedOK(asked', rebinding'),
           updating' \in BOOLEAN, down' = dn, users' = users, owners' = owners, pads' = pads,
           saved' = saved, configured' = configured, inputGone' = inputGone
    PROVE  InputInv'
<1>1. PICK t : t = table'
  OBVIOUS
<1>2. /\ t = getOrderedContexts(u) /\ reconfigured' = FALSE
      /\ button' = committed(t, users, owners, dn)
      /\ \A tap \in taps' : \E a \in Tapped(t, users, owners, dn, button', quick) :
            tap.held = button[a].held /\ tap.excused = reconfigured
  <2>1. LET w == getOrderedContexts(u)
            next == committed(w, users, owners, dn)
        IN  /\ table' = w /\ button' = next /\ reconfigured' = FALSE
            /\ taps' = {[action |-> a, held |-> button[a].held, excused |-> reconfigured] :
                           a \in Tapped(w, users, owners, dn, next, quick)}
    BY DEF Evaluates
  <2> QED
    BY <1>1, <2>1
<1>3. /\ SystemOK(users, owners) /\ SnapshotOK(saved) /\ reconfigured \in BOOLEAN
      /\ pads \subseteq PadControls /\ configured \in 0..MaxConfigured /\ inputGone \in BOOLEAN
      /\ HeldAll(reconfigured, table, users, owners, button) /\ ButtonsOK(button)
  BY DEF InputInv, CoreOK
<1>4. TableOK(t) /\ Orderly(t) /\ t.contexts = u.contexts /\ Elements(t.ordered) = Known(u)
  BY <1>2, OrderedIs
<1>5. Known(t) = Known(u) /\ SameBindings(u, t)
  BY <1>4, SameContexts
<1>6. Played(t, users) /\ SessionTarget(t, rebinding')
  <2>1. Played(t, users)
    BY <1>5, BindingsUsers, PlayedStays
  <2> QED
    BY <1>5, <2>1, TargetStays
<1>7. CoreOK(table', users', owners', rebinding') /\ Orderly(table')
  BY <1>1, <1>3, <1>4, <1>6 DEF CoreOK
<1>8. /\ button' \in [Actions -> Buttons]
      /\ \A a \in Actions : /\ button'[a].value => button'[a].context # Nowhere
                            /\ HeldBy(t, users, owners, button'[a].context, a, button'[a].held)
  <2>1. Elements(t.ordered) = Known(t)
    BY <1>4, <1>5
  <2> QED
    BY <1>2, <1>4, <2>1, CommittedIs
<1>9. ButtonsOK(button') /\ HeldAll(reconfigured', table', users', owners', button')
  BY <1>1, <1>8 DEF ButtonsOK, HeldAll
<1>10. ASSUME NEW tap \in taps' PROVE tap.excused \/ tap.held \cap dn = {}
  <2>1. PICK a \in Tapped(t, users, owners, dn, button', quick) :
           tap.held = button[a].held /\ tap.excused = reconfigured
    BY <1>2
  <2> SUFFICES ASSUME ~reconfigured
               PROVE  tap.held \cap dn = {}
    BY <1>3, <2>1
  <2>2. a \in Actions /\ button[a].value /\ ~interrupted(t, users, owners, dn, a)
    BY DEF Tapped
  <2>3. SameBindings(table, t)
    BY <1>5, SameTrans
  <2>4. button[a].context # Nowhere
    BY <1>3, <2>2 DEF ButtonsOK
  <2>5. HeldBy(table, users, owners, button[a].context, a, button[a].held)
    BY <1>3, <2>2 DEF HeldAll
  <2>6. HeldBy(t, users, owners, button[a].context, a, button[a].held)
    BY <2>2, <2>3, <2>5, HeldStays
  <2>7. button[a].held \cap dn = {}
    BY <2>2, <2>4, <2>6, TapIs
  <2> QED
    BY <2>1, <2>7
<1>11. TapsAreReleases'
  BY <1>10 DEF TapsAreReleases
<1>12. /\ down' \subseteq Controls /\ pads' \subseteq PadControls /\ SnapshotOK(saved')
       /\ configured' \in 0..MaxConfigured /\ inputGone' \in BOOLEAN /\ reconfigured' \in BOOLEAN
  BY <1>2, <1>3
<1> QED
  BY <1>7, <1>9, <1>11, <1>12 DEF InputInv

\* An update evaluates, or waits for the handler that it asked.
LEMMA UpdateHolds ==
    ASSUME InputAssumption, InputInv, NEW expired \in BOOLEAN, NEW quick \in SUBSET Actions, NEW again,
           Update(expired, quick, again)
    PROVE  InputInv'
<1>1. PICK expires \in BOOLEAN :
         expires = (expired /\ rebinding.session # NoSession /\ rebinding.session.request.timed)
  OBVIOUS
<1>2. PICK waiting, u : /\ waiting = (IF expires THEN cancelled(rebinding, "timeout", again)
                                      ELSE rebinding)
                        /\ u = entered(table, again)
  OBVIOUS
<1>3. /\ ~inputGone /\ (again # NoSession => expires) /\ MayBegin(table, rebinding, again)
      /\ rebinding' = waiting /\ down' = Polled /\ Asks(waiting, pads)
      /\ updating' = (asked' # NotAsked)
      /\ \/ table' = u /\ taps' = {} /\ button' = button /\ reconfigured' = reconfigured
         \/ Evaluates(u, Polled, quick)
      /\ users' = users /\ owners' = owners /\ pads' = pads /\ saved' = saved
      /\ configured' = configured /\ inputGone' = inputGone
  BY <1>1, <1>2 DEF Update
<1>4. /\ TableOK(u) /\ Played(u, users) /\ SameBindings(table, u) /\ SameOrder(table, u)
      /\ RebindingOK(waiting) /\ SessionTarget(u, waiting)
  BY <1>1, <1>2, <1>3, ExpiryHolds
<1>5. /\ SystemOK(users, owners) /\ SnapshotOK(saved) /\ Orderly(table) /\ reconfigured \in BOOLEAN
      /\ pads \subseteq PadControls /\ configured \in 0..MaxConfigured /\ inputGone \in BOOLEAN
  BY <1>3 DEF InputInv, CoreOK
<1>6. Orderly(u)
  BY <1>4, <1>5, SortedSame
<1>7. AskedOK(asked', rebinding') /\ updating' \in BOOLEAN
  <2>1. pads \in SUBSET Controls
    BY <1>5 DEF PadControls
  <2> QED
    BY <1>3, <1>4, <2>1, AsksAre
<1>8. CASE table' = u /\ taps' = {} /\ button' = button /\ reconfigured' = reconfigured
  <2>1. CoreOK(table', users', owners', rebinding')
    BY <1>3, <1>4, <1>5, <1>8 DEF CoreOK
  <2>2. /\ down' \subseteq Controls /\ pads' \subseteq PadControls /\ SnapshotOK(saved')
        /\ configured' \in 0..MaxConfigured /\ inputGone' \in BOOLEAN
    BY <1>3, <1>5, PolledIs
  <2>3. SameBindings(table, table') /\ (~inputGone' => Orderly(table')) /\ reconfigured' \in BOOLEAN
    BY <1>4, <1>5, <1>6, <1>8
  <2> QED
    BY <1>3, <1>7, <1>8, <2>1, <2>2, <2>3, QuietHolds
<1>9. CASE Evaluates(u, Polled, quick)
  <2>1. PICK dn \in SUBSET Controls : dn = Polled
    BY PolledIs
  <2>2. Evaluates(u, dn, quick) /\ down' = dn
    BY <1>3, <1>9, <2>1
  <2>3. RebindingOK(rebinding') /\ SessionTarget(u, rebinding')
    BY <1>3, <1>4
  <2> QED
    BY <1>3, <1>4, <1>6, <1>7, <2>2, <2>3, EvaluatesHolds
<1> QED
  BY <1>3, <1>8, <1>9

\* It goes on when the handler answered.
LEMMA EvaluateHolds ==
    ASSUME InputAssumption, InputInv, NEW quick \in SUBSET Actions, Evaluate(quick)
    PROVE  InputInv'
<1>1. /\ asked = NotAsked /\ updating' = FALSE
      /\ \/ ~inputGone /\ Evaluates(table, down, quick)
         \/ inputGone /\ taps' = {} /\ table' = table /\ button' = button
            /\ reconfigured' = reconfigured
      /\ users' = users /\ owners' = owners /\ rebinding' = rebinding /\ asked' = asked
      /\ down' = down /\ pads' = pads /\ saved' = saved /\ configured' = configured
      /\ inputGone' = inputGone
  BY DEF Evaluate
<1>2. /\ CoreOK(table, users, owners, rebinding) /\ (~inputGone => Orderly(table))
      /\ down \in SUBSET Controls /\ pads \in SUBSET PadControls /\ AskedOK(asked, rebinding)
  BY DEF InputInv
<1>3. AskedOK(asked', rebinding') /\ updating' \in BOOLEAN
  BY <1>1, <1>2
<1>4. CASE ~inputGone /\ Evaluates(table, down, quick)
  <2>1. /\ TableOK(table) /\ Orderly(table) /\ Played(table, users) /\ SameBindings(table, table)
        /\ RebindingOK(rebinding') /\ SessionTarget(table, rebinding')
    BY <1>1, <1>2, <1>4, SameItself DEF CoreOK
  <2> QED
    BY <1>1, <1>2, <1>3, <1>4, <2>1, EvaluatesHolds
<1>5. CASE /\ inputGone /\ taps' = {} /\ table' = table /\ button' = button
           /\ reconfigured' = reconfigured
  <2>1. /\ UNCHANGED <<table, users, owners, rebinding, button>>
        /\ UNCHANGED <<reconfigured, saved, configured, inputGone>>
        /\ AskedOK(asked', rebinding) /\ taps' = {} /\ down' \in SUBSET Controls
        /\ pads' \in SUBSET PadControls
    BY <1>1, <1>2, <1>5
  <2> QED
    BY <1>3, <2>1, IdleHolds
<1> QED
  BY <1>1, <1>4, <1>5

\* The constructor: the users first, then the contexts that they play.
LEMMA InputInitHolds ==
    ASSUME InputAssumption, InputInit
    PROVE  InputInv
<1>1. PICK none, os, yes, empty :
         /\ none = <<>> /\ os = [i \in Gamepads |-> Nobody] /\ yes = TRUE /\ yes \in BOOLEAN
         /\ empty = [contexts |-> <<>>, recency |-> <<>>, ordered |-> none, dirty |-> yes]
  OBVIOUS
<1>2. /\ users = upsertedUsers(none, os, InitialUsers).users
      /\ owners = upsertedUsers(none, os, InitialUsers).owners
      /\ table = upsertedContexts(empty, InitialContexts)
  BY <1>1 DEF InputInit
<1>3. /\ InitialUsers \in Seq(DefinitionsOfUsers) /\ InitialContexts \in Seq(ContextDefinitions)
      /\ MaxSessions \in Nat /\ MaxConfigured \in Nat
      /\ \A n \in 1..Len(InitialContexts) :
            \/ InitialContexts[n].user = Nobody
            \/ \E m \in 1..Len(InitialUsers) : InitialUsers[m].id = InitialContexts[n].user
  BY DEF InputAssumption
<1>4. none \in Seq(Contexts)
  BY <1>1, EmptySeq
<1>5. SystemOK(none, os) /\ TableOK(empty) /\ Known(empty) = {} /\ empty.dirty = yes
  BY <1>1, <1>4, Emptied
<1>6. SystemOK(users, owners) /\ \A n \in 1..Len(InitialUsers) : InitialUsers[n].id \in DOMAIN users
  BY <1>2, <1>3, <1>5, UpsertedUsersIs
<1>7. \A n \in 1..Len(InitialContexts) : InitialContexts[n].user \in DOMAIN users \cup {Nobody}
  BY <1>3, <1>6
<1>8. Orderly(empty) /\ Played(empty, users)
  BY <1>1, <1>5 DEF Orderly, Played
<1>9. TableOK(table) /\ Orderly(table) /\ Played(table, users)
  BY <1>2, <1>3, <1>5, <1>7, <1>8, UpsertedContextsIs
<1>10. RebindingOK(rebinding) /\ SessionTarget(table, rebinding)
  <2>1. PICK s, told, gone, lost, q, b : /\ s = NoSession /\ told = <<>> /\ gone = {} /\ lost = {}
                                         /\ q = {} /\ b = 0
    OBVIOUS
  <2>2. rebinding = [session |-> s, begun |-> b, told |-> told, disposed |-> gone, lost |-> lost,
                     late |-> q]
    BY <2>1 DEF InputInit
  <2>3. /\ rebinding.session = NoSession /\ rebinding.begun = 0 /\ rebinding.told = told
        /\ rebinding.disposed = {} /\ rebinding.lost = {} /\ rebinding.late = {}
    BY <2>1, <2>2
  <2>4. told \in Seq(Seq(Reasons)) /\ Len(told) = 0
    BY <2>1, EmptySeq
  <2>5. s \in {NoSession} \cup Sessions /\ b \in 0..MaxSessions /\ gone \in SUBSET (1..MaxSessions)
        /\ lost \in SUBSET (1..b) /\ q \in SUBSET (1..b)
    BY <1>3, <2>1
  <2>6. rebinding \in Rebindings
    BY <1>3, <2>2, <2>4, <2>5, RebindingTyped
  <2>7. 1..0 = {}
    OBVIOUS
  <2> QED
    BY <2>3, <2>4, <2>6, <2>7 DEF RebindingOK, SessionTarget
<1>11. PICK no \in BOOLEAN : no = FALSE
  OBVIOUS
<1>12. \A a \in Actions : button[a] = [value |-> no, context |-> Nowhere, held |-> {}]
  BY <1>11 DEF InputInit
<1>13. button \in [Actions -> Buttons]
  <2>1. PICK b : b = [value |-> no, context |-> Nowhere, held |-> {}]
    OBVIOUS
  <2>2. b \in Buttons
    BY <1>11, <2>1 DEF Buttons
  <2>3. button = [a \in Actions |-> b]
    BY <1>11, <2>1 DEF InputInit
  <2> QED
    BY <2>2, <2>3
<1>14. ButtonsOK(button) /\ HeldAll(reconfigured, table, users, owners, button)
  BY <1>11, <1>12, <1>13 DEF ButtonsOK, HeldAll, HeldBy
<1>15. /\ down = {} /\ pads = {} /\ taps = {} /\ reconfigured = FALSE /\ saved = NoSnapshot
       /\ configured = 0 /\ inputGone = FALSE
  BY DEF InputInit
<1>16. TapsAreReleases /\ SnapshotOK(saved)
  BY <1>15 DEF TapsAreReleases, SnapshotOK
<1>17. /\ reconfigured \in BOOLEAN /\ down \subseteq Controls /\ pads \subseteq PadControls
       /\ configured \in 0..MaxConfigured /\ inputGone \in BOOLEAN
  <2>1. reconfigured = no /\ inputGone = no
    BY <1>11, <1>15
  <2>2. down \subseteq Controls /\ pads \subseteq PadControls
    BY <1>15
  <2>3. configured \in 0..MaxConfigured
    BY <1>3, <1>15
  <2> QED
    BY <2>1, <2>2, <2>3
<1>18. CoreOK(table, users, owners, rebinding)
  BY <1>6, <1>9, <1>10 DEF CoreOK
<1>19. AskedOK(asked, rebinding) /\ updating \in BOOLEAN
  <2>1. asked = NotAsked /\ updating = no
    BY <1>11 DEF InputInit
  <2> QED
    BY <2>1 DEF AskedOK
<1> QED
  BY <1>9, <1>14, <1>16, <1>17, <1>18, <1>19 DEF InputInv

\* Every step preserves the invariant.
LEMMA InputStepHolds ==
    ASSUME InputAssumption, InputInv, [InputNext]_inputVars
    PROVE  InputInv'
<1>1. CASE Configuring
  <2>1. ASSUME NEW def \in Definitions, UpsertContext(def) PROVE InputInv'
    BY <2>1, UpsertContextHolds
  <2>2. ASSUME NEW c \in Contexts, NEW again \in RebindingRequests \cup {NoSession},
               RemoveContext(c, again)
        PROVE InputInv'
    BY <2>2, RemoveContextHolds
  <2>3. ASSUME NEW c \in Contexts, ActivateContext(c) \/ DeactivateContext(c) PROVE InputInv'
    <3>1. PICK p \in Nat : p = 0
      OBVIOUS
    <3> QED
      BY <2>3, <3>1, SwitchHolds
  <2>4. ASSUME NEW c \in Contexts, NEW p \in ContextPriorities, SetContextPriority(c, p) PROVE InputInv'
    <3>1. p \in Nat
      BY DEF InputAssumption
    <3> QED
      BY <2>4, <3>1, SwitchHolds
  <2>5. ASSUME NEW c \in Contexts, NEW a \in Actions, NEW list \in Lists, ReplaceBindings(c, a, list)
        PROVE InputInv'
    BY <2>5, ReplaceBindingsHolds
  <2>6. ASSUME NEW c \in Contexts, NEW as, ResetBindings(c, as) PROVE InputInv'
    BY <2>6, ResetBindingsHolds
  <2>7. ASSUME NEW r \in RebindingRequests, NEW k \in Controls, Rebind(r, k) PROVE InputInv'
    BY <2>7, RebindHolds
  <2>8. ASSUME NEW r \in RebindingRequests, NEW again \in RebindingRequests \cup {NoSession},
               BeginRebinding(r, again)
        PROVE InputInv'
    BY <2>8, BeginRebindingHolds
  <2>9. ASSUME NEW def \in UserDefinitions, UpsertUser(def) PROVE InputInv'
    BY <2>9, UpsertUserHolds
  <2>10. ASSUME NEW u \in Users, RemoveUser(u) PROVE InputInv'
    BY <2>10, RemoveUserHolds
  <2>11. ASSUME NEW u \in Users, NEW enabled \in BOOLEAN, SetUserEnabled(u, enabled) PROVE InputInv'
    BY <2>11, SetUserEnabledHolds
  <2>12. ASSUME NEW u \in Users, NEW i \in Gamepads, AssignGamepad(u, i) PROVE InputInv'
    BY <2>12, AssignGamepadHolds
  <2>13. ASSUME NEW i \in Gamepads, ReleaseGamepad(i) PROVE InputInv'
    BY <2>13, ReleaseGamepadHolds
  <2>14. ASSUME NEW merge \in BOOLEAN, RestoreSnapshot(merge) PROVE InputInv'
    BY <2>14, RestoreSnapshotHolds
  <2> QED
    BY <1>1, <2>1, <2>2, <2>3, <2>4, <2>5, <2>6, <2>7, <2>8, <2>9, <2>10, <2>11, <2>12, <2>13,
       <2>14, SnapshotHolds DEF Configuring
<1>2. CASE Running
  <2>1. ASSUME NEW k \in Controls, NEW repeat \in BOOLEAN, Press(k, repeat) PROVE InputInv'
    BY <2>1, PressHolds
  <2>2. ASSUME NEW k, Release(k) \/ FocusLost PROVE InputInv'
    BY <2>2, ReleaseHolds
  <2>3. ASSUME NEW k \in Controls, PadMoves(k) PROVE InputInv'
    BY <2>3, PadMovesHolds
  <2>4. ASSUME NEW expired \in BOOLEAN, NEW quick \in {{}, Actions},
               NEW again \in RebindingRequests \cup {NoSession}, Update(expired, quick, again)
        PROVE InputInv'
    <3>1. quick \in SUBSET Actions
      OBVIOUS
    <3> QED
      BY <2>4, <3>1, UpdateHolds
  <2>5. ASSUME NEW n \in 1..MaxSessions, NEW again \in RebindingRequests \cup {NoSession},
               DisposeHandle(n, again)
        PROVE InputInv'
    BY <2>5, DisposeHandleHolds
  <2>6. ASSUME NEW throws \in BOOLEAN, DisposeInput(throws) PROVE InputInv'
    BY <2>6, DisposeInputHolds
  <2>7. ASSUME NEW quick \in {{}, Actions}, Evaluate(quick) PROVE InputInv'
    <3>1. quick \in SUBSET Actions
      OBVIOUS
    <3> QED
      BY <2>7, <3>1, EvaluateHolds
  <2> QED
    BY <1>2, <2>1, <2>2, <2>3, <2>4, <2>5, <2>6, <2>7, GamepadEventHolds, AcceptHolds, RefuseHolds
       DEF Running
<1>3. CASE UNCHANGED inputVars
  BY <1>3, Zenon DEF inputVars, configVars, askedVars, buttonVars, InputInv, TapsAreReleases, Polled
<1> QED
  BY <1>1, <1>2, <1>3 DEF InputNext

\* The invariant says what InputAgrees does, and more.
LEMMA InputInvAgrees ==
    ASSUME InputAssumption, InputInv
    PROVE  InputAgrees
<1>1. /\ TableOK(table) /\ SystemOK(users, owners) /\ Played(table, users) /\ RebindingOK(rebinding)
      /\ SessionTarget(table, rebinding) /\ (~inputGone => Orderly(table)) /\ ButtonsOK(button)
      /\ down \subseteq Controls /\ pads \subseteq PadControls /\ reconfigured \in BOOLEAN
      /\ configured \in 0..MaxConfigured /\ inputGone \in BOOLEAN
      /\ AskedOK(asked, rebinding) /\ updating \in BOOLEAN
  BY DEF InputInv, CoreOK
<1>2. /\ Known(table) \subseteq Contexts /\ \A c \in Known(table) : table.contexts[c] \in ContextRecords
  BY <1>1, TableFields DEF TableOK
<1>3. table.dirty \in BOOLEAN /\ table.recency \in Seq(Contexts) /\ table.ordered \in Seq(Contexts)
  BY <1>1, TableFields DEF TableOK
<1>4. \A u \in DOMAIN users : u \in Users /\ users[u] \in [enabled : BOOLEAN, devices : SUBSET Devices]
  BY <1>1, UsersFields DEF SystemOK
<1>5. /\ owners \in [Gamepads -> Users \cup {Nobody}]
      /\ \A u \in DOMAIN users, i \in Gamepads : i \in users[u].devices <=> owners[i] = u
      /\ \A i \in Gamepads : owners[i] \in DOMAIN users \cup {Nobody}
  BY <1>1 DEF SystemOK
<1>6. rebinding.begun \in 0..MaxSessions /\ DOMAIN rebinding.told = 1..rebinding.begun
  BY <1>1, RebindingFields, LenProperties
<1>7. button \in [Actions -> [value : BOOLEAN, context : Contexts \cup {Nowhere}, held : SUBSET Controls]]
  BY <1>1 DEF ButtonsOK, Buttons
<1>11. asked # NotAsked => asked.control \in Controls /\ asked.session.token \in 1..rebinding.begun
  BY <1>1 DEF AskedOK
<1>8. InputTypeOK
  BY <1>1, <1>2, <1>3, <1>4, <1>5, <1>6, <1>7, <1>11 DEF InputTypeOK
<1>9. SessionsAccounted
  BY <1>1 DEF RebindingOK, SessionTarget, SessionsAccounted, Active
<1>10. ~inputGone => OrderIsCurrent /\ OwnersAgree
  BY <1>1, <1>5 DEF Orderly, Played, OrderIsCurrent, OwnersAgree
<1> QED
  BY <1>8, <1>9, <1>10 DEF InputAgrees

\* It holds in every behaviour.
LEMMA InputHolds ==
    ASSUME InputAssumption
    PROVE  InputSpec => []InputInv
<1>1. InputInit => InputInv
  BY InputInitHolds
<1>2. InputInv /\ [InputNext]_inputVars => InputInv'
  BY InputStepHolds
<1> QED
  BY <1>1, <1>2, PTL DEF InputSpec

\* InputAgrees: however contexts, users, devices, sessions and their handlers
\* interleave, every session is told once how it ended, the order that frames
\* use is the current one, and a gamepad has one owner, who lists it.
THEOREM InputAlwaysAgrees ==
    ASSUME InputAssumption
    PROVE  InputSpec => []InputAgrees
<1>1. InputInv => InputAgrees
  BY InputInvAgrees
<1>2. InputSpec => []InputInv
  BY InputHolds
<1> QED
  BY <1>1, <1>2, PTL

\* TapsAreReleases: an action taps when its controls were released, never
\* because its context was switched off, outranked or robbed of a control.
THEOREM TapsAlwaysAreReleases ==
    ASSUME InputAssumption
    PROVE  InputSpec => []TapsAreReleases
<1>1. InputInv => TapsAreReleases
  BY DEF InputInv
<1>2. InputSpec => []InputInv
  BY InputHolds
<1> QED
  BY <1>1, <1>2, PTL
=============================================================================
