--------------------------- MODULE ServiceProofs ----------------------------
(***************************************************************************)
(* Proofs about the services that make callers wait: asynchronous          *)
(* singletons, the streaming of animations, the import pipeline and object *)
(* pools.  They share no state; each section is about the specification of *)
(* one of them.                                                            *)
(***************************************************************************)
EXTENDS AsyncSingleton, AnimationStreaming, ImportPipeline, MemoryPool, SubsequenceProofs,
        FiniteSetTheorems, SequenceTheorems, WellFoundedInduction, TLAPS

-----------------------------------------------------------------------------
(***************************************************************************)
(* A singleton has one initialisation at a time and its disposer sees a    *)
(* value once, for any number of callers, retries and lives.               *)
(*                                                                         *)
(* A disposal that had waited and went on in another life, or during       *)
(* another disposal, has displaced it, and of such a singleton nothing is  *)
(* claimed.  Of all others Alone holds, which ties each state of the       *)
(* singleton to the value, to the run under way and to the one disposal    *)
(* that calls the disposer.                                                *)
(***************************************************************************)

FailedOn(v) == \E d \in Disposers : disposing[d].value = v /\ disposing[d].stage = "failed"

OneRuns ==
    /\ \A r, q \in running : r = q
    /\ state = "initializing" <=> running # {}
    /\ state = "uninitialized" => promise = 0
    /\ \A r \in running : r.init = promise /\ r.init = begun
    /\ \A g \in Getters : getting[g].stage = "waiting" =>
          \E r \in running : r.init = getting[g].init
ValueIsKept ==
    /\ state \in {"resolved", "disposing"} <=> value # 0
    /\ value <= begun
OneDisposes ==
    /\ \A d \in Disposers : disposing[d].stage = "calling" =>
          /\ state = "disposing" /\ value = disposing[d].value
          /\ \A e \in Disposers : disposing[e].stage = "calling" => e = d
    /\ \A d \in shared : disposing[d].stage \notin {"none", "waiting"}
CallsAreCounted ==
    /\ \A v \in Inits : v > begun => calls[v] = 0
    /\ state = "initializing" => \A v \in Inits : v >= begun => calls[v] = 0
    /\ \A v \in Inits : calls[v] > 1 => FailedOn(v)
    /\ \A v \in Inits : state = "resolved" /\ value = v /\ calls[v] > 0 => FailedOn(v)
Alone == OneRuns /\ ValueIsKept /\ OneDisposes /\ CallsAreCounted

SingletonInv == SingletonTypeOK /\ (displaced \/ Alone)

----------------------------------------------------------------------------
(* Types                                                                   *)

RunTypes == [init : Inits, attempt : 1..RetryCount + 1, makes : BOOLEAN]
GetterTypes == [stage : {"none", "waiting", "got", "failed"}, init : 0..MaxInits]
DisposerTypes ==
    [stage : {"none", "waiting", "calling", "joined", "done", "failed"},
     waited : 0..MaxInits, value : 0..MaxInits]

\* What the updates of a caller's record leave of the others.
LEMMA GetterMoves ==
    ASSUME getting \in [Getters -> GetterTypes], NEW g \in Getters,
           NEW s \in {"none", "waiting", "got", "failed"},
           NEW f, f = [getting EXCEPT ![g].stage = s]
    PROVE  /\ f \in [Getters -> GetterTypes]
           /\ f[g].stage = s /\ \A k \in Getters \ {g} : f[k] = getting[k]
<1>1. f = [getting EXCEPT ![g] = [getting[g] EXCEPT !.stage = s]]
  OBVIOUS
<1>2. getting[g] \in GetterTypes
  OBVIOUS
<1>3. [getting[g] EXCEPT !.stage = s] \in GetterTypes /\ [getting[g] EXCEPT !.stage = s].stage = s
  BY <1>2 DEF GetterTypes
<1> QED
  BY <1>1, <1>3

LEMMA GettersAnswered ==
    ASSUME getting \in [Getters -> GetterTypes], NEW n, NEW s \in {"got", "failed"},
           NEW f, f = answered(n, s)
    PROVE  /\ f \in [Getters -> GetterTypes]
           /\ \A g \in Getters : f[g].stage = "waiting" =>
                 getting[g].stage = "waiting" /\ f[g].init = getting[g].init /\ f[g].init # n
<1>1. ASSUME NEW g \in Getters
      PROVE  /\ f[g] \in GetterTypes
             /\ f[g].stage = "waiting" =>
                   getting[g].stage = "waiting" /\ f[g].init = getting[g].init /\ f[g].init # n
  <2>1. getting[g] \in GetterTypes
    OBVIOUS
  <2>2. [getting[g] EXCEPT !.stage = s] \in GetterTypes /\ [getting[g] EXCEPT !.stage = s].stage = s
    BY <2>1 DEF GetterTypes
  <2>3. f[g] = IF getting[g].stage = "waiting" /\ getting[g].init = n
               THEN [getting[g] EXCEPT !.stage = s] ELSE getting[g]
    BY DEF answered
  <2> QED
    BY <2>1, <2>2, <2>3
<1>2. f = [g \in Getters |-> f[g]]
  BY DEF answered
<1> QED
  BY <1>1, <1>2

DisposerStages == {"none", "waiting", "calling", "joined", "done", "failed"}

LEMMA DisposerMoves ==
    ASSUME disposing \in [Disposers -> DisposerTypes], NEW d \in Disposers, NEW s \in DisposerStages,
           NEW f, f = [disposing EXCEPT ![d].stage = s]
    PROVE  /\ f \in [Disposers -> DisposerTypes]
           /\ f[d].stage = s /\ f[d].waited = disposing[d].waited /\ f[d].value = disposing[d].value
           /\ \A e \in Disposers \ {d} : f[e] = disposing[e]
<1>1. f[d] = [disposing[d] EXCEPT !.stage = s]
  OBVIOUS
<1> QED
  BY <1>1 DEF DisposerTypes, DisposerStages

LEMMA DisposerTakes ==
    ASSUME disposing \in [Disposers -> DisposerTypes], NEW d \in Disposers, NEW s \in DisposerStages,
           NEW v \in 0..MaxInits, NEW f, f = [disposing EXCEPT ![d].stage = s, ![d].value = v]
    PROVE  /\ f \in [Disposers -> DisposerTypes]
           /\ f[d].stage = s /\ f[d].waited = disposing[d].waited /\ f[d].value = v
           /\ \A e \in Disposers \ {d} : f[e] = disposing[e]
<1>1. f[d] = [[disposing[d] EXCEPT !.stage = s] EXCEPT !.value = v]
  OBVIOUS
<1>2. disposing[d] \in DisposerTypes
  OBVIOUS
<1> QED
  BY <1>1, <1>2 DEF DisposerTypes, DisposerStages

LEMMA DisposersSettled ==
    ASSUME disposing \in [Disposers -> DisposerTypes], NEW d \in Disposers,
           NEW s \in {"done", "failed"}, NEW f, f = settled(d, s)
    PROVE  /\ f \in [Disposers -> DisposerTypes]
           /\ f[d].stage = s
           /\ \A e \in Disposers :
                 /\ f[e].waited = disposing[e].waited /\ f[e].value = disposing[e].value
                 /\ f[e].stage = s \/ f[e].stage = disposing[e].stage
                 /\ f[e].stage = s \/ e # d
                 /\ disposing[e].stage # "joined" /\ e # d =>
                       f[e].stage = disposing[e].stage
<1>1. ASSUME NEW e \in Disposers
      PROVE  /\ f[e] \in DisposerTypes
             /\ f[e].waited = disposing[e].waited /\ f[e].value = disposing[e].value
             /\ f[e].stage = s \/ f[e].stage = disposing[e].stage
             /\ f[e].stage = s \/ e # d
             /\ disposing[e].stage # "joined" /\ e # d => f[e].stage = disposing[e].stage
  <2>1. disposing[e] \in DisposerTypes
    OBVIOUS
  <2>2. /\ [disposing[e] EXCEPT !.stage = s] \in DisposerTypes
        /\ [disposing[e] EXCEPT !.stage = s].stage = s
        /\ [disposing[e] EXCEPT !.stage = s].waited = disposing[e].waited
        /\ [disposing[e] EXCEPT !.stage = s].value = disposing[e].value
    BY <2>1 DEF DisposerTypes
  <2>3. f[e] = IF e = d \/ (shared = {d} /\ disposing[e].stage = "joined")
               THEN [disposing[e] EXCEPT !.stage = s] ELSE disposing[e]
    BY DEF settled
  <2> QED
    BY <2>1, <2>2, <2>3
<1>2. f = [e \in Disposers |-> f[e]]
  BY DEF settled
<1> QED
  BY <1>1, <1>2

LEMMA CalledOnce ==
    ASSUME calls \in [Inits -> Nat], NEW v \in Inits, NEW f, f = called(v)
    PROVE  /\ f \in [Inits -> Nat] /\ f[v] = calls[v] + 1
           /\ \A u \in Inits \ {v} : f[u] = calls[u]
BY DEF called

LEMMA TypesNamed ==
    SingletonTypeOK <=>
        /\ state \in States /\ value \in 0..MaxInits /\ factory \in BOOLEAN
        /\ promise \in 0..MaxInits /\ begun \in 0..MaxInits
        /\ running \subseteq RunTypes
        /\ getting \in [Getters -> GetterTypes]
        /\ disposing \in [Disposers -> DisposerTypes]
        /\ shared \subseteq Disposers
        /\ calls \in [Inits -> Nat] /\ displaced \in BOOLEAN
BY DEF SingletonTypeOK, RunTypes, GetterTypes, DisposerTypes

LEMMA GetTypes ==
    ASSUME SingletonTypeOK, NEW g \in Getters, GetInstance(g)
    PROVE  SingletonTypeOK'
<1>0. /\ UNCHANGED <<value, factory, disposing, shared, calls, displaced>>
      /\ getting \in [Getters -> GetterTypes]
  BY TypesNamed DEF GetInstance
<1>1. CASE getting' = [getting EXCEPT ![g].stage = "failed"] /\ UNCHANGED <<state, promise, begun, running>>
  <2>1. getting' \in [Getters -> GetterTypes]
    BY <1>0, <1>1, GetterMoves
  <2> QED
    BY <1>0, <1>1, <2>1 DEF SingletonTypeOK, GetterTypes
<1>2. CASE \E n \in {value, promise} : \E s \in {"got", "waiting"} :
             /\ getting' = [getting EXCEPT ![g] = [stage |-> s, init |-> n]]
             /\ UNCHANGED <<state, promise, begun, running>>
  <2>1. getting' \in [Getters -> GetterTypes]
    BY <1>0, <1>2 DEF GetterTypes, SingletonTypeOK
  <2> QED
    BY <1>0, <1>2, <2>1 DEF SingletonTypeOK, GetterTypes
<1>3. CASE initialize(g)
  <2>1. begun' \in 0..MaxInits /\ promise' \in 0..MaxInits /\ begun' \in Inits /\ begun' = begun + 1
    BY <1>3, SingletonAssumption DEF initialize, SingletonTypeOK, Inits
  <2>2. state' \in States
    BY <1>3 DEF initialize, States
  <2>3. running' \subseteq RunTypes
    BY <1>3, <2>1, SingletonAssumption DEF initialize, SingletonTypeOK, RunTypes
  <2>4. getting' \in [Getters -> GetterTypes]
    <3>1. CASE getting' = [getting EXCEPT ![g].stage = "failed"]
      BY <1>0, <3>1, GetterMoves
    <3>2. CASE getting' = [getting EXCEPT ![g] = [stage |-> "waiting", init |-> begun + 1]]
      BY <1>0, <2>1, <3>2 DEF GetterTypes
    <3> QED
      BY <1>3, <3>1, <3>2 DEF initialize
  <2> QED
    BY <1>0, <2>1, <2>2, <2>3, <2>4
    DEF SingletonTypeOK, RunTypes, GetterTypes, DisposerTypes
<1> QED
  BY <1>1, <1>2, <1>3 DEF GetInstance

LEMMA MakeTypes ==
    ASSUME SingletonTypeOK, NEW r \in running, FactoryMakes(r)
    PROVE  SingletonTypeOK'
<1>1. getting' \in [Getters -> GetterTypes]
  BY TypesNamed, GettersAnswered DEF FactoryMakes
<1>2. r.init \in Inits
  BY TypesNamed DEF RunTypes
<1> QED
  <2>1. value' \in 0..MaxInits /\ state' \in States
    BY <1>2, SingletonAssumption DEF FactoryMakes, States, Inits
  <2>3. factory' \in BOOLEAN
    BY DEF FactoryMakes
  <2>2. /\ running' \subseteq running
        /\ UNCHANGED <<promise, begun, disposing, shared, calls, displaced>>
    BY DEF FactoryMakes
  <2> QED
    BY <1>1, <2>1, <2>2, <2>3 DEF SingletonTypeOK, RunTypes, GetterTypes, DisposerTypes

LEMMA RetriedTypes ==
    ASSUME NEW r \in RunTypes, AttemptsLeft(r), factory \in BOOLEAN,
           NEW q, q = [r EXCEPT !.attempt = @ + 1, !.makes = factory]
    PROVE  q \in RunTypes /\ q.init = r.init
<1>1. r.attempt + 1 \in 1..RetryCount + 1
  BY SingletonAssumption DEF AttemptsLeft, RunTypes
<1> DEFINE more == [r EXCEPT !.attempt = @ + 1]
<1>2. more \in RunTypes /\ more.init = r.init
  BY <1>1 DEF RunTypes
<1>3. q = [more EXCEPT !.makes = factory]
  OBVIOUS
<1> HIDE DEF more
<1> QED
  BY <1>2, <1>3 DEF RunTypes

LEMMA FailTypes ==
    ASSUME SingletonTypeOK, NEW r \in running, FactoryFails(r)
    PROVE  SingletonTypeOK'
<1>0. r \in RunTypes
  BY TypesNamed
<1>1. getting' \in [Getters -> GetterTypes]
  BY TypesNamed, GettersAnswered DEF FactoryFails
<1>2. running' \subseteq RunTypes
  <2>1. CASE /\ AttemptsLeft(r)
             /\ running' = (running \ {r}) \cup {[r EXCEPT !.attempt = @ + 1, !.makes = factory]}
    <3> DEFINE q == [r EXCEPT !.attempt = @ + 1, !.makes = factory]
    <3>1. factory \in BOOLEAN
      BY TypesNamed
    <3>2. q \in RunTypes
      BY <1>0, <2>1, <3>1, RetriedTypes
    <3>3. running' = (running \ {r}) \cup {q}
      BY <2>1
    <3> HIDE DEF q
    <3> QED
      BY <3>2, <3>3, TypesNamed
  <2> QED
    BY <2>1, TypesNamed DEF FactoryFails
<1> QED
  <2>1. /\ state' \in States /\ promise' \in 0..MaxInits
        /\ UNCHANGED <<value, factory, begun, disposing, shared, calls, displaced>>
    BY TypesNamed, SingletonAssumption DEF FactoryFails, States
  <2> QED
    BY <1>1, <1>2, <2>1 DEF SingletonTypeOK, RunTypes, GetterTypes, DisposerTypes

LEMMA PerformTypes ==
    ASSUME SingletonTypeOK, NEW d \in Disposers, performAsyncDispose(d),
           UNCHANGED <<begun, running, getting>>, displaced' \in BOOLEAN
    PROVE  SingletonTypeOK'
<1>1. disposing' \in [Disposers -> DisposerTypes]
  <2>1. disposing \in [Disposers -> DisposerTypes] /\ value \in 0..MaxInits
        /\ disposing[d].waited \in 0..MaxInits /\ disposing[d].value \in 0..MaxInits
    BY TypesNamed DEF DisposerTypes
  <2>2. {"done", "calling", "failed"} \subseteq DisposerStages
    BY DEF DisposerStages
  <2>3. \/ disposing' = [disposing EXCEPT ![d].stage = "done"]
        \/ disposing' = [disposing EXCEPT ![d].stage = "calling", ![d].value = value]
        \/ disposing' = [disposing EXCEPT ![d].stage = "failed", ![d].value = value]
    BY DEF performAsyncDispose
  <2> QED
    BY <2>1, <2>2, <2>3, DisposerMoves, DisposerTakes
<1>2. calls' \in [Inits -> Nat]
  <2>1. CASE value # 0 /\ calls' = called(value)
    BY <2>1, TypesNamed, CalledOnce DEF Inits
  <2> QED
    BY <2>1, TypesNamed DEF performAsyncDispose
<1> QED
  BY <1>1, <1>2 DEF performAsyncDispose, finalizeDispose, States,
     SingletonTypeOK, RunTypes, GetterTypes, DisposerTypes

LEMMA JoinCopies ==
    ASSUME disposing \in [Disposers -> DisposerTypes], shared \subseteq Disposers, shared # {},
           NEW d \in Disposers, join(d)
    PROVE  \E s \in DisposerStages :
              /\ disposing' = [disposing EXCEPT ![d].stage = s]
              /\ \/ s = "joined"
                 \/ s # "calling" /\ \E e \in shared : s = disposing[e].stage
<1> DEFINE e == CHOOSE x \in shared : TRUE
<1>1. e \in shared
  OBVIOUS
<1> DEFINE s == IF disposing[e].stage = "calling" THEN "joined" ELSE disposing[e].stage
<1>2. disposing' = [disposing EXCEPT ![d].stage = s]
  BY DEF join
<1> HIDE DEF e
<1>3. s \in DisposerStages
  BY <1>1 DEF DisposerTypes, DisposerStages
<1>4. s = "joined" \/ (s # "calling" /\ s = disposing[e].stage)
  OBVIOUS
<1> HIDE DEF s
<1> QED
  BY <1>1, <1>2, <1>3, <1>4

LEMMA DisposeTypes ==
    ASSUME SingletonTypeOK, NEW d \in Disposers, DisposeAsync(d)
    PROVE  SingletonTypeOK'
<1>0. /\ disposing \in [Disposers -> DisposerTypes] /\ shared \subseteq Disposers
      /\ promise \in 0..MaxInits
      /\ disposing[d].waited \in 0..MaxInits /\ disposing[d].value \in 0..MaxInits
      /\ "done" \in DisposerStages /\ "waiting" \in DisposerStages
  BY TypesNamed DEF DisposerTypes, DisposerStages
<1>1. UNCHANGED <<begun, running, getting>> /\ displaced' \in BOOLEAN
  BY TypesNamed DEF DisposeAsync
<1>2. CASE performAsyncDispose(d)
  BY <1>1, <1>2, PerformTypes
<1>3. CASE /\ UNCHANGED <<state, value, factory, promise, shared, calls>>
           /\ disposing' \in [Disposers -> DisposerTypes]
  BY <1>1, <1>3 DEF SingletonTypeOK, DisposerTypes
<1>4. ASSUME join(d), shared # {}
      PROVE  disposing' \in [Disposers -> DisposerTypes]
  BY <1>0, <1>4, JoinCopies, DisposerMoves
<1>5. ASSUME disposing' = [disposing EXCEPT ![d].stage = "done"]
      PROVE  disposing' \in [Disposers -> DisposerTypes]
  BY <1>0, <1>5, DisposerMoves
<1>6. ASSUME disposing' = [disposing EXCEPT ![d] =
                              [stage |-> "waiting", waited |-> promise, value |-> 0]]
      PROVE  disposing' \in [Disposers -> DisposerTypes]
  BY <1>0, <1>6, SingletonAssumption DEF DisposerTypes
<1> QED
  BY <1>2, <1>3, <1>4, <1>5, <1>6 DEF DisposeAsync

LEMMA Finalized ==
    ASSUME finalizeDispose
    PROVE  /\ value' \in 0..MaxInits /\ factory' \in BOOLEAN /\ promise' \in 0..MaxInits
           /\ state' \in States
<1>1. factory' \in BOOLEAN
  BY DEF finalizeDispose
<1>2. value' \in 0..MaxInits /\ promise' \in 0..MaxInits /\ state' \in States
  BY SingletonAssumption DEF finalizeDispose, States
<1> QED
  BY <1>1, <1>2

LEMMA AnswerTypes ==
    ASSUME SingletonTypeOK, NEW d \in Disposers, DisposerAnswers(d)
    PROVE  SingletonTypeOK'
<1>1. disposing' \in [Disposers -> DisposerTypes]
  BY TypesNamed, DisposersSettled DEF DisposerAnswers
<1>2. shared' = {} /\ UNCHANGED <<begun, running, getting, calls, displaced>>
  BY DEF DisposerAnswers
<1>3. CASE finalizeDispose
  BY <1>1, <1>2, <1>3, Finalized DEF SingletonTypeOK, DisposerTypes
<1>4. CASE state' = "resolved" /\ UNCHANGED <<value, factory, promise>>
  BY <1>1, <1>2, <1>4 DEF States, SingletonTypeOK, DisposerTypes
<1> QED
  BY <1>3, <1>4 DEF DisposerAnswers

LEMMA NowTypes ==
    ASSUME SingletonTypeOK, DisposeNow
    PROVE  SingletonTypeOK'
<1>1. calls' \in [Inits -> Nat]
  BY TypesNamed, CalledOnce DEF DisposeNow, Inits
<1>2. UNCHANGED <<begun, running, getting, disposing, shared, displaced>>
  BY DEF DisposeNow
<1>3. CASE finalizeDispose
  BY <1>1, <1>2, <1>3, Finalized DEF SingletonTypeOK
<1>4. CASE state' = "disposing" /\ UNCHANGED <<value, factory, promise>>
  BY <1>1, <1>2, <1>4 DEF States, SingletonTypeOK
<1> QED
  BY <1>3, <1>4 DEF DisposeNow

LEMMA TypesKept == SingletonTypeOK /\ [SingletonNext]_singletonVars => SingletonTypeOK'
<1> SUFFICES ASSUME SingletonTypeOK, [SingletonNext]_singletonVars
             PROVE  SingletonTypeOK'
  OBVIOUS
<1>1. ASSUME NEW d \in Disposers, DisposerResumes(d)
      PROVE  SingletonTypeOK'
  <2>1. displaced' \in BOOLEAN
    BY <1>1 DEF DisposerResumes
  <2> QED
    BY <1>1, <2>1, PerformTypes DEF DisposerResumes
<1>2. CASE Reset
  BY <1>2, SingletonAssumption DEF Reset, States, SingletonTypeOK
<1>3. CASE UNCHANGED singletonVars
  BY <1>3 DEF singletonVars, SingletonTypeOK
<1> QED
  BY <1>1, <1>2, <1>3, GetTypes, MakeTypes, FailTypes, DisposeTypes, AnswerTypes, NowTypes
  DEF SingletonNext

----------------------------------------------------------------------------
(* What each step leaves of Alone                                          *)

LEMMA GetKeeps ==
    ASSUME SingletonTypeOK, Alone, NEW g \in Getters, GetInstance(g)
    PROVE  Alone'
<1>0. /\ UNCHANGED <<value, factory, disposing, shared, calls, displaced>>
      /\ getting \in [Getters -> GetterTypes] /\ running \subseteq RunTypes
      /\ begun \in 0..MaxInits
  BY TypesNamed DEF GetInstance
<1>1. ASSUME UNCHANGED <<state, promise, begun, running>>,
             \A k \in Getters : getting'[k].stage = "waiting" =>
                \E r \in running : r.init = getting'[k].init
      PROVE  Alone'
  BY <1>0, <1>1 DEF Alone, OneRuns, ValueIsKept, OneDisposes, CallsAreCounted, FailedOn
<1>2. \A k \in Getters : getting[k].stage = "waiting" => \E r \in running : r.init = getting[k].init
  BY DEF Alone, OneRuns
<1>3. CASE getting' = [getting EXCEPT ![g].stage = "failed"] /\ UNCHANGED <<state, promise, begun, running>>
  <2>1. getting'[g].stage = "failed" /\ \A k \in Getters \ {g} : getting'[k] = getting[k]
    BY <1>0, <1>3, GetterMoves
  <2> QED
    BY <1>1, <1>2, <1>3, <2>1
<1>4. CASE /\ getting' = [getting EXCEPT ![g] = [stage |-> "got", init |-> value]]
           /\ UNCHANGED <<state, promise, begun, running>>
  BY <1>0, <1>1, <1>2, <1>4
<1>5. CASE /\ state \notin {"disposed", "faulted"} /\ value = 0 /\ promise # 0
           /\ getting' = [getting EXCEPT ![g] = [stage |-> "waiting", init |-> promise]]
           /\ UNCHANGED <<state, promise, begun, running>>
  <2>1. state = "initializing"
    BY <1>5 DEF Alone, OneRuns, ValueIsKept, SingletonTypeOK, States
  <2>2. \E r \in running : r.init = promise
    BY <2>1 DEF Alone, OneRuns
  <2> QED
    BY <1>0, <1>1, <1>2, <1>5, <2>2
<1>6. CASE state \notin {"disposed", "faulted"} /\ value = 0 /\ promise = 0 /\ initialize(g)
  <2>1. running = {} /\ state # "initializing"
    <3>1. \A r \in running : r.init # 0
      BY <1>0 DEF RunTypes, Inits
    <3> QED
      BY <1>6, <3>1 DEF Alone, OneRuns
  <2>2. \A k \in Getters : getting[k].stage # "waiting"
    BY <1>2, <2>1
  <2>4. begun' = begun + 1 /\ promise' = begun + 1 /\ begun \in Nat
    BY <1>0, <1>6, SingletonAssumption DEF initialize
  <2>5. CASE /\ state' = "initializing"
             /\ running' = running \cup {[init |-> begun + 1, attempt |-> 1, makes |-> factory]}
             /\ getting' = [getting EXCEPT ![g] = [stage |-> "waiting", init |-> begun + 1]]
    <3>1. OneRuns'
      BY <1>0, <2>1, <2>2, <2>4, <2>5 DEF OneRuns
    <3>2. ValueIsKept' /\ OneDisposes'
      BY <1>0, <1>6, <2>1, <2>4, <2>5 DEF Alone, ValueIsKept, OneDisposes
    <3>3. CallsAreCounted'
      BY <1>0, <2>4, <2>5 DEF Alone, CallsAreCounted, FailedOn, Inits
    <3> QED
      BY <3>1, <3>2, <3>3 DEF Alone
  <2>6. CASE /\ state' = "faulted" /\ running' = running
             /\ getting' = [getting EXCEPT ![g].stage = "failed"]
    <3>0. getting'[g].stage = "failed" /\ \A k \in Getters \ {g} : getting'[k] = getting[k]
      BY <1>0, <2>6, GetterMoves
    <3>1. OneRuns'
      BY <2>1, <2>2, <2>6, <3>0 DEF OneRuns
    <3>2. ValueIsKept' /\ OneDisposes'
      BY <1>0, <1>6, <2>1, <2>4, <2>6 DEF Alone, ValueIsKept, OneDisposes
    <3>3. CallsAreCounted'
      BY <1>0, <2>4, <2>6 DEF Alone, CallsAreCounted, FailedOn, Inits
    <3> QED
      BY <3>1, <3>2, <3>3 DEF Alone
  <2> QED
    BY <1>6, <2>5, <2>6 DEF initialize
<1> QED
  BY <1>3, <1>4, <1>5, <1>6 DEF GetInstance, MayInitialize

LEMMA MakeKeeps ==
    ASSUME SingletonTypeOK, Alone, NEW r \in running, FactoryMakes(r)
    PROVE  Alone'
<1>0. /\ getting \in [Getters -> GetterTypes] /\ begun \in 0..MaxInits
      /\ r.init \in Inits /\ r.init = begun /\ running = {r} /\ state = "initializing"
  BY TypesNamed DEF RunTypes, Alone, OneRuns
<1>1. /\ UNCHANGED <<promise, begun, disposing, shared, calls, displaced>>
      /\ value' = begun /\ state' = "resolved" /\ running' = {}
  BY <1>0 DEF FactoryMakes
<1>2. \A g \in Getters : getting'[g].stage # "waiting"
  <2>1. \A g \in Getters : getting'[g].stage = "waiting" =>
           getting[g].stage = "waiting" /\ getting'[g].init = getting[g].init /\ getting'[g].init # begun
    BY <1>0, GettersAnswered DEF FactoryMakes
  <2>2. \A g \in Getters : getting[g].stage = "waiting" => getting[g].init = begun
    BY <1>0 DEF Alone, OneRuns
  <2> QED
    BY <2>1, <2>2
<1>3. OneRuns'
  BY <1>1, <1>2 DEF OneRuns
<1>4. ValueIsKept' /\ OneDisposes'
  BY <1>0, <1>1, SingletonAssumption DEF Alone, ValueIsKept, OneDisposes, Inits
<1>5. CallsAreCounted'
  BY <1>0, <1>1, SingletonAssumption DEF Alone, CallsAreCounted, FailedOn, Inits
<1> QED
  BY <1>3, <1>4, <1>5 DEF Alone

LEMMA FailKeeps ==
    ASSUME SingletonTypeOK, Alone, NEW r \in running, FactoryFails(r)
    PROVE  Alone'
<1>0. /\ getting \in [Getters -> GetterTypes] /\ begun \in 0..MaxInits /\ r \in RunTypes
      /\ r.init = begun /\ running = {r} /\ state = "initializing" /\ factory \in BOOLEAN
  BY TypesNamed DEF Alone, OneRuns
<1>1. UNCHANGED <<value, factory, begun, disposing, shared, calls, displaced>>
  BY DEF FactoryFails
<1>2. CASE /\ AttemptsLeft(r)
           /\ running' = (running \ {r}) \cup {[r EXCEPT !.attempt = @ + 1, !.makes = factory]}
           /\ UNCHANGED <<state, promise, getting>>
  <2> DEFINE q == [r EXCEPT !.attempt = @ + 1, !.makes = factory]
  <2>1. q.init = r.init
    BY <1>0, <1>2, RetriedTypes
  <2>2. running' = {q} /\ UNCHANGED <<state, promise, getting>>
    BY <1>0, <1>2
  <2> HIDE DEF q
  <2>3. OneRuns'
    BY <1>0, <1>1, <2>1, <2>2 DEF Alone, OneRuns
  <2>4. ValueIsKept' /\ OneDisposes' /\ CallsAreCounted'
    BY <1>1, <2>2 DEF Alone, ValueIsKept, OneDisposes, CallsAreCounted, FailedOn
  <2> QED
    BY <2>3, <2>4 DEF Alone
<1>3. CASE /\ running' = running \ {r} /\ state' = "faulted" /\ promise' = 0
           /\ getting' = answered(r.init, "failed")
  <2>1. \A g \in Getters : getting'[g].stage # "waiting"
    <3>1. \A g \in Getters : getting'[g].stage = "waiting" =>
             getting[g].stage = "waiting" /\ getting'[g].init = getting[g].init /\ getting'[g].init # begun
      BY <1>0, <1>3, GettersAnswered
    <3>2. \A g \in Getters : getting[g].stage = "waiting" => getting[g].init = begun
      BY <1>0 DEF Alone, OneRuns
    <3> QED
      BY <3>1, <3>2
  <2>2. OneRuns'
    BY <1>0, <1>3, <2>1 DEF OneRuns
  <2>3. ValueIsKept' /\ OneDisposes'
    BY <1>0, <1>1, <1>3 DEF Alone, ValueIsKept, OneDisposes
  <2>4. CallsAreCounted'
    BY <1>1, <1>3 DEF Alone, CallsAreCounted, FailedOn
  <2> QED
    BY <2>2, <2>3, <2>4 DEF Alone
<1> QED
  BY <1>2, <1>3 DEF FactoryFails

LEMMA ResetKeeps ==
    ASSUME SingletonTypeOK, Alone, Reset
    PROVE  Alone'
<1>0. /\ UNCHANGED <<begun, running, getting, disposing, shared, calls>> /\ begun \in Nat
      /\ value' = 0 /\ state' = "uninitialized" /\ promise' = 0
      /\ state # "initializing" /\ state # "disposing"
  BY TypesNamed, SingletonAssumption DEF Reset, CanReset
<1>1. running = {}
  BY <1>0 DEF Alone, OneRuns
<1>2. OneRuns'
  BY <1>0, <1>1 DEF Alone, OneRuns
<1>3. ValueIsKept' /\ OneDisposes'
  BY <1>0, <1>1 DEF Alone, ValueIsKept, OneDisposes
<1>4. CallsAreCounted'
  BY <1>0 DEF Alone, CallsAreCounted, FailedOn
<1> QED
  BY <1>2, <1>3, <1>4 DEF Alone

LEMMA NowKeeps ==
    ASSUME SingletonTypeOK, Alone, DisposeNow
    PROVE  Alone'
<1>0. /\ UNCHANGED <<begun, running, getting, disposing, shared>> /\ begun \in Nat
      /\ state # "initializing" /\ state # "disposing"
      /\ calls \in [Inits -> Nat] /\ value \in 0..MaxInits
  BY TypesNamed, SingletonAssumption DEF DisposeNow, CanDispose
<1>1. running = {}
  BY <1>0 DEF Alone, OneRuns
<1>2. \/ value' = 0 /\ promise' = 0 /\ state' = "disposed"
      \/ value # 0 /\ state' = "disposing" /\ UNCHANGED <<value, promise>>
  BY DEF DisposeNow, finalizeDispose
<1>3. OneRuns'
  BY <1>0, <1>1, <1>2 DEF Alone, OneRuns
<1>4. ValueIsKept' /\ OneDisposes'
  BY <1>0, <1>1, <1>2 DEF Alone, ValueIsKept, OneDisposes
<1>5. CallsAreCounted'
  <2>1. CASE value = 0 /\ calls' = calls
    BY <1>0, <1>2, <2>1 DEF Alone, CallsAreCounted, FailedOn
  <2>2. CASE value # 0 /\ calls' = called(value)
    <3>1. value \in Inits /\ state = "resolved" /\ value <= begun
      BY <1>0, <2>2 DEF Alone, ValueIsKept, Inits
    <3>2. calls'[value] = calls[value] + 1 /\ \A u \in Inits \ {value} : calls'[u] = calls[u]
      BY <1>0, <2>2, <3>1, CalledOnce
    <3>3. calls[value] \in Nat /\ \A u \in Inits : u \in Nat
      BY <1>0, <3>1, SingletonAssumption DEF Inits
    <3> QED
      BY <1>0, <1>2, <3>1, <3>2, <3>3 DEF Alone, CallsAreCounted, FailedOn
  <2> QED
    BY <2>1, <2>2 DEF DisposeNow
<1> QED
  BY <1>3, <1>4, <1>5 DEF Alone

LEMMA PerformKeeps ==
    ASSUME SingletonTypeOK, Alone, NEW d \in Disposers, performAsyncDispose(d),
           UNCHANGED <<begun, running, getting>>,
           state \notin {"initializing", "disposing"},
           disposing[d].stage \in {"none", "waiting"}
    PROVE  Alone'
<1>0. /\ disposing \in [Disposers -> DisposerTypes] /\ calls \in [Inits -> Nat]
      /\ begun \in Nat /\ value \in 0..MaxInits
      /\ "done" \in DisposerStages /\ "calling" \in DisposerStages /\ "failed" \in DisposerStages
      /\ shared' = {d}
  BY TypesNamed, SingletonAssumption DEF DisposerStages, performAsyncDispose
<1>1. running = {} /\ running' = {} /\ \A e \in Disposers : disposing[e].stage # "calling"
  BY DEF Alone, OneRuns, OneDisposes
<1>2. \A g \in Getters : getting'[g].stage # "waiting"
  BY <1>1 DEF Alone, OneRuns
<1>3. CASE /\ value = 0 /\ finalizeDispose /\ calls' = calls
           /\ disposing' = [disposing EXCEPT ![d].stage = "done"]
  <2>1. disposing'[d].stage = "done" /\ \A e \in Disposers \ {d} : disposing'[e] = disposing[e]
    BY <1>0, <1>3, DisposerMoves
  <2>2. value' = 0 /\ promise' = 0 /\ state' = "disposed"
    BY <1>3 DEF finalizeDispose
  <2>3. OneRuns'
    BY <1>1, <1>2, <2>2 DEF OneRuns
  <2>4. ValueIsKept' /\ OneDisposes'
    BY <1>0, <1>1, <2>1, <2>2 DEF ValueIsKept, OneDisposes
  <2>5. \A v \in Inits : FailedOn(v) => FailedOn(v)'
    BY <2>1 DEF FailedOn
  <2>6. CallsAreCounted'
    BY <1>3, <2>2, <2>5 DEF Alone, CallsAreCounted
  <2> QED
    BY <2>3, <2>4, <2>6 DEF Alone
<1>4. ASSUME value # 0, calls' = called(value), UNCHANGED <<value, promise>>,
             NEW s \in {"calling", "failed"},
             state' = IF s = "calling" THEN "disposing" ELSE "resolved",
             disposing' = [disposing EXCEPT ![d].stage = s, ![d].value = value]
      PROVE  Alone'
  <2>0. s \in DisposerStages
    BY <1>0
  <2>1. /\ disposing'[d].stage = s /\ disposing'[d].value = value
        /\ \A e \in Disposers \ {d} : disposing'[e] = disposing[e]
    BY <1>0, <1>4, <2>0, DisposerTakes
  <2>2. value \in Inits /\ state = "resolved" /\ value <= begun
    BY <1>0, <1>4 DEF Alone, ValueIsKept, Inits
  <2>3. calls'[value] = calls[value] + 1 /\ \A u \in Inits \ {value} : calls'[u] = calls[u]
    BY <1>0, <1>4, <2>2, CalledOnce
  <2>4. calls[value] \in Nat /\ \A u \in Inits : u \in Nat
    BY <1>0, <2>2, SingletonAssumption DEF Inits
  <2>5. OneRuns'
    BY <1>1, <1>2, <1>4 DEF OneRuns
  <2>6. ValueIsKept' /\ OneDisposes'
    BY <1>0, <1>1, <1>4, <2>1, <2>2 DEF ValueIsKept, OneDisposes
  <2>7. \A v \in Inits : FailedOn(v) => FailedOn(v)'
    BY <2>1 DEF FailedOn
  <2>9. CallsAreCounted'
    <3>1. ASSUME NEW v \in Inits
          PROVE  /\ v > begun' => calls'[v] = 0
                 /\ calls'[v] > 1 => FailedOn(v)'
                 /\ state' = "resolved" /\ value' = v => FailedOn(v)'
      <4>1. CASE v = value
        <5>1. ~(v > begun')
          BY <1>0, <2>2, <2>4, <4>1
        <5>2. calls'[v] > 1 => FailedOn(v)'
          BY <2>2, <2>3, <2>4, <2>7, <4>1 DEF Alone, CallsAreCounted
        <5>3. state' = "resolved" => FailedOn(v)'
          BY <1>4, <2>1, <4>1 DEF FailedOn
        <5> QED
          BY <5>1, <5>2, <5>3
      <4>2. CASE v # value
        BY <1>4, <2>3, <2>7, <4>2 DEF Alone, CallsAreCounted
      <4> QED
        BY <4>1, <4>2
    <3> QED
      BY <1>4, <3>1 DEF CallsAreCounted
  <2> QED
    BY <2>5, <2>6, <2>9 DEF Alone
<1> QED
  BY <1>3, <1>4 DEF performAsyncDispose

LEMMA DisposeKeeps ==
    ASSUME SingletonTypeOK, Alone, NEW d \in Disposers, DisposeAsync(d)
    PROVE  Alone'
<1>0. /\ disposing \in [Disposers -> DisposerTypes] /\ shared \subseteq Disposers
      /\ begun \in Nat /\ running \subseteq RunTypes /\ "done" \in DisposerStages
      /\ UNCHANGED <<begun, running, getting>> /\ disposing[d].stage = "none"
  BY TypesNamed, SingletonAssumption DEF DisposerStages, DisposeAsync
<1>1. CASE performAsyncDispose(d) /\ state \notin {"disposed", "disposing", "initializing"}
  BY <1>0, <1>1, PerformKeeps
<1>2. ASSUME UNCHANGED <<state, value, factory, promise, shared, calls>>,
             \A e \in Disposers \ {d} : disposing'[e] = disposing[e],
             disposing'[d].stage \notin {"none", "calling"},
             disposing'[d].stage = "waiting" => d \notin shared
      PROVE  Alone'
  <2>1. OneRuns' /\ ValueIsKept' /\ OneDisposes'
    BY <1>0, <1>2 DEF Alone, OneRuns, ValueIsKept, OneDisposes
  <2>2. \A v \in Inits : FailedOn(v) => FailedOn(v)'
    BY <1>0, <1>2 DEF FailedOn
  <2>3. CallsAreCounted'
    BY <1>0, <1>2, <2>2 DEF Alone, CallsAreCounted
  <2> QED
    BY <2>1, <2>3 DEF Alone
<1>3. CASE /\ shared # {} /\ join(d)
           /\ UNCHANGED <<state, value, factory, promise, shared, calls>>
  <2>1. PICK s \in DisposerStages :
           /\ disposing' = [disposing EXCEPT ![d].stage = s]
           /\ \/ s = "joined"
              \/ s # "calling" /\ \E e \in shared : s = disposing[e].stage
    BY <1>0, <1>3, JoinCopies
  <2>2. disposing'[d].stage = s /\ \A e \in Disposers \ {d} : disposing'[e] = disposing[e]
    BY <1>0, <2>1, DisposerMoves
  <2>3. s \notin {"none", "waiting", "calling"}
    BY <2>1 DEF Alone, OneDisposes
  <2> QED
    BY <1>2, <1>3, <2>2, <2>3
<1>4. CASE /\ disposing' = [disposing EXCEPT ![d].stage = "done"]
           /\ UNCHANGED <<state, value, factory, promise, shared, calls>>
  <2>1. disposing'[d].stage = "done" /\ \A e \in Disposers \ {d} : disposing'[e] = disposing[e]
    BY <1>0, <1>4, DisposerMoves
  <2> QED
    BY <1>2, <1>4, <2>1
<1>5. CASE /\ disposing' = [disposing EXCEPT ![d] =
                              [stage |-> "waiting", waited |-> promise, value |-> 0]]
           /\ shared = {} /\ state = "initializing"
           /\ UNCHANGED <<state, value, factory, promise, shared, calls>>
  <2>1. disposing'[d].stage = "waiting" /\ \A e \in Disposers \ {d} : disposing'[e] = disposing[e]
    BY <1>0, <1>5
  <2> QED
    BY <1>2, <1>5, <2>1
<1> QED
  BY <1>1, <1>3, <1>4, <1>5 DEF DisposeAsync

\* It finds no run under way and no disposal, or displaces one.
LEMMA ResumeKeeps ==
    ASSUME SingletonTypeOK, Alone, NEW d \in Disposers, DisposerResumes(d)
    PROVE  displaced' \/ Alone'
<1>1. CASE state \in {"initializing", "disposing"}
  BY <1>1 DEF DisposerResumes
<1>2. CASE state \notin {"initializing", "disposing"}
  BY <1>2, PerformKeeps DEF DisposerResumes, Resumes
<1> QED
  BY <1>1, <1>2

LEMMA AnswerKeeps ==
    ASSUME SingletonTypeOK, Alone, NEW d \in Disposers, DisposerAnswers(d)
    PROVE  Alone'
<1>0. /\ disposing \in [Disposers -> DisposerTypes] /\ begun \in Nat
      /\ UNCHANGED <<begun, running, getting, calls>> /\ shared' = {}
      /\ state = "disposing" /\ value = disposing[d].value
  BY TypesNamed, SingletonAssumption DEF DisposerAnswers, Alone, OneDisposes
<1>1. PICK s \in {"done", "failed"} :
         /\ disposing' = settled(d, s)
         /\ \/ s = "done" /\ value' = 0 /\ promise' = 0 /\ state' = "disposed"
            \/ s = "failed" /\ state' = "resolved" /\ UNCHANGED <<value, promise>>
  BY DEF DisposerAnswers, finalizeDispose
<1>2. /\ disposing'[d].stage = s
      /\ \A e \in Disposers :
            /\ disposing'[e].value = disposing[e].value
            /\ disposing'[e].stage = s \/ disposing'[e].stage = disposing[e].stage
            /\ disposing[e].stage # "joined" /\ e # d => disposing'[e].stage = disposing[e].stage
  BY <1>0, <1>1, DisposersSettled
<1>3. OneRuns'
  BY <1>0, <1>1 DEF Alone, OneRuns
<1>4. ValueIsKept'
  BY <1>0, <1>1 DEF Alone, ValueIsKept
<1>5. \A v \in Inits : FailedOn(v) => FailedOn(v)'
  <2>1. ASSUME NEW e \in Disposers, disposing[e].stage = "failed"
        PROVE  disposing'[e].stage = "failed" /\ disposing'[e].value = disposing[e].value
    BY <1>2, <2>1 DEF DisposerAnswers
  <2> QED
    BY <2>1 DEF FailedOn
<1>6. state' = "resolved" => FailedOn(value)'
  BY <1>0, <1>1, <1>2 DEF FailedOn
<1>7. CallsAreCounted'
  BY <1>0, <1>1, <1>5, <1>6 DEF Alone, CallsAreCounted
<1>8. OneDisposes'
  <2>1. \A e \in Disposers : disposing[e].stage = "calling" => e = d
    BY DEF DisposerAnswers, Alone, OneDisposes
  <2>3. \A e \in Disposers : disposing'[e].stage # "calling"
    BY <1>2, <2>1
  <2> QED
    BY <1>0, <2>3 DEF OneDisposes
<1> QED
  BY <1>3, <1>4, <1>7, <1>8 DEF Alone

----------------------------------------------------------------------------
(* What holds of every singleton                                           *)

LEMMA InitiallyAlone == SingletonInit => SingletonInv
<1> SUFFICES ASSUME SingletonInit
             PROVE  SingletonInv
  OBVIOUS
<1>1. factory \in BOOLEAN /\ displaced \in BOOLEAN
  BY DEF SingletonInit
<1>2. SingletonTypeOK
  BY <1>1, SingletonAssumption DEF SingletonInit, SingletonTypeOK, States, Inits
<1>3. OneRuns /\ ValueIsKept /\ OneDisposes /\ CallsAreCounted
  BY DEF SingletonInit, OneRuns, ValueIsKept, OneDisposes, CallsAreCounted
<1> QED
  BY <1>2, <1>3 DEF SingletonInv, Alone

LEMMA SingletonStep == SingletonInv /\ [SingletonNext]_singletonVars => SingletonInv'
<1> SUFFICES ASSUME SingletonInv, [SingletonNext]_singletonVars
             PROVE  SingletonInv'
  OBVIOUS
<1>1. SingletonTypeOK /\ (displaced \/ Alone)
  BY DEF SingletonInv
<1>2. SingletonTypeOK'
  BY <1>1, TypesKept
<1>3. CASE displaced
  BY <1>2, <1>3 DEF SingletonInv, SingletonNext, GetInstance, FactoryMakes, FactoryFails, Reset,
     DisposeNow, DisposeAsync, DisposerResumes, DisposerAnswers, singletonVars
<1>4. CASE ~displaced
  <2> SUFFICES displaced' \/ Alone'
    BY <1>2 DEF SingletonInv
  <2>1. Alone
    BY <1>1, <1>4
  <2>2. CASE UNCHANGED singletonVars
    <3>1. /\ UNCHANGED <<state, value, promise, begun, running, getting, disposing>>
          /\ UNCHANGED <<shared, calls>>
      BY <2>2 DEF singletonVars
    <3>2. OneRuns' /\ ValueIsKept'
      BY <2>1, <3>1 DEF Alone, OneRuns, ValueIsKept
    <3>3. OneDisposes'
      BY <2>1, <3>1 DEF Alone, OneDisposes
    <3>4. CallsAreCounted'
      BY <2>1, <3>1 DEF Alone, CallsAreCounted, FailedOn
    <3> QED
      BY <3>2, <3>3, <3>4 DEF Alone
  <2>3. CASE Reset \/ DisposeNow
    BY <1>1, <2>1, <2>3, ResetKeeps, NowKeeps
  <2>4. CASE \E g \in Getters : GetInstance(g)
    BY <1>1, <2>1, <2>4, GetKeeps
  <2>5. CASE \E r \in running : FactoryMakes(r) \/ FactoryFails(r)
    BY <1>1, <2>1, <2>5, MakeKeeps, FailKeeps
  <2>6. CASE \E d \in Disposers : DisposeAsync(d) \/ DisposerResumes(d) \/ DisposerAnswers(d)
    BY <1>1, <2>1, <2>6, DisposeKeeps, ResumeKeeps, AnswerKeeps
  <2> QED
    BY <2>2, <2>3, <2>4, <2>5, <2>6 DEF SingletonNext
<1> QED
  BY <1>3, <1>4

LEMMA SingletonInvHolds == SingletonSpec => []SingletonInv
BY InitiallyAlone, SingletonStep, PTL DEF SingletonSpec

\* However getInstance, reset, dispose and disposeAsync interleave, a singleton runs one
\* initialisation at a time and no caller waits for one that was given up, unless a
\* disposal that had waited went on in another life or during another disposal.
THEOREM OneInitialisationAtATime == SingletonSpec => []OneInitialisation
<1>1. SingletonInv => OneInitialisation
  <2> SUFFICES ASSUME SingletonInv, ~displaced
               PROVE  OneInitialisation
    BY DEF SingletonInv, OneInitialisation
  <2>1. SingletonTypeOK /\ OneRuns
    BY DEF SingletonInv, Alone
  <2>2. Cardinality(running) <= 1
    <3>1. CASE running = {}
      BY <3>1, FS_EmptySet
    <3>2. ASSUME NEW r \in running
          PROVE  Cardinality(running) = 1
      <4>1. running = {r}
        BY <2>1 DEF OneRuns
      <4> QED
        BY <4>1, FS_Singleton
    <3> QED
      BY <3>1, <3>2
  <2> QED
    BY <2>1, <2>2 DEF OneInitialisation, OneRuns, Waiting
<1> QED
  BY <1>1, SingletonInvHolds, PTL

\* The disposer is called on a value once, unless an earlier call of it failed or a
\* disposal that had waited ran into another life or another disposal.
THEOREM ValuesAreDisposedOfOnce == SingletonSpec => []DisposedOfOnce
<1>1. SingletonInv => DisposedOfOnce
  BY DEF SingletonInv, Alone, CallsAreCounted, FailedOn, DisposedOfOnce
<1> QED
  BY <1>1, SingletonInvHolds, PTL

-----------------------------------------------------------------------------
(***************************************************************************)
(* The state an Animator keeps of its chunks is the one the loads have     *)
(* left, for any number of chunks, animators and waiters.  Four facts make *)
(* StreamingAgrees inductive: the types, that without an animator there    *)
(* are no states, that tasks know only animators that were born, and that  *)
(* a chunk whose load is being delivered has its bytes.                    *)
(***************************************************************************)

LoadStages == {"queued", "resolving", "delivering", "failing", "over"}
Statuses == {"none", "idle", "requested", "loaded", "failed"}
TaskOf(n) == [stage : LoadStages, animator : 0..n]

StreamTypes ==
    /\ born \in 0..MaxAnimators /\ live \in {0, born}
    /\ status \in [Chunks -> Statuses] /\ due \in [Animators -> SUBSET Chunks]
    /\ tasks \in [DOMAIN tasks -> TaskOf(born)]
    /\ live = 0 => status = All("none")

\* Bytes that are being delivered are there, or an earlier configuration had them.
Delivered(tasksNow) ==
    \A c \in DOMAIN tasksNow :
        tasksNow[c].stage = "delivering" /\ tasksNow[c].animator = live /\ live # 0 =>
            c \in bytes \/ c \in overtaken

StreamInv == StreamTypes /\ StreamingAgrees /\ Delivered(tasks)

USE DEF StreamAssumption

----------------------------------------------------------------------------
LEMMA StreamInitHolds == StreamAssumption /\ StreamInit => StreamInv
<1> SUFFICES ASSUME StreamInit, StreamAssumption PROVE StreamInv
  OBVIOUS
<1>1. DOMAIN tasks = {}
  BY DEF StreamInit
<1>2. StreamTypes
  BY <1>1 DEF StreamInit, StreamTypes, Statuses, All
<1> QED
  BY <1>1, <1>2 DEF StreamInit, StreamInv, StreamingAgrees, TasksAreKnown,
                    RequestsAreServed, LoadedIsThere, Delivered

\* Requests add tasks that are queued and change none.
LEMMA RequestedTasks ==
    ASSUME StreamTypes, TasksAreKnown, NEW R \in SUBSET Chunks,
           NEW tasksNow \in [DOMAIN tasks -> TaskOf(born)], requested(R, tasksNow)
    PROVE  /\ DOMAIN tasks' = DOMAIN tasks \union accepted(R)
           /\ tasks' \in [DOMAIN tasks' -> TaskOf(born)]
           /\ accepted(R) \subseteq Chunks
           /\ accepted(R) \intersect DOMAIN tasks = {}
           /\ \A c \in accepted(R) : tasks'[c].stage = "queued"
           /\ \A c \in DOMAIN tasks : tasks'[c] = tasksNow[c]
           /\ bridge # "disposed" => inFlight' = DOMAIN tasks'
<1>1. accepted(R) \subseteq Chunks
  BY DEF accepted
<1>2. accepted(R) \intersect DOMAIN tasks = {}
  BY DEF accepted, TasksAreKnown
<1>3. Task("queued", 0) \in TaskOf(born) /\ Task("queued", 0).stage = "queued"
  BY DEF Task, TaskOf, LoadStages, StreamTypes
<1>4. DOMAIN tasks' = DOMAIN tasks \union accepted(R)
  BY DEF requested
<1>5. \A c \in accepted(R) : tasks'[c] = Task("queued", 0)
  BY DEF requested
<1>6. \A c \in DOMAIN tasks : tasks'[c] = tasksNow[c]
  BY <1>2 DEF requested
<1>7. tasks' \in [DOMAIN tasks' -> TaskOf(born)]
  BY <1>3, <1>4 DEF requested
<1>8. bridge # "disposed" => inFlight' = DOMAIN tasks'
  BY <1>4 DEF requested, TasksAreKnown
<1> QED
  BY <1>1, <1>2, <1>3, <1>4, <1>5, <1>6, <1>7, <1>8

\* What an update announces is served or lost.
LEMMA SyncHolds ==
    ASSUME StreamAssumption, StreamInv, live # 0,
           UNCHANGED <<live, born, bytes, bridge, waiters, overtaken>>,
           NEW before \in [Chunks -> Statuses], NEW S \in SUBSET Chunks,
           NEW tasksNow \in [DOMAIN tasks -> TaskOf(born)], sync(before, S, tasksNow),
           \A c \in Chunks :
               bridge # "disposed" /\ c \notin lost /\ before[c] = "requested" =>
                   c \in DOMAIN tasks /\ Serves(tasksNow[c]),
           \A c \in Chunks : before[c] = "loaded" => c \in bytes \/ c \in overtaken,
           Delivered(tasksNow)
    PROVE  StreamInv'
<1> DEFINE R == idleOf(before, S)
<1>1. R \in SUBSET Chunks /\ \A c \in R : before[c] = "idle"
  BY DEF idleOf
<1>2. requested(R, tasksNow)
  BY DEF sync
<1>3. /\ DOMAIN tasks' = DOMAIN tasks \union accepted(R)
      /\ tasks' \in [DOMAIN tasks' -> TaskOf(born)]
      /\ accepted(R) \subseteq Chunks
      /\ \A c \in accepted(R) : tasks'[c].stage = "queued"
      /\ \A c \in DOMAIN tasks : tasks'[c] = tasksNow[c]
      /\ bridge # "disposed" => inFlight' = DOMAIN tasks'
  BY <1>1, <1>2, RequestedTasks DEF StreamInv, StreamingAgrees
<1>4. /\ status' = [c \in Chunks |-> IF c \in R THEN "requested" ELSE before[c]]
      /\ due' = [due EXCEPT ![live] = {}]
      /\ lost' = (lost \ R) \union unserved(R, tasksNow)
  BY DEF sync
<1>5. StreamTypes'
  <2>1. status' \in [Chunks -> Statuses]
    BY <1>4 DEF Statuses
  <2>2. due' \in [Animators -> SUBSET Chunks]
    BY <1>4 DEF StreamInv, StreamTypes
  <2> QED
    BY <1>3, <2>1, <2>2 DEF StreamInv, StreamTypes
<1>6. TasksAreKnown'
  <2>1. waiters' # {} => DOMAIN tasks' # {}
    <3>1. CASE waiters = {}
      BY <3>1
    <3>2. CASE waiters # {}
      <4>1. DOMAIN tasks # {}
        BY <3>2 DEF StreamInv, StreamTypes, StreamingAgrees, TasksAreKnown
      <4> QED
        BY <1>3, <4>1
    <3> QED
      BY <3>1, <3>2
  <2> QED
    BY <1>3, <2>1 DEF StreamInv, StreamingAgrees, TasksAreKnown
<1>7. RequestsAreServed'
  <2> SUFFICES ASSUME NEW c \in Chunks, bridge # "disposed", c \notin lost',
                      status'[c] = "requested"
               PROVE  c \in DOMAIN tasks' /\ Serves(tasks'[c])
    BY DEF RequestsAreServed, Serves
  <2>1. CASE c \notin R
    <3>1. c \notin lost /\ before[c] = "requested"
      BY <1>4, <2>1
    <3> QED
      BY <1>3, <3>1
  <2>0. c \in R => bridge = "started"
    BY <1>4 DEF unserved
  <2>2. CASE c \in R /\ c \notin inFlight
    <3>1. c \in accepted(R)
      BY <2>0, <2>2 DEF accepted
    <3> QED
      BY <1>3, <3>1 DEF Serves
  <2>3. CASE c \in R /\ c \in inFlight
    <3>1. c \in DOMAIN tasks
      BY <2>3 DEF StreamInv, StreamingAgrees, TasksAreKnown
    <3>2. Serves(tasksNow[c])
      BY <1>4, <2>0, <2>3 DEF unserved
    <3> QED
      BY <1>3, <3>1, <3>2
  <2> QED
    BY <2>1, <2>2, <2>3
<1>8. LoadedIsThere'
  <2> SUFFICES ASSUME NEW c \in Chunks, status'[c] = "loaded"
               PROVE  c \in bytes \/ c \in overtaken
    BY DEF LoadedIsThere
  <2> QED
    BY <1>4
<1>9. Delivered(tasks)'
  BY <1>3 DEF Delivered
<1> QED
  BY <1>5, <1>6, <1>7, <1>8, <1>9 DEF StreamInv, StreamingAgrees

\* A task that goes a step further serves as before, or its chunk needs nothing.
LEMMA MoveHolds ==
    ASSUME StreamAssumption, StreamInv, NEW c \in DOMAIN tasks, NEW u \in TaskOf(born),
           tasks' = [tasks EXCEPT ![c] = u], lost \subseteq lost', bytes \subseteq bytes',
           UNCHANGED <<live, born, status, due, bridge, inFlight, waiters, overtaken>>,
           \/ c \in lost' \/ live = 0 \/ bridge = "disposed" \/ status[c] # "requested"
           \/ Serves(tasks[c]) => Serves(u),
           u.stage = "delivering" /\ u.animator = live /\ live # 0 =>
               c \in bytes' \/ c \in overtaken
    PROVE  StreamInv'
<1>1. DOMAIN tasks' = DOMAIN tasks /\ tasks'[c] = u
      /\ \A k \in DOMAIN tasks \ {c} : tasks'[k] = tasks[k]
  OBVIOUS
<1>2. StreamTypes'
  BY <1>1 DEF StreamInv, StreamTypes
<1>3. TasksAreKnown'
  BY <1>1 DEF StreamInv, StreamingAgrees, TasksAreKnown
<1>4. RequestsAreServed'
  <2> SUFFICES ASSUME NEW k \in Chunks, live # 0, bridge # "disposed", k \notin lost',
                      status[k] = "requested"
               PROVE  k \in DOMAIN tasks' /\ Serves(tasks'[k])
    BY DEF RequestsAreServed, Serves
  <2>1. k \in DOMAIN tasks /\ Serves(tasks[k])
    BY DEF StreamInv, StreamingAgrees, RequestsAreServed
  <2> QED
    BY <1>1, <2>1
<1>5. LoadedIsThere'
  BY DEF StreamInv, StreamingAgrees, LoadedIsThere
<1>6. Delivered(tasks)'
  BY <1>1 DEF StreamInv, Delivered
<1> QED
  BY <1>2, <1>3, <1>4, <1>5, <1>6 DEF StreamInv, StreamingAgrees

\* The task of c at another stage.
LEMMA MovedTask ==
    ASSUME StreamTypes, NEW c \in DOMAIN tasks, NEW s \in LoadStages
    PROVE  /\ moved(c, s) = [tasks EXCEPT ![c] = [tasks[c] EXCEPT !.stage = s]]
           /\ [tasks[c] EXCEPT !.stage = s] \in TaskOf(born)
           /\ [tasks[c] EXCEPT !.stage = s].stage = s
           /\ [tasks[c] EXCEPT !.stage = s].animator = tasks[c].animator
           /\ tasks[c] \in TaskOf(born)
BY DEF moved, StreamTypes, TaskOf

\* A mark of the animator of today, of an earlier one, or of none.
LEMMA MarkedHolds ==
    ASSUME StreamAssumption, StreamInv, NEW c \in DOMAIN tasks, NEW mark \in Statuses,
           marked(c, mark), UNCHANGED <<live, born, bytes, bridge, waiters, overtaken>>,
           tasks[c].stage # "queued", mark # "requested",
           mark = "loaded" => tasks[c].stage = "delivering"
    PROVE  StreamInv'
<1> DEFINE a == tasks[c].animator
<1> DEFINE over == moved(c, "over")
<1> DEFINE u == [tasks[c] EXCEPT !.stage = "over"]
<1>0. StreamTypes /\ StreamingAgrees /\ Delivered(tasks)
  BY DEF StreamInv
<1>1. /\ over = [tasks EXCEPT ![c] = u] /\ u \in TaskOf(born)
      /\ u.stage = "over" /\ u.animator = a /\ tasks[c] \in TaskOf(born)
  BY <1>0, MovedTask DEF LoadStages
<1>2. /\ over \in [DOMAIN tasks -> TaskOf(born)] /\ over[c] = u
      /\ \A k \in DOMAIN tasks \ {c} : over[k] = tasks[k]
  BY <1>0, <1>1 DEF StreamTypes
<1>3. c \in Chunks
  BY <1>0 DEF StreamingAgrees, TasksAreKnown
<1>4. a = 0 \/ a \in Animators
  BY <1>0, <1>1 DEF TaskOf, Animators, StreamTypes
<1>5. ASSUME bridge = "disposed" \/ a = 0 \/ (a = live /\ ~HasScheduler)
      PROVE  StreamInv'
  <2>1. tasks' = over /\ UNCHANGED <<status, due, inFlight, lost>>
    BY <1>5 DEF marked
  <2>2. \/ live = 0 \/ bridge = "disposed" \/ status[c] # "requested"
        \/ ~Serves(tasks[c])
    BY <1>3, <1>5 DEF HasScheduler, All, Serves
  <2> QED
    BY <1>1, <2>1, <2>2, MoveHolds
<1>6. ASSUME bridge # "disposed", a # 0, a = live, HasScheduler
      PROVE  StreamInv'
  <2> DEFINE before == [status EXCEPT ![c] = mark]
  <2>1. sync(before, due[a], over)
    BY <1>6 DEF marked
  <2>2. due[a] \in SUBSET Chunks
    BY <1>0, <1>4, <1>6 DEF StreamTypes
  <2>3. before \in [Chunks -> Statuses] /\ before[c] = mark
        /\ \A k \in Chunks \ {c} : before[k] = status[k]
    BY <1>0, <1>3 DEF StreamTypes
  <2>4. \A k \in Chunks :
          bridge # "disposed" /\ k \notin lost /\ before[k] = "requested" =>
              k \in DOMAIN tasks /\ Serves(over[k])
    BY <1>0, <1>2, <1>6, <2>3 DEF StreamingAgrees, RequestsAreServed
  <2>5. \A k \in Chunks : before[k] = "loaded" => k \in bytes \/ k \in overtaken
    BY <1>0, <1>6, <2>3 DEF StreamingAgrees, LoadedIsThere, Delivered
  <2>6. Delivered(over)
    BY <1>0, <1>1, <1>2 DEF Delivered
  <2> HIDE DEF a, over, before
  <2> QED
    BY <1>2, <1>6, <2>1, <2>2, <2>3, <2>4, <2>5, <2>6, SyncHolds
<1>7. ASSUME bridge # "disposed", a # 0, a # live
      PROVE  StreamInv'
  <2> DEFINE R == due[a] \ {c}
  <2>1. /\ requested(R, over) /\ due' = [due EXCEPT ![a] = {}]
        /\ UNCHANGED <<status, lost>>
    BY <1>7 DEF marked
  <2>2. R \in SUBSET Chunks
    BY <1>0, <1>4, <1>7 DEF StreamTypes
  <2>3. /\ DOMAIN tasks' = DOMAIN tasks \union accepted(R)
        /\ tasks' \in [DOMAIN tasks' -> TaskOf(born)]
        /\ accepted(R) \subseteq Chunks
        /\ \A k \in accepted(R) : tasks'[k].stage = "queued"
        /\ \A k \in DOMAIN tasks : tasks'[k] = over[k]
        /\ bridge # "disposed" => inFlight' = DOMAIN tasks'
    <3> HIDE DEF a, over, R
    <3> QED
      BY <1>0, <1>2, <2>1, <2>2, RequestedTasks DEF StreamingAgrees
  <2>4. StreamTypes'
    <3>1. due' \in [Animators -> SUBSET Chunks]
      BY <1>0, <2>1 DEF StreamTypes
    <3> QED
      BY <1>0, <2>1, <2>3, <3>1 DEF StreamTypes
  <2>5. TasksAreKnown'
    BY <1>0, <1>7, <2>3 DEF StreamingAgrees, TasksAreKnown
  <2>6. RequestsAreServed'
    <3> SUFFICES ASSUME NEW k \in Chunks, live # 0, bridge # "disposed", k \notin lost,
                        status[k] = "requested"
                 PROVE  k \in DOMAIN tasks' /\ Serves(tasks'[k])
      BY <2>1 DEF RequestsAreServed, Serves
    <3>1. k \in DOMAIN tasks /\ Serves(tasks[k])
      BY <1>0 DEF StreamingAgrees, RequestsAreServed
    <3>2. k # c
      BY <1>7, <3>1 DEF Serves
    <3> QED
      BY <1>2, <2>3, <3>1, <3>2
  <2>7. LoadedIsThere'
    BY <1>0, <2>1 DEF StreamingAgrees, LoadedIsThere
  <2>8. Delivered(tasks)'
    BY <1>0, <1>1, <1>2, <2>3 DEF Delivered
  <2> QED
    BY <2>4, <2>5, <2>6, <2>7, <2>8 DEF StreamInv, StreamingAgrees
<1> QED
  BY <1>5, <1>6, <1>7

----------------------------------------------------------------------------
(* The steps                                                               *)

\* What an API call of the animator of today announces.
LEMMA PlayHolds ==
    ASSUME StreamAssumption, StreamInv, NEW S \in SUBSET Chunks, Play(S)
    PROVE  StreamInv'
<1> DEFINE before == IF HasScheduler THEN status ELSE All("idle")
<1>1. live # 0 /\ sync(before, S, tasks)
      /\ UNCHANGED <<live, born, bytes, bridge, waiters, overtaken>>
  BY DEF Play
<1>2. before \in [Chunks -> Statuses]
  BY DEF StreamInv, StreamTypes, All, Statuses
<1>3. \A c \in Chunks : before[c] = "requested" \/ before[c] = "loaded" => before[c] = status[c]
  BY DEF All
<1>4. \A c \in Chunks :
        bridge # "disposed" /\ c \notin lost /\ before[c] = "requested" =>
            c \in DOMAIN tasks /\ Serves(tasks[c])
  BY <1>1, <1>3 DEF StreamInv, StreamingAgrees, RequestsAreServed
<1>5. \A c \in Chunks : before[c] = "loaded" => c \in bytes \/ c \in overtaken
  BY <1>1, <1>3 DEF StreamInv, StreamingAgrees, LoadedIsThere
<1>6. tasks \in [DOMAIN tasks -> TaskOf(born)] /\ Delivered(tasks)
  BY DEF StreamInv, StreamTypes
<1> HIDE DEF before
<1> QED
  BY <1>1, <1>2, <1>4, <1>5, <1>6, SyncHolds

\* The animator comes, goes, and forgets its states.
LEMMA AnimatorHolds ==
    ASSUME StreamAssumption, StreamInv,
           \/ CreateAnimator \/ DestroyAnimator \/ Configure \/ SetApplyRootMotion
           \/ \E S \in SUBSET Chunks : ResetStreaming(S)
    PROVE  StreamInv'
<1>0. StreamTypes /\ TasksAreKnown /\ RequestsAreServed /\ LoadedIsThere /\ Delivered(tasks)
  BY DEF StreamInv, StreamingAgrees
<1>1. \A c \in Chunks : All("none")[c] = "none" /\ All("idle")[c] = "idle"
  BY DEF All
<1>2. All("none") \in [Chunks -> Statuses] /\ All("idle") \in [Chunks -> Statuses]
  BY DEF All, Statuses
<1>3. CASE CreateAnimator
  <2>1. StreamTypes'
    <3>1. tasks \in [DOMAIN tasks -> TaskOf(born')]
      BY <1>0, <1>3 DEF CreateAnimator, StreamTypes, TaskOf
    <3> QED
      BY <1>0, <1>3, <3>1 DEF CreateAnimator, StreamTypes
  <2>2. RequestsAreServed' /\ LoadedIsThere'
    BY <1>0, <1>1, <1>3 DEF CreateAnimator, StreamTypes, RequestsAreServed, LoadedIsThere
  <2>3. Delivered(tasks)'
    BY <1>0, <1>3 DEF CreateAnimator, StreamTypes, TaskOf, Delivered
  <2>4. TasksAreKnown'
    BY <1>0, <1>3 DEF CreateAnimator, TasksAreKnown
  <2> QED
    BY <2>1, <2>2, <2>3, <2>4 DEF StreamInv, StreamingAgrees
<1>4. CASE DestroyAnimator
  BY <1>0, <1>2, <1>4 DEF DestroyAnimator, StreamTypes, TasksAreKnown, RequestsAreServed,
                     LoadedIsThere, Delivered, StreamInv, StreamingAgrees
<1>5. CASE Configure
  <2>1. Delivered(tasks)'
    <3> SUFFICES ASSUME NEW c \in DOMAIN tasks, tasks[c].stage = "delivering",
                        tasks[c].animator = live
                 PROVE  tasks[c] = Task("delivering", live)
      BY <1>5 DEF Configure, Delivered
    <3> QED
      BY <1>0 DEF StreamTypes, TaskOf, Task
  <2>2. StreamTypes'
    BY <1>0, <1>2, <1>5 DEF Configure, withoutScheduler, StreamTypes
  <2>3. TasksAreKnown'
    BY <1>0, <1>5 DEF Configure, TasksAreKnown
  <2>4. RequestsAreServed' /\ LoadedIsThere'
    BY <1>1, <1>5 DEF Configure, withoutScheduler, RequestsAreServed, LoadedIsThere
  <2> QED
    BY <2>1, <2>2, <2>3, <2>4 DEF StreamInv, StreamingAgrees
<1>6. CASE SetApplyRootMotion
  <2>1. StreamTypes'
    BY <1>0, <1>2, <1>6 DEF SetApplyRootMotion, withoutScheduler, StreamTypes
  <2>2. TasksAreKnown' /\ Delivered(tasks)'
    BY <1>0, <1>6 DEF SetApplyRootMotion, TasksAreKnown, Delivered
  <2>3. RequestsAreServed' /\ LoadedIsThere'
    BY <1>1, <1>6 DEF SetApplyRootMotion, withoutScheduler, RequestsAreServed, LoadedIsThere
  <2> QED
    BY <2>1, <2>2, <2>3 DEF StreamInv, StreamingAgrees
<1>7. ASSUME NEW S \in SUBSET Chunks, ResetStreaming(S)
      PROVE  StreamInv'
  <2>1. StreamTypes'
    BY <1>0, <1>2, <1>7 DEF ResetStreaming, StreamTypes
  <2>2. TasksAreKnown' /\ Delivered(tasks)'
    BY <1>0, <1>7 DEF ResetStreaming, TasksAreKnown, Delivered
  <2>3. RequestsAreServed' /\ LoadedIsThere'
    BY <1>1, <1>7 DEF ResetStreaming, RequestsAreServed, LoadedIsThere
  <2> QED
    BY <2>1, <2>2, <2>3 DEF StreamInv, StreamingAgrees
<1> QED
  BY <1>3, <1>4, <1>5, <1>6, <1>7

\* The bridge is started and disposed of, and waited for.
LEMMA BridgeHolds ==
    ASSUME StreamAssumption, StreamInv,
           StartBridge \/ DisposeBridge \/ \E w \in Waiters : WaitForIdle(w)
    PROVE  StreamInv'
<1>0. StreamTypes /\ TasksAreKnown /\ RequestsAreServed /\ LoadedIsThere /\ Delivered(tasks)
  BY DEF StreamInv, StreamingAgrees
<1>1. CASE StartBridge
  BY <1>0, <1>1 DEF StartBridge, StreamTypes, TasksAreKnown, RequestsAreServed, LoadedIsThere,
                    Serves, Delivered, StreamInv, StreamingAgrees
<1>2. CASE DisposeBridge
  BY <1>0, <1>2 DEF DisposeBridge, StreamTypes, TasksAreKnown, RequestsAreServed, LoadedIsThere,
                    Delivered, StreamInv, StreamingAgrees
<1>3. ASSUME NEW w \in Waiters, WaitForIdle(w)
      PROVE  StreamInv'
  BY <1>0, <1>3 DEF WaitForIdle, StreamTypes, TasksAreKnown, RequestsAreServed, LoadedIsThere,
                    Serves, Delivered, StreamInv, StreamingAgrees
<1> QED
  BY <1>1, <1>2, <1>3

\* A task goes on, fails or ends.
LEMMA TaskHolds ==
    ASSUME StreamAssumption, StreamInv, NEW c \in Chunks,
           \/ TaskStarts(c) \/ ResolverAnswers(c) \/ LoadFails(c) \/ TaskBreaksOff(c)
           \/ MarksLoaded(c) \/ MarksFailed(c) \/ TaskFinishes(c)
    PROVE  StreamInv'
<1>0. /\ StreamTypes /\ TasksAreKnown /\ RequestsAreServed /\ LoadedIsThere
      /\ Delivered(tasks)
  BY DEF StreamInv, StreamingAgrees
<1>1. c \in DOMAIN tasks /\ tasks[c] \in TaskOf(born)
  BY <1>0 DEF TaskStarts, ResolverAnswers, LoadFails, TaskBreaksOff, MarksLoaded, MarksFailed,
              TaskFinishes, At, StreamTypes
<1>2. \A s \in LoadStages :
        LET u == [tasks[c] EXCEPT !.stage = s]
        IN  /\ moved(c, s) = [tasks EXCEPT ![c] = u] /\ u \in TaskOf(born)
            /\ u.stage = s /\ u.animator = tasks[c].animator
  BY <1>0, <1>1, MovedTask
<1>3. CASE TaskStarts(c)
  <2> DEFINE u == Task(IF live = 0 THEN "failing" ELSE "resolving", live)
  <2>1. u \in TaskOf(born) /\ u.stage \notin {"delivering", "over"} /\ u.animator = live
    BY <1>0 DEF Task, TaskOf, LoadStages, StreamTypes
  <2>2. tasks' = [tasks EXCEPT ![c] = u]
    BY <1>3 DEF TaskStarts
  <2> HIDE DEF u
  <2> QED
    BY <1>1, <1>3, <2>1, <2>2, MoveHolds DEF TaskStarts, Serves
<1>4. CASE ResolverAnswers(c)
  <2> DEFINE s == IF bridge = "disposed" THEN "over" ELSE "delivering"
  <2> DEFINE u == [tasks[c] EXCEPT !.stage = s]
  <2>1. s \in LoadStages
    BY DEF LoadStages
  <2>2. /\ tasks' = [tasks EXCEPT ![c] = u] /\ u \in TaskOf(born)
        /\ u.stage = s /\ u.animator = tasks[c].animator
    BY <1>2, <1>4, <2>1 DEF ResolverAnswers, Goes
  <2>3. /\ UNCHANGED <<live, born, status, due, bridge, inFlight, waiters, lost, overtaken>>
        /\ bytes' = IF bridge # "disposed" /\ tasks[c].animator = live
                    THEN bytes \union {c} ELSE bytes
        /\ tasks[c].stage = "resolving"
    BY <1>4 DEF ResolverAnswers, Goes, At
  <2>4. bridge = "disposed" \/ (Serves(tasks[c]) => Serves(u))
    BY <2>2, <2>3 DEF Serves
  <2>5. u.stage = "delivering" /\ u.animator = live /\ live # 0 => c \in bytes'
    BY <2>2, <2>3
  <2> HIDE DEF u, s
  <2> QED
    BY <1>1, <2>2, <2>3, <2>4, <2>5, MoveHolds
<1>5. CASE LoadFails(c)
  <2> DEFINE s == IF bridge = "disposed" THEN "over" ELSE "failing"
  <2> DEFINE u == [tasks[c] EXCEPT !.stage = s]
  <2>1. s \in LoadStages /\ s # "delivering"
    BY DEF LoadStages
  <2>2. /\ tasks' = [tasks EXCEPT ![c] = u] /\ u \in TaskOf(born)
        /\ u.stage = s /\ u.animator = tasks[c].animator
    BY <1>2, <1>5, <2>1 DEF LoadFails, Goes
  <2>3. /\ UNCHANGED <<live, born, status, due, bytes, bridge, inFlight, waiters, lost, overtaken>>
        /\ tasks[c].stage \in {"resolving", "delivering"}
    BY <1>5 DEF LoadFails, Goes, At
  <2>4. bridge = "disposed" \/ (Serves(tasks[c]) => Serves(u))
    BY <2>2, <2>3 DEF Serves
  <2> HIDE DEF u, s
  <2> QED
    BY <1>1, <2>1, <2>2, <2>3, <2>4, MoveHolds
<1>6. CASE TaskBreaksOff(c)
  <2> DEFINE u == [tasks[c] EXCEPT !.stage = "over"]
  <2>1. /\ tasks' = [tasks EXCEPT ![c] = u] /\ u \in TaskOf(born) /\ u.stage = "over"
    BY <1>2, <1>6 DEF TaskBreaksOff, LoadStages
  <2>2. /\ UNCHANGED <<live, born, status, due, bytes, bridge, inFlight, waiters, overtaken>>
        /\ lost \subseteq lost'
        /\ tasks[c].stage # "queued"
        /\ c \in lost' \/ tasks[c].animator # live
    BY <1>6 DEF TaskBreaksOff, At
  <2>3. c \in lost' \/ (Serves(tasks[c]) => Serves(u))
    BY <2>2 DEF Serves
  <2> HIDE DEF u
  <2> QED
    BY <1>1, <2>1, <2>2, <2>3, MoveHolds
<1>7. CASE MarksLoaded(c)
  BY <1>1, <1>7, MarkedHolds DEF MarksLoaded, At, Statuses
<1>8. CASE MarksFailed(c)
  BY <1>1, <1>8, MarkedHolds DEF MarksFailed, At, Statuses
<1>9. CASE TaskFinishes(c)
  <2>1. /\ DOMAIN tasks' = DOMAIN tasks \ {c}
        /\ \A k \in DOMAIN tasks \ {c} : tasks'[k] = tasks[k]
        /\ tasks[c].stage = "over"
        /\ UNCHANGED <<live, born, status, due, bytes, bridge, lost, overtaken>>
    BY <1>9 DEF TaskFinishes, At
  <2>2. StreamTypes'
    <3>1. tasks' = [k \in DOMAIN tasks' |-> tasks'[k]]
      BY <1>9 DEF TaskFinishes
    <3> QED
      BY <1>0, <2>1, <3>1 DEF StreamTypes
  <2>3. TasksAreKnown'
    BY <1>0, <1>9, <2>1 DEF TaskFinishes, TasksAreKnown
  <2>4. RequestsAreServed'
    BY <1>0, <2>1 DEF RequestsAreServed, Serves
  <2>5. LoadedIsThere' /\ Delivered(tasks)'
    BY <1>0, <2>1 DEF LoadedIsThere, Delivered
  <2> QED
    BY <2>2, <2>3, <2>4, <2>5 DEF StreamInv, StreamingAgrees
<1> QED
  BY <1>3, <1>4, <1>5, <1>6, <1>7, <1>8, <1>9

\* Whatever comes between a request and its load, an animator does not wait for
\* a chunk that nobody loads, unless nobody took its request or its load broke off
\* unmarked (an AbortError, or a failing handler of failures), and does not take a
\* chunk for loaded that its clip lacks (animation-streaming-bridge.ts, streaming.ts,
\* animator.ts).
THEOREM StreamingStaysAgreed ==
    ASSUME StreamAssumption
    PROVE  StreamSpec => []StreamingAgrees
<1>1. StreamInit => StreamInv
  BY StreamInitHolds
<1>2. StreamInv /\ [StreamNext]_streamVars => StreamInv'
  <2> SUFFICES ASSUME StreamInv, [StreamNext]_streamVars PROVE StreamInv'
    OBVIOUS
  <2>1. CASE UNCHANGED streamVars
    BY <2>1 DEF streamVars, StreamInv, StreamTypes, StreamingAgrees, TasksAreKnown,
                RequestsAreServed, LoadedIsThere, Serves, Delivered
  <2>2. ASSUME NEW S \in SUBSET Chunks, Play(S)
        PROVE  StreamInv'
    BY <2>2, PlayHolds
  <2>3. ASSUME \/ CreateAnimator \/ DestroyAnimator \/ Configure \/ SetApplyRootMotion
               \/ \E S \in SUBSET Chunks : ResetStreaming(S)
        PROVE  StreamInv'
    BY <2>3, AnimatorHolds
  <2>4. ASSUME StartBridge \/ DisposeBridge \/ \E w \in Waiters : WaitForIdle(w)
        PROVE  StreamInv'
    BY <2>4, BridgeHolds
  <2>5. ASSUME NEW c \in Chunks,
               \/ TaskStarts(c) \/ ResolverAnswers(c) \/ LoadFails(c) \/ TaskBreaksOff(c)
               \/ MarksLoaded(c) \/ MarksFailed(c) \/ TaskFinishes(c)
        PROVE  StreamInv'
    BY <2>5, TaskHolds
  <2> QED
    BY <2>1, <2>2, <2>3, <2>4, <2>5 DEF StreamNext
<1>3. StreamInv => StreamingAgrees
  BY DEF StreamInv
<1> QED
  BY <1>1, <1>2, <1>3, PTL DEF StreamSpec

-----------------------------------------------------------------------------
(***************************************************************************)
(* An import agrees with itself and hears the abort of its signal and the  *)
(* end of its pipeline, for any stages, importers, sources and retries.    *)
(*                                                                         *)
(* Each execution keeps Holds on its own; what a handler makes of it comes *)
(* from resumed, which needs only what is Ready.  The ranks are natural    *)
(* numbers, so that the first of some stages or importers exists.          *)
(***************************************************************************)

\* An execution at which the stages of its phase may run.
Ready(r) ==
    /\ r.attempt <= MaxAttempts
    /\ \A x \in r.queue : r.phase \in PhasesOf[x]
    /\ r.phase = "before-import" =>
          r.importer # None /\ (r.rerouted \/ Tier[r.importer][r.source] # 0)
    /\ r.phase = "after-import" => r.importer # None /\ r.result

Holds(r, i) ==
    /\ ImportAgrees(r)
    /\ r.at = "aborted" => i \in aborted
    /\ r.at \in {"stage", "between"} => Ready(r)
    /\ r.at = "idle" => r.attempt = 0
    /\ r.at = "delayed" => r.attempt < MaxAttempts
    /\ r.at = "importing" => r.importer # None
    /\ r.at = "stage" => r.running \in Stages

EmptiedByDispose == pipelineDown => importers = {} /\ stages = {}

ImportInv ==
    /\ ImportTypeOK /\ EmptiedByDispose
    /\ \A i \in Imports : Holds(imports[i], i)

----------------------------------------------------------------------------
(* Minima                                                                  *)

\* A set of numbers that is not empty has a least one.
LEMMA LeastNumber ==
    ASSUME NEW T \in SUBSET Nat, T # {}
    PROVE  \E n \in T : \A m \in T : n <= m
<1>1. PICK n \in T : \A m \in T : <<m, n>> \notin OpToRel(<, Nat)
  BY NatLessThanWellFounded, WFMin
<1>2. \A m \in T : ~(m < n)
  BY <1>1 DEF OpToRel
<1> QED
  BY <1>2

\* The stage that is called next is one of those given, by the least rank.
LEMMA FirstIsFirst ==
    ASSUME ImportAssumption, NEW S \in SUBSET Stages, S # {}
    PROVE  First(S) \in S /\ \A y \in S : StageRank[First(S)] <= StageRank[y]
<1>1. \E x \in S : \A y \in S : StageRank[x] <= StageRank[y]
  <2> DEFINE T == {StageRank[x] : x \in S}
  <2>1. T \in SUBSET Nat /\ T # {}
    BY DEF ImportAssumption
  <2>2. PICK n \in T : \A m \in T : n <= m
    BY <2>1, LeastNumber
  <2> QED
    BY <2>2
<1> QED
  BY <1>1 DEF First

\* The importer that is found is registered and takes the source.
LEMMA FoundMatches ==
    ASSUME ImportAssumption, importers \subseteq Importers, NEW source \in Sources,
           find(source) # None
    PROVE  find(source) \in importers /\ Tier[find(source)][source] # 0
<1> DEFINE candidates == {m \in importers : Tier[m][source] # 0}
           tiers == {Tier[m][source] : m \in candidates}
<1>1. candidates # {}
  BY DEF find
<1>2. \A m \in candidates : Tier[m][source] \in Nat /\ ImporterRank[m] \in Nat
  <2> SUFFICES ASSUME NEW m \in candidates PROVE Tier[m][source] \in Nat /\ ImporterRank[m] \in Nat
    OBVIOUS
  <2>1. m \in Importers
    OBVIOUS
  <2>2. Tier[m] \in [Sources -> 0..4] /\ ImporterRank[m] \in Nat
    BY <2>1 DEF ImportAssumption
  <2> QED
    BY <2>2
<1>3. PICK t \in tiers : \A u \in tiers : t <= u
  <2>1. tiers \in SUBSET Nat /\ tiers # {}
    BY <1>1, <1>2
  <2> QED
    BY <2>1, LeastNumber
<1> DEFINE best == {m \in candidates : Tier[m][source] = t}
           ranks == {ImporterRank[m] : m \in best}
<1>4. PICK k \in ranks : \A l \in ranks : k <= l
  <2>1. best # {}
    BY <1>3
  <2>2. ranks \in SUBSET Nat /\ ranks # {}
    BY <2>1, <1>2
  <2> QED
    BY <2>2, LeastNumber
<1>5. PICK m \in best : ImporterRank[m] = k
  BY <1>4
<1>6. \A n \in candidates : precedes(m, n, source)
  <2> SUFFICES ASSUME NEW n \in candidates PROVE precedes(m, n, source)
    OBVIOUS
  <2>1. t <= Tier[n][source] /\ Tier[m][source] = t /\ t \in Nat /\ Tier[n][source] \in Nat
    BY <1>2, <1>3, <1>5
  <2>2. Tier[n][source] = t => ImporterRank[m] <= ImporterRank[n]
    BY <1>4, <1>5
  <2> QED
    BY <2>1, <2>2 DEF precedes
<1>7. find(source) = CHOOSE m_1 \in candidates : \A n \in candidates : precedes(m_1, n, source)
  BY <1>1 DEF find
<1>8. find(source) \in candidates
  BY <1>5, <1>6, <1>7
<1> QED
  BY <1>8

----------------------------------------------------------------------------
(* The parts of an attempt                                                 *)

\* What is thrown ends the attempt.
LEMMA ThrownHolds ==
    ASSUME ImportAssumption, NEW i \in Imports, NEW r \in Executions, NEW e \in Errors,
           r.attempt <= MaxAttempts, \A x \in r.queue : r.phase \in PhasesOf[x]
    PROVE  /\ thrown(r, i, e) \in Executions
           /\ Holds(thrown(r, i, e), i)
           /\ thrown(r, i, e).at # "stage"
           /\ thrown(r, i, e).attempt = r.attempt
           /\ thrown(r, i, e).importer = r.importer
<1> DEFINE s == thrown(r, i, e)
<1>1. s \in Executions
  BY DEF thrown, Executions
<1>2. /\ s.attempt = r.attempt /\ s.queue = r.queue /\ s.phase = r.phase
      /\ s.importer = r.importer /\ s.error = e
      /\ s.at = IF i \in aborted THEN "aborted"
                ELSE IF r.attempt < MaxAttempts /\ e \in Retried THEN "delayed" ELSE "failed"
  BY DEF thrown, Executions
<1>3. r.attempt \in Nat /\ MaxAttempts \in Nat
  BY DEF Executions, ImportAssumption
<1> QED
  BY <1>1, <1>2, <1>3 DEF Holds, ImportAgrees

\* The loop over the stages keeps what holds, begins none after the abort and
\* none that was not taken up.
LEMMA ResumedHolds ==
    ASSUME ImportAssumption, NEW i \in Imports, NEW r \in Executions, Ready(r)
    PROVE  /\ resumed(r, i) \in Executions
           /\ Holds(resumed(r, i), i)
           /\ resumed(r, i).at = "stage" => i \notin aborted /\ resumed(r, i).running \in r.queue
           /\ resumed(r, i).attempt = r.attempt
           /\ resumed(r, i).importer = r.importer
<1> DEFINE taking == {x \in r.queue : r.source \in Takes[x]}
           s == resumed(r, i)
<1>1. CASE r.queue # {} /\ i \in aborted
  <2>1. s = thrown(r, i, "abort")
    BY <1>1 DEF resumed
  <2>2. r.attempt <= MaxAttempts /\ \A x \in r.queue : r.phase \in PhasesOf[x]
    BY DEF Ready
  <2> QED
    BY <2>1, <2>2, ThrownHolds DEF Errors
<1>2. CASE ~(r.queue # {} /\ i \in aborted) /\ taking = {}
  <2>1. s = [r EXCEPT !.at = "between", !.running = None, !.queue = {}]
    BY <1>2 DEF resumed
  <2>2. s \in Executions
    BY <2>1 DEF Executions
  <2>3. /\ s.at = "between" /\ s.queue = {} /\ s.attempt = r.attempt /\ s.phase = r.phase
        /\ s.importer = r.importer /\ s.source = r.source /\ s.rerouted = r.rerouted
        /\ s.result = r.result
    BY <2>1 DEF Executions
  <2>4. Ready(s)
    BY <2>3 DEF Ready
  <2>5. Holds(s, i)
    BY <2>3, <2>4 DEF Holds, ImportAgrees, Ready
  <2> QED
    BY <2>2, <2>3, <2>5
<1>3. CASE ~(r.queue # {} /\ i \in aborted) /\ taking # {}
  <2> DEFINE f == First(taking)
  <2>1. s = [r EXCEPT !.at = "stage", !.running = f,
                      !.queue = {y \in r.queue : StageRank[f] < StageRank[y]}]
    BY <1>3 DEF resumed
  <2>2. f \in taking /\ f \in Stages
    <3>1. taking \in SUBSET Stages
      BY DEF Executions
    <3> QED
      BY <3>1, <1>3, FirstIsFirst
  <2> HIDE DEF f
  <2>3. s \in Executions
    BY <2>1, <2>2 DEF Executions
  <2>4. /\ s.at = "stage" /\ s.running = f /\ s.attempt = r.attempt /\ s.phase = r.phase
        /\ s.queue = {y \in r.queue : StageRank[f] < StageRank[y]}
        /\ s.importer = r.importer /\ s.source = r.source /\ s.rerouted = r.rerouted
        /\ s.result = r.result
    BY <2>1 DEF Executions
  <2>5. Ready(s)
    BY <2>4 DEF Ready
  <2>6. Holds(s, i)
    BY <2>2, <2>4, <2>5 DEF Holds, ImportAgrees, Ready
  <2> QED
    BY <1>3, <2>2, <2>3, <2>4, <2>6
<1> QED
  BY <1>1, <1>2, <1>3

\* So does a phase that begins, with the stages registered then.
LEMMA PhaseHolds ==
    ASSUME ImportAssumption, stages \subseteq Stages, NEW i \in Imports, NEW r \in Executions,
           NEW phase \in Phases, r.attempt <= MaxAttempts,
           phase = "before-import" =>
              r.importer # None /\ (r.rerouted \/ Tier[r.importer][r.source] # 0),
           phase = "after-import" => r.importer # None /\ r.result
    PROVE  /\ runStages(r, i, phase) \in Executions
           /\ Holds(runStages(r, i, phase), i)
           /\ runStages(r, i, phase).at = "stage" => i \notin aborted /\ stages # {}
           /\ runStages(r, i, phase).attempt = r.attempt
           /\ runStages(r, i, phase).importer = r.importer
<1> DEFINE q == [r EXCEPT !.phase = phase, !.queue = listByPhase(phase)]
<1>1. q \in Executions
  BY DEF Executions, listByPhase
<1>2. /\ q.attempt = r.attempt /\ q.phase = phase /\ q.queue = listByPhase(phase)
      /\ q.importer = r.importer /\ q.source = r.source /\ q.rerouted = r.rerouted
      /\ q.result = r.result
  BY DEF Executions
<1>3. Ready(q)
  BY <1>2 DEF Ready, listByPhase
<1>4. runStages(r, i, phase) = resumed(q, i)
  BY DEF runStages
<1>5. stages = {} => q.queue = {}
  BY <1>2 DEF listByPhase
<1> HIDE DEF q
<1> QED
  BY <1>1, <1>2, <1>3, <1>4, <1>5, ResumedHolds

\* And an attempt that begins.
LEMMA AttemptHolds ==
    ASSUME ImportAssumption, stages \subseteq Stages, NEW i \in Imports, NEW r \in Executions,
           r.attempt < MaxAttempts, \A x \in r.queue : r.phase \in PhasesOf[x]
    PROVE  /\ attempted(r, i) \in Executions
           /\ Holds(attempted(r, i), i)
           /\ attempted(r, i).at = "stage" => i \notin aborted /\ stages # {}
           /\ i \in aborted => attempted(r, i).attempt = r.attempt
           /\ attempted(r, i).importer \in {None, r.importer}
<1>0. r.attempt \in Nat /\ MaxAttempts \in Nat
  BY DEF Executions, ImportAssumption
<1>1. CASE i \in aborted
  <2> DEFINE s == [r EXCEPT !.at = "aborted"]
  <2>1. attempted(r, i) = s
    BY <1>1 DEF attempted
  <2>2. /\ s \in Executions /\ s.at = "aborted" /\ s.attempt = r.attempt
        /\ s.queue = r.queue /\ s.phase = r.phase /\ s.importer = r.importer
    BY DEF Executions
  <2>3. Holds(s, i)
    BY <1>0, <1>1, <2>2 DEF Holds, ImportAgrees
  <2> QED
    BY <2>1, <2>2, <2>3
<1>2. CASE i \notin aborted
  <2> DEFINE q == [r EXCEPT !.attempt = @ + 1, !.source = FirstSource, !.rerouted = FALSE,
                            !.importer = None, !.result = FALSE, !.error = None]
  <2>1. attempted(r, i) = runStages(q, i, "source")
    BY <1>2 DEF attempted
  <2>2. q \in Executions
    <3>1. r.attempt + 1 \in Nat /\ FirstSource \in Sources
      BY <1>0 DEF ImportAssumption
    <3> QED
      BY <3>1 DEF Executions
  <2>3. q.attempt = r.attempt + 1 /\ q.importer = None
    BY DEF Executions
  <2>4. q.attempt <= MaxAttempts
    BY <1>0, <2>3
  <2> HIDE DEF q
  <2>5. "source" \in Phases
    BY DEF Phases
  <2> QED
    BY <1>2, <2>1, <2>2, <2>3, <2>4, <2>5, PhaseHolds
<1> QED
  BY <1>1, <1>2

----------------------------------------------------------------------------
(* The actions                                                             *)

\* What replaces an execution by another is a step that keeps the invariant
\* and hears the stops, if that one execution does.
LEMMA StepOfOne ==
    ASSUME ImportInv, NEW i \in Imports, NEW s \in Executions, Holds(s, i),
           Heard(i, imports[i], s), Becomes(i, s)
    PROVE  ImportInv' /\ \A j \in Imports : Heard(j, imports[j], imports'[j])
<1>1. /\ imports \in [Imports -> Executions] /\ imports' = [imports EXCEPT ![i] = s]
      /\ UNCHANGED <<importers, stages, pipelineDown, aborted>>
  BY DEF ImportInv, ImportTypeOK, Becomes
<1>2. imports'[i] = s /\ \A j \in Imports \ {i} : imports'[j] = imports[j]
  BY <1>1
<1>3. ImportTypeOK' /\ EmptiedByDispose'
  BY <1>1 DEF ImportInv, ImportTypeOK, EmptiedByDispose
<1>4. ASSUME NEW j \in Imports PROVE Holds(imports[j], j)'
  <2>1. CASE j = i
    BY <1>1, <1>2, <2>1 DEF Holds, ImportAgrees, Ready
  <2>2. CASE j # i
    <3>1. Holds(imports[j], j)
      BY DEF ImportInv
    <3> QED
      BY <1>1, <1>2, <2>2, <3>1 DEF Holds, ImportAgrees, Ready
  <2> QED
    BY <2>1, <2>2
<1>5. ASSUME NEW j \in Imports PROVE Heard(j, imports[j], imports'[j])
  <2>1. CASE j = i
    BY <1>2, <2>1
  <2>2. CASE j # i
    BY <1>1, <1>2, <2>2 DEF Heard, Begins, Executions
  <2> QED
    BY <2>1, <2>2
<1> QED
  BY <1>3, <1>4, <1>5 DEF ImportInv

\* An execution that begins no stage, no attempt and has found no importer
\* hears every stop.
LEMMA QuietIsHeard ==
    ASSUME NEW i, NEW r, NEW s, s.at # "stage", s.attempt = r.attempt,
           s.importer \in {None, r.importer}
    PROVE  Heard(i, r, s)
BY DEF Heard, Begins

\* What the invariant says of one execution.
LEMMA OneExecution ==
    ASSUME ImportInv, NEW i \in Imports
    PROVE  /\ imports[i] \in Executions /\ Holds(imports[i], i)
           /\ importers \subseteq Importers /\ stages \subseteq Stages
           /\ pipelineDown => importers = {} /\ stages = {}
           /\ imports[i].attempt \in Nat
BY DEF ImportInv, ImportTypeOK, EmptiedByDispose, Executions

\* An attempt begins, the first or after a delay.
LEMMA AttemptsHold ==
    ASSUME ImportAssumption, ImportInv, NEW i \in Imports, Import(i) \/ DelayEnds(i)
    PROVE  ImportInv' /\ \A j \in Imports : Heard(j, imports[j], imports'[j])
<1> DEFINE r == imports[i]
           s == attempted(r, i)
<1>1. r \in Executions /\ Holds(r, i) /\ stages \subseteq Stages /\ r.attempt \in Nat
      /\ (pipelineDown => stages = {})
  BY OneExecution
<1>2. Becomes(i, s) /\ r.at \in {"idle", "delayed"}
  BY DEF Import, DelayEnds
<1>3. MaxAttempts \in Nat /\ MaxAttempts # 0
  BY DEF ImportAssumption
<1>4. r.attempt < MaxAttempts /\ \A x \in r.queue : r.phase \in PhasesOf[x]
  BY <1>1, <1>2, <1>3 DEF Holds, ImportAgrees
<1> HIDE DEF r
<1>5. /\ s \in Executions /\ Holds(s, i)
      /\ s.at = "stage" => i \notin aborted /\ stages # {}
      /\ i \in aborted => s.attempt = r.attempt
      /\ s.importer \in {None, r.importer}
  BY <1>1, <1>4, AttemptHolds
<1> HIDE DEF s
<1>6. Heard(i, r, s)
  BY <1>1, <1>5 DEF Heard, Begins
<1> QED
  BY <1>2, <1>5, <1>6, StepOfOne DEF r

\* The callbacks throw.
LEMMA ThrowsHold ==
    ASSUME ImportAssumption, ImportInv, NEW i \in Imports, NEW e \in Errors,
           StageThrows(i, e) \/ ImporterThrows(i, e)
    PROVE  ImportInv' /\ \A j \in Imports : Heard(j, imports[j], imports'[j])
<1> DEFINE r == imports[i]
           s == thrown(r, i, e)
<1>1. r \in Executions /\ Holds(r, i)
  BY OneExecution
<1>2. Becomes(i, s)
  BY DEF StageThrows, ImporterThrows
<1>3. r.attempt <= MaxAttempts /\ \A x \in r.queue : r.phase \in PhasesOf[x]
  BY <1>1 DEF Holds, ImportAgrees
<1> HIDE DEF r
<1>4. /\ s \in Executions /\ Holds(s, i) /\ s.at # "stage"
      /\ s.attempt = r.attempt /\ s.importer = r.importer
  BY <1>1, <1>3, ThrownHolds
<1> HIDE DEF s
<1>5. Heard(i, r, s)
  BY <1>4, QuietIsHeard
<1> QED
  BY <1>2, <1>4, <1>5, StepOfOne DEF r

\* A stage answers.
LEMMA StageAnswersHolds ==
    ASSUME ImportAssumption, ImportInv, NEW i \in Imports, NEW source \in Sources,
           NEW result \in BOOLEAN, StageAnswers(i, source, result)
    PROVE  ImportInv' /\ \A j \in Imports : Heard(j, imports[j], imports'[j])
<1> DEFINE r == imports[i]
           q == [r EXCEPT !.source = source, !.result = @ \/ result,
                          !.rerouted = @ \/ (r.phase = "before-import" /\ source # r.source)]
<1>1. r \in Executions /\ Holds(r, i) /\ r.at = "stage" /\ Ready(r)
  BY OneExecution DEF StageAnswers, Holds
<1>2. r.attempt <= MaxAttempts /\ \A x \in r.queue : r.phase \in PhasesOf[x]
  BY <1>1 DEF Ready
<1>3. CASE result /\ r.phase = "source"
  <2> DEFINE s == thrown(r, i, "asset")
  <2>1. Becomes(i, s)
    BY <1>3 DEF StageAnswers
  <2> HIDE DEF r
  <2>2. "asset" \in Errors
    BY DEF Errors
  <2>3. /\ s \in Executions /\ Holds(s, i) /\ s.at # "stage"
        /\ s.attempt = r.attempt /\ s.importer = r.importer
    BY <1>1, <1>2, <2>2, ThrownHolds
  <2> HIDE DEF s
  <2>4. Heard(i, r, s)
    BY <2>3, QuietIsHeard
  <2> QED
    BY <2>1, <2>3, <2>4, StepOfOne DEF r
<1>4. CASE ~(result /\ r.phase = "source")
  <2> DEFINE s == resumed(q, i)
  <2>1. Becomes(i, s)
    BY <1>4 DEF StageAnswers
  <2> HIDE DEF r
  <2>2. q \in Executions
    BY <1>1 DEF Executions
  <2>3. /\ q.attempt = r.attempt /\ q.importer = r.importer /\ q.phase = r.phase
        /\ q.queue = r.queue /\ q.source = source
        /\ (r.result => q.result)
        /\ (r.rerouted \/ (r.phase = "before-import" /\ source # r.source) => q.rerouted)
    BY <1>1 DEF Executions
  <2> HIDE DEF q
  <2>4. Ready(q)
    BY <1>1, <2>3 DEF Ready
  <2>5. /\ s \in Executions /\ Holds(s, i)
        /\ s.at = "stage" => i \notin aborted /\ s.running \in r.queue
        /\ s.attempt = r.attempt /\ s.importer = r.importer
    BY <2>2, <2>3, <2>4, ResumedHolds
  <2> HIDE DEF s
  <2>6. Heard(i, r, s)
    BY <2>5 DEF Heard, Begins
  <2> QED
    BY <2>1, <2>5, <2>6, StepOfOne DEF r
<1> QED
  BY <1>3, <1>4

\* An import goes on after a phase or after its importer.
LEMMA GoesOnHolds ==
    ASSUME ImportAssumption, ImportInv, NEW i \in Imports,
           FindsImporter(i) \/ CallsImporter(i) \/ ImporterAnswers(i) \/ Delivers(i)
    PROVE  ImportInv' /\ \A j \in Imports : Heard(j, imports[j], imports'[j])
<1> DEFINE r == imports[i]
<1>1. /\ r \in Executions /\ Holds(r, i)
      /\ importers \subseteq Importers /\ stages \subseteq Stages
      /\ pipelineDown => importers = {} /\ stages = {}
      /\ r.attempt \in Nat
  BY OneExecution
<1>2. r.attempt <= MaxAttempts /\ \A x \in r.queue : r.phase \in PhasesOf[x]
  BY <1>1 DEF Holds, ImportAgrees
<1>3. r.at = "between" => Ready(r)
  BY <1>1 DEF Holds
<1>4. CASE FindsImporter(i)
  <2> DEFINE found == find(r.source)
             q == [r EXCEPT !.importer = found]
  <2>1. CASE pipelineDown \/ found = None
    <3> DEFINE s == thrown(r, i, "asset")
    <3>1. Becomes(i, s)
      BY <1>4, <2>1 DEF FindsImporter
    <3> HIDE DEF r
    <3>2. "asset" \in Errors
      BY DEF Errors
    <3>3. /\ s \in Executions /\ Holds(s, i) /\ s.at # "stage"
          /\ s.attempt = r.attempt /\ s.importer = r.importer
      BY <1>1, <1>2, <3>2, ThrownHolds
    <3> HIDE DEF s
    <3>4. Heard(i, r, s)
      BY <3>3, QuietIsHeard
    <3> QED
      BY <3>1, <3>3, <3>4, StepOfOne DEF r
  <2>2. CASE ~pipelineDown /\ found # None
    <3> DEFINE s == runStages(q, i, "before-import")
    <3>1. Becomes(i, s)
      BY <1>4, <2>2 DEF FindsImporter
    <3> HIDE DEF r
    <3>2. r.source \in Sources
      BY <1>1 DEF Executions
    <3>3. found \in importers /\ Tier[found][r.source] # 0
      BY <1>1, <2>2, <3>2, FoundMatches
    <3>4. found \in Importers /\ found # None
      BY <1>1, <2>2, <3>3
    <3> HIDE DEF found
    <3>5. q \in Executions
      BY <1>1, <3>4 DEF Executions
    <3>6. q.attempt = r.attempt /\ q.importer = found /\ q.source = r.source
      BY <1>1 DEF Executions
    <3> HIDE DEF q
    <3>7. "before-import" \in Phases /\ "before-import" # "after-import"
      BY DEF Phases
    <3>8. /\ s \in Executions /\ Holds(s, i)
          /\ s.at = "stage" => i \notin aborted /\ stages # {}
          /\ s.attempt = q.attempt
      BY <1>1, <1>2, <3>3, <3>4, <3>5, <3>6, <3>7, PhaseHolds
    <3> HIDE DEF s
    <3>9. Heard(i, r, s)
      BY <2>2, <3>6, <3>8 DEF Heard, Begins
    <3> QED
      BY <3>1, <3>8, <3>9, StepOfOne DEF r
  <2> QED
    BY <2>1, <2>2
<1>5. CASE CallsImporter(i)
  <2>1. CASE r.result
    <3> DEFINE s == runStages(r, i, "after-import")
    <3>1. Becomes(i, s) /\ r.at = "between" /\ r.phase = "before-import"
      BY <1>5, <2>1 DEF CallsImporter
    <3> HIDE DEF r
    <3>2. r.importer # None
      BY <1>3, <3>1 DEF Ready
    <3>3. "after-import" \in Phases /\ "before-import" # "after-import"
      BY DEF Phases
    <3>4. /\ s \in Executions /\ Holds(s, i)
          /\ s.at = "stage" => i \notin aborted /\ stages # {}
          /\ s.attempt = r.attempt /\ s.importer = r.importer
      BY <1>1, <1>2, <2>1, <3>2, <3>3, PhaseHolds
    <3> HIDE DEF s
    <3>5. Heard(i, r, s)
      BY <1>1, <3>4 DEF Heard, Begins
    <3> QED
      BY <3>1, <3>4, <3>5, StepOfOne DEF r
  <2>2. CASE ~r.result
    <3> DEFINE s == [r EXCEPT !.at = "importing"]
    <3>1. Becomes(i, s) /\ r.at = "between" /\ r.phase = "before-import"
      BY <1>5, <2>2 DEF CallsImporter
    <3> HIDE DEF r
    <3>2. s \in Executions
      BY <1>1 DEF Executions
    <3>3. /\ s.at = "importing" /\ s.attempt = r.attempt /\ s.importer = r.importer
          /\ s.queue = r.queue /\ s.phase = r.phase /\ s.source = r.source
          /\ s.rerouted = r.rerouted
      BY <1>1 DEF Executions
    <3> HIDE DEF s
    <3>4. Holds(s, i)
      BY <1>2, <1>3, <3>1, <3>3 DEF Holds, ImportAgrees, Ready
    <3>5. Heard(i, r, s)
      BY <3>3, QuietIsHeard
    <3> QED
      BY <3>1, <3>2, <3>4, <3>5, StepOfOne DEF r
  <2> QED
    BY <2>1, <2>2
<1>6. CASE ImporterAnswers(i)
  <2> DEFINE q == [r EXCEPT !.result = TRUE]
             s == runStages(q, i, "after-import")
  <2>1. Becomes(i, s) /\ r.at = "importing"
    BY <1>6 DEF ImporterAnswers
  <2>2. r.importer # None
    BY <1>1, <2>1 DEF Holds
  <2> HIDE DEF r
  <2>3. q \in Executions /\ q.attempt = r.attempt /\ q.importer = r.importer /\ q.result
    BY <1>1 DEF Executions
  <2> HIDE DEF q
  <2>4. "after-import" \in Phases /\ "before-import" # "after-import"
    BY DEF Phases
  <2>5. /\ s \in Executions /\ Holds(s, i)
        /\ s.at = "stage" => i \notin aborted /\ stages # {}
        /\ s.attempt = r.attempt /\ s.importer = r.importer
    BY <1>1, <1>2, <2>2, <2>3, <2>4, PhaseHolds
  <2> HIDE DEF s
  <2>6. Heard(i, r, s)
    BY <1>1, <2>5 DEF Heard, Begins
  <2> QED
    BY <2>1, <2>5, <2>6, StepOfOne DEF r
<1>7. CASE Delivers(i)
  <2> DEFINE s == [r EXCEPT !.at = "delivered"]
  <2>1. Becomes(i, s) /\ r.at = "between" /\ r.phase = "after-import"
    BY <1>7 DEF Delivers
  <2> HIDE DEF r
  <2>2. s \in Executions
    BY <1>1 DEF Executions
  <2>3. /\ s.at = "delivered" /\ s.attempt = r.attempt /\ s.importer = r.importer
        /\ s.queue = r.queue /\ s.phase = r.phase /\ s.result = r.result
    BY <1>1 DEF Executions
  <2> HIDE DEF s
  <2>4. Holds(s, i)
    BY <1>2, <1>3, <2>1, <2>3 DEF Holds, ImportAgrees, Ready
  <2>5. Heard(i, r, s)
    BY <2>3, QuietIsHeard
  <2> QED
    BY <2>1, <2>2, <2>4, <2>5, StepOfOne DEF r
<1> QED
  BY <1>4, <1>5, <1>6, <1>7

\* An abort, a change of the registries and the end of the pipeline leave every
\* execution where it is.
LEMMA OthersHold ==
    ASSUME ImportInv,
           \/ \E i \in Imports : Abort(i)
           \/ \E m \in Importers : RegisterImporter(m) \/ UnregisterImporter(m)
           \/ \E s \in Stages : RegisterStage(s) \/ UnregisterStage(s)
           \/ DisposePipeline \/ UNCHANGED importVars
    PROVE  ImportInv' /\ \A j \in Imports : Heard(j, imports[j], imports'[j])
<1>1. imports' = imports /\ aborted \subseteq aborted' /\ aborted' \subseteq Imports
  BY DEF Abort, RegisterImporter, UnregisterImporter, RegisterStage, UnregisterStage,
         DisposePipeline, importVars, ImportInv, ImportTypeOK
<1>2. ImportTypeOK'
  BY <1>1 DEF Abort, RegisterImporter, UnregisterImporter, RegisterStage, UnregisterStage,
              DisposePipeline, importVars, ImportInv, ImportTypeOK
<1>3. EmptiedByDispose'
  BY DEF Abort, RegisterImporter, UnregisterImporter, RegisterStage, UnregisterStage,
         DisposePipeline, importVars, ImportInv, EmptiedByDispose
<1>4. ASSUME NEW j \in Imports PROVE Holds(imports[j], j)'
  <2>1. Holds(imports[j], j)
    BY DEF ImportInv
  <2> QED
    BY <1>1, <2>1 DEF Holds, ImportAgrees, Ready
<1>5. ASSUME NEW j \in Imports PROVE Heard(j, imports[j], imports'[j])
  BY <1>1, OneExecution DEF Heard, Begins, Executions
<1> QED
  BY <1>2, <1>3, <1>4, <1>5 DEF ImportInv

----------------------------------------------------------------------------
(* The theorems                                                            *)

LEMMA ImportInitHolds ==
    ASSUME ImportAssumption, ImportInit
    PROVE  ImportInv
<1> DEFINE r == [at |-> "idle", attempt |-> 0, phase |-> "source", queue |-> {},
                 running |-> None, source |-> FirstSource, rerouted |-> FALSE,
                 importer |-> None, result |-> FALSE, error |-> None]
<1>1. FirstSource \in Sources /\ MaxAttempts \in Nat
  BY DEF ImportAssumption
<1>2. r \in Executions
  BY <1>1 DEF Executions, Phases
<1>3. imports = [i \in Imports |-> r]
  BY DEF ImportInit
<1>4. \A i \in Imports : Holds(r, i)
  BY <1>1 DEF Holds, ImportAgrees
<1>5. ImportTypeOK /\ EmptiedByDispose
  BY <1>2, <1>3 DEF ImportInit, ImportTypeOK, EmptiedByDispose
<1> HIDE DEF r
<1> QED
  BY <1>3, <1>4, <1>5 DEF ImportInv

LEMMA StepHolds ==
    ASSUME ImportAssumption, ImportInv, [ImportNext]_importVars
    PROVE  ImportInv' /\ \A j \in Imports : Heard(j, imports[j], imports'[j])
<1>1. ASSUME NEW i \in Imports, Import(i) \/ DelayEnds(i)
      PROVE  ImportInv' /\ \A j \in Imports : Heard(j, imports[j], imports'[j])
  BY <1>1, AttemptsHold
<1>2. ASSUME NEW i \in Imports,
             FindsImporter(i) \/ CallsImporter(i) \/ ImporterAnswers(i) \/ Delivers(i)
      PROVE  ImportInv' /\ \A j \in Imports : Heard(j, imports[j], imports'[j])
  BY <1>2, GoesOnHolds
<1>3. ASSUME NEW i \in Imports, NEW source \in Sources, NEW result \in BOOLEAN,
             StageAnswers(i, source, result)
      PROVE  ImportInv' /\ \A j \in Imports : Heard(j, imports[j], imports'[j])
  BY <1>3, StageAnswersHolds
<1>4. ASSUME NEW i \in Imports, NEW e \in Errors, StageThrows(i, e) \/ ImporterThrows(i, e)
      PROVE  ImportInv' /\ \A j \in Imports : Heard(j, imports[j], imports'[j])
  BY <1>4, ThrowsHold
<1>5. ASSUME \/ \E i \in Imports : Abort(i)
             \/ \E m \in Importers : RegisterImporter(m) \/ UnregisterImporter(m)
             \/ \E s \in Stages : RegisterStage(s) \/ UnregisterStage(s)
             \/ DisposePipeline \/ UNCHANGED importVars
      PROVE  ImportInv' /\ \A j \in Imports : Heard(j, imports[j], imports'[j])
  BY <1>5, OthersHold
<1> QED
  BY <1>1, <1>2, <1>3, <1>4, <1>5 DEF ImportNext

\* However registries, aborts, retries and dispose() interleave with an import,
\* its stages run by rank in their phases, the importer gets a source it takes
\* unless a stage changed it, and its end is the one its attempts and its signal
\* called for (importer.ts _executeImport, _runStages).
THEOREM ImportsStayAgreed ==
    ASSUME ImportAssumption
    PROVE  ImportSpec => []ImportsAgree
<1>1. ImportInit => ImportInv
  BY ImportInitHolds
<1>2. ImportInv /\ [ImportNext]_importVars => ImportInv'
  BY StepHolds
<1>3. ImportInv => ImportsAgree
  BY DEF ImportInv, ImportsAgree, Holds
<1> QED
  BY <1>1, <1>2, <1>3, PTL DEF ImportSpec

\* After the abort of its signal an import begins neither a stage nor an attempt,
\* and after dispose() it finds no importer and takes up no stage.
THEOREM StopsStayHeard ==
    ASSUME ImportAssumption
    PROVE  ImportSpec => StopsAreHeard
<1>1. ImportInit => ImportInv
  BY ImportInitHolds
<1>2. ImportInv /\ [ImportNext]_importVars => ImportInv'
  BY StepHolds
<1>3. ImportInv /\ [ImportNext]_importVars
      => [\A i \in Imports : Heard(i, imports[i], imports'[i])]_importVars
  BY StepHolds
<1> QED
  BY <1>1, <1>2, <1>3, PTL DEF ImportSpec, StopsAreHeard

-----------------------------------------------------------------------------
(***************************************************************************)
(* The slots of an object pool, the free list, the heap and the numbers in *)
(* the objects describe each other, and every allocated slot belongs to a  *)
(* caller who can give its object back, through every order of acquiring,  *)
(* waiting, releasing, expanding, resizing, draining and late fillings.    *)
(***************************************************************************)

SlotSet == [obj : Nat, status : {"free", "allocated"}]
CallerSet == [stage : {"idle", "waiting", "filling", "holding"}, obj : Nat]

used(ss) == {i \in 1..Len(ss) : ss[i].status = "allocated"}
holders(cs) == {c \in Callers : cs[c].stage = "holding"}

\* Object o lies in the slot that its number names.
Lies(ss, ids, o) == ids[o] \in 1..Len(ss) /\ ss[ids[o]].obj = o /\ ss[ids[o]].status = "allocated"

SlotsHold(ss, free, heap, ids, away) ==
    /\ ss \in Seq(SlotSet) /\ ids \in Seq(Nat)
    /\ free = freeIds(ss) /\ heap \in SUBSET free
    /\ \A i \in 1..Len(ss) : ss[i].obj # 0 =>
          /\ ss[i].obj \in 1..Len(ids) /\ ids[ss[i].obj] = i /\ ss[i].obj \notin away
    /\ away \in SUBSET (1..Len(ids))

HandsHold(cs, ids) ==
    /\ cs \in [Callers -> CallerSet]
    /\ \A c \in Callers : cs[c].obj \in 0..Len(ids)
    /\ \A c \in holders(cs) : cs[c].obj # 0
    /\ \A c, d \in holders(cs) : cs[c].obj = cs[d].obj => c = d

Backed(ss, ids, cs, away) ==
    /\ IsFiniteSet(holders(cs)) /\ Cardinality(used(ss)) = Cardinality(holders(cs))
    /\ \A c \in holders(cs) : cs[c].obj \in away \/ Lies(ss, ids, cs[c].obj)

\* The slots, the hands and what backs them.
Sound(ss, free, heap, ids, away, cs) ==
    SlotsHold(ss, free, heap, ids, away) /\ HandsHold(cs, ids) /\ Backed(ss, ids, cs, away)

QueueHolds(queue, cs) ==
    /\ queue \in Seq(Callers) /\ HasNoRepeats(queue)
    /\ \A c \in Elements(queue) : cs[c].stage = "waiting"

PoolInv ==
    /\ SlotsHold(slots, freeList, lruHeap, poolId, ousted)
    /\ HandsHold(callers, poolId)
    /\ ~poolGone => Backed(slots, poolId, callers, ousted)
    /\ QueueHolds(waitQueue, callers)

LEMMA SlotTypes ==
    ASSUME NEW ss \in Seq(SlotSet)
    PROVE  /\ Len(ss) \in Nat /\ slotIds(ss) = 1..Len(ss)
           /\ \A i \in 1..Len(ss) : ss[i] \in SlotSet /\ ss[i].obj \in Nat
                                    /\ ss[i].status \in {"free", "allocated"}
           /\ freeIds(ss) = (1..Len(ss)) \ used(ss)
           /\ used(ss) \in SUBSET (1..Len(ss))
           /\ IsFiniteSet(used(ss)) /\ Cardinality(used(ss)) \in Nat
           /\ IsFiniteSet(freeIds(ss)) /\ Cardinality(freeIds(ss)) \in Nat
           /\ Len(ss) - Cardinality(freeIds(ss)) = Cardinality(used(ss))
<1>1. Len(ss) \in Nat /\ DOMAIN ss = 1..Len(ss)
  BY LenProperties
<1>2. \A i \in 1..Len(ss) : ss[i] \in SlotSet
  BY ElementOfSeq
<1>3. \A i \in 1..Len(ss) : ss[i].obj \in Nat /\ ss[i].status \in {"free", "allocated"}
  BY <1>2 DEF SlotSet
<1>4. /\ freeIds(ss) = (1..Len(ss)) \ used(ss) /\ used(ss) \in SUBSET (1..Len(ss))
      /\ freeIds(ss) \in SUBSET (1..Len(ss))
  BY <1>1, <1>3 DEF freeIds, slotIds, used
<1>5. IsFiniteSet(1..Len(ss)) /\ Cardinality(1..Len(ss)) = Len(ss)
  BY <1>1, FS_Interval
<1>6. IsFiniteSet(used(ss)) /\ Cardinality(used(ss)) \in Nat
  BY <1>4, <1>5, FS_Subset, FS_CardinalityType
<1>7. IsFiniteSet(freeIds(ss)) /\ Cardinality(freeIds(ss)) \in Nat
  BY <1>4, <1>5, FS_Subset, FS_CardinalityType
<1>8. Cardinality((1..Len(ss)) \ used(ss))
        = Cardinality(1..Len(ss)) - Cardinality((1..Len(ss)) \intersect used(ss))
  BY <1>5, FS_Difference
<1>9. (1..Len(ss)) \intersect used(ss) = used(ss)
  BY <1>4
<1>10. Len(ss) - Cardinality(freeIds(ss)) = Cardinality(used(ss))
  <2>1. Cardinality(freeIds(ss)) = Len(ss) - Cardinality(used(ss))
    BY <1>4, <1>5, <1>8, <1>9, Zenon
  <2>2. PICK n, k : n = Cardinality(freeIds(ss)) /\ k = Cardinality(used(ss))
    OBVIOUS
  <2>3. n = Len(ss) - k /\ n \in Nat /\ k \in Nat
    BY <1>6, <1>7, <2>1, <2>2
  <2>4. Len(ss) - n = k
    BY <1>1, <2>3
  <2> QED
    BY <2>2, <2>4
<1> QED
  BY <1>1, <1>2, <1>3, <1>4, <1>6, <1>7, <1>10 DEF slotIds

\* PoolInv is enough for the invariant that is checked.
LEMMA PoolInvIsEnough ==
    ASSUME PoolInv
    PROVE  PoolAgrees
<1>1. /\ SlotsHold(slots, freeList, lruHeap, poolId, ousted) /\ HandsHold(callers, poolId)
      /\ QueueHolds(waitQueue, callers)
  BY DEF PoolInv
<1>2. slots \in Seq(SlotSet) /\ poolId \in Seq(Nat)
  BY <1>1 DEF SlotsHold
<1>3. /\ Len(slots) \in Nat /\ slotIds(slots) = 1..Len(slots)
      /\ \A i \in 1..Len(slots) : slots[i] \in SlotSet
      /\ freeIds(slots) = (1..Len(slots)) \ used(slots)
      /\ Len(slots) - Cardinality(freeIds(slots)) = Cardinality(used(slots))
  BY <1>2, SlotTypes
<1>4. Len(poolId) \in Nat
  BY <1>2, LenProperties
<1>5. PoolTypeOK
  <2>1. \A i \in slotIds(slots) : slots[i] \in [obj : 0..Len(poolId), status : {"free", "allocated"}]
    BY <1>1, <1>3, <1>4 DEF SlotsHold, SlotSet
  <2>2. freeList \subseteq slotIds(slots) /\ lruHeap \subseteq Nat
    BY <1>1, <1>3 DEF SlotsHold
  <2>3. Elements(waitQueue) \subseteq Callers
    BY <1>1, ElementsTyped DEF QueueHolds
  <2>4. callers \in [Callers -> [stage : {"idle", "waiting", "filling", "holding"},
                                 obj : 0..Len(poolId)]]
    BY <1>1 DEF HandsHold, CallerSet
  <2> QED
    BY <2>1, <2>2, <2>3, <2>4 DEF PoolTypeOK
<1>6. Holders = holders(callers)
  BY DEF Holders, holders
<1>7. freeList = freeIds(slots) /\ lruHeap \subseteq freeList
  BY <1>1 DEF SlotsHold
<1>8. \A i \in slotIds(slots) : slots[i].obj # 0 => poolId[slots[i].obj] = i
  BY <1>1, <1>3 DEF SlotsHold
<1>9. ~poolGone => Len(slots) - Cardinality(freeList) = Cardinality(Holders)
  BY <1>3, <1>6, <1>7 DEF PoolInv, Backed
<1>10. HeldOnce
  BY <1>1, <1>6 DEF HandsHold, HeldOnce
<1>11. HeldIsReturnable
  BY <1>3, <1>6 DEF PoolInv, Backed, Lies, HeldIsReturnable, IsFromPool
<1> QED
  BY <1>5, <1>7, <1>8, <1>9, <1>10, <1>11 DEF PoolAgrees

\* Empty slots are added at the end.
GrownTo(ss, n, ss2) == ss2 = ss \o [i \in 1..(n - Len(ss)) |-> empty]

LEMMA Grows ==
    ASSUME NEW ss, NEW free, NEW heap, NEW ids, NEW away, SlotsHold(ss, free, heap, ids, away),
           NEW n \in Int, NEW ss2, GrownTo(ss, n, ss2),
           NEW heap2 \in SUBSET freeIds(ss2)
    PROVE  /\ SlotsHold(ss2, freeIds(ss2), heap2, ids, away)
           /\ used(ss2) = used(ss)
           /\ free \in SUBSET freeIds(ss2)
           /\ freeIds(ss2) = free \cup (slotIds(ss2) \ slotIds(ss))
           /\ \A cs : Backed(ss, ids, cs, away) => Backed(ss2, ids, cs, away)
<1>1. ss \in Seq(SlotSet) /\ Len(ss) \in Nat
  BY LenProperties DEF SlotsHold
<1>2. PICK m \in Nat : 1..(n - Len(ss)) = 1..m
  <2>1. CASE n >= Len(ss)
    <3>1. n - Len(ss) \in Nat
      BY <1>1, <2>1
    <3> QED
      BY <3>1
  <2>2. CASE ~(n >= Len(ss))
    <3>1. 1..(n - Len(ss)) = 1..0
      BY <1>1, <2>2
    <3> QED
      BY <3>1
  <2> QED
    BY <2>1, <2>2
<1>4. PICK tail : tail = [i \in 1..m |-> empty]
  OBVIOUS
<1>5. empty \in SlotSet /\ empty.obj = 0 /\ empty.status = "free"
  BY DEF empty, SlotSet
<1>6. tail \in Seq(SlotSet) /\ Len(tail) = m /\ \A i \in 1..m : tail[i] = empty
  BY <1>4, <1>5, IsASeq, LenProperties
<1>7. ss2 = ss \o tail
  BY <1>2, <1>4 DEF GrownTo
<1>8. /\ ss2 \in Seq(SlotSet) /\ Len(ss2) = Len(ss) + m
      /\ \A i \in 1..Len(ss2) : ss2[i] = IF i <= Len(ss) THEN ss[i] ELSE tail[i - Len(ss)]
  <2>1. ss2 \in Seq(SlotSet) /\ Len(ss2) = Len(ss) + Len(tail)
    BY <1>1, <1>6, <1>7, ConcatProperties
  <2>2. \A i \in 1..Len(ss) + Len(tail) :
            (ss \o tail)[i] = IF i <= Len(ss) THEN ss[i] ELSE tail[i - Len(ss)]
    BY <1>1, <1>6, ConcatProperties
  <2> QED
    BY <1>6, <1>7, <2>1, <2>2
<1>9. /\ \A i \in 1..Len(ss) : i \in 1..Len(ss2) /\ ss2[i] = ss[i]
      /\ \A i \in 1..Len(ss2) : i \notin 1..Len(ss) => ss2[i] = empty
  <2>1. Len(ss2) = Len(ss) + m /\ Len(ss) \in Nat /\ m \in Nat
    BY <1>1, <1>2, <1>8
  <2>2. PICK a, b : a = Len(ss) /\ b = Len(ss2)
    OBVIOUS
  <2>3. a \in Nat /\ m \in Nat /\ b = a + m
    BY <2>1, <2>2
  <2>4. /\ \A i \in 1..a : i \in 1..b /\ i <= a
        /\ \A i \in 1..b : i \notin 1..a => i - a \in 1..m /\ ~(i <= a)
    BY <2>3
  <2> QED
    BY <1>6, <1>8, <2>2, <2>4
<1>10. /\ slotIds(ss) = 1..Len(ss) /\ slotIds(ss2) = 1..Len(ss2)
       /\ freeIds(ss) = (1..Len(ss)) \ used(ss) /\ freeIds(ss2) = (1..Len(ss2)) \ used(ss2)
  BY <1>1, <1>8, SlotTypes
<1>11. used(ss2) = used(ss)
  BY <1>5, <1>9 DEF used
<1>12. free = freeIds(ss)
  BY DEF SlotsHold
<1>13. /\ free \in SUBSET freeIds(ss2)
       /\ freeIds(ss2) = free \cup (slotIds(ss2) \ slotIds(ss))
  <2>1. used(ss) \in SUBSET (1..Len(ss))
    BY <1>1, SlotTypes
  <2> QED
    BY <1>9, <1>10, <1>11, <1>12, <2>1
<1>14. SlotsHold(ss2, freeIds(ss2), heap2, ids, away)
  <2>1. \A i \in 1..Len(ss2) : ss2[i].obj # 0 =>
            /\ ss2[i].obj \in 1..Len(ids) /\ ids[ss2[i].obj] = i /\ ss2[i].obj \notin away
    <3> TAKE i \in 1..Len(ss2)
    <3>1. CASE i \in 1..Len(ss)
      BY <1>9, <3>1 DEF SlotsHold
    <3>2. CASE i \notin 1..Len(ss)
      BY <1>5, <1>9, <3>2
    <3> QED
      BY <3>1, <3>2
  <2> QED
    BY <1>8, <2>1 DEF SlotsHold
<1>15. \A o : Lies(ss, ids, o) => Lies(ss2, ids, o)
  BY <1>9 DEF Lies
<1>16. \A cs : Backed(ss, ids, cs, away) => Backed(ss2, ids, cs, away)
  BY <1>11, <1>15 DEF Backed
<1> QED
  BY <1>11, <1>13, <1>14, <1>16

\* The object o of free slot i and the numbers ids2: there was one, or it is made now.
Made(ss, ids, i, o, ids2) ==
    \/ ss[i].obj # 0 /\ o = ss[i].obj /\ ids2 = [ids EXCEPT ![o] = i]
    \/ ss[i].obj = 0 /\ o = Len(ids) + 1 /\ ids2 = [Append(ids, i) EXCEPT ![o] = i]

\* Slot i has object o and status st; caller c has object o.
Puts(ss, i, o, st, ss2) == ss2 = [ss EXCEPT ![i] = [obj |-> o, status |-> st]]
Gets(cs, c, o, cs2) == cs2 = [cs EXCEPT ![c] = [stage |-> "holding", obj |-> o]]

Making(ss, free, heap, ids, away, cs, i, o, ids2, ss2, heap2) ==
    /\ Sound(ss, free, heap, ids, away, cs) /\ i \in free /\ heap2 \in SUBSET free
    /\ Made(ss, ids, i, o, ids2) /\ Puts(ss, i, o, "free", ss2)

LEMMA Makes ==
    ASSUME NEW ss, NEW free, NEW heap, NEW ids, NEW away, NEW cs,
           NEW i, NEW o, NEW ids2, NEW ss2, NEW heap2,
           Making(ss, free, heap, ids, away, cs, i, o, ids2, ss2, heap2)
    PROVE  /\ Sound(ss2, free, heap2, ids2, away, cs)
           /\ i \in 1..Len(ss2) /\ ss2[i].obj = o /\ o # 0 /\ Len(ids2) \in Nat /\ o \in 1..Len(ids2)
<1>0. /\ SlotsHold(ss, free, heap, ids, away) /\ HandsHold(cs, ids) /\ Backed(ss, ids, cs, away)
      /\ i \in free /\ heap2 \in SUBSET free
      /\ Made(ss, ids, i, o, ids2) /\ Puts(ss, i, o, "free", ss2)
  BY DEF Making, Sound
<1>1. /\ ss \in Seq(SlotSet) /\ ids \in Seq(Nat) /\ Len(ids) \in Nat /\ Len(ss) \in Nat
      /\ free = freeIds(ss) /\ away \in SUBSET (1..Len(ids))
      /\ \A x \in 1..Len(ss) : ss[x].obj # 0 =>
            /\ ss[x].obj \in 1..Len(ids) /\ ids[ss[x].obj] = x /\ ss[x].obj \notin away
  BY <1>0, LenProperties DEF SlotsHold
<1>2. i \in 1..Len(ss) /\ i \in Nat /\ ss[i].status = "free" /\ i \notin used(ss)
  <2>1. slotIds(ss) = 1..Len(ss) /\ i \in freeIds(ss)
    BY <1>0, <1>1, SlotTypes
  <2>2. i \in 1..Len(ss) /\ ss[i].status = "free"
    BY <2>1 DEF freeIds
  <2> QED
    BY <1>1, <2>2 DEF used
<1>3. /\ ids2 \in Seq(Nat) /\ Len(ids) <= Len(ids2) /\ Len(ids2) \in Nat
      /\ o \in 1..Len(ids2) /\ o # 0 /\ o \notin away /\ ids2[o] = i
      /\ \A x \in 1..Len(ids) : ids2[x] = ids[x]
      /\ \A x \in 1..Len(ss) : x # i => ss[x].obj # o
  <2>1. CASE ss[i].obj # 0 /\ o = ss[i].obj /\ ids2 = [ids EXCEPT ![o] = i]
    <3>1. o \in 1..Len(ids) /\ ids[o] = i /\ o \notin away
      BY <1>1, <1>2, <2>1
    <3>2. /\ ids2 \in Seq(Nat) /\ Len(ids2) = Len(ids)
          /\ \A x \in 1..Len(ids) : ids2[x] = IF x = o THEN i ELSE ids[x]
      BY <1>1, <1>2, <2>1, <3>1, ExceptSeq
    <3> QED
      BY <1>1, <1>2, <2>1, <3>1, <3>2
  <2>2. CASE ss[i].obj = 0 /\ o = Len(ids) + 1 /\ ids2 = [Append(ids, i) EXCEPT ![o] = i]
    <3>1. PICK longer : longer = Append(ids, i)
      OBVIOUS
    <3>2. /\ longer \in Seq(Nat) /\ Len(longer) = Len(ids) + 1 /\ longer[Len(ids) + 1] = i
          /\ \A x \in 1..Len(ids) : longer[x] = ids[x]
      BY <1>1, <1>2, <3>1, AppendProperties
    <3>3. o \in 1..Len(longer)
      BY <1>1, <2>2, <3>2
    <3>4. /\ ids2 \in Seq(Nat) /\ Len(ids2) = Len(longer)
          /\ \A x \in 1..Len(longer) : ids2[x] = IF x = o THEN i ELSE longer[x]
      <4>1. ids2 = [longer EXCEPT ![o] = i]
        BY <2>2, <3>1
      <4> QED
        BY <1>2, <3>2, <3>3, <4>1, ExceptSeq
    <3> QED
      BY <1>1, <1>2, <2>2, <3>2, <3>3, <3>4
  <2> QED
    BY <1>0, <2>1, <2>2 DEF Made
<1>4. PICK e : e = [obj |-> o, status |-> "free"]
  OBVIOUS
<1>5. e \in SlotSet /\ e.obj = o /\ e.status = "free"
  BY <1>3, <1>4 DEF SlotSet
<1>6. ss2 = [ss EXCEPT ![i] = e]
  BY <1>0, <1>4 DEF Puts
<1>7. /\ ss2 \in Seq(SlotSet) /\ Len(ss2) = Len(ss)
      /\ \A x \in 1..Len(ss) : ss2[x] = IF x = i THEN e ELSE ss[x]
  BY <1>1, <1>2, <1>5, <1>6, ExceptSeq
<1>8. used(ss2) = used(ss)
  BY <1>2, <1>5, <1>7 DEF used
<1>9. freeIds(ss2) = free
  BY <1>1, <1>7, <1>8, SlotTypes
<1>10. SlotsHold(ss2, free, heap2, ids2, away)
  <2>1. ASSUME NEW x \in 1..Len(ss2), ss2[x].obj # 0
        PROVE  ss2[x].obj \in 1..Len(ids2) /\ ids2[ss2[x].obj] = x /\ ss2[x].obj \notin away
    <3>1. CASE x = i
      BY <1>3, <1>5, <1>7, <2>1, <3>1
    <3>2. CASE x # i
      <4>1. x \in 1..Len(ss) /\ ss2[x] = ss[x] /\ ss[x].obj # 0
        BY <1>7, <2>1, <3>2
      <4>2. ss[x].obj \in 1..Len(ids) /\ ids[ss[x].obj] = x /\ ss[x].obj \notin away
        BY <1>1, <4>1
      <4>3. ss[x].obj \in 1..Len(ids2) /\ ids2[ss[x].obj] = ids[ss[x].obj]
        BY <1>1, <1>3, <4>2
      <4> QED
        BY <4>1, <4>2, <4>3
    <3> QED
      BY <3>1, <3>2
  <2>2. away \in SUBSET (1..Len(ids2))
    BY <1>1, <1>3
  <2> QED
    BY <1>0, <1>3, <1>7, <1>9, <2>1, <2>2 DEF SlotsHold
<1>11. HandsHold(cs, ids2)
  BY <1>0, <1>1, <1>3 DEF HandsHold
<1>12. Backed(ss2, ids2, cs, away)
  <2>1. ASSUME NEW c \in holders(cs), Lies(ss, ids, cs[c].obj)
        PROVE  Lies(ss2, ids2, cs[c].obj)
    <3>1. cs[c].obj \in 1..Len(ids)
      BY <1>0, <1>1 DEF HandsHold, holders
    <3> QED
      BY <1>2, <1>3, <1>7, <2>1, <3>1 DEF Lies
  <2> QED
    BY <1>0, <1>8, <2>1 DEF Backed
<1> QED
  BY <1>2, <1>3, <1>5, <1>7, <1>10, <1>11, <1>12 DEF Sound

\* Caller c, who has nothing, takes the object o of free slot i.
LEMMA Allocates ==
    ASSUME NEW ss, NEW free, NEW heap, NEW ids, NEW away, NEW cs,
           Sound(ss, free, heap, ids, away, cs),
           NEW i \in free, NEW o, o = ss[i].obj, o # 0,
           NEW c \in Callers, cs[c].stage # "holding",
           NEW ss2, Puts(ss, i, o, "allocated", ss2),
           NEW cs2, Gets(cs, c, o, cs2),
           NEW heap2 \in SUBSET (free \ {i})
    PROVE  Sound(ss2, free \ {i}, heap2, ids, away, cs2)
<1>0. /\ SlotsHold(ss, free, heap, ids, away) /\ HandsHold(cs, ids) /\ Backed(ss, ids, cs, away)
  BY DEF Sound
<1>1. /\ ss \in Seq(SlotSet) /\ ids \in Seq(Nat) /\ Len(ids) \in Nat /\ Len(ss) \in Nat
      /\ free = freeIds(ss) /\ away \in SUBSET (1..Len(ids))
      /\ \A x \in 1..Len(ss) : ss[x].obj # 0 =>
            /\ ss[x].obj \in 1..Len(ids) /\ ids[ss[x].obj] = x /\ ss[x].obj \notin away
  BY <1>0, LenProperties DEF SlotsHold
<1>2. i \in 1..Len(ss) /\ ss[i].status = "free" /\ i \notin used(ss)
  BY <1>1, SlotTypes DEF freeIds
<1>3. o \in 1..Len(ids) /\ ids[o] = i /\ o \notin away /\ o \in Nat
  BY <1>1, <1>2
<1>4. PICK e : e = [obj |-> o, status |-> "allocated"]
  OBVIOUS
<1>5. e \in SlotSet /\ e.obj = o /\ e.status = "allocated"
  BY <1>3, <1>4 DEF SlotSet
<1>6. ss2 = [ss EXCEPT ![i] = e]
  BY <1>4 DEF Puts
<1>7. /\ ss2 \in Seq(SlotSet) /\ Len(ss2) = Len(ss)
      /\ \A x \in 1..Len(ss) : ss2[x] = IF x = i THEN e ELSE ss[x]
  BY <1>1, <1>2, <1>5, <1>6, ExceptSeq
<1>8. used(ss2) = used(ss) \cup {i}
  BY <1>2, <1>5, <1>7 DEF used
<1>9. freeIds(ss2) = free \ {i}
  BY <1>1, <1>7, <1>8, SlotTypes
<1>10. SlotsHold(ss2, free \ {i}, heap2, ids, away)
  <2>1. \A x \in 1..Len(ss2) : ss2[x].obj = ss[x].obj
    BY <1>5, <1>7
  <2> QED
    BY <1>0, <1>1, <1>7, <1>9, <2>1 DEF SlotsHold
<1>11. PICK q : q = [stage |-> "holding", obj |-> o]
  OBVIOUS
<1>12. q \in CallerSet /\ q.stage = "holding" /\ q.obj = o
  BY <1>3, <1>11 DEF CallerSet
<1>13. cs2 = [cs EXCEPT ![c] = q] /\ cs \in [Callers -> CallerSet]
  BY <1>0, <1>11 DEF HandsHold, Gets
<1>14. /\ cs2 \in [Callers -> CallerSet] /\ cs2[c] = q
       /\ \A d \in Callers : d # c => cs2[d] = cs[d]
  BY <1>12, <1>13
<1>15. holders(cs2) = holders(cs) \cup {c} /\ c \notin holders(cs)
  BY <1>12, <1>14 DEF holders
<1>16. ASSUME NEW d \in holders(cs) PROVE cs[d].obj # o
  <2>1. cs[d].obj \in away \/ Lies(ss, ids, cs[d].obj)
    BY <1>0 DEF Backed
  <2> QED
    BY <1>2, <1>3, <2>1 DEF Lies
<1>17. HandsHold(cs2, ids)
  <2>1. \A d \in Callers : cs2[d].obj \in 0..Len(ids)
    BY <1>0, <1>1, <1>3, <1>12, <1>14 DEF HandsHold
  <2>2. \A d \in holders(cs2) : cs2[d].obj # 0
    BY <1>0, <1>12, <1>14, <1>15 DEF HandsHold, holders
  <2>3. \A d, f \in holders(cs2) : cs2[d].obj = cs2[f].obj => d = f
    <3> TAKE d, f \in holders(cs2)
    <3>1. d = c \/ (d \in holders(cs) /\ cs2[d] = cs[d])
      BY <1>14, <1>15 DEF holders
    <3>2. f = c \/ (f \in holders(cs) /\ cs2[f] = cs[f])
      BY <1>14, <1>15 DEF holders
    <3> QED
      BY <1>0, <1>12, <1>14, <1>16, <3>1, <3>2 DEF HandsHold
  <2> QED
    BY <1>0, <1>14, <2>1, <2>2, <2>3 DEF HandsHold
<1>18. Backed(ss2, ids, cs2, away)
  <2>1. /\ IsFiniteSet(holders(cs2)) /\ Cardinality(holders(cs2)) = Cardinality(holders(cs)) + 1
    <3>1. IsFiniteSet(holders(cs))
      BY <1>0 DEF Backed
    <3> QED
      <4>1. /\ IsFiniteSet(holders(cs) \cup {c})
            /\ Cardinality(holders(cs) \cup {c}) = Cardinality(holders(cs)) + 1
        BY <1>15, <3>1, FS_AddElement
      <4> QED
        BY <1>15, <4>1, Zenon
  <2>2. Cardinality(used(ss2)) = Cardinality(used(ss)) + 1
    <3>1. IsFiniteSet(used(ss))
      BY <1>1, SlotTypes
    <3> QED
      BY <1>2, <1>8, <3>1, FS_AddElement
  <2>3. ASSUME NEW d \in holders(cs2) PROVE cs2[d].obj \in away \/ Lies(ss2, ids, cs2[d].obj)
    <3>1. CASE d = c
      BY <1>2, <1>3, <1>5, <1>7, <1>12, <1>14, <3>1 DEF Lies
    <3>2. CASE d # c
      <4>1. d \in holders(cs) /\ cs2[d] = cs[d]
        BY <1>14, <1>15, <3>2 DEF holders
      <4>2. cs[d].obj \in away \/ Lies(ss, ids, cs[d].obj)
        BY <1>0, <4>1 DEF Backed
      <4> QED
        BY <1>2, <1>7, <4>1, <4>2 DEF Lies
    <3> QED
      BY <3>1, <3>2
  <2>4. Cardinality(used(ss)) = Cardinality(holders(cs))
    BY <1>0 DEF Backed
  <2> QED
    BY <1>0, <2>1, <2>2, <2>3, <2>4 DEF Backed
<1> QED
  BY <1>10, <1>17, <1>18 DEF Sound

\* A caller who has nothing turns to something else.
Turned(ids, cs, c, q, cs2) ==
    q \in CallerSet /\ q.stage # "holding" /\ q.obj \in 0..Len(ids) /\ cs2 = [cs EXCEPT ![c] = q]

LEMMA Turns ==
    ASSUME NEW ids, NEW cs, HandsHold(cs, ids), NEW c \in Callers, cs[c].stage # "holding",
           NEW cs2, NEW q, Turned(ids, cs, c, q, cs2)
    PROVE  /\ HandsHold(cs2, ids)
           /\ \A ss, away : Backed(ss, ids, cs, away) => Backed(ss, ids, cs2, away)
           /\ \A d \in Callers : d # c => cs2[d] = cs[d]
<1>1. cs \in [Callers -> CallerSet]
  BY DEF HandsHold
<1>2. /\ cs2 \in [Callers -> CallerSet] /\ cs2[c] = q
      /\ \A d \in Callers : d # c => cs2[d] = cs[d]
  BY <1>1 DEF Turned
<1>3. holders(cs2) = holders(cs) /\ \A d \in holders(cs) : cs2[d] = cs[d]
  BY <1>2 DEF holders, Turned
<1>4. \A d \in Callers : cs2[d].obj \in 0..Len(ids)
  BY <1>2 DEF HandsHold, Turned
<1>5. HandsHold(cs2, ids)
  BY <1>2, <1>3, <1>4 DEF HandsHold
<1> QED
  BY <1>2, <1>3, <1>5 DEF Backed

\* What a caller who waits for nothing does leaves the queue alone.
LEMMA QueueStays ==
    ASSUME NEW queue, NEW cs, QueueHolds(queue, cs), NEW c \in Callers, cs[c].stage # "waiting",
           NEW cs2, \A d \in Callers : d # c => cs2[d] = cs[d]
    PROVE  QueueHolds(queue, cs2)
<1>1. \A d \in Elements(queue) : d \in Callers /\ d # c
  BY ElementsTyped DEF QueueHolds
<1> QED
  BY <1>1 DEF QueueHolds

LEMMA PoolTakes ==
    ASSUME NEW ss, NEW free, NEW heap, Sound(ss, free, heap, poolId, ousted, callers),
           NEW c \in Callers, callers[c].stage # "holding", take(c, ss, free, heap)
    PROVE  /\ Sound(slots', freeList', lruHeap', poolId', ousted, callers')
           /\ \A d \in Callers : d # c => callers'[d] = callers[d]
<1>1. /\ SlotsHold(ss, free, heap, poolId, ousted) /\ HandsHold(callers, poolId)
      /\ Backed(ss, poolId, callers, ousted)
  BY DEF Sound
<1>2. ss \in Seq(SlotSet) /\ Len(ss) \in Nat /\ heap \in SUBSET free /\ free = freeIds(ss)
  BY <1>1, LenProperties DEF SlotsHold
<1>3. PICK i, o, ids2, heap2, ss3, cs2, free2 :
          /\ i \in nextFreeIds(free, heap) /\ Made(ss, poolId, i, o, ids2)
          /\ ids2 = poolId' /\ heap2 = lruHeap' /\ ss3 = slots' /\ cs2 = callers' /\ free2 = freeList'
          /\ heap2 = heap \ {i}
          /\ \/ /\ ss3 = [ss EXCEPT ![i] = [obj |-> o, status |-> "allocated"]]
                /\ free2 = free \ {i}
                /\ cs2 = [callers EXCEPT ![c] = [stage |-> "holding", obj |-> o]]
             \/ /\ ss3 = [ss EXCEPT ![i].obj = o] /\ free2 = free
                /\ cs2 = [callers EXCEPT ![c] = idle]
  <2>1. PICK i \in nextFreeIds(free, heap) :
            LET fresh == ss[i].obj = 0
                o == IF fresh THEN Len(poolId) + 1 ELSE ss[i].obj
                made == IF fresh THEN Append(poolId, i) ELSE poolId
            IN /\ poolId' = [made EXCEPT ![o] = i]
               /\ lruHeap' = heap \ {i}
               /\ \/ /\ slots' = [ss EXCEPT ![i] = [obj |-> o, status |-> "allocated"]]
                     /\ freeList' = free \ {i}
                     /\ callers' = [callers EXCEPT ![c] = [stage |-> "holding", obj |-> o]]
                  \/ /\ slots' = [ss EXCEPT ![i].obj = o] /\ freeList' = free
                     /\ callers' = [callers EXCEPT ![c] = idle]
    BY DEF take
  <2>2. PICK o : o = IF ss[i].obj = 0 THEN Len(poolId) + 1 ELSE ss[i].obj
    OBVIOUS
  <2>3. Made(ss, poolId, i, o, poolId')
    BY <2>1, <2>2 DEF Made
  <2> QED
    BY <2>1, <2>2, <2>3
<1>4. i \in free /\ i \in 1..Len(ss) /\ ss[i] \in SlotSet /\ ss[i].status = "free"
  <2>1. i \in free
    BY <1>2, <1>3 DEF nextFreeIds
  <2>2. slotIds(ss) = 1..Len(ss) /\ \A x \in 1..Len(ss) : ss[x] \in SlotSet
    BY <1>2, SlotTypes
  <2> QED
    BY <1>2, <2>1, <2>2 DEF freeIds
<1>5. PICK ss2 : ss2 = [ss EXCEPT ![i] = [obj |-> o, status |-> "free"]]
  OBVIOUS
<1>7. heap2 \in SUBSET free /\ heap2 \in SUBSET (free \ {i})
  BY <1>2, <1>3
<1>10. Made(ss, poolId, i, o, ids2)
  BY <1>3
<1>11. Puts(ss, i, o, "free", ss2)
  BY <1>5 DEF Puts
<1>6. /\ Sound(ss2, free, heap2, ids2, ousted, callers)
      /\ i \in 1..Len(ss2) /\ ss2[i].obj = o /\ o # 0 /\ Len(ids2) \in Nat /\ o \in 1..Len(ids2)
  <2>1. Making(ss, free, heap, poolId, ousted, callers, i, o, ids2, ss2, heap2)
    BY <1>4, <1>7, <1>10, <1>11 DEF Making
  <2> QED
    BY <2>1, Makes
<1>8. CASE /\ ss3 = [ss EXCEPT ![i] = [obj |-> o, status |-> "allocated"]]
           /\ free2 = free \ {i}
           /\ cs2 = [callers EXCEPT ![c] = [stage |-> "holding", obj |-> o]]
  <2>1. Puts(ss2, i, o, "allocated", ss3)
    BY <1>5, <1>8 DEF Puts
  <2>2. Sound(ss3, free \ {i}, heap2, ids2, ousted, cs2)
    <3>1. o = ss2[i].obj
      BY <1>6
    <3>2. o # 0 /\ Sound(ss2, free, heap2, ids2, ousted, callers)
      BY <1>6
    <3>3. Gets(callers, c, o, cs2)
      BY <1>8 DEF Gets
    <3> QED
      BY <1>4, <1>7, <2>1, <3>1, <3>2, <3>3, Allocates
  <2>3. \A d \in Callers : d # c => cs2[d] = callers[d]
    BY <1>1, <1>8 DEF HandsHold
  <2> QED
    BY <1>3, <1>8, <2>2, <2>3
<1>9. CASE /\ ss3 = [ss EXCEPT ![i].obj = o] /\ free2 = free
           /\ cs2 = [callers EXCEPT ![c] = idle]
  <2>1. ss3 = ss2
    <3>1. PICK e, f : e = [obj |-> o, status |-> "free"] /\ f = [ss[i] EXCEPT !.obj = o]
      OBVIOUS
    <3>2. e = f
      BY <1>4, <3>1 DEF SlotSet
    <3>3. ss3 = [ss EXCEPT ![i] = f] /\ ss2 = [ss EXCEPT ![i] = e]
      BY <1>5, <1>9, <3>1
    <3> QED
      BY <3>2, <3>3
  <2>2. PICK q : q = idle
    OBVIOUS
  <2>3. q \in CallerSet /\ q.stage = "idle" /\ q.obj = 0
    BY <2>2 DEF idle, CallerSet
  <2>4. cs2 = [callers EXCEPT ![c] = q] /\ q.stage # "holding"
    BY <1>9, <2>2, <2>3
  <2>5. q.obj \in 0..Len(ids2)
    BY <1>6, <2>3
  <2>6. HandsHold(callers, ids2) /\ Backed(ss2, ids2, callers, ousted)
        /\ SlotsHold(ss2, free, heap2, ids2, ousted)
    BY <1>6 DEF Sound
  <2>7. /\ HandsHold(cs2, ids2) /\ Backed(ss2, ids2, cs2, ousted)
        /\ \A d \in Callers : d # c => cs2[d] = callers[d]
    <3>1. Turned(ids2, callers, c, q, cs2)
      BY <2>3, <2>4, <2>5 DEF Turned
    <3> QED
      BY <2>6, <3>1, Turns
  <2> QED
    BY <1>3, <1>9, <2>1, <2>6, <2>7 DEF Sound
<1> QED
  BY <1>3, <1>8, <1>9

\* The invariant, with the slots, the hands and what backs them named at once.
LEMMA PoolIsSound ==
    PoolInv <=> /\ SlotsHold(slots, freeList, lruHeap, poolId, ousted)
                /\ HandsHold(callers, poolId)
                /\ QueueHolds(waitQueue, callers)
                /\ ~poolGone => Sound(slots, freeList, lruHeap, poolId, ousted, callers)
<1> QED
  BY DEF PoolInv, Sound

LEMMA PoolStaysSound ==
    ASSUME Sound(slots', freeList', lruHeap', poolId', ousted', callers'),
           QueueHolds(waitQueue', callers')
    PROVE  PoolInv'
<1> QED
  BY DEF PoolInv, Sound

LEMMA ExpandedType ==
    ASSUME PoolAssumption, NEW ss \in Seq(SlotSet), ss = slots
    PROVE  expanded \in Nat
<1>1. PICK a, b : a = 2 * Len(slots) /\ b = MaxCapacity
  OBVIOUS
<1>2. Len(ss) \in Nat /\ MaxCapacity \in Nat
  BY LenProperties DEF PoolAssumption
<1>3. a \in Nat /\ b \in Nat
  BY <1>1, <1>2
<1>4. \E x \in {a, b} : \A y \in {a, b} : x <= y
  BY <1>3
<1>5. Min({a, b}) \in {a, b}
  BY <1>4 DEF Min
<1> QED
  BY <1>1, <1>3, <1>5 DEF expanded

\* The slots that an expansion leaves, with their free ids and any heap of those.
LEMMA Expands ==
    ASSUME PoolAssumption, PoolInv, ~poolGone,
           NEW ss, ss = grown(expanded), NEW heap \in SUBSET freeIds(ss)
    PROVE  /\ Sound(ss, freeIds(ss), heap, poolId, ousted, callers)
           /\ lruHeap \in SUBSET freeIds(ss)
<1>1. Sound(slots, freeList, lruHeap, poolId, ousted, callers)
  BY PoolIsSound
<1>2. /\ SlotsHold(slots, freeList, lruHeap, poolId, ousted) /\ HandsHold(callers, poolId)
      /\ Backed(slots, poolId, callers, ousted)
  BY <1>1 DEF Sound
<1>3. slots \in Seq(SlotSet) /\ lruHeap \in SUBSET freeList
  BY <1>2 DEF SlotsHold
<1>4. PICK n : n = expanded
  OBVIOUS
<1>5. n \in Int
  BY <1>3, <1>4, ExpandedType
<1>6. GrownTo(slots, n, ss)
  BY <1>4 DEF grown, GrownTo
<1>7. /\ SlotsHold(ss, freeIds(ss), heap, poolId, ousted)
      /\ freeList \in SUBSET freeIds(ss)
      /\ Backed(ss, poolId, callers, ousted)
  BY <1>2, <1>5, <1>6, Grows, Zenon
<1> QED
  BY <1>2, <1>3, <1>7 DEF Sound

LEMMA AcquiresSoundly ==
    ASSUME PoolAssumption, PoolInv, ~poolGone,
           NEW c \in Callers, callers[c].stage \in {"idle", "filling"},
           acquire(c), UNCHANGED <<waitQueue, ousted>>
    PROVE  PoolInv'
<1>1. callers[c].stage # "holding" /\ callers[c].stage # "waiting"
  OBVIOUS
<1>2. PICK ss, free, heap : /\ Sound(ss, free, heap, poolId, ousted, callers)
                            /\ take(c, ss, free, heap)
  <2>1. CASE take(c, slots, freeList, lruHeap)
    BY <2>1, PoolIsSound
  <2>2. CASE LET ss == grown(expanded) IN take(c, ss, freeIds(ss), rebuiltHeap(ss))
    <3>1. PICK ss : ss = grown(expanded)
      OBVIOUS
    <3>2. take(c, ss, freeIds(ss), rebuiltHeap(ss))
      BY <2>2, <3>1
    <3>3. rebuiltHeap(ss) \in SUBSET freeIds(ss)
      BY DEF rebuiltHeap
    <3>4. Sound(ss, freeIds(ss), rebuiltHeap(ss), poolId, ousted, callers)
      BY <3>1, <3>3, Expands
    <3> QED
      BY <3>2, <3>4
  <2> QED
    BY <2>1, <2>2 DEF acquire
<1>3. /\ Sound(slots', freeList', lruHeap', poolId', ousted, callers')
      /\ \A d \in Callers : d # c => callers'[d] = callers[d]
  BY <1>1, <1>2, PoolTakes
<1>4. QueueHolds(waitQueue, callers)
  BY DEF PoolInv
<1>5. QueueHolds(waitQueue, callers')
  BY <1>1, <1>3, <1>4, QueueStays
<1> QED
  BY <1>3, <1>5, PoolStaysSound

LEMMA AcquireIsSound ==
    ASSUME PoolAssumption, PoolInv, NEW c \in Callers, Acquire(c)
    PROVE  PoolInv'
<1> QED
  BY AcquiresSoundly DEF Acquire

\* Caller c, who has nothing, turns to something else, and the rest stays.
LEMMA TurnsSoundly ==
    ASSUME PoolInv, NEW c \in Callers, callers[c].stage # "holding",
           NEW q, Turned(poolId, callers, c, q, callers'),
           NEW ss, NEW free, NEW heap, SlotsHold(ss, free, heap, poolId, ousted),
           ~poolGone => Backed(ss, poolId, callers, ousted),
           slots' = ss, freeList' = free, lruHeap' = heap,
           UNCHANGED <<poolId, ousted, poolGone>>, QueueHolds(waitQueue', callers')
    PROVE  PoolInv'
<1>1. HandsHold(callers, poolId)
  BY DEF PoolInv
<1>2. PICK cs2 : cs2 = callers'
  OBVIOUS
<1>3. Turned(poolId, callers, c, q, cs2)
  BY <1>2
<1>4. /\ HandsHold(cs2, poolId)
      /\ \A ss2, away : Backed(ss2, poolId, callers, away) => Backed(ss2, poolId, cs2, away)
  BY <1>1, <1>3, Turns
<1> QED
  BY <1>2, <1>4 DEF PoolInv

LEMMA WaitIsSound ==
    ASSUME PoolInv, NEW c \in Callers, Wait(c)
    PROVE  PoolInv'
<1>1. /\ SlotsHold(slots, freeList, lruHeap, poolId, ousted) /\ HandsHold(callers, poolId)
      /\ QueueHolds(waitQueue, callers)
      /\ ~poolGone => Backed(slots, poolId, callers, ousted)
  BY DEF PoolInv
<1>2. callers[c].stage = "idle" /\ waitQueue' = Append(waitQueue, c)
  BY DEF Wait
<1>3. callers \in [Callers -> CallerSet] /\ callers[c] \in CallerSet /\ callers[c].obj \in 0..Len(poolId)
  BY <1>1 DEF HandsHold
<1>4. PICK q : q = [callers[c] EXCEPT !.stage = "waiting"]
  OBVIOUS
<1>5. q \in CallerSet /\ q.stage = "waiting" /\ q.obj = callers[c].obj
  BY <1>3, <1>4 DEF CallerSet
<1>6. callers' = [callers EXCEPT ![c] = q]
  BY <1>4 DEF Wait
<1>7. Turned(poolId, callers, c, q, callers')
  BY <1>3, <1>5, <1>6 DEF Turned
<1>8. callers'[c] = q /\ \A d \in Callers : d # c => callers'[d] = callers[d]
  BY <1>3, <1>6
<1>9. waitQueue \in Seq(Callers) /\ HasNoRepeats(waitQueue)
      /\ \A d \in Elements(waitQueue) : callers[d].stage = "waiting"
  BY <1>1 DEF QueueHolds
<1>10. c \notin Elements(waitQueue)
  BY <1>2, <1>9
<1>11. QueueHolds(waitQueue', callers')
  <2>1. waitQueue' \in Seq(Callers) /\ Elements(waitQueue') = Elements(waitQueue) \cup {c}
    BY <1>2, <1>9, AppendElements, AppendProperties
  <2>2. HasNoRepeats(waitQueue')
    BY <1>2, <1>9, <1>10, AppendElements
  <2>3. Elements(waitQueue) \in SUBSET Callers
    BY <1>9, ElementsTyped
  <2> QED
    BY <1>5, <1>8, <1>9, <2>1, <2>2, <2>3 DEF QueueHolds
<1>12. UNCHANGED <<slots, freeList, lruHeap, poolId, ousted, poolGone>>
  BY DEF Wait
<1> QED
  BY <1>1, <1>2, <1>7, <1>11, <1>12, TurnsSoundly

LEMMA ExpandAsyncIsSound ==
    ASSUME PoolAssumption, PoolInv, NEW c \in Callers, ExpandAsync(c)
    PROVE  PoolInv'
<1>1. HandsHold(callers, poolId) /\ QueueHolds(waitQueue, callers)
  BY DEF PoolInv
<1>2. callers[c].stage = "idle" /\ ~poolGone
  BY DEF ExpandAsync
<1>3. callers \in [Callers -> CallerSet] /\ callers[c] \in CallerSet /\ callers[c].obj \in 0..Len(poolId)
  BY <1>1 DEF HandsHold
<1>4. PICK q : q = [callers[c] EXCEPT !.stage = "filling"]
  OBVIOUS
<1>5. q \in CallerSet /\ q.stage = "filling" /\ q.obj = callers[c].obj
  BY <1>3, <1>4 DEF CallerSet
<1>6. callers' = [callers EXCEPT ![c] = q]
  BY <1>4 DEF ExpandAsync
<1>7. Turned(poolId, callers, c, q, callers')
  BY <1>3, <1>5, <1>6 DEF Turned
<1>8. \A d \in Callers : d # c => callers'[d] = callers[d]
  BY <1>3, <1>6
<1>9. QueueHolds(waitQueue, callers')
  BY <1>1, <1>2, <1>8, QueueStays
<1>10. PICK ss : ss = grown(expanded)
  OBVIOUS
<1>11. slots' = ss /\ freeList' = freeIds(ss)
  BY <1>10 DEF ExpandAsync
<1>12. lruHeap \in SUBSET freeIds(ss)
  <2>1. {} \in SUBSET freeIds(ss)
    OBVIOUS
  <2> QED
    BY <1>2, <1>10, <2>1, Expands
<1>13. Sound(ss, freeIds(ss), lruHeap, poolId, ousted, callers)
  BY <1>2, <1>10, <1>12, Expands
<1>14. UNCHANGED <<lruHeap, poolId, waitQueue, ousted, poolGone>>
  BY DEF ExpandAsync
<1>15. /\ SlotsHold(ss, freeIds(ss), lruHeap, poolId, ousted)
       /\ ~poolGone => Backed(ss, poolId, callers, ousted)
  BY <1>13 DEF Sound
<1>16. callers[c].stage # "holding" /\ QueueHolds(waitQueue', callers')
  BY <1>2, <1>9, <1>14
<1> QED
  BY <1>7, <1>11, <1>14, <1>15, <1>16, TurnsSoundly, Zenon

\* What AcquireFilled and WaitTimeout do to a caller who ends with nothing.
LEMMA TurnsIdle ==
    ASSUME PoolInv, NEW c \in Callers, callers' = [callers EXCEPT ![c] = idle]
    PROVE  /\ Turned(poolId, callers, c, idle, callers')
           /\ \A d \in Callers : d # c => callers'[d] = callers[d]
<1>1. callers \in [Callers -> CallerSet] /\ Len(poolId) \in Nat
  BY LenProperties DEF PoolInv, HandsHold, SlotsHold
<1>2. idle \in CallerSet /\ idle.stage = "idle" /\ idle.obj = 0
  BY DEF idle, CallerSet
<1> QED
  BY <1>1, <1>2 DEF Turned

LEMMA AcquireFilledIsSound ==
    ASSUME PoolAssumption, PoolInv, NEW c \in Callers, AcquireFilled(c)
    PROVE  PoolInv'
<1>1. callers[c].stage = "filling" /\ UNCHANGED <<waitQueue, fillings, ousted, poolGone, resizes>>
  BY DEF AcquireFilled
<1>2. CASE ~poolGone /\ acquire(c)
  BY <1>1, <1>2, AcquiresSoundly
<1>3. CASE /\ callers' = [callers EXCEPT ![c] = idle]
           /\ UNCHANGED <<slots, freeList, lruHeap, poolId>>
  <2>1. /\ SlotsHold(slots, freeList, lruHeap, poolId, ousted)
        /\ QueueHolds(waitQueue, callers)
        /\ ~poolGone => Backed(slots, poolId, callers, ousted)
    BY DEF PoolInv
  <2>2. /\ Turned(poolId, callers, c, idle, callers')
        /\ \A d \in Callers : d # c => callers'[d] = callers[d]
    BY <1>3, TurnsIdle
  <2>3. QueueHolds(waitQueue, callers')
    BY <1>1, <2>1, <2>2, QueueStays
  <2> QED
    BY <1>1, <1>3, <2>1, <2>2, <2>3, TurnsSoundly
<1> QED
  BY <1>2, <1>3 DEF AcquireFilled

LEMMA WaitTimeoutIsSound ==
    ASSUME PoolInv, NEW c \in Callers, WaitTimeout(c)
    PROVE  PoolInv'
<1>1. /\ SlotsHold(slots, freeList, lruHeap, poolId, ousted)
      /\ QueueHolds(waitQueue, callers)
      /\ ~poolGone => Backed(slots, poolId, callers, ousted)
  BY DEF PoolInv
<1>2. /\ callers[c].stage = "waiting" /\ waitQueue' = Keep(waitQueue, Callers \ {c})
      /\ callers' = [callers EXCEPT ![c] = idle]
      /\ UNCHANGED <<slots, freeList, lruHeap, poolId, ousted, poolGone>>
  BY DEF WaitTimeout
<1>3. /\ Turned(poolId, callers, c, idle, callers')
      /\ \A d \in Callers : d # c => callers'[d] = callers[d]
  BY <1>2, TurnsIdle
<1>4. waitQueue \in Seq(Callers) /\ HasNoRepeats(waitQueue)
  BY <1>1 DEF QueueHolds
<1>5. /\ waitQueue' \in Seq(Callers) /\ HasNoRepeats(waitQueue')
      /\ Elements(waitQueue') = Elements(waitQueue) \intersect (Callers \ {c})
  BY <1>2, <1>4, KeepSeq, KeepHasNoRepeats
<1>6. QueueHolds(waitQueue', callers')
  BY <1>1, <1>3, <1>5 DEF QueueHolds
<1> QED
  BY <1>1, <1>2, <1>3, <1>6, TurnsSoundly

\* What is known of a caller who gives back an object that the pool knows.
Returns(ss, free, heap, ids, away, cs, c, o, i) ==
    /\ Sound(ss, free, heap, ids, away, cs) /\ c \in holders(cs)
    /\ o = cs[c].obj /\ i = ids[o] /\ Lies(ss, ids, o)

LEMMA ReturnsFacts ==
    ASSUME NEW ss, NEW free, NEW heap, NEW ids, NEW away, NEW cs, NEW c, NEW o, NEW i,
           Returns(ss, free, heap, ids, away, cs, c, o, i)
    PROVE  /\ c \in Callers /\ i \in 1..Len(ss) /\ ss[i].obj = o /\ ss[i].status = "allocated"
           /\ o \in 1..Len(ids) /\ o # 0 /\ o \in Nat /\ o \notin away
           /\ \A d \in holders(cs) : d # c => cs[d].obj # o
<1>1. /\ SlotsHold(ss, free, heap, ids, away) /\ HandsHold(cs, ids) /\ c \in holders(cs)
      /\ o = cs[c].obj /\ i = ids[o] /\ Lies(ss, ids, o)
  BY DEF Returns, Sound
<1>2. i \in 1..Len(ss) /\ ss[i].obj = o /\ ss[i].status = "allocated"
  BY <1>1 DEF Lies
<1>3. c \in Callers /\ o # 0 /\ \A d \in holders(cs) : d # c => cs[d].obj # o
  BY <1>1 DEF HandsHold, holders
<1>4. o \in 1..Len(ids) /\ o \notin away
  BY <1>1, <1>2, <1>3 DEF SlotsHold
<1> QED
  BY <1>2, <1>3, <1>4

\* The object goes to w, who waits, without a slot being touched.
ServesQueue(cs, c, w, o, cs2) ==
    cs2 = [cs EXCEPT ![c] = idle, ![w] = [stage |-> "holding", obj |-> o]]

LEMMA ServeIsSound ==
    ASSUME NEW ss, NEW free, NEW heap, NEW ids, NEW away, NEW cs, NEW c, NEW o, NEW i,
           Returns(ss, free, heap, ids, away, cs, c, o, i),
           NEW w \in Callers, cs[w].stage = "waiting", NEW cs2, ServesQueue(cs, c, w, o, cs2)
    PROVE  /\ Sound(ss, free, heap, ids, away, cs2)
           /\ \A d \in Callers : d # c /\ d # w => cs2[d] = cs[d]
<1>1. /\ SlotsHold(ss, free, heap, ids, away) /\ HandsHold(cs, ids) /\ Backed(ss, ids, cs, away)
      /\ c \in holders(cs) /\ i = ids[o] /\ o = cs[c].obj
  BY DEF Returns, Sound
<1>2. /\ c \in Callers /\ i \in 1..Len(ss) /\ ss[i].obj = o /\ ss[i].status = "allocated"
      /\ o \in 1..Len(ids) /\ o # 0 /\ o \in Nat /\ o \notin away
      /\ \A d \in holders(cs) : d # c => cs[d].obj # o
  BY ReturnsFacts
<1>3. cs \in [Callers -> CallerSet] /\ Len(ids) \in Nat
  BY <1>1, LenProperties DEF HandsHold, SlotsHold
<1>4. w # c /\ w \notin holders(cs) /\ holders(cs) \in SUBSET Callers
  BY <1>1 DEF holders
<1>5. PICK q, r : q = [stage |-> "holding", obj |-> o] /\ r = idle
  OBVIOUS
<1>6. /\ q \in CallerSet /\ q.stage = "holding" /\ q.obj = o
      /\ r \in CallerSet /\ r.stage = "idle" /\ r.obj = 0
  BY <1>2, <1>5 DEF CallerSet, idle
<1>7. cs2 = [cs EXCEPT ![c] = r, ![w] = q]
  BY <1>5 DEF ServesQueue
<1>8. /\ cs2 \in [Callers -> CallerSet] /\ cs2[c] = r /\ cs2[w] = q
      /\ \A d \in Callers : d # c /\ d # w => cs2[d] = cs[d]
  BY <1>2, <1>3, <1>4, <1>6, <1>7
<1>9. holders(cs2) = (holders(cs) \ {c}) \cup {w}
  BY <1>4, <1>6, <1>8 DEF holders
<1>10. IsFiniteSet(holders(cs2)) /\ Cardinality(holders(cs2)) = Cardinality(holders(cs))
  <2>1. PICK H, n : H = holders(cs) /\ n = Cardinality(H)
    OBVIOUS
  <2>2. IsFiniteSet(H) /\ c \in H /\ w \notin H
    BY <1>1, <1>4, <2>1 DEF Backed
  <2>3. n \in Nat
    BY <2>1, <2>2, FS_CardinalityType
  <2>4. IsFiniteSet(H \ {c}) /\ Cardinality(H \ {c}) = n - 1
    BY <2>1, <2>2, FS_RemoveElement
  <2>5. PICK G : G = H \ {c}
    OBVIOUS
  <2>6. IsFiniteSet(G) /\ Cardinality(G) = n - 1 /\ w \notin G
    BY <2>2, <2>4, <2>5
  <2>7. IsFiniteSet(G \cup {w}) /\ Cardinality(G \cup {w}) = Cardinality(G) + 1
    BY <2>6, FS_AddElement
  <2>8. holders(cs2) = G \cup {w}
    BY <1>9, <2>1, <2>5
  <2>9. (n - 1) + 1 = n
    BY <2>3
  <2>10. Cardinality(G \cup {w}) = n
    BY <2>6, <2>7, <2>9
  <2> QED
    BY <2>1, <2>7, <2>8, <2>10, Zenon
<1>11. HandsHold(cs2, ids)
  <2>1. \A d \in Callers : cs2[d].obj \in 0..Len(ids)
    BY <1>1, <1>2, <1>3, <1>6, <1>8 DEF HandsHold
  <2>2. \A d \in holders(cs2) : d = w \/ (d \in holders(cs) /\ d # c /\ cs2[d] = cs[d])
    BY <1>4, <1>8, <1>9
  <2>3. \A d \in holders(cs2) : cs2[d].obj # 0
    BY <1>1, <1>2, <1>6, <1>8, <2>2 DEF HandsHold
  <2>4. \A d, f \in holders(cs2) : cs2[d].obj = cs2[f].obj => d = f
    BY <1>1, <1>2, <1>6, <1>8, <2>2 DEF HandsHold
  <2> QED
    BY <1>8, <2>1, <2>3, <2>4 DEF HandsHold
<1>12. Backed(ss, ids, cs2, away)
  <2>1. Cardinality(used(ss)) = Cardinality(holders(cs2))
    BY <1>1, <1>10 DEF Backed
  <2>2. \A d \in holders(cs2) : cs2[d].obj = o \/ (d \in holders(cs) /\ cs2[d] = cs[d])
    BY <1>4, <1>6, <1>8, <1>9
  <2>3. Lies(ss, ids, o)
    BY <1>1, <1>2 DEF Lies
  <2> QED
    BY <1>1, <1>10, <2>1, <2>2, <2>3 DEF Backed
<1> QED
  BY <1>1, <1>8, <1>11, <1>12 DEF Sound

\* The slot becomes free, and c has nothing.
Frees(ss, i, cs, c, ss2, cs2) ==
    ss2 = [ss EXCEPT ![i].status = "free"] /\ cs2 = [cs EXCEPT ![c] = idle]

LEMMA FreeIsSound ==
    ASSUME NEW ss, NEW free, NEW heap, NEW ids, NEW away, NEW cs, NEW c, NEW o, NEW i,
           Returns(ss, free, heap, ids, away, cs, c, o, i),
           NEW ss2, NEW cs2, Frees(ss, i, cs, c, ss2, cs2),
           NEW heap2 \in SUBSET freeIds(ss2)
    PROVE  /\ Sound(ss2, free \cup {i}, heap2, ids, away, cs2)
           /\ \A d \in Callers : d # c => cs2[d] = cs[d]
<1>1. /\ SlotsHold(ss, free, heap, ids, away) /\ HandsHold(cs, ids) /\ Backed(ss, ids, cs, away)
      /\ c \in holders(cs) /\ i = ids[o] /\ o = cs[c].obj
  BY DEF Returns, Sound
<1>2. /\ c \in Callers /\ i \in 1..Len(ss) /\ ss[i].obj = o /\ ss[i].status = "allocated"
      /\ o \in 1..Len(ids) /\ o # 0 /\ o \in Nat /\ o \notin away
      /\ \A d \in holders(cs) : d # c => cs[d].obj # o
  BY ReturnsFacts
<1>3. /\ cs \in [Callers -> CallerSet] /\ Len(ids) \in Nat
      /\ ss \in Seq(SlotSet) /\ Len(ss) \in Nat /\ ss[i] \in SlotSet
      /\ free = freeIds(ss)
  BY <1>1, <1>2, LenProperties, ElementOfSeq DEF HandsHold, SlotsHold
<1>4. PICK e, r : e = [ss[i] EXCEPT !.status = "free"] /\ r = idle
  OBVIOUS
<1>5. /\ e \in SlotSet /\ e.obj = o /\ e.status = "free"
      /\ r \in CallerSet /\ r.stage = "idle" /\ r.obj = 0
  BY <1>2, <1>3, <1>4 DEF SlotSet, CallerSet, idle
<1>6. ss2 = [ss EXCEPT ![i] = e] /\ cs2 = [cs EXCEPT ![c] = r]
  BY <1>4 DEF Frees
<1>7. /\ ss2 \in Seq(SlotSet) /\ Len(ss2) = Len(ss)
      /\ \A x \in 1..Len(ss) : ss2[x] = IF x = i THEN e ELSE ss[x]
  BY <1>2, <1>3, <1>5, <1>6, ExceptSeq
<1>8. /\ cs2 \in [Callers -> CallerSet] /\ cs2[c] = r
      /\ \A d \in Callers : d # c => cs2[d] = cs[d]
  BY <1>2, <1>3, <1>5, <1>6
<1>9. used(ss2) = used(ss) \ {i} /\ i \in used(ss)
  BY <1>2, <1>5, <1>7 DEF used
<1>10. holders(cs2) = holders(cs) \ {c}
  BY <1>5, <1>8 DEF holders
<1>11. freeIds(ss2) = free \cup {i}
  BY <1>2, <1>3, <1>7, <1>9, SlotTypes
<1>12. SlotsHold(ss2, free \cup {i}, heap2, ids, away)
  <2>1. \A x \in 1..Len(ss2) : ss2[x].obj = ss[x].obj
    BY <1>2, <1>5, <1>7
  <2> QED
    BY <1>1, <1>7, <1>11, <2>1 DEF SlotsHold
<1>13. HandsHold(cs2, ids)
  <2>1. \A d \in Callers : cs2[d].obj \in 0..Len(ids)
    BY <1>1, <1>3, <1>5, <1>8 DEF HandsHold
  <2>2. \A d \in holders(cs2) : d \in holders(cs) /\ d # c /\ d \in Callers /\ cs2[d] = cs[d]
    BY <1>8, <1>10 DEF holders
  <2> QED
    BY <1>1, <1>8, <2>1, <2>2 DEF HandsHold
<1>14. Backed(ss2, ids, cs2, away)
  <2>1. IsFiniteSet(holders(cs)) /\ IsFiniteSet(used(ss))
    BY <1>1, <1>3, SlotTypes DEF Backed
  <2>2. /\ IsFiniteSet(holders(cs2))
        /\ Cardinality(holders(cs2)) = Cardinality(holders(cs)) - 1
    <3>1. /\ IsFiniteSet(holders(cs) \ {c})
          /\ Cardinality(holders(cs) \ {c}) = Cardinality(holders(cs)) - 1
      BY <1>1, <2>1, FS_RemoveElement
    <3> QED
      BY <1>10, <3>1, Zenon
  <2>3. Cardinality(used(ss2)) = Cardinality(used(ss)) - 1
    <3>1. Cardinality(used(ss) \ {i}) = Cardinality(used(ss)) - 1
      BY <1>9, <2>1, FS_RemoveElement
    <3> QED
      BY <1>9, <3>1, Zenon
  <2>4. ASSUME NEW d \in holders(cs2) PROVE cs2[d].obj \in away \/ Lies(ss2, ids, cs2[d].obj)
    <3>1. d \in holders(cs) /\ d # c /\ d \in Callers /\ cs2[d] = cs[d]
      BY <1>8, <1>10 DEF holders
    <3>2. cs[d].obj # o /\ (cs[d].obj \in away \/ Lies(ss, ids, cs[d].obj))
      BY <1>1, <1>2, <3>1 DEF Backed
    <3>3. Lies(ss, ids, cs[d].obj) => ids[cs[d].obj] # i
      BY <1>2, <3>2 DEF Lies
    <3> QED
      BY <1>7, <3>1, <3>2, <3>3 DEF Lies
  <2>5. Cardinality(used(ss)) = Cardinality(holders(cs))
    BY <1>1 DEF Backed
  <2>6. Cardinality(used(ss2)) = Cardinality(holders(cs2))
    BY <2>2, <2>3, <2>5
  <2> QED
    BY <2>2, <2>4, <2>6 DEF Backed
<1> QED
  BY <1>8, <1>12, <1>13, <1>14 DEF Sound

LEMMA ReleaseIsSound ==
    ASSUME PoolInv, NEW c \in Callers, Release(c)
    PROVE  PoolInv'
<1>1. PICK o, i : o = callers[c].obj /\ i = poolId[o]
  OBVIOUS
<1>2. Sound(slots, freeList, lruHeap, poolId, ousted, callers)
  BY PoolIsSound DEF Release
<1>3. c \in holders(callers)
  BY DEF Release, holders
<1>4. slots \in Seq(SlotSet)
  BY <1>2 DEF Sound, SlotsHold
<1>5. Lies(slots, poolId, o)
  BY <1>1, <1>4, SlotTypes DEF Release, IsFromPool, Lies
<1>6. Returns(slots, freeList, lruHeap, poolId, ousted, callers, c, o, i)
  BY <1>1, <1>2, <1>3, <1>5 DEF Returns
<1>7. QueueHolds(waitQueue, callers) /\ UNCHANGED <<poolId, ousted>>
  BY DEF PoolInv, Release
<1>8. release(c) /\ callers[c].stage = "holding"
  BY DEF Release
<1>9. CASE MustServe
  <2>1. waitQueue # <<>>
    BY <1>9 DEF MustServe
  <2>2. /\ waitQueue \in Seq(Callers) /\ HasNoRepeats(waitQueue)
        /\ \A d \in Elements(waitQueue) : callers[d].stage = "waiting"
    BY <1>7 DEF QueueHolds
  <2>3. PICK w : w = Head(waitQueue)
    OBVIOUS
  <2>4. /\ w \in Elements(waitQueue) /\ Tail(waitQueue) \in Seq(Callers)
        /\ Elements(Tail(waitQueue)) = Elements(waitQueue) \ {w}
        /\ HasNoRepeats(Tail(waitQueue))
    BY <2>1, <2>2, <2>3, TailElements
  <2>5. Elements(waitQueue) \in SUBSET Callers
    BY <2>2, ElementsTyped
  <2>6. w \in Callers /\ callers[w].stage = "waiting"
    BY <2>2, <2>4, <2>5
  <2>7. PICK cs2 : cs2 = callers'
    OBVIOUS
  <2>8. ServesQueue(callers, c, w, o, cs2)
    BY <1>1, <1>8, <1>9, <2>3, <2>7 DEF release, ServesQueue
  <2>9. /\ Sound(slots, freeList, lruHeap, poolId, ousted, cs2)
        /\ \A d \in Callers : d # c /\ d # w => cs2[d] = callers[d]
    BY <1>6, <2>6, <2>8, ServeIsSound
  <2>10. waitQueue' = Tail(waitQueue) /\ UNCHANGED <<slots, freeList, lruHeap>>
    BY <1>8, <1>9 DEF release
  <2>11. QueueHolds(waitQueue', callers')
    <3>1. \A d \in Elements(Tail(waitQueue)) :
              d \in Callers /\ d # c /\ d # w /\ callers[d].stage = "waiting"
      BY <1>8, <2>2, <2>4, <2>5
    <3> QED
      BY <2>4, <2>7, <2>9, <2>10, <3>1 DEF QueueHolds
  <2> QED
    BY <1>7, <2>7, <2>9, <2>10, <2>11, PoolStaysSound
<1>10. CASE ~MustServe
  <2>1. PICK ss2, cs2, heap2, free2 : /\ ss2 = slots' /\ cs2 = callers'
                                      /\ heap2 = lruHeap' /\ free2 = freeList'
    OBVIOUS
  <2>2. /\ Frees(slots, i, callers, c, ss2, cs2) /\ free2 = freeList \cup {i}
        /\ heap2 = rebuiltHeap(ss2) /\ UNCHANGED waitQueue
    BY <1>1, <1>8, <1>10, <2>1 DEF release, Frees
  <2>3. heap2 \in SUBSET freeIds(ss2)
    BY <2>2 DEF rebuiltHeap
  <2>4. /\ Sound(ss2, freeList \cup {i}, heap2, poolId, ousted, cs2)
        /\ \A d \in Callers : d # c => cs2[d] = callers[d]
    BY <1>6, <2>2, <2>3, FreeIsSound
  <2>5. QueueHolds(waitQueue, cs2)
    BY <1>7, <1>8, <2>4, QueueStays
  <2> QED
    BY <1>7, <2>1, <2>2, <2>4, <2>5, PoolStaysSound
<1> QED
  BY <1>9, <1>10

\* A new object o comes to lie in slot i; what lay there is lost.
Fills(ss, ids, away, i, ss2, ids2, away2) ==
    /\ i \in 1..Len(ss) /\ ss2 = [ss EXCEPT ![i].obj = Len(ids) + 1]
    /\ ids2 = Append(ids, i) /\ away2 = away \cup ({ss[i].obj} \ {0})

LEMMA FillsSoundly ==
    ASSUME NEW ss, NEW free, NEW heap, NEW ids, NEW away, NEW cs,
           Sound(ss, free, heap, ids, away, cs),
           NEW i, NEW ss2, NEW ids2, NEW away2, Fills(ss, ids, away, i, ss2, ids2, away2)
    PROVE  Sound(ss2, free, heap, ids2, away2, cs)
<1>1. /\ SlotsHold(ss, free, heap, ids, away) /\ HandsHold(cs, ids) /\ Backed(ss, ids, cs, away)
  BY DEF Sound
<1>2. /\ ss \in Seq(SlotSet) /\ ids \in Seq(Nat) /\ Len(ids) \in Nat /\ Len(ss) \in Nat
      /\ free = freeIds(ss) /\ heap \in SUBSET free /\ away \in SUBSET (1..Len(ids))
      /\ \A x \in 1..Len(ss) : ss[x].obj # 0 =>
            /\ ss[x].obj \in 1..Len(ids) /\ ids[ss[x].obj] = x /\ ss[x].obj \notin away
  BY <1>1, LenProperties DEF SlotsHold
<1>3. i \in 1..Len(ss) /\ i \in Nat /\ ss[i] \in SlotSet
  BY <1>2, ElementOfSeq DEF Fills
<1>4. PICK o, e, p : o = Len(ids) + 1 /\ e = [ss[i] EXCEPT !.obj = o] /\ p = ss[i].obj
  OBVIOUS
<1>5. e \in SlotSet /\ e.obj = o /\ e.status = ss[i].status /\ o \in Nat /\ o # 0
  <2>1. o \in Nat /\ o # 0
    BY <1>2, <1>4
  <2>2. PICK s : s = ss[i]
    OBVIOUS
  <2>3. s \in SlotSet /\ e = [s EXCEPT !.obj = o]
    BY <1>3, <1>4, <2>2
  <2>4. e \in SlotSet /\ e.obj = o /\ e.status = s.status
    BY <2>1, <2>3 DEF SlotSet
  <2> QED
    BY <2>1, <2>2, <2>4
<1>6. ss2 = [ss EXCEPT ![i] = e] /\ ids2 = Append(ids, i) /\ away2 = away \cup ({p} \ {0})
  BY <1>4 DEF Fills
<1>7. /\ ss2 \in Seq(SlotSet) /\ Len(ss2) = Len(ss)
      /\ \A x \in 1..Len(ss) : ss2[x] = IF x = i THEN e ELSE ss[x]
  BY <1>2, <1>3, <1>5, <1>6, ExceptSeq
<1>8. /\ ids2 \in Seq(Nat) /\ Len(ids2) = o /\ ids2[o] = i
      /\ \A x \in 1..Len(ids) : ids2[x] = ids[x] /\ x \in 1..o /\ x # o
  <2>1. /\ ids2 \in Seq(Nat) /\ Len(ids2) = Len(ids) + 1 /\ ids2[Len(ids) + 1] = i
        /\ \A x \in 1..Len(ids) : ids2[x] = ids[x]
    BY <1>2, <1>3, <1>6, AppendProperties
  <2> QED
    BY <1>2, <1>4, <2>1
<1>9. p # 0 => p \in 1..Len(ids) /\ ids[p] = i
  BY <1>2, <1>3, <1>4
<1>10. away2 \in SUBSET (1..Len(ids))
  BY <1>2, <1>6, <1>9
<1>11. used(ss2) = used(ss)
  BY <1>3, <1>5, <1>7 DEF used
<1>12. freeIds(ss2) = free
  BY <1>2, <1>7, <1>11, SlotTypes
<1>13. SlotsHold(ss2, free, heap, ids2, away2)
  <2>1. ASSUME NEW x \in 1..Len(ss2), ss2[x].obj # 0
        PROVE  ss2[x].obj \in 1..Len(ids2) /\ ids2[ss2[x].obj] = x /\ ss2[x].obj \notin away2
    <3>1. CASE x = i
      <4>1. ss2[x].obj = o
        BY <1>5, <1>7, <2>1, <3>1
      <4>2. o \in 1..o /\ o \notin away2
        BY <1>5, <1>8, <1>10
      <4> QED
        BY <1>8, <3>1, <4>1, <4>2
    <3>2. CASE x # i
      <4>1. x \in 1..Len(ss) /\ ss2[x] = ss[x] /\ ss[x].obj # 0
        BY <1>7, <2>1, <3>2
      <4>2. ss[x].obj \in 1..Len(ids) /\ ids[ss[x].obj] = x /\ ss[x].obj \notin away
        BY <1>2, <4>1
      <4>3. ss[x].obj \notin away2
        BY <1>6, <1>9, <3>2, <4>2
      <4> QED
        BY <1>8, <4>1, <4>2, <4>3
    <3> QED
      BY <3>1, <3>2
  <2>2. away2 \in SUBSET (1..Len(ids2))
    BY <1>8, <1>10
  <2> QED
    BY <1>2, <1>7, <1>8, <1>12, <2>1, <2>2 DEF SlotsHold
<1>14. HandsHold(cs, ids2)
  <2>1. \A d \in Callers : cs[d].obj \in 0..Len(ids2)
    BY <1>1, <1>2, <1>4, <1>5, <1>8 DEF HandsHold
  <2> QED
    BY <1>1, <2>1 DEF HandsHold
<1>15. Backed(ss2, ids2, cs, away2)
  <2>1. ASSUME NEW d \in holders(cs)
        PROVE  cs[d].obj \in away2 \/ Lies(ss2, ids2, cs[d].obj)
    <3>1. cs[d].obj \in 1..Len(ids)
      BY <1>1, <1>2 DEF HandsHold, holders
    <3>2. cs[d].obj \in away \/ Lies(ss, ids, cs[d].obj)
      BY <1>1 DEF Backed
    <3>3. CASE cs[d].obj \in away
      BY <1>6, <3>3
    <3>4. CASE Lies(ss, ids, cs[d].obj) /\ ids[cs[d].obj] = i
      <4>1. cs[d].obj = p /\ p # 0
        BY <1>4, <3>1, <3>4 DEF Lies
      <4> QED
        BY <1>6, <4>1
    <3>5. CASE Lies(ss, ids, cs[d].obj) /\ ids[cs[d].obj] # i
      BY <1>7, <1>8, <3>1, <3>5 DEF Lies
    <3> QED
      BY <3>2, <3>3, <3>4, <3>5
  <2> QED
    BY <1>1, <1>11, <2>1 DEF Backed
<1> QED
  BY <1>13, <1>14, <1>15 DEF Sound

LEMMA FillIsSound ==
    ASSUME PoolInv, NEW f, Fill(f)
    PROVE  PoolInv'
<1>1. UNCHANGED <<freeList, lruHeap, waitQueue, callers, poolGone>>
  BY DEF Fill
<1>2. CASE UNCHANGED <<slots, poolId, ousted>>
  BY <1>1, <1>2 DEF PoolInv
<1>3. ASSUME NEW o \in filled(f.slot), slots' = [slots EXCEPT ![f.slot].obj = o],
             poolId' = Append(poolId, f.slot), ousted' = ousted \cup ({slots[f.slot].obj} \ {0})
      PROVE  PoolInv'
  <2>1. PICK i, ss2, ids2, away2 : /\ i = f.slot /\ ss2 = slots' /\ ids2 = poolId' /\ away2 = ousted'
    OBVIOUS
  <2>2. i \in slotIds(slots) /\ ~poolGone /\ o = Len(poolId) + 1
    BY <2>1 DEF filled
  <2>3. Sound(slots, freeList, lruHeap, poolId, ousted, callers)
    BY <2>2, PoolIsSound
  <2>4. i \in 1..Len(slots)
    BY <2>2, <2>3, SlotTypes DEF Sound, SlotsHold
  <2>5. Fills(slots, poolId, ousted, i, ss2, ids2, away2)
    BY <1>3, <2>1, <2>2, <2>4 DEF Fills
  <2>6. Sound(ss2, freeList, lruHeap, ids2, away2, callers)
    BY <2>3, <2>5, FillsSoundly
  <2>7. QueueHolds(waitQueue, callers)
    BY DEF PoolInv
  <2> QED
    BY <1>1, <2>1, <2>6, <2>7, PoolStaysSound
<1> QED
  BY <1>2, <1>3 DEF Fill

\* Slots that are all empty and free.
LEMMA EmptySlots ==
    ASSUME NEW n \in Nat, NEW ss, ss = [i \in 1..n |-> empty], NEW ids \in Seq(Nat),
           NEW away \in SUBSET (1..Len(ids))
    PROVE  /\ SlotsHold(ss, slotIds(ss), {}, ids, away)
           /\ \A cs : holders(cs) = {} => Backed(ss, ids, cs, away)
<1>1. empty \in SlotSet /\ empty.obj = 0 /\ empty.status = "free"
  BY DEF empty, SlotSet
<1>2. ss \in Seq(SlotSet) /\ Len(ss) = n /\ \A i \in 1..n : ss[i] = empty
  BY <1>1, IsASeq, LenProperties
<1>3. used(ss) = {}
  BY <1>1, <1>2 DEF used
<1>4. freeIds(ss) = slotIds(ss)
  BY <1>2, <1>3, SlotTypes
<1>5. SlotsHold(ss, slotIds(ss), {}, ids, away)
  BY <1>1, <1>2, <1>4 DEF SlotsHold
<1>6. \A cs : holders(cs) = {} => Backed(ss, ids, cs, away)
  BY <1>3, FS_EmptySet DEF Backed
<1> QED
  BY <1>5, <1>6

LEMMA ClearIsSound ==
    ASSUME PoolAssumption, PoolInv, ~poolGone, Clear,
           UNCHANGED <<waitQueue, callers, ousted, poolGone>>
    PROVE  PoolInv'
<1>1. /\ SlotsHold(slots, freeList, lruHeap, poolId, ousted) /\ HandsHold(callers, poolId)
      /\ Backed(slots, poolId, callers, ousted) /\ QueueHolds(waitQueue, callers)
  BY DEF PoolInv
<1>2. slots \in Seq(SlotSet) /\ freeList = freeIds(slots) /\ poolId \in Seq(Nat)
      /\ ousted \in SUBSET (1..Len(poolId))
  BY <1>1 DEF SlotsHold
<1>3. Cardinality(used(slots)) = 0
  <2>1. Len(slots) - Cardinality(freeIds(slots)) = Cardinality(used(slots))
    BY <1>2, SlotTypes
  <2>2. Len(slots) - Cardinality(freeIds(slots)) = 0
    BY <1>2 DEF Clear, allocatedCount
  <2> QED
    BY <2>1, <2>2, Zenon
<1>4. holders(callers) = {}
  <2>1. IsFiniteSet(holders(callers)) /\ Cardinality(used(slots)) = Cardinality(holders(callers))
    BY <1>1 DEF Backed
  <2>2. Cardinality(holders(callers)) = 0
    BY <1>3, <2>1, Zenon
  <2> QED
    BY <2>1, <2>2, FS_EmptySet
<1>5. PICK ss : ss = slots'
  OBVIOUS
<1>6. /\ ss = [i \in 1..InitialCapacity |-> empty] /\ freeList' = slotIds(ss) /\ lruHeap' = {}
      /\ poolId' = poolId /\ InitialCapacity \in Nat
  BY <1>5 DEF Clear, PoolAssumption
<1>7. SlotsHold(ss, slotIds(ss), {}, poolId, ousted) /\ Backed(ss, poolId, callers, ousted)
  BY <1>2, <1>4, <1>6, EmptySlots
<1> QED
  BY <1>1, <1>5, <1>6, <1>7 DEF PoolInv

LEMMA DisposePoolIsSound ==
    ASSUME PoolInv, DisposePool
    PROVE  PoolInv'
<1>1. /\ SlotsHold(slots, freeList, lruHeap, poolId, ousted) /\ HandsHold(callers, poolId)
  BY DEF PoolInv
<1>2. poolId \in Seq(Nat) /\ Len(poolId) \in Nat /\ ousted \in SUBSET (1..Len(poolId))
      /\ callers \in [Callers -> CallerSet]
  BY <1>1, LenProperties DEF SlotsHold, HandsHold
<1>3. /\ poolGone' /\ slots' = <<>> /\ freeList' = {} /\ lruHeap' = {} /\ waitQueue' = <<>>
      /\ UNCHANGED <<poolId, ousted>>
      /\ callers' = [c \in Callers |-> IF callers[c].stage = "waiting" THEN idle ELSE callers[c]]
  BY DEF DisposePool
<1>4. SlotsHold(slots', freeList', lruHeap', poolId', ousted')
  <2>1. PICK ss : ss = slots'
    OBVIOUS
  <2>2. ss \in Seq(SlotSet) /\ Len(ss) = 0 /\ 1..Len(ss) = {}
    BY <1>3, <2>1
  <2>3. freeIds(ss) = {}
    BY <2>2, SlotTypes
  <2> QED
    BY <1>2, <1>3, <2>1, <2>2, <2>3 DEF SlotsHold
<1>5. HandsHold(callers', poolId')
  <2>1. idle \in CallerSet /\ idle.stage = "idle" /\ idle.obj = 0
    BY DEF idle, CallerSet
  <2>2. /\ callers' \in [Callers -> CallerSet]
        /\ \A c \in Callers : callers'[c] = idle \/ callers'[c] = callers[c]
    BY <1>2, <1>3, <2>1
  <2>3. \A c \in Callers : callers'[c].obj \in 0..Len(poolId)
    BY <1>1, <1>2, <2>1, <2>2 DEF HandsHold
  <2>4. \A c \in holders(callers') : c \in holders(callers) /\ callers'[c] = callers[c]
    BY <2>1, <2>2 DEF holders
  <2> QED
    BY <1>1, <1>3, <2>2, <2>3, <2>4 DEF HandsHold
<1>6. QueueHolds(waitQueue', callers')
  <2>1. waitQueue' \in Seq(Callers) /\ Len(waitQueue') = 0
    BY <1>3
  <2> QED
    BY <2>1 DEF QueueHolds, HasNoRepeats, Elements
<1> QED
  BY <1>3, <1>4, <1>5, <1>6 DEF PoolInv

LEMMA PoolBegins ==
    ASSUME PoolAssumption, PoolInit
    PROVE  PoolInv
<1>1. /\ slots = [i \in 1..InitialCapacity |-> empty] /\ freeList = slotIds(slots) /\ lruHeap = {}
      /\ poolId = <<>> /\ waitQueue = <<>> /\ callers = [c \in Callers |-> idle] /\ ousted = {}
      /\ InitialCapacity \in Nat
  BY DEF PoolInit, PoolAssumption
<1>2. idle \in CallerSet /\ idle.stage = "idle" /\ idle.obj = 0
  BY DEF idle, CallerSet
<1>3. poolId \in Seq(Nat) /\ Len(poolId) = 0
  BY <1>1
<1>4. holders(callers) = {} /\ callers \in [Callers -> CallerSet]
  BY <1>1, <1>2 DEF holders
<1>5. /\ SlotsHold(slots, slotIds(slots), {}, poolId, ousted)
      /\ Backed(slots, poolId, callers, ousted)
  <2>1. ousted \in SUBSET (1..Len(poolId))
    BY <1>1
  <2> QED
    BY <1>1, <1>3, <1>4, <2>1, EmptySlots
<1>6. HandsHold(callers, poolId)
  BY <1>1, <1>2, <1>3, <1>4 DEF HandsHold
<1>7. QueueHolds(waitQueue, callers)
  <2>1. waitQueue \in Seq(Callers) /\ Len(waitQueue) = 0
    BY <1>1
  <2> QED
    BY <2>1 DEF QueueHolds, HasNoRepeats, Elements
<1> QED
  BY <1>1, <1>5, <1>6, <1>7 DEF PoolInv

\* A part t of a new numbering of the slots ss: entry x is slot from[x], or an empty
\* one where from[x] is 0, and no slot occurs twice.
Piece(ss, t, from) ==
    /\ t \in Seq(SlotSet) /\ from \in Seq(Nat) /\ Len(from) = Len(t)
    /\ \A x \in 1..Len(t) : \/ from[x] = 0 /\ t[x] = empty
                            \/ from[x] \in 1..Len(ss) /\ t[x] = ss[from[x]]
    /\ \A x, y \in 1..Len(t) : from[x] = from[y] => x = y \/ from[x] = 0

Joined(ss, s, t, f, g, u, h) ==
    /\ Piece(ss, s, f) /\ Piece(ss, t, g) /\ Elements(f) \intersect Elements(g) \in SUBSET {0}
    /\ u = s \o t /\ h = f \o g

LEMMA PiecesJoin ==
    ASSUME NEW ss, NEW s, NEW t, NEW f, NEW g, NEW u, NEW h, Joined(ss, s, t, f, g, u, h)
    PROVE  Piece(ss, u, h) /\ Elements(h) = Elements(f) \cup Elements(g)
<1>0. /\ Piece(ss, s, f) /\ Piece(ss, t, g) /\ Elements(f) \intersect Elements(g) \in SUBSET {0}
      /\ u = s \o t /\ h = f \o g
  BY DEF Joined
<1>1. /\ s \in Seq(SlotSet) /\ t \in Seq(SlotSet) /\ f \in Seq(Nat) /\ g \in Seq(Nat)
      /\ Len(f) = Len(s) /\ Len(g) = Len(t)
  BY <1>0 DEF Piece
<1>2. PICK m, n : m = Len(s) /\ n = Len(t)
  OBVIOUS
<1>3. /\ u \in Seq(SlotSet) /\ Len(u) = m + n /\ m \in Nat /\ n \in Nat
      /\ \A i \in 1..Len(u) : \/ i \in 1..m /\ u[i] = s[i]
                              \/ i - m \in 1..n /\ i > m /\ u[i] = t[i - m]
  BY <1>0, <1>1, <1>2, ConcatElements, LenProperties
<1>4. /\ h \in Seq(Nat) /\ Len(h) = m + n
      /\ \A i \in 1..Len(h) : \/ i \in 1..m /\ h[i] = f[i]
                              \/ i - m \in 1..n /\ i > m /\ h[i] = g[i - m]
      /\ Elements(h) = Elements(f) \cup Elements(g)
  <2>1. /\ h \in Seq(Nat) /\ Len(h) = Len(f) + Len(g)
        /\ \A i \in 1..Len(h) : \/ i \in 1..Len(f) /\ h[i] = f[i]
                                \/ i - Len(f) \in 1..Len(g) /\ i > Len(f) /\ h[i] = g[i - Len(f)]
        /\ Elements(h) = Elements(f) \cup Elements(g)
    <3>1. f \in Seq(Nat) /\ g \in Seq(Nat)
      BY <1>1
    <3>2. /\ f \o g \in Seq(Nat) /\ Len(f \o g) = Len(f) + Len(g)
          /\ \A i \in 1..Len(f \o g) :
                \/ i \in 1..Len(f) /\ (f \o g)[i] = f[i]
                \/ i - Len(f) \in 1..Len(g) /\ i > Len(f) /\ (f \o g)[i] = g[i - Len(f)]
          /\ Elements(f \o g) = Elements(f) \cup Elements(g)
      BY <3>1, ConcatElements
    <3> QED
      BY <1>0, <3>2
  <2>2. Len(f) = m /\ Len(g) = n
    BY <1>1, <1>2
  <2> QED
    BY <2>1, <2>2
<1>5. ASSUME NEW x \in 1..Len(u)
      PROVE  \/ x \in 1..m /\ u[x] = s[x] /\ h[x] = f[x]
             \/ x - m \in 1..n /\ x > m /\ u[x] = t[x - m] /\ h[x] = g[x - m]
  <2>1. x \in 1..m => ~(x > m)
    BY <1>3
  <2> QED
    BY <1>3, <1>4, <2>1
<1>6. ASSUME NEW x \in 1..Len(u)
      PROVE  (h[x] = 0 /\ u[x] = empty) \/ (h[x] \in 1..Len(ss) /\ u[x] = ss[h[x]])
  <2>1. \A i \in 1..m : (f[i] = 0 /\ s[i] = empty) \/ (f[i] \in 1..Len(ss) /\ s[i] = ss[f[i]])
    BY <1>0, <1>2 DEF Piece
  <2>2. \A i \in 1..n : (g[i] = 0 /\ t[i] = empty) \/ (g[i] \in 1..Len(ss) /\ t[i] = ss[g[i]])
    BY <1>0, <1>2 DEF Piece
  <2>3. CASE x \in 1..m /\ u[x] = s[x] /\ h[x] = f[x]
    BY <2>1, <2>3
  <2>4. CASE x - m \in 1..n /\ u[x] = t[x - m] /\ h[x] = g[x - m]
    <3>1. PICK a : a = x - m
      OBVIOUS
    <3> QED
      BY <2>2, <2>4, <3>1
  <2> QED
    BY <1>5, <2>3, <2>4
<1>7. ASSUME NEW x \in 1..Len(u), NEW y \in 1..Len(u), h[x] = h[y]
      PROVE  x = y \/ h[x] = 0
  <2>1. \A i \in 1..m, j \in 1..n : f[i] = g[j] => f[i] = 0
    BY <1>0, <1>1, <1>2 DEF Elements
  <2>2. CASE x \in 1..m /\ h[x] = f[x] /\ y \in 1..m /\ h[y] = f[y]
    BY <1>0, <1>2, <1>7, <2>2 DEF Piece
  <2>3. CASE x \in 1..m /\ h[x] = f[x] /\ y - m \in 1..n /\ h[y] = g[y - m]
    BY <1>7, <2>1, <2>3
  <2>4. CASE x - m \in 1..n /\ h[x] = g[x - m] /\ y \in 1..m /\ h[y] = f[y]
    BY <1>7, <2>1, <2>4
  <2>5. CASE x - m \in 1..n /\ h[x] = g[x - m] /\ y - m \in 1..n /\ h[y] = g[y - m]
    <3>1. PICK a, b : a = x - m /\ b = y - m
      OBVIOUS
    <3>2. a = b \/ g[a] = 0
      BY <1>0, <1>2, <1>7, <2>5, <3>1 DEF Piece
    <3>3. a = b => x = y
      BY <1>3, <3>1
    <3> QED
      BY <2>5, <3>1, <3>2, <3>3
  <2> QED
    BY <1>5, <2>2, <2>3, <2>4, <2>5
<1>8. Piece(ss, u, h)
  BY <1>3, <1>4, <1>6, <1>7 DEF Piece
<1> QED
  BY <1>4, <1>8

LEMMA EmptyPiece ==
    ASSUME NEW ss, NEW k \in Int
    PROVE  \E g : Piece(ss, [i \in 1..k |-> empty], g) /\ Elements(g) \in SUBSET {0}
<1>1. PICK m \in Nat : 1..k = 1..m
  <2>1. CASE k >= 0
    BY <2>1
  <2>2. CASE ~(k >= 0)
    <3>1. 1..k = 1..0
      BY <2>2
    <3> QED
      BY <3>1
  <2> QED
    BY <2>1, <2>2
<1>2. PICK t, g : t = [i \in 1..m |-> empty] /\ g = [i \in 1..m |-> 0]
  OBVIOUS
<1>3. empty \in SlotSet
  BY DEF empty, SlotSet
<1>4. t \in Seq(SlotSet) /\ Len(t) = m /\ \A x \in 1..m : t[x] = empty
  BY <1>2, <1>3, IsASeq, LenProperties
<1>5. g \in Seq(Nat) /\ Len(g) = m /\ \A x \in 1..m : g[x] = 0
  BY <1>2, IsASeq, LenProperties
<1>6. Piece(ss, t, g)
  BY <1>4, <1>5 DEF Piece
<1>7. Elements(g) \in SUBSET {0}
  BY <1>5 DEF Elements
<1> QED
  BY <1>1, <1>2, <1>6, <1>7

\* The slots in P, in their order.
LEMMA NumberedPiece ==
    ASSUME slots \in Seq(SlotSet), NEW P \in SUBSET (1..Len(slots))
    PROVE  \E g : Piece(slots, numbered(P), g) /\ Elements(g) = P
<1>1. PICK ss : ss = slots
  OBVIOUS
<1>2. PICK m : m = Cardinality(P)
  OBVIOUS
<1>3. Len(ss) \in Nat /\ ss \in Seq(SlotSet)
  BY <1>1, LenProperties
<1>4. IsFiniteSet(P) /\ m \in Nat /\ P \in SUBSET Nat
  <2>1. IsFiniteSet(1..Len(slots)) /\ Len(slots) \in Nat
    BY <1>1, <1>3, FS_Interval
  <2>2. IsFiniteSet(P)
    BY <2>1, FS_Subset
  <2>3. Cardinality(P) \in Nat
    BY <2>2, FS_CardinalityType
  <2> QED
    BY <1>2, <2>1, <2>2, <2>3
<1>5. PICK g, t : g = [n \in 1..m |-> Nth(P, n)] /\ t = [n \in 1..m |-> ss[Nth(P, n)]]
  OBVIOUS
<1>6. /\ \A n \in 1..m : Nth(P, n) \in P /\ UpTo(P, Nth(P, n)) = n
      /\ \A j \in P : UpTo(P, j) \in 1..m /\ Nth(P, UpTo(P, j)) = j
  BY <1>2, <1>4, NthIsPlace, RankGrows
<1>7. g \in Seq(Nat) /\ Len(g) = m /\ \A n \in 1..m : g[n] = Nth(P, n)
  <2>1. g \in [1..m -> Nat]
    BY <1>4, <1>5, <1>6
  <2> QED
    BY <1>4, <1>5, <2>1, LenProperties
<1>8. t \in Seq(SlotSet) /\ Len(t) = m /\ \A n \in 1..m : t[n] = ss[g[n]]
  <2>1. \A n \in 1..m : ss[Nth(P, n)] \in SlotSet
    BY <1>1, <1>3, <1>6, ElementOfSeq
  <2>2. t \in [1..m -> SlotSet]
    BY <1>5, <2>1
  <2> QED
    BY <1>4, <1>5, <1>7, <2>2, LenProperties
<1>9. Piece(ss, t, g)
  BY <1>1, <1>6, <1>7, <1>8 DEF Piece
<1>10. Elements(g) = P
  <2>1. Elements(g) = {Nth(P, n) : n \in 1..m}
    BY <1>7 DEF Elements
  <2>2. \A n \in 1..m : Nth(P, n) \in P
    BY <1>6
  <2>3. \A j \in P : \E n \in 1..m : Nth(P, n) = j
    BY <1>6
  <2> QED
    BY <2>1, <2>2, <2>3
<1>11. t = numbered(P)
  BY <1>1, <1>2, <1>5 DEF numbered
<1> QED
  BY <1>1, <1>9, <1>10, <1>11

\* A new numbering that leaves no allocated slot out has as many of them.
LEMMA SameUsed ==
    ASSUME NEW ss \in Seq(SlotSet), NEW t, NEW from, Piece(ss, t, from),
           used(ss) \in SUBSET Elements(from)
    PROVE  /\ Cardinality(used(t)) = Cardinality(used(ss))
           /\ \A j \in used(ss) : \E x \in 1..Len(t) : from[x] = j /\ t[x] = ss[j]
<1>1. /\ t \in Seq(SlotSet) /\ Len(from) = Len(t) /\ Len(t) \in Nat /\ Len(ss) \in Nat
      /\ \A x \in 1..Len(t) : \/ from[x] = 0 /\ t[x] = empty
                              \/ from[x] \in 1..Len(ss) /\ t[x] = ss[from[x]]
      /\ \A x, y \in 1..Len(t) : from[x] = from[y] => x = y \/ from[x] = 0
  BY LenProperties DEF Piece
<1>2. empty.status = "free"
  BY DEF empty
<1>3. ASSUME NEW x \in used(t)
      PROVE  x \in 1..Len(t) /\ from[x] \in used(ss) /\ from[x] # 0
  <2>1. x \in 1..Len(t) /\ t[x].status = "allocated"
    BY DEF used
  <2>2. from[x] \in 1..Len(ss) /\ t[x] = ss[from[x]]
    BY <1>1, <1>2, <2>1
  <2> QED
    BY <1>1, <2>1, <2>2 DEF used
<1>4. ASSUME NEW j \in used(ss)
      PROVE  \E x \in 1..Len(t) : from[x] = j /\ t[x] = ss[j] /\ x \in used(t)
  <2>1. PICK x \in 1..Len(t) : from[x] = j
    BY <1>1 DEF Elements
  <2>2. j \in 1..Len(ss) /\ j # 0 /\ ss[j].status = "allocated"
    BY <1>1 DEF used
  <2>3. t[x] = ss[j]
    BY <1>1, <2>1, <2>2
  <2> QED
    BY <2>1, <2>2, <2>3 DEF used
<1>5. PICK A, B : A = used(t) /\ B = used(ss)
  OBVIOUS
<1>6. PICK f : f = [x \in A |-> from[x]]
  OBVIOUS
<1>7. f \in Bijection(A, B)
  <2>1. f \in [A -> B]
    BY <1>3, <1>5, <1>6
  <2>2. \A x, y \in A : f[x] = f[y] => x = y
    BY <1>1, <1>3, <1>5, <1>6
  <2>3. \A j \in B : \E x \in A : f[x] = j
    BY <1>4, <1>5, <1>6
  <2> QED
    BY <2>1, <2>2, <2>3 DEF Bijection, Injection, Surjection, IsInjective
<1>8. IsFiniteSet(A)
  BY <1>1, <1>5, SlotTypes
<1>9. Cardinality(B) = Cardinality(A)
  BY <1>7, <1>8, FS_Bijection DEF ExistsBijection
<1> QED
  BY <1>4, <1>5, <1>9

\* The numbers that are written into the objects.
Rewrites(t, ids, ids2) ==
    ids2 = [o \in DOMAIN ids |-> IF \E i \in slotIds(t) : t[i].obj = o
                                 THEN CHOOSE i \in slotIds(t) : t[i].obj = o ELSE ids[o]]

LEMMA RenumberIsSound ==
    ASSUME NEW ss, NEW free, NEW heap, NEW ids, NEW away, NEW cs,
           Sound(ss, free, heap, ids, away, cs),
           NEW t, NEW from, Piece(ss, t, from), used(ss) \in SUBSET Elements(from),
           NEW ids2, Rewrites(t, ids, ids2), NEW heap2 \in SUBSET freeIds(t)
    PROVE  Sound(t, freeIds(t), heap2, ids2, away, cs)
<1>1. /\ SlotsHold(ss, free, heap, ids, away) /\ HandsHold(cs, ids) /\ Backed(ss, ids, cs, away)
  BY DEF Sound
<1>2. /\ ss \in Seq(SlotSet) /\ ids \in Seq(Nat) /\ Len(ids) \in Nat /\ Len(ss) \in Nat
      /\ away \in SUBSET (1..Len(ids))
      /\ \A x \in 1..Len(ss) : ss[x].obj # 0 =>
            /\ ss[x].obj \in 1..Len(ids) /\ ids[ss[x].obj] = x /\ ss[x].obj \notin away
  BY <1>1, LenProperties DEF SlotsHold
<1>3. /\ t \in Seq(SlotSet) /\ Len(from) = Len(t) /\ Len(t) \in Nat
      /\ \A x \in 1..Len(t) : \/ from[x] = 0 /\ t[x] = empty
                              \/ from[x] \in 1..Len(ss) /\ t[x] = ss[from[x]]
      /\ \A x, y \in 1..Len(t) : from[x] = from[y] => x = y \/ from[x] = 0
  BY LenProperties DEF Piece
<1>4. empty.obj = 0 /\ slotIds(t) = 1..Len(t)
  BY <1>3, SlotTypes DEF empty
<1>5. ASSUME NEW x \in 1..Len(t), t[x].obj # 0
      PROVE  /\ from[x] \in 1..Len(ss) /\ t[x] = ss[from[x]] /\ from[x] # 0
             /\ t[x].obj \in 1..Len(ids) /\ ids[t[x].obj] = from[x] /\ t[x].obj \notin away
  <2>1. from[x] \in 1..Len(ss) /\ t[x] = ss[from[x]]
    BY <1>3, <1>4, <1>5
  <2> QED
    BY <1>2, <1>5, <2>1
<1>6. ASSUME NEW x \in 1..Len(t), NEW y \in 1..Len(t), t[x].obj = t[y].obj, t[x].obj # 0
      PROVE  x = y
  <2>1. from[x] = from[y] /\ from[x] # 0
    BY <1>5, <1>6
  <2> QED
    BY <1>3, <2>1
<1>7. \A o \in 1..Len(ids) : ids2[o] = IF \E i \in 1..Len(t) : t[i].obj = o
                                       THEN CHOOSE i \in 1..Len(t) : t[i].obj = o ELSE ids[o]
  BY <1>2, <1>4, LenProperties DEF Rewrites
<1>8. ASSUME NEW x \in 1..Len(t), t[x].obj # 0 PROVE ids2[t[x].obj] = x
  <2>1. PICK o : o = t[x].obj
    OBVIOUS
  <2>2. PICK k : k = CHOOSE i \in 1..Len(t) : t[i].obj = o
    OBVIOUS
  <2>3. k \in 1..Len(t) /\ t[k].obj = o
    BY <2>1, <2>2
  <2>4. k = x
    BY <1>6, <1>8, <2>1, <2>3
  <2> QED
    BY <1>5, <1>7, <1>8, <2>1, <2>2, <2>4
<1>9. ids2 \in Seq(Nat) /\ Len(ids2) = Len(ids)
  <2>1. \A o \in 1..Len(ids) : ids2[o] \in Nat
    <3> TAKE o \in 1..Len(ids)
    <3>1. CASE \E i \in 1..Len(t) : t[i].obj = o
      <4>1. PICK i \in 1..Len(t) : t[i].obj = o
        BY <3>1
      <4>2. t[i].obj # 0 /\ i \in Nat
        BY <1>2, <1>3, <4>1
      <4>3. ids2[t[i].obj] = i
        BY <1>8, <4>2
      <4> QED
        BY <4>1, <4>2, <4>3
    <3>2. CASE ~(\E i \in 1..Len(t) : t[i].obj = o)
      <4>1. ids2[o] = ids[o]
        BY <1>7, <3>2
      <4> QED
        BY <1>2, <4>1, ElementOfSeq
    <3> QED
      BY <3>1, <3>2
  <2>2. DOMAIN ids = 1..Len(ids)
    BY <1>2, LenProperties
  <2>3. ids2 = [o \in 1..Len(ids) |-> ids2[o]]
    BY <2>2 DEF Rewrites
  <2>4. ids2 \in [1..Len(ids) -> Nat]
    BY <2>1, <2>3
  <2> QED
    BY <1>2, <2>4, LenProperties
<1>10. SlotsHold(t, freeIds(t), heap2, ids2, away)
  BY <1>2, <1>3, <1>5, <1>8, <1>9 DEF SlotsHold
<1>11. HandsHold(cs, ids2)
  BY <1>1, <1>9 DEF HandsHold
<1>12. Backed(t, ids2, cs, away)
  <2>1. /\ Cardinality(used(t)) = Cardinality(used(ss))
        /\ \A j \in used(ss) : \E x \in 1..Len(t) : from[x] = j /\ t[x] = ss[j]
    BY <1>2, SameUsed
  <2>2. Cardinality(used(t)) = Cardinality(holders(cs))
    BY <1>1, <2>1 DEF Backed
  <2>3. ASSUME NEW d \in holders(cs), Lies(ss, ids, cs[d].obj)
        PROVE  Lies(t, ids2, cs[d].obj)
    <3>1. PICK o, j : o = cs[d].obj /\ j = ids[o]
      OBVIOUS
    <3>2. o # 0 /\ j \in used(ss) /\ ss[j].obj = o /\ ss[j].status = "allocated"
      BY <1>1, <2>3, <3>1 DEF Lies, used, HandsHold
    <3>3. PICK x \in 1..Len(t) : t[x] = ss[j]
      BY <2>1, <3>2
    <3>4. ids2[o] = x
      BY <1>8, <3>2, <3>3
    <3> QED
      BY <3>1, <3>2, <3>3, <3>4 DEF Lies
  <2> QED
    BY <1>1, <2>2, <2>3 DEF Backed
<1> QED
  BY <1>10, <1>11, <1>12 DEF Sound

LEMMA RenumbersSoundly ==
    ASSUME PoolInv, ~poolGone, NEW t, NEW from, Piece(slots, t, from),
           used(slots) \in SUBSET Elements(from), renumber(t),
           UNCHANGED <<waitQueue, callers, ousted, poolGone>>
    PROVE  PoolInv'
<1>1. Sound(slots, freeList, lruHeap, poolId, ousted, callers)
  BY PoolIsSound
<1>2. PICK ids2, heap2 : ids2 = poolId' /\ heap2 = lruHeap'
  OBVIOUS
<1>3. /\ slots' = t /\ freeList' = freeIds(t) /\ Rewrites(t, poolId, ids2)
      /\ heap2 \in SUBSET freeIds(t)
  BY <1>2 DEF renumber, rewrittenIds, Rewrites, rebuiltHeap
<1>4. Sound(t, freeIds(t), heap2, ids2, ousted, callers)
  BY <1>1, <1>3, RenumberIsSound
<1>5. QueueHolds(waitQueue, callers)
  BY DEF PoolInv
<1> QED
  BY <1>2, <1>3, <1>4, <1>5, PoolStaysSound

LEMMA TwoNumbers ==
    ASSUME NEW a \in Int, NEW b \in Int
    PROVE  Min({a, b}) \in {a, b} /\ Max({a, b}) \in {a, b}
<1>1. \E x \in {a, b} : \A y \in {a, b} : x <= y
  OBVIOUS
<1>2. \E x \in {a, b} : \A y \in {a, b} : x >= y
  OBVIOUS
<1> QED
  BY <1>1, <1>2 DEF Min, Max

LEMMA CapacityTypes ==
    ASSUME PoolAssumption, PoolInv, NEW n \in Nat
    PROVE  allocatedCount \in Int /\ clamped(n) \in Int /\ drainTarget \in Int
<1>1. slots \in Seq(SlotSet) /\ freeList = freeIds(slots)
  BY DEF PoolInv, SlotsHold
<1>2. PICK k : k = allocatedCount
  OBVIOUS
<1>3. k \in Int
  BY <1>1, <1>2, SlotTypes DEF allocatedCount
<1>4. MaxCapacity \in Int /\ InitialCapacity \in Int /\ MinFree \in Int
  BY DEF PoolAssumption
<1>5. clamped(n) \in Int
  <2>1. PICK m : m = Min({n, MaxCapacity})
    OBVIOUS
  <2>2. m \in Int
    BY <1>4, <2>1, TwoNumbers
  <2>3. Max({k, m}) \in Int
    BY <1>3, <2>2, TwoNumbers
  <2> QED
    BY <1>2, <2>1, <2>3 DEF clamped
<1>6. drainTarget \in Int
  <2>1. PICK m : m = MinFree + k
    OBVIOUS
  <2>2. m \in Int
    BY <1>3, <1>4, <2>1
  <2>3. Max({InitialCapacity, m}) \in Int
    BY <1>4, <2>2, TwoNumbers
  <2> QED
    BY <1>2, <2>1, <2>3 DEF drainTarget
<1> QED
  BY <1>2, <1>3, <1>5, <1>6

LEMMA ResizeIsSound ==
    ASSUME PoolAssumption, PoolInv, ~poolGone, NEW n \in Nat, Resize(n),
           UNCHANGED <<waitQueue, callers, ousted, poolGone>>
    PROVE  PoolInv'
<1>1. /\ Sound(slots, freeList, lruHeap, poolId, ousted, callers)
      /\ QueueHolds(waitQueue, callers)
  BY PoolIsSound
<1>2. /\ SlotsHold(slots, freeList, lruHeap, poolId, ousted) /\ HandsHold(callers, poolId)
      /\ Backed(slots, poolId, callers, ousted)
  BY <1>1 DEF Sound
<1>3. /\ slots \in Seq(SlotSet) /\ freeList = freeIds(slots)
      /\ slotIds(slots) = 1..Len(slots) /\ freeIds(slots) = (1..Len(slots)) \ used(slots)
      /\ used(slots) \in SUBSET (1..Len(slots))
  BY <1>2, SlotTypes DEF SlotsHold
<1>4. ASSUME NEW gone \in SUBSET freeList, renumber(numbered(slotIds(slots) \ gone))
      PROVE  PoolInv'
  <2>1. PICK P : P = slotIds(slots) \ gone
    OBVIOUS
  <2>2. P \in SUBSET (1..Len(slots)) /\ used(slots) \in SUBSET P
    BY <1>3, <2>1
  <2>3. PICK from : Piece(slots, numbered(P), from) /\ Elements(from) = P
    BY <1>3, <2>2, NumberedPiece
  <2>4. PICK t : t = numbered(P)
    OBVIOUS
  <2>5. Piece(slots, t, from) /\ used(slots) \in SUBSET Elements(from) /\ renumber(t)
    BY <1>4, <2>1, <2>2, <2>3, <2>4
  <2> QED
    BY <2>5, RenumbersSoundly
<1>5. ASSUME slots' = grown(clamped(n)), freeList' = freeList \cup (slotIds(slots') \ slotIds(slots)),
             lruHeap' = rebuiltHeap(slots'), UNCHANGED poolId
      PROVE  PoolInv'
  <2>1. PICK k : k = clamped(n)
    OBVIOUS
  <2>2. k \in Int
    BY <2>1, CapacityTypes
  <2>3. PICK ss, heap2 : ss = slots' /\ heap2 = lruHeap'
    OBVIOUS
  <2>4. GrownTo(slots, k, ss) /\ heap2 \in SUBSET freeIds(ss)
    BY <1>5, <2>1, <2>3 DEF grown, GrownTo, rebuiltHeap
  <2>5. /\ SlotsHold(ss, freeIds(ss), heap2, poolId, ousted)
        /\ freeIds(ss) = freeList \cup (slotIds(ss) \ slotIds(slots))
        /\ Backed(ss, poolId, callers, ousted)
    BY <1>2, <2>2, <2>4, Grows
  <2>6. Sound(ss, freeIds(ss), heap2, poolId, ousted, callers)
    BY <1>2, <2>5 DEF Sound
  <2> QED
    BY <1>1, <1>5, <2>3, <2>5, <2>6, PoolStaysSound
<1> QED
  BY <1>4, <1>5 DEF Resize, kSubset

LEMMA DrainIsSound ==
    ASSUME PoolAssumption, PoolInv, ~poolGone, Drain,
           UNCHANGED <<waitQueue, callers, ousted, poolGone>>
    PROVE  PoolInv'
<1>1. slots \in Seq(SlotSet)
  BY DEF PoolInv, SlotsHold
<1>2. /\ slotIds(slots) = 1..Len(slots) /\ freeIds(slots) = (1..Len(slots)) \ used(slots)
      /\ used(slots) \in SUBSET (1..Len(slots)) /\ Len(slots) \in Nat
  BY <1>1, SlotTypes
<1>3. PICK P : P = slotIds(slots) \ freeIds(slots)
  OBVIOUS
<1>4. PICK Q \in SUBSET freeIds(slots) :
          LET ss == numbered(P) \o numbered(Q)
          IN renumber(ss \o [i \in 1..(drainTarget - Len(ss)) |-> empty])
  BY <1>3 DEF Drain, kSubset
<1>5. P = used(slots) /\ P \in SUBSET (1..Len(slots)) /\ Q \in SUBSET (1..Len(slots))
      /\ P \intersect Q = {} /\ 0 \notin P /\ 0 \notin Q
  BY <1>2, <1>3
<1>6. PICK f : Piece(slots, numbered(P), f) /\ Elements(f) = P
  BY <1>1, <1>5, NumberedPiece
<1>7. PICK g : Piece(slots, numbered(Q), g) /\ Elements(g) = Q
  BY <1>1, <1>5, NumberedPiece
<1>8. PICK ss, s, t, from : /\ s = numbered(P) /\ t = numbered(Q) /\ ss = s \o t
                            /\ from = f \o g
  OBVIOUS
<1>9. Joined(slots, s, t, f, g, ss, from)
  BY <1>5, <1>6, <1>7, <1>8 DEF Joined
<1>10. Piece(slots, ss, from) /\ Elements(from) = Elements(f) \cup Elements(g)
  BY <1>9, PiecesJoin
<1>11. PICK k : k = drainTarget - Len(ss)
  OBVIOUS
<1>12. k \in Int
  <2>1. drainTarget \in Int
    BY CapacityTypes
  <2>2. Len(ss) \in Nat
    BY <1>8, <1>10, LenProperties DEF Piece
  <2> QED
    BY <1>11, <2>1, <2>2
<1>13. PICK h : Piece(slots, [i \in 1..k |-> empty], h) /\ Elements(h) \in SUBSET {0}
  BY <1>12, EmptyPiece
<1>14. PICK rest, all, origin : /\ rest = [i \in 1..k |-> empty] /\ all = ss \o rest
                               /\ origin = from \o h
  OBVIOUS
<1>15. /\ Joined(slots, ss, rest, from, h, all, origin)
       /\ used(slots) \in SUBSET Elements(from)
  BY <1>5, <1>6, <1>10, <1>13, <1>14 DEF Joined
<1>16. Piece(slots, all, origin) /\ Elements(origin) = Elements(from) \cup Elements(h)
  BY <1>15, PiecesJoin
<1>17. renumber(all)
  BY <1>4, <1>8, <1>11, <1>14
<1>19. Piece(slots, all, origin) /\ used(slots) \in SUBSET Elements(origin) /\ renumber(all)
  BY <1>15, <1>16, <1>17
<1> QED
  BY <1>19, RenumbersSoundly

LEMMA ChangeCapacityIsSound ==
    ASSUME PoolAssumption, PoolInv, ChangeCapacity
    PROVE  PoolInv'
<1>1. ~poolGone /\ UNCHANGED <<waitQueue, callers, ousted, poolGone>>
  BY DEF ChangeCapacity
<1>2. ASSUME NEW n \in 1..MaxCapacity, Resize(n) PROVE PoolInv'
  <2>1. n \in Nat
    BY DEF PoolAssumption
  <2> QED
    BY <1>1, <1>2, <2>1, ResizeIsSound
<1>3. ASSUME Drain PROVE PoolInv'
  BY <1>1, <1>3, DrainIsSound
<1>4. ASSUME Clear PROVE PoolInv'
  BY <1>1, <1>4, ClearIsSound
<1> QED
  BY <1>2, <1>3, <1>4 DEF ChangeCapacity

LEMMA PoolStep ==
    ASSUME PoolAssumption, PoolInv, [PoolNext]_poolVars
    PROVE  PoolInv'
<1>1. ASSUME NEW c \in Callers, Acquire(c) PROVE PoolInv'
  BY <1>1, AcquireIsSound
<1>2. ASSUME NEW c \in Callers, Wait(c) PROVE PoolInv'
  BY <1>2, WaitIsSound
<1>3. ASSUME NEW c \in Callers, ExpandAsync(c) PROVE PoolInv'
  BY <1>3, ExpandAsyncIsSound
<1>4. ASSUME NEW c \in Callers, AcquireFilled(c) PROVE PoolInv'
  BY <1>4, AcquireFilledIsSound
<1>5. ASSUME NEW c \in Callers, WaitTimeout(c) PROVE PoolInv'
  BY <1>5, WaitTimeoutIsSound
<1>6. ASSUME NEW c \in Callers, Release(c) PROVE PoolInv'
  BY <1>6, ReleaseIsSound
<1>7. ASSUME NEW f \in fillings, Fill(f) PROVE PoolInv'
  BY <1>7, FillIsSound
<1>8. CASE ChangeCapacity
  BY <1>8, ChangeCapacityIsSound
<1>9. CASE DisposePool
  BY <1>9, DisposePoolIsSound
<1>10. CASE UNCHANGED poolVars
  BY <1>10 DEF PoolInv, poolVars
<1> QED
  BY <1>1, <1>2, <1>3, <1>4, <1>5, <1>6, <1>7, <1>8, <1>9, <1>10 DEF PoolNext

\* However acquiring, releasing, waiting, expanding, resizing, draining, clearing and
\* late fillings interleave: the free list, the heap and the numbers in the objects
\* describe the slots, no object is in two hands, and every allocated slot is
\* somebody's, who can give its object back unless a filling replaced it
\* (memory-pool.ts acquire, release, resize, drain, _expandAsync).
THEOREM PoolStaysAgreed == PoolAssumption => (PoolSpec => []PoolAgrees)
<1> SUFFICES ASSUME PoolAssumption PROVE PoolSpec => []PoolAgrees
  OBVIOUS
<1>1. PoolInit => PoolInv
  BY PoolBegins
<1>2. PoolInv /\ [PoolNext]_poolVars => PoolInv'
  BY PoolStep
<1>3. PoolInv => PoolAgrees
  BY PoolInvIsEnough
<1> QED
  BY <1>1, <1>2, <1>3, PTL DEF PoolSpec
=============================================================================
