--------------------------- MODULE AsyncSingleton ---------------------------
(***************************************************************************)
(* The asynchronous singleton of packages/utility: one value, made by a    *)
(* factory that may fail or hang past a timeout and is tried again, handed *)
(* to any number of callers, reset, and disposed of by a disposer that may *)
(* fail.  The singleton is lazy.  Values are numbered as they are made; a  *)
(* value that arrives after its timeout is dropped by the code unseen.     *)
(*                                                                         *)
(* Other microtasks and callers run between the settling of a promise and  *)
(* the continuation of who awaits it.  The factory and the disposer are    *)
(* taken not to call the singleton before they first wait.                 *)
(***************************************************************************)
EXTENDS Naturals, FiniteSets

CONSTANTS
    Getters,    \* calls of getInstance
    Disposers,  \* calls of disposeAsync
    RetryCount, \* option retryCount
    MaxInits    \* bound: initialisations begun

ASSUME SingletonAssumption == RetryCount \in Nat /\ MaxInits \in Nat

VARIABLES
    state,      \* SingletonState
    value,      \* the value, named after its initialisation; 0: hasValue is FALSE
    factory,    \* whether factory is set
    promise,    \* the initialisation whose promise is kept, or 0
    begun,      \* initialisations begun so far
    running,    \* those under way: attempts begun, whether they call a factory
    getting,    \* getter -> what it does, the initialisation it waits for, its answer
    disposing,  \* disposeAsync call -> what it does and why
    shared,     \* disposePromise: the set of the one call it belongs to, or {}
    calls,      \* value -> times the disposer was called on it
    displaced   \* history: a call of disposeAsync that had waited went on while
                \* another initialisation or disposal was under way

singletonVars == <<state, value, factory, promise, begun, running, getting, disposing,
                   shared, calls, displaced>>

States == {"uninitialized", "initializing", "resolved", "disposing", "disposed", "faulted"}
Inits == 1..MaxInits
SingletonTypeOK ==
    /\ state \in States /\ value \in 0..MaxInits /\ factory \in BOOLEAN
    /\ promise \in 0..MaxInits /\ begun \in 0..MaxInits
    /\ running \subseteq [init : Inits, attempt : 1..RetryCount + 1, makes : BOOLEAN]
    /\ getting \in [Getters -> [stage : {"none", "waiting", "got", "failed"},
                                init : 0..MaxInits]]
    /\ disposing \in [Disposers ->
          [stage : {"none", "waiting", "calling", "joined", "done", "failed"},
           waited : 0..MaxInits, value : 0..MaxInits]]
    /\ shared \subseteq Disposers
    /\ calls \in [Inits -> Nat]
    /\ displaced \in BOOLEAN

SingletonInit ==
    /\ state = "uninitialized" /\ value = 0 /\ factory = TRUE /\ promise = 0
    /\ begun = 0 /\ running = {} /\ shared = {}
    /\ getting = [g \in Getters |-> [stage |-> "none", init |-> 0]]
    /\ disposing = [d \in Disposers |-> [stage |-> "none", waited |-> 0, value |-> 0]]
    /\ calls = [v \in Inits |-> 0] /\ displaced = FALSE

-----------------------------------------------------------------------------
(* Mutated forms, for the check that the properties detect plausible bugs   *)

MayInitialize_Always == TRUE
CanDispose_WhileDisposing == state \notin {"disposed", "initializing"}

-----------------------------------------------------------------------------
(* Initialisation                                                          *)

\* getInstance: the value, also one that is being disposed of; the answer of the
\* initialisation under way; or a new initialisation.  One that has no factory
\* and no retries left fails at once.
MayInitialize == promise = 0
initialize(g) ==
    LET n == begun + 1 IN
    /\ n <= MaxInits /\ begun' = n /\ promise' = n
    /\ IF factory \/ RetryCount > 0
       THEN /\ state' = "initializing"
            /\ running' = running \cup {[init |-> n, attempt |-> 1, makes |-> factory]}
            /\ getting' = [getting EXCEPT ![g] = [stage |-> "waiting", init |-> n]]
       ELSE /\ state' = "faulted"
            /\ getting' = [getting EXCEPT ![g].stage = "failed"]
            /\ UNCHANGED running

GetInstance(g) ==
    /\ getting[g].stage = "none"
    /\ \/ /\ state \in {"disposed", "faulted"}
          /\ getting' = [getting EXCEPT ![g].stage = "failed"]
          /\ UNCHANGED <<state, promise, begun, running>>
       \/ /\ state \notin {"disposed", "faulted"} /\ value # 0
          /\ getting' = [getting EXCEPT ![g] = [stage |-> "got", init |-> value]]
          /\ UNCHANGED <<state, promise, begun, running>>
       \/ /\ state \notin {"disposed", "faulted"} /\ value = 0 /\ ~MayInitialize
          /\ getting' = [getting EXCEPT ![g] = [stage |-> "waiting", init |-> promise]]
          /\ UNCHANGED <<state, promise, begun, running>>
       \/ /\ state \notin {"disposed", "faulted"} /\ value = 0 /\ MayInitialize
          /\ initialize(g)
    /\ UNCHANGED <<value, factory, disposing, shared, calls, displaced>>

answered(n, stage) ==
    [g \in Getters |-> IF getting[g].stage = "waiting" /\ getting[g].init = n
                       THEN [getting[g] EXCEPT !.stage = stage] ELSE getting[g]]

FactoryMakes(r) ==
    /\ r \in running /\ r.makes
    /\ value' = r.init /\ state' = "resolved" /\ factory' = FALSE
    /\ running' = running \ {r}
    /\ getting' = answered(r.init, "got")
    /\ UNCHANGED <<promise, begun, disposing, shared, calls, displaced>>

\* The factory rejected or timed out: another attempt after a delay, or none.
AttemptsLeft(r) == r.attempt < RetryCount + 1
FactoryFails(r) ==
    /\ r \in running
    /\ \/ /\ AttemptsLeft(r)
          /\ running' = (running \ {r}) \cup
                {[r EXCEPT !.attempt = @ + 1, !.makes = factory]}
          /\ UNCHANGED <<state, promise, getting>>
       \/ /\ ~AttemptsLeft(r)
          /\ running' = running \ {r}
          /\ state' = "faulted" /\ promise' = 0
          /\ getting' = answered(r.init, "failed")
    /\ UNCHANGED <<value, factory, begun, disposing, shared, calls, displaced>>

CanReset == state \notin {"disposed", "disposing", "initializing"}
Reset ==
    /\ CanReset
    /\ value' = 0 /\ state' = "uninitialized" /\ factory' = TRUE /\ promise' = 0
    /\ UNCHANGED <<begun, running, getting, disposing, shared, calls, displaced>>

-----------------------------------------------------------------------------
(* Disposal                                                                *)

finalizeDispose == value' = 0 /\ factory' = FALSE /\ promise' = 0 /\ state' = "disposed"
called(v) == [calls EXCEPT ![v] = @ + 1]

\* dispose(): a disposer that throws or returns a promise leaves it disposing.
CanDispose == state \notin {"disposed", "disposing", "initializing"}
DisposeNow ==
    /\ CanDispose
    /\ calls' = IF value = 0 THEN calls ELSE called(value)
    /\ \/ finalizeDispose
       \/ /\ value # 0 /\ state' = "disposing" /\ UNCHANGED <<value, factory, promise>>
    /\ UNCHANGED <<begun, running, getting, disposing, shared, displaced>>

\* performAsyncDispose up to its wait.  disposePromise is set when it returns, also
\* when there was no value or the disposer threw at once.
performAsyncDispose(d) ==
    /\ shared' = {d}
    /\ \/ /\ value = 0 /\ finalizeDispose
          /\ disposing' = [disposing EXCEPT ![d].stage = "done"]
          /\ UNCHANGED calls
       \/ /\ value # 0 /\ calls' = called(value) /\ UNCHANGED <<value, factory, promise>>
          /\ \/ /\ state' = "disposing"
                /\ disposing' = [disposing EXCEPT ![d].stage = "calling", ![d].value = value]
             \/ /\ state' = "resolved"
                /\ disposing' = [disposing EXCEPT ![d].stage = "failed", ![d].value = value]

join(d) ==
    LET e == CHOOSE e \in shared : TRUE IN
    disposing' = [disposing EXCEPT ![d].stage =
        IF disposing[e].stage = "calling" THEN "joined" ELSE disposing[e].stage]

DisposeAsync(d) ==
    /\ disposing[d].stage = "none"
    /\ \/ /\ state # "disposed" /\ shared # {} /\ join(d)
          /\ UNCHANGED <<state, value, factory, promise, shared, calls>>
       \/ /\ state = "disposed" \/ (shared = {} /\ state = "disposing")
          /\ disposing' = [disposing EXCEPT ![d].stage = "done"]
          /\ UNCHANGED <<state, value, factory, promise, shared, calls>>
       \/ /\ shared = {} /\ state = "initializing"
          /\ disposing' = [disposing EXCEPT ![d] =
                [stage |-> "waiting", waited |-> promise, value |-> 0]]
          /\ UNCHANGED <<state, value, factory, promise, shared, calls>>
       \/ /\ shared = {} /\ state \notin {"disposed", "disposing", "initializing"}
          /\ performAsyncDispose(d)
    /\ UNCHANGED <<begun, running, getting, displaced>>

\* The initialisation it waits for has settled.  What else may run before it goes
\* on, reset and a new getInstance or a disposal, it does not look at.
Resumes(d) ==
    disposing[d].stage = "waiting" /\ \A r \in running : r.init # disposing[d].waited
DisposerResumes(d) ==
    /\ Resumes(d)
    /\ performAsyncDispose(d)
    /\ displaced' = (displaced \/ state \in {"initializing", "disposing"})
    /\ UNCHANGED <<begun, running, getting>>

settled(d, stage) ==
    [e \in Disposers |->
        IF e = d \/ (shared = {d} /\ disposing[e].stage = "joined")
        THEN [disposing[e] EXCEPT !.stage = stage] ELSE disposing[e]]
DisposerAnswers(d) ==
    /\ disposing[d].stage = "calling" /\ shared' = {}
    /\ \/ finalizeDispose /\ disposing' = settled(d, "done")
       \/ /\ state' = "resolved" /\ disposing' = settled(d, "failed")
          /\ UNCHANGED <<value, factory, promise>>
    /\ UNCHANGED <<begun, running, getting, calls, displaced>>

SingletonNext ==
    \/ \E g \in Getters : GetInstance(g)
    \/ \E r \in running : FactoryMakes(r) \/ FactoryFails(r)
    \/ \E d \in Disposers : DisposeAsync(d) \/ DisposerResumes(d) \/ DisposerAnswers(d)
    \/ Reset \/ DisposeNow

SingletonSpec == SingletonInit /\ [][SingletonNext]_singletonVars

-----------------------------------------------------------------------------
(* Correctness                                                             *)

Waiting(n) == {g \in Getters : getting[g].stage = "waiting" /\ getting[g].init = n}

\* However getInstance, reset and the disposals interleave, one initialisation is
\* under way at a time, exactly while the state says so, and every caller that
\* waits, waits for that one: nobody is left with a promise that was replaced.
\* Only a disposal that waited, and goes on when another life of the singleton
\* has begun or another disposal runs, can break it.
OneInitialisation ==
    /\ SingletonTypeOK
    /\ \/ displaced
       \/ /\ Cardinality(running) <= 1
          /\ state = "initializing" <=> running # {}
          /\ \A r \in running : r.init = promise
          /\ \A n \in Inits : Waiting(n) # {} => \E r \in running : r.init = n

\* The disposer sees a value once, unless a call of it failed or a disposal that
\* had waited ran into another one or into another life.
DisposedOfOnce ==
    \A v \in Inits : calls[v] > 1 =>
        \/ \E d \in Disposers : disposing[d].value = v /\ disposing[d].stage = "failed"
        \/ displaced
=============================================================================
