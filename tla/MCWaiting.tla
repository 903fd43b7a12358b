----------------------------- MODULE MCWaiting ------------------------------
(***************************************************************************)
(* Small instances of the emitter, whose drain() waits for all listeners,  *)
(* and of the object pool, whose acquireAsync() waits for an object: those *)
(* who wait are answered in the end.  The two share no state: a behaviour  *)
(* is one of a single of them, so that the states to explore add up.       *)
(***************************************************************************)
EXTENDS MCEventEmitter, MemoryPool

VARIABLE waited

ASSUME PoolAssumption

WaitInit == waited \in {"emitter", "pool"} /\ Init /\ PoolInit

WaitNext ==
    \/ waited = "emitter" /\ Next /\ UNCHANGED <<waited, poolVars>>
    \/ waited = "pool" /\ PoolNext /\ UNCHANGED <<waited, vars>>

WaitSpec == WaitInit /\ [][WaitNext]_<<waited, vars, poolVars>> /\ Fairness /\ PoolFairness
=============================================================================
