--------------------------- MODULE MCEventEmitter ---------------------------
(* Small instances of EventEmitter for TLC. *)
EXTENDS EventEmitter

CONSTANTS e1, e2, e3, l1, l2

\* e3 has a higher priority than the others; all have the same name, or it has
\* another, which nobody listens to.
MCName == [e \in Events |-> "n"]
MCTwoNames == [e \in Events |-> IF e = e3 THEN "m" ELSE "n"]
MCPriority == [e \in Events |-> IF e = e3 THEN 0 ELSE 1]
MCListensTo == [l \in Listeners |-> "n"]
MCFlushOf == [f \in Flushers |-> "n"]
=============================================================================
