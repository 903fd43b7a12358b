-------------------------- MODULE MCEventScheduler --------------------------
(* Small instances of EventScheduler for TLC. *)
EXTENDS EventScheduler

CONSTANTS a, b, c, w

\* a and b share the priority NORMAL, c is IMMEDIATE.
MCPriority == [t \in Tasks |-> IF t = c THEN 0 ELSE 2]
=============================================================================
