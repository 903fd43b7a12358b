------------------------------ MODULE MCWorld ------------------------------
(* Small instances of World for TLC. *)
EXTENDS World, TLC

CONSTANTS Position, Manager, a1, a2

MCQueries == {{Position, Manager}}
MCReactive == {Position, Manager}
MCSymmetry == Permutations(Actors)
=============================================================================
