---------------------------- MODULE EntityTable ----------------------------
(***************************************************************************)
(* What the World of @axrone/ecs-runtime promises its callers: a table of  *)
(* entities, each with at most one instance of a component.  A call        *)
(* changes the row of one entity and no other, and an instance is in one   *)
(* row only.  How the rows are stored is the subject of World.tla.         *)
(***************************************************************************)
CONSTANTS Entities, Components, Instances, NoRow

VARIABLE table   \* the row of an entity, a function on its components, or NoRow

Rows == UNION {[S -> Instances] : S \in SUBSET Components}
Alive == {e \in Entities : table[e] # NoRow}
InUse == UNION {{table[e][c] : c \in DOMAIN table[e]} : e \in Alive}

TableInit == table = [e \in Entities |-> NoRow]

\* A new row holds instances that no row holds, and none of them twice.
Create(e) ==
    /\ table[e] = NoRow /\ table'[e] # NoRow
    /\ LET row == table'[e]
       IN  /\ row \in Rows
           /\ \A c \in DOMAIN row : row[c] \notin InUse
           /\ \A c, d \in DOMAIN row : row[c] = row[d] => c = d
           /\ table' = [table EXCEPT ![e] = row]

Destroy(e) ==
    /\ table[e] # NoRow
    /\ table' = [table EXCEPT ![e] = NoRow]

Add(e, c) ==
    /\ table[e] # NoRow /\ c \notin DOMAIN table[e]
    /\ \E o \in Instances \ InUse :
          table' = [table EXCEPT ![e] =
                       [d \in DOMAIN @ \union {c} |-> IF d = c THEN o ELSE @[d]]]

Remove(e, c) ==
    /\ table[e] # NoRow /\ c \in DOMAIN table[e]
    /\ table' = [table EXCEPT ![e] = [d \in DOMAIN @ \ {c} |-> @[d]]]

Clear == table' = [e \in Entities |-> NoRow]

TableNext ==
    \/ \E e \in Entities : Create(e) \/ Destroy(e)
    \/ \E e \in Entities, c \in Components : Add(e, c) \/ Remove(e, c)
    \/ Clear

TableSpec == TableInit /\ [][TableNext]_table
=============================================================================
