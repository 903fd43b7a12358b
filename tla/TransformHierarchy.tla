------------------------- MODULE TransformHierarchy -------------------------
(***************************************************************************)
(* The Hierarchy and Transform components of actors (ecs-runtime,          *)
(* component-system/components).  A hierarchy keeps its parent and its     *)
(* children; a transform caches its place in the world, which a change     *)
(* above it must invalidate, and to go down it caches the transforms of    *)
(* its children under the version of the hierarchy.  A local position,     *)
(* rotation and scale is a number that every change increases, a place in  *)
(* the world the set of the places it was composed of.                     *)
(***************************************************************************)
EXTENDS Integers, FiniteSets

CONSTANTS
    Actors,     \* entity ids: an actor made later may have the id of one destroyed
    NoActor,
    MaxChanges  \* bound: operations other than reading a place

ASSUME ActorsAssumption == IsFiniteSet(Actors) /\ NoActor \notin Actors /\ MaxChanges \in Nat

VARIABLES
    alive,      \* the actors there are
    parent,     \* Hierarchy._parent
    children,   \* Hierarchy._children
    version,    \* Hierarchy._version
    seen,       \* Transform._attachedChildrenArray and _attachedHierarchyVersion
    worldDirty, \* the actors whose Transform._worldDirty is set
    place,      \* position, rotation and scale
    world,      \* the place in the world as last computed
    replaced,   \* actors whose Hierarchy was removed and another one added
    changes     \* operations so far

hierarchyVars == <<alive, parent, children, version>>
transformVars == <<seen, worldDirty, place, world>>
treeVars == <<hierarchyVars, transformVars, replaced, changes>>

Places == Actors \X Nat
TreeTypeOK ==
    /\ alive \subseteq Actors /\ worldDirty \subseteq Actors /\ replaced \subseteq Actors
    /\ parent \in [Actors -> Actors \cup {NoActor}]
    /\ children \in [Actors -> SUBSET Actors]
    /\ version \in [Actors -> Nat]
    /\ seen \in [Actors -> [version : Int, kids : SUBSET Actors]]
    /\ place \in [Actors -> Nat] /\ world \in [Actors -> SUBSET Places]
    /\ changes \in Nat

unseen == [version |-> -1, kids |-> {}]
TreeInit ==
    /\ alive = {} /\ worldDirty = {} /\ replaced = {} /\ changes = 0
    /\ parent = [n \in Actors |-> NoActor] /\ children = [n \in Actors |-> {}]
    /\ version = [n \in Actors |-> 0] /\ seen = [n \in Actors |-> unseen]
    /\ place = [n \in Actors |-> 0] /\ world = [n \in Actors |-> {}]

-----------------------------------------------------------------------------
(* Mutated forms, for the check that the properties detect plausible bugs   *)

MayBeParent_OfAncestor(n, p) == p \notin {n, parent[n]}
touched_OnlyChild(n, p) == {n}

-----------------------------------------------------------------------------
(* Going up and down                                                       *)

\* What is reached from n when the children of m are kids[m]: the smallest set that
\* has n and the children of its members.
Below(n, kids) ==
    {m \in Actors : \A S \in SUBSET Actors :
        n \in S /\ (\A k \in S : kids[k] \subseteq S) => m \in S}
byParent == [m \in Actors |-> {k \in Actors : parent[k] = m}]
isDescendantOf(p, n) == p \in Below(n, byParent)

\* Transform.children: the array, built again when the version is another one.
kidsSeen(ss, vs, cs) ==
    [m \in Actors |-> IF ss[m].version = vs[m] THEN ss[m].kids ELSE cs[m]]

\* markWorldDirty on each of the roots, with the hierarchies as they are then.
markWorldDirty(roots, ss) ==
    LET kids == kidsSeen(ss, version', children')
        reached == UNION {Below(r, kids) : r \in roots}
    IN /\ worldDirty' = worldDirty \cup reached
       /\ seen' = [m \in Actors |-> IF m \in reached
                                    THEN [version |-> version'[m], kids |-> kids[m]] ELSE ss[m]]

\* markHierarchyDirty resets the version first.
forgotten(roots) ==
    [m \in Actors |-> IF m \in roots THEN [seen[m] EXCEPT !.version = -1] ELSE seen[m]]
markHierarchyDirty(roots) == markWorldDirty(roots, forgotten(roots))

Changing == changes < MaxChanges /\ changes' = changes + 1

-----------------------------------------------------------------------------
(* The operations                                                          *)

\* The constructor of Actor adds both components.
CreateActor(n) ==
    /\ Changing /\ n \notin alive
    /\ alive' = alive \cup {n} /\ worldDirty' = worldDirty \cup {n}
    /\ UNCHANGED <<parent, children, version, seen, place, world, replaced>>

\* Hierarchy.setParent, also by way of Actor.setParent and Transform.parent.
MayBeParent(n, p) == p \notin {n, parent[n]} /\ ~isDescendantOf(p, n)
touched(n, p) == {n, p, parent[n]}
SetParent(n, p) ==
    /\ Changing /\ n \in alive /\ p \in alive \cup {NoActor} /\ MayBeParent(n, p)
    /\ parent' = [parent EXCEPT ![n] = p]
    /\ children' = [m \in Actors |-> IF m = p THEN children[m] \cup {n} ELSE children[m] \ {n}]
    /\ version' = [m \in Actors |-> IF m \in touched(n, p) THEN version[m] + 1 ELSE version[m]]
    /\ markHierarchyDirty({n})
    /\ UNCHANGED <<alive, place, world, replaced>>

\* position, rotation, scale, translate, rotate, lookAt and deserialize.
ChangePlace(n) ==
    /\ Changing /\ n \in alive
    /\ place' = [place EXCEPT ![n] = @ + 1]
    /\ UNCHANGED hierarchyVars
    /\ markWorldDirty({n}, seen)
    /\ UNCHANGED <<world, replaced>>

\* Hierarchy.onDestroy: the children become roots, then n leaves its parent; the new
\* version of n is v.
orphaned(n) == children[n]
unlink(n, v) ==
    /\ parent' = [m \in Actors |-> IF m \in orphaned(n) \cup {n} THEN NoActor ELSE parent[m]]
    /\ children' = [m \in Actors |-> IF m = n THEN {} ELSE children[m] \ {n}]
    /\ version' = [m \in Actors |-> IF m = n THEN v
                                    ELSE IF m \in orphaned(n) \cup {parent[n]} THEN version[m] + 1
                                    ELSE version[m]]

\* Actor.destroy, with Transform.onDestroy.
DestroyActor(n) ==
    /\ Changing /\ n \in alive
    /\ alive' = alive \ {n} /\ replaced' = replaced \ {n}
    /\ unlink(n, 0)
    /\ LET kids == kidsSeen(forgotten(orphaned(n)), version', children')
           reached == UNION {Below(r, kids) : r \in orphaned(n)}
       IN /\ worldDirty' = (worldDirty \cup reached) \ {n}
          /\ seen' = [m \in Actors |->
                        IF m = n THEN unseen
                        ELSE IF m \in reached THEN [version |-> version'[m], kids |-> kids[m]]
                        ELSE seen[m]]
    /\ place' = [place EXCEPT ![n] = 0] /\ world' = [world EXCEPT ![n] = {}]

\* removeComponent(Hierarchy) and addComponent(Hierarchy): versions begin anew, but
\* the transform keeps what it saw of the old ones.
ReplaceHierarchy(n) ==
    LET others == orphaned(n) IN
    /\ Changing /\ n \in alive
    /\ replaced' = replaced \cup {n}
    /\ unlink(n, 0)
    /\ LET kids == kidsSeen(forgotten(others), version', children')
           reached == UNION {Below(r, kids) : r \in others}
           leaves == parent[n] # NoActor
       IN /\ worldDirty' = worldDirty \cup reached \cup (IF leaves THEN {n} ELSE {})
          /\ seen' = [m \in Actors |->
                        IF m = n
                        THEN IF leaves
                             THEN [version |-> version[n] + Cardinality(others) + 1, kids |-> {}]
                             ELSE seen[n]
                        ELSE IF m \in reached THEN [version |-> version'[m], kids |-> kids[m]]
                        ELSE seen[m]]
    /\ UNCHANGED <<alive, place, world>>

\* updateWorldState.  Below a dirty parent it computes that one first, which is the
\* reading of the parent.
ReadWorld(n) ==
    /\ n \in alive /\ n \in worldDirty /\ parent[n] \notin worldDirty
    /\ world' = [world EXCEPT ![n] = {<<n, place[n]>>} \cup
                    IF parent[n] = NoActor THEN {} ELSE world[parent[n]]]
    /\ worldDirty' = worldDirty \ {n}
    /\ UNCHANGED <<hierarchyVars, seen, place, replaced, changes>>

TreeNext ==
    \E n \in Actors :
        \/ CreateActor(n) \/ ChangePlace(n) \/ DestroyActor(n) \/ ReplaceHierarchy(n)
        \/ ReadWorld(n)
        \/ \E p \in Actors \cup {NoActor} : SetParent(n, p)

TreeSpec == TreeInit /\ [][TreeNext]_treeVars

-----------------------------------------------------------------------------
(* Correctness                                                             *)

\* Whatever is reparented and destroyed: parents and children are inverse, only
\* living actors are linked, and following parents never comes back.
LinksAgree ==
    /\ \A m, n \in Actors : n \in children[m] <=> parent[n] = m
    /\ \A n \in Actors : parent[n] # NoActor => {n, parent[n]} \subseteq alive
Acyclic ==
    \A n \in Actors : parent[n] # NoActor => ~isDescendantOf(parent[n], n)
HierarchyAgrees == TreeTypeOK /\ LinksAgree /\ Acyclic

\* A place in the world that is read without being computed again is the one that
\* the places of all the ancestors make now, however the tree was changed and
\* whichever transforms were read in between.  Below an actor whose Hierarchy was
\* replaced this can fail.
Above(n) == {m \in Actors : n \in Below(m, byParent)}
WorldIsCurrent ==
    \A n \in alive \ worldDirty :
        Above(n) \cap replaced = {} => world[n] = {<<m, place[m]>> : m \in Above(n)}
=============================================================================
