---------------------------- MODULE FrameProofs -----------------------------
(***************************************************************************)
(* Proofs about what is done from frame to frame: the transforms of a tree *)
(* of actors, the textures of rendered frames, the observers that are      *)
(* notified, and the queue of what is to be done first.  They share no     *)
(* state; each section is about the specification of one of them.          *)
(***************************************************************************)
EXTENDS TransformHierarchy, RenderPipeline, Subject, PriorityQueue, SubsequenceProofs,
        FiniteSetTheorems, SequenceTheorems, TLAPS

-----------------------------------------------------------------------------
(***************************************************************************)
(* Parents and children of actors stay inverse and acyclic, and a clean    *)
(* transform is where its ancestors put it, for any number of actors and   *)
(* any sequence of operations.                                             *)
(*                                                                         *)
(* Both are inductive once it is known what a transform may believe of its *)
(* children: what it saw under the present version of its hierarchy is     *)
(* what they are.  Nothing is proved by induction on the height of a tree; *)
(* what is below an actor is the smallest closed set, and each step names  *)
(* a closed set that shows what it needs.                                  *)
(***************************************************************************)

Kids == [Actors -> SUBSET Actors]
Closed(S, K) == \A k \in S : K[k] \subseteq S

----------------------------------------------------------------------------
(* What is below an actor                                                  *)

LEMMA BelowIsClosed ==
    ASSUME NEW K \in Kids, NEW n \in Actors
    PROVE  /\ n \in Below(n, K) /\ Below(n, K) \in SUBSET Actors
           /\ Closed(Below(n, K), K)
<1>1. n \in Below(n, K) /\ Below(n, K) \in SUBSET Actors
  BY DEF Below
<1>2. ASSUME NEW k \in Below(n, K), NEW j \in K[k]
      PROVE  j \in Below(n, K)
  <2>1. j \in Actors /\ k \in Actors
    BY <1>1, <1>2 DEF Kids
  <2>2. ASSUME NEW S \in SUBSET Actors, n \in S, \A i \in S : K[i] \subseteq S
        PROVE  j \in S
    BY <1>2, <2>2 DEF Below
  <2> QED
    BY <2>1, <2>2 DEF Below
<1> QED
  BY <1>1, <1>2 DEF Closed

LEMMA BelowIsLeast ==
    ASSUME NEW K \in Kids, NEW S \in SUBSET Actors, NEW n \in S, Closed(S, K)
    PROVE  Below(n, K) \subseteq S
BY DEF Below, Closed

LEMMA BelowIsTransitive ==
    ASSUME NEW K \in Kids, NEW n \in Actors, NEW m \in Below(n, K)
    PROVE  Below(m, K) \subseteq Below(n, K)
BY BelowIsClosed, BelowIsLeast

\* Edges to actors outside X are the same: what is below no member of X is below the
\* same actors as before.
LEMMA BelowUnchanged ==
    ASSUME NEW K \in Kids, NEW L \in Kids, NEW X \in SUBSET Actors,
           \A k \in Actors : K[k] \ X = L[k] \ X,
           NEW m \in Actors, NEW n \in Actors, \A x \in X : n \notin Below(x, L)
    PROVE  n \in Below(m, L) <=> n \in Below(m, K)
<1> DEFINE N == UNION {Below(x, L) : x \in X}
<1>1. N \in SUBSET Actors /\ X \subseteq N /\ n \notin N
  BY BelowIsClosed
<1>2. Closed(N, L)
  BY BelowIsClosed DEF Closed
<1>3. Closed(N, K)
  BY <1>1, <1>2 DEF Closed
<1> HIDE DEF N
<1>4. /\ m \in Below(m, L) /\ Below(m, L) \in SUBSET Actors /\ Closed(Below(m, L), L)
      /\ m \in Below(m, K) /\ Below(m, K) \in SUBSET Actors /\ Closed(Below(m, K), K)
  BY BelowIsClosed
<1>5. Closed(Below(m, K) \union N, L)
  BY <1>1, <1>2, <1>4 DEF Closed
<1>6. Closed(Below(m, L) \union N, K)
  BY <1>1, <1>3, <1>4 DEF Closed
<1>7. Below(m, L) \subseteq Below(m, K) \union N
  BY <1>1, <1>4, <1>5, BelowIsLeast
<1>8. Below(m, K) \subseteq Below(m, L) \union N
  BY <1>1, <1>4, <1>6, BelowIsLeast
<1> QED
  BY <1>1, <1>7, <1>8

\* What is below r is found by way of what the transforms believe of their children,
\* when those above n believe what is so.
LEMMA FoundBelow ==
    ASSUME NEW L \in Kids, NEW Q \in Kids, NEW rep, NEW r \in Actors, NEW n \in Below(r, L),
           \A m \in Actors \ rep : Q[m] = L[m],
           \A m \in Actors : n \in Below(m, L) => m \notin rep
    PROVE  n \in Below(r, Q)
<1> DEFINE T == {k \in Actors : n \in Below(k, L) => k \in Below(r, Q)}
<1>0. r \in Below(r, Q) /\ Closed(Below(r, Q), Q) /\ n \in Actors
  BY BelowIsClosed
<1>1. r \in T
  BY <1>0
<1>2. ASSUME NEW k \in T, NEW j \in L[k]
      PROVE  j \in T
  <2>1. j \in Actors
    BY DEF Kids
  <2>2. ASSUME n \in Below(j, L)
        PROVE  j \in Below(r, Q)
    <3>1. j \in Below(k, L)
      BY BelowIsClosed DEF Closed
    <3>2. n \in Below(k, L)
      BY <2>2, <3>1, BelowIsTransitive
    <3>3. k \in Below(r, Q) /\ Q[k] = L[k]
      BY <3>2
    <3> QED
      BY <1>0, <3>3 DEF Closed
  <2> QED
    BY <2>1, <2>2
<1>3. n \in T
  <2>1. T \in SUBSET Actors /\ Closed(T, L)
    BY <1>2 DEF Closed
  <2> HIDE DEF T
  <2> QED
    BY <1>1, <2>1, BelowIsLeast
<1>4. n \in Below(n, L)
  BY <1>0, BelowIsClosed
<1> QED
  BY <1>3, <1>4

----------------------------------------------------------------------------
(* What a transform remembers                                              *)

SeenTypes == [Actors -> [version : Int, kids : SUBSET Actors]]

\* What was seen under the present version is so, except where the hierarchy was
\* replaced and its versions began anew.
UpToDate(ss, vs, cs, rep) ==
    \A m \in Actors \ rep :
        ss[m].version <= vs[m] /\ (ss[m].version = vs[m] => ss[m].kids = cs[m])

LEMMA KnownKids ==
    ASSUME NEW ss \in SeenTypes, NEW vs \in [Actors -> Nat], NEW cs \in Kids, NEW rep,
           UpToDate(ss, vs, cs, rep)
    PROVE  /\ kidsSeen(ss, vs, cs) \in Kids
           /\ \A m \in Actors \ rep : kidsSeen(ss, vs, cs)[m] = cs[m]
BY DEF kidsSeen, Kids, SeenTypes, UpToDate

LEMMA FreshIsKnown ==
    ASSUME NEW ss \in SeenTypes, NEW vs \in [Actors -> Nat], NEW cs \in Kids, NEW rep,
           UpToDate(ss, vs, cs, rep), NEW reached
    PROVE  LET kids == kidsSeen(ss, vs, cs)
               now == [m \in Actors |-> IF m \in reached
                                        THEN [version |-> vs[m], kids |-> kids[m]] ELSE ss[m]]
           IN  now \in SeenTypes /\ UpToDate(now, vs, cs, rep)
<1> DEFINE kids == kidsSeen(ss, vs, cs)
<1> DEFINE now == [m \in Actors |-> IF m \in reached
                                     THEN [version |-> vs[m], kids |-> kids[m]] ELSE ss[m]]
<1>1. kids \in Kids
  BY KnownKids
<1>2. \A m \in Actors \ rep : kids[m] = cs[m]
  BY KnownKids
<1> HIDE DEF kids
<1>3. now \in SeenTypes
  BY <1>1 DEF SeenTypes, Kids
<1>4. UpToDate(now, vs, cs, rep)
  <2> SUFFICES ASSUME NEW m \in Actors \ rep
               PROVE  now[m].version <= vs[m]
                      /\ (now[m].version = vs[m] => now[m].kids = cs[m])
    BY DEF UpToDate
  <2>1. CASE m \in reached
    BY <1>2, <2>1
  <2>2. CASE m \notin reached
    BY <2>2 DEF UpToDate
  <2> QED
    BY <2>1, <2>2
<1> QED
  BY <1>3, <1>4 DEF kids

----------------------------------------------------------------------------
(* The invariant                                                           *)

TreeInv == HierarchyAgrees /\ UpToDate(seen, version, children, replaced) /\ WorldIsCurrent

LEMMA InitHolds == TreeInit => TreeInv
<1> SUFFICES ASSUME TreeInit PROVE TreeInv
  OBVIOUS
<1>1. TreeTypeOK
  BY DEF TreeInit, TreeTypeOK, unseen, Places
<1>2. LinksAgree /\ Acyclic
  BY ActorsAssumption DEF TreeInit, LinksAgree, Acyclic
<1>3. UpToDate(seen, version, children, replaced)
  BY DEF TreeInit, UpToDate, unseen
<1>4. WorldIsCurrent
  BY DEF TreeInit, WorldIsCurrent
<1> QED
  BY <1>1, <1>2, <1>3, <1>4 DEF TreeInv, HierarchyAgrees

LEMMA ByParentIsChildren ==
    ASSUME TreeTypeOK, LinksAgree
    PROVE  byParent = children /\ byParent \in Kids
<1>1. byParent \in Kids /\ children \in Kids
  BY DEF byParent, Kids, TreeTypeOK
<1>2. \A m \in Actors : byParent[m] = children[m]
  BY <1>1 DEF byParent, LinksAgree, Kids
<1> QED
  BY <1>1, <1>2 DEF Kids

\* A step that changes edges and places at X only, and leaves no clean transform
\* below X, keeps clean transforms current.
LEMMA CurrentKept ==
    ASSUME TreeInv, byParent' \in Kids, NEW X \in SUBSET Actors,
           \A k \in Actors : byParent[k] \ X = byParent'[k] \ X,
           \A m \in Actors \ X : place'[m] = place[m] /\ (m \in replaced => m \in replaced'),
           alive' \subseteq Actors,
           \A n \in alive' \ worldDirty' : Above(n)' \cap replaced' = {} =>
               /\ n \in alive \ worldDirty /\ world'[n] = world[n]
               /\ \A x \in X : n \notin Below(x, byParent')
    PROVE  WorldIsCurrent'
<1> SUFFICES ASSUME NEW n \in alive' \ worldDirty', Above(n)' \cap replaced' = {}
             PROVE  world'[n] = {<<m, place'[m]>> : m \in Above(n)'}
  BY DEF WorldIsCurrent
<1>1. byParent \in Kids
  BY ByParentIsChildren DEF TreeInv, HierarchyAgrees
<1>2. \A m \in Actors : n \in Below(m, byParent') <=> n \in Below(m, byParent)
  BY <1>1, BelowUnchanged
<1>3. Above(n)' = Above(n) /\ Above(n) \in SUBSET (Actors \ X)
  BY <1>2 DEF Above
<1>4. Above(n) \cap replaced = {}
  BY <1>3
<1>5. world[n] = {<<m, place[m]>> : m \in Above(n)}
  BY <1>4 DEF TreeInv, WorldIsCurrent
<1> QED
  BY <1>3, <1>5

\* A transform below the roots is found below them.
LEMMA IsReached ==
    ASSUME NEW ss \in SeenTypes, version' \in [Actors -> Nat], children' \in Kids,
           byParent' = children', NEW rep, UpToDate(ss, version', children', rep),
           NEW roots \in SUBSET Actors, NEW r \in roots, NEW n \in Below(r, byParent'),
           Above(n)' \cap rep = {}
    PROVE  n \in UNION {Below(x, kidsSeen(ss, version', children')) : x \in roots}
<1> DEFINE Q == kidsSeen(ss, version', children')
<1>1. Q \in Kids /\ \A m \in Actors \ rep : Q[m] = children'[m]
  BY KnownKids
<1>2. \A m \in Actors : n \in Below(m, children') => m \notin rep
  BY DEF Above
<1> HIDE DEF Q
<1>3. n \in Below(r, Q)
  BY <1>1, <1>2, FoundBelow
<1> QED
  BY <1>3 DEF Q

\* All below the roots is marked, and what was seen on the way is remembered.
LEMMA MarkedBelow ==
    ASSUME NEW roots \in SUBSET Actors, NEW ss \in SeenTypes,
           version' \in [Actors -> Nat], children' \in Kids, byParent' = children',
           UpToDate(ss, version', children', replaced'), worldDirty \subseteq Actors,
           markWorldDirty(roots, ss)
    PROVE  /\ seen' \in SeenTypes /\ UpToDate(seen, version, children, replaced)'
           /\ worldDirty' \subseteq Actors /\ worldDirty \subseteq worldDirty'
           /\ \A n \in Actors \ worldDirty' : Above(n)' \cap replaced' = {} =>
                 \A r \in roots : n \notin Below(r, byParent')
<1> DEFINE Q == kidsSeen(ss, version', children')
<1> DEFINE reached == UNION {Below(r, Q) : r \in roots}
<1>1. worldDirty' = worldDirty \cup reached
      /\ seen' = [m \in Actors |-> IF m \in reached
                                   THEN [version |-> version'[m], kids |-> Q[m]] ELSE ss[m]]
  BY DEF markWorldDirty
<1>2. seen' \in SeenTypes /\ UpToDate(seen', version', children', replaced')
  <2> DEFINE now == [m \in Actors |-> IF m \in reached
                                      THEN [version |-> version'[m], kids |-> Q[m]] ELSE ss[m]]
  <2>1. now \in SeenTypes /\ UpToDate(now, version', children', replaced')
    <3> HIDE DEF reached
    <3> QED
      BY FreshIsKnown
  <2>2. seen' = now
    BY <1>1
  <2> QED
    BY <2>1, <2>2
<1>3. reached \subseteq Actors
  BY DEF Below
<1>4. ASSUME NEW n \in Actors \ worldDirty', Above(n)' \cap replaced' = {}, NEW r \in roots,
             n \in Below(r, byParent')
      PROVE  FALSE
  <2>1. n \in reached
    BY <1>4, IsReached
  <2> QED
    BY <1>1, <2>1
<1> QED
  BY <1>1, <1>2, <1>3, <1>4 DEF UpToDate

----------------------------------------------------------------------------
(* The steps                                                               *)

\* A created actor is nobody's child, and dirty.
LEMMA CreateKeeps ==
    ASSUME TreeInv, NEW n \in Actors, CreateActor(n)
    PROVE  TreeInv'
<1>0. TreeTypeOK /\ LinksAgree /\ Acyclic
  BY DEF TreeInv, HierarchyAgrees
<1>1. byParent' = byParent /\ byParent \in Kids
  BY <1>0, ByParentIsChildren DEF CreateActor, byParent
<1>2. TreeTypeOK'
  BY <1>0 DEF CreateActor, Changing, TreeTypeOK
<1>3. LinksAgree' /\ Acyclic'
  BY <1>0, <1>1 DEF CreateActor, LinksAgree, Acyclic, isDescendantOf
<1>4. UpToDate(seen, version, children, replaced)'
  BY DEF TreeInv, UpToDate, CreateActor
<1>5. WorldIsCurrent'
  <2>1. \A k \in alive' \ worldDirty' : k \in alive \ worldDirty /\ world'[k] = world[k]
    BY DEF CreateActor
  <2>2. place' = place /\ replaced' = replaced /\ alive' \subseteq Actors
    BY <1>2 DEF CreateActor, TreeTypeOK
  <2> QED
    BY <1>1, <2>1, <2>2, CurrentKept
<1> QED
  BY <1>2, <1>3, <1>4, <1>5 DEF TreeInv, HierarchyAgrees

LEMMA ChangePlaceKeeps ==
    ASSUME TreeInv, NEW n \in Actors, ChangePlace(n)
    PROVE  TreeInv'
<1>0. TreeTypeOK /\ LinksAgree /\ Acyclic /\ UpToDate(seen, version, children, replaced)
  BY DEF TreeInv, HierarchyAgrees
<1>1. byParent' = byParent /\ byParent \in Kids /\ byParent = children
  BY <1>0, ByParentIsChildren DEF ChangePlace, hierarchyVars, byParent
<1>2. /\ alive' = alive /\ parent' = parent /\ children' = children /\ version' = version
      /\ replaced' = replaced /\ world' = world
      /\ place' = [place EXCEPT ![n] = @ + 1]
      /\ markWorldDirty({n}, seen)
  BY DEF ChangePlace, hierarchyVars
<1>3. seen \in SeenTypes /\ version \in [Actors -> Nat] /\ worldDirty \subseteq Actors
  BY <1>0 DEF TreeTypeOK, SeenTypes
<1>4. /\ seen' \in SeenTypes /\ UpToDate(seen, version, children, replaced)'
      /\ worldDirty' \subseteq Actors /\ worldDirty \subseteq worldDirty'
      /\ \A k \in Actors \ worldDirty' : Above(k)' \cap replaced' = {} =>
            \A r \in {n} : k \notin Below(r, byParent')
  BY <1>0, <1>1, <1>2, <1>3, MarkedBelow
<1>5. TreeTypeOK'
  <2>1. place' \in [Actors -> Nat]
    BY <1>0, <1>2 DEF TreeTypeOK
  <2>2. changes' \in Nat
    BY <1>0 DEF ChangePlace, Changing, TreeTypeOK
  <2> QED
    BY <1>0, <1>2, <1>4, <2>1, <2>2 DEF TreeTypeOK, SeenTypes
<1>6. LinksAgree' /\ Acyclic'
  BY <1>0, <1>1, <1>2 DEF LinksAgree, Acyclic, isDescendantOf
<1>7. WorldIsCurrent'
  <2>1. alive' \subseteq Actors /\ \A m \in Actors \ {n} : place'[m] = place[m]
    BY <1>0, <1>2 DEF TreeTypeOK
  <2>2. \A k \in alive' \ worldDirty' : Above(k)' \cap replaced' = {} =>
          /\ k \in alive \ worldDirty /\ world'[k] = world[k]
          /\ \A x \in {n} : k \notin Below(x, byParent')
    BY <1>2, <1>4, <2>1
  <2>3. byParent' \in Kids /\ \A k \in Actors : byParent[k] \ {n} = byParent'[k] \ {n}
    BY <1>1
  <2>4. \A m \in Actors \ {n} : m \in replaced => m \in replaced'
    BY <1>2
  <2> QED
    BY <2>1, <2>2, <2>3, <2>4, CurrentKept
<1> QED
  BY <1>4, <1>5, <1>6, <1>7 DEF TreeInv, HierarchyAgrees

\* The parent of n was current already.
LEMMA ReadKeeps ==
    ASSUME TreeInv, NEW n \in Actors, ReadWorld(n)
    PROVE  TreeInv'
<1>0. TreeTypeOK /\ LinksAgree /\ Acyclic /\ WorldIsCurrent
  BY DEF TreeInv, HierarchyAgrees
<1>1. byParent' = byParent /\ byParent \in Kids
  BY <1>0, ByParentIsChildren DEF ReadWorld, hierarchyVars, byParent
<1>2. /\ alive' = alive /\ parent' = parent /\ children' = children /\ version' = version
      /\ replaced' = replaced /\ place' = place /\ seen' = seen /\ changes' = changes
      /\ worldDirty' = worldDirty \ {n} /\ n \in alive
      /\ world' = [world EXCEPT ![n] = {<<n, place[n]>>} \cup
                     IF parent[n] = NoActor THEN {} ELSE world[parent[n]]]
      /\ parent[n] \notin worldDirty
  BY DEF ReadWorld, hierarchyVars
<1>3. TreeTypeOK'
  <2>1. world' \in [Actors -> SUBSET Places]
    BY <1>0, <1>2 DEF TreeTypeOK, Places
  <2> QED
    BY <1>0, <1>2, <2>1 DEF TreeTypeOK
<1>4. LinksAgree' /\ Acyclic'
  BY <1>0, <1>1, <1>2 DEF LinksAgree, Acyclic, isDescendantOf
<1>5. UpToDate(seen, version, children, replaced)'
  BY <1>2 DEF TreeInv, UpToDate
<1>6. WorldIsCurrent'
  <2> SUFFICES ASSUME NEW k \in alive \ worldDirty', Above(k) \cap replaced = {}
               PROVE  world'[k] = {<<m, place[m]>> : m \in Above(k)}
    BY <1>1, <1>2 DEF WorldIsCurrent, Above
  <2>1. CASE k # n
    BY <1>0, <1>2, <2>1 DEF WorldIsCurrent, TreeTypeOK
  <2>2. CASE k = n /\ parent[n] = NoActor
    <3>1. Above(n) = {n}
      <4>1. ASSUME NEW m \in Actors, m # n, n \in Below(m, byParent)
            PROVE  FALSE
        <5> DEFINE S == Below(m, byParent) \ {n}
        <5>1. S \in SUBSET Actors /\ m \in S
          BY <1>1, <4>1, BelowIsClosed
        <5>2. Closed(S, byParent)
          BY <1>1, <2>2, BelowIsClosed, ActorsAssumption DEF Closed, byParent
        <5> HIDE DEF S
        <5>3. Below(m, byParent) \subseteq S
          BY <1>1, <5>1, <5>2, BelowIsLeast
        <5> QED
          BY <4>1, <5>3 DEF S
      <4>2. n \in Below(n, byParent)
        BY <1>1, BelowIsClosed
      <4> QED
        BY <4>1, <4>2 DEF Above
    <3>2. world'[n] = {<<n, place[n]>>}
      BY <1>0, <1>2, <2>2 DEF TreeTypeOK
    <3> QED
      BY <2>2, <3>1, <3>2
  <2>3. CASE k = n /\ parent[n] # NoActor
    <3> DEFINE p == parent[n]
    <3>1. p \in alive \ worldDirty /\ p \in Actors /\ n \in byParent[p]
      BY <1>0, <1>2, <2>3 DEF LinksAgree, TreeTypeOK, byParent
    <3>2. Above(n) = {n} \cup Above(p)
      <4>1. ASSUME NEW m \in Actors, m # n, n \in Below(m, byParent), p \notin Below(m, byParent)
            PROVE  FALSE
        <5> DEFINE S == Below(m, byParent) \ {n}
        <5>1. S \in SUBSET Actors /\ m \in S
          BY <1>1, <4>1, BelowIsClosed
        <5>2. Closed(S, byParent)
          BY <1>1, <4>1, BelowIsClosed DEF Closed, byParent
        <5> HIDE DEF S
        <5>3. Below(m, byParent) \subseteq S
          BY <1>1, <5>1, <5>2, BelowIsLeast
        <5> QED
          BY <4>1, <5>3 DEF S
      <4>2. n \in Below(n, byParent)
        BY <1>1, BelowIsClosed
      <4>3. ASSUME NEW m \in Actors, p \in Below(m, byParent)
            PROVE  n \in Below(m, byParent)
        BY <1>1, <3>1, <4>3, BelowIsClosed DEF Closed
      <4> QED
        BY <4>1, <4>2, <4>3 DEF Above
    <3>3. world[p] = {<<m, place[m]>> : m \in Above(p)}
      BY <1>0, <2>3, <3>1, <3>2 DEF WorldIsCurrent
    <3>4. world'[n] = {<<n, place[n]>>} \cup world[p]
      BY <1>0, <1>2, <2>3 DEF TreeTypeOK
    <3> HIDE DEF p
    <3> QED
      BY <2>3, <3>2, <3>3, <3>4
  <2> QED
    BY <2>1, <2>2, <2>3
<1> QED
  BY <1>3, <1>4, <1>5, <1>6 DEF TreeInv, HierarchyAgrees

\* The new parent of n is not below n, so that no way leads back.
LEMMA SetParentLinks ==
    ASSUME TreeTypeOK, LinksAgree, Acyclic, NEW n \in Actors, NEW p \in Actors \cup {NoActor},
           SetParent(n, p)
    PROVE  /\ parent' \in [Actors -> Actors \cup {NoActor}] /\ children' \in Kids
           /\ LinksAgree' /\ Acyclic' /\ byParent' = children'
           /\ \A k \in Actors : byParent[k] \ {n} = byParent'[k] \ {n}
<1>1. /\ n \in alive /\ p \in alive \cup {NoActor} /\ p # n /\ p # parent[n]
      /\ p \notin Below(n, byParent) /\ alive' = alive
      /\ parent' = [parent EXCEPT ![n] = p]
      /\ children' = [m \in Actors |-> IF m = p THEN children[m] \cup {n} ELSE children[m] \ {n}]
  BY DEF SetParent, MayBeParent, isDescendantOf
<1>2. byParent = children /\ byParent \in Kids
  BY ByParentIsChildren
<1>3. parent' \in [Actors -> Actors \cup {NoActor}] /\ children' \in Kids
  BY <1>1 DEF TreeTypeOK, Kids
<1>4. LinksAgree'
  <2>1. ASSUME NEW m \in Actors, NEW k \in Actors
        PROVE  k \in children'[m] <=> parent'[k] = m
    <3>1. k \in children[m] <=> parent[k] = m
      BY DEF LinksAgree
    <3>2. parent'[k] = IF k = n THEN p ELSE parent[k]
      BY <1>1 DEF TreeTypeOK
    <3>3. k \in children'[m] <=> IF m = p THEN k \in children[m] \cup {n}
                                        ELSE k \in children[m] \ {n}
      BY <1>1
    <3> QED
      BY <3>1, <3>2, <3>3
  <2>2. ASSUME NEW k \in Actors, parent'[k] # NoActor
        PROVE  {k, parent'[k]} \subseteq alive'
    BY <1>1, <2>2 DEF LinksAgree, TreeTypeOK
  <2> QED
    BY <2>1, <2>2 DEF LinksAgree
<1>5. byParent' = children' /\ byParent' \in Kids
  <2>1. byParent' \in Kids
    BY DEF byParent, Kids
  <2>2. \A m \in Actors : byParent'[m] = children'[m]
    BY <1>3, <1>4, <2>1 DEF byParent, LinksAgree, Kids
  <2> QED
    BY <1>3, <2>1, <2>2 DEF Kids
<1>6. \A k \in Actors : byParent[k] \ {n} = byParent'[k] \ {n}
  BY <1>1, <1>2, <1>5
<1>7. \A k \in Actors : k # p => byParent'[k] \subseteq byParent[k]
  BY <1>1, <1>2, <1>5
<1>8. Acyclic'
  <2> SUFFICES ASSUME NEW m \in Actors, parent'[m] # NoActor, parent'[m] \in Below(m, byParent')
               PROVE  FALSE
    BY DEF Acyclic, isDescendantOf
  <2> DEFINE D == Below(n, byParent)
  <2>1. D \in SUBSET Actors /\ n \in D /\ Closed(D, byParent)
    BY <1>2, BelowIsClosed
  <2>2. Closed(D, byParent')
    BY <1>1, <1>7, <2>1 DEF Closed
  <2> HIDE DEF D
  <2>3. CASE m = n
    <3>1. Below(n, byParent') \subseteq D
      BY <1>5, <2>1, <2>2, BelowIsLeast
    <3> QED
      BY <1>1, <2>3, <3>1 DEF D, TreeTypeOK
  <2>4. CASE m # n
    <3> DEFINE q == parent[m]
    <3> DEFINE A == Below(m, byParent)
    <3>1. parent'[m] = q /\ q # NoActor /\ q \in Actors /\ m \in byParent[q]
      BY <1>1, <2>4 DEF TreeTypeOK, byParent
    <3>2. A \in SUBSET Actors /\ m \in A /\ Closed(A, byParent) /\ q \notin A
      BY <1>2, <3>1, BelowIsClosed DEF Acyclic, isDescendantOf
    <3>3. CASE p \notin A
      <4>1. Closed(A, byParent')
        BY <1>7, <3>2, <3>3 DEF Closed
      <4> HIDE DEF A, q
      <4>2. Below(m, byParent') \subseteq A
        BY <1>5, <3>2, <4>1, BelowIsLeast
      <4> QED
        BY <3>1, <3>2, <4>2
    <3>4. CASE p \in A
      <4> DEFINE S == A \cup D
      <4>1. Closed(S, byParent')
        BY <1>6, <2>1, <3>2 DEF Closed
      <4>2. q \notin D
        <5>1. ASSUME q \in D
              PROVE  FALSE
          <6>1. m \in D
            BY <2>1, <3>1, <5>1 DEF Closed
          <6>2. A \subseteq D
            BY <1>2, <2>1, <6>1, BelowIsLeast
          <6> QED
            BY <1>1, <3>4, <6>2 DEF D
        <5> QED
          BY <5>1
      <4> HIDE DEF A, q
      <4>3. S \in SUBSET Actors /\ m \in S
        BY <2>1, <3>2
      <4> HIDE DEF S
      <4>4. Below(m, byParent') \subseteq S
        BY <1>5, <4>1, <4>3, BelowIsLeast
      <4> QED
        BY <3>1, <3>2, <4>2, <4>4 DEF S
    <3> QED
      BY <3>3, <3>4
  <2> QED
    BY <2>3, <2>4
<1> QED
  BY <1>3, <1>4, <1>5, <1>6, <1>8

\* The versions of n and of both its parents are new, and all below n is dirty.
LEMMA SetParentKeeps ==
    ASSUME TreeInv, NEW n \in Actors, NEW p \in Actors \cup {NoActor}, SetParent(n, p)
    PROVE  TreeInv'
<1>0. TreeTypeOK /\ LinksAgree /\ Acyclic /\ UpToDate(seen, version, children, replaced)
  BY DEF TreeInv, HierarchyAgrees
<1>1. /\ parent' \in [Actors -> Actors \cup {NoActor}] /\ children' \in Kids
      /\ LinksAgree' /\ Acyclic' /\ byParent' = children'
      /\ \A k \in Actors : byParent[k] \ {n} = byParent'[k] \ {n}
  BY <1>0, SetParentLinks
<1>2. /\ alive' = alive /\ replaced' = replaced /\ world' = world /\ place' = place
      /\ children' = [m \in Actors |-> IF m = p THEN children[m] \cup {n} ELSE children[m] \ {n}]
      /\ version' = [m \in Actors |-> IF m \in touched(n, p) THEN version[m] + 1 ELSE version[m]]
      /\ markWorldDirty({n}, forgotten({n}))
  BY DEF SetParent, markHierarchyDirty
<1>3. version' \in [Actors -> Nat] /\ worldDirty \subseteq Actors
  BY <1>0, <1>2 DEF TreeTypeOK
<1>4. forgotten({n}) \in SeenTypes
  BY <1>0 DEF forgotten, TreeTypeOK, SeenTypes
<1>5. UpToDate(forgotten({n}), version', children', replaced')
  <2> SUFFICES ASSUME NEW m \in Actors \ replaced
               PROVE  /\ forgotten({n})[m].version <= version'[m]
                      /\ forgotten({n})[m].version = version'[m] =>
                            forgotten({n})[m].kids = children'[m]
    BY <1>2 DEF UpToDate
  <2>1. /\ seen[m].version <= version[m] /\ seen[m].version \in Int /\ version[m] \in Nat
        /\ seen[m].version = version[m] => seen[m].kids = children[m]
    BY <1>0 DEF UpToDate, TreeTypeOK
  <2>2. CASE m = n
    <3>1. forgotten({n})[m].version = -1
      BY <1>0, <2>2 DEF forgotten, TreeTypeOK
    <3> QED
      BY <1>3, <3>1
  <2>3. CASE m # n
    <3>1. forgotten({n})[m] = seen[m]
      BY <2>3 DEF forgotten
    <3>2. CASE m \in touched(n, p)
      <4>1. version'[m] = version[m] + 1
        BY <1>2, <3>2
      <4> QED
        BY <2>1, <3>1, <4>1
    <3>3. CASE m \notin touched(n, p)
      <4>1. version'[m] = version[m] /\ m # p /\ m # parent[n]
        BY <1>2, <3>3 DEF touched
      <4>2. children'[m] = children[m]
        BY <1>0, <1>2, <4>1 DEF LinksAgree, TreeTypeOK
      <4> QED
        BY <2>1, <3>1, <4>1, <4>2
    <3> QED
      BY <3>2, <3>3
  <2> QED
    BY <2>2, <2>3
<1>6. /\ seen' \in SeenTypes /\ UpToDate(seen, version, children, replaced)'
      /\ worldDirty' \subseteq Actors /\ worldDirty \subseteq worldDirty'
      /\ \A k \in Actors \ worldDirty' : Above(k)' \cap replaced' = {} =>
            \A r \in {n} : k \notin Below(r, byParent')
  <2>1. markWorldDirty({n}, forgotten({n}))
    BY <1>2
  <2>2. children' \in Kids /\ byParent' = children'
    BY <1>1
  <2> QED
    BY <1>3, <1>4, <1>5, <2>1, <2>2, MarkedBelow
<1>7. TreeTypeOK'
  <2>1. changes' \in Nat
    BY <1>0 DEF SetParent, Changing, TreeTypeOK
  <2> QED
    BY <1>0, <1>1, <1>2, <1>3, <1>6, <2>1 DEF TreeTypeOK, SeenTypes, Kids
<1>8. WorldIsCurrent'
  <2>1. alive' \subseteq Actors
    BY <1>0, <1>2 DEF TreeTypeOK
  <2>2. \A k \in alive' \ worldDirty' : Above(k)' \cap replaced' = {} =>
          /\ k \in alive \ worldDirty /\ world'[k] = world[k]
          /\ \A x \in {n} : k \notin Below(x, byParent')
    BY <1>2, <1>6, <2>1
  <2>3. \A m \in Actors \ {n} : place'[m] = place[m] /\ (m \in replaced => m \in replaced')
    BY <1>2
  <2> QED
    BY <1>1, <2>1, <2>2, <2>3, CurrentKept
<1> QED
  BY <1>1, <1>6, <1>7, <1>8 DEF TreeInv, HierarchyAgrees

\* Without n and the links to it there are only ways that there were before.
LEMMA UnlinkLinks ==
    ASSUME TreeTypeOK, LinksAgree, Acyclic, NEW n \in alive, unlink(n, 0),
           alive' = alive \/ alive' = alive \ {n}
    PROVE  /\ parent' \in [Actors -> Actors \cup {NoActor}] /\ children' \in Kids
           /\ version' \in [Actors -> Nat]
           /\ LinksAgree' /\ Acyclic' /\ byParent' = children' /\ children'[n] = {}
           /\ orphaned(n) \in SUBSET Actors
           /\ \A k \in Actors :
                 byParent[k] \ (orphaned(n) \cup {n}) = byParent'[k] \ (orphaned(n) \cup {n})
<1> DEFINE X == orphaned(n) \cup {n}
<1>0. n \in Actors /\ orphaned(n) = children[n] /\ orphaned(n) \in SUBSET Actors
  BY DEF TreeTypeOK, orphaned
<1>1. /\ parent' = [m \in Actors |-> IF m \in X THEN NoActor ELSE parent[m]]
      /\ children' = [m \in Actors |-> IF m = n THEN {} ELSE children[m] \ {n}]
      /\ version' = [m \in Actors |-> IF m = n THEN 0
                                      ELSE IF m \in orphaned(n) \cup {parent[n]} THEN version[m] + 1
                                      ELSE version[m]]
  BY DEF unlink
<1>2. byParent = children /\ byParent \in Kids
  BY ByParentIsChildren
<1>3. /\ parent' \in [Actors -> Actors \cup {NoActor}] /\ children' \in Kids
      /\ children'[n] = {}
  BY <1>0, <1>1 DEF TreeTypeOK, Kids
<1>4. version' \in [Actors -> Nat]
  BY <1>1 DEF TreeTypeOK
<1>5. LinksAgree'
  <2>1. ASSUME NEW m \in Actors, NEW k \in Actors
        PROVE  k \in children'[m] <=> parent'[k] = m
    <3>1. k \in children[m] <=> parent[k] = m
      BY DEF LinksAgree
    <3>2. k \in X <=> k = n \/ parent[k] = n
      BY <1>0 DEF LinksAgree
    <3>3. parent'[k] = IF k \in X THEN NoActor ELSE parent[k]
      BY <1>1
    <3>4. k \in children'[m] <=> m # n /\ k # n /\ k \in children[m]
      BY <1>1
    <3> HIDE DEF X
    <3> QED
      BY <3>1, <3>2, <3>3, <3>4, ActorsAssumption
  <2>2. ASSUME NEW k \in Actors, parent'[k] # NoActor
        PROVE  {k, parent'[k]} \subseteq alive'
    <3>1. k \notin X /\ parent'[k] = parent[k]
      BY <1>1, <2>2
    <3>2. k # n /\ parent[k] # n
      BY <1>0, <3>1 DEF LinksAgree
    <3> QED
      BY <2>2, <3>1, <3>2 DEF LinksAgree
  <2> QED
    BY <2>1, <2>2 DEF LinksAgree
<1>6. byParent' = children' /\ byParent' \in Kids
  <2>1. byParent' \in Kids
    BY DEF byParent, Kids
  <2>2. \A m \in Actors : byParent'[m] = children'[m]
    BY <1>3, <1>5, <2>1 DEF byParent, LinksAgree, Kids
  <2> QED
    BY <1>3, <2>1, <2>2 DEF Kids
<1>7. \A k \in Actors : byParent'[k] \subseteq byParent[k]
  BY <1>1, <1>2, <1>6
<1>8. Acyclic'
  <2> SUFFICES ASSUME NEW m \in Actors, parent'[m] # NoActor, parent'[m] \in Below(m, byParent')
               PROVE  FALSE
    BY DEF Acyclic, isDescendantOf
  <2> DEFINE A == Below(m, byParent)
  <2>1. A \in SUBSET Actors /\ m \in A /\ Closed(A, byParent)
    BY <1>2, BelowIsClosed
  <2>2. Closed(A, byParent')
    BY <1>7, <2>1 DEF Closed
  <2>3. parent'[m] = parent[m]
    BY <1>1
  <2>4. parent[m] \notin A
    BY <2>3 DEF Acyclic, isDescendantOf
  <2> HIDE DEF A
  <2>5. Below(m, byParent') \subseteq A
    BY <1>6, <2>1, <2>2, BelowIsLeast
  <2> QED
    BY <2>3, <2>4, <2>5
<1>9. \A k \in Actors : byParent[k] \ X = byParent'[k] \ X
  <2>1. \A k \in Actors : byParent'[k] = IF k = n THEN {} ELSE byParent[k] \ {n}
    BY <1>1, <1>2, <1>6
  <2> QED
    BY <1>0, <1>2, <2>1
<1> QED
  BY <1>0, <1>3, <1>4, <1>5, <1>6, <1>8, <1>9

\* The actors below n are found and made dirty, and nothing else is disturbed.
LEMMA UnlinkKeeps ==
    ASSUME TreeInv, NEW n \in alive, unlink(n, 0), changes' \in Nat,
           alive' = alive \ {n} \/ (alive' = alive /\ n \in replaced'),
           replaced' \subseteq Actors, replaced' \cup {n} = replaced \cup {n},
           n \in replaced' \/ seen'[n] = unseen,
           seen'[n] \in [version : Int, kids : SUBSET Actors],
           NEW clean \in SUBSET {n}, NEW soiled \in SUBSET {n},
           LET kids == kidsSeen(forgotten(orphaned(n)), version', children')
               reached == UNION {Below(r, kids) : r \in orphaned(n)}
           IN  /\ worldDirty' = (worldDirty \cup reached \cup soiled) \ clean
               /\ seen' = [m \in Actors |->
                             IF m = n THEN seen'[n]
                             ELSE IF m \in reached THEN [version |-> version'[m], kids |-> kids[m]]
                             ELSE seen[m]],
           place' \in [Actors -> Nat], world' \in [Actors -> SUBSET Places],
           \A m \in Actors \ {n} : place'[m] = place[m] /\ world'[m] = world[m]
    PROVE  TreeInv'
<1> DEFINE X == orphaned(n) \cup {n}
<1> DEFINE rep == replaced \cup {n}
<1> DEFINE ss == forgotten(orphaned(n))
<1> DEFINE kids == kidsSeen(ss, version', children')
<1> DEFINE reached == UNION {Below(r, kids) : r \in orphaned(n)}
<1>0. /\ TreeTypeOK /\ LinksAgree /\ Acyclic /\ UpToDate(seen, version, children, replaced)
      /\ n \in Actors
  BY DEF TreeInv, HierarchyAgrees, TreeTypeOK
<1>1. /\ parent' \in [Actors -> Actors \cup {NoActor}] /\ children' \in Kids
      /\ version' \in [Actors -> Nat]
      /\ LinksAgree' /\ Acyclic' /\ byParent' = children' /\ children'[n] = {}
      /\ orphaned(n) \in SUBSET Actors
      /\ \A k \in Actors : byParent[k] \ X = byParent'[k] \ X
  BY <1>0, UnlinkLinks
<1>2. ss \in SeenTypes
  BY <1>0 DEF forgotten, TreeTypeOK, SeenTypes
<1>3. UpToDate(ss, version', children', rep)
  <2> SUFFICES ASSUME NEW m \in Actors \ rep
               PROVE  /\ ss[m].version <= version'[m]
                      /\ ss[m].version = version'[m] => ss[m].kids = children'[m]
    BY DEF UpToDate
  <2>1. /\ seen[m].version <= version[m] /\ seen[m].version \in Int /\ version[m] \in Nat
        /\ seen[m].version = version[m] => seen[m].kids = children[m]
    BY <1>0 DEF UpToDate, TreeTypeOK
  <2>2. CASE m \in orphaned(n)
    <3>1. ss[m].version = -1
      BY <1>0, <2>2 DEF forgotten, TreeTypeOK
    <3> QED
      BY <1>1, <3>1
  <2>3. CASE m \notin orphaned(n)
    <3>1. ss[m] = seen[m]
      BY <2>3 DEF forgotten
    <3>2. CASE m = parent[n]
      <4>1. version'[m] = version[m] + 1
        BY <3>2 DEF unlink
      <4> QED
        BY <2>1, <3>1, <4>1
    <3>3. CASE m # parent[n]
      <4>1. version'[m] = version[m]
        BY <2>3, <3>3 DEF unlink
      <4>2. m # n /\ n \notin children[m]
        BY <1>0, <3>3 DEF LinksAgree
      <4>3. children'[m] = children[m]
        BY <4>2 DEF unlink
      <4> QED
        BY <2>1, <3>1, <4>1, <4>3
    <3> QED
      BY <3>2, <3>3
  <2> QED
    BY <2>2, <2>3
<1> HIDE DEF ss
<1>4. kids \in Kids /\ \A m \in Actors \ rep : kids[m] = children'[m]
  <2>1. children' \in Kids /\ version' \in [Actors -> Nat]
    BY <1>1
  <2> HIDE DEF rep
  <2> QED
    BY <1>2, <1>3, <2>1, KnownKids
<1>5. reached \subseteq Actors
  BY DEF Below
<1>6. /\ worldDirty' = (worldDirty \cup reached \cup soiled) \ clean
      /\ \A m \in Actors \ {n} :
            seen'[m] = IF m \in reached THEN [version |-> version'[m], kids |-> kids[m]] ELSE seen[m]
      /\ seen' = [m \in Actors |-> seen'[m]]
  BY DEF ss
<1>7. orphaned(n) \subseteq reached
  <2>1. ASSUME NEW r \in orphaned(n)
        PROVE  r \in Below(r, kids)
    BY <1>1, <1>4, BelowIsClosed
  <2> QED
    BY <2>1
<1> HIDE DEF kids, reached
<1>8. seen' \in SeenTypes
  <2>1. ASSUME NEW m \in Actors
        PROVE  seen'[m] \in [version : Int, kids : SUBSET Actors]
    BY <1>0, <1>1, <1>4, <1>6 DEF TreeTypeOK, Kids
  <2> QED
    BY <1>6, <2>1 DEF SeenTypes
<1>9. UpToDate(seen, version, children, replaced)'
  <2> SUFFICES ASSUME NEW m \in Actors \ replaced'
               PROVE  /\ seen'[m].version <= version'[m]
                      /\ seen'[m].version = version'[m] => seen'[m].kids = children'[m]
    BY DEF UpToDate
  <2>1. CASE m = n
    BY <1>1, <2>1 DEF unseen
  <2>2. CASE m # n /\ m \in reached
    BY <1>1, <1>4, <1>6, <2>2
  <2>3. CASE m # n /\ m \notin reached
    <3>1. seen'[m] = seen[m] /\ m \notin orphaned(n) /\ m \notin rep
      BY <1>6, <1>7, <2>3
    <3>2. ss[m] = seen[m]
      BY <3>1 DEF ss, forgotten
    <3> QED
      BY <1>3, <3>1, <3>2 DEF UpToDate
  <2> QED
    BY <2>1, <2>2, <2>3
<1>10. TreeTypeOK'
  <2>1. worldDirty' \subseteq Actors
    BY <1>0, <1>5, <1>6 DEF TreeTypeOK
  <2> QED
    BY <1>0, <1>1, <1>8, <2>1 DEF TreeTypeOK, SeenTypes, Kids
<1>11. WorldIsCurrent'
  <2>1. ASSUME NEW k \in alive' \ worldDirty', Above(k)' \cap replaced' = {}
        PROVE  /\ k \in alive \ worldDirty /\ world'[k] = world[k]
               /\ \A x \in X : k \notin Below(x, byParent')
    <3>0. k \in Actors /\ byParent' \in Kids
      BY <1>0, <1>1 DEF TreeTypeOK
    <3>1. k # n
      <4>1. n \in alive' => n \in Above(n)' /\ n \in replaced'
        BY <1>0, <3>0, BelowIsClosed DEF Above
      <4> QED
        BY <2>1, <4>1
    <3>2. k \notin Below(n, byParent')
      <4>1. Closed({n}, byParent')
        BY <1>1 DEF Closed
      <4>2. Below(n, byParent') \subseteq {n}
        BY <1>0, <3>0, <4>1, BelowIsLeast
      <4> QED
        BY <3>1, <4>2
    <3>3. n \notin Above(k)' /\ Above(k)' \cap rep = {}
      BY <2>1, <3>2 DEF Above
    <3>4. k \notin reached
      BY <1>6, <2>1, <3>1
    <3>5. \A x \in orphaned(n) : k \notin Below(x, byParent')
      <4>1. ASSUME NEW x \in orphaned(n), k \in Below(x, byParent')
            PROVE  k \in reached
        <5>1. children' \in Kids /\ byParent' = children' /\ orphaned(n) \in SUBSET Actors
          BY <1>1
        <5>2. version' \in [Actors -> Nat]
          BY <1>1
        <5> HIDE DEF rep
        <5> QED
          BY <1>2, <1>3, <3>3, <4>1, <5>1, <5>2, IsReached DEF reached, kids
      <4> QED
        BY <3>4, <4>1
    <3>6. k \in alive \ worldDirty
      BY <1>6, <2>1, <3>1
    <3> QED
      BY <3>0, <3>1, <3>2, <3>5, <3>6
  <2>2. byParent' \in Kids /\ X \in SUBSET Actors /\ alive' \subseteq Actors
    BY <1>0, <1>1, <1>10 DEF TreeTypeOK
  <2>3. \A m \in Actors \ X : place'[m] = place[m] /\ (m \in replaced => m \in replaced')
    OBVIOUS
  <2> HIDE DEF X
  <2> QED
    BY <1>1, <2>1, <2>2, <2>3, CurrentKept
<1> QED
  BY <1>1, <1>9, <1>10, <1>11 DEF TreeInv, HierarchyAgrees

LEMMA DestroyKeeps ==
    ASSUME TreeInv, NEW n \in Actors, DestroyActor(n)
    PROVE  TreeInv'
<1> DEFINE kids == kidsSeen(forgotten(orphaned(n)), version', children')
<1> DEFINE reached == UNION {Below(r, kids) : r \in orphaned(n)}
<1>0. TreeTypeOK
  BY DEF TreeInv, HierarchyAgrees
<1>1. /\ n \in alive /\ alive' = alive \ {n} /\ replaced' = replaced \ {n}
      /\ unlink(n, 0) /\ changes' = changes + 1
  BY DEF DestroyActor, Changing
<1>2. /\ worldDirty' = (worldDirty \cup reached) \ {n}
      /\ seen' = [m \in Actors |->
                    IF m = n THEN unseen
                    ELSE IF m \in reached THEN [version |-> version'[m], kids |-> kids[m]]
                    ELSE seen[m]]
  BY DEF DestroyActor
<1>3. /\ place' \in [Actors -> Nat] /\ world' \in [Actors -> SUBSET Places]
      /\ \A m \in Actors \ {n} : place'[m] = place[m] /\ world'[m] = world[m]
  BY <1>0 DEF DestroyActor, TreeTypeOK
<1> HIDE DEF kids, reached
<1>4. /\ replaced' \subseteq Actors /\ replaced' \cup {n} = replaced \cup {n}
      /\ changes' \in Nat
  BY <1>0, <1>1 DEF TreeTypeOK
<1>5. seen'[n] = unseen /\ unseen \in [version : Int, kids : SUBSET Actors]
  BY <1>2 DEF unseen
<1>6. worldDirty' = (worldDirty \cup reached \cup {}) \ {n}
  BY <1>2
<1>7. seen' = [m \in Actors |->
                 IF m = n THEN seen'[n]
                 ELSE IF m \in reached THEN [version |-> version'[m], kids |-> kids[m]]
                 ELSE seen[m]]
  BY <1>2, <1>5
<1>8. {n} \in SUBSET {n} /\ {} \in SUBSET {n}
  OBVIOUS
<1> QED
  BY <1>1, <1>3, <1>4, <1>5, <1>6, <1>7, <1>8, UnlinkKeeps DEF kids, reached

LEMMA ReplaceKeeps ==
    ASSUME TreeInv, NEW n \in Actors, ReplaceHierarchy(n)
    PROVE  TreeInv'
<1> DEFINE kids == kidsSeen(forgotten(orphaned(n)), version', children')
<1> DEFINE reached == UNION {Below(r, kids) : r \in orphaned(n)}
<1> DEFINE soiled == IF parent[n] # NoActor THEN {n} ELSE {}
<1> DEFINE believed ==
      IF parent[n] # NoActor
      THEN [version |-> version[n] + Cardinality(orphaned(n)) + 1, kids |-> {}]
      ELSE seen[n]
<1>0. TreeTypeOK
  BY DEF TreeInv, HierarchyAgrees
<1>1. /\ n \in alive /\ alive' = alive /\ replaced' = replaced \cup {n}
      /\ unlink(n, 0) /\ changes' = changes + 1 /\ place' = place /\ world' = world
  BY DEF ReplaceHierarchy, Changing
<1>2. /\ worldDirty' = worldDirty \cup reached \cup soiled
      /\ seen' = [m \in Actors |->
                    IF m = n THEN believed
                    ELSE IF m \in reached THEN [version |-> version'[m], kids |-> kids[m]]
                    ELSE seen[m]]
  BY DEF ReplaceHierarchy
<1>3. believed \in [version : Int, kids : SUBSET Actors]
  <2>1. orphaned(n) \subseteq Actors
    BY <1>0 DEF orphaned, TreeTypeOK
  <2>2. Cardinality(orphaned(n)) \in Nat
    BY <2>1, ActorsAssumption, FS_Subset, FS_CardinalityType
  <2> QED
    BY <1>0, <2>2 DEF TreeTypeOK
<1> HIDE DEF kids, reached, believed
<1>4. /\ replaced' \subseteq Actors /\ replaced' \cup {n} = replaced \cup {n}
      /\ changes' \in Nat /\ n \in replaced'
  BY <1>0, <1>1 DEF TreeTypeOK
<1>5. soiled \in SUBSET {n} /\ {} \in SUBSET {n}
  OBVIOUS
<1> HIDE DEF soiled
<1>6. seen'[n] = believed
  BY <1>2
<1>7. seen' = [m \in Actors |->
                 IF m = n THEN seen'[n]
                 ELSE IF m \in reached THEN [version |-> version'[m], kids |-> kids[m]]
                 ELSE seen[m]]
  BY <1>2, <1>6
<1>8. worldDirty' = (worldDirty \cup reached \cup soiled) \ {}
  BY <1>2
<1>9. /\ place' \in [Actors -> Nat] /\ world' \in [Actors -> SUBSET Places]
      /\ \A m \in Actors \ {n} : place'[m] = place[m] /\ world'[m] = world[m]
  BY <1>0, <1>1 DEF TreeTypeOK
<1>10. seen'[n] \in [version : Int, kids : SUBSET Actors]
  BY <1>3, <1>6
<1> QED
  BY <1>1, <1>4, <1>5, <1>7, <1>8, <1>9, <1>10, UnlinkKeeps DEF kids, reached

LEMMA StepKeeps == TreeInv /\ [TreeNext]_treeVars => TreeInv'
<1> SUFFICES ASSUME TreeInv, [TreeNext]_treeVars
             PROVE  TreeInv'
  OBVIOUS
<1>1. CASE TreeNext
  BY <1>1, CreateKeeps, ChangePlaceKeeps, DestroyKeeps, ReplaceKeeps, ReadKeeps,
     SetParentKeeps DEF TreeNext
<1>2. CASE UNCHANGED treeVars
  <2>1. /\ alive' = alive /\ parent' = parent /\ children' = children /\ version' = version
        /\ seen' = seen /\ worldDirty' = worldDirty /\ place' = place /\ world' = world
        /\ replaced' = replaced /\ changes' = changes
    BY <1>2 DEF treeVars, hierarchyVars, transformVars
  <2>2. byParent' = byParent
    BY <2>1 DEF byParent
  <2>3. TreeTypeOK'
    BY <2>1 DEF TreeInv, HierarchyAgrees, TreeTypeOK
  <2>4. LinksAgree' /\ Acyclic'
    BY <2>1, <2>2 DEF TreeInv, HierarchyAgrees, LinksAgree, Acyclic, isDescendantOf
  <2>5. UpToDate(seen, version, children, replaced)'
    BY <2>1 DEF TreeInv, UpToDate
  <2>6. \A k \in Actors : Above(k)' = Above(k)
    BY <2>2 DEF Above
  <2>7. alive \subseteq Actors
    BY DEF TreeInv, HierarchyAgrees, TreeTypeOK
  <2>8. WorldIsCurrent'
    <3> SUFFICES ASSUME NEW k \in alive \ worldDirty, Above(k) \cap replaced = {}
                 PROVE  world[k] = {<<m, place[m]>> : m \in Above(k)}
      BY <2>1, <2>6, <2>7 DEF WorldIsCurrent
    <3> QED
      BY DEF TreeInv, WorldIsCurrent
  <2> QED
    BY <2>3, <2>4, <2>5, <2>8 DEF TreeInv, HierarchyAgrees
<1> QED
  BY <1>1, <1>2

LEMMA TreeInvHolds == TreeSpec => []TreeInv
BY InitHolds, StepKeeps, PTL DEF TreeSpec

----------------------------------------------------------------------------
(* What holds of every tree of actors                                      *)

\* However actors are created, moved under another parent and destroyed, and however
\* often the Hierarchy of one is taken away and given anew, parents and children are
\* inverse, only living actors are linked, and no actor is above itself.
THEOREM HierarchyStaysAgreed == TreeSpec => []HierarchyAgrees
<1>1. TreeInv => HierarchyAgrees
  BY DEF TreeInv
<1> QED
  BY <1>1, TreeInvHolds, PTL

\* A transform that is not marked dirty has the place that those of its ancestors make
\* now, unless the Hierarchy of one of them was replaced: the children a transform
\* remembers are always enough to reach every place that a change made wrong.
THEOREM WorldStaysCurrent == TreeSpec => []WorldIsCurrent
<1>1. TreeInv => WorldIsCurrent
  BY DEF TreeInv
<1> QED
  BY <1>1, TreeInvHolds, PTL

-----------------------------------------------------------------------------
(***************************************************************************)
(* No texture of the registry leaks, is held twice or is destroyed twice,  *)
(* and each is what its record says, for all frames and however they       *)
(* overlap or fail.  TexturesAgree is inductive: each step gives a new     *)
(* number to the texture it makes, and disposes of what it no longer       *)
(* holds.                                                                  *)
(***************************************************************************)

Untouched == textures' = textures /\ made' = made /\ gone' = gone

\* The fields of a record that is made of another.
LEMMA TextureFields ==
    ASSUME NEW kind, NEW r, NEW native, NEW for, NEW refused
    PROVE  LET t == Texture(kind, r, native, for, refused)
           IN  /\ t.kind = kind /\ t.native = native
               /\ t.signature = r.signature /\ t.for = for /\ t.refused = refused
BY DEF Texture

LEMMA UntouchedKeeps ==
    ASSUME TexturesAgree, Untouched
    PROVE  TexturesAgree'
BY DEF Untouched, TexturesAgree, HeldOnce, AsDescribed

\* A record gives its texture to another one.
LEMMA HandedOver ==
    ASSUME TexturesAgree, NEW t \in textures, NEW u, u.native = t.native,
           \/ u.for = u.signature /\ ~u.refused
           \/ u.kind = "persistent" /\ u.refused,
           textures' = (textures \ {t}) \union {u}, made' = made, gone' = gone
    PROVE  TexturesAgree'
<1>1. HeldOnce'
  <2>1. {v.native : v \in textures'} = {v.native : v \in textures}
    OBVIOUS
  <2>2. ASSUME NEW v \in textures', NEW w \in textures', v.native = w.native
        PROVE  v = w
    BY <2>2 DEF TexturesAgree, HeldOnce
  <2> QED
    BY <2>1, <2>2 DEF TexturesAgree, HeldOnce
<1>2. AsDescribed'
  BY DEF TexturesAgree, AsDescribed
<1> QED
  BY <1>1, <1>2 DEF TexturesAgree

\* A texture is made for a new record, and another one may be replaced by it.
LEMMA NewlyMade ==
    ASSUME TexturesAgree, NEW S \in SUBSET textures, NEW u,
           u.native = made + 1, u.for = u.signature, ~u.refused,
           textures' = (textures \ S) \union {u}, made' = made + 1,
           gone' = gone \union {t.native : t \in S}
    PROVE  TexturesAgree'
<1>1. \A t \in textures : t.native \in 1..made /\ t.native \notin gone
  BY DEF TexturesAgree, HeldOnce
<1>2. made' \in Nat /\ gone' \subseteq 1..made'
  <2>1. {t.native : t \in S} \subseteq 1..made
    BY <1>1
  <2>2. gone' \subseteq 1..made
    BY <2>1 DEF TexturesAgree
  <2> QED
    BY <2>2 DEF TexturesAgree
<1>3. HeldOnce'
  <2>1. {t.native : t \in textures'} = (1..made') \ gone'
    <3>1. ASSUME NEW t \in textures'
          PROVE  t.native \in (1..made') \ gone'
      BY <1>1 DEF TexturesAgree, HeldOnce
    <3>2. ASSUME NEW n \in (1..made') \ gone'
          PROVE  \E t \in textures' : t.native = n
      <4>1. CASE n = made + 1
        BY <4>1
      <4>2. CASE n # made + 1
        <5>1. n \in (1..made) \ gone
          BY <4>2 DEF TexturesAgree
        <5>2. PICK t \in textures : t.native = n
          BY <5>1 DEF TexturesAgree, HeldOnce
        <5> QED
          BY <5>2
      <4> QED
        BY <4>1, <4>2
    <3> QED
      BY <3>1, <3>2
  <2>2. ASSUME NEW v \in textures', NEW w \in textures', v.native = w.native
        PROVE  v = w
    BY <1>1, <2>2 DEF TexturesAgree, HeldOnce
  <2> QED
    BY <2>1, <2>2 DEF HeldOnce
<1>4. AsDescribed'
  BY DEF TexturesAgree, AsDescribed
<1> QED
  BY <1>2, <1>3, <1>4 DEF TexturesAgree

\* The active textures go to the buckets or, where these are full, away.
LEMMA EndKeeps ==
    ASSUME TexturesAgree, endFrame, made' = made
    PROVE  TexturesAgree'
<1> DEFINE free == {t \in Kept("active") : fits(t)}
           full == Kept("active") \ free
           pool(t) == Texture("free", t, t.native, t.for, t.refused)
<1>1. /\ textures' = (textures \ Kept("active")) \union {pool(t) : t \in free}
      /\ gone' = gone \union {t.native : t \in full}
  BY DEF endFrame
<1>2. free \subseteq textures /\ full \subseteq textures /\ Kept("active") = free \union full
      /\ free \intersect full = {} /\ \A t \in Kept("active") : t.kind = "active"
  BY DEF Kept
<1>3. \A t \in textures : pool(t).native = t.native
  BY TextureFields
<1>4. \A t \in textures : t.native \in 1..made /\ t.native \notin gone
  BY DEF TexturesAgree, HeldOnce
\* Each record of the registry comes from one that held the same texture.
<1>5. ASSUME NEW v \in textures'
      PROVE  \E t \in textures \ full :
                /\ t.native = v.native
                /\ (v = t /\ t \notin free) \/ (v = pool(t) /\ t \in free)
  BY <1>1, <1>2, <1>3
<1>6. HeldOnce'
  <2>1. {v.native : v \in textures'} = (1..made) \ gone'
    <3>1. ASSUME NEW v \in textures'
          PROVE  v.native \in (1..made) \ gone'
      BY <1>1, <1>2, <1>4, <1>5 DEF TexturesAgree, HeldOnce
    <3>2. ASSUME NEW n \in (1..made) \ gone'
          PROVE  \E v \in textures' : v.native = n
      <4>1. PICK t \in textures : t.native = n
        BY <1>1 DEF TexturesAgree, HeldOnce
      <4>2. t \notin full
        BY <1>1, <4>1
      <4> QED
        BY <1>1, <1>2, <1>3, <4>1, <4>2
    <3> QED
      BY <3>1, <3>2
  <2>2. ASSUME NEW v \in textures', NEW w \in textures', v.native = w.native
        PROVE  v = w
    <3>1. PICK t \in textures : t.native = v.native /\ ((v = t /\ t \notin free) \/ (v = pool(t) /\ t \in free))
      BY <1>5
    <3>2. PICK u \in textures : u.native = w.native /\ ((w = u /\ u \notin free) \/ (w = pool(u) /\ u \in free))
      BY <1>5
    <3>3. t = u
      BY <2>2, <3>1, <3>2 DEF TexturesAgree, HeldOnce
    <3> QED
      BY <3>1, <3>2, <3>3
  <2> QED
    BY <2>1, <2>2 DEF HeldOnce
<1>7. AsDescribed'
  <2>1. ASSUME NEW t \in free
        PROVE  pool(t).for = pool(t).signature /\ ~pool(t).refused
    <3>1. t.for = t.signature /\ ~t.refused
      BY <1>2 DEF TexturesAgree, AsDescribed
    <3> QED
      BY <3>1, TextureFields
  <2> QED
    BY <1>1, <2>1 DEF TexturesAgree, AsDescribed
<1>8. gone' \subseteq 1..made
  BY <1>1, <1>2, <1>4 DEF TexturesAgree
<1> QED
  BY <1>6, <1>7, <1>8 DEF TexturesAgree

-----------------------------------------------------------------------------
LEMMA InitAgrees == RenderInit => TexturesAgree
BY DEF RenderInit, TexturesAgree, HeldOnce, AsDescribed

LEMMA StepAgrees == TexturesAgree /\ [RenderNext]_renderVars => TexturesAgree'
<1> SUFFICES ASSUME TexturesAgree, [RenderNext]_renderVars
             PROVE  TexturesAgree'
  OBVIOUS
<1>1. ASSUME NEW call \in Renders, NEW f \in Settings, NEW odd \in BOOLEAN, BuildFrame(call, f, odd)
      PROVE  TexturesAgree'
  BY <1>1, UntouchedKeeps DEF BuildFrame, Untouched
<1>2. CASE ShareActive
  BY <1>2, UntouchedKeeps DEF ShareActive, Untouched
<1>3. CASE ReuseFree
  <2>1. PICK t \in textures :
           /\ t \in pooled(Head(building.asks))
           /\ textures' = (textures \ {t}) \union
                  {Texture("active", Head(building.asks), t.native, t.for, t.refused)}
    BY <1>3 DEF ReuseFree, pooled, Kept
  <2> DEFINE u == Texture("active", Head(building.asks), t.native, t.for, t.refused)
  <2>2. t.for = t.signature /\ ~t.refused
    BY <2>1 DEF TexturesAgree, AsDescribed, pooled, Kept
  <2>3. t.signature = Head(building.asks).signature
    BY <2>1 DEF pooled
  <2>4. u.native = t.native /\ u.for = u.signature /\ ~u.refused
    BY <2>2, <2>3 DEF Texture
  <2>5. made' = made /\ gone' = gone
    BY <1>3 DEF ReuseFree
  <2> HIDE DEF u
  <2>6. textures' = (textures \ {t}) \union {u}
    BY <2>1 DEF u
  <2> QED
    BY <2>4, <2>5, <2>6, HandedOver
<1>4. CASE Create
  <2> DEFINE r == Head(building.asks)
             u == Fresh(IF r.lifetime = "transient" THEN "active" ELSE "persistent", r, made + 1)
  <2>1. textures' = (textures \ {}) \union {u} /\ made' = made + 1
        /\ gone' = gone \union {t.native : t \in {}}
    BY <1>4 DEF Create
  <2>2. u.native = made + 1 /\ u.for = u.signature /\ ~u.refused
    BY DEF Fresh, Texture
  <2> HIDE DEF u
  <2> QED
    BY <2>1, <2>2, NewlyMade
<1>5. CASE CreateRefused
  BY <1>5, UntouchedKeeps DEF CreateRefused, Untouched
<1>6. CASE KeepPersistent
  BY <1>6, UntouchedKeeps DEF KeepPersistent, Untouched
<1>7. CASE Replace
  <2> DEFINE u == Fresh("persistent", Head(building.asks), made + 1)
  <2>1. PICK t \in textures :
           textures' = (textures \ {t}) \union {u} /\ gone' = gone \union {t.native}
    BY <1>7 DEF Replace
  <2>2. u.native = made + 1 /\ u.for = u.signature /\ ~u.refused
    BY DEF Fresh, Texture
  <2>3. made' = made + 1 /\ gone' = gone \union {v.native : v \in {t}}
    BY <1>7, <2>1 DEF Replace
  <2> HIDE DEF u
  <2> QED
    BY <2>1, <2>2, <2>3, NewlyMade
<1>8. CASE ReplaceRefused
  <2>1. PICK t \in textures :
           textures' = (textures \ {t}) \union
               {Texture("persistent", Head(building.asks), t.native, t.for, TRUE)}
    BY <1>8 DEF ReplaceRefused
  <2> DEFINE u == Texture("persistent", Head(building.asks), t.native, t.for, TRUE)
  <2>2. u.native = t.native /\ u.kind = "persistent" /\ u.refused
    BY DEF Texture
  <2>3. made' = made /\ gone' = gone
    BY <1>8 DEF ReplaceRefused
  <2> HIDE DEF u
  <2>4. textures' = (textures \ {t}) \union {u}
    BY <2>1 DEF u
  <2> QED
    BY <2>2, <2>3, <2>4, HandedOver
<1>9. CASE PlanReturns
  BY <1>9, EndKeeps DEF PlanReturns
<1>10. CASE RenderAwaits
  BY <1>10, UntouchedKeeps DEF RenderAwaits, Untouched
<1>11. ASSUME NEW call \in Renders, RenderEnds(call)
       PROVE  TexturesAgree'
  <2>1. CASE pipelineGone
    BY <1>11, <2>1, UntouchedKeeps DEF RenderEnds, Untouched
  <2>2. CASE ~pipelineGone
    BY <1>11, <2>2, EndKeeps DEF RenderEnds
  <2> QED
    BY <2>1, <2>2
<1>12. CASE DisposePipeline
  <2>1. textures' = {} /\ made' = made /\ gone' = gone \union {t.native : t \in textures}
    BY <1>12 DEF DisposePipeline
  <2>2. gone' = 1..made
    BY <2>1 DEF TexturesAgree, HeldOnce
  <2> QED
    BY <2>1, <2>2 DEF TexturesAgree, HeldOnce, AsDescribed
<1>13. CASE UNCHANGED renderVars
  BY <1>13, UntouchedKeeps DEF renderVars, Untouched
<1> QED
  BY <1>1, <1>2, <1>3, <1>4, <1>5, <1>6, <1>7, <1>8, <1>9, <1>10, <1>11, <1>12, <1>13
  DEF RenderNext

\* However frames overlap, fail or are planned only, the registry holds every
\* texture the allocator made and did not dispose of, each under one record.
THEOREM TexturesStayAgreed == RenderSpec => []TexturesAgree
BY InitAgrees, StepAgrees, PTL DEF RenderSpec

-----------------------------------------------------------------------------
(* A plan asks for no name twice *)

Sizes == {f.size : f \in Settings} \union {0}
Names == {"depth", "scene-color", "back-buffer", "exposure", "atlas", "update-target",
          "indirect", "gi-history", "froxel", "volumetric", "ping", "pong", "taa-a", "taa-b"}
Uses == {"depth", "color", "color-hdr", "present", "exposure", "shadow", "cube", "indirect",
         "history", "froxel", "froxel-history", "history-target", "history-source"}
Lifetimes == {"transient", "persistent"}
Requests == [id : Names, signature : Uses \X Sizes, lifetime : Lifetimes]
NamesApart(s) == \A i, j \in 1..Len(s) : s[i].id = s[j].id => i = j
NamedIn(s, N) == s \in Seq(Requests) /\ NamesApart(s) /\ \A i \in 1..Len(s) : s[i].id \in N

LEMMA JoinedNames ==
    ASSUME NEW s, NEW M, NamedIn(s, M), NEW t, NEW N, NamedIn(t, N), M \intersect N = {}
    PROVE  NamedIn(s \o t, M \union N)
<1>1. /\ s \in Seq(Requests) /\ t \in Seq(Requests)
  BY DEF NamedIn
<1> DEFINE u == s \o t
           m == Len(s)
           n == Len(t)
<1>2. /\ u \in Seq(Requests) /\ Len(u) = m + n /\ m \in Nat /\ n \in Nat
      /\ \A i \in 1..Len(u) : u[i] = IF i <= m THEN s[i] ELSE t[i - m]
  BY <1>1, ConcatProperties, LenProperties
<1> HIDE DEF u
<1>3. \A i \in 1..m : s[i].id \in M
  BY DEF NamedIn
<1>4. \A i \in 1..n : t[i].id \in N
  BY DEF NamedIn
<1>5. \A i, j \in 1..m : s[i].id = s[j].id => i = j
  BY DEF NamedIn, NamesApart
<1>6. \A i, j \in 1..n : t[i].id = t[j].id => i = j
  BY DEF NamedIn, NamesApart
<1> HIDE DEF m, n
<1>7. \A i \in 1..Len(u) : \/ i \in 1..m /\ u[i] = s[i]
                           \/ i > m /\ i - m \in 1..n /\ u[i] = t[i - m]
  BY <1>2
<1>8. \A i \in 1..Len(u) : u[i].id \in M \union N
  BY <1>3, <1>4, <1>7
<1>9. ASSUME NEW i \in 1..Len(u), NEW j \in 1..Len(u), u[i].id = u[j].id
      PROVE  i = j
  <2>1. CASE i \in 1..m /\ u[i] = s[i] /\ j \in 1..m /\ u[j] = s[j]
    BY <1>5, <1>9, <2>1
  <2>2. CASE i \in 1..m /\ u[i] = s[i] /\ j - m \in 1..n /\ u[j] = t[j - m]
    BY <1>3, <1>4, <1>9, <2>2
  <2>3. CASE i - m \in 1..n /\ u[i] = t[i - m] /\ j \in 1..m /\ u[j] = s[j]
    BY <1>3, <1>4, <1>9, <2>3
  <2>4. CASE i - m \in 1..n /\ u[i] = t[i - m] /\ j - m \in 1..n /\ u[j] = t[j - m]
    <3>1. i - m = j - m
      BY <1>6, <1>9, <2>4
    <3> QED
      BY <1>2, <3>1
  <2> QED
    BY <1>7, <2>1, <2>2, <2>3, <2>4
<1> QED
  BY <1>2, <1>8, <1>9 DEF NamedIn, NamesApart, u

LEMMA NothingNamed == \A N : NamedIn(<<>>, N)
BY EmptySeq DEF NamedIn, NamesApart

LEMMA OneNamed ==
    ASSUME NEW r \in Requests, NEW N, r.id \in N
    PROVE  NamedIn(<<r>>, N)
<1>1. <<r>> \in Seq(Requests) /\ Len(<<r>>) = 1 /\ <<r>>[1] = r
  OBVIOUS
<1> QED
  BY <1>1 DEF NamedIn, NamesApart

LEMMA IfNamed ==
    ASSUME NEW c, NEW s, NEW N, NamedIn(s, N)
    PROVE  NamedIn(If(c, s), N)
BY NothingNamed DEF If

LEMMA TwoNamed ==
    ASSUME NEW r \in Requests, NEW q \in Requests, r.id # q.id
    PROVE  NamedIn(<<r, q>>, {r.id, q.id})
<1>1. /\ <<r, q>> \in Seq(Requests) /\ Len(<<r, q>>) = 2
      /\ <<r, q>>[1] = r /\ <<r, q>>[2] = q
  OBVIOUS
<1>2. \A i \in 1..2 : i = 1 \/ i = 2
  OBVIOUS
<1> QED
  BY <1>1, <1>2 DEF NamedIn, NamesApart

LEMMA AskIsRequest ==
    ASSUME NEW id \in Names, NEW use \in Uses, NEW size \in Sizes, NEW lifetime \in Lifetimes
    PROVE  /\ Ask(id, use, size, lifetime) \in Requests
           /\ Ask(id, use, size, lifetime).id = id
BY DEF Ask, Requests

LEMMA ThreeNamed ==
    ASSUME NEW r \in Requests, NEW q \in Requests, NEW p \in Requests,
           r.id # q.id, r.id # p.id, q.id # p.id
    PROVE  NamedIn(<<r, q, p>>, {r.id, q.id, p.id})
<1>1. /\ <<r, q, p>> \in Seq(Requests) /\ Len(<<r, q, p>>) = 3
      /\ <<r, q, p>>[1] = r /\ <<r, q, p>>[2] = q /\ <<r, q, p>>[3] = p
  OBVIOUS
<1>2. \A i \in 1..3 : i = 1 \/ i = 2 \/ i = 3
  OBVIOUS
<1> QED
  BY <1>1, <1>2 DEF NamedIn, NamesApart

\* The names of each part of a plan.
LEMMA PartsNamed ==
    ASSUME NEW f \in Settings, NEW odd \in BOOLEAN
    PROVE  /\ NamedIn(frameTextures(f), {"depth", "scene-color", "back-buffer", "exposure"})
           /\ NamedIn(shadowAtlas(f), {"atlas"})
           /\ NamedIn(probeTarget(f), {"update-target"})
           /\ NamedIn(giTextures(f), {"indirect", "gi-history"})
           /\ NamedIn(volumetricTextures(f), {"froxel", "volumetric"})
           /\ NamedIn(postTextures(f), {"ping", "pong"})
           /\ NamedIn(taaHistories(f, odd), {"taa-a", "taa-b"})
<1> DEFINE size == f.size
           col == color(f)
<1>1. size \in Sizes /\ 0 \in Sizes
  BY DEF Sizes
<1>2. col \in Uses
  BY DEF color, Uses
<1> HIDE DEF size, col
<1>n. /\ "depth" \in Names /\ "scene-color" \in Names /\ "back-buffer" \in Names
      /\ "exposure" \in Names /\ "atlas" \in Names /\ "update-target" \in Names
      /\ "indirect" \in Names /\ "gi-history" \in Names /\ "froxel" \in Names
      /\ "volumetric" \in Names /\ "ping" \in Names /\ "pong" \in Names
      /\ "taa-a" \in Names /\ "taa-b" \in Names
  BY DEF Names
<1>u. /\ "depth" \in Uses /\ "color" \in Uses /\ "color-hdr" \in Uses
      /\ "present" \in Uses /\ "exposure" \in Uses /\ "shadow" \in Uses
      /\ "cube" \in Uses /\ "indirect" \in Uses /\ "history" \in Uses
      /\ "froxel" \in Uses /\ "froxel-history" \in Uses /\ "history-target" \in Uses
      /\ "history-source" \in Uses
  BY DEF Uses
<1>t. "transient" \in Lifetimes /\ "persistent" \in Lifetimes
  BY DEF Lifetimes
<1>3. NamedIn(frameTextures(f), {"depth", "scene-color", "back-buffer", "exposure"})
  <2> DEFINE a == Ask("depth", "depth", size, "transient")
             b == Ask("scene-color", col, size, "transient")
             c == Ask("back-buffer", "present", size, "persistent")
             d == Ask("exposure", "exposure", 0, "persistent")
  <2>1. /\ a \in Requests /\ a.id = "depth" /\ b \in Requests /\ b.id = "scene-color"
        /\ c \in Requests /\ c.id = "back-buffer" /\ d \in Requests /\ d.id = "exposure"
    <3>1. a \in Requests /\ a.id = "depth"
      BY <1>1, <1>n, <1>u, <1>t, AskIsRequest
    <3>2. b \in Requests /\ b.id = "scene-color"
      BY <1>1, <1>2, <1>n, <1>u, <1>t, AskIsRequest
    <3>3. c \in Requests /\ c.id = "back-buffer"
      BY <1>1, <1>n, <1>u, <1>t, AskIsRequest
    <3>4. d \in Requests /\ d.id = "exposure"
      BY <1>1, <1>n, <1>u, <1>t, AskIsRequest
    <3> QED
      BY <3>1, <3>2, <3>3, <3>4
  <2>2. frameTextures(f) = <<a, b, c>> \o If(f.hdr /\ f.exposure, <<d>>)
    BY DEF frameTextures, size, col
  <2> HIDE DEF a, b, c, d
  <2>3. NamedIn(<<a, b, c>>, {"depth", "scene-color", "back-buffer"})
    BY <2>1, ThreeNamed
  <2>4. NamedIn(If(f.hdr /\ f.exposure, <<d>>), {"exposure"})
    BY <2>1, OneNamed, IfNamed
  <2>5. NamedIn(frameTextures(f), {"depth", "scene-color", "back-buffer"} \union {"exposure"})
    BY <2>2, <2>3, <2>4, JoinedNames
  <2>6. {"depth", "scene-color", "back-buffer"} \union {"exposure"}
          = {"depth", "scene-color", "back-buffer", "exposure"}
    OBVIOUS
  <2> QED
    BY <2>5, <2>6
<1>4. NamedIn(shadowAtlas(f), {"atlas"})
  <2> DEFINE a == Ask("atlas", "shadow", 0, "transient")
  <2>1. a \in Requests /\ a.id = "atlas"
    BY <1>1, <1>n, <1>u, <1>t, AskIsRequest
  <2>2. shadowAtlas(f) = If(f.shadows, <<a>>)
    BY DEF shadowAtlas
  <2> HIDE DEF a
  <2>3. NamedIn(<<a>>, {"atlas"})
    BY <2>1, OneNamed
  <2> QED
    BY <2>2, <2>3, IfNamed
<1>5. NamedIn(probeTarget(f), {"update-target"})
  <2> DEFINE a == Ask("update-target", "cube", 0, "transient")
  <2>1. a \in Requests /\ a.id = "update-target"
    BY <1>1, <1>n, <1>u, <1>t, AskIsRequest
  <2>2. probeTarget(f) = If(f.probes, <<a>>)
    BY DEF probeTarget
  <2> HIDE DEF a
  <2>3. NamedIn(<<a>>, {"update-target"})
    BY <2>1, OneNamed
  <2> QED
    BY <2>2, <2>3, IfNamed
<1>6. NamedIn(giTextures(f), {"indirect", "gi-history"})
  <2> DEFINE l == IF f.gi = "baked" THEN "persistent" ELSE "transient"
             a == Ask("indirect", "indirect", size, l)
             b == Ask("gi-history", "history", size, "persistent")
  <2>1. l \in Lifetimes
    BY <1>t
  <2>2. giTextures(f) = If(f.gi # "disabled", <<a>>) \o If(f.gi \in {"ssgi", "hybrid"}, <<b>>)
    BY DEF giTextures, size
  <2> HIDE DEF l
  <2>3. a \in Requests /\ a.id = "indirect" /\ b \in Requests /\ b.id = "gi-history"
    <3>1. a \in Requests /\ a.id = "indirect"
      BY <1>1, <1>2, <2>1, <1>n, <1>u, <1>t, AskIsRequest
    <3>2. b \in Requests /\ b.id = "gi-history"
      BY <1>1, <1>2, <2>1, <1>n, <1>u, <1>t, AskIsRequest
    <3> QED
      BY <3>1, <3>2
  <2> HIDE DEF a, b
  <2>4. /\ NamedIn(If(f.gi # "disabled", <<a>>), {"indirect"})
        /\ NamedIn(If(f.gi \in {"ssgi", "hybrid"}, <<b>>), {"gi-history"})
    BY <2>3, OneNamed, IfNamed
  <2>5. NamedIn(giTextures(f), {"indirect"} \union {"gi-history"})
    <3> DEFINE s == If(f.gi # "disabled", <<a>>)
               t == If(f.gi \in {"ssgi", "hybrid"}, <<b>>)
    <3>1. {"indirect"} \intersect {"gi-history"} = {} /\ giTextures(f) = s \o t
      BY <2>2
    <3>2. NamedIn(s, {"indirect"}) /\ NamedIn(t, {"gi-history"})
      BY <2>4
    <3> HIDE DEF s, t
    <3> QED
      BY <3>1, <3>2, JoinedNames
  <2>6. {"indirect"} \union {"gi-history"} = {"indirect", "gi-history"}
    OBVIOUS
  <2> QED
    BY <2>5, <2>6
<1>7. NamedIn(volumetricTextures(f), {"froxel", "volumetric"})
  <2> DEFINE a == Ask("froxel", "froxel", 0, "transient")
             b == Ask("volumetric", "froxel-history", 0, "persistent")
  <2>1. a \in Requests /\ a.id = "froxel" /\ b \in Requests /\ b.id = "volumetric"
    <3>1. a \in Requests /\ a.id = "froxel"
      BY <1>1, <1>2, <1>n, <1>u, <1>t, AskIsRequest
    <3>2. b \in Requests /\ b.id = "volumetric"
      BY <1>1, <1>2, <1>n, <1>u, <1>t, AskIsRequest
    <3> QED
      BY <3>1, <3>2
  <2>2. volumetricTextures(f)
          = If(f.volumetrics, <<a>>) \o If(f.volumetrics /\ f.temporal, <<b>>)
    BY DEF volumetricTextures
  <2> HIDE DEF a, b
  <2>3. /\ NamedIn(If(f.volumetrics, <<a>>), {"froxel"})
        /\ NamedIn(If(f.volumetrics /\ f.temporal, <<b>>), {"volumetric"})
    BY <2>1, OneNamed, IfNamed
  <2>4. NamedIn(volumetricTextures(f), {"froxel"} \union {"volumetric"})
    <3> DEFINE s == If(f.volumetrics, <<a>>)
               t == If(f.volumetrics /\ f.temporal, <<b>>)
    <3>1. {"froxel"} \intersect {"volumetric"} = {} /\ volumetricTextures(f) = s \o t
      BY <2>2
    <3>2. NamedIn(s, {"froxel"}) /\ NamedIn(t, {"volumetric"})
      BY <2>3
    <3> HIDE DEF s, t
    <3> QED
      BY <3>1, <3>2, JoinedNames
  <2>5. {"froxel"} \union {"volumetric"} = {"froxel", "volumetric"}
    OBVIOUS
  <2> QED
    BY <2>4, <2>5
<1>8. NamedIn(postTextures(f), {"ping", "pong"})
  <2> DEFINE a == Ask("ping", col, size, "transient")
             b == Ask("pong", col, size, "transient")
  <2>1. a \in Requests /\ a.id = "ping" /\ b \in Requests /\ b.id = "pong"
    <3>1. a \in Requests /\ a.id = "ping"
      BY <1>1, <1>2, <1>n, <1>u, <1>t, AskIsRequest
    <3>2. b \in Requests /\ b.id = "pong"
      BY <1>1, <1>2, <1>n, <1>u, <1>t, AskIsRequest
    <3> QED
      BY <3>1, <3>2
  <2>2. postTextures(f) = If(f.effects # {}, <<a, b>>)
    BY DEF postTextures, size, col
  <2> HIDE DEF a, b
  <2>3. NamedIn(<<a, b>>, {"ping", "pong"})
    BY <2>1, TwoNamed
  <2> QED
    BY <2>2, <2>3, IfNamed
<1>9. NamedIn(taaHistories(f, odd), {"taa-a", "taa-b"})
  <2> DEFINE x == IF odd THEN "taa-a" ELSE "taa-b"
             y == IF odd THEN "taa-b" ELSE "taa-a"
             a == Ask(x, "history-target", size, "persistent")
             b == Ask(y, "history-source", size, "persistent")
  <2>1. x \in Names /\ y \in Names /\ x # y /\ {x, y} = {"taa-a", "taa-b"}
    BY <1>n
  <2>2. taaHistories(f, odd) = If("taa" \in f.effects, <<a, b>>)
    BY DEF taaHistories, size
  <2> HIDE DEF x, y
  <2>3. a \in Requests /\ a.id = x /\ b \in Requests /\ b.id = y
    <3>1. a \in Requests /\ a.id = x
      BY <1>1, <1>2, <2>1, <1>n, <1>u, <1>t, AskIsRequest
    <3>2. b \in Requests /\ b.id = y
      BY <1>1, <1>2, <2>1, <1>n, <1>u, <1>t, AskIsRequest
    <3> QED
      BY <3>1, <3>2
  <2> HIDE DEF a, b
  <2>4. NamedIn(<<a, b>>, {x, y})
    BY <2>1, <2>3, TwoNamed
  <2> QED
    BY <2>1, <2>2, <2>4, IfNamed
<1> QED
  BY <1>3, <1>4, <1>5, <1>6, <1>7, <1>8, <1>9

\* Each texture of a plan is asked for once.
LEMMA PlanNamesOnce ==
    ASSUME NEW f \in Settings, NEW odd \in BOOLEAN
    PROVE  plan(f, odd) \in Seq(Requests) /\ NamesApart(plan(f, odd))
<1> DEFINE A == {"depth", "scene-color", "back-buffer", "exposure"}
           B == A \union {"atlas"}
           C == B \union {"update-target"}
           D == C \union {"indirect", "gi-history"}
           E == D \union {"froxel", "volumetric"}
           F == E \union {"ping", "pong"}
           G == F \union {"taa-a", "taa-b"}
           p1 == frameTextures(f)
           p2 == p1 \o shadowAtlas(f)
           p3 == p2 \o probeTarget(f)
           p4 == p3 \o giTextures(f)
           p5 == p4 \o volumetricTextures(f)
           p6 == p5 \o postTextures(f)
           p7 == p6 \o taaHistories(f, odd)
<1>1. plan(f, odd) = p7
  BY DEF plan
<1>2. /\ A \intersect {"atlas"} = {} /\ B \intersect {"update-target"} = {}
      /\ C \intersect {"indirect", "gi-history"} = {}
      /\ D \intersect {"froxel", "volumetric"} = {}
      /\ E \intersect {"ping", "pong"} = {} /\ F \intersect {"taa-a", "taa-b"} = {}
  OBVIOUS
<1> HIDE DEF p1, p2, p3, p4, p5, p6, p7, A, B, C, D, E, F, G
<1>3. NamedIn(p1, A)
  BY PartsNamed DEF p1, A
<1>4. NamedIn(p2, B)
  BY <1>2, <1>3, PartsNamed, JoinedNames DEF p2, B
<1>5. NamedIn(p3, C)
  BY <1>2, <1>4, PartsNamed, JoinedNames DEF p3, C
<1>6. NamedIn(p4, D)
  BY <1>2, <1>5, PartsNamed, JoinedNames DEF p4, D
<1>7. NamedIn(p5, E)
  BY <1>2, <1>6, PartsNamed, JoinedNames DEF p5, E
<1>8. NamedIn(p6, F)
  BY <1>2, <1>7, PartsNamed, JoinedNames DEF p6, F
<1>9. NamedIn(p7, G)
  BY <1>2, <1>8, PartsNamed, JoinedNames DEF p7, G
<1> QED
  BY <1>1, <1>9 DEF NamedIn

-----------------------------------------------------------------------------
(* A frame on its own holds what it asked for                              *)

Record(call, asks, got, alone) == [call |-> call, asks |-> asks, got |-> got, alone |-> alone]

\* What the plan has still to ask for was not asked for before.
BuildingApart ==
    /\ building = Record(building.call, building.asks, building.got, building.alone)
    /\ Building => building.call \in Renders /\ ~pipelineGone
    /\ building.asks \in Seq(Requests) /\ NamesApart(building.asks)
    /\ \A i \in 1..Len(building.asks), g \in building.got : g[1] # building.asks[i].id

Holds(g) == \E t \in textures : t.kind # "free" /\ t.id = g[1] /\ t.native = g[2]

BuildingHolds ==
    Building /\ building.alone =>
        /\ DOMAIN inFlight = {}
        /\ {t.id : t \in Kept("active")} \subseteq {g[1] : g \in building.got}
        /\ \A g \in building.got : Holds(g)

FlyingAlone ==
    /\ \A c \in DOMAIN inFlight : "alone" \in DOMAIN inFlight[c]
    /\ \A c \in DOMAIN inFlight : inFlight[c].alone => ~Building /\ DOMAIN inFlight = {c}
    /\ \A c \in DOMAIN inFlight : inFlight[c].alone /\ ~pipelineGone =>
          \A g \in inFlight[c].got : Holds(g)

FramesInv ==
    /\ BuildingApart /\ BuildingHolds /\ FlyingAlone
    /\ pipelineGone => textures = {}
    /\ ~Building /\ Alone => Kept("active") = {}
    /\ ~clash

LEMMA FramesInvHolds == FramesInv => FramesHold
BY DEF FramesInv, BuildingHolds, FlyingAlone, FramesHold, Holds

\* The head of a plan has a name of its own.
LEMMA HeadApart ==
    ASSUME NEW s \in Seq(Requests), NamesApart(s), s # <<>>
    PROVE  /\ Head(s) \in Requests /\ Tail(s) \in Seq(Requests) /\ NamesApart(Tail(s))
           /\ \E i \in 1..Len(s) : s[i] = Head(s)
           /\ \A i \in 1..Len(Tail(s)) :
                 /\ Tail(s)[i].id # Head(s).id
                 /\ \E j \in 1..Len(s) : Tail(s)[i] = s[j]
<1> DEFINE t == Tail(s)
           n == Len(s)
<1>1. /\ t \in Seq(Requests) /\ n \in Nat /\ n >= 1 /\ Len(t) = n - 1
      /\ Head(s) = s[1] /\ s[1] \in Requests /\ \A i \in 1..Len(t) : t[i] = s[i + 1]
  OBVIOUS
<1> HIDE DEF t, n
<1>2. \A i \in 1..Len(t) : i + 1 \in 1..n /\ i + 1 # 1 /\ 1 \in 1..n
  BY <1>1
<1>3. \A i, j \in 1..n : s[i].id = s[j].id => i = j
  BY DEF NamesApart, n
<1>4. \A i \in 1..Len(t) : t[i].id # Head(s).id
  BY <1>1, <1>2, <1>3
<1>5. ASSUME NEW i \in 1..Len(t), NEW j \in 1..Len(t), t[i].id = t[j].id
      PROVE  i = j
  <2>1. s[i + 1].id = s[j + 1].id
    BY <1>1, <1>5
  <2>2. i + 1 = j + 1
    BY <1>2, <1>3, <2>1
  <2> QED
    BY <2>2
<1>6. 1 \in 1..n
  BY <1>1
<1> QED
  BY <1>1, <1>2, <1>4, <1>5, <1>6 DEF t, n, NamesApart

\* What Gets leaves of the plan.
LEMMA GetsFields ==
    ASSUME building = Record(building.call, building.asks, building.got, building.alone),
           NEW native, Gets(native)
    PROVE  building' = Record(building.call, Tail(building.asks),
               building.got \union {<<Head(building.asks).id, native>>}, building.alone)
BY DEF Gets, Record

LEMMA RecordFields ==
    ASSUME NEW call, NEW asks, NEW got, NEW alone, NEW r, r = Record(call, asks, got, alone)
    PROVE  r.call = call /\ r.asks = asks /\ r.got = got /\ r.alone = alone
BY DEF Record

\* A texture is found or made under the name asked for: what was held still is, and
\* no texture but this one becomes active.
LEMMA GetsKeeps ==
    ASSUME FramesInv, Asking, NEW native, Gets(native),
           \A t \in textures : t.kind # "free" /\ t.id # Head(building.asks).id => t \in textures',
           \E t \in textures' : /\ t.kind # "free" /\ t.id = Head(building.asks).id
                                /\ t.native = native,
           \A t \in textures' : t.kind = "active" =>
               t \in textures \/ t.id = Head(building.asks).id,
           inFlight' = inFlight, pipelineGone' = pipelineGone, clash' = clash
    PROVE  FramesInv'
<1> DEFINE asks == building.asks
           got == building.got
           g1 == <<Head(asks).id, native>>
<1>1. /\ building' = Record(building.call, Tail(asks), got \union {g1}, building.alone)
      /\ building'.call = building.call /\ building'.asks = Tail(asks)
      /\ building'.got = got \union {g1} /\ building'.alone = building.alone
  <2>1. building = Record(building.call, building.asks, building.got, building.alone)
    BY DEF FramesInv, BuildingApart
  <2>2. building' = Record(building.call, Tail(asks), got \union {g1}, building.alone)
    BY <2>1, GetsFields
  <2> QED
    BY <2>2, RecordFields
<1>2. /\ Building /\ building.call \in Renders /\ ~pipelineGone
      /\ asks \in Seq(Requests) /\ asks # <<>> /\ NamesApart(asks)
      /\ \A i \in 1..Len(asks), g \in got : g[1] # asks[i].id
  BY DEF FramesInv, BuildingApart, Asking
<1>3. Building'
  <2>1. building.call # None /\ Idle.call = None
    BY <1>2, RenderAssumption DEF Idle
  <2> QED
    BY <1>1, <2>1 DEF Building, Idle
<1>4. g1[1] = Head(asks).id /\ g1[2] = native
  OBVIOUS
<1> HIDE DEF asks, got, g1
<1>5. /\ Tail(asks) \in Seq(Requests) /\ NamesApart(Tail(asks))
      /\ \E i \in 1..Len(asks) : asks[i] = Head(asks)
      /\ \A i \in 1..Len(Tail(asks)) :
            Tail(asks)[i].id # Head(asks).id /\ \E j \in 1..Len(asks) : Tail(asks)[i] = asks[j]
  BY <1>2, HeadApart
<1>6. BuildingApart'
  <2>1. \A i \in 1..Len(Tail(asks)), g \in got \union {g1} : g[1] # Tail(asks)[i].id
    BY <1>2, <1>4, <1>5
  <2> QED
    BY <1>1, <1>2, <1>5, <2>1 DEF BuildingApart
<1>7. \A g \in got : g[1] # Head(asks).id
  BY <1>2, <1>5
<1>8. BuildingHolds'
  <2> SUFFICES ASSUME building'.alone
               PROVE  /\ DOMAIN inFlight = {}
                      /\ {t.id : t \in Kept("active")'} \subseteq {g[1] : g \in got \union {g1}}
                      /\ \A g \in got \union {g1} : Holds(g)'
    BY <1>1 DEF BuildingHolds
  <2>1. /\ DOMAIN inFlight = {}
        /\ {t.id : t \in Kept("active")} \subseteq {g[1] : g \in got}
        /\ \A g \in got : Holds(g)
    BY <1>1, <1>2 DEF FramesInv, BuildingHolds, got
  <2>2. {t.id : t \in Kept("active")'} \subseteq {g[1] : g \in got \union {g1}}
    <3>1. ASSUME NEW t \in Kept("active")'
          PROVE  \E g \in got \union {g1} : t.id = g[1]
      <4>1. t \in textures' /\ t.kind = "active"
        BY DEF Kept
      <4>2. CASE t \in textures
        BY <2>1, <4>1, <4>2 DEF Kept
      <4>3. CASE t.id = Head(asks).id
        BY <1>4, <4>3
      <4> QED
        BY <4>1, <4>2, <4>3 DEF asks
    <3> QED
      BY <3>1
  <2>3. ASSUME NEW g \in got
        PROVE  Holds(g)'
    BY <1>7, <2>1, <2>3 DEF Holds, asks
  <2>4. ASSUME NEW g, g = g1
        PROVE  Holds(g)'
    BY <1>4, <2>4 DEF Holds, asks
  <2> QED
    BY <2>1, <2>2, <2>3, <2>4
<1>9. FlyingAlone'
  BY <1>2, <1>3 DEF FramesInv, FlyingAlone
<1> QED
  BY <1>2, <1>3, <1>6, <1>8, <1>9 DEF FramesInv

\* A call that gives up holds nothing any more, and the next frame is not on its own.
LEMMA GiveUpKeeps ==
    ASSUME FramesInv, Asking, GiveUp,
           inFlight' = inFlight, pipelineGone' = pipelineGone, ~clash'
    PROVE  FramesInv'
<1>1. building' = Idle /\ ~Building' /\ broken' /\ ~Alone'
  BY DEF GiveUp, Building, Alone
<1>2. /\ Idle = Record(Idle.call, Idle.asks, Idle.got, Idle.alone)
      /\ Idle.asks = <<>> /\ Idle.got = {}
  BY DEF Idle, Record
<1>3. BuildingApart'
  BY <1>1, <1>2, EmptySeq DEF BuildingApart, NamesApart
<1>4. Building /\ ~pipelineGone
  BY DEF FramesInv, BuildingApart, Asking
<1>5. FlyingAlone'
  BY <1>4 DEF FramesInv, FlyingAlone
<1> QED
  BY <1>1, <1>3, <1>4, <1>5 DEF FramesInv, BuildingHolds

\* No texture is active when the frame of the registry has ended.
LEMMA EndLeavesNone ==
    ASSUME endFrame
    PROVE  Kept("active")' = {}
BY TextureFields DEF endFrame, Kept

LEMMA FramesBegin == RenderInit => FramesInv
<1> SUFFICES ASSUME RenderInit
             PROVE  FramesInv
  OBVIOUS
<1>1. /\ textures = {} /\ building = Idle /\ ~Building /\ DOMAIN inFlight = {} /\ ~clash
      /\ ~pipelineGone
  BY DEF RenderInit, Building
<1>2. /\ Idle = Record(Idle.call, Idle.asks, Idle.got, Idle.alone)
      /\ Idle.asks = <<>> /\ Idle.got = {}
  BY DEF Idle, Record
<1>3. BuildingApart
  BY <1>1, <1>2, EmptySeq DEF BuildingApart, NamesApart
<1> QED
  BY <1>1, <1>3 DEF FramesInv, BuildingHolds, FlyingAlone, Kept

LEMMA BuildKeeps ==
    ASSUME FramesInv,
           NEW call \in Renders, NEW f \in Settings, NEW odd \in BOOLEAN, BuildFrame(call, f, odd)
    PROVE  FramesInv'
<1> DEFINE p == plan(f, odd)
<1>1. p \in Seq(Requests) /\ NamesApart(p)
  BY PlanNamesOnce
<1> HIDE DEF p
<1>2. /\ building' = Record(call, p, {}, Alone) /\ ~Building /\ ~pipelineGone
      /\ inFlight' = [c \in DOMAIN inFlight |-> [inFlight[c] EXCEPT !.alone = FALSE]]
      /\ textures' = textures /\ clash' = clash /\ pipelineGone' = pipelineGone
  BY DEF BuildFrame, Record, p
<1>3. /\ building'.call = call /\ building'.asks = p /\ building'.got = {}
      /\ building'.alone = Alone
  BY <1>2, RecordFields
<1>4. Building'
  <2>1. call # None /\ Idle.call = None
    BY RenderAssumption DEF Idle
  <2> QED
    BY <1>3, <2>1 DEF Building, Idle
<1>5. BuildingApart'
  BY <1>1, <1>2, <1>3 DEF BuildingApart
<1>6. BuildingHolds'
  <2> SUFFICES ASSUME Alone
               PROVE  DOMAIN inFlight' = {} /\ Kept("active")' = {}
    BY <1>3 DEF BuildingHolds
  <2>1. DOMAIN inFlight = {}
    BY DEF Alone
  <2>2. Kept("active") = {}
    BY <1>2 DEF FramesInv
  <2> QED
    BY <1>2, <2>1, <2>2 DEF Kept
<1>7. /\ DOMAIN inFlight' = DOMAIN inFlight
      /\ \A c \in DOMAIN inFlight :
            ~inFlight'[c].alone /\ "alone" \in DOMAIN inFlight'[c]
  <2> SUFFICES ASSUME NEW c \in DOMAIN inFlight
               PROVE  ~inFlight'[c].alone /\ "alone" \in DOMAIN inFlight'[c]
    BY <1>2
  <2> DEFINE x == inFlight[c]
             y == [x EXCEPT !.alone = FALSE]
  <2>1. "alone" \in DOMAIN x
    BY DEF FramesInv, FlyingAlone
  <2>2. inFlight'[c] = y
    BY <1>2
  <2>3. y.alone = FALSE /\ DOMAIN y = DOMAIN x
    BY <2>1
  <2> QED
    BY <2>1, <2>2, <2>3
<1>8. FlyingAlone'
  BY <1>7 DEF FlyingAlone
<1> QED
  BY <1>2, <1>4, <1>5, <1>6, <1>8 DEF FramesInv

LEMMA ShareKeeps ==
    ASSUME FramesInv, ShareActive
    PROVE  FramesInv'
<1> DEFINE r == Head(building.asks)
<1>1. PICK t \in textures :
         /\ t.kind = "active" /\ t.id = r.id
         /\ IF t.signature = r.signature
            THEN Gets(t.native) /\ UNCHANGED <<broken, clash>>
            ELSE GiveUp /\ clash' = (clash \/ building.alone)
  BY DEF ShareActive, Kept
<1>2. /\ textures' = textures /\ inFlight' = inFlight /\ pipelineGone' = pipelineGone /\ Asking
  BY DEF ShareActive, Asked
<1>3. CASE t.signature = r.signature
  <2>1. Gets(t.native) /\ clash' = clash
    BY <1>1, <1>3
  <2>2. t.kind # "free" /\ t \in textures'
    BY <1>1, <1>2
  <2> QED
    BY <1>1, <1>2, <2>1, <2>2, GetsKeeps
<1>4. CASE t.signature # r.signature
  <2>1. GiveUp /\ clash' = (clash \/ building.alone) /\ ~clash
    BY <1>1, <1>4 DEF FramesInv
  <2>2. ~building.alone
    <3> SUFFICES ASSUME building.alone
                 PROVE  FALSE
      OBVIOUS
    <3>1. PICK g \in building.got : g[1] = r.id
      BY <1>1, <1>2 DEF FramesInv, BuildingHolds, Asking, Kept
    <3>2. PICK i \in 1..Len(building.asks) : building.asks[i] = r
      <4>1. /\ building.asks \in Seq(Requests) /\ building.asks # <<>>
            /\ NamesApart(building.asks)
        BY <1>2 DEF FramesInv, BuildingApart, Asking
      <4> QED
        BY <4>1, HeadApart
    <3> HIDE DEF r
    <3>3. \A j \in 1..Len(building.asks), h \in building.got : h[1] # building.asks[j].id
      BY DEF FramesInv, BuildingApart
    <3> QED
      BY <3>1, <3>2, <3>3
  <2> QED
    BY <1>2, <2>1, <2>2, GiveUpKeeps
<1> QED
  BY <1>3, <1>4

LEMMA ReuseKeeps ==
    ASSUME FramesInv, ReuseFree
    PROVE  FramesInv'
<1> DEFINE r == Head(building.asks)
<1>1. PICK t \in textures :
         /\ t.kind = "free"
         /\ textures' = (textures \ {t})
                \union {Texture("active", r, t.native, t.for, t.refused)}
         /\ Gets(t.native)
  BY DEF ReuseFree, pooled, Kept
<1> DEFINE u == Texture("active", r, t.native, t.for, t.refused)
<1>2. u.kind = "active" /\ u.id = r.id /\ u.native = t.native
  BY DEF Texture
<1>3. inFlight' = inFlight /\ pipelineGone' = pipelineGone /\ clash' = clash /\ Asking
  BY DEF ReuseFree, Asked
<1> HIDE DEF u
<1>4. textures' = (textures \ {t}) \union {u}
  BY <1>1 DEF u
<1>5. /\ \A v \in textures : v.kind # "free" /\ v.id # r.id => v \in textures'
      /\ \E v \in textures' : v.kind # "free" /\ v.id = r.id /\ v.native = t.native
      /\ \A v \in textures' : v.kind = "active" => v \in textures \/ v.id = r.id
  BY <1>1, <1>2, <1>4
<1> QED
  BY <1>1, <1>3, <1>5, GetsKeeps

LEMMA CreateKeepsFrames ==
    ASSUME FramesInv, Create
    PROVE  FramesInv'
<1> DEFINE r == Head(building.asks)
           kind == IF r.lifetime = "transient" THEN "active" ELSE "persistent"
           n == made + 1
           u == Fresh(kind, r, n)
<1>1. /\ textures' = textures \union {u} /\ Gets(n) /\ Asking
      /\ inFlight' = inFlight /\ pipelineGone' = pipelineGone /\ clash' = clash
  BY DEF Create
<1>2. u.kind # "free" /\ u.id = r.id /\ u.native = n
  BY DEF Fresh, Texture
<1>3. PICK m : m = n
  OBVIOUS
<1> HIDE DEF u, n
<1>4. /\ \A v \in textures : v.kind # "free" /\ v.id # r.id => v \in textures'
      /\ \E v \in textures' : v.kind # "free" /\ v.id = r.id /\ v.native = m
      /\ \A v \in textures' : v.kind = "active" => v \in textures \/ v.id = r.id
  BY <1>1, <1>2, <1>3
<1>5. Gets(m)
  BY <1>1, <1>3 DEF Gets
<1> QED
  BY <1>1, <1>4, <1>5, GetsKeeps

LEMMA KeepPersistentKeeps ==
    ASSUME FramesInv, KeepPersistent
    PROVE  FramesInv'
<1> DEFINE r == Head(building.asks)
<1>1. PICK t \in textures : t.kind = "persistent" /\ t.id = r.id /\ Gets(t.native)
  BY DEF KeepPersistent, Kept
<1>2. /\ textures' = textures /\ inFlight' = inFlight /\ pipelineGone' = pipelineGone
      /\ clash' = clash /\ Asking
  BY DEF KeepPersistent, Asked
<1>3. t.kind # "free" /\ t \in textures'
  BY <1>1, <1>2
<1> QED
  BY <1>1, <1>2, <1>3, GetsKeeps

LEMMA ReplaceKeepsFrames ==
    ASSUME FramesInv, Replace
    PROVE  FramesInv'
<1> DEFINE r == Head(building.asks)
           n == made + 1
           u == Fresh("persistent", r, n)
<1>1. PICK t \in textures : t.id = r.id /\ textures' = (textures \ {t}) \union {u}
  BY DEF Replace, Replaceable
<1>2. /\ Gets(n) /\ Asking
      /\ inFlight' = inFlight /\ pipelineGone' = pipelineGone /\ clash' = clash
  BY DEF Replace, Asked
<1>3. u.kind # "free" /\ u.id = r.id /\ u.native = n
  BY DEF Fresh, Texture
<1>4. PICK m : m = n
  OBVIOUS
<1> HIDE DEF u, n
<1>5. /\ \A v \in textures : v.kind # "free" /\ v.id # r.id => v \in textures'
      /\ \E v \in textures' : v.kind # "free" /\ v.id = r.id /\ v.native = m
      /\ \A v \in textures' : v.kind = "active" => v \in textures \/ v.id = r.id
  BY <1>1, <1>3, <1>4
<1>6. Gets(m)
  BY <1>2, <1>4 DEF Gets
<1> QED
  BY <1>2, <1>5, <1>6, GetsKeeps

\* The plan is done: what is under way moves on, or is over.
LEMMA PlanReturnsKeeps ==
    ASSUME FramesInv, PlanReturns
    PROVE  FramesInv'
<1>1. /\ building' = Idle /\ inFlight' = inFlight /\ clash' = clash
      /\ pipelineGone' = pipelineGone /\ Kept("active")' = {} /\ Building
  BY EndLeavesNone DEF PlanReturns, Planned
<1>2. /\ Idle = Record(Idle.call, Idle.asks, Idle.got, Idle.alone)
      /\ Idle.asks = <<>> /\ Idle.got = {} /\ ~Building'
  BY <1>1 DEF Idle, Record, Building
<1>3. BuildingApart'
  BY <1>1, <1>2, EmptySeq DEF BuildingApart, NamesApart
<1>4. FlyingAlone' /\ ~pipelineGone'
  BY <1>1 DEF FramesInv, FlyingAlone, BuildingApart
<1> QED
  BY <1>1, <1>2, <1>3, <1>4 DEF FramesInv, BuildingHolds

LEMMA AwaitsKeeps ==
    ASSUME FramesInv, RenderAwaits
    PROVE  FramesInv'
<1> DEFINE call == building.call
<1>1. /\ building' = Idle /\ clash' = clash /\ textures' = textures
      /\ pipelineGone' = pipelineGone /\ Building
      /\ inFlight' = [c \in DOMAIN inFlight \union {call} |->
             IF c = call THEN [got |-> building.got, alone |-> building.alone]
             ELSE inFlight[c]]
  BY DEF RenderAwaits, Planned
<1>2. /\ Idle = Record(Idle.call, Idle.asks, Idle.got, Idle.alone)
      /\ Idle.asks = <<>> /\ Idle.got = {} /\ ~Building'
  BY <1>1 DEF Idle, Record, Building
<1>3. BuildingApart'
  BY <1>1, <1>2, EmptySeq DEF BuildingApart, NamesApart
<1> HIDE DEF call
<1>4. /\ DOMAIN inFlight' = DOMAIN inFlight \union {call}
      /\ inFlight'[call] = [got |-> building.got, alone |-> building.alone]
      /\ \A c \in DOMAIN inFlight : c # call => inFlight'[c] = inFlight[c]
  BY <1>1
<1>5. \A c \in DOMAIN inFlight : ~inFlight[c].alone
  BY <1>1 DEF FramesInv, FlyingAlone
<1>6. building.alone =>
          DOMAIN inFlight = {} /\ \A g \in building.got : Holds(g)
  BY <1>1 DEF FramesInv, BuildingHolds
<1>7. FlyingAlone'
  <2> SUFFICES ASSUME NEW c \in DOMAIN inFlight'
               PROVE  /\ "alone" \in DOMAIN inFlight'[c]
                      /\ inFlight'[c].alone => DOMAIN inFlight' = {c}
                      /\ inFlight'[c].alone => \A g \in inFlight'[c].got : Holds(g)'
    BY <1>2 DEF FlyingAlone
  <2>1. CASE c = call
    <3>1. inFlight'[c].got = building.got /\ inFlight'[c].alone = building.alone
      BY <1>4, <2>1
    <3>2. ASSUME building.alone, NEW g \in building.got
          PROVE  Holds(g)'
      BY <1>1, <1>6, <3>2 DEF Holds
    <3> QED
      BY <1>4, <1>6, <2>1, <3>1, <3>2
  <2>2. CASE c # call
    <3>1. c \in DOMAIN inFlight /\ inFlight'[c] = inFlight[c]
      BY <1>4, <2>2
    <3> QED
      BY <1>5, <3>1 DEF FramesInv, FlyingAlone
  <2> QED
    BY <2>1, <2>2
<1>8. ~Alone'
  <2>1. DOMAIN inFlight' # {}
    BY <1>4
  <2> QED
    BY <2>1 DEF Alone
<1>9. ~pipelineGone'
  BY <1>1 DEF FramesInv, BuildingApart
<1> QED
  BY <1>1, <1>2, <1>3, <1>7, <1>8, <1>9 DEF FramesInv, BuildingHolds

\* A frame that is on its own is the last one to end.
LEMMA EndsKeeps ==
    ASSUME FramesInv, NEW call \in Renders, RenderEnds(call)
    PROVE  FramesInv'
<1>1. /\ ~Building /\ call \in DOMAIN inFlight /\ building' = building
      /\ inFlight' = [c \in DOMAIN inFlight \ {call} |-> inFlight[c]]
      /\ clash' = clash /\ pipelineGone' = pipelineGone
      /\ IF pipelineGone THEN textures' = textures ELSE endFrame
  BY DEF RenderEnds
<1>2. BuildingApart' /\ ~Building'
  BY <1>1 DEF FramesInv, BuildingApart, Building
<1>3. /\ DOMAIN inFlight' = DOMAIN inFlight \ {call}
      /\ \A c \in DOMAIN inFlight' : c \in DOMAIN inFlight /\ inFlight'[c] = inFlight[c]
  BY <1>1
<1>4. \A c \in DOMAIN inFlight' : ~inFlight'[c].alone
  BY <1>1, <1>3 DEF FramesInv, FlyingAlone
<1>5. FlyingAlone'
  BY <1>3, <1>4 DEF FramesInv, FlyingAlone
<1>6. Kept("active")' = {} /\ (pipelineGone => textures' = {})
  BY <1>1, EndLeavesNone DEF FramesInv, Kept
<1> QED
  BY <1>1, <1>2, <1>5, <1>6 DEF FramesInv, BuildingHolds

LEMMA DisposeKeeps ==
    ASSUME FramesInv, DisposePipeline
    PROVE  FramesInv'
<1>1. /\ ~Building /\ textures' = {} /\ pipelineGone' /\ building' = building
      /\ inFlight' = inFlight /\ clash' = clash
  BY DEF DisposePipeline
<1>2. BuildingApart' /\ ~Building' /\ FlyingAlone' /\ Kept("active")' = {}
  BY <1>1 DEF FramesInv, BuildingApart, FlyingAlone, Building, Kept
<1> QED
  BY <1>1, <1>2 DEF FramesInv, BuildingHolds

LEMMA FramesStep ==
    ASSUME FramesInv, [RenderNext]_renderVars
    PROVE  FramesInv'
<1>1. CASE CreateRefused
  BY <1>1, GiveUpKeeps DEF CreateRefused, FramesInv
<1>2. CASE ReplaceRefused
  BY <1>2, GiveUpKeeps DEF ReplaceRefused, Asked, FramesInv
<1>3. CASE UNCHANGED renderVars
  BY <1>3 DEF renderVars, FramesInv, BuildingApart, BuildingHolds, FlyingAlone, Holds,
     Building, Alone, Kept
<1> QED
  BY <1>1, <1>2, <1>3, BuildKeeps, ShareKeeps, ReuseKeeps, CreateKeepsFrames,
     KeepPersistentKeeps, ReplaceKeepsFrames, PlanReturnsKeeps, AwaitsKeeps, EndsKeeps,
     DisposeKeeps DEF RenderNext

\* A frame that no other overlaps holds every texture of its plan until it ends, none is
\* active between frames, and such a frame never asks for two textures of one name.
THEOREM FramesStayHeld == RenderSpec => []FramesHold
<1>1. FramesInv /\ [RenderNext]_renderVars => FramesInv'
  BY FramesStep
<1> QED
  BY <1>1, FramesBegin, FramesInvHolds, PTL DEF RenderSpec

-----------------------------------------------------------------------------
(* The stack of walks                                                      *)

Kinds == {"async", "sync", "announce", "single"}
Walks == [kind : Kinds, of : Notifications \union {NoOne, "async", "sync"}, at : Nat \X Nat,
          calling : Observers \union {NoOne}, due : SUBSET Observers, told : SUBSET Observers]

Deep(ws) == \E i \in 1..Len(ws) : ws[i].kind # "single"

\* The entry i of bucket p is still to come in a walk that is at the given place.
Comes(p, i, at) == p > at[1] \/ (p = at[1] /\ i > at[2])

Fair(w, bs, obs) ==
    w.kind # "single" =>
        /\ w.due \subseteq obs
        /\ \A d \in w.due : \E p \in Priorities : \E i \in 1..Len(bs[p]) :
              bs[p][i] = d /\ Comes(p, i, w.at)
        /\ \A p \in Priorities : \A i \in 1..Len(bs[p]) :
              Comes(p, i, w.at) => bs[p][i] \notin w.told

LEMMA StillIsNotDeep ==
    ASSUME NEW ws \in Seq(Walks)
    PROVE  IsStill(ws) <=> ~Deep(ws)
<1> DEFINE D == {i \in DOMAIN ws : ws[i].kind # "single"}
           n == Len(ws)
<1>1. n \in Nat /\ DOMAIN ws = 1..n
  OBVIOUS
<1> HIDE DEF n
<1>2. D \subseteq 1..n /\ IsFiniteSet(1..n)
  BY <1>1, FS_Interval
<1>3. IsFiniteSet(D)
  BY <1>2, FS_Subset
<1>4. Cardinality(D) = 0 <=> D = {}
  BY <1>3, FS_EmptySet
<1>5. D = {} <=> ~Deep(ws)
  BY <1>1 DEF Deep, n
<1> QED
  BY <1>4, <1>5 DEF IsStill, notificationDepth

LEMMA WalkFields ==
    ASSUME NEW w \in Walks
    PROVE  /\ w.kind \in Kinds /\ w.of \in Notifications \union {NoOne, "async", "sync"}
           /\ w.at \in Nat \X Nat /\ w.calling \in Observers \union {NoOne}
           /\ w.due \subseteq Observers /\ w.told \subseteq Observers
BY DEF Walks

LEMMA FrontOfWalks ==
    ASSUME NEW ws \in Seq(Walks), ws # <<>>
    PROVE  /\ Front(ws) \in Seq(Walks)
           /\ Len(Front(ws)) = Len(ws) - 1
           /\ \A i \in 1..Len(Front(ws)) : i \in 1..Len(ws) /\ i # Len(ws) /\ Front(ws)[i] = ws[i]
<1> DEFINE n == Len(ws)
           f == SubSeq(ws, 1, n - 1)
<1>1. n \in Nat /\ n >= 1 /\ \A i \in 1..n : ws[i] \in Walks
  OBVIOUS
<1> HIDE DEF n
<1>2. 1 \in Int /\ n - 1 \in Int /\ \A i \in 1..(n - 1) : ws[i] \in Walks
  BY <1>1
<1>3. /\ f \in Seq(Walks) /\ Len(f) = IF 1 <= n - 1 THEN n - 1 - 1 + 1 ELSE 0
      /\ \A i \in 1..(n - 1 - 1 + 1) : f[i] = ws[1 + i - 1]
  BY <1>2, SubSeqProperties
<1>4. Front(ws) = f
  BY DEF Front, n
<1> HIDE DEF f
<1>5. Len(f) = n - 1
  BY <1>1, <1>3
<1>6. \A i \in 1..(n - 1) : i \in 1..n /\ i # n /\ i \in 1..(n - 1 - 1 + 1) /\ 1 + i - 1 = i
  BY <1>1
<1>7. \A i \in 1..(n - 1) : f[i] = ws[i]
  BY <1>3, <1>6
<1> QED
  BY <1>3, <1>4, <1>5, <1>6, <1>7 DEF n

LEMMA ReplacedTop ==
    ASSUME NEW ws \in Seq(Walks), ws # <<>>, NEW w \in Walks
    PROVE  /\ [ws EXCEPT ![Len(ws)] = w] \in Seq(Walks)
           /\ Len([ws EXCEPT ![Len(ws)] = w]) = Len(ws)
           /\ \A i \in 1..Len(ws) :
                 [ws EXCEPT ![Len(ws)] = w][i] = IF i = Len(ws) THEN w ELSE ws[i]
<1>1. Len(ws) \in 1..Len(ws)
  OBVIOUS
<1> QED
  BY <1>1, ExceptSeq

LEMMA PushedOn ==
    ASSUME NEW ws \in Seq(Walks), NEW w \in Walks
    PROVE  /\ Append(ws, w) \in Seq(Walks)
           /\ Len(Append(ws, w)) = Len(ws) + 1
           /\ \A i \in 1..(Len(ws) + 1) :
                 /\ i = Len(ws) + 1 => Append(ws, w)[i] = w
                 /\ i # Len(ws) + 1 => i \in 1..Len(ws) /\ Append(ws, w)[i] = ws[i]
BY AppendProperties

\* Observers are removed from what is due in every walk.
Removed(ws, S) == [i \in DOMAIN ws |-> [ws[i] EXCEPT !.due = @ \ S]]

LEMMA RemovedFields ==
    ASSUME NEW w \in Walks, NEW S
    PROVE  LET v == [w EXCEPT !.due = @ \ S]
           IN  /\ v \in Walks /\ v.kind = w.kind /\ v.of = w.of /\ v.at = w.at
               /\ v.calling = w.calling /\ v.due = w.due \ S /\ v.told = w.told
BY DEF Walks

LEMMA RemovedWalks ==
    ASSUME NEW ws \in Seq(Walks), NEW S
    PROVE  /\ Removed(ws, S) \in Seq(Walks)
           /\ Len(Removed(ws, S)) = Len(ws)
           /\ \A i \in 1..Len(ws) :
                 /\ Removed(ws, S)[i].kind = ws[i].kind /\ Removed(ws, S)[i].of = ws[i].of
                 /\ Removed(ws, S)[i].at = ws[i].at /\ Removed(ws, S)[i].told = ws[i].told
                 /\ Removed(ws, S)[i].due = ws[i].due \ S
<1> DEFINE n == Len(ws)
           r(i) == [ws[i] EXCEPT !.due = @ \ S]
           R == [i \in 1..n |-> r(i)]
<1>1. n \in Nat /\ DOMAIN ws = 1..n /\ \A i \in 1..n : ws[i] \in Walks
  OBVIOUS
<1>2. \A i \in 1..n :
         /\ r(i) \in Walks /\ r(i).kind = ws[i].kind /\ r(i).of = ws[i].of
         /\ r(i).at = ws[i].at /\ r(i).told = ws[i].told /\ r(i).due = ws[i].due \ S
  BY <1>1, RemovedFields
<1>3. Removed(ws, S) = R
  BY <1>1 DEF Removed
<1> HIDE DEF n, r
<1>4. R \in Seq(Walks) /\ Len(R) = n /\ \A i \in 1..n : R[i] = r(i)
  BY <1>1, <1>2
<1> HIDE DEF R
<1> QED
  BY <1>2, <1>3, <1>4 DEF n

-----------------------------------------------------------------------------
(* The records of the observers                                            *)

\* Every entry is at the priority of its observer, who has no other.
Sorted(bs, add) ==
    /\ bs \in [Priorities -> Seq(Observers)]
    /\ \A p \in Priorities : HasNoRepeats(bs[p])
    /\ \A p \in Priorities : \A e \in Elements(bs[p]) : Rank(e) = p /\ e \in add

RecordsAgree ==
    /\ observers \subseteq added /\ added \subseteq Observers
    /\ Sorted(buckets, added)
    /\ \A o \in observers : o \in Elements(buckets[Rank(o)])
    /\ timers \in [Observers -> {"off", "sync", "async"}]
    /\ \A o \in Observers : timers[o] # "off" => o \in observers
    /\ compaction \in BOOLEAN

\* Nothing but observers is in the buckets.
Swept == \A p \in Priorities : Elements(buckets[p]) \subseteq observers

\* What is still to be swept is known to the walk under way.
SweptAfter(ws) == Swept \/ (compaction /\ Deep(ws))

LEMMA RankIsPriority == \A o \in Observers : Rank(o) \in Priorities
BY SubjectAssumption DEF Priorities

LEMMA KeptOnce ==
    ASSUME NEW s \in Seq(Observers), HasNoRepeats(s), NEW S
    PROVE  /\ Keep(s, S) \in Seq(Observers) /\ HasNoRepeats(Keep(s, S))
           /\ Elements(Keep(s, S)) = Elements(s) \intersect S
BY KeepSeq, KeepHasNoRepeats

LEMMA AllSwept ==
    ASSUME RecordsAgree, buckets' = [p \in Priorities |-> Keep(buckets[p], observers)],
           observers' = observers, added' = added, timers' = timers, compaction' \in BOOLEAN
    PROVE  RecordsAgree' /\ Swept'
<1>0. Sorted(buckets, added)
  BY DEF RecordsAgree
<1>1. \A p \in Priorities :
         /\ buckets'[p] \in Seq(Observers) /\ HasNoRepeats(buckets'[p])
         /\ Elements(buckets'[p]) = Elements(buckets[p]) \intersect observers
  <2> SUFFICES ASSUME NEW p \in Priorities
               PROVE  /\ buckets'[p] \in Seq(Observers) /\ HasNoRepeats(buckets'[p])
                      /\ Elements(buckets'[p]) = Elements(buckets[p]) \intersect observers
    OBVIOUS
  <2> DEFINE s == buckets[p]
  <2>1. buckets'[p] = Keep(s, observers) /\ s \in Seq(Observers) /\ HasNoRepeats(s)
    BY <1>0 DEF Sorted
  <2> HIDE DEF s
  <2>2. /\ Keep(s, observers) \in Seq(Observers) /\ HasNoRepeats(Keep(s, observers))
        /\ Elements(Keep(s, observers)) = Elements(s) \intersect observers
    BY <2>1, KeptOnce
  <2> QED
    BY <2>1, <2>2 DEF s
<1>2. buckets' \in [Priorities -> Seq(Observers)]
  BY <1>1
<1>3. Sorted(buckets', added')
  BY <1>1, <1>2 DEF RecordsAgree, Sorted
<1>4. \A o \in observers : o \in Elements(buckets'[Rank(o)])
  BY <1>1, RankIsPriority DEF RecordsAgree
<1> QED
  BY <1>1, <1>3, <1>4 DEF RecordsAgree, Swept

\* An observer leaves, while the walks of ws are under way.
LEMMA LeavesRecords ==
    ASSUME RecordsAgree, NEW ws \in Seq(Walks), SweptAfter(ws), NEW o \in Observers,
           deactivate(o, ws)
    PROVE  /\ RecordsAgree' /\ (Swept' \/ (compaction' /\ Deep(ws)))
           /\ observers' = observers \ {o} /\ added' = added
           /\ Deep(ws) => buckets' = buckets
           /\ walks' = Removed(ws, {o})
<1>1. /\ observers' = observers \ {o} /\ added' = added
      /\ timers' = [timers EXCEPT ![o] = "off"] /\ walks' = Removed(ws, {o})
  BY DEF deactivate, Removed
<1>2. /\ timers' \in [Observers -> {"off", "sync", "async"}]
      /\ \A q \in Observers : timers'[q] # "off" => q \in observers'
  BY <1>1 DEF RecordsAgree
<1>3. CASE o \in observers /\ ~Deep(ws)
  <2>1. /\ buckets' = [buckets EXCEPT ![Rank(o)] = Keep(buckets[Rank(o)], Observers \ {o})]
        /\ compaction' = compaction /\ Swept
    BY <1>3, StillIsNotDeep DEF deactivate, SweptAfter
  <2>2. Rank(o) \in Priorities /\ buckets \in [Priorities -> Seq(Observers)]
    BY RankIsPriority DEF RecordsAgree, Sorted
  <2> DEFINE S == Observers \ {o}
             b == Keep(buckets[Rank(o)], S)
  <2>3. /\ b \in Seq(Observers) /\ HasNoRepeats(b)
        /\ Elements(b) = Elements(buckets[Rank(o)]) \intersect S
    <3> DEFINE s == buckets[Rank(o)]
    <3>1. s \in Seq(Observers) /\ HasNoRepeats(s)
      BY <2>2 DEF RecordsAgree, Sorted
    <3> HIDE DEF s, S
    <3>2. /\ Keep(s, S) \in Seq(Observers) /\ HasNoRepeats(Keep(s, S))
          /\ Elements(Keep(s, S)) = Elements(s) \intersect S
      BY <3>1, KeptOnce
    <3> QED
      BY <3>2 DEF s
  <2>4. S = Observers \ {o}
    OBVIOUS
  <2>5. \A p \in Priorities : buckets'[p] = IF p = Rank(o) THEN b ELSE buckets[p]
    BY <2>1, <2>2
  <2> HIDE DEF b, S
  <2>6. buckets' \in [Priorities -> Seq(Observers)]
    BY <2>1, <2>2, <2>3, <2>4 DEF b, S
  <2>7. Sorted(buckets', added')
    BY <1>1, <2>3, <2>5, <2>6 DEF RecordsAgree, Sorted
  <2>8. ASSUME NEW q \in observers \ {o}
        PROVE  q \in Elements(buckets'[Rank(q)])
    <3>1. q \in Observers /\ Rank(q) \in Priorities /\ q \in Elements(buckets[Rank(q)])
      BY RankIsPriority DEF RecordsAgree
    <3> QED
      BY <2>3, <2>4, <2>5, <3>1
  <2>9. ASSUME NEW p \in Priorities, NEW e \in Elements(buckets'[p])
        PROVE  e \in observers \ {o}
    <3>1. CASE p = Rank(o)
      BY <2>1, <2>3, <2>4, <2>5, <3>1 DEF Swept
    <3>2. CASE p # Rank(o)
      <4>1. e \in Elements(buckets[p]) /\ Rank(e) = p
        BY <2>5, <3>2 DEF RecordsAgree, Sorted
      <4> QED
        BY <2>1, <3>2, <4>1 DEF Swept
    <3> QED
      BY <3>1, <3>2
  <2> QED
    BY <1>1, <1>2, <1>3, <2>1, <2>7, <2>8, <2>9 DEF RecordsAgree, Swept
<1>4. CASE ~(o \in observers /\ ~Deep(ws))
  <2>1. buckets' = buckets /\ compaction' = (compaction \/ o \in observers)
    BY <1>4, StillIsNotDeep DEF deactivate
  <2>2. RecordsAgree'
    BY <1>1, <1>2, <2>1 DEF RecordsAgree
  <2>3. Swept' \/ (compaction' /\ Deep(ws))
    <3>1. CASE o \in observers
      BY <1>4, <2>1, <3>1
    <3>2. CASE o \notin observers
      BY <1>1, <2>1, <3>2 DEF Swept, SweptAfter
    <3> QED
      BY <3>1, <3>2
  <2> QED
    BY <1>1, <2>1, <2>2, <2>3
<1> QED
  BY <1>3, <1>4

LEMMA AddRecords ==
    ASSUME RecordsAgree, NEW o \in Observers \ added,
           observers' = observers \union {o}, added' = added \union {o},
           buckets' = [buckets EXCEPT ![Rank(o)] = Append(@, o)],
           compaction' = compaction, timers' = timers
    PROVE  RecordsAgree' /\ (Swept => Swept')
<1> DEFINE s == buckets[Rank(o)]
           t == Append(s, o)
<1>1. /\ Rank(o) \in Priorities /\ s \in Seq(Observers) /\ HasNoRepeats(s)
      /\ buckets \in [Priorities -> Seq(Observers)] /\ o \notin Elements(s)
  BY RankIsPriority DEF RecordsAgree, Sorted
<1>2. buckets' = [buckets EXCEPT ![Rank(o)] = t]
  OBVIOUS
<1> HIDE DEF s
<1>3. t \in Seq(Observers) /\ HasNoRepeats(t) /\ Elements(t) = Elements(s) \union {o}
  BY <1>1, AppendElements
<1> HIDE DEF t
<1>4. /\ buckets' \in [Priorities -> Seq(Observers)]
      /\ \A p \in Priorities : buckets'[p] = IF p = Rank(o) THEN t ELSE buckets[p]
  BY <1>1, <1>2, <1>3
<1>5. \A p \in Priorities : /\ HasNoRepeats(buckets'[p])
                            /\ p = Rank(o) =>
                                   Elements(buckets'[p]) = Elements(buckets[p]) \union {o}
                            /\ p # Rank(o) => Elements(buckets'[p]) = Elements(buckets[p])
  BY <1>3, <1>4 DEF RecordsAgree, Sorted, s
<1>6. Sorted(buckets', added')
  BY <1>4, <1>5 DEF RecordsAgree, Sorted
<1>7. ASSUME NEW q \in observers \union {o}
      PROVE  q \in Elements(buckets'[Rank(q)])
  <2>1. CASE q = o
    BY <1>1, <1>5, <2>1
  <2>2. CASE q \in observers
    <3>1. q \in Observers /\ q \in Elements(buckets[Rank(q)])
      BY <2>2 DEF RecordsAgree
    <3>2. Rank(q) \in Priorities
      BY <3>1, RankIsPriority
    <3> QED
      BY <1>5, <3>1, <3>2
  <2> QED
    BY <2>1, <2>2
<1>8. Swept => Swept'
  <2> SUFFICES ASSUME Swept, NEW p \in Priorities
               PROVE  Elements(buckets'[p]) \subseteq observers \union {o}
    BY DEF Swept
  <2> QED
    BY <1>5 DEF Swept
<1>9. RecordsAgree'
  <2>1. observers' \subseteq added' /\ added' \subseteq Observers
    BY DEF RecordsAgree
  <2>2. /\ timers' \in [Observers -> {"off", "sync", "async"}]
        /\ \A q \in Observers : timers'[q] # "off" => q \in observers'
        /\ compaction' \in BOOLEAN
    BY DEF RecordsAgree
  <2>3. \A q \in observers' : q \in Elements(buckets'[Rank(q)])
    BY <1>7
  <2> QED
    BY <1>6, <2>1, <2>2, <2>3 DEF RecordsAgree
<1> QED
  BY <1>8, <1>9

-----------------------------------------------------------------------------
(* The walks, and who is ahead of them                                     *)

WalkAgrees(w, bs, obs, add) == w \in Walks /\ w.told \subseteq add /\ Fair(w, bs, obs)

StackAgrees(ws, bs, obs, add) ==
    ws \in Seq(Walks) /\ \A i \in 1..Len(ws) : WalkAgrees(ws[i], bs, obs, add)

\* The walks of vs are those of ws, but for the last ones.
SameWalks(vs, ws) ==
    /\ Len(vs) <= Len(ws)
    /\ \A i \in 1..Len(vs) : vs[i].kind = ws[i].kind /\ vs[i].of = ws[i].of

LEMMA FrontAgrees ==
    ASSUME NEW ws, NEW bs, NEW obs, NEW add, StackAgrees(ws, bs, obs, add), ws # <<>>
    PROVE  StackAgrees(Front(ws), bs, obs, add) /\ SameWalks(Front(ws), ws)
<1>1. /\ Front(ws) \in Seq(Walks) /\ Len(Front(ws)) = Len(ws) - 1 /\ Len(ws) \in Nat
      /\ \A i \in 1..Len(Front(ws)) : i \in 1..Len(ws) /\ i # Len(ws) /\ Front(ws)[i] = ws[i]
  BY FrontOfWalks DEF StackAgrees
<1> QED
  BY <1>1 DEF StackAgrees, SameWalks

LEMMA TopAgrees ==
    ASSUME NEW ws, NEW bs, NEW obs, NEW add, StackAgrees(ws, bs, obs, add), ws # <<>>
    PROVE  /\ Len(ws) \in 1..Len(ws) /\ Len(ws) \in Nat
           /\ ws[Len(ws)] \in Walks /\ WalkAgrees(ws[Len(ws)], bs, obs, add)
<1>1. ws \in Seq(Walks) /\ \A i \in 1..Len(ws) : WalkAgrees(ws[i], bs, obs, add)
  BY DEF StackAgrees
<1>2. Len(ws) \in 1..Len(ws) /\ Len(ws) \in Nat /\ ws[Len(ws)] \in Walks
  BY <1>1
<1> QED
  BY <1>1, <1>2

LEMMA ChangedAgrees ==
    ASSUME NEW ws, NEW bs, NEW obs, NEW add, StackAgrees(ws, bs, obs, add), ws # <<>>,
           NEW w, WalkAgrees(w, bs, obs, add),
           w.kind = ws[Len(ws)].kind, w.of = ws[Len(ws)].of
    PROVE  /\ StackAgrees([ws EXCEPT ![Len(ws)] = w], bs, obs, add)
           /\ SameWalks([ws EXCEPT ![Len(ws)] = w], ws)
           /\ Len([ws EXCEPT ![Len(ws)] = w]) = Len(ws)
           /\ Deep(ws) => Deep([ws EXCEPT ![Len(ws)] = w])
<1> DEFINE vs == [ws EXCEPT ![Len(ws)] = w]
<1>1. ws \in Seq(Walks) /\ w \in Walks
  BY DEF StackAgrees, WalkAgrees
<1>2. /\ vs \in Seq(Walks) /\ Len(vs) = Len(ws) /\ Len(ws) \in Nat
      /\ \A i \in 1..Len(ws) : vs[i] = IF i = Len(ws) THEN w ELSE ws[i]
  BY <1>1, ReplacedTop
<1> HIDE DEF vs
<1>3. StackAgrees(vs, bs, obs, add)
  BY <1>2 DEF StackAgrees
<1>4. SameWalks(vs, ws) /\ (Deep(ws) => Deep(vs))
  BY <1>2 DEF SameWalks, Deep
<1> QED
  BY <1>2, <1>3, <1>4 DEF vs

LEMMA PushedAgrees ==
    ASSUME NEW ws, NEW bs, NEW obs, NEW add, StackAgrees(ws, bs, obs, add),
           NEW w, WalkAgrees(w, bs, obs, add)
    PROVE  /\ StackAgrees(Append(ws, w), bs, obs, add)
           /\ Deep(ws) => Deep(Append(ws, w))
<1>1. ws \in Seq(Walks) /\ w \in Walks /\ Len(ws) \in Nat
  BY DEF StackAgrees, WalkAgrees
<1>2. /\ Append(ws, w) \in Seq(Walks) /\ Len(Append(ws, w)) = Len(ws) + 1
      /\ \A i \in 1..(Len(ws) + 1) :
                 /\ i = Len(ws) + 1 => Append(ws, w)[i] = w
                 /\ i # Len(ws) + 1 => i \in 1..Len(ws) /\ Append(ws, w)[i] = ws[i]
  BY <1>1, PushedOn
<1>3. \A i \in 1..Len(ws) : i \in 1..(Len(ws) + 1) /\ i # Len(ws) + 1
  BY <1>1
<1> QED
  BY <1>2, <1>3 DEF StackAgrees, Deep

\* Walks between which no observer comes or goes, or that find nothing to compare.
LEMMA RemovedAgrees ==
    ASSUME NEW ws, NEW bs, NEW obs, NEW add, StackAgrees(ws, bs, obs, add),
           NEW S, NEW bs2, Deep(ws) => bs2 = bs
    PROVE  /\ StackAgrees(Removed(ws, S), bs2, obs \ S, add)
           /\ SameWalks(Removed(ws, S), ws)
           /\ Len(Removed(ws, S)) = Len(ws)
           /\ Deep(ws) => Deep(Removed(ws, S))
<1> DEFINE vs == Removed(ws, S)
<1>1. ws \in Seq(Walks) /\ \A i \in 1..Len(ws) : WalkAgrees(ws[i], bs, obs, add)
  BY DEF StackAgrees
<1>2. /\ vs \in Seq(Walks) /\ Len(vs) = Len(ws) /\ Len(ws) \in Nat
      /\ \A i \in 1..Len(ws) :
                 /\ vs[i].kind = ws[i].kind /\ vs[i].of = ws[i].of
                 /\ vs[i].at = ws[i].at /\ vs[i].told = ws[i].told
                 /\ vs[i].due = ws[i].due \ S
  BY <1>1, RemovedWalks
<1> HIDE DEF vs
<1>3. ASSUME NEW i \in 1..Len(ws)
      PROVE  WalkAgrees(vs[i], bs2, obs \ S, add)
  <2>1. vs[i] \in Walks /\ WalkAgrees(ws[i], bs, obs, add)
    BY <1>1, <1>2
  <2>2. CASE ws[i].kind = "single"
    BY <1>2, <2>1, <2>2 DEF WalkAgrees, Fair
  <2>3. CASE ws[i].kind # "single"
    <3>1. bs2 = bs
      BY <2>3 DEF Deep
    <3> QED
      BY <1>2, <2>1, <3>1 DEF WalkAgrees, Fair
  <2> QED
    BY <2>2, <2>3
<1>4. SameWalks(vs, ws) /\ (Deep(ws) => Deep(vs))
  BY <1>2 DEF SameWalks, Deep
<1> QED
  BY <1>2, <1>3, <1>4 DEF StackAgrees, vs

\* Timers do not walk: they agree with whatever is in the buckets.
LEMMA SinglesAgree ==
    ASSUME NEW ws, NEW bs, NEW obs, NEW add, StackAgrees(ws, bs, obs, add), ~Deep(ws), NEW bs2
    PROVE  StackAgrees(ws, bs2, obs, add)
BY DEF StackAgrees, WalkAgrees, Fair, Deep

\* A new observer comes after those that are there.
LEMMA AddedAgrees ==
    ASSUME RecordsAgree, NEW ws, StackAgrees(ws, buckets, observers, added),
           NEW o \in Observers \ added,
           observers' = observers \union {o}, added' = added \union {o},
           buckets' = [buckets EXCEPT ![Rank(o)] = Append(@, o)]
    PROVE  StackAgrees(ws, buckets', observers', added')
<1> DEFINE s == buckets[Rank(o)]
<1>1. /\ Rank(o) \in Priorities /\ s \in Seq(Observers)
      /\ buckets \in [Priorities -> Seq(Observers)]
  BY RankIsPriority DEF RecordsAgree, Sorted
<1>2. \A p \in Priorities : buckets'[p] = IF p = Rank(o) THEN Append(s, o) ELSE buckets[p]
  BY <1>1
<1> HIDE DEF s
<1>3. /\ Len(Append(s, o)) = Len(s) + 1 /\ Len(s) \in Nat
      /\ \A i \in 1..Len(s) : Append(s, o)[i] = s[i]
      /\ Append(s, o)[Len(s) + 1] = o
  BY <1>1
<1>4. \A p \in Priorities : \A i \in 1..Len(buckets[p]) :
         i \in 1..Len(buckets'[p]) /\ buckets'[p][i] = buckets[p][i]
  BY <1>2, <1>3 DEF s
<1>5. \A p \in Priorities : \A i \in 1..Len(buckets'[p]) :
         \/ i \in 1..Len(buckets[p]) /\ buckets'[p][i] = buckets[p][i]
         \/ buckets'[p][i] = o
  BY <1>2, <1>3 DEF s
<1>6. ASSUME NEW w, WalkAgrees(w, buckets, observers, added)
      PROVE  WalkAgrees(w, buckets', observers', added')
  <2>1. o \notin w.told
    BY <1>6 DEF WalkAgrees
  <2>2. CASE w.kind # "single"
    <3>1. \A d \in w.due : \E p \in Priorities : \E i \in 1..Len(buckets'[p]) :
              buckets'[p][i] = d /\ Comes(p, i, w.at)
      BY <1>4, <1>6, <2>2 DEF WalkAgrees, Fair
    <3>2. \A p \in Priorities : \A i \in 1..Len(buckets'[p]) :
              Comes(p, i, w.at) => buckets'[p][i] \notin w.told
      BY <1>5, <1>6, <2>1, <2>2 DEF WalkAgrees, Fair
    <3> QED
      BY <1>6, <2>2, <3>1, <3>2 DEF WalkAgrees, Fair
  <2> QED
    BY <1>6, <2>2 DEF WalkAgrees, Fair
<1> QED
  BY <1>6 DEF StackAgrees

WalksAgree ==
    /\ RecordsAgree /\ SweptAfter(walks)
    /\ StackAgrees(walks, buckets, observers, added)

-----------------------------------------------------------------------------
(* The next entry of a walk                                                *)

LEMMA LeastMember ==
    ASSUME NEW P \in SUBSET Nat, IsFiniteSet(P), P # {}
    PROVE  \E i \in P : \A j \in P : i <= j
<1>1. Cardinality(P) \in Nat /\ Cardinality(P) # 0
  BY FS_CardinalityType, FS_EmptySet
<1>2. 1 \in 1..Cardinality(P)
  BY <1>1
<1> DEFINE i == Nth(P, 1)
<1>3. i \in P /\ UpTo(P, i) = 1
  BY <1>2, NthIsPlace
<1> HIDE DEF i
<1>4. ASSUME NEW j \in P, j < i
      PROVE  FALSE
  <2>1. UpTo(P, j) < UpTo(P, i) /\ UpTo(P, j) \in 1..Cardinality(P)
    BY <1>3, <1>4, RankGrows
  <2> QED
    BY <1>1, <1>3, <2>1
<1> QED
  BY <1>3, <1>4

LEMMA EntryIsPair ==
    ASSUME Sorted(buckets, added)
    PROVE  \A x : x \in Entries <=>
              /\ x = <<x[1], x[2]>> /\ x[1] \in Priorities /\ x[2] \in 1..Len(buckets[x[1]])
<1>1. \A p \in Priorities : DOMAIN buckets[p] = 1..Len(buckets[p])
  BY DEF Sorted
<1> QED
  BY <1>1 DEF Entries

LEMMA FirstAhead ==
    ASSUME Sorted(buckets, added), NEW E \in SUBSET Entries, E # {}
    PROVE  \E x \in E : \A y \in E : ~Later(x, y)
<1> DEFINE P(p) == {i \in 1..Len(buckets[p]) : <<p, i>> \in E}
<1>1. \A x \in E : x = <<x[1], x[2]>> /\ x[1] \in Priorities /\ x[2] \in P(x[1])
  BY EntryIsPair
<1>2. ASSUME NEW p \in Priorities, P(p) # {}
      PROVE  \E i \in P(p) : \A j \in P(p) : i <= j
  <2> DEFINE n == Len(buckets[p])
  <2>1. n \in Nat
    BY DEF Sorted
  <2> DEFINE Q == P(p)
  <2>2. Q \subseteq 1..n /\ Q # {}
    BY <1>2
  <2> HIDE DEF n, Q
  <2>3. Q \in SUBSET Nat
    BY <2>1, <2>2
  <2>4. IsFiniteSet(1..n)
    BY <2>1, FS_Interval
  <2>5. IsFiniteSet(Q)
    BY <2>2, <2>4, FS_Subset
  <2>6. \E i \in Q : \A j \in Q : i <= j
    BY <2>2, <2>3, <2>5, LeastMember
  <2> QED
    BY <2>6 DEF Q
<1>3. PICK p \in Priorities : P(p) # {} /\ \A q \in Priorities : P(q) # {} => p <= q
  <2>1. \E p \in Priorities : P(p) # {}
    BY <1>1
  <2> HIDE DEF P
  <2>2. Priorities = {0, 1, 2}
    BY DEF Priorities
  <2>3. CASE P(0) # {}
    BY <2>2, <2>3
  <2>4. CASE P(0) = {} /\ P(1) # {}
    BY <2>2, <2>4
  <2>5. CASE P(0) = {} /\ P(1) = {} /\ P(2) # {}
    BY <2>2, <2>5
  <2> QED
    BY <2>1, <2>2, <2>3, <2>4, <2>5
<1>4. PICK i \in P(p) : \A j \in P(p) : i <= j
  BY <1>2, <1>3
<1> DEFINE x == <<p, i>>
<1>5. x \in E /\ x[1] = p /\ x[2] = i /\ p \in Nat /\ i \in Nat
  BY DEF Priorities, Sorted
<1> HIDE DEF x
<1>6. ASSUME NEW y \in E
      PROVE  ~Later(x, y)
  <2>1. y[1] \in Priorities /\ y[2] \in P(y[1]) /\ y[1] \in Nat
    BY <1>1 DEF Priorities
  <2>2. p <= y[1]
    BY <1>3, <2>1
  <2>3. y[1] = p => i <= y[2] /\ y[2] \in Nat
    BY <1>4, <2>1
  <2> QED
    BY <1>5, <2>1, <2>2, <2>3 DEF Later
<1> QED
  BY <1>5, <1>6

\* Who agrees with a walk is as the model says it.
LEMMA AgreedIsFair ==
    ASSUME Sorted(buckets, added), NEW w, WalkAgrees(w, buckets, observers, added),
           w.kind # "single"
    PROVE  /\ w.due \subseteq {entry(x) : x \in ActiveAhead(w)}
           /\ \A x \in Ahead(w) : entry(x) \notin w.told
<1>1. w.at \in Nat \X Nat
  BY DEF WalkAgrees, Walks
<1>2. \A x : x \in Ahead(w) <=>
          /\ x = <<x[1], x[2]>> /\ x[1] \in Priorities /\ x[2] \in 1..Len(buckets[x[1]])
          /\ Comes(x[1], x[2], w.at)
  BY EntryIsPair DEF Ahead, Later, Comes
<1>3. \A x \in Ahead(w) : entry(x) \notin w.told
  BY <1>2 DEF WalkAgrees, Fair, entry
<1>4. ASSUME NEW d \in w.due
      PROVE  \E x \in ActiveAhead(w) : d = entry(x)
  <2>1. PICK p \in Priorities : \E i \in 1..Len(buckets[p]) :
              buckets[p][i] = d /\ Comes(p, i, w.at)
    BY DEF WalkAgrees, Fair
  <2>2. PICK i \in 1..Len(buckets[p]) : buckets[p][i] = d /\ Comes(p, i, w.at)
    BY <2>1
  <2> DEFINE x == <<p, i>>
  <2>3. x[1] = p /\ x[2] = i /\ x = <<x[1], x[2]>>
    OBVIOUS
  <2> HIDE DEF x
  <2>4. x \in Ahead(w) /\ entry(x) = d
    BY <1>2, <2>2, <2>3 DEF entry
  <2>5. d \in observers
    BY DEF WalkAgrees, Fair
  <2> QED
    BY <2>4, <2>5 DEF ActiveAhead
<1> QED
  BY <1>3, <1>4

LEMMA NewWalkAgrees ==
    ASSUME RecordsAgree, NEW kind \in Kinds,
           NEW n \in Notifications \union {NoOne, "async", "sync"}
    PROVE  /\ WalkAgrees(Walk(kind, n), buckets, observers, added)
           /\ Walk(kind, n).kind = kind /\ Walk(kind, n).of = n
<1> DEFINE w == Walk(kind, n)
<1>1. /\ w.kind = kind /\ w.of = n /\ w.at = <<0, 0>> /\ w.calling = NoOne
      /\ w.due \subseteq observers /\ w.told = {} /\ w \in Walks
  <2>1. observers \subseteq Observers
    BY DEF RecordsAgree
  <2> QED
    BY <2>1 DEF Walk, Walks
<1> HIDE DEF w
<1>2. \A p \in Priorities : \A i \in 1..Len(buckets[p]) : Comes(p, i, w.at)
  <2> SUFFICES ASSUME NEW p \in Priorities, NEW i \in 1..Len(buckets[p])
               PROVE  Comes(p, i, w.at)
    OBVIOUS
  <2>1. p \in Nat /\ Len(buckets[p]) \in Nat /\ i > 0
    BY DEF RecordsAgree, Sorted, Priorities
  <2> QED
    BY <1>1, <2>1 DEF Comes
<1>3. ASSUME NEW d \in observers
      PROVE  \E p \in Priorities : \E i \in 1..Len(buckets[p]) : buckets[p][i] = d
  <2>1. d \in Elements(buckets[Rank(d)]) /\ Rank(d) \in Priorities
    BY RankIsPriority DEF RecordsAgree
  <2> QED
    BY <2>1 DEF Elements
<1>4. Fair(w, buckets, observers)
  BY <1>1, <1>2, <1>3 DEF Fair
<1> QED
  BY <1>1, <1>4 DEF WalkAgrees, w

\* What a walk is about to call says nothing of who is ahead of it.
LEMMA CallingAgrees ==
    ASSUME NEW w, NEW bs, NEW obs, NEW add, WalkAgrees(w, bs, obs, add),
           NEW o \in Observers \union {NoOne}
    PROVE  /\ WalkAgrees([w EXCEPT !.calling = o], bs, obs, add)
           /\ [w EXCEPT !.calling = o].kind = w.kind /\ [w EXCEPT !.calling = o].of = w.of
<1> DEFINE v == [w EXCEPT !.calling = o]
<1>1. /\ v \in Walks /\ v.kind = w.kind /\ v.of = w.of /\ v.at = w.at
      /\ v.due = w.due /\ v.told = w.told
  BY DEF WalkAgrees, Walks
<1> HIDE DEF v
<1>2. WalkAgrees(v, bs, obs, add)
  BY <1>1 DEF WalkAgrees, Fair
<1> QED
  BY <1>1, <1>2 DEF v

LEMMA SameIsSame ==
    ASSUME NEW ws \in Seq(Walks)
    PROVE  SameWalks(ws, ws) /\ Len(ws) \in Nat
BY DEF SameWalks

\* The stack after a callback.
LEMMA AfterCallAgrees ==
    ASSUME WalksAgree, Calling
    PROVE  /\ StackAgrees(afterCall, buckets, observers, added) /\ SweptAfter(afterCall)
           /\ SameWalks(afterCall, walks) /\ top.calling \in Observers
           /\ top \in Walks
<1>1. walks # <<>> /\ StackAgrees(walks, buckets, observers, added) /\ SweptAfter(walks)
  BY DEF WalksAgree, Calling, Between
<1>2. /\ Len(walks) \in 1..Len(walks) /\ Len(walks) \in Nat
      /\ top \in Walks /\ WalkAgrees(top, buckets, observers, added)
  BY <1>1, TopAgrees DEF top
<1>3. top.calling \in Observers
  BY <1>2 DEF Calling, Walks
<1>4. CASE top.kind = "single"
  <2>1. afterCall = Front(walks)
    BY <1>4 DEF afterCall
  <2>2. StackAgrees(Front(walks), buckets, observers, added) /\ SameWalks(Front(walks), walks)
    BY <1>1, FrontAgrees
  <2>3. Deep(walks) => Deep(Front(walks))
    <3> SUFFICES ASSUME NEW i \in 1..Len(walks), walks[i].kind # "single"
                 PROVE  Deep(Front(walks))
      BY DEF Deep
    <3>1. i # Len(walks)
      BY <1>4 DEF top
    <3>2. walks \in Seq(Walks)
      BY <1>1 DEF StackAgrees
    <3>3. /\ Len(Front(walks)) = Len(walks) - 1
          /\ \A j \in 1..Len(Front(walks)) : Front(walks)[j] = walks[j]
      BY <1>1, <3>2, FrontOfWalks
    <3>4. i \in 1..Len(Front(walks))
      BY <1>2, <3>1, <3>3
    <3> QED
      BY <3>3, <3>4 DEF Deep
  <2> QED
    BY <1>1, <1>2, <1>3, <2>1, <2>2, <2>3 DEF SweptAfter
<1>5. CASE top.kind # "single"
  <2> DEFINE w == [top EXCEPT !.calling = NoOne]
  <2>1. WalkAgrees(w, buckets, observers, added) /\ w.kind = top.kind /\ w.of = top.of
    BY <1>2, CallingAgrees
  <2>2. afterCall = [walks EXCEPT ![Len(walks)] = w]
    BY <1>5 DEF afterCall, returned, changed
  <2> HIDE DEF w
  <2>3. /\ StackAgrees([walks EXCEPT ![Len(walks)] = w], buckets, observers, added)
        /\ SameWalks([walks EXCEPT ![Len(walks)] = w], walks)
        /\ Deep(walks) => Deep([walks EXCEPT ![Len(walks)] = w])
    BY <1>1, <2>1, ChangedAgrees DEF top
  <2> QED
    BY <1>1, <1>2, <1>3, <2>2, <2>3 DEF SweptAfter
<1> QED
  BY <1>4, <1>5

LEMMA SameWalksCompose ==
    ASSUME NEW us, NEW vs, NEW ws, SameWalks(us, vs), SameWalks(vs, ws),
           us \in Seq(Walks), vs \in Seq(Walks), ws \in Seq(Walks)
    PROVE  SameWalks(us, ws)
<1>1. Len(us) \in Nat /\ Len(vs) \in Nat /\ Len(ws) \in Nat
  OBVIOUS
<1> QED
  BY <1>1 DEF SameWalks

LEMMA StackIsSeq ==
    ASSUME NEW ws, NEW bs, NEW obs, NEW add, StackAgrees(ws, bs, obs, add)
    PROVE  ws \in Seq(Walks)
BY DEF StackAgrees

\* An observer that leaves is no longer due, and the buckets change under no walk.
LEMMA LeaveAgrees ==
    ASSUME RecordsAgree, NEW ws, StackAgrees(ws, buckets, observers, added), SweptAfter(ws),
           NEW o \in Observers, deactivate(o, ws)
    PROVE  WalksAgree' /\ SameWalks(walks', ws)
<1>0. ws \in Seq(Walks)
  BY StackIsSeq
<1>1. /\ RecordsAgree' /\ (Swept' \/ (compaction' /\ Deep(ws)))
      /\ observers' = observers \ {o} /\ added' = added
      /\ Deep(ws) => buckets' = buckets
      /\ walks' = Removed(ws, {o})
  BY <1>0, LeavesRecords
<1>2. /\ StackAgrees(Removed(ws, {o}), buckets', observers \ {o}, added)
      /\ SameWalks(Removed(ws, {o}), ws) /\ (Deep(ws) => Deep(Removed(ws, {o})))
  <2> DEFINE bs == buckets
             bs2 == buckets'
             obs == observers
             add == added
             S == {o}
  <2>1. StackAgrees(ws, bs, obs, add) /\ (Deep(ws) => bs2 = bs)
    BY <1>1
  <2> HIDE DEF bs, bs2, obs, add, S
  <2>2. /\ StackAgrees(Removed(ws, S), bs2, obs \ S, add)
        /\ SameWalks(Removed(ws, S), ws) /\ (Deep(ws) => Deep(Removed(ws, S)))
    BY <2>1, RemovedAgrees
  <2> QED
    BY <2>2 DEF bs2, obs, add, S
<1> QED
  BY <1>1, <1>2 DEF WalksAgree, SweptAfter

LEMMA FinalizeAgrees ==
    ASSUME RecordsAgree, NEW ws, StackAgrees(ws, buckets, observers, added), SweptAfter(ws),
           NEW o \in Observers, finalize(o, ws)
    PROVE  WalksAgree' /\ SameWalks(walks', ws)
<1>1. CASE o \in Once
  BY <1>1, LeaveAgrees DEF finalize
<1>2. CASE o \notin Once
  <2>1. /\ walks' = ws /\ observers' = observers /\ added' = added /\ buckets' = buckets
        /\ compaction' = compaction /\ timers' = timers
    BY <1>2 DEF finalize, recordVars
  <2>2. RecordsAgree' /\ SweptAfter(walks)'
    BY <2>1 DEF RecordsAgree, SweptAfter, Swept
  <2>3. ws \in Seq(Walks)
    BY StackIsSeq
  <2> QED
    BY <2>1, <2>2, <2>3, SameIsSame DEF WalksAgree
<1> QED
  BY <1>1, <1>2

\* The records are left alone, and the stack is another one.
LEMMA StackTurns ==
    ASSUME RecordsAgree, StackAgrees(walks', buckets, observers, added),
           Swept \/ (compaction /\ Deep(walks')), UNCHANGED recordVars
    PROVE  WalksAgree'
<1>1. /\ observers' = observers /\ added' = added /\ buckets' = buckets
      /\ compaction' = compaction /\ timers' = timers
  BY DEF recordVars
<1>2. RecordsAgree'
  BY <1>1 DEF RecordsAgree
<1>3. SweptAfter(walks)'
  BY <1>1 DEF SweptAfter, Swept
<1> QED
  BY <1>1, <1>2, <1>3 DEF WalksAgree

LEMMA VisitAgrees ==
    ASSUME WalksAgree, VisitNext
    PROVE  WalksAgree' /\ SameWalks(walks', walks)
<1> DEFINE E == ActiveAhead(top)
           x == CHOOSE x \in E : \A y \in E : ~Later(x, y)
           o == entry(x)
           w == [top EXCEPT !.at = x, !.due = @ \ {o}, !.told = @ \union {o}]
<1>1. /\ walks # <<>> /\ top.kind # "single" /\ E # {}
      /\ StackAgrees(walks, buckets, observers, added)
      /\ Sorted(buckets, added)
  BY DEF VisitNext, Walking, Between, WalksAgree, RecordsAgree
<1>2. /\ Len(walks) \in 1..Len(walks) /\ top \in Walks
      /\ WalkAgrees(top, buckets, observers, added)
  BY <1>1, TopAgrees DEF top
<1>3. x \in E /\ \A y \in E : ~Later(x, y)
  <2>1. E \in SUBSET Entries
    BY DEF ActiveAhead, Ahead
  <2> HIDE DEF E
  <2>2. \E z \in E : \A y \in E : ~Later(z, y)
    BY <1>1, <2>1, FirstAhead
  <2> QED
    BY <2>2
<1>4. /\ observers' = observers /\ added' = added /\ buckets' = buckets
      /\ compaction' = (compaction \/ {y \in Ahead(top) : Later(x, y)} # {})
      /\ \/ walks' = changed(w) /\ timers' = timers
         \/ walks' = changed(w) /\ \E k \in Kinds \ {"announce", "single"} :
                                      timers' = [timers EXCEPT ![o] = k]
         \/ walks' = changed([w EXCEPT !.calling = o]) /\ timers' = timers
  <2>1. top.kind \in Kinds
    BY <1>2 DEF Walks
  <2> QED
    BY <1>1, <2>1 DEF VisitNext, Kinds
<1> HIDE DEF x
<1>5. /\ x = <<x[1], x[2]>> /\ x[1] \in Priorities /\ x[2] \in 1..Len(buckets[x[1]])
      /\ Comes(x[1], x[2], top.at) /\ o = buckets[x[1]][x[2]] /\ o \in observers
  <2>1. x \in Entries /\ Later(x, top.at) /\ entry(x) \in observers
    BY <1>3 DEF ActiveAhead, Ahead
  <2> QED
    BY <1>1, <2>1, EntryIsPair DEF Later, Comes, entry
<1>6. o \in Observers /\ o \in added
  BY <1>5 DEF WalksAgree, RecordsAgree
<1>7. x \in Nat \X Nat /\ x[1] \in Nat /\ x[2] \in Nat
  <2>1. Len(buckets[x[1]]) \in Nat
    BY <1>1, <1>5 DEF Sorted
  <2> QED
    BY <1>5, <2>1 DEF Priorities
<1> HIDE DEF o
<1>8. /\ w \in Walks /\ w.kind = top.kind /\ w.of = top.of /\ w.at = x
      /\ w.due = top.due \ {o} /\ w.told = top.told \union {o}
  BY <1>2, <1>6, <1>7 DEF Walks
<1> HIDE DEF w
\* What comes after the entry that is visited comes after where the walk was.
<1>9. ASSUME NEW p \in Priorities, NEW i \in 1..Len(buckets[p]), Comes(p, i, x)
      PROVE  Comes(p, i, top.at) /\ buckets[p][i] # o
  <2>1. Comes(p, i, top.at)
    <3>1. top.at[1] \in Nat /\ top.at[2] \in Nat
      BY <1>2 DEF Walks
    <3>2. p \in Nat /\ i \in Nat
      <4>1. Len(buckets[p]) \in Nat
        BY <1>1 DEF Sorted
      <4> QED
        BY <4>1 DEF Priorities
    <3> QED
      BY <1>5, <1>7, <1>9, <3>1, <3>2 DEF Comes
  <2>2. buckets[p][i] # o
    <3> SUFFICES ASSUME buckets[p][i] = o
                 PROVE  FALSE
      OBVIOUS
    <3>1. o \in Elements(buckets[p]) /\ o \in Elements(buckets[x[1]])
      BY <1>5 DEF Elements
    <3>2. p = x[1]
      BY <1>1, <1>5, <3>1 DEF Sorted
    <3>3. i = x[2]
      BY <1>1, <1>5, <3>2 DEF Sorted, HasNoRepeats
    <3> QED
      BY <1>7, <1>9, <3>2, <3>3 DEF Comes
  <2> QED
    BY <2>1, <2>2
\* Who is due and is not the one visited is after it.
<1>10. ASSUME NEW d \in top.due, d # o
       PROVE  \E p \in Priorities : \E i \in 1..Len(buckets[p]) :
                 buckets[p][i] = d /\ Comes(p, i, x)
  <2>1. PICK p \in Priorities : \E i \in 1..Len(buckets[p]) :
           buckets[p][i] = d /\ Comes(p, i, top.at)
    BY <1>1, <1>2 DEF WalkAgrees, Fair
  <2>2. PICK i \in 1..Len(buckets[p]) : buckets[p][i] = d /\ Comes(p, i, top.at)
    BY <2>1
  <2>3. d \in observers
    BY <1>1, <1>2 DEF WalkAgrees, Fair
  <2>4. p \in Nat /\ i \in Nat
    <3>1. Len(buckets[p]) \in Nat
      BY <1>1 DEF Sorted
    <3> QED
      BY <3>1 DEF Priorities
  <2> DEFINE y == <<p, i>>
  <2>5. y[1] = p /\ y[2] = i /\ y = <<y[1], y[2]>>
    OBVIOUS
  <2> HIDE DEF y
  <2>6. y \in E
    BY <1>1, <2>2, <2>3, <2>5, EntryIsPair DEF ActiveAhead, Ahead, Later, Comes, entry
  <2>7. ~Later(x, y)
    BY <1>3, <2>6
  <2>8. ~(p = x[1] /\ i = x[2])
    BY <1>5, <1>10, <2>2
  <2>9. Comes(p, i, x)
    BY <1>7, <2>4, <2>5, <2>7, <2>8 DEF Later, Comes
  <2> QED
    BY <2>2, <2>9
<1>11. WalkAgrees(w, buckets, observers, added)
  <2>1. w.due \subseteq observers /\ w.told \subseteq added
    BY <1>1, <1>2, <1>6, <1>8 DEF WalkAgrees, Fair
  <2>2. \A d \in w.due : \E p \in Priorities : \E i \in 1..Len(buckets[p]) :
           buckets[p][i] = d /\ Comes(p, i, w.at)
    BY <1>8, <1>10
  <2>3. \A p \in Priorities : \A i \in 1..Len(buckets[p]) :
           Comes(p, i, w.at) => buckets[p][i] \notin w.told
    BY <1>1, <1>2, <1>8, <1>9 DEF WalkAgrees, Fair
  <2> QED
    BY <1>8, <2>1, <2>2, <2>3 DEF WalkAgrees, Fair
<1>12. ASSUME NEW v, WalkAgrees(v, buckets, observers, added),
              v.kind = top.kind, v.of = top.of, walks' = changed(v)
       PROVE  /\ StackAgrees(walks', buckets, observers, added) /\ SameWalks(walks', walks)
              /\ Deep(walks) => Deep(walks')
  BY <1>1, <1>12, ChangedAgrees DEF changed, top
<1>13. /\ StackAgrees(walks', buckets, observers, added) /\ SameWalks(walks', walks)
       /\ Deep(walks) => Deep(walks')
  <2>1. CASE walks' = changed(w)
    BY <1>8, <1>11, <1>12, <2>1
  <2>2. CASE walks' = changed([w EXCEPT !.calling = o])
    <3> DEFINE v == [w EXCEPT !.calling = o]
    <3>1. WalkAgrees(v, buckets, observers, added) /\ v.kind = w.kind /\ v.of = w.of
      BY <1>6, <1>11, CallingAgrees
    <3> HIDE DEF v
    <3>2. walks' = changed(v)
      BY <2>2 DEF v
    <3> QED
      BY <1>8, <1>12, <3>1, <3>2
  <2> QED
    BY <1>4, <2>1, <2>2
<1>14. RecordsAgree'
  <2>1. /\ timers' \in [Observers -> {"off", "sync", "async"}]
        /\ \A q \in Observers : timers'[q] # "off" => q \in observers
    <3>1. CASE timers' = timers
      BY <3>1 DEF WalksAgree, RecordsAgree
    <3>2. ASSUME NEW k \in Kinds \ {"announce", "single"}, timers' = [timers EXCEPT ![o] = k]
          PROVE  /\ timers' \in [Observers -> {"off", "sync", "async"}]
                 /\ \A q \in Observers : timers'[q] # "off" => q \in observers
      <4>1. timers \in [Observers -> {"off", "sync", "async"}]
            /\ \A q \in Observers : timers[q] # "off" => q \in observers
        BY DEF WalksAgree, RecordsAgree
      <4>2. k \in {"off", "sync", "async"} /\ o \in observers
        BY <1>5 DEF Kinds, o
      <4> QED
        BY <1>6, <3>2, <4>1, <4>2
    <3> QED
      BY <1>4, <3>1, <3>2
  <2>2. compaction' \in BOOLEAN
    BY <1>4
  <2> QED
    BY <1>4, <2>1, <2>2 DEF WalksAgree, RecordsAgree
<1>15. SweptAfter(walks)'
  BY <1>4, <1>13 DEF WalksAgree, SweptAfter, Swept
<1> QED
  BY <1>4, <1>13, <1>14, <1>15 DEF WalksAgree

\* A walk is over, and what was left behind is swept unless another is under way.
LEMMA PoppedAgrees ==
    ASSUME WalksAgree, walks # <<>>, walks' = Front(walks),
           observers' = observers, added' = added, timers' = timers,
           \/ ~Deep(Front(walks)) /\ compaction' \in BOOLEAN
                /\ buckets' = [p \in Priorities |-> Keep(buckets[p], observers)]
           \/ (Swept \/ (compaction' /\ Deep(Front(walks)))) /\ compaction' \in BOOLEAN
                /\ buckets' = buckets
    PROVE  WalksAgree' /\ SameWalks(walks', walks)
<1> DEFINE ws == Front(walks)
<1>1. StackAgrees(ws, buckets, observers, added) /\ SameWalks(ws, walks)
  BY FrontAgrees DEF WalksAgree
<1> HIDE DEF ws
<1>2. walks' = ws
  BY DEF ws
<1>3. CASE ~Deep(ws) /\ compaction' \in BOOLEAN
             /\ buckets' = [p \in Priorities |-> Keep(buckets[p], observers)]
  <2>1. RecordsAgree' /\ Swept'
    BY <1>3, AllSwept DEF WalksAgree
  <2>2. StackAgrees(ws, buckets', observers, added)
    BY <1>1, <1>3, SinglesAgree
  <2> QED
    BY <1>1, <1>2, <2>1, <2>2 DEF WalksAgree, SweptAfter
<1>4. CASE (Swept \/ (compaction' /\ Deep(ws))) /\ compaction' \in BOOLEAN /\ buckets' = buckets
  <2>1. RecordsAgree'
    BY <1>4 DEF WalksAgree, RecordsAgree
  <2>2. SweptAfter(walks)'
    BY <1>2, <1>4 DEF SweptAfter, Swept
  <2> QED
    BY <1>1, <1>2, <1>4, <2>1, <2>2 DEF WalksAgree
<1> QED
  BY <1>3, <1>4 DEF ws

LEMMA RestIsStack ==
    ASSUME WalksAgree, walks # <<>>
    PROVE  /\ Front(walks) \in Seq(Walks) /\ (IsStill(Front(walks)) <=> ~Deep(Front(walks)))
           /\ SweptAfter(walks) /\ compaction \in BOOLEAN
<1>1. walks \in Seq(Walks)
  BY DEF WalksAgree, StackAgrees
<1>2. Front(walks) \in Seq(Walks)
  BY <1>1, FrontOfWalks
<1> QED
  BY <1>2, StillIsNotDeep DEF WalksAgree, RecordsAgree

LEMMA EndAgrees ==
    ASSUME WalksAgree, WalkEnds
    PROVE  WalksAgree' /\ SameWalks(walks', walks) /\ walks # <<>> /\ walks' = Front(walks)
<1> DEFINE rest == Front(walks)
           compact == IsStill(rest) /\ (compaction \/ Ahead(top) # {})
<1>1. /\ walks # <<>> /\ walks' = rest
      /\ IF compact
         THEN /\ buckets' = [p \in Priorities |-> Keep(buckets[p], observers)]
              /\ compaction' = FALSE
         ELSE /\ compaction' = (compaction \/ Ahead(top) # {}) /\ buckets' = buckets
      /\ observers' = observers /\ added' = added /\ timers' = timers
  BY DEF WalkEnds, Walking, Between, endWalk
<1>2. (IsStill(rest) <=> ~Deep(rest)) /\ SweptAfter(walks)
  BY <1>1, RestIsStack
<1> HIDE DEF rest
<1>3. \/ ~Deep(rest) /\ compaction' \in BOOLEAN
           /\ buckets' = [p \in Priorities |-> Keep(buckets[p], observers)]
      \/ (Swept \/ (compaction' /\ Deep(rest))) /\ compaction' \in BOOLEAN
           /\ buckets' = buckets
  BY <1>1, <1>2 DEF SweptAfter
<1> QED
  BY <1>1, <1>3, PoppedAgrees DEF rest

LEMMA ThrowOutAgrees ==
    ASSUME WalksAgree, CallThrowsOut
    PROVE  WalksAgree' /\ SameWalks(walks', walks)
<1> DEFINE rest == Front(walks)
<1>1. /\ walks # <<>> /\ walks' = rest
      /\ IF compaction /\ IsStill(walks')
         THEN /\ buckets' = [p \in Priorities |-> Keep(buckets[p], observers)]
              /\ compaction' = FALSE
         ELSE compaction' = compaction /\ buckets' = buckets
      /\ observers' = observers /\ added' = added /\ timers' = timers
  BY DEF CallThrowsOut, Calling, Between
<1>2. (IsStill(rest) <=> ~Deep(rest)) /\ SweptAfter(walks) /\ compaction \in BOOLEAN
  BY <1>1, RestIsStack
<1>3. IsStill(walks') <=> ~Deep(rest)
  BY <1>1, <1>2
<1> HIDE DEF rest
<1>4. \/ ~Deep(rest) /\ compaction' \in BOOLEAN
           /\ buckets' = [p \in Priorities |-> Keep(buckets[p], observers)]
      \/ (Swept \/ (compaction' /\ Deep(rest))) /\ compaction' \in BOOLEAN
           /\ buckets' = buckets
  BY <1>1, <1>2, <1>3 DEF SweptAfter
<1> QED
  BY <1>1, <1>4, PoppedAgrees DEF rest

\* A callback returns, with or without the removal of an observer that is called once.
LEMMA CallOverAgrees ==
    ASSUME WalksAgree, Calling,
           \/ walks' = afterCall /\ UNCHANGED recordVars
           \/ finalize(top.calling, afterCall)
    PROVE  WalksAgree' /\ SameWalks(walks', walks)
<1>1. PICK ws : ws = afterCall
  OBVIOUS
<1>2. /\ StackAgrees(ws, buckets, observers, added) /\ SweptAfter(ws)
      /\ SameWalks(ws, walks) /\ top.calling \in Observers
  BY <1>1, AfterCallAgrees
<1>3. PICK o \in Observers : o = top.calling
  BY <1>2
<1>4. RecordsAgree /\ ws \in Seq(Walks) /\ walks \in Seq(Walks)
  BY <1>2 DEF WalksAgree, StackAgrees
<1>5. CASE walks' = ws /\ UNCHANGED recordVars
  BY <1>2, <1>4, <1>5, StackTurns DEF SweptAfter
<1>6. CASE finalize(o, ws)
  <2>1. WalksAgree' /\ SameWalks(walks', ws)
    BY <1>2, <1>4, <1>6, FinalizeAgrees
  <2>2. walks' \in Seq(Walks)
    BY <2>1 DEF WalksAgree, StackAgrees
  <2> QED
    BY <1>2, <1>4, <2>1, <2>2, SameWalksCompose
<1> QED
  BY <1>1, <1>3, <1>5, <1>6

\* A walk or a timer is put on the stack.
LEMMA PushAgrees ==
    ASSUME WalksAgree, NEW w, WalkAgrees(w, buckets, observers, added),
           walks' = Append(walks, w), UNCHANGED recordVars
    PROVE  WalksAgree'
<1>1. /\ StackAgrees(Append(walks, w), buckets, observers, added)
      /\ Deep(walks) => Deep(Append(walks, w))
  BY PushedAgrees DEF WalksAgree
<1> QED
  BY <1>1, StackTurns DEF WalksAgree, SweptAfter

LEMMA StaysAgreed ==
    ASSUME WalksAgree, UNCHANGED recordVars, walks' = walks
    PROVE  WalksAgree' /\ SameWalks(walks', walks)
<1>1. walks \in Seq(Walks)
  BY DEF WalksAgree, StackAgrees
<1> QED
  BY <1>1, StackTurns, SameIsSame DEF WalksAgree, SweptAfter

LEMMA TimerAgrees ==
    ASSUME WalksAgree, NEW o \in Observers, TimerFires(o)
    PROVE  /\ WalksAgree'
           /\ \/ walks' = walks
              \/ walks = <<>> /\ \E w : w.kind = "single" /\ walks' = Append(walks, w)
<1> DEFINE t == [timers EXCEPT ![o] = "off"]
           v == Walk("single", timers[o])
           w == [v EXCEPT !.calling = o]
<1>1. /\ walks = <<>> /\ timers' = t /\ timers[o] # "off"
      /\ walks' = IF o \in observers THEN Append(walks, w) ELSE walks
      /\ observers' = observers /\ added' = added /\ buckets' = buckets
      /\ compaction' = compaction
  BY DEF TimerFires, Between, pushed
<1>2. timers[o] \in {"async", "sync"}
  BY <1>1 DEF WalksAgree, RecordsAgree
<1>3. WalkAgrees(v, buckets, observers, added) /\ v.kind = "single"
  BY <1>2, NewWalkAgrees DEF WalksAgree, Kinds
<1> HIDE DEF v
<1>4. WalkAgrees(w, buckets, observers, added) /\ w.kind = "single"
  BY <1>3, CallingAgrees
<1> HIDE DEF w
<1>5. RecordsAgree'
  BY <1>1 DEF WalksAgree, RecordsAgree
<1>6. Swept' /\ SweptAfter(walks)'
  <2>1. ~Deep(walks)
    BY <1>1 DEF Deep
  <2> QED
    BY <1>1, <2>1 DEF WalksAgree, SweptAfter, Swept
<1>7. StackAgrees(walks, buckets, observers, added)
  BY DEF WalksAgree
<1>8. StackAgrees(Append(walks, w), buckets, observers, added)
  BY <1>4, <1>7, PushedAgrees
<1>9. StackAgrees(walks', buckets', observers', added')
  BY <1>1, <1>7, <1>8
<1> QED
  BY <1>1, <1>4, <1>5, <1>6, <1>9 DEF WalksAgree

LEMMA AddAgrees ==
    ASSUME WalksAgree, NEW o \in Observers, AddObserver(o)
    PROVE  WalksAgree' /\ SameWalks(walks', walks)
<1>1. /\ o \in Observers \ added /\ observers' = observers \union {o}
      /\ added' = added \union {o} /\ walks' = walks
      /\ buckets' = [buckets EXCEPT ![Rank(o)] = Append(@, o)]
      /\ compaction' = compaction /\ timers' = timers
  BY DEF AddObserver
<1>2. RecordsAgree' /\ (Swept => Swept')
  BY <1>1, AddRecords DEF WalksAgree
<1>3. StackAgrees(walks, buckets', observers', added')
  BY <1>1, AddedAgrees DEF WalksAgree
<1>4. walks \in Seq(Walks)
  BY <1>3, StackIsSeq
<1> QED
  BY <1>1, <1>2, <1>3, <1>4, SameIsSame DEF WalksAgree, SweptAfter

LEMMA DisposeAgrees ==
    ASSUME WalksAgree, DisposeSubject
    PROVE  WalksAgree' /\ SameWalks(walks', walks)
<1>1. /\ observers' = {} /\ buckets' = [p \in Priorities |-> <<>>] /\ added' = added
      /\ timers' = [o \in Observers |-> "off"] /\ compaction' = compaction
      /\ walks' = [i \in DOMAIN walks |-> [walks[i] EXCEPT !.due = {}]]
  BY DEF DisposeSubject
<1>2. \A p \in Priorities : buckets'[p] = <<>>
  BY <1>1
<1>3. \A p \in Priorities : HasNoRepeats(buckets'[p]) /\ Elements(buckets'[p]) = {}
  BY <1>2 DEF HasNoRepeats, Elements
<1>4. RecordsAgree' /\ Swept'
  <2>1. buckets' \in [Priorities -> Seq(Observers)]
    BY <1>1
  <2>2. Sorted(buckets', added')
    BY <1>3, <2>1 DEF Sorted
  <2> QED
    BY <1>1, <1>3, <2>2 DEF WalksAgree, RecordsAgree, Swept
<1> DEFINE n == Len(walks)
           r(i) == [walks[i] EXCEPT !.due = {}]
           R == [i \in 1..n |-> r(i)]
<1>5. walks \in Seq(Walks) /\ n \in Nat /\ DOMAIN walks = 1..n /\ \A i \in 1..n : walks[i] \in Walks
  BY DEF WalksAgree, StackAgrees
<1>6. \A i \in 1..n : /\ r(i) \in Walks /\ r(i).kind = walks[i].kind /\ r(i).of = walks[i].of
                      /\ r(i).due = {} /\ r(i).told = walks[i].told
  <2>1. ASSUME NEW w \in Walks
        PROVE  LET v == [w EXCEPT !.due = {}]
               IN  /\ v \in Walks /\ v.kind = w.kind /\ v.of = w.of
                   /\ v.due = {} /\ v.told = w.told
    BY DEF Walks
  <2> QED
    BY <1>5, <2>1
<1>7. walks' = R
  BY <1>1, <1>5
<1> HIDE DEF n, r
<1>8. R \in Seq(Walks) /\ Len(R) = n /\ \A i \in 1..n : R[i] = r(i)
  BY <1>5, <1>6
<1> HIDE DEF R
<1>9. StackAgrees(R, buckets', {}, added)
  <2> SUFFICES ASSUME NEW i \in 1..n
               PROVE  WalkAgrees(R[i], buckets', {}, added)
    BY <1>8 DEF StackAgrees
  <2>1. walks[i].told \subseteq added
    BY DEF WalksAgree, StackAgrees, WalkAgrees, n
  <2>2. R[i] \in Walks /\ R[i].due = {} /\ R[i].told \subseteq added
    BY <1>6, <1>8, <2>1
  <2>3. \A p \in Priorities : 1..Len(buckets'[p]) = {}
    BY <1>2
  <2> QED
    BY <2>2, <2>3 DEF WalkAgrees, Fair
<1>10. SameWalks(R, walks)
  BY <1>5, <1>6, <1>8 DEF SameWalks, n
<1> QED
  BY <1>1, <1>4, <1>7, <1>9, <1>10 DEF WalksAgree, SweptAfter

-----------------------------------------------------------------------------
(* The window of concurrent notifications                                  *)

InsideStages == {"asked", "walking", "settling"}

WindowAgrees ==
    /\ stage \in [Notifications -> {"new", "asked", "walking", "settling", "over"}]
    /\ concurrent \in Nat /\ turnedAway \in BOOLEAN
    /\ IsFiniteSet(Inside) /\ WindowHolds

\* A walk of notify is that of one notification, which waits for it.
AsyncAgrees(ws, st) ==
    /\ \A i \in 1..Len(ws) : ws[i].kind = "async" =>
          ws[i].of \in Notifications /\ st[ws[i].of] = "walking"
    /\ \A i, j \in 1..Len(ws) :
          ws[i].kind = "async" /\ ws[j].kind = "async" /\ ws[i].of = ws[j].of => i = j

LEMMA InsideIsCounted ==
    ASSUME WindowAgrees
    PROVE  Cardinality(Inside) \in Nat
BY FS_CardinalityType DEF WindowAgrees

LEMMA WindowStays ==
    ASSUME WindowAgrees, UNCHANGED windowVars
    PROVE  WindowAgrees'
<1>1. stage' = stage /\ concurrent' = concurrent /\ turnedAway' = turnedAway
  BY DEF windowVars
<1>2. Inside' = Inside
  BY <1>1 DEF Inside
<1> QED
  BY <1>1, <1>2 DEF WindowAgrees, WindowHolds

LEMMA WindowMoves ==
    ASSUME WindowAgrees, NEW n \in Notifications, stage[n] \in InsideStages,
           NEW v \in InsideStages, stage' = [stage EXCEPT ![n] = v],
           concurrent' = concurrent, turnedAway' = turnedAway
    PROVE  WindowAgrees'
<1>1. Inside' = Inside
  BY DEF WindowAgrees, Inside, InsideStages
<1>2. stage' \in [Notifications -> {"new", "asked", "walking", "settling", "over"}]
  BY DEF WindowAgrees, InsideStages
<1> QED
  BY <1>1, <1>2 DEF WindowAgrees, WindowHolds

LEMMA WindowEnters ==
    ASSUME WindowAgrees, NEW n \in Notifications, stage[n] = "new", WindowIsOpen,
           NEW v \in InsideStages, stage' = [stage EXCEPT ![n] = v],
           concurrent' = concurrent + 1, turnedAway' = turnedAway
    PROVE  WindowAgrees'
<1> DEFINE I == Inside
           c == Cardinality(I)
<1>1. /\ stage' \in [Notifications -> {"new", "asked", "walking", "settling", "over"}]
      /\ Inside' = I \union {n} /\ n \notin I
  BY DEF WindowAgrees, Inside, InsideStages
<1>2. c \in Nat /\ IsFiniteSet(I)
  BY InsideIsCounted DEF WindowAgrees
<1> HIDE DEF I
<1>3. IsFiniteSet(I \union {n}) /\ Cardinality(I \union {n}) = c + 1
  BY <1>1, <1>2, FS_AddElement
<1>4. concurrent <= c /\ (~turnedAway => concurrent = c)
  BY DEF WindowAgrees, WindowHolds, I
<1>5. concurrent \in Nat /\ MaxConcurrent \in Nat /\ concurrent < MaxConcurrent
  BY SubjectAssumption DEF WindowAgrees, WindowIsOpen
<1> DEFINE d == Cardinality(Inside')
<1>6. d = c + 1 /\ IsFiniteSet(Inside')
  BY <1>1, <1>3
<1> HIDE DEF c, d
<1>7. concurrent' <= d /\ (~turnedAway' => concurrent' = d /\ concurrent' <= MaxConcurrent)
  BY <1>2, <1>4, <1>5, <1>6
<1>8. concurrent' \in Nat /\ turnedAway' \in BOOLEAN
  BY <1>5 DEF WindowAgrees
<1> QED
  BY <1>1, <1>6, <1>7, <1>8 DEF WindowAgrees, WindowHolds, d

LEMMA LeftIsLess ==
    ASSUME concurrent \in Nat
    PROVE  /\ left \in Nat /\ left <= concurrent
           /\ concurrent # 0 => left = concurrent - 1
           /\ concurrent = 0 => left = 0
BY DEF left

LEMMA WindowLeaves ==
    ASSUME WindowAgrees, NEW n \in Notifications, stage[n] \in InsideStages,
           stage' = [stage EXCEPT ![n] = "over"],
           concurrent' = left, turnedAway' = turnedAway
    PROVE  WindowAgrees'
<1> DEFINE I == Inside
           c == Cardinality(I)
<1>1. /\ stage' \in [Notifications -> {"new", "asked", "walking", "settling", "over"}]
      /\ Inside' = I \ {n} /\ n \in I
  BY DEF WindowAgrees, Inside, InsideStages
<1>2. c \in Nat /\ IsFiniteSet(I)
  BY InsideIsCounted DEF WindowAgrees
<1> HIDE DEF I
<1>3. IsFiniteSet(I \ {n}) /\ Cardinality(I \ {n}) = c - 1
  BY <1>1, <1>2, FS_RemoveElement
<1>4. c # 0
  BY <1>1, <1>2, FS_EmptySet
<1>5. concurrent <= c /\ (~turnedAway => concurrent = c /\ concurrent <= MaxConcurrent)
  BY DEF WindowAgrees, WindowHolds, I
<1>6. concurrent \in Nat /\ MaxConcurrent \in Nat
  BY SubjectAssumption DEF WindowAgrees
<1> DEFINE d == Cardinality(Inside')
           l == left
<1>7. d = c - 1 /\ IsFiniteSet(Inside') /\ concurrent' = l
  BY <1>1, <1>3
<1>8. l \in Nat /\ (concurrent # 0 => l = concurrent - 1) /\ (concurrent = 0 => l = 0)
  BY <1>6, LeftIsLess
<1> HIDE DEF c, d, l
<1>9. concurrent' <= d /\ (~turnedAway' => concurrent' = d /\ concurrent' <= MaxConcurrent)
  BY <1>2, <1>4, <1>5, <1>6, <1>7, <1>8
<1>10. concurrent' \in Nat /\ turnedAway' \in BOOLEAN
  BY <1>7, <1>8 DEF WindowAgrees
<1> QED
  BY <1>1, <1>7, <1>9, <1>10 DEF WindowAgrees, WindowHolds, d

LEMMA WindowTurnsAway ==
    ASSUME WindowAgrees, NEW n \in Notifications, stage[n] = "new",
           stage' = [stage EXCEPT ![n] = "over"], concurrent' = left, turnedAway' = TRUE
    PROVE  WindowAgrees'
<1>1. /\ stage' \in [Notifications -> {"new", "asked", "walking", "settling", "over"}]
      /\ Inside' = Inside
  BY DEF WindowAgrees, Inside
<1> DEFINE c == Cardinality(Inside)
           l == left
<1>2. c \in Nat /\ concurrent \in Nat /\ concurrent <= c
  BY InsideIsCounted DEF WindowAgrees, WindowHolds
<1>3. l \in Nat /\ l <= concurrent /\ concurrent' = l
  BY <1>2, LeftIsLess
<1> HIDE DEF c, l
<1>4. concurrent' <= c /\ concurrent' \in Nat
  BY <1>2, <1>3
<1> QED
  BY <1>1, <1>4 DEF WindowAgrees, WindowHolds, c

LEMMA AsyncStays ==
    ASSUME NEW vs \in Seq(Walks), NEW ws \in Seq(Walks), NEW st, AsyncAgrees(ws, st),
           SameWalks(vs, ws)
    PROVE  AsyncAgrees(vs, st)
<1>1. \A i \in 1..Len(vs) : i \in 1..Len(ws)
  BY DEF SameWalks
<1> QED
  BY <1>1 DEF AsyncAgrees, SameWalks

\* A notification that no walk is of moves on.
LEMMA AsyncElsewhere ==
    ASSUME WindowAgrees, NEW ws, AsyncAgrees(ws, stage), NEW n \in Notifications,
           \A i \in 1..Len(ws) : ws[i].kind = "async" => ws[i].of # n,
           NEW v, stage' = [stage EXCEPT ![n] = v]
    PROVE  AsyncAgrees(ws, stage')
BY DEF WindowAgrees, AsyncAgrees

LEMMA AsyncPushed ==
    ASSUME NEW ws \in Seq(Walks), NEW st, AsyncAgrees(ws, st), NEW w \in Walks,
           w.kind = "async" => /\ w.of \in Notifications /\ st[w.of] = "walking"
                               /\ \A i \in 1..Len(ws) : ws[i].kind = "async" => ws[i].of # w.of
    PROVE  AsyncAgrees(Append(ws, w), st)
<1>1. /\ Len(Append(ws, w)) = Len(ws) + 1 /\ Len(ws) \in Nat
      /\ \A i \in 1..(Len(ws) + 1) :
                 /\ i = Len(ws) + 1 => Append(ws, w)[i] = w
                 /\ i # Len(ws) + 1 => i \in 1..Len(ws) /\ Append(ws, w)[i] = ws[i]
  BY PushedOn
<1> DEFINE vs == Append(ws, w)
<1> HIDE DEF vs
<1>2. \A i \in 1..Len(vs) : \/ i = Len(ws) + 1 /\ vs[i] = w
                            \/ i \in 1..Len(ws) /\ vs[i] = ws[i]
  BY <1>1 DEF vs
<1>3. AsyncAgrees(vs, st)
  BY <1>2 DEF AsyncAgrees
<1> QED
  BY <1>3 DEF vs

SubjectInv ==
    /\ WalksAgree /\ WindowAgrees /\ AsyncAgrees(walks, stage)
    /\ awaited \subseteq Observers \X (Notifications \union {NoOne})
    /\ completed \in BOOLEAN /\ subjectGone \in BOOLEAN

LEMMA InvAgrees == SubjectInv => ObserversAgree
<1> SUFFICES ASSUME SubjectInv
             PROVE  ObserversAgree
  OBVIOUS
<1>1. RecordsAgree /\ Sorted(buckets, added) /\ WalksAgree
  BY DEF SubjectInv, WalksAgree, RecordsAgree
<1>2. \A p \in Priorities : Range(buckets[p]) = Elements(buckets[p])
  BY <1>1 DEF Range, Elements, Sorted
<1>3. SubjectTypeOK
  <2>1. \A p \in Priorities : Range(buckets[p]) \subseteq Observers
    BY <1>1, <1>2 DEF RecordsAgree, Sorted
  <2>2. \A o \in Observers : timers[o] \in {"off", "sync", "async"}
    BY <1>1 DEF RecordsAgree
  <2>3. {compaction, turnedAway, completed, subjectGone} \subseteq BOOLEAN
    BY <1>1 DEF RecordsAgree, SubjectInv, WindowAgrees
  <2> QED
    BY <1>1, <2>1, <2>2, <2>3 DEF SubjectTypeOK, RecordsAgree, SubjectInv, WindowAgrees
<1>4. ASSUME NEW o \in observers
      PROVE  Cardinality({x \in Entries : entry(x) = o}) = 1
  <2>1. /\ Rank(o) \in Priorities /\ o \in Elements(buckets[Rank(o)])
    BY <1>1, RankIsPriority DEF RecordsAgree
  <2>2. PICK i \in 1..Len(buckets[Rank(o)]) : buckets[Rank(o)][i] = o
    BY <2>1 DEF Elements
  <2> DEFINE z == <<Rank(o), i>>
             F == {x \in Entries : entry(x) = o}
  <2>3. z[1] = Rank(o) /\ z[2] = i /\ z = <<z[1], z[2]>>
    OBVIOUS
  <2> HIDE DEF z
  <2>4. z \in F
    BY <1>1, <2>1, <2>2, <2>3, EntryIsPair DEF entry
  <2>5. ASSUME NEW x \in F
        PROVE  x = z
    <3>1. /\ x = <<x[1], x[2]>> /\ x[1] \in Priorities /\ x[2] \in 1..Len(buckets[x[1]])
          /\ buckets[x[1]][x[2]] = o
      BY <1>1, EntryIsPair DEF entry
    <3>2. x[1] = Rank(o)
      BY <1>1, <3>1 DEF Sorted, Elements
    <3>3. x[2] = i
      BY <1>1, <2>1, <2>2, <3>1, <3>2 DEF Sorted, HasNoRepeats
    <3> QED
      BY <2>3, <3>1, <3>2, <3>3
  <2> HIDE DEF F
  <2>6. F = {z}
    BY <2>4, <2>5
  <2>7. Cardinality(F) = 1
    BY <2>6, FS_Singleton
  <2> QED
    BY <2>7 DEF F
<1>5. BucketsAgree
  <2>1. \A o \in observers : o \in Range(buckets[Rank(o)])
    BY <1>1, <1>2, RankIsPriority DEF RecordsAgree
  <2>2. Between => \A p \in Priorities : Range(buckets[p]) \subseteq observers
    <3> SUFFICES ASSUME Between
                 PROVE  Swept
      BY <1>2 DEF Swept
    <3>1. ~Deep(walks)
      BY DEF Between, Deep
    <3> QED
      BY <1>1, <3>1 DEF WalksAgree, SweptAfter
  <2> QED
    BY <1>1, <1>3, <1>4, <2>1, <2>2 DEF BucketsAgree, RecordsAgree
<1>6. WalksAreFair
  <2> SUFFICES ASSUME NEW i \in DOMAIN walks, walks[i].kind # "single"
               PROVE  /\ walks[i].due \subseteq {entry(x) : x \in ActiveAhead(walks[i])}
                      /\ \A x \in Ahead(walks[i]) : entry(x) \notin walks[i].told
    BY DEF WalksAreFair
  <2>1. WalkAgrees(walks[i], buckets, observers, added)
    BY <1>1 DEF WalksAgree, StackAgrees
  <2> QED
    BY <1>1, <2>1, AgreedIsFair
<1> QED
  BY <1>5, <1>6 DEF ObserversAgree, SubjectInv, WindowAgrees

LEMMA InvBegins == SubjectInit => SubjectInv
<1> SUFFICES ASSUME SubjectInit
             PROVE  SubjectInv
  OBVIOUS
<1>1. \A p \in Priorities : buckets[p] = <<>>
  BY DEF SubjectInit
<1>2. \A p \in Priorities : HasNoRepeats(buckets[p]) /\ Elements(buckets[p]) = {}
  BY <1>1 DEF HasNoRepeats, Elements
<1>3. RecordsAgree /\ Swept
  <2>1. buckets \in [Priorities -> Seq(Observers)]
    BY DEF SubjectInit
  <2> QED
    BY <1>2, <2>1 DEF SubjectInit, RecordsAgree, Sorted, Swept
<1>4. walks = <<>> /\ walks \in Seq(Walks) /\ Len(walks) = 0
  BY EmptySeq DEF SubjectInit
<1>5. Inside = {}
  BY DEF SubjectInit, Inside
<1>6. IsFiniteSet(Inside) /\ Cardinality(Inside) = 0
  BY <1>5, FS_EmptySet
<1>7. WindowAgrees
  <2>1. stage \in [Notifications -> {"new", "asked", "walking", "settling", "over"}]
    BY DEF SubjectInit
  <2>2. concurrent = 0 /\ turnedAway = FALSE
    BY DEF SubjectInit
  <2>3. WindowHolds
    BY <1>6, <2>2, SubjectAssumption DEF WindowHolds
  <2> QED
    BY <1>6, <2>1, <2>2, <2>3 DEF WindowAgrees
<1>8. 1..Len(walks) = {}
  BY <1>4
<1>9. StackAgrees(walks, buckets, observers, added) /\ AsyncAgrees(walks, stage)
  BY <1>4, <1>8 DEF StackAgrees, AsyncAgrees
<1>10. awaited = {} /\ completed = FALSE /\ subjectGone = FALSE
  BY DEF SubjectInit
<1> QED
  BY <1>3, <1>7, <1>9, <1>10 DEF SubjectInv, WalksAgree, SweptAfter

\* A call into the subject, by which no notification moves on.
LEMMA CallKeeps ==
    ASSUME SubjectInv, WalksAgree', SameWalks(walks', walks), UNCHANGED windowVars,
           awaited' \subseteq Observers \X (Notifications \union {NoOne}),
           completed' \in BOOLEAN, subjectGone' \in BOOLEAN
    PROVE  SubjectInv'
<1>1. walks \in Seq(Walks) /\ walks' \in Seq(Walks)
  BY DEF SubjectInv, WalksAgree, StackAgrees
<1>2. AsyncAgrees(walks', stage) /\ stage' = stage
  BY <1>1, AsyncStays DEF SubjectInv, windowVars
<1> QED
  BY <1>2, WindowStays DEF SubjectInv

\* A walk that is not of a notification is put on the stack.
LEMMA PushKeeps ==
    ASSUME SubjectInv, NEW w, WalkAgrees(w, buckets, observers, added), w.kind # "async",
           walks' = Append(walks, w), UNCHANGED recordVars, UNCHANGED windowVars,
           awaited' = awaited, completed' \in BOOLEAN, subjectGone' \in BOOLEAN
    PROVE  SubjectInv'
<1>1. WalksAgree' /\ walks \in Seq(Walks) /\ w \in Walks
  BY PushAgrees DEF SubjectInv, WalksAgree, StackAgrees, WalkAgrees
<1>2. AsyncAgrees(walks', stage) /\ stage' = stage
  BY <1>1, AsyncPushed DEF SubjectInv, windowVars
<1> QED
  BY <1>1, <1>2, WindowStays DEF SubjectInv

\* The walk of a notification begins.
LEMMA BeginKeeps ==
    ASSUME SubjectInv, NEW n \in Notifications, stage[n] # "walking",
           stage' = [stage EXCEPT ![n] = "walking"], WindowAgrees',
           walks' = pushed(Walk("async", n)), UNCHANGED recordVars,
           awaited' = awaited, completed' = completed, subjectGone' = subjectGone
    PROVE  SubjectInv'
<1> DEFINE w == Walk("async", n)
<1>1. WalkAgrees(w, buckets, observers, added) /\ w.kind = "async" /\ w.of = n
  BY NewWalkAgrees DEF SubjectInv, WalksAgree, Kinds
<1> HIDE DEF w
<1>2. walks' = Append(walks, w)
  BY DEF pushed, w
<1>3. WalksAgree'
  BY <1>1, <1>2, PushAgrees DEF SubjectInv
<1>4. walks \in Seq(Walks) /\ w \in Walks
  BY <1>1 DEF SubjectInv, WalksAgree, StackAgrees, WalkAgrees
<1>5. \A i \in 1..Len(walks) : walks[i].kind = "async" => walks[i].of # n
  BY DEF SubjectInv, AsyncAgrees
<1>6. AsyncAgrees(walks, stage') /\ stage'[n] = "walking"
  BY <1>5, AsyncElsewhere DEF SubjectInv, WindowAgrees
<1>7. AsyncAgrees(walks', stage')
  <2> DEFINE st == stage'
  <2>1. AsyncAgrees(walks, st) /\ st[n] = "walking"
    BY <1>6
  <2> HIDE DEF st
  <2>2. AsyncAgrees(Append(walks, w), st)
    BY <1>1, <1>4, <1>5, <2>1, AsyncPushed
  <2> QED
    BY <1>2, <2>2 DEF st
<1> QED
  BY <1>3, <1>7 DEF SubjectInv

LEMMA EndKeepsInv ==
    ASSUME SubjectInv, WalkEnds
    PROVE  SubjectInv'
<1>1. /\ WalksAgree' /\ SameWalks(walks', walks) /\ walks # <<>> /\ walks' = Front(walks)
  BY EndAgrees DEF SubjectInv
<1>2. walks \in Seq(Walks) /\ walks' \in Seq(Walks)
  BY <1>1 DEF SubjectInv, WalksAgree, StackAgrees
<1>3. /\ stage' = (IF top.kind = "async" THEN [stage EXCEPT ![top.of] = "settling"] ELSE stage)
      /\ concurrent' = concurrent /\ turnedAway' = turnedAway /\ awaited' = awaited
      /\ completed' = completed /\ subjectGone' = subjectGone
  BY DEF WalkEnds, endWalk, flagVars
<1>4. AsyncAgrees(walks', stage)
  BY <1>1, <1>2, AsyncStays DEF SubjectInv
<1>5. CASE top.kind # "async"
  BY <1>1, <1>3, <1>4, <1>5, WindowStays DEF SubjectInv, windowVars
<1>6. CASE top.kind = "async"
  <2>1. Len(walks) \in 1..Len(walks)
    BY <1>1, TopAgrees DEF SubjectInv, WalksAgree
  <2>2. PICK n \in Notifications : n = top.of /\ stage[n] = "walking"
    BY <1>6, <2>1 DEF SubjectInv, AsyncAgrees, top
  <2>3. stage' = [stage EXCEPT ![n] = "settling"]
    BY <1>3, <1>6, <2>2
  <2>4. WindowAgrees'
    BY <1>3, <2>2, <2>3, WindowMoves DEF SubjectInv, InsideStages
  <2>5. \A i \in 1..Len(walks') : walks'[i].kind = "async" => walks'[i].of # n
    <3> SUFFICES ASSUME NEW i \in 1..Len(walks'), walks'[i].kind = "async", walks'[i].of = n
                 PROVE  FALSE
      OBVIOUS
    <3>1. i \in 1..Len(walks) /\ i # Len(walks) /\ walks'[i] = walks[i]
      BY <1>1, <1>2, FrontOfWalks
    <3> QED
      BY <1>6, <2>1, <2>2, <3>1 DEF SubjectInv, AsyncAgrees, top
  <2>6. AsyncAgrees(walks', stage')
    <3>1. PICK ws : ws = walks'
      OBVIOUS
    <3>2. AsyncAgrees(ws, stage')
      BY <1>4, <2>2, <2>3, <2>5, <3>1, AsyncElsewhere DEF SubjectInv
    <3> QED
      BY <3>1, <3>2
  <2> QED
    BY <1>1, <1>3, <2>4, <2>6 DEF SubjectInv
<1> QED
  BY <1>5, <1>6

LEMMA NotifyKeeps ==
    ASSUME SubjectInv, NEW n \in Notifications, notify(n)
    PROVE  SubjectInv'
<1>1. /\ stage[n] = "new" /\ UNCHANGED recordVars /\ awaited' = awaited
      /\ completed' = completed /\ subjectGone' = subjectGone
  BY DEF notify, flagVars
<1>2. \A i \in 1..Len(walks) : walks[i].kind = "async" => walks[i].of # n
  BY <1>1 DEF SubjectInv, AsyncAgrees
<1>3. CASE stage' = [stage EXCEPT ![n] = "walking"] /\ walks' = pushed(Walk("async", n))
             /\ WindowIsOpen /\ concurrent' = concurrent + 1 /\ turnedAway' = turnedAway
  <2>1. WindowAgrees'
    BY <1>1, <1>3, WindowEnters DEF SubjectInv, InsideStages
  <2> QED
    BY <1>1, <1>3, <2>1, BeginKeeps
<1>4. ASSUME walks' = walks, WindowAgrees', NEW v, stage' = [stage EXCEPT ![n] = v]
      PROVE  SubjectInv'
  <2>1. AsyncAgrees(walks, stage')
    BY <1>2, <1>4, AsyncElsewhere DEF SubjectInv
  <2>2. WalksAgree'
    BY <1>1, <1>4, StaysAgreed DEF SubjectInv
  <2> QED
    BY <1>1, <1>4, <2>1, <2>2 DEF SubjectInv
<1>5. CASE stage' = [stage EXCEPT ![n] = "asked"] /\ walks' = walks
             /\ WindowIsOpen /\ concurrent' = concurrent + 1 /\ turnedAway' = turnedAway
  <2>1. WindowAgrees'
    BY <1>1, <1>5, WindowEnters DEF SubjectInv, InsideStages
  <2> QED
    BY <1>4, <1>5, <2>1
<1>6. CASE stage' = [stage EXCEPT ![n] = "over"] /\ walks' = walks
             /\ concurrent' = left /\ turnedAway' = TRUE
  <2>1. WindowAgrees'
    BY <1>1, <1>6, WindowTurnsAway DEF SubjectInv
  <2> QED
    BY <1>4, <1>6, <2>1
<1> QED
  BY <1>3, <1>5, <1>6 DEF notify

LEMMA AnswerKeeps ==
    ASSUME SubjectInv, NEW n \in Notifications, HookAnswers(n)
    PROVE  SubjectInv'
<1>1. /\ stage[n] = "asked" /\ walks = <<>> /\ UNCHANGED recordVars /\ awaited' = awaited
      /\ turnedAway' = turnedAway /\ completed' = completed /\ subjectGone' = subjectGone
  BY DEF HookAnswers, Between, flagVars
<1>2. CASE stage' = [stage EXCEPT ![n] = "walking"] /\ walks' = pushed(Walk("async", n))
             /\ concurrent' = concurrent
  <2>1. WindowAgrees'
    BY <1>1, <1>2, WindowMoves DEF SubjectInv, InsideStages
  <2> QED
    BY <1>1, <1>2, <2>1, BeginKeeps
<1>3. CASE stage' = [stage EXCEPT ![n] = "over"] /\ concurrent' = left /\ walks' = walks
  <2>1. WindowAgrees'
    BY <1>1, <1>3, WindowLeaves DEF SubjectInv, InsideStages
  <2>2. AsyncAgrees(walks, stage')
    <3>1. \A i \in 1..Len(walks) : walks[i].kind = "async" => walks[i].of # n
      BY <1>1 DEF SubjectInv, AsyncAgrees
    <3> QED
      BY <1>3, <3>1, AsyncElsewhere DEF SubjectInv
  <2>3. WalksAgree'
    BY <1>1, <1>3, StaysAgreed DEF SubjectInv
  <2> QED
    BY <1>1, <1>3, <2>1, <2>2, <2>3 DEF SubjectInv
<1> QED
  BY <1>2, <1>3 DEF HookAnswers

LEMMA ReturnKeeps ==
    ASSUME SubjectInv, NEW n \in Notifications, NotifyReturns(n)
    PROVE  SubjectInv'
<1>1. /\ stage[n] = "settling" /\ walks = <<>> /\ UNCHANGED recordVars /\ awaited' = awaited
      /\ turnedAway' = turnedAway /\ completed' = completed /\ subjectGone' = subjectGone
      /\ stage' = [stage EXCEPT ![n] = "over"] /\ concurrent' = left /\ walks' = walks
  BY DEF NotifyReturns, Between, flagVars
<1>2. WindowAgrees'
  BY <1>1, WindowLeaves DEF SubjectInv, InsideStages
<1>3. AsyncAgrees(walks, stage')
  <2>1. \A i \in 1..Len(walks) : walks[i].kind = "async" => walks[i].of # n
    BY <1>1 DEF SubjectInv, AsyncAgrees
  <2> QED
    BY <1>1, <2>1, AsyncElsewhere DEF SubjectInv
<1>4. WalksAgree'
  BY <1>1, StaysAgreed DEF SubjectInv
<1> QED
  BY <1>1, <1>2, <1>3, <1>4 DEF SubjectInv

LEMMA SyncKeeps ==
    ASSUME SubjectInv, NotifySync \/ Complete \/ Error
    PROVE  SubjectInv'
<1>1. PICK k \in {"sync", "announce"} :
         /\ walks' = Append(walks, Walk(k, NoOne)) /\ UNCHANGED recordVars
         /\ UNCHANGED windowVars /\ awaited' = awaited /\ subjectGone' = subjectGone
         /\ completed' = completed \/ completed' = TRUE
  BY DEF NotifySync, Complete, Error, subjectCall, pushed
<1> DEFINE w == Walk(k, NoOne)
<1>2. WalkAgrees(w, buckets, observers, added) /\ w.kind # "async"
  BY NewWalkAgrees DEF SubjectInv, WalksAgree, Kinds
<1> HIDE DEF w
<1>3. completed' \in BOOLEAN /\ subjectGone' \in BOOLEAN /\ walks' = Append(walks, w)
  BY <1>1 DEF SubjectInv, w
<1> QED
  BY <1>1, <1>2, <1>3, PushKeeps

LEMMA PromiseKeeps ==
    ASSUME SubjectInv, CallPromises
    PROVE  SubjectInv'
<1>1. /\ Calling /\ UNCHANGED windowVars /\ completed' = completed
      /\ subjectGone' = subjectGone
  BY DEF CallPromises, flagVars
<1>2. /\ walks # <<>> /\ Len(walks) \in 1..Len(walks) /\ top.calling \in Observers
  BY <1>1, AfterCallAgrees, TopAgrees DEF SubjectInv, WalksAgree, Calling, Between
<1>3. awaited' \subseteq Observers \X (Notifications \union {NoOne})
  <2>1. awaited \subseteq Observers \X (Notifications \union {NoOne})
    BY DEF SubjectInv
  <2>2. CASE awaited' = awaited
    BY <2>1, <2>2
  <2>3. CASE awaited' = awaited \union
                  {<<top.calling, IF top.kind = "async" THEN top.of ELSE NoOne>>}
    <3>1. top.kind = "async" => top.of \in Notifications
      BY <1>2 DEF SubjectInv, AsyncAgrees, top
    <3> QED
      BY <1>2, <2>1, <2>3, <3>1
  <2> QED
    BY <2>2, <2>3 DEF CallPromises
<1>4. WalksAgree' /\ SameWalks(walks', walks)
  BY <1>1, CallOverAgrees DEF SubjectInv, CallPromises
<1> QED
  BY <1>1, <1>3, <1>4, CallKeeps DEF SubjectInv

LEMMA TimerKeeps ==
    ASSUME SubjectInv, NEW o \in Observers, TimerFires(o)
    PROVE  SubjectInv'
<1>1. /\ WalksAgree'
      /\ \/ walks' = walks
         \/ walks = <<>> /\ \E w : w.kind = "single" /\ walks' = Append(walks, w)
  BY TimerAgrees DEF SubjectInv
<1>2. /\ UNCHANGED windowVars /\ awaited' = awaited /\ completed' = completed
      /\ subjectGone' = subjectGone
  BY DEF TimerFires, flagVars
<1>3. AsyncAgrees(walks', stage)
  <2>1. CASE walks' = walks
    BY <2>1 DEF SubjectInv
  <2>2. ASSUME NEW w, walks = <<>>, w.kind = "single", walks' = Append(walks, w)
        PROVE  AsyncAgrees(walks', stage)
    <3>1. Len(walks') = 1 /\ walks'[1] = w
      BY <2>2
    <3>2. \A i \in 1..Len(walks') : walks'[i].kind # "async"
      BY <2>2, <3>1
    <3> QED
      BY <3>2 DEF AsyncAgrees
  <2> QED
    BY <1>1, <2>1, <2>2
<1>4. stage' = stage
  BY <1>2 DEF windowVars
<1> QED
  BY <1>1, <1>2, <1>3, <1>4, WindowStays DEF SubjectInv

LEMMA SettleKeeps ==
    ASSUME SubjectInv, NEW a \in awaited, PromiseSettles(a)
    PROVE  SubjectInv'
<1>1. /\ UNCHANGED windowVars /\ awaited' \subseteq awaited /\ completed' = completed
      /\ subjectGone' = subjectGone
      /\ finalize(a[1], walks) \/ (walks' = walks /\ UNCHANGED recordVars)
  BY DEF PromiseSettles, flagVars
<1>2. a[1] \in Observers
  BY DEF SubjectInv
<1>3. PICK ws : ws = walks
  OBVIOUS
<1>4. PICK o \in Observers : o = a[1]
  BY <1>2
<1>5. CASE finalize(o, ws)
  <2>1. WalksAgree' /\ SameWalks(walks', ws)
    BY <1>3, <1>5, FinalizeAgrees DEF SubjectInv, WalksAgree
  <2> QED
    BY <1>1, <1>3, <2>1, CallKeeps DEF SubjectInv
<1>6. CASE walks' = walks /\ UNCHANGED recordVars
  <2>1. WalksAgree' /\ SameWalks(walks', walks)
    BY <1>6, StaysAgreed DEF SubjectInv
  <2> QED
    BY <1>1, <2>1, CallKeeps DEF SubjectInv
<1> QED
  BY <1>1, <1>3, <1>4, <1>5, <1>6

LEMMA RemoveKeeps ==
    ASSUME SubjectInv, NEW o \in Observers, RemoveObserver(o)
    PROVE  SubjectInv'
<1>1. /\ UNCHANGED windowVars /\ awaited' = awaited /\ completed' = completed
      /\ subjectGone' = subjectGone /\ deactivate(o, walks)
  BY DEF RemoveObserver, flagVars
<1>2. PICK ws : ws = walks
  OBVIOUS
<1>3. WalksAgree' /\ SameWalks(walks', ws)
  BY <1>1, <1>2, LeaveAgrees DEF SubjectInv, WalksAgree
<1> QED
  BY <1>1, <1>2, <1>3, CallKeeps DEF SubjectInv

LEMMA SubjectStep == SubjectInv /\ [SubjectNext]_subjectVars => SubjectInv'
<1> SUFFICES ASSUME SubjectInv, [SubjectNext]_subjectVars
             PROVE  SubjectInv'
  OBVIOUS
<1>0. WalksAgree /\ completed \in BOOLEAN /\ subjectGone \in BOOLEAN
      /\ awaited \subseteq Observers \X (Notifications \union {NoOne})
  BY DEF SubjectInv
<1>1. CASE VisitNext
  BY <1>0, <1>1, VisitAgrees, CallKeeps DEF VisitNext, flagVars
<1>2. CASE CallReturns
  <2>1. \/ walks' = afterCall /\ UNCHANGED recordVars
        \/ finalize(top.calling, afterCall)
    BY <1>2 DEF CallReturns
  <2>2. WalksAgree' /\ SameWalks(walks', walks)
    BY <1>0, <1>2, <2>1, CallOverAgrees DEF CallReturns
  <2> QED
    BY <1>0, <1>2, <2>2, CallKeeps DEF CallReturns, flagVars
<1>3. CASE CallThrows
  <2>1. WalksAgree' /\ SameWalks(walks', walks)
    BY <1>0, <1>3, CallOverAgrees DEF CallThrows
  <2> QED
    BY <1>0, <1>3, <2>1, CallKeeps DEF CallThrows, flagVars
<1>4. CASE CallThrowsOut
  BY <1>0, <1>4, ThrowOutAgrees, CallKeeps DEF CallThrowsOut, flagVars
<1>5. ASSUME NEW o \in Observers, AddObserver(o)
      PROVE  SubjectInv'
  BY <1>0, <1>5, AddAgrees, CallKeeps DEF AddObserver, flagVars
<1>6. CASE DisposeSubject
  BY <1>0, <1>6, DisposeAgrees, CallKeeps DEF DisposeSubject
<1>7. CASE UNCHANGED subjectVars
  <2>1. /\ UNCHANGED recordVars /\ walks' = walks /\ UNCHANGED windowVars
        /\ awaited' = awaited /\ completed' = completed /\ subjectGone' = subjectGone
    BY <1>7 DEF subjectVars, flagVars
  <2> QED
    BY <1>0, <2>1, StaysAgreed, CallKeeps
<1> QED
  BY <1>1, <1>2, <1>3, <1>4, <1>5, <1>6, <1>7, EndKeepsInv, PromiseKeeps, SettleKeeps,
     TimerKeeps, RemoveKeeps, NotifyKeeps, AnswerKeeps, ReturnKeeps, SyncKeeps
  DEF SubjectNext

\* Whatever callbacks add, remove, notify and dispose, on every level of nesting: each
\* observer is in the buckets once, a walk skips and repeats nobody, and the window never
\* loses a place nor lets too many in unless a call that never entered it left it.
THEOREM ObserversStayAgreed == SubjectSpec => []ObserversAgree
BY InvAgrees, InvBegins, SubjectStep, PTL DEF SubjectSpec

-----------------------------------------------------------------------------
(***************************************************************************)
(* The priority queue implements QueuedWork, for any number of nodes, both *)
(* orders and every way to mix the calls.                                  *)
(*                                                                         *)
(* The index says where each node is (Indexed), and no node comes before   *)
(* the one above it (Heaped), so the root is the first of them.  While a   *)
(* node sifts, the array is in order but at its place: HeapedBut on the    *)
(* way up, HeapedFrom on the way down.  The loops of the code are          *)
(* recursive functions; Stages follows one through its rounds.             *)
(***************************************************************************)

\* The nodes, and the queues in which the index says where each of them is.
QueueNodes == [handle : Nat, priority : NodePriorities]
Indexes == UNION {[D -> Nat] : D \in SUBSET Nat}
QueueShapes == [store : Seq(QueueNodes), index : Indexes]
Indexed(q) ==
    /\ q \in QueueShapes
    /\ DOMAIN q.index = {q.store[k].handle : k \in 1..Len(q.store)}
    /\ \A k \in 1..Len(q.store) : q.index[q.store[k].handle] = k

\* No node of the array comes before the one above it.
Child(i, k) == k = 2 * i \/ k = 2 * i + 1
Fits(n, m) == ~comesBefore(m, n)
Heaped(s) == \A i, k \in 1..Len(s) : Child(i, k) => Fits(s[i], s[k])

\* The order of nodes is total.
LEMMA FitsIsOrder ==
    ASSUME QueueAssumption, NEW a \in QueueNodes, NEW b \in QueueNodes
    PROVE  /\ Fits(a, b) \/ Fits(b, a)
           /\ Fits(a, a)
           /\ comesBefore(a, b) => Fits(a, b)
           /\ \A c \in QueueNodes : Fits(a, b) /\ Fits(b, c) => Fits(a, c)
<1>1. /\ \A n \in QueueNodes : n.priority \in Int /\ n.handle \in Nat
      /\ Order = "min" \/ Order = "max"
  BY DEF QueueAssumption, QueueNodes
<1>2. CASE Order = "min"
  BY <1>1, <1>2 DEF Fits, comesBefore, Sooner
<1>3. CASE Order = "max" /\ Order # "min"
  BY <1>1, <1>3 DEF Fits, comesBefore, Sooner
<1> QED
  BY <1>1, <1>2, <1>3

\* The place above is that of half the number.
LEMMA HalfIs ==
    ASSUME NEW k \in Nat
    PROVE  /\ k \div 2 \in Nat /\ k \div 2 <= k
           /\ k > 1 => k \div 2 \in 1..k - 1 /\ Child(k \div 2, k)
           /\ \A i \in Nat : Child(i, k) => i = k \div 2
           /\ \A j \in Nat : j <= k \div 2 <=> 2 * j <= k
BY DEF Child

\* Nodes and places of an indexed queue.
LEMMA IndexedIs ==
    ASSUME NEW q, Indexed(q)
    PROVE  /\ q = [store |-> q.store, index |-> q.index]
           /\ q.store \in Seq(QueueNodes) /\ Len(q.store) \in Nat
           /\ DOMAIN q.store = 1..Len(q.store)
           /\ \A k \in 1..Len(q.store) : /\ q.store[k] \in QueueNodes /\ q.store[k].handle \in Nat
                                         /\ q.store[k].handle \in DOMAIN q.index
           /\ q.index \in Indexes /\ DOMAIN q.index \in SUBSET Nat
           /\ \A h \in DOMAIN q.index : /\ q.index[h] \in 1..Len(q.store)
                                        /\ q.store[q.index[h]].handle = h
           /\ \A j, k \in 1..Len(q.store) : q.store[j].handle = q.store[k].handle => j = k
<1>1. /\ q = [store |-> q.store, index |-> q.index] /\ q.store \in Seq(QueueNodes)
      /\ q.index \in Indexes
  BY DEF Indexed, QueueShapes
<1>2. PICK D \in SUBSET Nat : q.index \in [D -> Nat]
  BY <1>1 DEF Indexes
<1>3. Len(q.store) \in Nat /\ DOMAIN q.store = 1..Len(q.store)
  BY <1>1, LenProperties
<1>4. \A k \in 1..Len(q.store) : q.store[k] \in QueueNodes
  BY <1>1, <1>3
<1>5. \A n \in QueueNodes : n.handle \in Nat
  BY DEF QueueNodes
<1>6. /\ DOMAIN q.index = {q.store[k].handle : k \in 1..Len(q.store)}
      /\ \A k \in 1..Len(q.store) : q.index[q.store[k].handle] = k
  BY DEF Indexed
<1>7. DOMAIN q.index \in SUBSET Nat
  BY <1>2
<1> QED
  BY <1>1, <1>3, <1>4, <1>5, <1>6, <1>7

\* indexByHandle.set changes the place of one handle.
PointsTo(f, g, h, i) ==
    /\ g \in Indexes /\ DOMAIN g = DOMAIN f \cup {h} /\ g[h] = i
    /\ \A d \in DOMAIN f : d # h => g[d] = f[d]
LEMMA IndexedSet ==
    ASSUME NEW f \in Indexes, NEW h \in Nat, NEW i \in Nat, NEW g, g = indexed(f, h, i)
    PROVE  PointsTo(f, g, h, i)
<1>1. PICK D \in SUBSET Nat : f \in [D -> Nat]
  BY DEF Indexes
<1>2. PICK E \in SUBSET Nat : E = D \cup {h}
  OBVIOUS
<1>3. g = [d \in E |-> IF d = h THEN i ELSE f[d]]
  BY <1>1, <1>2 DEF indexed
<1>4. g \in [E -> Nat]
  BY <1>1, <1>2, <1>3
<1>5. g \in Indexes
  BY <1>4 DEF Indexes
<1> QED
  BY <1>1, <1>2, <1>3, <1>5 DEF PointsTo

\* What is put together of an array and a fitting index is an indexed queue.
LEMMA IsIndexed ==
    ASSUME NEW s \in Seq(QueueNodes), NEW f \in Indexes,
           DOMAIN f = {s[k].handle : k \in 1..Len(s)}, \A k \in 1..Len(s) : f[s[k].handle] = k,
           NEW q, q = [store |-> s, index |-> f]
    PROVE  Indexed(q) /\ q.store = s /\ q.index = f
<1>2. q.store = s /\ q.index = f
  OBVIOUS
<1>3. q \in QueueShapes
  BY DEF QueueShapes
<1> QED
  BY <1>2, <1>3 DEF Indexed

\* r has the nodes of q, each under its handle.
NodeOf(q, h) == q.store[q.index[h]]
SameNodes(q, r) ==
    /\ Len(r.store) = Len(q.store) /\ DOMAIN r.index = DOMAIN q.index
    /\ \A h \in DOMAIN q.index : NodeOf(r, h) = NodeOf(q, h)

\* Two nodes that change places keep their handles.
LEMMA SwappedIs ==
    ASSUME NEW q, Indexed(q), NEW i \in 1..Len(q.store), NEW j \in 1..Len(q.store), i # j,
           NEW r, r = Swapped(q, i, j)
    PROVE  /\ Indexed(r) /\ SameNodes(q, r)
           /\ r.store[i] = q.store[j] /\ r.store[j] = q.store[i]
           /\ \A k \in 1..Len(q.store) : k # i /\ k # j => r.store[k] = q.store[k]
<1>1. PICK s, f, g, a, b : /\ a = q.store[i] /\ b = q.store[j]
                           /\ s = [q.store EXCEPT ![i] = b, ![j] = a]
                           /\ f = indexed(q.index, b.handle, i) /\ g = indexed(f, a.handle, j)
  OBVIOUS
<1>2. /\ q.store \in Seq(QueueNodes) /\ Len(q.store) \in Nat /\ DOMAIN q.store = 1..Len(q.store)
      /\ q.index \in Indexes
      /\ DOMAIN q.index = {q.store[k].handle : k \in 1..Len(q.store)}
      /\ \A k \in 1..Len(q.store) : q.store[k] \in QueueNodes /\ q.store[k].handle \in Nat
      /\ \A k \in 1..Len(q.store) : q.index[q.store[k].handle] = k
      /\ \A k, m \in 1..Len(q.store) : q.store[k].handle = q.store[m].handle => k = m
  BY IndexedIs DEF Indexed
<1>3. r = [store |-> s, index |-> g]
  BY <1>1 DEF Swapped
<1>4. a \in QueueNodes /\ b \in QueueNodes /\ a.handle \in Nat /\ b.handle \in Nat /\ a.handle # b.handle
  BY <1>1, <1>2
<1>5. /\ f \in Indexes /\ DOMAIN f = DOMAIN q.index
      /\ f[b.handle] = i /\ \A h \in DOMAIN f : h # b.handle => f[h] = q.index[h]
  <2>1. b.handle \in DOMAIN q.index
    BY <1>1, <1>2
  <2>2. f = indexed(q.index, b.handle, i)
    BY <1>1
  <2>4. i \in Nat
    BY <1>2
  <2>5. q.index \in Indexes
    BY <1>2
  <2>6. b.handle \in Nat
    BY <1>4
  <2>3. PointsTo(q.index, f, b.handle, i)
    BY <2>2, <2>4, <2>5, <2>6, IndexedSet
  <2> QED
    BY <2>1, <2>3 DEF PointsTo
<1>6. /\ g \in Indexes /\ DOMAIN g = DOMAIN q.index
      /\ g[a.handle] = j /\ \A h \in DOMAIN g : h # a.handle => g[h] = f[h]
  <2>1. a.handle \in DOMAIN f
    BY <1>1, <1>2, <1>5
  <2>2. g = indexed(f, a.handle, j)
    BY <1>1
  <2>4. j \in Nat
    BY <1>2
  <2>5. f \in Indexes
    BY <1>5
  <2>6. a.handle \in Nat
    BY <1>4
  <2>3. PointsTo(f, g, a.handle, j)
    BY <2>2, <2>4, <2>5, <2>6, IndexedSet
  <2> QED
    BY <1>5, <2>1, <2>3 DEF PointsTo
<1>7. /\ s[i] = b /\ s[j] = a /\ DOMAIN s = 1..Len(q.store)
      /\ \A k \in 1..Len(q.store) : k # i /\ k # j => s[k] = q.store[k]
  BY <1>1, <1>2
<1>8. s \in Seq(QueueNodes) /\ Len(s) = Len(q.store)
  <2>1. \A k \in 1..Len(q.store) : s[k] \in QueueNodes
    BY <1>2, <1>4, <1>7
  <2>2. s = [k \in 1..Len(q.store) |-> s[k]]
    BY <1>1, <1>2
  <2>3. s \in [1..Len(q.store) -> QueueNodes]
    BY <2>1, <2>2
  <2> QED
    BY <1>2, <2>3, IsASeq, LenProperties
<1>9. \A k \in 1..Len(q.store) : s[k].handle \in DOMAIN g /\ g[s[k].handle] = k
  <2> TAKE k \in 1..Len(q.store)
  <2>1. CASE k = i
    <3>1. s[k] = b /\ b.handle \in DOMAIN f /\ b.handle # a.handle
      BY <1>1, <1>2, <1>4, <1>5, <1>7, <2>1
    <3> QED
      BY <1>5, <1>6, <2>1, <3>1
  <2>2. CASE k = j
    BY <1>1, <1>2, <1>6, <1>7, <2>2
  <2>3. CASE k # i /\ k # j
    <3>1. s[k] = q.store[k] /\ q.store[k].handle # a.handle /\ q.store[k].handle # b.handle
      BY <1>1, <1>2, <1>7, <2>3
    <3> QED
      BY <1>2, <1>5, <1>6, <3>1
  <2> QED
    BY <2>1, <2>2, <2>3
<1>10. DOMAIN g = {s[k].handle : k \in 1..Len(s)}
  <2>1. ASSUME NEW h \in DOMAIN g PROVE \E k \in 1..Len(q.store) : s[k].handle = h
    <3>1. PICK k \in 1..Len(q.store) : q.store[k].handle = h
      BY <1>2, <1>6, <2>1
    <3>2. CASE k = i
      BY <1>1, <1>7, <3>1, <3>2
    <3>3. CASE k = j
      BY <1>1, <1>7, <3>1, <3>3
    <3>4. CASE k # i /\ k # j
      BY <1>7, <3>1, <3>4
    <3> QED
      BY <3>2, <3>3, <3>4
  <2> QED
    BY <1>8, <1>9, <2>1
<1>11. Indexed(r) /\ r.store = s /\ r.index = g
  BY <1>3, <1>6, <1>8, <1>9, <1>10, IsIndexed
<1>12. \A h \in DOMAIN q.index : NodeOf(r, h) = NodeOf(q, h)
  <2> TAKE h \in DOMAIN q.index
  <2>1. PICK k \in 1..Len(q.store) : q.store[k].handle = h /\ q.index[h] = k
    BY <1>2
  <2>2. CASE k = i
    BY <1>1, <1>6, <1>7, <1>11, <2>1, <2>2 DEF NodeOf
  <2>3. CASE k = j
    BY <1>1, <1>4, <1>5, <1>6, <1>7, <1>11, <2>1, <2>3 DEF NodeOf
  <2>4. CASE k # i /\ k # j
    <3>1. g[h] = k
      BY <1>7, <1>9, <2>1, <2>4
    <3> QED
      BY <1>7, <1>11, <2>1, <2>4, <3>1 DEF NodeOf
  <2> QED
    BY <2>2, <2>3, <2>4
<1> QED
  BY <1>1, <1>6, <1>7, <1>8, <1>11, <1>12 DEF SameNodes

\* A node that rises: all is in order but what is above it, and what is below it
\* fits there too.
HeapedBut(s, at) ==
    /\ \A i, k \in 1..Len(s) : Child(i, k) /\ k # at => Fits(s[i], s[k])
    /\ \A i, k \in 1..Len(s) : Child(i, at) /\ Child(at, k) => Fits(s[i], s[k])
\* One that sinks: from lo on, all is in order but what is below it.
HeapedFrom(s, lo, at) ==
    /\ \A i, k \in 1..Len(s) : Child(i, k) /\ i >= lo /\ i # at => Fits(s[i], s[k])
    /\ \A i, k \in 1..Len(s) : Child(i, at) /\ Child(at, k) /\ i >= lo => Fits(s[i], s[k])
OrderedFrom(s, lo) ==
    \A i, k \in 1..Len(s) : Child(i, k) /\ i >= lo => Fits(s[i], s[k])
\* The nodes at p and c change places.
Trade(s, u, p, c) ==
    /\ Len(u) = Len(s) /\ u[p] = s[c] /\ u[c] = s[p]
    /\ \A k \in 1..Len(s) : k # p /\ k # c => u[k] = s[k]

\* Each place is below one other, with a smaller number.
LEMMA ChildIs ==
    ASSUME NEW L \in Nat, NEW i \in 1..L, NEW k \in 1..L, Child(i, k)
    PROVE  i < k /\ \A j \in 1..L : Child(j, k) => j = i
BY DEF Child

\* A round of rising leaves at most one node, a place higher, out of order.
LEMMA RiseHeaped ==
    ASSUME QueueAssumption, NEW s, Len(s) \in Nat, \A k \in 1..Len(s) : s[k] \in QueueNodes,
           NEW p \in 1..Len(s), NEW c \in 1..Len(s), Child(p, c), HeapedBut(s, c),
           comesBefore(s[c], s[p]), NEW u, Trade(s, u, p, c)
    PROVE  HeapedBut(u, p)
<1>1. PICK L \in Nat : L = Len(s) /\ Len(u) = L
  BY DEF Trade
<1>2. p < c /\ \A j \in 1..L : Child(j, c) => j = p
  BY <1>1, ChildIs
<1>3. \A i, k \in 1..L : Child(i, k) => i < k /\ \A j \in 1..L : Child(j, k) => j = i
  BY ChildIs
<1>4. /\ u[p] = s[c] /\ u[c] = s[p] /\ \A k \in 1..L : k # p /\ k # c => u[k] = s[k]
      /\ \A k \in 1..L : s[k] \in QueueNodes
  BY <1>1 DEF Trade
<1>5. /\ \A i, k \in 1..L : Child(i, k) /\ k # c => Fits(s[i], s[k])
      /\ \A i, k \in 1..L : Child(i, c) /\ Child(c, k) => Fits(s[i], s[k])
  BY <1>1 DEF HeapedBut
<1>6. /\ Fits(s[c], s[p])
      /\ \A m, n, o \in 1..L : Fits(s[m], s[n]) /\ Fits(s[n], s[o]) => Fits(s[m], s[o])
  BY <1>1, <1>4, FitsIsOrder
<1>7. ASSUME NEW i \in 1..L, NEW k \in 1..L, Child(i, k), k # p
      PROVE  Fits(u[i], u[k])
  <2>1. CASE k = c
    BY <1>1, <1>2, <1>4, <1>6, <1>7, <2>1
  <2>2. CASE k # c /\ i = c
    BY <1>1, <1>4, <1>5, <1>7, <2>2
  <2>3. CASE k # c /\ i = p
    <3>1. Fits(s[p], s[k])
      BY <1>1, <1>5, <1>7, <2>3
    <3>2. Fits(s[c], s[k])
      BY <1>1, <1>6, <3>1
    <3> QED
      BY <1>4, <1>7, <2>3, <3>2
  <2>4. CASE k # c /\ i # c /\ i # p
    BY <1>1, <1>4, <1>5, <1>7, <2>4
  <2> QED
    BY <2>1, <2>2, <2>3, <2>4
<1>8. ASSUME NEW i \in 1..L, NEW k \in 1..L, Child(i, p), Child(p, k)
      PROVE  Fits(u[i], u[k])
  <2>1. i < p /\ p < k /\ i # p /\ i # c /\ k # p
    BY <1>1, <1>2, <1>3, <1>8
  <2>2. Fits(s[i], s[p]) /\ u[i] = s[i]
    BY <1>1, <1>2, <1>4, <1>5, <1>8, <2>1
  <2>3. CASE k = c
    BY <1>4, <2>2, <2>3
  <2>4. CASE k # c
    <3>1. Fits(s[p], s[k]) /\ u[k] = s[k]
      BY <1>1, <1>4, <1>5, <1>8, <2>1, <2>4
    <3> QED
      BY <1>1, <1>6, <2>2, <3>1
  <2> QED
    BY <2>3, <2>4
<1> QED
  BY <1>1, <1>7, <1>8 DEF HeapedBut

\* A round of sinking leaves at most one node, a place lower, out of order.
LEMMA SinkHeaped ==
    ASSUME QueueAssumption, NEW s, Len(s) \in Nat, \A k \in 1..Len(s) : s[k] \in QueueNodes,
           NEW p \in 1..Len(s), NEW c \in 1..Len(s), Child(p, c),
           NEW lo \in Nat, lo <= p, HeapedFrom(s, lo, p), comesBefore(s[c], s[p]),
           \A k \in 1..Len(s) : Child(p, k) => Fits(s[c], s[k]),
           NEW u, Trade(s, u, p, c)
    PROVE  HeapedFrom(u, lo, c)
<1>1. PICK L \in Nat : L = Len(s) /\ Len(u) = L
  BY DEF Trade
<1>2. p < c /\ \A j \in 1..L : Child(j, c) => j = p
  BY <1>1, ChildIs
<1>3. \A i, k \in 1..L : Child(i, k) => i < k
  BY ChildIs
<1>4. /\ u[p] = s[c] /\ u[c] = s[p] /\ \A k \in 1..L : k # p /\ k # c => u[k] = s[k]
      /\ \A k \in 1..L : s[k] \in QueueNodes
  BY <1>1 DEF Trade
<1>5. /\ \A i, k \in 1..L : Child(i, k) /\ i >= lo /\ i # p => Fits(s[i], s[k])
      /\ \A i, k \in 1..L : Child(i, p) /\ Child(p, k) /\ i >= lo => Fits(s[i], s[k])
  BY <1>1 DEF HeapedFrom
<1>6. Fits(s[c], s[p])
  BY <1>1, <1>4, FitsIsOrder
<1>7. ASSUME NEW i \in 1..L, NEW k \in 1..L, Child(i, k), i >= lo, i # c
      PROVE  Fits(u[i], u[k])
  <2>1. CASE i = p /\ k = c
    BY <1>4, <1>6, <2>1
  <2>2. CASE i = p /\ k # c
    BY <1>1, <1>3, <1>4, <1>7, <2>2
  <2>3. CASE i # p /\ k = p
    <3>1. Fits(s[i], s[c])
      BY <1>1, <1>5, <1>7, <2>3
    <3> QED
      BY <1>4, <1>7, <2>3, <3>1
  <2>4. CASE i # p /\ k = c
    BY <1>2, <1>7, <2>4
  <2>5. CASE i # p /\ k # p /\ k # c
    BY <1>1, <1>4, <1>5, <1>7, <2>5
  <2> QED
    BY <2>1, <2>2, <2>3, <2>4, <2>5
<1>8. ASSUME NEW i \in 1..L, NEW k \in 1..L, Child(i, c), Child(c, k), i >= lo
      PROVE  Fits(u[i], u[k])
  <2>1. i = p /\ c < k /\ c >= lo /\ k # p /\ k # c
    BY <1>1, <1>2, <1>3, <1>8
  <2>2. Fits(s[c], s[k])
    BY <1>1, <1>2, <1>5, <1>8, <2>1
  <2> QED
    BY <1>4, <2>1, <2>2
<1> QED
  BY <1>1, <1>7, <1>8 DEF HeapedFrom

\* What breaks the loops.
LEMMA RisenIsHeaped ==
    ASSUME NEW s, Len(s) \in Nat, NEW at \in 1..Len(s), HeapedBut(s, at),
           at > 1 => ~comesBefore(s[at], s[at \div 2])
    PROVE  Heaped(s)
<1> SUFFICES ASSUME NEW i \in 1..Len(s), NEW k \in 1..Len(s), Child(i, k) PROVE Fits(s[i], s[k])
  BY DEF Heaped
<1>1. CASE k # at
  BY <1>1 DEF HeapedBut
<1>2. CASE k = at
  <2>1. i = at \div 2 /\ at > 1
    BY <1>2, HalfIs, ChildIs
  <2> QED
    BY <1>2, <2>1 DEF Fits
<1> QED
  BY <1>1, <1>2

\* bestChild finds the one of the two below that comes first.
LEMMA BestIs ==
    ASSUME QueueAssumption, NEW s, Len(s) \in Nat, \A k \in 1..Len(s) : s[k] \in QueueNodes,
           NEW i \in 1..Len(s), i <= Len(s) \div 2
    PROVE  /\ bestChild(s, i) \in 1..Len(s) /\ Child(i, bestChild(s, i))
           /\ \A k \in 1..Len(s) : Child(i, k) => Fits(s[bestChild(s, i)], s[k])
<1>1. PICK L, b : L = Len(s) /\ L \in Nat /\ b = bestChild(s, i)
  OBVIOUS
<1>2. 2 * i \in 1..L
  BY <1>1, HalfIs
<1>3. CASE 2 * i + 1 <= L /\ comesBefore(s[2 * i + 1], s[2 * i])
  <2>1. b = 2 * i + 1 /\ b \in 1..L
    BY <1>1, <1>3 DEF bestChild
  <2>2. Fits(s[b], s[2 * i]) /\ Fits(s[b], s[b])
    BY <1>1, <1>2, <1>3, <2>1, FitsIsOrder
  <2> QED
    BY <1>1, <2>1, <2>2 DEF Child
<1>4. CASE ~(2 * i + 1 <= L /\ comesBefore(s[2 * i + 1], s[2 * i]))
  <2>1. b = 2 * i
    BY <1>1, <1>4 DEF bestChild
  <2>2. Fits(s[b], s[b])
    BY <1>1, <1>2, <2>1, FitsIsOrder
  <2>3. 2 * i + 1 \in 1..L => Fits(s[b], s[2 * i + 1])
    BY <1>1, <1>4, <2>1 DEF Fits
  <2> QED
    BY <1>1, <1>2, <2>1, <2>2, <2>3 DEF Child
<1> QED
  BY <1>3, <1>4

\* What sinks no further has put the heap in order.
LEMMA SunkIsHeaped ==
    ASSUME QueueAssumption, NEW s, Len(s) \in Nat, \A k \in 1..Len(s) : s[k] \in QueueNodes,
           NEW at \in 1..Len(s), NEW lo \in Nat, HeapedFrom(s, lo, at),
           at <= Len(s) \div 2 => ~comesBefore(s[bestChild(s, at)], s[at])
    PROVE  OrderedFrom(s, lo)
<1> SUFFICES ASSUME NEW i \in 1..Len(s), NEW k \in 1..Len(s), Child(i, k), i >= lo
             PROVE  Fits(s[i], s[k])
  BY DEF OrderedFrom
<1>1. CASE i # at
  BY <1>1 DEF HeapedFrom
<1>2. CASE i = at
  <2>1. at <= Len(s) \div 2
    <3>1. 2 * at <= Len(s)
      BY <1>2 DEF Child
    <3> QED
      BY <3>1, HalfIs
  <2>2. PICK b \in 1..Len(s) : b = bestChild(s, at) /\ Fits(s[b], s[k])
    BY <1>2, <2>1, BestIs
  <2>3. Fits(s[at], s[b])
    BY <2>1, <2>2 DEF Fits
  <2>4. s[at] \in QueueNodes /\ s[b] \in QueueNodes /\ s[k] \in QueueNodes
    OBVIOUS
  <2> QED
    BY <1>2, <2>2, <2>3, <2>4, FitsIsOrder
<1> QED
  BY <1>1, <1>2

\* A recursion whose n-th value is in T[n] is well defined, and what follows
\* its steps has these values.
Staged(m, T, F, d) ==
    m \in Nat /\ d \in T[0] /\ \A n \in 1..m : \A s \in T[n - 1] : F[n][s] \in T[n]
Follows(h, m, T, F, d) ==
    h[0] = d /\ \A n \in 1..m : h[n - 1] \in T[n - 1] => h[n] = F[n][h[n - 1]]
Rounds(S, d, m, F) == d \in S /\ m \in Nat /\ F \in [1..m -> [S -> S]]
Within(h, m, T) == \A n \in 0..m : h[n] \in T[n]
LEMMA Stages ==
    ASSUME NEW m, NEW T, NEW F, NEW d, Staged(m, T, F, d)
    PROVE  /\ \E g : g = [n \in 0..m |-> g[n]] /\ Follows(g, m, T, F, d) /\ Within(g, m, T)
           /\ \A h : Follows(h, m, T, F, d) => Within(h, m, T)
<1>0. m \in Nat /\ d \in T[0] /\ \A n \in 1..m : \A s \in T[n - 1] : F[n][s] \in T[n]
  BY DEF Staged
<1>1. ASSUME NEW h, Follows(h, m, T, F, d) PROVE Within(h, m, T)
  <2>1. PICK P : P = {n \in 0..m : h[n] \in T[n]}
    OBVIOUS
  <2>2. 0 \in P /\ P \in SUBSET (0..m)
    BY <1>0, <1>1, <2>1 DEF Follows
  <2>3. \A n \in 1..m : n - 1 \in P => n \in P
    BY <1>0, <1>1, <2>1 DEF Follows
  <2>4. \A n \in 0..m : n \in P
    BY <1>0, <2>2, <2>3, CountingUp
  <2> QED
    BY <2>1, <2>4 DEF Within
<1>2. PICK S : S = UNION {T[n] : n \in 0..m}
  OBVIOUS
<1>3. d \in S /\ \A n \in 0..m : T[n] \in SUBSET S
  BY <1>0, <1>2
<1>4. PICK G : G = [n \in 1..m |-> [s \in S |-> IF s \in T[n - 1] THEN F[n][s] ELSE s]]
  OBVIOUS
<1>5. Rounds(S, d, m, G)
  <2>1. \A n \in 1..m, s \in S : (IF s \in T[n - 1] THEN F[n][s] ELSE s) \in S
    BY <1>0, <1>3
  <2>2. G \in [1..m -> [S -> S]]
    BY <1>4, <2>1
  <2> QED
    BY <1>0, <1>3, <2>2 DEF Rounds
<1>6. PICK g \in [0..m -> S] : g[0] = d /\ \A n \in 1..m : g[n] = G[n][g[n - 1]]
  <2>1. ASSUME NEW D, NEW c, NEW k, NEW H, Rounds(D, c, k, H)
        PROVE  \E g \in [0..k -> D] : g[0] = c /\ \A n \in 1..k : g[n] = H[n][g[n - 1]]
    <3>1. c \in D
      BY <2>1 DEF Rounds
    <3>2. k \in Nat
      BY <2>1 DEF Rounds
    <3>3. H \in [1..k -> [D -> D]]
      BY <2>1 DEF Rounds
    <3> HIDE <1>0
    <3> QED
      BY <3>1, <3>2, <3>3, StepsExist
  <2> QED
    BY <1>5, <2>1
<1>7. Follows(g, m, T, F, d)
  <2>1. ASSUME NEW n \in 1..m, g[n - 1] \in T[n - 1] PROVE g[n] = F[n][g[n - 1]]
    <3>1. g[n - 1] \in S
      BY <1>0, <1>6
    <3>2. G[n][g[n - 1]] = F[n][g[n - 1]]
      BY <1>4, <2>1, <3>1
    <3> QED
      BY <1>6, <3>2
  <2> QED
    BY <1>6, <2>1 DEF Follows
<1>8. Within(g, m, T)
  BY <1>1, <1>7
<1>9. g = [n \in 0..m |-> g[n]]
  BY <1>6
<1> QED
  BY <1>1, <1>7, <1>8, <1>9

\* The queue and the place of the node that moves, in a loop of q.
Loops == [queue : QueueShapes, at : Nat]
Moving(q, s) ==
    /\ s \in Loops /\ Indexed(s.queue) /\ SameNodes(q, s.queue) /\ s.at \in 1..Len(q.store)
Rises(s) == s.at > 1 /\ comesBefore(s.queue.store[s.at], s.queue.store[s.at \div 2])
Sinks(s) ==
    /\ s.at <= Len(s.queue.store) \div 2
    /\ comesBefore(s.queue.store[bestChild(s.queue.store, s.at)], s.queue.store[s.at])

\* To have the same nodes is reflexive and transitive.
LEMMA SameNodesIs ==
    ASSUME NEW q, NEW r, SameNodes(q, r)
    PROVE  /\ SameNodes(q, q)
           /\ \A t : SameNodes(r, t) => SameNodes(q, t)
BY DEF SameNodes

\* A swap with the node above or below.
LEMMA MovedIs ==
    ASSUME NEW q, NEW s, Moving(q, s), NEW p \in 1..Len(q.store), NEW c \in 1..Len(q.store), p # c,
           NEW i, NEW j, (i = p /\ j = c) \/ (i = c /\ j = p), s.at = i,
           NEW r, r = Swapped(s.queue, i, j), NEW t, t = [queue |-> r, at |-> j]
    PROVE  /\ Moving(q, t) /\ Trade(s.queue.store, r.store, p, c)
<1>1. PICK w : w = s.queue /\ Indexed(w) /\ SameNodes(q, w) /\ Len(w.store) = Len(q.store)
  BY DEF Moving, SameNodes
<1>2. i \in 1..Len(w.store) /\ j \in 1..Len(w.store) /\ i # j /\ r = Swapped(w, i, j)
  BY <1>1
<1>3. /\ Indexed(r) /\ SameNodes(w, r) /\ r.store[i] = w.store[j] /\ r.store[j] = w.store[i]
      /\ \A k \in 1..Len(w.store) : k # i /\ k # j => r.store[k] = w.store[k]
  BY <1>1, <1>2, SwappedIs
<1>4. SameNodes(q, r) /\ Len(r.store) = Len(w.store)
  BY <1>1, <1>3, SameNodesIs DEF SameNodes
<1>5. r \in QueueShapes /\ Len(q.store) \in Nat
  BY <1>1, <1>3, IndexedIs DEF Indexed
<1>6. Moving(q, t)
  BY <1>1, <1>2, <1>3, <1>4, <1>5 DEF Moving, Loops
<1>7. Trade(w.store, r.store, p, c)
  BY <1>2, <1>3, <1>4 DEF Trade
<1> QED
  BY <1>1, <1>6, <1>7

\* A round of the loop of siftUp: until it ends the node gets higher.
Rising(q, i, n) ==
    {s \in Loops : Moving(q, s) /\ HeapedBut(s.queue.store, s.at) /\ (Rises(s) => s.at + n <= i)}
LEMMA RiseStep ==
    ASSUME QueueAssumption, NEW q, Indexed(q), NEW i \in Nat, NEW n \in Nat, n > 0,
           NEW s \in Rising(q, i, n - 1)
    PROVE  rise(s) \in Rising(q, i, n)
<1>1. PICK w, c, u : w = s.queue /\ c = s.at /\ u = w.store
  OBVIOUS
<1>2. /\ s \in Loops /\ Moving(q, s) /\ HeapedBut(u, c) /\ (Rises(s) => c + (n - 1) <= i)
  BY <1>1 DEF Rising
<1>3. /\ Indexed(w) /\ SameNodes(q, w) /\ Len(u) = Len(q.store) /\ c \in 1..Len(u) /\ Len(u) \in Nat
      /\ \A k \in 1..Len(u) : u[k] \in QueueNodes
  BY <1>1, <1>2, IndexedIs DEF Moving, SameNodes
<1>4. CASE ~Rises(s)
  <2>1. rise(s) = s
    BY <1>4 DEF rise, Rises
  <2> QED
    BY <1>1, <1>2, <1>4, <2>1 DEF Rising
<1>5. CASE Rises(s)
  <2>1. PICK p, r, t : p = c \div 2 /\ r = Swapped(w, c, p) /\ t = [queue |-> r, at |-> p]
    OBVIOUS
  <2>2. c > 1 /\ comesBefore(u[c], u[p])
    BY <1>1, <1>5, <2>1 DEF Rises
  <2>3. rise(s) = t /\ t.queue = r /\ t.at = p
    BY <1>1, <1>5, <2>1 DEF rise, Rises
  <2>4. p \in 1..Len(u) /\ Child(p, c) /\ p < c /\ p # c
    BY <1>3, <2>1, <2>2, HalfIs
  <2>5. Moving(q, t) /\ Trade(u, r.store, p, c)
    BY <1>1, <1>2, <1>3, <2>1, <2>4, MovedIs
  <2>6. HeapedBut(r.store, p)
    BY <1>2, <1>3, <2>2, <2>4, <2>5, RiseHeaped
  <2>7. t \in Loops /\ p + n <= i
    <3>1. c + (n - 1) <= i /\ c \in Nat /\ p \in Nat
      BY <1>2, <1>3, <1>5, <2>4
    <3>2. p + n <= i
      BY <2>4, <3>1
    <3> QED
      BY <2>5, <3>2 DEF Moving
  <2> QED
    BY <2>3, <2>5, <2>6, <2>7 DEF Rising
<1> QED
  BY <1>4, <1>5

\* siftUp moves a node to where it fits.
LEMMA SiftUpIs ==
    ASSUME QueueAssumption, NEW q, Indexed(q), NEW i \in 1..Len(q.store), HeapedBut(q.store, i)
    PROVE  /\ Indexed(siftUp(q, i)) /\ SameNodes(q, siftUp(q, i)) /\ Heaped(siftUp(q, i).store)
<1>1. PICK m, d, T, F : /\ m = Len(q.store) /\ d = [queue |-> q, at |-> i]
                        /\ T = [n \in 0..m |-> Rising(q, i, n)]
                        /\ F = [n \in 1..m |-> [s \in Rising(q, i, n - 1) |-> rise(s)]]
  OBVIOUS
<1>2. m \in Nat /\ i \in 1..m
  BY <1>1, IndexedIs
<1>3. d \in Rising(q, i, 0)
  <2>1. Moving(q, d) /\ d.queue = q /\ d.at = i
    BY <1>1, <1>2 DEF Moving, Loops, Indexed, SameNodes
  <2> QED
    BY <1>2, <2>1 DEF Rising, Moving
<1>4. Staged(m, T, F, d)
  <2>1. ASSUME NEW n \in 1..m, NEW s \in T[n - 1] PROVE F[n][s] \in T[n]
    <3>1. s \in Rising(q, i, n - 1) /\ n - 1 \in 0..m /\ n \in 0..m /\ n \in Nat /\ n > 0
      BY <1>1, <1>2, <2>1
    <3>2. s \in Rising(q, i, n - 1) /\ i \in Nat
      BY <1>2, <3>1
    <3>3. rise(s) \in Rising(q, i, n)
      BY <3>1, <3>2, RiseStep
    <3> QED
      BY <1>1, <3>1, <3>3
  <2>2. T[0] = Rising(q, i, 0)
    BY <1>1, <1>2
  <2> QED
    BY <1>2, <1>3, <2>1, <2>2, Zenon DEF Staged
<1> DEFINE Runs(h) == h = [n \in 0..m |-> IF n = 0 THEN d ELSE rise(h[n - 1])]
<1>5. \A n \in 1..m : \A s \in T[n - 1] : F[n][s] = rise(s)
  BY <1>1, <1>2
<1>6. PICK g : g = [n \in 0..m |-> g[n]] /\ Follows(g, m, T, F, d) /\ Within(g, m, T)
  BY <1>4, Stages
<1>7. Runs(g)
  <2>1. \A n \in 0..m : n # 0 => n \in 1..m /\ n - 1 \in 0..m
    BY <1>2
  <2>2. \A n \in 0..m : g[n] = IF n = 0 THEN d ELSE rise(g[n - 1])
    BY <1>5, <1>6, <2>1, Zenon DEF Follows, Within
  <2> QED
    BY <1>6, <2>2
<1>8. PICK after : after = CHOOSE h : Runs(h)
  OBVIOUS
<1>9. Runs(after)
  <2> HIDE DEF Runs
  <2> QED
    BY <1>7, <1>8
<1>10. siftUp(q, i) = after[m].queue
  BY <1>1, <1>8 DEF siftUp
<1>11. after[0] = d /\ \A n \in 1..m : after[n] = rise(after[n - 1])
  <2>1. \A n \in 0..m : after[n] = IF n = 0 THEN d ELSE rise(after[n - 1])
    BY <1>9
  <2> QED
    BY <1>2, <2>1
<1>12. Follows(after, m, T, F, d)
  BY <1>5, <1>11, Zenon DEF Follows
<1>13. Within(after, m, T)
  BY <1>4, <1>12, Stages
<1>14. PICK t : t = after[m] /\ t \in Rising(q, i, m)
  <2>1. m \in 0..m /\ T[m] = Rising(q, i, m)
    BY <1>1, <1>2
  <2> QED
    BY <1>13, <2>1, Zenon DEF Within
<1>15. Moving(q, t) /\ HeapedBut(t.queue.store, t.at) /\ t.at \in 1..m /\ ~Rises(t)
  BY <1>1, <1>2, <1>14 DEF Rising, Moving
<1>16. Indexed(t.queue) /\ SameNodes(q, t.queue) /\ Len(t.queue.store) = m
  BY <1>1, <1>15 DEF Moving, SameNodes
<1>17. Heaped(t.queue.store)
  BY <1>2, <1>15, <1>16, RisenIsHeaped DEF Rises
<1> QED
  BY <1>10, <1>14, <1>16, <1>17

\* A round of the loop of siftDown: until it ends the node gets lower.
Sinking(q, lo, i, n) ==
    {s \in Loops : /\ Moving(q, s) /\ lo <= s.at /\ HeapedFrom(s.queue.store, lo, s.at)
                   /\ Sinks(s) => s.at >= i + n}
LEMMA SinkStep ==
    ASSUME QueueAssumption, NEW q, Indexed(q), NEW lo \in Nat, NEW i \in Nat, NEW n \in Nat, n > 0,
           NEW s \in Sinking(q, lo, i, n - 1)
    PROVE  sink(s) \in Sinking(q, lo, i, n)
<1>1. PICK w, p, u : w = s.queue /\ p = s.at /\ u = w.store
  OBVIOUS
<1>2. /\ s \in Loops /\ Moving(q, s) /\ lo <= p /\ HeapedFrom(u, lo, p)
      /\ Sinks(s) => p >= i + (n - 1)
  BY <1>1 DEF Sinking
<1>3. /\ Indexed(w) /\ SameNodes(q, w) /\ Len(u) = Len(q.store) /\ p \in 1..Len(u) /\ Len(u) \in Nat
      /\ \A k \in 1..Len(u) : u[k] \in QueueNodes
  BY <1>1, <1>2, IndexedIs DEF Moving, SameNodes
<1>4. CASE ~Sinks(s)
  <2>1. sink(s) = s
    BY <1>4 DEF sink, Sinks
  <2> QED
    BY <1>1, <1>2, <1>4, <2>1 DEF Sinking
<1>5. CASE Sinks(s)
  <2>1. PICK c, r, t : c = bestChild(u, p) /\ r = Swapped(w, p, c) /\ t = [queue |-> r, at |-> c]
    OBVIOUS
  <2>2. p <= Len(u) \div 2 /\ comesBefore(u[c], u[p])
    BY <1>1, <1>5, <2>1 DEF Sinks
  <2>3. sink(s) = t /\ t.queue = r /\ t.at = c
    BY <1>1, <1>5, <2>1 DEF sink, Sinks
  <2>4. c \in 1..Len(u) /\ Child(p, c) /\ \A k \in 1..Len(u) : Child(p, k) => Fits(u[c], u[k])
    BY <1>3, <2>1, <2>2, BestIs
  <2>5. p < c /\ p # c
    BY <1>3, <2>4, ChildIs
  <2>6. Moving(q, t) /\ Trade(u, r.store, p, c)
    <3>1. p \in 1..Len(q.store) /\ c \in 1..Len(q.store)
      BY <1>3, <2>4
    <3>2. s.at = p /\ r = Swapped(s.queue, p, c) /\ t = [queue |-> r, at |-> c] /\ u = s.queue.store
      BY <1>1, <2>1
    <3>3. Moving(q, s) /\ p # c /\ ((p = p /\ c = c) \/ (p = c /\ c = p))
      BY <1>2, <2>5
    <3> QED
      BY <3>1, <3>2, <3>3, MovedIs
  <2>7. HeapedFrom(r.store, lo, c)
    BY <1>2, <1>3, <2>2, <2>4, <2>6, SinkHeaped
  <2>8. t \in Loops /\ c >= i + n /\ lo <= c
    <3>1. p >= i + (n - 1) /\ p \in Nat /\ c \in Nat /\ lo <= p
      BY <1>2, <1>3, <1>5, <2>4
    <3>2. c >= i + n /\ lo <= c
      BY <2>5, <3>1
    <3> QED
      BY <2>6, <3>2 DEF Moving
  <2> QED
    BY <2>3, <2>6, <2>7, <2>8 DEF Sinking
<1> QED
  BY <1>4, <1>5

\* siftDown moves a node to where it fits, with everything from lo on.
LEMMA SiftDownIs ==
    ASSUME QueueAssumption, NEW q, Indexed(q), NEW i \in 1..Len(q.store),
           NEW lo \in Nat, lo <= i, HeapedFrom(q.store, lo, i)
    PROVE  /\ Indexed(siftDown(q, i)) /\ SameNodes(q, siftDown(q, i))
           /\ OrderedFrom(siftDown(q, i).store, lo)
<1>1. PICK m, d, T, F : /\ m = Len(q.store) /\ d = [queue |-> q, at |-> i]
                        /\ T = [n \in 0..m |-> Sinking(q, lo, i, n)]
                        /\ F = [n \in 1..m |-> [s \in Sinking(q, lo, i, n - 1) |-> sink(s)]]
  OBVIOUS
<1>2. m \in Nat /\ i \in 1..m
  BY <1>1, IndexedIs
<1>3. d \in Sinking(q, lo, i, 0)
  <2>1. Moving(q, d) /\ d.queue = q /\ d.at = i
    BY <1>1, <1>2 DEF Moving, Loops, Indexed, SameNodes
  <2> QED
    BY <1>2, <2>1 DEF Sinking, Moving
<1>4. Staged(m, T, F, d)
  <2>1. ASSUME NEW n \in 1..m, NEW s \in T[n - 1] PROVE F[n][s] \in T[n]
    <3>1. n - 1 \in 0..m /\ n \in 0..m /\ n \in Nat /\ n > 0
      BY <1>1, <1>2, <2>1
    <3>2. s \in Sinking(q, lo, i, n - 1) /\ i \in Nat
      BY <1>1, <1>2, <3>1
    <3>3. sink(s) \in Sinking(q, lo, i, n)
      BY <3>1, <3>2, SinkStep
    <3> QED
      BY <1>1, <3>1, <3>2, <3>3
  <2>2. T[0] = Sinking(q, lo, i, 0)
    BY <1>1, <1>2
  <2> QED
    BY <1>2, <1>3, <2>1, <2>2, Zenon DEF Staged
<1> DEFINE Runs(h) == h = [n \in 0..m |-> IF n = 0 THEN d ELSE sink(h[n - 1])]
<1>5. \A n \in 1..m : \A s \in T[n - 1] : F[n][s] = sink(s)
  BY <1>1, <1>2
<1>6. PICK g : g = [n \in 0..m |-> g[n]] /\ Follows(g, m, T, F, d) /\ Within(g, m, T)
  BY <1>4, Stages
<1>7. Runs(g)
  <2>1. \A n \in 0..m : n # 0 => n \in 1..m /\ n - 1 \in 0..m
    BY <1>2
  <2>2. \A n \in 0..m : g[n] = IF n = 0 THEN d ELSE sink(g[n - 1])
    BY <1>5, <1>6, <2>1, Zenon DEF Follows, Within
  <2> QED
    BY <1>6, <2>2
<1>8. PICK after : after = CHOOSE h : Runs(h)
  OBVIOUS
<1>9. Runs(after)
  <2> HIDE DEF Runs
  <2> QED
    BY <1>7, <1>8
<1>10. siftDown(q, i) = after[m].queue
  BY <1>1, <1>8 DEF siftDown
<1>11. after[0] = d /\ \A n \in 1..m : after[n] = sink(after[n - 1])
  <2>1. \A n \in 0..m : after[n] = IF n = 0 THEN d ELSE sink(after[n - 1])
    BY <1>9
  <2> QED
    BY <1>2, <2>1
<1>12. Follows(after, m, T, F, d)
  BY <1>5, <1>11, Zenon DEF Follows
<1>13. Within(after, m, T)
  BY <1>4, <1>12, Stages
<1>14. PICK t : t = after[m] /\ t \in Sinking(q, lo, i, m)
  <2>1. m \in 0..m /\ T[m] = Sinking(q, lo, i, m)
    BY <1>1, <1>2
  <2> QED
    BY <1>13, <2>1, Zenon DEF Within
<1>15. Moving(q, t) /\ HeapedFrom(t.queue.store, lo, t.at) /\ t.at \in 1..m /\ ~Sinks(t)
  BY <1>1, <1>2, <1>14 DEF Sinking, Moving
<1>16. /\ Indexed(t.queue) /\ SameNodes(q, t.queue) /\ Len(t.queue.store) = m
       /\ \A k \in 1..m : t.queue.store[k] \in QueueNodes
  BY <1>1, <1>15, IndexedIs DEF Moving, SameNodes
<1>17. OrderedFrom(t.queue.store, lo)
  BY <1>2, <1>15, <1>16, SunkIsHeaped DEF Sinks
<1> QED
  BY <1>10, <1>14, <1>16, <1>17

\* The queues of the same nodes in which all from lo on is in order.
Sifted(q, lo) == {r \in QueueShapes : Indexed(r) /\ SameNodes(q, r) /\ OrderedFrom(r.store, lo)}

\* heapify lets every node sink that has another below it, from the last one on.
LEMMA HeapifyIs ==
    ASSUME QueueAssumption, NEW q, Indexed(q)
    PROVE  Indexed(heapify(q)) /\ SameNodes(q, heapify(q)) /\ Heaped(heapify(q).store)
<1>1. PICK L, m, T, F : /\ L = Len(q.store) /\ m = L \div 2 
                    /\ T = [n \in 0..m |-> Sifted(q, m + 1 - n)]
                    /\ F = [n \in 1..m |-> [r \in Sifted(q, m + 1 - (n - 1)) |->
                                              siftDown(r, m + 1 - n)]]
  OBVIOUS
<1>18. /\ T = [n \in 0..m |-> Sifted(q, m + 1 - n)]
       /\ F = [n \in 1..m |-> [r \in Sifted(q, m + 1 - (n - 1)) |-> siftDown(r, m + 1 - n)]]
  BY <1>1
<1>2. L \in Nat /\ m \in Nat /\ m <= L
  <2>1. L \in Nat
    BY <1>1, IndexedIs
  <2>2. L \div 2 \in Nat /\ L \div 2 <= L
    BY <2>1, HalfIs
  <2>3. m = L \div 2
    BY <1>1
  <2> QED
    BY <2>1, <2>2, <2>3
<1>3. q \in Sifted(q, m + 1 - 0)
  <2>1. \A i, k \in 1..L : Child(i, k) => ~(i >= m + 1 - 0)
    <3> TAKE i, k \in 1..L
    <3>1. Child(i, k) => 2 * i <= L
      BY <1>2 DEF Child
    <3>2. 2 * i <= L => i <= L \div 2
      BY <1>2, HalfIs
    <3>3. m = L \div 2
      BY <1>1
    <3>4. Child(i, k) => i <= m
      BY <3>1, <3>2, <3>3
    <3> QED
      BY <1>2, <3>4
  <2>2. L = Len(q.store)
    BY <1>1
  <2> QED
    BY <2>1, <2>2 DEF OrderedFrom, Indexed, SameNodes, Sifted
<1>4. Staged(m, T, F, q)
  <2>1. ASSUME NEW n \in 1..m, NEW r \in T[n - 1] PROVE F[n][r] \in T[n]
    <3>1. n - 1 \in 0..m /\ n \in 0..m /\ n \in Nat /\ n > 0
      BY <1>2
    <3>2. PICK lo : lo = m + 1 - n /\ lo \in Nat /\ lo \in 1..L /\ lo + 1 = m + 1 - (n - 1)
      BY <1>2, <3>1
    <3>3. /\ Indexed(r) /\ SameNodes(q, r) /\ OrderedFrom(r.store, lo + 1)
          /\ Len(r.store) = L /\ r \in Sifted(q, m + 1 - (n - 1))
      BY <1>1, <2>1, <3>1, <3>2 DEF SameNodes, Sifted
    <3>4. HeapedFrom(r.store, lo, lo)
      <4>1. \A i, k \in 1..L : Child(i, k) /\ i >= lo /\ i # lo => i >= lo + 1
        BY <1>2, <3>2
      <4>2. \A i \in 1..L : Child(i, lo) => ~(i >= lo)
        BY <1>2, <3>2, ChildIs
      <4> QED
        BY <3>3, <4>1, <4>2 DEF HeapedFrom, OrderedFrom
    <3>5. PICK t : t = siftDown(r, lo) /\ Indexed(t) /\ SameNodes(r, t) /\ OrderedFrom(t.store, lo)
      BY <3>2, <3>3, <3>4, SiftDownIs
    <3>6. SameNodes(q, t) /\ t \in QueueShapes
      BY <3>3, <3>5, SameNodesIs DEF Indexed
    <3>7. t \in Sifted(q, m + 1 - n) /\ F[n][r] = t
      BY <1>1, <3>2, <3>3, <3>5, <3>6 DEF Sifted
    <3> QED
      BY <1>1, <3>1, <3>7
  <2>2. T[0] = Sifted(q, m + 1 - 0)
    BY <1>1, <1>2
  <2> QED
    BY <1>2, <1>3, <2>1, <2>2, Zenon DEF Staged
<1> DEFINE Runs(h) == h = [n \in 0..m |-> IF n = 0 THEN q ELSE siftDown(h[n - 1], m + 1 - n)]
<1>5. \A n \in 1..m : \A r \in T[n - 1] : F[n][r] = siftDown(r, m + 1 - n)
  BY <1>2, <1>18
<1>6. PICK g : g = [n \in 0..m |-> g[n]] /\ Follows(g, m, T, F, q) /\ Within(g, m, T)
  BY <1>4, Stages
<1>7. Runs(g)
  <2>1. \A n \in 0..m : n # 0 => n \in 1..m /\ n - 1 \in 0..m
    BY <1>2
  <2>2. \A n \in 0..m : g[n] = IF n = 0 THEN q ELSE siftDown(g[n - 1], m + 1 - n)
    BY <1>5, <1>6, <2>1, Zenon DEF Follows, Within
  <2> QED
    BY <1>6, <2>2
<1>8. PICK after : after = CHOOSE h : Runs(h)
  OBVIOUS
<1>9. Runs(after)
  <2> HIDE DEF Runs
  <2> QED
    BY <1>7, <1>8
<1>10. heapify(q) = after[m]
  BY <1>1, <1>8 DEF heapify
<1>11. after[0] = q /\ \A n \in 1..m : after[n] = siftDown(after[n - 1], m + 1 - n)
  <2>1. \A n \in 0..m : after[n] = IF n = 0 THEN q ELSE siftDown(after[n - 1], m + 1 - n)
    BY <1>9
  <2> QED
    BY <1>2, <2>1
<1>12. Follows(after, m, T, F, q)
  BY <1>5, <1>11, Zenon DEF Follows
<1>13. Within(after, m, T)
  BY <1>4, <1>12, Stages
<1>14. after[m] \in Sifted(q, m + 1 - m)
  <2>1. m \in 0..m /\ T[m] = Sifted(q, m + 1 - m)
    BY <1>2, <1>18
  <2> QED
    BY <1>13, <2>1, Zenon DEF Within
<1>15. \A i \in Nat : i >= m + 1 - m <=> i >= 1
  BY <1>2
<1>16. PICK t : t = after[m] /\ Indexed(t) /\ SameNodes(q, t) /\ OrderedFrom(t.store, m + 1 - m)
  BY <1>14 DEF Sifted
<1>17. Heaped(t.store)
  <2>1. \A i \in 1..Len(t.store) : i >= m + 1 - m
    BY <1>15
  <2> QED
    BY <1>16, <2>1 DEF OrderedFrom, Heaped
<1> QED
  BY <1>10, <1>16, <1>17

\* A heap in which one node is another one now, and which may have got shorter.
OneChanged(s, u, i) ==
    /\ Len(u) \in Nat /\ Len(u) <= Len(s) /\ i \in 1..Len(u)
    /\ \A k \in 1..Len(u) : u[k] \in QueueNodes
    /\ \A k \in 1..Len(u) : k # i => u[k] = s[k]
LEMMA ChangedHeap ==
    ASSUME QueueAssumption, NEW s, Len(s) \in Nat, \A k \in 1..Len(s) : s[k] \in QueueNodes,
           Heaped(s), NEW u, NEW i, OneChanged(s, u, i)
    PROVE  /\ (\A k \in 1..Len(u) : Child(i, k) => Fits(u[i], u[k])) => HeapedBut(u, i)
           /\ (\A k \in 1..Len(u) : Child(k, i) => Fits(u[k], u[i])) => HeapedFrom(u, 1, i)
<1>1. PICK L, M : L = Len(s) /\ M = Len(u) /\ L \in Nat /\ M \in Nat /\ M <= L /\ i \in 1..M
  BY DEF OneChanged
<1>2. /\ \A k \in 1..M : k # i => u[k] = s[k]
      /\ \A k \in 1..M : k \in 1..L /\ u[k] \in QueueNodes
  BY <1>1 DEF OneChanged
<1>3. \A j, k \in 1..L : Child(j, k) => j < k /\ Fits(s[j], s[k])
  BY <1>1, ChildIs DEF Heaped
<1>4. \A j, k \in 1..M : Child(j, k) /\ j # i /\ k # i => Fits(u[j], u[k])
  BY <1>2, <1>3
<1>5. \A j, k \in 1..M : Child(j, i) /\ Child(i, k) => Fits(u[j], u[k])
  <2> TAKE j, k \in 1..M
  <2>1. HAVE Child(j, i) /\ Child(i, k)
  <2>2. j # i /\ k # i /\ Fits(s[j], s[i]) /\ Fits(s[i], s[k])
    BY <1>1, <1>2, <1>3, <2>1
  <2>3. s[i] \in QueueNodes /\ s[j] \in QueueNodes /\ s[k] \in QueueNodes
    BY <1>1, <1>2
  <2>4. Fits(s[j], s[k])
    BY <2>2, <2>3, FitsIsOrder
  <2> QED
    BY <1>2, <2>2, <2>4
<1>6. ASSUME \A k \in 1..M : Child(i, k) => Fits(u[i], u[k]) PROVE HeapedBut(u, i)
  BY <1>1, <1>4, <1>5, <1>6 DEF HeapedBut
<1>7. ASSUME \A k \in 1..M : Child(k, i) => Fits(u[k], u[i]) PROVE HeapedFrom(u, 1, i)
  BY <1>1, <1>4, <1>5, <1>7 DEF HeapedFrom
<1> QED
  BY <1>1, <1>6, <1>7

\* A heap with one more node behind.
LEMMA LongerHeap ==
    ASSUME NEW s, NEW u, Len(s) \in Nat, Len(u) = Len(s) + 1, Heaped(s),
           \A k \in 1..Len(s) : u[k] = s[k]
    PROVE  HeapedBut(u, Len(u))
<1>1. PICK L, M : L = Len(s) /\ M = Len(u) /\ L \in Nat /\ M = L + 1
  OBVIOUS
<1>2. \A j, k \in 1..M : Child(j, k) => j < k
  BY <1>1, ChildIs
<1>3. \A j, k \in 1..L : Child(j, k) => Fits(s[j], s[k])
  BY <1>1 DEF Heaped
<1>4. \A j, k \in 1..M : j < k => j \in 1..L /\ (k # M => k \in 1..L)
  BY <1>1
<1>5. \A k \in 1..M : ~(M < k)
  BY <1>1
<1> QED
  BY <1>1, <1>2, <1>3, <1>4, <1>5 DEF HeapedBut

\* The node at the root comes first.
LEMMA RootIsFirst ==
    ASSUME QueueAssumption, NEW s, Len(s) \in Nat, \A k \in 1..Len(s) : s[k] \in QueueNodes,
           Heaped(s), Len(s) > 0
    PROVE  \A k \in 1..Len(s) : Fits(s[1], s[k])
<1>1. PICK L, B : L = Len(s) /\ L \in Nat /\ L > 0 /\ B = {k \in 1..L : ~Fits(s[1], s[k])}
  OBVIOUS
<1>2. SUFFICES ASSUME B # {} PROVE FALSE
  BY <1>1
<1>3. IsFiniteSet(1..L) /\ B \in SUBSET (1..L) /\ B \in SUBSET Nat
  <2>1. 1 \in Int /\ L \in Int
    BY <1>1
  <2>2. IsFiniteSet(1..L)
    BY <2>1, FS_Interval
  <2> QED
    BY <1>1, <2>2
<1>4. IsFiniteSet(B)
  BY <1>3, FS_Subset
<1>5. PICK b \in B : \A i \in B : b <= i
  BY <1>2, <1>3, <1>4, FirstAndLast
<1>6. b \in 1..L /\ b \in Nat /\ ~Fits(s[1], s[b])
  BY <1>1, <1>5
<1>7. b > 1
  BY <1>1, <1>6, FitsIsOrder
<1>8. PICK a : a \in 1..L /\ a < b /\ Child(a, b)
  <2>1. b \div 2 \in 1..b - 1 /\ Child(b \div 2, b)
    BY <1>6, <1>7, HalfIs
  <2>2. L \in Nat
    BY <1>1
  <2>3. \A a \in 1..b - 1 : a \in 1..L /\ a < b
    BY <1>6, <2>2
  <2> QED
    BY <2>1, <2>3
<1>9. Fits(s[1], s[a])
  BY <1>1, <1>5, <1>6, <1>8
<1>10. Fits(s[a], s[b])
  BY <1>1, <1>6, <1>8 DEF Heaped
<1>11. s[1] \in QueueNodes /\ s[a] \in QueueNodes /\ s[b] \in QueueNodes
  BY <1>1, <1>6, <1>8
<1> QED
  BY <1>6, <1>9, <1>10, <1>11, FitsIsOrder

\* r is q without the node of h, or with one node more.
Without(q, r, h) ==
    /\ DOMAIN r.index = DOMAIN q.index \ {h}
    /\ \A g \in DOMAIN r.index : NodeOf(r, g) = NodeOf(q, g)
Joined(q, r, node) ==
    /\ DOMAIN r.index = DOMAIN q.index \cup {node.handle} /\ NodeOf(r, node.handle) = node
    /\ \A g \in DOMAIN q.index : NodeOf(r, g) = NodeOf(q, g)

\* Sifting changes nothing about who is gone.
LEMMA WithoutIs ==
    ASSUME NEW q, NEW r, NEW h, Without(q, r, h), NEW t, SameNodes(r, t)
    PROVE  Without(q, t, h)
BY DEF Without, SameNodes

\* Nor about who has joined.
LEMMA JoinedIs ==
    ASSUME NEW q, NEW r, NEW node, Joined(q, r, node), NEW t, SameNodes(r, t)
    PROVE  Joined(q, t, node)
BY DEF Joined, SameNodes

\* An index that leads to the nodes of an array.
LEMMA IndexLeads ==
    ASSUME NEW q, Indexed(q), NEW k \in 1..Len(q.store)
    PROVE  NodeOf(q, q.store[k].handle) = q.store[k] /\ q.store[k].handle \in DOMAIN q.index
BY IndexedIs DEF NodeOf, Indexed

\* A node stored behind the last.
LEMMA StoredBehind ==
    ASSUME NEW q, Indexed(q), NEW node \in QueueNodes, node.handle \notin DOMAIN q.index,
           NEW r, r = Placed(q, Len(q.store) + 1, node)
    PROVE  /\ Indexed(r) /\ Joined(q, r, node) /\ Len(r.store) = Len(q.store) + 1
           /\ \A k \in 1..Len(q.store) : r.store[k] = q.store[k]
           /\ r.store[Len(r.store)] = node
<1>1. PICK u, g, i : /\ u = Append(q.store, node) /\ i = Len(q.store) + 1
                     /\ g = indexed(q.index, node.handle, i)
  OBVIOUS
<1>2. /\ q.store \in Seq(QueueNodes) /\ Len(q.store) \in Nat /\ q.index \in Indexes
      /\ DOMAIN q.index = {q.store[k].handle : k \in 1..Len(q.store)}
      /\ \A k \in 1..Len(q.store) : q.store[k] \in QueueNodes /\ q.store[k].handle \in Nat
      /\ \A k \in 1..Len(q.store) : q.index[q.store[k].handle] = k
  BY IndexedIs DEF Indexed
<1>3. i \in Nat /\ i > Len(q.store) /\ node.handle \in Nat
  BY <1>1, <1>2 DEF QueueNodes
<1>4. r = [store |-> u, index |-> g]
  BY <1>1, <1>3 DEF Placed
<1>5. /\ u \in Seq(QueueNodes) /\ Len(u) = i /\ u[i] = node
      /\ \A k \in 1..Len(q.store) : u[k] = q.store[k]
  BY <1>1, <1>2, AppendProperties
<1>6. PointsTo(q.index, g, node.handle, i)
  <2>1. q.index \in Indexes
    BY <1>2
  <2>2. i \in Nat
    BY <1>3
  <2>3. node.handle \in Nat
    BY <1>3
  <2>4. g = indexed(q.index, node.handle, i)
    BY <1>1
  <2> QED
    BY <2>1, <2>2, <2>3, <2>4, IndexedSet
<1>7. /\ g \in Indexes /\ DOMAIN g = DOMAIN q.index \cup {node.handle} /\ g[node.handle] = i
      /\ \A h \in DOMAIN q.index : g[h] = q.index[h]
  BY <1>6 DEF PointsTo
<1>8. \A k \in 1..i : k = i \/ k \in 1..Len(q.store)
  BY <1>1, <1>2
<1>9. \A k \in 1..i : u[k].handle \in DOMAIN g /\ g[u[k].handle] = k
  <2> TAKE k \in 1..i
  <2>1. CASE k = i
    BY <1>5, <1>7, <2>1
  <2>2. CASE k \in 1..Len(q.store)
    <3>1. q.store[k].handle \in DOMAIN q.index /\ q.index[q.store[k].handle] = k
      BY <1>2, <2>2
    <3> QED
      BY <1>5, <1>7, <2>2, <3>1
  <2> QED
    BY <1>8, <2>1, <2>2
<1>10. DOMAIN g = {u[k].handle : k \in 1..Len(u)}
  <2>1. ASSUME NEW h \in DOMAIN g PROVE \E k \in 1..i : u[k].handle = h
    <3>1. CASE h = node.handle
      BY <1>1, <1>2, <1>5, <3>1
    <3>2. CASE h # node.handle
      <4>1. PICK k \in 1..Len(q.store) : q.store[k].handle = h
        BY <1>2, <1>7, <2>1, <3>2
      <4> QED
        BY <1>1, <1>2, <1>5, <4>1
    <3> QED
      BY <3>1, <3>2
  <2>2. Len(u) = i
    BY <1>5
  <2>3. DOMAIN g = {u[k].handle : k \in 1..i}
    <3>1. \A h \in DOMAIN g : h \in {u[k].handle : k \in 1..i}
      BY <2>1
    <3>2. \A h \in {u[k].handle : k \in 1..i} : h \in DOMAIN g
      BY <1>9
    <3> QED
      BY <3>1, <3>2
  <2> QED
    BY <2>2, <2>3
<1>11. Indexed(r) /\ r.store = u /\ r.index = g
  BY <1>4, <1>5, <1>7, <1>9, <1>10, IsIndexed
<1>12. \A h \in DOMAIN q.index : NodeOf(r, h) = NodeOf(q, h)
  <2> TAKE h \in DOMAIN q.index
  <2>1. q.index[h] \in 1..Len(q.store) /\ g[h] = q.index[h]
    BY <1>7, IndexedIs
  <2> QED
    BY <1>5, <1>11, <2>1 DEF NodeOf
<1>13. NodeOf(r, node.handle) = node
  BY <1>5, <1>7, <1>11 DEF NodeOf
<1> QED
  BY <1>1, <1>5, <1>7, <1>11, <1>12, <1>13 DEF Joined

\* What insert makes of a heap.
LEMMA InsertIs ==
    ASSUME QueueAssumption, NEW q, Indexed(q), Heaped(q.store), NEW node \in QueueNodes,
           node.handle \notin DOMAIN q.index, NEW r, r = insert(q, node)
    PROVE  Indexed(r) /\ Heaped(r.store) /\ Joined(q, r, node)
<1>1. PICK t, i : t = Placed(q, i, node) /\ i = Len(q.store) + 1
  OBVIOUS
<1>2. Len(q.store) \in Nat
  BY IndexedIs
<1>3. /\ Indexed(t) /\ Joined(q, t, node) /\ Len(t.store) = i
      /\ \A k \in 1..Len(q.store) : t.store[k] = q.store[k]
  BY <1>1, StoredBehind
<1>4. CASE i = 1
  <2>1. r = t
    BY <1>1, <1>4 DEF insert
  <2>2. Heaped(t.store)
    BY <1>3, <1>4 DEF Heaped, Child
  <2> QED
    BY <1>3, <2>1, <2>2
<1>5. CASE i # 1
  <2>1. r = siftUp(t, i)
    BY <1>1, <1>5 DEF insert
  <2>2. HeapedBut(t.store, i) /\ i \in 1..Len(t.store)
    <3>1. Len(t.store) = Len(q.store) + 1 /\ \A k \in 1..Len(q.store) : t.store[k] = q.store[k]
      BY <1>1, <1>3
    <3>2. HeapedBut(t.store, Len(t.store))
      BY <1>2, <3>1, LongerHeap
    <3> QED
      BY <1>2, <1>3, <3>1, <3>2
  <2>3. Indexed(r) /\ SameNodes(t, r) /\ Heaped(r.store)
    BY <1>3, <2>1, <2>2, SiftUpIs
  <2> QED
    BY <1>3, <2>3, JoinedIs
<1> QED
  BY <1>4, <1>5

\* The nodes of an array without the last one.
LEMMA FrontOfNodes ==
    ASSUME NEW s \in Seq(QueueNodes), s # << >>
    PROVE  /\ Front(s) \in Seq(QueueNodes) /\ Len(Front(s)) = Len(s) - 1
           /\ \A k \in 1..Len(s) - 1 : Front(s)[k] = s[k]
<1>1. PICK n, f : n = Len(s) /\ f = SubSeq(s, 1, n - 1)
  OBVIOUS
<1>2. n \in Nat /\ n > 0 /\ \A k \in 1..n : s[k] \in QueueNodes
  BY <1>1, LenProperties, EmptySeq
<1>3. 1 \in Int /\ n - 1 \in Int /\ \A k \in 1..n - 1 : s[k] \in QueueNodes
  BY <1>2
<1>4. /\ f \in Seq(QueueNodes) /\ Len(f) = (IF 1 <= n - 1 THEN n - 1 - 1 + 1 ELSE 0)
      /\ \A k \in 1..n - 1 - 1 + 1 : f[k] = s[1 + k - 1]
  BY <1>1, <1>3, SubSeqProperties
<1>5. Len(f) = n - 1
  BY <1>2, <1>4
<1>6. \A k \in 1..n - 1 : f[k] = s[k]
  BY <1>2, <1>4
<1>7. Front(s) = f
  BY <1>1 DEF Front
<1> QED
  BY <1>1, <1>4, <1>5, <1>6, <1>7

\* indexByHandle.delete
LEMMA ForgottenIs ==
    ASSUME NEW q, q \in QueueShapes, NEW h, NEW r, r = Forgotten(q, h)
    PROVE  /\ r = [store |-> q.store, index |-> r.index] /\ r.store = q.store
           /\ r.index \in Indexes /\ DOMAIN r.index = DOMAIN q.index \ {h}
           /\ \A g \in DOMAIN r.index : r.index[g] = q.index[g]
<1>1. q = [store |-> q.store, index |-> q.index] /\ q.index \in Indexes
  BY DEF QueueShapes
<1>2. PICK D \in SUBSET Nat : q.index \in [D -> Nat]
  BY <1>1 DEF Indexes
<1>3. PICK f : f = [g \in DOMAIN q.index \ {h} |-> q.index[g]]
  OBVIOUS
<1>4. r = [store |-> q.store, index |-> f]
  BY <1>1, <1>3 DEF Forgotten
<1>5. PICK E \in SUBSET Nat : E = D \ {h}
  OBVIOUS
<1>6. f \in [E -> Nat]
  BY <1>2, <1>3, <1>5
<1>7. f \in Indexes
  BY <1>6 DEF Indexes
<1>8. r.store = q.store /\ r.index = f
  BY <1>4
<1>9. DOMAIN f = DOMAIN q.index \ {h} /\ \A g \in DOMAIN f : f[g] = q.index[g]
  BY <1>3
<1> QED
  BY <1>4, <1>7, <1>8, <1>9

\* The last node is taken out.
LEMMA DroppedLast ==
    ASSUME NEW q, Indexed(q), NEW h, Len(q.store) > 0, h = q.store[Len(q.store)].handle,
           NEW r, r = pop(Forgotten(q, h))
    PROVE  /\ Indexed(r) /\ Without(q, r, h) /\ Len(r.store) = Len(q.store) - 1
           /\ \A k \in 1..Len(r.store) : r.store[k] = q.store[k]
<1>1. PICK L, t, u : L = Len(q.store) /\ t = Forgotten(q, h) /\ u = Front(q.store)
  OBVIOUS
<1>2. /\ q.store \in Seq(QueueNodes) /\ L \in Nat /\ L > 0 /\ q \in QueueShapes
      /\ DOMAIN q.index = {q.store[k].handle : k \in 1..L}
      /\ \A k \in 1..L : q.store[k] \in QueueNodes /\ q.index[q.store[k].handle] = k
      /\ \A j, k \in 1..L : q.store[j].handle = q.store[k].handle => j = k
  BY <1>1, IndexedIs DEF Indexed
<1>3. /\ t = [store |-> q.store, index |-> t.index] /\ t.store = q.store
      /\ t.index \in Indexes /\ DOMAIN t.index = DOMAIN q.index \ {h}
      /\ \A g \in DOMAIN t.index : t.index[g] = q.index[g]
  BY <1>1, <1>2, ForgottenIs
<1>4. u \in Seq(QueueNodes) /\ Len(u) = L - 1 /\ \A k \in 1..L - 1 : u[k] = q.store[k]
  <2>1. q.store # << >>
    BY <1>1, <1>2, EmptySeq
  <2> QED
    BY <1>1, <1>2, <2>1, FrontOfNodes
<1>5. r = [store |-> u, index |-> t.index]
  BY <1>1, <1>3 DEF pop
<1>6. \A k \in 1..L : q.store[k].handle = h => k = L
  BY <1>1, <1>2
<1>7. \A k \in 1..L - 1 : u[k].handle \in DOMAIN t.index /\ t.index[u[k].handle] = k
  <2> TAKE k \in 1..L - 1
  <2>1. k \in 1..L /\ k # L
    BY <1>2
  <2>2. u[k] = q.store[k] /\ q.store[k].handle # h
    BY <1>4, <1>6, <2>1
  <2>3. q.store[k].handle \in DOMAIN q.index /\ q.index[q.store[k].handle] = k
    BY <1>2, <2>1
  <2> QED
    BY <1>3, <2>2, <2>3
<1>8. \A g \in DOMAIN t.index : \E k \in 1..L - 1 : u[k].handle = g /\ u[k] = q.store[k] /\ q.index[g] = k
  <2> TAKE g \in DOMAIN t.index
  <2>1. PICK k \in 1..L : q.store[k].handle = g /\ q.index[g] = k /\ g # h
    BY <1>2, <1>3
  <2>2. k \in 1..L - 1
    BY <1>1, <1>2, <2>1
  <2> QED
    BY <1>4, <2>1, <2>2
<1>9. DOMAIN t.index = {u[k].handle : k \in 1..L - 1}
  <2>1. \A g \in DOMAIN t.index : g \in {u[k].handle : k \in 1..L - 1}
    BY <1>8
  <2>2. \A g \in {u[k].handle : k \in 1..L - 1} : g \in DOMAIN t.index
    BY <1>7
  <2> QED
    BY <2>1, <2>2
<1>10. Indexed(r) /\ r.store = u /\ r.index = t.index
  <2>1. Len(u) = L - 1
    BY <1>4
  <2>2. DOMAIN t.index = {u[k].handle : k \in 1..Len(u)}
    BY <1>9, <2>1
  <2>3. \A k \in 1..Len(u) : t.index[u[k].handle] = k
    BY <1>7, <2>1
  <2> QED
    BY <1>3, <1>4, <1>5, <2>2, <2>3, IsIndexed
<1>11. Without(q, r, h)
  <2>1. \A g \in DOMAIN r.index : NodeOf(r, g) = NodeOf(q, g)
    BY <1>3, <1>8, <1>10 DEF NodeOf
  <2> QED
    BY <1>3, <1>10, <2>1 DEF Without
<1> QED
  BY <1>1, <1>4, <1>10, <1>11

\* The last node takes the place of another one, which goes.
LEMMA MovedTail ==
    ASSUME NEW q, Indexed(q), NEW i \in 1..Len(q.store), i # Len(q.store),
           NEW h, h = q.store[i].handle,
           NEW r, r = Placed(pop(Forgotten(q, h)), i, Last(q.store))
    PROVE  /\ Indexed(r) /\ Without(q, r, h) /\ Len(r.store) = Len(q.store) - 1
           /\ r.store[i] = q.store[Len(q.store)]
           /\ \A k \in 1..Len(r.store) : k # i => r.store[k] = q.store[k]
<1>1. PICK L, tail, t, f, u, x :
         /\ L = Len(q.store) /\ tail = q.store[L] /\ t = Forgotten(q, h) /\ f = Front(q.store)
         /\ u = [f EXCEPT ![i] = tail] /\ x = indexed(t.index, tail.handle, i)
  OBVIOUS
<1>2. /\ q.store \in Seq(QueueNodes) /\ L \in Nat /\ q \in QueueShapes /\ q.store # << >>
      /\ DOMAIN q.index = {q.store[k].handle : k \in 1..L}
      /\ \A k \in 1..L : q.store[k] \in QueueNodes /\ q.index[q.store[k].handle] = k
      /\ \A j, k \in 1..L : q.store[j].handle = q.store[k].handle => j = k
  <2>1. L = Len(q.store)
    BY <1>1
  <2>2. q.store # << >>
    BY EmptySeq
  <2> QED
    BY <2>1, <2>2, IndexedIs DEF Indexed
<1>3. i \in 1..L /\ i # L /\ i \in 1..L - 1 /\ i \in Nat /\ L \in 1..L
  BY <1>1, <1>2
<1>4. /\ t = [store |-> q.store, index |-> t.index] /\ t.store = q.store
      /\ t.index \in Indexes /\ DOMAIN t.index = DOMAIN q.index \ {h}
      /\ \A g \in DOMAIN t.index : t.index[g] = q.index[g]
  BY <1>1, <1>2, ForgottenIs
<1>5. f \in Seq(QueueNodes) /\ Len(f) = L - 1 /\ \A k \in 1..L - 1 : f[k] = q.store[k]
  BY <1>1, <1>2, FrontOfNodes
<1>6. tail \in QueueNodes /\ tail.handle \in Nat /\ tail.handle # h /\ tail.handle \in DOMAIN q.index
  BY <1>1, <1>2, <1>3 DEF QueueNodes
<1>7. /\ u \in Seq(QueueNodes) /\ Len(u) = L - 1 /\ u[i] = tail
      /\ \A k \in 1..L - 1 : k # i => u[k] = q.store[k]
  <2>1. i \in 1..Len(f)
    BY <1>3, <1>5
  <2>2. /\ u \in Seq(QueueNodes) /\ Len(u) = Len(f)
        /\ \A k \in 1..Len(f) : u[k] = IF k = i THEN tail ELSE f[k]
    BY <1>1, <1>5, <1>6, <2>1, ExceptSeq
  <2> QED
    BY <1>3, <1>5, <2>1, <2>2
<1>8. r = [store |-> u, index |-> x]
  <2>1. pop(t) = [store |-> f, index |-> t.index]
    BY <1>1, <1>4 DEF pop
  <2>2. ~(i > Len(f))
    BY <1>2, <1>3, <1>5
  <2>3. Last(q.store) = tail
    BY <1>1 DEF Last
  <2> QED
    BY <1>1, <2>1, <2>2, <2>3 DEF Placed
<1>9. /\ x \in Indexes /\ DOMAIN x = DOMAIN q.index \ {h} /\ x[tail.handle] = i
      /\ \A g \in DOMAIN t.index : g # tail.handle => x[g] = q.index[g]
  <2>1. t.index \in Indexes
    BY <1>4
  <2>2. tail.handle \in Nat
    BY <1>6
  <2>3. i \in Nat
    BY <1>3
  <2>4. x = indexed(t.index, tail.handle, i)
    BY <1>1
  <2>5. PointsTo(t.index, x, tail.handle, i)
    BY <2>1, <2>2, <2>3, <2>4, IndexedSet
  <2>6. tail.handle \in DOMAIN t.index
    BY <1>4, <1>6
  <2> QED
    BY <1>4, <2>5, <2>6 DEF PointsTo
<1>10. \A k \in 1..L - 1 : k # i => /\ k \in 1..L /\ q.store[k].handle \in DOMAIN t.index
                                    /\ q.store[k].handle # tail.handle
  <2> TAKE k \in 1..L - 1
  <2>1. HAVE k # i
  <2>2. k \in 1..L /\ k # L
    BY <1>2
  <2>3. q.store[k].handle # tail.handle /\ q.store[k].handle # h
    BY <1>1, <1>2, <1>3, <2>1, <2>2
  <2> QED
    BY <1>2, <1>4, <2>2, <2>3
<1>11. \A k \in 1..L - 1 : u[k].handle \in DOMAIN x /\ x[u[k].handle] = k
  <2> TAKE k \in 1..L - 1
  <2>1. CASE k = i
    BY <1>6, <1>7, <1>9, <2>1
  <2>2. CASE k # i
    <3>1. u[k] = q.store[k] /\ q.index[q.store[k].handle] = k
      BY <1>2, <1>7, <1>10, <2>2
    <3> QED
      BY <1>4, <1>9, <1>10, <2>2, <3>1
  <2> QED
    BY <2>1, <2>2
<1>12. \A g \in DOMAIN x : \E k \in 1..L - 1 : u[k].handle = g /\ x[g] = k /\ u[k] = q.store[q.index[g]]
  <2> TAKE g \in DOMAIN x
  <2>1. PICK k \in 1..L : q.store[k].handle = g /\ q.index[g] = k /\ g # h
    BY <1>2, <1>9
  <2>2. CASE k = L
    BY <1>1, <1>3, <1>7, <1>9, <2>1, <2>2
  <2>3. CASE k # L
    <3>1. k \in 1..L - 1 /\ k # i
      BY <1>2, <2>1, <2>3
    <3>2. u[k] = q.store[k]
      BY <1>7, <3>1
    <3>3. x[g] = k
      BY <1>11, <2>1, <3>1, <3>2
    <3> QED
      BY <2>1, <3>1, <3>2, <3>3
  <2> QED
    BY <2>2, <2>3
<1>13. Indexed(r) /\ r.store = u /\ r.index = x
  <2>1. Len(u) = L - 1
    BY <1>7
  <2>2. \A k \in 1..Len(u) : x[u[k].handle] = k
    BY <1>11, <2>1
  <2>3. DOMAIN x = {u[k].handle : k \in 1..Len(u)}
    <3>1. \A g \in DOMAIN x : g \in {u[k].handle : k \in 1..Len(u)}
      BY <1>12, <2>1
    <3>2. \A g \in {u[k].handle : k \in 1..Len(u)} : g \in DOMAIN x
      BY <1>11, <2>1
    <3> QED
      BY <3>1, <3>2
  <2> QED
    BY <1>7, <1>8, <1>9, <2>2, <2>3, IsIndexed
<1>14. Without(q, r, h)
  <2>1. \A g \in DOMAIN r.index : NodeOf(r, g) = NodeOf(q, g)
    BY <1>12, <1>13 DEF NodeOf
  <2> QED
    BY <1>9, <1>13, <2>1 DEF Without
<1> QED
  BY <1>1, <1>7, <1>13, <1>14

\* A new node takes the place of another one.
LEMMA StoredInPlace ==
    ASSUME NEW q, Indexed(q), NEW i \in 1..Len(q.store), NEW h, h = q.store[i].handle,
           NEW node \in QueueNodes, node.handle \notin DOMAIN q.index,
           NEW r, r = Placed(Forgotten(q, h), i, node)
    PROVE  /\ Indexed(r) /\ Len(r.store) = Len(q.store) /\ r.store[i] = node
           /\ \A k \in 1..Len(r.store) : k # i => r.store[k] = q.store[k]
           /\ DOMAIN r.index = (DOMAIN q.index \ {h}) \cup {node.handle}
           /\ NodeOf(r, node.handle) = node
           /\ \A g \in DOMAIN q.index \ {h} : NodeOf(r, g) = NodeOf(q, g)
<1>1. PICK L, t, u, x :
         /\ L = Len(q.store) /\ t = Forgotten(q, h)
         /\ u = [q.store EXCEPT ![i] = node] /\ x = indexed(t.index, node.handle, i)
  OBVIOUS
<1>2. /\ q.store \in Seq(QueueNodes) /\ L \in Nat /\ q \in QueueShapes
      /\ DOMAIN q.index = {q.store[k].handle : k \in 1..L}
      /\ \A k \in 1..L : q.store[k] \in QueueNodes /\ q.index[q.store[k].handle] = k
      /\ \A j, k \in 1..L : q.store[j].handle = q.store[k].handle => j = k
  BY <1>1, IndexedIs DEF Indexed
<1>3. i \in 1..L /\ i \in Nat /\ node.handle \in Nat
  BY <1>1, <1>2 DEF QueueNodes
<1>4. /\ t = [store |-> q.store, index |-> t.index] /\ t.store = q.store
      /\ t.index \in Indexes /\ DOMAIN t.index = DOMAIN q.index \ {h}
      /\ \A g \in DOMAIN t.index : t.index[g] = q.index[g]
  BY <1>1, <1>2, ForgottenIs
<1>5. /\ u \in Seq(QueueNodes) /\ Len(u) = L /\ u[i] = node
      /\ \A k \in 1..L : k # i => u[k] = q.store[k]
  <2>2. /\ u \in Seq(QueueNodes) /\ Len(u) = Len(q.store)
        /\ \A k \in 1..Len(q.store) : u[k] = IF k = i THEN node ELSE q.store[k]
    BY <1>1, <1>2, ExceptSeq
  <2> QED
    BY <1>1, <1>3, <2>2
<1>6. r = [store |-> u, index |-> x]
  <2>1. ~(i > Len(t.store))
    BY <1>1, <1>2, <1>3, <1>4
  <2> QED
    BY <1>1, <1>4, <2>1 DEF Placed
<1>7. /\ x \in Indexes /\ DOMAIN x = (DOMAIN q.index \ {h}) \cup {node.handle} /\ x[node.handle] = i
      /\ \A g \in DOMAIN t.index : g # node.handle => x[g] = q.index[g]
  <2>1. t.index \in Indexes
    BY <1>4
  <2>2. node.handle \in Nat
    BY <1>3
  <2>3. i \in Nat
    BY <1>3
  <2>4. x = indexed(t.index, node.handle, i)
    BY <1>1
  <2>5. PointsTo(t.index, x, node.handle, i)
    BY <2>1, <2>2, <2>3, <2>4, IndexedSet
  <2> QED
    BY <1>4, <2>5 DEF PointsTo
<1>8. \A k \in 1..L : k # i => /\ q.store[k].handle \in DOMAIN t.index
                               /\ q.store[k].handle # node.handle
  <2> TAKE k \in 1..L
  <2>1. HAVE k # i
  <2>2. q.store[k].handle # h /\ q.store[k].handle \in DOMAIN q.index
    BY <1>1, <1>2, <1>3, <2>1
  <2> QED
    BY <1>4, <2>2
<1>9. \A k \in 1..L : u[k].handle \in DOMAIN x /\ x[u[k].handle] = k
  <2> TAKE k \in 1..L
  <2>1. CASE k = i
    BY <1>5, <1>7, <2>1
  <2>2. CASE k # i
    <3>1. u[k] = q.store[k] /\ q.index[q.store[k].handle] = k
      BY <1>2, <1>5, <2>2
    <3> QED
      BY <1>4, <1>7, <1>8, <2>2, <3>1
  <2> QED
    BY <2>1, <2>2
<1>10. \A g \in DOMAIN q.index \ {h} : \E k \in 1..L : /\ k # i /\ u[k].handle = g /\ x[g] = k
                                                       /\ u[k] = q.store[q.index[g]]
  <2> TAKE g \in DOMAIN q.index \ {h}
  <2>1. PICK k \in 1..L : q.store[k].handle = g /\ q.index[g] = k /\ g # h
    BY <1>2
  <2>2. k # i
    BY <2>1
  <2>3. u[k] = q.store[k]
    BY <1>5, <2>2
  <2> QED
    BY <1>9, <2>1, <2>2, <2>3
<1>11. Indexed(r) /\ r.store = u /\ r.index = x
  <2>1. Len(u) = L
    BY <1>5
  <2>2. \A k \in 1..Len(u) : x[u[k].handle] = k
    BY <1>9, <2>1
  <2>3. DOMAIN x = {u[k].handle : k \in 1..Len(u)}
    <3>1. \A g \in DOMAIN x : g \in {u[k].handle : k \in 1..Len(u)}
      BY <1>3, <1>5, <1>7, <1>10, <2>1
    <3>2. \A g \in {u[k].handle : k \in 1..Len(u)} : g \in DOMAIN x
      BY <1>9, <2>1
    <3> QED
      BY <3>1, <3>2
  <2> QED
    BY <1>5, <1>6, <1>7, <2>2, <2>3, IsIndexed
<1>12. NodeOf(r, node.handle) = node
  BY <1>5, <1>7, <1>11 DEF NodeOf
<1>13. \A g \in DOMAIN q.index \ {h} : NodeOf(r, g) = NodeOf(q, g)
  BY <1>10, <1>11 DEF NodeOf
<1> QED
  BY <1>1, <1>5, <1>7, <1>11, <1>12, <1>13

\* What is in order from the root on is a heap.
LEMMA OrderedFromRoot ==
    ASSUME NEW s, OrderedFrom(s, 1)
    PROVE  Heaped(s)
BY DEF OrderedFrom, Heaped

\* How many nodes are left.
LEMMA PoppedLength ==
    ASSUME NEW q, Indexed(q), Len(q.store) > 0, NEW h
    PROVE  Len(pop(Forgotten(q, h)).store) = Len(q.store) - 1
<1>1. PICK t : t = Forgotten(q, h)
  OBVIOUS
<1>2. q \in QueueShapes /\ q.store \in Seq(QueueNodes) /\ q.store # << >>
  BY IndexedIs, EmptySeq DEF Indexed
<1>3. t = [store |-> q.store, index |-> t.index]
  BY <1>1, <1>2, ForgottenIs
<1>4. pop(t).store = Front(q.store)
  BY <1>3 DEF pop
<1> QED
  BY <1>1, <1>2, <1>4, FrontOfNodes

\* What the node that took a place gets: it goes up or down.
LEMMA ResettledIs ==
    ASSUME QueueAssumption, NEW s, Len(s) \in Nat, \A k \in 1..Len(s) : s[k] \in QueueNodes,
           Heaped(s), NEW q, Indexed(q), NEW i, OneChanged(s, q.store, i),
           NEW r, r = resettled(q, i)
    PROVE  Indexed(r) /\ Heaped(r.store) /\ SameNodes(q, r)
<1>1. PICK L, M, u : L = Len(s) /\ u = q.store /\ M = Len(u)
  OBVIOUS
<1>2. /\ L \in Nat /\ M \in Nat /\ M <= L /\ i \in 1..M /\ i \in Nat
      /\ \A k \in 1..M : k \in 1..L /\ u[k] \in QueueNodes
      /\ \A k \in 1..M : k # i => u[k] = s[k]
  BY <1>1 DEF OneChanged
<1>3. \A j, k \in 1..L : Child(j, k) => j < k /\ Fits(s[j], s[k])
  BY <1>1, <1>2, ChildIs DEF Heaped
<1>4. CASE i > 1 /\ comesBefore(u[i], u[i \div 2])
  <2>1. r = siftUp(q, i)
    BY <1>1, <1>4 DEF resettled
  <2>2. PICK p : p = i \div 2 /\ p \in 1..M /\ p < i /\ Child(p, i)
    <3>1. i \div 2 \in 1..i - 1 /\ Child(i \div 2, i)
      BY <1>2, <1>4, HalfIs
    <3>2. \A p \in 1..i - 1 : p \in 1..M /\ p < i
      BY <1>2
    <3> QED
      BY <3>1, <3>2
  <2>3. ASSUME NEW k \in 1..M, Child(i, k) PROVE Fits(u[i], u[k])
    <3>1. Fits(s[p], s[i]) /\ Fits(s[i], s[k]) /\ k # i /\ p # i
      BY <1>2, <1>3, <2>2, <2>3
    <3>2. s[p] \in QueueNodes /\ s[i] \in QueueNodes /\ s[k] \in QueueNodes
      BY <1>1, <1>2, <2>2
    <3>3. Fits(s[p], s[k])
      BY <3>1, <3>2, FitsIsOrder
    <3>4. u[p] = s[p] /\ u[k] = s[k]
      BY <1>2, <2>2, <3>1
    <3>5. comesBefore(u[i], u[p])
      BY <1>4, <2>2
    <3>6. u[i] \in QueueNodes /\ u[p] \in QueueNodes /\ u[k] \in QueueNodes
      BY <1>2, <2>2
    <3>7. Fits(u[i], u[p])
      BY <3>5, <3>6, FitsIsOrder
    <3> QED
      BY <3>3, <3>4, <3>6, <3>7, FitsIsOrder
  <2>4. HeapedBut(u, i)
    BY <1>1, <2>3, ChangedHeap
  <2>5. i \in 1..Len(q.store) /\ HeapedBut(q.store, i)
    BY <1>1, <1>2, <2>4
  <2> QED
    BY <2>1, <2>5, SiftUpIs
<1>5. CASE ~(i > 1 /\ comesBefore(u[i], u[i \div 2]))
  <2>1. r = siftDown(q, i)
    BY <1>1, <1>5 DEF resettled
  <2>2. ASSUME NEW k \in 1..M, Child(k, i) PROVE Fits(u[k], u[i])
    <3>1. k < i /\ k = i \div 2
      BY <1>2, <2>2, ChildIs, HalfIs
    <3>2. i > 1 /\ ~comesBefore(u[i], u[k])
      BY <1>2, <1>5, <3>1
    <3> QED
      BY <3>2 DEF Fits
  <2>3. HeapedFrom(u, 1, i)
    BY <1>1, <2>2, ChangedHeap
  <2>4. i \in 1..Len(q.store) /\ HeapedFrom(q.store, 1, i) /\ 1 \in Nat /\ 1 <= i
    BY <1>1, <1>2, <2>3
  <2>5. Indexed(r) /\ SameNodes(q, r) /\ OrderedFrom(r.store, 1)
    BY <2>1, <2>4, SiftDownIs
  <2> QED
    BY <2>5, OrderedFromRoot
<1> QED
  BY <1>4, <1>5

\* removeAt takes the node at a place out of a heap.
LEMMA RemoveAtIs ==
    ASSUME QueueAssumption, NEW q, Indexed(q), Heaped(q.store), NEW i \in 1..Len(q.store),
           NEW h, h = q.store[i].handle, NEW r, r = removeAt(q, i)
    PROVE  Indexed(r) /\ Heaped(r.store) /\ Without(q, r, h)
<1>1. PICK L, rest, t : /\ L = Len(q.store) /\ rest = pop(Forgotten(q, h))
                        /\ t = Placed(rest, i, Last(q.store))
  OBVIOUS
<1>2. L \in Nat /\ i \in 1..L /\ L > 0 /\ \A k \in 1..L : q.store[k] \in QueueNodes
  BY <1>1, IndexedIs
<1>3. Len(rest.store) = L - 1
  BY <1>1, <1>2, PoppedLength
<1>4. CASE i = L
  <2>1. r = rest
    BY <1>1, <1>2, <1>3, <1>4 DEF removeAt
  <2>2. h = q.store[Len(q.store)].handle /\ Len(q.store) > 0
    BY <1>1, <1>2, <1>4
  <2>3. /\ Indexed(rest) /\ Without(q, rest, h)
        /\ \A k \in 1..Len(rest.store) : rest.store[k] = q.store[k]
    BY <1>1, <2>2, DroppedLast
  <2>4. Heaped(rest.store)
    <3>1. \A k \in 1..L - 1 : k \in 1..L
      BY <1>2
    <3> QED
      BY <1>1, <1>3, <2>3, <3>1 DEF Heaped
  <2> QED
    BY <2>1, <2>3, <2>4
<1>5. CASE i # L
  <2>1. r = resettled(t, i)
    BY <1>1, <1>2, <1>3, <1>5 DEF removeAt
  <2>2. /\ Indexed(t) /\ Without(q, t, h) /\ Len(t.store) = L - 1
        /\ \A k \in 1..Len(t.store) : k # i => t.store[k] = q.store[k]
    BY <1>1, <1>5, MovedTail
  <2>3. OneChanged(q.store, t.store, i)
    <3>1. Len(t.store) \in Nat /\ L - 1 <= L /\ i \in 1..L - 1
      BY <1>2, <1>5, <2>2
    <3>2. \A k \in 1..Len(t.store) : t.store[k] \in QueueNodes
      BY <2>2, IndexedIs
    <3> QED
      BY <1>1, <2>2, <3>1, <3>2 DEF OneChanged
  <2>4. Indexed(r) /\ Heaped(r.store) /\ SameNodes(t, r)
    BY <1>1, <1>2, <2>1, <2>2, <2>3, ResettledIs
  <2> QED
    BY <2>2, <2>4, WithoutIs
<1> QED
  BY <1>4, <1>5

\* Another node at the root sinks.
LEMMA RootSinks ==
    ASSUME QueueAssumption, NEW s, Len(s) \in Nat, \A k \in 1..Len(s) : s[k] \in QueueNodes,
           Heaped(s), NEW q, Indexed(q), OneChanged(s, q.store, 1),
           NEW r, r = siftDown(q, 1)
    PROVE  Indexed(r) /\ Heaped(r.store) /\ SameNodes(q, r)
<1>1. \A k \in 1..Len(q.store) : ~Child(k, 1)
  BY DEF Child
<1>2. 1 \in 1..Len(q.store) /\ 1 \in Nat /\ 1 <= 1
  BY DEF OneChanged
<1>3. HeapedFrom(q.store, 1, 1)
  BY <1>1, ChangedHeap
<1>4. Indexed(r) /\ SameNodes(q, r) /\ OrderedFrom(r.store, 1)
  BY <1>2, <1>3, SiftDownIs
<1> QED
  BY <1>4, OrderedFromRoot

\* Seen as an array, one node has changed.
LEMMA TailMoved ==
    ASSUME NEW q, Indexed(q), NEW i \in 1..Len(q.store), i # Len(q.store),
           NEW h, h = q.store[i].handle,
           NEW t, t = Placed(pop(Forgotten(q, h)), i, Last(q.store))
    PROVE  Indexed(t) /\ Without(q, t, h) /\ OneChanged(q.store, t.store, i)
<1>1. /\ Indexed(t) /\ Without(q, t, h) /\ Len(t.store) = Len(q.store) - 1
      /\ \A k \in 1..Len(t.store) : k # i => t.store[k] = q.store[k]
  BY MovedTail
<1>2. Len(q.store) \in Nat
  BY IndexedIs
<1>3. Len(t.store) \in Nat /\ Len(t.store) <= Len(q.store) /\ i \in 1..Len(t.store)
  BY <1>1, <1>2
<1>4. \A k \in 1..Len(t.store) : t.store[k] \in QueueNodes
  BY <1>1, IndexedIs
<1> QED
  BY <1>1, <1>3, <1>4 DEF OneChanged

\* dequeue takes out the root.
LEMMA DequeuedIs ==
    ASSUME QueueAssumption, NEW q, Indexed(q), Heaped(q.store), Len(q.store) > 0,
           NEW h, h = q.store[1].handle, NEW rest, rest = pop(Forgotten(q, h)),
           NEW r, r = IF Len(q.store) = 1 THEN rest ELSE siftDown(Placed(rest, 1, Last(q.store)), 1)
    PROVE  Indexed(r) /\ Heaped(r.store) /\ Without(q, r, h)
<1>1. PICK L, t : L = Len(q.store) /\ t = Placed(rest, 1, Last(q.store))
  OBVIOUS
<1>2. L \in Nat /\ 1 \in 1..L /\ \A k \in 1..L : q.store[k] \in QueueNodes
  <2>1. Len(q.store) \in Nat /\ \A k \in 1..Len(q.store) : q.store[k] \in QueueNodes
    BY IndexedIs
  <2> QED
    BY <1>1, <2>1
<1>3. CASE L = 1
  <2>1. r = rest /\ h = q.store[Len(q.store)].handle
    BY <1>1, <1>3
  <2>2. Indexed(r) /\ Without(q, r, h) /\ Len(r.store) = L - 1
    BY <1>1, <2>1, DroppedLast
  <2>3. Heaped(r.store)
    BY <1>3, <2>2 DEF Heaped
  <2> QED
    BY <2>2, <2>3
<1>4. CASE L # 1
  <2>1. r = siftDown(t, 1)
    BY <1>1, <1>4
  <2>2. Indexed(t) /\ Without(q, t, h) /\ OneChanged(q.store, t.store, 1)
    <3>1. PICK i \in 1..Len(q.store) : i = 1
      BY <1>1, <1>2
    <3>2. h = q.store[i].handle /\ i # Len(q.store)
      BY <1>1, <1>4, <3>1
    <3>3. t = Placed(pop(Forgotten(q, h)), i, Last(q.store))
      BY <1>1, <3>1
    <3>4. Indexed(t) /\ Without(q, t, h) /\ OneChanged(q.store, t.store, i)
      BY <3>2, <3>3, TailMoved
    <3> QED
      BY <3>1, <3>4
  <2>3. Indexed(r) /\ Heaped(r.store) /\ SameNodes(t, r)
    BY <1>1, <1>2, <2>1, <2>2, RootSinks
  <2> QED
    BY <2>2, <2>3, WithoutIs
<1> QED
  BY <1>3, <1>4

\* replaceHead puts a node in its place.
LEMMA ReplacedIs ==
    ASSUME QueueAssumption, NEW q, Indexed(q), Heaped(q.store), Len(q.store) > 0,
           NEW h, h = q.store[1].handle,
           NEW node \in QueueNodes, node.handle \notin DOMAIN q.index,
           NEW r, r = siftDown(Placed(Forgotten(q, h), 1, node), 1)
    PROVE  /\ Indexed(r) /\ Heaped(r.store)
           /\ DOMAIN r.index = (DOMAIN q.index \ {h}) \cup {node.handle}
           /\ NodeOf(r, node.handle) = node
           /\ \A g \in DOMAIN q.index \ {h} : NodeOf(r, g) = NodeOf(q, g)
<1>1. PICK L, t : L = Len(q.store) /\ t = Placed(Forgotten(q, h), 1, node)
  OBVIOUS
<1>2. L \in Nat /\ 1 \in 1..L /\ \A k \in 1..L : q.store[k] \in QueueNodes
  <2>1. Len(q.store) \in Nat /\ \A k \in 1..Len(q.store) : q.store[k] \in QueueNodes
    BY IndexedIs
  <2> QED
    BY <1>1, <2>1
<1>3. /\ Indexed(t) /\ Len(t.store) = L
      /\ \A k \in 1..Len(t.store) : k # 1 => t.store[k] = q.store[k]
      /\ DOMAIN t.index = (DOMAIN q.index \ {h}) \cup {node.handle} /\ NodeOf(t, node.handle) = node
      /\ \A g \in DOMAIN q.index \ {h} : NodeOf(t, g) = NodeOf(q, g)
  BY <1>1, <1>2, StoredInPlace
<1>4. OneChanged(q.store, t.store, 1)
  <2>1. \A k \in 1..Len(t.store) : t.store[k] \in QueueNodes
    BY <1>3, IndexedIs
  <2> QED
    BY <1>1, <1>2, <1>3, <2>1 DEF OneChanged
<1>5. Indexed(r) /\ Heaped(r.store) /\ SameNodes(t, r)
  BY <1>1, <1>2, <1>3, <1>4, RootSinks
<1> QED
  BY <1>3, <1>5 DEF SameNodes

\* A node with another priority.
Repriced(q, i, p) == [q EXCEPT !.store[i].priority = p]
LEMMA PrioritySet ==
    ASSUME NEW q, Indexed(q), NEW i \in 1..Len(q.store), NEW p \in NodePriorities,
           NEW r, r = Repriced(q, i, p)
    PROVE  /\ Indexed(r) /\ Len(r.store) = Len(q.store) /\ DOMAIN r.index = DOMAIN q.index
           /\ \A k \in 1..Len(q.store) : k # i => r.store[k] = q.store[k]
           /\ r.store[i] = Node(q.store[i].handle, p)
           /\ \A g \in DOMAIN q.index : g # q.store[i].handle => NodeOf(r, g) = NodeOf(q, g)
           /\ NodeOf(r, q.store[i].handle) = r.store[i]
<1>1. PICK L, n, u : L = Len(q.store) /\ n = Node(q.store[i].handle, p) /\ u = [q.store EXCEPT ![i] = n]
  OBVIOUS
<1>2. L = Len(q.store) /\ n = Node(q.store[i].handle, p)
  BY <1>1
<1>3. /\ q = [store |-> q.store, index |-> q.index] /\ q.index \in Indexes
      /\ q.store \in Seq(QueueNodes) /\ L \in Nat /\ DOMAIN q.store = 1..L
      /\ DOMAIN q.index = {q.store[k].handle : k \in 1..L}
      /\ \A k \in 1..L : q.store[k] \in QueueNodes /\ q.index[q.store[k].handle] = k
  BY <1>2, IndexedIs DEF Indexed
<1>4. n \in QueueNodes /\ n.handle = q.store[i].handle /\ i \in 1..L
      /\ [q.store[i] EXCEPT !.priority = p] = n
  BY <1>2, <1>3 DEF QueueNodes, Node
<1>5. r = [store |-> u, index |-> q.index]
  BY <1>1, <1>3, <1>4 DEF Repriced
<1>6. u \in Seq(QueueNodes) /\ Len(u) = L /\ \A k \in 1..L : u[k] = IF k = i THEN n ELSE q.store[k]
  BY <1>1, <1>3, <1>4, ExceptSeq
<1>7. \A k \in 1..L : u[k].handle = q.store[k].handle
  BY <1>4, <1>6
<1>8. Indexed(r) /\ r.store = u /\ r.index = q.index
  <2>1. \A k \in 1..Len(u) : q.index[u[k].handle] = k
    BY <1>3, <1>6, <1>7
  <2>2. DOMAIN q.index = {u[k].handle : k \in 1..Len(u)}
    BY <1>3, <1>6, <1>7
  <2>3. u \in Seq(QueueNodes) /\ q.index \in Indexes /\ r = [store |-> u, index |-> q.index]
    BY <1>3, <1>5, <1>6
  <2> QED
    BY <2>1, <2>2, <2>3, IsIndexed
<1>9. \A g \in DOMAIN q.index : g # q.store[i].handle => NodeOf(r, g) = NodeOf(q, g)
  <2> TAKE g \in DOMAIN q.index
  <2>1. HAVE g # q.store[i].handle
  <2>2. PICK k \in 1..L : q.store[k].handle = g /\ q.index[g] = k
    BY <1>3
  <2>3. u[k] = q.store[k]
    BY <1>6, <2>1, <2>2
  <2> QED
    BY <1>8, <2>2, <2>3 DEF NodeOf
<1>10. NodeOf(r, q.store[i].handle) = r.store[i]
  BY <1>3, <1>4, <1>8 DEF NodeOf
<1> QED
  BY <1>2, <1>4, <1>6, <1>8, <1>9, <1>10

\* updatePriority moves the node to where its priority belongs.
LEMMA UpdatedIs ==
    ASSUME QueueAssumption, NEW q, Indexed(q), Heaped(q.store), NEW i \in 1..Len(q.store),
           NEW h, h = q.store[i].handle, NEW old, old = q.store[i].priority,
           NEW p \in NodePriorities, NEW c, c = Repriced(q, i, p),
           NEW r, r = IF p = old THEN c ELSE IF Sooner(p, old) THEN siftUp(c, i) ELSE siftDown(c, i)
    PROVE  /\ Indexed(r) /\ Heaped(r.store) /\ DOMAIN r.index = DOMAIN q.index
           /\ NodeOf(r, h).priority = p
           /\ \A g \in DOMAIN q.index : g # h => NodeOf(r, g) = NodeOf(q, g)
<1>1. PICK L, s, u : L = Len(q.store) /\ s = q.store /\ u = c.store
  OBVIOUS
<1>2. /\ L \in Nat /\ i \in 1..L /\ i \in Nat /\ h \in DOMAIN q.index
      /\ \A k \in 1..L : s[k] \in QueueNodes
  <2>1. /\ Len(q.store) \in Nat /\ \A k \in 1..Len(q.store) : q.store[k] \in QueueNodes
        /\ q.store[i].handle \in DOMAIN q.index
    BY IndexedIs
  <2> QED
    BY <1>1, <2>1
<1>3. /\ Indexed(c) /\ Len(u) = L /\ DOMAIN c.index = DOMAIN q.index
      /\ \A k \in 1..L : k # i => u[k] = s[k]
      /\ u[i] = Node(h, p) /\ NodeOf(c, h) = u[i]
      /\ \A g \in DOMAIN q.index : g # h => NodeOf(c, g) = NodeOf(q, g)
  BY <1>1, PrioritySet
<1>4. u[i].priority = p /\ u[i].handle = h /\ s[i].priority = old /\ s[i].handle = h
  BY <1>1, <1>3 DEF Node
<1>5. OneChanged(s, u, i)
  <2>1. \A k \in 1..Len(u) : u[k] \in QueueNodes
    BY <1>1, <1>3, IndexedIs
  <2> QED
    BY <1>1, <1>2, <1>3, <2>1 DEF OneChanged
<1>6. \A k \in 1..L : u[k] \in QueueNodes
  BY <1>3, <1>5 DEF OneChanged
<1>7. \A j, k \in 1..L : Child(j, k) => j < k /\ Fits(s[j], s[k])
  BY <1>1, <1>2, ChildIs DEF Heaped
<1>8. SUFFICES Indexed(r) /\ Heaped(r.store) /\ SameNodes(c, r)
  BY <1>2, <1>3, <1>4 DEF SameNodes
<1>9. CASE p = old
  <2>1. r = c
    BY <1>9
  <2>2. u[i] = s[i]
    <3>1. \A a, b \in QueueNodes : a.handle = b.handle /\ a.priority = b.priority => a = b
      BY DEF QueueNodes
    <3>2. u[i] \in QueueNodes /\ s[i] \in QueueNodes
      BY <1>2, <1>6
    <3> QED
      BY <1>4, <1>9, <3>1, <3>2
  <2>3. Heaped(u)
    BY <1>3, <1>7, <2>2 DEF Heaped
  <2> QED
    BY <1>1, <1>3, <2>1, <2>3 DEF SameNodes
<1>10. CASE p # old /\ Sooner(p, old)
  <2>1. r = siftUp(c, i)
    BY <1>10
  <2>2. Fits(u[i], s[i])
    <3>1. comesBefore(u[i], s[i])
      BY <1>4, <1>10 DEF comesBefore
    <3>2. u[i] \in QueueNodes /\ s[i] \in QueueNodes
      BY <1>2, <1>6
    <3> QED
      BY <3>1, <3>2, FitsIsOrder
  <2>3. ASSUME NEW k \in 1..Len(u), Child(i, k) PROVE Fits(u[i], u[k])
    <3>1. Fits(s[i], s[k]) /\ u[k] = s[k]
      BY <1>2, <1>3, <1>7, <2>3
    <3>2. u[i] \in QueueNodes /\ s[i] \in QueueNodes /\ s[k] \in QueueNodes
      BY <1>2, <1>3, <1>6
    <3> QED
      BY <2>2, <3>1, <3>2, FitsIsOrder
  <2>4. HeapedBut(c.store, i) /\ i \in 1..Len(c.store)
    <3>1. HeapedBut(u, i)
      BY <1>1, <1>2, <1>5, <2>3, ChangedHeap
    <3> QED
      BY <1>1, <1>2, <1>3, <3>1
  <2> QED
    BY <1>3, <2>1, <2>4, SiftUpIs
<1>11. CASE p # old /\ ~Sooner(p, old)
  <2>1. r = siftDown(c, i)
    BY <1>11
  <2>2. Fits(s[i], u[i])
    <3>1. ~comesBefore(u[i], s[i])
      BY <1>4, <1>11 DEF comesBefore
    <3> QED
      BY <3>1 DEF Fits
  <2>3. ASSUME NEW k \in 1..Len(u), Child(k, i) PROVE Fits(u[k], u[i])
    <3>1. Fits(s[k], s[i]) /\ u[k] = s[k]
      BY <1>2, <1>3, <1>7, <2>3
    <3>2. u[i] \in QueueNodes /\ s[i] \in QueueNodes /\ s[k] \in QueueNodes
      BY <1>2, <1>3, <1>6
    <3> QED
      BY <2>2, <3>1, <3>2, FitsIsOrder
  <2>4. HeapedFrom(c.store, 1, i) /\ i \in 1..Len(c.store) /\ 1 \in Nat /\ 1 <= i
    <3>1. HeapedFrom(u, 1, i)
      BY <1>1, <1>2, <1>5, <2>3, ChangedHeap
    <3> QED
      BY <1>1, <1>2, <1>3, <3>1
  <2>5. Indexed(r) /\ SameNodes(c, r) /\ OrderedFrom(r.store, 1)
    BY <1>3, <2>1, <2>4, SiftDownIs
  <2> QED
    BY <2>5, OrderedFromRoot
<1> QED
  BY <1>9, <1>10, <1>11

\* Nodes that are not in the queue, and r, which is q with the first n of them.
NewNodes(q, nodes) ==
    /\ nodes \in Seq(QueueNodes)
    /\ \A k \in 1..Len(nodes) : nodes[k].handle \notin DOMAIN q.index
    /\ \A j, k \in 1..Len(nodes) : nodes[j].handle = nodes[k].handle => j = k
Gained(q, r, nodes, n) ==
    /\ DOMAIN r.index = DOMAIN q.index \cup {nodes[k].handle : k \in 1..n}
    /\ \A g \in DOMAIN q.index : NodeOf(r, g) = NodeOf(q, g)
    /\ \A k \in 1..n : NodeOf(r, nodes[k].handle) = nodes[k]
Grown(q, nodes, n) ==
    {r \in QueueShapes : Indexed(r) /\ Heaped(r.store) /\ Gained(q, r, nodes, n)}

\* Insertions one by one.
LEMMA InsertAllIs ==
    ASSUME QueueAssumption, NEW q, Indexed(q), Heaped(q.store), NEW nodes, NewNodes(q, nodes)
    PROVE  insertAll(q, nodes) \in Grown(q, nodes, Len(nodes))
<1>1. PICK m, T, F : /\ m = Len(nodes) /\ T = [n \in 0..m |-> Grown(q, nodes, n)]
                     /\ F = [n \in 1..m |-> [r \in Grown(q, nodes, n - 1) |-> insert(r, nodes[n])]]
  OBVIOUS
<1>2. /\ m \in Nat /\ \A k \in 1..m : nodes[k] \in QueueNodes /\ nodes[k].handle \notin DOMAIN q.index
      /\ \A j, k \in 1..m : nodes[j].handle = nodes[k].handle => j = k
  BY <1>1, LenProperties, ElementOfSeq DEF NewNodes
<1>3. q \in Grown(q, nodes, 0)
  <2>1. {nodes[k].handle : k \in 1..0} = {}
    OBVIOUS
  <2> QED
    BY <2>1 DEF Grown, Gained, Indexed
<1>4. ASSUME NEW n \in 1..m, NEW r \in Grown(q, nodes, n - 1)
      PROVE  insert(r, nodes[n]) \in Grown(q, nodes, n)
  <2>1. /\ Indexed(r) /\ Heaped(r.store)
        /\ DOMAIN r.index = DOMAIN q.index \cup {nodes[k].handle : k \in 1..n - 1}
        /\ \A g \in DOMAIN q.index : NodeOf(r, g) = NodeOf(q, g)
        /\ \A k \in 1..n - 1 : NodeOf(r, nodes[k].handle) = nodes[k]
    BY <1>4 DEF Grown, Gained
  <2>2. \A k \in 1..n - 1 : k \in 1..m /\ k # n
    BY <1>2
  <2>3. nodes[n] \in QueueNodes /\ nodes[n].handle \notin DOMAIN r.index
    BY <1>2, <2>1, <2>2
  <2>4. PICK t : /\ t = insert(r, nodes[n]) /\ Indexed(t) /\ Heaped(t.store)
                 /\ Joined(r, t, nodes[n])
    BY <2>1, <2>3, InsertIs
  <2>5. /\ DOMAIN t.index = DOMAIN r.index \cup {nodes[n].handle}
        /\ NodeOf(t, nodes[n].handle) = nodes[n]
        /\ \A g \in DOMAIN r.index : NodeOf(t, g) = NodeOf(r, g)
    BY <2>4 DEF Joined
  <2>6. 1..n = (1..n - 1) \cup {n}
    BY <1>2
  <2>7. {nodes[k].handle : k \in 1..n} = {nodes[k].handle : k \in 1..n - 1} \cup {nodes[n].handle}
    BY <2>6
  <2>8. \A k \in 1..n : NodeOf(t, nodes[k].handle) = nodes[k]
    BY <2>1, <2>5, <2>6
  <2>9. Gained(q, t, nodes, n)
    BY <2>1, <2>5, <2>7, <2>8 DEF Gained
  <2> QED
    BY <2>4, <2>9 DEF Grown, Indexed
<1>5. \A n \in 1..m : \A r \in T[n - 1] : F[n][r] = insert(r, nodes[n])
  BY <1>1, <1>2
<1>6. Staged(m, T, F, q)
  <2>1. ASSUME NEW n \in 1..m, NEW r \in T[n - 1] PROVE F[n][r] \in T[n]
    <3>1. n - 1 \in 0..m /\ n \in 0..m
      BY <1>2
    <3>2. r \in Grown(q, nodes, n - 1)
      BY <1>1, <3>1
    <3>3. insert(r, nodes[n]) \in Grown(q, nodes, n)
      BY <1>4, <3>2
    <3> QED
      BY <1>1, <3>1, <3>2, <3>3
  <2>2. T[0] = Grown(q, nodes, 0)
    BY <1>1, <1>2
  <2> QED
    BY <1>2, <1>3, <2>1, <2>2, Zenon DEF Staged
<1> DEFINE Runs(h) == h = [n \in 0..m |-> IF n = 0 THEN q ELSE insert(h[n - 1], nodes[n])]
<1>7. PICK g : g = [n \in 0..m |-> g[n]] /\ Follows(g, m, T, F, q) /\ Within(g, m, T)
  BY <1>6, Stages
<1>8. Runs(g)
  <2>1. \A n \in 0..m : n # 0 => n \in 1..m /\ n - 1 \in 0..m
    BY <1>2
  <2>2. \A n \in 0..m : g[n] = IF n = 0 THEN q ELSE insert(g[n - 1], nodes[n])
    BY <1>5, <1>7, <2>1, Zenon DEF Follows, Within
  <2> QED
    BY <1>7, <2>2
<1>9. PICK after : after = CHOOSE h : Runs(h)
  OBVIOUS
<1>10. Runs(after)
  <2> HIDE DEF Runs
  <2> QED
    BY <1>8, <1>9
<1>11. insertAll(q, nodes) = after[m]
  BY <1>1, <1>9 DEF insertAll
<1>12. after[0] = q /\ \A n \in 1..m : after[n] = insert(after[n - 1], nodes[n])
  <2>1. \A n \in 0..m : after[n] = IF n = 0 THEN q ELSE insert(after[n - 1], nodes[n])
    BY <1>10
  <2> QED
    BY <1>2, <2>1
<1>13. Follows(after, m, T, F, q)
  BY <1>5, <1>12, Zenon DEF Follows
<1>14. Within(after, m, T)
  BY <1>6, <1>13, Stages
<1>15. after[m] \in Grown(q, nodes, m)
  <2>1. m \in 0..m /\ T[m] = Grown(q, nodes, m)
    BY <1>1, <1>2
  <2> QED
    BY <1>14, <2>1, Zenon DEF Within
<1> QED
  BY <1>1, <1>11, <1>15

\* A batch stored behind the last node.
LEMMA AppendAllIs ==
    ASSUME NEW q, Indexed(q), NEW nodes, NewNodes(q, nodes), NEW r, r = appendAll(q, nodes)
    PROVE  Indexed(r) /\ Gained(q, r, nodes, Len(nodes))
<1>1. PICK L, m, H, u, x :
         /\ L = Len(q.store) /\ m = Len(nodes) /\ H = {nodes[k].handle : k \in 1..m}
         /\ u = q.store \o nodes
         /\ x = [h \in DOMAIN q.index \cup H |->
                    IF \E k \in 1..m : nodes[k].handle = h
                    THEN L + CHOOSE k \in 1..m : nodes[k].handle = h ELSE q.index[h]]
  OBVIOUS
<1>2. L = Len(q.store) /\ m = Len(nodes) /\ H = {nodes[k].handle : k \in 1..m} /\ u = q.store \o nodes
  BY <1>1
<1>3. /\ q.store \in Seq(QueueNodes) /\ L \in Nat /\ q.index \in Indexes /\ DOMAIN q.index \in SUBSET Nat
      /\ DOMAIN q.index = {q.store[k].handle : k \in 1..L}
      /\ \A k \in 1..L : q.store[k].handle \in DOMAIN q.index /\ q.index[q.store[k].handle] = k
      /\ \A h \in DOMAIN q.index : q.index[h] \in 1..L /\ q.store[q.index[h]].handle = h
  BY <1>2, IndexedIs DEF Indexed
<1>4. /\ nodes \in Seq(QueueNodes) /\ m \in Nat /\ DOMAIN nodes = 1..m
      /\ \A k \in 1..m : nodes[k].handle \notin DOMAIN q.index /\ nodes[k].handle \in Nat
      /\ \A j, k \in 1..m : nodes[j].handle = nodes[k].handle => j = k
  <2>1. nodes \in Seq(QueueNodes)
    BY DEF NewNodes
  <2>2. m \in Nat /\ DOMAIN nodes = 1..m /\ \A k \in 1..m : nodes[k] \in QueueNodes
    BY <1>2, <2>1, LenProperties, ElementOfSeq
  <2> QED
    BY <1>2, <2>1, <2>2 DEF NewNodes, QueueNodes
<1>5. r = [store |-> u, index |-> x]
  <2>1. DOMAIN nodes = 1..m
    BY <1>4
  <2> QED
    BY <1>1, <2>1 DEF appendAll
<1>6. /\ u \in Seq(QueueNodes) /\ Len(u) = L + m
      /\ \A k \in 1..L : u[k] = q.store[k]
      /\ \A k \in 1..m : L + k \in 1..L + m /\ u[L + k] = nodes[k]
  <2>1. /\ u \in Seq(QueueNodes) /\ Len(u) = Len(q.store) + Len(nodes)
        /\ \A k \in 1..Len(q.store) + Len(nodes) :
              u[k] = IF k <= Len(q.store) THEN q.store[k] ELSE nodes[k - Len(q.store)]
    BY <1>2, <1>3, <1>4, ConcatProperties
  <2>2. \A k \in 1..L + m : u[k] = IF k <= L THEN q.store[k] ELSE nodes[k - L]
    BY <1>2, <2>1
  <2>3. \A k \in 1..L : k \in 1..L + m /\ k <= L
    BY <1>3, <1>4
  <2>4. \A k \in 1..m : L + k \in 1..L + m /\ ~(L + k <= L) /\ (L + k) - L = k
    BY <1>3, <1>4
  <2> QED
    BY <1>2, <2>1, <2>2, <2>3, <2>4
<1>7. DOMAIN x = DOMAIN q.index \cup H /\ \A h \in DOMAIN q.index : x[h] = q.index[h]
  BY <1>1, <1>4
<1>8. \A k \in 1..m : x[nodes[k].handle] = L + k
  <2> TAKE k \in 1..m
  <2>1. PICK h : h = nodes[k].handle /\ h \in H
    BY <1>2
  <2>2. PICK j : j = CHOOSE i \in 1..m : nodes[i].handle = h
    OBVIOUS
  <2>3. j \in 1..m /\ nodes[j].handle = h
    BY <2>1, <2>2
  <2>4. j = k
    BY <1>4, <2>1, <2>3
  <2>5. x[h] = L + j
    BY <1>1, <2>1, <2>2
  <2> QED
    BY <2>1, <2>4, <2>5
<1>9. \A k \in 1..L + m : k \in 1..L \/ \E j \in 1..m : k = L + j
  <2> TAKE k \in 1..L + m
  <2>1. ~(k \in 1..L) => k - L \in 1..m /\ k = L + (k - L)
    BY <1>3, <1>4
  <2> QED
    BY <2>1
<1>10. \A h \in DOMAIN x : /\ h \in Nat /\ x[h] \in Nat
                           /\ \E k \in 1..L + m : u[k].handle = h
  <2> TAKE h \in DOMAIN x
  <2>1. CASE h \in DOMAIN q.index
    <3>1. x[h] = q.index[h] /\ q.index[h] \in 1..L /\ q.store[q.index[h]].handle = h
      BY <1>3, <1>7, <2>1
    <3>2. q.index[h] \in 1..L + m /\ u[q.index[h]].handle = h
      BY <1>3, <1>4, <1>6, <3>1
    <3> QED
      BY <1>3, <2>1, <3>1, <3>2
  <2>2. CASE h \in H
    <3>1. PICK k \in 1..m : nodes[k].handle = h
      BY <1>2, <2>2
    <3>2. x[h] = L + k
      BY <1>8, <3>1
    <3> QED
      BY <1>3, <1>4, <1>6, <3>1, <3>2
  <2> QED
    BY <1>7, <2>1, <2>2
<1>11. x \in Indexes
  <2>1. x = [h \in DOMAIN x |-> x[h]]
    BY <1>1
  <2>2. PICK D \in SUBSET Nat : D = DOMAIN x
    BY <1>10
  <2>3. x \in [D -> Nat]
    BY <1>10, <2>1, <2>2
  <2> QED
    BY <2>3 DEF Indexes
<1>12. \A k \in 1..L + m : u[k].handle \in DOMAIN x /\ x[u[k].handle] = k
  <2> TAKE k \in 1..L + m
  <2>1. CASE k \in 1..L
    BY <1>3, <1>6, <1>7, <2>1
  <2>2. ASSUME NEW j \in 1..m, k = L + j PROVE u[k].handle \in DOMAIN x /\ x[u[k].handle] = k
    <3>1. u[k] = nodes[j] /\ nodes[j].handle \in H
      BY <1>2, <1>6, <2>2
    <3> QED
      BY <1>7, <1>8, <2>2, <3>1
  <2> QED
    BY <1>9, <2>1, <2>2
<1>13. Indexed(r) /\ r.store = u /\ r.index = x
  <2>1. Len(u) = L + m
    BY <1>6
  <2>2. \A k \in 1..Len(u) : x[u[k].handle] = k
    BY <1>12, <2>1
  <2>3. DOMAIN x = {u[k].handle : k \in 1..Len(u)}
    <3>1. \A g \in DOMAIN x : g \in {u[k].handle : k \in 1..Len(u)}
      BY <1>10, <2>1
    <3>2. \A g \in {u[k].handle : k \in 1..Len(u)} : g \in DOMAIN x
      BY <1>12, <2>1
    <3> QED
      BY <3>1, <3>2
  <2>4. u \in Seq(QueueNodes)
    BY <1>6
  <2> QED
    BY <1>5, <1>11, <2>2, <2>3, <2>4, IsIndexed
<1>14. \A h \in DOMAIN q.index : NodeOf(r, h) = NodeOf(q, h)
  <2> TAKE h \in DOMAIN q.index
  <2>1. x[h] = q.index[h] /\ q.index[h] \in 1..L
    BY <1>3, <1>7
  <2> QED
    BY <1>6, <1>13, <2>1 DEF NodeOf
<1>15. \A k \in 1..m : NodeOf(r, nodes[k].handle) = nodes[k]
  BY <1>6, <1>8, <1>13 DEF NodeOf
<1> QED
  BY <1>2, <1>7, <1>13, <1>14, <1>15 DEF Gained

\* What enqueueEntries makes of a heap.
LEMMA BatchIs ==
    ASSUME QueueAssumption, NEW q, Indexed(q), Heaped(q.store), NEW nodes, NewNodes(q, nodes),
           NEW r, r = insertAll(q, nodes) \/ r = heapify(appendAll(q, nodes))
    PROVE  Indexed(r) /\ Heaped(r.store) /\ Gained(q, r, nodes, Len(nodes))
<1>1. CASE r = insertAll(q, nodes)
  BY <1>1, InsertAllIs DEF Grown
<1>2. CASE r = heapify(appendAll(q, nodes))
  <2>1. PICK t : t = appendAll(q, nodes) /\ Indexed(t) /\ Gained(q, t, nodes, Len(nodes))
    BY AppendAllIs
  <2>2. Indexed(r) /\ SameNodes(t, r) /\ Heaped(r.store)
    BY <1>2, <2>1, HeapifyIs
  <2>3. \A k \in 1..Len(nodes) : nodes[k].handle \in DOMAIN t.index
    BY <2>1 DEF Gained
  <2>4. \A g \in DOMAIN q.index : g \in DOMAIN t.index
    BY <2>1 DEF Gained
  <2>5. Gained(q, r, nodes, Len(nodes))
    BY <2>1, <2>2, <2>3, <2>4 DEF Gained, SameNodes
  <2> QED
    BY <2>2, <2>5
<1> QED
  BY <1>1, <1>2

\* The inductive invariant.
QueueInv ==
    /\ Indexed(heap) /\ Heaped(heap.store)
    /\ nextHandle \in Nat /\ DOMAIN heap.index \subseteq 1..nextHandle

\* What a queue holds, as QueuedWork has it.
ContentsOf(q) == [h \in DOMAIN q.index |-> Turned(NodeOf(q, h).priority)]

\* The order of the comparator, turned or not.
LEMMA TurnedIs ==
    ASSUME QueueAssumption
    PROVE  /\ \A p \in NodePriorities : Turned(p) \in Int
           /\ \A p, q \in NodePriorities : /\ Turned(p) < Turned(q) <=> Sooner(p, q)
                                           /\ Turned(p) = Turned(q) <=> p = q
                                           /\ Sooner(p, q) \/ Sooner(q, p) \/ p = q
<1>1. \A p \in NodePriorities : p \in Int
  BY DEF QueueAssumption
<1> QED
  BY <1>1 DEF Turned, Sooner

\* What an index of handles leads to.
LEMMA NodeOfIs ==
    ASSUME NEW q, Indexed(q), NEW h \in DOMAIN q.index
    PROVE  /\ NodeOf(q, h) \in QueueNodes /\ NodeOf(q, h).handle = h /\ h \in Nat
           /\ NodeOf(q, h).priority \in NodePriorities
           /\ \E k \in 1..Len(q.store) : q.store[k] = NodeOf(q, h)
<1>1. q.index[h] \in 1..Len(q.store) /\ q.store[q.index[h]].handle = h /\ h \in Nat
  BY IndexedIs
<1>2. q.store[q.index[h]] \in QueueNodes
  BY <1>1, IndexedIs
<1>3. NodeOf(q, h) = q.store[q.index[h]]
  BY DEF NodeOf
<1>4. NodeOf(q, h).priority \in NodePriorities
  BY <1>2, <1>3 DEF QueueNodes
<1> QED
  BY <1>1, <1>2, <1>3, <1>4

\* The root is the first of the contents.
LEMMA FirstIs ==
    ASSUME QueueAssumption, NEW q, Indexed(q), Heaped(q.store), Len(q.store) > 0,
           NEW h, h = q.store[1].handle, NEW c, c = ContentsOf(q)
    PROVE  /\ h \in DOMAIN q.index
           /\ \A g \in DOMAIN q.index : c[h] < c[g] \/ (c[h] = c[g] /\ h <= g)
<1>1. Len(q.store) \in Nat /\ \A k \in 1..Len(q.store) : q.store[k] \in QueueNodes
  BY IndexedIs
<1>2. PICK i \in 1..Len(q.store) : i = 1
  BY <1>1
<1>3. h = q.store[i].handle
  BY <1>2
<1>4. h \in DOMAIN q.index /\ NodeOf(q, h) = q.store[i]
  BY <1>3, IndexLeads
<1>5. \A k \in 1..Len(q.store) : Fits(q.store[i], q.store[k])
  BY <1>1, <1>2, RootIsFirst
<1>6. ASSUME NEW g \in DOMAIN q.index PROVE c[h] < c[g] \/ (c[h] = c[g] /\ h <= g)
  <2>1. PICK a, b : a = NodeOf(q, h) /\ b = NodeOf(q, g)
    OBVIOUS
  <2>2. Fits(a, b)
    BY <1>4, <1>5, <2>1, NodeOfIs
  <2>3. /\ a.handle = h /\ h \in Nat /\ a.priority \in NodePriorities
        /\ b.handle = g /\ g \in Nat /\ b.priority \in NodePriorities
    BY <1>4, <2>1, NodeOfIs
  <2>4. c[h] = Turned(a.priority) /\ c[g] = Turned(b.priority)
    BY <1>4, <2>1 DEF ContentsOf
  <2>5. ~Sooner(b.priority, a.priority) /\ ~(b.priority = a.priority /\ b.handle < a.handle)
    BY <2>2 DEF Fits, comesBefore
  <2>6. Sooner(a.priority, b.priority) \/ a.priority = b.priority
    BY <2>3, <2>5, TurnedIs
  <2>7. CASE Sooner(a.priority, b.priority)
    BY <2>3, <2>4, <2>7, TurnedIs
  <2>8. CASE a.priority = b.priority
    BY <2>3, <2>4, <2>5, <2>8
  <2> QED
    BY <2>6, <2>7, <2>8
<1> QED
  BY <1>4, <1>6

\* The refinement mapping, now and after a step.
LEMMA ContentsAre ==
    /\ Contents = ContentsOf(heap) /\ Contents' = ContentsOf(heap')
BY DEF Contents, ContentsOf, NodeOf

\* What the mapping has for each handle.
LEMMA ContentsOfIs ==
    ASSUME QueueAssumption, NEW q, Indexed(q), NEW c, c = ContentsOf(q)
    PROVE  /\ DOMAIN c = DOMAIN q.index /\ c = [h \in DOMAIN c |-> c[h]]
           /\ \A h \in DOMAIN c : /\ c[h] = Turned(NodeOf(q, h).priority)
                                  /\ c[h] \in {Turned(p) : p \in NodePriorities}
<1>1. /\ DOMAIN c = DOMAIN q.index /\ c = [h \in DOMAIN c |-> c[h]]
      /\ \A h \in DOMAIN c : c[h] = Turned(NodeOf(q, h).priority)
  BY DEF ContentsOf
<1> QED
  BY <1>1, NodeOfIs

\* A queue without nodes.
LEMMA EmptyQueue ==
    ASSUME NEW q, q = [store |-> << >>, index |-> << >>]
    PROVE  /\ Indexed(q) /\ Heaped(q.store) /\ DOMAIN q.index = {} /\ ContentsOf(q) = << >>
<1>1. q.store = << >> /\ q.index = << >>
  OBVIOUS
<1>2. Len(<< >>) = 0 /\ << >> \in Seq(QueueNodes) /\ DOMAIN << >> = {}
  OBVIOUS
<1>3. << >> \in [{} -> Nat]
  OBVIOUS
<1>4. << >> \in Indexes
  BY <1>3 DEF Indexes
<1>5. {k \in 1..0 : TRUE} = {} /\ \A k \in 1..0 : FALSE
  OBVIOUS
<1>6. Indexed(q)
  <2>1. q \in QueueShapes
    BY <1>1, <1>2, <1>4 DEF QueueShapes
  <2> QED
    BY <1>1, <1>2, <1>5, <2>1 DEF Indexed
<1>7. Heaped(q.store)
  BY <1>1, <1>2, <1>5 DEF Heaped
<1>8. ContentsOf(q) = << >>
  BY <1>1, <1>2 DEF ContentsOf
<1> QED
  BY <1>1, <1>2, <1>6, <1>7, <1>8

\* What the actions start from.
LEMMA QueueIs ==
    ASSUME QueueAssumption, QueueInv
    PROVE  /\ Indexed(heap) /\ Heaped(heap.store) /\ nextHandle \in Nat
           /\ Len(heap.store) \in Nat /\ DOMAIN Contents = DOMAIN heap.index
           /\ \A h \in DOMAIN heap.index : /\ h \in 1..nextHandle
                                           /\ Contents[h] = Turned(NodeOf(heap, h).priority)
BY IndexedIs, ContentsAre, ContentsOfIs DEF QueueInv

\* Nodes join the queue, and some leave it.
LEMMA NodesReplaced ==
    ASSUME QueueAssumption, QueueInv, NEW S, NEW n \in Nat, nextHandle' = nextHandle + n,
           Indexed(heap'), Heaped((heap').store),
           DOMAIN (heap').index = (DOMAIN heap.index \ S) \cup (nextHandle + 1 .. nextHandle + n),
           \A h \in DOMAIN heap.index \ S : NodeOf(heap', h) = NodeOf(heap, h)
    PROVE  QueueInv' /\ Work!Replaced(S)
<1>1. /\ nextHandle \in Nat /\ nextHandle' \in Nat /\ nextHandle' >= nextHandle
      /\ \A h \in DOMAIN heap.index : h \in 1..nextHandle
      /\ \A h \in DOMAIN heap.index : Contents[h] = Turned(NodeOf(heap, h).priority)
      /\ DOMAIN Contents = DOMAIN heap.index
  BY QueueIs
<1>2. \A h \in 1..nextHandle : h \in 1..nextHandle'
  BY <1>1
<1>3. \A h \in nextHandle + 1 .. nextHandle + n : h \in 1..nextHandle'
  BY <1>1
<1>4. QueueInv'
  BY <1>1, <1>2, <1>3 DEF QueueInv
<1>5. PICK q : q = heap'
  OBVIOUS
<1>6. PICK c : c = Contents'
  OBVIOUS
<1>7. c = ContentsOf(q) /\ Indexed(q)
  BY <1>5, <1>6, ContentsAre
<1>8. /\ DOMAIN c = DOMAIN q.index
      /\ \A h \in DOMAIN c : /\ c[h] = Turned(NodeOf(q, h).priority)
                             /\ c[h] \in {Turned(p) : p \in NodePriorities}
  BY <1>7, ContentsOfIs
<1>9. DOMAIN c = (DOMAIN Contents \ S) \cup (nextHandle + 1 .. nextHandle')
  BY <1>1, <1>5, <1>8
<1>10. \A h \in DOMAIN Contents \ S : c[h] = Contents[h]
  BY <1>1, <1>5, <1>8, <1>9
<1>11. \A h \in nextHandle + 1 .. nextHandle' : c[h] \in {Turned(p) : p \in NodePriorities}
  BY <1>8, <1>9
<1>12. Work!Replaced(S)
  BY <1>1, <1>6, <1>9, <1>10, <1>11 DEF Work!Replaced
<1> QED
  BY <1>4, <1>12

\* enqueue is an Enqueue.
LEMMA EnqueueWorks ==
    ASSUME QueueAssumption, QueueInv, NEW p \in NodePriorities, Enqueue(p)
    PROVE  QueueInv' /\ Work!Enqueue
<1>1. PICK q, r, node : q = heap /\ r = heap' /\ node = Node(nextHandle + 1, p)
  OBVIOUS
<1>2. r = insert(q, node) /\ nextHandle' = nextHandle + 1 /\ taken' = Nothing
  BY <1>1 DEF Enqueue
<1>3. /\ nextHandle \in Nat /\ Indexed(q) /\ Heaped(q.store)
      /\ \A h \in DOMAIN q.index : h \in 1..nextHandle
  BY <1>1, QueueIs
<1>4. node \in QueueNodes /\ node.handle = nextHandle + 1
  BY <1>1, <1>3 DEF Node, QueueNodes
<1>5. node.handle \notin DOMAIN q.index
  BY <1>3, <1>4
<1>6. Indexed(r) /\ Heaped(r.store) /\ Joined(q, r, node)
  BY <1>2, <1>3, <1>4, <1>5, InsertIs
<1>7. {node.handle} = nextHandle + 1 .. nextHandle + 1
  BY <1>3, <1>4
<1>8. /\ DOMAIN r.index = (DOMAIN q.index \ {}) \cup (nextHandle + 1 .. nextHandle + 1)
      /\ \A h \in DOMAIN q.index \ {} : NodeOf(r, h) = NodeOf(q, h)
  BY <1>6, <1>7 DEF Joined
<1>9. QueueInv' /\ Work!Replaced({})
  BY <1>1, <1>2, <1>6, <1>8, NodesReplaced
<1> QED
  BY <1>2, <1>3, <1>9 DEF Work!Enqueue, Work!Nothing, Work!NoNode, Nothing, Taken

\* So is a batch, inserted or heapified.
LEMMA EntriesWork ==
    ASSUME QueueAssumption, QueueInv, NEW entries \in Batches, EnqueueEntries(entries)
    PROVE  QueueInv' /\ Work!Enqueue
<1>1. PICK n \in 2..MaxBatch : entries \in [1..n -> NodePriorities]
  BY DEF Batches
<1>2. PICK q, r, nodes : q = heap /\ r = heap'
                         /\ nodes = [k \in 1..n |-> Node(nextHandle + k, entries[k])]
  OBVIOUS
<1>3. /\ nextHandle \in Nat /\ Indexed(q) /\ Heaped(q.store)
      /\ \A h \in DOMAIN q.index : h \in 1..nextHandle
  BY <1>2, QueueIs
<1>4. n \in Nat /\ n > 0
  BY QueueAssumption DEF QueueAssumption
<1>5. /\ nodes \in Seq(QueueNodes) /\ Len(nodes) = n
      /\ \A k \in 1..n : nodes[k].handle = nextHandle + k
  <2>1. \A k \in 1..n : entries[k] \in NodePriorities /\ nextHandle + k \in Nat
    BY <1>1, <1>3
  <2>2. \A k \in 1..n : Node(nextHandle + k, entries[k]) \in QueueNodes
    BY <2>1 DEF Node, QueueNodes
  <2>3. nodes \in [1..n -> QueueNodes]
    BY <1>2, <2>2
  <2>4. \A k \in 1..n : nodes[k].handle = nextHandle + k
    BY <1>2 DEF Node
  <2> QED
    BY <1>4, <2>3, <2>4, IsASeq, LenProperties
<1>6. NewNodes(q, nodes)
  <2>1. \A k \in 1..n : nodes[k].handle \notin DOMAIN q.index
    BY <1>3, <1>5
  <2>2. \A j, k \in 1..n : nodes[j].handle = nodes[k].handle => j = k
    BY <1>3, <1>5
  <2> QED
    BY <1>5, <2>1, <2>2 DEF NewNodes
<1>7. /\ r = insertAll(q, nodes) \/ r = heapify(appendAll(q, nodes))
      /\ nextHandle' = nextHandle + n /\ taken' = Nothing
  <2>1. Len(entries) = n /\ DOMAIN entries = 1..n
    BY <1>1, <1>4
  <2> QED
    BY <1>2, <2>1 DEF EnqueueEntries
<1>8. Indexed(r) /\ Heaped(r.store) /\ Gained(q, r, nodes, n)
  <2>1. Indexed(r) /\ Heaped(r.store) /\ Gained(q, r, nodes, Len(nodes))
    BY <1>3, <1>6, <1>7, BatchIs
  <2> QED
    BY <1>5, <2>1
<1>9. {nodes[k].handle : k \in 1..n} = nextHandle + 1 .. nextHandle + n
  <2>1. \A h \in nextHandle + 1 .. nextHandle + n : h - nextHandle \in 1..n
                                                    /\ h = nextHandle + (h - nextHandle)
    BY <1>3, <1>4
  <2>2. \A k \in 1..n : nextHandle + k \in nextHandle + 1 .. nextHandle + n
    BY <1>3, <1>4
  <2>3. \A h \in nextHandle + 1 .. nextHandle + n : \E k \in 1..n : h = nodes[k].handle
    BY <1>5, <2>1
  <2>4. \A h \in {nodes[k].handle : k \in 1..n} : h \in nextHandle + 1 .. nextHandle + n
    BY <1>5, <2>2
  <2>5. \A h \in nextHandle + 1 .. nextHandle + n : h \in {nodes[k].handle : k \in 1..n}
    BY <2>3
  <2> QED
    BY <2>4, <2>5
<1>10. /\ DOMAIN r.index = (DOMAIN q.index \ {}) \cup (nextHandle + 1 .. nextHandle + n)
       /\ \A h \in DOMAIN q.index \ {} : NodeOf(r, h) = NodeOf(q, h)
  BY <1>8, <1>9 DEF Gained
<1>11. QueueInv' /\ Work!Replaced({})
  BY <1>2, <1>4, <1>7, <1>8, <1>10, NodesReplaced
<1> QED
  BY <1>3, <1>4, <1>7, <1>11 DEF Work!Enqueue, Work!Nothing, Work!NoNode, Nothing, Taken

\* A queue with a root.
LEMMA HasRoot ==
    ASSUME QueueAssumption, QueueInv, heap.store # << >>
    PROVE  /\ Len(heap.store) > 0 /\ Head(heap.store) = heap.store[1]
           /\ heap.store[1].handle \in DOMAIN Contents /\ Work!First(heap.store[1].handle)
<1>1. PICK q, c, h : q = heap /\ c = Contents /\ h = heap.store[1].handle
  OBVIOUS
<1>2. /\ Indexed(q) /\ Heaped(q.store) /\ Len(q.store) \in Nat /\ DOMAIN c = DOMAIN q.index
      /\ h = q.store[1].handle
  BY <1>1, QueueIs
<1>3. Len(q.store) > 0 /\ Head(q.store) = q.store[1]
  <2>1. q.store \in Seq(QueueNodes)
    BY <1>2, IndexedIs
  <2> QED
    BY <1>1, <1>2, <2>1, EmptySeq
<1>4. c = ContentsOf(q)
  BY <1>1, ContentsAre
<1>5. h \in DOMAIN q.index /\ \A g \in DOMAIN q.index : c[h] < c[g] \/ (c[h] = c[g] /\ h <= g)
  BY <1>2, <1>3, <1>4, FirstIs
<1>6. Work!First(h)
  BY <1>1, <1>2, <1>5 DEF Work!First
<1> QED
  BY <1>1, <1>2, <1>3, <1>5, <1>6

\* dequeue takes the first.
LEMMA DequeueWorks ==
    ASSUME QueueAssumption, QueueInv, Dequeue
    PROVE  QueueInv' /\ Work!TakeFirst
<1>1. PICK q, r, h : q = heap /\ r = heap' /\ h = heap.store[1].handle
  OBVIOUS
<1>2. /\ Indexed(q) /\ Heaped(q.store) /\ nextHandle \in Nat
      /\ \A g \in DOMAIN q.index : g \in 1..nextHandle
  BY <1>1, QueueIs
<1>3. /\ Len(q.store) > 0 /\ Head(q.store) = q.store[1] /\ h = q.store[1].handle
      /\ h \in DOMAIN Contents /\ Work!First(h)
  BY <1>1, HasRoot DEF Dequeue
<1>4. /\ r = IF Len(q.store) = 1 THEN pop(Forgotten(q, h))
             ELSE siftDown(Placed(pop(Forgotten(q, h)), 1, Last(q.store)), 1)
      /\ nextHandle' = nextHandle /\ taken' = Taken(0, h)
  BY <1>1, <1>3 DEF Dequeue
<1>5. PICK rest : rest = pop(Forgotten(q, h))
  OBVIOUS
<1>6. r = IF Len(q.store) = 1 THEN rest ELSE siftDown(Placed(rest, 1, Last(q.store)), 1)
  BY <1>4, <1>5
<1>7. Indexed(r) /\ Heaped(r.store) /\ Without(q, r, h)
  BY <1>2, <1>3, <1>5, <1>6, DequeuedIs
<1>8. nextHandle + 1 .. nextHandle + 0 = {} /\ nextHandle' = nextHandle + 0 /\ 0 \in Nat
  BY <1>2, <1>4
<1>9. /\ DOMAIN r.index = (DOMAIN q.index \ {h}) \cup (nextHandle + 1 .. nextHandle + 0)
      /\ \A g \in DOMAIN q.index \ {h} : NodeOf(r, g) = NodeOf(q, g)
  BY <1>7, <1>8 DEF Without
<1>10. QueueInv' /\ Work!Replaced({h})
  BY <1>1, <1>7, <1>8, <1>9, NodesReplaced
<1>11. nextHandle' <= nextHandle + 1 /\ taken' = [asked |-> Work!NoNode, got |-> h]
  BY <1>2, <1>4 DEF Taken, Work!NoNode
<1> QED
  BY <1>3, <1>10, <1>11 DEF Work!TakeFirst

\* replaceHead takes the first and puts another node in.
LEMMA ReplaceHeadWorks ==
    ASSUME QueueAssumption, QueueInv, NEW p \in NodePriorities, ReplaceHead(p)
    PROVE  QueueInv' /\ Work!TakeFirst
<1>1. PICK q, r, h, node : /\ q = heap /\ r = heap' /\ h = heap.store[1].handle
                           /\ node = Node(nextHandle + 1, p)
  OBVIOUS
<1>2. /\ Indexed(q) /\ Heaped(q.store) /\ nextHandle \in Nat
      /\ \A g \in DOMAIN q.index : g \in 1..nextHandle
  BY <1>1, QueueIs
<1>3. /\ Len(q.store) > 0 /\ Head(q.store) = q.store[1] /\ h = q.store[1].handle
      /\ h \in DOMAIN Contents /\ Work!First(h)
  BY <1>1, HasRoot DEF ReplaceHead
<1>4. /\ r = siftDown(Placed(Forgotten(q, h), 1, node), 1)
      /\ nextHandle' = nextHandle + 1 /\ taken' = Taken(0, h)
  BY <1>1, <1>3 DEF ReplaceHead
<1>5. node \in QueueNodes /\ node.handle = nextHandle + 1
  BY <1>1, <1>2 DEF Node, QueueNodes
<1>6. node.handle \notin DOMAIN q.index
  BY <1>2, <1>5
<1>7. /\ Indexed(r) /\ Heaped(r.store)
      /\ DOMAIN r.index = (DOMAIN q.index \ {h}) \cup {node.handle}
      /\ \A g \in DOMAIN q.index \ {h} : NodeOf(r, g) = NodeOf(q, g)
  BY <1>2, <1>3, <1>4, <1>5, <1>6, ReplacedIs
<1>8. nextHandle + 1 .. nextHandle + 1 = {node.handle} /\ 1 \in Nat
  BY <1>2, <1>5
<1>9. DOMAIN r.index = (DOMAIN q.index \ {h}) \cup (nextHandle + 1 .. nextHandle + 1)
  BY <1>7, <1>8
<1>10. QueueInv' /\ Work!Replaced({h})
  BY <1>1, <1>4, <1>7, <1>8, <1>9, NodesReplaced
<1>11. nextHandle' <= nextHandle + 1 /\ taken' = [asked |-> Work!NoNode, got |-> h]
  BY <1>2, <1>4 DEF Taken, Work!NoNode
<1> QED
  BY <1>3, <1>10, <1>11 DEF Work!TakeFirst

\* remove is a Remove, wherever the node is.
LEMMA RemoveWorks ==
    ASSUME QueueAssumption, QueueInv, NEW h \in DOMAIN heap.index, RemoveNode(h)
    PROVE  QueueInv' /\ Work!Remove
<1>1. PICK q, r, i : q = heap /\ r = heap' /\ i = heap.index[h]
  OBVIOUS
<1>2. /\ Indexed(q) /\ Heaped(q.store) /\ nextHandle \in Nat /\ DOMAIN Contents = DOMAIN q.index
      /\ \A g \in DOMAIN q.index : g \in 1..nextHandle
  BY <1>1, QueueIs
<1>3. i \in 1..Len(q.store) /\ q.store[i].handle = h
  BY <1>1, <1>2, IndexedIs
<1>4. r = removeAt(q, i) /\ nextHandle' = nextHandle /\ taken' = Taken(h, h)
  BY <1>1, <1>3 DEF RemoveNode
<1>5. Indexed(r) /\ Heaped(r.store) /\ Without(q, r, h)
  BY <1>2, <1>3, <1>4, RemoveAtIs
<1>6. nextHandle + 1 .. nextHandle + 0 = {} /\ nextHandle' = nextHandle + 0 /\ 0 \in Nat
  BY <1>2, <1>4
<1>7. /\ DOMAIN r.index = (DOMAIN q.index \ {h}) \cup (nextHandle + 1 .. nextHandle + 0)
      /\ \A g \in DOMAIN q.index \ {h} : NodeOf(r, g) = NodeOf(q, g)
  BY <1>5, <1>6 DEF Without
<1>8. QueueInv' /\ Work!Replaced({h})
  BY <1>1, <1>5, <1>6, <1>7, NodesReplaced
<1>9. h \in DOMAIN Contents /\ nextHandle' = nextHandle /\ taken' = [asked |-> h, got |-> h]
  BY <1>1, <1>2, <1>4 DEF Taken
<1> QED
  BY <1>8, <1>9 DEF Work!Remove

\* updatePriority is an Update.
LEMMA UpdateWorks ==
    ASSUME QueueAssumption, QueueInv, NEW h \in DOMAIN heap.index, NEW p \in NodePriorities,
           UpdatePriority(h, p)
    PROVE  QueueInv' /\ Work!Update
<1>1. PICK q, r, i, old, c : /\ q = heap /\ r = heap' /\ i = heap.index[h]
                             /\ old = heap.store[i].priority /\ c = Repriced(heap, i, p)
  OBVIOUS
<1>2. /\ Indexed(q) /\ Heaped(q.store) /\ nextHandle \in Nat /\ DOMAIN Contents = DOMAIN q.index
      /\ \A g \in DOMAIN q.index : g \in 1..nextHandle
  BY <1>1, QueueIs
<1>3. i \in 1..Len(q.store) /\ q.store[i].handle = h /\ q.store[i].priority = old
  BY <1>1, <1>2, IndexedIs
<1>4. /\ r = IF p = old THEN c ELSE IF Sooner(p, old) THEN siftUp(c, i) ELSE siftDown(c, i)
      /\ nextHandle' = nextHandle /\ taken' = Nothing
  BY <1>1 DEF UpdatePriority, Repriced
<1>5. c = Repriced(q, i, p)
  BY <1>1
<1>6. /\ Indexed(r) /\ Heaped(r.store) /\ DOMAIN r.index = DOMAIN q.index
      /\ NodeOf(r, h).priority = p
      /\ \A g \in DOMAIN q.index : g # h => NodeOf(r, g) = NodeOf(q, g)
  BY <1>2, <1>3, <1>4, <1>5, UpdatedIs
<1>7. QueueInv'
  BY <1>1, <1>2, <1>4, <1>6 DEF QueueInv
<1>8. PICK d, e : d = Contents /\ e = Contents'
  OBVIOUS
<1>9. d = ContentsOf(q) /\ e = ContentsOf(r)
  BY <1>1, <1>8, ContentsAre
<1>10. /\ DOMAIN d = DOMAIN q.index /\ DOMAIN e = DOMAIN q.index
       /\ e = [g \in DOMAIN e |-> e[g]]
       /\ \A g \in DOMAIN q.index : /\ d[g] = Turned(NodeOf(q, g).priority)
                                    /\ e[g] = Turned(NodeOf(r, g).priority)
  BY <1>2, <1>6, <1>9, ContentsOfIs
<1>11. \A g \in DOMAIN d : e[g] = IF g = h THEN Turned(p) ELSE d[g]
  BY <1>1, <1>6, <1>10
<1>12. e = [d EXCEPT ![h] = Turned(p)]
  BY <1>10, <1>11
<1>13. h \in DOMAIN Contents /\ Contents' = [Contents EXCEPT ![h] = Turned(p)]
       /\ Turned(p) \in {Turned(x) : x \in NodePriorities}
  BY <1>1, <1>2, <1>8, <1>12
<1> QED
  BY <1>4, <1>7, <1>13 DEF Work!Update, Work!Nothing, Work!NoNode, Nothing, Taken

\* clear is a Clear.
LEMMA ClearWorks ==
    ASSUME QueueAssumption, QueueInv, Clear
    PROVE  QueueInv' /\ Work!Clear
<1>1. PICK r : r = heap' /\ r = [store |-> << >>, index |-> << >>]
  BY DEF Clear
<1>2. Indexed(r) /\ Heaped(r.store) /\ DOMAIN r.index = {} /\ ContentsOf(r) = << >>
  BY <1>1, EmptyQueue
<1>3. QueueInv'
  BY <1>1, <1>2 DEF QueueInv, Clear
<1>4. Contents' = << >>
  BY <1>1, <1>2, ContentsAre
<1> QED
  BY <1>3, <1>4 DEF Clear, Work!Clear, Work!Nothing, Work!NoNode, Nothing, Taken

\* An empty queue is empty work.
LEMMA QueueStarts ==
    ASSUME QueueAssumption, QueueInit
    PROVE  QueueInv /\ Work!WorkInit
<1>1. PICK q : q = heap /\ q = [store |-> << >>, index |-> << >>]
  BY DEF QueueInit
<1>2. Indexed(q) /\ Heaped(q.store) /\ DOMAIN q.index = {} /\ ContentsOf(q) = << >>
  BY <1>1, EmptyQueue
<1>3. Contents = << >>
  BY <1>1, <1>2, ContentsAre
<1>4. QueueInv
  BY <1>1, <1>2 DEF QueueInv, QueueInit
<1> QED
  BY <1>3, <1>4 DEF QueueInit, Work!WorkInit, Work!Nothing, Work!NoNode, Nothing, Taken

\* Every step keeps the invariant and is one of QueuedWork, or changes nothing of it.
LEMMA QueueSteps ==
    ASSUME QueueAssumption, QueueInv, [QueueNext]_queueVars
    PROVE  QueueInv' /\ [Work!WorkNext]_(Work!workVars)
<1>1. ASSUME NEW p \in NodePriorities, Enqueue(p)
      PROVE  QueueInv' /\ Work!WorkNext
  BY <1>1, EnqueueWorks DEF Work!WorkNext
<1>2. ASSUME NEW p \in NodePriorities, ReplaceHead(p)
      PROVE  QueueInv' /\ Work!WorkNext
  BY <1>2, ReplaceHeadWorks DEF Work!WorkNext
<1>3. ASSUME NEW entries \in Batches, EnqueueEntries(entries)
      PROVE  QueueInv' /\ Work!WorkNext
  BY <1>3, EntriesWork DEF Work!WorkNext
<1>4. CASE Dequeue
  BY <1>4, DequeueWorks DEF Work!WorkNext
<1>5. CASE Clear
  BY <1>5, ClearWorks DEF Work!WorkNext
<1>6. ASSUME NEW h \in DOMAIN heap.index, RemoveNode(h)
      PROVE  QueueInv' /\ Work!WorkNext
  BY <1>6, RemoveWorks DEF Work!WorkNext
<1>7. ASSUME NEW h \in DOMAIN heap.index, NEW p \in NodePriorities, UpdatePriority(h, p)
      PROVE  QueueInv' /\ Work!WorkNext
  BY <1>7, UpdateWorks DEF Work!WorkNext
<1>8. CASE UNCHANGED queueVars
  BY <1>8 DEF queueVars, QueueInv, Work!workVars, Contents
<1> QED
  BY <1>1, <1>2, <1>3, <1>4, <1>5, <1>6, <1>7, <1>8 DEF QueueNext

\* The array stays a heap and the index of the handles exact, whatever is
\* enqueued, removed, changed and taken.
THEOREM QueueStaysHeap == ASSUME QueueAssumption PROVE QueueSpec => []QueueInv
<1>1. QueueInit => QueueInv
  BY QueueStarts
<1>2. QueueInv /\ [QueueNext]_queueVars => QueueInv'
  BY QueueSteps
<1> QED
  BY <1>1, <1>2, PTL DEF QueueSpec

\* Callers of PriorityQueue see QueuedWork: dequeue and replaceHead answer the
\* first by priority and age, remove the node that was asked for, and no call
\* loses, renames or reorders another node.
THEOREM QueueImplementsQueuedWork ==
    ASSUME QueueAssumption PROVE QueueSpec => ImplementsQueuedWork
<1>1. QueueInit => Work!WorkInit
  BY QueueStarts
<1>2. QueueInv /\ [QueueNext]_queueVars => [Work!WorkNext]_(Work!workVars)
  BY QueueSteps
<1> QED
  BY <1>1, <1>2, QueueStaysHeap, PTL DEF QueueSpec, ImplementsQueuedWork, Work!WorkSpec
=============================================================================
