---------------------------- MODULE WorldProofs ----------------------------
(***************************************************************************)
(* The World is what its callers are promised, for all components,         *)
(* entities, actors, queries and batches:                                  *)
(*   - the query cache is complete outside a batch, so that every query is *)
(*     exact and the reactive query publishes what a change makes so;      *)
(*   - the storage, the free ids and the registries agree, and the storage *)
(*     implements the table of entities and component instances.           *)
(*                                                                         *)
(* The invariants are stronger than what they prove.  CacheIsComplete      *)
(* speaks of the masks of the current registry only, but a mask that no    *)
(* query has at the moment may be used again after another component is    *)
(* registered: CacheInv speaks of all masks.  StorageAgrees says where an  *)
(* entity is; that the last of an archetype can take the place of another  *)
(* needs, of every archetype, that its arrays are parallel, that its index *)
(* is the inverse of its array and that an instance is that of its entity  *)
(* (Kept).                                                                 *)
(***************************************************************************)
EXTENDS World, SequenceTheorems, FiniteSetTheorems, TLAPS

-----------------------------------------------------------------------------
(* The query cache *)

\* cch lists, for each mask and key in it, all archetypes of archs that match.
Complete(cch, archs) ==
    /\ \A m \in Signatures, sig \in archs :
          cch.bit[m] # None /\ m \subseteq sig => sig \in cch.bit[m]
    /\ \A Q \in Signatures, sig \in archs :
          cch.key[Q] # None /\ createBitMask(Q) \subseteq sig => sig \in cch.key[Q]

IsCache(cch) ==
    /\ cch = [bit |-> cch.bit, key |-> cch.key]
    /\ DOMAIN cch.bit = Signatures /\ DOMAIN cch.key = Signatures
    /\ cch.bit = [m \in Signatures |-> cch.bit[m]]
    /\ cch.key = [Q \in Signatures |-> cch.key[Q]]

CacheInv ==
    /\ IsCache(cache)
    /\ batchDepth \in Nat /\ structureChanged \in BOOLEAN
    /\ batchDepth = 0 => ~structureChanged
    /\ ~structureChanged => Complete(cache, archetypes)

-----------------------------------------------------------------------------
LEMMA EmptyIsComplete ==
    ASSUME NEW archs
    PROVE  IsCache(EmptyCache) /\ Complete(EmptyCache, archs)
BY DEF IsCache, Complete, EmptyCache

LEMMA MaskIsSignature ==
    ASSUME NEW Q \in Signatures
    PROVE  createBitMask(Q) \in Signatures
BY DEF createBitMask, Signatures

\* A query fills in its mask and its key: with what it finds in the cache, which
\* is complete, or with the archetypes that match.
LEMMA QueryKeepsComplete ==
    ASSUME NEW cch, NEW archs, IsCache(cch), NEW Q \in Signatures
    PROVE  /\ IsCache(cachedAfter(cch, archs, Q))
           /\ Complete(cch, archs) => Complete(cachedAfter(cch, archs, Q), archs)
<1> DEFINE m == createBitMask(Q)
           found == matchingArchetypes(cch, archs, Q)
           new == cachedAfter(cch, archs, Q)
<1>1. m \in Signatures
  BY MaskIsSignature
<1>2. CASE cch.bit[m] # None
  BY <1>2 DEF cachedAfter
<1>3. CASE cch.bit[m] = None
  <2>1. new = [bit |-> [cch.bit EXCEPT ![m] = found], key |-> [cch.key EXCEPT ![Q] = found]]
    BY <1>3 DEF cachedAfter
  <2>2. /\ new.bit = [cch.bit EXCEPT ![m] = found]
        /\ new.key = [cch.key EXCEPT ![Q] = found]
        /\ new = [bit |-> new.bit, key |-> new.key]
    BY <2>1
  <2> HIDE DEF new
  <2>3. IsCache(new)
    BY <1>1, <2>2 DEF IsCache
  <2>4. ASSUME Complete(cch, archs), NEW sig \in archs, m \subseteq sig, found # None
        PROVE  sig \in found
    BY <1>3, <2>4 DEF matchingArchetypes, Complete
  <2> HIDE DEF found
  <2>5. ASSUME Complete(cch, archs)
        PROVE  Complete(new, archs)
    <3>1. ASSUME NEW k \in Signatures, NEW sig \in archs, new.bit[k] # None, k \subseteq sig
          PROVE  sig \in new.bit[k]
      <4>1. CASE k = m
        BY <1>1, <2>2, <2>4, <2>5, <3>1, <4>1 DEF IsCache
      <4>2. CASE k # m
        BY <2>2, <2>5, <3>1, <4>2 DEF IsCache, Complete
      <4> QED  BY <4>1, <4>2
    <3>2. ASSUME NEW K \in Signatures, NEW sig \in archs, new.key[K] # None,
                 createBitMask(K) \subseteq sig
          PROVE  sig \in new.key[K]
      <4>1. CASE K = Q
        BY <2>2, <2>4, <2>5, <3>2, <4>1 DEF IsCache
      <4>2. CASE K # Q
        BY <2>2, <2>5, <3>2, <4>2 DEF IsCache, Complete
      <4> QED  BY <4>1, <4>2
    <3> QED  BY <3>1, <3>2 DEF Complete
  <2> QED  BY <2>3, <2>5 DEF new
<1> QED  BY <1>2, <1>3

\* An archetype that was created either empties the cache or, in a batch, is
\* noted; the reactive query that may run afterwards keeps what holds.
LEMMA MutationKeepsInv ==
    ASSUME CacheInv, NEW created \in BOOLEAN, NEW emitted \in BOOLEAN,
           CacheStep(created, emitted),
           ~created => archetypes' = archetypes,
           batchDepth' = batchDepth, registered' = registered
    PROVE  CacheInv'
<1> DEFINE cch == invalidated(created, cache)
<1>1. IsCache(cch)
  BY EmptyIsComplete DEF invalidated, CacheInv
<1>2. structureChanged' = (structureChanged \/ (created /\ batchDepth > 0))
  BY DEF CacheStep
<1>3. structureChanged' \in BOOLEAN /\ (batchDepth' = 0 => ~structureChanged')
  BY <1>2 DEF CacheInv
<1>4. ASSUME ~structureChanged'
      PROVE  Complete(cch, archetypes')
  <2>1. CASE created
    <3>1. ~(batchDepth > 0)
      BY <1>2, <1>4, <2>1, Zenon
    <3>2. batchDepth = 0
      BY <3>1 DEF CacheInv
    <3> QED  BY <2>1, <3>2, EmptyIsComplete DEF invalidated
  <2>2. CASE ~created
    BY <1>2, <1>4, <2>2 DEF invalidated, CacheInv
  <2> QED  BY <2>1, <2>2
<1> HIDE DEF cch
<1>5. cache' = cch \/ cache' = cachedAfter(cch, archetypes', Reactive)
  BY DEF CacheStep, cch
<1>6. IsCache(cache') /\ (~structureChanged' => Complete(cache', archetypes'))
  <2>1. Reactive \in Signatures
    BY ComponentsAssumption
  <2> QED  BY <1>1, <1>4, <1>5, <2>1, QueryKeepsComplete
<1>7. Complete(cache', archetypes') => Complete(cache, archetypes)'
  BY DEF Complete, createBitMask
<1> QED  BY <1>3, <1>6, <1>7 DEF CacheInv, IsCache

-----------------------------------------------------------------------------
LEMMA CacheInit == Init => CacheInv
<1> SUFFICES ASSUME Init
             PROVE  CacheInv
  OBVIOUS
<1>1. cache = EmptyCache /\ batchDepth = 0 /\ structureChanged = FALSE
  BY DEF Init
<1>2. IsCache(cache) /\ Complete(cache, archetypes)
  BY <1>1, EmptyIsComplete, Zenon
<1>3. batchDepth \in Nat
  BY <1>1
<1> QED  BY <1>1, <1>2, <1>3, Zenon DEF CacheInv

LEMMA CacheNext == CacheInv /\ [Next]_vars => CacheInv'
<1> SUFFICES ASSUME CacheInv, [Next]_vars
             PROVE  CacheInv'
  OBVIOUS
<1> USE DEF cacheVars
<1>1. CASE UNCHANGED vars
  BY <1>1 DEF vars, storageVars, CacheInv, IsCache, Complete, createBitMask
<1>2. ASSUME NEW a \in Creators, NEW sig \in SUBSET Preloaded, create(a, sig)
      PROVE  CacheInv'
  <2>1. CacheStep(sig \notin archetypes, a # None)
    BY <1>2 DEF create
  <2>2. /\ sig \in archetypes => archetypes' = archetypes
        /\ batchDepth' = batchDepth /\ registered' = registered
    BY <1>2 DEF create, getOrCreateArchetype
  <2> QED  BY <2>1, <2>2, MutationKeepsInv
<1>3. ASSUME NEW e \in Entities, destroyEntity(e)
      PROVE  CacheInv'
  <2>1. CacheStep(FALSE, actorOf[e] # None)
    BY <1>3 DEF destroyEntity
  <2>2. archetypes' = archetypes /\ batchDepth' = batchDepth /\ registered' = registered
    BY <1>3 DEF destroyEntity, DestroyStep, storageVars
  <2> QED  BY <2>1, <2>2, MutationKeepsInv
<1>4. ASSUME NEW a \in Actors, destroy(a)
      PROVE  CacheInv'
  <2>1. UNCHANGED <<cacheVars, archetypes, batchDepth, registered>>
    BY <1>4 DEF destroy, DestroyStep, storageVars
  <2> QED  BY <2>1 DEF CacheInv, IsCache, Complete, createBitMask
<1>5. ASSUME NEW e \in Entities, NEW c \in Components, addComponent(e, c)
      PROVE  CacheInv'
  <2> DEFINE to == entityArchetypes[e] \union {c}
  <2>1. CacheStep(to \notin archetypes, actorOf[e] # None /\ c \in Reactive)
    BY <1>5 DEF addComponent
  <2>2. /\ to \in archetypes => archetypes' = archetypes
        /\ batchDepth' = batchDepth /\ registered' = registered
    BY <1>5 DEF addComponent, getOrCreateArchetype
  <2> QED  BY <2>1, <2>2, MutationKeepsInv
<1>6. ASSUME NEW e \in Entities, NEW c \in Components, removeComponent(e, c)
      PROVE  CacheInv'
  <2> DEFINE to == entityArchetypes[e] \ {c}
  <2>1. CacheStep(to \notin archetypes, actorOf[e] # None /\ c \in Reactive)
    BY <1>6 DEF removeComponent
  <2>2. /\ to \in archetypes => archetypes' = archetypes
        /\ batchDepth' = batchDepth /\ registered' = registered
    BY <1>6 DEF removeComponent, getOrCreateArchetype
  <2> QED  BY <2>1, <2>2, MutationKeepsInv
<1>7. ASSUME NEW Q \in Queries, query(Q)
      PROVE  CacheInv'
  <2>1. /\ cache' = cachedAfter(cache, archetypes, Q)
        /\ UNCHANGED <<archetypes, registered, structureChanged, batchDepth>>
    BY <1>7 DEF query, storageVars
  <2>2. Q \in Signatures
    BY ComponentsAssumption
  <2>3. IsCache(cache') /\ (~structureChanged => Complete(cache', archetypes))
    BY <2>1, <2>2, QueryKeepsComplete DEF CacheInv
  <2> QED  BY <2>1, <2>3 DEF CacheInv, IsCache, Complete, createBitMask
<1>8. ASSUME createReactiveQuery
      PROVE  CacheInv'
  <2>1. /\ cache' = cachedAfter(cache, archetypes, Reactive)
        /\ UNCHANGED <<archetypes, registered, structureChanged, batchDepth>>
    BY <1>8 DEF createReactiveQuery, storageVars
  <2>2. Reactive \in Signatures
    BY ComponentsAssumption
  <2>3. IsCache(cache') /\ (~structureChanged => Complete(cache', archetypes))
    BY <2>1, <2>2, QueryKeepsComplete DEF CacheInv
  <2> QED  BY <2>1, <2>3 DEF CacheInv, IsCache, Complete, createBitMask
<1>9. ASSUME NEW c \in Components, registerComponentType(c)
      PROVE  CacheInv'
  \* A larger mask matches fewer archetypes.
  <2>1. /\ registered' = registered \union {c}
        /\ UNCHANGED <<cacheVars, archetypes, batchDepth>>
    BY <1>9 DEF registerComponentType, storageVars
  <2>2. Complete(cache, archetypes) => Complete(cache, archetypes)'
    BY <2>1 DEF Complete, createBitMask
  <2> QED  BY <2>1, <2>2 DEF CacheInv, IsCache
<1>10. ASSUME batchBegin
       PROVE  CacheInv'
  BY <1>10 DEF batchBegin, CacheInv, IsCache, Complete, createBitMask, storageVars
<1>11. ASSUME batchEnd
       PROVE  CacheInv'
  <2>1. /\ batchDepth' = batchDepth - 1 /\ batchDepth > 0
        /\ UNCHANGED <<archetypes, registered>>
    BY <1>11 DEF batchEnd, storageVars
  <2>2. batchDepth' \in Nat
    BY <2>1 DEF CacheInv
  <2>3. CASE batchDepth = 1
    <3>1. cache' = endOfBatch /\ ~structureChanged' /\ structureChanged' \in BOOLEAN
      BY <1>11, <2>3 DEF batchEnd
    <3>2. IsCache(cache') /\ Complete(cache', archetypes)
      BY <3>1, EmptyIsComplete DEF endOfBatch, CacheInv
    <3> QED  BY <2>1, <2>2, <3>1, <3>2 DEF CacheInv, IsCache, Complete, createBitMask
  <2>4. CASE batchDepth # 1
    <3>1. UNCHANGED <<cache, structureChanged>> /\ batchDepth' # 0
      BY <1>11, <2>1, <2>4 DEF batchEnd, CacheInv
    <3> QED  BY <2>1, <2>2, <3>1 DEF CacheInv, IsCache, Complete, createBitMask
  <2> QED  BY <2>3, <2>4
<1>12. ASSUME clear
       PROVE  CacheInv'
  <2>1. cache' = EmptyCache /\ UNCHANGED <<structureChanged, batchDepth>>
    BY <1>12 DEF clear
  <2>2. IsCache(cache') /\ Complete(cache', archetypes')
    BY <2>1, EmptyIsComplete
  <2>3. Complete(cache', archetypes') => Complete(cache, archetypes)'
    BY <1>12 DEF clear, Complete, createBitMask
  <2> QED  BY <2>1, <2>2, <2>3 DEF CacheInv, IsCache
<1> QED
  BY <1>1, <1>2, <1>3, <1>4, <1>5, <1>6, <1>7, <1>8, <1>9, <1>10, <1>11, <1>12 DEF Next

\* The query cache (world-query-runtime.ts, with the invalidation of world.ts)
\* is complete whenever no batch has a structure change to make up for.
THEOREM CacheIsAlwaysComplete == Spec => []CacheIsComplete
<1>1. CacheInv => CacheIsComplete
  BY MaskIsSignature DEF CacheInv, Complete, CacheIsComplete
<1> QED  BY <1>1, CacheInit, CacheNext, PTL DEF Spec

(* Archetypes *)

\* Its arrays are parallel, its index is the inverse of the array of entities, and
\* an instance is that of its entity.
Kept(A, sig) ==
    /\ A.entities \in Seq(Entities) /\ A.entityToIndex \in [Entities -> Nat]
    /\ A.components \in [sig -> Seq(Instances)]
    /\ \A c \in sig : Len(A.components[c]) = Len(A.entities)
    /\ \A c \in sig, i \in 1..Len(A.entities) : A.components[c][i] = <<A.entities[i], c>>
    /\ \A i \in 1..Len(A.entities) : A.entityToIndex[A.entities[i]] = i
    /\ \A e \in Entities : A.entityToIndex[e] # 0 =>
          /\ A.entityToIndex[e] \in 1..Len(A.entities)
          /\ A.entities[A.entityToIndex[e]] = e

NewRow(e, sig) == [c \in sig |-> <<e, c>>]

-----------------------------------------------------------------------------
\* Swap removal.
LEMMA MovedElements ==
    ASSUME NEW S, NEW s \in Seq(S), NEW i \in 1..Len(s)
    PROVE  /\ Moved(s, i) \in Seq(S) /\ Len(Moved(s, i)) = Len(s) - 1
           /\ \A j \in 1..(Len(s) - 1) : Moved(s, i)[j] = IF j = i THEN s[Len(s)] ELSE s[j]
<1> DEFINE n == Len(s)
           t == [s EXCEPT ![i] = s[n]]
<1>1. n \in Nat /\ n # 0 /\ n \in 1..n
  BY LenProperties
<1>2. s[n] \in S
  BY <1>1, ElementOfSeq
<1>3. /\ t \in Seq(S) /\ Len(t) = n
      /\ \A j \in 1..n : t[j] = IF j = i THEN s[n] ELSE s[j]
  BY <1>2, ExceptSeq
<1> HIDE DEF t
<1>4. \A j \in 1..(n - 1) : t[j] \in S
  BY <1>1, <1>3, ElementOfSeq
<1>5. /\ SubSeq(t, 1, n - 1) \in Seq(S)
      /\ Len(SubSeq(t, 1, n - 1)) = IF 1 <= n - 1 THEN (n - 1) - 1 + 1 ELSE 0
      /\ \A j \in 1..((n - 1) - 1 + 1) : SubSeq(t, 1, n - 1)[j] = t[1 + j - 1]
  BY <1>1, <1>4, SubSeqProperties
<1>6. Moved(s, i) = SubSeq(t, 1, n - 1)
  BY <1>1 DEF Moved, t
<1> HIDE DEF n
<1>7. /\ SubSeq(t, 1, n - 1) \in Seq(S) /\ Len(SubSeq(t, 1, n - 1)) = n - 1
      /\ \A j \in 1..(n - 1) : SubSeq(t, 1, n - 1)[j] = t[j]
  BY <1>1, <1>5
<1>8. \A j \in 1..(n - 1) : j \in 1..n
  BY <1>1
<1> QED
  BY <1>3, <1>6, <1>7, <1>8 DEF n

\* The entity that goes leaves the others where the index says.
LEMMA RemoveKeeps ==
    ASSUME NEW A, NEW sig \in Signatures, Kept(A, sig),
           NEW e \in Entities, A.entityToIndex[e] # 0
    PROVE  /\ Kept(removeEntity(A, e), sig)
           /\ \A f \in Entities :
                 removeEntity(A, e).entityToIndex[f] # 0 <=> f # e /\ A.entityToIndex[f] # 0
<1> DEFINE i == A.entityToIndex[e]
           n == Len(A.entities)
           B == removeEntity(A, e)
           last == A.entities[n]
<1>1. n \in Nat /\ i \in 1..n /\ A.entities[i] = e /\ n \in 1..n
  BY LenProperties DEF Kept
<1>2. /\ B.entities = Moved(A.entities, i) /\ B.entityToIndex = reindexed(A, e)
      /\ B.components = [c \in sig |-> Moved(A.components[c], i)]
  BY DEF removeEntity, Kept
<1> HIDE DEF B
<1>3. /\ B.entities \in Seq(Entities) /\ Len(B.entities) = n - 1
      /\ \A j \in 1..(n - 1) : B.entities[j] = IF j = i THEN last ELSE A.entities[j]
  <2>1. A.entities \in Seq(Entities) /\ i \in 1..Len(A.entities)
    BY <1>1 DEF Kept
  <2> HIDE DEF i
  <2>2. /\ Moved(A.entities, i) \in Seq(Entities)
        /\ Len(Moved(A.entities, i)) = Len(A.entities) - 1
        /\ \A j \in 1..(Len(A.entities) - 1) :
              Moved(A.entities, i)[j] = IF j = i THEN last ELSE A.entities[j]
    BY <2>1, MovedElements
  <2> QED
    BY <1>2, <2>2
<1>4. last \in Entities /\ A.entityToIndex[last] = n
  BY <1>1, ElementOfSeq DEF Kept
<1>5. B.entityToIndex = [A.entityToIndex EXCEPT ![last] = i, ![e] = 0]
  BY <1>2 DEF reindexed
<1>6. /\ B.entityToIndex \in [Entities -> Nat]
      /\ \A f \in Entities : B.entityToIndex[f] =
            IF f = e THEN 0 ELSE IF f = last THEN i ELSE A.entityToIndex[f]
  BY <1>1, <1>4, <1>5 DEF Kept
<1>7. ASSUME NEW c \in sig
      PROVE  /\ B.components[c] \in Seq(Instances) /\ Len(B.components[c]) = n - 1
             /\ \A j \in 1..(n - 1) : B.components[c][j] = <<B.entities[j], c>>
  <2>1. /\ A.components[c] \in Seq(Instances) /\ Len(A.components[c]) = n
        /\ \A j \in 1..n : A.components[c][j] = <<A.entities[j], c>>
    BY DEF Kept
  <2>2. B.components[c] = Moved(A.components[c], i)
    BY <1>2
  <2>3. /\ B.components[c] \in Seq(Instances) /\ Len(B.components[c]) = n - 1
        /\ \A j \in 1..(n - 1) : B.components[c][j] =
              IF j = i THEN A.components[c][n] ELSE A.components[c][j]
    <3> DEFINE s == A.components[c]
    <3>1. s \in Seq(Instances) /\ Len(s) = n /\ i \in 1..Len(s)
      BY <1>1, <2>1
    <3> HIDE DEF s, i
    <3>2. /\ Moved(s, i) \in Seq(Instances) /\ Len(Moved(s, i)) = Len(s) - 1
          /\ \A j \in 1..(Len(s) - 1) : Moved(s, i)[j] = IF j = i THEN s[Len(s)] ELSE s[j]
      BY <3>1, MovedElements
    <3> QED
      BY <2>2, <3>1, <3>2 DEF s
  <2> HIDE DEF n
  <2>4. \A j \in 1..(n - 1) : j \in 1..n
    BY <1>1
  <2> QED
    BY <1>1, <1>3, <2>1, <2>3, <2>4
<1>8. B.components \in [sig -> Seq(Instances)]
  <2>1. B.components = [c \in sig |-> B.components[c]]
    BY <1>2
  <2> QED
    BY <1>7, <2>1
<1>9. \A j \in 1..n : A.entityToIndex[A.entities[j]] = j /\ A.entities[j] \in Entities
  BY ElementOfSeq DEF Kept
<1>10. \A j \in 1..(n - 1) : B.entityToIndex[B.entities[j]] = j
  <2> SUFFICES ASSUME NEW j \in 1..(n - 1) PROVE B.entityToIndex[B.entities[j]] = j
    OBVIOUS
  <2>1. j \in 1..n /\ j # n
    BY <1>1
  <2>2. CASE j = i
    <3>1. B.entities[j] = last /\ last # e
      BY <1>1, <1>3, <1>4, <1>9, <2>1, <2>2
    <3> QED
      BY <1>4, <1>6, <2>2, <3>1
  <2>3. CASE j # i
    <3>1. B.entities[j] = A.entities[j]
      BY <1>3, <2>3
    <3>2. A.entities[j] # e /\ A.entities[j] # last /\ A.entities[j] \in Entities
      BY <1>1, <1>4, <1>9, <2>1, <2>3
    <3> QED
      BY <1>6, <1>9, <2>1, <3>1, <3>2
  <2> QED
    BY <2>2, <2>3
<1>11. \A f \in Entities : A.entityToIndex[f] # 0 =>
          A.entityToIndex[f] \in 1..n /\ A.entities[A.entityToIndex[f]] = f
  BY DEF Kept
<1>12. ASSUME NEW f \in Entities
       PROVE  B.entityToIndex[f] # 0 <=> f # e /\ A.entityToIndex[f] # 0
  BY <1>1, <1>4, <1>6
<1>13. ASSUME NEW f \in Entities, B.entityToIndex[f] # 0
       PROVE  /\ B.entityToIndex[f] \in 1..(n - 1)
              /\ B.entities[B.entityToIndex[f]] = f
  <2>1. f # e /\ A.entityToIndex[f] # 0
    BY <1>12, <1>13
  <2>2. CASE f = last
    <3>1. B.entityToIndex[f] = i /\ i # n
      BY <1>1, <1>6, <2>1, <2>2
    <3> QED
      BY <1>1, <1>3, <2>2, <3>1
  <2>3. CASE f # last
    <3>1. B.entityToIndex[f] = A.entityToIndex[f]
      BY <1>6, <2>1, <2>3
    <3>2. A.entityToIndex[f] \in 1..n /\ A.entities[A.entityToIndex[f]] = f
      BY <1>11, <2>1
    <3>3. A.entityToIndex[f] # n /\ A.entityToIndex[f] # i
      BY <1>1, <2>1, <2>3, <3>2
    <3> QED
      BY <1>1, <1>3, <3>1, <3>2, <3>3
  <2> QED
    BY <2>2, <2>3
<1> HIDE DEF n
<1>14. Kept(B, sig)
  BY <1>3, <1>6, <1>7, <1>8, <1>10, <1>13 DEF Kept
<1> QED
  BY <1>12, <1>14 DEF B

\* The entity that comes is the last.
LEMMA AddKeeps ==
    ASSUME NEW A, NEW sig \in Signatures, Kept(A, sig),
           NEW e \in Entities, A.entityToIndex[e] = 0
    PROVE  /\ Kept(addEntity(A, e, NewRow(e, sig)), sig)
           /\ \A f \in Entities :
                 addEntity(A, e, NewRow(e, sig)).entityToIndex[f] # 0
                    <=> f = e \/ A.entityToIndex[f] # 0
<1> DEFINE n == Len(A.entities)
           B == addEntity(A, e, NewRow(e, sig))
<1>1. n \in Nat
  BY LenProperties DEF Kept
<1>2. /\ B.entities = Append(A.entities, e)
      /\ B.entityToIndex = [A.entityToIndex EXCEPT ![e] = n + 1]
      /\ B.components = [c \in sig |-> Append(A.components[c], <<e, c>>)]
  BY DEF addEntity, Kept, NewRow
<1> HIDE DEF B
<1>3. /\ B.entities \in Seq(Entities) /\ Len(B.entities) = n + 1
      /\ \A j \in 1..(n + 1) : B.entities[j] = IF j = n + 1 THEN e ELSE A.entities[j]
  BY <1>1, <1>2 DEF Kept
<1>4. /\ B.entityToIndex \in [Entities -> Nat]
      /\ \A f \in Entities : B.entityToIndex[f] = IF f = e THEN n + 1 ELSE A.entityToIndex[f]
  BY <1>1, <1>2 DEF Kept
<1>5. ASSUME NEW c \in sig
      PROVE  /\ B.components[c] \in Seq(Instances) /\ Len(B.components[c]) = n + 1
             /\ \A j \in 1..(n + 1) : B.components[c][j] = <<B.entities[j], c>>
  <2>1. /\ A.components[c] \in Seq(Instances) /\ Len(A.components[c]) = n
        /\ \A j \in 1..n : A.components[c][j] = <<A.entities[j], c>>
    BY DEF Kept
  <2>2. B.components[c] = Append(A.components[c], <<e, c>>)
    BY <1>2
  <2>3. <<e, c>> \in Instances
    BY DEF Instances, Signatures
  <2> HIDE DEF n
  <2>4. /\ B.components[c] \in Seq(Instances) /\ Len(B.components[c]) = n + 1
        /\ \A j \in 1..(n + 1) : B.components[c][j] =
              IF j = n + 1 THEN <<e, c>> ELSE A.components[c][j]
    BY <1>1, <2>1, <2>2, <2>3
  <2>5. \A j \in 1..(n + 1) : j = n + 1 \/ j \in 1..n
    BY <1>1
  <2> QED
    BY <1>3, <2>1, <2>4, <2>5
<1>6. B.components \in [sig -> Seq(Instances)]
  <2>1. B.components = [c \in sig |-> B.components[c]]
    BY <1>2
  <2> QED
    BY <1>5, <2>1
<1>7. \A j \in 1..n : A.entityToIndex[A.entities[j]] = j /\ A.entities[j] \in Entities
  BY ElementOfSeq DEF Kept
<1>8. \A j \in 1..(n + 1) : B.entityToIndex[B.entities[j]] = j
  <2> SUFFICES ASSUME NEW j \in 1..(n + 1) PROVE B.entityToIndex[B.entities[j]] = j
    OBVIOUS
  <2>1. CASE j = n + 1
    BY <1>3, <1>4, <2>1
  <2>2. CASE j # n + 1
    <3>1. j \in 1..n /\ j # 0
      BY <1>1, <2>2
    <3> QED
      BY <1>3, <1>4, <1>7, <2>2, <3>1
  <2> QED
    BY <2>1, <2>2
<1>9. \A f \in Entities : A.entityToIndex[f] # 0 =>
          A.entityToIndex[f] \in 1..n /\ A.entities[A.entityToIndex[f]] = f
  BY DEF Kept
<1>10. \A f \in Entities : B.entityToIndex[f] # 0 <=> f = e \/ A.entityToIndex[f] # 0
  BY <1>1, <1>4
<1>11. \A f \in Entities : B.entityToIndex[f] # 0 =>
          B.entityToIndex[f] \in 1..(n + 1) /\ B.entities[B.entityToIndex[f]] = f
  BY <1>1, <1>3, <1>4, <1>9
<1> HIDE DEF n
<1>12. Kept(B, sig)
  BY <1>3, <1>4, <1>5, <1>6, <1>8, <1>11 DEF Kept
<1> QED
  BY <1>10, <1>12 DEF B

-----------------------------------------------------------------------------
(* The storage *)

\* Each archetype is well formed and indexes the entities recorded as its own.
StorageInv ==
    /\ entityArchetypes \in [Entities -> Signatures \union {None}]
    /\ store = [sig \in Signatures |-> store[sig]]
    /\ \A sig \in Signatures : Kept(store[sig], sig)
    /\ \A e \in Entities, sig \in Signatures :
          store[sig].entityToIndex[e] # 0 <=> entityArchetypes[e] = sig
    /\ archetypes \subseteq Signatures
    /\ \A e \in Entities : entityArchetypes[e] # None => entityArchetypes[e] \in archetypes

\* What the operations do to the storage.
Grows(e, sig) ==
    /\ entityArchetypes' = [entityArchetypes EXCEPT ![e] = sig]
    /\ archetypes' = archetypes \union {sig}
    /\ store' = [store EXCEPT ![sig] = addEntity(@, e, NewRow(e, sig))]
Shrinks(e) ==
    /\ entityArchetypes' = [entityArchetypes EXCEPT ![e] = None]
    /\ archetypes' = archetypes
    /\ store' = [store EXCEPT ![entityArchetypes[e]] = removeEntity(@, e)]
Turns(e, to) ==
    /\ entityArchetypes' = [entityArchetypes EXCEPT ![e] = to]
    /\ archetypes' = archetypes \union {to}
    /\ store' = transfer(e, entityArchetypes[e], to)

LEMMA EmptyIsKept ==
    ASSUME NEW sig \in Signatures
    PROVE  /\ Kept(EmptyArchetype(sig), sig)
           /\ \A e \in Entities : EmptyArchetype(sig).entityToIndex[e] = 0
<1> DEFINE A == EmptyArchetype(sig)
<1>1. /\ A.entities = <<>> /\ A.entityToIndex = [e \in Entities |-> 0]
      /\ A.components = [c \in sig |-> <<>>]
  BY DEF EmptyArchetype
<1> HIDE DEF A
<1>2. A.entities \in Seq(Entities) /\ Len(A.entities) = 0
  BY <1>1
<1>3. A.components \in [sig -> Seq(Instances)] /\ \A c \in sig : Len(A.components[c]) = 0
  BY <1>1
<1> QED
  BY <1>1, <1>2, <1>3 DEF Kept, A

LEMMA ResetHolds ==
    ASSUME entityArchetypes' = [e \in Entities |-> None], archetypes' = {{}},
           store' = [sig \in Signatures |-> EmptyArchetype(sig)]
    PROVE  StorageInv'
<1>1. {} \in Signatures
  BY DEF Signatures
<1>2. \A sig \in Signatures : sig # None
  BY NoneAssumption
<1> QED
  BY <1>1, <1>2, EmptyIsKept DEF StorageInv

LEMMA GrowsHolds ==
    ASSUME StorageInv, NEW e \in Entities, NEW sig \in Signatures, entityArchetypes[e] = None,
           Grows(e, sig)
    PROVE  StorageInv'
<1> DEFINE B == addEntity(store[sig], e, NewRow(e, sig))
<1>1. /\ store = [s \in Signatures |-> store[s]] /\ \A s \in Signatures : s # None
      /\ entityArchetypes \in [Entities -> Signatures \union {None}]
  BY NoneAssumption DEF StorageInv
<1>2. store[sig].entityToIndex[e] = 0 /\ Kept(store[sig], sig)
  BY <1>1 DEF StorageInv
<1>3. /\ Kept(B, sig)
      /\ \A f \in Entities : B.entityToIndex[f] # 0 <=> f = e \/ store[sig].entityToIndex[f] # 0
  BY <1>2, AddKeeps
<1>4. /\ store' = [s \in Signatures |-> IF s = sig THEN B ELSE store[s]]
      /\ entityArchetypes' = [f \in Entities |-> IF f = e THEN sig ELSE entityArchetypes[f]]
      /\ archetypes' = archetypes \union {sig}
  BY <1>1 DEF Grows
<1> HIDE DEF B
<1>5. \A s \in Signatures : Kept(store'[s], s)
  BY <1>3, <1>4 DEF StorageInv
<1>6. ASSUME NEW f \in Entities, NEW s \in Signatures
      PROVE  store'[s].entityToIndex[f] # 0 <=> entityArchetypes'[f] = s
  <2>1. store[s].entityToIndex[f] # 0 <=> entityArchetypes[f] = s
    BY DEF StorageInv
  <2> QED
    BY <1>1, <1>3, <1>4, <2>1
<1>7. \A s \in Signatures : Kept(store[s], s)'
  BY <1>5 DEF Kept
<1> QED
  BY <1>1, <1>4, <1>6, <1>7 DEF StorageInv

LEMMA ShrinksHolds ==
    ASSUME StorageInv, NEW e \in Entities, entityArchetypes[e] # None, Shrinks(e)
    PROVE  StorageInv'
<1> DEFINE sig == entityArchetypes[e]
           B == removeEntity(store[sig], e)
<1>1. /\ store = [s \in Signatures |-> store[s]] /\ \A s \in Signatures : s # None
      /\ entityArchetypes \in [Entities -> Signatures \union {None}] /\ sig \in Signatures
  BY NoneAssumption DEF StorageInv
<1>2. store[sig].entityToIndex[e] # 0 /\ Kept(store[sig], sig)
  BY <1>1 DEF StorageInv
<1>3. /\ Kept(B, sig)
      /\ \A f \in Entities : B.entityToIndex[f] # 0 <=> f # e /\ store[sig].entityToIndex[f] # 0
  BY <1>1, <1>2, RemoveKeeps
<1>4. /\ store' = [s \in Signatures |-> IF s = sig THEN B ELSE store[s]]
      /\ entityArchetypes' = [f \in Entities |-> IF f = e THEN None ELSE entityArchetypes[f]]
      /\ archetypes' = archetypes
  BY <1>1 DEF Shrinks
<1> HIDE DEF B
<1>5. \A s \in Signatures : Kept(store'[s], s)
  BY <1>3, <1>4 DEF StorageInv
<1>6. ASSUME NEW f \in Entities, NEW s \in Signatures
      PROVE  store'[s].entityToIndex[f] # 0 <=> entityArchetypes'[f] = s
  <2>1. store[s].entityToIndex[f] # 0 <=> entityArchetypes[f] = s
    BY DEF StorageInv
  <2> QED
    BY <1>1, <1>3, <1>4, <2>1
<1>7. \A s \in Signatures : Kept(store[s], s)'
  BY <1>5 DEF Kept
<1> QED
  BY <1>1, <1>4, <1>6, <1>7 DEF StorageInv

\* The instances that move are those of the entity, and so is the new one.
LEMMA TurnsHolds ==
    ASSUME StorageInv, NEW e \in Entities, entityArchetypes[e] # None,
           NEW to \in Signatures, to # entityArchetypes[e], Turns(e, to)
    PROVE  StorageInv'
<1> DEFINE from == entityArchetypes[e]
           A == store[from]
           B == removeEntity(A, e)
           C == addEntity(store[to], e, NewRow(e, to))
           old == removedComponents(A, e)
           row == [c \in to |-> IF c \in from THEN old[c] ELSE <<e, c>>]
<1>1. /\ store = [s \in Signatures |-> store[s]] /\ \A s \in Signatures : s # None
      /\ entityArchetypes \in [Entities -> Signatures \union {None}] /\ from \in Signatures
  BY NoneAssumption DEF StorageInv
<1>2. A.entityToIndex[e] # 0 /\ Kept(A, from)
  BY <1>1 DEF StorageInv
<1>3. store[to].entityToIndex[e] = 0 /\ Kept(store[to], to)
  BY <1>1 DEF StorageInv
<1>4. /\ Kept(B, from)
      /\ \A f \in Entities : B.entityToIndex[f] # 0 <=> f # e /\ A.entityToIndex[f] # 0
  BY <1>1, <1>2, RemoveKeeps
<1>5. /\ Kept(C, to)
      /\ \A f \in Entities : C.entityToIndex[f] # 0 <=> f = e \/ store[to].entityToIndex[f] # 0
  BY <1>3, AddKeeps
<1>6. row = NewRow(e, to)
  <2>1. ASSUME NEW c \in from PROVE old[c] = <<e, c>>
    BY <1>2 DEF removedComponents, Kept
  <2> QED
    BY <2>1 DEF NewRow
<1>7. store' = [store EXCEPT ![from] = B, ![to] = C]
  <2>1. store' = [store EXCEPT ![from] = removeEntity(@, e), ![to] = addEntity(@, e, row)]
    BY DEF Turns, transfer
  <2>2. [store EXCEPT ![from] = removeEntity(@, e)] = [store EXCEPT ![from] = B]
    BY <1>1
  <2> QED
    BY <1>1, <1>6, <2>1
<1>8. /\ store' = [s \in Signatures |-> IF s = to THEN C ELSE IF s = from THEN B ELSE store[s]]
      /\ entityArchetypes' = [f \in Entities |-> IF f = e THEN to ELSE entityArchetypes[f]]
      /\ archetypes' = archetypes \union {to}
  BY <1>1, <1>7 DEF Turns
<1> HIDE DEF B, C, row, old
<1>9. \A s \in Signatures : Kept(store'[s], s)
  BY <1>4, <1>5, <1>8 DEF StorageInv
<1>10. ASSUME NEW f \in Entities, NEW s \in Signatures
       PROVE  store'[s].entityToIndex[f] # 0 <=> entityArchetypes'[f] = s
  <2>1. store[s].entityToIndex[f] # 0 <=> entityArchetypes[f] = s
    BY DEF StorageInv
  <2> QED
    BY <1>1, <1>4, <1>5, <1>8, <2>1
<1>11. \A s \in Signatures : Kept(store[s], s)'
  BY <1>9 DEF Kept
<1> QED
  BY <1>1, <1>8, <1>10, <1>11 DEF StorageInv

-----------------------------------------------------------------------------
(* The ids *)

IdsInv ==
    /\ freeEntities \in Seq(Entities) /\ nextEntityId \in 1..(MaxEntities + 1)
    /\ FreeIdsAgree

\* As long as there are fewer entities than allowed, the next id is one of none.
LEMMA AllocatedIsNew ==
    ASSUME StorageInv, IdsInv, entityCount < MaxEntities
    PROVE  allocated \in Entities /\ entityArchetypes[allocated] = None
<1>1. MaxEntities \in Nat
  BY BoundsAssumption
<1>2. CASE freeEntities = <<>>
  <2>1. Elements(freeEntities) = {}
    BY <1>2 DEF Elements
  <2>2. \A e \in Entities : e < nextEntityId <=> entityArchetypes[e] # None
    BY <2>1 DEF IdsInv, FreeIdsAgree
  <2>3. nextEntityId # MaxEntities + 1
    <3> SUFFICES ASSUME nextEntityId = MaxEntities + 1 PROVE FALSE
      OBVIOUS
    <3>1. {e \in Entities : entityArchetypes[e] # None} = 1..MaxEntities
      BY <1>1, <2>2 DEF Entities
    <3>2. Cardinality(1..MaxEntities) =
             IF 1 > MaxEntities THEN 0 ELSE MaxEntities - 1 + 1
      BY <1>1, FS_Interval
    <3>3. Cardinality(1..MaxEntities) = MaxEntities
      BY <1>1, <3>2
    <3>4. entityCount = Cardinality(1..MaxEntities)
      BY <3>1, Zenon DEF entityCount
    <3> QED
      BY <1>1, <3>3, <3>4
  <2>4. nextEntityId \in Entities
    BY <1>1, <2>3 DEF IdsInv, Entities
  <2> QED
    BY <1>2, <2>2, <2>4 DEF allocated, Entities
<1>3. CASE freeEntities # <<>>
  <2>1. freeEntities \in Seq(Entities)
    BY DEF IdsInv
  <2>2. Len(freeEntities) \in 1..Len(freeEntities)
    BY <1>3, <2>1, EmptySeq
  <2>3. freeEntities[Len(freeEntities)] \in Entities
    BY <2>1, <2>2, ElementOfSeq
  <2>4. freeEntities[Len(freeEntities)] \in Elements(freeEntities)
    BY <2>2 DEF Elements
  <2> QED
    BY <1>3, <2>3, <2>4 DEF allocated, IdsInv, FreeIdsAgree
<1> QED
  BY <1>2, <1>3

LEMMA IdsAfterCreate ==
    ASSUME StorageInv, IdsInv, entityCount < MaxEntities, NEW sig \in Signatures,
           freeEntities' = unfreed,
           nextEntityId' = IF freeEntities = <<>> THEN nextEntityId + 1 ELSE nextEntityId,
           entityArchetypes' = [entityArchetypes EXCEPT ![allocated] = sig]
    PROVE  IdsInv'
<1> DEFINE e == allocated
<1>1. e \in Entities /\ entityArchetypes[e] = None
  BY AllocatedIsNew
<1>2. \A f \in Entities : entityArchetypes'[f] = IF f = e THEN sig ELSE entityArchetypes[f]
  BY DEF StorageInv
<1>3. sig # None /\ MaxEntities \in Nat
  BY NoneAssumption, BoundsAssumption
<1>4. CASE freeEntities = <<>>
  <2>1. freeEntities' = <<>> /\ nextEntityId' = nextEntityId + 1 /\ e = nextEntityId
    BY <1>4 DEF unfreed, allocated
  <2>2. Elements(freeEntities) = {} /\ Elements(freeEntities)' = {}
    BY <1>4, <2>1 DEF Elements
  <2>3. freeEntities' \in Seq(Entities) /\ Len(freeEntities') = 0
    BY <2>1
  <2>4. nextEntityId' \in 1..(MaxEntities + 1) /\ nextEntityId \in Nat
    BY <1>1, <1>3, <2>1 DEF Entities, IdsInv
  <2>5. \A f \in Entities : f < nextEntityId <=> entityArchetypes[f] # None
    BY <2>2 DEF IdsInv, FreeIdsAgree
  <2>6. \A f \in Entities : f < nextEntityId' <=> entityArchetypes'[f] # None
    BY <1>2, <1>3, <2>1, <2>4, <2>5 DEF Entities
  <2> QED
    BY <2>2, <2>3, <2>4, <2>6 DEF IdsInv, FreeIdsAgree
<1>5. CASE freeEntities # <<>>
  <2> DEFINE n == Len(freeEntities)
  <2>1. /\ freeEntities \in Seq(Entities) /\ n \in Nat /\ n # 0 /\ n \in 1..n
        /\ e = freeEntities[n] /\ nextEntityId' = nextEntityId
    BY <1>5, EmptySeq DEF IdsInv, allocated
  <2>2. \A j \in 1..(n - 1) : freeEntities[j] \in Entities /\ j \in 1..n
    BY <2>1, ElementOfSeq
  <2>3. /\ SubSeq(freeEntities, 1, n - 1) \in Seq(Entities)
        /\ Len(SubSeq(freeEntities, 1, n - 1)) = IF 1 <= n - 1 THEN (n - 1) - 1 + 1 ELSE 0
        /\ \A j \in 1..((n - 1) - 1 + 1) :
              SubSeq(freeEntities, 1, n - 1)[j] = freeEntities[1 + j - 1]
    BY <2>1, <2>2, SubSeqProperties
  <2>4. freeEntities' = SubSeq(freeEntities, 1, n - 1)
    BY <1>5 DEF unfreed
  <2> HIDE DEF n
  <2>5. /\ freeEntities' \in Seq(Entities) /\ Len(freeEntities') = n - 1
        /\ \A j \in 1..(n - 1) : freeEntities'[j] = freeEntities[j]
    BY <2>1, <2>3, <2>4
  <2>6. \A i, j \in 1..n : freeEntities[i] = freeEntities[j] => i = j
    BY DEF IdsInv, FreeIdsAgree, n
  <2>7. \A i, j \in 1..(n - 1) : freeEntities'[i] = freeEntities'[j] => i = j
    BY <2>2, <2>5, <2>6
  <2>8. \A f \in Entities : f \in Elements(freeEntities)' <=> f \in Elements(freeEntities) /\ f # e
    <3>1. Elements(freeEntities) = {freeEntities[i] : i \in 1..n}
      BY DEF Elements, n
    <3>2. Elements(freeEntities)' = {freeEntities[i] : i \in 1..(n - 1)}
      BY <2>5 DEF Elements
    <3>3. \A i \in 1..n : i = n \/ i \in 1..(n - 1)
      BY <2>1
    <3>4. \A i \in 1..(n - 1) : i # n
      BY <2>1
    <3> QED
      BY <2>1, <2>2, <2>6, <3>1, <3>2, <3>3, <3>4
  <2>9. /\ e \in Elements(freeEntities)
        /\ \A f \in Entities : f \in Elements(freeEntities) => entityArchetypes[f] = None
        /\ \A f \in Entities : f < nextEntityId <=>
              (f \in Elements(freeEntities) \/ entityArchetypes[f] # None)
    BY <2>1 DEF IdsInv, FreeIdsAgree, Elements, n
  <2>10. FreeIdsAgree'
    BY <1>1, <1>2, <1>3, <2>1, <2>5, <2>7, <2>8, <2>9 DEF FreeIdsAgree
  <2> QED
    BY <2>1, <2>5, <2>10 DEF IdsInv
<1> QED
  BY <1>4, <1>5

LEMMA IdsAfterDestroy ==
    ASSUME StorageInv, IdsInv, NEW e \in Entities, entityArchetypes[e] # None,
           freeEntities' = freed(e), nextEntityId' = nextEntityId,
           entityArchetypes' = [entityArchetypes EXCEPT ![e] = None]
    PROVE  IdsInv'
<1> DEFINE n == Len(freeEntities)
<1>1. freeEntities \in Seq(Entities) /\ n \in Nat
  BY LenProperties DEF IdsInv
<1>2. /\ freeEntities' \in Seq(Entities) /\ Len(freeEntities') = n + 1
      /\ \A j \in 1..(n + 1) : freeEntities'[j] = IF j = n + 1 THEN e ELSE freeEntities[j]
  BY <1>1 DEF freed
<1>3. \A f \in Entities : entityArchetypes'[f] = IF f = e THEN None ELSE entityArchetypes[f]
  BY DEF StorageInv
<1>4. /\ \A i, j \in 1..n : freeEntities[i] = freeEntities[j] => i = j
      /\ \A f \in Entities : f \in Elements(freeEntities) => entityArchetypes[f] = None
      /\ \A f \in Entities : f < nextEntityId <=>
            (f \in Elements(freeEntities) \/ entityArchetypes[f] # None)
  BY DEF IdsInv, FreeIdsAgree
<1>5. Elements(freeEntities) = {freeEntities[i] : i \in 1..n}
  BY DEF Elements
<1>6. \A j \in 1..(n + 1) : j = n + 1 \/ (j \in 1..n /\ j # n + 1)
  BY <1>1
<1>7. \A j \in 1..n : j \in 1..(n + 1) /\ j # n + 1
  BY <1>1
<1>8. n + 1 \in 1..(n + 1)
  BY <1>1
<1>9. Elements(freeEntities)' = Elements(freeEntities) \union {e}
  <2>1. Elements(freeEntities)' = {freeEntities'[i] : i \in 1..(n + 1)}
    BY <1>2 DEF Elements
  <2> HIDE DEF n
  <2> QED
    BY <1>2, <1>5, <1>6, <1>7, <1>8, <2>1
<1>10. e \notin Elements(freeEntities)
  BY <1>4
<1> HIDE DEF n
<1>11. \A i, j \in 1..(n + 1) : freeEntities'[i] = freeEntities'[j] => i = j
  BY <1>2, <1>4, <1>5, <1>6, <1>10
<1>12. FreeIdsAgree'
  BY <1>2, <1>3, <1>4, <1>9, <1>11 DEF FreeIdsAgree
<1> QED
  BY <1>2, <1>12 DEF IdsInv

LEMMA IdsUnchanged ==
    ASSUME IdsInv, freeEntities' = freeEntities, nextEntityId' = nextEntityId,
           \A f \in Entities : entityArchetypes'[f] = None <=> entityArchetypes[f] = None
    PROVE  IdsInv'
BY DEF IdsInv, FreeIdsAgree, Elements

-----------------------------------------------------------------------------
(* The entities with their ids and actors, through every action *)

EntitiesInv ==
    /\ StorageInv /\ IdsInv
    /\ registered \subseteq Components
    /\ actorOf \in [Entities -> Actors \union {None}]
    /\ actorState \in [Actors -> {"new", "active", "destroyed"}]
    /\ entityOf \in [Actors -> Entities \union {0}]
    /\ \A a \in Actors : actorState[a] = "active" => entityOf[a] \in Entities
    /\ \A e \in Entities : actorOf[e] # None => entityArchetypes[e] # None

\* The entities as an action leaves them: one of them new, gone or with another set
\* of components, all of them gone, or all as they were.
Created(e, sig) ==
    /\ e = allocated /\ entityCount < MaxEntities /\ sig \in Signatures
    /\ Grows(e, sig)
    /\ freeEntities' = unfreed
    /\ nextEntityId' = IF freeEntities = <<>> THEN nextEntityId + 1 ELSE nextEntityId
Destroyed(e) ==
    /\ e \in Entities /\ entityArchetypes[e] # None
    /\ Shrinks(e)
    /\ freeEntities' = freed(e) /\ nextEntityId' = nextEntityId
Changed(e, to) ==
    /\ e \in Entities /\ entityArchetypes[e] # None
    /\ to \in Signatures /\ to # entityArchetypes[e]
    /\ Turns(e, to)
    /\ UNCHANGED <<freeEntities, nextEntityId>>
AllGone ==
    /\ entityArchetypes' = [e \in Entities |-> None] /\ archetypes' = {{}}
    /\ store' = [sig \in Signatures |-> EmptyArchetype(sig)]
    /\ freeEntities' = <<>> /\ nextEntityId' = 1

LEMMA CreatedHolds ==
    ASSUME StorageInv, IdsInv, NEW e, NEW sig, Created(e, sig)
    PROVE  /\ StorageInv' /\ IdsInv'
           /\ e \in Entities /\ entityArchetypes[e] = None /\ sig # None
           /\ \A f \in Entities :
                 entityArchetypes'[f] = IF f = e THEN sig ELSE entityArchetypes[f]
<1>1. e \in Entities /\ entityArchetypes[e] = None /\ sig \in Signatures
  BY AllocatedIsNew DEF Created
<1>2. Grows(e, sig) /\ e = allocated
  BY DEF Created
<1>3. StorageInv'
  BY <1>1, <1>2, GrowsHolds
<1>4. entityArchetypes' = [entityArchetypes EXCEPT ![e] = sig]
  BY <1>2 DEF Grows
<1>5. IdsInv'
  BY <1>2, <1>4, IdsAfterCreate DEF Created
<1> QED
  BY <1>1, <1>3, <1>4, <1>5, NoneAssumption DEF StorageInv

LEMMA DestroyedHolds ==
    ASSUME StorageInv, IdsInv, NEW e, Destroyed(e)
    PROVE  /\ StorageInv' /\ IdsInv'
           /\ \A f \in Entities :
                 entityArchetypes'[f] = IF f = e THEN None ELSE entityArchetypes[f]
<1>1. e \in Entities /\ entityArchetypes[e] # None /\ Shrinks(e)
  BY DEF Destroyed
<1>2. entityArchetypes' = [entityArchetypes EXCEPT ![e] = None]
  BY <1>1 DEF Shrinks
<1>3. IdsInv'
  BY <1>1, <1>2, IdsAfterDestroy DEF Destroyed
<1> QED
  BY <1>1, <1>2, <1>3, ShrinksHolds DEF StorageInv

LEMMA ChangedHolds ==
    ASSUME StorageInv, IdsInv, NEW e, NEW to, Changed(e, to)
    PROVE  /\ StorageInv' /\ IdsInv' /\ to # None
           /\ \A f \in Entities :
                 entityArchetypes'[f] = IF f = e THEN to ELSE entityArchetypes[f]
<1>1. /\ e \in Entities /\ entityArchetypes[e] # None
      /\ to \in Signatures /\ to # entityArchetypes[e] /\ Turns(e, to)
  BY DEF Changed
<1>2. StorageInv'
  BY <1>1, TurnsHolds
<1>3. /\ \A f \in Entities : entityArchetypes'[f] = IF f = e THEN to ELSE entityArchetypes[f]
      /\ to # None
  BY <1>1, NoneAssumption DEF Turns, StorageInv
<1>4. IdsInv'
  BY <1>1, <1>3, IdsUnchanged DEF Changed
<1> QED
  BY <1>2, <1>3, <1>4

LEMMA AllGoneHolds ==
    ASSUME AllGone
    PROVE  /\ StorageInv' /\ IdsInv'
           /\ \A f \in Entities : entityArchetypes'[f] = None
<1>1. StorageInv'
  BY ResetHolds DEF AllGone
<1>2. freeEntities' = <<>> /\ nextEntityId' = 1 /\ entityArchetypes' = [e \in Entities |-> None]
  BY DEF AllGone
<1>3. Elements(freeEntities)' = {}
  BY <1>2 DEF Elements
<1>4. /\ freeEntities' \in Seq(Entities) /\ nextEntityId' \in 1..(MaxEntities + 1)
      /\ Len(freeEntities') = 0
  BY <1>2, BoundsAssumption
<1>5. FreeIdsAgree'
  BY <1>2, <1>3, <1>4 DEF FreeIdsAgree, Entities
<1> QED
  BY <1>1, <1>2, <1>4, <1>5 DEF IdsInv

-----------------------------------------------------------------------------
LEMMA CreateEffect ==
    ASSUME NEW a, NEW sig \in SUBSET Preloaded, create(a, sig)
    PROVE  Created(allocated, sig)
<1>1. sig \in Signatures
  BY ComponentsAssumption DEF Signatures
<1> QED
  BY <1>1 DEF create, Created, Grows, getOrCreateArchetype, NewRow

LEMMA DestroyEffect ==
    ASSUME NEW e \in Entities, DestroyStep(e)
    PROVE  IF entityArchetypes[e] = None
           THEN UNCHANGED <<storageVars, singletonOwner>>
           ELSE Destroyed(e)
BY DEF DestroyStep, Destroyed, Shrinks

LEMMA AddEffect ==
    ASSUME StorageInv, NEW e \in Entities, NEW c \in Components, addComponent(e, c)
    PROVE  Changed(e, entityArchetypes[e] \union {c})
<1> DEFINE from == entityArchetypes[e]
           to == from \union {c}
<1>1. from # None /\ c \notin from /\ UNCHANGED <<freeEntities, nextEntityId>>
  BY DEF addComponent
<1>2. from \in Signatures
  BY <1>1 DEF StorageInv
<1>3. to \in Signatures /\ to # from
  BY <1>1, <1>2 DEF Signatures
<1>4. Turns(e, to)
  BY DEF addComponent, Turns, getOrCreateArchetype
<1> QED
  BY <1>1, <1>3, <1>4 DEF Changed

LEMMA RemoveEffect ==
    ASSUME StorageInv, NEW e \in Entities, NEW c \in Components, removeComponent(e, c)
    PROVE  Changed(e, entityArchetypes[e] \ {c})
<1> DEFINE from == entityArchetypes[e]
           to == from \ {c}
<1>1. from # None /\ c \in from /\ UNCHANGED <<freeEntities, nextEntityId>>
  BY DEF removeComponent
<1>2. from \in Signatures
  BY <1>1 DEF StorageInv
<1>3. to \in Signatures /\ to # from
  BY <1>1, <1>2 DEF Signatures
<1>4. Turns(e, to)
  BY DEF removeComponent, Turns, getOrCreateArchetype
<1> QED
  BY <1>1, <1>3, <1>4 DEF Changed

LEMMA EntitiesInit == Init => EntitiesInv
<1> SUFFICES ASSUME Init PROVE EntitiesInv
  OBVIOUS
<1>1. StorageInv
  <2>1. {} \in Signatures /\ \A sig \in Signatures : sig # None
    BY NoneAssumption DEF Signatures
  <2> QED
    BY <2>1, EmptyIsKept DEF StorageInv, Init
<1>2. IdsInv
  <2>1. freeEntities = <<>> /\ nextEntityId = 1 /\ entityArchetypes = [e \in Entities |-> None]
    BY DEF Init
  <2>2. Elements(freeEntities) = {}
    BY <2>1 DEF Elements
  <2>3. /\ freeEntities \in Seq(Entities) /\ nextEntityId \in 1..(MaxEntities + 1)
        /\ Len(freeEntities) = 0
    BY <2>1, BoundsAssumption
  <2> QED
    BY <2>1, <2>2, <2>3 DEF IdsInv, FreeIdsAgree, Entities
<1> QED
  BY <1>1, <1>2, ComponentsAssumption DEF Init, EntitiesInv

LEMMA EntitiesNext == EntitiesInv /\ [Next]_vars => EntitiesInv'
<1> SUFFICES ASSUME EntitiesInv, [Next]_vars PROVE EntitiesInv'
  OBVIOUS
<1>0. StorageInv /\ IdsInv
  BY DEF EntitiesInv
<1>1. ASSUME UNCHANGED <<storageVars, registered, actorVars>>
      PROVE  EntitiesInv'
  <2>1. /\ UNCHANGED <<entityArchetypes, archetypes, store, freeEntities, nextEntityId>>
        /\ UNCHANGED <<registered, actorOf, actorState, entityOf>>
    BY <1>1 DEF storageVars, entityVars, actorVars
  <2>2. StorageInv'
    BY <1>0, <2>1 DEF StorageInv, Kept
  <2>3. IdsInv'
    BY <1>0, <2>1, IdsUnchanged
  <2> QED
    BY <2>1, <2>2, <2>3 DEF EntitiesInv
<1>2. ASSUME NEW a \in Creators, NEW sig \in SUBSET Preloaded, create(a, sig)
      PROVE  EntitiesInv'
  <2>1. Created(allocated, sig)
    BY <1>2, CreateEffect
  <2> DEFINE e == allocated
  <2>2. /\ StorageInv' /\ IdsInv' /\ e \in Entities
        /\ entityArchetypes[e] = None /\ sig # None
        /\ \A f \in Entities :
              entityArchetypes'[f] = IF f = e THEN sig ELSE entityArchetypes[f]
    BY <1>0, <2>1, CreatedHolds
  <2>3. registered' = registered
    BY <1>2 DEF create
  <2>4. CASE a = None
    <3>1. UNCHANGED <<actorOf, actorState, entityOf>>
      BY <1>2, <2>4 DEF create, actorVars
    <3> QED
      BY <2>2, <2>3, <3>1 DEF EntitiesInv
  <2>5. CASE a # None
    <3>1. a \in Actors
      BY <2>5 DEF Creators
    <3>2. /\ actorState' = [actorState EXCEPT ![a] = "active"]
          /\ entityOf' = [entityOf EXCEPT ![a] = e]
          /\ actorOf' = [actorOf EXCEPT ![e] = a]
      BY <1>2, <2>5 DEF create
    <3> HIDE DEF e
    <3> QED
      BY <2>2, <2>3, <3>1, <3>2 DEF EntitiesInv
  <2> QED
    BY <2>4, <2>5
<1>3. ASSUME NEW e \in Entities, destroyEntity(e)
      PROVE  EntitiesInv'
  <2>1. Destroyed(e)
    BY <1>3, DestroyEffect DEF destroyEntity
  <2>2. /\ StorageInv' /\ IdsInv'
        /\ \A f \in Entities :
              entityArchetypes'[f] = IF f = e THEN None ELSE entityArchetypes[f]
    BY <1>0, <2>1, DestroyedHolds
  <2>3. /\ actorOf' = [actorOf EXCEPT ![e] = None]
        /\ UNCHANGED <<registered, actorState, entityOf>>
    BY <1>3 DEF destroyEntity
  <2> QED
    BY <2>2, <2>3 DEF EntitiesInv
<1>4. ASSUME NEW a \in Actors, destroy(a)
      PROVE  EntitiesInv'
  <2> DEFINE e == entityOf[a]
  <2>1. /\ actorState[a] = "active" /\ actorState' = [actorState EXCEPT ![a] = "destroyed"]
        /\ UNCHANGED <<registered, entityOf>>
    BY <1>4 DEF destroy
  <2>2. e \in Entities
    BY <2>1 DEF EntitiesInv
  <2>3. CASE state = "ready"
    <3>1. DestroyStep(e) /\ actorOf' = [actorOf EXCEPT ![e] = None]
      BY <1>4, <2>3 DEF destroy
    <3>2. CASE entityArchetypes[e] = None
      <4>1. UNCHANGED <<entityArchetypes, archetypes, store, freeEntities, nextEntityId>>
        BY <2>2, <3>1, <3>2, DestroyEffect DEF storageVars, entityVars
      <4>2. StorageInv' /\ IdsInv'
        BY <1>0, <4>1, IdsUnchanged DEF StorageInv, Kept
      <4> QED
        BY <2>1, <2>2, <3>1, <4>1, <4>2 DEF EntitiesInv
    <3>3. CASE entityArchetypes[e] # None
      <4>1. Destroyed(e)
        BY <2>2, <3>1, <3>3, DestroyEffect
      <4>2. /\ StorageInv' /\ IdsInv'
            /\ \A f \in Entities :
                  entityArchetypes'[f] = IF f = e THEN None ELSE entityArchetypes[f]
        BY <1>0, <4>1, DestroyedHolds
      <4> QED
        BY <2>1, <2>2, <3>1, <4>2 DEF EntitiesInv
    <3> QED
      BY <3>2, <3>3
  <2>4. CASE state # "ready"
    <3>1. UNCHANGED <<entityArchetypes, archetypes, store, freeEntities, nextEntityId, actorOf>>
      BY <1>4, <2>4 DEF destroy, storageVars, entityVars
    <3>2. StorageInv' /\ IdsInv'
      BY <1>0, <3>1, IdsUnchanged DEF StorageInv, Kept
    <3> QED
      BY <2>1, <2>2, <3>1, <3>2 DEF EntitiesInv
  <2> QED
    BY <2>3, <2>4
<1>5. ASSUME NEW e \in Entities, NEW to, Changed(e, to), UNCHANGED <<registered, actorVars>>
      PROVE  EntitiesInv'
  <2>1. /\ StorageInv' /\ IdsInv' /\ to # None
        /\ \A f \in Entities :
              entityArchetypes'[f] = IF f = e THEN to ELSE entityArchetypes[f]
    BY <1>0, <1>5, ChangedHolds
  <2>2. UNCHANGED <<registered, actorOf, actorState, entityOf>>
    BY <1>5 DEF actorVars
  <2> QED
    BY <2>1, <2>2 DEF EntitiesInv
<1>6. ASSUME NEW e \in Entities, NEW c \in Components, addComponent(e, c)
      PROVE  EntitiesInv'
  <2>1. Changed(e, entityArchetypes[e] \union {c})
    BY <1>0, <1>6, AddEffect
  <2> QED
    BY <1>5, <1>6, <2>1 DEF addComponent
<1>7. ASSUME NEW e \in Entities, NEW c \in Components, removeComponent(e, c)
      PROVE  EntitiesInv'
  <2>1. Changed(e, entityArchetypes[e] \ {c})
    BY <1>0, <1>7, RemoveEffect
  <2> QED
    BY <1>5, <1>7, <2>1 DEF removeComponent
<1>8. ASSUME clear
      PROVE  EntitiesInv'
  <2>1. /\ AllGone /\ actorOf' = [e \in Entities |-> None]
        /\ UNCHANGED <<registered, actorState, entityOf>>
    BY <1>8 DEF clear, AllGone
  <2> QED
    BY <2>1, AllGoneHolds DEF EntitiesInv
<1>9. ASSUME NEW c \in Components, registerComponentType(c)
      PROVE  EntitiesInv'
  <2>1. /\ UNCHANGED <<entityArchetypes, archetypes, store, freeEntities, nextEntityId>>
        /\ UNCHANGED <<actorOf, actorState, entityOf>>
        /\ registered' = registered \union {c}
    BY <1>9 DEF registerComponentType, storageVars, entityVars, actorVars
  <2>2. StorageInv' /\ IdsInv'
    BY <1>0, <2>1, IdsUnchanged DEF StorageInv, Kept
  <2> QED
    BY <2>1, <2>2 DEF EntitiesInv
<1>10. CASE UNCHANGED vars
  BY <1>1, <1>10 DEF vars
<1>11. ASSUME NEW Q \in Queries, query(Q)
       PROVE  EntitiesInv'
  BY <1>1, <1>11 DEF query
<1>12. ASSUME createReactiveQuery \/ batchBegin \/ batchEnd
       PROVE  EntitiesInv'
  BY <1>1, <1>12 DEF createReactiveQuery, batchBegin, batchEnd
<1> QED
  BY <1>2, <1>3, <1>4, <1>6, <1>7, <1>8, <1>9, <1>10, <1>11, <1>12 DEF Next

-----------------------------------------------------------------------------
(* What the storage says *)

Has(e, c) == entityArchetypes[e] # None /\ c \in entityArchetypes[e]

\* An entity has the components of its archetype, and its own instances of them;
\* an archetype lists the entities that are recorded as its own.
StorageReads ==
    /\ \A e \in Entities, c \in Components :
          /\ hasComponent(e, c) <=> Has(e, c)
          /\ Has(e, c) => getComponent(e, c) = <<e, c>>
    /\ \A sig \in Signatures :
          Elements(store[sig].entities) = {e \in Entities : entityArchetypes[e] = sig}

LEMMA StorageReadsWell == StorageInv => StorageReads
<1> SUFFICES ASSUME StorageInv PROVE StorageReads
  OBVIOUS
<1>1. \A sig \in Signatures : sig # None
  BY NoneAssumption
<1>2. ASSUME NEW e \in Entities, NEW c \in Components
      PROVE  /\ hasComponent(e, c) <=> Has(e, c)
             /\ Has(e, c) => getComponent(e, c) = <<e, c>>
  <2> DEFINE sig == entityArchetypes[e]
             i == store[sig].entityToIndex[e]
  <2>1. ASSUME Has(e, c)
        PROVE  /\ i \in 1..Len(store[sig].components[c])
               /\ store[sig].components[c][i] = <<e, c>>
    <3>1. sig \in Signatures /\ c \in sig
      BY <2>1 DEF Has, StorageInv
    <3>2. i # 0 /\ Kept(store[sig], sig)
      BY <3>1 DEF StorageInv
    <3>3. i \in 1..Len(store[sig].entities) /\ store[sig].entities[i] = e
      BY <3>2 DEF Kept
    <3> QED
      BY <3>1, <3>2, <3>3 DEF Kept
  <2> QED
    BY <2>1 DEF hasComponent, getComponent, Has
<1>3. ASSUME NEW sig \in Signatures
      PROVE  Elements(store[sig].entities) = {e \in Entities : entityArchetypes[e] = sig}
  <2> DEFINE A == store[sig]
  <2>1. /\ Kept(A, sig)
        /\ \A e \in Entities : A.entityToIndex[e] # 0 <=> entityArchetypes[e] = sig
    BY DEF StorageInv
  <2> HIDE DEF A
  <2>2. ASSUME NEW i \in 1..Len(A.entities)
        PROVE  A.entities[i] \in Entities /\ entityArchetypes[A.entities[i]] = sig
    <3>1. A.entities[i] \in Entities /\ A.entityToIndex[A.entities[i]] = i
      BY <2>1, ElementOfSeq DEF Kept
    <3> QED
      BY <2>1, <3>1
  <2>3. ASSUME NEW e \in Entities, entityArchetypes[e] = sig
        PROVE  \E i \in 1..Len(A.entities) : A.entities[i] = e
    BY <2>1, <2>3 DEF Kept
  <2> QED
    BY <2>2, <2>3 DEF Elements, A
<1> QED
  BY <1>2, <1>3 DEF StorageReads

LEMMA StorageReadsWellNext == StorageInv' => StorageReads'
BY StorageReadsWell, PTL

\* The indexes agree, and no index exceeds the number of entities.
LEMMA StorageInvAgrees ==
    ASSUME StorageInv
    PROVE  /\ StorageAgrees
           /\ \A sig \in Signatures :
                 /\ store[sig].entities \in Seq(Entities)
                 /\ store[sig].entityToIndex \in [Entities -> 0..MaxEntities]
                 /\ store[sig].components \in [sig -> Seq(Instances)]
<1>1. \A sig \in Signatures : sig # None
  BY NoneAssumption
<1>2. ASSUME NEW e \in Entities, NEW sig \in Signatures
      PROVE  LET i == store[sig].entityToIndex[e]
             IN  IF entityArchetypes[e] = sig
                 THEN /\ sig \in archetypes
                      /\ i \in 1..Len(store[sig].entities) /\ store[sig].entities[i] = e
                 ELSE i = 0 /\ e \notin Elements(store[sig].entities)
  <2>1. /\ Kept(store[sig], sig)
        /\ store[sig].entityToIndex[e] # 0 <=> entityArchetypes[e] = sig
        /\ entityArchetypes[e] # None => entityArchetypes[e] \in archetypes
    BY DEF StorageInv
  <2>2. e \in Elements(store[sig].entities) <=> entityArchetypes[e] = sig
    BY StorageReadsWell DEF StorageReads
  <2> QED
    BY <1>1, <2>1, <2>2 DEF Kept
<1>3. ASSUME NEW sig \in Signatures
      PROVE  store[sig].entityToIndex \in [Entities -> 0..MaxEntities]
  <2> DEFINE A == store[sig]
             n == Len(A.entities)
             f == [i \in 1..n |-> A.entities[i]]
  <2>1. Kept(A, sig)
    BY DEF StorageInv
  <2>2. n \in Nat
    BY <2>1, LenProperties DEF Kept
  <2> HIDE DEF A
  <2>3. \A i \in 1..n : A.entities[i] \in Entities /\ A.entityToIndex[A.entities[i]] = i
    BY <2>1, ElementOfSeq DEF Kept
  <2>4. f \in Injection(1..n, Entities)
    <3>1. f \in [1..n -> Entities]
      BY <2>3
    <3>2. \A i, j \in 1..n : f[i] = f[j] => i = j
      BY <2>3
    <3> QED
      BY <3>1, <3>2 DEF Injection, IsInjective
  <2>5. IsFiniteSet(Entities) /\ Cardinality(Entities) = MaxEntities /\ MaxEntities \in Nat
    <3>1. MaxEntities \in Nat
      BY BoundsAssumption
    <3>2. /\ IsFiniteSet(1..MaxEntities)
          /\ Cardinality(1..MaxEntities) = IF 1 > MaxEntities THEN 0 ELSE MaxEntities - 1 + 1
      BY <3>1, FS_Interval
    <3> QED
      BY <3>1, <3>2 DEF Entities
  <2>6. Cardinality(1..n) = n
    <3> HIDE DEF n
    <3>1. Cardinality(1..n) = IF 1 > n THEN 0 ELSE n - 1 + 1
      BY <2>2, FS_Interval
    <3> QED
      BY <2>2, <3>1
  <2>7. Cardinality(1..n) <= Cardinality(Entities)
    <3> HIDE DEF n, f
    <3> QED
      BY <2>4, <2>5, FS_Injection
  <2>8. n <= MaxEntities
    BY <2>5, <2>6, <2>7
  <2>9. \A e \in Entities : A.entityToIndex[e] \in 0..n
    <3>1. \A e \in Entities : A.entityToIndex[e] # 0 => A.entityToIndex[e] \in 1..n
      BY <2>1 DEF Kept
    <3> HIDE DEF n
    <3> QED
      BY <2>2, <3>1
  <2>10. \A e \in Entities : A.entityToIndex[e] \in 0..MaxEntities
    <3> HIDE DEF n
    <3> QED
      BY <2>2, <2>5, <2>8, <2>9
  <2> QED
    BY <2>1, <2>10 DEF Kept, A
<1> QED
  BY <1>2, <1>3 DEF StorageAgrees, StorageInv, Kept

-----------------------------------------------------------------------------
(* Queries *)

CacheTyped(cch) ==
    /\ cch.bit \in [Signatures -> {None} \union SUBSET Signatures]
    /\ cch.key \in [Signatures -> {None} \union SUBSET Signatures]

LEMMA MatchingIsTyped ==
    ASSUME NEW cch, CacheTyped(cch), NEW archs \in SUBSET Signatures, NEW Q \in Signatures
    PROVE  /\ matchingArchetypes(cch, archs, Q) \in SUBSET Signatures
           /\ CacheTyped(cachedAfter(cch, archs, Q))
<1> DEFINE m == createBitMask(Q)
           found == matchingArchetypes(cch, archs, Q)
<1>1. m \in Signatures
  BY MaskIsSignature
<1>2. found \in SUBSET Signatures
  <2> HIDE DEF m
  <2>1. cch.bit[m] \in {None} \union SUBSET Signatures
        /\ cch.key[Q] \in {None} \union SUBSET Signatures
    BY <1>1 DEF CacheTyped
  <2>2. found = IF cch.bit[m] # None THEN cch.bit[m]
                ELSE IF cch.key[Q] # None THEN cch.key[Q]
                ELSE {sig \in archs : m \subseteq sig}
    BY DEF matchingArchetypes, m
  <2> HIDE DEF found
  <2>3. {sig \in archs : m \subseteq sig} \in SUBSET Signatures
    OBVIOUS
  <2> QED
    BY <2>1, <2>2, <2>3
<1>3. CASE cch.bit[m] # None
  <2>1. cachedAfter(cch, archs, Q) = cch
    BY <1>3 DEF cachedAfter
  <2> QED
    BY <1>2, <2>1
<1>4. CASE cch.bit[m] = None
  <2>1. cachedAfter(cch, archs, Q) =
           [bit |-> [cch.bit EXCEPT ![m] = found], key |-> [cch.key EXCEPT ![Q] = found]]
    BY <1>4 DEF cachedAfter
  <2> HIDE DEF m, found
  <2> QED
    BY <1>1, <1>2, <2>1 DEF CacheTyped, found
<1> QED
  BY <1>3, <1>4

Lists(contents, where) ==
    \A sig \in Signatures :
       Elements(contents[sig].entities) = {e \in Entities : where[e] = sig}

\* From a cache that is complete a query gives the entities with the components,
\* where the archetypes are listed and list their entities.
LEMMA ResultIsExact ==
    ASSUME NEW cch, CacheTyped(cch), NEW archs \in SUBSET Signatures, NEW contents, NEW where,
           Lists(contents, where), NEW Q \in Signatures
    PROVE  /\ result(cch, archs, contents, Q) \subseteq Entities
           /\ Complete(cch, archs) /\ (\A e \in Entities : where[e] # None => where[e] \in archs)
                 => result(cch, archs, contents, Q)
                       = {e \in Entities : where[e] # None /\ Q \subseteq where[e]}
<1> DEFINE found == matchingArchetypes(cch, archs, Q)
           m == createBitMask(Q)
           res == result(cch, archs, contents, Q)
<1>1. found \in SUBSET Signatures
  BY MatchingIsTyped
<1>2. m \in Signatures /\ m \subseteq Q
  BY MaskIsSignature DEF createBitMask
<1>3. \A e : e \in res <=>
         \E sig \in found : Q \subseteq sig /\ e \in Elements(contents[sig].entities)
  BY DEF result
<1>4. \A e : e \in res <=> e \in Entities /\ where[e] \in found /\ Q \subseteq where[e]
  <2> HIDE DEF res, found
  <2> QED
    BY <1>1, <1>3 DEF Lists
<1>5. ASSUME Complete(cch, archs), NEW sig \in archs, m \subseteq sig
      PROVE  sig \in found
  BY <1>2, <1>5 DEF matchingArchetypes, Complete
<1> HIDE DEF res, found
<1>6. \A sig \in Signatures : sig # None
  BY NoneAssumption
<1>7. ASSUME Complete(cch, archs), \A e \in Entities : where[e] # None => where[e] \in archs
      PROVE  res = {e \in Entities : where[e] # None /\ Q \subseteq where[e]}
  <2>1. ASSUME NEW e \in Entities, where[e] # None, Q \subseteq where[e]
        PROVE  where[e] \in found
    <3>1. m \subseteq where[e] /\ where[e] \in archs
      BY <1>2, <1>7, <2>1
    <3> QED
      BY <1>5, <1>7, <3>1
  <2>2. \A e : e \in res => e \in Entities /\ where[e] # None /\ Q \subseteq where[e]
    BY <1>1, <1>4, <1>6
  <2>3. \A e \in Entities : where[e] # None /\ Q \subseteq where[e] => e \in res
    BY <1>4, <2>1
  <2> HIDE DEF m
  <2> QED
    BY <2>2, <2>3
<1> QED
  BY <1>4, <1>7 DEF res

-----------------------------------------------------------------------------
(* The cache and the registries *)

RegistersInv ==
    /\ state \in {"ready", "disposed"}
    /\ batchDepth \in 0..MaxBatchDepth
    /\ CacheTyped(cache)
    /\ published \in {None} \union SUBSET Entities
    /\ singletonOwner \in [Singletons -> Entities \union {0}]

LEMMA CacheStepIsTyped ==
    ASSUME StorageInv', RegistersInv, NEW created, NEW emitted, CacheStep(created, emitted)
    PROVE  CacheTyped(cache') /\ published' \in {None} \union SUBSET Entities
<1> DEFINE cch == invalidated(created, cache)
<1>1. CacheTyped(cch)
  BY DEF invalidated, RegistersInv, CacheTyped, EmptyCache
<1>2. archetypes' \in SUBSET Signatures
  BY DEF StorageInv
<1>3. Lists(store', entityArchetypes')
  BY StorageReadsWellNext DEF StorageReads, Elements, Lists
<1>4. Reactive \in Signatures
  BY ComponentsAssumption
<1>5. CASE emitted /\ published # None
  <2>1. /\ cache' = cachedAfter(cch, archetypes', Reactive)
        /\ published' = result(cch, archetypes', store', Reactive)
    BY <1>5 DEF CacheStep
  <2> HIDE DEF cch
  <2>2. CacheTyped(cachedAfter(cch, archetypes', Reactive))
    BY <1>1, <1>2, <1>4, MatchingIsTyped
  <2>3. result(cch, archetypes', store', Reactive) \subseteq Entities
    BY <1>1, <1>2, <1>3, <1>4, ResultIsExact
  <2> QED
    BY <2>1, <2>2, <2>3
<1>6. CASE ~(emitted /\ published # None)
  <2>1. cache' = cch /\ published' = published
    BY <1>6 DEF CacheStep
  <2> QED
    BY <1>1, <2>1 DEF RegistersInv
<1> QED
  BY <1>5, <1>6

LEMMA RegistersInit == Init => RegistersInv
BY BoundsAssumption DEF Init, RegistersInv, CacheTyped, EmptyCache

LEMMA RegistersNext == EntitiesInv /\ EntitiesInv' /\ RegistersInv /\ [Next]_vars => RegistersInv'
<1> SUFFICES ASSUME EntitiesInv, EntitiesInv', RegistersInv, [Next]_vars
             PROVE  RegistersInv'
  OBVIOUS
<1>0. StorageInv /\ StorageInv'
  BY DEF EntitiesInv
<1>1. ASSUME NEW created, NEW emitted, CacheStep(created, emitted),
             state' = state, batchDepth' = batchDepth,
             singletonOwner' \in [Singletons -> Entities \union {0}]
      PROVE  RegistersInv'
  <2>1. CacheTyped(cache') /\ published' \in {None} \union SUBSET Entities
    BY <1>0, <1>1, CacheStepIsTyped
  <2> QED
    BY <1>1, <2>1 DEF RegistersInv, CacheTyped
<1>2. ASSUME UNCHANGED <<cacheVars, batchDepth>>, state' = state,
             singletonOwner' \in [Singletons -> Entities \union {0}]
      PROVE  RegistersInv'
  BY <1>2 DEF RegistersInv, CacheTyped, cacheVars
<1>3. singletonOwner \in [Singletons -> Entities \union {0}]
  BY DEF RegistersInv
<1>4. \A e, sig : clearEntity(e, sig) \in [Singletons -> Entities \union {0}]
  BY <1>3 DEF clearEntity
<1>5. \A e : DestroyStep(e) => singletonOwner' \in [Singletons -> Entities \union {0}]
  BY <1>3, <1>4 DEF DestroyStep
<1>6. ASSUME NEW a \in Creators, NEW sig \in SUBSET Preloaded, create(a, sig)
      PROVE  RegistersInv'
  BY <1>1, <1>3, <1>6 DEF create
<1>7. ASSUME NEW e \in Entities, destroyEntity(e)
      PROVE  RegistersInv'
  BY <1>1, <1>5, <1>7 DEF destroyEntity
<1>8. ASSUME NEW a \in Actors, destroy(a)
      PROVE  RegistersInv'
  <2>1. singletonOwner' \in [Singletons -> Entities \union {0}]
    BY <1>3, <1>5, <1>8 DEF destroy
  <2> QED
    BY <1>2, <1>8, <2>1 DEF destroy
<1>9. ASSUME NEW e \in Entities, NEW c \in Components, addComponent(e, c)
      PROVE  RegistersInv'
  <2>1. singletonOwner' \in [Singletons -> Entities \union {0}]
    BY <1>3, <1>9 DEF addComponent
  <2>2. \E created, emitted : CacheStep(created, emitted)
    BY <1>9 DEF addComponent
  <2> QED
    BY <1>1, <1>9, <2>1, <2>2 DEF addComponent
<1>10. ASSUME NEW e \in Entities, NEW c \in Components, removeComponent(e, c)
       PROVE  RegistersInv'
  <2>1. singletonOwner' \in [Singletons -> Entities \union {0}]
    BY <1>4, <1>10 DEF removeComponent
  <2>2. \E created, emitted : CacheStep(created, emitted)
    BY <1>10 DEF removeComponent
  <2> QED
    BY <1>1, <1>10, <2>1, <2>2 DEF removeComponent
<1>11. archetypes \in SUBSET Signatures /\ CacheTyped(cache) /\ Reactive \in Signatures
  BY <1>0, ComponentsAssumption DEF RegistersInv, StorageInv
<1>12. ASSUME NEW Q \in Queries, query(Q)
       PROVE  RegistersInv'
  <2>1. Q \in Signatures
    BY ComponentsAssumption
  <2>2. CacheTyped(cachedAfter(cache, archetypes, Q))
    BY <1>11, <2>1, MatchingIsTyped
  <2> QED
    BY <1>12, <2>2 DEF query, RegistersInv, CacheTyped
<1>13. ASSUME createReactiveQuery
       PROVE  RegistersInv'
  <2>1. CacheTyped(cachedAfter(cache, archetypes, Reactive))
    BY <1>11, MatchingIsTyped
  <2>2. Lists(store, entityArchetypes)
    BY <1>0, StorageReadsWell DEF StorageReads, Lists
  <2>3. result(cache, archetypes, store, Reactive) \subseteq Entities
    BY <1>11, <2>2, ResultIsExact
  <2> QED
    BY <1>13, <2>1, <2>3 DEF createReactiveQuery, RegistersInv, CacheTyped
<1>14. ASSUME NEW c \in Components, registerComponentType(c)
       PROVE  RegistersInv'
  BY <1>2, <1>3, <1>14 DEF registerComponentType
<1>15. ASSUME batchBegin \/ batchEnd
       PROVE  RegistersInv'
  <2>1. batchDepth' \in 0..MaxBatchDepth
    BY <1>15, BoundsAssumption DEF batchBegin, batchEnd, RegistersInv
  <2>2. cache' = cache \/ cache' = EmptyCache
    BY <1>15 DEF batchBegin, batchEnd, endOfBatch, cacheVars
  <2>3. CacheTyped(EmptyCache)
    BY DEF CacheTyped, EmptyCache
  <2>4. UNCHANGED <<state, published, singletonOwner>>
    BY <1>15 DEF batchBegin, batchEnd, cacheVars
  <2> QED
    BY <2>1, <2>2, <2>3, <2>4 DEF RegistersInv, CacheTyped
<1>16. ASSUME clear
       PROVE  RegistersInv'
  BY <1>16 DEF clear, RegistersInv, CacheTyped, EmptyCache
<1>17. CASE UNCHANGED vars
  BY <1>2, <1>3, <1>17 DEF vars
<1> QED
  BY <1>6, <1>7, <1>8, <1>9, <1>10, <1>12, <1>13, <1>14, <1>15, <1>16, <1>17 DEF Next

-----------------------------------------------------------------------------
(* The owners of singletons and the actors *)

OwnersAgree == \A c \in Singletons, e \in Entities : Has(e, c) <=> singletonOwner[c] = e

LEMMA OwnersInit == Init => OwnersAgree /\ ActorsKeepTheirEntity
BY DEF Init, OwnersAgree, ActorsKeepTheirEntity, Has, Entities

LEMMA OwnersNext ==
    ASSUME Preloaded \intersect Singletons = {}, ~DestroyUnderActor
    PROVE  EntitiesInv /\ RegistersInv /\ OwnersAgree /\ ActorsKeepTheirEntity /\ [Next]_vars
              => OwnersAgree' /\ ActorsKeepTheirEntity'
<1> SUFFICES ASSUME EntitiesInv, RegistersInv, OwnersAgree, ActorsKeepTheirEntity, [Next]_vars
             PROVE  OwnersAgree' /\ ActorsKeepTheirEntity'
  OBVIOUS
<1> DEFINE Goal == OwnersAgree' /\ ActorsKeepTheirEntity'
<1>0. /\ StorageInv /\ IdsInv /\ entityArchetypes \in [Entities -> Signatures \union {None}]
      /\ singletonOwner \in [Singletons -> Entities \union {0}]
      /\ actorOf \in [Entities -> Actors \union {None}]
      /\ actorState \in [Actors -> {"new", "active", "destroyed"}]
      /\ entityOf \in [Actors -> Entities \union {0}]
      /\ \A b \in Actors : actorState[b] = "active" => entityOf[b] \in Entities
      /\ \A e \in Entities : e # 0
      /\ \A sig \in Signatures : sig # None
      /\ None \notin Actors
  BY NoneAssumption DEF EntitiesInv, RegistersInv, StorageInv, Entities
<1>1. ASSUME UNCHANGED <<state, entityArchetypes, singletonOwner, actorVars>>
      PROVE  Goal
  BY <1>1 DEF actorVars, OwnersAgree, ActorsKeepTheirEntity, Has
<1>2. ASSUME NEW a \in Creators, NEW sig \in SUBSET Preloaded, create(a, sig)
      PROVE  Goal
  <2> DEFINE e == allocated
  <2>1. Created(e, sig)
    BY <1>2, CreateEffect
  <2>2. /\ e \in Entities /\ entityArchetypes[e] = None /\ sig # None
        /\ \A f \in Entities :
              entityArchetypes'[f] = IF f = e THEN sig ELSE entityArchetypes[f]
    BY <1>0, <2>1, CreatedHolds
  <2>3. singletonOwner' = singletonOwner /\ state' = state /\ sig \subseteq Preloaded
    BY <1>2 DEF create
  <2>4. /\ ~(a \in Actors) => UNCHANGED <<actorOf, actorState, entityOf>>
        /\ a \in Actors => /\ actorState' = [actorState EXCEPT ![a] = "active"]
                           /\ entityOf' = [entityOf EXCEPT ![a] = e]
                           /\ actorOf' = [actorOf EXCEPT ![e] = a]
    BY <1>0, <1>2 DEF create, Creators, actorVars
  <2> HIDE DEF e
  <2>5. OwnersAgree'
    BY <2>2, <2>3 DEF OwnersAgree, Has
  <2>6. ActorsKeepTheirEntity'
    BY <1>0, <2>2, <2>3, <2>4 DEF ActorsKeepTheirEntity
  <2> QED
    BY <2>5, <2>6
\* An entity that goes takes its singletons with it.
<1>3. ASSUME NEW e \in Entities, Destroyed(e), singletonOwner' = clearEntity(e, entityArchetypes[e])
      PROVE  OwnersAgree'
  <2>1. \A f \in Entities :
           entityArchetypes'[f] = IF f = e THEN None ELSE entityArchetypes[f]
    BY <1>0, <1>3, DestroyedHolds
  <2>2. \A c \in Singletons :
           singletonOwner'[c] = IF singletonOwner[c] = e THEN 0 ELSE singletonOwner[c]
    BY <1>3 DEF clearEntity, OwnersAgree, Has
  <2> QED
    BY <1>0, <2>1, <2>2 DEF OwnersAgree, Has
<1>4. ASSUME NEW e \in Entities, destroyEntity(e)
      PROVE  Goal
  <2>1. /\ actorOf[e] = None /\ entityArchetypes[e] # None /\ DestroyStep(e)
        /\ actorOf' = [actorOf EXCEPT ![e] = None]
        /\ UNCHANGED <<state, actorState, entityOf>>
    BY <1>4 DEF destroyEntity
  <2>2. Destroyed(e) /\ singletonOwner' = clearEntity(e, entityArchetypes[e])
    BY <2>1, DestroyEffect DEF DestroyStep
  <2>3. \A f \in Entities :
           entityArchetypes'[f] = IF f = e THEN None ELSE entityArchetypes[f]
    BY <1>0, <2>2, DestroyedHolds
  <2>4. ActorsKeepTheirEntity'
    BY <1>0, <2>1, <2>3 DEF ActorsKeepTheirEntity
  <2> QED
    BY <1>3, <2>2, <2>4
\* No other actor has the entity of one that is destroyed.
<1>5. ASSUME NEW a \in Actors, destroy(a)
      PROVE  Goal
  <2> DEFINE e == entityOf[a]
  <2>1. /\ actorState[a] = "active" /\ actorState' = [actorState EXCEPT ![a] = "destroyed"]
        /\ UNCHANGED <<state, entityOf>> /\ e \in Entities
    BY <1>0, <1>5 DEF destroy
  <2>2. CASE state = "ready"
    <3>1. DestroyStep(e) /\ actorOf' = [actorOf EXCEPT ![e] = None]
      BY <1>5, <2>2 DEF destroy
    <3>2. actorOf[e] = a /\ entityArchetypes[e] # None
      BY <2>1, <2>2 DEF ActorsKeepTheirEntity
    <3>3. Destroyed(e) /\ singletonOwner' = clearEntity(e, entityArchetypes[e])
      BY <2>1, <3>1, <3>2, DestroyEffect DEF DestroyStep
    <3>4. \A f \in Entities :
             entityArchetypes'[f] = IF f = e THEN None ELSE entityArchetypes[f]
      BY <1>0, <3>3, DestroyedHolds
    <3>5. ActorsKeepTheirEntity'
      BY <1>0, <2>1, <2>2, <3>1, <3>2, <3>4 DEF ActorsKeepTheirEntity
    <3> QED
      BY <1>3, <2>1, <3>3, <3>5
  <2>3. CASE state # "ready"
    <3>1. UNCHANGED <<entityArchetypes, singletonOwner>>
      BY <1>5, <2>3 DEF destroy, storageVars, entityVars
    <3> QED
      BY <2>1, <2>3, <3>1 DEF OwnersAgree, Has, ActorsKeepTheirEntity
  <2> QED
    BY <2>2, <2>3
<1>6. ASSUME NEW e \in Entities, NEW to, Changed(e, to), UNCHANGED <<state, actorVars>>
      PROVE  /\ ActorsKeepTheirEntity'
             /\ \A f \in Entities :
                   entityArchetypes'[f] = IF f = e THEN to ELSE entityArchetypes[f]
  <2>1. /\ to # None
        /\ \A f \in Entities : entityArchetypes'[f] = IF f = e THEN to ELSE entityArchetypes[f]
    BY <1>0, <1>6, ChangedHolds
  <2>2. UNCHANGED <<actorOf, actorState, entityOf, state>>
    BY <1>6 DEF actorVars
  <2> QED
    BY <1>0, <2>1, <2>2 DEF ActorsKeepTheirEntity
<1>7. ASSUME NEW e \in Entities, NEW c \in Components, addComponent(e, c)
      PROVE  Goal
  <2> DEFINE to == entityArchetypes[e] \union {c}
  <2>1. Changed(e, to)
    BY <1>0, <1>7, AddEffect
  <2>2. /\ ActorsKeepTheirEntity'
        /\ \A f \in Entities : entityArchetypes'[f] = IF f = e THEN to ELSE entityArchetypes[f]
    BY <1>6, <1>7, <2>1 DEF addComponent
  <2>3. /\ entityArchetypes[e] # None /\ c \notin entityArchetypes[e]
        /\ c \in Singletons => singletonOwner[c] = 0
        /\ \A d \in Singletons : singletonOwner'[d] = IF d = c THEN e ELSE singletonOwner[d]
    BY <1>7 DEF addComponent
  <2>4. to # None
    BY <1>0, <2>1, ChangedHolds
  <2>5. OwnersAgree'
    BY <1>0, <2>2, <2>3, <2>4 DEF OwnersAgree, Has
  <2> QED
    BY <2>2, <2>5
<1>8. ASSUME NEW e \in Entities, NEW c \in Components, removeComponent(e, c)
      PROVE  Goal
  <2> DEFINE to == entityArchetypes[e] \ {c}
  <2>1. Changed(e, to)
    BY <1>0, <1>8, RemoveEffect
  <2>2. /\ ActorsKeepTheirEntity'
        /\ \A f \in Entities : entityArchetypes'[f] = IF f = e THEN to ELSE entityArchetypes[f]
    BY <1>6, <1>8, <2>1 DEF removeComponent
  <2>3. /\ entityArchetypes[e] # None /\ c \in entityArchetypes[e]
        /\ \A d \in Singletons :
              singletonOwner'[d] = IF d = c /\ singletonOwner[d] = e THEN 0 ELSE singletonOwner[d]
    BY <1>8 DEF removeComponent, clearEntity
  <2>4. to # None
    BY <1>0, <2>1, ChangedHolds
  <2>5. OwnersAgree'
    BY <1>0, <2>2, <2>3, <2>4 DEF OwnersAgree, Has
  <2> QED
    BY <2>2, <2>5
<1>9. ASSUME clear
      PROVE  Goal
  <2>1. /\ entityArchetypes' = [e \in Entities |-> None] /\ state' = "disposed"
        /\ singletonOwner' = [c \in Singletons |-> 0]
    BY <1>9 DEF clear
  <2> QED
    BY <1>0, <2>1 DEF OwnersAgree, Has, ActorsKeepTheirEntity
<1>10. ASSUME UNCHANGED <<state, storageVars, singletonOwner, actorVars>>
       PROVE  Goal
  BY <1>1, <1>10 DEF storageVars, entityVars
<1>11. ASSUME NEW c \in Components, registerComponentType(c)
       PROVE  Goal
  BY <1>10, <1>11 DEF registerComponentType
<1>12. ASSUME NEW Q \in Queries, query(Q)
       PROVE  Goal
  BY <1>10, <1>12 DEF query
<1>13. ASSUME createReactiveQuery \/ batchBegin \/ batchEnd
       PROVE  Goal
  BY <1>10, <1>13 DEF createReactiveQuery, batchBegin, batchEnd
<1>14. CASE UNCHANGED vars
  BY <1>10, <1>14 DEF vars
<1> QED
  BY <1>2, <1>4, <1>5, <1>7, <1>8, <1>9, <1>11, <1>12, <1>13, <1>14 DEF Next

\* Provided that no singleton is given to createEntityWithComponents and that the
\* user does not destroy the entity of an actor: arrays, indexes, ids, the owners
\* of singletons and the actors agree (entity-store.ts, archetype-store.ts,
\* world-mutation-runtime.ts, actor.ts).
THEOREM StorageStaysConsistent ==
    ASSUME Preloaded \intersect Singletons = {}, ~DestroyUnderActor
    PROVE  Spec => []StorageConsistent
<1>1. EntitiesInv /\ RegistersInv /\ CacheInv /\ OwnersAgree /\ ActorsKeepTheirEntity
         => StorageConsistent
  <2> SUFFICES ASSUME EntitiesInv, RegistersInv, CacheInv, OwnersAgree, ActorsKeepTheirEntity
               PROVE  StorageConsistent
    OBVIOUS
  <2>1. StorageInv /\ IdsInv
    BY DEF EntitiesInv
  <2>2. /\ StorageAgrees
        /\ \A sig \in Signatures :
              /\ store[sig].entities \in Seq(Entities)
              /\ store[sig].entityToIndex \in [Entities -> 0..MaxEntities]
              /\ store[sig].components \in [sig -> Seq(Instances)]
    BY <2>1, StorageInvAgrees
  <2>3. TypeOK
    BY <2>1, <2>2 DEF TypeOK, EntitiesInv, RegistersInv, CacheInv, CacheTyped, StorageInv, IdsInv
  <2>4. SingletonsAgree
    BY <2>1, StorageReadsWell, ComponentsAssumption DEF StorageReads, OwnersAgree, SingletonsAgree
  <2> QED
    BY <2>1, <2>2, <2>3, <2>4 DEF StorageConsistent, IdsInv
<1> QED
  BY <1>1, EntitiesInit, EntitiesNext, RegistersInit, RegistersNext, CacheInit, CacheNext,
     OwnersInit, OwnersNext, PTL DEF Spec

\* A query of the World, cached or not, gives exactly the entities that have the
\* components (world-query-runtime.ts): the cache is complete, the archetypes list
\* their entities.
THEOREM QueriesAreExact == Spec => []QueriesExact
<1>1. EntitiesInv /\ RegistersInv /\ CacheInv => QueriesExact
  <2> SUFFICES ASSUME EntitiesInv, RegistersInv, CacheInv, batchDepth = 0, NEW Q \in Queries
               PROVE  result(cache, archetypes, store, Q)
                         = {e \in Entities : /\ entityArchetypes[e] # None
                                             /\ \A c \in Q : hasComponent(e, c)}
    BY DEF QueriesExact
  <2>1. Q \in Signatures /\ Q \subseteq Components
    BY ComponentsAssumption DEF Signatures
  <2>2. StorageReads /\ StorageInv
    BY StorageReadsWell DEF EntitiesInv
  <2>3. Lists(store, entityArchetypes)
    BY <2>2 DEF StorageReads, Lists
  <2>4. /\ CacheTyped(cache) /\ Complete(cache, archetypes) /\ archetypes \in SUBSET Signatures
        /\ \A e \in Entities : entityArchetypes[e] # None => entityArchetypes[e] \in archetypes
    BY <2>2 DEF RegistersInv, CacheInv, StorageInv
  <2>5. result(cache, archetypes, store, Q)
           = {e \in Entities : entityArchetypes[e] # None /\ Q \subseteq entityArchetypes[e]}
    BY <2>1, <2>3, <2>4, ResultIsExact
  <2>6. \A e \in Entities : entityArchetypes[e] # None =>
           (Q \subseteq entityArchetypes[e] <=> \A c \in Q : hasComponent(e, c))
    BY <2>1, <2>2 DEF StorageReads, Has
  <2> QED
    BY <2>5, <2>6
<1> QED
  BY <1>1, EntitiesInit, EntitiesNext, RegistersInit, RegistersNext, CacheInit, CacheNext,
     PTL DEF Spec

-----------------------------------------------------------------------------
(* The table of entities *)

Shown ==
    [e \in Entities |->
        IF entityArchetypes[e] = None THEN None
        ELSE [c \in {d \in Components : hasComponent(e, d)} |-> getComponent(e, c)]]

TableOf(where) ==
    [e \in Entities |-> IF where[e] = None THEN None ELSE NewRow(e, where[e])]

LEMMA ShownIsTable == StorageInv => Shown = TableOf(entityArchetypes)
<1> SUFFICES ASSUME StorageInv PROVE Shown = TableOf(entityArchetypes)
  OBVIOUS
<1>1. StorageReads
  BY StorageReadsWell
<1>2. ASSUME NEW e \in Entities, entityArchetypes[e] # None
      PROVE  [c \in {d \in Components : hasComponent(e, d)} |-> getComponent(e, c)]
                = NewRow(e, entityArchetypes[e])
  <2>1. entityArchetypes[e] \subseteq Components
    BY <1>2 DEF StorageInv, Signatures
  <2>2. {d \in Components : hasComponent(e, d)} = entityArchetypes[e]
    BY <1>1, <1>2, <2>1 DEF StorageReads, Has
  <2>3. \A c \in entityArchetypes[e] : getComponent(e, c) = <<e, c>>
    BY <1>1, <1>2, <2>1 DEF StorageReads, Has
  <2> QED
    BY <2>2, <2>3 DEF NewRow
<1> QED
  BY <1>2 DEF Shown, TableOf

LEMMA ShownIsTableNext == StorageInv' => Shown' = TableOf(entityArchetypes')
<1>1. (StorageInv => Shown = TableOf(entityArchetypes))'
  BY ShownIsTable, PTL
<1> QED
  BY <1>1 DEF TableOf

LEMMA ShownAtFirst == Init => Table!TableInit
<1> SUFFICES ASSUME Init PROVE Table!TableInit
  OBVIOUS
<1>1. StorageInv /\ entityArchetypes = [e \in Entities |-> None]
  BY EntitiesInit DEF EntitiesInv, Init
<1>2. Shown = TableOf(entityArchetypes)
  BY <1>1, ShownIsTable
<1>3. Shown = [e \in Entities |-> None]
  BY <1>1, <1>2 DEF TableOf
<1> QED
  BY <1>3 DEF Table!TableInit, Shown

\* The same table, by its name.
T == INSTANCE EntityTable WITH NoRow <- None, table <- Shown

LEMMA SameTable == T!TableNext => Table!TableNext
BY DEF T!TableNext, T!Create, T!Destroy, T!Add, T!Remove, T!Clear, T!Rows, T!InUse, T!Alive,
       Table!TableNext, Table!Create, Table!Destroy, Table!Add, Table!Remove, Table!Clear,
       Table!Rows, Table!InUse, Table!Alive, Shown

LEMMA ShownRows ==
    ASSUME NEW where \in [Entities -> Signatures \union {None}], Shown = TableOf(where)
    PROVE  /\ \A e \in Entities : Shown[e] = None <=> where[e] = None
           /\ \A e \in Entities : where[e] # None =>
                 Shown[e] = NewRow(e, where[e]) /\ DOMAIN Shown[e] = where[e]
           /\ \A o : o \in T!InUse <=>
                 \E e \in Entities : where[e] # None /\ \E c \in where[e] : o = <<e, c>>
<1>1. \A e \in Entities : where[e] # None => NewRow(e, where[e]) # None
  <2> SUFFICES ASSUME NEW e \in Entities, where[e] # None PROVE NewRow(e, where[e]) # None
    OBVIOUS
  <2>1. where[e] \in Signatures
    OBVIOUS
  <2>2. NewRow(e, where[e]) \in [where[e] -> Instances]
    BY <2>1 DEF NewRow, Instances, Signatures
  <2> QED
    BY <2>1, <2>2, NoneAssumption
<1>2. /\ \A e \in Entities : Shown[e] = None <=> where[e] = None
      /\ \A e \in Entities : where[e] # None => Shown[e] = NewRow(e, where[e])
  BY <1>1 DEF TableOf
<1>3. \A e \in Entities : where[e] # None => DOMAIN Shown[e] = where[e]
  BY <1>2 DEF NewRow
<1>4. \A e \in Entities : where[e] # None => \A c \in where[e] : Shown[e][c] = <<e, c>>
  BY <1>2 DEF NewRow
<1>5. \A o : o \in T!InUse <=>
         \E e \in Entities : Shown[e] # None /\ \E c \in DOMAIN Shown[e] : o = Shown[e][c]
  BY DEF T!InUse, T!Alive
<1>6. ASSUME NEW e \in Entities, where[e] # None, NEW o
      PROVE  (\E c \in DOMAIN Shown[e] : o = Shown[e][c]) <=> \E c \in where[e] : o = <<e, c>>
  <2>1. DOMAIN Shown[e] = where[e] /\ \A c \in where[e] : Shown[e][c] = <<e, c>>
    BY <1>3, <1>4, <1>6
  <2> QED
    BY <2>1
<1>7. ASSUME NEW o
      PROVE  o \in T!InUse <=>
                \E e \in Entities : where[e] # None /\ \E c \in where[e] : o = <<e, c>>
  BY <1>2, <1>5, <1>6
<1> QED
  BY <1>2, <1>3, <1>7

LEMMA CreatedInTable ==
    ASSUME StorageInv, IdsInv, NEW e, NEW sig, Created(e, sig)
    PROVE  e \in Entities /\ T!Create(e)
<1> DEFINE w == entityArchetypes
           row == NewRow(e, sig)
<1>1. /\ StorageInv' /\ e \in Entities /\ w[e] = None /\ sig # None
      /\ \A f \in Entities : w'[f] = IF f = e THEN sig ELSE w[f]
  BY CreatedHolds
<1>2. Shown = TableOf(w) /\ Shown' = TableOf(w') /\ sig \in Signatures
  BY <1>1, ShownIsTable, ShownIsTableNext DEF Created
<1>3. w \in [Entities -> Signatures \union {None}]
  BY DEF StorageInv
<1>4. /\ Shown[e] = None
      /\ \A o : o \in T!InUse => \E f \in Entities : w[f] # None /\ \E c \in w[f] : o = <<f, c>>
  BY <1>1, <1>2, <1>3, ShownRows
<1>5. Shown'[e] = row /\ Shown' = [Shown EXCEPT ![e] = row]
  BY <1>1, <1>2 DEF TableOf
<1>6. row \in [sig -> Instances] /\ \A c \in sig : row[c] = <<e, c>>
  BY <1>1, <1>2 DEF NewRow, Instances, Signatures
<1>7. row \in T!Rows /\ row # None /\ DOMAIN row = sig
  BY <1>2, <1>6, NoneAssumption DEF T!Rows, Signatures
<1>8. \A c \in sig : <<e, c>> \notin T!InUse
  BY <1>1, <1>4
<1> HIDE DEF row, w
<1> QED
  BY <1>1, <1>4, <1>5, <1>6, <1>7, <1>8 DEF T!Create

LEMMA DestroyedInTable ==
    ASSUME StorageInv, IdsInv, NEW e \in Entities, Destroyed(e)
    PROVE  T!Destroy(e)
<1> DEFINE w == entityArchetypes
<1>1. /\ StorageInv' /\ w[e] # None
      /\ \A f \in Entities : w'[f] = IF f = e THEN None ELSE w[f]
  BY DestroyedHolds DEF Destroyed
<1>2. Shown = TableOf(w) /\ Shown' = TableOf(w') /\ w \in [Entities -> Signatures \union {None}]
  BY <1>1, ShownIsTable, ShownIsTableNext DEF StorageInv
<1>3. Shown[e] # None
  BY <1>1, <1>2, ShownRows
<1>4. Shown' = [Shown EXCEPT ![e] = None]
  BY <1>1, <1>2 DEF TableOf
<1> QED
  BY <1>3, <1>4 DEF T!Destroy

LEMMA ChangedInTable ==
    ASSUME StorageInv, IdsInv, NEW e \in Entities, NEW c \in Components, NEW to, Changed(e, to)
    PROVE  /\ c \notin entityArchetypes[e] /\ to = entityArchetypes[e] \union {c} => T!Add(e, c)
           /\ c \in entityArchetypes[e] /\ to = entityArchetypes[e] \ {c} => T!Remove(e, c)
<1> DEFINE w == entityArchetypes
           row == NewRow(e, to)
<1>1. /\ StorageInv' /\ w[e] # None /\ to # None
      /\ \A f \in Entities : w'[f] = IF f = e THEN to ELSE w[f]
  BY ChangedHolds DEF Changed
<1>2. Shown = TableOf(w) /\ Shown' = TableOf(w') /\ w \in [Entities -> Signatures \union {None}]
  BY <1>1, ShownIsTable, ShownIsTableNext DEF StorageInv
<1>3. /\ Shown[e] # None /\ Shown[e] = NewRow(e, w[e]) /\ DOMAIN Shown[e] = w[e]
      /\ \A o : o \in T!InUse => \E f \in Entities : w[f] # None /\ \E d \in w[f] : o = <<f, d>>
  BY <1>1, <1>2, ShownRows
<1>4. Shown' = [Shown EXCEPT ![e] = row]
  BY <1>1, <1>2 DEF TableOf
<1>5. \A d \in w[e] : Shown[e][d] = <<e, d>>
  BY <1>3 DEF NewRow
<1>6. ASSUME c \notin w[e], to = w[e] \union {c}
      PROVE  T!Add(e, c)
  <2>1. <<e, c>> \in Instances \ T!InUse
    BY <1>3, <1>6 DEF Instances
  <2>2. row = [d \in DOMAIN Shown[e] \union {c} |-> IF d = c THEN <<e, c>> ELSE Shown[e][d]]
    BY <1>3, <1>5, <1>6 DEF NewRow
  <2> HIDE DEF row
  <2>3. Shown' = [Shown EXCEPT ![e] =
                     [d \in DOMAIN @ \union {c} |-> IF d = c THEN <<e, c>> ELSE @[d]]]
    BY <1>2, <1>4, <2>2 DEF TableOf
  <2> QED
    BY <1>3, <1>6, <2>1, <2>3 DEF T!Add
<1>7. ASSUME c \in w[e], to = w[e] \ {c}
      PROVE  T!Remove(e, c)
  <2>1. row = [d \in DOMAIN Shown[e] \ {c} |-> Shown[e][d]]
    BY <1>3, <1>5, <1>7 DEF NewRow
  <2> HIDE DEF row
  <2>2. Shown' = [Shown EXCEPT ![e] = [d \in DOMAIN @ \ {c} |-> @[d]]]
    BY <1>2, <1>4, <2>1 DEF TableOf
  <2> QED
    BY <1>3, <1>7, <2>2 DEF T!Remove
<1> QED
  BY <1>6, <1>7

LEMMA AllGoneInTable ==
    ASSUME AllGone
    PROVE  T!Clear
<1>1. StorageInv' /\ entityArchetypes' = [e \in Entities |-> None]
  BY AllGoneHolds DEF AllGone
<1>2. Shown' = TableOf(entityArchetypes')
  BY <1>1, ShownIsTableNext
<1> QED
  BY <1>1, <1>2 DEF TableOf, T!Clear

LEMMA QuietInTable ==
    ASSUME StorageInv, StorageInv', UNCHANGED entityArchetypes
    PROVE  UNCHANGED Shown
BY ShownIsTable, ShownIsTableNext

-----------------------------------------------------------------------------
\* The World implements the table of entities (EntityTable): every call changes
\* the row of its own entity and no other, whatever moves in the arrays
\* (archetype.ts, archetype-store.ts, world-mutation-runtime.ts).
THEOREM WorldImplementsEntityTable == Spec => ImplementsEntityTable
<1>1. EntitiesInv /\ EntitiesInv' /\ [Next]_vars => T!TableNext \/ UNCHANGED Shown
  <2> SUFFICES ASSUME EntitiesInv, EntitiesInv', [Next]_vars
               PROVE  T!TableNext \/ UNCHANGED Shown
    OBVIOUS
  <2>0. StorageInv /\ IdsInv /\ StorageInv'
    BY DEF EntitiesInv
  <2> DEFINE Goal == T!TableNext \/ UNCHANGED Shown
  <2>1. ASSUME UNCHANGED storageVars PROVE Goal
    BY <2>0, <2>1, QuietInTable DEF storageVars, entityVars
  <2>2. ASSUME NEW a \in Creators, NEW sig \in SUBSET Preloaded, create(a, sig) PROVE Goal
    BY <2>0, <2>2, CreateEffect, CreatedInTable DEF T!TableNext
  <2>3. ASSUME NEW e \in Entities, DestroyStep(e) PROVE Goal
    <3>1. CASE entityArchetypes[e] = None
      BY <2>1, <2>3, <3>1, DestroyEffect
    <3>2. CASE entityArchetypes[e] # None
      <4>1. T!Destroy(e)
        BY <2>0, <2>3, <3>2, DestroyEffect, DestroyedInTable
      <4> QED
        BY <4>1 DEF T!TableNext
    <3> QED
      BY <3>1, <3>2
  <2>4. ASSUME NEW e \in Entities, destroyEntity(e) PROVE Goal
    BY <2>3, <2>4 DEF destroyEntity
  <2>5. ASSUME NEW a \in Actors, destroy(a) PROVE Goal
    <3>1. entityOf[a] \in Entities
      BY <2>5 DEF destroy, EntitiesInv
    <3> QED
      BY <2>1, <2>3, <2>5, <3>1 DEF destroy
  <2>6. ASSUME NEW e \in Entities, NEW c \in Components, addComponent(e, c) PROVE Goal
    <3>1. Changed(e, entityArchetypes[e] \union {c}) /\ c \notin entityArchetypes[e]
      BY <2>0, <2>6, AddEffect DEF addComponent
    <3>2. T!Add(e, c)
      BY <2>0, <3>1, ChangedInTable
    <3> QED
      BY <3>2 DEF T!TableNext
  <2>7. ASSUME NEW e \in Entities, NEW c \in Components, removeComponent(e, c) PROVE Goal
    <3>1. Changed(e, entityArchetypes[e] \ {c}) /\ c \in entityArchetypes[e]
      BY <2>0, <2>7, RemoveEffect DEF removeComponent
    <3>2. T!Remove(e, c)
      BY <2>0, <3>1, ChangedInTable
    <3> QED
      BY <3>2 DEF T!TableNext
  <2>8. ASSUME clear PROVE Goal
    <3>1. AllGone
      BY <2>8 DEF clear, AllGone
    <3> QED
      BY <3>1, AllGoneInTable DEF T!TableNext
  <2>9. ASSUME NEW c \in Components, registerComponentType(c) PROVE Goal
    BY <2>1, <2>9 DEF registerComponentType
  <2>10. ASSUME NEW Q \in Queries, query(Q) PROVE Goal
    BY <2>1, <2>10 DEF query
  <2>11. ASSUME createReactiveQuery \/ batchBegin \/ batchEnd PROVE Goal
    BY <2>1, <2>11 DEF createReactiveQuery, batchBegin, batchEnd
  <2>12. CASE UNCHANGED vars
    BY <2>1, <2>12 DEF vars
  <2> QED
    BY <2>2, <2>4, <2>5, <2>6, <2>7, <2>8, <2>9, <2>10, <2>11, <2>12 DEF Next
<1>2. EntitiesInv /\ EntitiesInv' /\ [Next]_vars => [Table!TableNext]_Shown
  BY <1>1, SameTable
<1> QED
  BY <1>2, ShownAtFirst, EntitiesInit, EntitiesNext, PTL
     DEF Spec, ImplementsEntityTable, Table!TableSpec, Shown

-----------------------------------------------------------------------------
(* The reactive query *)

Matches(where, e) == where[e] # None /\ Reactive \subseteq where[e]

BelongsReads == \A e \in Entities : Belongs(e) <=> Matches(entityArchetypes, e)

LEMMA BelongsReadsWell == StorageInv => BelongsReads
<1>1. Reactive \subseteq Components
  BY ComponentsAssumption DEF Signatures
<1> QED
  BY <1>1, StorageReadsWell DEF StorageReads, Has, BelongsReads, Belongs, Matches

LEMMA BelongsReadsWellNext == StorageInv' => BelongsReads'
BY BelongsReadsWell, PTL

\* Outside a batch an event makes the reactive query publish what is so after the
\* change: the archetype that may be new has emptied the cache.
LEMMA PublishedIsExact ==
    ASSUME StorageInv', RegistersInv, CacheInv, batchDepth = 0, published # None,
           registered' = registered,
           NEW created \in BOOLEAN, ~created => archetypes' = archetypes,
           NEW emitted \in BOOLEAN, emitted, CacheStep(created, emitted)
    PROVE  \A e \in Entities : e \in published' <=> Matches(entityArchetypes', e)
<1> DEFINE cch == invalidated(created, cache)
<1>1. CacheTyped(cch)
  BY DEF invalidated, RegistersInv, CacheTyped, EmptyCache
<1>2. Complete(cch, archetypes')
  BY EmptyIsComplete DEF invalidated, CacheInv
<1>3. published' = result(cch, archetypes', store', Reactive)
  BY DEF CacheStep
<1>4. Lists(store', entityArchetypes')
  BY StorageReadsWellNext DEF StorageReads, Elements, Lists
<1>5. /\ archetypes' \in SUBSET Signatures /\ Reactive \in Signatures
      /\ \A e \in Entities : entityArchetypes'[e] # None => entityArchetypes'[e] \in archetypes'
  BY ComponentsAssumption DEF StorageInv
<1> HIDE DEF cch
<1>6. result(cch, archetypes', store', Reactive)
         = {e \in Entities : entityArchetypes'[e] # None /\ Reactive \subseteq entityArchetypes'[e]}
  BY <1>1, <1>2, <1>4, <1>5, ResultIsExact
<1> QED
  BY <1>3, <1>6 DEF Matches

LEMMA SameTruth ==
    ASSUME NEW P \in BOOLEAN, NEW Q \in BOOLEAN, P <=> Q
    PROVE  P = Q
OBVIOUS

\* What an action does to one entity with an actor: nothing that the reactive query
\* sees, or it is published.
Followed(e) ==
    \/ actorOf'[e] = None
    \/ Matches(entityArchetypes', e) <=> Matches(entityArchetypes, e)
    \/ e \in published' <=> Matches(entityArchetypes', e)

LEMMA ChangeIsFollowed ==
    ASSUME EntitiesInv, RegistersInv, CacheInv, batchDepth = 0, published # None,
           registered' = registered, actorOf' = actorOf,
           NEW e \in Entities, NEW c, NEW to, Changed(e, to),
           to = entityArchetypes[e] \union {c} \/ to = entityArchetypes[e] \ {c},
           CacheStep(to \notin archetypes, actorOf[e] # None /\ c \in Reactive),
           NEW f \in Entities
    PROVE  Followed(f)
<1>1. /\ StorageInv' /\ to # None /\ entityArchetypes[e] # None
      /\ \A g \in Entities : entityArchetypes'[g] = IF g = e THEN to ELSE entityArchetypes[g]
  BY ChangedHolds DEF EntitiesInv, Changed
<1>2. CASE f # e
  BY <1>1, <1>2 DEF Followed, Matches
<1>3. CASE f = e /\ c \notin Reactive
  BY <1>1, <1>3 DEF Followed, Matches
<1>4. CASE f = e /\ actorOf[e] = None
  BY <1>4 DEF Followed
<1>5. CASE f = e /\ actorOf[e] # None /\ c \in Reactive
  <2>1. to \in archetypes => archetypes' = archetypes
    BY DEF Changed, Turns
  <2>2. \A g \in Entities : g \in published' <=> Matches(entityArchetypes', g)
    BY <1>1, <1>5, <2>1, PublishedIsExact
  <2> QED
    BY <2>2 DEF Followed
<1> QED
  BY <1>2, <1>3, <1>4, <1>5

\* A change outside a batch that makes the entity of an actor join or leave the
\* reactive query is in the result that the change publishes
\* (world-query-runtime.ts, world-mutation-runtime.ts).
THEOREM ReactiveQueryFollows == Spec => ReactiveFollows
<1> DEFINE Follows ==
              batchDepth = 0 /\ published # None /\ state' = "ready" =>
                 \A e \in Entities :
                    actorOf'[e] # None /\ Belongs(e) # Belongs(e)'
                       => (e \in published' <=> Belongs(e)')
<1>1. EntitiesInv /\ EntitiesInv' /\ RegistersInv /\ CacheInv /\ [Next]_vars => [Follows]_vars
  <2> SUFFICES ASSUME EntitiesInv, EntitiesInv', RegistersInv, CacheInv, Next,
                      batchDepth = 0, published # None, state' = "ready",
                      NEW f \in Entities
               PROVE  actorOf'[f] # None /\ Belongs(f) # Belongs(f)'
                         => (f \in published' <=> Belongs(f)')
    OBVIOUS
  <2>0. StorageInv /\ IdsInv /\ StorageInv'
    BY DEF EntitiesInv
  <2>1. ASSUME entityArchetypes' = entityArchetypes PROVE Followed(f)
    BY <2>1 DEF Followed
  <2>2. ASSUME NEW a \in Creators, NEW sig \in SUBSET Preloaded, create(a, sig)
        PROVE  Followed(f)
    <3> DEFINE e == allocated
    <3>1. /\ Created(e, sig) /\ e \in Entities /\ entityArchetypes[e] = None
          /\ \A g \in Entities :
                entityArchetypes'[g] = IF g = e THEN sig ELSE entityArchetypes[g]
      BY <2>0, <2>2, CreateEffect, CreatedHolds
    <3>2. CASE f # e
      BY <3>1, <3>2 DEF Followed, Matches
    <3>3. CASE f = e /\ a = None
      <4>1. actorOf' = actorOf
        BY <2>2, <3>3 DEF create, actorVars
      <4> QED
        BY <3>1, <3>3, <4>1 DEF Followed, EntitiesInv
    <3>4. CASE a # None
      <4>1. CacheStep(sig \notin archetypes, a # None) /\ registered' = registered
        BY <2>2 DEF create
      <4>2. sig \in archetypes => archetypes' = archetypes
        BY <2>2 DEF create, getOrCreateArchetype
      <4>3. \A g \in Entities : g \in published' <=> Matches(entityArchetypes', g)
        BY <2>0, <3>4, <4>1, <4>2, PublishedIsExact
      <4> QED
        BY <4>3 DEF Followed
    <3> QED
      BY <3>2, <3>3, <3>4
  <2>3. ASSUME NEW e \in Entities, DestroyStep(e), actorOf' = [actorOf EXCEPT ![e] = None]
        PROVE  Followed(f)
    <3>1. actorOf'[e] = None
      BY <2>3 DEF EntitiesInv
    <3>2. CASE entityArchetypes[e] = None
      <4>1. entityArchetypes' = entityArchetypes
        BY <2>3, <3>2, DestroyEffect DEF storageVars, entityVars
      <4> QED
        BY <2>1, <4>1
    <3>3. CASE entityArchetypes[e] # None
      <4>1. \A g \in Entities :
               entityArchetypes'[g] = IF g = e THEN None ELSE entityArchetypes[g]
        BY <2>0, <2>3, <3>3, DestroyEffect, DestroyedHolds
      <4> QED
        BY <3>1, <4>1 DEF Followed, Matches
    <3> QED
      BY <3>2, <3>3
  <2>4. ASSUME NEW e \in Entities, destroyEntity(e) PROVE Followed(f)
    BY <2>3, <2>4 DEF destroyEntity
  <2>5. ASSUME NEW a \in Actors, destroy(a) PROVE Followed(f)
    <3>1. entityOf[a] \in Entities /\ state = "ready"
      BY <2>5 DEF destroy, EntitiesInv
    <3> QED
      BY <2>3, <2>5, <3>1 DEF destroy
  <2>6. ASSUME NEW e \in Entities, NEW c \in Components, addComponent(e, c) PROVE Followed(f)
    <3> DEFINE to == entityArchetypes[e] \union {c}
    <3>1. Changed(e, to)
      BY <2>0, <2>6, AddEffect
    <3>2. /\ CacheStep(to \notin archetypes, actorOf[e] # None /\ c \in Reactive)
          /\ registered' = registered /\ actorOf' = actorOf
      BY <2>6 DEF addComponent, actorVars
    <3> QED
      BY <3>1, <3>2, ChangeIsFollowed
  <2>7. ASSUME NEW e \in Entities, NEW c \in Components, removeComponent(e, c) PROVE Followed(f)
    <3> DEFINE to == entityArchetypes[e] \ {c}
    <3>1. Changed(e, to)
      BY <2>0, <2>7, RemoveEffect
    <3>2. /\ CacheStep(to \notin archetypes, actorOf[e] # None /\ c \in Reactive)
          /\ registered' = registered /\ actorOf' = actorOf
      BY <2>7 DEF removeComponent, actorVars
    <3> QED
      BY <3>1, <3>2, ChangeIsFollowed
  <2>8. ~clear
    BY DEF clear
  <2>9. ASSUME UNCHANGED storageVars PROVE Followed(f)
    BY <2>1, <2>9 DEF storageVars, entityVars
  <2>10. ASSUME NEW c \in Components, registerComponentType(c) PROVE Followed(f)
    BY <2>9, <2>10 DEF registerComponentType
  <2>11. ASSUME NEW Q \in Queries, query(Q) PROVE Followed(f)
    BY <2>9, <2>11 DEF query
  <2>12. ASSUME createReactiveQuery \/ batchBegin \/ batchEnd PROVE Followed(f)
    BY <2>9, <2>12 DEF createReactiveQuery, batchBegin, batchEnd
  <2>13. Followed(f)
    BY <2>2, <2>4, <2>5, <2>6, <2>7, <2>8, <2>10, <2>11, <2>12 DEF Next
  <2>14. Belongs(f) <=> Matches(entityArchetypes, f)
    BY <2>0, BelongsReadsWell DEF BelongsReads
  <2>15. Belongs(f)' <=> Matches(entityArchetypes', f)
    BY <2>0, BelongsReadsWellNext DEF BelongsReads, Matches
  <2>16. Belongs(f) \in BOOLEAN /\ Belongs(f)' \in BOOLEAN
    BY Zenon DEF Belongs
  <2>17. (Belongs(f) <=> Belongs(f)') => Belongs(f) = Belongs(f)'
    BY <2>16, SameTruth
  <2>18. CASE actorOf'[f] # None /\ Belongs(f) # Belongs(f)'
    <3>1. f \in published' <=> Matches(entityArchetypes', f)
      BY <2>13, <2>14, <2>15, <2>17, <2>18, Zenon DEF Followed
    <3> QED
      BY <2>15, <3>1, Zenon
  <2> QED
    BY <2>18, Zenon
<1> QED
  BY <1>1, EntitiesInit, EntitiesNext, RegistersInit, RegistersNext, CacheInit, CacheNext,
     PTL DEF Spec, ReactiveFollows
=============================================================================
