------------------------ MODULE AssetDatabaseProofs -------------------------
(***************************************************************************)
(* Proofs about the asset database: its maps are what a look at all assets *)
(* would give, a mirror that applies the events follows them, data is      *)
(* disposed when it goes and not before, a snapshot that is closed can be  *)
(* restored, and keys lead where they led.                                 *)
(*                                                                         *)
(* The database is a record of maps that each call replaces as a whole.    *)
(* The parts of the invariant are therefore operators of a database, and   *)
(* what a call makes of them is shown of any database: first of one        *)
(* commit, one removal, one binding, then of the sequences of those that   *)
(* make a batch, a cascade or a restore, last of the actions.  What a      *)
(* sequence of commits keeps follows from the least step that would not    *)
(* keep it (CountingUp), since a number below it has the property.         *)
(***************************************************************************)
EXTENDS AssetDatabase, SubsequenceProofs, FiniteSetTheorems, SequenceTheorems, TLAPS

-----------------------------------------------------------------------------
\* The database, field by field: one commit.

\* The databases: a record of maps, each typed.
RevisionData == [1..MaxRevision -> 0..MaxData]
Databases ==
    [assets : [Ids -> Assets \union {None}],
     revisions : [Ids -> RevisionData],
     keyIndex : [Keys -> Ids \union {None}],
     aliasIndex : [Keys -> Ids \union {None}],
     dependents : [Ids -> SUBSET Ids],
     fingerprints : [1..MaxData -> SUBSET Ids],
     bindings : [Identities -> Ids \union {None}],
     identities : [Ids -> SUBSET Identities]]

\* What commitAsset makes of E, map by map; p is the asset it replaces.
Committed(E, p, a, X) ==
    /\ X \in Databases
    /\ \A i \in Ids : X.assets[i] = IF i = a.id THEN a ELSE E.assets[i]
    /\ \A i \in Ids : i # a.id => X.revisions[i] = E.revisions[i]
    /\ kept(E, a.id) \union {a.revision} \subseteq kept(X, a.id)
    /\ X.revisions[a.id][a.revision] = a.data
    /\ \A k \in Keys : X.keyIndex[k] =
          IF k = a.key THEN a.id
          ELSE IF p # None /\ k = p.key THEN None ELSE E.keyIndex[k]
    /\ \A k \in Keys : X.aliasIndex[k] =
          IF k \in a.aliases THEN a.id ELSE IF k = a.key THEN None
          ELSE IF p # None /\ k \in p.aliases /\ E.aliasIndex[k] = a.id THEN None
          ELSE E.aliasIndex[k]
    /\ \A i, j \in Ids : j \in X.dependents[i] <=>
          \/ j = a.id /\ i \in a.dependencies
          \/ j \in E.dependents[i] /\ ~(p # None /\ j = a.id /\ i \in p.dependencies)
    /\ \A f \in 1..MaxData : \A j \in Ids : j \in X.fingerprints[f] <=>
          \/ j = a.id /\ f = a.fingerprint
          \/ j \in E.fingerprints[f] /\ ~(p # None /\ j = a.id /\ f = p.fingerprint)
    /\ X.bindings = E.bindings /\ X.identities = E.identities

\* The record that unindex and commitAsset give, field by field.
LEMMA CommitAsset ==
    ASSUME None \notin Assets,
           NEW E \in Databases, NEW B, NEW a \in Assets,
           B.assets[a.id] = E.assets[a.id],
           E.assets[a.id] # None => E.assets[a.id].id = a.id
    PROVE  Committed(E, E.assets[a.id], a, commitAsset(E, B, a))
<1>1. PICK p : p = E.assets[a.id]
  OBVIOUS
<1>2. PICK C : C = IF p = None THEN E ELSE unindex(E, p)
  OBVIOUS
<1>3. /\ a.id \in Ids /\ a.key \in Keys /\ a.aliases \in SUBSET Keys /\ a.fingerprint \in 1..MaxData
      /\ a.data \in 1..MaxData /\ a.data # 0 /\ a.data \in 0..MaxData
      /\ a.revision \in 1..MaxRevision /\ a.dependencies \in SUBSET Ids
  BY DEF Assets
<1>4. p # None => /\ p \in Assets /\ p.id = a.id /\ p.key \in Keys /\ p.aliases \in SUBSET Keys
                  /\ p.fingerprint \in 1..MaxData /\ p.revision \in 1..MaxRevision
                  /\ p.data # 0 /\ p.data \in 0..MaxData
                  /\ p.dependencies \in SUBSET Ids
  BY <1>1, <1>3 DEF Databases, Assets
<1>5. /\ C \in Databases /\ C.assets = E.assets /\ C.revisions = E.revisions
      /\ C.bindings = E.bindings /\ C.identities = E.identities
      /\ \A k \in Keys : C.keyIndex[k] =
            IF p # None /\ k = p.key THEN None ELSE E.keyIndex[k]
      /\ \A k \in Keys : C.aliasIndex[k] =
            IF p # None /\ k \in p.aliases /\ E.aliasIndex[k] = a.id THEN None ELSE E.aliasIndex[k]
      /\ \A i \in Ids : C.dependents[i] =
            IF p # None /\ i \in p.dependencies THEN E.dependents[i] \ {a.id} ELSE E.dependents[i]
      /\ \A f \in 1..MaxData : C.fingerprints[f] =
            IF p # None /\ f = p.fingerprint THEN E.fingerprints[f] \ {a.id} ELSE E.fingerprints[f]
  <2>1. CASE p = None
    BY <1>2, <2>1
  <2>2. CASE p # None
    <3>1. C = [assets |-> E.assets, revisions |-> E.revisions,
               keyIndex |-> [E.keyIndex EXCEPT ![p.key] = None],
               aliasIndex |-> [k \in Keys |->
                  IF k \in p.aliases /\ E.aliasIndex[k] = p.id THEN None ELSE E.aliasIndex[k]],
               dependents |-> unlinkDependencies(E.dependents, p),
               fingerprints |-> [E.fingerprints EXCEPT ![p.fingerprint] = @ \ {p.id}],
               bindings |-> E.bindings, identities |-> E.identities]
      BY <1>2, <2>2 DEF unindex, Databases
    <3>2. unlinkDependencies(E.dependents, p) =
            [i \in Ids |-> IF i \in p.dependencies THEN E.dependents[i] \ {p.id}
                           ELSE E.dependents[i]]
      BY DEF unlinkDependencies
    <3>3. /\ E.keyIndex \in [Keys -> Ids \union {None}]
          /\ E.aliasIndex \in [Keys -> Ids \union {None}]
          /\ E.dependents \in [Ids -> SUBSET Ids]
          /\ E.fingerprints \in [1..MaxData -> SUBSET Ids]
      BY DEF Databases
    <3>4. /\ C.keyIndex \in [Keys -> Ids \union {None}]
          /\ \A k \in Keys : C.keyIndex[k] = IF k = p.key THEN None ELSE E.keyIndex[k]
      BY <1>4, <2>2, <3>1, <3>3
    <3>5. /\ C.aliasIndex \in [Keys -> Ids \union {None}]
          /\ \A k \in Keys : C.aliasIndex[k] =
                IF k \in p.aliases /\ E.aliasIndex[k] = a.id THEN None ELSE E.aliasIndex[k]
      BY <1>4, <2>2, <3>1, <3>3
    <3>6. /\ C.dependents \in [Ids -> SUBSET Ids]
          /\ \A i \in Ids : C.dependents[i] =
                IF i \in p.dependencies THEN E.dependents[i] \ {a.id} ELSE E.dependents[i]
      <4>1. C.dependents = [i \in Ids |->
               IF i \in p.dependencies THEN E.dependents[i] \ {a.id} ELSE E.dependents[i]]
        BY <1>4, <2>2, <3>1, <3>2
      <4>2. \A i \in Ids : E.dependents[i] \in SUBSET Ids /\ E.dependents[i] \ {a.id} \in SUBSET Ids
        BY <3>3
      <4> QED
        BY <4>1, <4>2
    <3>7. /\ C.fingerprints \in [1..MaxData -> SUBSET Ids]
          /\ \A f \in 1..MaxData : C.fingerprints[f] =
                IF f = p.fingerprint THEN E.fingerprints[f] \ {a.id} ELSE E.fingerprints[f]
      <4>1. C.fingerprints = [E.fingerprints EXCEPT ![p.fingerprint] = @ \ {a.id}]
        BY <1>4, <2>2, <3>1
      <4>2. E.fingerprints[p.fingerprint] \in SUBSET Ids
        BY <1>4, <2>2, <3>3
      <4> QED
        BY <1>4, <2>2, <3>3, <4>1, <4>2
    <3>8. /\ C.assets = E.assets /\ C.revisions = E.revisions
          /\ C.bindings = E.bindings /\ C.identities = E.identities
      BY <3>1
    <3>9. C \in Databases
      BY <3>1, <3>4, <3>5, <3>6, <3>7, <3>8 DEF Databases
    <3> QED
      BY <2>2, <3>4, <3>5, <3>6, <3>7, <3>8, <3>9
  <2> QED
    BY <2>1, <2>2
<1>6. PICK X : X = commitAsset(E, B, a)
  OBVIOUS
<1>7. X = [assets |-> [C.assets EXCEPT ![a.id] = a],
           revisions |-> [C.revisions EXCEPT ![a.id] = storeRevision(@, a, p)],
           keyIndex |-> [C.keyIndex EXCEPT ![a.key] = a.id],
           aliasIndex |-> [k \in Keys |->
              IF k \in a.aliases THEN a.id ELSE IF k = a.key THEN None ELSE C.aliasIndex[k]],
           dependents |-> linkDependencies(C.dependents, a),
           fingerprints |-> [C.fingerprints EXCEPT ![a.fingerprint] = @ \union {a.id}],
           bindings |-> C.bindings, identities |-> C.identities]
  <2>1. X = [C EXCEPT
               !.revisions[a.id] = storeRevision(@, a, p),
               !.assets[a.id] = a,
               !.keyIndex[a.key] = a.id,
               !.aliasIndex = [k \in Keys |->
                  IF k \in a.aliases THEN a.id ELSE IF k = a.key THEN None ELSE @[k]],
               !.fingerprints[a.fingerprint] = @ \union {a.id},
               !.dependents = linkDependencies(@, a)]
    BY <1>1, <1>2, <1>6 DEF commitAsset
  <2>2. C = [assets |-> C.assets, revisions |-> C.revisions, keyIndex |-> C.keyIndex,
             aliasIndex |-> C.aliasIndex, dependents |-> C.dependents,
             fingerprints |-> C.fingerprints, bindings |-> C.bindings, identities |-> C.identities]
    BY <1>5 DEF Databases
  <2> QED
    BY <2>1, <2>2
<1>8. storeRevision(C.revisions[a.id], a, p) =
        [r \in 1..MaxRevision |-> IF r = a.revision THEN a.data
                                 ELSE IF p # None /\ r = p.revision THEN p.data
                                 ELSE C.revisions[a.id][r]]
  BY DEF storeRevision
<1>9. linkDependencies(C.dependents, a) =
        [i \in Ids |-> IF i \in a.dependencies THEN C.dependents[i] \union {a.id}
                       ELSE C.dependents[i]]
  BY DEF linkDependencies
<1>10. /\ C.assets \in [Ids -> Assets \union {None}]
       /\ C.revisions \in [Ids -> RevisionData]
       /\ C.keyIndex \in [Keys -> Ids \union {None}]
       /\ C.aliasIndex \in [Keys -> Ids \union {None}]
       /\ C.dependents \in [Ids -> SUBSET Ids]
       /\ C.fingerprints \in [1..MaxData -> SUBSET Ids]
       /\ C.bindings \in [Identities -> Ids \union {None}]
       /\ C.identities \in [Ids -> SUBSET Identities]
  BY <1>5 DEF Databases
<1>11. /\ X.assets \in [Ids -> Assets \union {None}]
       /\ X.revisions \in [Ids -> RevisionData]
       /\ X.keyIndex \in [Keys -> Ids \union {None}]
       /\ X.aliasIndex \in [Keys -> Ids \union {None}]
       /\ X.dependents \in [Ids -> SUBSET Ids]
       /\ X.fingerprints \in [1..MaxData -> SUBSET Ids]
  <2>1. X.assets \in [Ids -> Assets \union {None}] /\ X.keyIndex \in [Keys -> Ids \union {None}]
    BY <1>3, <1>7, <1>10
  <2>2. X.aliasIndex \in [Keys -> Ids \union {None}]
    BY <1>3, <1>7, <1>10
  <2>3. X.revisions \in [Ids -> RevisionData]
    <3>1. C.revisions[a.id] \in RevisionData
      BY <1>3, <1>10
    <3>2. storeRevision(C.revisions[a.id], a, p) \in RevisionData
      BY <1>3, <1>4, <1>8, <3>1 DEF RevisionData
    <3> QED
      BY <1>3, <1>7, <1>10, <3>2
  <2>4. X.dependents \in [Ids -> SUBSET Ids]
    <3>1. \A i \in Ids :
             C.dependents[i] \in SUBSET Ids /\ C.dependents[i] \union {a.id} \in SUBSET Ids
      BY <1>3, <1>10
    <3>2. X.dependents = [i \in Ids |->
            IF i \in a.dependencies THEN C.dependents[i] \union {a.id} ELSE C.dependents[i]]
      BY <1>7, <1>9
    <3> QED
      BY <3>1, <3>2
  <2>5. X.fingerprints \in [1..MaxData -> SUBSET Ids]
    <3>1. C.fingerprints[a.fingerprint] \union {a.id} \in SUBSET Ids
      BY <1>3, <1>10
    <3> QED
      BY <1>3, <1>7, <1>10, <3>1
  <2> QED
    BY <2>1, <2>2, <2>3, <2>4, <2>5
<1>12. X \in Databases
  BY <1>7, <1>10, <1>11 DEF Databases
<1>13. /\ \A i \in Ids : X.assets[i] = IF i = a.id THEN a ELSE E.assets[i]
       /\ \A i \in Ids : i # a.id => X.revisions[i] = E.revisions[i]
       /\ kept(E, a.id) \union {a.revision} \subseteq kept(X, a.id)
       /\ X.revisions[a.id][a.revision] = a.data
  <2>1. /\ \A i \in Ids : X.assets[i] = IF i = a.id THEN a ELSE E.assets[i]
        /\ \A i \in Ids : i # a.id => X.revisions[i] = E.revisions[i]
    BY <1>3, <1>5, <1>7, <1>10
  <2>2. X.revisions[a.id] = storeRevision(E.revisions[a.id], a, p)
    BY <1>3, <1>5, <1>7, <1>10
  <2>3. \A r \in 1..MaxRevision : X.revisions[a.id][r] =
           IF r = a.revision THEN a.data
           ELSE IF p # None /\ r = p.revision THEN p.data ELSE E.revisions[a.id][r]
    BY <2>2 DEF storeRevision
  <2>4. X.revisions[a.id][a.revision] = a.data
    BY <1>3, <2>3
  <2>5. kept(E, a.id) \union {a.revision} \subseteq kept(X, a.id)
    BY <1>3, <1>4, <2>3 DEF kept
  <2> QED
    BY <2>1, <2>4, <2>5
<1>14. /\ \A k \in Keys : X.keyIndex[k] =
             IF k = a.key THEN a.id
             ELSE IF p # None /\ k = p.key THEN None ELSE E.keyIndex[k]
       /\ \A k \in Keys : X.aliasIndex[k] =
             IF k \in a.aliases THEN a.id ELSE IF k = a.key THEN None
             ELSE IF p # None /\ k \in p.aliases /\ E.aliasIndex[k] = a.id THEN None
             ELSE E.aliasIndex[k]
  BY <1>3, <1>5, <1>7, <1>10
<1>15. \A i \in Ids : X.dependents[i] =
          IF i \in a.dependencies THEN C.dependents[i] \union {a.id} ELSE C.dependents[i]
  BY <1>7, <1>9
<1>16. \A i, j \in Ids : j \in X.dependents[i] <=>
          \/ j = a.id /\ i \in a.dependencies
          \/ j \in E.dependents[i] /\ ~(p # None /\ j = a.id /\ i \in p.dependencies)
  <2>1. TAKE i, j \in Ids
  <2>2. C.dependents[i] =
          IF p # None /\ i \in p.dependencies THEN E.dependents[i] \ {a.id} ELSE E.dependents[i]
    BY <1>5
  <2>3. X.dependents[i] =
          IF i \in a.dependencies THEN C.dependents[i] \union {a.id} ELSE C.dependents[i]
    BY <1>15
  <2> QED
    BY <2>2, <2>3
<1>17. \A f \in 1..MaxData : X.fingerprints[f] =
          IF f = a.fingerprint THEN C.fingerprints[f] \union {a.id} ELSE C.fingerprints[f]
  BY <1>3, <1>7, <1>10
<1>18. \A f \in 1..MaxData : \A j \in Ids : j \in X.fingerprints[f] <=>
          \/ j = a.id /\ f = a.fingerprint
          \/ j \in E.fingerprints[f] /\ ~(p # None /\ j = a.id /\ f = p.fingerprint)
  <2>1. TAKE f \in 1..MaxData
  <2>2. TAKE j \in Ids
  <2>3. C.fingerprints[f] =
          IF p # None /\ f = p.fingerprint THEN E.fingerprints[f] \ {a.id} ELSE E.fingerprints[f]
    BY <1>5
  <2>4. X.fingerprints[f] =
          IF f = a.fingerprint THEN C.fingerprints[f] \union {a.id} ELSE C.fingerprints[f]
    BY <1>17
  <2> QED
    BY <2>3, <2>4
<1>19. X.bindings = E.bindings /\ X.identities = E.identities
  BY <1>5, <1>7
<1> QED
  BY <1>1, <1>6, <1>12, <1>13, <1>14, <1>16, <1>18, <1>19 DEF Committed

-----------------------------------------------------------------------------
\* One commit keeps the indexes in agreement.

\* What DatabaseAgrees says of the maps, of any database.
NamesAgree(D) == \A i \in Ids : D.assets[i] # None => D.assets[i].id = i
\* The keys that asset a claims, and what DatabaseAgrees says of the maps, one by one.
KeysOf(a) == {a.key} \union a.aliases
KeysBound(D) ==
    \A k \in Keys :
        /\ \A i \in Ids : D.keyIndex[k] = i <=> D.assets[i] # None /\ D.assets[i].key = k
        /\ \A i \in Ids : D.aliasIndex[k] = i <=> D.assets[i] # None /\ k \in D.assets[i].aliases
        /\ D.keyIndex[k] = None \/ D.aliasIndex[k] = None
DependentsBound(D) ==
    \A i, j \in Ids : j \in D.dependents[i] <=> D.assets[j] # None /\ i \in D.assets[j].dependencies
FingerprintsBound(D) ==
    \A f \in 1..MaxData : \A j \in Ids :
        j \in D.fingerprints[f] <=> D.assets[j] # None /\ D.assets[j].fingerprint = f
IdentitiesBound(D) ==
    \A s \in Identities, i \in Ids :
        /\ D.bindings[s] = i <=> s \in D.identities[i]
        /\ D.bindings[s] = i => D.assets[i] # None
RevisionsKept(D) ==
    \A i \in Ids : D.assets[i] # None =>
        /\ 1..D.assets[i].revision \subseteq kept(D, i)
        /\ D.revisions[i][D.assets[i].revision] = D.assets[i].data
\* D is a database whose maps are exact.
Agrees(D) ==
    /\ D \in Databases
    /\ NamesAgree(D) /\ KeysBound(D) /\ DependentsBound(D) /\ FingerprintsBound(D)
    /\ IdentitiesBound(D) /\ RevisionsKept(D)

\* An asset may have its keys, is not its own alias and follows its history.
MayCommit(D, a) ==
    /\ a \in Assets /\ a.key \notin a.aliases
    /\ \A k \in KeysOf(a) : boundTo(D, k) \in {None, a.id}
    /\ 1..(a.revision - 1) \subseteq kept(D, a.id)

\* A database leads each key to one asset, or to none.
LEMMA LookupIs ==
    ASSUME None \notin Ids, NEW D \in Databases, KeysBound(D), NEW k \in Keys
    PROVE  /\ boundTo(D, k) \in Ids \union {None}
           /\ \A i \in Ids : boundTo(D, k) = i <=> D.assets[i] # None /\ k \in KeysOf(D.assets[i])
<1>1. D.keyIndex[k] \in Ids \union {None} /\ D.aliasIndex[k] \in Ids \union {None}
  BY DEF Databases
<1>2. /\ \A i \in Ids : D.keyIndex[k] = i <=> D.assets[i] # None /\ D.assets[i].key = k
      /\ \A i \in Ids : D.aliasIndex[k] = i <=> D.assets[i] # None /\ k \in D.assets[i].aliases
      /\ D.keyIndex[k] = None \/ D.aliasIndex[k] = None
  BY DEF KeysBound
<1>3. boundTo(D, k) = IF D.keyIndex[k] # None THEN D.keyIndex[k] ELSE D.aliasIndex[k]
  BY DEF boundTo
<1>4. \A i \in Ids : k \in KeysOf(D.assets[i]) <=> D.assets[i].key = k \/ k \in D.assets[i].aliases
  BY DEF KeysOf
<1>5. \A i \in Ids : i # None
  OBVIOUS
<1> QED
  BY <1>1, <1>2, <1>3, <1>4, <1>5

\* One commit keeps keys and aliases exact.
LEMMA CommitKeys ==
    ASSUME None \notin Ids, None \notin Assets,
           NEW E \in Databases, KeysBound(E), NEW a, MayCommit(E, a), NEW X,
           Committed(E, E.assets[a.id], a, X)
    PROVE  KeysBound(X)
<1>1. PICK p : p = E.assets[a.id]
  OBVIOUS
<1>2. /\ a.id \in Ids /\ a # None /\ a.key \in Keys /\ a.aliases \in SUBSET Keys /\ a.key \notin a.aliases
      /\ \A k \in KeysOf(a) : boundTo(E, k) \in {None, a.id}
  BY DEF MayCommit, Assets
<1>3. SUFFICES ASSUME NEW k \in Keys
      PROVE  /\ \A i \in Ids : X.keyIndex[k] = i <=> X.assets[i] # None /\ X.assets[i].key = k
             /\ \A i \in Ids : X.aliasIndex[k] = i <=> X.assets[i] # None /\ k \in X.assets[i].aliases
             /\ X.keyIndex[k] = None \/ X.aliasIndex[k] = None
  BY DEF KeysBound
<1>4. /\ \A i \in Ids : X.assets[i] = IF i = a.id THEN a ELSE E.assets[i]
      /\ X.keyIndex[k] = IF k = a.key THEN a.id
                         ELSE IF p # None /\ k = p.key THEN None ELSE E.keyIndex[k]
      /\ X.aliasIndex[k] = IF k \in a.aliases THEN a.id ELSE IF k = a.key THEN None
                           ELSE IF p # None /\ k \in p.aliases /\ E.aliasIndex[k] = a.id THEN None
                           ELSE E.aliasIndex[k]
  BY <1>1 DEF Committed
<1>5. /\ \A i \in Ids : E.keyIndex[k] = i <=> E.assets[i] # None /\ E.assets[i].key = k
      /\ \A i \in Ids : E.aliasIndex[k] = i <=> E.assets[i] # None /\ k \in E.assets[i].aliases
      /\ E.keyIndex[k] = None \/ E.aliasIndex[k] = None
      /\ E.keyIndex[k] \in Ids \union {None} /\ E.aliasIndex[k] \in Ids \union {None}
  BY DEF KeysBound, Databases
<1>6. k \in KeysOf(a) => \A i \in Ids : i # a.id => E.keyIndex[k] # i /\ E.aliasIndex[k] # i
  BY <1>2, <1>5 DEF boundTo
<1>7. k \in KeysOf(a) <=> k = a.key \/ k \in a.aliases
  BY DEF KeysOf
<1>8. CASE k \in KeysOf(a)
  <2>1. \A i \in Ids : i # a.id =>
          /\ ~(E.assets[i] # None /\ E.assets[i].key = k)
          /\ ~(E.assets[i] # None /\ k \in E.assets[i].aliases)
    BY <1>5, <1>6, <1>8
  <2>2. CASE k = a.key
    BY <1>2, <1>4, <2>1, <2>2
  <2>3. CASE k \in a.aliases
    <3>1. k # a.key /\ X.aliasIndex[k] = a.id /\ X.keyIndex[k] \in {None, E.keyIndex[k]}
      BY <1>2, <1>4, <2>3
    <3>2. X.keyIndex[k] = None
      BY <1>1, <1>2, <1>4, <1>5, <1>6, <1>8, <3>1
    <3> QED
      BY <1>2, <1>4, <2>1, <2>3, <3>1, <3>2
  <2> QED
    BY <1>7, <1>8, <2>2, <2>3
<1>9. CASE k \notin KeysOf(a)
  <2>1. /\ k # a.key /\ k \notin a.aliases
        /\ X.keyIndex[k] = IF p # None /\ k = p.key THEN None ELSE E.keyIndex[k]
        /\ X.aliasIndex[k] = IF p # None /\ k \in p.aliases /\ E.aliasIndex[k] = a.id THEN None
                             ELSE E.aliasIndex[k]
    BY <1>4, <1>7, <1>9
  <2>2. X.keyIndex[k] = IF E.keyIndex[k] = a.id THEN None ELSE E.keyIndex[k]
    BY <1>1, <1>2, <1>5, <2>1
  <2>3. X.aliasIndex[k] = IF E.aliasIndex[k] = a.id THEN None ELSE E.aliasIndex[k]
    BY <1>1, <1>2, <1>5, <2>1
  <2>4. \A i \in Ids : i # None
    OBVIOUS
  <2>5. ASSUME NEW i \in Ids
        PROVE  /\ X.keyIndex[k] = i <=> X.assets[i] # None /\ X.assets[i].key = k
               /\ X.aliasIndex[k] = i <=> X.assets[i] # None /\ k \in X.assets[i].aliases
    <3>1. CASE i = a.id
      BY <1>2, <1>4, <2>1, <2>2, <2>3, <2>4, <3>1
    <3>2. CASE i # a.id
      BY <1>4, <1>5, <2>2, <2>3, <2>4, <3>2
    <3> QED
      BY <3>1, <3>2
  <2> QED
    BY <1>5, <2>2, <2>3, <2>5
<1> QED
  BY <1>8, <1>9

\* One commit keeps a database that agrees with its assets one that does.
LEMMA CommitAgrees ==
    ASSUME None \notin Ids, None \notin Assets,
           NEW E, Agrees(E), NEW a, MayCommit(E, a), NEW X,
           Committed(E, E.assets[a.id], a, X)
    PROVE  Agrees(X)
<1>1. PICK p : p = E.assets[a.id]
  OBVIOUS
<1>2. /\ a.id \in Ids /\ a # None /\ a.fingerprint \in 1..MaxData /\ a.revision \in 1..MaxRevision
      /\ a.dependencies \in SUBSET Ids /\ 1..(a.revision - 1) \subseteq kept(E, a.id)
  BY DEF MayCommit, Assets
<1>3. X \in Databases /\ \A i \in Ids : X.assets[i] = IF i = a.id THEN a ELSE E.assets[i]
  BY DEF Committed
<1>4. E \in Databases /\ KeysBound(E)
  BY DEF Agrees
<1>5. NamesAgree(X)
  BY <1>3 DEF Agrees, NamesAgree
<1>6. KeysBound(X)
  BY <1>4, CommitKeys
<1>7. DependentsBound(X)
  <2>1. SUFFICES ASSUME NEW i \in Ids, NEW j \in Ids
        PROVE  j \in X.dependents[i] <=> X.assets[j] # None /\ i \in X.assets[j].dependencies
    BY DEF DependentsBound
  <2>2. j \in X.dependents[i] <=>
          \/ j = a.id /\ i \in a.dependencies
          \/ j \in E.dependents[i] /\ ~(p # None /\ j = a.id /\ i \in p.dependencies)
    BY <1>1 DEF Committed
  <2>3. j \in E.dependents[i] <=> E.assets[j] # None /\ i \in E.assets[j].dependencies
    BY DEF Agrees, DependentsBound
  <2> QED
    BY <1>1, <1>2, <1>3, <2>2, <2>3
<1>8. FingerprintsBound(X)
  <2>1. SUFFICES ASSUME NEW f \in 1..MaxData, NEW j \in Ids
        PROVE  j \in X.fingerprints[f] <=> X.assets[j] # None /\ X.assets[j].fingerprint = f
    BY DEF FingerprintsBound
  <2>2. j \in X.fingerprints[f] <=>
          \/ j = a.id /\ f = a.fingerprint
          \/ j \in E.fingerprints[f] /\ ~(p # None /\ j = a.id /\ f = p.fingerprint)
    BY <1>1 DEF Committed
  <2>3. j \in E.fingerprints[f] <=> E.assets[j] # None /\ E.assets[j].fingerprint = f
    BY DEF Agrees, FingerprintsBound
  <2> QED
    BY <1>1, <1>2, <1>3, <2>2, <2>3
<1>9. IdentitiesBound(X)
  <2>1. X.bindings = E.bindings /\ X.identities = E.identities
    BY DEF Committed
  <2> QED
    BY <1>2, <1>3, <2>1 DEF Agrees, IdentitiesBound
<1>10. RevisionsKept(X)
  <2>1. SUFFICES ASSUME NEW i \in Ids, X.assets[i] # None
        PROVE  /\ 1..X.assets[i].revision \subseteq kept(X, i)
               /\ X.revisions[i][X.assets[i].revision] = X.assets[i].data
    BY DEF RevisionsKept
  <2>2. CASE i = a.id
    <3>1. /\ kept(E, a.id) \union {a.revision} \subseteq kept(X, a.id)
          /\ X.revisions[a.id][a.revision] = a.data
      BY DEF Committed
    <3>2. 1..a.revision \subseteq (1..(a.revision - 1)) \union {a.revision}
      BY <1>2
    <3> QED
      BY <1>2, <1>3, <2>2, <3>1, <3>2
  <2>3. CASE i # a.id
    <3>1. X.revisions[i] = E.revisions[i]
      BY <2>3 DEF Committed
    <3> QED
      BY <1>3, <2>1, <2>3, <3>1 DEF Agrees, RevisionsKept, kept
  <2> QED
    BY <2>2, <2>3
<1> QED
  BY <1>3, <1>5, <1>6, <1>7, <1>8, <1>9, <1>10 DEF Agrees

-----------------------------------------------------------------------------
\* A batch of commits.

\* A batch that may be committed: no two of its assets share an id or a key.
Commits(D, A) ==
    /\ A \in Seq(Assets) /\ disjoint(A)
    /\ \A n \in 1..Len(A) : MayCommit(D, A[n])

\* The assets that A replaces keep their keys.
Covers(D, A) ==
    \A n \in 1..Len(A) : LET p == D.assets[A[n].id] IN p # None => KeysOf(p) \subseteq KeysOf(A[n])

\* Key k leads to asset i, which is there.
Leads(D, k, i) == D.assets[i] # None /\ boundTo(D, k) = i

\* The database after the first n commits of the batch.
Reached(D, A, n, E) ==
    /\ Agrees(E)
    /\ \A m \in 1..n : E.assets[A[m].id] = A[m]
    /\ \A i \in Ids : (\A m \in 1..n : A[m].id # i) =>
          E.assets[i] = D.assets[i] /\ E.revisions[i] = D.revisions[i]
    /\ \A m \in (n + 1)..Len(A) : \A k \in KeysOf(A[m]) : boundTo(E, k) \in {None, A[m].id}
    /\ E.bindings = D.bindings /\ E.identities = D.identities
    /\ Covers(D, A) => \A k \in Keys, i \in Ids : Leads(D, k, i) => Leads(E, k, i)

\* A key that the asset does not claim is bound as before, or no longer.
LEMMA OtherKeys ==
    ASSUME None \notin Ids, None \notin Assets,
           NEW E, Agrees(E), NEW a, MayCommit(E, a), NEW X,
           Committed(E, E.assets[a.id], a, X), NEW k \in Keys
    PROVE  /\ boundTo(X, k) \in {None, a.id, boundTo(E, k)}
           /\ boundTo(X, k) = a.id => k \in KeysOf(a)
           /\ \A i \in Ids : i # a.id => (Leads(E, k, i) <=> Leads(X, k, i))
<1>1. Agrees(X) /\ X \in Databases /\ KeysBound(X) /\ E \in Databases /\ KeysBound(E)
  BY CommitAgrees DEF Agrees
<1>2. a.id \in Ids /\ a # None /\ \A i \in Ids : X.assets[i] = IF i = a.id THEN a ELSE E.assets[i]
  BY DEF Committed, MayCommit, Assets
<1>3. /\ boundTo(X, k) \in Ids \union {None}
      /\ \A i \in Ids : boundTo(X, k) = i <=> X.assets[i] # None /\ k \in KeysOf(X.assets[i])
  BY <1>1, LookupIs
<1>4. /\ boundTo(E, k) \in Ids \union {None}
      /\ \A i \in Ids : boundTo(E, k) = i <=> E.assets[i] # None /\ k \in KeysOf(E.assets[i])
  BY <1>1, LookupIs
<1>5. \A i \in Ids : i # a.id => (boundTo(X, k) = i <=> boundTo(E, k) = i)
  BY <1>2, <1>3, <1>4
<1> QED
  BY <1>2, <1>3, <1>4, <1>5 DEF Leads

\* One more commit of the batch.
LEMMA NextCommit ==
    ASSUME None \notin Ids, None \notin Assets,
           NEW D, Agrees(D), NEW A, Commits(D, A), NEW n \in 1..Len(A),
           NEW E, Reached(D, A, n - 1, E), NEW X, X = commitAsset(E, D, A[n])
    PROVE  X \in Databases /\ Reached(D, A, n, X)
<1>1. PICK a : a = A[n]
  OBVIOUS
<1>2. Len(A) \in Nat /\ a \in Assets /\ a.id \in Ids
  BY <1>1, LenProperties, ElementOfSeq DEF Commits, Assets
<1>3. \A m \in 1..Len(A) : m # n =>
        A[m].id # a.id /\ \A k \in KeysOf(A[m]) : k \notin KeysOf(a)
  BY <1>1 DEF Commits, disjoint, KeysOf
<1>4. E.assets[a.id] = D.assets[a.id] /\ E.revisions[a.id] = D.revisions[a.id]
  BY <1>2, <1>3 DEF Reached
<1>5. MayCommit(E, a)
  <2>1. MayCommit(D, a)
    BY <1>1 DEF Commits
  <2>2. n \in ((n - 1) + 1)..Len(A)
    BY <1>2
  <2>3. \A k \in KeysOf(a) : boundTo(E, k) \in {None, a.id}
    BY <1>1, <2>2 DEF Reached
  <2> QED
    BY <1>4, <2>1, <2>3 DEF MayCommit, kept
<1>6. Agrees(E) /\ E \in Databases /\ NamesAgree(E)
  BY DEF Reached, Agrees
<1>7. Committed(E, E.assets[a.id], a, X)
  BY <1>1, <1>2, <1>4, <1>6, CommitAsset DEF NamesAgree
<1>8. Agrees(X) /\ X \in Databases
  BY <1>5, <1>6, <1>7, CommitAgrees DEF Agrees
<1>9. \A i \in Ids : X.assets[i] = IF i = a.id THEN a ELSE E.assets[i]
  BY <1>7 DEF Committed
<1>10. \A m \in 1..n : X.assets[A[m].id] = A[m]
  <2>1. TAKE m \in 1..n
  <2>2. CASE m = n
    BY <1>1, <1>2, <1>9, <2>2
  <2>3. CASE m # n
    <3>1. m \in 1..(n - 1) /\ m \in 1..Len(A)
      BY <1>2, <2>3
    <3>2. A[m] \in Assets /\ A[m].id # a.id
      BY <1>3, <2>3, <3>1, ElementOfSeq DEF Commits
    <3>3. E.assets[A[m].id] = A[m]
      BY <3>1 DEF Reached
    <3>4. A[m].id \in Ids
      BY <3>2 DEF Assets
    <3> QED
      BY <1>9, <3>2, <3>3, <3>4
  <2> QED
    BY <2>2, <2>3
<1>11. \A i \in Ids : (\A m \in 1..n : A[m].id # i) =>
          X.assets[i] = D.assets[i] /\ X.revisions[i] = D.revisions[i]
  <2>1. SUFFICES ASSUME NEW i \in Ids, \A m \in 1..n : A[m].id # i
        PROVE  X.assets[i] = D.assets[i] /\ X.revisions[i] = D.revisions[i]
    OBVIOUS
  <2>2. i # a.id
    BY <1>1, <1>2, <2>1
  <2>3. E.assets[i] = D.assets[i] /\ E.revisions[i] = D.revisions[i]
    BY <1>2, <2>1 DEF Reached
  <2>4. X.revisions[i] = E.revisions[i]
    BY <1>7, <2>2 DEF Committed
  <2> QED
    BY <1>9, <2>2, <2>3, <2>4
<1>12. ASSUME NEW m \in (n + 1)..Len(A), NEW k \in KeysOf(A[m])
       PROVE  boundTo(X, k) \in {None, A[m].id}
  <2>1. m \in ((n - 1) + 1)..Len(A) /\ m \in 1..Len(A) /\ m # n
    BY <1>2
  <2>2. k \notin KeysOf(a) /\ boundTo(E, k) \in {None, A[m].id}
    BY <1>3, <2>1 DEF Reached
  <2>3. k \in Keys
    BY <2>1, ElementOfSeq DEF Commits, Assets, KeysOf
  <2>4. boundTo(X, k) \in {None, a.id, boundTo(E, k)} /\ (boundTo(X, k) = a.id => k \in KeysOf(a))
    BY <1>5, <1>6, <1>7, <2>3, OtherKeys
  <2> QED
    BY <2>2, <2>4
<1>13. X.bindings = D.bindings /\ X.identities = D.identities
  BY <1>7 DEF Committed, Reached
<1>14. ASSUME Covers(D, A), NEW k \in Keys, NEW i \in Ids, Leads(D, k, i)
       PROVE  Leads(X, k, i)
  <2>1. Leads(E, k, i)
    BY <1>14 DEF Reached
  <2>2. CASE i # a.id
    BY <1>5, <1>6, <1>7, <2>1, <2>2, OtherKeys
  <2>3. CASE i = a.id
    <3>1. k \in KeysOf(D.assets[i])
      BY <1>14, LookupIs DEF Agrees, Leads
    <3>2. k \in KeysOf(a)
      BY <1>1, <1>14, <2>3, <3>1 DEF Covers, Leads
    <3>3. X.assets[i] = a /\ a # None
      BY <1>2, <1>9, <2>3
    <3>4. boundTo(X, k) = i
      BY <1>8, <3>2, <3>3, LookupIs DEF Agrees
    <3> QED
      BY <3>3, <3>4 DEF Leads
  <2> QED
    BY <2>2, <2>3
<1> QED
  BY <1>8, <1>10, <1>11, <1>12, <1>13, <1>14 DEF Reached

\* Any sequence of databases that commits the assets one by one.
LEMMA AllReached ==
    ASSUME None \notin Ids, None \notin Assets,
           NEW D, Agrees(D), NEW A, Commits(D, A), NEW g, g[0] = D,
           \A n \in 1..Len(A) : commitAsset(g[n - 1], D, A[n]) \in Databases =>
                                   g[n] = commitAsset(g[n - 1], D, A[n])
    PROVE  /\ \A n \in 0..Len(A) : Reached(D, A, n, g[n])
           /\ \A n \in 1..Len(A) : commitAsset(g[n - 1], D, A[n]) \in Databases
<1> DEFINE P == {n \in 0..Len(A) : Reached(D, A, n, g[n])}
<1>1. Len(A) \in Nat
  BY LenProperties DEF Commits
<1>2. Reached(D, A, 0, D)
  <2>1. \A m \in 1..Len(A) : \A k \in KeysOf(A[m]) : boundTo(D, k) \in {None, A[m].id}
    BY DEF Commits, MayCommit
  <2>2. 1..0 = {} /\ 0 + 1 = 1
    BY <1>1
  <2> QED
    BY <2>1, <2>2 DEF Reached
<1>3. ASSUME NEW n \in 1..Len(A), Reached(D, A, n - 1, g[n - 1])
      PROVE  commitAsset(g[n - 1], D, A[n]) \in Databases /\ Reached(D, A, n, g[n])
  <2>1. PICK X : X = commitAsset(g[n - 1], D, A[n])
    OBVIOUS
  <2>2. X \in Databases /\ Reached(D, A, n, X)
    BY <1>3, <2>1, NextCommit
  <2> QED
    BY <2>1, <2>2
<1>4. 0 \in P
  BY <1>1, <1>2
<1>5. \A n \in 1..Len(A) : n - 1 \in P => n \in P
  BY <1>1, <1>3
<1>6. \A n \in 0..Len(A) : n \in P
  BY <1>1, <1>4, <1>5, CountingUp
<1>7. \A n \in 0..Len(A) : Reached(D, A, n, g[n])
  BY <1>6
<1>8. \A n \in 1..Len(A) : n - 1 \in 0..Len(A)
  BY <1>1
<1> QED
  BY <1>3, <1>7, <1>8

\* A batch leaves a database that agrees with its assets: those of the batch,
\* and the others as they were.
LEMMA CommitAll ==
    ASSUME None \notin Ids, None \notin Assets, NEW D, Agrees(D), NEW A, Commits(D, A)
    PROVE  Reached(D, A, Len(A), commitAll(D, A))
<1>1. Len(A) \in Nat
  BY LenProperties DEF Commits
<1>2. PICK F : F = [n \in 1..Len(A) |-> [E \in Databases |->
                     IF commitAsset(E, D, A[n]) \in Databases THEN commitAsset(E, D, A[n]) ELSE D]]
  OBVIOUS
<1>3. D \in Databases
  BY DEF Agrees
<1>4. F \in [1..Len(A) -> [Databases -> Databases]]
  BY <1>2, <1>3
<1>5. PICK g \in [0..Len(A) -> Databases] :
         g[0] = D /\ \A n \in 1..Len(A) : g[n] = F[n][g[n - 1]]
  BY <1>1, <1>3, <1>4, StepsExist
<1>6. \A n \in 1..Len(A) : g[n - 1] \in Databases /\ n - 1 \in 0..Len(A)
  BY <1>1, <1>5
<1>7. \A n \in 1..Len(A) : commitAsset(g[n - 1], D, A[n]) \in Databases =>
                              g[n] = commitAsset(g[n - 1], D, A[n])
  BY <1>2, <1>5, <1>6
<1>8. \A n \in 1..Len(A) : commitAsset(g[n - 1], D, A[n]) \in Databases
  BY <1>5, <1>7, AllReached
<1> DEFINE Runs(h) == h = [n \in 0..Len(A) |-> IF n = 0 THEN D ELSE commitAsset(h[n - 1], D, A[n])]
<1>9. Runs(g)
  <2>1. \A n \in 0..Len(A) : g[n] = IF n = 0 THEN D ELSE commitAsset(g[n - 1], D, A[n])
    BY <1>1, <1>5, <1>7, <1>8
  <2> QED
    BY <1>5, <2>1
<1>10. PICK after : after = CHOOSE h : Runs(h)
  OBVIOUS
<1>11. Runs(after)
  <2> HIDE DEF Runs
  <2> QED
    BY <1>9, <1>10
<1>12. commitAll(D, A) = after[Len(A)]
  BY <1>10 DEF commitAll
<1>13. /\ after[0] = D
       /\ \A n \in 1..Len(A) : after[n] = commitAsset(after[n - 1], D, A[n])
  <2>1. \A n \in 0..Len(A) : after[n] = IF n = 0 THEN D ELSE commitAsset(after[n - 1], D, A[n])
    BY <1>11
  <2>2. 0 \in 0..Len(A) /\ \A n \in 1..Len(A) : n \in 0..Len(A) /\ n # 0
    BY <1>1
  <2> QED
    BY <2>1, <2>2
<1>14. \A n \in 0..Len(A) : Reached(D, A, n, after[n])
  BY <1>13, AllReached
<1> QED
  BY <1>1, <1>12, <1>14

-----------------------------------------------------------------------------
\* The removal of assets.

\* The cascade of a deletion has what it starts with and all that depends on it.
LEMMA CascadeIsClosed ==
    ASSUME NEW D, NEW S \in SUBSET Live(D)
    PROVE  /\ S \subseteq withDependents(D, S)
           /\ withDependents(D, S) \in SUBSET Live(D)
           /\ hasAllDependents(D, withDependents(D, S))
<1>1. Live(D) \in SUBSET Ids /\ S \in SUBSET Ids
  BY DEF Live
<1>2. S \subseteq withDependents(D, S)
  BY <1>1 DEF withDependents
<1>3. hasAllDependents(D, Live(D))
  BY DEF hasAllDependents
<1>4. withDependents(D, S) \in SUBSET Live(D)
  BY <1>1, <1>3 DEF withDependents
<1>5. ASSUME NEW i \in withDependents(D, S), NEW j \in D.dependents[i] \intersect Live(D)
      PROVE  j \in withDependents(D, S)
  <2>1. j \in Ids
    BY <1>1
  <2>2. ASSUME NEW T \in SUBSET Ids, S \subseteq T, hasAllDependents(D, T) PROVE j \in T
    <3>1. i \in T
      BY <2>2 DEF withDependents
    <3> QED
      BY <2>2, <3>1 DEF hasAllDependents
  <2> QED
    BY <2>1, <2>2 DEF withDependents
<1> QED
  BY <1>2, <1>4, <1>5 DEF hasAllDependents

\* What removeIds makes of D, map by map.
Removed(D, S, X) ==
    /\ X \in Databases
    /\ \A i \in Ids : X.assets[i] = IF i \in S THEN None ELSE D.assets[i]
    /\ \A i \in Ids : X.revisions[i] = IF i \in S THEN NoRevisions ELSE D.revisions[i]
    /\ \A k \in Keys : X.keyIndex[k] =
          IF \E i \in S : D.assets[i].key = k THEN None ELSE D.keyIndex[k]
    /\ \A k \in Keys : X.aliasIndex[k] =
          IF \E i \in S : D.aliasIndex[k] = i /\ k \in D.assets[i].aliases
          THEN None ELSE D.aliasIndex[k]
    /\ \A i, j \in Ids : j \in X.dependents[i] <=>
          i \notin S /\ j \in D.dependents[i] /\ (j \in S => i \notin D.assets[j].dependencies)
    /\ \A f \in 1..MaxData : \A j \in Ids : j \in X.fingerprints[f] <=>
          j \in D.fingerprints[f] /\ (j \in S => D.assets[j].fingerprint # f)
    /\ \A s \in Identities : X.bindings[s] =
          IF \E i \in S : s \in D.identities[i] THEN None ELSE D.bindings[s]
    /\ \A i \in Ids : X.identities[i] = IF i \in S THEN {} ELSE D.identities[i]

\* An asset that is not there has the data of no revision.
LEMMA NoRevisionsTyped == NoRevisions \in RevisionData
BY BoundsAssumption DEF NoRevisions, RevisionData

\* The record that removeIds gives, field by field.
LEMMA RemoveIds ==
    ASSUME NEW D \in Databases, NEW S
    PROVE  Removed(D, S, removeIds(D, S))
<1>1. PICK X : X = removeIds(D, S)
  OBVIOUS
<1>2. /\ D.assets \in [Ids -> Assets \union {None}]
      /\ D.revisions \in [Ids -> RevisionData]
      /\ D.keyIndex \in [Keys -> Ids \union {None}]
      /\ D.aliasIndex \in [Keys -> Ids \union {None}]
      /\ D.dependents \in [Ids -> SUBSET Ids]
      /\ D.fingerprints \in [1..MaxData -> SUBSET Ids]
      /\ D.bindings \in [Identities -> Ids \union {None}]
      /\ D.identities \in [Ids -> SUBSET Identities]
  BY DEF Databases
<1>3. X = [assets |-> [i \in Ids |-> IF i \in S THEN None ELSE D.assets[i]],
           revisions |-> [i \in Ids |-> IF i \in S THEN NoRevisions ELSE D.revisions[i]],
           keyIndex |-> [k \in Keys |->
              IF \E i \in S : D.assets[i].key = k THEN None ELSE D.keyIndex[k]],
           aliasIndex |-> releasedAliases(D, S),
           dependents |-> [i \in Ids |-> IF i \in S THEN {} ELSE
              {j \in D.dependents[i] : j \in S => i \notin D.assets[j].dependencies}],
           fingerprints |-> [f \in 1..MaxData |->
              {i \in D.fingerprints[f] : i \in S => D.assets[i].fingerprint # f}],
           bindings |-> [s \in Identities |->
              IF \E i \in S : s \in D.identities[i] THEN None ELSE D.bindings[s]],
           identities |-> [i \in Ids |-> IF i \in S THEN {} ELSE D.identities[i]]]
  <2>1. D = [assets |-> D.assets, revisions |-> D.revisions, keyIndex |-> D.keyIndex,
             aliasIndex |-> D.aliasIndex, dependents |-> D.dependents,
             fingerprints |-> D.fingerprints, bindings |-> D.bindings, identities |-> D.identities]
    BY DEF Databases
  <2> QED
    BY <1>1, <2>1 DEF removeIds
<1>4. /\ X.assets \in [Ids -> Assets \union {None}]
      /\ X.revisions \in [Ids -> RevisionData]
      /\ \A i \in Ids : X.assets[i] = IF i \in S THEN None ELSE D.assets[i]
      /\ \A i \in Ids : X.revisions[i] = IF i \in S THEN NoRevisions ELSE D.revisions[i]
  BY <1>2, <1>3, NoRevisionsTyped
<1>5. /\ X.keyIndex \in [Keys -> Ids \union {None}]
      /\ \A k \in Keys : X.keyIndex[k] =
            IF \E i \in S : D.assets[i].key = k THEN None ELSE D.keyIndex[k]
  BY <1>2, <1>3
<1>6. /\ X.aliasIndex \in [Keys -> Ids \union {None}]
      /\ \A k \in Keys : X.aliasIndex[k] =
            IF \E i \in S : D.aliasIndex[k] = i /\ k \in D.assets[i].aliases
            THEN None ELSE D.aliasIndex[k]
  BY <1>2, <1>3 DEF releasedAliases
<1>7. /\ X.dependents \in [Ids -> SUBSET Ids]
      /\ \A i, j \in Ids : j \in X.dependents[i] <=>
            i \notin S /\ j \in D.dependents[i] /\ (j \in S => i \notin D.assets[j].dependencies)
  <2>1. \A i \in Ids : D.dependents[i] \in SUBSET Ids
    BY <1>2
  <2> QED
    BY <1>3, <2>1
<1>8. /\ X.fingerprints \in [1..MaxData -> SUBSET Ids]
      /\ \A f \in 1..MaxData : \A j \in Ids : j \in X.fingerprints[f] <=>
            j \in D.fingerprints[f] /\ (j \in S => D.assets[j].fingerprint # f)
  <2>1. \A f \in 1..MaxData : D.fingerprints[f] \in SUBSET Ids
    BY <1>2
  <2> QED
    BY <1>3, <2>1
<1>9. /\ X.bindings \in [Identities -> Ids \union {None}]
      /\ \A s \in Identities : X.bindings[s] =
            IF \E i \in S : s \in D.identities[i] THEN None ELSE D.bindings[s]
  BY <1>2, <1>3
<1>10. /\ X.identities \in [Ids -> SUBSET Identities]
       /\ \A i \in Ids : X.identities[i] = IF i \in S THEN {} ELSE D.identities[i]
  BY <1>2, <1>3
<1>11. X \in Databases
  BY <1>3, <1>4, <1>5, <1>6, <1>7, <1>8, <1>9, <1>10 DEF Databases
<1> QED
  BY <1>1, <1>4, <1>5, <1>6, <1>7, <1>8, <1>9, <1>10, <1>11 DEF Removed

\* A deletion of assets with all that depends on them leaves a database that
\* agrees with the others, under the keys they had.
LEMMA RemoveAgrees ==
    ASSUME None \notin Ids, NEW D, Agrees(D), NEW S \in SUBSET Live(D), hasAllDependents(D, S)
    PROVE  LET X == removeIds(D, S) IN
           /\ Agrees(X)
           /\ \A i \in Ids : X.assets[i] = IF i \in S THEN None ELSE D.assets[i]
           /\ \A k \in Keys, i \in Ids : i \notin S /\ Leads(D, k, i) => Leads(X, k, i)
<1>1. PICK X : X = removeIds(D, S)
  OBVIOUS
<1>2. D \in Databases /\ KeysBound(D)
  BY DEF Agrees
<1>3. Removed(D, S, X)
  BY <1>1, <1>2, RemoveIds
<1>4. X \in Databases /\ \A i \in Ids : X.assets[i] = IF i \in S THEN None ELSE D.assets[i]
  BY <1>3 DEF Removed
<1>5. S \in SUBSET Ids /\ \A i \in S : D.assets[i] # None
  BY DEF Live
<1>6. NamesAgree(X)
  BY <1>4 DEF Agrees, NamesAgree
<1>7. KeysBound(X)
  <2>1. SUFFICES ASSUME NEW k \in Keys
        PROVE  /\ \A i \in Ids : X.keyIndex[k] = i <=> X.assets[i] # None /\ X.assets[i].key = k
               /\ \A i \in Ids : X.aliasIndex[k] = i <=>
                                    X.assets[i] # None /\ k \in X.assets[i].aliases
               /\ X.keyIndex[k] = None \/ X.aliasIndex[k] = None
    BY DEF KeysBound
  <2>2. /\ \A i \in Ids : D.keyIndex[k] = i <=> D.assets[i] # None /\ D.assets[i].key = k
        /\ \A i \in Ids : D.aliasIndex[k] = i <=> D.assets[i] # None /\ k \in D.assets[i].aliases
        /\ D.keyIndex[k] = None \/ D.aliasIndex[k] = None
    BY <1>2 DEF KeysBound
  <2>3. /\ X.keyIndex[k] =
             IF \E i \in S : D.assets[i].key = k THEN None ELSE D.keyIndex[k]
        /\ X.aliasIndex[k] =
             IF \E i \in S : D.aliasIndex[k] = i /\ k \in D.assets[i].aliases
             THEN None ELSE D.aliasIndex[k]
    BY <1>3 DEF Removed
  <2>4. X.keyIndex[k] = IF D.keyIndex[k] \in S THEN None ELSE D.keyIndex[k]
    BY <1>5, <2>2, <2>3
  <2>5. X.aliasIndex[k] = IF D.aliasIndex[k] \in S THEN None ELSE D.aliasIndex[k]
    BY <1>5, <2>2, <2>3
  <2>6. \A i \in Ids : i # None
    OBVIOUS
  <2> QED
    BY <1>4, <1>5, <2>2, <2>4, <2>5, <2>6
<1>8. DependentsBound(X)
  <2>1. SUFFICES ASSUME NEW i \in Ids, NEW j \in Ids
        PROVE  j \in X.dependents[i] <=> X.assets[j] # None /\ i \in X.assets[j].dependencies
    BY DEF DependentsBound
  <2>2. j \in X.dependents[i] <=>
          i \notin S /\ j \in D.dependents[i] /\ (j \in S => i \notin D.assets[j].dependencies)
    BY <1>3 DEF Removed
  <2>3. j \in D.dependents[i] <=> D.assets[j] # None /\ i \in D.assets[j].dependencies
    BY DEF Agrees, DependentsBound
  <2>4. i \in S /\ j \in D.dependents[i] => j \in S
    BY <2>3 DEF hasAllDependents, Live
  <2> QED
    BY <1>4, <2>2, <2>3, <2>4
<1>9. FingerprintsBound(X)
  <2>1. SUFFICES ASSUME NEW f \in 1..MaxData, NEW j \in Ids
        PROVE  j \in X.fingerprints[f] <=> X.assets[j] # None /\ X.assets[j].fingerprint = f
    BY DEF FingerprintsBound
  <2>2. j \in X.fingerprints[f] <=> j \in D.fingerprints[f] /\ (j \in S => D.assets[j].fingerprint # f)
    BY <1>3 DEF Removed
  <2>3. j \in D.fingerprints[f] <=> D.assets[j] # None /\ D.assets[j].fingerprint = f
    BY DEF Agrees, FingerprintsBound
  <2> QED
    BY <1>4, <2>2, <2>3
<1>10. IdentitiesBound(X)
  <2>1. SUFFICES ASSUME NEW s \in Identities, NEW i \in Ids
        PROVE  /\ X.bindings[s] = i <=> s \in X.identities[i]
               /\ X.bindings[s] = i => X.assets[i] # None
    BY DEF IdentitiesBound
  <2>2. \A j \in Ids : /\ D.bindings[s] = j <=> s \in D.identities[j]
                       /\ D.bindings[s] = j => D.assets[j] # None
    BY DEF Agrees, IdentitiesBound
  <2>3. /\ X.bindings[s] = IF \E j \in S : s \in D.identities[j] THEN None ELSE D.bindings[s]
        /\ X.identities[i] = IF i \in S THEN {} ELSE D.identities[i]
    BY <1>3 DEF Removed
  <2>4. X.bindings[s] = IF D.bindings[s] \in S THEN None ELSE D.bindings[s]
    BY <1>5, <2>2, <2>3
  <2>5. i # None
    OBVIOUS
  <2> QED
    BY <1>4, <1>5, <2>2, <2>3, <2>4, <2>5
<1>11. RevisionsKept(X)
  BY <1>3, <1>4 DEF Agrees, RevisionsKept, Removed, kept
<1>12. Agrees(X)
  BY <1>4, <1>6, <1>7, <1>8, <1>9, <1>10, <1>11 DEF Agrees
<1>13. ASSUME NEW k \in Keys, NEW i \in Ids, i \notin S, Leads(D, k, i) PROVE Leads(X, k, i)
  <2>1. D.assets[i] # None /\ k \in KeysOf(D.assets[i])
    BY <1>2, <1>13, LookupIs DEF Leads
  <2>2. X.assets[i] # None /\ k \in KeysOf(X.assets[i])
    BY <1>4, <1>13, <2>1
  <2>3. boundTo(X, k) = i
    BY <1>4, <1>7, <2>2, LookupIs
  <2> QED
    BY <2>2, <2>3 DEF Leads
<1> QED
  BY <1>1, <1>4, <1>12, <1>13

-----------------------------------------------------------------------------
\* Source identities, revisions and snapshots in an empty database.

\* X is D with other bindings of source identities or other revisions.
SameAssets(D, X) ==
    /\ X \in Databases
    /\ X.assets = D.assets /\ X.keyIndex = D.keyIndex /\ X.aliasIndex = D.aliasIndex
    /\ X.dependents = D.dependents /\ X.fingerprints = D.fingerprints

\* A database with the same assets agrees when its identities and its history do.
LEMMA SameAssetsAgree ==
    ASSUME NEW D, Agrees(D), NEW X, SameAssets(D, X), IdentitiesBound(X), RevisionsKept(X)
    PROVE  Agrees(X) /\ \A k \in Keys, i \in Ids : Leads(D, k, i) => Leads(X, k, i)
<1>1. NamesAgree(X)
  BY DEF Agrees, NamesAgree, SameAssets
<1>2. KeysBound(X)
  BY DEF Agrees, KeysBound, SameAssets
<1>3. DependentsBound(X) /\ FingerprintsBound(X)
  BY DEF Agrees, DependentsBound, FingerprintsBound, SameAssets
<1>4. \A k \in Keys, i \in Ids : Leads(D, k, i) => Leads(X, k, i)
  BY DEF Leads, boundTo, SameAssets
<1> QED
  BY <1>1, <1>2, <1>3, <1>4 DEF Agrees, SameAssets

\* The fields of a database, typed.
LEMMA DatabaseFields ==
    ASSUME NEW D \in Databases
    PROVE  /\ D = [assets |-> D.assets, revisions |-> D.revisions, keyIndex |-> D.keyIndex,
                   aliasIndex |-> D.aliasIndex, dependents |-> D.dependents,
                   fingerprints |-> D.fingerprints, bindings |-> D.bindings,
                   identities |-> D.identities]
           /\ D.assets \in [Ids -> Assets \union {None}]
           /\ D.revisions \in [Ids -> RevisionData]
           /\ D.keyIndex \in [Keys -> Ids \union {None}]
           /\ D.aliasIndex \in [Keys -> Ids \union {None}]
           /\ D.dependents \in [Ids -> SUBSET Ids]
           /\ D.fingerprints \in [1..MaxData -> SUBSET Ids]
           /\ D.bindings \in [Identities -> Ids \union {None}]
           /\ D.identities \in [Ids -> SUBSET Identities]
BY DEF Databases

\* A source identity leaves the asset it was bound to.
LEMMA BindAgrees ==
    ASSUME NEW D, Agrees(D), NEW s \in Identities, NEW i \in Ids, D.assets[i] # None
    PROVE  LET X == bind(D, s, i) IN
           /\ Agrees(X) /\ X.assets = D.assets
           /\ \A k \in Keys, j \in Ids : Leads(D, k, j) => Leads(X, k, j)
<1>1. PICK X : X = bind(D, s, i)
  OBVIOUS
<1>2. D \in Databases
  BY DEF Agrees
<1>3. X = [assets |-> D.assets, revisions |-> D.revisions, keyIndex |-> D.keyIndex,
           aliasIndex |-> D.aliasIndex, dependents |-> D.dependents,
           fingerprints |-> D.fingerprints, bindings |-> [D.bindings EXCEPT ![s] = i],
           identities |-> [j \in Ids |-> IF j = i THEN D.identities[j] \union {s}
                                         ELSE D.identities[j] \ {s}]]
  <2>1. D = [assets |-> D.assets, revisions |-> D.revisions, keyIndex |-> D.keyIndex,
             aliasIndex |-> D.aliasIndex, dependents |-> D.dependents,
             fingerprints |-> D.fingerprints, bindings |-> D.bindings,
             identities |-> D.identities]
    BY <1>2, DatabaseFields
  <2> QED
    BY <1>1, <2>1 DEF bind
<1>4. D.bindings \in [Identities -> Ids \union {None}] /\ D.identities \in [Ids -> SUBSET Identities]
  BY <1>2, DatabaseFields
<1>5. /\ X.bindings \in [Identities -> Ids \union {None}]
      /\ \A t \in Identities : X.bindings[t] = IF t = s THEN i ELSE D.bindings[t]
  BY <1>3, <1>4
<1>6. /\ X.identities \in [Ids -> SUBSET Identities]
      /\ \A j \in Ids : \A t \in Identities : t \in X.identities[j] <=>
            IF t = s THEN j = i ELSE t \in D.identities[j]
  <2>1. \A j \in Ids : D.identities[j] \in SUBSET Identities
    BY <1>4
  <2>2. \A j \in Ids : X.identities[j] = IF j = i THEN D.identities[j] \union {s}
                                         ELSE D.identities[j] \ {s}
    BY <1>3
  <2>3. X.identities \in [Ids -> SUBSET Identities]
    BY <1>3, <2>1
  <2> QED
    BY <2>2, <2>3
<1>7. SameAssets(D, X)
  BY <1>2, <1>3, <1>5, <1>6, DatabaseFields DEF SameAssets, Databases
<1>8. IdentitiesBound(X)
  BY <1>3, <1>5, <1>6 DEF Agrees, IdentitiesBound
<1>9. RevisionsKept(X)
  BY <1>3 DEF Agrees, RevisionsKept, kept
<1>10. X.assets = D.assets
  BY <1>3
<1>11. Agrees(X) /\ \A k \in Keys, j \in Ids : Leads(D, k, j) => Leads(X, k, j)
  BY <1>7, <1>8, <1>9, SameAssetsAgree
<1> QED
  BY <1>1, <1>10, <1>11

\* A bound source identity is forgotten in both maps.
LEMMA UnbindAgrees ==
    ASSUME None \notin Ids, NEW D, Agrees(D), NEW s \in Identities, D.bindings[s] # None
    PROVE  LET X == unbind(D, s) IN
           /\ Agrees(X) /\ X.assets = D.assets
           /\ \A k \in Keys, j \in Ids : Leads(D, k, j) => Leads(X, k, j)
<1>1. PICK i, X : i = D.bindings[s] /\ X = unbind(D, s)
  OBVIOUS
<1>2. D \in Databases /\ i \in Ids
  BY <1>1, DatabaseFields DEF Agrees
<1>3. X = [assets |-> D.assets, revisions |-> D.revisions, keyIndex |-> D.keyIndex,
           aliasIndex |-> D.aliasIndex, dependents |-> D.dependents,
           fingerprints |-> D.fingerprints, bindings |-> [D.bindings EXCEPT ![s] = None],
           identities |-> [D.identities EXCEPT ![i] = @ \ {s}]]
  <2>1. D = [assets |-> D.assets, revisions |-> D.revisions, keyIndex |-> D.keyIndex,
             aliasIndex |-> D.aliasIndex, dependents |-> D.dependents,
             fingerprints |-> D.fingerprints, bindings |-> D.bindings,
             identities |-> D.identities]
    BY <1>2, DatabaseFields
  <2>2. X = [D EXCEPT !.bindings[s] = None, !.identities[i] = @ \ {s}]
    BY <1>1 DEF unbind
  <2> QED
    BY <2>1, <2>2
<1>4. D.bindings \in [Identities -> Ids \union {None}] /\ D.identities \in [Ids -> SUBSET Identities]
  BY <1>2, DatabaseFields
<1>5. /\ X.bindings \in [Identities -> Ids \union {None}]
      /\ \A t \in Identities : X.bindings[t] = IF t = s THEN None ELSE D.bindings[t]
  BY <1>3, <1>4
<1>6. /\ X.identities \in [Ids -> SUBSET Identities]
      /\ \A j \in Ids : X.identities[j] = IF j = i THEN D.identities[j] \ {s} ELSE D.identities[j]
  <2>1. D.identities[i] \ {s} \in SUBSET Identities
    BY <1>2, <1>4
  <2>2. X.identities = [D.identities EXCEPT ![i] = D.identities[i] \ {s}]
    BY <1>3
  <2> QED
    BY <1>2, <1>4, <2>1, <2>2
<1>7. SameAssets(D, X)
  BY <1>2, <1>3, <1>5, <1>6, DatabaseFields DEF SameAssets, Databases
<1>8. IdentitiesBound(X)
  <2>1. \A t \in Identities, j \in Ids : /\ D.bindings[t] = j <=> t \in D.identities[j]
                                         /\ D.bindings[t] = j => D.assets[j] # None
    BY DEF Agrees, IdentitiesBound
  <2>2. \A j \in Ids : j # None
    OBVIOUS
  <2> QED
    BY <1>1, <1>3, <1>5, <1>6, <2>1, <2>2 DEF IdentitiesBound
<1>9. RevisionsKept(X)
  BY <1>3 DEF Agrees, RevisionsKept, kept
<1>10. X.assets = D.assets
  BY <1>3
<1>11. Agrees(X) /\ \A k \in Keys, j \in Ids : Leads(D, k, j) => Leads(X, k, j)
  BY <1>7, <1>8, <1>9, SameAssetsAgree
<1> QED
  BY <1>1, <1>10, <1>11

\* The snapshot that was taken, as the database it was taken of.
Snapshots ==
    [assets : [Ids -> Assets \union {None}], history : [Ids -> SUBSET (1..MaxRevision)],
     bindings : [Identities -> Ids \union {None}]]
\* A snapshot that was taken is a database that agrees.
SavedAgrees ==
    saved # None =>
        /\ saved \in Snapshots
        /\ NamesAgree(saved)
        /\ \A i \in Ids : saved.assets[i] # None =>
              /\ saved.assets[i].key \notin saved.assets[i].aliases
              /\ 1..(saved.assets[i].revision - 1) \subseteq saved.history[i]
        /\ \A i, j \in Ids : i # j /\ saved.assets[i] # None /\ saved.assets[j] # None =>
              KeysOf(saved.assets[i]) \intersect KeysOf(saved.assets[j]) = {}
        /\ \A s \in Identities : saved.bindings[s] # None => saved.assets[saved.bindings[s]] # None

\* The identities of the snapshot are bound to assets that are there again.
LEMMA BindAllAgrees ==
    ASSUME None \notin Ids, saved # None, SavedAgrees, NEW D, Agrees(D),
           \A i \in Ids : saved.assets[i] # None => D.assets[i] # None
    PROVE  LET X == bindAll(D) IN
           /\ Agrees(X) /\ X.assets = D.assets
           /\ \A k \in Keys, j \in Ids : Leads(D, k, j) => Leads(X, k, j)
<1>1. PICK X, b : X = bindAll(D) /\ b = saved.bindings
  OBVIOUS
<1>2. D \in Databases
  BY DEF Agrees
<1>3. /\ b \in [Identities -> Ids \union {None}]
      /\ \A s \in Identities : b[s] # None => b[s] \in Ids /\ D.assets[b[s]] # None
  BY <1>1 DEF SavedAgrees, Snapshots
<1>4. X = [assets |-> D.assets, revisions |-> D.revisions, keyIndex |-> D.keyIndex,
           aliasIndex |-> D.aliasIndex, dependents |-> D.dependents,
           fingerprints |-> D.fingerprints,
           bindings |-> [s \in Identities |-> IF b[s] = None THEN D.bindings[s] ELSE b[s]],
           identities |-> [i \in Ids |-> {s \in Identities :
               IF b[s] = None THEN s \in D.identities[i] ELSE b[s] = i}]]
  <2>1. D = [assets |-> D.assets, revisions |-> D.revisions, keyIndex |-> D.keyIndex,
             aliasIndex |-> D.aliasIndex, dependents |-> D.dependents,
             fingerprints |-> D.fingerprints, bindings |-> D.bindings,
             identities |-> D.identities]
    BY <1>2, DatabaseFields
  <2> QED
    BY <1>1, <2>1 DEF bindAll
<1>5. D.bindings \in [Identities -> Ids \union {None}] /\ D.identities \in [Ids -> SUBSET Identities]
  BY <1>2, DatabaseFields
<1>6. /\ X.bindings \in [Identities -> Ids \union {None}]
      /\ \A s \in Identities : X.bindings[s] = IF b[s] = None THEN D.bindings[s] ELSE b[s]
  BY <1>3, <1>4, <1>5
<1>7. /\ X.identities \in [Ids -> SUBSET Identities]
      /\ \A i \in Ids : \A s \in Identities : s \in X.identities[i] <=>
            IF b[s] = None THEN s \in D.identities[i] ELSE b[s] = i
  BY <1>4
<1>8. SameAssets(D, X)
  BY <1>2, <1>4, <1>6, <1>7, DatabaseFields DEF SameAssets, Databases
<1>9. IdentitiesBound(X)
  <2>1. \A t \in Identities, j \in Ids : /\ D.bindings[t] = j <=> t \in D.identities[j]
                                         /\ D.bindings[t] = j => D.assets[j] # None
    BY DEF Agrees, IdentitiesBound
  <2>2. \A t \in Identities, j \in Ids : X.bindings[t] = j => D.assets[j] # None
    BY <1>3, <1>6, <2>1
  <2>3. \A t \in Identities, j \in Ids : X.bindings[t] = j <=> t \in X.identities[j]
    BY <1>6, <1>7, <2>1
  <2> QED
    BY <1>4, <2>2, <2>3 DEF IdentitiesBound
<1>10. RevisionsKept(X)
  BY <1>4 DEF Agrees, RevisionsKept, kept
<1> QED
  BY <1>1, <1>4, <1>8, <1>9, <1>10, SameAssetsAgree

\* Every revision of the history of the snapshot is in the list of them,
LEMMA HistoriesListed ==
    ASSUME IsFiniteSet(Ids), MaxRevision \in Nat, saved # None, SavedAgrees
    PROVE  /\ Len(histories) \in Nat
           /\ \A i \in Ids : saved.history[i] \in SUBSET (1..MaxRevision)
           /\ \A i \in Ids : \A r \in saved.history[i] :
                 \E n \in 1..Len(histories) : histories[n] = <<i, r>>
<1>1. PICK P, H : /\ P = {e \in Ids \X (1..MaxRevision) : e[2] \in saved.history[e[1]]}
                  /\ H = SetToSeq(P)
  OBVIOUS
<1>2. IsFiniteSet(P)
  <2>1. IsFiniteSet(1..MaxRevision)
    BY FS_Interval
  <2>2. IsFiniteSet(Ids \X (1..MaxRevision))
    BY <2>1, FS_Product
  <2>3. P \in SUBSET (Ids \X (1..MaxRevision))
    BY <1>1
  <2> QED
    BY <2>2, <2>3, FS_Subset
<1>3. H \in Seq(P) /\ \A e \in P : \E n \in 1..Len(H) : H[n] = e
  <2>1. /\ SetToSeq(P) \in Seq(P)
        /\ \A e \in P : \E n \in 1..Len(SetToSeq(P)) : SetToSeq(P)[n] = e
    BY <1>2, SetInOrder, Zenon
  <2> QED
    BY <1>1, <2>1, Zenon
<1>4. H = histories
  BY <1>1 DEF histories
<1>5. \A i \in Ids : saved.history[i] \in SUBSET (1..MaxRevision)
  BY DEF SavedAgrees, Snapshots
<1>6. Len(H) \in Nat
  BY <1>3, LenProperties
<1>7. ASSUME NEW i \in Ids, NEW r \in saved.history[i]
      PROVE  \E n \in 1..Len(H) : H[n] = <<i, r>>
  <2>1. r \in 1..MaxRevision
    BY <1>5
  <2>2. <<i, r>> \in P
    BY <1>1, <2>1
  <2> QED
    BY <1>3, <2>2
<1> QED
  BY <1>4, <1>5, <1>6, <1>7

\* and has data of its own that hydrate made.
LEMMA HistoryData ==
    ASSUME IsFiniteSet(Ids), MaxRevision \in Nat, saved # None, SavedAgrees,
           made \in Nat, Len(restored) \in Nat, NEW i \in Ids, NEW r \in saved.history[i]
    PROVE  historyData(i, r) \in
               (made + Len(restored) + 1)..(made + Len(restored) + Len(histories))
<1>1. PICK H, c : H = histories /\ c = Len(restored)
  OBVIOUS
<1>2. Len(H) \in Nat /\ \E n \in 1..Len(H) : H[n] = <<i, r>>
  BY <1>1, HistoriesListed
<1>3. PICK n : n = CHOOSE k \in 1..Len(H) : H[k] = <<i, r>>
  OBVIOUS
<1>4. n \in 1..Len(H)
  BY <1>2, <1>3
<1>5. historyData(i, r) = made + c + n
  BY <1>1, <1>3 DEF historyData
<1> QED
  BY <1>1, <1>2, <1>4, <1>5

\* The history of the snapshot, in a database that has no assets.
LEMMA StageHistory ==
    ASSUME IsFiniteSet(Ids), MaxRevision \in Nat, MaxData \in Nat, saved # None, SavedAgrees,
           made \in Nat, Len(restored) \in Nat, made + Len(restored) + Len(histories) <= MaxData,
           NEW D, Agrees(D), \A i \in Ids : D.assets[i] = None
    PROVE  LET X == stageHistory(D) IN
           /\ Agrees(X) /\ X.assets = D.assets
           /\ \A i \in Ids : saved.history[i] \subseteq kept(X, i)
<1>1. PICK X, h : X = stageHistory(D) /\ h = saved.history
  OBVIOUS
<1>2. D \in Databases
  BY DEF Agrees
<1>3. /\ Len(histories) \in Nat
      /\ \A i \in Ids : h[i] \in SUBSET (1..MaxRevision)
  BY <1>1, HistoriesListed
<1>4. PICK q : q = [i \in Ids |-> [r \in 1..MaxRevision |->
                      IF r \in h[i] THEN historyData(i, r) ELSE 0]]
  OBVIOUS
<1>5. \A i \in Ids : q[i] \in RevisionData /\ \A r \in h[i] : q[i][r] # 0
  <2>1. TAKE i \in Ids
  <2>2. \A r \in h[i] : historyData(i, r) \in
            (made + Len(restored) + 1)..(made + Len(restored) + Len(histories))
    BY <1>1, HistoryData
  <2>3. \A r \in h[i] : historyData(i, r) \in 0..MaxData /\ historyData(i, r) # 0
    BY <1>3, <2>2
  <2>4. q[i] = [r \in 1..MaxRevision |-> IF r \in h[i] THEN historyData(i, r) ELSE 0]
    BY <1>4
  <2>5. q[i] \in RevisionData
    BY <2>3, <2>4 DEF RevisionData
  <2> QED
    BY <1>3, <2>3, <2>4, <2>5
<1>6. X = [assets |-> D.assets,
           revisions |-> [i \in Ids |-> IF h[i] = {} THEN D.revisions[i] ELSE q[i]],
           keyIndex |-> D.keyIndex, aliasIndex |-> D.aliasIndex, dependents |-> D.dependents,
           fingerprints |-> D.fingerprints, bindings |-> D.bindings, identities |-> D.identities]
  <2>1. D = [assets |-> D.assets, revisions |-> D.revisions, keyIndex |-> D.keyIndex,
             aliasIndex |-> D.aliasIndex, dependents |-> D.dependents,
             fingerprints |-> D.fingerprints, bindings |-> D.bindings,
             identities |-> D.identities]
    BY <1>2, DatabaseFields
  <2>2. X = [D EXCEPT !.revisions = [i \in Ids |-> IF h[i] = {} THEN @[i] ELSE
               [r \in 1..MaxRevision |-> IF r \in h[i] THEN historyData(i, r) ELSE 0]]]
    BY <1>1 DEF stageHistory
  <2>3. X = [D EXCEPT !.revisions = [i \in Ids |-> IF h[i] = {} THEN @[i] ELSE q[i]]]
    BY <1>4, <2>2
  <2> QED
    BY <2>1, <2>3
<1>7. D.revisions \in [Ids -> RevisionData]
  BY <1>2, DatabaseFields
<1>8. X.revisions = [i \in Ids |-> IF h[i] = {} THEN D.revisions[i] ELSE q[i]]
  BY <1>6
<1>9. X.revisions \in [Ids -> RevisionData]
  BY <1>5, <1>7, <1>8
<1>10. \A i \in Ids : h[i] \subseteq kept(X, i)
  BY <1>3, <1>5, <1>8 DEF kept
<1>11. SameAssets(D, X)
  BY <1>2, <1>6, <1>9, DatabaseFields DEF SameAssets, Databases
<1>12. IdentitiesBound(X)
  BY <1>6 DEF Agrees, IdentitiesBound
<1>13. RevisionsKept(X)
  BY <1>6 DEF RevisionsKept
<1> QED
  BY <1>1, <1>6, <1>10, <1>11, <1>12, <1>13, SameAssetsAgree

-----------------------------------------------------------------------------
\* Events, pending and applied.

-----------------------------------------------------------------------------
\* The events of the database and what they say of its assets.
Events == [type : {"upsert", "import", "delete"}, id : Ids, revision : 0..MaxRevision]
\* The revision of an asset, 0 when it is not there; the last event that is pending
\* about an asset tells it; a mirror is right about the assets that no event is about.
Rev(D, i) == IF D.assets[i] = None THEN 0 ELSE D.assets[i].revision
EventsFollow(D, events) ==
    \A n \in 1..Len(events) : isLast(events, n) => events[n].revision = Rev(D, events[n].id)
ListenerFollows(D, events, m) == \A i \in Ids : about(events, i) = {} => m[i] = Rev(D, i)

\* X is what ev says of D.
Announces(D, X, ev) ==
    /\ ev \in Seq(Events) /\ EventsFollow(X, ev)
    /\ \A i \in Ids : about(ev, i) = {} => Rev(X, i) = Rev(D, i)

\* An event of two lists is of one of them.
LEMMA AboutBoth ==
    ASSUME NEW pe \in Seq(Events), NEW ev \in Seq(Events)
    PROVE  /\ pe \o ev \in Seq(Events) /\ Len(pe \o ev) = Len(pe) + Len(ev)
           /\ Len(pe) \in Nat /\ Len(ev) \in Nat
           /\ \A n \in 1..Len(pe) : (pe \o ev)[n] = pe[n]
           /\ \A n \in 1..Len(ev) : (pe \o ev)[Len(pe) + n] = ev[n]
           /\ \A i : about(pe \o ev, i) = {} <=> about(pe, i) = {} /\ about(ev, i) = {}
<1>1. PICK s, a, b : s = pe \o ev /\ a = Len(pe) /\ b = Len(ev)
  OBVIOUS
<1>2. s \in Seq(Events) /\ Len(s) = a + b /\ a \in Nat /\ b \in Nat
  BY <1>1, LenProperties, ConcatElements
<1>3. /\ \A n \in 1..a : s[n] = pe[n]
      /\ \A n \in 1..b : s[a + n] = ev[n]
  BY <1>1, <1>2, ConcatProperties
<1>4. ASSUME NEW i, about(s, i) = {} PROVE about(pe, i) = {} /\ about(ev, i) = {}
  <2>1. \A n \in 1..a : n \in 1..(a + b)
    BY <1>2
  <2>2. \A n \in 1..b : a + n \in 1..(a + b)
    BY <1>2
  <2> QED
    BY <1>1, <1>2, <1>3, <1>4, <2>1, <2>2 DEF about
<1>5. ASSUME NEW i, about(pe, i) = {}, about(ev, i) = {} PROVE about(s, i) = {}
  <2>1. SUFFICES ASSUME NEW n \in 1..(a + b), s[n].id = i PROVE FALSE
    BY <1>2 DEF about
  <2>2. CASE n \in 1..a
    BY <1>1, <1>3, <1>5, <2>1, <2>2 DEF about
  <2>3. CASE n \notin 1..a
    <3>1. n - a \in 1..b /\ a + (n - a) = n
      BY <1>2, <2>1, <2>3
    <3>2. s[n] = ev[n - a]
      BY <1>3, <3>1
    <3> QED
      BY <1>1, <1>5, <2>1, <3>1, <3>2 DEF about
  <2> QED
    BY <2>2, <2>3
<1> QED
  BY <1>1, <1>2, <1>3, <1>4, <1>5

\* Events that announce a change are delivered after those that were pending.
LEMMA EmitFollows ==
    ASSUME NEW D, NEW X, NEW pe \in Seq(Events), EventsFollow(D, pe),
           NEW ev, Announces(D, X, ev)
    PROVE  /\ pe \o ev \in Seq(Events) /\ EventsFollow(X, pe \o ev)
           /\ \A m : ListenerFollows(D, pe, m) => ListenerFollows(X, pe \o ev, m)
<1>1. PICK s, a, b : s = pe \o ev /\ a = Len(pe) /\ b = Len(ev)
  OBVIOUS
<1>2. /\ ev \in Seq(Events) /\ EventsFollow(X, ev)
      /\ \A i \in Ids : about(ev, i) = {} => Rev(X, i) = Rev(D, i)
  BY DEF Announces
<1>3. /\ s \in Seq(Events) /\ Len(s) = a + b /\ a \in Nat /\ b \in Nat
      /\ \A n \in 1..a : s[n] = pe[n]
      /\ \A n \in 1..b : s[a + n] = ev[n]
      /\ \A i : about(s, i) = {} <=> about(pe, i) = {} /\ about(ev, i) = {}
  BY <1>1, <1>2, AboutBoth
<1>4. ASSUME NEW n \in 1..Len(s), isLast(s, n) PROVE s[n].revision = Rev(X, s[n].id)
  <2>0. n \in 1..(a + b) /\ s[n] \in Events
    BY <1>3, <1>4, ElementOfSeq
  <2>1. /\ n \in 1..(a + b) /\ s[n].id \in Ids
        /\ \A k \in 1..(a + b) : s[k].id = s[n].id => k <= n
    <3>1. s[n].id \in Ids
      BY <2>0 DEF Events
    <3>2. \A k \in 1..(a + b) : s[k].id = s[n].id => k <= n
      BY <1>3, <1>4 DEF isLast, about
    <3> QED
      BY <2>0, <3>1, <3>2
  <2>2. CASE n \in 1..a
    <3>1. \A k \in 1..b : ev[k].id # s[n].id
      <4>1. \A k \in 1..b : a + k \in 1..(a + b) /\ ~(a + k <= n)
        BY <1>3, <2>2
      <4> QED
        BY <1>3, <2>1, <4>1
    <3>2. about(ev, s[n].id) = {}
      BY <1>1, <3>1 DEF about
    <3>3. \A k \in 1..a : pe[k].id = pe[n].id => k <= n
      <4>1. \A k \in 1..a : k \in 1..(a + b)
        BY <1>3
      <4> QED
        BY <1>3, <2>1, <2>2, <4>1
    <3>4. isLast(pe, n)
      BY <1>1, <3>3 DEF isLast, about
    <3>5. pe[n].revision = Rev(D, pe[n].id)
      BY <1>1, <2>2, <3>4 DEF EventsFollow
    <3> QED
      BY <1>2, <1>3, <2>1, <2>2, <3>2, <3>5
  <2>3. CASE n \notin 1..a
    <3>1. n - a \in 1..b /\ a + (n - a) = n
      BY <1>3, <2>1, <2>3
    <3>2. s[n] = ev[n - a]
      BY <1>3, <3>1
    <3>3. \A k \in 1..b : ev[k].id = ev[n - a].id => k <= n - a
      <4>1. \A k \in 1..b : a + k \in 1..(a + b) /\ (a + k <= n => k <= n - a)
        BY <1>3, <2>1
      <4> QED
        BY <1>3, <2>1, <3>2, <4>1
    <3>4. isLast(ev, n - a)
      BY <1>1, <3>3 DEF isLast, about
    <3> QED
      BY <1>1, <1>2, <3>1, <3>2, <3>4 DEF EventsFollow
  <2> QED
    BY <2>2, <2>3
<1>5. ASSUME NEW m, ListenerFollows(D, pe, m) PROVE ListenerFollows(X, s, m)
  BY <1>2, <1>3, <1>5 DEF ListenerFollows
<1> QED
  BY <1>1, <1>3, <1>4, <1>5 DEF EventsFollow

\* A listener that applies the pending events knows the database.
LEMMA ToldKnows ==
    ASSUME NEW D, NEW pe \in Seq(Events), EventsFollow(D, pe), NEW m, ListenerFollows(D, pe, m)
    PROVE  told(m, pe) = revisionsOf(D)
<1>1. ASSUME NEW i \in Ids
      PROVE  (IF about(pe, i) = {} THEN m[i]
              ELSE pe[CHOOSE n \in about(pe, i) : isLast(pe, n)].revision) = Rev(D, i)
  <2>1. CASE about(pe, i) = {}
    BY <2>1 DEF ListenerFollows
  <2>2. CASE about(pe, i) # {}
    <3>1. Len(pe) \in Nat /\ IsFiniteSet(1..Len(pe))
      BY LenProperties, FS_Interval
    <3>2. PICK P : P = about(pe, i)
      OBVIOUS
    <3>3. P \in SUBSET (1..Len(pe)) /\ P \in SUBSET Nat /\ P # {}
      BY <2>2, <3>1, <3>2 DEF about
    <3>4. IsFiniteSet(P)
      BY <3>1, <3>3, FS_Subset
    <3>5. PICK last \in P : \A k \in P : k <= last
      BY <3>3, <3>4, FirstAndLast
    <3>6. \A n \in P : pe[n].id = i /\ (isLast(pe, n) <=> \A k \in P : k <= n)
      BY <3>2 DEF about, isLast
    <3>7. PICK n : n = CHOOSE k \in P : isLast(pe, k)
      OBVIOUS
    <3>8. n \in P /\ isLast(pe, n)
      BY <3>5, <3>6, <3>7
    <3>9. pe[n].revision = Rev(D, i)
      BY <3>3, <3>6, <3>8 DEF EventsFollow
    <3> QED
      BY <2>2, <3>2, <3>7, <3>9
  <2> QED
    BY <2>1, <2>2
<1> QED
  BY <1>1 DEF told, revisionsOf, Rev

\* The events of a deletion, and of a batch that was committed.
LEMMA DeleteAnnounces ==
    ASSUME NEW S \in SUBSET Ids, IsFiniteSet(Ids), MaxRevision \in Nat, NEW D, NEW X,
           \A i \in Ids : X.assets[i] = IF i \in S THEN None ELSE D.assets[i]
    PROVE  Announces(D, X, deleteEvents(S)) /\ \A i \in S : about(deleteEvents(S), i) # {}
<1>1. PICK order, ev : order = SetToSeq(S) /\ ev = deleteEvents(S)
  OBVIOUS
<1>2. IsFiniteSet(S)
  BY FS_Subset
<1>3. /\ order \in Seq(S) /\ Len(order) \in Nat
      /\ \A i \in S : \E n \in 1..Len(order) : order[n] = i
  <2>0. /\ SetToSeq(S) \in Seq(S)
        /\ \A i \in S : \E n \in 1..Len(SetToSeq(S)) : SetToSeq(S)[n] = i
    BY <1>2, SetInOrder, Zenon
  <2>1. /\ order \in Seq(S)
        /\ \A i \in S : \E n \in 1..Len(order) : order[n] = i
    BY <1>1, <2>0, Zenon
  <2> QED
    BY <2>1, LenProperties
<1>4. ev = [n \in 1..Len(order) |-> [type |-> "delete", id |-> order[n], revision |-> 0]]
  BY <1>1 DEF deleteEvents
<1>5. \A n \in 1..Len(order) : order[n] \in S
  BY <1>3, ElementOfSeq
<1>6. ev \in [1..Len(order) -> Events]
  BY <1>4, <1>5 DEF Events
<1>7. ev \in Seq(Events) /\ Len(ev) = Len(order)
  BY <1>3, <1>6, IsASeq, LenProperties
<1>8. EventsFollow(X, ev)
  BY <1>4, <1>5, <1>7 DEF EventsFollow, Rev
<1>9. \A i \in S : about(ev, i) # {}
  BY <1>3, <1>4, <1>7 DEF about
<1>10. \A i \in Ids : about(ev, i) = {} => Rev(X, i) = Rev(D, i)
  BY <1>9 DEF Rev
<1> QED
  BY <1>1, <1>7, <1>8, <1>9, <1>10 DEF Announces

\* The events of a batch tell the revisions that its assets have now.
LEMMA UpsertAnnounces ==
    ASSUME None \notin Assets, MaxRevision \in Nat, NEW D, NEW A \in Seq(Assets), NEW X,
           \A n \in 1..Len(A) : X.assets[A[n].id] = A[n],
           \A i \in Ids : (\A n \in 1..Len(A) : A[n].id # i) => X.assets[i] = D.assets[i]
    PROVE  /\ Announces(D, X, upsertEvents(A))
           /\ Len(upsertEvents(A)) = Len(A)
           /\ \A n \in 1..Len(A) : about(upsertEvents(A), A[n].id) # {}
<1>1. PICK ev : ev = upsertEvents(A)
  OBVIOUS
<1>2. Len(A) \in Nat /\ \A n \in 1..Len(A) : A[n] \in Assets
  BY LenProperties, ElementOfSeq
<1>3. \A n \in 1..Len(A) : A[n].id \in Ids /\ A[n].revision \in 0..MaxRevision /\ A[n] # None
  BY <1>2 DEF Assets
<1>4. ev = [n \in 1..Len(A) |-> [type |-> "upsert", id |-> A[n].id, revision |-> A[n].revision]]
  BY <1>1 DEF upsertEvents
<1>5. ev \in [1..Len(A) -> Events]
  BY <1>3, <1>4 DEF Events
<1>6. ev \in Seq(Events) /\ Len(ev) = Len(A)
  BY <1>2, <1>5, IsASeq, LenProperties
<1>7. EventsFollow(X, ev)
  BY <1>3, <1>4, <1>6 DEF EventsFollow, Rev
<1>8. \A n \in 1..Len(A) : about(ev, A[n].id) # {}
  BY <1>4, <1>6 DEF about
<1>9. \A i \in Ids : about(ev, i) = {} => Rev(X, i) = Rev(D, i)
  BY <1>8 DEF Rev
<1> QED
  BY <1>1, <1>6, <1>7, <1>8, <1>9 DEF Announces

\* One change announced after another.
LEMMA AnnouncesBoth ==
    ASSUME NEW D, NEW E, NEW X, NEW ev, NEW ew, Announces(D, E, ev), Announces(E, X, ew)
    PROVE  Announces(D, X, ev \o ew)
<1>1. /\ ev \in Seq(Events) /\ EventsFollow(E, ev) /\ ew \in Seq(Events)
      /\ \A i \in Ids : about(ev, i) = {} => Rev(E, i) = Rev(D, i)
      /\ \A i \in Ids : about(ew, i) = {} => Rev(X, i) = Rev(E, i)
  BY DEF Announces
<1>2. ev \o ew \in Seq(Events) /\ EventsFollow(X, ev \o ew)
  BY <1>1, EmitFollows
<1>3. \A i \in Ids : about(ev \o ew, i) = {} => Rev(X, i) = Rev(D, i)
  BY <1>1, AboutBoth
<1> QED
  BY <1>2, <1>3 DEF Announces

-----------------------------------------------------------------------------
\* The data of a write.

\* The writes, as records.
WriteRecords ==
    [id : Ids, key : Keys, aliases : SUBSET Keys, dependencies : SUBSET (Keys \union Ids),
     sameData : BOOLEAN]

\* The data of the writes that bring their own are the next numbers.
OwnData(W) == {m \in 1..Len(W) : ~W[m].sameData}

\* The writes of a batch that bring data get different new numbers, and use them all.
LEMMA NewData ==
    ASSUME NEW W, Len(W) \in Nat, made \in Nat, newData(W, Len(W)) <= MaxData, MaxData \in Nat
    PROVE  /\ newData(W, Len(W)) \in Nat /\ made <= newData(W, Len(W))
           /\ \A n \in OwnData(W) : newData(W, n) \in (made + 1)..newData(W, Len(W))
           /\ \A m, n \in OwnData(W) : newData(W, m) = newData(W, n) => m = n
           /\ \A d \in (made + 1)..newData(W, Len(W)) : \E n \in OwnData(W) : newData(W, n) = d
<1>1. PICK P, c : P = OwnData(W) /\ c = Cardinality(P)
  OBVIOUS
<1>2. /\ P \in SUBSET (1..Len(W)) /\ P \in SUBSET Nat /\ IsFiniteSet(P) /\ c \in Nat
  <2>1. P \in SUBSET (1..Len(W)) /\ IsFiniteSet(1..Len(W))
    BY <1>1, FS_Interval DEF OwnData
  <2>2. IsFiniteSet(P)
    BY <2>1, FS_Subset
  <2> QED
    BY <1>1, <2>1, <2>2, FS_CardinalityType
<1>3. \A n : newData(W, n) = made + UpTo(P, n)
  BY <1>1 DEF newData, OwnData
<1>4. UpTo(P, Len(W)) = c
  <2>1. {j \in P : j <= Len(W)} = P
    <3>1. \A j \in P : j <= Len(W)
      BY <1>2
    <3> QED
      BY <3>1
  <2> QED
    BY <1>1, <2>1 DEF UpTo
<1>5. /\ \A n \in P : UpTo(P, n) \in 1..c
      /\ \A m, n \in P : m < n => UpTo(P, m) < UpTo(P, n)
  BY <1>1, <1>2, RankGrows
<1>6. \A k \in 1..c : Nth(P, k) \in P /\ UpTo(P, Nth(P, k)) = k
  BY <1>1, <1>2, NthIsPlace
<1>7. newData(W, Len(W)) = made + c
  BY <1>3, <1>4
<1>8. ASSUME NEW n \in P PROVE newData(W, n) \in (made + 1)..(made + c)
  BY <1>2, <1>3, <1>5
<1>9. ASSUME NEW m \in P, NEW n \in P, newData(W, m) = newData(W, n) PROVE m = n
  <2>1. UpTo(P, m) = UpTo(P, n) /\ m \in Nat /\ n \in Nat
    BY <1>2, <1>3, <1>5, <1>9
  <2>2. ~(m < n) /\ ~(n < m)
    BY <1>5, <2>1
  <2> QED
    BY <2>1, <2>2
<1>10. ASSUME NEW d \in (made + 1)..(made + c) PROVE \E n \in P : newData(W, n) = d
  <2>1. d - made \in 1..c /\ made + (d - made) = d
    BY <1>2
  <2>2. Nth(P, d - made) \in P /\ UpTo(P, Nth(P, d - made)) = d - made
    BY <1>6, <2>1
  <2> QED
    BY <1>3, <2>1, <2>2
<1> QED
  BY <1>1, <1>2, <1>7, <1>8, <1>9, <1>10

\* A write of a batch that the code accepts, prepared and stored.
LEMMA WriteIsPrepared ==
    ASSUME None \notin Ids, Agrees(db), MaxRevision \in Nat, MaxData \in Nat, made \in Nat,
           NEW W, Len(W) \in Nat, callable(W), NEW n \in 1..Len(W), W[n] \in WriteRecords
    PROVE  LET p == prepared(W)[n] IN
           /\ p.id \in Ids /\ p.key \in Keys /\ p.aliases \in SUBSET Keys /\ p.key \notin p.aliases
           /\ p.data = IF W[n].sameData THEN db.assets[p.id].data ELSE newData(W, n)
           /\ p.data \in 1..MaxData /\ p.fingerprint = p.data
           /\ W[n].sameData => db.assets[p.id] # None
           /\ p.revision \in 1..MaxRevision /\ p.inputs \in SUBSET (Keys \union Ids)
           /\ 1..(p.revision - 1) \subseteq kept(db, p.id)
           /\ db.assets[p.id] # None => KeysOf(db.assets[p.id]) \subseteq {p.key} \union p.aliases
<1>1. PICK w, p, i, q : w = W[n] /\ p = prepared(W)[n] /\ i = writtenId(db, w) /\ q = db.assets[i]
  OBVIOUS
<1>2. /\ w.id \in Ids /\ w.key \in Keys /\ w.aliases \in SUBSET Keys
      /\ w.dependencies \in SUBSET (Keys \union Ids) /\ w.sameData \in BOOLEAN
  BY <1>1 DEF WriteRecords
<1>3. db \in Databases /\ KeysBound(db) /\ NamesAgree(db) /\ RevisionsKept(db)
  BY DEF Agrees
<1>4. i \in Ids
  <2>1. boundTo(db, w.key) \in Ids \union {None}
    BY <1>2, <1>3, LookupIs
  <2> QED
    BY <1>1, <1>2, <2>1 DEF writtenId, resolveByKey
<1>5. q \in Assets \union {None}
  BY <1>1, <1>3, <1>4 DEF Databases
<1>6. PICK data : data = IF w.sameData THEN q.data ELSE newData(W, n)
  OBVIOUS
<1>7. p = [id |-> i, key |-> w.key, data |-> data, fingerprint |-> data,
           aliases |-> (IF q = None THEN w.aliases ELSE w.aliases \union keptAliases(q)) \ {w.key},
           revision |-> IF q = None THEN 1 ELSE q.revision + 1,
           inputs |-> w.dependencies]
  <2>1. p = prepareWrite(db, w, data)
    BY <1>1, <1>6 DEF prepared
  <2> QED
    BY <1>1, <2>1 DEF prepareWrite
<1>8. p.revision <= MaxRevision
  BY <1>1 DEF callable
<1>9. w.sameData => q # None
  BY <1>1 DEF callable
<1>10. data \in 1..MaxData
  <2>1. CASE w.sameData
    BY <1>5, <1>6, <1>9, <2>1 DEF Assets
  <2>2. CASE ~w.sameData
    <3>1. n \in OwnData(W) /\ newData(W, Len(W)) <= MaxData
      BY <1>1, <2>2 DEF OwnData, callable
    <3>2. newData(W, n) \in (made + 1)..newData(W, Len(W)) /\ newData(W, Len(W)) \in Nat
      BY <3>1, NewData
    <3> QED
      BY <1>6, <2>2, <3>1, <3>2
  <2> QED
    BY <2>1, <2>2
<1>11. CASE q = None
  <2>1. /\ p.id = i /\ p.key = w.key /\ p.data = data /\ p.fingerprint = data
        /\ p.inputs = w.dependencies /\ p.aliases = w.aliases \ {w.key} /\ p.revision = 1
    BY <1>7, <1>11
  <2>2. 1 \in 1..MaxRevision /\ 1..(p.revision - 1) = {}
    BY <1>8, <2>1
  <2> QED
    BY <1>1, <1>2, <1>4, <1>6, <1>9, <1>10, <1>11, <2>1, <2>2
<1>12. CASE q # None
  <2>1. /\ q.key \in Keys /\ q.aliases \in SUBSET Keys /\ q.revision \in 1..MaxRevision
        /\ 1..q.revision \subseteq kept(db, i)
    BY <1>1, <1>3, <1>4, <1>5, <1>12 DEF Assets, RevisionsKept
  <2>2. /\ p.revision = q.revision + 1 /\ p.revision - 1 = q.revision
        /\ p.revision \in 1..MaxRevision
    BY <1>7, <1>8, <1>12, <2>1
  <2>3. /\ p.aliases = (w.aliases \union {q.key} \union q.aliases) \ {w.key}
        /\ p.id = i /\ p.key = w.key /\ p.data = data /\ p.fingerprint = data
        /\ p.inputs = w.dependencies
    BY <1>7, <1>12 DEF keptAliases
  <2>4. KeysOf(q) \subseteq {p.key} \union p.aliases
    BY <2>3 DEF KeysOf
  <2> QED
    BY <1>1, <1>2, <1>4, <1>6, <1>9, <1>10, <1>12, <2>1, <2>2, <2>3, <2>4
<1> QED
  BY <1>11, <1>12

-----------------------------------------------------------------------------
\* A batch is what was asked for.

\* A dependency is an asset or a key that leads to one, here or in the batch.
LEMMA DependencyResolves ==
    ASSUME None \notin Ids, NEW D, Agrees(D), NEW P, Len(P) \in Nat,
           \A n \in 1..Len(P) : P[n].id \in Ids, NEW input \in Keys \union Ids
    PROVE  dependencyId(D, P, input) \in Ids \union {None}
<1>1. CASE input \in Ids
  BY <1>1 DEF dependencyId
<1>2. CASE input \notin Ids
  <2>1. PICK H : H = {n \in 1..Len(P) : input \in {P[n].key} \union P[n].aliases}
    OBVIOUS
  <2>2. CASE H = {}
    <3>1. dependencyId(D, P, input) = resolveByKey(D, input)
      BY <1>2, <2>1, <2>2 DEF dependencyId
    <3>2. boundTo(D, input) \in Ids \union {None}
      BY <1>2, LookupIs DEF Agrees
    <3> QED
      BY <3>1, <3>2 DEF resolveByKey
  <2>3. CASE H # {}
    <3>1. IsFiniteSet(1..Len(P)) /\ H \in SUBSET (1..Len(P))
      BY <2>1, FS_Interval
    <3>2. IsFiniteSet(H) /\ H \in SUBSET Nat
      <4>1. IsFiniteSet(H)
        BY <3>1, FS_Subset
      <4> QED
        BY <3>1, <4>1
    <3>3. \E last \in H : \A m \in H : m <= last
      BY <2>3, <3>2, FirstAndLast
    <3>4. PICK l : l = CHOOSE n \in H : \A m \in H : m <= n
      OBVIOUS
    <3>5. l \in H
      BY <3>3, <3>4
    <3>6. dependencyId(D, P, input) = P[l].id
      BY <1>2, <2>1, <2>3, <3>4 DEF dependencyId
    <3> QED
      BY <3>1, <3>5, <3>6
  <2> QED
    BY <2>2, <2>3
<1> QED
  BY <1>1, <1>2

\* The writes of a call that the code accepts.
Accepts(W) ==
    /\ Len(W) \in Nat /\ \A n \in 1..Len(W) : W[n] \in WriteRecords
    /\ callable(W) /\ accepted(W) /\ disjoint(assetsOf(W))

\* What the assumptions on the constants say of None and of the bounds.
Bounds == None \notin Ids /\ None \notin Assets /\ MaxRevision \in Nat /\ MaxData \in Nat

\* They make a batch that may be committed and that keeps the keys of its assets.
LEMMA BatchCommits ==
    ASSUME Bounds, Agrees(db), made \in Nat, NEW W, Accepts(W)
    PROVE  /\ Len(assetsOf(W)) = Len(W)
           /\ Commits(db, assetsOf(W)) /\ Covers(db, assetsOf(W))
           /\ \A n \in 1..Len(W) : LET a == assetsOf(W)[n] IN
                 /\ a.data = IF W[n].sameData THEN db.assets[a.id].data ELSE newData(W, n)
                 /\ W[n].sameData => db.assets[a.id] # None
<1>1. PICK P, A : P = prepared(W) /\ A = assetsOf(W)
  OBVIOUS
<1>2. Len(W) \in Nat /\ callable(W) /\ accepted(W) /\ disjoint(A)
  BY <1>1 DEF Accepts
<1>3. P = [n \in 1..Len(W) |->
           prepareWrite(db, W[n],
               IF W[n].sameData THEN db.assets[writtenId(db, W[n])].data ELSE newData(W, n))]
  BY <1>1 DEF prepared
<1>4. Len(P) = Len(W)
  BY <1>2, <1>3
<1>5. A = [n \in 1..Len(W) |-> stored(db, P, P[n])]
  BY <1>1 DEF assetsOf
<1>6. Len(A) = Len(W)
  BY <1>2, <1>5
<1>7. /\ None \notin Ids /\ None \notin Assets /\ MaxRevision \in Nat /\ MaxData \in Nat
  BY DEF Bounds
<1>8. ASSUME NEW n \in 1..Len(W)
      PROVE  /\ P[n].id \in Ids /\ P[n].key \in Keys /\ P[n].aliases \in SUBSET Keys
             /\ P[n].key \notin P[n].aliases
             /\ P[n].data = IF W[n].sameData THEN db.assets[P[n].id].data ELSE newData(W, n)
             /\ P[n].data \in 1..MaxData /\ P[n].fingerprint = P[n].data
             /\ W[n].sameData => db.assets[P[n].id] # None
             /\ P[n].revision \in 1..MaxRevision /\ P[n].inputs \in SUBSET (Keys \union Ids)
             /\ 1..(P[n].revision - 1) \subseteq kept(db, P[n].id)
             /\ db.assets[P[n].id] # None =>
                   KeysOf(db.assets[P[n].id]) \subseteq {P[n].key} \union P[n].aliases
  <2>1. W[n] \in WriteRecords
    BY DEF Accepts
  <2> QED
    BY <1>1, <1>2, <1>7, <2>1, WriteIsPrepared
<1>9. ASSUME NEW n \in 1..Len(W)
      PROVE  /\ A[n] = [id |-> P[n].id, key |-> P[n].key, aliases |-> P[n].aliases,
                        data |-> P[n].data, fingerprint |-> P[n].fingerprint,
                        revision |-> P[n].revision, dependencies |-> dependencyIds(db, P, P[n])]
             /\ None \notin dependencyIds(db, P, P[n])
             /\ ownsKeys(db, A[n])
  <2>1. A[n] = stored(db, P, P[n])
    BY <1>5
  <2>2. None \notin dependencyIds(db, P, P[n]) /\ ownsKeys(db, stored(db, P, P[n]))
    BY <1>1, <1>2 DEF accepted
  <2> QED
    BY <2>1, <2>2 DEF stored
<1>10. ASSUME NEW n \in 1..Len(W) PROVE dependencyIds(db, P, P[n]) \in SUBSET Ids
  <2>1. \A m \in 1..Len(P) : P[m].id \in Ids
    BY <1>4, <1>8
  <2>2. \A input \in Keys \union Ids : dependencyId(db, P, input) \in Ids \union {None}
    BY <1>2, <1>4, <1>7, <2>1, DependencyResolves
  <2>3. P[n].inputs \in SUBSET (Keys \union Ids)
    BY <1>8
  <2>4. \A input \in P[n].inputs : dependencyId(db, P, input) \in Ids \union {None}
    BY <2>2, <2>3
  <2>5. \A input \in P[n].inputs : dependencyId(db, P, input) # None
    BY <1>9 DEF dependencyIds
  <2> QED
    BY <2>4, <2>5 DEF dependencyIds
<1>11. ASSUME NEW n \in 1..Len(W)
       PROVE  /\ A[n] \in Assets /\ MayCommit(db, A[n])
              /\ A[n].data = IF W[n].sameData THEN db.assets[A[n].id].data ELSE newData(W, n)
              /\ W[n].sameData => db.assets[A[n].id] # None
              /\ db.assets[A[n].id] # None => KeysOf(db.assets[A[n].id]) \subseteq KeysOf(A[n])
  <2>1. PICK a, p, S : a = A[n] /\ p = P[n] /\ S = dependencyIds(db, P, p)
    OBVIOUS
  <2>2. /\ p.id \in Ids /\ p.key \in Keys /\ p.aliases \in SUBSET Keys /\ p.key \notin p.aliases
        /\ p.data \in 1..MaxData /\ p.fingerprint = p.data /\ p.revision \in 1..MaxRevision
    BY <1>8, <2>1
  <2>3. a = [id |-> p.id, key |-> p.key, aliases |-> p.aliases, data |-> p.data,
             fingerprint |-> p.fingerprint, revision |-> p.revision, dependencies |-> S]
    BY <1>9, <2>1
  <2>4. S \in SUBSET Ids
    BY <1>10, <2>1
  <2>5. /\ a.id = p.id /\ a.key = p.key /\ a.aliases = p.aliases /\ a.data = p.data
        /\ a.revision = p.revision
    BY <2>3
  <2>6. a \in Assets
    BY <2>2, <2>3, <2>4 DEF Assets
  <2>7. \A k \in KeysOf(a) : boundTo(db, k) \in {None, a.id}
    BY <1>9, <2>1 DEF ownsKeys, KeysOf
  <2>8. a.key \notin a.aliases /\ 1..(a.revision - 1) \subseteq kept(db, a.id)
    BY <1>8, <2>1, <2>2, <2>5
  <2>9. MayCommit(db, a)
    BY <2>6, <2>7, <2>8 DEF MayCommit
  <2>10. /\ a.data = IF W[n].sameData THEN db.assets[a.id].data ELSE newData(W, n)
         /\ W[n].sameData => db.assets[a.id] # None
         /\ db.assets[a.id] # None => KeysOf(db.assets[a.id]) \subseteq {a.key} \union a.aliases
    BY <1>8, <2>1, <2>5
  <2> QED
    BY <2>1, <2>6, <2>9, <2>10 DEF KeysOf
<1>12. A \in Seq(Assets)
  <2>1. A \in [1..Len(W) -> Assets]
    BY <1>5, <1>11
  <2> QED
    BY <1>2, <2>1, SeqDef
<1>13. Commits(db, A)
  BY <1>2, <1>6, <1>11, <1>12 DEF Commits
<1>14. Covers(db, A)
  BY <1>6, <1>11 DEF Covers
<1> QED
  BY <1>1, <1>6, <1>11, <1>13, <1>14

-----------------------------------------------------------------------------
\* Data and its disposals.

\* The data of a database D, of which m were made, whose disposers ran c times.
Has(D, d) == \E i \in Ids : D.assets[i] # None /\ D.assets[i].data = d
\* No disposer threw. The database D agrees with the m data that were made, of which h were
\* no asset's, and with the calls c of their disposers: data has one asset, is not disposed
\* while it is stored (unless a disposer threw), and is disposed when it is not, once (unless
\* a disposer threw); what was no asset's is not disposed.
NoneThrew(c) == \A d \in FailingData : c[d] = 0
DataAgrees(D, m, c, h) ==
    /\ m \in 0..MaxData /\ c \in [1..MaxData -> 0..2]
    /\ \A d \in 1..MaxData : d > m => c[d] = 0
    /\ \A i \in Ids : D.assets[i] # None => D.assets[i].data \in 1..m
    /\ \A i, j \in Ids : D.assets[i] # None /\ D.assets[j] # None
                            /\ D.assets[i].data = D.assets[j].data => i = j
    /\ NoneThrew(c) => \A i \in Ids : D.assets[i] # None => c[D.assets[i].data] = 0
    /\ h \subseteq 1..m /\ \A d \in h : ~Has(D, d) /\ c[d] = 0
    /\ \A d \in 1..m : d \notin h /\ ~Has(D, d) => c[d] >= 1 /\ (NoneThrew(c) => c[d] = 1)

\* The data of the assets that X has no more, or with other data.
Gone(D, X) ==
    {D.assets[i].data : i \in {j \in Ids : /\ D.assets[j] # None
                                           /\ X.assets[j] = None \/ X.assets[j].data # D.assets[j].data}}

\* In X an asset has the data it had, or some of the new data m + 1 .. m2,
\* which are there once, all but those in g.
DataMoves(D, X, m, m2, g) ==
    /\ m2 \in m..MaxData /\ g \subseteq (m + 1)..m2
    /\ \A i \in Ids : X.assets[i] # None =>
          \/ X.assets[i].data \in (m + 1)..m2
          \/ D.assets[i] # None /\ X.assets[i].data = D.assets[i].data
    /\ \A d \in (m + 1)..m2 : d \in g <=> ~Has(X, d)
    /\ \A i, j \in Ids : X.assets[i] # None /\ X.assets[j] # None
                         /\ X.assets[i].data \in (m + 1)..m2
                         /\ X.assets[i].data = X.assets[j].data => i = j

\* The calls of the disposers, c, after those of the data in S.
Disposed(c, S) == [d \in 1..MaxData |-> IF d \in S /\ c[d] < 2 THEN c[d] + 1 ELSE c[d]]

\* Disposing of S leaves the other data alone and forgets no call.
LEMMA DisposalsGrow ==
    ASSUME FailingData \subseteq 1..MaxData, NEW c \in [1..MaxData -> 0..2], NEW S
    PROVE  /\ Disposed(c, S) \in [1..MaxData -> 0..2]
           /\ \A d \in 1..MaxData :
                 /\ d \notin S => Disposed(c, S)[d] = c[d]
                 /\ d \in S => Disposed(c, S)[d] >= 1 /\ (c[d] = 0 => Disposed(c, S)[d] = 1)
                 /\ c[d] >= 1 => Disposed(c, S)[d] >= 1
                 /\ Disposed(c, S)[d] = 0 => c[d] = 0
           /\ NoneThrew(Disposed(c, S)) => NoneThrew(c) /\ FailingData \intersect S = {}
<1>1. PICK e : e = Disposed(c, S)
  OBVIOUS
<1>2. e = [d \in 1..MaxData |-> IF d \in S /\ c[d] < 2 THEN c[d] + 1 ELSE c[d]]
  BY <1>1 DEF Disposed
<1>3. ASSUME NEW d \in 1..MaxData
      PROVE  /\ e[d] \in 0..2 /\ c[d] \in 0..2
             /\ d \notin S => e[d] = c[d]
             /\ d \in S => e[d] >= 1 /\ (c[d] = 0 => e[d] = 1)
             /\ c[d] >= 1 => e[d] >= 1
             /\ e[d] = 0 => c[d] = 0
  <2>1. e[d] = (IF d \in S /\ c[d] < 2 THEN c[d] + 1 ELSE c[d]) /\ c[d] \in 0..2
    BY <1>2
  <2> QED
    BY <2>1
<1>4. e \in [1..MaxData -> 0..2]
  BY <1>2, <1>3
<1>5. ASSUME NoneThrew(e) PROVE NoneThrew(c) /\ FailingData \intersect S = {}
  <2>1. \A d \in FailingData : d \in 1..MaxData /\ e[d] = 0
    BY <1>5 DEF NoneThrew
  <2>2. \A d \in FailingData : c[d] = 0 /\ d \notin S
    BY <1>3, <2>1
  <2> QED
    BY <2>2 DEF NoneThrew
<1> QED
  BY <1>1, <1>3, <1>4, <1>5

\* The data that is gone is disposed, and no other.
LEMMA DataStep ==
    ASSUME FailingData \subseteq 1..MaxData, MaxData \in Nat,
           NEW D, NEW X, NEW m, NEW m2, NEW c, NEW g, NEW h,
           DataAgrees(D, m, c, h), DataMoves(D, X, m, m2, g)
    PROVE  DataAgrees(X, m2, Disposed(c, Gone(D, X)), h \union g)
<1>1. PICK S, e : S = Gone(D, X) /\ e = Disposed(c, S)
  OBVIOUS
<1>2. /\ m \in 0..MaxData /\ c \in [1..MaxData -> 0..2]
      /\ \A d \in 1..MaxData : d > m => c[d] = 0
      /\ \A i \in Ids : D.assets[i] # None => D.assets[i].data \in 1..m
      /\ \A i, j \in Ids : D.assets[i] # None /\ D.assets[j] # None
                              /\ D.assets[i].data = D.assets[j].data => i = j
      /\ NoneThrew(c) => \A i \in Ids : D.assets[i] # None => c[D.assets[i].data] = 0
      /\ h \subseteq 1..m /\ \A d \in h : ~Has(D, d) /\ c[d] = 0
      /\ \A d \in 1..m : d \notin h /\ ~Has(D, d) => c[d] >= 1 /\ (NoneThrew(c) => c[d] = 1)
  BY DEF DataAgrees
<1>3. /\ m2 \in m..MaxData /\ g \subseteq (m + 1)..m2
      /\ \A i \in Ids : X.assets[i] # None =>
            \/ X.assets[i].data \in (m + 1)..m2
            \/ D.assets[i] # None /\ X.assets[i].data = D.assets[i].data
      /\ \A d \in (m + 1)..m2 : d \in g <=> ~Has(X, d)
      /\ \A i, j \in Ids : X.assets[i] # None /\ X.assets[j] # None
                           /\ X.assets[i].data \in (m + 1)..m2
                           /\ X.assets[i].data = X.assets[j].data => i = j
  BY DEF DataMoves
<1>4. /\ e \in [1..MaxData -> 0..2]
      /\ \A d \in 1..MaxData :
            /\ d \notin S => e[d] = c[d]
            /\ d \in S => e[d] >= 1 /\ (c[d] = 0 => e[d] = 1)
            /\ c[d] >= 1 => e[d] >= 1
      /\ NoneThrew(e) => NoneThrew(c)
  BY <1>1, <1>2, DisposalsGrow
<1>5. \A d : d \in S <=> \E i \in Ids : /\ D.assets[i] # None /\ D.assets[i].data = d
                                        /\ X.assets[i] = None \/ X.assets[i].data # d
  BY <1>1 DEF Gone
<1>6. \A d \in S : d \in 1..m
  BY <1>2, <1>5
<1>7. \A i \in Ids : X.assets[i] # None => X.assets[i].data \in 1..m2
  <2>1. TAKE i \in Ids
  <2>2. HAVE X.assets[i] # None
  <2>3. CASE X.assets[i].data \in (m + 1)..m2
    BY <1>2, <1>3, <2>3
  <2>4. CASE D.assets[i] # None /\ X.assets[i].data = D.assets[i].data
    <3>1. D.assets[i].data \in 1..m
      BY <1>2, <2>4
    <3> QED
      BY <1>2, <1>3, <2>4, <3>1
  <2> QED
    BY <1>3, <2>2, <2>3, <2>4
<1>8. ASSUME NEW i \in Ids, NEW j \in Ids, X.assets[i] # None, X.assets[j] # None,
             X.assets[i].data = X.assets[j].data
      PROVE  i = j
  <2>1. CASE X.assets[i].data \in (m + 1)..m2
    BY <1>3, <1>8, <2>1
  <2>2. CASE X.assets[i].data \notin (m + 1)..m2
    BY <1>2, <1>3, <1>8, <2>2
  <2> QED
    BY <2>1, <2>2
<1>9. ASSUME NoneThrew(e), NEW i \in Ids, X.assets[i] # None PROVE e[X.assets[i].data] = 0
  <2>1. PICK d : d = X.assets[i].data
    OBVIOUS
  <2>2. d \in 1..MaxData
    BY <1>2, <1>3, <1>7, <1>9, <2>1
  <2>3. CASE d \in (m + 1)..m2
    <3>1. d \notin S /\ d > m
      BY <1>2, <1>6, <2>3
    <3> QED
      BY <1>2, <1>4, <2>1, <2>2, <3>1
  <2>4. CASE D.assets[i] # None /\ D.assets[i].data = d
    <3>1. d \notin S
      <4>1. SUFFICES ASSUME NEW j \in Ids, D.assets[j] # None, D.assets[j].data = d,
                            X.assets[j] = None \/ X.assets[j].data # d
            PROVE  FALSE
        BY <1>5
      <4>2. j = i
        BY <1>2, <2>4, <4>1
      <4> QED
        BY <1>9, <2>1, <4>1, <4>2
    <3>2. c[d] = 0
      BY <1>2, <1>4, <1>9, <2>4
    <3> QED
      BY <1>4, <2>1, <2>2, <3>1, <3>2
  <2> QED
    BY <1>3, <1>9, <2>1, <2>3, <2>4
<1>10. ASSUME NEW d \in 1..m2, d \notin h, d \notin g, ~Has(X, d)
       PROVE  e[d] >= 1 /\ (NoneThrew(e) => e[d] = 1)
  <2>1. d \in 1..m /\ d \in 1..MaxData
    <3>1. d \notin (m + 1)..m2
      BY <1>3, <1>10
    <3> QED
      BY <1>2, <1>3, <3>1
  <2>2. CASE Has(D, d)
    <3>1. PICK i \in Ids : D.assets[i] # None /\ D.assets[i].data = d
      BY <2>2 DEF Has
    <3>2. d \in S
      BY <1>5, <1>10, <3>1 DEF Has
    <3>3. NoneThrew(e) => c[d] = 0
      BY <1>2, <1>4, <3>1
    <3> QED
      BY <1>4, <2>1, <3>2, <3>3
  <2>3. CASE ~Has(D, d)
    <3>1. d \notin S
      BY <1>5, <2>3 DEF Has
    <3> QED
      BY <1>2, <1>4, <1>10, <2>1, <2>3, <3>1
  <2> QED
    BY <2>2, <2>3
<1>11. \A d \in 1..MaxData : d > m2 => e[d] = 0
  <2>1. TAKE d \in 1..MaxData
  <2>2. HAVE d > m2
  <2>3. d > m /\ d \notin S
    BY <1>2, <1>3, <1>6, <2>2
  <2> QED
    BY <1>2, <1>4, <2>3
<1>12. m2 \in 0..MaxData
  BY <1>2, <1>3
<1>13. ASSUME NEW d \in h \union g PROVE d \in 1..m2 /\ ~Has(X, d) /\ e[d] = 0
  <2>1. CASE d \in h
    <3>1. d \in 1..m /\ ~Has(D, d) /\ c[d] = 0 /\ d \in 1..m2 /\ d \in 1..MaxData
      BY <1>2, <1>3, <2>1
    <3>2. d \notin S /\ d \notin (m + 1)..m2
      BY <1>2, <1>5, <3>1 DEF Has
    <3>3. ~Has(X, d)
      BY <1>3, <3>1, <3>2 DEF Has
    <3> QED
      BY <1>4, <3>1, <3>2, <3>3
  <2>2. CASE d \in g
    <3>1. d \in (m + 1)..m2 /\ ~Has(X, d)
      BY <1>3, <2>2
    <3>2. d > m /\ d \in 1..MaxData /\ d \in 1..m2
      BY <1>2, <1>3, <3>1
    <3>3. d \notin S
      BY <1>2, <1>6, <3>2
    <3> QED
      BY <1>2, <1>4, <3>1, <3>2, <3>3
  <2> QED
    BY <2>1, <2>2
<1>14. DataAgrees(X, m2, e, h \union g)
  <2>1. \A d \in 1..m2 : d \notin h \union g /\ ~Has(X, d) => e[d] >= 1 /\ (NoneThrew(e) => e[d] = 1)
    BY <1>10
  <2>2. h \union g \subseteq 1..m2 /\ \A d \in h \union g : ~Has(X, d) /\ e[d] = 0
    BY <1>13
  <2> QED
    BY <1>4, <1>7, <1>8, <1>9, <1>11, <1>12, <2>1, <2>2 DEF DataAgrees
<1> QED
  BY <1>1, <1>14

\* When a disposer throws nothing else changes.
LEMMA DataThrow ==
    ASSUME FailingData \subseteq 1..MaxData, MaxData \in Nat,
           NEW D, NEW m, NEW c, NEW h, DataAgrees(D, m, c, h),
           NEW S, S \intersect FailingData # {}, \A d \in S : Has(D, d)
    PROVE  DataAgrees(D, m, Disposed(c, S), h)
<1>1. PICK e : e = Disposed(c, S)
  OBVIOUS
<1>2. /\ m \in 0..MaxData /\ c \in [1..MaxData -> 0..2]
      /\ \A d \in 1..MaxData : d > m => c[d] = 0
      /\ \A i \in Ids : D.assets[i] # None => D.assets[i].data \in 1..m
      /\ \A i, j \in Ids : D.assets[i] # None /\ D.assets[j] # None
                              /\ D.assets[i].data = D.assets[j].data => i = j
      /\ h \subseteq 1..m /\ \A d \in h : ~Has(D, d) /\ c[d] = 0
      /\ \A d \in 1..m : d \notin h /\ ~Has(D, d) => c[d] >= 1
  BY DEF DataAgrees
<1>3. /\ e \in [1..MaxData -> 0..2]
      /\ \A d \in 1..MaxData : (d \notin S => e[d] = c[d]) /\ (c[d] >= 1 => e[d] >= 1)
      /\ ~NoneThrew(e)
  BY <1>1, <1>2, DisposalsGrow
<1>4. \A d \in S : d \in 1..m
  BY <1>2 DEF Has
<1>5. \A d \in 1..MaxData : d > m => e[d] = 0
  <2>1. \A d \in 1..MaxData : d > m => d \notin S
    BY <1>2, <1>4
  <2> QED
    BY <1>2, <1>3, <2>1
<1>6. /\ \A d \in 1..m : d \notin h /\ ~Has(D, d) => e[d] >= 1
      /\ \A d \in h : ~Has(D, d) /\ e[d] = 0
  <2>1. \A d \in 1..m : d \in 1..MaxData
    BY <1>2
  <2>2. \A d \in h : d \in 1..m /\ d \notin S
    BY <1>2
  <2> QED
    BY <1>2, <1>3, <2>1, <2>2
<1>7. DataAgrees(D, m, e, h)
  BY <1>2, <1>3, <1>5, <1>6 DEF DataAgrees
<1> QED
  BY <1>1, <1>7

-----------------------------------------------------------------------------
\* A batch as a whole.

\* What a batch does to the database and to the data of its assets.
LEMMA Batch ==
    ASSUME Bounds, Agrees(db), DataAgrees(db, made, disposals, spare), NEW W, Accepts(W),
           NEW A, A = assetsOf(W), NEW X, X = commitAll(db, A)
    PROVE  /\ Agrees(X) /\ A \in Seq(Assets) /\ Len(A) = Len(W)
           /\ \A n \in 1..Len(A) : X.assets[A[n].id] = A[n]
           /\ \A k \in Keys, i \in Ids : Leads(db, k, i) => Leads(X, k, i)
           /\ Announces(db, X, upsertEvents(A))
           /\ DataMoves(db, X, made, newData(W, Len(W)), {})
           /\ replaced(db, A) = Gone(db, X)
<1>1. None \notin Ids /\ None \notin Assets /\ MaxRevision \in Nat /\ MaxData \in Nat
  BY DEF Bounds
<1>2. /\ made \in 0..MaxData /\ made \in Nat
      /\ \A i \in Ids : db.assets[i] # None => db.assets[i].data \in 1..made
      /\ \A i, j \in Ids : db.assets[i] # None /\ db.assets[j] # None
                              /\ db.assets[i].data = db.assets[j].data => i = j
  BY <1>1 DEF DataAgrees
<1>3. /\ Len(A) = Len(W) /\ Commits(db, A) /\ Covers(db, A)
      /\ \A n \in 1..Len(W) :
            /\ A[n].data = IF W[n].sameData THEN db.assets[A[n].id].data ELSE newData(W, n)
            /\ W[n].sameData => db.assets[A[n].id] # None
  BY <1>2, BatchCommits
<1>4. Len(W) \in Nat /\ newData(W, Len(W)) <= MaxData
  BY DEF Accepts, callable
<1>5. PICK L, m2 : L = Len(W) /\ m2 = newData(W, Len(W))
  OBVIOUS
<1>6. /\ m2 \in Nat /\ made <= m2 /\ m2 <= MaxData /\ L \in Nat
      /\ \A n \in OwnData(W) : newData(W, n) \in (made + 1)..m2
      /\ \A m, n \in OwnData(W) : newData(W, m) = newData(W, n) => m = n
      /\ \A d \in (made + 1)..m2 : \E n \in OwnData(W) : newData(W, n) = d
  BY <1>1, <1>2, <1>4, <1>5, NewData
<1>7. A \in Seq(Assets) /\ Len(A) = L /\ \A n \in 1..L : A[n] \in Assets
  <2>1. A \in Seq(Assets) /\ Len(A) = L
    BY <1>3, <1>5 DEF Commits
  <2> QED
    BY <2>1, ElementOfSeq
<1>8. \A n \in 1..L : A[n].id \in Ids /\ A[n] # None
  BY <1>1, <1>7 DEF Assets
<1>9. \A m, n \in 1..L : A[m].id = A[n].id => m = n
  BY <1>3, <1>5 DEF Commits, disjoint
<1>10. Reached(db, A, L, X)
  BY <1>1, <1>3, <1>5, CommitAll
<1>11. /\ Agrees(X)
       /\ \A n \in 1..L : X.assets[A[n].id] = A[n]
       /\ \A i \in Ids : (\A n \in 1..L : A[n].id # i) => X.assets[i] = db.assets[i]
       /\ \A k \in Keys, i \in Ids : Leads(db, k, i) => Leads(X, k, i)
  BY <1>3, <1>10 DEF Reached
<1>12. Announces(db, X, upsertEvents(A))
  BY <1>1, <1>7, <1>11, UpsertAnnounces
<1>13. \A n \in 1..L :
          \/ n \in OwnData(W) /\ A[n].data = newData(W, n)
          \/ db.assets[A[n].id] # None /\ A[n].data = db.assets[A[n].id].data
  BY <1>3, <1>5 DEF OwnData
<1>14. \A n \in OwnData(W) : n \in 1..L /\ A[n].data = newData(W, n)
  BY <1>3, <1>5 DEF OwnData
<1>15. ASSUME NEW n \in 1..L, A[n].data \in (made + 1)..m2
       PROVE  n \in OwnData(W) /\ A[n].data = newData(W, n)
  <2>1. ~(db.assets[A[n].id] # None /\ A[n].data = db.assets[A[n].id].data)
    BY <1>2, <1>6, <1>8, <1>15
  <2> QED
    BY <1>13, <2>1
<1>16. DataMoves(db, X, made, m2, {})
  <2>1. ASSUME NEW i \in Ids, X.assets[i] # None
        PROVE  \/ X.assets[i].data \in (made + 1)..m2
               \/ db.assets[i] # None /\ X.assets[i].data = db.assets[i].data
    <3>1. CASE \A n \in 1..L : A[n].id # i
      BY <1>11, <2>1, <3>1
    <3>2. ASSUME NEW n \in 1..L, A[n].id = i
          PROVE  \/ X.assets[i].data \in (made + 1)..m2
                 \/ db.assets[i] # None /\ X.assets[i].data = db.assets[i].data
      BY <1>6, <1>11, <1>13, <3>2
    <3> QED
      BY <3>1, <3>2
  <2>2. ASSUME NEW d \in (made + 1)..m2 PROVE Has(X, d)
    <3>1. PICK n \in OwnData(W) : newData(W, n) = d
      BY <1>6
    <3>2. n \in 1..L /\ X.assets[A[n].id] = A[n] /\ A[n].data = d
      BY <1>11, <1>14, <3>1
    <3> QED
      BY <1>8, <3>2 DEF Has
  <2>3. ASSUME NEW i \in Ids, NEW j \in Ids, X.assets[i] # None, X.assets[j] # None,
               X.assets[i].data \in (made + 1)..m2, X.assets[i].data = X.assets[j].data
        PROVE  i = j
    <3>1. ASSUME NEW h \in Ids, X.assets[h] # None, X.assets[h].data \in (made + 1)..m2
          PROVE  \E n \in OwnData(W) : n \in 1..L /\ A[n].id = h /\ X.assets[h].data = newData(W, n)
      <4>1. CASE \A n \in 1..L : A[n].id # h
        <5>1. X.assets[h].data \in 1..made
          BY <1>2, <1>11, <3>1, <4>1
        <5> QED
          BY <1>2, <1>6, <3>1, <5>1
      <4>2. ASSUME NEW n \in 1..L, A[n].id = h
            PROVE  \E k \in OwnData(W) : k \in 1..L /\ A[k].id = h /\ X.assets[h].data = newData(W, k)
        <5>1. X.assets[h] = A[n]
          BY <1>11, <4>2
        <5>2. n \in OwnData(W) /\ A[n].data = newData(W, n)
          BY <1>15, <3>1, <5>1
        <5> QED
          BY <4>2, <5>1, <5>2
      <4> QED
        BY <4>1, <4>2
    <3>2. PICK n \in OwnData(W) : A[n].id = i /\ X.assets[i].data = newData(W, n)
      BY <2>3, <3>1
    <3>3. PICK m \in OwnData(W) : A[m].id = j /\ X.assets[j].data = newData(W, m)
      BY <2>3, <3>1
    <3>4. newData(W, m) = newData(W, n)
      BY <2>3, <3>2, <3>3
    <3>5. m = n
      BY <1>6, <3>2, <3>3, <3>4, Zenon
    <3> QED
      BY <3>2, <3>3, <3>5
  <2>4. m2 \in made..MaxData
    BY <1>1, <1>2, <1>6
  <2>5. \A i \in Ids : X.assets[i] # None =>
           \/ X.assets[i].data \in (made + 1)..m2
           \/ db.assets[i] # None /\ X.assets[i].data = db.assets[i].data
    BY <2>1
  <2>6. /\ {} \subseteq (made + 1)..m2
        /\ \A d \in (made + 1)..m2 : d \in {} <=> ~Has(X, d)
    BY <2>2
  <2>7. \A i, j \in Ids : X.assets[i] # None /\ X.assets[j] # None
                          /\ X.assets[i].data \in (made + 1)..m2
                          /\ X.assets[i].data = X.assets[j].data => i = j
    BY <2>3
  <2> QED
    BY <2>4, <2>5, <2>6, <2>7, Zenon DEF DataMoves
<1>17. replaced(db, A) = Gone(db, X)
  <2>1. \A d : d \in replaced(db, A) <=>
          \E n \in 1..L : /\ db.assets[A[n].id] # None /\ db.assets[A[n].id].data # A[n].data
                          /\ db.assets[A[n].id].data = d
    BY <1>7 DEF replaced
  <2>2. \A d : d \in Gone(db, X) <=>
          \E i \in Ids : /\ db.assets[i] # None /\ db.assets[i].data = d
                         /\ X.assets[i] = None \/ X.assets[i].data # db.assets[i].data
    BY DEF Gone
  <2>3. ASSUME NEW d \in replaced(db, A) PROVE d \in Gone(db, X)
    <3>1. PICK n \in 1..L : /\ db.assets[A[n].id] # None /\ db.assets[A[n].id].data # A[n].data
                            /\ db.assets[A[n].id].data = d
      BY <2>1
    <3> QED
      BY <1>8, <1>11, <2>2, <3>1
  <2>4. ASSUME NEW d \in Gone(db, X) PROVE d \in replaced(db, A)
    <3>1. PICK i \in Ids : /\ db.assets[i] # None /\ db.assets[i].data = d
                           /\ X.assets[i] = None \/ X.assets[i].data # db.assets[i].data
      BY <2>2
    <3>2. PICK n \in 1..L : A[n].id = i
      BY <1>11, <3>1
    <3> QED
      BY <1>8, <1>11, <2>1, <3>1, <3>2
  <2> QED
    BY <2>3, <2>4
<1> QED
  BY <1>3, <1>5, <1>7, <1>11, <1>12, <1>16, <1>17

-----------------------------------------------------------------------------
\* Changes, announced.

\* What is pending says how the assets are now, to a listener that mirrors them.
EventsAgree(D, events, mirrors, m) ==
    /\ events \in Seq(Events) /\ EventsFollow(D, events)
    /\ m \in [Ids -> 0..MaxRevision]
    /\ mirrors => ListenerFollows(D, events, m)

\* Keys that led to an asset still do, when it is there.
KeepsKeys(D, X) ==
    \A k \in Keys, i \in Ids : Leads(D, k, i) /\ X.assets[i] # None => boundTo(X, k) = i

\* A deletion of assets with all that depends on them.
LEMMA Deletion ==
    ASSUME Bounds, IsFiniteSet(Ids), Agrees(db), DataAgrees(db, made, disposals, spare),
           NEW S \in SUBSET Live(db), hasAllDependents(db, S), NEW X, X = removeIds(db, S)
    PROVE  /\ Agrees(X) /\ \A i \in Ids : X.assets[i] = IF i \in S THEN None ELSE db.assets[i]
           /\ KeepsKeys(db, X)
           /\ Announces(db, X, deleteEvents(S))
           /\ DataMoves(db, X, made, made, {})
           /\ dataOf(S) = Gone(db, X)
<1>1. None \notin Ids /\ MaxRevision \in Nat /\ MaxData \in Nat
  BY DEF Bounds
<1>2. S \in SUBSET Ids /\ \A i \in S : db.assets[i] # None
  BY DEF Live
<1>3. /\ Agrees(X) /\ \A i \in Ids : X.assets[i] = IF i \in S THEN None ELSE db.assets[i]
      /\ \A k \in Keys, i \in Ids : i \notin S /\ Leads(db, k, i) => Leads(X, k, i)
  BY <1>1, RemoveAgrees
<1>4. KeepsKeys(db, X)
  BY <1>3 DEF KeepsKeys, Leads
<1>5. Announces(db, X, deleteEvents(S))
  BY <1>1, <1>2, <1>3, DeleteAnnounces
<1>6. /\ made \in 0..MaxData
      /\ \A i \in Ids : db.assets[i] # None => db.assets[i].data \in 1..made
  BY DEF DataAgrees
<1>7. DataMoves(db, X, made, made, {})
  <2>1. made \in made..MaxData /\ (made + 1)..made = {}
    BY <1>1, <1>6
  <2> QED
    BY <1>3, <2>1 DEF DataMoves
<1>8. dataOf(S) = Gone(db, X)
  BY <1>2, <1>3 DEF dataOf, Gone
<1> QED
  BY <1>3, <1>4, <1>5, <1>7, <1>8

\* A change of the database, announced, with the data that is gone disposed.
LEMMA Change ==
    ASSUME Bounds, FailingData \subseteq 1..MaxData, DataAgrees(db, made, disposals, spare),
           EventsAgree(db, pendingEvents, listening, mirror),
           NEW X, NEW ev, Announces(db, X, ev), NEW g, DataMoves(db, X, made, made', g),
           NEW S, S = Gone(db, X), runDisposers(S), emit(ev)
    PROVE  /\ DataAgrees(X, made', disposals', spare \union g)
           /\ EventsAgree(X, pendingEvents', listening', mirror')
<1>1. DataAgrees(X, made', Disposed(disposals, Gone(db, X)), spare \union g)
  BY DataStep DEF Bounds
<1>2. disposals' = Disposed(disposals, S)
  BY DEF runDisposers, Disposed
<1>3. pendingEvents' = pendingEvents \o ev /\ listening' = listening /\ mirror' = mirror
  BY DEF emit
<1>4. pendingEvents \in Seq(Events) /\ EventsFollow(db, pendingEvents)
  BY DEF EventsAgree
<1>5. /\ pendingEvents \o ev \in Seq(Events) /\ EventsFollow(X, pendingEvents \o ev)
      /\ \A m : ListenerFollows(db, pendingEvents, m) => ListenerFollows(X, pendingEvents \o ev, m)
  BY <1>4, EmitFollows
<1>6. EventsAgree(X, pendingEvents', listening', mirror')
  BY <1>3, <1>5 DEF EventsAgree
<1> QED
  BY <1>1, <1>2, <1>6

\* A call in which a disposer throws.
LEMMA Throw ==
    ASSUME Bounds, FailingData \subseteq 1..MaxData, DataAgrees(db, made, disposals, spare),
           NEW X, NEW S, S \subseteq Gone(db, X), S \intersect FailingData # {}, runDisposers(S)
    PROVE  DataAgrees(db, made, disposals', spare)
<1>1. \A d \in S : Has(db, d)
  BY DEF Gone, Has
<1>2. disposals' = Disposed(disposals, S)
  BY DEF runDisposers, Disposed
<1> QED
  BY <1>1, <1>2, DataThrow DEF Bounds

\* When no disposer is called.
LEMMA NoneDisposed ==
    ASSUME DataAgrees(db, made, disposals, spare), runDisposers({})
    PROVE  disposals' = disposals
<1>1. disposals \in [1..MaxData -> 0..2]
  BY DEF DataAgrees
<1> QED
  BY <1>1 DEF runDisposers

\* The snapshot in an empty database: nothing is in its way.
LEMMA RestoreFits ==
    ASSUME Bounds, IsFiniteSet(Ids), saved # None, SavedAgrees, made \in Nat,
           made + Len(restored) + Len(histories) <= MaxData,
           NEW D, Agrees(D), \A i \in Ids : D.assets[i] = None
    PROVE  /\ restored \in Seq(Assets) /\ Len(restored) \in Nat
           /\ \A n \in 1..Len(restored) : \E i \in Live(saved) :
                 /\ restored[n].id = i /\ restored[n].data = made + n
                 /\ restored[n].dependencies = saved.assets[i].dependencies
           /\ \A i \in Live(saved) : \E n \in 1..Len(restored) : restored[n].id = i
           /\ \A n \in 1..Len(restored) : ownsKeys(D, restored[n])
           /\ replaced(D, restored) = {}
           /\ Commits(stageHistory(D), restored)
<1>1. None \notin Ids /\ None \notin Assets /\ MaxRevision \in Nat /\ MaxData \in Nat
  BY DEF Bounds
<1>2. PICK order, A, c : order = SetToSeq(Live(saved)) /\ A = restored /\ c = Len(order)
  OBVIOUS
<1>3. IsFiniteSet(Live(saved)) /\ Live(saved) \in SUBSET Ids
  <2>1. Live(saved) \in SUBSET Ids
    BY DEF Live
  <2> QED
    BY <2>1, FS_Subset
<1>4. /\ order \in Seq(Live(saved))
      /\ \A i \in Live(saved) : \E n \in 1..Len(order) : order[n] = i
      /\ \A m, n \in 1..Len(order) : order[m] = order[n] => m = n
  <2>1. /\ SetToSeq(Live(saved)) \in Seq(Live(saved))
        /\ \A i \in Live(saved) : \E n \in 1..Len(SetToSeq(Live(saved))) : SetToSeq(Live(saved))[n] = i
        /\ \A m, n \in 1..Len(SetToSeq(Live(saved))) :
              SetToSeq(Live(saved))[m] = SetToSeq(Live(saved))[n] => m = n
    BY <1>3, SetInOrder, Zenon
  <2> QED
    BY <1>2, <2>1, Zenon
<1>5. c \in Nat /\ \A n \in 1..c : order[n] \in Live(saved)
  <2>1. c \in Nat
    BY <1>2, <1>4, LenProperties
  <2>2. \A n \in 1..Len(order) : order[n] \in Live(saved)
    BY <1>4, ElementOfSeq
  <2> QED
    BY <1>2, <2>1, <2>2
<1>6. A = [n \in 1..c |-> [saved.assets[order[n]] EXCEPT !.data = made + n]]
  BY <1>2 DEF restored
<1>7. Len(A) = c /\ made + c <= MaxData
  <2>1. Len(A) = c
    BY <1>5, <1>6
  <2>2. Len(histories) \in Nat
    BY <1>1, HistoriesListed
  <2> QED
    BY <1>1, <1>2, <1>5, <2>1, <2>2
<1>8. /\ saved \in Snapshots /\ NamesAgree(saved)
      /\ \A i \in Ids : saved.assets[i] # None =>
            /\ saved.assets[i].key \notin saved.assets[i].aliases
            /\ 1..(saved.assets[i].revision - 1) \subseteq saved.history[i]
      /\ \A i, j \in Ids : i # j /\ saved.assets[i] # None /\ saved.assets[j] # None =>
            KeysOf(saved.assets[i]) \intersect KeysOf(saved.assets[j]) = {}
  BY DEF SavedAgrees
<1>9. ASSUME NEW n \in 1..c
      PROVE  LET s == saved.assets[order[n]] IN
             /\ order[n] \in Ids /\ s # None /\ A[n] \in Assets
             /\ A[n].id = order[n] /\ s.id = order[n] /\ A[n].data = made + n
             /\ A[n].key = s.key /\ A[n].aliases = s.aliases /\ A[n].revision = s.revision
             /\ A[n].dependencies = s.dependencies
  <2>1. PICK s, i : i = order[n] /\ s = saved.assets[i]
    OBVIOUS
  <2>2. i \in Ids /\ s # None
    BY <1>5, <2>1 DEF Live
  <2>3. s \in Assets /\ s.id = i
    BY <1>8, <2>1, <2>2 DEF Snapshots, NamesAgree
  <2>4. A[n] = [s EXCEPT !.data = made + n]
    BY <1>6, <2>1
  <2>5. made + n \in 1..MaxData
    BY <1>1, <1>5, <1>7
  <2>6. /\ A[n] \in Assets /\ A[n].id = s.id /\ A[n].data = made + n
        /\ A[n].key = s.key /\ A[n].aliases = s.aliases /\ A[n].revision = s.revision
        /\ A[n].dependencies = s.dependencies
    BY <2>3, <2>4, <2>5 DEF Assets
  <2> QED
    BY <2>1, <2>2, <2>3, <2>6
<1>10. A \in Seq(Assets)
  <2>1. A \in [1..c -> Assets]
    BY <1>6, <1>9
  <2> QED
    BY <1>5, <2>1, SeqDef
<1>11. \A n \in 1..c : \E i \in Live(saved) :
          A[n].id = i /\ A[n].data = made + n /\ A[n].dependencies = saved.assets[i].dependencies
  BY <1>5, <1>9
<1>12. \A i \in Live(saved) : \E n \in 1..c : A[n].id = i
  BY <1>2, <1>4, <1>9
<1>13. \A k \in Keys : boundTo(D, k) = None
  <2>1. \A k \in Keys : /\ boundTo(D, k) \in Ids \union {None}
                        /\ \A i \in Ids : boundTo(D, k) = i =>
                              D.assets[i] # None /\ k \in KeysOf(D.assets[i])
    BY <1>1, LookupIs DEF Agrees
  <2> QED
    BY <2>1
<1>14. \A n \in 1..c : \A k \in {A[n].key} \union A[n].aliases : k \in Keys
  BY <1>9 DEF Assets
<1>15. \A n \in 1..c : ownsKeys(D, A[n])
  BY <1>13, <1>14 DEF ownsKeys
<1>16. replaced(D, A) = {}
  <2>1. \A n \in 1..c : D.assets[A[n].id] = None
    BY <1>9
  <2> QED
    BY <1>7, <2>1 DEF replaced
<1>17. PICK S : S = stageHistory(D)
  OBVIOUS
<1>18. /\ Agrees(S) /\ S.assets = D.assets
       /\ \A i \in Ids : saved.history[i] \subseteq kept(S, i)
  BY <1>1, <1>2, <1>5, <1>7, <1>17, StageHistory
<1>19. \A k \in Keys : boundTo(S, k) = None
  <2>1. \A k \in Keys : /\ boundTo(S, k) \in Ids \union {None}
                        /\ \A i \in Ids : boundTo(S, k) = i =>
                              S.assets[i] # None /\ k \in KeysOf(S.assets[i])
    BY <1>1, <1>18, LookupIs DEF Agrees
  <2> QED
    BY <1>18, <2>1
<1>20. ASSUME NEW n \in 1..c PROVE MayCommit(S, A[n])
  <2>1. A[n] \in Assets /\ A[n].key \notin A[n].aliases
    BY <1>8, <1>9
  <2>2. \A k \in KeysOf(A[n]) : boundTo(S, k) = None
    BY <1>14, <1>19 DEF KeysOf
  <2>3. 1..(A[n].revision - 1) \subseteq kept(S, A[n].id)
    BY <1>8, <1>9, <1>18
  <2> QED
    BY <2>1, <2>2, <2>3 DEF MayCommit
<1>21. disjoint(A)
  <2>1. ASSUME NEW m \in 1..c, NEW n \in 1..c, m # n
        PROVE  /\ A[m].id # A[n].id
               /\ KeysOf(A[m]) \intersect KeysOf(A[n]) = {}
    <3>1. order[m] # order[n]
      BY <1>2, <1>4, <2>1
    <3>2. KeysOf(saved.assets[order[m]]) \intersect KeysOf(saved.assets[order[n]]) = {}
      BY <1>8, <1>9, <3>1
    <3>3. /\ KeysOf(A[m]) = KeysOf(saved.assets[order[m]])
          /\ KeysOf(A[n]) = KeysOf(saved.assets[order[n]])
      BY <1>9 DEF KeysOf
    <3> QED
      BY <1>9, <3>1, <3>2, <3>3
  <2> QED
    BY <1>7, <2>1 DEF disjoint, KeysOf
<1>22. Commits(S, A)
  BY <1>7, <1>10, <1>20, <1>21 DEF Commits
<1> QED
  BY <1>2, <1>5, <1>7, <1>10, <1>11, <1>12, <1>15, <1>16, <1>17, <1>22

-----------------------------------------------------------------------------
\* Restoring a snapshot.

\* What is announced and moved depends on the assets only.
LEMMA SameAssetsSame ==
    ASSUME NEW D, NEW X, NEW Y, Y.assets = X.assets
    PROVE  /\ \A ev : Announces(D, X, ev) => Announces(D, Y, ev)
           /\ \A m, m2, g : DataMoves(D, X, m, m2, g) => DataMoves(D, Y, m, m2, g)
           /\ Gone(D, Y) = Gone(D, X)
<1>1. \A i \in Ids : Rev(Y, i) = Rev(X, i)
  BY DEF Rev
<1>2. ASSUME NEW ev, Announces(D, X, ev) PROVE Announces(D, Y, ev)
  <2>1. /\ ev \in Seq(Events) /\ EventsFollow(X, ev)
        /\ \A i \in Ids : about(ev, i) = {} => Rev(X, i) = Rev(D, i)
    BY <1>2 DEF Announces
  <2>2. \A n \in 1..Len(ev) : ev[n].id \in Ids
    <3>1. \A n \in 1..Len(ev) : ev[n] \in Events
      BY <2>1, ElementOfSeq
    <3> QED
      BY <3>1 DEF Events
  <2>3. EventsFollow(Y, ev)
    BY <1>1, <2>1, <2>2 DEF EventsFollow
  <2> QED
    BY <1>1, <2>1, <2>3 DEF Announces
<1>3. \A m, m2, g : DataMoves(D, X, m, m2, g) => DataMoves(D, Y, m, m2, g)
  BY DEF DataMoves, Has
<1>4. Gone(D, Y) = Gone(D, X)
  BY DEF Gone
<1> QED
  BY <1>2, <1>3, <1>4

\* The database after everything was deleted and the history staged.
Staged == stageHistory(removeIds(db, Live(db)))

\* After everything was deleted nothing is there, every deletion is announced and no data moved.
LEMMA Cleared ==
    ASSUME Bounds, IsFiniteSet(Ids), Agrees(db), DataAgrees(db, made, disposals, spare),
           NEW D, D = removeIds(db, Live(db))
    PROVE  /\ Agrees(D) /\ \A i \in Ids : D.assets[i] = None
           /\ Announces(db, D, deleteEvents(Live(db)))
           /\ DataMoves(db, D, made, made, {})
           /\ dataOf(Live(db)) = Gone(db, D)
<1>1. Live(db) \in SUBSET Live(db) /\ hasAllDependents(db, Live(db))
  BY DEF hasAllDependents
<1>2. /\ Agrees(D) /\ \A i \in Ids : D.assets[i] = IF i \in Live(db) THEN None ELSE db.assets[i]
      /\ Announces(db, D, deleteEvents(Live(db)))
      /\ DataMoves(db, D, made, made, {})
      /\ dataOf(Live(db)) = Gone(db, D)
  BY <1>1, Deletion
<1>3. \A i \in Ids : D.assets[i] = None
  BY <1>2 DEF Live
<1> QED
  BY <1>2, <1>3

\* The data that hydrate has made when it ends.
Remade == made + Len(restored) + Len(histories)

\* A restore that fails leaves the database empty, and all that it made is no asset's.
LEMMA RestoreFails ==
    ASSUME Bounds, IsFiniteSet(Ids), Agrees(db), DataAgrees(db, made, disposals, spare),
           saved # None, SavedAgrees, Remade <= MaxData
    PROVE  /\ Agrees(Staged)
           /\ Announces(db, Staged, deleteEvents(Live(db)))
           /\ DataMoves(db, Staged, made, Remade, (made + 1)..Remade)
           /\ dataOf(Live(db)) = Gone(db, Staged)
<1>1. PICK D : D = removeIds(db, Live(db))
  OBVIOUS
<1>2. /\ Agrees(D) /\ \A i \in Ids : D.assets[i] = None
      /\ Announces(db, D, deleteEvents(Live(db)))
      /\ dataOf(Live(db)) = Gone(db, D)
  BY <1>1, Cleared
<1>3. Staged = stageHistory(D)
  BY <1>1 DEF Staged
<1>4. MaxRevision \in Nat /\ MaxData \in Nat /\ made \in Nat
  BY DEF Bounds, DataAgrees
<1>5. made + Len(restored) + Len(histories) <= MaxData
  BY DEF Remade
<1>6. Len(restored) \in Nat
  BY <1>2, <1>4, <1>5, RestoreFits
<1>7. Len(histories) \in Nat
  BY <1>4, HistoriesListed
<1>8. Agrees(Staged) /\ Staged.assets = D.assets
  BY <1>2, <1>3, <1>4, <1>5, <1>6, StageHistory
<1>9. DataMoves(db, Staged, made, Remade, (made + 1)..Remade)
  <2>1. Remade \in made..MaxData
    BY <1>4, <1>6, <1>7 DEF Remade
  <2>2. \A i \in Ids : Staged.assets[i] = None
    BY <1>2, <1>8
  <2>3. \A d : ~Has(Staged, d)
    BY <2>2 DEF Has
  <2> QED
    BY <2>1, <2>2, <2>3 DEF DataMoves
<1>10. Announces(db, Staged, deleteEvents(Live(db))) /\ Gone(db, Staged) = Gone(db, D)
  BY <1>2, <1>8, SameAssetsSame
<1> QED
  BY <1>2, <1>8, <1>9, <1>10

\* A restore that succeeds has the assets of the snapshot with new data.
LEMMA RestoreSucceeds ==
    ASSUME Bounds, IsFiniteSet(Ids), Agrees(db), DataAgrees(db, made, disposals, spare),
           saved # None, SavedAgrees, Remade <= MaxData,
           NEW X, X = bindAll(commitAll(Staged, restored))
    PROVE  /\ Agrees(X)
           /\ Announces(db, X, deleteEvents(Live(db)) \o upsertEvents(restored))
           /\ DataMoves(db, X, made, Remade, (made + Len(restored) + 1)..Remade)
           /\ dataOf(Live(db)) = Gone(db, X)
<1>1. PICK D, S, A, C : /\ D = removeIds(db, Live(db)) /\ S = Staged /\ A = restored
                        /\ C = commitAll(Staged, restored)
  OBVIOUS
<1>2. None \notin Ids /\ None \notin Assets /\ MaxRevision \in Nat /\ MaxData \in Nat
  BY DEF Bounds
<1>3. made \in Nat /\ \A i \in Ids : db.assets[i] # None => db.assets[i].data \in 1..made
  BY <1>2 DEF DataAgrees
<1>4. /\ Agrees(D) /\ \A i \in Ids : D.assets[i] = None
      /\ Announces(db, D, deleteEvents(Live(db)))
  BY <1>1, Cleared
<1>5. S = stageHistory(D)
  BY <1>1 DEF Staged
<1>6. made + Len(A) + Len(histories) <= MaxData /\ Remade = made + Len(A) + Len(histories)
  BY <1>1 DEF Remade
<1>7. /\ A \in Seq(Assets) /\ Len(A) \in Nat
      /\ \A n \in 1..Len(A) : \E i \in Live(saved) : A[n].id = i /\ A[n].data = made + n
      /\ \A i \in Live(saved) : \E n \in 1..Len(A) : A[n].id = i
      /\ Commits(S, A)
  BY <1>1, <1>3, <1>4, <1>5, <1>6, RestoreFits
<1>8. Agrees(S) /\ S.assets = D.assets
  BY <1>1, <1>2, <1>3, <1>4, <1>5, <1>6, <1>7, StageHistory
<1>9. Len(histories) \in Nat
  BY <1>2, HistoriesListed
<1>10. \A n \in 1..Len(A) : A[n] \in Assets /\ A[n] # None /\ A[n].id \in Ids /\ A[n].data = made + n
  <2>1. \A n \in 1..Len(A) : A[n] \in Assets
    BY <1>7, ElementOfSeq
  <2> QED
    BY <1>2, <1>7, <2>1 DEF Live
<1>11. Reached(S, A, Len(A), C)
  BY <1>1, <1>2, <1>7, <1>8, CommitAll
<1>12. /\ Agrees(C) /\ \A n \in 1..Len(A) : C.assets[A[n].id] = A[n]
       /\ \A i \in Ids : (\A n \in 1..Len(A) : A[n].id # i) => C.assets[i] = None
  BY <1>4, <1>11, <1>8 DEF Reached
<1>13. \A i \in Ids : saved.assets[i] # None => C.assets[i] # None
  <2>1. SUFFICES ASSUME NEW i \in Ids, saved.assets[i] # None
                 PROVE  C.assets[i] # None
    OBVIOUS
  <2>2. i \in Live(saved)
    BY <2>1 DEF Live
  <2>3. PICK n \in 1..Len(A) : A[n].id = i
    BY <1>7, <2>2
  <2>4. C.assets[A[n].id] = A[n]
    BY <1>12
  <2>5. A[n] # None
    BY <1>10
  <2> QED
    BY <2>3, <2>4, <2>5, Zenon
<1>14. Agrees(X) /\ X.assets = C.assets
  BY <1>1, <1>2, <1>12, <1>13, BindAllAgrees
<1>15. \A i \in Ids : X.assets[i] # None =>
          \E n \in 1..Len(A) : A[n].id = i /\ X.assets[i] = A[n] /\ X.assets[i].data = made + n
  BY <1>10, <1>12, <1>14
<1>16. Announces(db, X, deleteEvents(Live(db)) \o upsertEvents(A))
  <2>1. Announces(D, X, upsertEvents(A))
    BY <1>2, <1>4, <1>7, <1>12, <1>14, UpsertAnnounces
  <2> QED
    BY <1>4, <2>1, AnnouncesBoth
<1>17. DataMoves(db, X, made, Remade, (made + Len(A) + 1)..Remade)
  <2>1. /\ Remade \in made..MaxData /\ made + Len(A) <= Remade
        /\ (made + Len(A) + 1)..Remade \subseteq (made + 1)..Remade
    BY <1>2, <1>3, <1>6, <1>7, <1>9
  <2>2. \A i \in Ids : X.assets[i] # None => X.assets[i].data \in (made + 1)..(made + Len(A))
    <3>1. \A n \in 1..Len(A) : made + n \in (made + 1)..(made + Len(A))
      BY <1>3, <1>7
    <3> QED
      BY <1>15, <3>1
  <2>3. ASSUME NEW d \in (made + 1)..(made + Len(A)) PROVE Has(X, d)
    <3>1. d - made \in 1..Len(A) /\ made + (d - made) = d
      BY <1>3, <1>7
    <3> QED
      BY <1>10, <1>12, <1>14, <3>1 DEF Has
  <2>4. \A i, j \in Ids : X.assets[i] # None /\ X.assets[j] # None
                            /\ X.assets[i].data = X.assets[j].data => i = j
    BY <1>3, <1>7, <1>15
  <2>5. \A d \in (made + 1)..Remade : d \in (made + Len(A) + 1)..Remade <=> ~Has(X, d)
    <3>1. TAKE d \in (made + 1)..Remade
    <3>2. CASE d \in (made + 1)..(made + Len(A))
      BY <1>3, <1>7, <2>3, <3>2
    <3>3. CASE d \notin (made + 1)..(made + Len(A))
      <4>1. ~Has(X, d)
        BY <2>2, <3>3 DEF Has
      <4>2. d \in (made + Len(A) + 1)..Remade
        BY <1>3, <1>7, <2>1, <3>3
      <4> QED
        BY <4>1, <4>2
    <3> QED
      BY <3>2, <3>3
  <2>6. \A i \in Ids : X.assets[i] # None => X.assets[i].data \in (made + 1)..Remade
    BY <1>3, <1>7, <2>1, <2>2
  <2> QED
    BY <2>1, <2>4, <2>5, <2>6, Zenon DEF DataMoves
<1>18. dataOf(Live(db)) = Gone(db, X)
  <2>1. \A i \in Ids : db.assets[i] # None =>
           X.assets[i] = None \/ X.assets[i].data # db.assets[i].data
    BY <1>3, <1>7, <1>15
  <2> QED
    BY <2>1 DEF dataOf, Gone, Live
<1> QED
  BY <1>1, <1>14, <1>16, <1>17, <1>18

-----------------------------------------------------------------------------
\* The invariant, and the changes that keep it.

\* The database, its data and its events agree.
Core ==
    /\ Agrees(db) /\ DataAgrees(db, made, disposals, spare)
    /\ EventsAgree(db, pendingEvents, listening, mirror)
\* A restore that failed was of a snapshot that lacks a dependency.
RestoreAgrees ==
    restoreFailed =>
        saved # None /\ \E i \in Live(saved) : ~(saved.assets[i].dependencies \subseteq Live(saved))
\* The stages of an import.
ImportsTyped == importAt \in [Imports -> {"idle", "pipeline", "done", "failed"}]
\* The inductive invariant.
DatabaseInv == Core /\ SavedAgrees /\ RestoreAgrees /\ ImportsTyped

\* The assumptions on the constants that the steps need.
LEMMA Constants ==
    /\ Bounds /\ IsFiniteSet(Ids) /\ FailingData \subseteq 1..MaxData
    /\ None \notin Identities
BY SetsAssumption, BoundsAssumption, NoneIsNoAsset DEF Bounds

\* The empty database agrees.
LEMMA DatabaseInit == Init => DatabaseInv
<1> SUFFICES ASSUME Init PROVE DatabaseInv
  OBVIOUS
<1>1. /\ Bounds /\ None \notin Ids /\ None \notin Assets /\ MaxData \in Nat /\ MaxRevision \in Nat
  BY Constants DEF Bounds
<1>2. /\ db = [assets |-> [i \in Ids |-> None], revisions |-> [i \in Ids |-> NoRevisions],
               keyIndex |-> [k \in Keys |-> None], aliasIndex |-> [k \in Keys |-> None],
               dependents |-> [i \in Ids |-> {}], fingerprints |-> [f \in 1..MaxData |-> {}],
               bindings |-> [s \in Identities |-> None], identities |-> [i \in Ids |-> {}]]
      /\ pendingEvents = <<>> /\ saved = None /\ listening = FALSE /\ mirror = [i \in Ids |-> 0]
      /\ made = 0 /\ disposals = [d \in 1..MaxData |-> 0] /\ spare = {} /\ restoreFailed = FALSE
      /\ importAt = [i \in Imports |-> "idle"]
  BY DEF Init, EmptyDatabase
<1>3. /\ \A i \in Ids : db.assets[i] = None
      /\ \A i \in Ids : db.dependents[i] = {} /\ db.identities[i] = {}
      /\ \A k \in Keys : db.keyIndex[k] = None /\ db.aliasIndex[k] = None
      /\ \A f \in 1..MaxData : db.fingerprints[f] = {}
      /\ \A s \in Identities : db.bindings[s] = None
  BY <1>2
<1>4. db \in Databases
  BY <1>2, NoRevisionsTyped DEF Databases
<1>5. KeysBound(db) /\ DependentsBound(db) /\ FingerprintsBound(db) /\ IdentitiesBound(db)
  <2>1. \A i \in Ids : i # None
    BY <1>1
  <2> QED
    BY <1>3, <2>1 DEF KeysBound, DependentsBound, FingerprintsBound, IdentitiesBound
<1>6. Agrees(db)
  BY <1>3, <1>4, <1>5 DEF Agrees, NamesAgree, RevisionsKept
<1>7. DataAgrees(db, made, disposals, spare)
  <2>1. made \in 0..MaxData /\ disposals \in [1..MaxData -> 0..2] /\ 1..made = {}
    BY <1>1, <1>2
  <2> QED
    BY <1>2, <1>3, <2>1 DEF DataAgrees
<1>8. EventsAgree(db, pendingEvents, listening, mirror)
  <2>1. <<>> \in Seq(Events) /\ Len(<<>>) = 0 /\ 0 \in 0..MaxRevision
    BY <1>1, EmptySeq
  <2> QED
    BY <1>2, <2>1 DEF EventsAgree, EventsFollow
<1> QED
  BY <1>2, <1>6, <1>7, <1>8 DEF DatabaseInv, Core, SavedAgrees, RestoreAgrees, ImportsTyped

\* A change keeps the core.
LEMMA ChangeKeeps ==
    ASSUME Core, NEW X, Agrees(X), NEW ev, Announces(db, X, ev),
           NEW g, DataMoves(db, X, made, made', g), spare' = spare \union g,
           NEW S, S = Gone(db, X), runDisposers(S), emit(ev), db' = X
    PROVE  Core'
<1>1. /\ DataAgrees(X, made', disposals', spare') /\ EventsAgree(X, pendingEvents', listening', mirror')
  BY Change, Constants DEF Core
<1> QED
  BY <1>1 DEF Core

\* So does a call in which a disposer throws.
LEMMA ThrowKeeps ==
    ASSUME Core, NEW X, NEW S, S \subseteq Gone(db, X), S \intersect FailingData # {},
           runDisposers(S), UNCHANGED <<db, eventVars, made, spare>>
    PROVE  Core' /\ KeepsKeys(db, db')
<1>1. DataAgrees(db, made, disposals', spare)
  BY Throw, Constants DEF Core
<1>2. /\ db' = db /\ made' = made /\ spare' = spare /\ pendingEvents' = pendingEvents
      /\ listening' = listening /\ mirror' = mirror
  BY DEF eventVars
<1> QED
  BY <1>1, <1>2 DEF Core, KeepsKeys, Leads

\* upsertMany keeps the core, and the keys of every asset.
LEMMA UpsertKeeps ==
    ASSUME DisjointBatches, Core, NEW n \in 1..MaxBatch, NEW W \in [1..n -> Writes], upsertMany(W)
    PROVE  Core' /\ KeepsKeys(db, db')
<1>1. PICK A, X : A = assetsOf(W) /\ X = commitAll(db, A)
  OBVIOUS
<1>2. Accepts(W)
  <2>1. n \in Nat /\ Len(W) = n
    BY BoundsAssumption
  <2>2. \A k \in 1..n : W[k] \in WriteRecords
    BY WritesAssumption DEF WriteRecords
  <2>3. callable(W) /\ accepted(W) /\ disjoint(assetsOf(W))
    BY DEF upsertMany
  <2> QED
    BY <2>1, <2>2, <2>3 DEF Accepts
<1>3. /\ Agrees(X) /\ Announces(db, X, upsertEvents(A))
      /\ \A k \in Keys, i \in Ids : Leads(db, k, i) => Leads(X, k, i)
      /\ DataMoves(db, X, made, newData(W, Len(W)), {})
      /\ replaced(db, A) = Gone(db, X)
  BY <1>1, <1>2, Batch, Constants DEF Core
<1>4. runDisposers(replaced(db, A)) /\ spare' = spare /\ spare' = spare \union {}
  BY <1>1 DEF upsertMany, restoreVars
<1>5. CASE replaced(db, A) \intersect FailingData # {}
  <2>1. UNCHANGED <<db, eventVars, made, spare>>
    BY <1>1, <1>4, <1>5 DEF upsertMany
  <2>2. replaced(db, A) \subseteq Gone(db, X)
    BY <1>3
  <2> QED
    BY <1>4, <1>5, <2>1, <2>2, ThrowKeeps
<1>6. CASE replaced(db, A) \intersect FailingData = {}
  <2>1. db' = X /\ made' = newData(W, Len(W)) /\ emit(upsertEvents(A))
    BY <1>1, <1>6 DEF upsertMany
  <2>2. DataMoves(db, X, made, made', {})
    BY <1>3, <2>1
  <2>3. Core'
    BY <1>3, <1>4, <2>1, <2>2, ChangeKeeps
  <2> QED
    BY <1>3, <2>1, <2>3 DEF KeepsKeys, Leads
<1> QED
  BY <1>5, <1>6

\* So does deleting assets with all their dependents,
LEMMA DeleteIdsKeeps ==
    ASSUME Core, NEW S \in SUBSET Live(db), hasAllDependents(db, S), deleteIds(S), made' = made,
           spare' = spare
    PROVE  Core' /\ KeepsKeys(db, db')
<1>1. PICK X : X = removeIds(db, S)
  OBVIOUS
<1>2. /\ Agrees(X) /\ KeepsKeys(db, X) /\ Announces(db, X, deleteEvents(S))
      /\ DataMoves(db, X, made, made, {}) /\ dataOf(S) = Gone(db, X)
  BY <1>1, Deletion, Constants DEF Core
<1>3. runDisposers(dataOf(S))
  BY DEF deleteIds
<1>4. CASE dataOf(S) \intersect FailingData # {}
  <2>1. UNCHANGED <<db, eventVars, made, spare>>
    BY <1>4 DEF deleteIds
  <2>2. dataOf(S) \subseteq Gone(db, X)
    BY <1>2
  <2> QED
    BY <1>3, <1>4, <2>1, <2>2, ThrowKeeps
<1>5. CASE dataOf(S) \intersect FailingData = {}
  <2>1. db' = X /\ emit(deleteEvents(S))
    BY <1>1, <1>5 DEF deleteIds
  <2>2. DataMoves(db, X, made, made', {}) /\ spare' = spare \union {}
    BY <1>2
  <2>3. Core'
    BY <1>2, <1>3, <2>1, <2>2, ChangeKeeps
  <2> QED
    BY <1>2, <2>1, <2>3
<1> QED
  BY <1>4, <1>5

\* delete,
LEMMA DeleteKeeps ==
    ASSUME Core, NEW i \in Ids, NEW cascade \in BOOLEAN, delete(i, cascade)
    PROVE  Core' /\ KeepsKeys(db, db')
<1>1. /\ i \in Live(db) /\ made' = made /\ spare' = spare /\ (cascade \/ ~hasDependents(i))
      /\ deleteIds(IF cascade THEN withDependents(db, {i}) ELSE {i})
  BY DEF delete, restoreVars
<1>2. CASE cascade
  <2>1. {i} \in SUBSET Live(db)
    BY <1>1
  <2>2. /\ withDependents(db, {i}) \in SUBSET Live(db)
        /\ hasAllDependents(db, withDependents(db, {i}))
    BY <2>1, CascadeIsClosed
  <2> QED
    BY <1>1, <1>2, <2>2, DeleteIdsKeeps
<1>3. CASE ~cascade
  <2>1. {i} \in SUBSET Live(db) /\ hasAllDependents(db, {i})
    BY <1>1, <1>3 DEF hasDependents, hasAllDependents
  <2> QED
    BY <1>1, <1>3, <2>1, DeleteIdsKeeps
<1> QED
  BY <1>2, <1>3

\* clear,
LEMMA ClearKeeps == Core /\ clear => Core' /\ KeepsKeys(db, db')
<1> SUFFICES ASSUME Core, clear PROVE Core' /\ KeepsKeys(db, db')
  OBVIOUS
<1>1. Live(db) \in SUBSET Live(db) /\ hasAllDependents(db, Live(db))
  BY DEF hasAllDependents
<1> QED
  BY <1>1, DeleteIdsKeeps DEF clear, restoreVars

\* and dispose.
LEMMA DisposeKeeps == Core /\ dispose => Core' /\ KeepsKeys(db, db')
<1> SUFFICES ASSUME Core, dispose PROVE Core' /\ KeepsKeys(db, db')
  OBVIOUS
<1>1. PICK S, X : S = Live(db) /\ X = removeIds(db, Live(db))
  OBVIOUS
<1>2. S \in SUBSET Live(db) /\ hasAllDependents(db, S)
  BY <1>1 DEF hasAllDependents
<1>3. /\ Agrees(X) /\ KeepsKeys(db, X) /\ DataMoves(db, X, made, made, {})
      /\ dataOf(S) = Gone(db, X)
  BY <1>1, <1>2, Deletion, Constants DEF Core
<1>4. /\ runDisposers(dataOf(S)) /\ made' = made /\ mirror' = mirror /\ spare' = spare
      /\ pendingEvents' = <<>> /\ listening' = FALSE
      /\ db' = IF dataOf(S) \intersect FailingData # {} THEN db ELSE X
  BY <1>1 DEF dispose, restoreVars
<1>5. \A D : EventsAgree(D, pendingEvents', listening', mirror')
  <2>1. <<>> \in Seq(Events) /\ Len(<<>>) = 0 /\ mirror \in [Ids -> 0..MaxRevision]
    BY EmptySeq DEF Core, EventsAgree
  <2> QED
    BY <1>4, <2>1 DEF EventsAgree, EventsFollow
<1>6. CASE dataOf(S) \intersect FailingData # {}
  <2>1. DataAgrees(db, made, disposals', spare)
    BY <1>3, <1>4, <1>6, Throw, Constants DEF Core
  <2> QED
    BY <1>4, <1>5, <1>6, <2>1 DEF Core, KeepsKeys, Leads
<1>7. CASE dataOf(S) \intersect FailingData = {}
  <2>1. DataAgrees(X, made, Disposed(disposals, Gone(db, X)), spare)
    <3>1. DataAgrees(X, made, Disposed(disposals, Gone(db, X)), spare \union {})
      BY <1>3, DataStep, Constants DEF Core, Bounds
    <3>2. spare \union {} = spare
      OBVIOUS
    <3> QED
      BY <3>1, <3>2
  <2>2. disposals' = Disposed(disposals, Gone(db, X))
    BY <1>3, <1>4 DEF runDisposers, Disposed
  <2> QED
    BY <1>3, <1>4, <1>5, <1>7, <2>1, <2>2 DEF Core
<1> QED
  BY <1>6, <1>7

-----------------------------------------------------------------------------
\* Imports, source identities and hydration.

\* The event of an import tells what the upsert before it told.
LEMMA ImportAnnounces ==
    ASSUME Bounds, NEW D, NEW X, X.assets = D.assets, NEW a \in Assets, X.assets[a.id] = a
    PROVE  Announces(D, X, <<[type |-> "import", id |-> a.id, revision |-> a.revision]>>)
<1>1. PICK e : e = [type |-> "import", id |-> a.id, revision |-> a.revision]
  OBVIOUS
<1>2. None \notin Assets /\ MaxRevision \in Nat
  BY DEF Bounds
<1>3. a.id \in Ids /\ a.revision \in 0..MaxRevision /\ a # None
  BY <1>2 DEF Assets
<1>4. e \in Events /\ e.id = a.id /\ e.revision = a.revision
  BY <1>1, <1>3 DEF Events
<1>5. <<e>> \in Seq(Events) /\ Len(<<e>>) = 1 /\ <<e>>[1] = e
  BY <1>4
<1>6. EventsFollow(X, <<e>>)
  BY <1>3, <1>4, <1>5 DEF EventsFollow, Rev
<1>7. \A i \in Ids : Rev(X, i) = Rev(D, i)
  BY DEF Rev
<1> QED
  BY <1>1, <1>5, <1>6, <1>7 DEF Announces

\* An import commits one write, binds its source and announces both.
LEMMA ImportKeeps ==
    ASSUME Core, NEW i \in Imports, ImportCommits(i)
    PROVE  Core' /\ KeepsKeys(db, db')
<1>1. PICK id \in importIds(ImportOf[i]) :
         LET W == <<[ImportOf[i].write EXCEPT !.id = id]>>
             s == ImportOf[i].identity
             A == assetsOf(W)
             old == replaced(db, A)
             D == commitAll(db, A)
         IN  /\ callable(W)
             /\ IF accepted(W) /\ old \intersect FailingData = {}
                THEN /\ db' = IF s = None THEN D ELSE bind(D, s, A[1].id)
                     /\ made' = newData(W, 1)
                     /\ emit(upsertEvents(A) \o
                             <<[type |-> "import", id |-> A[1].id, revision |-> A[1].revision]>>)
                     /\ importAt' = [importAt EXCEPT ![i] = "done"]
                ELSE /\ importAt' = [importAt EXCEPT ![i] = "failed"]
                     /\ UNCHANGED <<db, eventVars, made>>
             /\ runDisposers(IF accepted(W) THEN old ELSE {})
  BY DEF ImportCommits
<1>2. PICK W, s, A, D : /\ W = <<[ImportOf[i].write EXCEPT !.id = id]>> /\ s = ImportOf[i].identity
                        /\ A = assetsOf(W) /\ D = commitAll(db, A)
  OBVIOUS
<1>3. PICK ev : ev = <<[type |-> "import", id |-> A[1].id, revision |-> A[1].revision]>>
  OBVIOUS
<1>4. /\ callable(W)
      /\ runDisposers(IF accepted(W) THEN replaced(db, A) ELSE {})
      /\ accepted(W) /\ replaced(db, A) \intersect FailingData = {} =>
            /\ db' = IF s = None THEN D ELSE bind(D, s, A[1].id)
            /\ made' = newData(W, 1)
            /\ emit(upsertEvents(A) \o ev)
      /\ ~(accepted(W) /\ replaced(db, A) \intersect FailingData = {}) =>
            UNCHANGED <<db, eventVars, made>>
      /\ spare' = spare /\ spare' = spare \union {}
  <2>1. spare' = spare
    BY DEF ImportCommits, restoreVars
  <2> QED
    BY <1>1, <1>2, <1>3, <2>1
<1>5. Bounds /\ None \notin Identities /\ None \notin Ids
  BY Constants DEF Bounds
<1>6. db \in Databases /\ KeysBound(db)
  BY DEF Core, Agrees
<1>7. ImportOf[i].write \in WriteRecords /\ s \in Identities \union {None}
  BY <1>2, WritesAssumption DEF WriteRecords
<1>8. id \in Ids
  <2>1. boundTo(db, ImportOf[i].write.key) \in Ids \union {None}
    BY <1>5, <1>6, <1>7, LookupIs DEF WriteRecords
  <2>2. \A t \in Identities : db.bindings[t] \in Ids \union {None}
    BY <1>6, DatabaseFields
  <2> QED
    BY <1>2, <1>7, <2>1, <2>2 DEF importIds, resolveByKey
<1>9. Len(W) = 1 /\ W[1] \in WriteRecords
  <2>1. [ImportOf[i].write EXCEPT !.id = id] \in WriteRecords
    BY <1>7, <1>8 DEF WriteRecords
  <2> QED
    BY <1>2, <2>1
<1>10. CASE ~accepted(W)
  <2>1. disposals' = disposals
    BY <1>4, <1>10, NoneDisposed DEF Core
  <2> QED
    BY <1>4, <1>10, <2>1 DEF Core, eventVars, KeepsKeys, Leads
<1>11. CASE accepted(W)
  <2>1. Accepts(W)
    <3>1. Len(assetsOf(W)) = 1
      BY <1>9 DEF assetsOf
    <3>2. disjoint(assetsOf(W))
      BY <3>1 DEF disjoint
    <3>3. \A n \in 1..Len(W) : W[n] \in WriteRecords
      BY <1>9
    <3> QED
      BY <1>4, <1>9, <1>11, <3>2, <3>3 DEF Accepts
  <2>2. /\ Agrees(D) /\ A \in Seq(Assets) /\ Len(A) = Len(W)
        /\ \A n \in 1..Len(A) : D.assets[A[n].id] = A[n]
        /\ \A k \in Keys, j \in Ids : Leads(db, k, j) => Leads(D, k, j)
        /\ Announces(db, D, upsertEvents(A))
        /\ DataMoves(db, D, made, newData(W, Len(W)), {})
        /\ replaced(db, A) = Gone(db, D)
    BY <1>2, <1>5, <2>1, Batch DEF Core
  <2>3. CASE replaced(db, A) \intersect FailingData # {}
    <3>1. replaced(db, A) \subseteq Gone(db, D)
      BY <2>2
    <3>2. runDisposers(replaced(db, A)) /\ UNCHANGED <<db, eventVars, made, spare>>
      BY <1>4, <1>11, <2>3
    <3> QED
      BY <2>3, <3>1, <3>2, ThrowKeeps
  <2>4. CASE replaced(db, A) \intersect FailingData = {}
    <3>1. A[1] \in Assets /\ D.assets[A[1].id] = A[1]
      <4>1. 1 \in 1..Len(A) /\ A \in Seq(Assets)
        BY <1>9, <2>2
      <4>2. A[1] \in Assets
        BY <4>1, ElementOfSeq
      <4> QED
        BY <2>2, <4>1, <4>2
    <3>2. A[1].id \in Ids /\ A[1] # None
      BY <1>5, <3>1 DEF Assets, Bounds
    <3>3. PICK X : X = IF s = None THEN D ELSE bind(D, s, A[1].id)
      OBVIOUS
    <3>4. /\ Agrees(X) /\ X.assets = D.assets
          /\ \A k \in Keys, j \in Ids : Leads(D, k, j) => Leads(X, k, j)
      <4>1. CASE s = None
        BY <2>2, <3>3, <4>1
      <4>2. CASE s # None
        BY <1>7, <2>2, <3>1, <3>2, <3>3, <4>2, BindAgrees
      <4> QED
        BY <4>1, <4>2
    <3>5. Announces(D, X, ev)
      BY <1>3, <1>5, <3>1, <3>4, ImportAnnounces
    <3>6. Announces(db, X, upsertEvents(A) \o ev)
      BY <2>2, <3>5, AnnouncesBoth
    <3>7. /\ db' = X /\ made' = newData(W, Len(W)) /\ emit(upsertEvents(A) \o ev)
          /\ runDisposers(replaced(db, A))
      BY <1>4, <1>9, <1>11, <2>4, <3>3
    <3>8. DataMoves(db, X, made, made', {}) /\ replaced(db, A) = Gone(db, X)
      BY <2>2, <3>4, <3>7, SameAssetsSame
    <3>9. Core'
      BY <1>4, <3>4, <3>6, <3>7, <3>8, ChangeKeeps
    <3> QED
      BY <2>2, <3>4, <3>7, <3>9 DEF KeepsKeys, Leads
  <2> QED
    BY <2>3, <2>4
<1> QED
  BY <1>10, <1>11

\* Source identities are bound and unbound in silence.
LEMMA SameAssetsKeeps ==
    ASSUME Core, NEW X, Agrees(X), X.assets = db.assets, db' = X,
           UNCHANGED <<eventVars, dataVars, spare>>,
           \A k \in Keys, j \in Ids : Leads(db, k, j) => Leads(X, k, j)
    PROVE  Core' /\ KeepsKeys(db, db')
<1>1. /\ made' = made /\ disposals' = disposals /\ spare' = spare
      /\ pendingEvents' = pendingEvents /\ listening' = listening /\ mirror' = mirror
  BY DEF eventVars, dataVars
<1>2. \A d : Has(X, d) <=> Has(db, d)
  BY DEF Has
<1>3. DataAgrees(X, made, disposals, spare)
  <2>1. DataAgrees(db, made, disposals, spare)
    BY DEF Core
  <2> QED
    BY <1>2, <2>1 DEF DataAgrees
<1>4. EventsAgree(X, pendingEvents, listening, mirror)
  <2>1. EventsAgree(db, pendingEvents, listening, mirror)
    BY DEF Core
  <2>2. \A i \in Ids : Rev(X, i) = Rev(db, i)
    BY DEF Rev
  <2>3. \A n \in 1..Len(pendingEvents) : pendingEvents[n].id \in Ids
    <3>1. \A n \in 1..Len(pendingEvents) : pendingEvents[n] \in Events
      BY <2>1, ElementOfSeq DEF EventsAgree
    <3> QED
      BY <3>1 DEF Events
  <2> QED
    BY <2>1, <2>2, <2>3 DEF EventsAgree, EventsFollow, ListenerFollows
<1> QED
  BY <1>1, <1>3, <1>4 DEF Core, KeepsKeys, Leads

\* Binding and unbinding a source identity keep the core.
LEMMA BindingKeeps ==
    ASSUME Core, NEW s \in Identities,
           unbindSourceIdentity(s) \/ \E i \in Ids : bindSourceIdentity(s, i)
    PROVE  Core' /\ KeepsKeys(db, db')
<1>1. CASE unbindSourceIdentity(s)
  <2>1. /\ db.bindings[s] # None /\ db' = unbind(db, s)
        /\ UNCHANGED <<eventVars, dataVars, spare>>
    BY <1>1 DEF unbindSourceIdentity, restoreVars
  <2>2. PICK X : X = unbind(db, s)
    OBVIOUS
  <2>3. /\ Agrees(X) /\ X.assets = db.assets
        /\ \A k \in Keys, j \in Ids : Leads(db, k, j) => Leads(X, k, j)
    BY <2>1, <2>2, UnbindAgrees, Constants DEF Core, Bounds
  <2> QED
    BY <2>1, <2>2, <2>3, SameAssetsKeeps
<1>2. ASSUME NEW i \in Ids, bindSourceIdentity(s, i) PROVE Core' /\ KeepsKeys(db, db')
  <2>1. /\ db.assets[i] # None /\ db' = bind(db, s, i)
        /\ UNCHANGED <<eventVars, dataVars, spare>>
    BY <1>2 DEF bindSourceIdentity, Live, restoreVars
  <2>2. PICK X : X = bind(db, s, i)
    OBVIOUS
  <2>3. /\ Agrees(X) /\ X.assets = db.assets
        /\ \A k \in Keys, j \in Ids : Leads(db, k, j) => Leads(X, k, j)
    BY <2>1, <2>2, BindAgrees DEF Core
  <2> QED
    BY <2>1, <2>2, <2>3, SameAssetsKeeps
<1> QED
  BY <1>1, <1>2

\* Restoring a snapshot into the database, which then has nothing else.
LEMMA HydrateKeeps ==
    ASSUME ~MayMerge, Core, SavedAgrees, RestoreAgrees, NEW replace \in BOOLEAN, hydrate(replace)
    PROVE  Core' /\ RestoreAgrees'
<1>1. PICK gone, D, A, n : /\ gone = dataOf(Live(db)) /\ D = removeIds(db, Live(db))
                           /\ A = restored /\ n = Len(restored)
  OBVIOUS
<1>2. /\ replace /\ saved # None /\ saved' = saved
      /\ IF gone \intersect FailingData # {}
         THEN runDisposers(gone) /\ UNCHANGED <<db, eventVars, made, restoreVars>>
         ELSE hydrateInto(D, gone, deleteEvents(Live(db)))
  BY <1>1 DEF hydrate
<1>3. Bounds /\ IsFiniteSet(Ids) /\ None \notin Assets /\ MaxData \in Nat
  BY Constants DEF Bounds
<1>4. made \in Nat
  BY <1>3 DEF Core, DataAgrees
<1>5. /\ Agrees(D) /\ \A i \in Ids : D.assets[i] = None
      /\ gone = Gone(db, D)
  BY <1>1, <1>3, Cleared DEF Core
<1>6. CASE gone \intersect FailingData # {}
  <2>1. /\ runDisposers(gone) /\ UNCHANGED <<db, eventVars, made, spare>>
        /\ restoreFailed' = restoreFailed
    BY <1>2, <1>6 DEF restoreVars
  <2>2. gone \subseteq Gone(db, D)
    BY <1>5
  <2>3. Core'
    BY <1>6, <2>1, <2>2, ThrowKeeps
  <2> QED
    BY <1>2, <2>1, <2>3 DEF RestoreAgrees, Live
<1>7. CASE gone \intersect FailingData = {}
  <2> DEFINE complete == \A k \in 1..n : A[k].dependencies \subseteq Live(D) \union Live(saved)
  <2>1. hydrateInto(D, gone, deleteEvents(Live(db)))
    BY <1>2, <1>7
  <2>2. /\ made + Len(restored) + Len(histories) <= MaxData
        /\ Remade <= MaxData /\ made' = Remade
    BY <1>1, <2>1 DEF hydrateInto, Remade
  <2>3. /\ n \in Nat
        /\ \A k \in 1..n : \E i \in Live(saved) : A[k].dependencies = saved.assets[i].dependencies
        /\ \A k \in 1..n : ownsKeys(D, A[k])
        /\ replaced(D, A) = {}
    BY <1>1, <1>2, <1>3, <1>4, <1>5, <2>2, RestoreFits
  <2>4. Live(D) = {}
    BY <1>5 DEF Live
  <2>5. /\ runDisposers(gone)
        /\ complete => /\ db' = bindAll(commitAll(stageHistory(D), A))
                       /\ spare' = spare \union ((made + n + 1)..Remade)
                       /\ emit(deleteEvents(Live(db)) \o upsertEvents(A))
                       /\ restoreFailed' = restoreFailed
        /\ ~complete => /\ db' = stageHistory(D) /\ emit(deleteEvents(Live(db)))
                        /\ spare' = spare \union ((made + 1)..Remade)
                        /\ restoreFailed' = TRUE
    <3>1. PICK old : old = IF complete /\ (\A k \in 1..n : ownsKeys(D, A[k]))
                           THEN replaced(D, A) ELSE {}
      OBVIOUS
    <3>2. old = {}
      BY <2>3, <3>1
    <3>3. /\ runDisposers(gone \union old)
          /\ IF complete /\ (\A k \in 1..n : ownsKeys(D, A[k])) /\ old \intersect FailingData = {}
             THEN /\ db' = bindAll(commitAll(stageHistory(D), A))
                  /\ spare' = spare \union ((made + n + 1)..made')
                  /\ emit(deleteEvents(Live(db)) \o upsertEvents(A))
                  /\ UNCHANGED restoreFailed
             ELSE /\ db' = stageHistory(D)
                  /\ emit(deleteEvents(Live(db)))
                  /\ spare' = spare \union ((made + 1)..made')
                  /\ restoreFailed' = TRUE
      BY <1>1, <2>1, <3>1 DEF hydrateInto
    <3>4. gone \union old = gone /\ old \intersect FailingData = {}
      BY <3>2
    <3> HIDE DEF complete
    <3> QED
      BY <2>2, <2>3, <3>3, <3>4
  <2>6. Staged = stageHistory(D)
    BY <1>1 DEF Staged
  <2>7. CASE complete
    <3>1. PICK X, ev : /\ X = bindAll(commitAll(Staged, A))
                       /\ ev = deleteEvents(Live(db)) \o upsertEvents(A)
      OBVIOUS
    <3>2. /\ Agrees(X) /\ Announces(db, X, ev)
          /\ DataMoves(db, X, made, Remade, (made + n + 1)..Remade)
          /\ gone = Gone(db, X)
      BY <1>1, <1>2, <1>3, <2>2, <3>1, RestoreSucceeds DEF Core
    <3>3. /\ db' = X /\ emit(ev) /\ runDisposers(gone) /\ restoreFailed' = restoreFailed
          /\ spare' = spare \union ((made + n + 1)..Remade)
      BY <2>5, <2>6, <2>7, <3>1
    <3>4. DataMoves(db, X, made, made', (made + n + 1)..Remade)
      BY <2>2, <3>2
    <3>5. Core'
      BY <3>2, <3>3, <3>4, ChangeKeeps
    <3> QED
      BY <1>2, <3>3, <3>5 DEF RestoreAgrees, Live
  <2>8. CASE ~complete
    <3>1. PICK ev : ev = deleteEvents(Live(db))
      OBVIOUS
    <3>2. /\ Agrees(Staged) /\ Announces(db, Staged, ev)
          /\ DataMoves(db, Staged, made, Remade, (made + 1)..Remade)
          /\ gone = Gone(db, Staged)
      BY <1>1, <1>2, <1>3, <2>2, <3>1, RestoreFails DEF Core
    <3>3. /\ db' = Staged /\ emit(ev) /\ runDisposers(gone) /\ restoreFailed' = TRUE
          /\ spare' = spare \union ((made + 1)..Remade)
      BY <2>5, <2>6, <2>8, <3>1
    <3>4. DataMoves(db, Staged, made, made', (made + 1)..Remade)
      BY <2>2, <3>2
    <3>5. Core'
      BY <3>2, <3>3, <3>4, ChangeKeeps
    <3>6. \E i \in Live(saved) : ~(saved.assets[i].dependencies \subseteq Live(saved))
      BY <2>3, <2>4, <2>8
    <3> QED
      BY <1>2, <3>3, <3>5, <3>6 DEF RestoreAgrees, Live
  <2> QED
    BY <2>7, <2>8
<1> QED
  BY <1>6, <1>7

-----------------------------------------------------------------------------
\* Snapshots, listeners and the theorems.

\* A snapshot is a database that agrees.
LEMMA SnapshotAgrees ==
    ASSUME Core, snapshot, RestoreAgrees
    PROVE  SavedAgrees' /\ RestoreAgrees'
<1>1. /\ saved = None /\ restoreFailed' = restoreFailed
      /\ saved' = [assets |-> db.assets,
                   history |-> [i \in Ids |-> {r \in kept(db, i) :
                                   db.assets[i] # None /\ r < db.assets[i].revision}],
                   bindings |-> db.bindings]
  BY DEF snapshot, restoreVars
<1>2. PICK s : s = saved'
  OBVIOUS
<1>3. /\ s.assets = db.assets /\ s.bindings = db.bindings
      /\ \A i \in Ids : s.history[i] = {r \in kept(db, i) :
                                           db.assets[i] # None /\ r < db.assets[i].revision}
  BY <1>1, <1>2
<1>4. /\ db \in Databases /\ NamesAgree(db) /\ KeysBound(db) /\ IdentitiesBound(db)
      /\ RevisionsKept(db)
  BY DEF Core, Agrees
<1>5. None \notin Ids /\ MaxRevision \in Nat
  BY Constants DEF Bounds
<1>6. s \in Snapshots
  <2>1. /\ db.assets \in [Ids -> Assets \union {None}]
        /\ db.revisions \in [Ids -> RevisionData]
        /\ db.bindings \in [Identities -> Ids \union {None}]
    BY <1>4, DatabaseFields
  <2>2. [i \in Ids |-> {r \in kept(db, i) :
                           db.assets[i] # None /\ r < db.assets[i].revision}]
           \in [Ids -> SUBSET (1..MaxRevision)]
    BY DEF kept
  <2> QED
    BY <1>1, <1>2, <2>1, <2>2 DEF Snapshots
<1>7. NamesAgree(s)
  BY <1>3, <1>4 DEF NamesAgree
<1>8. ASSUME NEW i \in Ids, s.assets[i] # None
      PROVE  s.assets[i].key \notin s.assets[i].aliases
  <2>1. db.assets[i] \in Assets
    BY <1>3, <1>4, <1>8 DEF Databases
  <2>2. PICK k : k = db.assets[i].key
    OBVIOUS
  <2>3. k \in Keys
    BY <2>1, <2>2 DEF Assets
  <2>4. /\ db.keyIndex[k] = i
        /\ k \in db.assets[i].aliases => db.aliasIndex[k] = i
        /\ db.keyIndex[k] = None \/ db.aliasIndex[k] = None
    BY <1>3, <1>4, <1>8, <2>2, <2>3 DEF KeysBound
  <2> QED
    BY <1>3, <1>5, <2>2, <2>4
<1>9. ASSUME NEW i \in Ids, s.assets[i] # None
      PROVE  1..(s.assets[i].revision - 1) \subseteq s.history[i]
  <2>1. db.assets[i] \in Assets
    BY <1>3, <1>4, <1>9 DEF Databases
  <2>2. db.assets[i].revision \in 1..MaxRevision /\ db.assets[i] # None
    BY <1>3, <1>9, <2>1 DEF Assets
  <2>3. 1..db.assets[i].revision \subseteq kept(db, i)
    BY <1>4, <2>2 DEF RevisionsKept
  <2> QED
    BY <1>3, <1>5, <2>2, <2>3
<1>10. ASSUME NEW i \in Ids, NEW j \in Ids, i # j, s.assets[i] # None, s.assets[j] # None
       PROVE  KeysOf(s.assets[i]) \intersect KeysOf(s.assets[j]) = {}
  <2>1. SUFFICES ASSUME NEW k \in KeysOf(s.assets[i]), k \in KeysOf(s.assets[j]) PROVE FALSE
    OBVIOUS
  <2>2. db.assets[i] \in Assets
    BY <1>3, <1>4, <1>10 DEF Databases
  <2>3. k \in Keys
    BY <1>3, <2>1, <2>2 DEF KeysOf, Assets
  <2>4. boundTo(db, k) = i /\ boundTo(db, k) = j
    BY <1>3, <1>4, <1>5, <1>10, <2>1, <2>3, LookupIs
  <2> QED
    BY <1>10, <2>4
<1>11. \A t \in Identities : s.bindings[t] # None => s.assets[s.bindings[t]] # None
  <2>1. \A t \in Identities : db.bindings[t] \in Ids \union {None}
    BY <1>4, DatabaseFields
  <2> QED
    BY <1>3, <1>4, <2>1 DEF IdentitiesBound
<1>12. SavedAgrees'
  BY <1>2, <1>6, <1>7, <1>8, <1>9, <1>10, <1>11 DEF SavedAgrees, NamesAgree
<1> QED
  BY <1>1, <1>12 DEF RestoreAgrees

\* Steps of the events and of listeners.
LEMMA MirrorTyped ==
    ASSUME Core PROVE revisionsOf(db) \in [Ids -> 0..MaxRevision]
<1>1. db.assets \in [Ids -> Assets \union {None}] /\ MaxRevision \in Nat
  BY DatabaseFields, Constants DEF Core, Agrees, Bounds
<1>2. \A i \in Ids : db.assets[i] # None => db.assets[i].revision \in 1..MaxRevision
  BY <1>1 DEF Assets
<1> QED
  BY <1>1, <1>2 DEF revisionsOf

\* subscribe, unsubscribe and the delivery of the events keep the core.
LEMMA ListenersKeep ==
    ASSUME Core, subscribe \/ unsubscribe \/ flushEvents
    PROVE  Core' /\ KeepsKeys(db, db')
<1>1. db' = db /\ made' = made /\ disposals' = disposals /\ spare' = spare
  BY DEF subscribe, unsubscribe, flushEvents, dataVars, restoreVars
<1>2. /\ pendingEvents \in Seq(Events) /\ EventsFollow(db, pendingEvents)
      /\ mirror \in [Ids -> 0..MaxRevision]
      /\ listening => ListenerFollows(db, pendingEvents, mirror)
  BY DEF Core, EventsAgree
<1>3. revisionsOf(db) \in [Ids -> 0..MaxRevision]
  BY MirrorTyped
<1>4. EventsAgree(db, pendingEvents', listening', mirror')
  <2>1. CASE subscribe
    <3>1. pendingEvents' = pendingEvents /\ mirror' = revisionsOf(db)
      BY <2>1 DEF subscribe
    <3>2. ListenerFollows(db, pendingEvents, mirror')
      BY <3>1 DEF ListenerFollows, revisionsOf, Rev
    <3> QED
      BY <1>2, <1>3, <3>1, <3>2 DEF EventsAgree
  <2>2. CASE unsubscribe
    <3>1. pendingEvents' = pendingEvents /\ mirror' = [i \in Ids |-> 0] /\ listening' = FALSE
      BY <2>2 DEF unsubscribe
    <3>2. 0 \in 0..MaxRevision
      BY Constants DEF Bounds
    <3> QED
      BY <1>2, <3>1, <3>2 DEF EventsAgree
  <2>3. CASE flushEvents
    <3>1. /\ pendingEvents' = <<>> /\ listening' = listening
          /\ mirror' = IF listening THEN told(mirror, pendingEvents) ELSE mirror
      BY <2>3 DEF flushEvents
    <3>2. <<>> \in Seq(Events) /\ EventsFollow(db, <<>>)
      BY EmptySeq DEF EventsFollow
    <3>3. CASE listening
      <4>1. mirror' = revisionsOf(db)
        BY <1>2, <3>1, <3>3, ToldKnows
      <4>2. ListenerFollows(db, <<>>, mirror')
        BY <4>1 DEF ListenerFollows, revisionsOf, Rev
      <4> QED
        BY <1>3, <3>1, <3>2, <4>1, <4>2 DEF EventsAgree
    <3>4. CASE ~listening
      BY <1>2, <3>1, <3>2, <3>4 DEF EventsAgree
    <3> QED
      BY <3>3, <3>4
  <2> QED
    BY <2>1, <2>2, <2>3
<1> QED
  BY <1>1, <1>4 DEF Core, KeepsKeys, Leads

\* A step that leaves database, events and data alone keeps the core.
LEMMA IdleKeeps ==
    ASSUME Core, UNCHANGED <<db, eventVars, dataVars, spare>>
    PROVE  Core' /\ KeepsKeys(db, db')
<1>1. /\ db' = db /\ made' = made /\ disposals' = disposals /\ spare' = spare
      /\ pendingEvents' = pendingEvents /\ listening' = listening /\ mirror' = mirror
  BY DEF eventVars, dataVars
<1> QED
  BY <1>1 DEF Core, KeepsKeys, Leads

\* Each action keeps the invariant; a key leads elsewhere only after a hydrate.
LEMMA DatabaseStep ==
    ASSUME DisjointBatches, ~MayMerge, DatabaseInv, Next
    PROVE  /\ DatabaseInv'
           /\ KeepsKeys(db, db') \/ \E replace \in BOOLEAN : hydrate(replace)
<1>1. Core /\ SavedAgrees /\ RestoreAgrees /\ ImportsTyped
  BY DEF DatabaseInv
<1>2. ASSUME saved' = saved, restoreFailed' = restoreFailed
      PROVE  SavedAgrees' /\ RestoreAgrees'
  BY <1>1, <1>2 DEF SavedAgrees, RestoreAgrees, Live
<1>3. ASSUME importAt' = importAt PROVE ImportsTyped'
  BY <1>1, <1>3 DEF ImportsTyped
<1>4. ASSUME NEW n \in 1..MaxBatch, NEW W \in [1..n -> Writes], upsertMany(W)
      PROVE  DatabaseInv' /\ KeepsKeys(db, db')
  <2>1. UNCHANGED <<isDisposed, importAt, saved, restoreFailed>>
    BY <1>4 DEF upsertMany, restoreVars
  <2> QED
    BY <1>1, <1>2, <1>3, <1>4, <2>1, UpsertKeeps DEF DatabaseInv
<1>5. ASSUME NEW i \in Ids, NEW cascade \in BOOLEAN, delete(i, cascade)
      PROVE  DatabaseInv' /\ KeepsKeys(db, db')
  <2>1. UNCHANGED <<importAt, saved, restoreFailed>>
    BY <1>5 DEF delete, restoreVars
  <2> QED
    BY <1>1, <1>2, <1>3, <1>5, <2>1, DeleteKeeps DEF DatabaseInv
<1>6. CASE clear
  <2>1. UNCHANGED <<importAt, saved, restoreFailed>>
    BY <1>6 DEF clear, restoreVars
  <2> QED
    BY <1>1, <1>2, <1>3, <1>6, <2>1, ClearKeeps DEF DatabaseInv
<1>7. CASE dispose
  <2>1. UNCHANGED <<importAt, saved, restoreFailed>>
    BY <1>7 DEF dispose, restoreVars
  <2> QED
    BY <1>1, <1>2, <1>3, <1>7, <2>1, DisposeKeeps DEF DatabaseInv
<1>8. CASE snapshot
  <2>1. UNCHANGED <<db, eventVars, dataVars, spare, importAt>>
    BY <1>8 DEF snapshot, restoreVars
  <2> QED
    BY <1>1, <1>3, <1>8, <2>1, IdleKeeps, SnapshotAgrees DEF DatabaseInv
<1>9. CASE subscribe \/ unsubscribe \/ flushEvents
  <2>1. UNCHANGED <<importAt, saved, restoreFailed>>
    BY <1>9 DEF subscribe, unsubscribe, flushEvents, restoreVars
  <2> QED
    BY <1>1, <1>2, <1>3, <1>9, <2>1, ListenersKeep DEF DatabaseInv
<1>10. ASSUME NEW s \in Identities,
              unbindSourceIdentity(s) \/ \E i \in Ids : bindSourceIdentity(s, i)
       PROVE  DatabaseInv' /\ KeepsKeys(db, db')
  <2>1. UNCHANGED <<importAt, saved, restoreFailed>>
    BY <1>10 DEF unbindSourceIdentity, bindSourceIdentity, restoreVars
  <2> QED
    BY <1>1, <1>2, <1>3, <1>10, <2>1, BindingKeeps DEF DatabaseInv
<1>11. ASSUME NEW i \in Imports, import(i) \/ ImportFails(i)
       PROVE  DatabaseInv' /\ KeepsKeys(db, db')
  <2>1. UNCHANGED <<db, eventVars, dataVars, spare, saved, restoreFailed>>
    BY <1>11 DEF import, ImportFails, restoreVars
  <2>2. ImportsTyped'
    BY <1>1, <1>11 DEF ImportsTyped, import, ImportFails
  <2> QED
    BY <1>1, <1>2, <2>1, <2>2, IdleKeeps DEF DatabaseInv
<1>12. ASSUME NEW i \in Imports, ImportCommits(i)
       PROVE  DatabaseInv' /\ KeepsKeys(db, db')
  <2>1. UNCHANGED <<saved, restoreFailed>>
    BY <1>12 DEF ImportCommits, restoreVars
  <2>2. importAt' \in {[importAt EXCEPT ![i] = "done"], [importAt EXCEPT ![i] = "failed"]}
    BY <1>12 DEF ImportCommits
  <2>3. ImportsTyped'
    BY <1>1, <2>2 DEF ImportsTyped
  <2> QED
    BY <1>1, <1>2, <1>12, <2>1, <2>3, ImportKeeps DEF DatabaseInv
<1>13. ASSUME NEW replace \in BOOLEAN, hydrate(replace)
       PROVE  DatabaseInv' /\ \E again \in BOOLEAN : hydrate(again)
  <2>1. UNCHANGED <<importAt, saved>>
    BY <1>13 DEF hydrate
  <2>2. SavedAgrees'
    BY <1>1, <2>1 DEF SavedAgrees
  <2>3. Core' /\ RestoreAgrees'
    BY <1>1, <1>13, HydrateKeeps
  <2> QED
    BY <1>3, <1>13, <2>1, <2>2, <2>3 DEF DatabaseInv
<1> QED
  BY <1>4, <1>5, <1>6, <1>7, <1>8, <1>9, <1>10, <1>11, <1>12, <1>13 DEF Next

\* So does a stuttering step.
LEMMA DatabaseStutters == DatabaseInv /\ UNCHANGED vars => DatabaseInv'
BY IdleKeeps DEF DatabaseInv, vars, restoreVars, SavedAgrees, RestoreAgrees, ImportsTyped, Live

\* The invariant says what the properties say.
LEMMA DatabaseImplies ==
    ASSUME DatabaseInv PROVE DatabaseAgrees /\ DataDisposedOnce /\ ClosedSnapshotRestores
<1>1. /\ Agrees(db) /\ db \in Databases /\ Core
      /\ DataAgrees(db, made, disposals, spare) /\ EventsAgree(db, pendingEvents, listening, mirror)
  BY DEF DatabaseInv, Core, Agrees
<1>2. Bounds /\ None \notin Ids
  BY Constants DEF Bounds
<1>3. \A i : i \in Live(db) <=> i \in Ids /\ db.assets[i] # None
  BY DEF Live
<1>4. TypeOK
  <2>1. /\ \A i \in Ids : db.assets[i] \in Assets \union {None}
        /\ \A k \in Keys : db.keyIndex[k] \in Ids \union {None}
        /\ \A k \in Keys : db.aliasIndex[k] \in Ids \union {None}
        /\ db.revisions \in [Ids -> RevisionData]
        /\ db.dependents \in [Ids -> SUBSET Ids]
        /\ db.fingerprints \in [1..MaxData -> SUBSET Ids]
    BY <1>1, DatabaseFields
  <2>2. \A n \in 1..Len(pendingEvents) : pendingEvents[n].id \in Ids
    <3>1. \A n \in 1..Len(pendingEvents) : pendingEvents[n] \in Events
      BY <1>1, ElementOfSeq DEF EventsAgree
    <3> QED
      BY <3>1 DEF Events
  <2> QED
    BY <1>1, <2>1, <2>2
    DEF TypeOK, DatabaseInv, ImportsTyped, DataAgrees, EventsAgree, RevisionData
<1>5. KeysAgree
  BY <1>1, <1>3 DEF KeysAgree, Agrees, KeysBound
<1>6. DependentsAgree
  <2>1. \A i \in Ids : db.dependents[i] \in SUBSET Ids
    BY <1>1, DatabaseFields
  <2> QED
    BY <1>1, <1>3, <2>1 DEF DependentsAgree, Agrees, DependentsBound
<1>7. FingerprintsAgree
  <2>1. \A f \in 1..MaxData : db.fingerprints[f] \in SUBSET Ids
    BY <1>1, DatabaseFields
  <2> QED
    BY <1>1, <1>3, <2>1 DEF FingerprintsAgree, Agrees, FingerprintsBound
<1>8. BindingsAgree
  BY <1>1, <1>3 DEF BindingsAgree, Agrees, IdentitiesBound
<1>9. RevisionsComplete
  BY <1>1, <1>3 DEF RevisionsComplete, Agrees, RevisionsKept
<1>10. MirrorAgrees
  <2>1. SUFFICES ASSUME listening, pendingEvents = <<>> PROVE mirror = revisionsOf(db)
    BY DEF MirrorAgrees
  <2>2. ListenerFollows(db, <<>>, mirror) /\ mirror \in [Ids -> 0..MaxRevision]
    BY <1>1, <2>1 DEF EventsAgree
  <2>3. \A i \in Ids : about(<<>>, i) = {}
    BY DEF about
  <2>4. \A i \in Ids : mirror[i] = Rev(db, i)
    BY <2>2, <2>3 DEF ListenerFollows
  <2> QED
    BY <2>2, <2>4 DEF revisionsOf, Rev
<1>11. DataDisposedOnce
  <2>1. NoDisposerThrew <=> NoneThrew(disposals)
    BY DEF NoDisposerThrew, NoneThrew
  <2>2. \A d : d \in dataOf(Live(db)) <=> Has(db, d)
    BY <1>3 DEF dataOf, Has
  <2>3. UsableWhileStored
    BY <1>1, <1>3, <2>1 DEF UsableWhileStored, DataAgrees
  <2>4. DisposedWhenGone
    BY <1>1, <2>1, <2>2 DEF DisposedWhenGone, DataAgrees
  <2>5. SpareIsNeverDisposed
    BY <1>1, <2>2 DEF SpareIsNeverDisposed, DataAgrees
  <2> QED
    BY <2>3, <2>4, <2>5 DEF DataDisposedOnce
<1>12. ClosedSnapshotRestores
  BY DEF ClosedSnapshotRestores, DatabaseInv, RestoreAgrees
<1> QED
  BY <1>4, <1>5, <1>6, <1>7, <1>8, <1>9, <1>10, <1>11, <1>12 DEF DatabaseAgrees

\* In every state the maps of the database, the data of its assets, the pending events, the
\* snapshot and the imports agree as DatabaseInv says, for any ids, keys, writes and imports.
\* DisjointBatches and ~MayMerge exclude the two uses that break it: a batch that writes an
\* asset twice, and hydrate into a database with content that fails.
THEOREM DatabaseInvariant ==
    ASSUME DisjointBatches, ~MayMerge
    PROVE  Spec => []DatabaseInv
<1>1. DatabaseInv /\ [Next]_vars => DatabaseInv'
  BY DatabaseStep, DatabaseStutters
<1> QED
  BY <1>1, DatabaseInit, PTL DEF Spec

\* The indexes that upsert, delete, clear, hydrate and the imports keep up to date by hand are
\* what a look at all assets would give, and a listener that applied all events has every
\* asset at its revision.
THEOREM AssetsAgree ==
    ASSUME DisjointBatches, ~MayMerge
    PROVE  Spec => []DatabaseAgrees
BY DatabaseInvariant, DatabaseImplies, PTL

\* The data of an asset is disposed when the asset goes or gets other data and not before, and
\* once, as long as no disposer throws (disposeData in _runDisposers).  The data that hydrate
\* makes for the history of an asset, or for assets that it then refuses, never is.
THEOREM AssetDataDisposedOnce ==
    ASSUME DisjointBatches, ~MayMerge
    PROVE  Spec => []DataDisposedOnce
BY DatabaseInvariant, DatabaseImplies, PTL

\* hydrate fails only on a snapshot that lacks a dependency: one that has them all is restored.
THEOREM ClosedSnapshotsRestore ==
    ASSUME DisjointBatches, ~MayMerge
    PROVE  Spec => []ClosedSnapshotRestores
BY DatabaseInvariant, DatabaseImplies, PTL

\* A key that leads to an asset leads to it as long as the asset is there, whatever is
\* renamed, except when a snapshot is restored.
THEOREM AssetKeysAreKept ==
    ASSUME DisjointBatches, ~MayMerge
    PROVE  Spec => KeysAreKept
<1> DEFINE Kept == \A k \in Keys, i \in Ids :
                      boundTo(db, k) = i /\ i \in Live(db) /\ db'.assets[i] # None
                          => boundTo(db', k) = i \/ \E replace \in BOOLEAN : hydrate(replace)
<1>1. ASSUME DatabaseInv, Next PROVE Kept
  <2>1. CASE KeepsKeys(db, db')
    BY <2>1 DEF KeepsKeys, Leads, Live
  <2>2. CASE \E replace \in BOOLEAN : hydrate(replace)
    BY <2>2
  <2> QED
    BY <1>1, <2>1, <2>2, DatabaseStep
<1>2. ASSUME DatabaseInv, [Next]_vars PROVE [Kept]_vars
  BY <1>1, <1>2
<1> QED
  BY <1>2, DatabaseInvariant, PTL DEF Spec, KeysAreKept
=============================================================================
