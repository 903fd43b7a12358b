--------------------------- MODULE AssetDatabase ----------------------------
(***************************************************************************)
(* The asset database of @axrone/asset-core (database.ts with its          *)
(* transaction runtime and source catalog): assets under stable ids, found *)
(* by key, alias, fingerprint, revision, dependents and source identity.   *)
(* Every index is kept up to date by hand in each write and deletion.      *)
(*                                                                         *)
(* All calls are synchronous but import, which writes when its pipeline    *)
(* has answered, and the delivery of events, which is a microtask; the     *)
(* batch depth is 0 between two actions.  A call that throws stops where   *)
(* the code throws: what it changed before stays changed.                  *)
(*                                                                         *)
(* There is one kind, and every asset has a disposer.  Data objects are    *)
(* numbered as they are made, those that hydrate makes for the history of  *)
(* an asset included.  A write without an id is one with the id of no      *)
(* asset (its uuid), a write without a key one with the key its asset      *)
(* has or a key of its own.  An import writes its primary asset only.      *)
(***************************************************************************)
EXTENDS Integers, Sequences, FiniteSets, SequencesExt, Subsequences

CONSTANTS
    Ids, Keys, Identities,
    Writes,       \* the inputs of upsert: [id, key, aliases, dependencies, sameData]
    MaxBatch,     \* the longest list of upsertMany
    DisjointBatches, \* the writes of a batch are of different assets and keys
    Imports,      \* the calls of import()
    ImportOf,     \* ImportOf[i] is [write, identity], the result of the pipeline
    FailingData,  \* the data objects whose disposer throws
    MaxData,      \* bound: how many data objects are made
    MaxRevision,  \* bound of the revision of an asset
    MaxPending,   \* bound: calls are made with at most so many events pending
    MayMerge,     \* whether hydrate may be called with replace = false
    None

ASSUME SetsAssumption ==
    /\ IsFiniteSet(Ids) /\ IsFiniteSet(Keys) /\ IsFiniteSet(Identities)
    /\ None \notin Ids \union Keys \union Identities /\ Ids \intersect Keys = {}
ASSUME WritesAssumption ==
    /\ Writes \union {ImportOf[i].write : i \in Imports} \subseteq
          [id : Ids, key : Keys, aliases : SUBSET Keys,
           dependencies : SUBSET (Keys \union Ids), sameData : BOOLEAN]
    /\ \A i \in Imports : ImportOf[i].identity \in Identities \union {None}
ASSUME BoundsAssumption ==
    /\ MaxBatch \in Nat \ {0} /\ MaxData \in Nat /\ MaxRevision \in Nat /\ MaxPending \in Nat
    /\ FailingData \subseteq 1..MaxData
    /\ DisjointBatches \in BOOLEAN /\ MayMerge \in BOOLEAN

Assets == [id : Ids, key : Keys, aliases : SUBSET Keys, data : 1..MaxData,
           fingerprint : 1..MaxData, revision : 1..MaxRevision, dependencies : SUBSET Ids]
ASSUME NoneIsNoAsset == None \notin Assets

VARIABLES
    db,           \* the maps of the database, see EmptyDatabase
    pendingEvents, flushScheduled, isDisposed,
    importAt,     \* where each import is
    saved,        \* the last snapshot, None before
    listening,    \* a listener is subscribed that mirrors the revisions
    mirror,       \* the revisions it knows, 0 for no asset
    made,         \* history: the data objects 1..made were stored or restored
    disposals,    \* history: how often the disposer of each was called
    spare,        \* history: those that hydrate made and that were no asset's
    restoreFailed \* history: hydrate threw for a snapshot of this database

eventVars == <<pendingEvents, flushScheduled, listening, mirror>>
dataVars == <<made, disposals>>
restoreVars == <<spare, restoreFailed>>
vars == <<db, eventVars, isDisposed, importAt, saved, dataVars, restoreVars>>

\* revisionsById has the data of each revision of an asset, 0 for none.
NoRevisions == [r \in 1..MaxRevision |-> 0]
EmptyDatabase ==
    [assets |-> [i \in Ids |-> None],
     revisions |-> [i \in Ids |-> NoRevisions],
     keyIndex |-> [k \in Keys |-> None],
     aliasIndex |-> [k \in Keys |-> None],
     dependents |-> [i \in Ids |-> {}],
     fingerprints |-> [f \in 1..MaxData |-> {}],
     bindings |-> [s \in Identities |-> None],
     identities |-> [i \in Ids |-> {}]]

Init ==
    /\ db = EmptyDatabase
    /\ pendingEvents = <<>> /\ flushScheduled = FALSE /\ isDisposed = FALSE
    /\ importAt = [i \in Imports |-> "idle"]
    /\ saved = None
    /\ listening = FALSE /\ mirror = [i \in Ids |-> 0]
    /\ made = 0 /\ disposals = [d \in 1..MaxData |-> 0]
    /\ spare = {} /\ restoreFailed = FALSE

-----------------------------------------------------------------------------
(* Mutated forms, for the check that the properties detect plausible bugs *)

keptAliases_WithoutKey(previous) == previous.aliases
unlinkDependencies_Forgotten(dependents, a) == dependents
releasedAliases_Kept(D, S) == D.aliasIndex
replaced_SameDataToo(D, A) ==
    {D.assets[A[n].id].data : n \in {m \in 1..Len(A) : D.assets[A[m].id] # None}}

-----------------------------------------------------------------------------
(* Lookup *)

Live(D) == {i \in Ids : D.assets[i] # None}

\* The id a key or alias is bound to.
boundTo(D, k) == IF D.keyIndex[k] # None THEN D.keyIndex[k] ELSE D.aliasIndex[k]

resolveByKey(D, k) ==
    LET i == boundTo(D, k)
    IN  IF i = None THEN None ELSE IF D.assets[i] = None THEN None ELSE i

-----------------------------------------------------------------------------
(* Writing *)

\* The id a write is for: an explicit id wins when it is live, else the owner
\* of the key.
writtenId(D, w) ==
    IF D.assets[w.id] # None \/ resolveByKey(D, w.key) = None
    THEN w.id ELSE resolveByKey(D, w.key)

conflicts(D, w) ==
    /\ D.assets[w.id] # None
    /\ resolveByKey(D, w.key) \notin {None, w.id}

keptAliases(previous) == {previous.key} \union previous.aliases

\* data is the data object of the write.
prepareWrite(D, w, data) ==
    LET id == writtenId(D, w)
        previous == D.assets[id]
    IN  [id |-> id, key |-> w.key, data |-> data, fingerprint |-> data,
         aliases |-> (IF previous = None THEN w.aliases
                      ELSE w.aliases \union keptAliases(previous)) \ {w.key},
         revision |-> IF previous = None THEN 1 ELSE previous.revision + 1,
         inputs |-> w.dependencies]

\* A key is looked up in the batch P first, where the last write wins, then in
\* the database.  An element of Ids is a reference: it is not looked up.
dependencyId(D, P, input) ==
    LET holders == {n \in 1..Len(P) : input \in {P[n].key} \union P[n].aliases}
    IN  IF input \in Ids THEN input
        ELSE IF holders = {} THEN resolveByKey(D, input)
        ELSE P[CHOOSE n \in holders : \A m \in holders : m <= n].id

dependencyIds(D, P, p) == {dependencyId(D, P, input) : input \in p.inputs}

stored(D, P, p) ==
    [id |-> p.id, key |-> p.key, aliases |-> p.aliases, data |-> p.data,
     fingerprint |-> p.fingerprint, revision |-> p.revision,
     dependencies |-> dependencyIds(D, P, p)]

\* Each asset of A may have its key and aliases, as the database is before A.
ownsKeys(D, a) ==
    \A k \in {a.key} \union a.aliases : boundTo(D, k) \in {None, a.id}

linkDependencies(dependents, a) ==
    [i \in Ids |-> IF i \in a.dependencies THEN dependents[i] \union {a.id} ELSE dependents[i]]
unlinkDependencies(dependents, a) ==
    [i \in Ids |-> IF i \in a.dependencies THEN dependents[i] \ {a.id} ELSE dependents[i]]

\* The database without the entries of asset a that a new revision replaces.
unindex(D, a) ==
    [D EXCEPT !.dependents = unlinkDependencies(@, a),
              !.fingerprints[a.fingerprint] = @ \ {a.id},
              !.keyIndex[a.key] = None,
              !.aliasIndex = [k \in Keys |->
                  IF k \in a.aliases /\ @[k] = a.id THEN None ELSE @[k]]]

storeRevision(revisions, a, previous) ==
    [r \in 1..MaxRevision |->
        IF r = a.revision THEN a.data
        ELSE IF previous # None /\ r = previous.revision THEN previous.data
        ELSE revisions[r]]

\* The last part of commitStoredAssets for one asset; before is the database
\* before the batch.
commitAsset(D, before, a) ==
    LET previous == before.assets[a.id]
        cleared == IF previous = None THEN D ELSE unindex(D, previous)
    IN  [cleared EXCEPT
            !.revisions[a.id] = storeRevision(@, a, previous),
            !.assets[a.id] = a,
            !.keyIndex[a.key] = a.id,
            !.aliasIndex = [k \in Keys |->
                IF k \in a.aliases THEN a.id ELSE IF k = a.key THEN None ELSE @[k]],
            !.fingerprints[a.fingerprint] = @ \union {a.id},
            !.dependents = linkDependencies(@, a)]

\* One asset after the other.
commitAll(D, A) ==
    LET after[n \in 0..Len(A)] ==
            IF n = 0 THEN D ELSE commitAsset(after[n - 1], D, A[n])
    IN  after[Len(A)]

\* The data objects a commit of A replaces.
replaced(D, A) ==
    {D.assets[A[n].id].data : n \in {m \in 1..Len(A) :
        D.assets[A[m].id] # None /\ D.assets[A[m].id].data # A[m].data}}

upsertEvents(A) == [n \in 1..Len(A) |-> [type |-> "upsert", id |-> A[n].id, revision |-> A[n].revision]]

\* emitLeaf and the end of the batch.
emit(events) ==
    /\ Len(pendingEvents) <= MaxPending
    /\ pendingEvents' = pendingEvents \o events
    /\ flushScheduled' = (pendingEvents' # <<>>)
    /\ UNCHANGED <<listening, mirror>>

\* runDisposers calls all of them, also when one throws.
runDisposers(S) ==
    disposals' = [d \in 1..MaxData |->
                     IF d \in S /\ disposals[d] < 2 THEN disposals[d] + 1 ELSE disposals[d]]

\* The data objects of the writes W are the next ones, or those they replace.
newData(W, n) == made + UpTo({m \in 1..Len(W) : ~W[m].sameData}, n)
prepared(W) ==
    [n \in 1..Len(W) |->
        prepareWrite(db, W[n],
            IF W[n].sameData THEN db.assets[writtenId(db, W[n])].data ELSE newData(W, n))]

\* What the caller can pass, within the bounds.
callable(W) ==
    /\ \A n \in 1..Len(W) : W[n].sameData => db.assets[writtenId(db, W[n])] # None
    /\ newData(W, Len(W)) <= MaxData
    /\ \A n \in 1..Len(W) : prepared(W)[n].revision <= MaxRevision

\* applyWrites reaches the disposers; if not, it threw and changed nothing.
accepted(W) ==
    LET P == prepared(W)
    IN  \A n \in 1..Len(W) :
            /\ ~conflicts(db, W[n])
            /\ None \notin dependencyIds(db, P, P[n])
            /\ ownsKeys(db, stored(db, P, P[n]))

assetsOf(W) == LET P == prepared(W) IN [n \in 1..Len(W) |-> stored(db, P, P[n])]

disjoint(A) ==
    \A m, n \in 1..Len(A) : m # n =>
        /\ A[m].id # A[n].id
        /\ ({A[m].key} \union A[m].aliases) \intersect ({A[n].key} \union A[n].aliases) = {}

upsertMany(W) ==
    /\ ~isDisposed
    /\ callable(W) /\ accepted(W)
    /\ LET A == assetsOf(W)
           old == replaced(db, A)
       IN  /\ DisjointBatches => disjoint(A)
           /\ runDisposers(old)
           /\ IF old \intersect FailingData # {}
              THEN UNCHANGED <<db, eventVars, made>>
              ELSE /\ db' = commitAll(db, A)
                   /\ made' = newData(W, Len(W))
                   /\ emit(upsertEvents(A))
    /\ UNCHANGED <<isDisposed, importAt, saved, restoreVars>>

-----------------------------------------------------------------------------
(* Source identities *)

bind(D, s, i) ==
    [D EXCEPT !.bindings[s] = i,
              !.identities = [j \in Ids |-> IF j = i THEN @[j] \union {s} ELSE @[j] \ {s}]]

unbind(D, s) == [D EXCEPT !.bindings[s] = None, !.identities[D.bindings[s]] = @ \ {s}]

bindSourceIdentity(s, i) ==
    /\ ~isDisposed /\ i \in Live(db)
    /\ db' = bind(db, s, i)
    /\ UNCHANGED <<eventVars, isDisposed, importAt, saved, dataVars, restoreVars>>

unbindSourceIdentity(s) ==
    /\ ~isDisposed /\ db.bindings[s] # None
    /\ db' = unbind(db, s)
    /\ UNCHANGED <<eventVars, isDisposed, importAt, saved, dataVars, restoreVars>>

-----------------------------------------------------------------------------
(* Deleting *)

\* collectDeleteOrder as a set: what every set has that contains S and with
\* an asset all its live dependents.
hasAllDependents(D, T) == \A i \in T : D.dependents[i] \intersect Live(D) \subseteq T
withDependents(D, S) ==
    {j \in Ids : \A T \in SUBSET Ids : S \subseteq T /\ hasAllDependents(D, T) => j \in T}

releasedAliases(D, S) ==
    [k \in Keys |-> IF \E i \in S : D.aliasIndex[k] = i /\ k \in D.assets[i].aliases
                    THEN None ELSE D.aliasIndex[k]]
removeIds(D, S) ==
    [D EXCEPT
        !.assets = [i \in Ids |-> IF i \in S THEN None ELSE @[i]],
        !.revisions = [i \in Ids |-> IF i \in S THEN NoRevisions ELSE @[i]],
        !.keyIndex = [k \in Keys |-> IF \E i \in S : D.assets[i].key = k THEN None ELSE @[k]],
        !.aliasIndex = releasedAliases(D, S),
        !.fingerprints = [f \in 1..MaxData |->
            {i \in @[f] : i \in S => D.assets[i].fingerprint # f}],
        !.dependents = [i \in Ids |->
            IF i \in S THEN {} ELSE {j \in @[i] : j \in S => i \notin D.assets[j].dependencies}],
        !.bindings = [s \in Identities |-> IF \E i \in S : s \in D.identities[i] THEN None ELSE @[s]],
        !.identities = [i \in Ids |-> IF i \in S THEN {} ELSE @[i]]]

deleteEvents(S) ==
    LET order == SetToSeq(S)
    IN  [n \in 1..Len(order) |-> [type |-> "delete", id |-> order[n], revision |-> 0]]

dataOf(S) == {db.assets[i].data : i \in S}

deleteIds(S) ==
    /\ runDisposers(dataOf(S))
    /\ IF dataOf(S) \intersect FailingData # {}
       THEN UNCHANGED <<db, eventVars>>
       ELSE db' = removeIds(db, S) /\ emit(deleteEvents(S))

hasDependents(i) == db.dependents[i] \intersect Live(db) # {}

delete(i, cascade) ==
    /\ ~isDisposed /\ i \in Live(db)
    /\ cascade \/ ~hasDependents(i)
    /\ deleteIds(IF cascade THEN withDependents(db, {i}) ELSE {i})
    /\ UNCHANGED <<isDisposed, importAt, saved, made, restoreVars>>

clear ==
    /\ ~isDisposed /\ Live(db) # {}
    /\ deleteIds(Live(db))
    /\ UNCHANGED <<isDisposed, importAt, saved, made, restoreVars>>

dispose ==
    /\ ~isDisposed
    /\ isDisposed' = TRUE
    /\ runDisposers(dataOf(Live(db)))
    /\ db' = IF dataOf(Live(db)) \intersect FailingData # {} THEN db ELSE removeIds(db, Live(db))
    /\ pendingEvents' = <<>>
    /\ flushScheduled' = (flushScheduled \/ db' # db)
    /\ listening' = FALSE
    /\ UNCHANGED <<mirror, importAt, saved, made, restoreVars>>

-----------------------------------------------------------------------------
(* import *)

import(i) ==
    /\ ~isDisposed /\ importAt[i] = "idle"
    /\ importAt' = [importAt EXCEPT ![i] = "pipeline"]
    /\ UNCHANGED <<db, eventVars, isDisposed, saved, dataVars, restoreVars>>

\* A bound source identity names the asset, else the key does, else it is new.
importIds(o) ==
    IF o.identity # None /\ db.bindings[o.identity] # None THEN {db.bindings[o.identity]}
    ELSE IF resolveByKey(db, o.write.key) # None THEN {resolveByKey(db, o.write.key)}
    ELSE Ids \ Live(db)

\* The pipeline answered.  Whether the database was disposed is not asked.
ImportCommits(i) ==
    /\ importAt[i] = "pipeline"
    /\ \E id \in importIds(ImportOf[i]) :
         LET W == <<[ImportOf[i].write EXCEPT !.id = id]>>
             s == ImportOf[i].identity
             A == assetsOf(W)
             old == replaced(db, A)
             D == commitAll(db, A)
         IN  /\ callable(W)
             /\ IF accepted(W) /\ old \intersect FailingData = {}
                THEN /\ db' = IF s = None THEN D ELSE bind(D, s, A[1].id)
                     /\ made' = newData(W, 1)
                     /\ emit(upsertEvents(A) \o
                             <<[type |-> "import", id |-> A[1].id, revision |-> A[1].revision]>>)
                     /\ importAt' = [importAt EXCEPT ![i] = "done"]
                ELSE /\ importAt' = [importAt EXCEPT ![i] = "failed"]
                     /\ UNCHANGED <<db, eventVars, made>>
             /\ runDisposers(IF accepted(W) THEN old ELSE {})
    /\ UNCHANGED <<isDisposed, saved, restoreVars>>

ImportFails(i) ==
    /\ importAt[i] = "pipeline"
    /\ importAt' = [importAt EXCEPT ![i] = "failed"]
    /\ UNCHANGED <<db, eventVars, isDisposed, saved, dataVars, restoreVars>>

-----------------------------------------------------------------------------
(* snapshot and hydrate *)

\* The revisions of an asset that can be resolved.
kept(D, i) == {r \in 1..MaxRevision : D.revisions[i][r] # 0}

\* One snapshot is taken.  The history of an asset are its older revisions.
snapshot ==
    /\ ~isDisposed /\ saved = None
    /\ saved' = [assets |-> db.assets,
                 history |-> [i \in Ids |-> {r \in kept(db, i) :
                                 db.assets[i] # None /\ r < db.assets[i].revision}],
                 bindings |-> db.bindings]
    /\ UNCHANGED <<db, eventVars, isDisposed, importAt, dataVars, restoreVars>>

\* The assets of the snapshot with data objects of their own.
restored ==
    LET order == SetToSeq(Live(saved))
    IN  [n \in 1..Len(order) |-> [saved.assets[order[n]] EXCEPT !.data = made + n]]

\* bind for each identity of the snapshot; no two of them touch the same entry.
bindAll(D) ==
    [D EXCEPT
        !.bindings = [s \in Identities |-> IF saved.bindings[s] = None THEN @[s] ELSE saved.bindings[s]],
        !.identities = [i \in Ids |-> {s \in Identities :
            IF saved.bindings[s] = None THEN s \in @[i] ELSE saved.bindings[s] = i}]]

\* The revisions of the history have data objects of their own too.
histories == SetToSeq({e \in Ids \X (1..MaxRevision) : e[2] \in saved.history[e[1]]})
historyData(i, r) ==
    made + Len(restored) + (CHOOSE n \in 1..Len(histories) : histories[n] = <<i, r>>)

stageHistory(D) ==
    [D EXCEPT !.revisions = [i \in Ids |->
        IF saved.history[i] = {} THEN @[i]
        ELSE [r \in 1..MaxRevision |-> IF r \in saved.history[i] THEN historyData(i, r) ELSE 0]]]

\* D is the database after the deletion, gone the data it deleted.  The
\* history is stored before the dependencies are looked at.  No disposer will
\* be called for its data, nor for the data of assets that are refused.
hydrateInto(D, gone, events) ==
    LET A == restored
        S == stageHistory(D)
        complete == \A n \in 1..Len(A) : A[n].dependencies \subseteq Live(D) \union Live(saved)
        free == \A n \in 1..Len(A) : ownsKeys(D, A[n])
        old == IF complete /\ free THEN replaced(D, A) ELSE {}
    IN  /\ made + Len(A) + Len(histories) <= MaxData
        /\ made' = made + Len(A) + Len(histories)
        /\ runDisposers(gone \union old)
        /\ IF complete /\ free /\ old \intersect FailingData = {}
           THEN /\ db' = bindAll(commitAll(S, A))
                /\ spare' = spare \union ((made + Len(A) + 1)..made')
                /\ emit(events \o upsertEvents(A))
                /\ UNCHANGED restoreFailed
           ELSE /\ db' = S
                /\ emit(events)
                /\ spare' = spare \union ((made + 1)..made')
                /\ restoreFailed' = TRUE

hydrate(replace) ==
    /\ ~isDisposed /\ saved # None
    /\ IF ~replace
       THEN MayMerge /\ hydrateInto(db, {}, <<>>)
       ELSE LET gone == dataOf(Live(db))
            IN  IF gone \intersect FailingData # {}
                THEN runDisposers(gone) /\ UNCHANGED <<db, eventVars, made, restoreVars>>
                ELSE hydrateInto(removeIds(db, Live(db)), gone, deleteEvents(Live(db)))
    /\ UNCHANGED <<isDisposed, importAt, saved>>

-----------------------------------------------------------------------------
(* Events *)

revisionsOf(D) == [i \in Ids |-> IF D.assets[i] = None THEN 0 ELSE D.assets[i].revision]

\* The listener reads the database when it subscribes.
subscribe ==
    /\ ~isDisposed /\ ~listening
    /\ listening' = TRUE
    /\ mirror' = revisionsOf(db)
    /\ UNCHANGED <<db, pendingEvents, flushScheduled, isDisposed, importAt, saved, dataVars,
                   restoreVars>>

unsubscribe ==
    /\ listening
    /\ listening' = FALSE
    /\ mirror' = [i \in Ids |-> 0]
    /\ UNCHANGED <<db, pendingEvents, flushScheduled, isDisposed, importAt, saved, dataVars,
                   restoreVars>>

\* What a listener knows that knew m: of each asset, what the last event says.
about(events, i) == {n \in 1..Len(events) : events[n].id = i}
isLast(events, n) == \A k \in about(events, events[n].id) : k <= n
told(m, events) ==
    [i \in Ids |-> IF about(events, i) = {} THEN m[i]
                   ELSE events[CHOOSE n \in about(events, i) : isLast(events, n)].revision]

flushEvents ==
    /\ flushScheduled
    /\ flushScheduled' = FALSE
    /\ pendingEvents' = <<>>
    /\ mirror' = IF listening THEN told(mirror, pendingEvents) ELSE mirror
    /\ UNCHANGED <<db, listening, isDisposed, importAt, saved, dataVars, restoreVars>>

Next ==
    \/ \E n \in 1..MaxBatch : \E W \in [1..n -> Writes] : upsertMany(W)
    \/ \E i \in Ids, cascade \in BOOLEAN : delete(i, cascade)
    \/ clear \/ dispose \/ snapshot \/ subscribe \/ unsubscribe \/ flushEvents
    \/ \E s \in Identities : unbindSourceIdentity(s) \/ \E i \in Ids : bindSourceIdentity(s, i)
    \/ \E i \in Imports : import(i) \/ ImportCommits(i) \/ ImportFails(i)
    \/ \E replace \in BOOLEAN : hydrate(replace)

Spec == Init /\ [][Next]_vars

-----------------------------------------------------------------------------
(* Properties *)

TypeOK ==
    /\ \A i \in Ids : db.assets[i] \in Assets \union {None}
    /\ \A k \in Keys : db.keyIndex[k] \in Ids \union {None}
    /\ \A k \in Keys : db.aliasIndex[k] \in Ids \union {None}
    /\ db.revisions \in [Ids -> [1..MaxRevision -> 0..MaxData]]
    /\ db.dependents \in [Ids -> SUBSET Ids]
    /\ db.fingerprints \in [1..MaxData -> SUBSET Ids]
    /\ importAt \in [Imports -> {"idle", "pipeline", "done", "failed"}]
    /\ \A n \in 1..Len(pendingEvents) : pendingEvents[n].id \in Ids
    /\ disposals \in [1..MaxData -> 0..2] /\ made \in 0..MaxData /\ spare \subseteq 1..made
    /\ mirror \in [Ids -> 0..MaxRevision]

\* keyIndex and aliasIndex bind exactly the keys and aliases of the assets, so
\* that no key belongs to two assets, through moves, deletions and restores.
KeysAgree ==
    \A k \in Keys :
        /\ \A i \in Ids : db.keyIndex[k] = i <=> i \in Live(db) /\ db.assets[i].key = k
        /\ \A i \in Ids : db.aliasIndex[k] = i <=> i \in Live(db) /\ k \in db.assets[i].aliases
        /\ db.keyIndex[k] = None \/ db.aliasIndex[k] = None

\* dependentsById is the inverse of the dependencies of the assets, which
\* delete relies on to refuse or to cascade.
DependentsAgree ==
    \A i \in Ids : db.dependents[i] = {j \in Live(db) : i \in db.assets[j].dependencies}

\* A query by fingerprint finds the assets that have it and no others.
FingerprintsAgree ==
    \A f \in 1..MaxData : db.fingerprints[f] = {i \in Live(db) : db.assets[i].fingerprint = f}

\* Source identities are bound to assets that exist, in both maps.
BindingsAgree ==
    \A s \in Identities, i \in Ids :
        /\ db.bindings[s] = i <=> s \in db.identities[i]
        /\ db.bindings[s] = i => i \in Live(db)

\* Every revision of an asset since it was made can be resolved, and the last
\* one has the data of the asset.
RevisionsComplete ==
    \A i \in Live(db) :
        /\ 1..db.assets[i].revision \subseteq kept(db, i)
        /\ db.revisions[i][db.assets[i].revision] = db.assets[i].data

\* A listener that applies the events it gets knows the database whenever no
\* event is pending.
MirrorAgrees ==
    listening /\ pendingEvents = <<>> => mirror = revisionsOf(db)

\* Whatever is written, moved, imported, deleted and restored, every index,
\* both maps of source identities and what a listener knows describe the assets
\* that are stored.
DatabaseAgrees ==
    /\ TypeOK /\ KeysAgree /\ DependentsAgree /\ FingerprintsAgree /\ BindingsAgree
    /\ RevisionsComplete /\ MirrorAgrees

NoDisposerThrew == \A d \in FailingData : disposals[d] = 0

\* As long as no disposer threw, the data of an asset in the database has not
\* been disposed, whichever assets share a batch or a cascade with it.
UsableWhileStored ==
    NoDisposerThrew => \A i \in Live(db) : disposals[db.assets[i].data] = 0

\* Data that was an asset's and is no more has been disposed, and once if no
\* disposer threw.
DisposedWhenGone ==
    \A d \in (1..made) \ (dataOf(Live(db)) \union spare) :
        disposals[d] >= 1 /\ (NoDisposerThrew => disposals[d] = 1)

\* What hydrate made for a history, or of a snapshot it then refused, no asset
\* has and no disposer gets, kept in revisionsById or dropped from it.
SpareIsNeverDisposed ==
    \A d \in spare : d \notin dataOf(Live(db)) /\ disposals[d] = 0

\* Disposers run exactly for the data that was an asset's and is no more.
DataDisposedOnce == UsableWhileStored /\ DisposedWhenGone /\ SpareIsNeverDisposed

\* A disposed database holds no asset: all operations refuse to work on it.
DisposedIsEmpty == isDisposed => Live(db) = {}

\* hydrate fails only for a snapshot in which a dependency is missing: keys,
\* aliases and the order in which assets depend on each other never stop it.
ClosedSnapshotRestores ==
    restoreFailed => \E i \in Live(saved) : ~(saved.assets[i].dependencies \subseteq Live(saved))

\* A key that leads to an asset leads to it until the asset is deleted or a
\* snapshot restored, whatever key the asset moves to.
KeysAreKept ==
    [][\A k \in Keys, i \in Ids :
          boundTo(db, k) = i /\ i \in Live(db) /\ db'.assets[i] # None
              => boundTo(db', k) = i \/ \E replace \in BOOLEAN : hydrate(replace)]_vars
=============================================================================
