---------------------------- MODULE InputSystem ----------------------------
(***************************************************************************)
(* The input system (packages/input): contexts that bind controls to       *)
(* buttons, users that own devices, the session of a rebinding, and the    *)
(* evaluation of one frame.  Controls are digital: 1 while down.  A call   *)
(* that throws before it changed anything is not a step.                   *)
(***************************************************************************)
EXTENDS Integers, Sequences, FiniteSets, SequencesExt, Subsequences

CONSTANTS
    Contexts, Actions, Controls, Users,
    Gamepads,     \* the devices with an exclusive owner
    Devices,      \* all devices
    DeviceOf,     \* control -> device
    Definitions,  \* the definitions of contexts that callers use
    UserDefinitions, \* those of users
    Lists, ContextPriorities, \* the lists of bindings and the priorities that they set
    RebindingRequests, \* the requests for a rebinding session
    InitialContexts, InitialUsers, \* the options of the constructor
    MaxConfigured,   \* bound: calls that configure the system
    MaxSessions   \* bound: rebinding sessions

Nobody == "nobody"
Nowhere == "nowhere"
NoSession == [token |-> 0]
NotAsked == [session |-> NoSession]
NoSnapshot == [contexts |-> <<>>]
Bindings == [action : Actions, current : Seq(Controls), defaults : Seq(Controls)]
ContextDefinitions ==
    [id : Contexts, priority : Nat, enabled : BOOLEAN, capture : BOOLEAN, user : Users \cup {Nobody},
     actions : Seq([action : Actions, bindings : Seq(Controls)])]
DefinitionsOfUsers == [id : Users, enabled : BOOLEAN, devices : SUBSET Devices]
Targets == [context : Contexts, action : Actions, index : Nat, devices : SUBSET Devices, timed : BOOLEAN]

\* The constructor throws for a context whose user is not there.
InputAssumption ==
    /\ IsFiniteSet(Contexts) /\ IsFiniteSet(Users) /\ Nobody \notin Users /\ Nowhere \notin Contexts
    /\ Gamepads \subseteq Devices /\ DeviceOf \in [Controls -> Devices]
    /\ Definitions \subseteq ContextDefinitions /\ UserDefinitions \subseteq DefinitionsOfUsers
    /\ Lists \subseteq Seq(Controls) /\ ContextPriorities \subseteq Nat
    /\ RebindingRequests \subseteq Targets
    /\ InitialContexts \in Seq(ContextDefinitions) /\ InitialUsers \in Seq(DefinitionsOfUsers)
    /\ \A n \in 1..Len(InitialContexts) :
          \/ InitialContexts[n].user = Nobody
          \/ \E m \in 1..Len(InitialUsers) : InitialUsers[m].id = InitialContexts[n].user
    /\ {MaxConfigured, MaxSessions} \subseteq Nat

VARIABLES
    table,        \* contexts by id; ids by sequence stamp; the cached order and its dirty flag
    users,        \* user -> enabled and devices
    owners,       \* gamepad -> its owner in _gamepadOwners
    rebinding,    \* the session, sessions begun, what each was told, handles disposed of, sessions
                  \* overwritten untold and sessions that completed after they had ended
    asked,        \* the session and the control whose accept handler runs
    updating,     \* an update waits for that handler, and then evaluates
    down,         \* controls that are down for the system
    pads,         \* gamepad controls that are down at the device
    button,       \* action -> value, context, and the controls that held it down
    taps,         \* the taps of the last step
    reconfigured, \* bindings or owners changed since the last frame
    saved,        \* a snapshot
    configured,      \* configuring calls made
    inputGone     \* _disposed

configVars == <<table, users, owners, rebinding>>
buttonVars == <<button, taps>>
askedVars == <<asked, updating>>
inputVars == <<configVars, askedVars, down, pads, buttonVars, reconfigured, saved, configured, inputGone>>

PadControls == {k \in Controls : DeviceOf[k] \in Gamepads}
Known(t) == DOMAIN t.contexts

ContextRecords ==
    [priority : Nat, enabled : BOOLEAN, capture : BOOLEAN, user : Users \cup {Nobody},
     actions : Seq(Bindings)]
InputTypeOK ==
    /\ Known(table) \subseteq Contexts
    /\ \A c \in Known(table) : table.contexts[c] \in ContextRecords
    /\ table.dirty \in BOOLEAN /\ table.recency \in Seq(Contexts) /\ table.ordered \in Seq(Contexts)
    /\ \A u \in DOMAIN users : u \in Users /\ users[u] \in [enabled : BOOLEAN, devices : SUBSET Devices]
    /\ owners \in [Gamepads -> Users \cup {Nobody}]
    /\ rebinding.begun \in 0..MaxSessions
    /\ DOMAIN rebinding.told = 1..rebinding.begun
    /\ asked # NotAsked => asked.control \in Controls /\ asked.session.token \in 1..rebinding.begun
    /\ updating \in BOOLEAN
    /\ down \subseteq Controls /\ pads \subseteq PadControls
    /\ button \in [Actions -> [value : BOOLEAN, context : Contexts \cup {Nowhere}, held : SUBSET Controls]]
    /\ reconfigured \in BOOLEAN /\ configured \in 0..MaxConfigured /\ inputGone \in BOOLEAN

-----------------------------------------------------------------------------
(* Mutated forms, for the check that the properties detect plausible bugs   *)

interrupted_KeyOnly(t, us, os, dn, a) == FALSE
ended_StaysActive(rb, reason) == [rb EXCEPT !.told[rb.session.token] = Append(@, reason)]

-----------------------------------------------------------------------------
(* Contexts and their bindings                                             *)

Stamp(t, c) == CHOOSE n \in DOMAIN t.recency : t.recency[n] = c
Precedes(t, c, d) ==
    \/ t.contexts[c].priority > t.contexts[d].priority
    \/ /\ t.contexts[c].priority = t.contexts[d].priority
       /\ Stamp(t, c) > Stamp(t, d)
Sorted(t) == InOrder(Known(t), {p \in Known(t) \X Known(t) : Precedes(t, p[1], p[2])})
getOrderedContexts(t) == IF t.dirty THEN [t EXCEPT !.ordered = Sorted(t), !.dirty = FALSE] ELSE t

\* _contextOrderDirty = true
reordered(t) == [t EXCEPT !.dirty = TRUE]
stamped(t, c) == [t EXCEPT !.recency = Append(Keep(@, Contexts \ {c}), c)]

Entry(context, a) ==
    LET at == {n \in DOMAIN context.actions : context.actions[n].action = a}
    IN  IF at = {} THEN 0 ELSE CHOOSE n \in at : TRUE

\* _requireContextAction: an action without an entry gets an empty one.
requireContextAction(t, c, a) ==
    IF Entry(t.contexts[c], a) # 0 THEN t
    ELSE [t EXCEPT !.contexts[c].actions =
                Append(@, [action |-> a, current |-> <<>>, defaults |-> <<>>])]
Current(t, c, a) ==
    LET n == Entry(t.contexts[c], a)
    IN  IF n = 0 THEN <<>> ELSE t.contexts[c].actions[n].current
rebound(t, c, a, list) ==
    LET required == requireContextAction(t, c, a)
    IN  [required EXCEPT !.contexts[c].actions[Entry(required.contexts[c], a)].current = list]
reset(t, c, as) ==
    LET original(entry) == [entry EXCEPT !.current = entry.defaults]
    IN  [t EXCEPT !.contexts[c].actions =
            [n \in DOMAIN @ |-> IF @[n].action \in as THEN original(@[n]) ELSE @[n]]]

ContextOf(def) ==
    [priority |-> def.priority, enabled |-> def.enabled, capture |-> def.capture,
     user |-> def.user,
     actions |-> [n \in DOMAIN def.actions |->
                    [action |-> def.actions[n].action, current |-> def.actions[n].bindings,
                     defaults |-> def.actions[n].bindings]]]
upsertedContext(t, def) ==
    reordered(stamped(
        [t EXCEPT !.contexts = [c \in Known(t) \cup {def.id} |->
                                    IF c = def.id THEN ContextOf(def) ELSE t.contexts[c]]], def.id))
\* One definition after the other.
upsertedContexts(t, defs) ==
    LET after[n \in 0..Len(defs)] == IF n = 0 THEN t ELSE upsertedContext(after[n - 1], defs[n])
    IN  after[Len(defs)]

-----------------------------------------------------------------------------
(* Users and the owners of gamepads                                        *)

\* The devices of u; a gamepad leaves the owner it had.
given(us, os, u, ds) ==
    [users |-> [v \in DOMAIN us \cup {u} |->
                  IF v = u THEN [us[u] EXCEPT !.devices = @ \cup ds]
                  ELSE [us[v] EXCEPT !.devices = @ \ {i \in ds \cap Gamepads : os[i] = v}]],
     owners |-> [i \in Gamepads |-> IF i \in ds THEN u ELSE os[i]]]
upsertedUser(us, os, def) ==
    LET fresh == [enabled |-> def.enabled, devices |-> {}]
        before == IF def.id \in DOMAIN us THEN us[def.id].devices ELSE {}
    IN  given([v \in DOMAIN us \cup {def.id} |-> IF v = def.id THEN fresh ELSE us[v]],
              [i \in Gamepads |-> IF i \in before THEN Nobody ELSE os[i]],
              def.id, def.devices)
upsertedUsers(us, os, defs) ==
    LET after[n \in 0..Len(defs)] ==
            IF n = 0 THEN [users |-> us, owners |-> os]
            ELSE upsertedUser(after[n - 1].users, after[n - 1].owners, defs[n])
    IN  after[Len(defs)]

Accessible(us, os, u, k) ==
    \/ u = Nobody
    \/ /\ u \in DOMAIN us /\ us[u].enabled
       /\ IF DeviceOf[k] \in Gamepads THEN os[DeviceOf[k]] = u ELSE DeviceOf[k] \in us[u].devices
\* evaluateControlBinding is not 0.
Reads(t, us, os, dn, c, k) == k \in dn /\ Accessible(us, os, t.contexts[c].user, k)

-----------------------------------------------------------------------------
(* The session of a rebinding                                              *)

\* resolveBindingTarget: the context is there, and so is the binding of an
\* index; index 0 stands for a request without one, which appends.
Resolves(t, r) ==
    /\ r.context \in Known(t)
    /\ r.index = 0 \/ r.index <= Len(Current(t, r.context, r.action))

opened(rb, r) ==
    [rb EXCEPT !.begun = @ + 1,
               !.told = Append(@, <<>>),
               !.session = [token |-> rb.begun + 1, request |-> r, touched |-> FALSE]]

Active(rb, n) == rb.session # NoSession /\ rb.session.token = n

\* The session is forgotten, then its handler is called.
ended(rb, reason) ==
    [rb EXCEPT !.told[rb.session.token] = Append(@, reason), !.session = NoSession]

\* cancelRebindingSession; the cancel handler may begin a session, again.
MayBegin(t, rb, again) ==
    again # NoSession => again \in RebindingRequests /\ rb.begun < MaxSessions /\ Resolves(t, again)
entered(t, again) ==
    IF again = NoSession THEN t ELSE requireContextAction(t, again.context, again.action)
cancelled(rb, reason, again) ==
    IF rb.session = NoSession THEN rb
    ELSE IF again = NoSession THEN ended(rb, reason) ELSE opened(ended(rb, reason), again)

\* begin overwrites what the cancel handler of the replaced session began.
Overwritten(rb, again) ==
    IF rb.session # NoSession /\ again # NoSession THEN {rb.begun + 1} ELSE {}

rebindingChanged(rb) == IF rb.session = NoSession THEN rb ELSE [rb EXCEPT !.session.touched = TRUE]

\* captureRebindingCandidate for control k asks the accept handler of the
\* session.  The handler may call the system, so that it may have ended that
\* session, and another may have begun, when it agrees.
Admits(rb, k) ==
    /\ rb.session # NoSession
    /\ rb.session.request.devices = {} \/ DeviceOf[k] \in rb.session.request.devices
Question(rb, k) == [session |-> rb.session, control |-> k]

Bound(t, r, k) ==
    LET list == Current(t, r.context, r.action)
    IN  rebound(t, r.context, r.action,
                IF r.index = 0 THEN Append(list, k) ELSE [list EXCEPT ![r.index] = k])

\* Session s completes, and the session there is is forgotten.
concluded(rb, s) ==
    IF Active(rb, s.token) THEN ended(rb, "complete")
    ELSE [rb EXCEPT !.told[s.token] = Append(@, "complete"),
                    !.late = @ \cup {s.token},
                    !.lost = IF rb.session = NoSession THEN @ ELSE @ \cup {rb.session.token},
                    !.session = NoSession]

-----------------------------------------------------------------------------
(* One frame                                                               *)

\* Where the bindings of enabled contexts are: the place of the context in the
\* order, of the action in the context, and of the binding; and their order.
BindingPlaces(t) ==
    UNION {LET actions == t.contexts[t.ordered[n]].actions
           IN  UNION {{<<n, m, b>> : b \in DOMAIN actions[m].current} : m \in DOMAIN actions} :
              n \in {k \in 1..Len(t.ordered) : t.contexts[t.ordered[k]].enabled}}
EvaluatedBefore(p, q) ==
    \/ p[1] < q[1]
    \/ p[1] = q[1] /\ p[2] < q[2]
    \/ p[1] = q[1] /\ p[2] = q[2] /\ p[3] < q[3]

\* The first context that drives each action.  A binding is used unless a
\* context that captures used its control before.
collectActionInputs(t, us, os, dn) ==
    LET context(p) == t.ordered[p[1]]
        entry(p) == t.contexts[context(p)].actions[p[2]]
        control(p) == entry(p).current[p[3]]
        read == {p \in BindingPlaces(t) : Reads(t, us, os, dn, context(p), control(p))}
        used == {p \in read : ~\E q \in read : /\ EvaluatedBefore(q, p) /\ control(q) = control(p)
                                               /\ t.contexts[context(q)].capture}
        driving(a) == {p[1] : p \in {q \in used : entry(q).action = a}}
    IN  [a \in Actions |->
            IF driving(a) = {} THEN Nowhere
            ELSE t.ordered[CHOOSE n \in driving(a) : \A k \in driving(a) : n <= k]]

ControlsOf(t, c, a) == LET list == Current(t, c, a) IN {list[n] : n \in DOMAIN list}
Holding(t, us, os, dn, c, a) ==
    IF c = Nowhere THEN {} ELSE {k \in ControlsOf(t, c, a) : Reads(t, us, os, dn, c, k)}

\* isButtonInteractionInterrupted
interrupted(t, us, os, dn, a) ==
    LET c == button[a].context IN
    /\ c # Nowhere
    /\ \/ c \notin Known(t)
       \/ Entry(t.contexts[c], a) = 0
       \/ Holding(t, us, os, dn, c, a) # {}

\* commitButtonState; quick are the actions held no longer than a tap lasts.
committed(t, us, os, dn) ==
    LET source == collectActionInputs(t, us, os, dn)
    IN  [a \in Actions |-> [value |-> source[a] # Nowhere, context |-> source[a],
                            held |-> Holding(t, us, os, dn, source[a], a)]]
Tapped(t, us, os, dn, next, quick) ==
    {a \in quick : button[a].value /\ ~next[a].value /\ ~interrupted(t, us, os, dn, a)}

-----------------------------------------------------------------------------
InputInit ==
    LET system == upsertedUsers(<<>>, [i \in Gamepads |-> Nobody], InitialUsers)
    IN  /\ users = system.users /\ owners = system.owners
        /\ table = upsertedContexts([contexts |-> <<>>, recency |-> <<>>, ordered |-> <<>>,
                                     dirty |-> TRUE], InitialContexts)
        /\ rebinding = [session |-> NoSession, begun |-> 0, told |-> <<>>, disposed |-> {}, lost |-> {},
                         late |-> {}]
        /\ asked = NotAsked /\ updating = FALSE
        /\ down = {} /\ pads = {} /\ taps = {}
        /\ button = [a \in Actions |-> [value |-> FALSE, context |-> Nowhere, held |-> {}]]
        /\ reconfigured = FALSE /\ saved = NoSnapshot /\ configured = 0 /\ inputGone = FALSE

\* A call that configures the system.
Configures ==
    /\ ~inputGone /\ configured < MaxConfigured
    /\ configured' = configured + 1 /\ taps' = {}
    /\ UNCHANGED <<askedVars, down, pads, button, inputGone>>
ChangesBindings == reconfigured' = TRUE /\ rebinding' = rebindingChanged(rebinding)

UpsertContext(def) ==
    /\ Configures
    /\ def.user = Nobody \/ def.user \in DOMAIN users
    /\ table' = upsertedContext(table, def)
    /\ ChangesBindings
    /\ UNCHANGED <<users, owners, saved>>

RemoveContext(c, again) ==
    LET left == reordered([table EXCEPT !.contexts = [d \in Known(table) \ {c} |-> table.contexts[d]],
                                        !.recency = Keep(@, Contexts \ {c})])
        targets == rebinding.session # NoSession /\ rebinding.session.request.context = c
    IN  /\ Configures /\ c \in Known(table)
        /\ MayBegin(left, rebinding, again) /\ (again # NoSession => targets)
        /\ table' = entered(left, again)
        /\ rebinding' = IF targets THEN cancelled(rebinding, "replaced", again) ELSE rebinding
        /\ UNCHANGED <<users, owners, saved, reconfigured>>

ActivateContext(c) ==
    /\ Configures /\ c \in Known(table)
    /\ table' = reordered(stamped([table EXCEPT !.contexts[c].enabled = TRUE], c))
    /\ UNCHANGED <<users, owners, rebinding, saved, reconfigured>>
DeactivateContext(c) ==
    /\ Configures /\ c \in Known(table)
    /\ table' = reordered([table EXCEPT !.contexts[c].enabled = FALSE])
    /\ UNCHANGED <<users, owners, rebinding, saved, reconfigured>>
SetContextPriority(c, p) ==
    /\ Configures /\ c \in Known(table)
    /\ table' = reordered([table EXCEPT !.contexts[c].priority = p])
    /\ UNCHANGED <<users, owners, rebinding, saved, reconfigured>>

Rebind(r, k) ==
    /\ Configures /\ Resolves(table, r)
    /\ table' = Bound(table, r, k)
    /\ ChangesBindings
    /\ UNCHANGED <<users, owners, saved>>
ReplaceBindings(c, a, list) ==
    /\ Configures /\ c \in Known(table)
    /\ table' = rebound(table, c, a, list)
    /\ ChangesBindings
    /\ UNCHANGED <<users, owners, saved>>
ResetBindings(c, as) ==
    /\ Configures /\ c \in Known(table)
    /\ table' = reset(IF \E a \in Actions : as = {a}
                      THEN requireContextAction(table, c, CHOOSE a \in as : TRUE) ELSE table, c, as)
    /\ ChangesBindings
    /\ UNCHANGED <<users, owners, saved>>

-----------------------------------------------------------------------------
SystemIs(so) == users' = so.users /\ owners' = so.owners
UpsertUser(def) ==
    /\ Configures
    /\ SystemIs(upsertedUser(users, owners, def))
    /\ reconfigured' = TRUE
    /\ UNCHANGED <<table, rebinding, saved>>
RemoveUser(u) ==
    /\ Configures /\ u \in DOMAIN users
    /\ SystemIs([users |-> [v \in DOMAIN users \ {u} |-> users[v]],
                 owners |-> [i \in Gamepads |-> IF owners[i] = u THEN Nobody ELSE owners[i]]])
    /\ table' = [table EXCEPT !.contexts = [c \in DOMAIN @ |->
                     IF @[c].user = u THEN [@[c] EXCEPT !.user = Nobody] ELSE @[c]]]
    /\ reconfigured' = TRUE
    /\ UNCHANGED <<rebinding, saved>>
SetUserEnabled(u, enabled) ==
    /\ Configures /\ u \in DOMAIN users
    /\ users' = [users EXCEPT ![u].enabled = enabled]
    /\ reconfigured' = TRUE
    /\ UNCHANGED <<table, owners, rebinding, saved>>
AssignGamepad(u, i) ==
    /\ Configures /\ u \in DOMAIN users
    /\ SystemIs(given(users, owners, u, {i}))
    /\ reconfigured' = TRUE
    /\ UNCHANGED <<table, rebinding, saved>>
ReleaseGamepad(i) ==
    /\ Configures /\ owners[i] # Nobody
    /\ SystemIs([users |-> [u \in DOMAIN users |->
                     IF u = owners[i] THEN [users[u] EXCEPT !.devices = @ \ {i}] ELSE users[u]],
                 owners |-> [owners EXCEPT ![i] = Nobody]])
    /\ reconfigured' = TRUE
    /\ UNCHANGED <<table, rebinding, saved>>

-----------------------------------------------------------------------------
BeginRebinding(r, again) ==
    LET required == requireContextAction(table, r.context, r.action)
        freed == cancelled(rebinding, "replaced", again)
    IN  /\ Configures /\ Resolves(table, r)
        /\ again # NoSession => rebinding.session # NoSession /\ MayBegin(required, rebinding, again)
        /\ freed.begun < MaxSessions
        /\ table' = entered(required, again)
        /\ rebinding' = [opened(freed, r) EXCEPT !.lost = @ \cup Overwritten(rebinding, again)]
        /\ UNCHANGED <<users, owners, saved, reconfigured>>

\* The handle of session n is disposed of; it may have ended long ago.
DisposeHandle(n, again) ==
    LET active == rebinding.session # NoSession /\ rebinding.session.token = n
        noted == [rebinding EXCEPT !.disposed = @ \cup {n}]
    IN  /\ n \in 1..rebinding.begun \ rebinding.disposed
        /\ MayBegin(table, rebinding, again) /\ (again # NoSession => active)
        /\ rebinding' = IF active THEN cancelled(noted, "manual", again) ELSE noted
        /\ table' = entered(table, again) /\ taps' = {}
        /\ UNCHANGED <<askedVars, users, owners, down, pads, button, reconfigured, saved, configured,
                       inputGone>>

-----------------------------------------------------------------------------
(* Snapshots                                                               *)

Snapshot ==
    LET t == getOrderedContexts(table) IN
    /\ Configures /\ saved = NoSnapshot
    /\ table' = t
    /\ saved' = [users |-> users,
                 contexts |-> [n \in DOMAIN t.ordered |->
                     [id |-> t.ordered[n], context |-> t.contexts[t.ordered[n]]]]]
    /\ UNCHANGED <<users, owners, rebinding, reconfigured>>

Definition(s) ==
    [id |-> s.id, priority |-> s.context.priority, enabled |-> s.context.enabled,
     capture |-> s.context.capture, user |-> s.context.user,
     actions |-> [n \in DOMAIN s.context.actions |->
         [action |-> s.context.actions[n].action, bindings |-> s.context.actions[n].current]]]
UserDefinition(u) ==
    [id |-> u, enabled |-> saved.users[u].enabled, devices |-> saved.users[u].devices]
\* The users first, then the contexts, in the order of the snapshot.
RestoreSnapshot(merge) ==
    LET empty == [contexts |-> <<>>, recency |-> <<>>, ordered |-> table.ordered, dirty |-> TRUE]
        order == SetToSeq(DOMAIN saved.users)
    IN  /\ Configures /\ saved # NoSnapshot
        /\ SystemIs(upsertedUsers(IF merge THEN users ELSE <<>>,
                                  IF merge THEN owners ELSE [i \in Gamepads |-> Nobody],
                                  [n \in 1..Len(order) |-> UserDefinition(order[n])]))
        /\ table' = upsertedContexts(IF merge THEN table ELSE empty,
                                     [n \in 1..Len(saved.contexts) |-> Definition(saved.contexts[n])])
        /\ ChangesBindings
        /\ UNCHANGED saved

-----------------------------------------------------------------------------
(* Events of the devices.  An accept handler runs within an event or an    *)
(* update: it may configure the system, begin and dispose of sessions and  *)
(* dispose of the system, before it answers; the device waits for it.      *)

Undisturbed == asked = NotAsked /\ updating = FALSE
\* What remains the same while an event is dispatched.
Dispatches ==
    /\ ~inputGone /\ Undisturbed
    /\ taps' = {}
    /\ UNCHANGED <<table, users, owners, rebinding, updating, button, reconfigured, saved, configured,
                   inputGone>>
Asks(rb, ks) ==
    LET admitted == {k \in ks : Admits(rb, k)}
    IN  IF admitted = {} THEN asked' = NotAsked ELSE \E k \in admitted : asked' = Question(rb, k)

Press(k, repeat) ==
    /\ Dispatches /\ k \in Controls \ PadControls
    /\ down' = down \cup {k}
    /\ Asks(rebinding, IF repeat THEN {} ELSE {k})
    /\ UNCHANGED pads
Release(k) ==
    /\ Dispatches /\ k \in down \ PadControls
    /\ down' = down \ {k}
    /\ UNCHANGED <<asked, pads>>
FocusLost ==
    /\ Dispatches /\ down # {}
    /\ down' = {}
    /\ UNCHANGED <<asked, pads>>

\* A gamepad changes; nobody is told.
PadMoves(k) ==
    /\ Dispatches /\ k \in PadControls
    /\ pads' = IF k \in pads THEN pads \ {k} ELSE pads \cup {k}
    /\ UNCHANGED <<asked, down>>
\* ingestGamepadSnapshots and captureGamepadCandidate.
Polled == (down \ PadControls) \cup pads
GamepadEvent ==
    /\ Dispatches
    /\ down' = Polled
    /\ Asks(rebinding, pads)
    /\ UNCHANGED pads

\* The accept handler agrees: the control is bound to the target of the
\* session that was asked about.  When the target is gone the capture throws,
\* and an update that waits for it evaluates nothing.
Accept ==
    LET s == asked.session
        r == s.request
        resolves == Resolves(table, r)
    IN  /\ asked # NotAsked
        /\ asked' = NotAsked /\ taps' = {}
        /\ updating' = (updating /\ resolves)
        /\ \/ /\ resolves
              /\ table' = Bound(table, r, asked.control)
              /\ rebinding' = concluded(rebinding, s)
              /\ reconfigured' = TRUE
           \/ /\ ~resolves
              /\ table' = IF r.context \in Known(table)
                          THEN requireContextAction(table, r.context, r.action) ELSE table
              /\ UNCHANGED <<rebinding, reconfigured>>
        /\ UNCHANGED <<users, owners, down, pads, button, saved, configured, inputGone>>
\* It refuses.
Refuse ==
    /\ asked # NotAsked
    /\ asked' = NotAsked /\ taps' = {}
    /\ UNCHANGED <<configVars, updating, down, pads, button, reconfigured, saved, configured, inputGone>>

-----------------------------------------------------------------------------
(* A frame: the session expires, the gamepads are polled, the actions are  *)
(* evaluated.                                                              *)

\* The contexts of u are evaluated with the controls of dn.
Evaluates(u, dn, quick) ==
    LET t == getOrderedContexts(u)
        next == committed(t, users, owners, dn)
    IN  /\ table' = t /\ button' = next /\ reconfigured' = FALSE
        /\ taps' = {[action |-> a, held |-> button[a].held, excused |-> reconfigured] :
                       a \in Tapped(t, users, owners, dn, next, quick)}

Update(expired, quick, again) ==
    LET expires == expired /\ rebinding.session # NoSession /\ rebinding.session.request.timed
        waiting == IF expires THEN cancelled(rebinding, "timeout", again) ELSE rebinding
        prepared == entered(table, again)
    IN  /\ ~inputGone /\ Undisturbed
        /\ (expired => expires) /\ (again # NoSession => expires) /\ MayBegin(table, rebinding, again)
        /\ rebinding' = waiting
        /\ down' = Polled
        /\ Asks(waiting, pads)
        /\ updating' = (asked' # NotAsked)
        /\ \/ updating' /\ table' = prepared /\ taps' = {} /\ UNCHANGED <<button, reconfigured>>
           \/ ~updating' /\ Evaluates(prepared, Polled, quick)
        /\ UNCHANGED <<users, owners, pads, saved, configured, inputGone>>

\* The handler answered, and so did the complete handler, which may also have
\* called the system.  What an update does to a system that one of them
\* disposed of is left out.
Evaluate(quick) ==
    /\ updating /\ asked = NotAsked
    /\ updating' = FALSE
    /\ \/ ~inputGone /\ Evaluates(table, down, quick)
       \/ inputGone /\ taps' = {} /\ UNCHANGED <<table, button, reconfigured>>
    /\ UNCHANGED <<users, owners, rebinding, asked, down, pads, saved, configured, inputGone>>

\* A cancel handler that begins a session throws, and the rest is not done.
DisposeInput(throws) ==
    /\ ~inputGone /\ (throws => rebinding.session # NoSession)
    /\ inputGone' = TRUE /\ taps' = {}
    /\ rebinding' = cancelled(rebinding, "disposed", NoSession)
    /\ \/ throws /\ UNCHANGED <<table, users, owners, down>>
       \/ /\ ~throws
          /\ table' = [table EXCEPT !.contexts = <<>>, !.recency = <<>>]
          /\ users' = <<>> /\ owners' = [i \in Gamepads |-> Nobody] /\ down' = {}
    /\ UNCHANGED <<askedVars, pads, button, reconfigured, saved, configured>>

Configuring ==
    \/ \E def \in Definitions : UpsertContext(def)
    \/ \E c \in Contexts, again \in RebindingRequests \cup {NoSession} : RemoveContext(c, again)
    \/ \E c \in Contexts : ActivateContext(c) \/ DeactivateContext(c)
    \/ \E c \in Contexts, p \in ContextPriorities : SetContextPriority(c, p)
    \/ \E c \in Contexts, a \in Actions, list \in Lists : ReplaceBindings(c, a, list)
    \/ \E c \in Contexts, as \in {{b} : b \in Actions} \cup {Actions} : ResetBindings(c, as)
    \/ \E r \in RebindingRequests, k \in Controls : Rebind(r, k)
    \/ \E r \in RebindingRequests, again \in RebindingRequests \cup {NoSession} : BeginRebinding(r, again)
    \/ \E def \in UserDefinitions : UpsertUser(def)
    \/ \E u \in Users : RemoveUser(u)
    \/ \E u \in Users, enabled \in BOOLEAN : SetUserEnabled(u, enabled)
    \/ \E u \in Users, i \in Gamepads : AssignGamepad(u, i)
    \/ \E i \in Gamepads : ReleaseGamepad(i)
    \/ Snapshot
    \/ \E merge \in BOOLEAN : RestoreSnapshot(merge)
Running ==
    \/ \E k \in Controls, repeat \in BOOLEAN : Press(k, repeat)
    \/ \E k \in Controls : Release(k) \/ PadMoves(k)
    \/ FocusLost \/ GamepadEvent \/ Accept \/ Refuse
    \/ \E expired \in BOOLEAN, quick \in {{}, Actions}, again \in RebindingRequests \cup {NoSession} :
          Update(expired, quick, again)
    \/ \E quick \in {{}, Actions} : Evaluate(quick)
    \/ \E n \in 1..MaxSessions, again \in RebindingRequests \cup {NoSession} : DisposeHandle(n, again)
    \/ \E throws \in BOOLEAN : DisposeInput(throws)
InputNext == Configuring \/ Running
InputSpec == InputInit /\ [][InputNext]_inputVars

-----------------------------------------------------------------------------
(* Properties                                                              *)

\* Every session is told once how it ended, however its handle, its context,
\* the clock, another session, the devices and the handlers interleave.  Only a
\* session that its own accept handler ended, and then agreed to, is told
\* twice; and a session is never told when one that a cancel or accept handler
\* began is overwritten by the session being begun or completed.  Only its own
\* handle ends a session manually.  A session whose bindings were not replaced
\* meanwhile still has its target.
SessionsAccounted ==
    /\ \A n \in 1..rebinding.begun :
          /\ Len(rebinding.told[n]) = IF Active(rebinding, n) \/ n \in rebinding.lost THEN 0
                                     ELSE IF n \in rebinding.late THEN 2 ELSE 1
          /\ rebinding.told[n] = <<"manual">> => n \in rebinding.disposed
    /\ rebinding.session # NoSession /\ ~rebinding.session.touched
          => Resolves(table, rebinding.session.request)

\* The order that frames use is that of the priorities and, among equals, of
\* the last activation; a gamepad has one owner, who lists it; a context is
\* played by a user who is there.
OrderIsCurrent == ~table.dirty => table.ordered = Sorted(table)
OwnersAgree ==
    /\ \A u \in DOMAIN users, i \in Gamepads : i \in users[u].devices <=> owners[i] = u
    /\ \A i \in Gamepads : owners[i] \in DOMAIN users \cup {Nobody}
    /\ \A c \in Known(table) : table.contexts[c].user \in DOMAIN users \cup {Nobody}

\* The system agrees with itself: sessions, order and owners.
InputAgrees ==
    /\ InputTypeOK
    /\ SessionsAccounted
    /\ ~inputGone => OrderIsCurrent /\ OwnersAgree

\* A tap is a release: when a context is switched off, outranked or robbed of
\* a control while the player holds it, the button goes up but does not tap.
\* Bindings, users and owners that changed since the last frame excuse it.
TapsAreReleases == \A tap \in taps : tap.excused \/ tap.held \cap down = {}
=============================================================================
