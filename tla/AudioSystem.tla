---------------------------- MODULE AudioSystem ----------------------------
(***************************************************************************)
(* The sources and voices of the audio system (packages/audio), with the   *)
(* store of decoded clips that plays wait for.  A source is an object kept *)
(* under an id; it can be removed and made again under the same id while a *)
(* play still holds the old object.  A voice is one started buffer source  *)
(* node; voice n has the play sequence n.  All sources play one registered *)
(* clip, whose registration can be replaced, removed and made again.  A    *)
(* node that was told to stop at once is taken to have stopped before it   *)
(* is told anything else.  Listeners of the system's events that call it   *)
(* back are left out.                                                      *)
(***************************************************************************)
EXTENDS Naturals, Sequences

CONSTANTS
    Ids,          \* ids of sources
    Plays,        \* calls of playSource and resumeSource
    MaxObjects,   \* bound: sources made
    MaxDecodes,   \* bound: decodings of the clip
    MaxMeanings,  \* bound: registrations of the clip
    StartSuspended \* whether the context starts suspended (autoResume is set)

AudioAssumption ==
    /\ StartSuspended \in BOOLEAN
    /\ {MaxObjects, MaxDecodes} \subseteq Nat /\ MaxMeanings \in Nat \ {0}

VARIABLES
    sources,    \* id -> number of the registered object, or 0
    objects,    \* the objects made so far: id, active voice or 0, playbackState, and
                \* as history whether a restore wrote that state
    oneShots,   \* #transientSources
    voices,     \* the voices started so far
    plays,      \* play -> what it waits for
    suspended,  \* context.state = 'suspended'
    silenced,   \* #disposed
    meaning,    \* the registration of the clip; 0: none
    meanings,   \* registrations made
    clipCache,  \* the decoding cached for the clip, or 0
    decodes     \* the decodings begun: their registration and outcome

storeVars == <<meaning, meanings, clipCache, decodes>>
mixerVars == <<sources, objects, oneShots, voices>>
audioVars == <<mixerVars, plays, suspended, silenced, storeVars>>

Playbacks == {"idle", "playing", "paused", "stopped"}
PlayStages == {"none", "resuming", "decoding", "started", "failed", "returned"}
AudioTypeOK ==
    /\ sources \in [Ids -> 0..Len(objects)]
    /\ \A o \in DOMAIN objects :
          objects[o] \in [id : Ids, active : 0..Len(voices), playback : Playbacks,
                          restored : BOOLEAN]
    /\ oneShots \subseteq Ids
    /\ \A v \in DOMAIN voices :
          voices[v] \in [object : DOMAIN objects, stage : {"sounding", "halted", "over"},
                         control : {"playing", "pausing", "stopping"}]
    /\ \A p \in Plays : plays[p] \in
          [stage : PlayStages, object : 0..Len(objects), replace : BOOLEAN,
           decode : 0..Len(decodes), overtaken : BOOLEAN]
    /\ suspended \in BOOLEAN /\ silenced \in BOOLEAN
    /\ meaning \in 0..meanings /\ meanings \in 0..MaxMeanings
    /\ clipCache \in 0..Len(decodes)
    /\ \A d \in DOMAIN decodes :
          decodes[d] \in [meaning : 0..MaxMeanings, state : {"pending", "done", "failed"}]

AudioInit ==
    /\ sources = [i \in Ids |-> 0] /\ objects = <<>> /\ oneShots = {} /\ voices = <<>>
    /\ plays = [p \in Plays |-> [stage |-> "none", object |-> 0, replace |-> TRUE,
                                 decode |-> 0, overtaken |-> FALSE]]
    /\ suspended = StartSuspended /\ silenced = FALSE
    /\ meaning = 1 /\ meanings = 1 /\ clipCache = 0 /\ decodes = <<>>

-----------------------------------------------------------------------------
(* Mutated forms, for the check that the properties detect plausible bugs   *)

handlesEnd_AnyVoice(o, v) == o # 0

-----------------------------------------------------------------------------
(* Stopping and replacing                                                  *)

InFlight(play) == play.stage \in {"resuming", "decoding"}

\* A play in flight is overtaken when its object is removed or gets a voice
\* from another play.  (The code keeps no such record: it explains what follows.)
overtake(ps, o) ==
    [p \in Plays |-> IF InFlight(ps[p]) /\ ps[p].object = o
                     THEN [ps[p] EXCEPT !.overtaken = TRUE] ELSE ps[p]]

\* sourceNode.stop(): the node falls silent, at once or later, and its ended event
\* is still to come.
muted(stage, later) == IF stage = "sounding" /\ ~later THEN "halted" ELSE stage
halt(vs, v, control, later) ==
    IF v = 0 THEN vs
    ELSE [vs EXCEPT ![v] = [@ EXCEPT !.control = control, !.stage = muted(vs[v].stage, later)]]

\* #disposePlayback: the nodes are disconnected, the ended event is not heard.
disconnect(vs, v) == IF v = 0 THEN vs ELSE [vs EXCEPT ![v].stage = "over"]

\* What is written to the playbackState of object o.
says(o, state) == [objects EXCEPT ![o] = [@ EXCEPT !.playback = state, !.restored = FALSE]]

\* later: the option when, which the state does not wait for.
stopSource(i, later) ==
    /\ objects' = says(sources[i], "stopped")
    /\ voices' = halt(voices, objects[sources[i]].active, "stopping", later)

-----------------------------------------------------------------------------
(* The clip store                                                          *)

\* register: the new meaning of the clip invalidates what was decoded before.
invalidated == 0
register ==
    /\ ~silenced /\ meanings < MaxMeanings
    /\ meanings' = meanings + 1 /\ meaning' = meanings'
    /\ clipCache' = invalidated
    /\ UNCHANGED <<mixerVars, plays, suspended, silenced, decodes>>

unregister ==
    /\ ~silenced /\ meaning # 0
    /\ meaning' = 0 /\ clipCache' = invalidated
    /\ UNCHANGED <<mixerVars, plays, suspended, silenced, meanings, decodes>>

\* resolveSelector: a cached decoding is shared, also while it is pending.
resolveSelector(p, ps) ==
    LET fresh == Len(decodes) + 1 IN
    /\ UNCHANGED <<meaning, meanings>>
    /\ IF clipCache # 0
       THEN /\ plays' = [ps EXCEPT ![p].stage = "decoding", ![p].decode = clipCache]
            /\ UNCHANGED <<clipCache, decodes>>
       ELSE /\ fresh <= MaxDecodes
            /\ decodes' = Append(decodes, [meaning |-> meaning, state |-> "pending"])
            /\ clipCache' = fresh
            /\ plays' = [ps EXCEPT ![p].stage = "decoding", ![p].decode = fresh]

DecodeEnds(d) ==
    /\ decodes[d].state = "pending"
    /\ \/ /\ decodes[d].meaning # 0
          /\ decodes' = [decodes EXCEPT ![d].state = "done"]
          /\ UNCHANGED clipCache
       \/ /\ decodes' = [decodes EXCEPT ![d].state = "failed"]
          /\ clipCache' = 0  \* the entry of the key, whichever decoding it holds
    /\ UNCHANGED <<mixerVars, plays, suspended, silenced, meaning, meanings>>

-----------------------------------------------------------------------------
(* Plays                                                                   *)

fail(p, ps) == [ps EXCEPT ![p].stage = "failed"]

\* The part of a play from the test of source.active to the wait for the clip.
\* stopSource looks the id up again: it may find another object, or none.
replaceAndResolve(p, o, ps) ==
    LET i == objects[o].id IN
    IF objects[o].active # 0
    THEN \/ /\ ~ps[p].replace
            /\ plays' = [ps EXCEPT ![p].stage = "returned"]
            /\ UNCHANGED <<mixerVars, storeVars>>
         \/ /\ ps[p].replace /\ (silenced \/ sources[i] = 0)
            /\ plays' = fail(p, ps)
            /\ UNCHANGED <<mixerVars, storeVars>>
         \/ /\ ps[p].replace /\ ~silenced /\ sources[i] # 0
            /\ stopSource(i, FALSE)
            /\ resolveSelector(p, ps)
            /\ UNCHANGED <<sources, oneShots>>
    ELSE resolveSelector(p, ps) /\ UNCHANGED mixerVars

\* playSource; resumeSource is the play that replaces, when nothing is playing.
PlaySource(p, i, replace) ==
    LET o == sources[i]
        ps == [plays EXCEPT ![p].object = o, ![p].replace = replace]
    IN /\ ~silenced /\ o # 0 /\ plays[p].stage = "none"
       /\ IF suspended
          THEN /\ plays' = [ps EXCEPT ![p].stage = "resuming"]
               /\ UNCHANGED <<mixerVars, storeVars>>
          ELSE replaceAndResolve(p, o, ps)
       /\ UNCHANGED <<suspended, silenced>>

ContextResumes(p) ==
    /\ plays[p].stage = "resuming"
    /\ suspended' = FALSE
    /\ replaceAndResolve(p, plays[p].object, plays)
    /\ UNCHANGED silenced

ClipArrives(p) ==
    LET o == plays[p].object
        v == Len(voices) + 1
    IN /\ plays[p].stage = "decoding" /\ decodes[plays[p].decode].state = "done"
       /\ voices' = Append(voices, [object |-> o, stage |-> "sounding",
                                    control |-> "playing"])
       /\ objects' = [objects EXCEPT ![o] = [@ EXCEPT !.active = v, !.playback = "playing",
                                                      !.restored = FALSE]]
       /\ plays' = overtake([plays EXCEPT ![p].stage = "started"], o)
       /\ UNCHANGED <<sources, oneShots, suspended, silenced, storeVars>>

\* The context did not resume, the clip did not arrive, its bus is gone, or the node
\* did not start, when the state becomes stopped.
PlayFails(p) ==
    /\ \/ /\ plays[p].stage = "resuming"
          /\ UNCHANGED objects
       \/ /\ plays[p].stage = "decoding" /\ decodes[plays[p].decode].state # "pending"
          /\ UNCHANGED objects
       \/ /\ plays[p].stage = "decoding" /\ decodes[plays[p].decode].state = "done"
          /\ objects' = says(plays[p].object, "stopped")
    /\ plays' = fail(p, plays)
    /\ UNCHANGED <<sources, oneShots, voices, suspended, silenced, storeVars>>

-----------------------------------------------------------------------------
(* The other operations on sources                                         *)

\* suspend and resume, and what else stops and starts the context.
ContextSwitches ==
    /\ suspended' = ~suspended
    /\ UNCHANGED <<mixerVars, plays, silenced, storeVars>>

add(i, state, restored) ==
    /\ sources[i] = 0 /\ Len(objects) < MaxObjects
    /\ objects' = Append(objects, [id |-> i, active |-> 0, playback |-> state,
                                   restored |-> restored])
    /\ sources' = [sources EXCEPT ![i] = Len(objects')]

\* upsertSource; that of a source that exists changes nothing that is modelled.
UpsertSource(i) ==
    /\ ~silenced /\ add(i, "idle", FALSE)
    /\ UNCHANGED <<oneShots, voices, plays, suspended, silenced, storeVars>>

\* play marks the id, before it makes the source if there is none, and plays it.
MarkTransient(i) ==
    /\ i \notin oneShots /\ oneShots' = oneShots \cup {i}
    /\ UNCHANGED <<sources, objects, voices, plays, suspended, silenced, storeVars>>

PauseSource(i) ==
    /\ ~silenced /\ sources[i] # 0
    /\ objects' = says(sources[i], "paused")
    /\ voices' = halt(voices, objects[sources[i]].active, "pausing", FALSE)
    /\ UNCHANGED <<sources, oneShots, plays, suspended, silenced, storeVars>>

StopSource(i, later) ==
    /\ ~silenced /\ sources[i] # 0
    /\ stopSource(i, later)
    /\ UNCHANGED <<sources, oneShots, plays, suspended, silenced, storeVars>>

RemoveSource(i) ==
    LET o == sources[i] IN
    /\ ~silenced /\ o # 0
    /\ voices' = disconnect(voices, objects[o].active)
    /\ objects' = [objects EXCEPT ![o] = [@ EXCEPT !.active = 0, !.playback = "stopped",
                                                   !.restored = FALSE]]
    /\ sources' = [sources EXCEPT ![i] = 0]
    /\ oneShots' = oneShots \ {i}
    /\ plays' = overtake(plays, o)
    /\ UNCHANGED <<suspended, silenced, storeVars>>

\* The ended event of voice v; #handleEnded finds the source by its id.
handlesEnd(o, v) == o # 0 /\ objects[o].active = v
Ended(v) ==
    LET i == objects[voices[v].object].id
        o == sources[i]
        paused == voices[v].control = "pausing"
    IN /\ voices[v].stage # "over"
       /\ voices' = disconnect(voices, v)
       /\ IF ~handlesEnd(o, v) THEN UNCHANGED <<sources, objects, oneShots, plays>>
          ELSE /\ objects' = [objects EXCEPT ![o] = [@ EXCEPT !.active = 0,
                                !.playback = IF paused THEN "paused" ELSE "stopped",
                                !.restored = FALSE]]
               /\ IF paused \/ i \notin oneShots THEN UNCHANGED <<sources, oneShots, plays>>
                  ELSE /\ sources' = [sources EXCEPT ![i] = 0]
                       /\ oneShots' = oneShots \ {i}
                       /\ plays' = overtake(plays, o)
       /\ UNCHANGED <<suspended, silenced, storeVars>>

clearSources ==
    LET known == {sources[i] : i \in Ids} IN
    /\ voices' = [v \in DOMAIN voices |->
                    IF \E o \in known \ {0} : objects[o].active = v
                    THEN [voices[v] EXCEPT !.stage = "over"] ELSE voices[v]]
    /\ objects' = [o \in DOMAIN objects |->
                     IF o \in known
                     THEN [objects[o] EXCEPT !.active = 0, !.playback = "stopped", !.restored = FALSE]
                     ELSE objects[o]]
    /\ sources' = [i \in Ids |-> 0] /\ oneShots' = {}
    /\ plays' = [p \in Plays |-> IF InFlight(plays[p]) THEN [plays[p] EXCEPT !.overtaken = TRUE]
                                 ELSE plays[p]]

\* The clip store forgets everything.
Dispose ==
    /\ ~silenced /\ silenced' = TRUE
    /\ clearSources
    /\ meaning' = 0 /\ clipCache' = 0
    /\ UNCHANGED <<suspended, meanings, decodes>>

\* restore clears the sources, unless it is told not to, and then takes over those
\* of the snapshot one by one, with the states they had; it ends with plays like others.
RestoreClears == ~silenced /\ clearSources /\ UNCHANGED <<suspended, silenced, storeVars>>

RestoreSource(i, state) ==
    /\ ~silenced
    /\ \/ /\ sources[i] # 0 /\ UNCHANGED sources
          /\ objects' = [objects EXCEPT ![sources[i]] = [@ EXCEPT !.playback = state,
                                                                  !.restored = TRUE]]
       \/ add(i, state, TRUE)
    /\ UNCHANGED <<oneShots, voices, plays, suspended, silenced, storeVars>>

AudioNext ==
    \/ \E p \in Plays : \/ \E i \in Ids, replace \in BOOLEAN : PlaySource(p, i, replace)
                        \/ ContextResumes(p) \/ ClipArrives(p) \/ PlayFails(p)
    \/ \E i \in Ids : \/ UpsertSource(i) \/ MarkTransient(i) \/ PauseSource(i) \/ RemoveSource(i)
                      \/ \E later \in BOOLEAN : StopSource(i, later)
                      \/ \E state \in Playbacks : RestoreSource(i, state)
    \/ \E v \in DOMAIN voices : Ended(v)
    \/ \E d \in DOMAIN decodes : DecodeEnds(d)
    \/ register \/ unregister \/ Dispose \/ RestoreClears \/ ContextSwitches

AudioSpec == AudioInit /\ [][AudioNext]_audioVars

-----------------------------------------------------------------------------
(* Correctness                                                             *)

\* The system can still reach voice v: its source is registered and knows it.
Owned(v) ==
    LET o == voices[v].object IN sources[objects[o].id] = o /\ objects[o].active = v

\* A voice that sounds can be stopped by its id.  It is lost only when a play of
\* the same object was overtaken while it waited, and started all the same.
SoundingIsOwned ==
    \A v \in DOMAIN voices : voices[v].stage = "sounding" =>
        \/ Owned(v)
        \/ \E p \in Plays : /\ plays[p].stage = "started" /\ plays[p].overtaken
                            /\ plays[p].object = voices[v].object

\* A registered source says it is playing exactly when it has a voice that sounds and
\* was not told to stop: ended events of replaced voices do not touch it, and a stop
\* for later is told at once.  Until the next change of its state that is not so
\* of a source that was restored, nor after a play that failed though overtaken.
StateFollowsVoice ==
    \A i \in Ids : LET o == sources[i] IN
        o # 0 =>
            \/ objects[o].playback = "playing"
                  <=> /\ objects[o].active # 0
                      /\ voices[objects[o].active].stage = "sounding"
                      /\ voices[objects[o].active].control = "playing"
            \/ objects[o].restored
            \/ \E p \in Plays : /\ plays[p].object = o
                                /\ plays[p].stage = "failed" /\ plays[p].overtaken

\* What is cached for a clip was decoded from its present registration.
CachedClipIsCurrent ==
    clipCache # 0 => decodes[clipCache].meaning = meaning /\ decodes[clipCache].state # "failed"

\* Sources, voices and clips agree.
AudioAgrees == AudioTypeOK /\ SoundingIsOwned /\ StateFollowsVoice /\ CachedClipIsCurrent
=============================================================================
