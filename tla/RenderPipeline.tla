--------------------------- MODULE RenderPipeline ---------------------------
(***************************************************************************)
(* The textures of a frame in @axrone/render-core: the RenderPipeline      *)
(* (pipeline.ts) has its RenderPassPlanner (render-pass-planner.ts) ask    *)
(* the RenderTextureRegistry (graph.ts) for them, awaits the backend that  *)
(* executes the passes, and then ends the frame of the registry.           *)
(*                                                                         *)
(* A descriptor is the part its signature tells apart: a size and a use.   *)
(* The records of a bucket of free textures differ by their texture only,  *)
(* so that any may be popped.  Passes, statistics, the numbers of frames   *)
(* but for their parity, and the bake tasks are left out.  The allocator   *)
(* is outside src/: it makes a texture or throws, disposes of the one it   *)
(* is asked to replace, and does not call the pipeline back.               *)
(***************************************************************************)
EXTENDS Naturals, FiniteSets, Sequences

CONSTANTS
    Settings,        \* the features of the frames that are asked for
    Renders,         \* calls of render() that may be under way at once
    PoolCapacity,    \* resourcePoolCapacity, of one bucket
    MaxTextures,     \* bound: textures ever made
    None

ASSUME RenderAssumption == PoolCapacity \in Nat /\ None \notin Renders

VARIABLES
    textures,        \* records of _active, _persistent and _freeTransient
    made,            \* textures the allocator made so far; they are numbered
    gone,            \* those destroyed, or replaced by another
    building,        \* the _buildFrame under way, or Idle
    inFlight,        \* the frames whose passes are executed, by call
    broken,          \* history: a frame was not built since the last one ended
    clash,           \* history: a frame on its own met a RESOURCE_CONFLICT
    pipelineGone     \* the pipeline is disposed of

renderVars == <<textures, made, gone, building, inFlight, broken, clash, pipelineGone>>

Idle == [call |-> None, asks |-> << >>, got |-> {}, alone |-> FALSE]
Building == building # Idle
Asking == Building /\ building.asks # << >>

RenderInit ==
    /\ textures = {} /\ made = 0 /\ gone = {}
    /\ building = Idle /\ inFlight = << >>
    /\ broken = FALSE /\ clash = FALSE /\ pipelineGone = FALSE

----------------------------------------------------------------------------
(* What the planner asks for, in the order of its plan.                    *)

Ask(id, use, size, lifetime) == [id |-> id, signature |-> <<use, size>>, lifetime |-> lifetime]

If(condition, asked) == IF condition THEN asked ELSE << >>

\* Half float color with hdr, eight bits without.
color(f) == IF f.hdr THEN "color-hdr" ELSE "color"

frameTextures(f) ==
       <<Ask("depth", "depth", f.size, "transient"),
         Ask("scene-color", color(f), f.size, "transient"),
         Ask("back-buffer", "present", f.size, "persistent")>>
    \o If(f.hdr /\ f.exposure, <<Ask("exposure", "exposure", 0, "persistent")>>)

shadowAtlas(f) == If(f.shadows, <<Ask("atlas", "shadow", 0, "transient")>>)

probeTarget(f) == If(f.probes, <<Ask("update-target", "cube", 0, "transient")>>)

giTextures(f) ==
       If(f.gi # "disabled",
          <<Ask("indirect", "indirect", f.size,
                IF f.gi = "baked" THEN "persistent" ELSE "transient")>>)
    \o If(f.gi \in {"ssgi", "hybrid"}, <<Ask("gi-history", "history", f.size, "persistent")>>)

volumetricTextures(f) ==
       If(f.volumetrics, <<Ask("froxel", "froxel", 0, "transient")>>)
    \o If(f.volumetrics /\ f.temporal, <<Ask("volumetric", "froxel-history", 0, "persistent")>>)

postTextures(f) ==
    If(f.effects # {}, <<Ask("ping", color(f), f.size, "transient"),
                         Ask("pong", color(f), f.size, "transient")>>)

\* The two histories of taa change places with every frame, and the one that is
\* read is described without the use as an attachment.
taaHistories(f, odd) ==
    If("taa" \in f.effects,
       <<Ask(IF odd THEN "taa-a" ELSE "taa-b", "history-target", f.size, "persistent"),
         Ask(IF odd THEN "taa-b" ELSE "taa-a", "history-source", f.size, "persistent")>>)

\* Lifetime "history" is treated like "persistent".
plan(f, odd) ==
    frameTextures(f) \o shadowAtlas(f) \o probeTarget(f) \o giTextures(f)
        \o volumetricTextures(f) \o postTextures(f) \o taaHistories(f, odd)

----------------------------------------------------------------------------
Kept(kind) == {t \in textures : t.kind = kind}

\* r is a texture of the planner's list, or one the registry has already;
\* for is what the allocator was told when it made it.
Texture(kind, r, native, for, refused) ==
    [kind |-> kind, id |-> r.id, signature |-> r.signature,
     native |-> native, for |-> for, refused |-> refused]

Fresh(kind, r, native) == Texture(kind, r, native, r.signature, FALSE)

\* The texture asked for was found or made: the plan goes on.
Gets(native) ==
    building' = [building EXCEPT !.asks = Tail(@),
                                 !.got = @ \union {<<Head(building.asks).id, native>>}]

\* The call of plan() or render() throws; nobody ends the frame.
GiveUp == building' = Idle /\ broken' = TRUE

Alone == inFlight = << >> /\ ~broken

\* _buildFrame: validation comes first and changes nothing.  beginFrame makes
\* no difference to the textures.
BuildFrame(call, f, odd) ==
    /\ ~Building /\ ~pipelineGone /\ call \notin DOMAIN inFlight
    /\ building' = [call |-> call, asks |-> plan(f, odd), got |-> {}, alone |-> Alone]
    /\ inFlight' = [c \in DOMAIN inFlight |-> [inFlight[c] EXCEPT !.alone = FALSE]]
    /\ UNCHANGED <<textures, made, gone, broken, clash, pipelineGone>>

Asked(lifetime) ==
    Asking /\ Head(building.asks).lifetime = lifetime

\* An active texture of this name is taken, if it is described the same.
ShareActive ==
    /\ Asked("transient")
    /\ \E t \in Kept("active") :
        /\ t.id = Head(building.asks).id
        /\ IF t.signature = Head(building.asks).signature
           THEN Gets(t.native) /\ UNCHANGED <<broken, clash>>
           ELSE GiveUp /\ clash' = (clash \/ building.alone)
    /\ UNCHANGED <<textures, made, gone, inFlight, pipelineGone>>

NoActive == \A t \in Kept("active") : t.id # Head(building.asks).id

pooled(r) == {t \in Kept("free") : t.signature = r.signature}

ReuseFree ==
    /\ Asked("transient") /\ NoActive
    /\ LET r == Head(building.asks)
       IN  \E t \in pooled(r) :
              /\ textures' = (textures \ {t})
                     \union {Texture("active", r, t.native, t.for, t.refused)}
              /\ Gets(t.native)
    /\ UNCHANGED <<made, gone, inFlight, broken, clash, pipelineGone>>

MustCreate(r) ==
    IF r.lifetime = "transient" THEN NoActive /\ pooled(r) = {}
    ELSE \A t \in Kept("persistent") : t.id # r.id

Create ==
    /\ Asking /\ made < MaxTextures
    /\ LET r == Head(building.asks)
       IN  /\ MustCreate(r)
           /\ textures' = textures \union
                  {Fresh(IF r.lifetime = "transient" THEN "active" ELSE "persistent", r, made + 1)}
    /\ made' = made + 1
    /\ Gets(made + 1)
    /\ UNCHANGED <<gone, inFlight, broken, clash, pipelineGone>>

CreateRefused ==
    /\ Asking
    /\ MustCreate(Head(building.asks))
    /\ GiveUp
    /\ UNCHANGED <<textures, made, gone, inFlight, clash, pipelineGone>>

KeepPersistent ==
    /\ Asked("persistent")
    /\ \E t \in Kept("persistent") :
          /\ t.id = Head(building.asks).id /\ t.signature = Head(building.asks).signature
          /\ Gets(t.native)
    /\ UNCHANGED <<textures, made, gone, inFlight, broken, clash, pipelineGone>>

\* The record is described anew before the allocator is asked for the texture.
Replaceable(t) ==
    /\ t \in Kept("persistent")
    /\ t.id = Head(building.asks).id /\ t.signature # Head(building.asks).signature

Replace ==
    /\ Asked("persistent") /\ made < MaxTextures
    /\ \E t \in textures :
          /\ Replaceable(t)
          /\ textures' = (textures \ {t})
                 \union {Fresh("persistent", Head(building.asks), made + 1)}
          /\ gone' = gone \union {t.native}
    /\ made' = made + 1
    /\ Gets(made + 1)
    /\ UNCHANGED <<inFlight, broken, clash, pipelineGone>>

ReplaceRefused ==
    /\ Asked("persistent")
    /\ \E t \in textures :
          /\ Replaceable(t)
          /\ textures' = (textures \ {t})
                 \union {Texture("persistent", Head(building.asks), t.native, t.for, TRUE)}
    /\ GiveUp
    /\ UNCHANGED <<made, gone, inFlight, clash, pipelineGone>>

\* The bucket has room for the texture, and for those of the same signature
\* that come before it.
fits(t) ==
    Cardinality(pooled(t))
        + Cardinality({u \in Kept("active") : u.signature = t.signature /\ u.native < t.native})
    < PoolCapacity

endFrame_StillActive ==
    /\ textures' = textures
           \union {Texture("free", t, t.native, t.for, t.refused) : t \in Kept("active")}
    /\ gone' = gone /\ broken' = FALSE

endFrame ==
    LET free == {t \in Kept("active") : fits(t)}
    IN  /\ textures' = (textures \ Kept("active"))
               \union {Texture("free", t, t.native, t.for, t.refused) : t \in free}
        /\ gone' = gone \union {t.native : t \in Kept("active") \ free}
        /\ broken' = FALSE

Planned == Building /\ building.asks = << >>

PlanReturns_Unended ==
    /\ Planned
    /\ building' = Idle
    /\ UNCHANGED <<textures, made, gone, inFlight, broken, clash, pipelineGone>>

PlanReturns ==
    /\ Planned /\ endFrame
    /\ building' = Idle
    /\ UNCHANGED <<made, inFlight, clash, pipelineGone>>

RenderAwaits ==
    /\ Planned
    /\ inFlight' = [c \in DOMAIN inFlight \union {building.call} |->
           IF c = building.call THEN [got |-> building.got, alone |-> building.alone]
           ELSE inFlight[c]]
    /\ building' = Idle
    /\ UNCHANGED <<textures, made, gone, broken, clash, pipelineGone>>

\* The backend is done, or one of its calls fails.
RenderEnds(call) ==
    /\ ~Building /\ call \in DOMAIN inFlight
    /\ IF pipelineGone THEN UNCHANGED <<textures, gone, broken>> ELSE endFrame
    /\ inFlight' = [c \in DOMAIN inFlight \ {call} |-> inFlight[c]]
    /\ UNCHANGED <<made, building, clash, pipelineGone>>

\* Frames whose passes are being executed lose their textures too.
DisposePipeline ==
    /\ ~Building /\ ~pipelineGone
    /\ textures' = {} /\ gone' = gone \union {t.native : t \in textures}
    /\ pipelineGone' = TRUE
    /\ UNCHANGED <<made, building, inFlight, broken, clash>>

RenderNext ==
    \/ \E call \in Renders, f \in Settings, odd \in BOOLEAN : BuildFrame(call, f, odd)
    \/ ShareActive \/ ReuseFree \/ Create \/ CreateRefused
    \/ KeepPersistent \/ Replace \/ ReplaceRefused
    \/ PlanReturns \/ RenderAwaits
    \/ \E call \in Renders : RenderEnds(call)
    \/ DisposePipeline

RenderSpec == RenderInit /\ [][RenderNext]_renderVars

----------------------------------------------------------------------------
\* No two records share a texture, and the records hold exactly the textures
\* that were made and not disposed of: none leaks, none is destroyed twice.
HeldOnce ==
    /\ \A t, u \in textures : t.native = u.native => t = u
    /\ {t.native : t \in textures} = (1..made) \ gone

\* A texture is as its record says, unless the allocator refused a new one.
AsDescribed ==
    \A t \in textures :
        \/ t.for = t.signature /\ ~t.refused
        \/ t.kind = "persistent" /\ t.refused

\* The textures of the registry, over all frames, failures and replacements.
TexturesAgree == made \in Nat /\ gone \subseteq 1..made /\ HeldOnce /\ AsDescribed

\* The registry knows no frames, so that render() must not overlap.  A frame
\* on its own holds its textures until it ends; nothing is active between
\* frames; and no name means two textures.
FramesHold ==
    /\ ~Building /\ Alone => Kept("active") = {}
    /\ Building /\ building.alone =>
          {t.id : t \in Kept("active")} \subseteq {g[1] : g \in building.got}
    /\ \A c \in DOMAIN inFlight : inFlight[c].alone /\ ~pipelineGone =>
          \A g \in inFlight[c].got :
             \E t \in textures : t.kind # "free" /\ t.id = g[1] /\ t.native = g[2]
    /\ ~clash
=============================================================================
