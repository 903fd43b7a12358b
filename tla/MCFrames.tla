------------------------------ MODULE MCFrames ------------------------------
(***************************************************************************)
(* Small instances of the subject, whose observers call it back, of the    *)
(* game loop, whose systems do, of the transforms of a tree of actors, of  *)
(* the priority queue and of the textures of rendered frames.  They share  *)
(* no state: a behaviour is one of a single of them, so that the states to *)
(* explore add up.                                                         *)
(***************************************************************************)
EXTENDS Subject, GameLoop, TransformHierarchy, RenderPipeline, PriorityQueue

CONSTANTS o1, o2, o3, r1, r2

VARIABLE part

\* o3 comes before the others.
ObserverRank(o) == IF o = o3 THEN 1 ELSE 0

\* Two systems have the same id; the third comes before them.
SystemId(s) == IF s = "other" THEN "b" ELSE "a"
SystemPriority(s) == IF s = "other" THEN 1 ELSE 0

Plain == [size |-> 1, hdr |-> FALSE, exposure |-> FALSE, shadows |-> TRUE, probes |-> FALSE,
          gi |-> "disabled", volumetrics |-> FALSE, temporal |-> FALSE, effects |-> {}]

\* Two frames share the size, two the format; the bound allows for a frame of
\* each kind after another, and for two in a row that swap their histories.
FrameSettings ==
    {Plain, [Plain EXCEPT !.size = 2, !.shadows = FALSE, !.gi = "baked"],
     [Plain EXCEPT !.shadows = FALSE, !.hdr = TRUE, !.effects = {"taa"}]}

subject == <<observers, added, buckets, compaction, walks, timers, awaited, stage, concurrent,
             turnedAway, completed, subjectGone, subjectCalls>>
tree == <<alive, parent, children, version, seen, worldDirty, place, world, replaced, changes>>
render == <<textures, made, gone, building, inFlight, broken, clash, pipelineGone>>

ASSUME LoopAssumption /\ QueueAssumption

Init ==
    /\ part \in {"subject", "loop", "tree", "queue", "render"}
    /\ SubjectInit /\ LoopInit /\ TreeInit /\ QueueInit /\ RenderInit

Next ==
    \/ /\ part = "subject" /\ SubjectNext
       /\ UNCHANGED <<part, loopVars, tree, queueVars, render>>
    \/ /\ part = "loop" /\ LoopNext
       /\ UNCHANGED <<part, subject, tree, queueVars, render>>
    \/ /\ part = "tree" /\ TreeNext
       /\ UNCHANGED <<part, subject, loopVars, queueVars, render>>
    \/ /\ part = "queue" /\ QueueNext
       /\ UNCHANGED <<part, subject, loopVars, tree, render>>
    \/ /\ part = "render" /\ RenderNext
       /\ UNCHANGED <<part, subject, loopVars, tree, queueVars>>

Spec == Init /\ [][Next]_<<part, subject, loopVars, tree, queueVars, render>>
=============================================================================
