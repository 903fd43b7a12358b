----------------------------- MODULE MCServices -----------------------------
(***************************************************************************)
(* Small instances of the services that others call and wait for:          *)
(* asynchronous singletons, audio, the streaming of animations, the import *)
(* pipeline, and the input system with its handlers.  They share no state: *)
(* a behaviour is one of a single service, so that the states to explore   *)
(* add up.                                                                 *)
(***************************************************************************)
EXTENDS AsyncSingleton, AudioSystem, AnimationStreaming, ImportPipeline, InputSystem, TLC

CONSTANTS g1, g2, g3, d1, d2, c1, c2, w1, p1, p2

VARIABLE service

\* A stage that only takes raw sources before one of all phases; an importer of
\* cooked sources before one of any.
ImporterRanks == [m \in Importers |-> IF m = "any" THEN 0 ELSE 1]
Tiers == [m \in Importers |-> [s \in Sources |->
             IF m = "any" THEN 4 ELSE IF s = "cooked" THEN 1 ELSE 0]]
StageRanks == [s \in Stages |-> IF s = "cook" THEN 0 ELSE 1]
StagePhases == [s \in Stages |->
                   IF s = "cook" THEN {"source", "before-import"} ELSE Phases]
StageTakes == [s \in Stages |-> IF s = "cook" THEN {"raw"} ELSE Sources]

\* A game that everybody plays and a menu of one player, over the same key;
\* one gamepad that two players want.
game == [id |-> "game", priority |-> 0, enabled |-> TRUE, capture |-> FALSE, user |-> "nobody",
         actions |-> <<[action |-> "jump", bindings |-> <<"space">>]>>]
menu == [id |-> "menu", priority |-> 1, enabled |-> TRUE, capture |-> TRUE, user |-> "ann",
         actions |-> <<[action |-> "pick", bindings |-> <<"space">>]>>]
ann == [id |-> "ann", enabled |-> TRUE, devices |-> {"keyboard", "pad"}]
bob == [id |-> "bob", enabled |-> TRUE, devices |-> {"pad"}]
Key == [k \in {"space", "a"} |-> IF k = "a" THEN "pad" ELSE "keyboard"]
InputDefinitions == {game}
InputUsers == {bob}
InputRequests ==
    {[context |-> "game", action |-> "jump", index |-> 1, devices |-> {}, timed |-> TRUE],
     [context |-> "menu", action |-> "pick", index |-> 0, devices |-> {"pad"}, timed |-> FALSE]}
FirstContexts == <<game, menu>>
FirstUsers == <<ann>>
NoBindings == {<<>>}

PlaySymmetry == Permutations(Plays)

ASSUME AudioAssumption /\ StreamAssumption /\ ImportAssumption
ASSUME InputAssumption

Init ==
    /\ service \in {"singleton", "audio", "stream", "pipeline", "input"}
    /\ SingletonInit /\ AudioInit /\ StreamInit /\ ImportInit /\ InputInit

Next ==
    \/ /\ service = "singleton" /\ SingletonNext
       /\ UNCHANGED <<service, audioVars, streamVars, importVars, inputVars>>
    \/ /\ service = "audio" /\ AudioNext
       /\ UNCHANGED <<service, singletonVars, streamVars, importVars, inputVars>>
    \/ /\ service = "stream" /\ StreamNext
       /\ UNCHANGED <<service, singletonVars, audioVars, importVars, inputVars>>
    \/ /\ service = "pipeline" /\ ImportNext
       /\ UNCHANGED <<service, singletonVars, audioVars, streamVars, inputVars>>
    \/ /\ service = "input" /\ InputNext
       /\ UNCHANGED <<service, singletonVars, audioVars, streamVars, importVars>>

Spec ==
    Init /\ [][Next]_<<service, singletonVars, audioVars, streamVars, importVars, inputVars>>
=============================================================================
