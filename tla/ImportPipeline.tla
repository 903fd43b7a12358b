--------------------------- MODULE ImportPipeline ---------------------------
(***************************************************************************)
(* The import pipeline (packages/asset-core): an import runs the stages of *)
(* three phases around an importer, and retries as a whole.  Importers and *)
(* stages come and go, the signal of the caller aborts and the pipeline is *)
(* disposed while stages, importers and timers are awaited.                *)
(***************************************************************************)
EXTENDS Naturals

CONSTANTS
    Imports,       \* calls of import
    Sources, FirstSource, \* what a source can look like, and how it comes
    Importers, ImporterRank, \* ranks: by priority and then by id, from 0
    Tier,          \* importer -> source -> the index that finds it: kind 1, MIME
                   \* type 2, extension 3, none of them 4; 0 when it does not match
    Stages, StageRank,
    PhasesOf,      \* stage -> its phases
    Takes,         \* stage -> the sources for which it passes matchesStage, but for the phase
    MaxAttempts,
    Retried        \* the kinds of errors that shouldRetry, or the default, retries

Phases == {"source", "before-import", "after-import"}
\* An AssetError, an AbortError of a callback, anything else.
Errors == {"asset", "abort", "other"}
None == "none"

ImportAssumption ==
    /\ FirstSource \in Sources /\ MaxAttempts \in Nat \ {0} /\ Retried \subseteq Errors
    /\ None \notin Importers \cup Stages
    /\ ImporterRank \in [Importers -> Nat] /\ StageRank \in [Stages -> Nat]
    /\ \A x, y \in Importers : ImporterRank[x] = ImporterRank[y] => x = y
    /\ \A x, y \in Stages : StageRank[x] = StageRank[y] => x = y
    /\ Tier \in [Importers -> [Sources -> 0..4]]
    /\ PhasesOf \in [Stages -> SUBSET Phases] /\ Takes \in [Stages -> SUBSET Sources]

VARIABLES
    importers, stages, \* the registries
    pipelineDown,      \* _disposed
    aborted,           \* imports whose signal is aborted
    imports            \* import -> its attempt and where that stands

importVars == <<importers, stages, pipelineDown, aborted, imports>>

\* Where a call of import stands: the attempt, the phase, the stages that the
\* phase has taken up and not reached, the one that is awaited, and what is
\* known of source, importer and result.
Executions ==
    [at : {"idle", "stage", "between", "importing", "delayed", "delivered", "aborted", "failed"},
     attempt : Nat, phase : Phases, queue : SUBSET Stages, running : Stages \cup {None},
     source : Sources, rerouted : BOOLEAN, importer : Importers \cup {None},
     result : BOOLEAN, error : Errors \cup {None}]
ImportTypeOK ==
    /\ importers \subseteq Importers /\ stages \subseteq Stages
    /\ pipelineDown \in BOOLEAN /\ aborted \subseteq Imports
    /\ imports \in [Imports -> Executions]

First(S) == CHOOSE x \in S : \A y \in S : StageRank[x] <= StageRank[y]

-----------------------------------------------------------------------------
(* Mutated forms, for the check that the properties detect plausible bugs   *)

thrown_OneMore(r, i, error) ==
    [r EXCEPT !.running = None, !.error = error,
              !.at = IF i \in aborted THEN "aborted"
                     ELSE IF r.attempt <= MaxAttempts /\ error \in Retried THEN "delayed" ELSE "failed"]
resumed_Unheard(r, i) ==
    LET taking == {x \in r.queue : r.source \in Takes[x]} IN
    IF taking = {} THEN [r EXCEPT !.at = "between", !.running = None, !.queue = {}]
    ELSE [r EXCEPT !.at = "stage", !.running = First(taking),
                   !.queue = {y \in @ : StageRank[First(taking)] < StageRank[y]}]

-----------------------------------------------------------------------------
(* The registries                                                          *)

listByPhase(phase) == {x \in stages : phase \in PhasesOf[x]}

\* Of the importers that match, those of the kind come first and those without
\* a kind last; among those, the first by rank.
precedes(m, n, source) ==
    \/ Tier[m][source] < Tier[n][source]
    \/ Tier[m][source] = Tier[n][source] /\ ImporterRank[m] <= ImporterRank[n]
find(source) ==
    LET candidates == {m \in importers : Tier[m][source] # 0} IN
    IF candidates = {} THEN None
    ELSE CHOOSE m \in candidates : \A n \in candidates : precedes(m, n, source)

-----------------------------------------------------------------------------
(* An attempt                                                              *)

\* The catch clause: an abort ends the import whatever was thrown.
thrown(r, i, error) ==
    [r EXCEPT !.running = None, !.error = error,
              !.at = IF i \in aborted THEN "aborted"
                     ELSE IF r.attempt < MaxAttempts /\ error \in Retried THEN "delayed" ELSE "failed"]

\* The loop over the stages, up to the next one that takes the source.
resumed(r, i) ==
    LET taking == {x \in r.queue : r.source \in Takes[x]} IN
    IF r.queue # {} /\ i \in aborted THEN thrown(r, i, "abort")
    ELSE IF taking = {} THEN [r EXCEPT !.at = "between", !.running = None, !.queue = {}]
    ELSE [r EXCEPT !.at = "stage", !.running = First(taking),
                   !.queue = {y \in @ : StageRank[First(taking)] < StageRank[y]}]
\* _runStages: the stages are those registered when the phase begins.
runStages(r, i, phase) == resumed([r EXCEPT !.phase = phase, !.queue = listByPhase(phase)], i)

attempted(r, i) ==
    IF i \in aborted THEN [r EXCEPT !.at = "aborted"]
    ELSE runStages([r EXCEPT !.attempt = @ + 1, !.source = FirstSource, !.rerouted = FALSE,
                             !.importer = None, !.result = FALSE, !.error = None], i, "source")

ImportInit ==
    /\ importers = Importers /\ stages = Stages
    /\ pipelineDown = FALSE /\ aborted = {}
    /\ imports = [i \in Imports |->
          [at |-> "idle", attempt |-> 0, phase |-> "source", queue |-> {}, running |-> None,
           source |-> FirstSource, rerouted |-> FALSE, importer |-> None, result |-> FALSE,
           error |-> None]]

Becomes(i, r) ==
    /\ imports' = [imports EXCEPT ![i] = r]
    /\ UNCHANGED <<importers, stages, pipelineDown, aborted>>

\* import
Import(i) ==
    /\ imports[i].at = "idle" /\ ~pipelineDown /\ i \notin aborted
    /\ Becomes(i, attempted(imports[i], i))

\* The stage that runs answers: with another source, with a result, or not.
StageAnswers(i, source, result) ==
    LET r == imports[i]
        answered == [r EXCEPT !.source = source, !.result = @ \/ result,
                              !.rerouted = @ \/ (r.phase = "before-import" /\ source # r.source)]
    IN  /\ r.at = "stage"
        /\ Becomes(i, IF result /\ r.phase = "source" THEN thrown(r, i, "asset")
                      ELSE resumed(answered, i))
StageThrows(i, error) ==
    /\ imports[i].at = "stage"
    /\ Becomes(i, thrown(imports[i], i, error))

\* The import goes on after a phase.
FindsImporter(i) ==
    LET r == imports[i] IN
    /\ r.at = "between" /\ r.phase = "source"
    /\ Becomes(i, IF pipelineDown \/ find(r.source) = None THEN thrown(r, i, "asset")
                  ELSE runStages([r EXCEPT !.importer = find(r.source)], i, "before-import"))
CallsImporter(i) ==
    LET r == imports[i] IN
    /\ r.at = "between" /\ r.phase = "before-import"
    /\ Becomes(i, IF r.result THEN runStages(r, i, "after-import") ELSE [r EXCEPT !.at = "importing"])
Delivers(i) ==
    /\ imports[i].at = "between" /\ imports[i].phase = "after-import"
    /\ Becomes(i, [imports[i] EXCEPT !.at = "delivered"])

ImporterAnswers(i) ==
    /\ imports[i].at = "importing"
    /\ Becomes(i, runStages([imports[i] EXCEPT !.result = TRUE], i, "after-import"))
ImporterThrows(i, error) ==
    /\ imports[i].at = "importing"
    /\ Becomes(i, thrown(imports[i], i, error))

\* The timer fires, or hears the abort.
DelayEnds(i) ==
    /\ imports[i].at = "delayed"
    /\ Becomes(i, attempted(imports[i], i))

Abort(i) ==
    /\ i \notin aborted
    /\ aborted' = aborted \cup {i}
    /\ UNCHANGED <<importers, stages, pipelineDown, imports>>

-----------------------------------------------------------------------------
RegisterImporter(m) ==
    /\ ~pipelineDown
    /\ importers' = importers \cup {m}
    /\ UNCHANGED <<stages, pipelineDown, aborted, imports>>
UnregisterImporter(m) ==
    /\ ~pipelineDown
    /\ importers' = importers \ {m}
    /\ UNCHANGED <<stages, pipelineDown, aborted, imports>>
RegisterStage(s) ==
    /\ ~pipelineDown
    /\ stages' = stages \cup {s}
    /\ UNCHANGED <<importers, pipelineDown, aborted, imports>>
UnregisterStage(s) ==
    /\ ~pipelineDown
    /\ stages' = stages \ {s}
    /\ UNCHANGED <<importers, pipelineDown, aborted, imports>>
DisposePipeline ==
    /\ ~pipelineDown
    /\ pipelineDown' = TRUE /\ importers' = {} /\ stages' = {}
    /\ UNCHANGED <<aborted, imports>>

ImportNext ==
    \/ \E i \in Imports :
        \/ Import(i) \/ FindsImporter(i) \/ CallsImporter(i) \/ Delivers(i)
        \/ ImporterAnswers(i) \/ DelayEnds(i) \/ Abort(i)
        \/ \E source \in Sources, result \in BOOLEAN : StageAnswers(i, source, result)
        \/ \E error \in Errors : StageThrows(i, error) \/ ImporterThrows(i, error)
    \/ \E m \in Importers : RegisterImporter(m) \/ UnregisterImporter(m)
    \/ \E s \in Stages : RegisterStage(s) \/ UnregisterStage(s)
    \/ DisposePipeline

ImportSpec == ImportInit /\ [][ImportNext]_importVars

-----------------------------------------------------------------------------
(* Correctness                                                             *)

\* However registries, signal and retries interleave with an import: stages run
\* by rank, in their phases; the importer takes the source it is given, unless
\* a stage that ran between changed it; a delivery has a result and an
\* importer; a failure is final or came from the last attempt; and an import
\* ends as aborted only when its signal was.
ImportAgrees(r) ==
    /\ r.attempt <= MaxAttempts
    /\ \A x \in r.queue :
          /\ r.phase \in PhasesOf[x]
          /\ r.at = "stage" => StageRank[r.running] < StageRank[x]
    /\ r.at = "importing" => r.rerouted \/ Tier[r.importer][r.source] # 0
    /\ r.at = "delivered" => r.result /\ r.importer # None
    /\ r.at = "failed" => r.attempt = MaxAttempts \/ r.error \notin Retried
ImportsAgree ==
    /\ ImportTypeOK
    /\ \A i \in Imports : ImportAgrees(imports[i]) /\ (imports[i].at = "aborted" => i \in aborted)

\* What a step may make of an execution r that has become s.
Begins(r, s) ==
    s.at = "stage" /\ <<r.attempt, r.phase, r.queue>> # <<s.attempt, s.phase, s.queue>>
Heard(i, r, s) ==
    /\ i \in aborted => ~Begins(r, s) /\ s.attempt = r.attempt
    /\ pipelineDown => /\ s.importer \in {None, r.importer}
                       /\ Begins(r, s) => s.running \in r.queue

\* After the abort no attempt and no stage begins.  After dispose() no importer
\* is found any more, and the stages that still begin are those that the phase
\* had taken up before.
StopsAreHeard == [][\A i \in Imports : Heard(i, imports[i], imports'[i])]_importVars
=============================================================================
