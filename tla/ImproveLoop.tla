----------------------------- MODULE ImproveLoop -----------------------------
(***************************************************************************)
(* The champion and challenger loop of improve_runner.cjs, with the        *)
(* benchmark verdict it relies on (benchmark_runner, benchmark_meter,      *)
(* benchmark_matcher) and the comparison of improvement_validator.cjs.     *)
(*                                                                         *)
(* `code` is the version of the target files on disk; `Cost` and `Broken`  *)
(* say what the benchmark would measure of each version.  A round asks the *)
(* model for a patch, applies it, benchmarks the result and either keeps   *)
(* it or restores the files.                                               *)
(***************************************************************************)
EXTENDS Integers, FiniteSets

CONSTANTS MaxRounds,        \* options.rounds, finite
          SaturationWindow, \* options.saturationWindow
          MaxVersion,       \* bound: versions of the code a behaviour creates
          Cost,             \* [0..MaxVersion -> Nat], wall time of a version
          Bound,            \* bounds.wall_time_ms of the benchmark
          Broken            \* versions whose output is not the expected one

ASSUME LoopAssumption ==
    /\ MaxRounds \in Nat \ {0} /\ SaturationWindow \in Nat \ {0}
    /\ MaxVersion \in Nat /\ Cost \in [0..MaxVersion -> Nat]
    /\ Bound \in Nat /\ Broken \subseteq 0..MaxVersion

VARIABLES
    code,      \* version of the target files on disk
    fresh,     \* last version made so far
    ipc,       \* "off", "round" (ask the model), "challenge"
    before,    \* the rollback handle: the version the patch replaced
    champion,  \* the version the champion's results were measured on
    round,     \* rounds pushed to roundResults
    misses,    \* consecutiveNonImprovements
    summary,   \* [improvements, neutrals, regressions, saturated, error]
    leftover   \* a rollback silently failed: the patch is still on disk

loopVars == <<code, fresh, ipc, before, champion, round, misses, summary, leftover>>

NoSummary == [improvements |-> 0, neutrals |-> 0, regressions |-> 0,
              saturated |-> FALSE, error |-> FALSE]

-----------------------------------------------------------------------------
\* runBenchmarkCase: a non-zero exit, an output that does not match and a
\* metric over its bound are all violations; only what remains is a PASS.
MatchOutput(v) == IF v \in Broken THEN "fail" ELSE "pass"
CheckBounds(v) == IF Cost[v] > Bound THEN "BENCHMARK_VIOLATION" ELSE "PASS"
CaseVerdict(v, exit) ==
    IF exit = 0 /\ MatchOutput(v) # "fail" /\ CheckBounds(v) = "PASS"
    THEN "PASS" ELSE "BENCHMARK_VIOLATION"

\* runBenchmarkSuite: one result per case, each with its verdict and metrics.
Suite(v, exit) == [c \in {"0"} |-> [verdict |-> CaseVerdict(v, exit),
                                    metrics |-> [wallTimeMs |-> Cost[v]]]]

\* championArray.map(r => r.metrics): the loop hands arrays to the validator.
MetricsOf(results) == [c \in DOMAIN results |-> results[c].metrics]

Field(r, name, absent) == IF name \in DOMAIN r THEN r[name] ELSE absent
NoMetrics == [k \in {} |-> 0]

\* validateImprovement: outputs must agree; then no shared metric may regress by
\* more than a fifth, and one must be lower.  Both parties are read as
\* { output, metrics } objects, whatever they are.
ValidateImprovement(champ, chall) ==
    LET cm     == Field(champ, "metrics", NoMetrics)
        lm     == Field(chall, "metrics", NoMetrics)
        shared == {k \in DOMAIN cm \cap DOMAIN lm : ~(cm[k] = 0 /\ lm[k] = 0)}
    IN  IF Field(champ, "output", "undefined") # Field(chall, "output", "undefined")
        THEN "REGRESSION"
        ELSE IF \A k \in shared : cm[k] = lm[k] THEN "NEUTRAL"
        ELSE IF \E k \in shared : 5 * lm[k] > 6 * cm[k] THEN "REGRESSION"
        ELSE IF \E k \in shared : lm[k] < cm[k] THEN "IMPROVEMENT"
        ELSE "NEUTRAL"

-----------------------------------------------------------------------------
LoopInit ==
    /\ code = 0 /\ fresh = 0 /\ ipc = "off" /\ before = 0 /\ champion = 0
    /\ round = 0 /\ misses = 0 /\ summary = NoSummary /\ leftover = FALSE

\* The champion baseline: the suite throws, or a case is violated, and the loop
\* returns an error before it touches anything; or the rounds start.
StartLoop(exit) ==
    /\ ipc = "off"
    /\ IF Suite(code, exit)["0"].verdict = "BENCHMARK_VIOLATION"
       THEN /\ summary' = [NoSummary EXCEPT !.error = TRUE]
            /\ UNCHANGED <<ipc, champion>>
       ELSE /\ summary' = NoSummary /\ ipc' = "round" /\ champion' = code
    /\ round' = 0 /\ misses' = 0
    /\ UNCHANGED <<code, fresh, before, leftover>>

\* The end of a round: the saturation check (skipped by the `continue` after a
\* benchmark that threw), then the next round or the summary.
EndRound(kind, checked) ==
    LET m   == IF kind = "improvements" THEN 0 ELSE misses + 1
        sat == checked /\ m >= SaturationWindow
    IN  /\ misses' = m
        /\ round' = round + 1
        /\ summary' = [summary EXCEPT ![kind] = @ + 1, !.saturated = sat]
        /\ ipc' = IF sat \/ round' = MaxRounds THEN "off" ELSE "round"

\* No operation proposed, the model or the parser throws, or applyOperationSet
\* throws after it restored what it had written: a neutral round.
NoPatch ==
    /\ ipc = "round"
    /\ EndRound("neutrals", TRUE)
    /\ UNCHANGED <<code, fresh, before, champion, leftover>>

ApplyPatch ==
    /\ ipc = "round" /\ fresh < MaxVersion
    /\ before' = code
    /\ code' = fresh + 1 /\ fresh' = fresh + 1
    /\ ipc' = "challenge"
    /\ UNCHANGED <<champion, round, misses, summary, leftover>>

\* rollbackOperationSet drops the error list of rollbackFromSnapshot: a restore
\* that fails is seen by nobody.
Rollback(restored) ==
    IF restored THEN code' = before /\ UNCHANGED leftover
                ELSE leftover' = TRUE /\ UNCHANGED code

\* Mutant of BenchmarkThrows: the round goes on without the rollback.
BenchmarkThrowsAndStays(restored) ==
    /\ ipc = "challenge"
    /\ EndRound("neutrals", FALSE)
    /\ UNCHANGED <<code, leftover, fresh, before, champion>>

\* The challenger's suite throws: roll back, neutral, next round.
BenchmarkThrows(restored) ==
    /\ ipc = "challenge"
    /\ Rollback(restored)
    /\ EndRound("neutrals", FALSE)
    /\ UNCHANGED <<fresh, before, champion>>

\* The suite answers: a violation is rolled back as a regression; otherwise the
\* validator decides, and only IMPROVEMENT keeps the patch and moves the
\* champion (to what is on disk, or not at all when the new baseline throws).
Challenge(exit, restored, rebased) ==
    /\ ipc = "challenge"
    /\ LET violated == Suite(code, exit)["0"].verdict = "BENCHMARK_VIOLATION"
           verdict  == ValidateImprovement(MetricsOf(Suite(champion, 0)),
                                           MetricsOf(Suite(code, exit)))
           keep     == ~violated /\ verdict = "IMPROVEMENT"
       IN  IF keep
           THEN /\ champion' = IF rebased THEN code ELSE champion
                /\ EndRound("improvements", TRUE)
                /\ UNCHANGED <<code, leftover>>
           ELSE /\ Rollback(restored)
                /\ EndRound(IF violated \/ verdict = "REGRESSION"
                            THEN "regressions" ELSE "neutrals", TRUE)
                /\ UNCHANGED champion
    /\ UNCHANGED <<fresh, before>>

Round == \/ NoPatch
         \/ ApplyPatch
         \/ \E restored \in BOOLEAN : BenchmarkThrows(restored)
         \/ \E exit \in {0, 1}, restored, rebased \in BOOLEAN :
                Challenge(exit, restored, rebased)

LoopTypeOK ==
    /\ code \in 0..MaxVersion /\ fresh \in 0..MaxVersion /\ champion \in 0..MaxVersion
    /\ before \in 0..MaxVersion /\ ipc \in {"off", "round", "challenge"}
    /\ round \in 0..MaxRounds /\ misses \in 0..MaxRounds /\ leftover \in BOOLEAN
    /\ summary \in [improvements : 0..MaxRounds, neutrals : 0..MaxRounds,
                    regressions : 0..MaxRounds, saturated : BOOLEAN, error : BOOLEAN]
=============================================================================
