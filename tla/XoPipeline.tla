----------------------------- MODULE XoPipeline ------------------------------
(***************************************************************************)
(* The six phase pipeline of xo_pipeline.cjs over the directive queue of   *)
(* directive_approval.cjs, with the improve loop as its fifth phase.       *)
(*                                                                         *)
(* The operator approves, skips and edits directives while a run goes on.  *)
(* A run lists the approved ones, runs each (directive_runner.cjs), files  *)
(* it in history/ or leaves it queued, then polishes, fuzzes, benchmarks,  *)
(* improves and reports.  The process may die anywhere and be started      *)
(* again: only the queue and the code survive.                             *)
(***************************************************************************)
EXTENDS ImproveLoop

CONSTANTS Directives, Links,   \* Links: entries of the queue that are symlinks
          NoDirective,
          Requests, OptIns,      \* the phase lists and opt-in sets runs are given
          MaxEdits, MaxRuns, MaxMishaps   \* bounds; a mishap is a crash or a filing that fails

ASSUME QueueAssumption ==
    /\ Links \subseteq Directives /\ NoDirective \notin Directives
    /\ OptIns \subseteq SUBSET {"build", "fuzz", "benchmark"}
    /\ {MaxEdits, MaxRuns, MaxMishaps} \subseteq Nat

VARIABLES
    place,     \* [Directives -> SUBSET Folders], the folders holding the file
    text,      \* [Directives -> 0..MaxEdits], what the queued file says
    phase,     \* the phase the run is in, "idle" or "report"
    active,    \* the phases this run was asked for
    allowed,   \* the opt-ins it was given
    todo, seen,   \* BUILD: admitted entries left to run, and their text then
    cur, runner,  \* BUILD: the directive that ran last, and how it ended
    loaded,    \* BUILD: what its file said when it ran
    entries,   \* BUILD: directives whose completionError is in the results
    result,    \* [Phases -> how the phase ended]
    measured,  \* [{"fuzz","benchmark"} -> version it looked at, -1: none]
    done,      \* [Directives -> successful executions of its current life]
    told,      \* directives whose completionError a report has shown
    cut,       \* directives a crash took the results of
    runs, mishaps   \* bounds

queueVars == <<place, text, phase, active, allowed, todo, seen, cur, runner, loaded, entries,
               result, measured, done, told, cut, runs, mishaps>>
vars == <<loopVars, queueVars>>

Order == <<"build", "polish", "fuzz", "benchmark", "improve", "finalPolish", "report">>
Phases == {Order[i] : i \in 1..6}
Folders == {"pending", "approved", "history", "skipped"}
Following(p) == Order[(CHOOSE i \in 1..6 : Order[i] = p) + 1]

\* What a runner hands back, as far as phaseBuild tells results apart; "throw"
\* is the synthetic result built from an exception, and `transient` the flag,
\* code, HTTP status or text that makes a failure look retryable.
Kinds == {"void", "okTrue", "successStatus", "pendingStatus", "worked", "empty",
          "errorObject", "throw"}
IsPending(r) == r.kind = "pendingStatus"
IsOk(r) == r.kind \in {"void", "okTrue", "successStatus", "worked"}
LooksRetryable(r) == ~IsOk(r) /\ r.transient

\* Mutant of Classify: whatever looks transient is retried, a success too.
ClassifyTransientFirst(r) ==
    IF r.transient THEN "retryable"
    ELSE IF IsOk(r) THEN "ok" ELSE IF IsPending(r) THEN "pending" ELSE "failed"

Classify(r) == IF IsOk(r) THEN "ok"
               ELSE IF IsPending(r) THEN "pending"
               ELSE IF LooksRetryable(r) THEN "retryable" ELSE "failed"
ShouldArchive(class) == class \in {"ok", "failed"}

-----------------------------------------------------------------------------
Init ==
    /\ LoopInit
    /\ place = [d \in Directives |-> {"pending"}]
    /\ text = [d \in Directives |-> 0]
    /\ phase = "idle" /\ active = {} /\ allowed = {}
    /\ todo = {} /\ seen = text /\ cur = NoDirective /\ runner = "ok" /\ loaded = 0 /\ entries = {}
    /\ result = [p \in Phases |-> "none"]
    /\ measured = [p \in {"fuzz", "benchmark"} |-> -1]
    /\ done = [d \in Directives |-> 0] /\ told = {} /\ cut = {}
    /\ runs = 0 /\ mishaps = 0

runVars == <<phase, active, allowed, todo, seen, cur, runner, loaded, entries, result,
             measured, done, told, cut, runs, mishaps>>

\* approveDirective refuses a name that approved/ already holds, then renames.
ApproveDirective(d) ==
    /\ place[d] = {"pending"}
    /\ place' = [place EXCEPT ![d] = {"approved"}]
    /\ UNCHANGED <<loopVars, text, runVars>>

SkipDirective(d) ==
    /\ place[d] = {"pending"}
    /\ place' = [place EXCEPT ![d] = {"skipped"}]
    /\ UNCHANGED <<loopVars, text, runVars>>

\* The operator rewrites a queued directive, whether or not a run has it.
EditDirective(d) ==
    /\ "approved" \in place[d] /\ \A e \in Directives : text[e] < MaxEdits
    /\ text' = [text EXCEPT ![d] = @ + 1]
    /\ UNCHANGED <<loopVars, place, runVars>>

-----------------------------------------------------------------------------
\* The phases to run: the known ones among those requested, none when all are
\* unknown, all when nothing is requested.
ActivePhases(requested) == IF requested = {} THEN Phases ELSE requested \cap Phases

StartRun(requested, optins) ==
    /\ phase = "idle" /\ runs < MaxRuns
    /\ runs' = runs + 1
    /\ active' = ActivePhases(requested) /\ allowed' = optins
    /\ phase' = "build"
    /\ UNCHANGED <<loopVars, place, text, todo, seen, cur, runner, loaded, entries, result,
                   measured, done, told, cut, mishaps>>

\* What a run keeps in memory dies with it.
ForgetRun ==
    /\ phase' = "idle" /\ active' = {} /\ allowed' = {} /\ todo' = {}
    /\ seen' = [d \in Directives |-> 0] /\ cur' = NoDirective /\ runner' = "ok" /\ loaded' = 0
    /\ entries' = {} /\ result' = [p \in Phases |-> "none"]
    /\ measured' = [p \in {"fuzz", "benchmark"} |-> -1]
    /\ ipc' = "off" /\ before' = 0 /\ champion' = 0 /\ round' = 0 /\ misses' = 0
    /\ summary' = NoSummary

\* A phase ends, by its result or by the catch of runPhaseSafely: either way
\* the next one starts.
Finish(p, how) == /\ result' = [result EXCEPT ![p] = how]
                  /\ phase' = Following(p)

SkipPhase(p) ==
    /\ phase = p /\ p \notin active
    /\ Finish(p, "skipped")
    /\ UNCHANGED <<loopVars, place, text, active, allowed, todo, seen, cur, runner, loaded,
                   entries, measured, done, told, cut, runs, mishaps>>

\* phaseBuild before its loop: the opt-in, the list of approved/, the refusal of
\* links, the fingerprint of what is left; an empty list skips the phase.
AdmitDirectives ==
    LET plain == {d \in Directives : "approved" \in place[d]} \ Links
    IN  /\ phase = "build" /\ "build" \in active
        /\ cur = NoDirective /\ todo = {} /\ result["build"] = "none"
        /\ IF "build" \in allowed /\ plain # {}
           THEN /\ todo' = plain /\ seen' = text
                /\ result' = [result EXCEPT !["build"] = "running"]
                /\ UNCHANGED phase
           ELSE Finish("build", "skipped") /\ UNCHANGED <<todo, seen>>
        /\ UNCHANGED <<loopVars, place, text, active, allowed, cur, runner, loaded, entries,
                       measured, done, told, cut, runs, mishaps>>

\* runDirective: load the file as it is now, route it, await the runner.
RunDirective(d, r) ==
    /\ phase = "build" /\ d \in todo /\ cur = NoDirective
    /\ todo' = todo \ {d} /\ cur' = d /\ runner' = Classify(r) /\ loaded' = text[d]
    /\ done' = [done EXCEPT ![d] = IF IsOk(r) /\ @ < 2 THEN @ + 1 ELSE @]
    /\ UNCHANGED <<loopVars, place, text, phase, active, allowed, seen, entries, result,
                   measured, told, cut, runs, mishaps>>

\* Mutant of KeepDirective: what is not archived is tried again in the same run.
KeepDirectiveForRetry ==
    /\ cur # NoDirective /\ ~ShouldArchive(runner)
    /\ cur' = NoDirective /\ todo' = todo \cup {cur}
    /\ UNCHANGED <<loopVars, place, text, phase, active, allowed, seen, runner, loaded,
                   entries, result, measured, done, told, cut, runs, mishaps>>

\* Pending and transient results leave the directive where it is.
KeepDirective ==
    /\ cur # NoDirective /\ ~ShouldArchive(runner)
    /\ cur' = NoDirective
    /\ UNCHANGED <<loopVars, place, text, phase, active, allowed, todo, seen, runner, loaded,
                   entries, result, measured, done, told, cut, runs, mishaps>>

\* completeDirective: copy to history/ with the result, then unlink the source.
ArchiveDirective ==
    /\ cur # NoDirective /\ ShouldArchive(runner)
    /\ place' = [place EXCEPT ![cur] = (@ \ {"approved"}) \cup {"history"}]
    /\ cur' = NoDirective
    /\ UNCHANGED <<loopVars, text, phase, active, allowed, todo, seen, runner, loaded, entries,
                   result, measured, done, told, cut, runs, mishaps>>

\* Mutant of FailToArchive: the error is forgotten when the fallback unlinks the source.
FailToArchiveQuietly(copied, unlinks) ==
    /\ cur # NoDirective /\ ShouldArchive(runner) /\ mishaps < MaxMishaps
    /\ mishaps' = mishaps + 1
    /\ LET removed == unlinks /\ text[cur] = seen[cur]
       IN  place' = [place EXCEPT ![cur] =
               (IF removed THEN @ \ {"approved"} ELSE @)
                   \cup (IF copied THEN {"history"} ELSE {})]
    /\ entries' = IF unlinks THEN entries ELSE entries \cup {cur}
    /\ cur' = NoDirective
    /\ UNCHANGED <<loopVars, text, phase, active, allowed, todo, seen, runner, loaded, result,
                   measured, done, told, cut, runs>>

\* completeDirective throws before or after it wrote the copy; the fallback
\* unlinks the source if its fingerprint is the admitted one and the unlink
\* works, and the entry carries the completionError whatever happens.
FailToArchive(copied, unlinks) ==
    /\ cur # NoDirective /\ ShouldArchive(runner) /\ mishaps < MaxMishaps
    /\ mishaps' = mishaps + 1
    /\ LET removed == unlinks /\ text[cur] = seen[cur]
       IN  place' = [place EXCEPT ![cur] =
               (IF removed THEN @ \ {"approved"} ELSE @)
                   \cup (IF copied THEN {"history"} ELSE {})]
    /\ entries' = entries \cup {cur}
    /\ cur' = NoDirective
    /\ UNCHANGED <<loopVars, text, phase, active, allowed, todo, seen, runner, loaded, result,
                   measured, done, told, cut, runs>>

FinishBuild ==
    /\ phase = "build" /\ result["build"] = "running" /\ todo = {} /\ cur = NoDirective
    /\ Finish("build", "ok")
    /\ UNCHANGED <<loopVars, place, text, active, allowed, todo, seen, cur, runner, loaded,
                   entries, measured, done, told, cut, runs, mishaps>>

\* POLISH and FINAL POLISH: runPolishLoop works in worktrees and reads `landed`
\* from a batch result that has none, so the main tree is as before, and a loop
\* that throws ends its phase like one that returns.
Polish(p) ==
    /\ phase = p /\ p \in active /\ p \in {"polish", "finalPolish"}
    /\ Finish(p, "ok")
    /\ UNCHANGED <<loopVars, place, text, active, allowed, todo, seen, cur, runner, loaded,
                   entries, measured, done, told, cut, runs, mishaps>>

\* FUZZ and BENCHMARK: skipped without the opt-in, or with nothing tracked to
\* run; a module or a file that throws is a crash or a failure of the result.
Measure(p, how) ==
    /\ phase = p /\ p \in active /\ p \in {"fuzz", "benchmark"}
    /\ p \notin allowed => how \in {"skipped", "failed"}
    /\ Finish(p, how)
    /\ measured' = [measured EXCEPT ![p] = IF how = "ok" THEN code ELSE @]
    /\ UNCHANGED <<loopVars, place, text, active, allowed, todo, seen, cur, runner, loaded,
                   entries, done, told, cut, runs, mishaps>>

\* IMPROVE runs only against a benchmark phase that counted a case; resolveBenchmarkPath
\* then finds it a file.
EnterImprove(exit) ==
    /\ phase = "improve" /\ "improve" \in active /\ result["improve"] = "none"
    /\ IF result["benchmark"] = "ok"
       THEN /\ StartLoop(exit)
            /\ result' = [result EXCEPT !["improve"] = "running"]
            /\ UNCHANGED phase
       ELSE Finish("improve", "skipped") /\ UNCHANGED loopVars
    /\ UNCHANGED <<place, text, active, allowed, todo, seen, cur, runner, loaded, entries,
                   measured, done, told, cut, runs, mishaps>>

ImproveRound ==
    /\ phase = "improve" /\ Round
    /\ UNCHANGED queueVars

LeaveImprove ==
    /\ phase = "improve" /\ result["improve"] = "running" /\ ipc = "off"
    /\ Finish("improve", IF summary.error THEN "failed" ELSE "ok")
    /\ UNCHANGED <<loopVars, place, text, active, allowed, todo, seen, cur, runner, loaded,
                   entries, measured, done, told, cut, runs, mishaps>>

\* buildXoSummary and the report.
NeedsRevalidation == result["improve"] = "ok" /\ summary.improvements > 0

Report ==
    /\ phase = "report"
    /\ told' = told \cup entries
    /\ ForgetRun
    /\ UNCHANGED <<code, fresh, leftover, place, text, done, cut, runs, mishaps>>

\* The process dies: the results it held are lost, a directive being filed may be
\* in both folders, and a challenger stays on disk.
Crash(copied) ==
    /\ phase # "idle" /\ mishaps < MaxMishaps
    /\ copied => cur # NoDirective /\ ShouldArchive(runner)
    /\ mishaps' = mishaps + 1
    /\ place' = IF copied THEN [place EXCEPT ![cur] = @ \cup {"history"}] ELSE place
    /\ cut' = cut \cup entries \cup (IF cur = NoDirective THEN {} ELSE {cur})
    /\ leftover' = (leftover \/ ipc = "challenge")
    /\ ForgetRun
    /\ UNCHANGED <<code, fresh, text, done, told, runs>>

Operator == \E d \in Directives : ApproveDirective(d) \/ SkipDirective(d) \/ EditDirective(d)

Step ==
    \/ \E p \in Phases : SkipPhase(p)
    \/ AdmitDirectives
    \/ \E d \in Directives, r \in [kind : Kinds, transient : BOOLEAN] : RunDirective(d, r)
    \/ KeepDirective \/ ArchiveDirective
    \/ \E copied, unlinks \in BOOLEAN : FailToArchive(copied, unlinks)
    \/ FinishBuild
    \/ \E p \in Phases : Polish(p)
    \/ \E p \in Phases, how \in {"ok", "failed", "skipped"} : Measure(p, how)
    \/ \E exit \in {0, 1} : EnterImprove(exit)
    \/ ImproveRound \/ LeaveImprove \/ Report

Next ==
    \/ Operator
    \/ \E requested \in Requests, optins \in OptIns : StartRun(requested, optins)
    \/ Step
    \/ \E copied \in BOOLEAN : Crash(copied)

Fairness == WF_vars(Step)
Spec == Init /\ [][Next]_vars /\ Fairness

-----------------------------------------------------------------------------
TypeOK ==
    /\ LoopTypeOK
    /\ place \in [Directives -> SUBSET Folders]
    /\ text \in [Directives -> 0..MaxEdits] /\ seen \in [Directives -> 0..MaxEdits]
    /\ phase \in Phases \cup {"idle", "report"} /\ active \subseteq Phases
    /\ allowed \subseteq {"build", "fuzz", "benchmark"}
    /\ todo \subseteq Directives /\ cur \in Directives \cup {NoDirective}
    /\ runner \in {"ok", "pending", "retryable", "failed"} /\ loaded \in 0..MaxEdits
    /\ entries \subseteq Directives
    /\ result \in [Phases -> {"none", "running", "ok", "failed", "skipped"}]
    /\ measured \in [{"fuzz", "benchmark"} -> -1..MaxVersion]
    /\ done \in [Directives -> 0..2] /\ told \subseteq Directives /\ cut \subseteq Directives
    /\ runs \in 0..MaxRuns /\ mishaps \in 0..MaxMishaps

-----------------------------------------------------------------------------
\* A directive the operator approved is never lost in silence: when no folder
\* holds it any more, a report has said that it could not be filed, or says so
\* in the results being built, or a crash took those results.
NoneLostInSilence ==
    \A d \in Directives : place[d] = {} => d \in told \cup entries \cup cut

\* A directive that succeeded runs successfully again only when its filing
\* failed, which the report said, or the process died around it.
NoSilentReplay ==
    \A d \in Directives : done[d] > 1 => d \in told \cup entries \cup cut

\* A report without failure that asks for no revalidation speaks of the code on
\* disk: what FUZZ and BENCHMARK measured is what IMPROVE left, unless a restore
\* failed, which the loop cannot see.
CleanReportIsCurrent ==
    phase = "report" /\ ~NeedsRevalidation /\ ~leftover =>
        \A p \in {"fuzz", "benchmark"} : result[p] = "ok" => measured[p] = code

\* A started run reaches its end, whatever its phases throw and its directives do.
RunEnds == (phase # "idle") ~> (phase = "idle")

\* What history/ says was executed is what was executed.
FiledIsWhatRan ==
    [][\A d \in Directives : "history" \in place'[d] /\ "history" \notin place[d]
           => text[d] = loaded]_vars

\* A challenger with the champion's output and a lower cost stays on disk.
ImprovementKept ==
    [][\A rebased \in BOOLEAN :
           Challenge(0, TRUE, rebased) /\ CaseVerdict(code, 0) = "PASS"
               /\ Cost[code] < Cost[champion] => code' = code]_vars
=============================================================================
