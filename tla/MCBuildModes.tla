----------------------------- MODULE MCBuildModes -----------------------------
(* From a wish or an error to a change: the reports of errors and the issues *)
(* they become, the directives made of signals and issues, the pipeline over *)
(* the directive queue with its improve loop, and BUILD mode with its        *)
(* approval checkpoint.  A behaviour is one of one part: `side` says which,  *)
(* and the others rest in an initial state.                                  *)
EXTENDS XoPipeline, FeatureBuild, ErrorReports, SignalDirectives, TLC

CONSTANTS d1, link
MCDirectives == {d1, link}
MCLinks == {link}
MCCost == 0 :> 3 @@ 1 :> 1 @@ 2 :> 9
MCRequests == {{}, {"typo", "build", "improve", "benchmark"}}
MCOptIns == {{}, {"build", "fuzz", "benchmark"}}

VARIABLE side
mcVars == <<vars, buildVars, reportVars, signalVars, side>>

\* The pins come first: TLC need not combine the initial states of all parts.
MCInit ==
  /\ side \in {"pipeline", "feature", "reports", "signals"}
  /\ side # "reports" => config = [analytics |-> "none", others |-> FALSE, broken |-> FALSE]
  /\ side # "signals" => /\ signals = [adapter |-> "engine",
                                       found |-> CHOOSE f \in [Surfaces -> Reports] : TRUE]
                         /\ options = [minScore |-> 0, dryRun |-> FALSE, further |-> FALSE]
  /\ Init /\ BuildInit /\ ReportInit /\ SignalInit

PipelineOf(A) == side = "pipeline" /\ A /\ UNCHANGED <<side, buildVars, reportVars, signalVars>>
FeatureOf(A) == side = "feature" /\ A /\ UNCHANGED <<side, vars, reportVars, signalVars>>
ReportsOf(A) == side = "reports" /\ A /\ UNCHANGED <<side, vars, buildVars, signalVars>>
SignalsOf(A) == side = "signals" /\ A /\ UNCHANGED <<side, vars, buildVars, reportVars>>

MCNext ==
  \/ PipelineOf(Next) \/ FeatureOf(BuildNext)
  \/ ReportsOf(ReportStep) \/ SignalsOf(SignalStep)
MCFairness == WF_mcVars(PipelineOf(Step))
MCSpec == MCInit /\ [][MCNext]_mcVars /\ MCFairness
=============================================================================
