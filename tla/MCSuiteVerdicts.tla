--------------------------- MODULE MCSuiteVerdicts ---------------------------
(* The suites that judge what a program under test did: the schedules of the *)
(* concurrency suite, the database of the state suite, the traces of the     *)
(* state-machine suite, the workspaces of the CLI suite, the analyzers of    *)
(* the formal suite, the server of the performance suite, the requests of    *)
(* the API suite.  A behaviour is one case of one suite: `side` says which,  *)
(* and the others rest in an initial state.                                  *)
EXTENDS ScheduleSuite, StateSuite, WorkflowSuite, CliSuite, FormalSuite, PerformanceSuite, ApiSuite, TLC

VARIABLE side
mcVars == <<scheduleVars, stateVars, workflowVars, cliVars, formalVars, performanceVars, apiVars, side>>

\* The pins come first: TLC need not combine the cases of all suites.
MCInit ==
  /\ side \in {"schedules", "state", "workflow", "cli", "formal", "bench", "api"}
  /\ side # "schedules" => test = CHOOSE c \in ScheduleCases : TRUE
  /\ side # "state" => /\ spec = CHOOSE c \in StateCases : TRUE
                       /\ seed = [t \in Tables |-> [tenant |-> Mine, value |-> 0]]
  /\ side # "workflow" => workflow = CHOOSE c \in WorkflowCases : TRUE
  /\ side # "cli" => /\ cli = CHOOSE c \in CliCases : TRUE
                     /\ tested = "pure" /\ repo = [src |-> 1, log |-> 0, out |-> 0]
  /\ side # "formal" => /\ formal = [cases |-> <<CHOOSE c \in FormalCases : TRUE>>,
                                     threshold |-> "", requires |-> "", only |-> 0]
                        /\ report = Absent
  /\ side # "bench" => bench = (CHOOSE b \in Benches : TRUE) /\ file = NoBase
  /\ side # "api" => api = CHOOSE c \in ApiCases : TRUE
  /\ ScheduleInit /\ StateInit /\ WorkflowInit /\ CliInit /\ FormalInit /\ PerformanceInit /\ ApiInit

SchedulesOf(A) == side = "schedules" /\ A
  /\ UNCHANGED <<side, stateVars, workflowVars, cliVars, formalVars, performanceVars, apiVars>>
StateOf(A) == side = "state" /\ A
  /\ UNCHANGED <<side, scheduleVars, workflowVars, cliVars, formalVars, performanceVars, apiVars>>
WorkflowOf(A) == side = "workflow" /\ A
  /\ UNCHANGED <<side, scheduleVars, stateVars, cliVars, formalVars, performanceVars, apiVars>>
CliOf(A) == side = "cli" /\ A
  /\ UNCHANGED <<side, scheduleVars, stateVars, workflowVars, formalVars, performanceVars, apiVars>>
FormalOf(A) == side = "formal" /\ A
  /\ UNCHANGED <<side, scheduleVars, stateVars, workflowVars, cliVars, performanceVars, apiVars>>
BenchOf(A) == side = "bench" /\ A
  /\ UNCHANGED <<side, scheduleVars, stateVars, workflowVars, cliVars, formalVars, apiVars>>
ApiOf(A) == side = "api" /\ A
  /\ UNCHANGED <<side, scheduleVars, stateVars, workflowVars, cliVars, formalVars, performanceVars>>

MCNext ==
  \/ SchedulesOf(ScheduleStep) \/ StateOf(StateStep) \/ WorkflowOf(WorkflowStep)
  \/ CliOf(CliStep) \/ FormalOf(FormalStep) \/ BenchOf(PerformanceStep) \/ ApiOf(ApiStep)
MCSpec == MCInit /\ [][MCNext]_mcVars

\* States and commands of a workflow are names: nothing tells one from another.
Symmetry == Permutations(WorkflowStates) \cup Permutations(WorkflowCommands)
=============================================================================
