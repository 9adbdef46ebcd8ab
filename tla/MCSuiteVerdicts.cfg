\* Schedules: three events, explored or too many to be, up to two constraints, a limit that cuts the search and one
\* that does not, the whole repair loop, plans of two schedules run twice each.
\* State: one table, two tenants.  Workflows: two states, two commands (a trace of up
\* to three steps), up to two transitions.  CLI: two executions of the case.  Formal: one
\* case under every policy, and two that share a report file.  Bench: two values of the
\* metric, two samples, three probes.  API: one request of each kind, repeated once, one
\* write of its own each.
CONSTANTS
  NumEvents = 3
  Caps = {2, 3}
  MaxBefore = 2
  Limits = {1, 10}
  MaxPasses = 4
  MaxRunnable = 2
  Tables = {ta}
  Tenants = {x, y}
  Mine = x
  WorkflowStates = {s1, s2}
  WorkflowCommands = {go, back}
  Unknown = Unknown
  MaxTransitions = 2
  MaxCommands = 2
  MaxRuns = 2
  MaxCases = 2
  Times = {0, 1}
  NoBase = NoBase
  Repeat = 2
  Deadline = 1
  MaxProbes = 3
  MaxRepeat = 2
  MaxRows = 1
  MaxRetries = 1
SPECIFICATION MCSpec
SYMMETRY Symmetry
INVARIANTS
  SchedulesObey ExplorationIsExhaustive
  PassIsContained JudgesAgree
  DifferenceIsTheCommands VerdictFollowsPolicy
  ServerIsStopped NoWriteEscapes
\* a case ends
CHECK_DEADLOCK FALSE
