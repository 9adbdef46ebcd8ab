\* The manifest: three updaters, one poll before the timeout, one stale lock deleted
\* by the operator.  Lanes: two, one worker at a time, two attempts, two runs of the
\* batch, one death or command.  Session: two processes, three calls, one death.
\* Branches: every session of three kept entries over two files.  Calls: two attempts, a
\* retry budget of three ticks, a timeout of two and a grace of one.
CONSTANTS
  Procs = {p1, p2, p3}
  MaxPolls = 1
  MaxUpdates = 1
  MaxDeletes = 1
  NumLanes = 2
  Parallel = 1
  AttemptsPerLane = 2
  Reviewers = {correctness, simplicity}
  Veto = {correctness}
  Quorum = 1
  MaxRuns = 2
  MaxMishaps = 1
  Processes = {n1, n2}
  NoProcess = NoProcess
  MaxCalls = 3
  MaxDeaths = 1
  Files = {fa, fb}
  NumEntries = 3
  MaxAttempts = 2
  MaxDelay = 2
  RetryBudget = 3
  TimeLimit = 2
  Grace = 1
SPECIFICATION MCSpec
INVARIANTS LaneIsChain CommitIsOneAttempt RecordedStays BranchesAreIndependent
PROPERTIES RefinesStore BatonEnds CallEnds
\* updaters may have made their updates or died; every part has bounds
CHECK_DEADLOCK FALSE
