\* Pipeline: two directives, one of them a symlink in the queue; two runs, one edit of
\* a directive, one crash or filing that fails; two rounds, three versions of the code.
\* Build mode: two features, two reviewers, one repair turn, two builds, one fault.
\* Reports: one process, two codes, four errors, two reports an hour of two ticks.
\* Signals: two surfaces, two errors of each, two issues.
CONSTANTS
  d1 = d1
  link = link
  NoDirective = NoDirective
  Directives <- MCDirectives
  Links <- MCLinks
  Requests <- MCRequests
  OptIns <- MCOptIns
  MaxRounds = 2
  SaturationWindow = 2
  MaxVersion = 2
  Cost <- MCCost
  Bound = 5
  Broken = {}
  MaxEdits = 1
  MaxRuns = 2
  MaxMishaps = 1
  Features = {f1, f2}
  Reviewers = {r1, r2}
  NoFeature = NoFeature
  MaxRepairTurns = 1
  MaxBuilds = 2
  MaxDrafts = 4
  MaxFaults = 1
  Hosts = {h1}
  Codes = {ca, cb}
  MaxCaptures = 4
  MaxPerHour = 2
  Hour = 2
  MaxClock = 4
  MinSample = 1
  MaxErrors = 2
  MaxIssues = 2
SPECIFICATION MCSpec
INVARIANTS
  NoneLostInSilence NoSilentReplay CleanReportIsCurrent
  BundleWasProven 
  RollingLimit EverySignalHasItsFile
PROPERTIES RunEnds
\* runs, builds and drafts are bounded
CHECK_DEADLOCK FALSE
