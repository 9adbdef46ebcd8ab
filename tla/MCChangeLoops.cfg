\* Optimise: two contents, two metrics, one to be maximised, three rounds, restores
\* that fail.  Verify: two cases, two observations of each, two records.  Research:
\* three iterations, two judges, one fault.  Audit: three names of which one is a link
\* out of the root, two rounds, one file that is not restored.  Operations: two of them,
\* files of up to three tokens, one write by another process.  Proposals: two changes,
\* one fault.  Discovery: one scan, two verify runs, one edit.
CONSTANTS
  Contents = {a, b}
  Targets = {speed, size}
  Maximized = {speed}
  Values = {0, 1, 2}
  Missing = Missing
  Threshold = 0
  MaxRegression = 0
  RoundLimit = 3
  RestoreFaults = TRUE
  Cases = {home, cart}
  Observations = {o1, o2}
  NoBaseline = NoBaseline
  MaxRecords = 2
  MaxIterations = 3
  TokenBudget = 1
  MaxTokens = 1
  Judges = {maintainer, hacker}
  Scores = {1, 3, 5}
  VetoScore = 1
  MaxFaults = 1
  Names = {target, link, other}
  TargetFiles = {target, link}
  Escapes = {link}
  NoFile = NoFile
  MaxRepairs = 2
  MaxUnrestored = 1
  MaxText = 3
  MaxOps = 2
  MaxOutside = 1
  MaxChanges = 2
  MaxSlips = 1
  MaxRepoEdits = 1
  MaxProofs = 2
  MaxScans = 1
SPECIFICATION MCSpec
INVARIANTS
  ChampionVerified NeverReturns CardTellsTruth StartsAtHead  EndsAsAudited
  DryRunIsKept ExitTellsTheDisk GateLeavesNoneOpen
\* the loops and the bounds end
CHECK_DEADLOCK FALSE
