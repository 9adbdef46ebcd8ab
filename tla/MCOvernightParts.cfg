\* Batch: two surfaces, four attempts in all, one reviewer and one promoter.
\* Lock: three workers placed in two processes in every way, with a death of each process
\* and one lock that outlives its TTL.  Novelty: three batches, one target, one sibling
\* read and one ledger entry of it.  Patch: three files, a concurrent editor, failing writes.
\* Attempt: every mode, two files, two repair turns.
CONSTANTS
  Surfaces = {s1, s2}
  Reviewers = {r1}
  AttemptLimit = 3
  MaxTotalAttempts = 4
  None = None
  Workers = {w1, w2, w3}
  Processes = {n1, n2}
  MaxCrashes = 1
  MaxExpiries = 1
  MaxAcquires = 2
  Batches = {1, 2, 3}
  Targets = {t1}
  StagedBatches = {1, 2}
  BatchAttempts = 2
  MaxSiblings = 1
  SiblingCap = 1
  MayCrash = TRUE
  NoTarget = NoTarget
  N = 3
  UseManifest = TRUE
  Matching = {1, 2, 3}
  MaxEdits = 3
  MaxFaults = 2
  Modes = {"legacy", "staged", "planner-only"}
  Paths = {a, b}
  RepairTurns = 2
  RestoreFaults = TRUE
SPECIFICATION MCSpec
INVARIANTS
  LedgerTellsCommits ReservedWithinProcess HalfPatchReported CommitIsVetted NoCommitNoTrace
PROPERTIES
  BatchEnds ClosedStaysClosed Ends
\* the bounds end a lock's and a batch's behaviour, a patch and an attempt end
CHECK_DEADLOCK FALSE
