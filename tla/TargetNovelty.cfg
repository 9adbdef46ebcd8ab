\* Two batches and one target; everybody's ledger is read.
CONSTANTS
  Batches = {1, 2}
  Targets = {t1}
  StagedBatches = {1}
  BatchAttempts = 1
  MaxSiblings = 1
  SiblingCap = 1
  MayCrash = FALSE
  NoTarget = NoTarget
SPECIFICATION NoveltySpec
INVARIANT TriedOnce
\* every batch makes its attempts and ends
CHECK_DEADLOCK FALSE
