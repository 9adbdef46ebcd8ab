\* One surface, one attempt, two reviewers who call resolveDeferredAudit at once, one promoter.
CONSTANTS
  Surfaces = {s1}
  Reviewers = {r1, r2}
  AttemptLimit = 1
  MaxTotalAttempts = 1
  None = None
SPECIFICATION BatchSpec
INVARIANT PromotedWereKept
\* the batch and its reviews end
CHECK_DEADLOCK FALSE
