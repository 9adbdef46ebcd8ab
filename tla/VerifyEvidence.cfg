SPECIFICATION EvidenceSpec
CONSTANTS
  Cases = {home, cart}
  Observations = {o1, o2}
  NoBaseline = NoBaseline
  MaxRecords = 2
INVARIANT GapsAreShown
CHECK_DEADLOCK FALSE
