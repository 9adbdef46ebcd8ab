SPECIFICATION FinalizeSpec
CONSTANTS
  Files = {fa, fb, fc}
  NumEntries = 3
INVARIANT GroupsAreReplayed
CHECK_DEADLOCK FALSE
