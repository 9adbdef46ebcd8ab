\* Two workers, no crash, no expiry: the window before meta.json is written.
CONSTANTS
  Workers = {w1, w2}
  Processes = {n1, n2}
  MaxCrashes = 0
  MaxExpiries = 0
  MaxAcquires = 2
SPECIFICATION LockSpec
INVARIANT ReservedOnce
\* the bounds on crashes and acquisitions end the behaviour
CHECK_DEADLOCK FALSE
