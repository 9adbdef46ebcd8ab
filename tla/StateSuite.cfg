\* One table, one tenant: what runs before the words of the commands are looked at.
CONSTANTS
  Tables = {ta}
  Tenants = {x}
  Mine = x
SPECIFICATION StateSpec
INVARIANT BlockedNeverRuns
\* a case ends
CHECK_DEADLOCK FALSE
