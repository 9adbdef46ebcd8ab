SPECIFICATION AuditSpec
CONSTANTS
  Names = {target, link, other}
  TargetFiles = {target, link}
  Escapes = {link}
  NoFile = NoFile
  MaxRepairs = 2
  MaxUnrestored = 1
INVARIANT ScopedFindingIsAsked
CHECK_DEADLOCK FALSE
