SPECIFICATION Spec
CONSTANTS
  ic = ic
  wheel = wheel
  both = both
  note = note
  other = other
  Strategy <- MCStrategy
  Job <- MCJob
  Dirs <- MCDirs
  Package <- MCPackage
  Extending <- MCExtending
  InitialTables <- MCInitialTables
  Handler = {h1}
  Fault = {"unbound", "backup", "read", "write", "lost", "check", "restore"}
  MaxFaults = 1
  MaxRequests = 4
INVARIANTS TypeOK OkIsEffective AllOrNothing NothingElseChanges
PROPERTIES OutOfScopeKept
CHECK_DEADLOCK FALSE
