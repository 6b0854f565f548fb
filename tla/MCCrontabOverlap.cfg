SPECIFICATION Spec
CONSTANTS
  ic = ic
  wheel = wheel
  both = both
  note = note
  other = other
  Strategy <- MCStrategy
  Job <- MCJob
  Dirs <- MCDirs
  Package <- MCPackage
  Extending <- MCExtending
  InitialTables <- MCInitialTables
  Handler = {h1, h2}
  Fault = {}
  MaxFaults = 0
  MaxRequests = 2
PROPERTIES OutOfScopeKept
CHECK_DEADLOCK FALSE
