SPECIFICATION Spec
CONSTANTS
  Install = {i1}
  Lines = {"step", "success"}
  StartupHandlersRun = FALSE
  Budget = 1
  KillGrace = 1
  MaxLines = 1
  MaxRestarts = 1
  MaxFaults = 0
INVARIANT NothingInFlightIsOrphaned
