SPECIFICATION FairSpec
CONSTANTS
  Install = {i1}
  Lines = {"oversize", "success"}
  StartupHandlersRun = TRUE
  Budget = 1
  KillGrace = 1
  MaxLines = 1
  MaxRestarts = 0
  MaxFaults = 0
PROPERTY EveryRunIsDecided
