SPECIFICATION FairStreams
CONSTANTS
  Install = {i1}
  Client = {c1}
  Lines = {"log", "already_installed", "success"}
  StartupHandlersRun = TRUE
  Budget = 2
  KillGrace = 1
  StreamCap = 4
  MaxLines = 3
  MaxRestarts = 2
  MaxFaults = 1
INVARIANTS StreamsTypeOK DeliveredInOrder ToldTheOutcome
PROPERTIES CapOnlyIfAbandoned EveryStreamEnds EveryRunIsDecided
