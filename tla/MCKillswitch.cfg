SPECIFICATION FairSpec
CONSTANTS
  s1 = s1
  s2 = s2
  Strategy <- MCStrategy
  InitialModes <- MCInitialModes
  Handler = {h1}
  Fault = {"shim", "timeout", "snapshot", "unlink", "corrupt", "audit",
           "die"}
  MaxPresses = 5
  MaxDeaths = 2
INVARIANTS TypeOK Recoverable EngagedIsDry DryRunStays
PROPERTIES RestoredExactly EveryPressEnds
CHECK_DEADLOCK FALSE
