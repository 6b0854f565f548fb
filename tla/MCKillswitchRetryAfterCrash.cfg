SPECIFICATION Spec
CONSTANTS
  s1 = s1
  s2 = s2
  Strategy <- MCStrategy
  InitialModes <- MCInitialModes
  Handler = {h1}
  Fault = {"die"}
  MaxPresses = 2
  MaxDeaths = 1
INVARIANT AlwaysRecoverable
CHECK_DEADLOCK FALSE
