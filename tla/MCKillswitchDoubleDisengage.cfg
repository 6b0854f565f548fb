SPECIFICATION Spec
CONSTANTS
  s1 = s1
  s2 = s2
  Strategy <- MCStrategy
  InitialModes <- MCInitialModes
  Handler = {h1}
  Fault = {}
  MaxPresses = 3
  MaxDeaths = 0
INVARIANT BackToBaseline
CHECK_DEADLOCK FALSE
