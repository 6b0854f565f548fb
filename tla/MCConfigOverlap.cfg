SPECIFICATION Spec
CONSTANTS
  dte = dte
  delta = delta
  low = low
  high = high
  Reader = {}
  TTL = 2
  MaxTime = 3
  MaxVersions = 4
  Client = {c1, c2}
  Path <- MCPath
  Value <- MCValue
  Valid <- MCOneEach
  Fault = {}
  MaxCommits = 2
  Operator = {}
  MaxPosts = 2
  Caller = {}
  Window = 2
  MaxInputs = 2
  MaxRuns = 3
INVARIANTS RecordedEditsHold
CHECK_DEADLOCK FALSE
