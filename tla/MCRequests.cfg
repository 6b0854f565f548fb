SPECIFICATION Spec
CONSTANTS
  dte = dte
  delta = delta
  low = low
  high = high
  Reader = {r1, r2}
  TTL = 2
  MaxTime = 3
  MaxVersions = 4
  Client = {c1, c2}
  Path <- MCPath
  Value <- MCValue
  Valid <- MCValid
  Fault = {"shim", "timeout", "audit"}
  MaxCommits = 3
  Operator = {o1, o2}
  MaxPosts = 2
  Caller = {h1, h2}
  Window = 2
  MaxInputs = 2
  MaxRuns = 3
INVARIANTS
  TypeOK BoundedStaleness ReadYourWrites TrailTellsTheFile ToldTheTruth
  OrderedOnce OkIsCurrent
CHECK_DEADLOCK FALSE
