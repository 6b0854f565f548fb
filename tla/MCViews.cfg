SPECIFICATION Spec
CONSTANTS
  Peer = {p1, p2, p3}
  MaxMoment = 3
  Bot = {1, 2}
  Pnl <- MCPnl
  Totals <- MCTotals
  Short = {1}
  Long = {2}
  MaxDay = 2
  MaxDeaths = 2
  Chunk = 2
  Limit = 1
  MaxSize = 4
  MaxRotates = 1
  Gap = 3
  Window = 4
  PageSize = 1
  MaxLines = 5
  MaxClock = 7
  DayLength = 8
  Minute = 2
  Open = 2
  Close = 6
  Schedule = {2, 4}
  Grace = 2
  StaleAfter = 3
  FirstWeekday = 4
  Behind = 0
  MaxInstant = 29
  MaxLogged = 2
  MaxCloses = 1
INVARIANTS
  TypeOK OneRowPerDay DeltasTelescope NothingSkipped DetailIsTheSession
  PagesAgree
PROPERTIES
  SnapshotsInOrder ServedInTurn
CHECK_DEADLOCK FALSE
