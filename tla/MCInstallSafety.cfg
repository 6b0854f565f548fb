SPECIFICATION Spec
CONSTANTS
  Install = {i1, i2}
  Lines = {"step", "success", "already_installed", "failed", "oversize"}
  StartupHandlersRun = TRUE
  Budget = 1
  KillGrace = 1
  MaxLines = 2
  MaxRestarts = 2
  MaxFaults = 1
INVARIANTS TypeOK CompleteIsLast FilesAgree LogTrailsState FinishedIsAnnounced NothingInFlightIsOrphaned
PROPERTIES NeverRunAgain ContractHolds
