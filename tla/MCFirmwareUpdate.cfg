CONSTANTS
  Updaters = {u1, u2, u3}
  Cancellers = {c1, c2}
  BadImages = {u2}
  FACTORY = FACTORY
  NONE = NONE
  Chunks = 3
  Length <- MCLength
  Short = {u1}
  ReportEvery = 1
  ProgressCap = 10
  MaxAttempts = 2
  Racing = FALSE
SPECIFICATION FairSpec
CHECK_DEADLOCK FALSE
INVARIANTS
  TypeOK
  BootTargetComplete
  PreviousFirmwareKept
PROPERTIES
  SuccessMeansInstalled
  UpdateTerminates
