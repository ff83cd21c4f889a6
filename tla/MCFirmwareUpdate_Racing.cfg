CONSTANTS
  Updaters = {u1, u2}
  Cancellers = {}
  BadImages = {u2}
  FACTORY = FACTORY
  NONE = NONE
  Chunks = 2
  Length <- MCLength
  Short = {}
  ReportEvery = 2
  ProgressCap = 9
  MaxAttempts = 2
  Racing = TRUE
SPECIFICATION Spec
CHECK_DEADLOCK FALSE
INVARIANT
  OneUpdatePerDevice
