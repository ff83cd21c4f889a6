SPECIFICATION WatchdogFairSpec
CONSTANTS
  Threads = {t1, t2}
  Monitors = {t1}
  Plugins = {p}
  Components = {RtThread}
  NONE = NONE
  plugin_max_timeouts = 2
  plugin_quarantine_duration = 2
  health_check_interval = 2
  timeout = 1
INVARIANTS
  QuarantineHasEntry
  FaultTakesTime
PROPERTIES
  TimeoutsQuarantine
  QuarantineEnds
  SilenceIsFaulted
