SPECIFICATION FairSpec
CONSTANTS
  Tasks = {t1, t2}
  Safe = {wasm}
  Fast = {}
  NONE = NONE
  max_crashes = 2
  max_budget_violations = 1
  violation_window_minutes = 1
  quarantine_duration_minutes = 0
  max_escalation_levels = 1
  ManualMinutes = {0}
  MaxViolations = 3
  MaxTime = 1
INVARIANTS
  DisabledDoesNotRun
  ViolationsAreBounded
PROPERTY EveryCallReturns
CHECK_DEADLOCK FALSE
