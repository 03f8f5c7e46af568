SPECIFICATION Spec
CONSTANTS
  q1 = q1
  Questions = {q1}
  Configurations <- AllConfigurations
  AllowApply = TRUE
  RecursionLimit = 60
  MaxRuns = 2
  MaxRecoveries = 0
CHECK_DEADLOCK FALSE
INVARIANTS
  PlanOnlyFromValidCode
