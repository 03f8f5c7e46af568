SPECIFICATION FairSpec
CONSTANTS
  q1 = q1
  Questions = {q1}
  Configurations <- AllConfigurations
  AllowApply = TRUE
  RecursionLimit = 60
  MaxRuns = 2
  MaxRecoveries = 1
CHECK_DEADLOCK FALSE
INVARIANTS
  TypeOK
  AppliedOnlyApproved
  TranslatedOnlyValidated
  PlanProvenance
  ConfiguredPlanWasValidated
  CompletionIsHonest
  ConfiguredHostsExist
  WithinRecursionLimit
PROPERTIES
  ContractSpec
  ComesToRest
