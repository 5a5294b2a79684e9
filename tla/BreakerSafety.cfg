CONSTANTS
  Calls = {c1, c2, c3, c4}
  FailureThreshold = 3
  RecoveryTimeout = 2
  HalfOpenMaxCalls = 2
  CallOutcomes = {"success", "failure", "timeout"}
  ProbeOutcomes = {"success", "failure", "timeout"}
  ManualReset = TRUE
SPECIFICATION FairSpec
INVARIANTS TypeOK OpenIffThreshold ProbesWithinBudget NoBudgetCarriedOver
PROPERTY Recovers
