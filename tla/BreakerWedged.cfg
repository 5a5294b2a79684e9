CONSTANTS
  Calls = {c1, c2}
  FailureThreshold = 2
  RecoveryTimeout = 2
  HalfOpenMaxCalls = 1
  CallOutcomes = {"success", "failure", "timeout"}
  ProbeOutcomes = {"success", "failure"}
  ManualReset = FALSE
SPECIFICATION Spec
CHECK_DEADLOCK FALSE
INVARIANT HalfOpenAdmitsProbe
