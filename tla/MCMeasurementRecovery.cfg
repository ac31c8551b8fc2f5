SPECIFICATION FairSpec
CONSTANTS
  Policies = {"none", "deterministic", "llm"}
  RetryBudgets <- MCBudgets
  MaxRecoveryRetries = 2
  BaseTimeouts = {0, 10}
  TimeoutExtension = 5
  Runs <- MCRuns
  ModelCategories <- MCModelCategories
INVARIANTS
  UnfixableNotRetried
  EventsTellTheRuns
  SkipsAreCategorised
  ClearingAccumulates
  ToolingBoundaryKept
PROPERTIES
  Termination
CHECK_DEADLOCK FALSE
