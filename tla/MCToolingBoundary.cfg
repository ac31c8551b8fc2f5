SPECIFICATION Spec
CONSTANTS
  Policies = {"llm"}
  RetryBudgets = {2}
  MaxRecoveryRetries = 5
  BaseTimeouts = {0}
  TimeoutExtension = 5
  Runs <- MCRuns
  ModelCategories = {"runtime_incompatible"}
INVARIANTS
  ToolingBoundaryEndsTheSearch
CHECK_DEADLOCK FALSE
