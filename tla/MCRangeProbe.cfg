SPECIFICATION FairSpec
CONSTANTS
  Runners <- MCRunners
  PolicyBudgets <- MCPolicyBudgets
  MaxAttempts = 3
  Requests <- MCRequests
  Allowed <- MCAllowed
  MaxLayers = 2
  MaxLength = 2
  MaxBudget = 1
  MaxCommands = 2
  MaxCrashes = 1
  MaxLeftovers = 1
  MaxCount = 16
INVARIANTS
  BenchmarkedImagesExist
  SweepIsComplete
  GapsStayBalanced
PROPERTIES
  SweepEnds
CHECK_DEADLOCK FALSE
