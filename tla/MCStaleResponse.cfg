SPECIFICATION Spec
CONSTANTS
  Plans <- MCPlans
  MaxRuns = 2
INVARIANTS
  CompletedIsThisRuns
CHECK_DEADLOCK FALSE
