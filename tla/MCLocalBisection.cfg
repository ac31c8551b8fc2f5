SPECIFICATION Spec
CONSTANTS
  Plans <- MCPlans
  MaxRuns = 2
INVARIANTS
  IndexKeepsToTheSetup
  FailureIsTheBlocker
  BoundaryIsThisRuns
  AnnouncedAfterSummary
  ExitZeroIsExact
CHECK_DEADLOCK FALSE
