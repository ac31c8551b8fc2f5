SPECIFICATION FairSpec
CONSTANTS
  Lengths <- MCLengths
  Budgets <- MCBudgets
INVARIANTS
  ReportLocatesFirstBad
  GivingUpIsExhaustive
  NeverMeasuredTwice
  OverBudgetOnlyPastHoles
  WithinExpectedTests
PROPERTIES
  Termination
  RefinesNarrowing
CHECK_DEADLOCK FALSE
