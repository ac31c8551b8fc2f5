SPECIFICATION PairedSpec
CONSTANTS
  Lengths = {1, 2, 3, 4}
  Budgets = {1, 50}
  MaxParents = 2
  Settings <- MCSettings
INVARIANTS
  BoundsAreMeasuredApart
  VerdictsFollowMeasurements
  BadIsBeyondTheNoise
  NamesTheRegression
  ReferencesAreAlive
CHECK_DEADLOCK FALSE
