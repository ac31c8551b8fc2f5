SPECIFICATION MCSpec
CONSTANTS
  Files = {driver, builder}
  Plain = {u, v}
  FileLinks = {l}
  OtherLinks = {d}
  Commits = {k}
  Modes = {"docker-reconstruct", "local"}
  MaxRuns = 2
  MaxEdits = 2
  MaxDrifts = 1
INVARIANTS
  SnapshotIsPinned
  MeasuredWithThePin
  RelaunchIsPortable
SYMMETRY MCSymmetry
CHECK_DEADLOCK FALSE
