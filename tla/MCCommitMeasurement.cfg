SPECIFICATION Spec
CONSTANTS
  Commits = {a, b}
  Stacks = {s, t}
  Contracts = {x, y}
  Warmups = {0, 1}
  Floors = {1, 2}
  Ceilings = {1, 3}
  MaxCalls = 3
  MaxCrashes = 1
INVARIANTS
  NumbersRestOnEnoughSamples
  SamplesFollowAWarmup
  WarmupOncePerCommit
  ColdOnlyWhenCleared
CHECK_DEADLOCK FALSE
