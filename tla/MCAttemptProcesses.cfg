SPECIFICATION FairSpec
CONSTANTS
  Commits = {c1, c2}
  Modes = {"docker-reconstruct", "docker-source", "local"}
  Limits = {TRUE}
  MaxAttempts = 3
  MaxRestarts = 1
INVARIANTS
  MetricIsItsOwn
  CloneHasOneUser
  AnswersLeaveNothing
PROPERTIES
  CommandsEnd
CONSTRAINT StartsAtOne
CHECK_DEADLOCK FALSE
