SPECIFICATION Spec
CONSTANTS
  Forces = {TRUE, FALSE}
  MaxAttempts = 4
INVARIANTS
  SealedMeansWhole
  KillsCostOnlyTheirAttempt
CHECK_DEADLOCK FALSE
