SPECIFICATION MCSpec
CONSTANTS
  Address = {old, new}
  old = old
  MaxNoise = 1
  None = None
CHECK_DEADLOCK FALSE

INVARIANTS
  TypeOK
  AcceptedIsCurrent
  HealthyIsWhole
  FailureHasCause

PROPERTY StartEnds
