SPECIFICATION Spec
CONSTANTS
  CLIs = {l1, l2}
  Sizes <- MCWideSizes
  NewSizes <- MCSizes
  Half = 8
  MaxFile = 3
  Serial = TRUE
  None = None

INVARIANTS
  TypeOK
  DataSurvives
  FsFits
  SpawnsAtRequest

PROPERTY GrowOnly
