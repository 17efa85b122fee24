SPECIFICATION Spec
CONSTANTS
  CLIs = {l1, l2}
  Daemons = {d1, d2, d3}
  Serial = TRUE
  None = None

CHECK_DEADLOCK FALSE
SYMMETRY Symmetry
VIEW Future
CONSTRAINT Bound

INVARIANTS
  TypeOK
  OneVM
  Reachable
  RuntimeMatches

PROPERTIES
  StartHonest
  StopHonest
