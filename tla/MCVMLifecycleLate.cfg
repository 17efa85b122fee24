SPECIFICATION Spec
CONSTANTS
  CLIs = {l1, l2}
  Daemons = {d1, d2}
  Serial = TRUE
  None = None

PROPERTY NoLateResult
