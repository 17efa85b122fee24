SPECIFICATION Spec
CONSTANTS
  CLIs = {l1}
  Sizes <- MCWideSizes
  NewSizes <- MCWideSizes
  Half = 8
  MaxFile = 3
  Serial = TRUE
  None = None

PROPERTY GrowOnly
