SPECIFICATION FairSpec
CONSTANTS
  Conns = {c1}
  Closers = {k1, k2}

PROPERTIES
  CloseReturns
  EndsOnBothSides
