SPECIFICATION Spec
CONSTANTS
  Conns = {c1, c2}
  Closers = {k1, k2}

SYMMETRY Symmetry

INVARIANTS
  TypeOK

PROPERTIES
  HealthyStays
  KeepsPromise
