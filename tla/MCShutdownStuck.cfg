SPECIFICATION FairSpec

PROPERTIES
  StopBounded
