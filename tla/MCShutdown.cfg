SPECIFICATION FairSpec

INVARIANTS
  TypeOK
  FlushedOrWarned

PROPERTIES
  TermEnds
  BindFailureEnds
  ReturnEnds
  ClockStops
  EndsAsInLifecycle
