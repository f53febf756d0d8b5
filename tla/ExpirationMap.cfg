CONSTANTS
  Keys = {k1, k2}
  Durations = {1, 3}
  CheckInterval = 2
  MaxTime = 7
  None = None
SPECIFICATION Spec
INVARIANT TypeOK
INVARIANT IndicesConsistent
INVARIANT PoppedWithinInterval
PROPERTY ImplementsSpec
