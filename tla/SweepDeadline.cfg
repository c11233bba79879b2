SPECIFICATION Spec
CONSTANTS
  own = own
  other = other
  Caches <- TwoCaches
  Owned <- own
  AutoSweep = 1
  MaxHandles = 1
  MaxRevision = 2
  MaxGeneration = 1
INVARIANT SweepUsesRequestDeadline
