SPECIFICATION Spec
CONSTANTS
  own = own
  other = other
  Caches <- TwoCaches
  Owned <- own
  AutoSweep = 1
  MaxHandles = 1
  MaxRevision = 3
  MaxGeneration = 2
INVARIANTS TypeOK NothingOutlivesItsGraph
PROPERTIES ImplementsService StaleStaysStale
CONSTRAINT OneBuilt
