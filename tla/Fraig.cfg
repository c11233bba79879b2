SPECIFICATION FairSpec
CONSTANTS
  Circuits <- SmallCircuits
  InitWords = 1
  MaxWords = 4
  MaxRounds = 3
  CexPerWord = 2
INVARIANTS
  TypeOK
  MergedAreEqual
  LookupRight
  NeverAskedTwice
PROPERTIES
  SweepEnds
