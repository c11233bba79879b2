SPECIFICATION Spec
CONSTANTS
  t1 = t1
  t2 = t2
  Tags <- TwoTags
  MaxCost = 1
  Bases <- AllBases
SYMMETRY TagSymmetry
INVARIANTS
  TypeOK
  FailureRestores
  LoweredComplies
  WinnerIsUsed
  SuccessObeysConstraints
PROPERTY ImplementsTransaction
