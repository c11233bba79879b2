SPECIFICATION Spec
CONSTANTS
  t1 = t1
  t2 = t2
  Tags <- TwoTags
  MaxCost = 1
  Bases <- ConeBasis
SYMMETRY TagSymmetry
INVARIANT TimeoutMeansNoCandidate
