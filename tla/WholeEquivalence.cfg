SPECIFICATION Spec
CONSTANT Comparisons <- SmallComparisons
INVARIANTS
  TypeOK
  EveryEndpointOnce
  EndpointsRight
  VerdictRight
