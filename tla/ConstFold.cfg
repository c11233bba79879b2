SPECIFICATION Spec
CONSTANT Families <- InOrderFamilies
INVARIANTS
  TypeOK
  FunctionPreserved
  NoPinLeftFloating
  FullyFolded
PROPERTY EveryChangeShrinks
