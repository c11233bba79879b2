SPECIFICATION Spec
CONSTANTS
  NPins = 6
  NNets = 2
  Inputs <- TheInput
  Ports <- ThePort
  ClockPins <- Clocks
  ResetPins <- Resets
  Buses <- OneBus
  Homes <- Splits
  Takers <- TheDriven
  MaxLimit = 3
  MaxBuffers = 4
INVARIANTS
  TypeOK
  LimitMet
  NoSlack
  SameSignal
  NoLoop
