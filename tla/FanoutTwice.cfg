SPECIFICATION Spec
CONSTANTS
  NPins = 4
  NNets = 2
  Inputs <- TheInput
  Ports <- ThePort
  ClockPins <- Clocks
  ResetPins <- Resets
  Buses <- OneBus
  Homes <- AnyHome
  Takers <- NoNets
  MaxLimit = 3
  MaxBuffers = 4
INVARIANT NeverRolledBack
