SPECIFICATION Spec
CONSTANTS
  a = a
  opt = opt
  buffer = buffer
  NoFile = NoFile
  None = None
  Files <- OneFile
  Readable <- OneFile
  File = a
  Edits <- OptAndBuffer
  Optimizations <- Opts
  FanoutEdits <- Buffers
  Workflows <- EitherWorkflow
  MaxSteps = 4
INVARIANTS
  TypeOK
  StagesInOrder
  LedgerAccountsForDesign
PROPERTY Answered
