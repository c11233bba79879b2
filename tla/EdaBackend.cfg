SPECIFICATION Spec
CONSTANTS
  a = a
  b = b
  broken = broken
  e1 = e1
  e2 = e2
  NoFile = NoFile
  Prompt = Prompt
  Nothing = Nothing
  Files <- AllFiles
  Readable <- GoodFiles
  Edits <- TwoEdits
  MaxEdits = 2
INVARIANTS
  TypeOK
  InStep
  BeliefHolds
  EditsWereReported
  StandsOnLastRead
  BaselineAndReportAgree
PROPERTY SendReturns
