\* The trees of small functions, on five-bit integers.
CONSTANTS
  Temps <- MCTemps
  AddrTemps <- MCAddrTemps
  Vars <- MCVars
  Symbols <- MCSymbols
  NoName = NoName
  IntHalf = 16
  ElementSize = "#4"
  Input <- MCInput
  Fuel = 8
  TempNames <- MCTempNames
  AddrNames <- MCAddrNames
  LabelNames <- MCLabelNames
  Sources <- MCSources
  Starts <- MCStarts
  Memory <- MCMemory
  MaxSteps = 120
SPECIFICATION Spec
INVARIANT TypeOK
INVARIANT OutputIsWellFormed
INVARIANT TargetsDefinedOnce
INVARIANT TempsSetBeforeRead
 
CHECK_DEADLOCK FALSE
