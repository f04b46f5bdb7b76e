CONSTANTS
  Temps <- MCTemps
  AddrTemps <- MCAddrTemps
  Vars <- MCVars
  Symbols <- MCSymbols
  NoName = NoName
  IntHalf = 64
  Outputs <- MCOutputs
  Stripped <- MCStripped
  Labels <- MCLabels
  LabelLike = {"labels"}
  ElementSize = "#4"
  ReportTexts <- MCReportTexts
  Input <- MCInput
  Typed <- MCInput
  MaxInF = 1
  MaxInMain = 1
  Recursive = FALSE
SPECIFICATION BSpec
INVARIANTS TypeOK1 ReadsBack OnlyArraysAbort FollowsProgram VariablesAreKept
CHECK_DEADLOCK FALSE
