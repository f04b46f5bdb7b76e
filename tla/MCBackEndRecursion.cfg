CONSTANTS
  Temps <- MCTemps
  AddrTemps <- MCAddrTemps
  Vars <- MCVars
  Symbols <- MCSymbols
  NoName = NoName
  IntHalf = 64
  Outputs <- MCOutputs
  Stripped <- MCStripped
  Labels <- MCLabels
  LabelLike = {"labels"}
  ElementSize = "#4"
  ReportTexts <- MCReportTexts
  Input <- MCInput
  Typed <- MCInput
  MaxInF = 0
  MaxInMain = 0
  Recursive = TRUE
SPECIFICATION BSpec
INVARIANT CallsKeepVariables
CHECK_DEADLOCK FALSE
