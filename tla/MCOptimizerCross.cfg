\* What the report says of temporaries and blocks.
CONSTANTS
  Temps <- MCTemps
  AddrTemps <- MCAddrTemps
  Vars <- MCVars
  Symbols <- MCSymbols
  NoName = NoName
  Unknown = Unknown
  IntHalf = 4
  MaxStatements = 2
  Programs <- MCPrograms
  ElementSize = "#4"
  Shared = {"b"}
  Starts <- MCStarts
  Outside <- MCOutside
SPECIFICATION Spec
INVARIANT TemporariesStayInBlock
CHECK_DEADLOCK FALSE
