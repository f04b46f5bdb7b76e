\* Every program of up to three statements, on three-bit integers.
CONSTANTS
  Temps <- MCTemps
  AddrTemps <- MCAddrTemps
  Vars <- MCVars
  Symbols <- MCSymbols
  NoName = NoName
  Unknown = Unknown
  IntHalf = 4
  MaxStatements = 3
  Programs <- MCPrograms
  ElementSize = "#4"
  Shared = {"b"}
  Starts <- MCStarts
  Outside <- MCOutside
SPECIFICATION FairSpec
INVARIANT TypeOK
INVARIANT LabelsFirstJumpsLast
INVARIANT ConstMapFromLastCopy
INVARIANT UseCoversReads
INVARIANT EliminatedIsDead
INVARIANT BlocksCoverProgram
INVARIANT PropagationPreservesWhenKept
INVARIANT EliminationPreserves
PROPERTY Terminates
CHECK_DEADLOCK FALSE
