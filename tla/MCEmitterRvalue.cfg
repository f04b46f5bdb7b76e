\* What the report says of reading and writing a variable.
CONSTANTS
  Names <- MCNames
  NoName = NoName
  Targets <- MCTargets
  Programs <- MCPrograms
  MaxFragments = 2
  ByHand = FALSE
SPECIFICATION Spec
INVARIANT RValuesAreLoaded
CHECK_DEADLOCK FALSE
