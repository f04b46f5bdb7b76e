\* Every list of up to three fragments, the handwritten ones among them.
CONSTANTS
  Names <- MCNames
  NoName = NoName
  Targets <- MCTargets
  Programs <- MCPrograms
  MaxFragments = 3
  ByHand = TRUE
SPECIFICATION Spec
INVARIANT TypeOK
INVARIANT OffsetsDistinct
INVARIANT OperandsApart
INVARIANT AddressesAreOperands
INVARIANT ArgumentsMeetParameters
PROPERTY OffsetsStable
CHECK_DEADLOCK FALSE
