CONSTANTS
  VariableNames = {"x", "y"}
  FunctionNames = {"f"}
  StructNames = {"S"}
  Scalars = {"INT", "FLOAT"}
  Declarations <- MCDeclarations
  Indices = {2}
  IntMax = 2
  MaxNumber = 8
  MaxStack = 1
  MaxReports = 1
  NoSymbol = NoSymbol
  Wilds <- MCWilds
SPECIFICATION Spec
INVARIANT RepeatedHeaderIsAccepted
CHECK_DEADLOCK FALSE
