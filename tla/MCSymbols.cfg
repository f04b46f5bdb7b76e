CONSTANTS
  VariableNames = {"x", "y"}
  FunctionNames = {"f"}
  StructNames = {"S", "T"}
  Scalars = {"INT", "FLOAT"}
  Declarations <- MCDeclarations
  Indices = {2, 3}
  IntMax = 2
  MaxNumber = 8
  MaxStack = 2
  MaxReports = 1
  NoSymbol = NoSymbol
  Wilds <- MCWilds
SPECIFICATION Spec
INVARIANTS
  TypeOK EquivalenceIsStructural AcceptedKeepsTypes DeclarationsAgree
  ParametersResolve MembersAreUnambiguous CrashesExplained
PROPERTY KeepsPromises
CHECK_DEADLOCK FALSE
