---------------------------------- MODULE IR ----------------------------------
(***************************************************************************)
(* The three-address code inside the compiler (IntermediateCode.h), which  *)
(* the translator produces and the optimizer rewrites.                     *)
(***************************************************************************)
EXTENDS Integers, Sequences

CONSTANTS
  Temps,      \* names that begin with '_' (new_temp)
  AddrTemps,  \* the temporaries new_temp hands out for an array address
  Vars,       \* names of the user's variables
  Symbols,    \* labels, function names and the text "#4"
  ElementSize,  \* the operand "#4"
  NoName,     \* an absent operand, or one that is a number
  IntHalf     \* an int is in -IntHalf .. IntHalf - 1 (IntHalf is 2^31)

Names == Temps \cup Vars
Operands == Names \cup Symbols \cup {NoName}
IntW == -IntHalf .. IntHalf - 1

Kinds == {"CONSTANT", "ASSIGN", "BINARY", "MINUS", "CALL", "READ", "WRITE",
          "ARG", "PARAM", "RETURN", "FUNCTION", "LABEL", "GOTO", "IF_GOTO",
          "DEC", "ARRAY_OFFSET", "GET_VALUE_IN_ADDRESS",
          "ASSIGN_VALUE_IN_ADDRESS"}

Relations == {"", "+", "-", "*", "/", "<", "<=", ">", ">=", "==", "!="}

(* An IntermediateCode.  The literal of a CONSTANT is value; op2 is then   *)
(* not a name, as is_var_name finds.  A decimal literal may be too large   *)
(* for an int; a hexadecimal one is an int since the lexer (strtol), which *)
(* hands on its decimal text.                                              *)
Ins(kind, result, op1, op2, relation, value) ==
  [kind |-> kind, result |-> result, op1 |-> op1, op2 |-> op2,
   relation |-> relation, value |-> value]

(* What the translator guarantees of the operands: the left side of a copy *)
(* or an operation is a name and no address temporary, addresses are       *)
(* address temporaries, and what is read is a name, or the size of an      *)
(* array's element (the only number a BINARY has for an operand).          *)
WellFormed(ins) ==
  /\ ins.kind \in {"CONSTANT", "ASSIGN"} => ins.op1 \in Names \ AddrTemps
  /\ ins.kind = "ASSIGN" => ins.op2 \in Names
  /\ ins.kind \in {"BINARY", "MINUS"} => ins.result \in Names \ AddrTemps
  /\ ins.kind = "BINARY" => /\ {ins.op1, ins.op2} \subseteq Names \cup {ElementSize}
                            /\ ins.relation \in {"+", "-", "*", "/"}
  /\ ins.kind \in {"MINUS", "WRITE", "RETURN", "ARG"} => ins.op1 \in Names
  /\ ins.kind = "IF_GOTO" => {ins.op1, ins.op2} \subseteq Names
  /\ ins.kind = "ARRAY_OFFSET" => ins.op1 \in Vars \cup AddrTemps /\ ins.op2 \in Names
  /\ ins.kind = "GET_VALUE_IN_ADDRESS" => ins.op1 \in AddrTemps
  /\ ins.kind = "ASSIGN_VALUE_IN_ADDRESS" => ins.op1 \in Names /\ ins.result \in AddrTemps

Instructions ==
  {ins \in [kind: Kinds, result: Operands, op1: Operands, op2: Operands,
            relation: Relations, value: Int] : WellFormed(ins)}

ASSUME NamesAssumption ==
  /\ AddrTemps \subseteq Temps
  /\ Temps \cap Vars = {}
  /\ Symbols \cap Names = {}
  /\ ElementSize \in Symbols
  /\ NoName \notin Names \cup Symbols

ASSUME IntAssumption == IntHalf \in Nat \ {0}

(* Arithmetic on ints.                                                     *)
Wrap(x) == ((x + IntHalf) % (2 * IntHalf)) - IntHalf

(* C++ division truncates towards zero.                                    *)
Quotient(x, y) ==
  LET Magnitude(z) == IF z < 0 THEN -z ELSE z
      q == Magnitude(x) \div Magnitude(y)
  IN IF (x < 0) = (y < 0) THEN q ELSE -q

(* A zero divisor is left undefined: its value is 0.                       *)
Apply(relation, x, y) ==
  CASE relation = "+" -> Wrap(x + y)
    [] relation = "-" -> Wrap(x - y)
    [] relation = "*" -> Wrap(x * y)
    [] relation = "/" -> IF y = 0 THEN 0 ELSE Wrap(Quotient(x, y))

Holds(relation, x, y) ==
  CASE relation = "<" -> x < y
    [] relation = "<=" -> x <= y
    [] relation = ">" -> x > y
    [] relation = ">=" -> x >= y
    [] relation = "==" -> x = y
    [] relation = "!=" -> x # y

(* The name an instruction assigns, and the names whose value it takes.    *)
Defined(ins) ==
  CASE ins.kind \in {"CONSTANT", "ASSIGN", "READ", "PARAM"} -> ins.op1
    [] ins.kind \in {"BINARY", "MINUS", "CALL", "ARRAY_OFFSET",
                     "GET_VALUE_IN_ADDRESS"} -> ins.result
    [] OTHER -> NoName

Read(ins) ==
  CASE ins.kind = "ASSIGN" -> {ins.op2}
    [] ins.kind \in {"BINARY", "IF_GOTO"} -> {ins.op1, ins.op2}
    [] ins.kind \in {"MINUS", "RETURN", "WRITE", "ARG",
                     "GET_VALUE_IN_ADDRESS"} -> {ins.op1}
    [] ins.kind = "ARRAY_OFFSET" -> {ins.op2}
    [] ins.kind = "ASSIGN_VALUE_IN_ADDRESS" -> {ins.op1, ins.result}
    [] OTHER -> {}

=============================================================================
