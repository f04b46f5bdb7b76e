--------------------------------- MODULE Tac ---------------------------------
(***************************************************************************)
(* The nodes of the back end's three-address code (src/project4/tac.h),    *)
(* which tac.c reads from a file and mips32.c translates.                  *)
(***************************************************************************)
EXTENDS Integers, Sequences

CONSTANTS
  Names,     \* names of variables
  NoName,    \* no name, label or function
  Targets    \* labels and functions

ASSUME NamesAssumption == NoName \notin Names

Arithmetic == {"ADD", "SUB", "MUL", "DIV"}
Branches == {"IFLT", "IFLE", "IFGT", "IFGE", "IFNE", "IFEQ"}
Kinds == Arithmetic \cup Branches \cup
  {"LABEL", "FUNCTION", "ASSIGN", "ADDR", "FETCH", "DEREF", "GOTO", "RETURN",
   "DEC", "ARG", "CALL", "PARAM", "READ", "WRITE"}

(* A tac_opd.  Only a variable or a pointer has a name.                    *)
Opd(kind, name, value) == [kind |-> kind, name |-> name, value |-> value]
Variable(name) == Opd("variable", name, 0)
Number(value) == Opd("constant", NoName, value)
Pointer(name) == Opd("pointer", name, 0)
NoOpd == Opd("none", NoName, 0)

IsVariable(opd) == opd.kind = "variable"
IsConstant(opd) == opd.kind = "constant"

Opds ==
  {opd \in [kind: {"variable", "constant", "pointer", "none"},
            name: Names \cup {NoName}, value: Int] :
     opd.kind \in {"variable", "pointer"} => opd.name \in Names}

(* A tac_node: what is written, what is read, where control goes.          *)
Tac(kind, left, r1, r2, target) ==
  [kind |-> kind, left |-> left, r1 |-> r1, r2 |-> r2, target |-> target]

Code == [kind: Kinds, left: Opds, r1: Opds, r2: Opds,
         target: Targets \cup {NoName}]

=============================================================================
