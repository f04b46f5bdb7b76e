------------------------------ MODULE TacReader ------------------------------
(***************************************************************************)
(* From the compiler to the back end through a text file: the lines that   *)
(* IntermediateCode::print writes, behind the warnings of the translator   *)
(* and the report of the optimizer on the same stream, and _tac_from_line  *)
(* (src/project4/tac.c), which takes a line for an instruction by the      *)
(* number of its tokens.                                                   *)
(***************************************************************************)
EXTENDS IR

CONSTANTS
  Outputs,      \* [warnings, report, code]: what the compiler writes for a program
  Stripped,     \* a name that begins with '_', without it
  Labels,       \* what new_label returns
  LabelLike,    \* names of variables that begin with "label"
  ReportTexts   \* file names and temporaries in a report of the optimizer

Targets == Symbols \ {ElementSize}

(* What else a translated instruction has for its operands: a name where   *)
(* it writes, an array's name where its address is taken, a label or a     *)
(* function where control goes.  A literal that is no int is not read back *)
(* as one (atoi), and not looked at here.                                  *)
Printable(ins) ==
  /\ ins.kind \in {"READ", "PARAM"} => ins.op1 \in Names
  /\ ins.kind \in {"CALL", "ARRAY_OFFSET", "GET_VALUE_IN_ADDRESS"} => ins.result \in Names
  /\ ins.kind \in {"DEC", "ARRAY_OFFSET"} => ins.op1 \in Vars
  /\ ins.kind \in {"LABEL", "FUNCTION", "GOTO", "CALL"} => ins.op1 \in Targets
  /\ ins.kind = "CONSTANT" => ins.value \in IntW
  /\ ins.kind = "IF_GOTO" =>
       ins.result \in Targets /\ ins.relation \in {"<", "<=", ">", ">=", "==", "!="}

ASSUME TextAssumption ==
  /\ Stripped \in [Temps -> STRING]
  /\ Labels \subseteq Targets /\ LabelLike \subseteq Vars
  /\ {"this", "is", "handled!"} \cap (LabelLike \cup Targets) = {}
  /\ \A o \in Outputs :
       /\ o.warnings \in Nat
       /\ o.report \in Seq(ReportTexts)
       /\ o.code \in Seq({ins \in Instructions : Printable(ins)})

VARIABLES
  phase,   \* "read", "emit" when the file is read, "crashed"
  source,  \* the member of Outputs that the compiler has written
  line,    \* the line that is read next
  ir       \* the TAC list, less its NONE nodes

vars == <<phase, source, line, ir>>

-----------------------------------------------------------------------------
(* Tokens.  mark is the character in front; a number has no text.          *)
Token(mark, text, value) == [mark |-> mark, text |-> text, value |-> value]
Word(text) == Token("plain", text, 0)
Hash(value) == Token("#", "none", value)

(* print cuts the '_' off a temporary; the text of an element's size is #4. *)
Text(name) ==
  IF name = ElementSize THEN Hash(4)
  ELSE IF name \in Temps THEN Word(Stripped[name]) ELSE Word(name)

At(mark, name) == Token(mark, Text(name).text, 0)

Is == Word(":=")

(* IntermediateCode::print.                                                *)
Line(ins) ==
  LET op1 == Text(ins.op1) op2 == Text(ins.op2) result == Text(ins.result)
  IN CASE ins.kind = "ASSIGN" -> <<op1, Is, op2>>
       [] ins.kind = "CALL" -> <<result, Is, Word("CALL"), op1>>
       [] ins.kind = "CONSTANT" -> <<op1, Is, Hash(ins.value)>>
       [] ins.kind = "BINARY" -> <<result, Is, op1, Word(ins.relation), op2>>
       [] ins.kind = "MINUS" -> <<result, Is, Hash(0), Word("-"), op1>>
       [] ins.kind \in {"LABEL", "FUNCTION"} -> <<Word(ins.kind), op1, Word(":")>>
       [] ins.kind \in {"GOTO", "RETURN", "ARG", "READ", "WRITE", "PARAM"} ->
            <<Word(ins.kind), op1>>
       [] ins.kind = "IF_GOTO" ->
            <<Word("IF"), op1, Word(ins.relation), op2, Word("GOTO"), result>>
       [] ins.kind = "ARRAY_OFFSET" ->
            <<result, Is, At("&", ins.op1), Word("+"), op2>>
       [] ins.kind = "GET_VALUE_IN_ADDRESS" -> <<result, Is, At("*", ins.op1)>>
       [] ins.kind = "ASSIGN_VALUE_IN_ADDRESS" -> <<At("*", ins.result), Is, op1>>
       [] ins.kind = "DEC" -> <<Word("DEC"), op1, Token("plain", "none", ins.value)>>

(* What the translator writes for a statement, an expression or a          *)
(* condition it has no case for.                                           *)
Warning ==
  <<Word("warning:"), Word("this"), Word("case"), Word("is"), Word("not"), Word("handled!")>>

(* The warnings come first, one a line, and then the report of             *)
(* CheckIfTempVarCrossBasicBlock.                                          *)
File ==
  LET report == source.warnings + Len(source.report)
  IN [i \in 1..report + Len(source.code) |->
        IF i <= source.warnings THEN Warning
        ELSE IF i <= report THEN <<Word(source.report[i - source.warnings])>>
        ELSE Line(source.code[i - report])]

-----------------------------------------------------------------------------
(* What the back end takes for a name: ":=" where a keyword precedes it.   *)
Texts == {":=", "none", "this", "is"} \cup Vars \cup {Stripped[n] : n \in Temps} \cup Targets

T == INSTANCE Tac WITH Names <- Texts

(* _tac_opd_from_str.  A label is no operand of any handler.               *)
OpdOf(token) ==
  IF token.mark = "#" THEN T!Number(token.value)
  ELSE IF token.mark = "&" THEN T!Pointer(token.text)
  ELSE IF token.text \in Labels \cup LabelLike THEN T!NoOpd
  ELSE T!Variable(token.text)

(* A label's number, and a function's name.  The number of what is neither *)
(* is made of the bytes of its text, and no label has it.                  *)
TargetOf(token) == IF token.text \in Targets THEN token.text ELSE NoName

Unary(kind, token) == T!Tac(kind, T!NoOpd, OpdOf(token), T!NoOpd, NoName)
Moves(kind, left, right) == T!Tac(kind, OpdOf(left), OpdOf(right), T!NoOpd, NoName)
Jumps(kind, token) == T!Tac(kind, T!NoOpd, T!NoOpd, T!NoOpd, TargetOf(token))

(* Two tokens: a keyword and an operand, which READ sets.                  *)
OfTwo(t) ==
  CASE t[1].text = "GOTO" -> Jumps("GOTO", t[2])
    [] t[1].text = "READ" -> T!Tac("READ", OpdOf(t[2]), T!NoOpd, T!NoOpd, NoName)
    [] OTHER -> Unary(t[1].text, t[2])

(* Three tokens: the first keyword that fits, then the forms of :=.        *)
OfThree(t) ==
  IF t[1] \in {Word("LABEL"), Word("FUNCTION")} THEN Jumps(t[1].text, t[2])
  ELSE IF t[1] = Word("DEC")
    THEN T!Tac("DEC", T!NoOpd, T!Pointer(t[2].text), T!NoOpd, NoName)
  ELSE IF t[1].mark = "*" THEN T!Tac("DEREF", T!NoOpd, OpdOf(t[1]), OpdOf(t[3]), NoName)
  ELSE IF t[3].mark = "*" THEN Moves("FETCH", t[1], t[3])
  ELSE IF t[3].mark = "&" THEN Moves("ADDR", t[1], t[3])
  ELSE Moves("ASSIGN", t[1], t[3])

OfFour(t) == T!Tac("CALL", OpdOf(t[1]), T!NoOpd, T!NoOpd, TargetOf(t[4]))

(* The character of the operation, and what else there is.                 *)
Operation(text) ==
  CASE text = "+" -> "ADD" [] text = "-" -> "SUB" [] text = "*" -> "MUL" [] text = "/" -> "DIV"

OfFive(t) ==
  T!Tac(Operation(t[4].text), OpdOf(t[1]), OpdOf(t[3]), OpdOf(t[5]), NoName)

(* Mutant of Comparison: the length of the token is not looked at.         *)
ComparisonByFirst(text) ==
  CASE text \in {"<", "<="} -> "IFLT" [] text \in {">", ">="} -> "IFGT"
    [] text = "!=" -> "IFNE" [] OTHER -> "IFEQ"

Comparison(text) ==
  CASE text = "<" -> "IFLT" [] text = ">" -> "IFGT" [] text = "<=" -> "IFLE"
    [] text = ">=" -> "IFGE" [] text = "!=" -> "IFNE" [] OTHER -> "IFEQ"

OfSix(t) ==
  T!Tac(Comparison(t[3].text), T!NoOpd, OpdOf(t[2]), OpdOf(t[4]), TargetOf(t[6]))

-----------------------------------------------------------------------------
Init ==
  /\ phase = "read"
  /\ source \in Outputs
  /\ line = 1
  /\ ir = <<>>

Tokens == File[line]

Reads(count) ==
  /\ phase = "read" /\ line <= Len(File)
  /\ Len(Tokens) = count
  /\ UNCHANGED source

Append1(tac) ==
  /\ ir' = Append(ir, tac)
  /\ line' = line + 1
  /\ UNCHANGED phase

Crash ==
  /\ phase' = "crashed"
  /\ UNCHANGED <<line, ir>>

Keywords == {"GOTO", "RETURN", "ARG", "PARAM", "READ", "WRITE"}

ReadTwo ==
  /\ Reads(2)
  /\ IF Tokens[1].text \in Keywords THEN Append1(OfTwo(Tokens)) ELSE Crash

ReadThree == Reads(3) /\ Append1(OfThree(Tokens))
ReadCall == Reads(4) /\ Append1(OfFour(Tokens))
ReadBinary == Reads(5) /\ Append1(OfFive(Tokens))
ReadIf == Reads(6) /\ Append1(OfSix(Tokens))

(* One token is taken for six, and the second is the null pointer.         *)
ReadOne == Reads(1) /\ Crash

EndOfFile ==
  /\ phase = "read" /\ line = Len(File) + 1
  /\ phase' = "emit"
  /\ UNCHANGED <<source, line, ir>>

ReadNext == ReadOne \/ ReadTwo \/ ReadThree \/ ReadCall \/ ReadBinary \/ ReadIf \/ EndOfFile

Spec == Init /\ [][ReadNext]_vars

-----------------------------------------------------------------------------
(* What the file has to be read as.                                        *)

(* Every variable has its type; a line that is read is a TAC node.         *)
TypeOK ==
  /\ phase \in {"read", "emit", "crashed"}
  /\ source \in Outputs
  /\ line \in 1..Len(File) + 1
  /\ ir \in Seq(T!Code)
  /\ Len(ir) = line - 1

Variable(name) ==
  IF name = ElementSize THEN T!Number(4) ELSE T!Variable(Text(name).text)

(* What an instruction of the compiler is in the back end.                 *)
Meant(ins) ==
  LET left == Variable(ins.result) x == Variable(ins.op1) y == Variable(ins.op2)
      Copies(kind, to, from) == T!Tac(kind, to, from, T!NoOpd, NoName)
      Uses(kind) == T!Tac(kind, T!NoOpd, x, T!NoOpd, NoName)
      Goes(kind) == T!Tac(kind, T!NoOpd, T!NoOpd, T!NoOpd, ins.op1)
  IN CASE ins.kind = "ASSIGN" -> Copies("ASSIGN", x, y)
       [] ins.kind = "CONSTANT" -> Copies("ASSIGN", x, T!Number(ins.value))
       [] ins.kind = "BINARY" -> T!Tac(Operation(ins.relation), left, x, y, NoName)
       [] ins.kind = "MINUS" -> T!Tac("SUB", left, T!Number(0), x, NoName)
       [] ins.kind = "GET_VALUE_IN_ADDRESS" -> Copies("FETCH", left, x)
       [] ins.kind = "ASSIGN_VALUE_IN_ADDRESS" ->
            T!Tac("DEREF", T!NoOpd, left, x, NoName)
       [] ins.kind = "ARRAY_OFFSET" ->
            T!Tac("ADD", left, T!Pointer(ins.op1), y, NoName)
       [] ins.kind = "DEC" -> T!Tac("DEC", T!NoOpd, T!Pointer(ins.op1), T!NoOpd, NoName)
       [] ins.kind = "READ" -> Copies("READ", x, T!NoOpd)
       [] ins.kind \in {"ARG", "PARAM", "WRITE", "RETURN"} -> Uses(ins.kind)
       [] ins.kind \in {"LABEL", "FUNCTION", "GOTO"} -> Goes(ins.kind)
       [] ins.kind = "CALL" -> T!Tac("CALL", left, T!NoOpd, T!NoOpd, ins.op1)
       [] ins.kind = "IF_GOTO" ->
            T!Tac(CASE ins.relation = "<" -> "IFLT" [] ins.relation = "<=" -> "IFLE"
                    [] ins.relation = ">" -> "IFGT" [] ins.relation = ">=" -> "IFGE"
                    [] ins.relation = "==" -> "IFEQ" [] ins.relation = "!=" -> "IFNE",
                  T!NoOpd, x, y, ins.result)

(* A text that the reader takes for a label, or for a keyword in front of  *)
(* a := is no name a program can have.                                     *)
Reserved == {"LABEL", "FUNCTION", "DEC"} \cup Labels \cup LabelLike

NamesAreSafe ==
  \A i \in 1..Len(source.code) :
    \A n \in {source.code[i].result, source.code[i].op1, source.code[i].op2} \cap Names :
      Text(n).text \notin Reserved

(* What a warning becomes.                                                 *)
FromWarning == T!Tac("IFEQ", T!NoOpd, T!Variable("this"), T!Variable("is"), NoName)

(* When the optimizer has not written a report in front, every line is     *)
(* read as the instruction it was printed for, and none is the end of the  *)
(* back end; but each warning of the translator is a comparison of two     *)
(* variables in front of the program.                                      *)
ReadsBack ==
  source.report = <<>> /\ NamesAreSafe =>
    /\ phase # "crashed"
    /\ \A i \in 1..line - 1 :
         ir[i] = IF i <= source.warnings THEN FromWarning
                 ELSE Meant(source.code[i - source.warnings])

=============================================================================
