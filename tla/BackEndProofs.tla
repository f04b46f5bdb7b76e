---------------------------- MODULE BackEndProofs ----------------------------
(***************************************************************************)
(* What print writes is what _tac_from_line reads, for every program; and  *)
(* what the emitter then gives up at.                                      *)
(***************************************************************************)
EXTENDS BackEnd, TLAPS

Values == Names \cup {ElementSize}
Safe(n) == n \in Names => Text(n).text \notin Reserved

(* The line of tokens t, as the reader takes it for an instruction.        *)
OfLine(t) ==
  CASE Len(t) = 2 -> OfTwo(t) [] Len(t) = 3 -> OfThree(t) [] Len(t) = 4 -> OfFour(t)
    [] Len(t) = 5 -> OfFive(t) [] Len(t) = 6 -> OfSix(t)

Accepted(t) == Len(t) = 2 => t[1].text \in Keywords

-----------------------------------------------------------------------------
(* Operands.                                                               *)

LEMMA SizeIsNoName == ElementSize \notin Names BY NamesAssumption

LEMMA TokenFields ==
  ASSUME NEW mark, NEW text, NEW value
  PROVE  /\ Token(mark, text, value).mark = mark /\ Token(mark, text, value).text = text
         /\ Token(mark, text, value).value = value
BY DEF Token

LEMMA NamesHaveTexts ==
  ASSUME NEW n \in Values
  PROVE  /\ Text(n).text \in Texts /\ Text(n).value \in Int
         /\ n \in Names => Text(n) = Word(Text(n).text)
         /\ n \in Vars => Text(n) = Word(n)
         /\ n = ElementSize => Text(n) = Hash(4)
<1>1. CASE n = ElementSize
  <2>1. Text(n) = Hash(4) BY <1>1 DEF Text
  <2>2. Text(n).text = "none" /\ Text(n).value = 4 BY <2>1, TokenFields DEF Hash
  <2>3. n \notin Names /\ n \notin Vars BY <1>1, SizeIsNoName DEF Names
  <2>4. "none" \in Texts BY DEF Texts
  <2> QED BY <2>1, <2>2, <2>3, <2>4
<1>2. CASE n \in Temps
  <2>1. n # ElementSize /\ n \notin Vars
    BY <1>2, NamesAssumption, SizeIsNoName DEF Names
  <2>2. Text(n) = Word(Stripped[n]) BY <1>2, <2>1 DEF Text
  <2>3. Stripped[n] \in Texts BY <1>2 DEF Texts
  <2>4. Text(n).text = Stripped[n] /\ Text(n).value = 0 BY <2>2, TokenFields DEF Word
  <2> QED BY <2>1, <2>2, <2>3, <2>4
<1>3. CASE n \in Vars
  <2>1. n # ElementSize /\ n \notin Temps
    BY <1>3, NamesAssumption, SizeIsNoName DEF Names
  <2>2. Text(n) = Word(n) BY <2>1 DEF Text
  <2>3. n \in Texts BY <1>3 DEF Texts
  <2>4. Text(n).text = n /\ Text(n).value = 0 BY <2>2, TokenFields DEF Word
  <2> QED BY <2>1, <2>2, <2>3, <2>4
<1> QED BY <1>1, <1>2, <1>3 DEF Values, Names

LEMMA TargetsHaveTexts ==
  ASSUME NEW n \in Targets
  PROVE  /\ Text(n) = Word(n) /\ TargetOf(Text(n)) = n
BY NamesAssumption DEF Names, Targets, Text, TargetOf, Word, Token

LEMMA TargetType ==
  ASSUME NEW token PROVE TargetOf(token) \in Targets \cup {NoName}
BY DEF TargetOf

LEMMA OperandType ==
  ASSUME NEW token, token.text \in Texts, token.value \in Int
  PROVE  OpdOf(token) \in T!Opds
BY DEF OpdOf, T!Opds, T!Number, T!Pointer, T!NoOpd, T!Variable, T!Opd

(* What an instruction reads is a name or the size of an element.          *)
LEMMA ReadOperands ==
  ASSUME NEW ins \in Instructions
  PROVE  /\ Read(ins) \subseteq Values
         /\ ins.kind \in {"BINARY", "MINUS"} => ins.result \in Values
         /\ ins.kind = "BINARY" => ins.relation \in {"+", "-", "*", "/"}
         /\ ins.kind = "ASSIGN_VALUE_IN_ADDRESS" => ins.result \in Names
<1>1. WellFormed(ins) /\ ins.kind \in Kinds BY DEF Instructions
<1>2. AddrTemps \subseteq Names /\ Names \subseteq Values
  BY NamesAssumption DEF Names, Values
<1> QED BY <1>1, <1>2, SMTT(30) DEF WellFormed, Read, Values, Kinds

(* An operand is read as it was printed, whatever & or * is before it.     *)
LEMMA OperandReads ==
  ASSUME NEW n \in Values, Safe(n)
  PROVE  /\ OpdOf(Text(n)) = Variable(n)
         /\ n \in Names => OpdOf(At("*", n)) = Variable(n)
         /\ n \in Vars => OpdOf(At("&", n)) = T!Pointer(n)
<1>1. CASE n = ElementSize
  <2>1. Text(n) = Hash(4) BY <1>1, NamesHaveTexts
  <2>2. Text(n).mark = "#" /\ Text(n).value = 4 BY <2>1, TokenFields DEF Hash
  <2>3. n \notin Names /\ n \notin Vars BY <1>1, SizeIsNoName DEF Names
  <2>4. OpdOf(Text(n)) = T!Number(4) BY <2>2 DEF OpdOf
  <2> QED BY <1>1, <2>3, <2>4 DEF Variable
<1>2. CASE n \in Names
  <2>1. Text(n).text \notin Labels \cup LabelLike BY <1>2 DEF Safe, Reserved
  <2>2. n # ElementSize BY <1>2, SizeIsNoName
  <2>3. Text(n) = Word(Text(n).text) BY NamesHaveTexts, <1>2
  <2>4. Text(n).mark = "plain" BY <2>3, TokenFields DEF Word
  <2>5. /\ At("*", n).mark = "*" /\ At("*", n).text = Text(n).text
        /\ At("&", n).mark = "&" /\ At("&", n).text = Text(n).text
    BY TokenFields DEF At
  <2>6. n \in Vars => Text(n) = Word(n) BY NamesHaveTexts
  <2>7. n \in Vars => Text(n).text = n BY <2>6, TokenFields DEF Word
  <2> QED BY <2>1, <2>2, <2>4, <2>5, <2>7 DEF OpdOf, Variable
<1> QED BY <1>1, <1>2 DEF Values

-----------------------------------------------------------------------------
(* Lines.                                                                  *)

(* Three tokens, of which the first is a name the reader does not know.    *)
LEMMA ThreeTokens ==
  ASSUME NEW n \in Values, n \in Names, Safe(n), NEW t, t.mark # "*", t.mark # "&"
  PROVE  OfThree(<<Text(n), Is, t>>) = Moves("ASSIGN", Text(n), t)
<1>1. Text(n) = Word(Text(n).text) BY NamesHaveTexts
<1>2. Text(n).text \notin {"LABEL", "FUNCTION", "DEC"} BY DEF Safe, Reserved
<1>3. Text(n).mark = "plain" BY <1>1, TokenFields DEF Word
<1>4. Text(n) \notin {Word("LABEL"), Word("FUNCTION"), Word("DEC")}
  BY <1>2, TokenFields DEF Word
<1> QED BY <1>3, <1>4 DEF OfThree

LEMMA ThreeFetch ==
  ASSUME NEW n \in Values, n \in Names, Safe(n), NEW t, t.mark = "*"
  PROVE  OfThree(<<Text(n), Is, t>>) = Moves("FETCH", Text(n), t)
<1>1. Text(n) = Word(Text(n).text) BY NamesHaveTexts
<1>2. Text(n).text \notin {"LABEL", "FUNCTION", "DEC"} BY DEF Safe, Reserved
<1>3. Text(n).mark = "plain" BY <1>1, TokenFields DEF Word
<1>4. Text(n) \notin {Word("LABEL"), Word("FUNCTION"), Word("DEC")}
  BY <1>2, TokenFields DEF Word
<1> QED BY <1>3, <1>4 DEF OfThree

LEMMA ThreeDeref ==
  ASSUME NEW a, a.mark = "*", NEW b
  PROVE  OfThree(<<a, Is, b>>) = T!Tac("DEREF", T!NoOpd, OpdOf(a), OpdOf(b), NoName)
<1>1. a \notin {Word("LABEL"), Word("FUNCTION")} /\ a # Word("DEC")
  BY TokenFields DEF Word
<1> DEFINE t == <<a, Is, b>>
<1>2. t[1] = a /\ t[3] = b OBVIOUS
<1> HIDE DEF t
<1>3. OfThree(t) = T!Tac("DEREF", T!NoOpd, OpdOf(t[1]), OpdOf(t[3]), NoName)
  BY <1>1, <1>2 DEF OfThree
<1> QED BY <1>2, <1>3 DEF t

LEMMA ThreeDec ==
  ASSUME NEW a, NEW b
  PROVE  OfThree(<<Word("DEC"), a, b>>)
           = T!Tac("DEC", T!NoOpd, T!Pointer(a.text), T!NoOpd, NoName)
<1>1. Word("DEC") \notin {Word("LABEL"), Word("FUNCTION")} BY TokenFields DEF Word
<1> DEFINE t == <<Word("DEC"), a, b>>
<1>2. t[1] = Word("DEC") /\ t[2] = a OBVIOUS
<1> HIDE DEF t
<1>3. OfThree(t) = T!Tac("DEC", T!NoOpd, T!Pointer(t[2].text), T!NoOpd, NoName)
  BY <1>1, <1>2 DEF OfThree
<1> QED BY <1>2, <1>3 DEF t

LEMMA LineReadsBack ==
  ASSUME NEW ins \in Instructions, Printable(ins),
         Safe(ins.result), Safe(ins.op1), Safe(ins.op2)
  PROVE  /\ Len(Line(ins)) \in 2..6 /\ Accepted(Line(ins))
         /\ OfLine(Line(ins)) = Meant(ins)
<1> DEFINE x == Text(ins.op1) y == Text(ins.op2) left == Text(ins.result)
<1>0. ins.kind \in Kinds BY DEF Instructions
<1>1. CASE ins.kind = "ASSIGN"
  <2>1. ins.op1 \in Names /\ ins.op1 \in Values /\ ins.op2 \in Names /\ ins.op2 \in Values
    BY <1>1 DEF Instructions, WellFormed, Values
  <2>2. Line(ins) = <<x, Is, y>> BY <1>1 DEF Line
  <2>3. y = Word(y.text) BY <2>1, NamesHaveTexts
  <2>4. y.mark = "plain" BY <2>3, TokenFields DEF Word
  <2>5. OfThree(<<x, Is, y>>) = Moves("ASSIGN", x, y) BY <2>1, <2>4, ThreeTokens
  <2>6. OpdOf(x) = Variable(ins.op1) /\ OpdOf(y) = Variable(ins.op2)
    BY <2>1, OperandReads
  <2>7. Meant(ins) = T!Tac("ASSIGN", Variable(ins.op1), Variable(ins.op2), T!NoOpd, NoName)
    BY <1>1 DEF Meant
  <2> QED BY <2>2, <2>5, <2>6, <2>7 DEF OfLine, Accepted, Moves
<1>2. CASE ins.kind = "CONSTANT"
  <2>1. ins.op1 \in Names /\ ins.op1 \in Values
    BY <1>2 DEF Instructions, WellFormed, Values
  <2>2. Line(ins) = <<x, Is, Hash(ins.value)>> BY <1>2 DEF Line
  <2>3. Hash(ins.value).mark = "#" /\ Hash(ins.value).value = ins.value
    BY TokenFields DEF Hash
  <2>4. OfThree(<<x, Is, Hash(ins.value)>>) = Moves("ASSIGN", x, Hash(ins.value))
    BY <2>1, <2>3, ThreeTokens
  <2>5. OpdOf(x) = Variable(ins.op1) BY <2>1, OperandReads
  <2>6. OpdOf(Hash(ins.value)) = T!Number(ins.value) BY <2>3 DEF OpdOf
  <2>7. Meant(ins) = T!Tac("ASSIGN", Variable(ins.op1), T!Number(ins.value), T!NoOpd, NoName)
    BY <1>2 DEF Meant
  <2> QED BY <2>2, <2>4, <2>5, <2>6, <2>7 DEF OfLine, Accepted, Moves
<1>3. CASE ins.kind = "BINARY"
  <2>1. /\ ins.result \in Values /\ ins.op1 \in Values /\ ins.op2 \in Values
        /\ ins.relation \in {"+", "-", "*", "/"}
    BY <1>3, ReadOperands DEF Printable, Values, Read
  <2>2. Line(ins) = <<left, Is, x, Word(ins.relation), y>> BY <1>3 DEF Line
  <2>3. /\ OpdOf(left) = Variable(ins.result) /\ OpdOf(x) = Variable(ins.op1)
        /\ OpdOf(y) = Variable(ins.op2)
    BY <2>1, OperandReads
  <2>4. Word(ins.relation).text = ins.relation BY TokenFields DEF Word
  <2>5. Meant(ins) = T!Tac(Operation(ins.relation), Variable(ins.result),
                           Variable(ins.op1), Variable(ins.op2), NoName)
    BY <1>3 DEF Meant
  <2> QED BY <2>2, <2>3, <2>4, <2>5 DEF OfLine, OfFive, Accepted
<1>4. CASE ins.kind = "MINUS"
  <2>1. ins.result \in Values /\ ins.op1 \in Values
    BY <1>4, ReadOperands DEF Printable, Values, Read
  <2>2. Line(ins) = <<left, Is, Hash(0), Word("-"), x>> BY <1>4 DEF Line
  <2>3. OpdOf(left) = Variable(ins.result) /\ OpdOf(x) = Variable(ins.op1)
    BY <2>1, OperandReads
  <2>4. /\ Hash(0).mark = "#" /\ Hash(0).value = 0 /\ Word("-").text = "-"
    BY TokenFields DEF Hash, Word
  <2>5. OpdOf(Hash(0)) = T!Number(0) BY <2>4 DEF OpdOf
  <2>6. Operation("-") = "SUB" BY DEF Operation
  <2>7. Meant(ins) = T!Tac("SUB", Variable(ins.result), T!Number(0), Variable(ins.op1), NoName)
    BY <1>4 DEF Meant
  <2> QED BY <2>2, <2>3, <2>4, <2>5, <2>6, <2>7 DEF OfLine, OfFive, Accepted
<1>5. CASE ins.kind \in {"LABEL", "FUNCTION"}
  <2>1. ins.op1 \in Targets BY <1>5 DEF Printable
  <2>2. Line(ins) = <<Word(ins.kind), x, Word(":")>> BY <1>5 DEF Line
  <2>3. TargetOf(x) = ins.op1 BY <2>1, TargetsHaveTexts
  <2>4. Word(ins.kind).text = ins.kind BY TokenFields DEF Word
  <2>5. OfThree(<<Word(ins.kind), x, Word(":")>>) = Jumps(ins.kind, x)
    <3>1. Word(ins.kind) \in {Word("LABEL"), Word("FUNCTION")} BY <1>5
    <3> QED BY <2>4, <3>1 DEF OfThree
  <2>6. Meant(ins) = T!Tac(ins.kind, T!NoOpd, T!NoOpd, T!NoOpd, ins.op1)
    BY <1>5 DEF Meant
  <2> QED BY <2>2, <2>3, <2>5, <2>6 DEF OfLine, Accepted, Jumps
<1>6. CASE ins.kind = "GOTO"
  <2>1. ins.op1 \in Targets BY <1>6 DEF Printable
  <2>2. Line(ins) = <<Word("GOTO"), x>> BY <1>6 DEF Line
  <2>3. TargetOf(x) = ins.op1 BY <2>1, TargetsHaveTexts
  <2>4. Word("GOTO").text = "GOTO" BY TokenFields DEF Word
  <2>5. OfTwo(<<Word("GOTO"), x>>) = Jumps("GOTO", x) BY <2>4 DEF OfTwo
  <2>6. Meant(ins) = T!Tac("GOTO", T!NoOpd, T!NoOpd, T!NoOpd, ins.op1)
    BY <1>6 DEF Meant
  <2> QED BY <2>2, <2>3, <2>4, <2>5, <2>6 DEF OfLine, Accepted, Keywords, Jumps
<1>7. CASE ins.kind \in {"RETURN", "ARG", "WRITE", "PARAM"}
  <2>1. ins.op1 \in Values BY <1>7, ReadOperands DEF Printable, Values, Read
  <2>2. Line(ins) = <<Word(ins.kind), x>> BY <1>7 DEF Line
  <2>3. OpdOf(x) = Variable(ins.op1) BY <2>1, OperandReads
  <2>4. Word(ins.kind).text = ins.kind BY TokenFields DEF Word
  <2>5. OfTwo(<<Word(ins.kind), x>>) = Unary(ins.kind, x) BY <1>7, <2>4 DEF OfTwo
  <2>6. Meant(ins) = T!Tac(ins.kind, T!NoOpd, Variable(ins.op1), T!NoOpd, NoName)
    BY <1>7 DEF Meant
  <2> QED BY <1>7, <2>2, <2>3, <2>4, <2>5, <2>6 DEF OfLine, Accepted, Keywords, Unary
<1>8. CASE ins.kind = "READ"
  <2>1. ins.op1 \in Values BY <1>8 DEF Printable, Values
  <2>2. Line(ins) = <<Word("READ"), x>> BY <1>8 DEF Line
  <2>3. OpdOf(x) = Variable(ins.op1) BY <2>1, OperandReads
  <2>4. Word("READ").text = "READ" BY TokenFields DEF Word
  <2>5. OfTwo(<<Word("READ"), x>>) = T!Tac("READ", OpdOf(x), T!NoOpd, T!NoOpd, NoName)
    BY <2>4 DEF OfTwo
  <2>6. Meant(ins) = T!Tac("READ", Variable(ins.op1), T!NoOpd, T!NoOpd, NoName)
    BY <1>8 DEF Meant
  <2> QED BY <2>2, <2>3, <2>4, <2>5, <2>6 DEF OfLine, Accepted, Keywords
<1>9. CASE ins.kind = "IF_GOTO"
  <2>1. /\ ins.result \in Targets /\ ins.op1 \in Values /\ ins.op2 \in Values
        /\ ins.relation \in {"<", "<=", ">", ">=", "==", "!="}
    BY <1>9, ReadOperands DEF Printable, Values, Read
  <2>2. Line(ins) = <<Word("IF"), x, Word(ins.relation), y, Word("GOTO"), left>>
    BY <1>9 DEF Line
  <2>3. /\ TargetOf(left) = ins.result /\ OpdOf(x) = Variable(ins.op1)
        /\ OpdOf(y) = Variable(ins.op2)
    BY <2>1, TargetsHaveTexts, OperandReads
  <2>4. Word(ins.relation).text = ins.relation BY TokenFields DEF Word
  <2>5. OfSix(Line(ins)) = T!Tac(Comparison(ins.relation), T!NoOpd, Variable(ins.op1),
                                 Variable(ins.op2), ins.result)
    BY <2>2, <2>3, <2>4 DEF OfSix
  <2>6. Meant(ins) = T!Tac(Comparison(ins.relation), T!NoOpd, Variable(ins.op1),
                           Variable(ins.op2), ins.result)
    BY <1>9, <2>1 DEF Meant, Comparison
  <2> QED BY <2>2, <2>5, <2>6 DEF OfLine, Accepted
<1>10. CASE ins.kind = "ARRAY_OFFSET"
  <2>1. /\ ins.result \in Values /\ ins.op1 \in Vars /\ ins.op1 \in Values
        /\ ins.op2 \in Values
    BY <1>10, ReadOperands DEF Printable, Values, Read, Names
  <2>2. Line(ins) = <<left, Is, At("&", ins.op1), Word("+"), y>> BY <1>10 DEF Line
  <2>3. /\ OpdOf(left) = Variable(ins.result) /\ OpdOf(y) = Variable(ins.op2)
        /\ OpdOf(At("&", ins.op1)) = T!Pointer(ins.op1)
    BY <2>1, OperandReads
  <2>4. Word("+").text = "+" BY TokenFields DEF Word
  <2>5. Operation("+") = "ADD" BY DEF Operation
  <2>6. Meant(ins) = T!Tac("ADD", Variable(ins.result), T!Pointer(ins.op1),
                           Variable(ins.op2), NoName)
    BY <1>10 DEF Meant
  <2> QED BY <2>2, <2>3, <2>4, <2>5, <2>6 DEF OfLine, OfFive, Accepted
<1>11. CASE ins.kind = "GET_VALUE_IN_ADDRESS"
  <2>1. /\ ins.result \in Names /\ ins.result \in Values
        /\ ins.op1 \in Names /\ ins.op1 \in Values
    BY <1>11, NamesAssumption DEF Printable, Instructions, WellFormed, Values, Names
  <2>2. Line(ins) = <<left, Is, At("*", ins.op1)>> BY <1>11 DEF Line
  <2>3. At("*", ins.op1).mark = "*" BY TokenFields DEF At
  <2>4. OfThree(<<left, Is, At("*", ins.op1)>>) = Moves("FETCH", left, At("*", ins.op1))
    BY <2>1, <2>3, ThreeFetch
  <2>5. OpdOf(left) = Variable(ins.result) /\ OpdOf(At("*", ins.op1)) = Variable(ins.op1)
    BY <2>1, OperandReads
  <2>6. Meant(ins) = T!Tac("FETCH", Variable(ins.result), Variable(ins.op1), T!NoOpd, NoName)
    BY <1>11 DEF Meant
  <2> QED BY <2>2, <2>4, <2>5, <2>6 DEF OfLine, Accepted, Moves
<1>12. CASE ins.kind = "ASSIGN_VALUE_IN_ADDRESS"
  <2>1. ins.result \in Names /\ ins.result \in Values /\ ins.op1 \in Values
    BY <1>12, ReadOperands, NamesAssumption DEF Printable, Values, Read, Names
  <2> DEFINE a == At("*", ins.result)
  <2>2. Line(ins) = <<a, Is, x>> BY <1>12 DEF Line
  <2>3. a.mark = "*" BY TokenFields DEF At
  <2>4. OpdOf(a) = Variable(ins.result) /\ OpdOf(x) = Variable(ins.op1)
    BY <2>1, OperandReads
  <2>5. OfThree(<<a, Is, x>>) = T!Tac("DEREF", T!NoOpd, OpdOf(a), OpdOf(x), NoName)
    BY <2>3, ThreeDeref
  <2>6. Meant(ins) = T!Tac("DEREF", T!NoOpd, Variable(ins.result), Variable(ins.op1), NoName)
    BY <1>12 DEF Meant
  <2> QED BY <2>2, <2>4, <2>5, <2>6 DEF OfLine, Accepted
<1>13. CASE ins.kind = "DEC"
  <2>1. ins.op1 \in Vars /\ ins.op1 \in Values BY <1>13 DEF Printable, Values, Names
  <2> DEFINE size == Token("plain", "none", ins.value)
  <2>2. Line(ins) = <<Word("DEC"), x, size>> BY <1>13 DEF Line
  <2>3. x = Word(ins.op1) BY <2>1, NamesHaveTexts
  <2>4. x.text = ins.op1 BY <2>3, TokenFields DEF Word
  <2> HIDE DEF size
  <2>5. OfThree(<<Word("DEC"), x, size>>)
          = T!Tac("DEC", T!NoOpd, T!Pointer(ins.op1), T!NoOpd, NoName)
    BY <2>4, ThreeDec
  <2>6. Meant(ins) = T!Tac("DEC", T!NoOpd, T!Pointer(ins.op1), T!NoOpd, NoName)
    BY <1>13 DEF Meant
  <2> QED BY <2>2, <2>5, <2>6 DEF OfLine, Accepted
<1>14. CASE ins.kind = "CALL"
  <2>1. ins.result \in Values /\ ins.op1 \in Targets BY <1>14 DEF Printable, Values
  <2>2. Line(ins) = <<left, Is, Word("CALL"), x>> BY <1>14 DEF Line
  <2>3. OpdOf(left) = Variable(ins.result) /\ TargetOf(x) = ins.op1
    BY <2>1, OperandReads, TargetsHaveTexts
  <2>4. Meant(ins) = T!Tac("CALL", Variable(ins.result), T!NoOpd, T!NoOpd, ins.op1)
    BY <1>14 DEF Meant
  <2> QED BY <2>2, <2>3, <2>4 DEF OfLine, OfFour, Accepted
<1> QED
  BY <1>0, <1>1, <1>2, <1>3, <1>4, <1>5, <1>6, <1>7, <1>8, <1>9, <1>10, <1>11, <1>12,
     <1>13, <1>14 DEF Kinds

-----------------------------------------------------------------------------
(* A line is read as some node, whatever its names are.                    *)

LEMMA NodeType ==
  ASSUME NEW kind \in T!Kinds, NEW left \in T!Opds, NEW r1 \in T!Opds, NEW r2 \in T!Opds,
         NEW target \in Targets \cup {NoName}
  PROVE  T!Tac(kind, left, r1, r2, target) \in T!Code
BY DEF T!Tac, T!Code

LEMMA NoOperandType == T!NoOpd \in T!Opds
BY DEF T!NoOpd, T!Opd, T!Opds

LEMMA UnaryType ==
  ASSUME NEW kind \in T!Kinds, NEW t, t.text \in Texts, t.value \in Int
  PROVE  Unary(kind, t) \in T!Code /\ Jumps(kind, t) \in T!Code
BY NodeType, NoOperandType, OperandType, TargetType DEF Unary, Jumps

LEMMA MovesType ==
  ASSUME NEW kind \in T!Kinds, NEW a, a.text \in Texts, a.value \in Int,
         NEW b, b.text \in Texts, b.value \in Int
  PROVE  Moves(kind, a, b) \in T!Code
BY NodeType, NoOperandType, OperandType DEF Moves

LEMMA ThreeType ==
  ASSUME NEW a, a.text \in Texts, a.value \in Int, NEW b, b.text \in Texts, b.value \in Int
  PROVE  OfThree(<<a, Is, b>>) \in T!Code
<1> DEFINE t == <<a, Is, b>>
<1>1. t[1] = a /\ t[2] = Is /\ t[3] = b OBVIOUS
<1>2. Is.text \in Texts /\ Is.value \in Int BY TokenFields DEF Is, Word, Texts
<1>3. CASE t[1] \in {Word("LABEL"), Word("FUNCTION")}
  <2>1. t[1].text \in {"LABEL", "FUNCTION"} BY <1>3, TokenFields DEF Word
  <2>2. t[1].text \in T!Kinds BY <2>1 DEF T!Kinds
  <2>3. Jumps(t[1].text, t[2]) \in T!Code BY <1>1, <1>2, <2>2, UnaryType
  <2> QED BY <1>3, <2>3 DEF OfThree
<1>4. CASE t[1] = Word("DEC") /\ t[1] \notin {Word("LABEL"), Word("FUNCTION")}
  <2>1. T!Pointer(t[2].text) \in T!Opds
    BY <1>1, <1>2 DEF T!Pointer, T!Opd, T!Opds
  <2>2. T!Tac("DEC", T!NoOpd, T!Pointer(t[2].text), T!NoOpd, NoName) \in T!Code
    BY <2>1, NodeType, NoOperandType DEF T!Kinds
  <2> QED BY <1>4, <2>2 DEF OfThree
<1>5. CASE t[1] \notin {Word("LABEL"), Word("FUNCTION"), Word("DEC")}
  <2>1. OpdOf(t[1]) \in T!Opds /\ OpdOf(t[3]) \in T!Opds BY <1>1, OperandType
  <2>2. T!Tac("DEREF", T!NoOpd, OpdOf(t[1]), OpdOf(t[3]), NoName) \in T!Code
    BY <2>1, NodeType, NoOperandType DEF T!Kinds
  <2>3. /\ Moves("FETCH", t[1], t[3]) \in T!Code /\ Moves("ADDR", t[1], t[3]) \in T!Code
        /\ Moves("ASSIGN", t[1], t[3]) \in T!Code
    BY <1>1, MovesType DEF T!Kinds
  <2> QED BY <1>5, <2>2, <2>3 DEF OfThree
<1> QED BY <1>3, <1>4, <1>5

(* The shapes of lines that print writes.                                  *)
LEMMA LineType ==
  ASSUME NEW ins \in Instructions, Printable(ins)
  PROVE  /\ Len(Line(ins)) \in 2..6 /\ Accepted(Line(ins))
         /\ OfLine(Line(ins)) \in T!Code
<1> DEFINE x == Text(ins.op1) y == Text(ins.op2) left == Text(ins.result)
<1>0. ins.kind \in Kinds /\ ins.value \in Int BY DEF Instructions
<1>a. \A n \in Values : Text(n).text \in Texts /\ Text(n).value \in Int
  BY NamesHaveTexts
<1>b. \A n \in Targets : Text(n).text \in Texts /\ Text(n).value \in Int
  BY TargetsHaveTexts, TokenFields DEF Word, Texts
<1>c. \A n \in Values, mark \in {"*", "&"} :
         At(mark, n).text \in Texts /\ At(mark, n).value \in Int
  BY <1>a, TokenFields DEF At
<1>d. \A v \in Int : Hash(v).text \in Texts /\ Hash(v).value \in Int
  BY TokenFields DEF Hash, Texts
<1>e. \A text : Word(text).text = text BY TokenFields DEF Word
<1>1. CASE ins.kind = "ASSIGN"
  <2>1. ins.op1 \in Values /\ ins.op2 \in Values
    BY <1>1 DEF Instructions, WellFormed, Values
  <2>2. Line(ins) = <<x, Is, y>> BY <1>1 DEF Line
  <2>3. OfThree(<<x, Is, y>>) \in T!Code BY <1>a, <2>1, ThreeType
  <2> QED BY <2>2, <2>3 DEF OfLine, Accepted
<1>2. CASE ins.kind = "CONSTANT"
  <2>1. ins.op1 \in Values BY <1>2 DEF Instructions, WellFormed, Values
  <2>2. Line(ins) = <<x, Is, Hash(ins.value)>> BY <1>2 DEF Line
  <2>3. OfThree(<<x, Is, Hash(ins.value)>>) \in T!Code
    BY <1>0, <1>a, <1>d, <2>1, ThreeType
  <2> QED BY <2>2, <2>3 DEF OfLine, Accepted
<1>3. CASE ins.kind = "BINARY"
  <2>1. /\ ins.result \in Values /\ ins.op1 \in Values /\ ins.op2 \in Values
        /\ ins.relation \in {"+", "-", "*", "/"}
    BY <1>3, ReadOperands DEF Printable, Values, Read
  <2>2. Line(ins) = <<left, Is, x, Word(ins.relation), y>> BY <1>3 DEF Line
  <2>3. OpdOf(left) \in T!Opds /\ OpdOf(x) \in T!Opds /\ OpdOf(y) \in T!Opds
    BY <1>a, <2>1, OperandType
  <2>4. Operation(ins.relation) \in T!Kinds BY <2>1 DEF Operation, T!Kinds, T!Arithmetic
  <2>5. OfFive(Line(ins)) \in T!Code BY <1>e, <2>2, <2>3, <2>4, NodeType DEF OfFive
  <2> QED BY <2>2, <2>5 DEF OfLine, Accepted
<1>4. CASE ins.kind = "MINUS"
  <2>1. ins.result \in Values /\ ins.op1 \in Values
    BY <1>4, ReadOperands DEF Printable, Values, Read
  <2>2. Line(ins) = <<left, Is, Hash(0), Word("-"), x>> BY <1>4 DEF Line
  <2>3. OpdOf(left) \in T!Opds /\ OpdOf(Hash(0)) \in T!Opds /\ OpdOf(x) \in T!Opds
    BY <1>a, <1>d, <2>1, OperandType
  <2>4. Operation("-") \in T!Kinds BY DEF Operation, T!Kinds, T!Arithmetic
  <2>5. OfFive(Line(ins)) \in T!Code BY <1>e, <2>2, <2>3, <2>4, NodeType DEF OfFive
  <2> QED BY <2>2, <2>5 DEF OfLine, Accepted
<1>5. CASE ins.kind \in {"LABEL", "FUNCTION"}
  <2>1. ins.op1 \in Targets BY <1>5 DEF Printable
  <2>2. Line(ins) = <<Word(ins.kind), x, Word(":")>> BY <1>5 DEF Line
  <2>3. Word(ins.kind) \in {Word("LABEL"), Word("FUNCTION")} BY <1>5
  <2>4. OfThree(<<Word(ins.kind), x, Word(":")>>) = Jumps(ins.kind, x)
    BY <1>e, <2>3 DEF OfThree
  <2>5. ins.kind \in T!Kinds BY <1>5 DEF T!Kinds
  <2>6. Jumps(ins.kind, x) \in T!Code BY <1>b, <2>1, <2>5, UnaryType
  <2> QED BY <2>2, <2>4, <2>6 DEF OfLine, Accepted
<1>6. CASE ins.kind = "GOTO"
  <2>1. ins.op1 \in Targets BY <1>6 DEF Printable
  <2>2. Line(ins) = <<Word("GOTO"), x>> BY <1>6 DEF Line
  <2>3. OfTwo(<<Word("GOTO"), x>>) = Jumps("GOTO", x) BY <1>e DEF OfTwo
  <2>4. Jumps("GOTO", x) \in T!Code BY <1>b, <2>1, UnaryType DEF T!Kinds
  <2> QED BY <1>e, <2>2, <2>3, <2>4 DEF OfLine, Accepted, Keywords
<1>7. CASE ins.kind \in {"RETURN", "ARG", "WRITE", "PARAM"}
  <2>1. ins.op1 \in Values BY <1>7, ReadOperands DEF Printable, Values, Read
  <2>2. Line(ins) = <<Word(ins.kind), x>> BY <1>7 DEF Line
  <2>3. OfTwo(<<Word(ins.kind), x>>) = Unary(ins.kind, x) BY <1>7, <1>e DEF OfTwo
  <2>4. ins.kind \in T!Kinds BY <1>7 DEF T!Kinds
  <2>5. Unary(ins.kind, x) \in T!Code BY <1>a, <2>1, <2>4, UnaryType
  <2> QED BY <1>7, <1>e, <2>2, <2>3, <2>5 DEF OfLine, Accepted, Keywords
<1>8. CASE ins.kind = "READ"
  <2>1. ins.op1 \in Values BY <1>8 DEF Printable, Values
  <2>2. Line(ins) = <<Word("READ"), x>> BY <1>8 DEF Line
  <2>3. OfTwo(<<Word("READ"), x>>) = T!Tac("READ", OpdOf(x), T!NoOpd, T!NoOpd, NoName)
    BY <1>e DEF OfTwo
  <2>4. OpdOf(x) \in T!Opds BY <1>a, <2>1, OperandType
  <2>5. OfTwo(<<Word("READ"), x>>) \in T!Code
    BY <2>3, <2>4, NodeType, NoOperandType DEF T!Kinds
  <2> QED BY <1>e, <2>2, <2>5 DEF OfLine, Accepted, Keywords
<1>9. CASE ins.kind = "IF_GOTO"
  <2>1. ins.op1 \in Values /\ ins.op2 \in Values BY <1>9, ReadOperands DEF Printable, Values, Read
  <2>2. Line(ins) = <<Word("IF"), x, Word(ins.relation), y, Word("GOTO"), left>>
    BY <1>9 DEF Line
  <2>3. OpdOf(x) \in T!Opds /\ OpdOf(y) \in T!Opds /\ TargetOf(left) \in Targets \cup {NoName}
    BY <1>a, <2>1, OperandType, TargetType
  <2>4. Comparison(Word(ins.relation).text) \in T!Kinds
    BY DEF Comparison, T!Kinds, T!Branches
  <2>5. OfSix(Line(ins)) \in T!Code
    BY <2>2, <2>3, <2>4, NodeType, NoOperandType DEF OfSix
  <2> QED BY <2>2, <2>5 DEF OfLine, Accepted
<1>10. CASE ins.kind = "ARRAY_OFFSET"
  <2>1. ins.result \in Values /\ ins.op1 \in Values /\ ins.op2 \in Values
    BY <1>10, ReadOperands DEF Printable, Values, Read, Names
  <2>2. Line(ins) = <<left, Is, At("&", ins.op1), Word("+"), y>> BY <1>10 DEF Line
  <2>3. /\ OpdOf(left) \in T!Opds /\ OpdOf(y) \in T!Opds
        /\ OpdOf(At("&", ins.op1)) \in T!Opds
    BY <1>a, <1>c, <2>1, OperandType
  <2>4. Operation("+") \in T!Kinds BY DEF Operation, T!Kinds, T!Arithmetic
  <2>5. OfFive(Line(ins)) \in T!Code BY <1>e, <2>2, <2>3, <2>4, NodeType DEF OfFive
  <2> QED BY <2>2, <2>5 DEF OfLine, Accepted
<1>11. CASE ins.kind = "GET_VALUE_IN_ADDRESS"
  <2>1. ins.result \in Values /\ ins.op1 \in Values
    BY <1>11, ReadOperands DEF Printable, Values, Read
  <2>2. Line(ins) = <<left, Is, At("*", ins.op1)>> BY <1>11 DEF Line
  <2>3. OfThree(<<left, Is, At("*", ins.op1)>>) \in T!Code
    BY <1>a, <1>c, <2>1, ThreeType
  <2> QED BY <2>2, <2>3 DEF OfLine, Accepted
<1>12. CASE ins.kind = "ASSIGN_VALUE_IN_ADDRESS"
  <2>1. ins.result \in Values /\ ins.op1 \in Values
    BY <1>12, ReadOperands DEF Printable, Values, Read
  <2>2. Line(ins) = <<At("*", ins.result), Is, x>> BY <1>12 DEF Line
  <2>3. OfThree(<<At("*", ins.result), Is, x>>) \in T!Code
    BY <1>a, <1>c, <2>1, ThreeType
  <2> QED BY <2>2, <2>3 DEF OfLine, Accepted
<1>13. CASE ins.kind = "DEC"
  <2>1. ins.op1 \in Values BY <1>13 DEF Printable, Values, Names
  <2> DEFINE size == Token("plain", "none", ins.value)
  <2>2. Line(ins) = <<Word("DEC"), x, size>> BY <1>13 DEF Line
  <2> HIDE DEF size
  <2>3. T!Pointer(x.text) \in T!Opds BY <1>a, <2>1 DEF T!Pointer, T!Opd, T!Opds
  <2>4. OfThree(<<Word("DEC"), x, size>>) \in T!Code
    BY <2>3, ThreeDec, NodeType, NoOperandType DEF T!Kinds
  <2> QED BY <2>2, <2>4 DEF OfLine, Accepted
<1>14. CASE ins.kind = "CALL"
  <2>1. ins.result \in Values BY <1>14 DEF Printable, Values
  <2>2. Line(ins) = <<left, Is, Word("CALL"), x>> BY <1>14 DEF Line
  <2>3. OpdOf(left) \in T!Opds /\ TargetOf(x) \in Targets \cup {NoName}
    BY <1>a, <2>1, OperandType, TargetType
  <2>4. OfFour(Line(ins)) \in T!Code
    BY <2>2, <2>3, NodeType, NoOperandType DEF OfFour, T!Kinds
  <2> QED BY <2>2, <2>4 DEF OfLine, Accepted
<1> QED
  BY <1>0, <1>1, <1>2, <1>3, <1>4, <1>5, <1>6, <1>7, <1>8, <1>9, <1>10, <1>11, <1>12,
     <1>13, <1>14 DEF Kinds

-----------------------------------------------------------------------------
(* The run of the reader.                                                  *)

Report == source.warnings + Len(source.report)
IsReadAt(i) == source.code[i - Report]

LEMMA SourceType ==
  ASSUME source \in Outputs
  PROVE  /\ Len(source.report) \in Nat /\ Len(source.code) \in Nat
         /\ source.warnings \in Nat
         /\ \A i \in 1..Len(source.code) :
              source.code[i] \in Instructions /\ Printable(source.code[i])
<1>1. /\ source.report \in Seq(ReportTexts) /\ source.warnings \in Nat
      /\ source.code \in Seq({ins \in Instructions : Printable(ins)})
  BY TextAssumption
<1> QED BY <1>1

LEMMA FileLines ==
  ASSUME source \in Outputs
  PROVE  /\ Len(File) = Report + Len(source.code) /\ Len(File) \in Nat
         /\ \A i \in 1..Len(File) :
              \/ i <= source.warnings /\ File[i] = Warning
              \/ i > source.warnings /\ i <= Report /\ Len(File[i]) = 1
              \/ /\ i > Report /\ i - Report \in 1..Len(source.code)
                 /\ File[i] = Line(IsReadAt(i))
<1>1. /\ Report \in Nat /\ Len(source.code) \in Nat /\ source.warnings \in Nat
      /\ source.warnings <= Report
  BY SourceType DEF Report
<1> DEFINE n == Report + Len(source.code)
           line_(i) == IF i <= source.warnings THEN Warning
                       ELSE IF i <= Report THEN <<Word(source.report[i - source.warnings])>>
                       ELSE Line(source.code[i - Report])
<1>2. File = [i \in 1..n |-> line_(i)] BY DEF File, Report
<1>3. n \in Nat BY <1>1
<1>4. Len(File) = n BY <1>2, <1>3
<1>5. ASSUME NEW i \in 1..n
      PROVE  \/ i <= source.warnings /\ File[i] = Warning
             \/ i > source.warnings /\ i <= Report /\ Len(File[i]) = 1
             \/ /\ i > Report /\ i - Report \in 1..Len(source.code)
                /\ File[i] = Line(IsReadAt(i))
  <2>1. File[i] = line_(i) BY <1>2, <1>5
  <2>2. CASE i <= source.warnings BY <2>1, <2>2
  <2>3. CASE ~ i <= source.warnings /\ i <= Report BY <1>1, <2>1, <2>3
  <2>4. CASE ~ i <= Report BY <1>1, <2>1, <2>4 DEF IsReadAt
  <2> QED BY <2>2, <2>3, <2>4
<1> QED BY <1>3, <1>4, <1>5

(* A step that reads a line appends what it is, or crashes because it has  *)
(* one token or an unknown keyword.                                        *)
Lines == phase = "read" /\ line \in 1..Len(File)

LEMMA StepForms ==
  ASSUME TypeOK, ReadNext
  PROVE  \/ /\ Lines /\ Len(Tokens) \in 2..6 /\ Append1(OfLine(Tokens)) /\ UNCHANGED source
         \/ /\ Lines /\ (Len(Tokens) = 1 \/ ~ Accepted(Tokens)) /\ Crash
            /\ UNCHANGED source
         \/ EndOfFile
<1>0. line \in 1..Len(File) + 1 /\ Len(File) \in Nat BY FileLines DEF TypeOK
<1>1. CASE ReadOne BY <1>0, <1>1 DEF ReadOne, Reads, Lines
<1>2. CASE ReadTwo
  BY <1>0, <1>2 DEF ReadTwo, Reads, Lines, OfLine, Accepted
<1>3. CASE ReadThree BY <1>0, <1>3 DEF ReadThree, Reads, Lines, OfLine
<1>4. CASE ReadCall BY <1>0, <1>4 DEF ReadCall, Reads, Lines, OfLine
<1>5. CASE ReadBinary BY <1>0, <1>5 DEF ReadBinary, Reads, Lines, OfLine
<1>6. CASE ReadIf BY <1>0, <1>6 DEF ReadIf, Reads, Lines, OfLine
<1> QED BY <1>1, <1>2, <1>3, <1>4, <1>5, <1>6 DEF ReadNext

(* The line that is read is a warning or that of an instruction, unless it *)
(* has one token.                                                          *)
LEMMA LineIsInstruction ==
  ASSUME TypeOK, Lines, Len(Tokens) # 1
  PROVE  \/ line <= source.warnings /\ Tokens = Warning
         \/ /\ line > source.warnings /\ line - Report \in 1..Len(source.code)
            /\ IsReadAt(line) \in Instructions /\ Printable(IsReadAt(line))
            /\ Tokens = Line(IsReadAt(line))
<1>1. source \in Outputs BY DEF TypeOK
<1>2. Len(File[line]) # 1 BY DEF Tokens
<1>3. \/ line <= source.warnings /\ File[line] = Warning
      \/ /\ line > Report /\ line - Report \in 1..Len(source.code)
         /\ File[line] = Line(IsReadAt(line))
  BY <1>1, <1>2, FileLines DEF Lines
<1>4. source.warnings <= Report /\ source.warnings \in Nat /\ Report \in Nat
  BY <1>1, SourceType DEF Report
<1>5. line > Report => line > source.warnings BY <1>4 DEF Lines
<1> QED BY <1>1, <1>3, <1>5, SourceType DEF IsReadAt, Tokens

(* A warning is read as a comparison.                                      *)
LEMMA WarningIsComparison ==
  /\ Len(Warning) = 6 /\ Accepted(Warning)
  /\ OfLine(Warning) = FromWarning /\ FromWarning \in T!Code
<1>1. Len(Warning) = 6 BY DEF Warning
<1>2. /\ Warning[2] = Word("this") /\ Warning[3] = Word("case") /\ Warning[4] = Word("is")
      /\ Warning[6] = Word("handled!")
  BY DEF Warning
<1>3. Accepted(Warning) BY <1>1 DEF Accepted
<1>4. OfLine(Warning) = OfSix(Warning)
  <2> DEFINE w == Warning
  <2>1. Len(w) = 6 BY <1>1
  <2> HIDE DEF w
  <2>2. OfLine(w) = OfSix(w) BY <2>1 DEF OfLine
  <2> QED BY <2>2 DEF w
<1>5. /\ "this" \notin Labels \cup LabelLike /\ "is" \notin Labels \cup LabelLike
      /\ "handled!" \notin Targets
  BY TextAssumption
<1>6. /\ OpdOf(Word("this")) = T!Variable("this") /\ OpdOf(Word("is")) = T!Variable("is")
      /\ TargetOf(Word("handled!")) = NoName
  BY <1>5, TokenFields DEF OpdOf, TargetOf, Word
<1>7. Comparison(Word("case").text) = "IFEQ" BY TokenFields DEF Comparison, Word
<1>8. OfSix(Warning) = FromWarning BY <1>2, <1>6, <1>7 DEF OfSix, FromWarning
<1>9. FromWarning \in T!Code
  <2>1. "this" \in Texts /\ "is" \in Texts BY DEF Texts
  <2>2. "IFEQ" \in T!Kinds BY DEF T!Kinds, T!Branches
  <2>3. T!Variable("this") \in T!Opds /\ T!Variable("is") \in T!Opds
    BY <2>1 DEF T!Variable, T!Opd, T!Opds
  <2> QED BY <2>2, <2>3, NodeType, NoOperandType DEF FromWarning
<1> QED BY <1>1, <1>3, <1>4, <1>8, <1>9

LEMMA TypeStep == TypeOK /\ [ReadNext]_vars => TypeOK'
<1> SUFFICES ASSUME TypeOK, [ReadNext]_vars PROVE TypeOK'
  OBVIOUS
<1>0. Len(File) \in Nat BY FileLines DEF TypeOK
<1>1. CASE Lines /\ Len(Tokens) \in 2..6 /\ Append1(OfLine(Tokens)) /\ UNCHANGED source
  <2>1. OfLine(Tokens) \in T!Code
    <3>1. CASE Tokens = Warning BY <3>1, WarningIsComparison
    <3>2. CASE Tokens # Warning BY <1>1, <3>2, LineIsInstruction, LineType
    <3> QED BY <3>1, <3>2
  <2>2. File' = File BY <1>1 DEF File
  <2> DEFINE tac == OfLine(Tokens)
  <2>3. ir' = Append(ir, tac) /\ line' = line + 1 /\ phase' = "read" /\ source' = source
    BY <1>1 DEF Append1, Lines
  <2> HIDE DEF tac
  <2>4. ir' \in Seq(T!Code) /\ Len(ir') = Len(ir) + 1
    BY <2>1, <2>3 DEF TypeOK, tac
  <2>5. line + 1 \in 1..Len(File) + 1 BY <1>0, <1>1 DEF Lines
  <2>6. (T!Code)' = T!Code OBVIOUS
  <2>7. Len(ir') = line' - 1 BY <2>3, <2>4, <2>5 DEF TypeOK
  <2> QED BY <2>2, <2>3, <2>4, <2>5, <2>6, <2>7 DEF TypeOK
<1>2. CASE Lines /\ Crash /\ UNCHANGED source
  <2>1. File' = File BY <1>2 DEF File
  <2> QED BY <1>2, <2>1 DEF TypeOK, Crash
<1>3. CASE EndOfFile
  <2>1. File' = File BY <1>3 DEF File, EndOfFile
  <2> QED BY <1>3, <2>1 DEF TypeOK, EndOfFile
<1>4. CASE UNCHANGED vars
  <2>1. File' = File BY <1>4 DEF File, vars
  <2> QED BY <1>4, <2>1 DEF TypeOK, vars
<1> QED BY <1>1, <1>2, <1>3, <1>4, StepForms

LEMMA TypeInit == Init => TypeOK
<1> SUFFICES ASSUME Init PROVE TypeOK
  OBVIOUS
<1>1. source \in Outputs /\ phase = "read" /\ line = 1 /\ ir = <<>> BY DEF Init
<1>2. Len(File) \in Nat BY <1>1, FileLines
<1> QED BY <1>1, <1>2 DEF TypeOK

(* For every set of programs, whatever their names are, a line of print is *)
(* read as some TAC node: the reader's state is well typed.                *)
THEOREM TypeCorrect == Spec => []TypeOK
BY TypeInit, TypeStep, PTL DEF Spec

LEMMA SafeNames ==
  ASSUME NamesAreSafe, source \in Outputs, NEW i \in 1..Len(source.code)
  PROVE  /\ Safe(source.code[i].result) /\ Safe(source.code[i].op1)
         /\ Safe(source.code[i].op2)
BY DEF NamesAreSafe, Safe

(* The node that line i becomes.                                           *)
ReadAs(i) ==
  IF i <= source.warnings THEN FromWarning ELSE Meant(source.code[i - source.warnings])

LEMMA ReadsBackStep == TypeOK /\ ReadsBack /\ [ReadNext]_vars => ReadsBack'
<1> SUFFICES ASSUME TypeOK, ReadsBack, [ReadNext]_vars, source'.report = <<>>, NamesAreSafe'
             PROVE  phase' # "crashed" /\ \A i \in 1..line' - 1 : ir'[i] = ReadAs(i)'
  BY DEF ReadsBack, ReadAs
<1>0. source' = source
  BY DEF ReadNext, ReadOne, ReadTwo, ReadThree, ReadCall, ReadBinary, ReadIf, Reads,
         EndOfFile, vars
<1>1. source.report = <<>> /\ NamesAreSafe /\ source \in Outputs
  BY <1>0 DEF NamesAreSafe, TypeOK
<1>2. phase # "crashed" /\ \A i \in 1..line - 1 : ir[i] = ReadAs(i)
  BY <1>1 DEF ReadsBack, ReadAs
<1>3. Report = source.warnings
  <2>1. Len(source.report) = 0 /\ source.warnings \in Nat BY <1>1, SourceType
  <2> QED BY <2>1 DEF Report
<1>4. \A i : ReadAs(i)' = ReadAs(i) BY <1>0 DEF ReadAs
<1>5. ASSUME Lines, Len(Tokens) # 1
      PROVE  /\ Len(Tokens) \in 2..6 /\ Accepted(Tokens)
             /\ OfLine(Tokens) = ReadAs(line) /\ ReadAs(line) \in T!Code
  <2>1. CASE line <= source.warnings /\ Tokens = Warning
    BY <2>1, WarningIsComparison DEF ReadAs
  <2>2. CASE ~ (line <= source.warnings) \/ Tokens # Warning
    <3>1. /\ line > source.warnings /\ line - Report \in 1..Len(source.code)
          /\ IsReadAt(line) \in Instructions /\ Printable(IsReadAt(line))
          /\ Tokens = Line(IsReadAt(line))
      BY <1>5, <2>2, LineIsInstruction
    <3>2. IsReadAt(line) = source.code[line - source.warnings] BY <1>3 DEF IsReadAt
    <3>3. ~ (line <= source.warnings)
      <4>1. line \in Int /\ source.warnings \in Int BY <1>1, <1>5, SourceType DEF Lines
      <4> QED BY <3>1, <4>1
    <3>4. OfLine(Tokens) = Meant(IsReadAt(line))
      BY <1>1, <1>3, <3>1, <3>2, SafeNames, LineReadsBack
    <3> QED BY <3>1, <3>2, <3>3, <3>4, LineType DEF ReadAs
  <2> QED BY <2>1, <2>2
<1>6. CASE Lines /\ Len(Tokens) \in 2..6 /\ Append1(OfLine(Tokens)) /\ UNCHANGED source
  <2> DEFINE tac == OfLine(Tokens)
  <2>1. tac = ReadAs(line) /\ tac \in T!Code
    <3>1. Len(Tokens) # 1 BY <1>6
    <3> QED BY <1>5, <1>6, <3>1
  <2>2. ir' = Append(ir, tac) /\ line' = line + 1 /\ phase' = phase
    BY <1>6 DEF Append1
  <2> HIDE DEF tac
  <2>3. ir \in Seq(T!Code) /\ Len(ir) = line - 1 /\ line \in Nat BY <1>6 DEF TypeOK, Lines
  <2>4. \A i \in 1..line - 1 : ir'[i] = ir[i] BY <2>1, <2>2, <2>3
  <2>5. ir'[line] = tac BY <2>1, <2>2, <2>3
  <2>6. ASSUME NEW i \in 1..line' - 1 PROVE ir'[i] = ReadAs(i)
    <3>1. i \in 1..line - 1 \/ i = line BY <2>2, <2>3
    <3> QED BY <1>2, <2>1, <2>4, <2>5, <3>1
  <2> QED BY <1>2, <1>4, <2>2, <2>6
<1>7. CASE Lines /\ (Len(Tokens) = 1 \/ ~ Accepted(Tokens))
  <2>1. Len(Tokens) # 1
    <3>1. /\ source.warnings \in Nat /\ Len(Warning) = 6
          /\ \A i \in 1..Len(source.code) :
               source.code[i] \in Instructions /\ Printable(source.code[i])
      BY <1>1, SourceType, WarningIsComparison
    <3>2. \/ File[line] = Warning
          \/ line - Report \in 1..Len(source.code) /\ File[line] = Line(IsReadAt(line))
      <4>1. line \in Int BY <1>7 DEF Lines
      <4> QED BY <1>1, <1>3, <1>7, <3>1, <4>1, FileLines DEF Lines
    <3>3. CASE File[line] = Warning BY <3>1, <3>3 DEF Tokens
    <3>4. CASE line - Report \in 1..Len(source.code) /\ File[line] = Line(IsReadAt(line))
      <4>1. IsReadAt(line) \in Instructions /\ Printable(IsReadAt(line))
        BY <3>1, <3>4 DEF IsReadAt
      <4>2. Len(Line(IsReadAt(line))) \in 2..6 BY <4>1, LineType
      <4> QED BY <3>4, <4>2 DEF Tokens
    <3> QED BY <3>2, <3>3, <3>4
  <2> QED BY <1>5, <1>7, <2>1
<1>8. CASE EndOfFile BY <1>2, <1>4, <1>8 DEF EndOfFile
<1>9. CASE UNCHANGED vars BY <1>2, <1>4, <1>9 DEF vars
<1> QED BY <1>6, <1>7, <1>8, <1>9, StepForms

(* For every program without a report whose variables have no names the    *)
(* reader takes for something else, every line is read as the instruction  *)
(* it was printed for, and every warning in front as a comparison.         *)
THEOREM LinesReadBack == Spec => []ReadsBack
<1>1. Init => ReadsBack BY DEF Init, ReadsBack
<1> QED BY <1>1, TypeInit, TypeStep, ReadsBackStep, PTL DEF Spec

-----------------------------------------------------------------------------
(* What the emitter is given, and what it gives up at.                     *)

(* What an operand is in the back end: a variable, unless it is a size.    *)
LEMMA OperandForms ==
  ASSUME NEW n
  PROVE  /\ n \in Names => E!IsVariable(Variable(n)) /\ ~ E!IsConstant(Variable(n))
         /\ n = ElementSize => E!IsConstant(Variable(n))
<1>1. n \in Names => n # ElementSize BY SizeIsNoName
<1> QED
  BY <1>1 DEF Variable, E!IsVariable, E!IsConstant, T!Variable, T!Number, T!Opd

(* An element of an array is used in an instruction.                       *)
UsesElement(ins) == ins.kind = "ARRAY_OFFSET" \/ ElementSize \in Read(ins)

Variables(requests) == \A i \in 1..Len(requests) : E!IsVariable(requests[i].opd)

(* What a node has to read and write for its handler to ask for variables  *)
(* of V only.                                                              *)
Proper(V, tac) ==
  /\ tac.kind # "ADDR"
  /\ tac.kind \in {"ASSIGN", "FETCH", "CALL", "READ", "ADD", "SUB", "MUL", "DIV"} =>
       tac.left \in V
  /\ tac.kind \in {"ASSIGN", "RETURN"} \cup E!Branches => tac.r1 \in V \/ E!IsConstant(tac.r1)
  /\ tac.kind \in E!Branches => tac.r2 \in V \/ E!IsConstant(tac.r2)
  /\ tac.kind \in {"MUL", "DIV", "DEREF"} =>
       /\ tac.r1 \in V /\ tac.r2 \in V
       /\ ~ E!IsConstant(tac.r1) /\ ~ E!IsConstant(tac.r2)
  /\ tac.kind \in {"ADD", "SUB"} =>
       /\ tac.r1 \in V \/ E!IsConstant(tac.r1)
       /\ tac.r2 \in V \/ E!IsConstant(tac.r2)
       /\ E!IsConstant(tac.r1) => ~ E!IsConstant(tac.r2)
  /\ tac.kind \in {"FETCH", "WRITE"} => tac.r1 \in V

LEMMA ProperAsks ==
  ASSUME NEW V, \A v \in V : E!IsVariable(v), NEW tac, Proper(V, tac)
  PROVE  Variables(E!Requests(tac))
<1> DEFINE S == [mode: {"r", "w"}, opd: V] R == E!Requests(tac)
<1>1. E!IsConstant(E!Number(0)) BY DEF E!IsConstant, E!Number, E!Opd
<1>2. /\ tac.kind = "ASSIGN" => R = <<E!WriteOf(tac.left)>> \o E!Sources(tac.r1, E!Number(0))
      /\ tac.kind \in {"ADD", "SUB"} =>
           R = <<E!WriteOf(tac.left)>> \o E!AddSources(tac.r1, tac.r2)
      /\ tac.kind \in {"MUL", "DIV"} =>
           R = <<E!WriteOf(tac.left)>> \o E!MulSources(tac.r1, tac.r2)
      /\ tac.kind = "FETCH" => R = <<E!WriteOf(tac.left), E!ReadOf(tac.r1)>>
      /\ tac.kind = "DEREF" => R = <<E!ReadOf(tac.r1), E!ReadOf(tac.r2)>>
      /\ tac.kind \in E!Branches => R = E!Sources(tac.r1, tac.r2)
      /\ tac.kind = "RETURN" => R = E!Sources(tac.r1, E!Number(0))
      /\ tac.kind \in {"CALL", "READ"} => R = <<E!WriteOf(tac.left)>>
      /\ tac.kind = "WRITE" => R = <<E!WriteOf(tac.r1)>>
      /\ tac.kind \notin {"ASSIGN", "ADD", "SUB", "MUL", "DIV", "ADDR", "FETCH", "DEREF",
                         "RETURN", "CALL", "READ", "WRITE"} \cup E!Branches => R = <<>>
  BY DEF E!Requests, E!Branches
<1> HIDE DEF R
<1>4. \A v \in V : E!ReadOf(v) \in S /\ E!WriteOf(v) \in S
  BY DEF E!ReadOf, E!WriteOf
<1> HIDE DEF S
<1>3. /\ <<>> \in Seq(S)
      /\ \A x \in S : <<x>> \in Seq(S)
      /\ \A x, y \in S : <<x, y>> \in Seq(S)
      /\ \A s, t \in Seq(S) : s \o t \in Seq(S)
  OBVIOUS
<1>5. ASSUME tac.kind = "ASSIGN" \/ tac.kind = "RETURN"
      PROVE  E!Sources(tac.r1, E!Number(0)) \in Seq(S)
  BY <1>1, <1>3, <1>4, <1>5 DEF E!Sources, Proper
<1>6. ASSUME tac.kind \in E!Branches PROVE E!Sources(tac.r1, tac.r2) \in Seq(S)
  BY <1>3, <1>4, <1>6 DEF E!Sources, Proper
<1>7. ASSUME tac.kind \in {"ADD", "SUB"} PROVE E!AddSources(tac.r1, tac.r2) \in Seq(S)
  BY <1>3, <1>4, <1>7 DEF E!AddSources, Proper
<1>8. ASSUME tac.kind \in {"MUL", "DIV"} PROVE E!MulSources(tac.r1, tac.r2) \in Seq(S)
  BY <1>3, <1>4, <1>8 DEF E!MulSources, Proper
<1>9. R \in Seq(S)
  <2>1. CASE tac.kind = "ASSIGN"
    BY <1>2, <1>3, <1>4, <1>5, <2>1 DEF Proper
  <2>2. CASE tac.kind \in {"ADD", "SUB"}
    BY <1>2, <1>3, <1>4, <1>7, <2>2 DEF Proper
  <2>3. CASE tac.kind \in {"MUL", "DIV"}
    BY <1>2, <1>3, <1>4, <1>8, <2>3 DEF Proper
  <2>4. CASE tac.kind \in {"FETCH", "DEREF"}
    BY <1>2, <1>3, <1>4, <2>4 DEF Proper
  <2>5. CASE tac.kind \in E!Branches BY <1>2, <1>6, <2>5
  <2>6. CASE tac.kind \in {"RETURN", "CALL", "READ", "WRITE"}
    BY <1>2, <1>3, <1>4, <1>5, <2>6 DEF Proper
  <2>7. CASE tac.kind \notin {"ASSIGN", "ADD", "SUB", "MUL", "DIV", "FETCH", "DEREF",
                              "RETURN", "CALL", "READ", "WRITE"} \cup E!Branches
    BY <1>2, <1>3, <2>7 DEF Proper
  <2> QED BY <2>1, <2>2, <2>3, <2>4, <2>5, <2>6, <2>7
<1>10. ASSUME NEW i \in 1..Len(R) PROVE E!IsVariable(R[i].opd)
  <2>1. R[i] \in S BY <1>9
  <2>2. R[i].opd \in V BY <2>1 DEF S
  <2> QED BY <2>2
<1> QED BY <1>10 DEF Variables, R

LEMMA TacFields ==
  ASSUME NEW kind, NEW left, NEW r1, NEW r2, NEW target
  PROVE  /\ T!Tac(kind, left, r1, r2, target).kind = kind
         /\ T!Tac(kind, left, r1, r2, target).left = left
         /\ T!Tac(kind, left, r1, r2, target).r1 = r1
         /\ T!Tac(kind, left, r1, r2, target).r2 = r2
BY DEF T!Tac

(* A handler asks for variables only, unless an element is used.           *)
LEMMA RequestsAreVariables ==
  ASSUME NEW ins \in Instructions, Printable(ins), ~ UsesElement(ins)
  PROVE  Variables(E!Requests(Meant(ins)))
<1> DEFINE x == Variable(ins.op1) y == Variable(ins.op2) left == Variable(ins.result)
           V == {Variable(n) : n \in Names} tac == Meant(ins)
<1>0. ins.kind \in Kinds /\ WellFormed(ins) BY DEF Instructions
<1>a. \A v \in V : E!IsVariable(v) /\ ~ E!IsConstant(v)
  BY OperandForms
<1>b. \A v : E!IsConstant(T!Number(v))
  BY DEF E!IsConstant, T!Number, T!Opd
<1>c. \A n \in Read(ins) : n \in Names
  BY ReadOperands DEF UsesElement, Values
<1>d. \A n \in Names : Variable(n) \in V OBVIOUS
<1> HIDE DEF V
<1> SUFFICES Proper(V, tac)
  BY <1>a, ProperAsks
<1>1. CASE ins.kind = "ASSIGN"
  <2>1. x \in V /\ y \in V BY <1>0, <1>1, <1>d DEF WellFormed
  <2>2. tac = T!Tac("ASSIGN", x, y, T!NoOpd, NoName) BY <1>1 DEF Meant
  <2>3. tac.kind = "ASSIGN" /\ tac.left = x /\ tac.r1 = y BY <2>2, TacFields
  <2> QED BY <2>1, <2>3 DEF Proper, E!Branches
<1>2. CASE ins.kind = "CONSTANT"
  <2>1. x \in V BY <1>0, <1>2, <1>d DEF WellFormed
  <2>2. tac = T!Tac("ASSIGN", x, T!Number(ins.value), T!NoOpd, NoName) BY <1>2 DEF Meant
  <2>3. tac.kind = "ASSIGN" /\ tac.left = x /\ E!IsConstant(tac.r1)
    BY <1>b, <2>2, TacFields
  <2> QED BY <2>1, <2>3 DEF Proper, E!Branches
<1>3. CASE ins.kind = "BINARY"
  <2>1. left \in V /\ x \in V /\ y \in V
    BY <1>0, <1>3, <1>c, <1>d DEF WellFormed, Read
  <2>2. tac = T!Tac(Operation(ins.relation), left, x, y, NoName) BY <1>3 DEF Meant
  <2>3. /\ tac.kind = Operation(ins.relation) /\ tac.left = left /\ tac.r1 = x
        /\ tac.r2 = y
    BY <2>2, TacFields
  <2>4. Operation(ins.relation) \in {"ADD", "SUB", "MUL", "DIV"}
    BY <1>3, ReadOperands DEF Operation
  <2>5. ~ E!IsConstant(tac.r1) /\ ~ E!IsConstant(tac.r2) BY <1>a, <2>1, <2>3
  <2> QED BY <2>1, <2>3, <2>4, <2>5 DEF Proper, E!Branches
<1>4. CASE ins.kind = "MINUS"
  <2>1. left \in V /\ x \in V BY <1>0, <1>4, <1>d DEF WellFormed
  <2>2. tac = T!Tac("SUB", left, T!Number(0), x, NoName) BY <1>4 DEF Meant
  <2>3. tac.kind = "SUB" /\ tac.left = left /\ E!IsConstant(tac.r1) /\ tac.r2 = x
    BY <1>b, <2>2, TacFields
  <2>4. ~ E!IsConstant(tac.r2) BY <1>a, <2>1, <2>3
  <2> QED BY <2>1, <2>3, <2>4 DEF Proper, E!Branches
<1>5. CASE ins.kind \in {"LABEL", "FUNCTION", "GOTO", "DEC", "ARG", "PARAM"}
  <2>1. tac \in {T!Tac(ins.kind, T!NoOpd, T!NoOpd, T!NoOpd, ins.op1),
                 T!Tac(ins.kind, T!NoOpd, x, T!NoOpd, NoName),
                 T!Tac(ins.kind, T!NoOpd, T!Pointer(ins.op1), T!NoOpd, NoName)}
    BY <1>5 DEF Meant
  <2>2. tac.kind = ins.kind BY <2>1, TacFields
  <2> QED BY <1>5, <2>2 DEF Proper, E!Branches
<1>6. CASE ins.kind \in {"RETURN", "WRITE"}
  <2>1. x \in V BY <1>0, <1>6, <1>d DEF WellFormed
  <2>2. tac = T!Tac(ins.kind, T!NoOpd, x, T!NoOpd, NoName) BY <1>6 DEF Meant
  <2>3. tac.kind = ins.kind /\ tac.r1 = x BY <2>2, TacFields
  <2> QED BY <1>6, <2>1, <2>3 DEF Proper, E!Branches
<1>7. CASE ins.kind = "READ"
  <2>1. x \in V BY <1>7, <1>d DEF Printable
  <2>2. tac = T!Tac("READ", x, T!NoOpd, T!NoOpd, NoName) BY <1>7 DEF Meant
  <2>3. tac.kind = "READ" /\ tac.left = x BY <2>2, TacFields
  <2> QED BY <2>1, <2>3 DEF Proper, E!Branches
<1>8. CASE ins.kind = "CALL"
  <2>1. left \in V BY <1>8, <1>d DEF Printable
  <2>2. tac = T!Tac("CALL", left, T!NoOpd, T!NoOpd, ins.op1) BY <1>8 DEF Meant
  <2>3. tac.kind = "CALL" /\ tac.left = left BY <2>2, TacFields
  <2> QED BY <2>1, <2>3 DEF Proper, E!Branches
<1>9. CASE ins.kind = "IF_GOTO"
  <2>1. x \in V /\ y \in V /\ ins.relation \in {"<", "<=", ">", ">=", "==", "!="}
    BY <1>0, <1>9, <1>d DEF Printable, WellFormed
  <2>2. tac = T!Tac(Comparison(ins.relation), T!NoOpd, x, y, ins.result)
    BY <1>9, <2>1 DEF Meant, Comparison
  <2>3. tac.kind = Comparison(ins.relation) /\ tac.r1 = x /\ tac.r2 = y
    BY <2>2, TacFields
  <2>4. tac.kind \in E!Branches BY <2>3 DEF Comparison, E!Branches
  <2> QED BY <2>1, <2>3, <2>4 DEF Proper, E!Branches
<1>10. CASE ins.kind = "GET_VALUE_IN_ADDRESS"
  <2>1. left \in V /\ x \in V BY <1>10, <1>c, <1>d DEF Printable, Read
  <2>2. tac = T!Tac("FETCH", left, x, T!NoOpd, NoName) BY <1>10 DEF Meant
  <2>3. tac.kind = "FETCH" /\ tac.left = left /\ tac.r1 = x BY <2>2, TacFields
  <2> QED BY <2>1, <2>3 DEF Proper, E!Branches
<1>11. CASE ins.kind = "ASSIGN_VALUE_IN_ADDRESS"
  <2>1. left \in V /\ x \in V BY <1>11, <1>c, <1>d DEF Read
  <2>2. tac = T!Tac("DEREF", T!NoOpd, left, x, NoName) BY <1>11 DEF Meant
  <2>3. tac.kind = "DEREF" /\ tac.r1 = left /\ tac.r2 = x BY <2>2, TacFields
  <2>4. ~ E!IsConstant(tac.r1) /\ ~ E!IsConstant(tac.r2) BY <1>a, <2>1, <2>3
  <2> QED BY <2>1, <2>3, <2>4 DEF Proper, E!Branches
<1>12. ins.kind # "ARRAY_OFFSET" BY DEF UsesElement
<1> QED
  BY <1>0, <1>1, <1>2, <1>3, <1>4, <1>5, <1>6, <1>7, <1>8, <1>9, <1>10, <1>11, <1>12
  DEF Kinds

-----------------------------------------------------------------------------
(* The back end.                                                           *)

Reading == phase \in {"read", "crashed"}

(* What holds of the reader's variables while and after it reads.          *)
BackEndInv ==
  /\ phase \in {"read", "crashed", "emit", "aborted", "done", "run"}
  /\ source \in Outputs
  /\ line \in 1..Len(File) + 1
  /\ ir \in Seq(T!Code)
  /\ Len(ir) = line - 1
  /\ ~ Reading => line = Len(File) + 1 /\ tac_code \in Nat \ {0}
  /\ source.report # <<>> => Reading /\ line <= source.warnings + 1
  /\ Reading => tac_code = 1
  /\ ReadsBack
  /\ OnlyArraysAbort

LEMMA ReadingIsTyped ==
  ASSUME BackEndInv, phase = "read"
  PROVE  TypeOK
BY DEF BackEndInv, TypeOK

LEMMA BackEndInit == BInit => BackEndInv
<1> SUFFICES ASSUME BInit PROVE BackEndInv
  OBVIOUS
<1>1. Init /\ tac_code = 1 BY DEF BInit
<1>2. TypeOK BY <1>1, TypeInit
<1>3. phase = "read" /\ line = 1 BY <1>1 DEF Init
<1>4. ReadsBack BY <1>2, <1>3 DEF ReadsBack, TypeOK
<1>5. OnlyArraysAbort BY <1>3 DEF OnlyArraysAbort
<1>6. line <= source.warnings + 1
  <2>1. source.warnings \in Nat BY <1>2, SourceType DEF TypeOK
  <2> QED BY <1>3, <2>1
<1> QED BY <1>1, <1>2, <1>3, <1>4, <1>5, <1>6 DEF BackEndInv, TypeOK, Reading

(* A step of the reader.                                                   *)
LEMMA ReadStep == BackEndInv /\ Read1 => BackEndInv'
<1> SUFFICES ASSUME BackEndInv, Read1 PROVE BackEndInv'
  OBVIOUS
<1>1. ReadNext /\ UNCHANGED emitter BY DEF Read1
<1>2. phase = "read" /\ source' = source
  BY <1>1 DEF ReadNext, ReadOne, ReadTwo, ReadThree, ReadCall, ReadBinary, ReadIf, Reads,
         EndOfFile
<1>3. TypeOK BY <1>2, ReadingIsTyped
<1>4. TypeOK' BY <1>1, <1>3, TypeStep
<1>5. ReadsBack' BY <1>1, <1>3, ReadsBackStep DEF BackEndInv
<1>6. tac_code = 1 /\ tac_code' = 1 BY <1>1, <1>2 DEF BackEndInv, Reading, emitter
<1>7. phase' # "aborted" BY <1>4 DEF TypeOK
<1>8. OnlyArraysAbort' BY <1>7 DEF OnlyArraysAbort
<1>9. File' = File BY <1>2 DEF File
<1>10. \/ /\ Lines /\ Len(Tokens) \in 2..6 /\ Append1(OfLine(Tokens))
       \/ Lines /\ Crash
       \/ EndOfFile
  BY <1>1, <1>3, StepForms
<1>11. Len(File) \in Nat /\ Report \in Nat BY <1>3, FileLines, SourceType DEF TypeOK, Report
<1>12. ~ Reading' => line' = Len(File') + 1
  <2>1. CASE EndOfFile BY <1>9, <2>1 DEF EndOfFile
  <2>2. CASE Lines /\ Append1(OfLine(Tokens)) BY <2>2 DEF Lines, Append1, Reading
  <2>3. CASE Lines /\ Crash BY <2>3 DEF Crash, Reading
  <2> QED BY <1>10, <2>1, <2>2, <2>3
<1>13. ASSUME source'.report # <<>> PROVE Reading' /\ line' <= source'.warnings + 1
  <2>1. source.report # <<>> /\ line <= source.warnings + 1 BY <1>2, <1>13 DEF BackEndInv
  <2>2. source.warnings \in Nat /\ line \in Nat \ {0}
    BY <1>3, SourceType DEF TypeOK
  <2>3. Report >= source.warnings + 1
    <3>1. source.report \in Seq(ReportTexts) BY <1>3, TextAssumption DEF TypeOK
    <3>2. Len(source.report) # 0 /\ Len(source.report) \in Nat BY <2>1, <3>1
    <3> QED BY <2>2, <3>2 DEF Report
  <2>4. line \in 1..Len(File)
    <3>1. Len(File) = Report + Len(source.code) /\ Len(source.code) \in Nat
      BY <1>3, FileLines, SourceType DEF TypeOK
    <3> QED BY <1>11, <2>1, <2>2, <2>3, <3>1
  <2>5. ~ EndOfFile BY <1>11, <2>4 DEF EndOfFile
  <2>6. CASE Crash BY <1>2, <2>1, <2>6 DEF Crash, Reading
  <2>7. CASE line <= source.warnings /\ Append1(OfLine(Tokens))
    BY <1>2, <2>2, <2>7 DEF Append1, Reading
  <2>8. CASE ~ (line <= source.warnings)
    <3>1. Len(Tokens) = 1
      <4>1. line > source.warnings /\ line <= Report BY <1>11, <2>1, <2>2, <2>3, <2>8
      <4> QED BY <1>3, <1>11, <2>2, <2>4, <4>1, FileLines DEF TypeOK, Tokens
    <3>2. Crash BY <1>10, <2>5, <3>1
    <3> QED BY <2>6, <3>2
  <2> QED BY <1>10, <2>5, <2>6, <2>7, <2>8
<1> QED
  BY <1>2, <1>4, <1>5, <1>6, <1>8, <1>12, <1>13 DEF BackEndInv, TypeOK, Reading

(* When the file has been read, the list is the warnings and the program.  *)
LEMMA ListIsRead ==
  ASSUME BackEndInv, ~ Reading, NamesAreSafe
  PROVE  /\ Len(ir) = source.warnings + Len(Source)
         /\ source.warnings \in Nat /\ Len(Source) \in Nat
         /\ \A i \in 1..source.warnings : ir[i] = FromWarning
         /\ \A i \in 1..Len(Source) :
              /\ ir[source.warnings + i] = Meant(Source[i])
              /\ Source[i] \in Instructions /\ Printable(Source[i])
<1>1. source.report = <<>> /\ source \in Outputs /\ line = Len(File) + 1
  BY DEF BackEndInv
<1>2. source.warnings \in Nat /\ Len(source.report) = 0 BY <1>1, SourceType
<1>3. Report = source.warnings BY <1>2 DEF Report
<1>4. Len(File) = source.warnings + Len(Source) /\ Len(Source) \in Nat
  BY <1>1, <1>3, FileLines, SourceType DEF Source
<1>5. \A i \in 1..line - 1 : ir[i] = ReadAs(i)
  BY <1>1 DEF BackEndInv, ReadsBack, ReadAs
<1>6. Len(ir) = source.warnings + Len(Source) BY <1>1, <1>2, <1>4 DEF BackEndInv
<1>7. \A i \in 1..source.warnings : ir[i] = FromWarning
  BY <1>1, <1>2, <1>4, <1>5 DEF ReadAs
<1>8. ASSUME NEW i \in 1..Len(Source) PROVE ir[source.warnings + i] = Meant(Source[i])
  <2> DEFINE j == source.warnings + i
  <2>1. j \in 1..line - 1 /\ ~ (j <= source.warnings) /\ j - source.warnings = i
    BY <1>1, <1>2, <1>4, <1>8
  <2> HIDE DEF j
  <2>2. ir[j] = ReadAs(j) BY <1>5, <2>1
  <2> QED BY <2>1, <2>2 DEF ReadAs, Source, j
<1> QED BY <1>1, <1>2, <1>4, <1>6, <1>7, <1>8, SourceType DEF Source

(* Without a warning it is the program.                                    *)
LEMMA ListIsProgram ==
  ASSUME BackEndInv, ~ Reading, NamesAreSafe, source.warnings = 0
  PROVE  /\ Len(ir) = Len(Source) /\ Len(Source) \in Nat
         /\ \A i \in 1..Len(Source) :
              /\ ir[i] = Meant(Source[i]) /\ Source[i] \in Instructions
              /\ Printable(Source[i])
<1>1. \A i \in 1..Len(Source) : source.warnings + i = i OBVIOUS
<1> QED BY <1>1, ListIsRead

(* A step of the emitter that ends in an assertion or at a null pointer.   *)
LEMMA AbortForms ==
  ASSUME E!Next, phase' = "aborted"
  PROVE  /\ phase = "emit" /\ tac_code <= Len(ir)
         /\ \/ ~ E!Asserted
            \/ E!Now.kind = "PARAM" /\ tac_code = Len(ir)
<1>1. CASE E!Abort BY <1>1 DEF E!Abort
<1>2. CASE E!EmitParam BY <1>2 DEF E!EmitParam, E!Handles
<1>3. CASE E!Finish BY <1>3 DEF E!Finish
<1>4. \A kinds, ops : ~ (E!Handles(kinds) /\ E!Emit(ops))
  BY DEF E!Handles, E!Emit
<1> QED
  BY <1>1, <1>2, <1>3, <1>4
  DEF E!Next, E!EmitLabel, E!EmitGoto, E!EmitNothing, E!EmitAssign, E!EmitAdd, E!EmitSub,
      E!EmitMul, E!EmitDiv, E!EmitFetch, E!EmitDeref, E!EmitBranch, E!EmitReturn,
      E!EmitCall, E!EmitRead, E!EmitWrite

(* What a step of the emitter leaves alone, and where it goes.             *)
LEMMA EmitForms ==
  ASSUME E!Next, tac_code \in Nat \ {0}
  PROVE  /\ phase = "emit" /\ phase' \in {"emit", "aborted", "done"} /\ ir' = ir
         /\ tac_code' \in Nat \ {0}
<1>1. CASE E!Abort BY <1>1 DEF E!Abort
<1>2. CASE E!EmitParam BY <1>2 DEF E!EmitParam, E!Handles
<1>3. CASE E!Finish BY <1>3 DEF E!Finish
<1>4. \A kinds, ops : E!Handles(kinds) /\ E!Emit(ops) =>
         phase = "emit" /\ phase' = phase /\ ir' = ir /\ tac_code' = tac_code + 1
  BY DEF E!Handles, E!Emit
<1>5. CASE ~ (E!Abort \/ E!EmitParam \/ E!Finish)
  <2>1. phase = "emit" /\ phase' = phase /\ ir' = ir /\ tac_code' = tac_code + 1
    BY <1>4, <1>5
    DEF E!Next, E!EmitLabel, E!EmitGoto, E!EmitNothing, E!EmitAssign, E!EmitAdd,
        E!EmitSub, E!EmitMul, E!EmitDiv, E!EmitFetch, E!EmitDeref, E!EmitBranch,
        E!EmitReturn, E!EmitCall, E!EmitRead, E!EmitWrite
  <2> QED BY <2>1
<1> QED BY <1>1, <1>2, <1>3, <1>5

LEMMA MeantParameter ==
  ASSUME NEW ins \in Instructions, Meant(ins).kind = "PARAM", Printable(ins)
  PROVE  ins.kind = "PARAM"
<1> DEFINE tac == Meant(ins)
<1>0. ins.kind \in Kinds /\ WellFormed(ins) BY DEF Instructions
<1>1. CASE ins.kind = "BINARY"
  <2>1. tac.kind = Operation(ins.relation) BY <1>1, TacFields DEF Meant
  <2>2. Operation(ins.relation) \in {"ADD", "SUB", "MUL", "DIV"}
    BY <1>1, ReadOperands DEF Operation
  <2> QED BY <2>1, <2>2
<1>2. CASE ins.kind = "IF_GOTO"
  <2>1. ins.relation \in {"<", "<=", ">", ">=", "==", "!="} BY <1>2 DEF Printable
  <2>2. tac = T!Tac(Comparison(ins.relation), T!NoOpd, Variable(ins.op1),
                    Variable(ins.op2), ins.result)
    BY <1>2, <2>1 DEF Meant, Comparison
  <2>3. tac.kind = Comparison(ins.relation) BY <2>2, TacFields
  <2>4. Comparison(ins.relation) # "PARAM" BY DEF Comparison
  <2> QED BY <2>3, <2>4
<1>3. CASE ins.kind \in {"ASSIGN", "CONSTANT", "MINUS", "GET_VALUE_IN_ADDRESS",
                         "ASSIGN_VALUE_IN_ADDRESS", "ARRAY_OFFSET", "READ", "CALL", "DEC"}
  <2>1. tac.kind \in {"ASSIGN", "SUB", "FETCH", "DEREF", "ADD", "READ", "CALL", "DEC"}
    BY <1>3 DEF Meant, T!Tac
  <2> QED BY <2>1
<1>4. CASE ins.kind \in {"LABEL", "FUNCTION", "GOTO", "ARG", "WRITE", "RETURN"}
  <2>1. tac.kind = ins.kind BY <1>4 DEF Meant, T!Tac
  <2> QED BY <1>4, <2>1
<1> QED BY <1>0, <1>1, <1>2, <1>3, <1>4 DEF Kinds

(* What a warning becomes has its registers.                               *)
LEMMA WarningGoesOn ==
  ASSUME E!Now = FromWarning
  PROVE  E!Asserted /\ E!Now.kind # "PARAM"
<1> DEFINE tac == FromWarning V == {T!Variable("this"), T!Variable("is")}
<1>1. /\ tac.kind = "IFEQ" /\ tac.r1 = T!Variable("this") /\ tac.r2 = T!Variable("is")
  BY TacFields DEF FromWarning
<1>2. \A v \in V : E!IsVariable(v) BY DEF E!IsVariable, T!Variable, T!Opd
<1>3. tac.r1 \in V /\ tac.r2 \in V BY <1>1
<1> HIDE DEF tac, V
<1>4. Proper(V, tac) BY <1>1, <1>3 DEF Proper
<1>5. Variables(E!Requests(tac)) BY <1>2, <1>4, ProperAsks
<1> QED BY <1>1, <1>5 DEF E!Asserted, Variables, tac

(* Whatever the emitter stops at, an element is used or the list is at its *)
(* end.                                                                    *)
LEMMA EmitStep == BackEndInv /\ Emit1 => BackEndInv'
<1> SUFFICES ASSUME BackEndInv, Emit1 PROVE BackEndInv'
  OBVIOUS
<1>1. E!Next /\ source' = source /\ line' = line BY DEF Emit1
<1>2. tac_code \in Nat \ {0} BY DEF BackEndInv
<1>3. /\ phase = "emit" /\ phase' \in {"emit", "aborted", "done"} /\ ir' = ir
      /\ tac_code' \in Nat \ {0}
  BY <1>1, <1>2, EmitForms
<1>4. File' = File /\ (NamesAreSafe' <=> NamesAreSafe) BY <1>1 DEF File, NamesAreSafe
<1>5. ReadsBack' BY <1>1, <1>3, <1>4 DEF BackEndInv, ReadsBack
<1>6. OnlyArraysAbort'
  <2> SUFFICES ASSUME phase' = "aborted", NamesAreSafe
               PROVE  UsesArray \/ EndsInParameter
    BY <1>1, <1>4 DEF OnlyArraysAbort, UsesArray, EndsInParameter, Source
  <2>1. /\ tac_code <= Len(ir)
        /\ \/ ~ E!Asserted
           \/ E!Now.kind = "PARAM" /\ tac_code = Len(ir)
    BY <1>1, AbortForms
  <2>2. ~ Reading BY <1>3 DEF Reading
  <2> DEFINE w == source.warnings
  <2>3. /\ Len(ir) = w + Len(Source) /\ w \in Nat /\ Len(Source) \in Nat
        /\ \A i \in 1..w : ir[i] = FromWarning
        /\ \A i \in 1..Len(Source) :
             /\ ir[w + i] = Meant(Source[i]) /\ Source[i] \in Instructions
             /\ Printable(Source[i])
    BY <2>2, ListIsRead
  <2> HIDE DEF w
  <2>a. tac_code > w
    <3>1. SUFFICES ASSUME tac_code \in 1..w PROVE FALSE BY <1>2, <2>3
    <3>2. E!Now = FromWarning BY <2>3, <3>1 DEF E!Now
    <3> QED BY <2>1, <3>2, WarningGoesOn
  <2> DEFINE j == tac_code - w ins == Source[j]
  <2>4. j \in 1..Len(Source) /\ w + j = tac_code BY <1>2, <2>1, <2>3, <2>a
  <2>5. E!Now = Meant(ins) /\ ins \in Instructions /\ Printable(ins)
    BY <2>3, <2>4 DEF E!Now
  <2>b. tac_code = Len(ir) => j = Len(Source) BY <2>3, <2>4
  <2> HIDE DEF j
  <2> HIDE DEF ins
  <2>6. CASE ~ E!Asserted
    <3>1. ~ Variables(E!Requests(Meant(ins)))
      BY <2>5, <2>6 DEF E!Asserted, Variables
    <3>2. UsesElement(ins) BY <2>5, <3>1, RequestsAreVariables
    <3> QED BY <2>4, <3>2 DEF UsesElement, UsesArray, ins
  <2>7. CASE E!Now.kind = "PARAM" /\ tac_code = Len(ir)
    <3>1. ins.kind = "PARAM" BY <2>5, <2>7, MeantParameter
    <3>2. Source # <<>> BY <2>4
    <3> QED BY <2>7, <2>b, <3>1, <3>2 DEF EndsInParameter, ins
  <2> QED BY <2>1, <2>6, <2>7
<1> QED
  BY <1>1, <1>3, <1>4, <1>5, <1>6 DEF BackEndInv, Reading

(* The run of the code changes nothing the reader has left.                *)
LEMMA RunStep ==
  BackEndInv /\ (Start \/ Execute \/ UNCHANGED all) => BackEndInv'
<1> SUFFICES ASSUME BackEndInv, Start \/ Execute \/ UNCHANGED all PROVE BackEndInv'
  OBVIOUS
<1>1. /\ source' = source /\ line' = line /\ ir' = ir /\ tac_code' = tac_code
      /\ phase' = phase \/ (phase = "done" /\ phase' = "run")
  <2>1. CASE Start BY <2>1 DEF Start, emitter
  <2>2. CASE Execute BY <2>2 DEF Execute, vars, emitter
  <2>3. CASE UNCHANGED all BY <2>3 DEF all, vars, emitter
  <2> QED BY <2>1, <2>2, <2>3
<1>2. File' = File /\ (NamesAreSafe' <=> NamesAreSafe) BY <1>1 DEF File, NamesAreSafe
<1>3. ReadsBack' BY <1>1, <1>2 DEF BackEndInv, ReadsBack
<1>4. OnlyArraysAbort'
  BY <1>1, <1>2 DEF BackEndInv, OnlyArraysAbort, UsesArray, EndsInParameter, Source
<1> QED BY <1>1, <1>2, <1>3, <1>4 DEF BackEndInv, Reading

LEMMA BackEndStep == BackEndInv /\ [Next]_all => BackEndInv'
BY ReadStep, EmitStep, RunStep DEF Next

(* Also while the code is emitted and run: what was read is the program.   *)
THEOREM ProgramReadsBack == BSpec => []ReadsBack
<1>1. BackEndInv => ReadsBack BY DEF BackEndInv
<1> QED BY <1>1, BackEndInit, BackEndStep, PTL DEF BSpec

(* For every program the compiler can print, whatever its length and its   *)
(* names that the reader takes for names: no assertion of the emitter      *)
(* fails and no null pointer is followed, unless an element of an array is *)
(* used or the program ends in a parameter.                                *)
THEOREM AbortsAreKnown == BSpec => []OnlyArraysAbort
<1>1. BackEndInv => OnlyArraysAbort BY DEF BackEndInv
<1> QED BY <1>1, BackEndInit, BackEndStep, PTL DEF BSpec

=============================================================================
