--------------------------- MODULE OptimizerProofs ---------------------------
(***************************************************************************)
(* Theorems about Optimizer, for every program, every set of names and     *)
(* every width of an int.                                                  *)
(***************************************************************************)
EXTENDS Optimizer, TLAPS

(* Wrapping brings any integer into the range of an int.                   *)
LEMMA WrapInRange == ASSUME NEW x \in Int PROVE Wrap(x) \in IntW
<1>1. (x + IntHalf) % (2 * IntHalf) \in 0..(2 * IntHalf - 1)
  BY IntAssumption
<1>. QED
  BY <1>1, IntAssumption DEF Wrap, IntW

LEMMA QuotientInt ==
  ASSUME NEW x \in Int, NEW y \in Int \ {0} PROVE Quotient(x, y) \in Int
<1>. DEFINE mx == IF x < 0 THEN -x ELSE x
            my == IF y < 0 THEN -y ELSE y
<1>1. mx \in Nat /\ my \in Nat \ {0}
  OBVIOUS
<1>. HIDE DEF mx, my
<1>2. mx \div my \in Int
  BY <1>1
<1>3. Quotient(x, y) = IF (x < 0) = (y < 0) THEN mx \div my ELSE -(mx \div my)
  BY DEF Quotient, mx, my
<1>. QED
  BY <1>2, <1>3

(* A folded operation has an int for its value.                            *)
LEMMA FoldInRange ==
  ASSUME NEW relation, NEW x \in IntW, NEW y \in IntW,
         ~ (relation = "/" /\ y = 0)
  PROVE  Fold(relation, x, y) \in IntW
<1>. DEFINE v == CASE relation = "+" -> x + y
                   [] relation = "-" -> x - y
                   [] relation = "*" -> x * y
                   [] relation = "/" -> Quotient(x, y)
                   [] OTHER -> 0
<1>1. x \in Int /\ y \in Int
  BY IntAssumption DEF IntW
<1>2. x + y \in Int /\ x - y \in Int /\ x * y \in Int
  BY <1>1
<1>3. relation = "/" => Quotient(x, y) \in Int
  BY <1>1, QuotientInt
<1>4. v \in Int
  BY <1>2, <1>3
<1>. HIDE DEF v
<1>5. Wrap(v) \in IntW
  BY <1>4, WrapInRange
<1>. QED
  BY <1>5 DEF Fold, v

(* The CONSTANT that replaces a copy or an operation is an instruction the *)
(* translator could have emitted.                                          *)
LEMMA ConstantInstruction ==
  ASSUME NEW n \in Names \ AddrTemps, NEW v \in IntW
  PROVE  Constant(n, v) \in Instructions
<1>1. v \in Int
  BY IntAssumption DEF IntW
<1>. QED
  BY <1>1, NamesAssumption
  DEF Constant, Ins, Instructions, WellFormed, Operands, Names, Kinds, Relations

LEMMA InstructionFields ==
  ASSUME NEW ins \in Instructions
  PROVE  /\ ins.kind \in Kinds /\ ins.value \in Int
         /\ ins.result \in Operands /\ ins.op1 \in Operands
         /\ ins.op2 \in Operands
         /\ WellFormed(ins)
BY DEF Instructions

(* A BINARY has a name or the size of an array's element for an operand.   *)
LEMMA BinaryOperands ==
  ASSUME NEW ins \in Instructions, ins.kind = "BINARY"
  PROVE  ins.op1 # NoName /\ ins.op2 # NoName
BY InstructionFields, NamesAssumption DEF WellFormed

(* The instruction a pass is at is one of its block.                       *)
LEMMA CurrentInstruction ==
  ASSUME TypeOK, bi <= Len(blocks), pos # 0, pos <= Len(blocks[bi])
  PROVE  /\ blocks[bi] \in Seq(Instructions)
         /\ Current \in Instructions
BY DEF TypeOK, Current

-----------------------------------------------------------------------------
(* Type correctness.                                                       *)

LEMMA InitTypeOK == Init => TypeOK
BY ProgramsAssumption
   DEF Init, TypeOK, Phases, NoConstants

LEMMA RecordTypeOK ==
  ASSUME TypeOK, NEW n \in Names \ AddrTemps, NEW v \in IntW, Record(n, v)
  PROVE  /\ const_map' \in [Names -> IntW \cup {Unknown}]
         /\ block' \in Seq(Instructions)
<1>1. Constant(n, v) \in Instructions
  BY ConstantInstruction
<1>. QED
  BY <1>1 DEF Record, TypeOK

LEMMA NextTypeOK == TypeOK /\ [Next]_vars => TypeOK'
<1>. SUFFICES ASSUME TypeOK, [Next]_vars PROVE TypeOK'
  OBVIOUS
<1>1. CASE GenFirst
  <2>1. CASE ir = <<>>
    BY <1>1, <2>1 DEF GenFirst, TypeOK, Phases
  <2>2. CASE ir # <<>>
    <3>1. Len(ir) >= 1 /\ ir[1] \in Instructions
      BY <2>2 DEF TypeOK
    <3>2. <<ir[1]>> \in Seq(Instructions)
      BY <3>1
    <3>3. phase' = "blocks" /\ block' = <<ir[1]>> /\ pos' = 2
      BY <1>1, <2>2 DEF GenFirst
    <3>. QED
      BY <1>1, <3>2, <3>3 DEF GenFirst, TypeOK, Phases
  <2>. QED
    BY <2>1, <2>2
<1>2. CASE GenLabel \/ GenJump \/ GenOther
  <2>1. ir[pos] \in Instructions
    BY <1>2 DEF GenLabel, GenJump, GenOther, GenContinues, TypeOK
  <2>2. <<ir[pos]>> \in Seq(Instructions)
    BY <2>1
  <2>3. Append(block, ir[pos]) \in Seq(Instructions)
    BY <2>1 DEF TypeOK
  <2>4. /\ Append(blocks, block) \in Seq(Seq(Instructions))
        /\ Append(blocks, Append(block, ir[pos])) \in Seq(Seq(Instructions))
    BY <2>3 DEF TypeOK
  <2>5. block' \in Seq(Instructions) /\ blocks' \in Seq(Seq(Instructions))
    <3>1. CASE GenLabel
      BY <3>1, <2>2, <2>4 DEF GenLabel, TypeOK
    <3>2. CASE GenJump
      BY <3>2, <2>4 DEF GenJump
    <3>3. CASE GenOther
      BY <3>3, <2>3 DEF GenOther, TypeOK
    <3>. QED
      BY <1>2, <3>1, <3>2, <3>3
  <2>6. GenContinues
    BY <1>2 DEF GenLabel, GenJump, GenOther
  <2>. QED
    BY <2>5, <2>6 DEF GenContinues, TypeOK
<1>3. CASE GenEnd
  <2>1. Append(blocks, block) \in Seq(Seq(Instructions))
    BY DEF TypeOK
  <2>2. Len(Append(blocks, block)) > 0
    BY DEF TypeOK
  <2>. QED
    BY <1>3, <2>1, <2>2 DEF GenEnd, TypeOK, Phases
<1>4. CASE GiveUp
  BY <1>4 DEF GiveUp, TypeOK, Phases
<1>5. CASE StartPropagation
  BY <1>5 DEF StartPropagation, TypeOK, Phases
<1>6. CASE PropContinues /\ \E n \in Names \ AddrTemps, v \in IntW : Record(n, v)
  BY <1>6, RecordTypeOK DEF PropContinues, TypeOK
<1>7. ASSUME PropContinues
      PROVE  Current \in Instructions
  BY <1>7, CurrentInstruction DEF PropContinues, TypeOK
<1>8. CASE PropConstant
  BY <1>6, <1>7, <1>8, InstructionFields DEF PropConstant, WellFormed
<1>9. CASE PropAssignKnown
  <2>1. const_map[Current.op2] \in IntW
    BY <1>9 DEF PropAssignKnown, Known, TypeOK
  <2>. QED
    BY <1>6, <1>7, <1>9, <2>1, InstructionFields DEF PropAssignKnown, WellFormed
<1>10. CASE PropAssignUnknown
  <2>1. Current \in Instructions
    BY <1>7, <1>10 DEF PropAssignUnknown
  <2>2. const_map' \in [Names -> IntW \cup {Unknown}]
    BY <1>10 DEF PropAssignUnknown, TypeOK
  <2>3. block' \in Seq(Instructions)
    BY <1>10, <2>1 DEF PropAssignUnknown, TypeOK
  <2>. QED
    BY <1>10, <2>2, <2>3 DEF PropAssignUnknown, PropContinues, TypeOK
<1>11. CASE PropFold
  <2>1. /\ const_map[Current.op1] \in IntW /\ const_map[Current.op2] \in IntW
        /\ ~ (Current.relation = "/" /\ const_map[Current.op2] = 0)
    BY <1>11 DEF PropFold, Foldable, DividesByZero, Known, TypeOK
  <2>2. Fold(Current.relation, const_map[Current.op1], const_map[Current.op2]) \in IntW
    BY <2>1, FoldInRange
  <2>. QED
    BY <1>6, <1>7, <1>11, <2>2, InstructionFields DEF PropFold, Foldable, WellFormed
<1>12. CASE PropDivisionTraps \/ PropLiteralTooLarge
  BY <1>12 DEF PropDivisionTraps, PropLiteralTooLarge, TypeOK, Phases
<1>13. CASE PropCopy
  <2>1. Current \in Instructions
    BY <1>7, <1>13 DEF PropCopy
  <2>. QED
    BY <1>13, <2>1 DEF PropCopy, PropContinues, TypeOK
<1>14. CASE PropBlockEnd
  BY <1>14 DEF PropBlockEnd, TypeOK, NoConstants
<1>15. CASE StartElimination
  BY <1>15 DEF StartElimination, TypeOK, Phases
<1>16. CASE \/ DceUserVariable \/ DceLiveCopy \/ DceDeadCopy \/ DceLiveBinary
            \/ DceDeadBinary \/ DceRead \/ DceOther
  <2>1. DceContinues
    BY <1>16 DEF DceUserVariable, DceLiveCopy, DceDeadCopy, DceLiveBinary,
                 DceDeadBinary, DceRead, DceOther
  <2>2. Current \in Instructions
    BY <2>1, CurrentInstruction DEF DceContinues, TypeOK
  <2>3. /\ Current.result \in Operands /\ Current.op1 \in Operands
        /\ Current.op2 \in Operands
    BY <2>2, InstructionFields
  <2>4. /\ use' \subseteq Operands
        /\ eliminate_index' \subseteq Nat /\ idle' \subseteq Nat
    <3>1. VarNames(Right(Current)) \subseteq Operands
      BY <2>3 DEF VarNames, Right
    <3>2. VarNames(Uses(Current)) \subseteq Operands
      BY <2>3 DEF VarNames, Uses
    <3>. QED
      BY <1>16, <3>1, <3>2 DEF DceUserVariable, DceLiveCopy, DceDeadCopy,
         DceLiveBinary, DceDeadBinary, DceRead, DceOther, TypeOK
  <2>. QED
    BY <2>1, <2>4 DEF DceContinues, TypeOK
<1>17. CASE DceScanned
  BY <1>17 DEF DceScanned, TypeOK, Phases
<1>18. CASE Keep
  <2>1. Current \in Instructions
    BY <1>18, CurrentInstruction DEF Keep, TypeOK
  <2>. QED
    BY <1>18, <2>1 DEF Keep, TypeOK
<1>19. CASE DceBlockEnd
  <2>1. /\ blocks' \in Seq(Seq(Instructions))
        /\ Len(blocks') = Len(blocks)
        /\ \A k \in 1..Len(blocks) : k # bi => blocks'[k] = blocks[k]
    BY <1>19 DEF DceBlockEnd, TypeOK
  <2>2. CASE bi < Len(blocks)
    <3>1. /\ phase' = "dce" /\ bi' = bi + 1 /\ pos' = Len(blocks'[bi'])
          /\ pos' \in Nat /\ bi' <= Len(blocks')
      BY <1>19, <2>1, <2>2 DEF DceBlockEnd, TypeOK
    <3>. QED
      BY <1>19, <2>1, <3>1 DEF DceBlockEnd, TypeOK, Phases
  <2>3. CASE ~ (bi < Len(blocks))
    BY <1>19, <2>1, <2>3 DEF DceBlockEnd, TypeOK, Phases
  <2>. QED
    BY <2>2, <2>3
<1>20. CASE Concatenate
  BY <1>20 DEF Concatenate, TypeOK
<1>21. CASE Return
  BY <1>21 DEF Return, TypeOK, Phases
<1>22. CASE UNCHANGED vars
  BY <1>22 DEF vars, TypeOK
<1>. QED
  BY <1>1, <1>2, <1>3, <1>4, <1>5, <1>8, <1>9, <1>10, <1>11, <1>12, <1>13, <1>14,
     <1>15, <1>16, <1>17, <1>18, <1>19, <1>20, <1>21, <1>22
  DEF Next, Generate, Check, Propagate, Eliminate

(* Every reachable state of the optimizer is well typed, and the indices   *)
(* its loops use stay inside the blocks they index.                        *)
THEOREM TypeCorrect == Spec => []TypeOK
BY InitTypeOK, NextTypeOK, PTL DEF Spec

-----------------------------------------------------------------------------
(* Dead code elimination.                                                  *)

(* The inductive invariant: outside a scan nothing is marked; during one   *)
(* only what has been scanned is, and the two properties hold.             *)
DceInv ==
  /\ phase \notin {"dce", "keep"} => use = {} /\ Dropped = {}
  /\ phase = "dce" => Dropped \subseteq pos + 1..Len(blocks[bi])
  /\ UseCoversReads
  /\ EliminatedIsDead

(* Whether a name is live from i depends on what is dropped from i on.     *)
LEMMA LiveAgree ==
  ASSUME NEW b \in Seq(Instructions), NEW D, NEW E, NEW t, NEW i \in Nat,
         \A m \in i..Len(b) : m \in D <=> m \in E
  PROVE  LiveFrom(b, D, t, i) <=> LiveFrom(b, E, t, i)
BY DEF LiveFrom

(* One step of liveness: the instruction reads the name, or lets it pass.  *)
LEMMA LiveUnroll ==
  ASSUME NEW b \in Seq(Instructions), NEW D, NEW t, NEW i \in 1..Len(b),
         LiveFrom(b, D, t, i)
  PROVE  \/ i \notin D /\ t \in Read(b[i])
         \/ (i \in D \/ Defined(b[i]) # t) /\ LiveFrom(b, D, t, i + 1)
<1>1. PICK j \in i..Len(b) :
        /\ j \notin D /\ t \in Read(b[j])
        /\ \A m \in i..j - 1 : m \in D \/ Defined(b[m]) # t
  BY DEF LiveFrom
<1>2. CASE j = i
  BY <1>1, <1>2
<1>3. CASE j # i
  <2>1. j \in i + 1..Len(b) /\ i \in i..j - 1
    BY <1>1, <1>3
  <2>2. \A m \in i + 1..j - 1 : m \in D \/ Defined(b[m]) # t
    BY <1>1
  <2>3. LiveFrom(b, D, t, i + 1)
    BY <1>1, <2>1, <2>2 DEF LiveFrom
  <2>. QED
    BY <1>1, <2>1, <2>3
<1>. QED
  BY <1>2, <1>3

(* Every case of the switch puts in use what the instruction reads, unless *)
(* it drops it, and takes out at most what the instruction defines.        *)
LEMMA UseTransfer ==
  ASSUME TypeOK, DceInv, Eliminate, DceContinues, NEW t \in Temps \ AddrTemps
  PROVE  /\ pos \notin Dropped' /\ t \in Read(Current) => t \in use'
         /\ (pos \in Dropped' \/ Defined(Current) # t) /\ t \in use => t \in use'
<1>1. Current \in Instructions
  BY CurrentInstruction DEF DceContinues, TypeOK
<1>2. /\ t # NoName /\ WellFormed(Current)
      /\ Current.kind \in Kinds
  BY <1>1, InstructionFields, NamesAssumption DEF Names
<1>3. CASE DceUserVariable
  BY <1>2, <1>3 DEF DceUserVariable, Copies, Read, Right, VarNames, IsVarName
<1>4. CASE DceLiveCopy
  <2>1. pos \notin Dropped'
    BY <1>4 DEF DceLiveCopy, DceContinues, DceInv, Dropped, TypeOK
  <2>. QED
    BY <1>2, <1>4, <2>1 DEF DceLiveCopy, Copies, Read, Left, Right, Defined,
       VarNames, IsVarName
<1>5. CASE DceDeadCopy
  BY <1>5 DEF DceDeadCopy, Dropped
<1>6. CASE DceLiveBinary
  <2>1. Current.op2 # NoName
    BY <1>1, <1>6, BinaryOperands DEF DceLiveBinary
  <2>2. pos \notin Dropped'
    BY <1>6, <2>1 DEF DceLiveBinary, DceContinues, DceInv, Dropped, TypeOK, IsVarName
  <2>. QED
    BY <1>2, <1>6, <2>2 DEF DceLiveBinary, Read, Right, Defined, VarNames, IsVarName
<1>7. CASE DceDeadBinary
  BY <1>7 DEF DceDeadBinary, Dropped
<1>8. CASE DceRead
  <2>1. pos \notin Dropped'
    BY <1>8 DEF DceRead, DceContinues, DceInv, Dropped, TypeOK
  <2>. QED
    BY <1>8, <2>1 DEF DceRead, Read, Defined
<1>9. CASE DceOther
  BY <1>2, <1>9 DEF DceOther, Copies, Read, Uses, VarNames, IsVarName, WellFormed
<1>. QED
  BY <1>3, <1>4, <1>5, <1>6, <1>7, <1>8, <1>9
  DEF Eliminate, DceContinues, DceScanned, Keep, DceBlockEnd

(* What a scan step adds to the dropped instructions: at most the one it   *)
(* is at, an assignment to a temporary that is not in use.                 *)
LEMMA DropsOnlyUnused ==
  ASSUME TypeOK, Eliminate, DceContinues
  PROVE  \/ Dropped' = Dropped
         \/ /\ Dropped' = Dropped \cup {pos}
            /\ Current.kind \in {"CONSTANT", "ASSIGN", "MINUS", "BINARY"}
            /\ Defined(Current) \in Temps \ AddrTemps
            /\ Defined(Current) \notin use
<1>1. Current \in Instructions /\ WellFormed(Current)
  BY CurrentInstruction, InstructionFields DEF DceContinues, TypeOK
<1>2. CASE DceDeadCopy
  BY <1>1, <1>2 DEF DceDeadCopy, Copies, Left, Defined, Dropped, WellFormed
<1>3. CASE DceDeadBinary
  BY <1>1, <1>3 DEF DceDeadBinary, Defined, Dropped, WellFormed
<1>4. CASE DceLiveBinary
  BY <1>1, <1>4, BinaryOperands DEF DceLiveBinary, Dropped, IsVarName
<1>5. CASE DceUserVariable \/ DceLiveCopy \/ DceRead \/ DceOther
  BY <1>5 DEF DceUserVariable, DceLiveCopy, DceRead, DceOther, Dropped
<1>. QED
  BY <1>2, <1>3, <1>4, <1>5 DEF Eliminate, DceContinues, DceScanned, Keep, DceBlockEnd

LEMMA ScanStep ==
  ASSUME TypeOK, DceInv, Eliminate, DceContinues
  PROVE  DceInv'
<1>. DEFINE b == blocks[bi]
<1>1. /\ b \in Seq(Instructions) /\ b' = b
      /\ phase = "dce" /\ phase' = "dce" /\ pos \in 1..Len(b) /\ pos' + 1 = pos
      /\ Current = b[pos]
  BY DEF DceContinues, TypeOK, Current
<1>. HIDE DEF b
<1>2. Dropped \subseteq pos + 1..Len(b)
  BY <1>1 DEF DceInv, b
<1>3. \/ Dropped' = Dropped
      \/ /\ Dropped' = Dropped \cup {pos}
         /\ Current.kind \in {"CONSTANT", "ASSIGN", "MINUS", "BINARY"}
         /\ Defined(Current) \in Temps \ AddrTemps
         /\ Defined(Current) \notin use
  BY DropsOnlyUnused
<1>4. Dropped' \subseteq pos..Len(b)
  <2>1. pos \in pos..Len(b) /\ pos + 1..Len(b) \subseteq pos..Len(b)
    BY <1>1
  <2>. QED
    BY <1>2, <1>3, <2>1
<1>5. ASSUME NEW t, NEW k \in pos..Len(b)
      PROVE  LiveFrom(b, Dropped', t, k + 1) <=> LiveFrom(b, Dropped, t, k + 1)
  <2>1. \A m \in k + 1..Len(b) : m \in Dropped' <=> m \in Dropped
    BY <1>1, <1>3
  <2>. QED
    BY <1>1, <2>1, LiveAgree
<1>6. \A t \in Temps \ AddrTemps :
        LiveFrom(b, Dropped, t, pos + 1) => t \in use
  BY <1>1 DEF DceInv, UseCoversReads, b
<1>7. ASSUME NEW t \in Temps \ AddrTemps, LiveFrom(b, Dropped', t, pos)
      PROVE  t \in use'
  <2>1. \/ pos \notin Dropped' /\ t \in Read(Current)
        \/ /\ pos \in Dropped' \/ Defined(Current) # t
           /\ LiveFrom(b, Dropped', t, pos + 1)
    BY <1>1, <1>7, LiveUnroll
  <2>2. LiveFrom(b, Dropped', t, pos + 1) => t \in use
    BY <1>1, <1>5, <1>6
  <2>. QED
    BY <2>1, <2>2, UseTransfer
<1>8. UseCoversReads'
  <2>1. \A t \in Temps \ AddrTemps : LiveFrom(b, Dropped', t, pos) => t \in use'
    BY <1>7
  <2>. QED
    BY <1>1, <2>1 DEF UseCoversReads, b
<1>9. ASSUME NEW k \in Dropped'
      PROVE  /\ k \in 1..Len(b)
             /\ b[k].kind \in {"CONSTANT", "ASSIGN", "MINUS", "BINARY"}
             /\ Defined(b[k]) \in Temps \ AddrTemps
             /\ ~ LiveFrom(b, Dropped', Defined(b[k]), k + 1)
  <2>1. k \in pos..Len(b)
    BY <1>4
  <2>2. CASE k \in Dropped
    <3>1. /\ k \in 1..Len(b)
          /\ b[k].kind \in {"CONSTANT", "ASSIGN", "MINUS", "BINARY"}
          /\ Defined(b[k]) \in Temps \ AddrTemps
          /\ ~ LiveFrom(b, Dropped, Defined(b[k]), k + 1)
      BY <1>1, <2>2 DEF DceInv, EliminatedIsDead, b
    <3>. QED
      BY <1>5, <2>1, <3>1
  <2>3. CASE k \notin Dropped
    <3>1. /\ k = pos
          /\ Current.kind \in {"CONSTANT", "ASSIGN", "MINUS", "BINARY"}
          /\ Defined(Current) \in Temps \ AddrTemps
          /\ Defined(Current) \notin use
      BY <1>3, <2>3
    <3>2. ~ LiveFrom(b, Dropped, Defined(b[k]), k + 1)
      BY <1>1, <1>6, <3>1
    <3>. QED
      BY <1>1, <1>5, <2>1, <3>1, <3>2
  <2>. QED
    BY <2>2, <2>3
<1>10. EliminatedIsDead'
  BY <1>1, <1>9 DEF EliminatedIsDead, b
<1>. QED
  BY <1>1, <1>4, <1>8, <1>10 DEF DceInv, b

LEMMA InitDceInv == Init => DceInv
BY DEF Init, DceInv, Dropped, UseCoversReads, EliminatedIsDead

LEMMA NextDceInv == TypeOK /\ DceInv /\ [Next]_vars => DceInv'
<1>. SUFFICES ASSUME TypeOK, DceInv, [Next]_vars PROVE DceInv'
  OBVIOUS
<1>1. CASE Eliminate /\ DceContinues
  BY <1>1, ScanStep
<1>2. CASE DceScanned
  BY <1>2 DEF DceScanned, DceInv, Dropped, UseCoversReads, EliminatedIsDead
<1>3. CASE Keep
  BY <1>3 DEF Keep, DceInv, Dropped, UseCoversReads, EliminatedIsDead
<1>4. CASE StartElimination
  <2>1. /\ phase' = "dce" /\ bi' = 1 /\ blocks' = blocks
        /\ pos' = Len(blocks[1]) /\ pos' \in Nat
        /\ Dropped' = {}
    BY <1>4 DEF StartElimination, TypeOK, DceInv, Dropped
  <2>2. pos' + 1..Len(blocks'[bi']) = {}
    BY <2>1
  <2>. QED
    BY <2>1, <2>2 DEF DceInv, EliminatedIsDead, UseCoversReads, LiveFrom
<1>5. CASE DceBlockEnd
  <2>1. Dropped' = {} /\ use' = {}
    BY <1>5 DEF DceBlockEnd, Dropped
  <2>2. CASE bi < Len(blocks)
    <3>1. /\ phase' = "dce" /\ pos' = Len(blocks'[bi']) /\ pos' \in Nat
      BY <1>5, <2>2 DEF DceBlockEnd, TypeOK
    <3>2. pos' + 1..Len(blocks'[bi']) = {}
      BY <3>1
    <3>. QED
      BY <2>1, <3>1, <3>2 DEF DceInv, EliminatedIsDead, UseCoversReads, LiveFrom
  <2>3. CASE ~ (bi < Len(blocks))
    <3>1. phase' = "concat"
      BY <1>5, <2>3 DEF DceBlockEnd
    <3>. QED
      BY <2>1, <3>1 DEF DceInv, EliminatedIsDead, UseCoversReads
  <2>. QED
    BY <2>2, <2>3
<1>6. ASSUME phase \notin {"dce", "keep"}, phase' \notin {"dce", "keep"},
             UNCHANGED <<use, eliminate_index, idle>>
      PROVE  DceInv'
  BY <1>6 DEF DceInv, Dropped, UseCoversReads, EliminatedIsDead
<1>7. CASE Generate
  BY <1>6, <1>7 DEF Generate, GenFirst, GenLabel, GenJump, GenOther, GenContinues,
     GenEnd
<1>8. CASE Check
  BY <1>6, <1>8 DEF Check, GiveUp, StartPropagation
<1>9. CASE Propagate /\ ~ StartElimination
  BY <1>6, <1>9 DEF Propagate, PropConstant, PropAssignKnown, PropAssignUnknown,
     PropFold, PropDivisionTraps, PropLiteralTooLarge, PropCopy, PropBlockEnd, PropContinues
<1>10. CASE Concatenate \/ Return
  BY <1>6, <1>10 DEF Concatenate, Return
<1>11. CASE UNCHANGED vars
  BY <1>11 DEF vars, DceInv, Dropped, UseCoversReads, EliminatedIsDead
<1>. QED
  BY <1>1, <1>2, <1>3, <1>4, <1>5, <1>7, <1>8, <1>9, <1>10, <1>11
  DEF Next, Eliminate, DceUserVariable, DceLiveCopy, DceDeadCopy, DceLiveBinary,
      DceDeadBinary, DceRead, DceOther

(* Whatever the program, the scan of EliminateLocalDeadCode has in use     *)
(* every temporary the instructions it has passed still need, ...          *)
THEOREM UseIsSound == Spec => []UseCoversReads
<1>1. Init => TypeOK /\ DceInv
  BY InitTypeOK, InitDceInv
<1>2. TypeOK /\ DceInv /\ [Next]_vars => (TypeOK /\ DceInv)'
  BY NextTypeOK, NextDceInv
<1>3. DceInv => UseCoversReads
  BY DEF DceInv
<1>. QED
  BY <1>1, <1>2, <1>3, PTL DEF Spec

(* ... so that it marks for removal only assignments to temporaries whose  *)
(* value reaches nothing that is kept, idle operations apart.              *)
THEOREM EliminationIsSound == Spec => []EliminatedIsDead
<1>1. Init => TypeOK /\ DceInv
  BY InitTypeOK, InitDceInv
<1>2. TypeOK /\ DceInv /\ [Next]_vars => (TypeOK /\ DceInv)'
  BY NextTypeOK, NextDceInv
<1>3. DceInv => EliminatedIsDead
  BY DEF DceInv
<1>. QED
  BY <1>1, <1>2, <1>3, PTL DEF Spec

-----------------------------------------------------------------------------
(* Constant propagation.                                                   *)

(* The inductive invariant: const_map is empty until the pass begins.      *)
PropInv ==
  /\ phase \in {"start", "blocks", "check"} => const_map = NoConstants
  /\ ConstMapFromLastCopy

(* Appending an instruction keeps the property if each name that is known  *)
(* afterwards is set by it, or was known and is not set by a copy.         *)
LEMMA AppendKeepsConstants ==
  ASSUME TypeOK, PropInv, phase = "prop", phase' = "prop",
         NEW ins \in Instructions, block' = Append(block, ins),
         \A v \in Names : const_map'[v] # Unknown =>
           \/ ins = Constant(v, const_map'[v])
           \/ /\ const_map'[v] = const_map[v]
              /\ Defined(ins) = v => ins.kind \notin {"CONSTANT", "ASSIGN"}
  PROVE  PropInv'
<1>1. /\ Len(block') = Len(block) + 1 /\ Len(block) \in Nat
      /\ block'[Len(block')] = ins
      /\ \A i \in 1..Len(block) : block'[i] = block[i]
  BY DEF TypeOK
<1>2. ASSUME NEW v \in Names, const_map'[v] # Unknown
      PROVE  \E j \in 1..Len(block') :
               /\ block'[j] = Constant(v, const_map'[v])
               /\ \A m \in j + 1..Len(block') :
                    Defined(block'[m]) = v => block'[m].kind \notin {"CONSTANT", "ASSIGN"}
  <2>1. CASE ins = Constant(v, const_map'[v])
    <3>1. Len(block') \in 1..Len(block') /\ Len(block') + 1..Len(block') = {}
      BY <1>1
    <3>. QED
      BY <1>1, <2>1, <3>1
  <2>2. CASE /\ const_map'[v] = const_map[v]
             /\ Defined(ins) = v => ins.kind \notin {"CONSTANT", "ASSIGN"}
    <3>1. PICK j \in 1..Len(block) :
            /\ block[j] = Constant(v, const_map[v])
            /\ \A m \in j + 1..Len(block) :
                 Defined(block[m]) = v => block[m].kind \notin {"CONSTANT", "ASSIGN"}
      BY <1>2, <2>2 DEF PropInv, ConstMapFromLastCopy, Known
    <3>2. ASSUME NEW m \in j + 1..Len(block'), Defined(block'[m]) = v
          PROVE  block'[m].kind \notin {"CONSTANT", "ASSIGN"}
      <4>1. CASE m = Len(block')
        BY <1>1, <2>2, <3>2, <4>1
      <4>2. CASE m # Len(block')
        BY <1>1, <3>1, <3>2, <4>2
      <4>. QED
        BY <4>1, <4>2
    <3>. QED
      BY <1>1, <2>2, <3>1, <3>2
  <2>. QED
    BY <1>2, <2>1, <2>2
<1>. QED
  BY <1>2 DEF PropInv, ConstMapFromLastCopy, Known

LEMMA RecordKeepsConstants ==
  ASSUME TypeOK, PropInv, phase = "prop", phase' = "prop",
         NEW n \in Names \ AddrTemps, NEW c \in IntW, Record(n, c)
  PROVE  PropInv'
<1>1. Constant(n, c) \in Instructions /\ Defined(Constant(n, c)) = n
  BY ConstantInstruction DEF Constant, Ins, Defined
<1>2. \A v \in Names : const_map'[v] = IF v = n THEN c ELSE const_map[v]
  BY DEF Record, TypeOK
<1>. QED
  BY <1>1, <1>2, AppendKeepsConstants DEF Record

LEMMA InitPropInv == Init => PropInv
BY DEF Init, PropInv, ConstMapFromLastCopy

LEMMA NextPropInv == TypeOK /\ PropInv /\ [Next]_vars => PropInv'
<1>. SUFFICES ASSUME TypeOK, PropInv, [Next]_vars PROVE PropInv'
  OBVIOUS
<1>1. ASSUME PropContinues
      PROVE  /\ phase = "prop" /\ phase' = "prop"
             /\ Current \in Instructions /\ WellFormed(Current)
  BY <1>1, CurrentInstruction, InstructionFields DEF PropContinues, TypeOK
<1>2. CASE PropConstant
  <2>1. Current.op1 \in Names \ AddrTemps /\ Current.value \in IntW
    BY <1>1, <1>2 DEF PropConstant, WellFormed
  <2>. QED
    BY <1>1, <1>2, <2>1, RecordKeepsConstants DEF PropConstant
<1>3. CASE PropAssignKnown
  <2>1. Current.op1 \in Names \ AddrTemps /\ const_map[Current.op2] \in IntW
    BY <1>1, <1>3 DEF PropAssignKnown, WellFormed, Known, TypeOK
  <2>. QED
    BY <1>1, <1>3, <2>1, RecordKeepsConstants DEF PropAssignKnown
<1>4. CASE PropAssignUnknown
  <2>1. \A v \in Names : const_map'[v] = IF v = Current.op1 THEN Unknown ELSE const_map[v]
    BY <1>4 DEF PropAssignUnknown, TypeOK
  <2>2. Defined(Current) = Current.op1
    BY <1>4 DEF PropAssignUnknown, Defined
  <2>. QED
    BY <1>1, <1>4, <2>1, <2>2, AppendKeepsConstants DEF PropAssignUnknown
<1>5. CASE PropFold
  <2>1. Current.result \in Names \ AddrTemps
    BY <1>1, <1>5 DEF PropFold, Foldable, WellFormed
  <2>2. Fold(Current.relation, const_map[Current.op1], const_map[Current.op2]) \in IntW
    BY <1>5, FoldInRange DEF PropFold, Foldable, DividesByZero, Known, TypeOK
  <2>. QED
    BY <1>1, <1>5, <2>1, <2>2, RecordKeepsConstants DEF PropFold
<1>6. CASE PropCopy
  BY <1>1, <1>6, AppendKeepsConstants DEF PropCopy
<1>7. CASE StartPropagation \/ PropBlockEnd
  <2>1. const_map' = NoConstants /\ phase' = "prop"
    BY <1>7 DEF StartPropagation, PropBlockEnd, PropInv
  <2>. QED
    BY <2>1 DEF PropInv, ConstMapFromLastCopy, Known, NoConstants
<1>8. CASE Generate \/ GiveUp
  BY <1>8 DEF Generate, GenFirst, GenLabel, GenJump, GenOther, GenContinues, GenEnd,
     GiveUp, PropInv, ConstMapFromLastCopy
<1>9. CASE PropDivisionTraps \/ PropLiteralTooLarge \/ StartElimination
  BY <1>9 DEF PropDivisionTraps, PropLiteralTooLarge, StartElimination, PropInv,
     ConstMapFromLastCopy
<1>10. CASE Eliminate \/ Concatenate \/ Return
  BY <1>10 DEF Eliminate, DceUserVariable, DceLiveCopy, DceDeadCopy, DceLiveBinary,
     DceDeadBinary, DceRead, DceOther, DceContinues, DceScanned, Keep, DceBlockEnd,
     Concatenate, Return, PropInv, ConstMapFromLastCopy
<1>11. CASE UNCHANGED vars
  BY <1>11 DEF vars, PropInv, ConstMapFromLastCopy, Known
<1>. QED
  BY <1>2, <1>3, <1>4, <1>5, <1>6, <1>7, <1>8, <1>9, <1>10, <1>11
  DEF Next, Check, Propagate

(* Every name PropagateConstant holds constant was set to that constant by *)
(* the block it is rewriting, and by no copy since: what can make an entry *)
(* stale is exactly an instruction of a kind the pass copies unexamined.   *)
THEOREM ConstMapIsFromLastCopy == Spec => []ConstMapFromLastCopy
<1>1. Init => TypeOK /\ PropInv
  BY InitTypeOK, InitPropInv
<1>2. TypeOK /\ PropInv /\ [Next]_vars => (TypeOK /\ PropInv)'
  BY NextTypeOK, NextPropInv
<1>3. PropInv => ConstMapFromLastCopy
  BY DEF PropInv
<1>. QED
  BY <1>1, <1>2, <1>3, PTL DEF Spec

-----------------------------------------------------------------------------
(* The shape of basic blocks.                                              *)

(* The block being cut has no jump and a LABEL only in front.              *)
Open(b) ==
  \A i \in 1..Len(b) :
    b[i].kind \notin Jumps /\ (b[i].kind = "LABEL" => i = 1)

(* The block being rewritten has a LABEL or a jump only where the block it *)
(* comes from has one.                                                     *)
Rewrites(b, c) ==
  \A i \in 1..Len(b) : b[i].kind \in Jumps \cup {"LABEL"} => b[i].kind = c[i].kind

(* The block being thinned out ends with a jump only when it is complete.  *)
Thins(b, c) ==
  /\ Len(b) < pos
  /\ \A i \in 1..Len(b) :
       /\ b[i].kind = "LABEL" => i = 1
       /\ b[i].kind \in Jumps => i = Len(b) /\ pos = Len(c) + 1

BlockInv ==
  /\ LabelsFirstJumpsLast
  /\ phase = "start" => ir \in Programs
  /\ phase = "blocks" => Open(block)
  /\ phase = "prop" =>
       /\ Len(block) = pos - 1
       /\ bi > Len(blocks) => pos = 1
       /\ bi <= Len(blocks) =>
            pos <= Len(blocks[bi]) + 1 /\ Rewrites(block, blocks[bi])
  /\ phase = "dce" => block = <<>>
  /\ phase = "keep" => pos <= Len(blocks[bi]) + 1 /\ Thins(block, blocks[bi])

LEMMA InitBlockInv == Init => BlockInv
BY DEF Init, BlockInv, LabelsFirstJumpsLast

LEMMA AppendStraightLine ==
  ASSUME TypeOK, LabelsFirstJumpsLast, NEW b \in Seq(Instructions), LabelFirstJumpLast(b),
         blocks' = Append(blocks, b)
  PROVE  LabelsFirstJumpsLast'
<1>1. /\ Len(blocks') = Len(blocks) + 1 /\ blocks'[Len(blocks) + 1] = b
      /\ \A k \in 1..Len(blocks) : blocks'[k] = blocks[k]
      /\ Len(blocks) \in Nat
  BY DEF TypeOK
<1>2. ASSUME NEW k \in 1..Len(blocks')
      PROVE  LabelFirstJumpLast(blocks'[k])
  BY <1>1, <1>2 DEF LabelsFirstJumpsLast
<1>. QED
  BY <1>2 DEF LabelsFirstJumpsLast

LEMMA ReplaceBlock ==
  ASSUME TypeOK, LabelsFirstJumpsLast, bi <= Len(blocks), LabelFirstJumpLast(block),
         blocks' = [blocks EXCEPT ![bi] = block]
  PROVE  LabelsFirstJumpsLast'
<1>1. /\ Len(blocks') = Len(blocks)
      /\ \A k \in 1..Len(blocks) : blocks'[k] = IF k = bi THEN block ELSE blocks[k]
  BY DEF TypeOK
<1>2. ASSUME NEW k \in 1..Len(blocks')
      PROVE  LabelFirstJumpLast(blocks'[k])
  BY <1>1, <1>2 DEF LabelsFirstJumpsLast
<1>. QED
  BY <1>2 DEF LabelsFirstJumpsLast

LEMMA GenerateBlockInv ==
  ASSUME TypeOK, BlockInv, Generate PROVE BlockInv'
<1>1. CASE GenFirst
  <2>1. CASE ir = <<>>
    BY <1>1, <2>1 DEF GenFirst, BlockInv, LabelsFirstJumpsLast
  <2>2. CASE ir # <<>>
    <3>1. phase' = "blocks" /\ block' = <<ir[1]>> /\ blocks' = blocks
      BY <1>1, <2>2 DEF GenFirst
    <3>2. ir[1].kind = "FUNCTION"
      BY <1>1, <2>2, ProgramsAssumption DEF GenFirst, BlockInv
    <3>3. Open(block')
      BY <3>1, <3>2 DEF Open, Jumps
    <3>. QED
      BY <3>1, <3>3 DEF BlockInv, LabelsFirstJumpsLast, Open
  <2>. QED
    BY <2>1, <2>2
<1>2. ASSUME GenContinues
      PROVE  /\ phase = "blocks" /\ phase' = "blocks" /\ ir[pos] \in Instructions
             /\ Open(block) /\ LabelsFirstJumpsLast
  BY <1>2 DEF GenContinues, BlockInv, TypeOK
<1>3. Open(block) => LabelFirstJumpLast(block)
  BY DEF Open, LabelFirstJumpLast
<1>4. CASE GenLabel
  <2>1. LabelsFirstJumpsLast'
    <3>1. CASE block = <<>>
      BY <1>2, <1>4, <3>1 DEF GenLabel, LabelsFirstJumpsLast
    <3>2. CASE block # <<>>
      <4>1. blocks' = Append(blocks, block)
        BY <1>4, <3>2 DEF GenLabel
      <4>. QED
        BY <1>2, <1>3, <1>4, <4>1, AppendStraightLine DEF GenLabel, TypeOK
    <3>. QED
      BY <3>1, <3>2
  <2>2. Open(block')
    BY <1>4 DEF GenLabel, Open, Jumps
  <2>. QED
    BY <1>2, <1>4, <2>1, <2>2 DEF GenLabel, BlockInv, Open
<1>5. CASE GenJump
  <2>. DEFINE b == Append(block, ir[pos])
  <2>1. /\ b \in Seq(Instructions) /\ Len(b) = Len(block) + 1 /\ b[Len(b)] = ir[pos]
        /\ \A i \in 1..Len(block) : b[i] = block[i]
        /\ Len(block) \in Nat
    BY <1>2, <1>5 DEF GenJump, TypeOK
  <2>2. ir[pos].kind # "LABEL" /\ blocks' = Append(blocks, b)
    BY <1>5 DEF GenJump, Jumps
  <2>. HIDE DEF b
  <2>3. LabelFirstJumpLast(b)
    <3>1. ASSUME NEW i \in 1..Len(b)
          PROVE  (b[i].kind = "LABEL" => i = 1) /\ (b[i].kind \in Jumps => i = Len(b))
      <4>1. CASE i = Len(b)
        BY <2>1, <2>2, <4>1
      <4>2. CASE i \in 1..Len(block)
        BY <1>2, <1>5, <2>1, <4>2 DEF GenJump, Open
      <4>. QED
        BY <2>1, <4>1, <4>2
    <3>. QED
      BY <3>1 DEF LabelFirstJumpLast
  <2>4. LabelsFirstJumpsLast'
    BY <1>2, <1>5, <2>1, <2>2, <2>3, AppendStraightLine DEF GenJump
  <2>5. Open(block')
    BY <1>5 DEF GenJump, Open
  <2>. QED
    BY <1>2, <1>5, <2>4, <2>5 DEF GenJump, BlockInv, Open
<1>6. CASE GenOther
  <2>1. /\ Len(block') = Len(block) + 1 /\ block'[Len(block')] = ir[pos]
        /\ \A i \in 1..Len(block) : block'[i] = block[i]
        /\ Len(block) \in Nat
    BY <1>2, <1>6 DEF GenOther, TypeOK
  <2>2. Open(block')
    <3>1. ASSUME NEW i \in 1..Len(block')
          PROVE  block'[i].kind \notin Jumps /\ (block'[i].kind = "LABEL" => i = 1)
      <4>1. CASE i = Len(block')
        BY <1>6, <2>1, <4>1 DEF GenOther
      <4>2. CASE i \in 1..Len(block)
        BY <1>2, <1>6, <2>1, <4>2 DEF GenOther, Open
      <4>. QED
        BY <2>1, <4>1, <4>2
    <3>. QED
      BY <3>1 DEF Open
  <2>. QED
    BY <1>2, <1>6, <2>2 DEF GenOther, BlockInv, LabelsFirstJumpsLast, Open
<1>7. CASE GenEnd
  <2>1. LabelsFirstJumpsLast'
    BY <1>3, <1>7, AppendStraightLine DEF GenEnd, BlockInv, TypeOK
  <2>. QED
    BY <1>7, <2>1 DEF GenEnd, BlockInv
<1>. QED
  BY <1>1, <1>4, <1>5, <1>6, <1>7 DEF Generate

LEMMA PropagateBlockInv ==
  ASSUME TypeOK, BlockInv, Propagate PROVE BlockInv'
<1>1. ASSUME PropContinues, NEW ins \in Instructions, block' = Append(block, ins),
             ins.kind \in Jumps \cup {"LABEL"} => ins = Current
      PROVE  BlockInv'
  <2>1. /\ phase = "prop" /\ phase' = "prop" /\ pos' = pos + 1 /\ bi <= Len(blocks)
        /\ blocks' = blocks /\ bi' = bi /\ pos <= Len(blocks[bi])
        /\ Len(block) = pos - 1 /\ Rewrites(block, blocks[bi])
        /\ Len(blocks[bi]) \in Nat
    BY <1>1 DEF PropContinues, BlockInv, TypeOK
  <2>2. /\ Len(block') = pos /\ block'[pos] = ins /\ pos \in Nat \ {0}
        /\ \A i \in 1..Len(block) : block'[i] = block[i]
    BY <1>1, <2>1 DEF TypeOK
  <2>3. Rewrites(block', blocks[bi])
    <3>1. ASSUME NEW i \in 1..Len(block'), block'[i].kind \in Jumps \cup {"LABEL"}
          PROVE  block'[i].kind = blocks[bi][i].kind
      <4>1. CASE i = pos
        BY <1>1, <2>2, <3>1, <4>1 DEF Current
      <4>2. CASE i # pos
        <5>1. i \in 1..Len(block)
          BY <2>1, <2>2, <4>2
        <5>. QED
          BY <2>1, <2>2, <3>1, <5>1 DEF Rewrites
      <4>. QED
        BY <4>1, <4>2
    <3>. QED
      BY <3>1 DEF Rewrites
  <2>4. /\ Len(block') = pos' - 1 /\ pos' <= Len(blocks'[bi']) + 1
        /\ ~ (bi' > Len(blocks'))
    BY <2>1, <2>2 DEF TypeOK
  <2>5. LabelsFirstJumpsLast' /\ Rewrites(block', blocks'[bi'])
    BY <2>1, <2>3 DEF BlockInv, LabelsFirstJumpsLast
  <2>. QED
    BY <2>1, <2>4, <2>5 DEF BlockInv
<1>2. PropContinues => Current \in Instructions /\ WellFormed(Current)
  BY CurrentInstruction, InstructionFields DEF PropContinues, TypeOK
<1>3. ASSUME PropContinues, NEW n \in Names \ AddrTemps, NEW c \in IntW, Record(n, c)
      PROVE  BlockInv'
  <2>1. Constant(n, c) \in Instructions /\ Constant(n, c).kind = "CONSTANT"
    BY ConstantInstruction DEF Constant, Ins
  <2>. QED
    BY <1>1, <1>3, <2>1 DEF Record, Jumps
<1>4. CASE PropConstant
  <2>1. Current.op1 \in Names \ AddrTemps /\ Current.value \in IntW
    BY <1>2, <1>4 DEF PropConstant, WellFormed
  <2>. QED
    BY <1>3, <1>4, <2>1 DEF PropConstant
<1>5. CASE PropAssignKnown
  <2>1. Current.op1 \in Names \ AddrTemps /\ const_map[Current.op2] \in IntW
    BY <1>2, <1>5 DEF PropAssignKnown, WellFormed, Known, TypeOK
  <2>. QED
    BY <1>3, <1>5, <2>1 DEF PropAssignKnown
<1>6. CASE PropFold
  <2>1. Current.result \in Names \ AddrTemps
    BY <1>2, <1>6 DEF PropFold, Foldable, WellFormed
  <2>2. Fold(Current.relation, const_map[Current.op1], const_map[Current.op2]) \in IntW
    BY <1>6, FoldInRange DEF PropFold, Foldable, DividesByZero, Known, TypeOK
  <2>. QED
    BY <1>3, <1>6, <2>1, <2>2 DEF PropFold
<1>7. CASE PropAssignUnknown \/ PropCopy
  BY <1>1, <1>2, <1>7 DEF PropAssignUnknown, PropCopy
<1>8. CASE PropDivisionTraps \/ PropLiteralTooLarge
  BY <1>8 DEF PropDivisionTraps, PropLiteralTooLarge, BlockInv, LabelsFirstJumpsLast
<1>9. CASE PropBlockEnd
  <2>1. /\ phase = "prop" /\ bi <= Len(blocks) /\ bi \in Nat \ {0}
        /\ pos > Len(blocks[bi]) /\ pos <= Len(blocks[bi]) + 1
        /\ Len(block) = pos - 1 /\ Rewrites(block, blocks[bi])
        /\ Len(blocks[bi]) \in Nat /\ pos \in Nat
        /\ LabelFirstJumpLast(blocks[bi])
    BY <1>9 DEF PropBlockEnd, BlockInv, LabelsFirstJumpsLast, TypeOK
  <2>2. Len(block) = Len(blocks[bi])
    BY <2>1
  <2>3. LabelFirstJumpLast(block)
    BY <2>1, <2>2 DEF LabelFirstJumpLast, Rewrites
  <2>4. LabelsFirstJumpsLast'
    BY <1>9, <2>1, <2>3, ReplaceBlock DEF PropBlockEnd, BlockInv
  <2>5. bi' <= Len(blocks') => pos' <= Len(blocks'[bi']) + 1
    BY <1>9 DEF PropBlockEnd, TypeOK
  <2>. QED
    BY <1>9, <2>4, <2>5 DEF PropBlockEnd, BlockInv, Rewrites
<1>10. CASE StartElimination
  <2>1. block = <<>>
    BY <1>10 DEF StartElimination, BlockInv, TypeOK
  <2>. QED
    BY <1>10, <2>1 DEF StartElimination, BlockInv, LabelsFirstJumpsLast
<1>. QED
  BY <1>4, <1>5, <1>6, <1>7, <1>8, <1>9, <1>10 DEF Propagate

LEMMA EliminateBlockInv ==
  ASSUME TypeOK, BlockInv, Eliminate PROVE BlockInv'
<1>1. CASE DceContinues
  BY <1>1 DEF DceContinues, BlockInv, LabelsFirstJumpsLast
<1>2. CASE DceScanned
  <2>1. 1 <= Len(blocks[bi]) + 1
    BY <1>2 DEF DceScanned, TypeOK
  <2>. QED
    BY <1>2, <2>1 DEF DceScanned, BlockInv, LabelsFirstJumpsLast, Thins
<1>3. CASE Keep
  <2>1. /\ phase = "keep" /\ phase' = "keep" /\ blocks' = blocks /\ bi' = bi
        /\ pos' = pos + 1 /\ pos \in Nat \ {0} /\ pos <= Len(blocks[bi])
        /\ Len(block) < pos /\ Len(block) \in Nat /\ Len(blocks[bi]) \in Nat
        /\ LabelFirstJumpLast(blocks[bi]) /\ Thins(block, blocks[bi])
    BY <1>3 DEF Keep, BlockInv, LabelsFirstJumpsLast, Thins, TypeOK
  <2>2. \A i \in 1..Len(block) :
          block[i].kind \notin Jumps /\ (block[i].kind = "LABEL" => i = 1)
    BY <2>1 DEF Thins
  <2>3. Thins(block, blocks[bi])'
    <3>1. CASE block' = block
      BY <2>1, <2>2, <3>1 DEF Thins
    <3>2. CASE block' = Append(block, Current)
      <4>1. /\ Len(block') = Len(block) + 1 /\ block'[Len(block')] = blocks[bi][pos]
            /\ \A i \in 1..Len(block) : block'[i] = block[i]
        BY <3>2 DEF TypeOK, Current
      <4>2. ASSUME NEW i \in 1..Len(block')
            PROVE  /\ block'[i].kind = "LABEL" => i = 1
                   /\ block'[i].kind \in Jumps =>
                        i = Len(block') /\ pos' = Len(blocks[bi]) + 1
        <5>1. CASE i = Len(block')
          <6>1. /\ blocks[bi][pos].kind = "LABEL" => pos = 1
                /\ blocks[bi][pos].kind \in Jumps => pos = Len(blocks[bi])
            BY <2>1 DEF LabelFirstJumpLast
          <6>. QED
            BY <2>1, <4>1, <5>1, <6>1
        <5>2. CASE i \in 1..Len(block)
          BY <2>2, <4>1, <5>2
        <5>. QED
          BY <2>1, <4>1, <5>1, <5>2
      <4>. QED
        BY <2>1, <4>1, <4>2 DEF Thins
    <3>. QED
      BY <1>3, <3>1, <3>2 DEF Keep
  <2>. QED
    BY <1>3, <2>1, <2>3 DEF BlockInv, LabelsFirstJumpsLast
<1>4. CASE DceBlockEnd
  <2>1. LabelFirstJumpLast(block)
    BY <1>4 DEF DceBlockEnd, BlockInv, Thins, LabelFirstJumpLast
  <2>2. LabelsFirstJumpsLast'
    BY <1>4, <2>1, ReplaceBlock DEF DceBlockEnd, BlockInv, TypeOK
  <2>3. block' = <<>> /\ phase' \in {"dce", "concat"}
    BY <1>4 DEF DceBlockEnd
  <2>. QED
    BY <2>2, <2>3 DEF BlockInv
<1>. QED
  BY <1>1, <1>2, <1>3, <1>4 DEF Eliminate, DceUserVariable, DceLiveCopy, DceDeadCopy,
     DceLiveBinary, DceDeadBinary, DceRead, DceOther

LEMMA NextBlockInv == TypeOK /\ BlockInv /\ [Next]_vars => BlockInv'
<1>. SUFFICES ASSUME TypeOK, BlockInv, [Next]_vars PROVE BlockInv'
  OBVIOUS
<1>1. CASE GiveUp
  BY <1>1 DEF GiveUp, BlockInv, LabelsFirstJumpsLast
<1>2. CASE StartPropagation
  <2>1. 1 <= Len(blocks') => 1 <= Len(blocks'[1]) + 1
    BY <1>2 DEF StartPropagation, TypeOK
  <2>. QED
    BY <1>2, <2>1 DEF StartPropagation, BlockInv, LabelsFirstJumpsLast, Rewrites
<1>3. CASE Concatenate \/ Return
  BY <1>3 DEF Concatenate, Return, BlockInv, LabelsFirstJumpsLast
<1>4. CASE UNCHANGED vars
  BY <1>4 DEF vars, BlockInv, LabelsFirstJumpsLast, Rewrites, Thins
<1>. QED
  BY <1>1, <1>2, <1>3, <1>4, GenerateBlockInv, PropagateBlockInv, EliminateBlockInv
  DEF Next, Check

(* However blocks are cut, rewritten and thinned out, no label comes to    *)
(* stand below the top of a block and no jump above its end.               *)
THEOREM LabelsAreFirstJumpsLast == Spec => []LabelsFirstJumpsLast
<1>1. Init => TypeOK /\ BlockInv
  BY InitTypeOK, InitBlockInv
<1>2. TypeOK /\ BlockInv /\ [Next]_vars => (TypeOK /\ BlockInv)'
  BY NextTypeOK, NextBlockInv
<1>3. BlockInv => LabelsFirstJumpsLast
  BY DEF BlockInv
<1>. QED
  BY <1>1, <1>2, <1>3, PTL DEF Spec
=============================================================================
