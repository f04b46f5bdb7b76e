------------------------------ MODULE Optimizer ------------------------------
(***************************************************************************)
(* IROptimizer (src/src/ir_optimizer.cpp): the pass between the translator *)
(* and the printed three-address code.  GenerateOptimizedIR cuts the IR    *)
(* into basic blocks, gives up when a temporary occurs in two of them, and *)
(* otherwise propagates constants forwards and removes dead temporaries    *)
(* backwards, block by block.  The program is sequential: every action is  *)
(* one iteration of one of its loops, and phase says which loop it is in.  *)
(***************************************************************************)
EXTENDS IR

CONSTANTS
  Unknown,    \* "not in const_map"
  Programs    \* the IR programs the translator hands over

ASSUME UnknownAssumption == Unknown \notin Int

(* Every function's code begins with its FUNCTION instruction.             *)
ASSUME ProgramsAssumption ==
  /\ Programs \subseteq Seq(Instructions)
  /\ \A p \in Programs : p # <<>> => p[1].kind = "FUNCTION"

VARIABLES
  phase,            \* the loop the pass is in
  ir,               \* original_ir_vector_
  blocks,           \* basic_blocks_
  block,            \* the BasicBlock (or ir_vec) being filled
  bi,               \* index of the basic block a pass is at
  pos,              \* index of the instruction a loop is at
  const_map,        \* PropagateConstant: the variables it holds constant
  use,              \* EliminateLocalDeadCode: names read further down
  eliminate_index,  \* EliminateLocalDeadCode: indices to leave out
  output,           \* the vector GenerateOptimizedIR returns
  before,           \* history: the blocks as they entered the current pass
  idle              \* history: the BINARYs kept though nothing uses them

vars == <<phase, ir, blocks, block, bi, pos, const_map, use, eliminate_index,
          output, before, idle>>

NoConstants == [n \in Names |-> Unknown]

Init ==
  /\ phase = "start"
  /\ ir \in Programs
  /\ blocks = <<>> /\ block = <<>>
  /\ bi = 1 /\ pos = 1
  /\ const_map = NoConstants
  /\ use = {} /\ eliminate_index = {}
  /\ output = <<>> /\ before = <<>> /\ idle = {}

-----------------------------------------------------------------------------
(* GenerateBasicBlocks.                                                    *)

(* The first instruction is dereferenced before the vector is known to     *)
(* have one: a program without a function dies here.                       *)
GenFirst ==
  /\ phase = "start"
  /\ IF ir = <<>>
     THEN phase' = "crashed" /\ UNCHANGED <<block, pos>>
     ELSE phase' = "blocks" /\ block' = <<ir[1]>> /\ pos' = 2
  /\ UNCHANGED <<ir, blocks, bi, const_map, use, eliminate_index, output, before, idle>>

Jumps == {"GOTO", "IF_GOTO"}

GenContinues ==
  /\ phase = "blocks" /\ pos <= Len(ir)
  /\ pos' = pos + 1
  /\ UNCHANGED <<phase, ir, bi, const_map, use, eliminate_index, output, before, idle>>

(* Mutant of GenLabel: the block before the label is dropped.              *)
GenLabelDropsBlock ==
  /\ GenContinues
  /\ ir[pos].kind = "LABEL"
  /\ block' = <<ir[pos]>>
  /\ UNCHANGED blocks

(* A LABEL starts a block; a block that a jump has just ended is empty.    *)
GenLabel ==
  /\ GenContinues
  /\ ir[pos].kind = "LABEL"
  /\ blocks' = IF block = <<>> THEN blocks ELSE Append(blocks, block)
  /\ block' = <<ir[pos]>>

(* Mutant of GenJump: a conditional jump does not end its block.           *)
GenJumpFallsThrough ==
  /\ GenContinues
  /\ ir[pos].kind \in Jumps
  /\ IF ir[pos].kind = "GOTO"
     THEN blocks' = Append(blocks, Append(block, ir[pos])) /\ block' = <<>>
     ELSE block' = Append(block, ir[pos]) /\ UNCHANGED blocks

(* A jump ends the block it is in.                                         *)
GenJump ==
  /\ GenContinues
  /\ ir[pos].kind \in Jumps
  /\ blocks' = Append(blocks, Append(block, ir[pos]))
  /\ block' = <<>>

(* Everything else, FUNCTION and RETURN included, extends the block.       *)
GenOther ==
  /\ GenContinues
  /\ ir[pos].kind \notin Jumps \cup {"LABEL"}
  /\ block' = Append(block, ir[pos])
  /\ UNCHANGED blocks

GenEnd ==
  /\ phase = "blocks" /\ pos > Len(ir)
  /\ blocks' = Append(blocks, block)
  /\ phase' = "check"
  /\ UNCHANGED <<ir, block, bi, pos, const_map, use, eliminate_index, output, before, idle>>

-----------------------------------------------------------------------------
(* CheckIfTempVarCrossBasicBlock.                                          *)

TempsOf(b) ==
  Temps \cap UNION {{b[i].result, b[i].op1, b[i].op2} : i \in DOMAIN b}

CheckIfTempVarCrossBasicBlock ==
  \E i, j \in DOMAIN blocks :
    i # j /\ TempsOf(blocks[i]) \cap TempsOf(blocks[j]) # {}

(* The pass returns its input when a temporary is shared.                  *)
GiveUp ==
  /\ phase = "check"
  /\ CheckIfTempVarCrossBasicBlock
  /\ phase' = "done"
  /\ output' = ir
  /\ UNCHANGED <<ir, blocks, block, bi, pos, const_map, use, eliminate_index, before, idle>>

(* The first loop of DoLocalOptimization.                                  *)
StartPropagation ==
  /\ phase = "check"
  /\ ~ CheckIfTempVarCrossBasicBlock
  /\ phase' = "prop"
  /\ bi' = 1 /\ pos' = 1
  /\ block' = <<>>
  /\ before' = blocks
  /\ UNCHANGED <<ir, blocks, const_map, use, eliminate_index, output, idle>>

-----------------------------------------------------------------------------
(* PropagateConstant.                                                      *)

Current == blocks[bi][pos]

Known(n) == n \in Names /\ const_map[n] # Unknown

Constant(name, value) == Ins("CONSTANT", NoName, name, NoName, "", value)

(* Mutant of Fold: the operands of a difference change places.             *)
FoldSwapped(relation, x, y) ==
  Wrap(CASE relation = "+" -> x + y
         [] relation = "-" -> y - x
         [] relation = "*" -> x * y
         [] relation = "/" -> Quotient(x, y)
         [] OTHER -> 0)

Fold(relation, x, y) ==
  Wrap(CASE relation = "+" -> x + y
         [] relation = "-" -> x - y
         [] relation = "*" -> x * y
         [] relation = "/" -> Quotient(x, y)
         [] OTHER -> 0)

PropContinues ==
  /\ phase = "prop" /\ bi <= Len(blocks) /\ pos <= Len(blocks[bi])
  /\ pos' = pos + 1
  /\ UNCHANGED <<phase, ir, blocks, bi, use, eliminate_index, output, before, idle>>

(* The rewritten instruction defines name as the constant value.           *)
Record(name, value) ==
  /\ const_map' = [const_map EXCEPT ![name] = value]
  /\ block' = Append(block, Constant(name, value))

(* std::stoi accepts the literals that are ints.                           *)
PropConstant ==
  /\ PropContinues
  /\ Current.kind = "CONSTANT" /\ Current.value \in IntW
  /\ Record(Current.op1, Current.value)

(* For any other literal it throws, and nothing in the compiler catches.   *)
PropLiteralTooLarge ==
  /\ phase = "prop" /\ bi <= Len(blocks) /\ pos <= Len(blocks[bi])
  /\ Current.kind = "CONSTANT" /\ Current.value \notin IntW
  /\ phase' = "crashed"
  /\ UNCHANGED <<ir, blocks, block, bi, pos, const_map, use, eliminate_index,
                 output, before, idle>>

PropAssignKnown ==
  /\ PropContinues
  /\ Current.kind = "ASSIGN" /\ Known(Current.op2)
  /\ Record(Current.op1, const_map[Current.op2])

(* Mutant of PropAssignUnknown: the old constant is not erased.            *)
PropAssignNotErased ==
  /\ PropContinues
  /\ Current.kind = "ASSIGN" /\ ~ Known(Current.op2)
  /\ block' = Append(block, Current)
  /\ UNCHANGED const_map

PropAssignUnknown ==
  /\ PropContinues
  /\ Current.kind = "ASSIGN" /\ ~ Known(Current.op2)
  /\ const_map' = [const_map EXCEPT ![Current.op1] = Unknown]
  /\ block' = Append(block, Current)

Foldable(ins) == ins.kind = "BINARY" /\ Known(ins.op1) /\ Known(ins.op2)

DividesByZero(ins) == ins.relation = "/" /\ const_map[ins.op2] = 0

PropFold ==
  /\ PropContinues
  /\ Foldable(Current) /\ ~ DividesByZero(Current)
  /\ Record(Current.result,
            Fold(Current.relation, const_map[Current.op1], const_map[Current.op2]))

(* The one quotient that is no int: INT_MIN / -1 wraps or traps.           *)
Overflows(ins) ==
  ins.relation = "/" /\ const_map[ins.op1] = -IntHalf /\ const_map[ins.op2] = -1

(* val_1 / val_2 kills the compiler.                                       *)
PropDivisionTraps ==
  /\ phase = "prop" /\ bi <= Len(blocks) /\ pos <= Len(blocks[bi])
  /\ Foldable(Current)
  /\ DividesByZero(Current) \/ Overflows(Current)
  /\ phase' = "crashed"
  /\ UNCHANGED <<ir, blocks, block, bi, pos, const_map, use, eliminate_index,
                 output, before, idle>>

(* A BINARY that does not fold, and every other kind, is copied; whatever  *)
(* it defines keeps its entry in const_map.                                *)
PropCopy ==
  /\ PropContinues
  /\ Current.kind \notin {"CONSTANT", "ASSIGN"}
  /\ ~ Foldable(Current)
  /\ block' = Append(block, Current)
  /\ UNCHANGED const_map

PropBlockEnd ==
  /\ phase = "prop" /\ bi <= Len(blocks) /\ pos > Len(blocks[bi])
  /\ blocks' = [blocks EXCEPT ![bi] = block]
  /\ bi' = bi + 1 /\ pos' = 1
  /\ block' = <<>>
  /\ const_map' = NoConstants
  /\ UNCHANGED <<phase, ir, use, eliminate_index, output, before, idle>>

(* Mutant of StartElimination: the scan starts one past the last index.    *)
StartPastEnd ==
  /\ phase = "prop" /\ bi > Len(blocks)
  /\ phase' = "dce"
  /\ bi' = 1 /\ pos' = Len(blocks[1]) + 1
  /\ before' = blocks
  /\ UNCHANGED <<ir, blocks, block, const_map, use, eliminate_index, output, idle>>

(* The second loop of DoLocalOptimization starts at the last instruction.  *)
StartElimination ==
  /\ phase = "prop" /\ bi > Len(blocks)
  /\ phase' = "dce"
  /\ bi' = 1 /\ pos' = Len(blocks[1])
  /\ before' = blocks
  /\ UNCHANGED <<ir, blocks, block, const_map, use, eliminate_index, output, idle>>

-----------------------------------------------------------------------------
(* EliminateLocalDeadCode.                                                 *)

IsVarName(n) == n # NoName
VarNames(S) == {n \in S : IsVarName(n)}

(* The kinds whose case in the switch treats a left side as a definition.  *)
Copies == {"CONSTANT", "ASSIGN", "MINUS"}
Left(ins) == IF ins.kind \in {"CONSTANT", "ASSIGN"} THEN ins.op1 ELSE ins.result
Right(ins) ==
  CASE ins.kind \in {"CONSTANT", "ASSIGN"} -> {ins.op2}
    [] ins.kind = "MINUS" -> {ins.op1}
    [] OTHER -> {ins.op1, ins.op2}

DceContinues ==
  /\ phase = "dce" /\ pos > 0
  /\ pos' = pos - 1
  /\ UNCHANGED <<phase, ir, blocks, block, bi, const_map, output, before>>

(* Mutant of DceUserVariable: what a user's variable is set from is not    *)
(* put in use.                                                             *)
DceUserVariableForgets ==
  /\ DceContinues
  /\ Current.kind \in Copies \cup {"BINARY"}
  /\ Left(Current) \notin Temps
  /\ UNCHANGED <<use, eliminate_index, idle>>

DceUserVariable ==
  /\ DceContinues
  /\ Current.kind \in Copies \cup {"BINARY"}
  /\ Left(Current) \notin Temps
  /\ use' = use \cup VarNames(Right(Current))
  /\ UNCHANGED <<eliminate_index, idle>>

(* Mutant of DceLiveCopy: the right side of a live copy is not put in use. *)
DceLiveCopyForgets ==
  /\ DceContinues
  /\ Current.kind \in Copies
  /\ Left(Current) \in Temps \cap use
  /\ use' = use \ {Left(Current)}
  /\ UNCHANGED <<eliminate_index, idle>>

DceLiveCopy ==
  /\ DceContinues
  /\ Current.kind \in Copies
  /\ Left(Current) \in Temps \cap use
  /\ use' = (use \ {Left(Current)}) \cup VarNames(Right(Current))
  /\ UNCHANGED <<eliminate_index, idle>>

DceDeadCopy ==
  /\ DceContinues
  /\ Current.kind \in Copies
  /\ Left(Current) \in Temps \ use
  /\ use' = use \ {Left(Current)}
  /\ eliminate_index' = eliminate_index \cup {pos}
  /\ UNCHANGED idle

(* The else that removes the instruction hangs on the test of op2: a live  *)
(* BINARY would go if op2 were a number.                                   *)
DceLiveBinary ==
  /\ DceContinues
  /\ Current.kind = "BINARY"
  /\ Current.result \in Temps \cap use
  /\ use' = (use \ {Current.result}) \cup VarNames(Right(Current))
  /\ eliminate_index' = IF IsVarName(Current.op2) THEN eliminate_index
                        ELSE eliminate_index \cup {pos}
  /\ UNCHANGED idle

(* A BINARY whose temporary is not in use is kept as it is.                *)
DceDeadBinary ==
  /\ DceContinues
  /\ Current.kind = "BINARY"
  /\ Current.result \in Temps \ use
  /\ idle' = idle \cup {pos}
  /\ UNCHANGED <<use, eliminate_index>>

DceRead ==
  /\ DceContinues
  /\ Current.kind = "READ"
  /\ use' = use \ {Current.op1}
  /\ UNCHANGED <<eliminate_index, idle>>

(* Mutant of Uses: ARG is taken for an instruction without operands.       *)
UsesWithoutArg(ins) ==
  CASE ins.kind \in {"PARAM", "WRITE", "RETURN", "ASSIGN_VALUE_IN_ADDRESS"} -> {ins.op1}
    [] ins.kind = "IF_GOTO" -> {ins.op1, ins.op2}
    [] ins.kind = "ARRAY_OFFSET" -> {ins.op2}
    [] ins.kind = "CALL" -> {ins.result}
    [] OTHER -> {}

(* The operands the remaining cases put in use.                            *)
Uses(ins) ==
  CASE ins.kind \in {"PARAM", "ARG", "WRITE", "RETURN",
                     "ASSIGN_VALUE_IN_ADDRESS"} -> {ins.op1}
    [] ins.kind = "IF_GOTO" -> {ins.op1, ins.op2}
    [] ins.kind = "ARRAY_OFFSET" -> {ins.op2}
    [] ins.kind = "CALL" -> {ins.result}
    [] OTHER -> {}

DceOther ==
  /\ DceContinues
  /\ Current.kind \notin Copies \cup {"BINARY", "READ"}
  /\ use' = use \cup VarNames(Uses(Current))
  /\ UNCHANGED <<eliminate_index, idle>>

DceScanned ==
  /\ phase = "dce" /\ pos = 0
  /\ phase' = "keep" /\ pos' = 1
  /\ UNCHANGED <<ir, blocks, block, bi, const_map, use, eliminate_index, output, before, idle>>

(* Mutant of Keep: the index does not advance past an eliminated one.      *)
KeepStuck ==
  /\ phase = "keep" /\ pos <= Len(blocks[bi])
  /\ block' = IF pos \in eliminate_index THEN block ELSE Append(block, Current)
  /\ pos' = IF pos \in eliminate_index THEN pos ELSE pos + 1
  /\ UNCHANGED <<phase, ir, blocks, bi, const_map, use, eliminate_index, output, before, idle>>

(* The second loop copies what is not eliminated.                          *)
Keep ==
  /\ phase = "keep" /\ pos <= Len(blocks[bi])
  /\ block' = IF pos \in eliminate_index THEN block ELSE Append(block, Current)
  /\ pos' = pos + 1
  /\ UNCHANGED <<phase, ir, blocks, bi, const_map, use, eliminate_index, output, before, idle>>

DceBlockEnd ==
  /\ phase = "keep" /\ pos > Len(blocks[bi])
  /\ blocks' = [blocks EXCEPT ![bi] = block]
  /\ block' = <<>>
  /\ use' = {} /\ eliminate_index' = {} /\ idle' = {}
  /\ IF bi < Len(blocks)
     THEN phase' = "dce" /\ bi' = bi + 1 /\ pos' = Len(blocks[bi + 1])
     ELSE phase' = "concat" /\ bi' = 1 /\ pos' = 1
  /\ UNCHANGED <<ir, const_map, output, before>>

-----------------------------------------------------------------------------
(* The concatenation at the end of GenerateOptimizedIR.                    *)
Concatenate ==
  /\ phase = "concat" /\ bi <= Len(blocks)
  /\ output' = output \o blocks[bi]
  /\ bi' = bi + 1
  /\ UNCHANGED <<phase, ir, blocks, block, pos, const_map, use, eliminate_index, before, idle>>

Return ==
  /\ phase = "concat" /\ bi > Len(blocks)
  /\ phase' = "done"
  /\ UNCHANGED <<ir, blocks, block, bi, pos, const_map, use, eliminate_index,
                 output, before, idle>>

Generate == GenFirst \/ GenLabel \/ GenJump \/ GenOther \/ GenEnd
Check == GiveUp \/ StartPropagation
Propagate ==
  \/ PropConstant \/ PropLiteralTooLarge \/ PropAssignKnown
  \/ PropAssignUnknown \/ PropFold \/ PropDivisionTraps \/ PropCopy
  \/ PropBlockEnd \/ StartElimination
Eliminate ==
  \/ DceUserVariable \/ DceLiveCopy \/ DceDeadCopy \/ DceLiveBinary
  \/ DceDeadBinary \/ DceRead \/ DceOther \/ DceScanned \/ Keep \/ DceBlockEnd

Next == Generate \/ Check \/ Propagate \/ Eliminate \/ Concatenate \/ Return

Spec == Init /\ [][Next]_vars

(* The pass runs on the compiler's only thread until it returns.           *)
FairSpec == Spec /\ WF_vars(Next)

-----------------------------------------------------------------------------
(* What the pass has to keep true.                                         *)

Phases == {"start", "blocks", "check", "prop", "dce", "keep", "concat", "done",
           "crashed"}

(* Every variable has its type, and an index into blocks is in range while *)
(* a pass uses it.                                                         *)
TypeOK ==
  /\ phase \in Phases
  /\ ir \in Seq(Instructions)
  /\ blocks \in Seq(Seq(Instructions))
  /\ block \in Seq(Instructions)
  /\ bi \in Nat \ {0}
  /\ pos \in Nat
  /\ phase \in {"blocks", "prop", "keep"} => pos # 0
  /\ phase \in {"check", "prop", "dce", "keep"} => Len(blocks) > 0
  /\ phase \in {"dce", "keep"} => bi <= Len(blocks)
  /\ phase = "dce" => pos <= Len(blocks[bi])
  /\ const_map \in [Names -> IntW \cup {Unknown}]
  /\ use \subseteq Operands
  /\ eliminate_index \subseteq Nat /\ idle \subseteq Nat
  /\ output \in Seq(Instructions)
  /\ before \in Seq(Seq(Instructions))

(* A label is only the first instruction of a block and a jump only its    *)
(* last, in every form the passes give it.  Control can thus run through   *)
(* the part of a block that lies in one function from its top down only,   *)
(* up to its end or to a RETURN, as both passes assume.  FUNCTION and      *)
(* RETURN themselves do not cut: a block may hold the end of one function  *)
(* and the beginning of the next.                                          *)
LabelFirstJumpLast(b) ==
  \A i \in 1..Len(b) :
    /\ b[i].kind = "LABEL" => i = 1
    /\ b[i].kind \in Jumps => i = Len(b)

LabelsFirstJumpsLast == \A k \in 1..Len(blocks) : LabelFirstJumpLast(blocks[k])

(* A name in const_map is there because the rewritten block has set it to  *)
(* that constant, and no later copy has set it to anything else: only a    *)
(* kind that PropagateConstant copies blindly can have changed it since.   *)
ConstMapFromLastCopy ==
  phase = "prop" =>
    \A v \in Names : Known(v) =>
      \E j \in 1..Len(block) :
        /\ block[j] = Constant(v, const_map[v])
        /\ \A m \in j + 1..Len(block) :
             Defined(block[m]) = v => block[m].kind \notin {"CONSTANT", "ASSIGN"}

(* t is read at or after instruction i of b, less the instructions in      *)
(* drop, before any of them defines it again.                              *)
LiveFrom(b, drop, t, i) ==
  \E j \in i..Len(b) :
    /\ j \notin drop /\ t \in Read(b[j])
    /\ \A m \in i..j - 1 : m \in drop \/ Defined(b[m]) # t

Dropped == eliminate_index \cup idle

(* The backward scan has in use every temporary that what it has scanned   *)
(* still needs, the operands of the idle BINARYs apart; address            *)
(* temporaries are the exception it can afford, since nothing it removes   *)
(* defines one.                                                            *)
UseCoversReads ==
  phase = "dce" =>
    \A t \in Temps \ AddrTemps :
      LiveFrom(blocks[bi], Dropped, t, pos + 1) => t \in use

(* EliminateLocalDeadCode removes nothing but assignments to temporaries,  *)
(* and what it removes or leaves idle reaches only what is removed or idle *)
(* itself: no value the block stores, passes, tests or prints depends on   *)
(* it.                                                                     *)
EliminatedIsDead ==
  phase \in {"dce", "keep"} =>
    \A k \in Dropped :
      /\ k \in 1..Len(blocks[bi])
      /\ blocks[bi][k].kind \in {"CONSTANT", "ASSIGN", "MINUS", "BINARY"}
      /\ Defined(blocks[bi][k]) \in Temps \ AddrTemps
      /\ ~ LiveFrom(blocks[bi], Dropped, Defined(blocks[bi][k]), k + 1)

(* What Project3-Report.md says of the removed code: its variable is never *)
(* used later.                                                             *)
RemovedIsNeverRead ==
  phase = "keep" =>
    \A k \in eliminate_index :
      ~ LiveFrom(blocks[bi], eliminate_index, Defined(blocks[bi][k]), k + 1)

(* Project3-Report.md says that a temporary is never accessed from two     *)
(* basic blocks: the pass never has to give up.                            *)
TemporariesStayInBlock == phase = "check" => ~ CheckIfTempVarCrossBasicBlock

(* The pass ends: none of its loops spins.                                 *)
Terminates == <>(phase \in {"done", "crashed"})

=============================================================================
