------------------------------- MODULE Emitter -------------------------------
(***************************************************************************)
(* The MIPS back end (src/project4/mips32.c, variableLinkedList.c).        *)
(* emit_code walks the list of TAC instructions and calls one handler per  *)
(* instruction.  A handler asks for registers one after the other, which   *)
(* enters variables in linklist and emits their loads, and emits its own   *)
(* instructions.  One action is one handler (one turn of its loop for      *)
(* emit_param).                                                            *)
(***************************************************************************)
EXTENDS Tac, FiniteSets

CONSTANT Programs  \* the lists tac_from_buffer returns, less their NONE nodes

(* A parameter and an argument are variables, and what & is put before is  *)
(* a pointer (tac_init_addr asserts it).                                   *)
ASSUME ProgramsAssumption ==
  /\ Programs \subseteq Seq(Code)
  /\ \A p \in Programs : \A i \in 1..Len(p) :
       /\ p[i].kind \in {"PARAM", "ARG"} => IsVariable(p[i].r1)
       /\ p[i].kind = "ADDR" => p[i].r1.kind = "pointer"

(* The instructions whose handler stores what it asked a register for.     *)
Sets == {"ASSIGN", "FETCH", "CALL", "READ"} \cup Arithmetic

(* translate_Args evaluates an argument into a temporary of its own before *)
(* it prints the ARG.  A program that passes on the value of write, which  *)
(* has none, is not one of these.                                          *)
ASSUME ArgumentsAssumption ==
  \A p \in Programs : \A i \in 1..Len(p) :
    p[i].kind = "ARG" =>
      \E j \in 1..i - 1 : p[j].kind \in Sets /\ p[j].left.name = p[i].r1.name

(* All parameters of a file are in one table of variables, and the analyzer *)
(* reports the second of a name.                                           *)
ASSUME ParametersAssumption ==
  \A p \in Programs : \A i, j \in 1..Len(p) :
    p[i].kind = "PARAM" /\ p[j].kind = "PARAM" /\ p[i].r1.name = p[j].r1.name => i = j

VARIABLES
  phase,         \* "emit", "done" or "aborted" (assert, null pointer)
  ir,            \* the TAC list
  tac_code,      \* the node emit_code is at
  linklist,      \* [key, arrayOffset] of the variables entered so far
  a0_a3_list,    \* [key, aRegister] of the parameters entered so far
  param_count,   \* emit_param: paramCount, 0 outside its loop
  available,     \* the registers whose _available flag is true
  write_offset,  \* global_write_offset
  code           \* what is emitted, one sequence per TAC instruction

vars == <<phase, ir, tac_code, linklist, a0_a3_list, param_count, available,
          write_offset, code>>

Allocatable == {"t0", "t1", "t2", "s0", "s1", "s2"}

Init ==
  /\ phase = "emit"
  /\ ir \in Programs
  /\ tac_code = 1
  /\ linklist = <<>> /\ a0_a3_list = <<>> /\ param_count = 0
  /\ available = Allocatable
  /\ write_offset = 12345
  /\ code = <<>>

-----------------------------------------------------------------------------
(* variableLinkedList.c.                                                   *)

Has(list, name) == \E i \in 1..Len(list) : list[i].key = name

(* Neither list has a key twice, so the first match is the match.          *)
Found(list, name) == list[CHOOSE i \in 1..Len(list) : list[i].key = name]

findOffset(list, name) ==
  IF Has(list, name) THEN Found(list, name).arrayOffset ELSE -1

insertLast(list, name) ==
  Append(list, [key |-> name,
                arrayOffset |-> IF list = <<>> THEN 0
                                ELSE list[Len(list)].arrayOffset + 4])

(* Mutant of Entered: the list is not searched before the insertion.       *)
EnteredAgain(list, name) == insertLast(list, name)

(* What get_register and get_register_w do before they load or store.      *)
Entered(list, name) == IF Has(list, name) THEN list ELSE insertLast(list, name)

-----------------------------------------------------------------------------
(* One emitted instruction: operation, registers, number, label.           *)
Op(op, rd, rs, rt, imm, target) ==
  [op |-> op, rd |-> rd, rs |-> rs, rt |-> rt, imm |-> imm, target |-> target]

None == "zero"
Lw(rd, offset) == Op("lw", rd, None, None, offset, NoName)
Sw(rs, offset) == Op("sw", None, rs, None, offset, NoName)
Li(rd, value) == Op("li", rd, None, None, value, NoName)
Move(rd, rs) == Op("move", rd, rs, None, 0, NoName)
Neg(r) == Op("neg", r, r, None, 0, NoName)
Addi(rd, rs, value) == Op("addi", rd, rs, None, value, NoName)
Three(op, rd, rs, rt) == Op(op, rd, rs, rt, 0, NoName)
SwStack(rs, offset) == Op("sw_sp", None, rs, None, offset, NoName)
LwStack(rd, offset) == Op("lw_sp", rd, None, None, offset, NoName)
Stack(size) == Addi("sp", "sp", size)
Jump(op, target) == Op(op, None, None, None, 0, target)

-----------------------------------------------------------------------------
(* get_register and get_register_w, as steps on the state they share.  A   *)
(* request is for a variable to be read or written.                        *)
ReadOf(opd) == [mode |-> "r", opd |-> opd]
WriteOf(opd) == [mode |-> "w", opd |-> opd]

FirstFree(free, r0, r1, r2, r3) ==
  IF r0 \in free THEN r0 ELSE IF r1 \in free THEN r1 ELSE IF r2 \in free THEN r2 ELSE r3

ArgumentRegister(i) ==
  CASE i = 0 -> "a0" [] i = 1 -> "a1" [] i = 2 -> "a2" [] OTHER -> "a3"

(* Mutant of get_register_w: the offset is looked up before the insertion. *)
StaleOffset(st, name) ==
  LET reg == FirstFree(st.free, "s0", "s1", "s2", "s3")
  IN [st EXCEPT !.list = Entered(st.list, name), !.free = @ \ {reg},
                !.offset = findOffset(st.list, name), !.regs = Append(@, reg)]

get_register_w(st, name) ==
  LET list == Entered(st.list, name)
      reg == FirstFree(st.free, "s0", "s1", "s2", "s3")
  IN [st EXCEPT !.list = list, !.free = @ \ {reg},
                !.offset = findOffset(list, name), !.regs = Append(@, reg)]

(* A parameter is read where it was passed; all else is loaded.            *)
get_register(st, name) ==
  IF Has(a0_a3_list, name)
  THEN [st EXCEPT !.regs =
          Append(@, ArgumentRegister(Found(a0_a3_list, name).aRegister))]
  ELSE LET list == Entered(st.list, name)
           reg == FirstFree(st.free, "t0", "t1", "t2", "t3")
       IN [st EXCEPT !.list = list, !.free = @ \ {reg}, !.regs = Append(@, reg),
                     !.loads = Append(@, Lw(reg, findOffset(list, name)))]

Grant(st, requests, i) ==
  IF i > Len(requests) THEN st
  ELSE IF requests[i].mode = "w" THEN get_register_w(st, requests[i].opd.name)
  ELSE get_register(st, requests[i].opd.name)

(* No handler makes more than three requests.                              *)
Granted(requests) ==
  LET st0 == [list |-> linklist, free |-> available, offset |-> write_offset,
              regs |-> <<>>, loads |-> <<>>]
  IN Grant(Grant(Grant(st0, requests, 1), requests, 2), requests, 3)

(* The requests of a handler, in the order it makes them.                  *)
Sources(r1, r2) ==
  (IF IsConstant(r1) THEN <<>> ELSE <<ReadOf(r1)>>) \o
  (IF IsConstant(r2) THEN <<>> ELSE <<ReadOf(r2)>>)

(* Mutant of AddSources: a register is asked for every operand.            *)
SourcesOfBoth(r1, r2) == <<ReadOf(r1), ReadOf(r2)>>

(* emit_add and emit_sub read the first operand that is not a constant.    *)
AddSources(r1, r2) ==
  IF IsConstant(r1) THEN <<ReadOf(r2)>>
  ELSE IF IsConstant(r2) THEN <<ReadOf(r1)>>
  ELSE <<ReadOf(r1), ReadOf(r2)>>

(* emit_mul and emit_div ask get_register_w for a constant.                *)
MulSources(r1, r2) ==
  IF IsConstant(r1) THEN <<WriteOf(r1), ReadOf(r2)>>
  ELSE IF IsConstant(r2) THEN <<ReadOf(r1), WriteOf(r2)>>
  ELSE <<ReadOf(r1), ReadOf(r2)>>

Requests(tac) ==
  CASE tac.kind = "ASSIGN" -> <<WriteOf(tac.left)>> \o Sources(tac.r1, Number(0))
    [] tac.kind \in {"ADD", "SUB"} -> <<WriteOf(tac.left)>> \o AddSources(tac.r1, tac.r2)
    [] tac.kind \in {"MUL", "DIV"} -> <<WriteOf(tac.left)>> \o MulSources(tac.r1, tac.r2)
    [] tac.kind \in {"ADDR", "FETCH"} -> <<WriteOf(tac.left), ReadOf(tac.r1)>>
    [] tac.kind = "DEREF" -> <<ReadOf(tac.r1), ReadOf(tac.r2)>>
    [] tac.kind \in Branches -> Sources(tac.r1, tac.r2)
    [] tac.kind = "RETURN" -> Sources(tac.r1, Number(0))
    [] tac.kind \in {"CALL", "READ"} -> <<WriteOf(tac.left)>>
    [] tac.kind = "WRITE" -> <<WriteOf(tac.r1)>>
    [] OTHER -> <<>>

-----------------------------------------------------------------------------
(* The handlers.                                                           *)

Now == ir[tac_code]

(* get_register and get_register_w assert that they get a variable.        *)
Asserted == \A i \in 1..Len(Requests(Now)) : IsVariable(Requests(Now)[i].opd)

Handles(kinds) ==
  /\ phase = "emit" /\ tac_code <= Len(ir)
  /\ Now.kind \in kinds
  /\ Asserted

Grants == Granted(Requests(Now))

(* A handler emits ops and hands over to the next instruction.             *)
Emit(ops) ==
  /\ linklist' = Grants.list
  /\ write_offset' = Grants.offset
  /\ code' = Append(code, ops)
  /\ tac_code' = tac_code + 1
  /\ UNCHANGED <<phase, ir, a0_a3_list, param_count>>

restore_reg == available' = Allocatable

X == Grants.regs[1]
Y == Grants.regs[2]
Z == Grants.regs[3]
Loads == Grants.loads
Store == Sw(X, Grants.offset)

(* Mutant of EmitLabel: a function begins with an empty list of variables. *)
LabelForgets ==
  /\ Handles({"LABEL", "FUNCTION"})
  /\ linklist' = IF Now.kind = "FUNCTION" THEN <<>> ELSE linklist
  /\ code' = Append(code, <<Jump("label", Now.target)>>)
  /\ tac_code' = tac_code + 1
  /\ UNCHANGED <<phase, ir, a0_a3_list, param_count, available, write_offset>>

EmitLabel ==
  /\ Handles({"LABEL", "FUNCTION"})
  /\ Emit(<<Jump("label", Now.target)>>)
  /\ UNCHANGED available

EmitGoto ==
  /\ Handles({"GOTO"})
  /\ Emit(<<Jump("j", Now.target)>>)
  /\ UNCHANGED available

EmitNothing ==
  /\ Handles({"DEC", "ARG"})
  /\ Emit(<<>>)
  /\ UNCHANGED available

(* Mutant of EmitAssign: restore_reg is not called.                        *)
AssignKeeps ==
  /\ Handles({"ASSIGN"})
  /\ Emit(Loads \o <<IF IsConstant(Now.r1) THEN Li(X, Now.r1.value) ELSE Move(X, Y),
                    Store>>)
  /\ available' = Grants.free

EmitAssign ==
  /\ Handles({"ASSIGN"})
  /\ Emit(Loads \o <<IF IsConstant(Now.r1) THEN Li(X, Now.r1.value) ELSE Move(X, Y),
                    Store>>)
  /\ restore_reg

EmitAdd ==
  /\ Handles({"ADD"})
  /\ Emit(Loads \o <<IF IsConstant(Now.r1) THEN Addi(X, Y, Now.r1.value)
                    ELSE IF IsConstant(Now.r2) THEN Addi(X, Y, Now.r2.value)
                    ELSE Three("add", X, Y, Z),
                    Store>>)
  /\ restore_reg

(* A constant minus a variable is negated in the variable's register.      *)
EmitSub ==
  /\ Handles({"SUB"})
  /\ Emit(Loads \o (IF IsConstant(Now.r1) THEN <<Neg(Y), Addi(X, Y, Now.r1.value)>>
                    ELSE IF IsConstant(Now.r2) THEN <<Addi(X, Y, -Now.r2.value)>>
                    ELSE <<Three("sub", X, Y, Z)>>) \o <<Store>>)
  /\ restore_reg

EmitMul ==
  /\ Handles({"MUL"})
  /\ Emit(Loads \o <<Three("mul", X, Y, Z), Store>>)
  /\ restore_reg

EmitDiv ==
  /\ Handles({"DIV"})
  /\ Emit(Loads \o <<Three("div", None, Y, Z), Three("mflo", X, None, None), Store>>)
  /\ restore_reg

EmitFetch ==
  /\ Handles({"FETCH"})
  /\ Emit(Loads \o <<Three("lw_at", X, Y, None), Store>>)
  /\ restore_reg

EmitDeref ==
  /\ Handles({"DEREF"})
  /\ Emit(Loads \o <<Three("sw_at", None, Y, X)>>)
  /\ restore_reg

(* A constant to compare goes to t5 or t6, which nothing else uses.        *)
EmitBranch ==
  /\ Handles(Branches)
  /\ LET first == IF IsConstant(Now.r1) THEN "t5" ELSE X
         second == IF IsConstant(Now.r2) THEN "t6"
                   ELSE Grants.regs[Len(Grants.regs)]
         load1 == IF IsConstant(Now.r1) THEN <<Li("t5", Now.r1.value)>> ELSE <<>>
         load2 == IF IsConstant(Now.r2) THEN <<Li("t6", Now.r2.value)>> ELSE <<>>
     IN Emit(load1 \o Loads \o load2
               \o <<Op(Now.kind, None, first, second, 0, Now.target)>>)
  /\ restore_reg

(* The only handler with a request that does not restore the registers.    *)
EmitReturn ==
  /\ Handles({"RETURN"})
  /\ Emit(Loads \o <<IF IsConstant(Now.r1) THEN Li("v0", Now.r1.value)
                    ELSE Move("v0", X),
                    Jump("jr", NoName)>>)
  /\ available' = Grants.free

(* countArgs: the ARGs that immediately precede the call.                  *)
IsArg(i) == i \in 1..tac_code - 1 /\ \A j \in i..tac_code - 1 : ir[j].kind = "ARG"

(* The last ARG goes to $a0.  From the fifth on each is loaded into a      *)
(* register of its own that MIPS does not have ($a4, $a5, ...), and no     *)
(* assembler takes the line; which one it is, is left out.                 *)
ArgumentLoad(i, offset) ==
  IF i <= 3 THEN Lw(ArgumentRegister(i), offset)
  ELSE Op("lw_none", None, None, None, offset, NoName)

(* Mutant of ArgumentLoads: the first ARG goes to $a0.                     *)
LoadsForwards ==
  LET count == Cardinality({i \in 1..tac_code - 1 : IsArg(i)})
  IN [i \in 1..count |->
        ArgumentLoad(count - i, findOffset(linklist, ir[tac_code - i].r1.name))]

ArgumentLoads ==
  LET count == Cardinality({i \in 1..tac_code - 1 : IsArg(i)})
  IN [i \in 1..count |->
        ArgumentLoad(i - 1, findOffset(linklist, ir[tac_code - i].r1.name))]

Saved == <<"ra", "a0", "a1", "a2", "a3">>

EmitCall ==
  /\ Handles({"CALL"})
  /\ Emit(<<Stack(-20)>> \o [i \in 1..5 |-> SwStack(Saved[i], 4 * (i - 1))]
          \o ArgumentLoads \o <<Jump("jal", Now.target)>>
          \o [i \in 1..5 |-> LwStack(Saved[i], 4 * (i - 1))]
          \o <<Stack(20), Move(X, "v0"), Store>>)
  /\ restore_reg

(* Mutant of EmitParam: paramCount is incremented after insertParam.       *)
CountsLate ==
  /\ Handles({"PARAM"})
  /\ a0_a3_list' =
       IF Has(a0_a3_list, Now.r1.name) THEN a0_a3_list
       ELSE Append(a0_a3_list, [key |-> Now.r1.name, aRegister |-> param_count - 1])
  /\ code' = Append(code, <<>>)
  /\ tac_code' = tac_code + 1
  /\ param_count' = IF tac_code < Len(ir) /\ ir[tac_code + 1].kind = "PARAM"
                    THEN param_count + 1 ELSE 0
  /\ UNCHANGED <<phase, ir, linklist, available, write_offset>>

(* One turn of emit_param's loop.  After the last PARAM it looks at the    *)
(* next node, which has to exist.                                          *)
EmitParam ==
  /\ Handles({"PARAM"})
  /\ a0_a3_list' =
       IF Has(a0_a3_list, Now.r1.name) THEN a0_a3_list
       ELSE Append(a0_a3_list, [key |-> Now.r1.name, aRegister |-> param_count])
  /\ code' = Append(code, <<>>)
  /\ tac_code' = tac_code + 1
  /\ IF tac_code = Len(ir)
     THEN phase' = "aborted" /\ param_count' = param_count + 1
     ELSE /\ param_count' = IF ir[tac_code + 1].kind = "PARAM"
                            THEN param_count + 1 ELSE 0
          /\ UNCHANGED phase
  /\ UNCHANGED <<ir, linklist, available, write_offset>>

(* Mutant of EmitRead: the stack grows upwards.                            *)
ReadPushesUp ==
  /\ Handles({"READ"})
  /\ Emit(<<Stack(4), SwStack("ra", 0), Jump("jal", "read"), LwStack("ra", 0),
            Stack(-4), Move(X, "v0"), Store>>)
  /\ restore_reg

EmitRead ==
  /\ Handles({"READ"})
  /\ Emit(<<Stack(-4), SwStack("ra", 0), Jump("jal", "read"), LwStack("ra", 0),
            Stack(4), Move(X, "v0"), Store>>)
  /\ restore_reg

(* The variable is not loaded: $s0 still holds what was assigned last.     *)
EmitWrite ==
  /\ Handles({"WRITE"})
  /\ Emit(<<Move("t7", "a0"), Move("a0", X), Stack(-4), SwStack("ra", 0),
            Jump("jal", "write"), LwStack("ra", 0), Stack(4), Move("a0", "t7")>>)
  /\ restore_reg

(* An assertion fails: for a product with a constant, and for an address.  *)
Abort ==
  /\ phase = "emit" /\ tac_code <= Len(ir)
  /\ ~ Asserted
  /\ phase' = "aborted"
  /\ UNCHANGED <<ir, tac_code, linklist, a0_a3_list, param_count, available,
                 write_offset, code>>

Finish ==
  /\ phase = "emit" /\ tac_code > Len(ir)
  /\ phase' = "done"
  /\ UNCHANGED <<ir, tac_code, linklist, a0_a3_list, param_count, available,
                 write_offset, code>>

Next ==
  \/ EmitLabel \/ EmitGoto \/ EmitNothing \/ EmitAssign \/ EmitAdd \/ EmitSub
  \/ EmitMul \/ EmitDiv \/ EmitFetch \/ EmitDeref \/ EmitBranch \/ EmitReturn
  \/ EmitCall \/ EmitParam \/ EmitRead \/ EmitWrite \/ Abort \/ Finish

Spec == Init /\ [][Next]_vars

-----------------------------------------------------------------------------
(* What the emitted code has to be.                                        *)

Registers == {None, "v0", "a0", "a1", "a2", "a3", "t0", "t1", "t2", "t3",
              "t5", "t6", "t7", "s0", "s1", "s2", "s3", "sp", "ra"}

Operations == Branches \cup
  {"label", "j", "jal", "jr", "lw", "sw", "li", "move", "neg", "addi", "add",
   "sub", "mul", "div", "mflo", "lw_at", "sw_at", "lw_sp", "sw_sp",
   "lw_none"}

Ops == [op: Operations, rd: Registers, rs: Registers, rt: Registers, imm: Int,
        target: Targets \cup {NoName, "read", "write"}]

Entries == [key: Names, arrayOffset: Nat]

(* Every variable has its type; there is one sequence of emitted           *)
(* instructions for each TAC instruction passed.                           *)
TypeOK ==
  /\ phase \in {"emit", "done", "aborted"}
  /\ ir \in Seq(Code)
  /\ tac_code \in 1..Len(ir) + 1
  /\ linklist \in Seq(Entries)
  /\ a0_a3_list \in Seq([key: Names, aRegister: Nat])
  /\ param_count \in Nat
  /\ available \subseteq Allocatable
  /\ write_offset \in Nat
  /\ code \in Seq(Seq(Ops))
  /\ Len(code) = tac_code - 1

(* Two variables never share a word of array, and the words are handed out *)
(* without a gap: insertLast enters no variable twice and counts right.    *)
Distinct(list) ==
  \A i, j \in 1..Len(list) :
    /\ list[i].arrayOffset = 4 * (i - 1)
    /\ list[i].key = list[j].key => i = j

OffsetsDistinct == Distinct(linklist)

(* A variable stays where it is: code emitted earlier has its offset.      *)
OffsetsStable ==
  [][\A n \in Names : Has(linklist, n) =>
       findOffset(linklist', n) = findOffset(linklist, n)]_vars

Emitted(k) == {code[k][i] : i \in 1..Len(code[k])}

(* The RETURNs of a variable before k since the last handler that calls    *)
(* restore_reg.                                                            *)
KeepsRegisters == {"LABEL", "FUNCTION", "GOTO", "DEC", "ARG", "PARAM", "RETURN"}

Unrestored(k) ==
  {i \in 1..k - 1 : /\ ir[i].kind = "RETURN" /\ IsVariable(ir[i].r1)
                    /\ \A j \in i..k - 1 : ir[j].kind \in KeepsRegisters}

(* The ARGs directly in front of k.                                        *)
ArgumentPlaces(k) == {i \in 1..k - 1 : \A j \in i..k - 1 : ir[j].kind = "ARG"}

(* Within the code of one instruction no register is loaded twice, so a    *)
(* loaded operand is still there when it is used: what RETURN does not     *)
(* restore leaves registers enough after two of them.  After three, $t0,   *)
(* $t1 and $t2 are all taken and two operands would be loaded into $t3.    *)
OperandsApart ==
  \A k \in 1..Len(code) : \A i, j \in 1..Len(code[k]) :
    /\ Cardinality(Unrestored(k)) <= 2
    /\ code[k][i].op = "lw" /\ code[k][j].op = "lw" /\ code[k][i].rd = code[k][j].rd
    => i = j

(* global_write_offset is only right until the next get_register_w: what   *)
(* is stored goes to the variable on the left, and what is loaded is an    *)
(* operand or one of the arguments.                                        *)
Arguments(k) == {ir[i].r1.name : i \in ArgumentPlaces(k)}

AddressesAreOperands ==
  \A k \in 1..Len(code) : \A e \in Emitted(k) :
    /\ e.op = "sw" => /\ Has(linklist, ir[k].left.name)
                      /\ e.imm = findOffset(linklist, ir[k].left.name)
    /\ e.op \in {"lw", "lw_none"} =>
         \E n \in {ir[k].r1.name, ir[k].r2.name} \cup Arguments(k) :
           Has(linklist, n) /\ e.imm = findOffset(linklist, n)

(* The j-th argument of a call, the j-th ARG from its end, goes to the     *)
(* register in which the called function looks for its j-th parameter.     *)
ArgumentsMeetParameters ==
  \A k, m \in 1..Len(code) : \A j \in 1..4 :
    /\ ir[k].kind = "CALL" /\ ir[m].kind = "FUNCTION" /\ ir[m].target = ir[k].target
    /\ m + j <= Len(code) /\ \A i \in m + 1..m + j : ir[i].kind = "PARAM"
    /\ j < k /\ \A i \in k - j..k - 1 : ir[i].kind = "ARG"
    => Lw(ArgumentRegister(Found(a0_a3_list, ir[m + j].r1.name).aRegister),
          findOffset(linklist, ir[k - j].r1.name)) \in Emitted(k)

(* Project4-Report.md: an rvalue is in a parameter register or is loaded   *)
(* from memory.  So what an instruction reads, its own code has put there. *)
RValuesAreLoaded ==
  \A k \in 1..Len(code) : \A i \in 1..Len(code[k]) :
    \A r \in {code[k][i].rs, code[k][i].rt} :
      \/ r \in {None, "sp", "ra", "a0", "a1", "a2", "a3"}
      \/ r = "v0" /\ \E j \in 1..i - 1 : code[k][j].op = "jal"
      \/ \E j \in 1..i - 1 : code[k][j].rd = r

(* Project4-Report.md: to write a variable, similar steps are followed as  *)
(* to read one.  So a parameter, read from its register, is written there. *)
ParametersAreWrittenWhereRead ==
  \A k \in 1..Len(code) :
    Has(a0_a3_list, ir[k].left.name) => \A e \in Emitted(k) : e.op # "sw"

=============================================================================
