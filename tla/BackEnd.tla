------------------------------- MODULE BackEnd -------------------------------
(***************************************************************************)
(* The back end as a whole (main.c, tac.c, mips32.c): it reads the file    *)
(* the compiler has written, emits MIPS code, and the code is run.  Beside *)
(* the processor the program itself is performed, one instruction of it    *)
(* when the processor gets to the end of that instruction's code.          *)
(***************************************************************************)
EXTENDS TacReader, Activations, Mips

VARIABLES
  tac_code, linklist, a0_a3_list, param_count, available, write_offset, code,
             \* the variables of Emitter
  processor, \* the run of the emitted code
  program,   \* what the compiler's program does
  owner,     \* history: the activation that set a variable last
  last,      \* history: the variable that was set last
  departed   \* history: the program has done what the back end does not keep

emitter == <<tac_code, linklist, a0_a3_list, param_count, available, write_offset, code>>
run == <<processor, program, owner, last, departed>>
all == <<vars, emitter, run>>

E == INSTANCE Emitter WITH Names <- Texts, Programs <- {}

Source == source.code

(* No function begins between two instructions.                            *)
SameFunction(c, i, j) ==
  \A f \in 1..Len(c) : c[f].kind = "FUNCTION" => (f <= i <=> f <= j)

(* Instruction j is the q-th PARAM of its function.                        *)
IsPlace(j, q) ==
  /\ q \in 1..j - 1
  /\ Source[j - q].kind = "FUNCTION"
  /\ \A i \in j - q + 1..j : Source[i].kind = "PARAM"

(* Of any function: a0_a3_list has the parameters of the whole file.       *)
IsParameter(n) == \E j \in 1..Len(Source) : Source[j].kind = "PARAM" /\ Source[j].op1 = n

(* There are m PARAMs behind f; there are m ARGs in front of k.            *)
Takes(f, m) ==
  /\ f + m <= Len(Source)
  /\ \A i \in f + 1..f + m : Source[i].kind = "PARAM"
  /\ f + m < Len(Source) => Source[f + m + 1].kind # "PARAM"

Passes(k, m) ==
  /\ m \in 0..k - 1
  /\ \A i \in k - m..k - 1 : Source[i].kind = "ARG"
  /\ m < k - 1 => Source[k - m - 1].kind # "ARG"

(* The call at k passes as many arguments as the function takes.           *)
Fits(k) ==
  \E f \in 1..Len(Source), m \in 0..k - 1 :
    /\ Source[f].kind = "FUNCTION" /\ Source[f].op1 = Source[k].op1
    /\ Takes(f, m) /\ Passes(k, m)

(* What the compiler guarantees of a program c that it has not warned of.  *)
(* It goes to a label of the same function; an argument, or what a minus   *)
(* is put before, is a temporary, which for an argument has been set; the  *)
(* ARGs of a call are directly in front of it; a parameter is in the table *)
(* of variables once; and read and write are declared before any other     *)
(* function.                                                               *)
Compiled(c) ==
  /\ \A i \in 1..Len(c) : c[i].kind \in {"GOTO", "IF_GOTO"} =>
       \E t \in 1..Len(c) :
         /\ c[t].kind = "LABEL" /\ SameFunction(c, i, t)
         /\ c[t].op1 = IF c[i].kind = "GOTO" THEN c[i].op1 ELSE c[i].result
  /\ \A i \in 1..Len(c) : c[i].kind \in {"ARG", "MINUS"} => c[i].op1 \in Temps
  /\ \A i \in 1..Len(c) : c[i].kind = "ARG" =>
       /\ \E j \in 1..i - 1 : Defined(c[j]) = c[i].op1
       /\ i < Len(c) /\ c[i + 1].kind \in {"ARG", "CALL"}
  /\ \A i, j \in 1..Len(c) : c[i].kind = "PARAM" =>
       /\ c[i].op1 \in Vars
       /\ c[j].kind = "PARAM" /\ c[j].op1 = c[i].op1 => i = j
  /\ \A i \in 1..Len(c) : c[i].kind = "FUNCTION" => c[i].op1 \notin {"read", "write"}

(* What the user types in is what the program reads.                       *)
ASSUME RunAssumption ==
  /\ \A o \in Outputs : o.warnings = 0 => Compiled(o.code)
  /\ Input \in Seq(Int) /\ Typed = Input

-----------------------------------------------------------------------------
BInit ==
  /\ Init
  /\ tac_code = 1 /\ linklist = <<>> /\ a0_a3_list = <<>> /\ param_count = 0
  /\ available = E!Allocatable /\ write_offset = 12345 /\ code = <<>>
  /\ processor = PoweredOn(E!Registers, Nowhere)
  /\ program = [ip |-> 0, frames |-> <<>>, args |-> <<>>, input |-> Input,
                out |-> <<>>, result |-> 0]
  /\ owner = [n \in Names |-> 0] /\ last = NoName /\ departed = FALSE

Read1 == ReadNext /\ UNCHANGED <<emitter, run>>

Emit1 == E!Next /\ UNCHANGED <<source, line, run>>

(* An assembler takes the code: there is a register to load, and a place   *)
(* to go to.                                                               *)
Assembles ==
  LET ops == UNION {E!Emitted(k) : k \in 1..Len(code)}
      labels == {code[k][1].target : k \in {k \in 1..Len(code) :
                                              code[k] # <<>> /\ code[k][1].op = "label"}}
  IN \A e \in ops :
       /\ e.op # "lw_none"
       /\ e.op \in BranchOps \cup {"j", "jal"} => e.target \in labels \cup {"read", "write"}

(* The code is loaded and main is called.                                  *)
Start ==
  /\ phase = "done" /\ Assembles
  /\ \E i \in 1..Len(Source) : Source[i].kind = "FUNCTION" /\ Source[i].op1 = "main"
  /\ phase' = "run"
  /\ processor' = PoweredOn(E!Registers, Address(code, "main"))
  /\ program' = Started(Source)
  /\ UNCHANGED <<source, line, ir, emitter, owner, last, departed>>

(* An operation without a value, or whose value is no int.                 *)
Overflows(ins, env) ==
  \/ ins.kind = "MINUS" /\ -env[ins.op1] \notin IntW
  \/ /\ ins.kind = "BINARY"
     /\ LET x == env[ins.op1] y == env[ins.op2]
        IN \/ ins.relation = "+" /\ x + y \notin IntW
           \/ ins.relation = "-" /\ x - y \notin IntW
           \/ ins.relation = "/" /\ (y = 0 \/ Quotient(x, y) \notin IntW)

(* What the back end is known not to keep: the value of a variable, global *)
(* or not, that a later activation has set before it is read again; a      *)
(* value that is written though another was computed last; an assignment   *)
(* to a parameter; a parameter behind the fourth, or one that is not       *)
(* passed.  And what has no meaning here: a variable the activation itself *)
(* has not set, a global one that only another has set included; a value   *)
(* that is no int; the end of a function without a return.                 *)
Departs(ins) ==
  \/ ins.kind \in {"ARRAY_OFFSET", "GET_VALUE_IN_ADDRESS", "ASSIGN_VALUE_IN_ADDRESS"}
  \/ \E n \in Read(ins) :
       n \notin DOMAIN Env(program) \/ (~ IsParameter(n) /\ owner[n] # Depth(program))
  \/ Overflows(ins, Env(program))
  \/ ins.kind = "WRITE" /\ ins.op1 # last
  \/ ins.kind # "PARAM" /\ IsParameter(Defined(ins))
  \/ ins.kind = "PARAM" /\ (program.args = <<>> \/ \A q \in 1..4 : ~ IsPlace(program.ip, q))
  \/ ins.kind = "CALL" /\ ~ Fits(program.ip)
  \/ /\ ins.kind \notin {"RETURN", "GOTO"}
     /\ program.ip = Len(Source) \/ Source[program.ip + 1].kind = "FUNCTION"

(* The variable an instruction sets, and in which activation.              *)
Sets1(ins) ==
  CASE ins.kind \in {"CALL", "PARAM"} -> [name |-> NoName, depth |-> 0]
    [] ins.kind = "RETURN" /\ Depth(program) > 1 ->
         [name |-> Source[program.frames[Depth(program)].back].result,
          depth |-> Depth(program) - 1]
    [] OTHER -> [name |-> Defined(ins), depth |-> Depth(program)]

Performs ==
  LET ins == Source[program.ip] set == Sets1(ins)
  IN IF Departs(ins) THEN departed' = TRUE /\ UNCHANGED <<program, owner, last>>
     ELSE /\ program' = Perform(Source, program)
          /\ IF set.name = NoName THEN UNCHANGED <<owner, last>>
             ELSE owner' = [owner EXCEPT ![set.name] = set.depth] /\ last' = set.name
          /\ UNCHANGED departed

(* One instruction of the processor.  What traps in the code of an         *)
(* instruction would be the last of it.                                    *)
Execute ==
  /\ phase = "run" /\ ~ Halted(processor) /\ ~ processor.trapped
  /\ processor.pc[1] <= Len(code)
  /\ ~ departed
  /\ processor' = Execute1(code, processor)
  /\ IF (processor'.pc[2] = 1 \/ processor'.trapped) /\ ~ Ended(program) THEN Performs
     ELSE UNCHANGED <<program, owner, last, departed>>
  /\ UNCHANGED <<vars, emitter>>

Next == Read1 \/ Emit1 \/ Start \/ Execute

BSpec == BInit /\ [][Next]_all

-----------------------------------------------------------------------------
(* What the emitted code has to do.                                        *)

(* Every variable has its type.  The stack grows downwards.                *)
TypeOK1 ==
  /\ phase \in {"read", "crashed", "emit", "aborted", "done", "run"}
  /\ phase # "read" /\ phase # "crashed" => Len(code) = tac_code - 1
  /\ phase = "run" =>
       /\ -processor.regs["sp"] \in Nat
       /\ processor.regs["ra"] \in (0..Len(code) + 1) \X Nat
       /\ \A r \in E!Registers \ {"sp", "ra"} : processor.regs[r] \in IntW
       /\ \A w \in DOMAIN processor.array : processor.array[w] \in IntW
       /\ program.ip \in 1..Len(Source)
       /\ owner \in [Names -> Nat]

(* No two names of the program have one text: a temporary without its '_'  *)
(* is no variable of the user's.                                           *)
NamesApart ==
  \A i, j \in 1..Len(Source) :
    \A n \in {Defined(Source[i])} \cap Names, m \in {Defined(Source[j])} \cap Names :
      Text(n) = Text(m) => n = m

(* An element of an array is used: its address is taken, or the size of an *)
(* element is computed with.                                               *)
UsesArray ==
  \E i \in 1..Len(Source) :
    Source[i].kind = "ARRAY_OFFSET" \/ ElementSize \in Read(Source[i])

(* The last function of the file has parameters and nothing in it.         *)
EndsInParameter == Source # <<>> /\ Source[Len(Source)].kind = "PARAM"

(* The back end translates every program the compiler prints, unless an    *)
(* element of an array is used in it: then the product with the size of an *)
(* element fails an assertion; or it ends in a parameter, behind which     *)
(* emit_param follows a null pointer.                                      *)
OnlyArraysAbort == phase = "aborted" /\ NamesAreSafe => UsesArray \/ EndsInParameter

(* Nor have two places control goes to one text.                           *)
TargetsApart ==
  \A i, j \in 1..Len(Source) :
    /\ Source[i].kind \in {"LABEL", "FUNCTION"} /\ Source[j].kind \in {"LABEL", "FUNCTION"}
    /\ Source[i].op1 = Source[j].op1
    => i = j

(* There are not three RETURNs without an instruction between them that    *)
(* has the registers restored.                                             *)
RegistersSuffice ==
  LET returns == {i \in 1..Len(Source) : Source[i].kind = "RETURN"}
  IN \A i, j, k \in returns :
       i < j /\ j < k => \E m \in i..k : Source[m].kind \notin E!KeepsRegisters

Regular ==
  /\ source.warnings = 0
  /\ NamesAreSafe /\ NamesApart /\ TargetsApart /\ RegistersSuffice /\ ~ UsesArray

Between == phase = "run" /\ processor.pc[2] = 1 /\ ~ departed /\ Regular

(* Whenever the processor has come to the end of an instruction's code, it *)
(* is at the code of the instruction the program has come to; both have    *)
(* printed and read the same, calls are nested the same, and they end      *)
(* together with the same value.  An exception is raised only where the    *)
(* program departs.                                                        *)
FollowsProgram ==
  /\ phase = "run" /\ Regular /\ processor.trapped => departed
  /\ Between =>
       /\ IF Ended(program)
          THEN Halted(processor) /\ processor.regs["v0"] = program.result
          ELSE /\ processor.pc[1] = program.ip
               /\ processor.regs["sp"] = -20 * (Depth(program) - 1)
       /\ processor.screen = program.out
       /\ processor.typed = program.input

(* Where the value of a variable is while the d-th activation is suspended *)
(* or running: a parameter in its register or where the call has saved it, *)
(* all else in array.                                                      *)
InParameter(d, q) ==
  IF d = Depth(program) THEN processor.regs[E!ArgumentRegister(q - 1)]
  ELSE Peek(processor.stack, -20 * d + 4 * q)

InArray(n) == Peek(processor.array, E!findOffset(linklist, Text(n).text))

Holds1(d, n) ==
  LET value == program.frames[d].env[n]
  IN IF IsParameter(n)
     THEN \A j \in 1..Len(Source), q \in 1..4 :
            Source[j].kind = "PARAM" /\ Source[j].op1 = n /\ IsPlace(j, q)
              => InParameter(d, q) = value
     ELSE InArray(n) = value

(* What every activation of a function has computed is still there, except *)
(* what a later activation of the same function has overwritten.           *)
VariablesAreKept ==
  Between => \A d \in 1..Depth(program) : \A n \in DOMAIN program.frames[d].env :
    IsParameter(n) \/ owner[n] = d => Holds1(d, n)

(* Project4-Report.md: a calling sequence only needs to handle parameters  *)
(* and the return address, other variables are handled before.  So what an *)
(* activation reads after a call is what it has computed before.           *)
CallsKeepVariables ==
  Between /\ ~ Ended(program) =>
    \A n \in Read(Source[program.ip]) : Holds1(Depth(program), n)

=============================================================================
