--------------------------------- MODULE Mips ---------------------------------
(***************************************************************************)
(* The processor that runs what the back end emits, with the routines      *)
(* read and write that mips32.c puts in front of it.  The state is a       *)
(* record; text is the emitted code, one sequence for each TAC             *)
(* instruction, and an address in it is <<instruction, place>>.            *)
(* Addresses of array elements do not occur: the back end gives up before. *)
(***************************************************************************)
EXTENDS IR

CONSTANT Typed  \* what the user types in for read, one after the other

Nowhere == <<0, 1>>

(* main is called from outside; array is filled with zeros.                *)
PoweredOn(regs, start) ==
  [pc |-> start, regs |-> [r \in regs |-> IF r = "ra" THEN Nowhere ELSE 0], lo |-> 0,
   array |-> <<>>, stack |-> <<>>, typed |-> Typed, screen |-> <<>>, trapped |-> FALSE]

Address(text, target) ==
  <<CHOOSE k \in 1..Len(text) :
      Len(text[k]) > 0 /\ text[k][1].op = "label" /\ text[k][1].target = target, 1>>

Halted(c) == c.pc = Nowhere

(* A word of memory that has not been written is zero.                     *)
Peek(memory, address) == IF address \in DOMAIN memory THEN memory[address] ELSE 0
Poke(memory, address, v) ==
  [w \in DOMAIN memory \cup {address} |-> IF w = address THEN v ELSE memory[w]]

(* The address after pc.                                                   *)
Following(text, pc) ==
  IF pc[2] >= Len(text[pc[1]]) THEN <<pc[1] + 1, 1>> ELSE <<pc[1], pc[2] + 1>>

Taken(op, x, y) ==
  CASE op = "IFLT" -> x < y [] op = "IFLE" -> x <= y [] op = "IFGT" -> x > y
    [] op = "IFGE" -> x >= y [] op = "IFNE" -> x # y [] op = "IFEQ" -> x = y

BranchOps == {"IFLT", "IFLE", "IFGT", "IFGE", "IFNE", "IFEQ"}

(* read: prompts, reads an integer to $v0 and returns.                     *)
ReadRoutine(c) ==
  [c EXCEPT !.regs["v0"] = IF c.typed = <<>> THEN 0 ELSE Head(c.typed),
            !.typed = IF @ = <<>> THEN @ ELSE Tail(@)]

(* write: prints $a0 and an end of line, and returns 0.                    *)
WriteRoutine(c) ==
  [c EXCEPT !.screen = Append(@, c.regs["a0"]), !.regs["v0"] = 0]

(* One instruction.  A routine is one step with the jump that calls it.    *)
(* neg, addi, add and sub raise an exception when the result is no word:   *)
(* nothing is set, and what the system does then is not modelled; mul      *)
(* wraps.  $sp is taken never to leave the stack.                          *)
Execute1(text, c) ==
  LET i == IF text[c.pc[1]] = <<>> THEN [op |-> "none"] ELSE text[c.pc[1]][c.pc[2]]
      next == [c EXCEPT !.pc = Following(text, c.pc)]
      x == c.regs[i.rs]
      y == c.regs[i.rt]
      Sets(v) == [next EXCEPT !.regs[i.rd] = v]
      Checked(v) == IF v \in IntW THEN Sets(v) ELSE [c EXCEPT !.trapped = TRUE]
      sp == c.regs["sp"]
  IN CASE i.op = "li" -> Sets(i.imm)
       [] i.op = "move" -> Sets(x)
       [] i.op = "neg" -> Checked(-x)
       [] i.op = "addi" -> IF i.rd = "sp" THEN Sets(x + i.imm) ELSE Checked(x + i.imm)
       [] i.op = "add" -> Checked(x + y)
       [] i.op = "sub" -> Checked(x - y)
       [] i.op = "mul" -> Sets(Apply("*", x, y))
       [] i.op = "div" -> [next EXCEPT !.lo = Apply("/", x, y)]
       [] i.op = "mflo" -> Sets(c.lo)
       [] i.op = "lw" -> Sets(Peek(c.array, i.imm))
       [] i.op = "sw" -> [next EXCEPT !.array = Poke(@, i.imm, x)]
       [] i.op = "lw_sp" -> Sets(Peek(c.stack, sp + i.imm))
       [] i.op = "sw_sp" -> [next EXCEPT !.stack = Poke(@, sp + i.imm, x)]
       [] i.op = "j" -> [c EXCEPT !.pc = Address(text, i.target)]
       [] i.op = "jal" ->
            IF i.target = "read" THEN ReadRoutine(next)
            ELSE IF i.target = "write" THEN WriteRoutine(next)
            ELSE [c EXCEPT !.regs["ra"] = Following(text, c.pc),
                           !.pc = Address(text, i.target)]
       [] i.op = "jr" -> [c EXCEPT !.pc = c.regs["ra"]]
       [] i.op \in BranchOps ->
            IF Taken(i.op, x, y) THEN [c EXCEPT !.pc = Address(text, i.target)] ELSE next
       [] OTHER -> next

=============================================================================
