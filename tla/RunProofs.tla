------------------------------ MODULE RunProofs ------------------------------
(***************************************************************************)
(* The code the back end emits does what the program does, for every       *)
(* program of the compiler: whenever the processor has come to the end of  *)
(* an instruction's code, it is where the program is.                      *)
(***************************************************************************)
EXTENDS CodeProofs, WellFoundedInduction

-----------------------------------------------------------------------------
(* One instruction of the processor.                                       *)

Fields == {"pc", "regs", "lo", "array", "stack", "typed", "screen", "trapped"}

IsMachine(c) ==
  DOMAIN c = Fields /\ DOMAIN c.regs = E!Registers /\ c.trapped = FALSE

(* The instruction c is at, and what it does.                              *)
IsAt(c, i) == code[c.pc[1]] # <<>> /\ code[c.pc[1]][c.pc[2]] = i

After(c) == [c EXCEPT !.pc = Following(code, c.pc)]
SetTo(c, r, v) == [After(c) EXCEPT !.regs[r] = v]
Checked1(c, r, v) == IF v \in IntW THEN SetTo(c, r, v) ELSE [c EXCEPT !.trapped = TRUE]
LoTo(c, v) == [After(c) EXCEPT !.lo = v]
ArrayTo(c, w, v) == [After(c) EXCEPT !.array = Poke(@, w, v)]
StackTo(c, w, v) == [After(c) EXCEPT !.stack = Poke(@, w, v)]
GoTo(c, pc) == [c EXCEPT !.pc = pc]
LinkTo(c, pc) == [c EXCEPT !.regs["ra"] = Following(code, c.pc), !.pc = pc]

Jumps1(c, i) ==
  IF i.target = "read" THEN ReadRoutine(After(c))
  ELSE IF i.target = "write" THEN WriteRoutine(After(c))
  ELSE LinkTo(c, Address(code, i.target))
Branches1(c, i) ==
  IF Taken(i.op, c.regs[i.rs], c.regs[i.rt]) THEN GoTo(c, Address(code, i.target))
  ELSE After(c)

Does(c, i) ==
  CASE i.op = "li" -> SetTo(c, i.rd, i.imm)
    [] i.op = "move" -> SetTo(c, i.rd, c.regs[i.rs])
    [] i.op = "neg" -> Checked1(c, i.rd, -c.regs[i.rs])
    [] i.op = "addi" -> IF i.rd = "sp" THEN SetTo(c, i.rd, c.regs[i.rs] + i.imm)
                        ELSE Checked1(c, i.rd, c.regs[i.rs] + i.imm)
    [] i.op = "add" -> Checked1(c, i.rd, c.regs[i.rs] + c.regs[i.rt])
    [] i.op = "sub" -> Checked1(c, i.rd, c.regs[i.rs] - c.regs[i.rt])
    [] i.op = "mul" -> SetTo(c, i.rd, Apply("*", c.regs[i.rs], c.regs[i.rt]))
    [] i.op = "div" -> LoTo(c, Apply("/", c.regs[i.rs], c.regs[i.rt]))
    [] i.op = "mflo" -> SetTo(c, i.rd, c.lo)
    [] i.op = "lw" -> SetTo(c, i.rd, Peek(c.array, i.imm))
    [] i.op = "sw" -> ArrayTo(c, i.imm, c.regs[i.rs])
    [] i.op = "lw_sp" -> SetTo(c, i.rd, Peek(c.stack, c.regs["sp"] + i.imm))
    [] i.op = "sw_sp" -> StackTo(c, c.regs["sp"] + i.imm, c.regs[i.rs])
    [] i.op = "j" -> GoTo(c, Address(code, i.target))
    [] i.op = "jal" -> Jumps1(c, i)
    [] i.op = "jr" -> GoTo(c, c.regs["ra"])
    [] i.op \in BranchOps -> Branches1(c, i)
    [] OTHER -> After(c)

LEMMA Fetched ==
  ASSUME NEW c, NEW i, IsAt(c, i)
  PROVE  Execute1(code, c) = Does(c, i)
<1> DEFINE j == IF code[c.pc[1]] = <<>> THEN [op |-> "none"] ELSE code[c.pc[1]][c.pc[2]]
<1>1. Execute1(code, c) = Does(c, j)
  BY DEF Execute1, Does, After, SetTo, Checked1, LoTo, ArrayTo, StackTo, GoTo, LinkTo, Jumps1, Branches1
<1>2. j = i BY DEF IsAt
<1> HIDE DEF j
<1> QED BY <1>1, <1>2

Exec(c) == Execute1(code, c)

(* What an instruction leaves: a value in a register, in array or on the   *)
(* stack; or it only goes somewhere.                                       *)
Puts(c, e, r, v) ==
  /\ IsMachine(e) /\ e.pc = Following(code, c.pc)
  /\ \A x \in E!Registers : e.regs[x] = IF x = r THEN v ELSE c.regs[x]
  /\ e.lo = c.lo /\ e.array = c.array /\ e.stack = c.stack
  /\ e.typed = c.typed /\ e.screen = c.screen

Stores(c, e, w, v) ==
  /\ IsMachine(e) /\ e.pc = Following(code, c.pc)
  /\ e.regs = c.regs /\ e.lo = c.lo /\ e.stack = c.stack
  /\ e.typed = c.typed /\ e.screen = c.screen
  /\ \A a : Peek(e.array, a) = IF a = w THEN v ELSE Peek(c.array, a)

Pushes(c, e, w, v) ==
  /\ IsMachine(e) /\ e.pc = Following(code, c.pc)
  /\ e.regs = c.regs /\ e.lo = c.lo /\ e.array = c.array
  /\ e.typed = c.typed /\ e.screen = c.screen
  /\ \A a : Peek(e.stack, a) = IF a = w THEN v ELSE Peek(c.stack, a)

Divides(c, e, v) ==
  /\ IsMachine(e) /\ e.pc = Following(code, c.pc)
  /\ e.regs = c.regs /\ e.lo = v /\ e.array = c.array /\ e.stack = c.stack
  /\ e.typed = c.typed /\ e.screen = c.screen

Goes(c, e, pc) ==
  /\ IsMachine(e) /\ e.pc = pc
  /\ e.regs = c.regs /\ e.lo = c.lo /\ e.array = c.array /\ e.stack = c.stack
  /\ e.typed = c.typed /\ e.screen = c.screen

Links(c, e, pc) ==
  /\ IsMachine(e) /\ e.pc = pc
  /\ \A x \in E!Registers :
       e.regs[x] = IF x = "ra" THEN Following(code, c.pc) ELSE c.regs[x]
  /\ e.lo = c.lo /\ e.array = c.array /\ e.stack = c.stack
  /\ e.typed = c.typed /\ e.screen = c.screen

LEMMA AfterIs ==
  ASSUME NEW c, IsMachine(c)
  PROVE  Goes(c, After(c), Following(code, c.pc)) /\ DOMAIN After(c) = Fields
BY DEF IsMachine, Fields, After, Goes

LEMMA Pokes ==
  ASSUME NEW m, NEW w, NEW v, NEW a
  PROVE  Peek(Poke(m, w, v), a) = IF a = w THEN v ELSE Peek(m, a)
BY DEF Peek, Poke

LEMMA SetToPuts ==
  ASSUME NEW c, IsMachine(c), NEW r \in E!Registers, NEW v
  PROVE  Puts(c, SetTo(c, r, v), r, v)
<1> DEFINE n == After(c) e == [n EXCEPT !.regs[r] = v]
<1>1. Goes(c, n, Following(code, c.pc)) /\ DOMAIN n = Fields BY AfterIs
<1> HIDE DEF n
<1>2. /\ DOMAIN e = Fields /\ e.pc = n.pc /\ e.regs = [n.regs EXCEPT ![r] = v]
      /\ e.lo = n.lo /\ e.array = n.array /\ e.stack = n.stack /\ e.typed = n.typed
      /\ e.screen = n.screen /\ e.trapped = n.trapped
  BY <1>1 DEF Fields
<1> HIDE DEF e
<1>3. /\ DOMAIN e.regs = E!Registers
      /\ \A x \in E!Registers : e.regs[x] = IF x = r THEN v ELSE c.regs[x]
  BY <1>1, <1>2 DEF IsMachine, Goes
<1>4. Puts(c, e, r, v) BY <1>1, <1>2, <1>3 DEF Puts, IsMachine, Goes
<1> QED BY <1>4 DEF e, n, SetTo

LEMMA ArrayToStores ==
  ASSUME NEW c, IsMachine(c), NEW w, NEW v
  PROVE  Stores(c, ArrayTo(c, w, v), w, v)
<1> DEFINE n == After(c) e == [n EXCEPT !.array = Poke(@, w, v)]
<1>1. Goes(c, n, Following(code, c.pc)) /\ DOMAIN n = Fields BY AfterIs
<1> HIDE DEF n
<1>2. /\ DOMAIN e = Fields /\ e.pc = n.pc /\ e.regs = n.regs
      /\ e.lo = n.lo /\ e.array = Poke(n.array, w, v) /\ e.stack = n.stack
      /\ e.typed = n.typed /\ e.screen = n.screen /\ e.trapped = n.trapped
  BY <1>1 DEF Fields
<1> HIDE DEF e
<1>3. \A a : Peek(e.array, a) = IF a = w THEN v ELSE Peek(n.array, a) BY <1>2, Pokes
<1>4. Stores(c, e, w, v) BY <1>1, <1>2, <1>3 DEF Stores, IsMachine, Goes
<1> QED BY <1>4 DEF e, n, ArrayTo

LEMMA StackToPushes ==
  ASSUME NEW c, IsMachine(c), NEW w, NEW v
  PROVE  Pushes(c, StackTo(c, w, v), w, v)
<1> DEFINE n == After(c) e == [n EXCEPT !.stack = Poke(@, w, v)]
<1>1. Goes(c, n, Following(code, c.pc)) /\ DOMAIN n = Fields BY AfterIs
<1> HIDE DEF n
<1>2. /\ DOMAIN e = Fields /\ e.pc = n.pc /\ e.regs = n.regs
      /\ e.lo = n.lo /\ e.stack = Poke(n.stack, w, v) /\ e.array = n.array
      /\ e.typed = n.typed /\ e.screen = n.screen /\ e.trapped = n.trapped
  BY <1>1 DEF Fields
<1> HIDE DEF e
<1>3. \A a : Peek(e.stack, a) = IF a = w THEN v ELSE Peek(n.stack, a) BY <1>2, Pokes
<1>4. Pushes(c, e, w, v) BY <1>1, <1>2, <1>3 DEF Pushes, IsMachine, Goes
<1> QED BY <1>4 DEF e, n, StackTo

LEMMA LoToDivides ==
  ASSUME NEW c, IsMachine(c), NEW v
  PROVE  Divides(c, LoTo(c, v), v)
<1> DEFINE n == After(c) e == [n EXCEPT !.lo = v]
<1>1. Goes(c, n, Following(code, c.pc)) /\ DOMAIN n = Fields BY AfterIs
<1> HIDE DEF n
<1>2. /\ DOMAIN e = Fields /\ e.pc = n.pc /\ e.regs = n.regs
      /\ e.lo = v /\ e.stack = n.stack /\ e.array = n.array
      /\ e.typed = n.typed /\ e.screen = n.screen /\ e.trapped = n.trapped
  BY <1>1 DEF Fields
<1> HIDE DEF e
<1>4. Divides(c, e, v) BY <1>1, <1>2 DEF Divides, IsMachine, Goes
<1> QED BY <1>4 DEF e, n, LoTo

LEMMA GoToGoes ==
  ASSUME NEW c, IsMachine(c), NEW pc
  PROVE  Goes(c, GoTo(c, pc), pc)
BY DEF IsMachine, Fields, GoTo, Goes

LEMMA LinkToLinks ==
  ASSUME NEW c, IsMachine(c), NEW pc
  PROVE  Links(c, LinkTo(c, pc), pc)
<1> DEFINE f == Following(code, c.pc) e == LinkTo(c, pc)
<1> HIDE DEF f
<1>1. /\ DOMAIN e = Fields /\ e.pc = pc /\ e.regs = [c.regs EXCEPT !["ra"] = f]
      /\ e.lo = c.lo /\ e.stack = c.stack /\ e.array = c.array
      /\ e.typed = c.typed /\ e.screen = c.screen /\ e.trapped = c.trapped
  BY DEF IsMachine, Fields, LinkTo, f
<1> HIDE DEF e
<1>2. /\ DOMAIN e.regs = E!Registers
      /\ \A x \in E!Registers : e.regs[x] = IF x = "ra" THEN f ELSE c.regs[x]
  BY <1>1 DEF IsMachine
<1>3. Links(c, e, pc) BY <1>1, <1>2 DEF Links, IsMachine, f
<1> QED BY <1>3 DEF e

(* An int is what it is.                                                   *)
LEMMA InRange ==
  ASSUME NEW v \in IntW
  PROVE  v \in Int /\ Wrap(v) = v
<1> DEFINE m == 2 * IntHalf
<1>1. v \in -IntHalf..IntHalf - 1 /\ IntHalf \in Nat \ {0} BY IntAssumption DEF IntW
<1>2. m \in Nat /\ v + IntHalf \in 0..m - 1 BY <1>1
<1>3. \A x \in Int, k \in Nat : x \in 0..k - 1 => x % k = x OBVIOUS
<1>4. (v + IntHalf) % m = v + IntHalf BY <1>1, <1>2, <1>3
<1>5. Wrap(v) = ((v + IntHalf) % m) - IntHalf BY DEF Wrap
<1> HIDE DEF m
<1> QED BY <1>1, <1>4, <1>5

LEMMA DoesLi ==
  ASSUME NEW c, IsMachine(c), NEW r \in E!Registers, NEW v, IsAt(c, E!Li(r, v))
  PROVE  Puts(c, Exec(c), r, v)
<1> DEFINE i == E!Li(r, v)
<1>1. i.op = "li" /\ i.rd = r /\ i.imm = v BY OpFields DEF E!Li
<1> HIDE DEF i
<1>2. Does(c, i) = SetTo(c, r, v) BY <1>1 DEF Does, BranchOps
<1>3. Exec(c) = SetTo(c, r, v) BY <1>2, Fetched DEF Exec, i
<1> QED BY <1>3, SetToPuts

LEMMA DoesMove ==
  ASSUME NEW c, IsMachine(c), NEW r \in E!Registers, NEW x, IsAt(c, E!Move(r, x))
  PROVE  Puts(c, Exec(c), r, c.regs[x])
<1> DEFINE i == E!Move(r, x)
<1>1. i.op = "move" /\ i.rd = r /\ i.rs = x BY OpFields DEF E!Move
<1> HIDE DEF i
<1>2. Does(c, i) = SetTo(c, r, c.regs[x]) BY <1>1 DEF Does, BranchOps
<1>3. Exec(c) = SetTo(c, r, c.regs[x]) BY <1>2, Fetched DEF Exec, i
<1> QED BY <1>3, SetToPuts

LEMMA DoesNeg ==
  ASSUME NEW c, IsMachine(c), NEW r \in E!Registers, IsAt(c, E!Neg(r)), -c.regs[r] \in IntW
  PROVE  Puts(c, Exec(c), r, -c.regs[r])
<1> DEFINE i == E!Neg(r)
<1>1. i.op = "neg" /\ i.rd = r /\ i.rs = r BY OpFields DEF E!Neg
<1> HIDE DEF i
<1>2. Does(c, i) = SetTo(c, r, -c.regs[r]) BY <1>1 DEF Does, Checked1, BranchOps
<1>3. Exec(c) = SetTo(c, r, -c.regs[r]) BY <1>2, Fetched DEF Exec, i
<1> QED BY <1>3, SetToPuts

LEMMA DoesAddi ==
  ASSUME NEW c, IsMachine(c), NEW r \in E!Registers, NEW x, NEW v, r # "sp",
         IsAt(c, E!Addi(r, x, v)), c.regs[x] + v \in IntW
  PROVE  Puts(c, Exec(c), r, c.regs[x] + v)
<1> DEFINE i == E!Addi(r, x, v)
<1>1. i.op = "addi" /\ i.rd = r /\ i.rs = x /\ i.imm = v BY OpFields DEF E!Addi
<1> HIDE DEF i
<1>2. Does(c, i) = SetTo(c, r, c.regs[x] + v) BY <1>1 DEF Does, Checked1, BranchOps
<1>3. Exec(c) = SetTo(c, r, c.regs[x] + v) BY <1>2, Fetched DEF Exec, i
<1> QED BY <1>3, SetToPuts

LEMMA DoesStack ==
  ASSUME NEW c, IsMachine(c), NEW v, IsAt(c, E!Stack(v))
  PROVE  Puts(c, Exec(c), "sp", c.regs["sp"] + v)
<1> DEFINE i == E!Stack(v)
<1>1. i.op = "addi" /\ i.rd = "sp" /\ i.rs = "sp" /\ i.imm = v BY OpFields DEF E!Addi, E!Stack
<1> HIDE DEF i
<1>2. Does(c, i) = SetTo(c, "sp", c.regs["sp"] + v) BY <1>1 DEF Does, BranchOps
<1>3. Exec(c) = SetTo(c, "sp", c.regs["sp"] + v) BY <1>2, Fetched DEF Exec, i
<1> QED BY <1>3, SetToPuts, "sp" \in E!Registers DEF E!Registers

LEMMA DoesMflo ==
  ASSUME NEW c, IsMachine(c), NEW r \in E!Registers, NEW x, NEW y, IsAt(c, E!Three("mflo", r, x, y))
  PROVE  Puts(c, Exec(c), r, c.lo)
<1> DEFINE i == E!Three("mflo", r, x, y)
<1>1. i.op = "mflo" /\ i.rd = r BY OpFields DEF E!Three
<1> HIDE DEF i
<1>2. Does(c, i) = SetTo(c, r, c.lo) BY <1>1 DEF Does, BranchOps
<1>3. Exec(c) = SetTo(c, r, c.lo) BY <1>2, Fetched DEF Exec, i
<1> QED BY <1>3, SetToPuts

LEMMA DoesDiv ==
  ASSUME NEW c, IsMachine(c), NEW r, NEW x, NEW y, IsAt(c, E!Three("div", r, x, y))
  PROVE  Divides(c, Exec(c), Apply("/", c.regs[x], c.regs[y]))
<1> DEFINE i == E!Three("div", r, x, y)
<1>1. i.op = "div" /\ i.rs = x /\ i.rt = y BY OpFields DEF E!Three
<1> HIDE DEF i
<1>2. Does(c, i) = LoTo(c, Apply("/", c.regs[x], c.regs[y])) BY <1>1 DEF Does, BranchOps
<1>3. Exec(c) = LoTo(c, Apply("/", c.regs[x], c.regs[y])) BY <1>2, Fetched DEF Exec, i
<1> QED BY <1>3, LoToDivides

LEMMA DoesLw ==
  ASSUME NEW c, IsMachine(c), NEW r \in E!Registers, NEW v, IsAt(c, E!Lw(r, v))
  PROVE  Puts(c, Exec(c), r, Peek(c.array, v))
<1> DEFINE i == E!Lw(r, v)
<1>1. i.op = "lw" /\ i.rd = r /\ i.imm = v BY OpFields DEF E!Lw
<1> HIDE DEF i
<1>2. Does(c, i) = SetTo(c, r, Peek(c.array, v)) BY <1>1 DEF Does, BranchOps
<1>3. Exec(c) = SetTo(c, r, Peek(c.array, v)) BY <1>2, Fetched DEF Exec, i
<1> QED BY <1>3, SetToPuts

LEMMA DoesSw ==
  ASSUME NEW c, IsMachine(c), NEW x, NEW v, IsAt(c, E!Sw(x, v))
  PROVE  Stores(c, Exec(c), v, c.regs[x])
<1> DEFINE i == E!Sw(x, v)
<1>1. i.op = "sw" /\ i.rs = x /\ i.imm = v BY OpFields DEF E!Sw
<1> HIDE DEF i
<1>2. Does(c, i) = ArrayTo(c, v, c.regs[x]) BY <1>1 DEF Does, BranchOps
<1>3. Exec(c) = ArrayTo(c, v, c.regs[x]) BY <1>2, Fetched DEF Exec, i
<1> QED BY <1>3, ArrayToStores

LEMMA DoesLwStack ==
  ASSUME NEW c, IsMachine(c), NEW r \in E!Registers, NEW v, IsAt(c, E!LwStack(r, v))
  PROVE  Puts(c, Exec(c), r, Peek(c.stack, c.regs["sp"] + v))
<1> DEFINE i == E!LwStack(r, v)
<1>1. i.op = "lw_sp" /\ i.rd = r /\ i.imm = v BY OpFields DEF E!LwStack
<1> HIDE DEF i
<1>2. Does(c, i) = SetTo(c, r, Peek(c.stack, c.regs["sp"] + v)) BY <1>1 DEF Does, BranchOps
<1>3. Exec(c) = SetTo(c, r, Peek(c.stack, c.regs["sp"] + v)) BY <1>2, Fetched DEF Exec, i
<1> QED BY <1>3, SetToPuts

LEMMA DoesSwStack ==
  ASSUME NEW c, IsMachine(c), NEW x, NEW v, IsAt(c, E!SwStack(x, v))
  PROVE  Pushes(c, Exec(c), c.regs["sp"] + v, c.regs[x])
<1> DEFINE i == E!SwStack(x, v)
<1>1. i.op = "sw_sp" /\ i.rs = x /\ i.imm = v BY OpFields DEF E!SwStack
<1> HIDE DEF i
<1>2. Does(c, i) = StackTo(c, c.regs["sp"] + v, c.regs[x]) BY <1>1 DEF Does, BranchOps
<1>3. Exec(c) = StackTo(c, c.regs["sp"] + v, c.regs[x]) BY <1>2, Fetched DEF Exec, i
<1> QED BY <1>3, StackToPushes

LEMMA DoesJ ==
  ASSUME NEW c, IsMachine(c), NEW t, IsAt(c, E!Jump("j", t))
  PROVE  Goes(c, Exec(c), Address(code, t))
<1> DEFINE i == E!Jump("j", t)
<1>1. i.op = "j" /\ i.target = t BY OpFields DEF E!Jump
<1> HIDE DEF i
<1>2. Does(c, i) = GoTo(c, Address(code, t)) BY <1>1 DEF Does, BranchOps
<1>3. Exec(c) = GoTo(c, Address(code, t)) BY <1>2, Fetched DEF Exec, i
<1> QED BY <1>3, GoToGoes

LEMMA DoesJr ==
  ASSUME NEW c, IsMachine(c), NEW t, IsAt(c, E!Jump("jr", t))
  PROVE  Goes(c, Exec(c), c.regs["ra"])
<1> DEFINE i == E!Jump("jr", t)
<1>1. i.op = "jr" BY OpFields DEF E!Jump
<1> HIDE DEF i
<1>2. Does(c, i) = GoTo(c, c.regs["ra"]) BY <1>1 DEF Does, BranchOps
<1>3. Exec(c) = GoTo(c, c.regs["ra"]) BY <1>2, Fetched DEF Exec, i
<1> QED BY <1>3, GoToGoes

LEMMA DoesJal ==
  ASSUME NEW c, IsMachine(c), NEW t, t \notin {"read", "write"}, IsAt(c, E!Jump("jal", t))
  PROVE  Links(c, Exec(c), Address(code, t))
<1> DEFINE i == E!Jump("jal", t)
<1>1. i.op = "jal" /\ i.target = t BY OpFields DEF E!Jump
<1> HIDE DEF i
<1>2. Does(c, i) = LinkTo(c, Address(code, t)) BY <1>1 DEF Does, BranchOps, Jumps1
<1>3. Exec(c) = LinkTo(c, Address(code, t)) BY <1>2, Fetched DEF Exec, i
<1> QED BY <1>3, LinkToLinks

LEMMA DoesLabel ==
  ASSUME NEW c, IsMachine(c), NEW t, IsAt(c, E!Jump("label", t))
  PROVE  Goes(c, Exec(c), Following(code, c.pc))
<1> DEFINE i == E!Jump("label", t)
<1>1. i.op = "label" BY OpFields DEF E!Jump
<1> HIDE DEF i
<1>2. Does(c, i) = After(c) BY <1>1 DEF Does, BranchOps
<1>3. Exec(c) = After(c) BY <1>2, Fetched DEF Exec, i
<1> QED BY <1>3, AfterIs

(* The fifth argument and those after it go nowhere.                       *)
LEMMA DoesNoLoad ==
  ASSUME NEW c, IsMachine(c), NEW i, IsAt(c, i), i.op = "lw_none"
  PROVE  Goes(c, Exec(c), Following(code, c.pc))
<1>1. Does(c, i) = After(c) BY DEF Does, BranchOps
<1>2. Exec(c) = After(c) BY <1>1, Fetched DEF Exec
<1> QED BY <1>2, AfterIs

(* The exact result of what adds or subtracts.                             *)
Exact(op, x, y) == CASE op = "add" -> x + y [] op = "sub" -> x - y [] OTHER -> 0

LEMMA DoesThree ==
  ASSUME NEW c, IsMachine(c), NEW r \in E!Registers, NEW x, NEW y, NEW op, NEW relation,
         \/ op = "add" /\ relation = "+"
         \/ op = "sub" /\ relation = "-"
         \/ op = "mul" /\ relation = "*",
         IsAt(c, E!Three(op, r, x, y)), Exact(op, c.regs[x], c.regs[y]) \in IntW
  PROVE  Puts(c, Exec(c), r, Apply(relation, c.regs[x], c.regs[y]))
<1> DEFINE i == E!Three(op, r, x, y) v == Apply(relation, c.regs[x], c.regs[y])
<1>1. i.op = op /\ i.rd = r /\ i.rs = x /\ i.rt = y BY OpFields DEF E!Three
<1> HIDE DEF i
<1>2. Does(c, i) = SetTo(c, r, v)
  <2>1. CASE op = "add" /\ relation = "+"
    <3> DEFINE w == c.regs[x] + c.regs[y]
    <3>1. w \in IntW BY <2>1 DEF Exact
    <3>2. Does(c, i) = Checked1(c, r, w) BY <1>1, <2>1 DEF Does, BranchOps
    <3>3. v = Wrap(w) BY <2>1 DEF Apply
    <3> HIDE DEF w, v
    <3> QED BY <3>1, <3>2, <3>3, InRange DEF Checked1
  <2>2. CASE op = "sub" /\ relation = "-"
    <3> DEFINE w == c.regs[x] - c.regs[y]
    <3>1. w \in IntW BY <2>2 DEF Exact
    <3>2. Does(c, i) = Checked1(c, r, w) BY <1>1, <2>2 DEF Does, BranchOps
    <3>3. v = Wrap(w) BY <2>2 DEF Apply
    <3> HIDE DEF w, v
    <3> QED BY <3>1, <3>2, <3>3, InRange DEF Checked1
  <2>3. CASE op = "mul" /\ relation = "*" BY <1>1, <2>3 DEF Does, BranchOps, Apply
  <2> QED BY <2>1, <2>2, <2>3
<1>3. Exec(c) = SetTo(c, r, v) BY <1>2, Fetched DEF Exec, i
<1> QED BY <1>3, SetToPuts

LEMMA DoesBranch ==
  ASSUME NEW c, IsMachine(c), NEW x, NEW y, NEW t,
         NEW relation \in {"<", "<=", ">", ">=", "==", "!="},
         IsAt(c, E!Op(Comparison(relation), E!None, x, y, 0, t))
  PROVE  Goes(c, Exec(c), IF Holds(relation, c.regs[x], c.regs[y]) THEN Address(code, t)
                          ELSE Following(code, c.pc))
<1> DEFINE op == Comparison(relation) i == E!Op(op, E!None, x, y, 0, t)
<1>1. i.op = op /\ i.rs = x /\ i.rt = y /\ i.target = t BY OpFields
<1> HIDE DEF i
<1>2. op \in BranchOps /\ (Taken(op, c.regs[x], c.regs[y]) <=> Holds(relation, c.regs[x], c.regs[y]))
  BY DEF Comparison, Taken, Holds, BranchOps
<1> HIDE DEF op
<1>3. Does(c, i) = Branches1(c, i) BY <1>1, <1>2 DEF Does, BranchOps
<1>4. Exec(c) = Branches1(c, i) BY <1>3, Fetched DEF Exec, i, op
<1>5. CASE Holds(relation, c.regs[x], c.regs[y])
  <2>1. Exec(c) = GoTo(c, Address(code, t)) BY <1>1, <1>2, <1>4, <1>5 DEF Branches1
  <2> QED BY <1>5, <2>1, GoToGoes
<1>6. CASE ~ Holds(relation, c.regs[x], c.regs[y])
  <2>1. Exec(c) = After(c) BY <1>1, <1>2, <1>4, <1>6 DEF Branches1
  <2> QED BY <1>6, <2>1, AfterIs
<1> QED BY <1>5, <1>6

LEMMA DoesNothing ==
  ASSUME NEW c, IsMachine(c), code[c.pc[1]] = <<>>
  PROVE  Goes(c, Exec(c), Following(code, c.pc))
<1> DEFINE j == IF code[c.pc[1]] = <<>> THEN [op |-> "none"] ELSE code[c.pc[1]][c.pc[2]]
<1>1. Execute1(code, c) = Does(c, j)
  BY DEF Execute1, Does, After, SetTo, Checked1, LoTo, ArrayTo, StackTo, GoTo, LinkTo, Jumps1, Branches1
<1>2. j.op = "none" OBVIOUS
<1> HIDE DEF j
<1>3. Does(c, j) = After(c) BY <1>2 DEF Does, BranchOps
<1> QED BY <1>1, <1>3, AfterIs DEF Exec

(* The routines.                                                           *)
ReadsIn(c, e) ==
  /\ IsMachine(e) /\ e.pc = Following(code, c.pc)
  /\ \A x \in E!Registers : e.regs[x] = IF x = "v0" THEN NextOf(c.typed) ELSE c.regs[x]
  /\ e.lo = c.lo /\ e.array = c.array /\ e.stack = c.stack
  /\ e.typed = RestOf(c.typed) /\ e.screen = c.screen

WritesOut(c, e) ==
  /\ IsMachine(e) /\ e.pc = Following(code, c.pc)
  /\ \A x \in E!Registers : e.regs[x] = IF x = "v0" THEN 0 ELSE c.regs[x]
  /\ e.lo = c.lo /\ e.array = c.array /\ e.stack = c.stack
  /\ e.typed = c.typed /\ e.screen = Append(c.screen, c.regs["a0"])

LEMMA DoesRead ==
  ASSUME NEW c, IsMachine(c), IsAt(c, E!Jump("jal", "read"))
  PROVE  ReadsIn(c, Exec(c))
<1> DEFINE i == E!Jump("jal", "read") n == After(c) e == ReadRoutine(n)
<1>1. i.op = "jal" /\ i.target = "read" BY OpFields DEF E!Jump
<1> HIDE DEF i
<1>2. Does(c, i) = e BY <1>1 DEF Does, BranchOps, Jumps1
<1>3. Exec(c) = e BY <1>2, Fetched DEF Exec, i
<1>4. Goes(c, n, Following(code, c.pc)) /\ DOMAIN n = Fields BY AfterIs
<1> HIDE DEF n
<1> DEFINE v == IF n.typed = <<>> THEN 0 ELSE Head(n.typed)
           r == IF n.typed = <<>> THEN n.typed ELSE Tail(n.typed)
<1>5. v = NextOf(n.typed) /\ r = RestOf(n.typed) BY DEF NextOf, RestOf
<1>6. e = [n EXCEPT !.regs["v0"] = v, !.typed = r] BY DEF ReadRoutine
<1> HIDE DEF v, r, e
<1>7. /\ DOMAIN e = Fields /\ e.pc = n.pc /\ e.regs = [n.regs EXCEPT !["v0"] = v]
      /\ e.lo = n.lo /\ e.stack = n.stack /\ e.array = n.array
      /\ e.typed = r /\ e.screen = n.screen /\ e.trapped = n.trapped
  BY <1>4, <1>6 DEF Fields
<1>8. /\ DOMAIN e.regs = E!Registers
      /\ \A x \in E!Registers : e.regs[x] = IF x = "v0" THEN v ELSE n.regs[x]
  BY <1>4, <1>7 DEF Goes, IsMachine
<1>9. ReadsIn(c, e) BY <1>4, <1>5, <1>7, <1>8 DEF Goes, ReadsIn, IsMachine
<1> QED BY <1>3, <1>9

LEMMA DoesWrite ==
  ASSUME NEW c, IsMachine(c), IsAt(c, E!Jump("jal", "write"))
  PROVE  WritesOut(c, Exec(c))
<1> DEFINE i == E!Jump("jal", "write") n == After(c) e == WriteRoutine(n)
<1>1. i.op = "jal" /\ i.target = "write" BY OpFields DEF E!Jump
<1> HIDE DEF i
<1>2. Does(c, i) = e BY <1>1 DEF Does, BranchOps, Jumps1
<1>3. Exec(c) = e BY <1>2, Fetched DEF Exec, i
<1>4. Goes(c, n, Following(code, c.pc)) /\ DOMAIN n = Fields BY AfterIs
<1> HIDE DEF n
<1> DEFINE s == Append(n.screen, n.regs["a0"])
<1>6. e = [n EXCEPT !.screen = s, !.regs["v0"] = 0] BY DEF WriteRoutine
<1>5. s = Append(c.screen, c.regs["a0"]) BY <1>4 DEF Goes
<1> HIDE DEF s, e
<1>7. /\ DOMAIN e = Fields /\ e.pc = n.pc /\ e.regs = [n.regs EXCEPT !["v0"] = 0]
      /\ e.lo = n.lo /\ e.stack = n.stack /\ e.array = n.array
      /\ e.typed = n.typed /\ e.screen = s /\ e.trapped = n.trapped
  BY <1>4, <1>6 DEF Fields
<1>8. /\ DOMAIN e.regs = E!Registers
      /\ \A x \in E!Registers : e.regs[x] = IF x = "v0" THEN 0 ELSE n.regs[x]
  BY <1>4, <1>7 DEF Goes, IsMachine
<1>9. WritesOut(c, e) BY <1>4, <1>5, <1>7, <1>8 DEF Goes, WritesOut, IsMachine
<1> QED BY <1>3, <1>9

-----------------------------------------------------------------------------
(* The processor follows the program: c is its state, p the program's, o   *)
(* and l are owner and last.                                               *)

Envs == UNION {[D -> Int] : D \in SUBSET Names}
Frames == [env: Envs, back: Nat]
Programs1 ==
  [ip: Nat, frames: Seq(Frames), args: Seq(Int), input: Seq(Int), out: Seq(Int), result: Int]

(* Where the d-th activation is, and where it will return.                 *)
At1(p, d) == IF d = Depth(p) THEN p.ip ELSE p.frames[d + 1].back

Back(p, d) ==
  IF d = 1 THEN Nowhere ELSE <<p.frames[d].back, Len(code[p.frames[d].back]) - 7>>

Slot(n) == SlotIn(linklist, n)

(* The q-th parameter of the d-th activation.                              *)
Kept1(c, p, d, q) ==
  IF d = Depth(p) THEN c.regs[E!ArgumentRegister(q - 1)] ELSE Peek(c.stack, -20 * d + 4 * q)

IsSet(n) == \E k \in 1..Len(Source) : Defined(Source[k]) = n

(* The parameter n of the d-th activation is in its place.                 *)
ParameterKept(c, p, d, n) ==
  \E j \in 1..Len(Source), q \in 1..4 :
    /\ Source[j].kind = "PARAM" /\ Source[j].op1 = n /\ IsPlace(j, q)
    /\ SameFunction(Source, j, At1(p, d)) /\ j < At1(p, d)
    /\ Kept1(c, p, d, q) = p.frames[d].env[n]

VariableKept(c, p, o, d, n) ==
  /\ n \in Names /\ IsSet(n) /\ p.frames[d].env[n] \in Int
  /\ IF IsParameter(n) THEN ParameterKept(c, p, d, n)
     ELSE o[n] = d => Peek(c.array, Slot(n)) = p.frames[d].env[n]

CalledAt(b) ==
  /\ b \in 1..Len(Source) - 1 /\ Source[b].kind = "CALL"
  /\ Source[b + 1].kind # "FUNCTION" /\ ~ IsParameter(Source[b].result)
  /\ \E m \in Nat : Passes(b, m)

FrameKept(c, p, o, d) ==
  /\ \A n \in DOMAIN p.frames[d].env : VariableKept(c, p, o, d, n)
  /\ d > 1 => CalledAt(p.frames[d].back)
  /\ d < Depth(p) => Peek(c.stack, -20 * d) = Back(p, d)

(* The arguments that have been passed to a function and not yet taken; or *)
(* those the ARGs in front have put aside.                                 *)
Pending(c, p, h, q) ==
  /\ h = IF Source[p.ip].kind = "FUNCTION" THEN p.ip ELSE p.ip - 1
  /\ IF Source[p.ip].kind = "FUNCTION" THEN q = 0 ELSE IsPlace(p.ip, q + 1)
  /\ Takes(h, Len(p.args))
  /\ \A i \in 1..Len(p.args) : q + i <= 4 => c.regs[E!ArgumentRegister(q + i - 1)] = p.args[i]

ArgumentsKept(c, p) ==
  IF Source[p.ip].kind \in {"FUNCTION", "PARAM"}
  THEN p.args = <<>> \/ \E h, q \in 0..Len(Source) : Pending(c, p, h, q)
  ELSE /\ Passes(p.ip, Len(p.args))
       /\ \A i \in 1..Len(p.args) : p.args[i] = Peek(c.array, Slot(Source[p.ip - i].op1))

LastKept(c, l) ==
  l # NoName => l \in Names /\ ~ IsParameter(l) /\ c.regs["s0"] = Peek(c.array, Slot(l))

Runs(c, p, o, l) ==
  /\ p.ip \in 1..Len(Source) /\ c.pc = <<p.ip, 1>>
  /\ c.regs["sp"] = -20 * (Depth(p) - 1) /\ c.regs["ra"] = Back(p, Depth(p))
  /\ \A d \in 1..Depth(p) : FrameKept(c, p, o, d)
  /\ ArgumentsKept(c, p) /\ LastKept(c, l)

Follows(c, p, o, l) ==
  /\ IsMachine(c) /\ p \in Programs1 /\ DOMAIN o = Names
  /\ c.screen = p.out /\ c.typed = p.input
  /\ IF Ended(p) THEN Halted(c) /\ c.regs["v0"] = p.result ELSE Runs(c, p, o, l)

(* Departs and Performs, of any state.                                     *)
Departs1(p, o, l) ==
  LET ins == Source[p.ip]
  IN \/ ins.kind \in {"ARRAY_OFFSET", "GET_VALUE_IN_ADDRESS", "ASSIGN_VALUE_IN_ADDRESS"}
     \/ \E n \in Read(ins) :
          n \notin DOMAIN Env(p) \/ (~ IsParameter(n) /\ o[n] # Depth(p))
     \/ Overflows(ins, Env(p))
     \/ ins.kind = "WRITE" /\ ins.op1 # l
     \/ ins.kind # "PARAM" /\ IsParameter(Defined(ins))
     \/ ins.kind = "PARAM" /\ (p.args = <<>> \/ \A q \in 1..4 : ~ IsPlace(p.ip, q))
     \/ ins.kind = "CALL" /\ ~ Fits(p.ip)
     \/ /\ ins.kind \notin {"RETURN", "GOTO"}
        /\ p.ip = Len(Source) \/ Source[p.ip + 1].kind = "FUNCTION"

LEMMA DepartsIs == Departs(Source[program.ip]) <=> Departs1(program, owner, last)
BY DEF Departs, Departs1

SetBy(p) ==
  LET ins == Source[p.ip]
  IN CASE ins.kind \in {"CALL", "PARAM"} -> [name |-> NoName, depth |-> 0]
       [] ins.kind = "RETURN" /\ Depth(p) > 1 ->
            [name |-> Source[p.frames[Depth(p)].back].result, depth |-> Depth(p) - 1]
       [] OTHER -> [name |-> Defined(ins), depth |-> Depth(p)]

LEMMA SetByIs == Sets1(Source[program.ip]) = SetBy(program)
BY DEF Sets1, SetBy

OwnerAfter(p, o) ==
  IF SetBy(p).name = NoName THEN o ELSE [o EXCEPT ![SetBy(p).name] = SetBy(p).depth]
LastAfter(p, l) == IF SetBy(p).name = NoName THEN l ELSE SetBy(p).name

(* The processor is where the program is when its next instruction has     *)
(* been performed.                                                         *)
Landed(e, p, o, l) == Follows(e, Perform(Source, p), OwnerAfter(p, o), LastAfter(p, l))

(* Without further ado it comes there.                                     *)
Leads(S, p, o, l) ==
  \A d \in S :
    /\ IsMachine(d)
    /\ IF Exec(d).pc[2] = 1 THEN Landed(Exec(d), p, o, l) ELSE Exec(d) \in S

Reaches(c, p, o, l) == \E S : c \in S /\ Leads(S, p, o, l)

LEMMA ReachesLast ==
  ASSUME NEW c, IsMachine(c), NEW p, NEW o, NEW l, Exec(c).pc[2] = 1, Landed(Exec(c), p, o, l)
  PROVE  Reaches(c, p, o, l)
<1>1. Leads({c}, p, o, l) BY DEF Leads
<1> QED BY <1>1 DEF Reaches

LEMMA ReachesBefore ==
  ASSUME NEW c, IsMachine(c), NEW p, NEW o, NEW l, Exec(c).pc[2] # 1,
         Reaches(Exec(c), p, o, l)
  PROVE  Reaches(c, p, o, l)
<1>1. PICK S : Exec(c) \in S /\ Leads(S, p, o, l) BY DEF Reaches
<1>2. Leads(S \cup {c}, p, o, l) BY <1>1 DEF Leads
<1> QED BY <1>2 DEF Reaches

-----------------------------------------------------------------------------
(* What holds of the program and its code while it runs.                   *)

Solid ==
  /\ Len(Source) \in Nat /\ Len(code) = Len(Source)
  /\ \A k \in 1..Len(Source) :
       /\ Source[k] \in Instructions /\ Printable(Source[k]) /\ ~ UsesElement(Source[k])
       /\ Form(linklist, k, code[k])
       /\ Source[k].kind # "PARAM" /\ Defined(Source[k]) \in Names =>
            StoredIn(linklist, Defined(Source[k]))
  /\ Listed /\ Compiled(Source) /\ NamesApart /\ TargetsApart

LEMMA RunningIsSolid ==
  ASSUME CodeInv, phase \in {"done", "run"}, Regular
  PROVE  Solid
<1>1. BackEndInv /\ Laid /\ ~ Reading /\ NamesAreSafe /\ source.warnings = 0
  BY DEF CodeInv, Reading, Regular
<1>2. Len(ir) = Len(Source) /\ Len(Source) \in Nat BY <1>1, ListIsProgram
<1>3. tac_code - 1 = Len(Source) BY <1>1, <1>2 DEF Laid
<1>4. Formed BY <1>1 DEF Laid, Emitted
<1>5. source \in Outputs BY <1>1 DEF BackEndInv
<1>6. Compiled(Source) BY <1>1, <1>5, RunAssumption DEF Source
<1>7. \A k \in 1..Len(Source) : Source[k] \in Instructions /\ Printable(Source[k])
  BY <1>5, SourceType DEF Source
<1>8. \A k \in 1..Len(Source) : ~ UsesElement(Source[k]) BY DEF Regular, UsesArray, UsesElement
<1> QED BY <1>2, <1>3, <1>4, <1>6, <1>7, <1>8 DEF Solid, Formed, Regular

(* d is c when the first i of the operands have been loaded.               *)
Loaded(c, d, k, loads, i) ==
  /\ IsMachine(d) /\ d.pc = <<k, i + 1>>
  /\ \A x \in E!Registers : (\A j \in 1..i : loads[j].rd # x) => d.regs[x] = c.regs[x]
  /\ \A j \in 1..i : d.regs[loads[j].rd] = Peek(c.array, loads[j].imm)
  /\ d.array = c.array /\ d.stack = c.stack /\ d.typed = c.typed /\ d.screen = c.screen

LEMMA LoadForms ==
  ASSUME NEW loads, Loading(loads), NEW i \in 1..Len(loads)
  PROVE  /\ loads[i] = E!Lw(loads[i].rd, loads[i].imm) /\ loads[i].rd \in Loaders
         /\ loads[i].rd \in E!Registers
<1>1. loads[i] \in LoadOps BY DEF Loading
<1>2. PICK r \in Loaders, v \in Int : loads[i] = E!Lw(r, v) BY <1>1 DEF LoadOps
<1>3. E!Lw(r, v).rd = r /\ E!Lw(r, v).imm = v BY OpFields DEF E!Lw
<1> QED BY <1>2, <1>3 DEF Loaders, E!Registers

LEMMA LoadsOne ==
  ASSUME NEW c, NEW d, NEW k, NEW loads, NEW behind, Loading(loads),
         Block(code[k], loads, behind), Len(behind) \in Nat \ {0},
         NEW i \in Nat, i < Len(loads), Loaded(c, d, k, loads, i)
  PROVE  Loaded(c, Exec(d), k, loads, i + 1)
<1> DEFINE r == loads[i + 1].rd v == loads[i + 1].imm e == Exec(d)
<1>0. Len(loads) \in Nat /\ i + 1 \in 1..Len(loads) BY LoadsAreTyped
<1>1. /\ loads[i + 1] = E!Lw(r, v) /\ r \in E!Registers
      /\ \A j \in 1..i : loads[j].rd # r
  BY <1>0, LoadForms DEF Loading
<1> HIDE DEF r, v, e
<1>2. /\ Len(code[k]) = Len(loads) + Len(behind) /\ code[k][i + 1] = E!Lw(r, v)
  BY <1>0, <1>1 DEF Block
<1>3. IsMachine(d) /\ d.pc = <<k, i + 1>> /\ d.pc[1] = k /\ d.pc[2] = i + 1 BY DEF Loaded
<1>4. code[k] # <<>> BY <1>0, <1>2
<1>5. IsAt(d, E!Lw(r, v)) BY <1>2, <1>3, <1>4 DEF IsAt
<1>6. Puts(d, e, r, Peek(d.array, v)) BY <1>1, <1>3, <1>5, DoesLw DEF e
<1>7. Following(code, d.pc) = <<k, i + 2>> BY <1>0, <1>2, <1>3 DEF Following
<1>8. IsMachine(e) /\ e.pc = <<k, (i + 1) + 1>> BY <1>6, <1>7 DEF Puts
<1>9. /\ e.array = c.array /\ e.stack = c.stack /\ e.typed = c.typed /\ e.screen = c.screen
      /\ d.array = c.array
  BY <1>6 DEF Puts, Loaded
<1>10. ASSUME NEW x \in E!Registers, \A j \in 1..i + 1 : loads[j].rd # x
       PROVE  e.regs[x] = c.regs[x]
  <2>1. x # r BY <1>0, <1>10 DEF r
  <2>2. d.regs[x] = c.regs[x] BY <1>0, <1>10 DEF Loaded
  <2> QED BY <1>6, <2>1, <2>2 DEF Puts
<1>11. ASSUME NEW j \in 1..i + 1 PROVE e.regs[loads[j].rd] = Peek(c.array, loads[j].imm)
  <2>1. CASE j = i + 1 BY <1>1, <1>6, <1>9, <2>1 DEF Puts, r, v
  <2>2. CASE j \in 1..i
    <3>1. loads[j].rd # r /\ loads[j].rd \in E!Registers BY <1>0, <1>1, <2>2, LoadForms
    <3> QED BY <1>6, <2>2, <3>1 DEF Puts, Loaded
  <2> QED BY <1>0, <2>1, <2>2
<1> QED BY <1>8, <1>9, <1>10, <1>11 DEF Loaded, e

(* When what follows the loads leads there, the code does.                 *)
OnceLoaded(c, k, loads, p, o, l) ==
  \A d : Loaded(c, d, k, loads, Len(loads)) => Reaches(d, p, o, l)

LEMMA LoadsLead ==
  ASSUME NEW c, IsMachine(c), NEW k, c.pc = <<k, 1>>, NEW loads, NEW behind, Loading(loads),
         Block(code[k], loads, behind), Len(behind) \in Nat \ {0},
         NEW p, NEW o, NEW l, OnceLoaded(c, k, loads, p, o, l)
  PROVE  Reaches(c, p, o, l)
<1> DEFINE n == Len(loads) R(d) == Reaches(d, p, o, l) L(d, i) == Loaded(c, d, k, loads, i)
<1>1. n \in {0, 1, 2}
  <2>1. Len(loads) \in Nat /\ Len(loads) <= 2 BY LoadsAreTyped
  <2>2. \A i \in Nat : i <= 2 => i \in {0, 1, 2} OBVIOUS
  <2> QED BY ONLY <2>1, <2>2
<1>2. L(c, 0) BY DEF Loaded
<1>3. /\ \A d : L(d, 1) \/ L(d, 2) => d.pc[2] # 1
      /\ \A d : L(d, 0) \/ L(d, 1) => IsMachine(d)
  BY DEF Loaded
<1>4. ASSUME NEW d, NEW i \in Nat, NEW j, j = i + 1, i < n, L(d, i) PROVE L(Exec(d), j)
  BY <1>4, LoadsOne
<1>5. \A d : L(d, n) => R(d) BY DEF OnceLoaded
<1>6. \A d : IsMachine(d) /\ Exec(d).pc[2] # 1 /\ R(Exec(d)) => R(d) BY ReachesBefore
<1> HIDE DEF n, R, L
<1>7. \A d : 0 < n /\ L(d, 0) => L(Exec(d), 1)
  <2>1. 0 \in Nat /\ 1 = 0 + 1 OBVIOUS
  <2> SUFFICES ASSUME NEW d, 0 < n, L(d, 0) PROVE L(Exec(d), 1)
    OBVIOUS
  <2>2. \A j : j = 1 => L(Exec(d), j) BY <1>4, <2>1
  <2> QED BY <2>1, <2>2
<1>8. \A d : 1 < n /\ L(d, 1) => L(Exec(d), 2)
  <2>1. 1 \in Nat /\ 2 = 1 + 1 OBVIOUS
  <2> SUFFICES ASSUME NEW d, 1 < n, L(d, 1) PROVE L(Exec(d), 2)
    OBVIOUS
  <2>2. \A j : j = 2 => L(Exec(d), j) BY <1>4, <2>1
  <2> QED BY <2>1, <2>2
<1>10. \A d : 0 < n /\ L(d, 0) /\ R(Exec(d)) => R(d) BY <1>3, <1>6, <1>7
<1>11. \A d : 1 < n /\ L(d, 1) /\ R(Exec(d)) => R(d) BY <1>3, <1>6, <1>8
<1>12. CASE n = 0 BY <1>2, <1>5, <1>12 DEF R
<1>13. CASE n = 1
  <2>1. L(Exec(c), 1) BY <1>2, <1>7, <1>13
  <2>2. R(Exec(c)) BY <1>5, <1>13, <2>1
  <2> QED BY <1>2, <1>10, <1>13, <2>2 DEF R
<1>14. CASE n = 2
  <2>1. L(Exec(c), 1) BY <1>2, <1>7, <1>14
  <2>2. L(Exec(Exec(c)), 2) BY <1>8, <1>14, <2>1
  <2>3. R(Exec(Exec(c))) BY <1>5, <1>14, <2>2
  <2>4. R(Exec(c)) BY <1>11, <1>14, <2>1, <2>3
  <2> QED BY <1>2, <1>10, <1>14, <2>4 DEF R
<1> QED BY <1>1, <1>12, <1>13, <1>14

-----------------------------------------------------------------------------
(* What the code of one instruction does to the processor.                 *)

Held == {"sp", "ra", "a0", "a1", "a2", "a3"}

(* Whoever runs in c will not notice d.                                    *)
Near(c, d) ==
  /\ IsMachine(d) /\ \A r \in Held : d.regs[r] = c.regs[r]
  /\ \A w \in Int : w >= c.regs["sp"] => Peek(d.stack, w) = Peek(c.stack, w)

Untouched(c, d, typed) ==
  /\ Near(c, d) /\ d.screen = c.screen /\ d.typed = typed
  /\ \A w : Peek(d.array, w) = Peek(c.array, w)

(* e is c behind the code of instruction k, which has set n to v.          *)
SetsTo(c, e, k, n, v, typed) ==
  /\ Near(c, e) /\ e.pc = <<k + 1, 1>> /\ e.screen = c.screen /\ e.typed = typed
  /\ e.regs["s0"] = v
  /\ \A w : Peek(e.array, w) = IF w = Slot(n) THEN v ELSE Peek(c.array, w)

LEMMA PlaceIs ==
  ASSUME NEW d, NEW k, NEW i, d.pc = <<k, i>>, Len(code[k]) \in Nat, i \in 1..Len(code[k]),
         NEW op, code[k][i] = op
  PROVE  /\ IsAt(d, op)
         /\ i = Len(code[k]) => Following(code, d.pc) = <<k + 1, 1>>
         /\ i # Len(code[k]) => Following(code, d.pc) = <<k, i + 1>>
<1>1. d.pc[1] = k /\ d.pc[2] = i OBVIOUS
<1>2. code[k] # <<>> OBVIOUS
<1> QED BY <1>1, <1>2 DEF IsAt, Following

LEMMA NearPuts ==
  ASSUME NEW c, NEW d, NEW e, NEW r, NEW v, NEW typed, Puts(d, e, r, v), r \notin Held,
         Untouched(c, d, typed)
  PROVE  Untouched(c, e, typed)
<1>1. \A x \in Held : x \in E!Registers BY DEF Held, E!Registers
<1> QED BY <1>1 DEF Puts, Untouched, Near

LEMMA NearLoaded ==
  ASSUME NEW c, IsMachine(c), NEW d, NEW k, NEW loads, Loading(loads),
         Loaded(c, d, k, loads, Len(loads))
  PROVE  Untouched(c, d, c.typed)
<1>1. \A x \in Held : x \in E!Registers /\ \A j \in 1..Len(loads) : loads[j].rd # x
  BY LoadForms DEF Held, E!Registers, Loaders
<1> QED BY <1>1 DEF Loaded, Untouched, Near

LEMMA StoreSets ==
  ASSUME NEW c, NEW d, NEW k, NEW n, NEW v, NEW typed, Len(code[k]) \in Nat \ {0},
         d.pc = <<k, Len(code[k])>>, code[k][Len(code[k])] = E!Sw("s0", Slot(n)),
         Untouched(c, d, typed), d.regs["s0"] = v
  PROVE  SetsTo(c, Exec(d), k, n, v, typed)
<1> DEFINE e == Exec(d) s == Slot(n)
<1> HIDE DEF e, s
<1>1. IsMachine(d) BY DEF Untouched, Near
<1>2. IsAt(d, E!Sw("s0", s)) /\ Following(code, d.pc) = <<k + 1, 1>> BY PlaceIs DEF s
<1>3. Stores(d, e, s, v) BY <1>1, <1>2, DoesSw DEF e
<1>4. SetsTo(c, e, k, n, v, typed)
  BY <1>2, <1>3 DEF Stores, SetsTo, Untouched, Near, s
<1> QED BY <1>4 DEF e

(* Wherever that ends, it is with the program.                             *)
SetLands(c, k, n, v, typed, p, o, l) ==
  \A e : SetsTo(c, e, k, n, v, typed) => Landed(e, p, o, l)

LEMMA StoreLands ==
  ASSUME NEW c, NEW d, NEW k, NEW n, NEW v, NEW typed, Len(code[k]) \in Nat \ {0},
         d.pc = <<k, Len(code[k])>>, code[k][Len(code[k])] = E!Sw("s0", Slot(n)),
         Untouched(c, d, typed), d.regs["s0"] = v,
         NEW p, NEW o, NEW l, SetLands(c, k, n, v, typed, p, o, l)
  PROVE  Reaches(d, p, o, l)
<1>1. SetsTo(c, Exec(d), k, n, v, typed) BY StoreSets
<1>2. Landed(Exec(d), p, o, l) BY <1>1 DEF SetLands
<1>3. Exec(d).pc[2] = 1 BY <1>1 DEF SetsTo
<1>4. IsMachine(d) BY DEF Untouched, Near
<1> QED BY <1>2, <1>3, <1>4, ReachesLast

(* One instruction before it that leaves the value in $s0.                 *)
LEMMA PutLands ==
  ASSUME NEW c, NEW d, NEW k, NEW n, NEW v, NEW typed, Len(code[k]) \in Nat, Len(code[k]) > 1,
         d.pc = <<k, Len(code[k]) - 1>>, code[k][Len(code[k])] = E!Sw("s0", Slot(n)),
         Untouched(c, d, typed), Puts(d, Exec(d), "s0", v),
         NEW p, NEW o, NEW l, SetLands(c, k, n, v, typed, p, o, l)
  PROVE  Reaches(d, p, o, l)
<1>1. Following(code, d.pc) = <<k, Len(code[k])>>
  <2>1. d.pc[1] = k /\ d.pc[2] = Len(code[k]) - 1 OBVIOUS
  <2> QED BY <2>1 DEF Following
<1>2. Untouched(c, Exec(d), typed)
  <2>1. "s0" \notin Held BY DEF Held
  <2> QED BY <2>1, NearPuts
<1>3. Exec(d).regs["s0"] = v /\ Exec(d).pc = <<k, Len(code[k])>>
  <2>1. "s0" \in E!Registers BY DEF E!Registers
  <2> QED BY <1>1, <2>1 DEF Puts
<1>4. Reaches(Exec(d), p, o, l)
  <2> DEFINE e == Exec(d)
  <2>1. e.regs["s0"] = v /\ e.pc = <<k, Len(code[k])>> /\ Untouched(c, e, typed) BY <1>2, <1>3
  <2> HIDE DEF e
  <2>2. Reaches(e, p, o, l) BY <2>1, StoreLands
  <2> QED BY <2>2 DEF e
<1>5. Exec(d).pc[2] # 1 /\ IsMachine(d) BY <1>3 DEF Untouched, Near
<1> QED BY <1>4, <1>5, ReachesBefore

LEMMA ConstantLeads ==
  ASSUME NEW c, IsMachine(c), NEW k, c.pc = <<k, 1>>, ConstantForm(linklist, k, code[k]),
         NEW p, NEW o, NEW l,
         SetLands(c, k, Source[k].op1, Source[k].value, c.typed, p, o, l)
  PROVE  Reaches(c, p, o, l)
<1> DEFINE b == code[k] n == Source[k].op1 v == Source[k].value
           li == E!Li("s0", v) sw == E!Sw("s0", Slot(n))
<1>1. b = <<li, sw>> BY DEF ConstantForm, Slot
<1> HIDE DEF li, sw, b
<1>2. Len(b) = 2 /\ b[1] = li /\ b[2] = sw BY <1>1
<1>3. IsAt(c, E!Li("s0", v)) BY <1>2, PlaceIs DEF b, li
<1>4. "s0" \in E!Registers BY DEF E!Registers
<1>5. Puts(c, Exec(c), "s0", v) BY <1>3, <1>4, DoesLi
<1>6. Untouched(c, c, c.typed) BY DEF Untouched, Near
<1>7. /\ Len(code[k]) \in Nat /\ Len(code[k]) > 1 /\ c.pc = <<k, Len(code[k]) - 1>>
      /\ code[k][Len(code[k])] = E!Sw("s0", Slot(n))
  BY <1>2 DEF b, sw
<1> HIDE DEF n, v
<1>8. SetLands(c, k, n, v, c.typed, p, o, l) BY DEF n, v
<1> QED BY <1>5, <1>6, <1>7, <1>8, PutLands

LEMMA AssignLeads ==
  ASSUME NEW c, IsMachine(c), NEW k, c.pc = <<k, 1>>, NEW n, NEW loads, Loading(loads),
         NEW y, Block(code[k], loads, <<E!Move("s0", y), E!Sw("s0", Slot(n))>>),
         NEW v, \A d : Loaded(c, d, k, loads, Len(loads)) => d.regs[y] = v,
         NEW p, NEW o, NEW l, SetLands(c, k, n, v, c.typed, p, o, l)
  PROVE  Reaches(c, p, o, l)
<1> DEFINE behind == <<E!Move("s0", y), E!Sw("s0", Slot(n))>> m == Len(loads)
<1>1. /\ Len(behind) = 2 /\ behind[1] = E!Move("s0", y) /\ behind[2] = E!Sw("s0", Slot(n))
      /\ Block(code[k], loads, behind)
  OBVIOUS
<1> HIDE DEF behind
<1>2. m \in Nat BY LoadsAreTyped
<1>3. /\ Len(code[k]) = m + 2 /\ code[k][m + 1] = E!Move("s0", y)
      /\ code[k][m + 2] = E!Sw("s0", Slot(n))
  BY <1>1, <1>2 DEF Block
<1>4. "s0" \in E!Registers BY DEF E!Registers
<1>5. ASSUME NEW d, Loaded(c, d, k, loads, m) PROVE Reaches(d, p, o, l)
  <2>1. IsMachine(d) /\ d.pc = <<k, m + 1>> BY <1>5 DEF Loaded
  <2>2. IsAt(d, E!Move("s0", y)) BY <1>2, <1>3, <2>1, PlaceIs
  <2>3. d.regs[y] = v BY <1>5
  <2>4. Puts(d, Exec(d), "s0", v) BY <1>4, <2>1, <2>2, <2>3, DoesMove
  <2>5. Untouched(c, d, c.typed) BY <1>5, NearLoaded
  <2>6. /\ Len(code[k]) \in Nat /\ Len(code[k]) > 1 /\ d.pc = <<k, Len(code[k]) - 1>>
        /\ code[k][Len(code[k])] = E!Sw("s0", Slot(n))
    BY <1>2, <1>3, <2>1
  <2> QED BY <2>4, <2>5, <2>6, PutLands
<1>6. OnceLoaded(c, k, loads, p, o, l) BY <1>5 DEF OnceLoaded
<1>7. Len(behind) \in Nat \ {0} /\ Block(code[k], loads, behind) BY <1>1
<1> QED BY <1>6, <1>7, LoadsLead

LEMMA MinusLeads ==
  ASSUME NEW c, IsMachine(c), NEW k, c.pc = <<k, 1>>, NEW n, NEW loads, Loading(loads),
         NEW y \in Loaders, Block(code[k], loads, <<E!Neg(y), E!Addi("s0", y, 0),
                                                    E!Sw("s0", Slot(n))>>),
         NEW v \in Int, \A d : Loaded(c, d, k, loads, Len(loads)) => d.regs[y] = v,
         -v \in IntW,
         NEW p, NEW o, NEW l, SetLands(c, k, n, -v, c.typed, p, o, l)
  PROVE  Reaches(c, p, o, l)
<1> DEFINE behind == <<E!Neg(y), E!Addi("s0", y, 0), E!Sw("s0", Slot(n))>> m == Len(loads)
<1>1. /\ Len(behind) = 3 /\ behind[1] = E!Neg(y) /\ behind[2] = E!Addi("s0", y, 0)
      /\ behind[3] = E!Sw("s0", Slot(n)) /\ Block(code[k], loads, behind)
  OBVIOUS
<1> HIDE DEF behind
<1>2. m \in Nat BY LoadsAreTyped
<1>3. /\ Len(code[k]) = m + 3 /\ code[k][m + 1] = E!Neg(y)
      /\ code[k][m + 2] = E!Addi("s0", y, 0) /\ code[k][m + 3] = E!Sw("s0", Slot(n))
  BY <1>1, <1>2 DEF Block
<1>4. "s0" \in E!Registers /\ y \in E!Registers /\ y \notin Held
  BY DEF E!Registers, Loaders, Held
<1>5. ASSUME NEW d, Loaded(c, d, k, loads, m) PROVE Reaches(d, p, o, l)
  <2> DEFINE e == Exec(d)
  <2>1. IsMachine(d) /\ d.pc = <<k, m + 1>> BY <1>5 DEF Loaded
  <2>2. IsAt(d, E!Neg(y)) /\ Following(code, d.pc) = <<k, m + 2>>
    <3>1. /\ Len(code[k]) \in Nat /\ m + 1 \in 1..Len(code[k]) /\ m + 1 # Len(code[k])
          /\ (m + 1) + 1 = m + 2
      BY <1>2, <1>3
    <3>2. code[k][m + 1] = E!Neg(y) BY <1>3
    <3>3. IsAt(d, E!Neg(y)) /\ Following(code, d.pc) = <<k, (m + 1) + 1>>
      BY <2>1, <3>1, <3>2, PlaceIs
    <3> QED BY <3>1, <3>3
  <2>3. d.regs[y] = v BY <1>5
  <2>4. Puts(d, e, y, -v) BY <1>4, <2>1, <2>2, <2>3, DoesNeg
  <2>5. Untouched(c, d, c.typed) BY <1>5, NearLoaded
  <2>6. Untouched(c, e, c.typed) BY <1>4, <2>4, <2>5, NearPuts
  <2> HIDE DEF e
  <2>7. IsMachine(e) /\ e.pc = <<k, m + 2>> /\ e.regs[y] = -v BY <1>4, <2>2, <2>4 DEF Puts
  <2>8. IsAt(e, E!Addi("s0", y, 0)) BY <1>2, <1>3, <2>7, PlaceIs
  <2>9. e.regs[y] + 0 = -v BY <2>7
  <2>10. Puts(e, Exec(e), "s0", -v)
    <3>1. "s0" # "sp" /\ e.regs[y] + 0 \in IntW BY <2>9
    <3>2. Puts(e, Exec(e), "s0", e.regs[y] + 0) BY <1>4, <2>7, <2>8, <3>1, DoesAddi
    <3> QED BY <2>9, <3>2
  <2>11. /\ Len(code[k]) \in Nat /\ Len(code[k]) > 1 /\ e.pc = <<k, Len(code[k]) - 1>>
         /\ code[k][Len(code[k])] = E!Sw("s0", Slot(n))
    BY <1>2, <1>3, <2>7
  <2>12. Reaches(e, p, o, l) BY <2>6, <2>10, <2>11, PutLands
  <2>13. e.pc[2] # 1 BY <1>2, <2>7
  <2> QED BY <2>1, <2>12, <2>13, ReachesBefore DEF e
<1>6. OnceLoaded(c, k, loads, p, o, l) BY <1>5 DEF OnceLoaded
<1>7. Len(behind) \in Nat \ {0} /\ Block(code[k], loads, behind) BY <1>1
<1> QED BY <1>6, <1>7, LoadsLead

LEMMA ThreeLeads ==
  ASSUME NEW c, IsMachine(c), NEW k, c.pc = <<k, 1>>, NEW n, NEW loads, Loading(loads),
         NEW y, NEW z, NEW op, NEW relation,
         \/ op = "add" /\ relation = "+"
         \/ op = "sub" /\ relation = "-"
         \/ op = "mul" /\ relation = "*",
         Block(code[k], loads, <<E!Three(op, "s0", y, z), E!Sw("s0", Slot(n))>>),
         NEW v, \A d : Loaded(c, d, k, loads, Len(loads)) =>
                  /\ Apply(relation, d.regs[y], d.regs[z]) = v
                  /\ Exact(op, d.regs[y], d.regs[z]) \in IntW,
         NEW p, NEW o, NEW l, SetLands(c, k, n, v, c.typed, p, o, l)
  PROVE  Reaches(c, p, o, l)
<1> DEFINE three == E!Three(op, "s0", y, z) behind == <<three, E!Sw("s0", Slot(n))>>
           m == Len(loads)
<1>1. /\ Len(behind) = 2 /\ behind[1] = three /\ behind[2] = E!Sw("s0", Slot(n))
      /\ Block(code[k], loads, behind)
  OBVIOUS
<1> HIDE DEF behind, three
<1>2. m \in Nat BY LoadsAreTyped
<1>3. /\ Len(code[k]) = m + 2 /\ code[k][m + 1] = three
      /\ code[k][m + 2] = E!Sw("s0", Slot(n))
  BY <1>1, <1>2 DEF Block
<1>4. "s0" \in E!Registers BY DEF E!Registers
<1>5. ASSUME NEW d, Loaded(c, d, k, loads, m) PROVE Reaches(d, p, o, l)
  <2>1. IsMachine(d) /\ d.pc = <<k, m + 1>> BY <1>5 DEF Loaded
  <2>2. IsAt(d, three) BY <1>2, <1>3, <2>1, PlaceIs
  <2>3. /\ Apply(relation, d.regs[y], d.regs[z]) = v
        /\ Exact(op, d.regs[y], d.regs[z]) \in IntW
    BY <1>5
  <2>4. Puts(d, Exec(d), "s0", Apply(relation, d.regs[y], d.regs[z]))
    <3>1. IsAt(d, E!Three(op, "s0", y, z)) BY <2>2 DEF three
    <3> QED BY <1>4, <2>1, <2>3, <3>1, DoesThree
  <2>5. Untouched(c, d, c.typed) BY <1>5, NearLoaded
  <2>6. /\ Len(code[k]) \in Nat /\ Len(code[k]) > 1 /\ d.pc = <<k, Len(code[k]) - 1>>
        /\ code[k][Len(code[k])] = E!Sw("s0", Slot(n))
    BY <1>2, <1>3, <2>1
  <2>7. Puts(d, Exec(d), "s0", v) BY <2>3, <2>4
  <2> QED BY <2>5, <2>6, <2>7, PutLands
<1>6. OnceLoaded(c, k, loads, p, o, l) BY <1>5 DEF OnceLoaded
<1>7. Len(behind) \in Nat \ {0} /\ Block(code[k], loads, behind) BY <1>1
<1> QED BY <1>6, <1>7, LoadsLead

LEMMA DivLeads ==
  ASSUME NEW c, IsMachine(c), NEW k, c.pc = <<k, 1>>, NEW n, NEW loads, Loading(loads),
         NEW y, NEW z,
         Block(code[k], loads, <<E!Three("div", E!None, y, z),
                                 E!Three("mflo", "s0", E!None, E!None), E!Sw("s0", Slot(n))>>),
         NEW v, \A d : Loaded(c, d, k, loads, Len(loads)) =>
                  Apply("/", d.regs[y], d.regs[z]) = v,
         NEW p, NEW o, NEW l, SetLands(c, k, n, v, c.typed, p, o, l)
  PROVE  Reaches(c, p, o, l)
<1> DEFINE div == E!Three("div", E!None, y, z) mflo == E!Three("mflo", "s0", E!None, E!None)
           behind == <<div, mflo, E!Sw("s0", Slot(n))>> m == Len(loads)
<1>1. /\ Len(behind) = 3 /\ behind[1] = div /\ behind[2] = mflo
      /\ behind[3] = E!Sw("s0", Slot(n)) /\ Block(code[k], loads, behind)
  OBVIOUS
<1> HIDE DEF behind, div, mflo
<1>2. m \in Nat BY LoadsAreTyped
<1>3. /\ Len(code[k]) = m + 3 /\ code[k][m + 1] = div
      /\ code[k][m + 2] = mflo /\ code[k][m + 3] = E!Sw("s0", Slot(n))
  BY <1>1, <1>2 DEF Block
<1>4. "s0" \in E!Registers BY DEF E!Registers
<1>5. ASSUME NEW d, Loaded(c, d, k, loads, m) PROVE Reaches(d, p, o, l)
  <2> DEFINE e == Exec(d)
  <2>1. IsMachine(d) /\ d.pc = <<k, m + 1>> BY <1>5 DEF Loaded
  <2>2. IsAt(d, div) /\ Following(code, d.pc) = <<k, m + 2>>
    <3>1. /\ Len(code[k]) \in Nat /\ m + 1 \in 1..Len(code[k]) /\ m + 1 # Len(code[k])
          /\ (m + 1) + 1 = m + 2
      BY <1>2, <1>3
    <3>2. IsAt(d, div) /\ Following(code, d.pc) = <<k, (m + 1) + 1>>
      BY <1>3, <2>1, <3>1, PlaceIs
    <3> QED BY <3>1, <3>2
  <2>3. Apply("/", d.regs[y], d.regs[z]) = v BY <1>5
  <2>4. Divides(d, e, v)
    <3>1. IsAt(d, E!Three("div", E!None, y, z)) BY <2>2 DEF div
    <3>2. Divides(d, e, Apply("/", d.regs[y], d.regs[z])) BY <2>1, <3>1, DoesDiv
    <3> QED BY <2>3, <3>2
  <2>5. Untouched(c, d, c.typed) BY <1>5, NearLoaded
  <2> HIDE DEF e
  <2>6. Untouched(c, e, c.typed) BY <2>4, <2>5 DEF Divides, Untouched, Near
  <2>7. IsMachine(e) /\ e.pc = <<k, m + 2>> /\ e.lo = v BY <2>2, <2>4 DEF Divides
  <2>8. IsAt(e, E!Three("mflo", "s0", E!None, E!None)) BY <1>2, <1>3, <2>7, PlaceIs DEF mflo
  <2>9. Puts(e, Exec(e), "s0", e.lo) BY <1>4, <2>7, <2>8, DoesMflo
  <2>10. Puts(e, Exec(e), "s0", v) BY <2>7, <2>9
  <2>11. /\ Len(code[k]) \in Nat /\ Len(code[k]) > 1 /\ e.pc = <<k, Len(code[k]) - 1>>
         /\ code[k][Len(code[k])] = E!Sw("s0", Slot(n))
    BY <1>2, <1>3, <2>7
  <2>12. Reaches(e, p, o, l) BY <2>6, <2>10, <2>11, PutLands
  <2>13. e.pc[2] # 1 BY <1>2, <2>7
  <2> QED BY <2>1, <2>12, <2>13, ReachesBefore DEF e
<1>6. OnceLoaded(c, k, loads, p, o, l) BY <1>5 DEF OnceLoaded
<1>7. Len(behind) \in Nat \ {0} /\ Block(code[k], loads, behind) BY <1>1
<1> QED BY <1>6, <1>7, LoadsLead

(* It lands, or it goes on to where it will.                               *)
Comes(e, p, o, l) == IF e.pc[2] = 1 THEN Landed(e, p, o, l) ELSE Reaches(e, p, o, l)

LEMMA ComesThere ==
  ASSUME NEW d, IsMachine(d), NEW p, NEW o, NEW l, Comes(Exec(d), p, o, l)
  PROVE  Reaches(d, p, o, l)
BY ReachesLast, ReachesBefore DEF Comes

Skips(c, e, pc) ==
  /\ Untouched(c, e, c.typed) /\ e.regs["s0"] = c.regs["s0"] /\ e.pc = pc

(* Once its operands are loaded the comparison comes out as taken says.     *)
Decides(c, k, loads, relation, y, z, taken) ==
  \A d : Loaded(c, d, k, loads, Len(loads)) =>
    (Holds(relation, d.regs[y], d.regs[z]) <=> taken)

LEMMA BranchLeads ==
  ASSUME NEW c, IsMachine(c), NEW k, c.pc = <<k, 1>>, NEW loads, Loading(loads),
         NEW y, NEW z, NEW t, NEW relation \in {"<", "<=", ">", ">=", "==", "!="},
         Block(code[k], loads, <<E!Op(Comparison(relation), E!None, y, z, 0, t)>>),
         NEW taken \in BOOLEAN, Decides(c, k, loads, relation, y, z, taken),
         NEW p, NEW o, NEW l, NEW pc, pc = IF taken THEN Address(code, t) ELSE <<k + 1, 1>>,
         \A e : Skips(c, e, pc) => Landed(e, p, o, l)
  PROVE  Reaches(c, p, o, l)
<1> DEFINE op == E!Op(Comparison(relation), E!None, y, z, 0, t) behind == <<op>>
           m == Len(loads)
<1>1. Len(behind) = 1 /\ behind[1] = op /\ Block(code[k], loads, behind)
  OBVIOUS
<1>0. pc[2] = 1 BY DEF Address
<1>01. \A e : Skips(c, e, pc) => Landed(e, p, o, l) OBVIOUS
<1> HIDE DEF behind, op
<1>2. m \in Nat BY LoadsAreTyped
<1>3. Len(code[k]) = m + 1 /\ code[k][m + 1] = op BY <1>1, <1>2 DEF Block
<1>5. ASSUME NEW d, Loaded(c, d, k, loads, m) PROVE Reaches(d, p, o, l)
  <2>1. IsMachine(d) /\ d.pc = <<k, m + 1>> BY <1>5 DEF Loaded
  <2>2. IsAt(d, op) /\ Following(code, d.pc) = <<k + 1, 1>>
    <3> DEFINE a == m + 1
    <3>1. /\ a \in 1..Len(code[k]) /\ Len(code[k]) \in Nat /\ a = Len(code[k])
          /\ code[k][a] = op /\ d.pc = <<k, a>>
      BY <1>2, <1>3, <2>1
    <3> HIDE DEF a
    <3> QED BY <3>1, PlaceIs
  <2>3. Holds(relation, d.regs[y], d.regs[z]) <=> taken BY <1>5 DEF Decides
  <2>4. Goes(d, Exec(d), pc)
    <3>1. Goes(d, Exec(d), IF Holds(relation, d.regs[y], d.regs[z]) THEN Address(code, t)
                           ELSE Following(code, d.pc))
      BY <2>1, <2>2, DoesBranch DEF op
    <3> QED BY <2>2, <2>3, <3>1
  <2>5. Untouched(c, d, c.typed) BY <1>5, NearLoaded
  <2>6. d.regs["s0"] = c.regs["s0"]
    <3>1. "s0" \in E!Registers /\ \A j \in 1..m : loads[j].rd # "s0"
      BY LoadForms DEF E!Registers, Loaders
    <3> QED BY <1>5, <3>1 DEF Loaded
  <2>7. Skips(c, Exec(d), pc)
    BY <2>4, <2>5, <2>6 DEF Goes, Skips, Untouched, Near
  <2>8. Landed(Exec(d), p, o, l) BY <1>01, <2>7
  <2>9. Exec(d).pc[2] = 1 BY <1>0, <2>7 DEF Skips
  <2> QED BY <2>1, <2>8, <2>9, ReachesLast
<1>6. OnceLoaded(c, k, loads, p, o, l) BY <1>5 DEF OnceLoaded
<1>7. Len(behind) \in Nat \ {0} /\ Block(code[k], loads, behind) BY <1>1
<1> QED BY <1>6, <1>7, LoadsLead

(* A return with v.                                                        *)
Returns(c, e, v) ==
  Untouched(c, e, c.typed) /\ e.pc = c.regs["ra"] /\ e.regs["v0"] = v

LEMMA ReturnLeads ==
  ASSUME NEW c, IsMachine(c), NEW k, c.pc = <<k, 1>>, NEW loads, Loading(loads),
         NEW y, Block(code[k], loads, <<E!Move("v0", y), E!Jump("jr", NoName)>>),
         NEW v, \A d : Loaded(c, d, k, loads, Len(loads)) => d.regs[y] = v,
         NEW p, NEW o, NEW l, \A e : Returns(c, e, v) => Comes(e, p, o, l)
  PROVE  Reaches(c, p, o, l)
<1> DEFINE move == E!Move("v0", y) jr == E!Jump("jr", NoName) behind == <<move, jr>>
           m == Len(loads)
<1>1. /\ Len(behind) = 2 /\ behind[1] = move /\ behind[2] = jr
      /\ Block(code[k], loads, behind)
  OBVIOUS
<1> HIDE DEF behind, move, jr
<1>2. m \in Nat BY LoadsAreTyped
<1>3. Len(code[k]) = m + 2 /\ code[k][m + 1] = move /\ code[k][m + 2] = jr
  BY <1>1, <1>2 DEF Block
<1>4. "v0" \in E!Registers /\ "v0" \notin Held BY DEF E!Registers, Held
<1>5. ASSUME NEW d, Loaded(c, d, k, loads, m) PROVE Reaches(d, p, o, l)
  <2> DEFINE e == Exec(d) f == Exec(e)
  <2>1. IsMachine(d) /\ d.pc = <<k, m + 1>> BY <1>5 DEF Loaded
  <2>2. IsAt(d, move) /\ Following(code, d.pc) = <<k, m + 2>>
    <3>1. /\ Len(code[k]) \in Nat /\ m + 1 \in 1..Len(code[k]) /\ m + 1 # Len(code[k])
          /\ (m + 1) + 1 = m + 2
      BY <1>2, <1>3
    <3>2. IsAt(d, move) /\ Following(code, d.pc) = <<k, (m + 1) + 1>>
      BY <1>3, <2>1, <3>1, PlaceIs
    <3> QED BY <3>1, <3>2
  <2>3. d.regs[y] = v BY <1>5
  <2>4. Puts(d, e, "v0", v)
    <3>1. Puts(d, e, "v0", d.regs[y]) BY <1>4, <2>1, <2>2, DoesMove DEF move
    <3> QED BY <2>3, <3>1
  <2>5. Untouched(c, d, c.typed) BY <1>5, NearLoaded
  <2>6. Untouched(c, e, c.typed) BY <1>4, <2>4, <2>5, NearPuts
  <2> HIDE DEF e
  <2>7. IsMachine(e) /\ e.pc = <<k, m + 2>> /\ e.regs["v0"] = v BY <1>4, <2>2, <2>4 DEF Puts
  <2>8. IsAt(e, E!Jump("jr", NoName)) BY <1>2, <1>3, <2>7, PlaceIs DEF jr
  <2>9. Goes(e, f, e.regs["ra"]) BY <2>7, <2>8, DoesJr
  <2> HIDE DEF f
  <2>10. Returns(c, f, v) BY <2>6, <2>7, <2>9 DEF Goes, Returns, Untouched, Near, Held
  <2>11. Comes(f, p, o, l) BY <2>10
  <2>12. Reaches(e, p, o, l) BY <2>7, <2>11, ComesThere DEF f
  <2>13. e.pc[2] # 1 BY <1>2, <2>7
  <2> QED BY <2>1, <2>12, <2>13, ReachesBefore DEF e
<1>6. OnceLoaded(c, k, loads, p, o, l) BY <1>5 DEF OnceLoaded
<1>7. Len(behind) \in Nat \ {0} /\ Block(code[k], loads, behind) BY <1>1
<1> QED BY <1>6, <1>7, LoadsLead

(* The code around a call of read or write, which saves the return address *)
(* below the stack: f is d behind it.                                      *)
Around(k, i, t) ==
  /\ Len(code[k]) \in Nat /\ i \in Nat \ {0} /\ i + 5 <= Len(code[k])
  /\ code[k][i] = E!Stack(-4) /\ code[k][i + 1] = E!SwStack("ra", 0)
  /\ code[k][i + 2] = E!Jump("jal", t) /\ code[k][i + 3] = E!LwStack("ra", 0)
  /\ code[k][i + 4] = E!Stack(4)

Routed(d, f, k, i, t) ==
  /\ IsMachine(f) /\ f.pc = <<k, i + 5>>
  /\ \A x \in E!Registers : x # "v0" => f.regs[x] = d.regs[x]
  /\ \A w \in Int : w >= d.regs["sp"] => Peek(f.stack, w) = Peek(d.stack, w)
  /\ f.array = d.array
  /\ IF t = "read" THEN /\ f.regs["v0"] = NextOf(d.typed) /\ f.typed = RestOf(d.typed)
                        /\ f.screen = d.screen
     ELSE f.typed = d.typed /\ f.screen = Append(d.screen, d.regs["a0"])

LEMMA RoutineLeads ==
  ASSUME NEW d, IsMachine(d), NEW k, NEW i, NEW t \in {"read", "write"}, Around(k, i, t),
         d.pc = <<k, i>>, d.regs["sp"] \in Int,
         NEW p, NEW o, NEW l, \A f : Routed(d, f, k, i, t) => Reaches(f, p, o, l)
  PROVE  Reaches(d, p, o, l)
<1> DEFINE sp == d.regs["sp"] ra == d.regs["ra"]
           e1 == Exec(d) e2 == Exec(e1) e3 == Exec(e2) e4 == Exec(e3) e5 == Exec(e4)
           R(e) == Reaches(e, p, o, l)
<1>0. /\ \A f : Routed(d, f, k, i, t) => R(f)
      /\ \A e : IsMachine(e) /\ Exec(e).pc[2] # 1 /\ R(Exec(e)) => R(e)
  BY ReachesBefore
<1> HIDE DEF R
<1>1. {"sp", "ra", "v0", "a0"} \subseteq E!Registers BY DEF E!Registers
<1>2. /\ Len(code[k]) \in Nat /\ i \in Nat /\ i \in 1..Len(code[k]) /\ i # Len(code[k])
      /\ i + 1 \in 1..Len(code[k]) /\ i + 1 # Len(code[k]) /\ (i + 1) + 1 = i + 2
      /\ i + 2 \in 1..Len(code[k]) /\ i + 2 # Len(code[k]) /\ (i + 2) + 1 = i + 3
      /\ i + 3 \in 1..Len(code[k]) /\ i + 3 # Len(code[k]) /\ (i + 3) + 1 = i + 4
      /\ i + 4 \in 1..Len(code[k]) /\ i + 4 # Len(code[k]) /\ (i + 4) + 1 = i + 5
  BY DEF Around
<1>3. /\ code[k][i] = E!Stack(-4) /\ code[k][i + 1] = E!SwStack("ra", 0)
      /\ code[k][i + 2] = E!Jump("jal", t) /\ code[k][i + 3] = E!LwStack("ra", 0)
      /\ code[k][i + 4] = E!Stack(4)
  BY DEF Around
<1> HIDE DEF sp, ra, e5, e4, e3, e2, e1
<1>4. Puts(d, e1, "sp", sp + (-4)) /\ Following(code, d.pc) = <<k, i + 1>>
  <2>1. IsAt(d, E!Stack(-4)) /\ Following(code, d.pc) = <<k, i + 1>> BY <1>2, <1>3, PlaceIs
  <2> QED BY <2>1, DoesStack DEF e1, sp
<1>5. e1.pc = <<k, i + 1>> /\ IsMachine(e1) /\ e1.regs["sp"] = sp - 4 /\ e1.regs["ra"] = ra
  BY <1>1, <1>4 DEF Puts, ra, sp
<1>6. Pushes(e1, e2, sp - 4, ra) /\ Following(code, e1.pc) = <<k, i + 2>>
  <2>1. IsAt(e1, E!SwStack("ra", 0)) /\ Following(code, e1.pc) = <<k, (i + 1) + 1>>
    BY <1>2, <1>3, <1>5, PlaceIs
  <2>2. Pushes(e1, e2, e1.regs["sp"] + 0, e1.regs["ra"]) BY <1>5, <2>1, DoesSwStack DEF e2
  <2>3. (sp - 4) + 0 = sp - 4 BY DEF sp
  <2> QED BY <1>2, <1>5, <2>1, <2>2, <2>3
<1>7. /\ e2.pc = <<k, i + 2>> /\ IsMachine(e2) /\ e2.regs = e1.regs
      /\ Peek(e2.stack, sp - 4) = ra
  BY <1>6 DEF Pushes
<1>8. /\ IsAt(e2, E!Jump("jal", t)) /\ Following(code, e2.pc) = <<k, i + 3>>
  <2>1. IsAt(e2, E!Jump("jal", t)) /\ Following(code, e2.pc) = <<k, (i + 2) + 1>>
    BY <1>2, <1>3, <1>7, PlaceIs
  <2> QED BY <1>2, <2>1
<1>9. /\ e3.pc = <<k, i + 3>> /\ IsMachine(e3)
      /\ \A x \in E!Registers : x # "v0" => e3.regs[x] = e2.regs[x]
      /\ e3.array = e2.array /\ e3.stack = e2.stack
      /\ IF t = "read" THEN /\ e3.regs["v0"] = NextOf(e2.typed) /\ e3.typed = RestOf(e2.typed)
                            /\ e3.screen = e2.screen
         ELSE e3.typed = e2.typed /\ e3.screen = Append(e2.screen, e2.regs["a0"])
  <2>1. CASE t = "read"
    <3>1. ReadsIn(e2, e3) BY <1>7, <1>8, <2>1, DoesRead DEF e3
    <3> QED BY <1>1, <1>8, <2>1, <3>1 DEF ReadsIn
  <2>2. CASE t = "write"
    <3>1. WritesOut(e2, e3) BY <1>7, <1>8, <2>2, DoesWrite DEF e3
    <3> QED BY <1>1, <1>8, <2>2, <3>1 DEF WritesOut
  <2> QED BY <2>1, <2>2
<1>10. e3.regs["sp"] = sp - 4 /\ e3.regs["ra"] = ra BY <1>1, <1>5, <1>7, <1>9
<1>11. Puts(e3, e4, "ra", ra) /\ Following(code, e3.pc) = <<k, i + 4>>
  <2>0. e3.pc = <<k, i + 3>> BY <1>9
  <2>1. IsAt(e3, E!LwStack("ra", 0)) /\ Following(code, e3.pc) = <<k, (i + 3) + 1>>
    BY <1>2, <1>3, <2>0, PlaceIs
  <2>2. Puts(e3, e4, "ra", Peek(e3.stack, e3.regs["sp"] + 0))
    BY <1>1, <1>9, <2>1, DoesLwStack DEF e4
  <2>3. (sp - 4) + 0 = sp - 4 BY DEF sp
  <2> QED BY <1>2, <1>7, <1>9, <1>10, <2>1, <2>2, <2>3
<1>12. e4.pc = <<k, i + 4>> /\ IsMachine(e4) /\ e4.regs["sp"] = sp - 4
  BY <1>1, <1>10, <1>11 DEF Puts
<1>13. Puts(e4, e5, "sp", sp) /\ Following(code, e4.pc) = <<k, i + 5>>
  <2>1. IsAt(e4, E!Stack(4)) /\ Following(code, e4.pc) = <<k, (i + 4) + 1>>
    BY <1>2, <1>3, <1>12, PlaceIs
  <2>2. Puts(e4, e5, "sp", e4.regs["sp"] + 4) BY <1>12, <2>1, DoesStack DEF e5
  <2>3. (sp - 4) + 4 = sp BY DEF sp
  <2> QED BY <1>2, <1>12, <2>1, <2>2, <2>3
<1>14. \A x \in E!Registers : x # "v0" => e5.regs[x] = d.regs[x]
  <2> SUFFICES ASSUME NEW x \in E!Registers, x # "v0" PROVE e5.regs[x] = d.regs[x]
    OBVIOUS
  <2>1. e1.regs[x] = IF x = "sp" THEN sp - 4 ELSE d.regs[x] BY <1>4, <1>5 DEF Puts
  <2>2. e3.regs[x] = e1.regs[x] BY <1>7, <1>9
  <2>3. e4.regs[x] = IF x = "ra" THEN ra ELSE e3.regs[x] BY <1>11 DEF Puts
  <2>4. e5.regs[x] = IF x = "sp" THEN sp ELSE e4.regs[x] BY <1>13 DEF Puts
  <2> QED BY <2>1, <2>2, <2>3, <2>4 DEF sp, ra
<1>15. \A w \in Int : w >= sp => Peek(e5.stack, w) = Peek(d.stack, w)
  <2>1. e5.stack = e2.stack /\ e1.stack = d.stack BY <1>4, <1>9, <1>11, <1>13 DEF Puts
  <2>2. \A w \in Int : w >= sp => w # sp - 4 BY DEF sp
  <2> QED BY <1>6, <2>1, <2>2 DEF Pushes
<1>16. /\ e5.array = d.array /\ e5.typed = e3.typed /\ e5.screen = e3.screen
       /\ e2.typed = d.typed /\ e2.screen = d.screen
  BY <1>4, <1>6, <1>9, <1>11, <1>13 DEF Puts, Pushes
<1>17. e5.regs["v0"] = e3.regs["v0"] /\ e2.regs["a0"] = d.regs["a0"]
  BY <1>1, <1>4, <1>7, <1>11, <1>13 DEF Puts
<1>18. e5.pc = <<k, i + 5>> /\ IsMachine(e5) BY <1>13 DEF Puts
<1>19. Routed(d, e5, k, i, t)
  BY <1>9, <1>14, <1>15, <1>16, <1>17, <1>18 DEF Routed, sp
<1>20. R(e5) BY <1>0, <1>19
<1>21. R(e4)
  <2>1. e5.pc[2] = i + 5 /\ i + 5 # 1 BY <1>2, <1>18
  <2> QED BY <1>0, <1>12, <1>20, <2>1 DEF e5
<1>22. R(e3) BY <1>0, <1>2, <1>9, <1>12, <1>21 DEF e4
<1>23. R(e2) BY <1>0, <1>2, <1>7, <1>9, <1>22 DEF e3
<1>24. R(e1) BY <1>0, <1>2, <1>5, <1>7, <1>23 DEF e2
<1>25. e1.pc[2] # 1
  <2>1. i + 1 # 1 BY DEF Around
  <2> QED BY <1>5, <2>1
<1> QED BY <1>0, <1>24, <1>25 DEF e1, R

LEMMA ReadLeads ==
  ASSUME NEW c, IsMachine(c), NEW k, c.pc = <<k, 1>>, ReadForm(linklist, k, code[k]),
         c.regs["sp"] \in Int, NEW p, NEW o, NEW l,
         SetLands(c, k, Source[k].op1, NextOf(c.typed), RestOf(c.typed), p, o, l)
  PROVE  Reaches(c, p, o, l)
<1> DEFINE b == code[k] n == Source[k].op1 v == NextOf(c.typed) typed == RestOf(c.typed)
           s1 == E!Stack(-4) s2 == E!SwStack("ra", 0) s3 == E!Jump("jal", "read")
           s4 == E!LwStack("ra", 0) s5 == E!Stack(4) s6 == E!Move("s0", "v0")
           s7 == E!Sw("s0", Slot(n))
<1>1. b = <<s1, s2, s3, s4, s5, s6, s7>> BY DEF ReadForm, Slot
<1> HIDE DEF s1, s2, s3, s4, s5, s6, s7, b
<1>2. /\ Len(b) = 7 /\ b[1] = s1 /\ b[2] = s2 /\ b[3] = s3 /\ b[4] = s4 /\ b[5] = s5
      /\ b[6] = s6 /\ b[7] = s7
  BY <1>1
<1>3. Around(k, 1, "read") BY <1>2 DEF Around, b, s1, s2, s3, s4, s5
<1>4. ASSUME NEW f, Routed(c, f, k, 1, "read") PROVE Reaches(f, p, o, l)
  <2>1. /\ IsMachine(f) /\ f.pc = <<k, 6>> /\ f.regs["v0"] = v BY <1>4 DEF Routed
  <2>2. Untouched(c, f, typed)
    <3>1. \A x \in Held : x \in E!Registers /\ x # "v0" BY DEF Held, E!Registers
    <3> QED BY <1>4, <3>1 DEF Untouched, Near, Routed
  <2>3. IsAt(f, E!Move("s0", "v0")) BY <1>2, <2>1, PlaceIs DEF b, s6
  <2>4. "s0" \in E!Registers BY DEF E!Registers
  <2>5. Puts(f, Exec(f), "s0", v) BY <2>1, <2>3, <2>4, DoesMove
  <2>6. /\ Len(code[k]) \in Nat /\ Len(code[k]) > 1 /\ f.pc = <<k, Len(code[k]) - 1>>
        /\ code[k][Len(code[k])] = E!Sw("s0", Slot(n))
    BY <1>2, <2>1 DEF b, s7
  <2> HIDE DEF n, v, typed
  <2>7. SetLands(c, k, n, v, typed, p, o, l) BY DEF n, v, typed
  <2> QED BY <2>2, <2>5, <2>6, <2>7, PutLands
<1> QED BY <1>3, <1>4, RoutineLeads

(* write: prints what was computed last.                                   *)
Writes1(c, e, k) ==
  /\ Near(c, e) /\ e.pc = <<k + 1, 1>> /\ e.typed = c.typed
  /\ e.screen = Append(c.screen, c.regs["s0"]) /\ e.regs["s0"] = c.regs["s0"]
  /\ e.array = c.array

LEMMA WriteLeads ==
  ASSUME NEW c, IsMachine(c), NEW k, c.pc = <<k, 1>>, WriteForm(code[k]),
         c.regs["sp"] \in Int, NEW p, NEW o, NEW l,
         \A e : Writes1(c, e, k) => Landed(e, p, o, l)
  PROVE  Reaches(c, p, o, l)
<1> DEFINE b == code[k] sp == c.regs["sp"]
           s1 == E!Move("t7", "a0") s2 == E!Move("a0", "s0")
           s3 == E!Stack(-4) s4 == E!SwStack("ra", 0) s5 == E!Jump("jal", "write")
           s6 == E!LwStack("ra", 0) s7 == E!Stack(4) s8 == E!Move("a0", "t7")
           d == Exec(c) e == Exec(d)
<1>1. b = <<s1, s2, s3, s4, s5, s6, s7, s8>> BY DEF WriteForm
<1>0. \A f : Writes1(c, f, k) => Landed(f, p, o, l) OBVIOUS
<1> HIDE DEF s1, s2, s3, s4, s5, s6, s7, s8, b, d, e
<1>2. /\ Len(b) = 8 /\ b[1] = s1 /\ b[2] = s2 /\ b[3] = s3 /\ b[4] = s4 /\ b[5] = s5
      /\ b[6] = s6 /\ b[7] = s7 /\ b[8] = s8
  BY <1>1
<1>3. Around(k, 3, "write") BY <1>2 DEF Around, b, s3, s4, s5, s6, s7
<1>4. {"t7", "a0", "s0", "sp", "ra", "v0"} \subseteq E!Registers BY DEF E!Registers
<1>5. Puts(c, d, "t7", c.regs["a0"]) /\ Following(code, c.pc) = <<k, 2>>
  <2>1. /\ Len(code[k]) \in Nat /\ 1 \in 1..Len(code[k]) /\ 1 # Len(code[k])
        /\ 1 + 1 = 2 /\ code[k][1] = s1
    BY <1>2 DEF b
  <2>2. IsAt(c, s1) /\ Following(code, c.pc) = <<k, 2>>
    <3>1. IsAt(c, s1) /\ Following(code, c.pc) = <<k, 1 + 1>> BY ONLY <2>1, PlaceIs, c.pc = <<k, 1>>
    <3> QED BY <2>1, <3>1
  <2> QED BY <1>4, <2>2, DoesMove DEF d, s1
<1>6. IsMachine(d) /\ d.pc = <<k, 2>> /\ d.regs["s0"] = c.regs["s0"]
  BY <1>4, <1>5 DEF Puts
<1>7. Puts(d, e, "a0", c.regs["s0"]) /\ Following(code, d.pc) = <<k, 3>>
  <2>1. /\ Len(code[k]) \in Nat /\ 2 \in 1..Len(code[k]) /\ 2 # Len(code[k])
        /\ 2 + 1 = 3 /\ code[k][2] = s2
    BY <1>2 DEF b
  <2>2. IsAt(d, s2) /\ Following(code, d.pc) = <<k, 3>>
    <3>1. IsAt(d, s2) /\ Following(code, d.pc) = <<k, 2 + 1>> BY ONLY <2>1, PlaceIs, <1>6
    <3> QED BY <2>1, <3>1
  <2> QED BY <1>4, <1>6, <2>2, DoesMove DEF e, s2
<1>8. /\ IsMachine(e) /\ e.pc = <<k, 3>> /\ e.regs["t7"] = c.regs["a0"]
      /\ e.regs["a0"] = c.regs["s0"] /\ e.regs["sp"] = sp
  BY <1>4, <1>5, <1>7 DEF Puts
<1>9. ASSUME NEW f, Routed(e, f, k, 3, "write") PROVE Reaches(f, p, o, l)
  <2> DEFINE g == Exec(f)
  <2> HIDE DEF g
  <2>1. IsMachine(f) /\ f.pc = <<k, 8>> BY <1>9 DEF Routed
  <2>2. Puts(f, g, "a0", c.regs["a0"]) /\ Following(code, f.pc) = <<k + 1, 1>>
    <3>0. /\ Len(code[k]) \in Nat /\ 8 \in 1..Len(code[k]) /\ 8 = Len(code[k])
          /\ code[k][8] = s8
      BY <1>2 DEF b
    <3>1. IsAt(f, s8) /\ Following(code, f.pc) = <<k + 1, 1>>
      BY ONLY <2>1, <3>0, PlaceIs
    <3>2. f.regs["t7"] = c.regs["a0"] BY <1>4, <1>8, <1>9 DEF Routed
    <3> QED BY <1>4, <2>1, <3>1, <3>2, DoesMove DEF g, s8
  <2>3. \A x \in Held \cup {"s0"} : g.regs[x] = c.regs[x]
    <3>1. \A x \in Held \cup {"s0"} : x \in E!Registers /\ x # "v0" /\ x # "t7"
      BY DEF Held, E!Registers
    <3>2. \A x \in Held \cup {"s0"} : x # "a0" => e.regs[x] = c.regs[x]
      BY <1>5, <1>7, <3>1 DEF Puts
    <3>3. \A x \in Held \cup {"s0"} : f.regs[x] = e.regs[x] BY <1>9, <3>1 DEF Routed
    <3> QED BY <2>2, <3>1, <3>2, <3>3 DEF Puts
  <2>4. \A w \in Int : w >= sp => Peek(g.stack, w) = Peek(c.stack, w)
    <3>1. g.stack = f.stack /\ e.stack = c.stack BY <1>5, <1>7, <2>2 DEF Puts
    <3> QED BY <1>8, <1>9, <3>1 DEF Routed
  <2>5. /\ IsMachine(g) /\ g.pc = <<k + 1, 1>> /\ g.array = c.array /\ g.typed = c.typed
        /\ g.screen = Append(c.screen, c.regs["s0"])
    BY <1>5, <1>7, <1>8, <1>9, <2>2 DEF Puts, Routed
  <2>6. Writes1(c, g, k) BY <2>3, <2>4, <2>5 DEF Writes1, Near
  <2>7. Landed(g, p, o, l) /\ g.pc[2] = 1 BY <1>0, <2>5, <2>6
  <2> QED BY <2>1, <2>7, ReachesLast DEF g
<1>10. Reaches(e, p, o, l) BY <1>3, <1>8, <1>9, RoutineLeads
<1>11. Reaches(d, p, o, l) BY <1>6, <1>8, <1>10, ReachesBefore DEF e
<1> QED BY <1>6, <1>11, ReachesBefore DEF d

(* Code that only goes on, or elsewhere.                                   *)
LEMMA PlainLeads ==
  ASSUME NEW c, IsMachine(c), NEW k, c.pc = <<k, 1>>, NEW p, NEW o, NEW l, NEW t,
         NEW pc, \A e : Skips(c, e, pc) => Landed(e, p, o, l),
         \/ code[k] = <<>> /\ pc = <<k + 1, 1>>
         \/ code[k] = <<E!Jump("label", t)>> /\ pc = <<k + 1, 1>>
         \/ code[k] = <<E!Jump("j", t)>> /\ pc = Address(code, t)
  PROVE  Reaches(c, p, o, l)
<1> DEFINE e == Exec(c)
<1>0. c.pc[1] = k /\ c.pc[2] = 1 OBVIOUS
<1>1. Goes(c, e, pc)
  <2>1. CASE code[k] = <<>> /\ pc = <<k + 1, 1>>
    <3>1. Following(code, c.pc) = <<k + 1, 1>> BY <1>0, <2>1 DEF Following
    <3> QED BY <1>0, <2>1, <3>1, DoesNothing
  <2>2. CASE code[k] = <<E!Jump("label", t)>> /\ pc = <<k + 1, 1>>
    <3> DEFINE s == E!Jump("label", t)
    <3>1. code[k] = <<s>> BY <2>2
    <3> HIDE DEF s
    <3>2. /\ Len(code[k]) \in Nat /\ 1 \in 1..Len(code[k]) /\ 1 = Len(code[k])
          /\ code[k][1] = s /\ c.pc = <<k, 1>>
      BY <3>1
    <3>3. IsAt(c, s) /\ Following(code, c.pc) = <<k + 1, 1>> BY ONLY <3>2, PlaceIs
    <3> QED BY <2>2, <3>3, DoesLabel DEF s
  <2>3. CASE code[k] = <<E!Jump("j", t)>> /\ pc = Address(code, t)
    <3> DEFINE s == E!Jump("j", t)
    <3>1. code[k] = <<s>> BY <2>3
    <3> HIDE DEF s
    <3>2. /\ Len(code[k]) \in Nat /\ 1 \in 1..Len(code[k])
          /\ code[k][1] = s /\ c.pc = <<k, 1>>
      BY <3>1
    <3>3. IsAt(c, s) BY ONLY <3>2, PlaceIs
    <3> QED BY <2>3, <3>3, DoesJ DEF s
  <2> QED BY <2>1, <2>2, <2>3
<1>2. pc[2] = 1 BY DEF Address
<1> HIDE DEF e
<1>3. Skips(c, e, pc) BY <1>1 DEF Goes, Skips, Untouched, Near
<1>4. Landed(e, p, o, l) /\ e.pc[2] = 1 BY <1>2, <1>3 DEF Skips
<1> QED BY <1>4, ReachesLast DEF e

-----------------------------------------------------------------------------
(* What holds where the next instruction of the program begins.            *)

Begins(c, p, o, l) == Solid /\ Follows(c, p, o, l) /\ ~ Ended(p) /\ ~ Departs1(p, o, l)

LEMMA ProgramParts ==
  ASSUME NEW p \in Programs1, ~ Ended(p)
  PROVE  /\ Depth(p) \in Nat \ {0} /\ p.frames \in Seq(Frames) /\ Len(p.frames) = Depth(p)
         /\ \A d \in 1..Depth(p) :
              /\ p.frames[d] \in Frames /\ p.frames[d].back \in Nat
              /\ p.frames[d].env \in Envs /\ DOMAIN p.frames[d].env \subseteq Names
              /\ \A n \in DOMAIN p.frames[d].env : p.frames[d].env[n] \in Int
         /\ p.ip \in Nat /\ p.args \in Seq(Int) /\ p.input \in Seq(Int) /\ p.out \in Seq(Int)
         /\ p.result \in Int
<1>1. p.frames \in Seq(Frames) /\ Depth(p) = Len(p.frames) BY DEF Programs1, Depth
<1>2. Depth(p) \in Nat \ {0} BY <1>1 DEF Ended
<1>3. \A d \in 1..Depth(p) : p.frames[d] \in Frames BY <1>1
<1>4. \A f \in Frames : f.back \in Nat /\ f.env \in Envs BY DEF Frames
<1>5. \A e \in Envs : DOMAIN e \subseteq Names /\ \A n \in DOMAIN e : e[n] \in Int BY DEF Envs
<1>6. /\ p.ip \in Nat /\ p.args \in Seq(Int) /\ p.input \in Seq(Int) /\ p.out \in Seq(Int)
      /\ p.result \in Int
  BY DEF Programs1
<1> QED BY <1>1, <1>2, <1>3, <1>4, <1>5, <1>6

LEMMA BeginsAt ==
  ASSUME NEW c, NEW p, NEW o, NEW l, Begins(c, p, o, l)
  PROVE  LET k == p.ip
         IN /\ IsMachine(c) /\ p \in Programs1 /\ DOMAIN o = Names
            /\ c.screen = p.out /\ c.typed = p.input /\ Runs(c, p, o, l)
            /\ k \in 1..Len(Source) /\ Len(Source) \in Nat /\ k \in Nat \ {0}
            /\ c.pc = <<k, 1>> /\ c.regs["sp"] = -20 * (Depth(p) - 1)
            /\ c.regs["sp"] \in Int
            /\ Source[k] \in Instructions /\ Printable(Source[k]) /\ ~ UsesElement(Source[k])
            /\ Form(linklist, k, code[k]) /\ Len(code) = Len(Source)
<1>1. Follows(c, p, o, l) /\ ~ Ended(p) /\ Solid BY DEF Begins
<1>2. Runs(c, p, o, l) /\ p \in Programs1 BY <1>1 DEF Follows
<1>3. p.ip \in 1..Len(Source) /\ Len(Source) \in Nat BY <1>1, <1>2 DEF Runs, Solid
<1>4. Depth(p) \in Nat BY <1>1, <1>2, ProgramParts
<1>5. c.regs["sp"] \in Int BY <1>2, <1>4 DEF Runs
<1> QED BY <1>1, <1>2, <1>3, <1>5 DEF Follows, Runs, Solid

(* Two names of one text are one name; they have one word in array.        *)
LEMMA TextsApart ==
  ASSUME Solid, NEW i \in 1..Len(Source), NEW j \in 1..Len(Source),
         NEW n \in Names, NEW m \in Names, Defined(Source[i]) = n, Defined(Source[j]) = m,
         Text(n).text = Text(m).text
  PROVE  n = m
<1>1. n # ElementSize /\ m # ElementSize BY SizeIsNoName
<1>2. \A x \in Names : Text(x) = Word(Text(x).text)
  BY SizeIsNoName DEF Text, Word, Token
<1>3. Text(n) = Text(m) BY <1>2
<1> QED BY <1>3 DEF Solid, NamesApart

LEMMA ParamDefines ==
  ASSUME Solid, NEW j \in 1..Len(Source), Source[j].kind = "PARAM"
  PROVE  Defined(Source[j]) = Source[j].op1 /\ Source[j].op1 \in Names
<1>1. Printable(Source[j]) BY DEF Solid
<1> QED BY <1>1 DEF Printable, Defined

LEMMA SetIsStored ==
  ASSUME Solid, NEW n \in Names, IsSet(n), ~ IsParameter(n)
  PROVE  StoredIn(linklist, n)
<1>1. PICK k \in 1..Len(Source) : Defined(Source[k]) = n BY DEF IsSet
<1>2. CASE Source[k].kind = "PARAM"
  <2>1. Source[k].op1 = n BY <1>1, <1>2, ParamDefines
  <2> QED BY <1>2, <2>1 DEF IsParameter
<1>3. CASE Source[k].kind # "PARAM" BY <1>1, <1>3 DEF Solid
<1> QED BY <1>2, <1>3

LEMMA SlotsApart ==
  ASSUME Solid, NEW n \in Names, NEW m \in Names, IsSet(n), IsSet(m),
         ~ IsParameter(n), ~ IsParameter(m), Slot(n) = Slot(m)
  PROVE  n = m
<1> DEFINE s == Text(n).text t == Text(m).text
<1>1. E!Has(linklist, s) /\ E!Has(linklist, t) BY SetIsStored DEF StoredIn
<1>2. linklist \in Seq(E!Entries) /\ E!Distinct(linklist) BY DEF Solid, Listed
<1>3. E!findOffset(linklist, s) = E!findOffset(linklist, t) BY DEF Slot, SlotIn
<1> HIDE DEF s, t
<1>4. PICK i \in 1..Len(linklist) : linklist[i].key = s /\ E!Found(linklist, s) = linklist[i]
  BY <1>1, FoundHasKey
<1>5. PICK j \in 1..Len(linklist) : linklist[j].key = t /\ E!Found(linklist, t) = linklist[j]
  BY <1>1, FoundHasKey
<1>6. linklist[i].arrayOffset = linklist[j].arrayOffset
  BY <1>1, <1>3, <1>4, <1>5 DEF E!findOffset
<1>7. /\ linklist[i].arrayOffset = 4 * (i - 1) /\ linklist[j].arrayOffset = 4 * (j - 1)
      /\ i \in Int /\ j \in Int
  BY <1>2 DEF E!Distinct
<1>8. i = j
  <2>1. \A x, y \in Int : 4 * (x - 1) = 4 * (y - 1) => x = y OBVIOUS
  <2>2. 4 * (i - 1) = 4 * (j - 1) BY <1>6, <1>7
  <2> QED BY <1>7, <2>1, <2>2
<1>9. s = t BY <1>4, <1>5, <1>8
<1>10. PICK f \in 1..Len(Source) : Defined(Source[f]) = n BY DEF IsSet
<1>11. PICK g \in 1..Len(Source) : Defined(Source[g]) = m BY DEF IsSet
<1> QED BY <1>9, <1>10, <1>11, TextsApart DEF s, t

(* What the instruction reads is in its register when it has been loaded.  *)
LEMMA ValueIn ==
  ASSUME NEW c, NEW p, NEW o, NEW l, Begins(c, p, o, l), NEW n \in Read(Source[p.ip]),
         NEW loads, Loading(loads), NEW r, IsIn(linklist, loads, p.ip, n, r), NEW d,
         Loaded(c, d, p.ip, loads, Len(loads))
  PROVE  d.regs[r] = Env(p)[n]
<1> DEFINE k == p.ip D == Depth(p)
<1>1. /\ Solid /\ ~ Ended(p) /\ p \in Programs1 /\ Runs(c, p, o, l) /\ k \in 1..Len(Source)
      /\ Len(Source) \in Nat
  BY BeginsAt DEF Begins
<1>2. n \in DOMAIN Env(p) /\ (IsParameter(n) \/ o[n] = D) BY DEF Begins, Departs1
<1>3. D \in Nat \ {0} BY <1>1, ProgramParts
<1>4. FrameKept(c, p, o, D) BY <1>1, <1>3 DEF Runs
<1>5. VariableKept(c, p, o, D, n) BY <1>2, <1>4 DEF FrameKept, Env
<1>6. CASE IsParameter(n)
  <2>1. ParameterKept(c, p, D, n) BY <1>5, <1>6 DEF VariableKept
  <2>2. PICK j \in 1..Len(Source), q \in 1..4 :
          /\ Source[j].kind = "PARAM" /\ Source[j].op1 = n /\ IsPlace(j, q)
          /\ j < k /\ c.regs[E!ArgumentRegister(q - 1)] = Env(p)[n]
    BY <2>1 DEF ParameterKept, At1, Kept1, Env
  <2>3. j \in 1..k - 1 /\ ParamOf(j, n) BY <1>1, <2>2 DEF ParamOf
  <2>4. r = E!ArgumentRegister(q - 1) BY <2>2, <2>3 DEF IsIn
  <2>5. r \in Held /\ r \in E!Registers BY <2>2, <2>4 DEF E!ArgumentRegister, Held, E!Registers
  <2>6. \A i \in 1..Len(loads) : loads[i].rd # r BY <2>5, LoadForms DEF Loaders, Held
  <2>7. d.regs[r] = c.regs[r] BY <2>5, <2>6 DEF Loaded
  <2> QED BY <2>2, <2>4, <2>7
<1>7. CASE ~ IsParameter(n)
  <2>1. Peek(c.array, Slot(n)) = Env(p)[n] BY <1>2, <1>5, <1>7 DEF VariableKept, Env
  <2>2. ~ \E j \in 1..k - 1 : ParamOf(j, n)
    <3> SUFFICES ASSUME NEW j \in 1..k - 1, ParamOf(j, n) PROVE FALSE
      OBVIOUS
    <3>1. j \in 1..Len(Source) /\ Source[j].kind = "PARAM" BY <1>1 DEF ParamOf
    <3>2. Defined(Source[j]) = Source[j].op1 /\ Source[j].op1 \in Names
      BY <1>1, <3>1, ParamDefines
    <3>3. PICK i \in 1..Len(Source) : Defined(Source[i]) = n BY <1>5 DEF VariableKept, IsSet
    <3>4. n \in Names BY <1>5 DEF VariableKept
    <3>5. Source[j].op1 = n BY <1>1, <3>1, <3>2, <3>3, <3>4, TextsApart DEF ParamOf
    <3> QED BY <1>7, <3>1, <3>5 DEF IsParameter
  <2>3. PICK i \in 1..Len(loads) : loads[i] = E!Lw(r, Slot(n)) BY <2>2 DEF IsIn, Slot
  <2>4. loads[i].rd = r /\ loads[i].imm = Slot(n) BY <2>3, OpFields DEF E!Lw
  <2>5. d.regs[r] = Peek(c.array, Slot(n)) BY <2>4 DEF Loaded
  <2> QED BY <2>1, <2>5
<1> QED BY <1>6, <1>7

LEMMA ValueIsInt ==
  ASSUME NEW c, NEW p, NEW o, NEW l, Begins(c, p, o, l), NEW n \in Read(Source[p.ip])
  PROVE  Env(p)[n] \in Int
<1>1. n \in DOMAIN Env(p) BY DEF Begins, Departs1
<1>2. p \in Programs1 /\ ~ Ended(p) BY BeginsAt DEF Begins
<1>3. Depth(p) \in 1..Depth(p) BY <1>2, ProgramParts
<1> QED BY <1>1, <1>2, <1>3, ProgramParts DEF Env

(* Arithmetic.                                                             *)
LEMMA WrapIsInt ==
  ASSUME NEW x \in Int
  PROVE  Wrap(x) \in -IntHalf..IntHalf - 1 /\ Wrap(x) \in Int
<1>1. (x + IntHalf) % (2 * IntHalf) \in 0..(2 * IntHalf - 1) BY IntAssumption
<1> QED BY <1>1, IntAssumption DEF Wrap

LEMMA ApplyIsInt ==
  ASSUME NEW relation \in {"+", "-", "*", "/"}, NEW x \in Int, NEW y \in Int
  PROVE  Apply(relation, x, y) \in Int
<1>1. x + y \in Int /\ x - y \in Int /\ x * y \in Int OBVIOUS
<1>2. Wrap(x + y) \in Int /\ Wrap(x - y) \in Int /\ Wrap(x * y) \in Int BY <1>1, WrapIsInt
<1>3. ASSUME y # 0 PROVE Wrap(Quotient(x, y)) \in Int
  <2> DEFINE mx == IF x < 0 THEN -x ELSE x my == IF y < 0 THEN -y ELSE y
  <2>1. mx \in Nat /\ my \in Nat \ {0} BY <1>3
  <2> HIDE DEF mx, my
  <2>2. mx \div my \in Int BY <2>1
  <2>3. Quotient(x, y) = IF (x < 0) = (y < 0) THEN mx \div my ELSE -(mx \div my)
    BY DEF Quotient, mx, my
  <2>4. Quotient(x, y) \in Int BY <2>2, <2>3
  <2> QED BY <2>4, WrapIsInt
<1>4. Apply("+", x, y) \in Int /\ Apply("-", x, y) \in Int /\ Apply("*", x, y) \in Int
  BY <1>2 DEF Apply
<1>5. Apply("/", x, y) \in Int
  <2>1. CASE y = 0 BY <2>1 DEF Apply
  <2>2. CASE y # 0 BY <1>3, <2>2 DEF Apply
  <2> QED BY <2>1, <2>2
<1> QED BY <1>4, <1>5

LEMMA NextIsInt ==
  ASSUME NEW s \in Seq(Int)
  PROVE  NextOf(s) \in Int /\ RestOf(s) \in Seq(Int)
BY DEF NextOf, RestOf

-----------------------------------------------------------------------------
(* What the program does at an instruction.                                *)

(* q is p when its topmost activation has set n to v.                      *)
Assigned(p, q, n, v) ==
  LET D == Depth(p)
  IN /\ q \in Programs1 /\ Depth(q) = D /\ q.ip = p.ip + 1
     /\ \A d \in 1..D : q.frames[d].back = p.frames[d].back
     /\ \A d \in 1..D : d # D => q.frames[d].env = p.frames[d].env
     /\ DOMAIN q.frames[D].env = DOMAIN p.frames[D].env \cup {n}
     /\ q.frames[D].env[n] = v
     /\ \A m \in DOMAIN p.frames[D].env : m # n => q.frames[D].env[m] = p.frames[D].env[m]

LEMMA SetNameIs ==
  ASSUME NEW p \in Programs1, ~ Ended(p), NEW n \in Names, NEW v \in Int
  PROVE  LET q == SetName(p, n, v)
         IN /\ Assigned(p, q, n, v) /\ q.args = p.args /\ q.input = p.input
            /\ q.out = p.out /\ q.result = p.result
<1> DEFINE D == Depth(p) env == p.frames[D].env env2 == Bound(env, n, v)
           f2 == [p.frames EXCEPT ![D] = [@ EXCEPT !.env = env2]]
           q == SetName(p, n, v)
<1>1. /\ D \in Nat \ {0} /\ p.frames \in Seq(Frames) /\ Len(p.frames) = D /\ D \in 1..D
      /\ p.frames[D] \in Frames /\ env \in Envs /\ DOMAIN env \subseteq Names
      /\ (\A m \in DOMAIN env : env[m] \in Int) /\ p.ip \in Nat
  BY ProgramParts
<1>2. /\ DOMAIN env2 = DOMAIN env \cup {n} /\ env2[n] = v
      /\ \A m \in DOMAIN env : m # n => env2[m] = env[m]
  BY DEF Bound
<1>3. env2 \in Envs
  <2>1. DOMAIN env2 \in SUBSET Names BY <1>1, <1>2
  <2>2. env2 = [m \in DOMAIN env2 |-> env2[m]] BY DEF Bound
  <2>3. \A m \in DOMAIN env2 : env2[m] \in Int BY <1>1, <1>2
  <2> HIDE DEF env2
  <2>4. env2 \in [DOMAIN env2 -> Int] BY <2>2, <2>3
  <2> QED BY <2>1, <2>4 DEF Envs
<1>4. q = [p EXCEPT !.frames = f2, !.ip = p.ip + 1] BY DEF SetName
<1> HIDE DEF env2, q
<1>5. /\ f2 \in Seq(Frames) /\ Len(f2) = D /\ f2[D].env = env2
      /\ \A d \in 1..D : f2[d].back = p.frames[d].back
      /\ \A d \in 1..D : d # D => f2[d].env = p.frames[d].env
  <2> DEFINE g == [p.frames[D] EXCEPT !.env = env2]
  <2>1. g \in Frames /\ g.env = env2 /\ g.back = p.frames[D].back BY <1>1, <1>3 DEF Frames
  <2>2. f2 = [p.frames EXCEPT ![D] = g] OBVIOUS
  <2> HIDE DEF g
  <2>3. f2 \in Seq(Frames) /\ Len(f2) = D BY <1>1, <2>1, <2>2
  <2>4. \A d \in 1..D : f2[d] = IF d = D THEN g ELSE p.frames[d] BY <1>1, <2>2
  <2> QED BY <1>1, <2>1, <2>3, <2>4
<1> HIDE DEF f2
<1>6. /\ q \in Programs1 /\ q.frames = f2 /\ q.ip = p.ip + 1 /\ q.args = p.args
      /\ q.input = p.input /\ q.out = p.out /\ q.result = p.result
  <2> DEFINE S == Seq(Frames) I == Seq(Int)
  <2>1. p \in [ip: Nat, frames: S, args: I, input: I, out: I, result: Int] BY DEF Programs1
  <2>2. f2 \in S /\ p.ip + 1 \in Nat BY <1>1, <1>5
  <2> HIDE DEF S, I
  <2>3. q \in [ip: Nat, frames: S, args: I, input: I, out: I, result: Int]
    BY <1>4, <2>1, <2>2
  <2>4. /\ q.frames = f2 /\ q.ip = p.ip + 1 /\ q.args = p.args
        /\ q.input = p.input /\ q.out = p.out /\ q.result = p.result
    BY <1>4, <2>1
  <2> QED BY <2>3, <2>4 DEF Programs1, S, I
<1>7. Depth(q) = D BY <1>5, <1>6 DEF Depth
<1>8. Assigned(p, q, n, v) BY <1>2, <1>5, <1>6, <1>7 DEF Assigned
<1> QED BY <1>6, <1>8 DEF q

-----------------------------------------------------------------------------
(* What a step leaves as it was.                                           *)

(* Control has gone on from s to t, in one function.                       *)
Onward(s, t) ==
  /\ s \in 1..Len(Source) /\ t \in 1..Len(Source) /\ SameFunction(Source, s, t)
  /\ t >= s \/ Source[t].kind = "LABEL"

LEMMA ParameterStays ==
  ASSUME Len(Source) \in Nat, NEW j \in 1..Len(Source), NEW q \in 1..4, IsPlace(j, q),
         NEW s, NEW t, Onward(s, t), SameFunction(Source, j, s), j < s
  PROVE  SameFunction(Source, j, t) /\ j < t
<1>1. s \in 1..Len(Source) /\ t \in 1..Len(Source) BY DEF Onward
<1>2. SameFunction(Source, j, t) BY <1>1 DEF Onward, SameFunction
<1>3. CASE t >= s BY <1>1, <1>2, <1>3
<1>4. CASE Source[t].kind = "LABEL"
  <2> DEFINE f == j - q
  <2>1. /\ f \in 1..Len(Source) /\ f \in Int /\ f <= j /\ Source[f].kind = "FUNCTION"
        /\ \A i \in f + 1..j : Source[i].kind = "PARAM"
    BY DEF IsPlace
  <2> HIDE DEF f
  <2>2. f <= t BY <1>2, <2>1 DEF SameFunction
  <2>3. t # f BY <1>4, <2>1
  <2>4. t \notin f + 1..j BY <1>4, <2>1
  <2>5. t > j BY <1>1, <2>1, <2>2, <2>3, <2>4
  <2> QED BY <1>1, <1>2, <2>5
<1> QED BY <1>3, <1>4 DEF Onward

LEMMA OnwardNext ==
  ASSUME Len(Source) \in Nat, NEW k \in 1..Len(Source), k # Len(Source),
         Source[k + 1].kind # "FUNCTION"
  PROVE  Onward(k, k + 1)
<1>1. k + 1 \in 1..Len(Source) OBVIOUS
<1>2. SameFunction(Source, k, k + 1)
  <2> SUFFICES ASSUME NEW f \in 1..Len(Source), Source[f].kind = "FUNCTION"
               PROVE  f <= k <=> f <= k + 1
    BY DEF SameFunction
  <2>1. f # k + 1 OBVIOUS
  <2> QED BY <2>1
<1> QED BY <1>1, <1>2 DEF Onward

LEMMA OnwardHere ==
  ASSUME NEW k \in 1..Len(Source)
  PROVE  Onward(k, k)
BY DEF Onward, SameFunction

(* The variable n of the d-th activation is as it was.                     *)
Stays(c, p, o, e, p2, o2, d, n) ==
  /\ p2.frames[d].env[n] = p.frames[d].env[n]
  /\ Onward(At1(p, d), At1(p2, d))
  /\ \A q \in 1..4 : Kept1(e, p2, d, q) = Kept1(c, p, d, q)
  /\ ~ IsParameter(n) /\ o2[n] = d =>
       o[n] = d /\ Peek(e.array, Slot(n)) = Peek(c.array, Slot(n))

LEMMA VariableStays ==
  ASSUME Len(Source) \in Nat, NEW c, NEW p, NEW o, NEW e, NEW p2, NEW o2, NEW d, NEW n,
         VariableKept(c, p, o, d, n), Stays(c, p, o, e, p2, o2, d, n)
  PROVE  VariableKept(e, p2, o2, d, n)
<1>1. n \in Names /\ IsSet(n) /\ p2.frames[d].env[n] \in Int BY DEF VariableKept, Stays
<1>2. CASE IsParameter(n)
  <2>1. ParameterKept(c, p, d, n) BY <1>2 DEF VariableKept
  <2>2. PICK j \in 1..Len(Source), q \in 1..4 :
          /\ Source[j].kind = "PARAM" /\ Source[j].op1 = n /\ IsPlace(j, q)
          /\ SameFunction(Source, j, At1(p, d)) /\ j < At1(p, d)
          /\ Kept1(c, p, d, q) = p.frames[d].env[n]
    BY <2>1 DEF ParameterKept
  <2>3. Onward(At1(p, d), At1(p2, d)) BY DEF Stays
  <2>4. SameFunction(Source, j, At1(p2, d)) /\ j < At1(p2, d) BY <2>2, <2>3, ParameterStays
  <2>5. Kept1(e, p2, d, q) = p2.frames[d].env[n] BY <2>2 DEF Stays
  <2>6. ParameterKept(e, p2, d, n) BY <2>2, <2>4, <2>5 DEF ParameterKept
  <2> QED BY <1>1, <1>2, <2>6 DEF VariableKept
<1>3. CASE ~ IsParameter(n) BY <1>1, <1>3 DEF VariableKept, Stays
<1> QED BY <1>2, <1>3

(* The running activation has gone on, and the others wait.                *)
Continues(c, p, e, p2) ==
  /\ Near(c, e) /\ Depth(p2) = Depth(p) /\ Onward(p.ip, p2.ip)
  /\ \A d \in 1..Depth(p) : p2.frames[d].back = p.frames[d].back

LEMMA PlacesStay ==
  ASSUME NEW c, NEW p, NEW o, NEW l, Begins(c, p, o, l), NEW e, NEW p2,
         Continues(c, p, e, p2), NEW d \in 1..Depth(p)
  PROVE  /\ Onward(At1(p, d), At1(p2, d))
         /\ \A q \in 1..4 : Kept1(e, p2, d, q) = Kept1(c, p, d, q)
         /\ d > 1 => CalledAt(p2.frames[d].back)
         /\ d < Depth(p) => Peek(e.stack, -20 * d) = Back(p2, d)
         /\ Back(p2, d) = Back(p, d)
<1> DEFINE D == Depth(p)
<1>1. /\ Runs(c, p, o, l) /\ p \in Programs1 /\ ~ Ended(p) /\ c.regs["sp"] = -20 * (D - 1)
      /\ Len(Source) \in Nat
  BY BeginsAt DEF Begins
<1>2. D \in Nat \ {0} BY <1>1, ProgramParts
<1>3. \A x \in 1..D : FrameKept(c, p, o, x) BY <1>1 DEF Runs
<1>4. /\ Depth(p2) = D /\ Onward(p.ip, p2.ip) /\ \A x \in 1..D : p2.frames[x].back = p.frames[x].back
      /\ \A r \in Held : e.regs[r] = c.regs[r]
      /\ \A w \in Int : w >= -20 * (D - 1) => Peek(e.stack, w) = Peek(c.stack, w)
  BY <1>1 DEF Continues, Near
<1> HIDE DEF D
<1>5. Back(p2, d) = Back(p, d)
  <2>1. p2.frames[d].back = p.frames[d].back BY <1>4 DEF D
  <2> QED BY <2>1 DEF Back
<1>6. d > 1 => CalledAt(p2.frames[d].back)
  <2>1. p2.frames[d].back = p.frames[d].back /\ FrameKept(c, p, o, d) BY <1>3, <1>4 DEF D
  <2> QED BY <2>1 DEF FrameKept
<1>7. CASE d = D
  <2>1. At1(p, d) = p.ip /\ At1(p2, d) = p2.ip BY <1>4, <1>7 DEF At1, D
  <2>2. ASSUME NEW q \in 1..4 PROVE Kept1(e, p2, d, q) = Kept1(c, p, d, q)
    <3>1. E!ArgumentRegister(q - 1) \in Held BY DEF E!ArgumentRegister, Held
    <3> QED BY <1>4, <1>7, <3>1 DEF Kept1, D
  <2> QED BY <1>4, <1>5, <1>6, <1>7, <2>1, <2>2 DEF D
<1>8. CASE d # D
  <2>1. d + 1 \in 1..D /\ d + 1 > 1 /\ d < D /\ d \in Int /\ d <= D - 1 BY <1>2, <1>8 DEF D
  <2>2. At1(p, d) = p.frames[d + 1].back /\ At1(p2, d) = p.frames[d + 1].back
    BY <1>4, <1>8, <2>1 DEF At1, D
  <2>3. FrameKept(c, p, o, d + 1) /\ FrameKept(c, p, o, d) BY <1>3, <2>1 DEF D
  <2>4. CalledAt(p.frames[d + 1].back) BY <2>1, <2>3 DEF FrameKept
  <2>5. p.frames[d + 1].back \in 1..Len(Source) BY <1>1, <2>4 DEF CalledAt
  <2>6. Onward(At1(p, d), At1(p2, d)) BY <2>2, <2>5, OnwardHere
  <2>7. ASSUME NEW q \in 1..4 PROVE Kept1(e, p2, d, q) = Kept1(c, p, d, q)
    <3>1. -20 * d + 4 * q \in Int /\ -20 * d + 4 * q >= -20 * (D - 1) BY <1>2, <2>1
    <3>2. Peek(e.stack, -20 * d + 4 * q) = Peek(c.stack, -20 * d + 4 * q) BY <1>4, <3>1
    <3> QED BY <1>4, <1>8, <3>2 DEF Kept1, D
  <2>8. Peek(e.stack, -20 * d) = Back(p2, d)
    <3>1. -20 * d \in Int /\ -20 * d >= -20 * (D - 1) BY <1>2, <2>1
    <3>2. Peek(e.stack, -20 * d) = Peek(c.stack, -20 * d) BY <1>4, <3>1
    <3>3. Peek(c.stack, -20 * d) = Back(p, d) BY <2>1, <2>3 DEF FrameKept, D
    <3> QED BY <1>5, <3>2, <3>3
  <2> QED BY <1>5, <1>6, <2>6, <2>7, <2>8
<1> QED BY <1>7, <1>8

Keeps(e, p2, o2) ==
  \A d \in 1..Depth(p2) : \A n \in DOMAIN p2.frames[d].env : VariableKept(e, p2, o2, d, n)

(* What is left to show when the running activation goes on.               *)
LEMMA GoesOn ==
  ASSUME NEW c, NEW p, NEW o, NEW l, Begins(c, p, o, l), NEW e, NEW p2, NEW o2, NEW l2,
         p2 \in Programs1, Continues(c, p, e, p2), e.pc = <<p2.ip, 1>>, DOMAIN o2 = Names,
         e.screen = p2.out, e.typed = p2.input, ArgumentsKept(e, p2), LastKept(e, l2),
         Keeps(e, p2, o2)
  PROVE  Follows(e, p2, o2, l2)
<1> DEFINE D == Depth(p)
<1>1. /\ Runs(c, p, o, l) /\ p \in Programs1 /\ ~ Ended(p) /\ c.regs["sp"] = -20 * (D - 1)
      /\ Len(Source) \in Nat /\ c.regs["ra"] = Back(p, D)
  BY BeginsAt DEF Begins, Runs
<1>2. D \in Nat \ {0} /\ D \in 1..D BY <1>1, ProgramParts
<1>3. IsMachine(e) /\ \A r \in Held : e.regs[r] = c.regs[r] BY DEF Continues, Near
<1>4. Depth(p2) = D /\ Onward(p.ip, p2.ip) BY DEF Continues
<1>5. e.regs["sp"] = -20 * (D - 1) /\ e.regs["ra"] = Back(p, D) BY <1>1, <1>3 DEF Held
<1>6. Back(p2, D) = Back(p, D) BY <1>2, PlacesStay
<1>7. ASSUME NEW d \in 1..D PROVE FrameKept(e, p2, o2, d)
  <2>1. /\ d > 1 => CalledAt(p2.frames[d].back)
        /\ d < D => Peek(e.stack, -20 * d) = Back(p2, d)
    BY PlacesStay
  <2>2. \A n \in DOMAIN p2.frames[d].env : VariableKept(e, p2, o2, d, n) BY <1>4 DEF Keeps
  <2> QED BY <1>4, <2>1, <2>2 DEF FrameKept
<1>8. p2.ip \in 1..Len(Source) BY <1>4 DEF Onward
<1>9. Runs(e, p2, o2, l2) BY <1>4, <1>5, <1>6, <1>7, <1>8 DEF Runs
<1>10. ~ Ended(p2) BY <1>2, <1>4 DEF Ended
<1> QED BY <1>3, <1>9, <1>10 DEF Follows

(* Only in front of a call or behind one are there arguments.              *)
LEMMA NoArguments ==
  ASSUME NEW c, NEW p, NEW o, NEW l, Begins(c, p, o, l),
         Source[p.ip].kind \notin {"ARG", "CALL", "FUNCTION", "PARAM"}
  PROVE  p.args = <<>>
<1> DEFINE k == p.ip a == Len(p.args)
<1>1. /\ Solid /\ Runs(c, p, o, l) /\ k \in 1..Len(Source) /\ Len(Source) \in Nat
      /\ p.args \in Seq(Int)
  BY BeginsAt, ProgramParts DEF Begins
<1>2. Passes(k, a) BY <1>1 DEF Runs, ArgumentsKept
<1>3. CASE a = 0 BY <1>1, <1>3
<1>4. CASE a # 0
  <2>1. a \in Nat /\ a \in 0..k - 1 BY <1>1, <1>2 DEF Passes
  <2>2. k - 1 \in k - a..k - 1 /\ k - 1 \in 1..Len(Source) /\ (k - 1) + 1 = k
    BY <1>1, <1>4, <2>1
  <2>3. Source[k - 1].kind = "ARG" BY <1>2, <2>2 DEF Passes
  <2>4. Source[(k - 1) + 1].kind \in {"ARG", "CALL"} BY <1>1, <2>2, <2>3 DEF Solid, Compiled
  <2> QED BY <2>2, <2>4
<1> QED BY <1>3, <1>4

LEMMA NoneKept ==
  ASSUME NEW e, NEW p2, p2.args = <<>>, p2.ip \in 1..Len(Source), Len(Source) \in Nat,
         p2.ip > 1 => Source[p2.ip - 1].kind # "ARG"
  PROVE  ArgumentsKept(e, p2)
<1>1. Len(p2.args) = 0 OBVIOUS
<1>2. Passes(p2.ip, 0) BY DEF Passes
<1> QED BY <1>1, <1>2 DEF ArgumentsKept

(* The code of an instruction that sets n leads to the next.               *)
LEMMA SetLanding ==
  ASSUME NEW c, NEW p, NEW o, NEW l, Begins(c, p, o, l), NEW n, NEW v, NEW typed,
         Source[p.ip].kind \in {"CONSTANT", "ASSIGN", "BINARY", "MINUS", "READ"},
         Defined(Source[p.ip]) = n, n \in Names,
         Assigned(p, Perform(Source, p), n, v), Perform(Source, p).args = p.args,
         Perform(Source, p).input = typed, Perform(Source, p).out = p.out
  PROVE  SetLands(c, p.ip, n, v, typed, p, o, l)
<1> DEFINE k == p.ip D == Depth(p) p2 == Perform(Source, p) o2 == OwnerAfter(p, o)
           l2 == LastAfter(p, l)
<1> SUFFICES ASSUME NEW e, SetsTo(c, e, k, n, v, typed) PROVE Follows(e, p2, o2, l2)
  BY DEF SetLands, Landed
<1>1. /\ Solid /\ p \in Programs1 /\ ~ Ended(p) /\ k \in 1..Len(Source) /\ Len(Source) \in Nat
      /\ c.screen = p.out /\ DOMAIN o = Names /\ Runs(c, p, o, l)
  BY BeginsAt DEF Begins
<1>2. D \in Nat \ {0} /\ D \in 1..D BY <1>1, ProgramParts
<1>3. n # NoName BY NamesAssumption
<1>4. SetBy(p) = [name |-> n, depth |-> D] BY DEF SetBy
<1>5. o2 = [o EXCEPT ![n] = D] /\ l2 = n BY <1>3, <1>4 DEF OwnerAfter, LastAfter
<1>6. /\ ~ IsParameter(n) /\ k # Len(Source) /\ Source[k + 1].kind # "FUNCTION"
  BY <1>1 DEF Begins, Departs1
<1>7. Onward(k, k + 1) BY <1>1, <1>6, OnwardNext
<1>8. p.args = <<>> BY NoArguments
<1>9. IsSet(n) BY <1>1 DEF IsSet
<1> HIDE DEF o2, l2, p2
<1>10. /\ p2 \in Programs1 /\ Depth(p2) = D /\ p2.ip = k + 1
       /\ \A d \in 1..D : p2.frames[d].back = p.frames[d].back
       /\ \A d \in 1..D : d # D => p2.frames[d].env = p.frames[d].env
       /\ DOMAIN p2.frames[D].env = DOMAIN p.frames[D].env \cup {n}
       /\ p2.frames[D].env[n] = v
       /\ \A m \in DOMAIN p.frames[D].env : m # n => p2.frames[D].env[m] = p.frames[D].env[m]
       /\ p2.args = <<>> /\ p2.input = typed /\ p2.out = p.out
  BY <1>8 DEF Assigned, p2
<1>11. /\ Near(c, e) /\ e.pc = <<k + 1, 1>> /\ e.screen = c.screen /\ e.typed = typed
       /\ e.regs["s0"] = v
       /\ \A w : Peek(e.array, w) = IF w = Slot(n) THEN v ELSE Peek(c.array, w)
  BY DEF SetsTo
<1>12. Continues(c, p, e, p2) BY <1>7, <1>10, <1>11 DEF Continues
<1>13. v \in Int BY <1>2, <1>10, ProgramParts DEF Ended
<1>14. Keeps(e, p2, o2)
  <2> SUFFICES ASSUME NEW d \in 1..D, NEW m \in DOMAIN p2.frames[d].env
               PROVE  VariableKept(e, p2, o2, d, m)
    BY <1>10 DEF Keeps
  <2>1. CASE d = D /\ m = n
    <3>1. Peek(e.array, Slot(n)) = v BY <1>11
    <3> QED BY <1>6, <1>9, <1>10, <1>13, <2>1, <3>1 DEF VariableKept
  <2>2. CASE ~ (d = D /\ m = n)
    <3>1. /\ m \in DOMAIN p.frames[d].env
          /\ p2.frames[d].env[m] = p.frames[d].env[m]
      BY <1>10, <2>2
    <3>2. FrameKept(c, p, o, d) BY <1>1 DEF Runs
    <3>3. VariableKept(c, p, o, d, m) BY <3>1, <3>2 DEF FrameKept
    <3>4. m \in Names /\ IsSet(m) BY <3>3 DEF VariableKept
    <3>5. ASSUME ~ IsParameter(m), o2[m] = d
          PROVE  o[m] = d /\ Peek(e.array, Slot(m)) = Peek(c.array, Slot(m))
      <4>1. m # n BY <1>1, <1>5, <2>2, <3>5
      <4>2. o[m] = d BY <1>1, <1>5, <3>4, <3>5, <4>1
      <4>3. Slot(m) # Slot(n) BY <1>1, <1>6, <1>9, <3>4, <3>5, <4>1, SlotsApart
      <4> QED BY <1>11, <4>2, <4>3
    <3>6. /\ Onward(At1(p, d), At1(p2, d))
          /\ \A q \in 1..4 : Kept1(e, p2, d, q) = Kept1(c, p, d, q)
      BY <1>12, PlacesStay
    <3>7. Stays(c, p, o, e, p2, o2, d, m) BY <3>1, <3>5, <3>6 DEF Stays
    <3> QED BY <1>1, <3>3, <3>7, VariableStays
  <2> QED BY <2>1, <2>2
<1>15. ArgumentsKept(e, p2)
  <2>1. p2.ip \in 1..Len(Source) /\ p2.ip - 1 = k BY <1>1, <1>6, <1>10
  <2>2. Source[k].kind # "ARG" OBVIOUS
  <2> QED BY <1>1, <1>10, <2>1, <2>2, NoneKept
<1>16. LastKept(e, l2) BY <1>5, <1>6, <1>11 DEF LastKept
<1>17. DOMAIN o2 = Names BY <1>1, <1>5
<1> QED BY <1>1, <1>10, <1>11, <1>12, <1>14, <1>15, <1>16, <1>17, GoesOn

LEMMA Performs1 ==
  ASSUME NEW p
  PROVE  LET ins == Source[p.ip] q == Perform(Source, p) x == Env(p)[ins.op1]
             y == Env(p)[ins.op2]
         IN /\ ins.kind = "CONSTANT" => q = SetName(p, ins.op1, ins.value)
            /\ ins.kind = "ASSIGN" => q = SetName(p, ins.op1, y)
            /\ ins.kind = "BINARY" => q = SetName(p, ins.result, Apply(ins.relation, x, y))
            /\ ins.kind = "MINUS" => q = SetName(p, ins.result, Wrap(-x))
            /\ ins.kind = "READ" =>
                 q = [SetName(p, ins.op1, NextOf(p.input)) EXCEPT !.input = RestOf(@)]
            /\ ins.kind = "WRITE" => q = [Skip(p) EXCEPT !.out = Append(@, x)]
            /\ ins.kind = "ARG" => q = [Skip(p) EXCEPT !.args = <<x>> \o @]
            /\ ins.kind = "PARAM" =>
                 q = [SetName(p, ins.op1, Head(p.args)) EXCEPT !.args = Tail(@)]
            /\ ins.kind = "CALL" =>
                 q = [p EXCEPT !.frames = Append(@, Activation(p.ip)),
                               !.ip = Entry(Source, ins.op1)]
            /\ ins.kind = "RETURN" => q = Returned(Source, p, x)
            /\ ins.kind = "GOTO" => q = [p EXCEPT !.ip = Target(Source, ins.op1)]
            /\ ins.kind = "IF_GOTO" =>
                 q = IF Holds(ins.relation, x, y) THEN [p EXCEPT !.ip = Target(Source, ins.result)]
                     ELSE Skip(p)
            /\ ins.kind \in {"LABEL", "FUNCTION", "DEC"} => q = Skip(p)
<1> DEFINE ins == Source[p.ip]
<1> HIDE DEF ins
<1>1. Perform(Source, p) = Perform(Source, p) OBVIOUS
<1> QED BY DEF Perform, ins

(* The instructions that set a variable to what they compute.              *)
LEMMA ConstantReaches ==
  ASSUME NEW c, NEW p, NEW o, NEW l, Begins(c, p, o, l), Source[p.ip].kind = "CONSTANT"
  PROVE  Reaches(c, p, o, l)
<1> DEFINE ins == Source[p.ip] n == ins.op1 v == ins.value
<1>1. IsMachine(c) /\ c.pc = <<p.ip, 1>> /\ p \in Programs1 /\ ~ Ended(p) BY BeginsAt DEF Begins
<1>2. ConstantForm(linklist, p.ip, code[p.ip]) BY BeginsAt DEF Form
<1>3. n \in Names /\ v \in Int BY BeginsAt, OperandNames
<1>4. Defined(ins) = n BY DEF Defined
<1>5. Perform(Source, p) = SetName(p, n, v) BY Performs1
<1>6. /\ Assigned(p, Perform(Source, p), n, v) /\ Perform(Source, p).args = p.args
      /\ Perform(Source, p).input = p.input /\ Perform(Source, p).out = p.out
  BY <1>1, <1>3, <1>5, SetNameIs
<1>7. c.typed = p.input BY BeginsAt
<1>8. SetLands(c, p.ip, n, v, c.typed, p, o, l) BY <1>3, <1>4, <1>6, <1>7, SetLanding
<1> QED BY <1>1, <1>2, <1>8, ConstantLeads

LEMMA AssignReaches ==
  ASSUME NEW c, NEW p, NEW o, NEW l, Begins(c, p, o, l), Source[p.ip].kind = "ASSIGN"
  PROVE  Reaches(c, p, o, l)
<1> DEFINE ins == Source[p.ip] n == ins.op1 v == Env(p)[ins.op2]
<1>1. IsMachine(c) /\ c.pc = <<p.ip, 1>> /\ p \in Programs1 /\ ~ Ended(p) BY BeginsAt DEF Begins
<1>2. AssignForm(linklist, p.ip, code[p.ip]) BY BeginsAt DEF Form
<1>3. n \in Names BY BeginsAt, OperandNames
<1>4. Defined(ins) = n /\ ins.op2 \in Read(ins) BY DEF Defined, Read
<1>5. Perform(Source, p) = SetName(p, n, v) BY Performs1
<1>6. v \in Int BY <1>4, ValueIsInt
<1> HIDE DEF v
<1>7. /\ Assigned(p, Perform(Source, p), n, v) /\ Perform(Source, p).args = p.args
      /\ Perform(Source, p).input = p.input /\ Perform(Source, p).out = p.out
  BY <1>1, <1>3, <1>5, <1>6, SetNameIs
<1>8. c.typed = p.input BY BeginsAt
<1>9. SetLands(c, p.ip, n, v, c.typed, p, o, l) BY <1>3, <1>4, <1>7, <1>8, SetLanding
<1>10. PICK loads, y :
          /\ Loading(loads) /\ IsIn(linklist, loads, p.ip, ins.op2, y)
          /\ Block(code[p.ip], loads, <<E!Move("s0", y), E!Sw("s0", Slot(n))>>)
  BY <1>2 DEF AssignForm, Slot
<1>11. \A d : Loaded(c, d, p.ip, loads, Len(loads)) => d.regs[y] = v
  BY <1>4, <1>10, ValueIn DEF v
<1> QED BY <1>1, <1>9, <1>10, <1>11, AssignLeads

LEMMA MinusReaches ==
  ASSUME NEW c, NEW p, NEW o, NEW l, Begins(c, p, o, l), Source[p.ip].kind = "MINUS"
  PROVE  Reaches(c, p, o, l)
<1> DEFINE ins == Source[p.ip] n == ins.result x == Env(p)[ins.op1] v == Wrap(-x)
<1>1. IsMachine(c) /\ c.pc = <<p.ip, 1>> /\ p \in Programs1 /\ ~ Ended(p) BY BeginsAt DEF Begins
<1>2. MinusForm(linklist, p.ip, code[p.ip]) BY BeginsAt DEF Form
<1>3. n \in Names BY BeginsAt, OperandNames
<1>4. Defined(ins) = n /\ ins.op1 \in Read(ins) BY DEF Defined, Read
<1>5. Perform(Source, p) = SetName(p, n, v) BY Performs1
<1>6. x \in Int /\ -x \in IntW /\ v = -x /\ v \in Int
  <2>1. x \in Int BY <1>4, ValueIsInt
  <2>2. -x \in IntW BY DEF Begins, Departs1, Overflows
  <2> QED BY <2>1, <2>2, InRange
<1> HIDE DEF v, x
<1>7. /\ Assigned(p, Perform(Source, p), n, v) /\ Perform(Source, p).args = p.args
      /\ Perform(Source, p).input = p.input /\ Perform(Source, p).out = p.out
  BY <1>1, <1>3, <1>5, <1>6, SetNameIs
<1>8. c.typed = p.input BY BeginsAt
<1>9. SetLands(c, p.ip, n, -x, c.typed, p, o, l)
  BY <1>3, <1>4, <1>6, <1>7, <1>8, SetLanding
<1>10. PICK loads, y :
          /\ Loading(loads) /\ IsIn(linklist, loads, p.ip, ins.op1, y)
          /\ Block(code[p.ip], loads, <<E!Neg(y), E!Addi("s0", y, 0), E!Sw("s0", Slot(n))>>)
  BY <1>2 DEF MinusForm, Slot
<1>11. \A d : Loaded(c, d, p.ip, loads, Len(loads)) => d.regs[y] = x
  BY <1>4, <1>10, ValueIn DEF x
<1>12. y \in Loaders
  <2>1. ins.op1 \in Temps
    <3>1. Solid /\ p.ip \in 1..Len(Source) BY BeginsAt DEF Begins
    <3> QED BY <3>1 DEF Solid, Compiled
  <2>2. ASSUME NEW j \in 1..p.ip - 1, ParamOf(j, ins.op1) PROVE FALSE
    <3>1. Solid /\ p.ip \in 1..Len(Source) /\ Len(Source) \in Nat BY BeginsAt DEF Begins
    <3>2. j \in 1..Len(Source) /\ Source[j].kind = "PARAM" BY <2>2, <3>1 DEF ParamOf
    <3>3. Source[j].op1 \in Vars BY <3>1, <3>2 DEF Solid, Compiled
    <3>4. ins.op1 \in Names BY <2>1 DEF Names
    <3>5. ins.op1 \in DOMAIN Env(p) BY <1>4 DEF Begins, Departs1
    <3>6. Depth(p) \in 1..Depth(p) /\ Runs(c, p, o, l) BY <1>1, BeginsAt, ProgramParts
    <3>7. IsSet(ins.op1) BY <3>5, <3>6 DEF Runs, FrameKept, VariableKept, Env
    <3>8. PICK i \in 1..Len(Source) : Defined(Source[i]) = ins.op1 BY <3>7 DEF IsSet
    <3>9. Source[j].op1 = ins.op1
      BY <2>2, <3>1, <3>2, <3>4, <3>8, ParamDefines, TextsApart DEF ParamOf
    <3> QED BY <2>1, <3>3, <3>9, NamesAssumption
  <2>3. PICK i \in 1..Len(loads) : loads[i] = E!Lw(y, SlotIn(linklist, ins.op1))
    BY <1>10, <2>2 DEF IsIn
  <2>4. loads[i].rd = y BY <2>3, OpFields DEF E!Lw
  <2> QED BY <1>10, <2>4, LoadForms
<1> QED BY <1>1, <1>6, <1>9, <1>10, <1>11, <1>12, MinusLeads

LEMMA BinaryReaches ==
  ASSUME NEW c, NEW p, NEW o, NEW l, Begins(c, p, o, l), Source[p.ip].kind = "BINARY"
  PROVE  Reaches(c, p, o, l)
<1> DEFINE ins == Source[p.ip] n == ins.result x1 == Env(p)[ins.op1] y1 == Env(p)[ins.op2]
           v == Apply(ins.relation, x1, y1)
<1>1. IsMachine(c) /\ c.pc = <<p.ip, 1>> /\ p \in Programs1 /\ ~ Ended(p) BY BeginsAt DEF Begins
<1>2. BinaryForm(linklist, p.ip, code[p.ip]) BY BeginsAt DEF Form
<1>3. n \in Names /\ ins.relation \in {"+", "-", "*", "/"} BY BeginsAt, OperandNames
<1>4. Defined(ins) = n /\ ins.op1 \in Read(ins) /\ ins.op2 \in Read(ins) BY DEF Defined, Read
<1>5. Perform(Source, p) = SetName(p, n, v) BY Performs1
<1>6. v \in Int
  <2>1. x1 \in Int /\ y1 \in Int BY <1>4, ValueIsInt
  <2> QED BY <1>3, <2>1, ApplyIsInt
<1> HIDE DEF v, x1, y1
<1>7. /\ Assigned(p, Perform(Source, p), n, v) /\ Perform(Source, p).args = p.args
      /\ Perform(Source, p).input = p.input /\ Perform(Source, p).out = p.out
  BY <1>1, <1>3, <1>5, <1>6, SetNameIs
<1>8. c.typed = p.input BY BeginsAt
<1>9. SetLands(c, p.ip, n, v, c.typed, p, o, l) BY <1>3, <1>4, <1>7, <1>8, SetLanding
<1>10. PICK loads, y, z :
          /\ Loading(loads)
          /\ IsIn(linklist, loads, p.ip, ins.op1, y) /\ IsIn(linklist, loads, p.ip, ins.op2, z)
          /\ Block(code[p.ip], loads, Operates(ins.relation, y, z) \o <<E!Sw("s0", Slot(n))>>)
  BY <1>2 DEF BinaryForm, Slot
<1>11. \A d : Loaded(c, d, p.ip, loads, Len(loads)) => d.regs[y] = x1 /\ d.regs[z] = y1
  BY <1>4, <1>10, ValueIn DEF x1, y1
<1>12. \A d : Loaded(c, d, p.ip, loads, Len(loads)) => Apply(ins.relation, d.regs[y], d.regs[z]) = v
  BY <1>11 DEF v
<1>15. /\ ins.relation = "+" => x1 + y1 \in IntW
       /\ ins.relation = "-" => x1 - y1 \in IntW
  BY DEF Begins, Departs1, Overflows, x1, y1
<1>13. CASE ins.relation = "/"
  <2> DEFINE div == E!Three("div", E!None, y, z) mflo == E!Three("mflo", "s0", E!None, E!None)
             sw == E!Sw("s0", Slot(n))
  <2>1. Operates(ins.relation, y, z) = <<div, mflo>> BY <1>13 DEF Operates
  <2> HIDE DEF div, mflo, sw
  <2>2. <<div, mflo>> \o <<sw>> = <<div, mflo, sw>> BY AppendedLast
  <2>3. Block(code[p.ip], loads, <<div, mflo, sw>>)
    <3>1. Block(code[p.ip], loads, Operates(ins.relation, y, z) \o <<sw>>) BY <1>10 DEF sw
    <3> QED BY <2>1, <2>2, <3>1
  <2>4. Block(code[p.ip], loads, <<E!Three("div", E!None, y, z),
                                   E!Three("mflo", "s0", E!None, E!None), E!Sw("s0", Slot(n))>>)
    BY <2>3 DEF div, mflo, sw
  <2>5. \A d : Loaded(c, d, p.ip, loads, Len(loads)) => Apply("/", d.regs[y], d.regs[z]) = v
    BY <1>12, <1>13
  <2> HIDE DEF n, ins
  <2> QED BY <1>1, <1>9, <1>10, <2>4, <2>5, DivLeads
<1>14. ASSUME NEW op, \/ op = "add" /\ ins.relation = "+"
                      \/ op = "sub" /\ ins.relation = "-"
                      \/ op = "mul" /\ ins.relation = "*"
       PROVE  Reaches(c, p, o, l)
  <2> DEFINE three == E!Three(op, "s0", y, z) sw == E!Sw("s0", Slot(n))
  <2>1. Operates(ins.relation, y, z) = <<three>> BY <1>14 DEF Operates
  <2> HIDE DEF three, sw
  <2>2. <<three>> \o <<sw>> = <<three, sw>> BY AppendedLast
  <2>3. Block(code[p.ip], loads, <<three, sw>>)
    <3>1. Block(code[p.ip], loads, Operates(ins.relation, y, z) \o <<sw>>) BY <1>10 DEF sw
    <3> QED BY <2>1, <2>2, <3>1
  <2>4. Block(code[p.ip], loads, <<E!Three(op, "s0", y, z), E!Sw("s0", Slot(n))>>)
    BY <2>3 DEF three, sw
  <2> DEFINE relation == ins.relation
  <2>5. ASSUME NEW d, Loaded(c, d, p.ip, loads, Len(loads))
        PROVE  /\ Apply(relation, d.regs[y], d.regs[z]) = v
               /\ Exact(op, d.regs[y], d.regs[z]) \in IntW
    <3>1. d.regs[y] = x1 /\ d.regs[z] = y1 BY <1>11, <2>5
    <3>2. Exact(op, x1, y1) \in IntW
      <4>1. 0 \in IntW BY IntAssumption DEF IntW
      <4> QED BY <1>14, <1>15, <4>1 DEF Exact
    <3> QED BY <1>12, <2>5, <3>1, <3>2
  <2>6. \/ op = "add" /\ relation = "+"
        \/ op = "sub" /\ relation = "-"
        \/ op = "mul" /\ relation = "*"
    BY <1>14
  <2> HIDE DEF n, ins, relation
  <2>7. /\ IsMachine(c) /\ c.pc = <<p.ip, 1>> /\ Loading(loads)
        /\ SetLands(c, p.ip, n, v, c.typed, p, o, l)
    BY <1>1, <1>9, <1>10
  <2> QED BY ONLY <2>4, <2>5, <2>6, <2>7, ThreeLeads
<1> QED BY <1>3, <1>13, <1>14

LEMMA ReadReaches ==
  ASSUME NEW c, NEW p, NEW o, NEW l, Begins(c, p, o, l), Source[p.ip].kind = "READ"
  PROVE  Reaches(c, p, o, l)
<1> DEFINE ins == Source[p.ip] n == ins.op1 v == NextOf(p.input) typed == RestOf(p.input)
           r == SetName(p, n, v) q == [r EXCEPT !.input = RestOf(@)]
<1>1. /\ IsMachine(c) /\ c.pc = <<p.ip, 1>> /\ p \in Programs1 /\ ~ Ended(p)
      /\ c.regs["sp"] \in Int /\ c.typed = p.input
  BY BeginsAt DEF Begins
<1>2. ReadForm(linklist, p.ip, code[p.ip]) BY BeginsAt DEF Form
<1>3. n \in Names BY BeginsAt, OperandNames
<1>4. Defined(ins) = n BY DEF Defined
<1>5. Perform(Source, p) = q BY Performs1
<1>6. v \in Int /\ typed \in Seq(Int) BY <1>1, ProgramParts, NextIsInt
<1> HIDE DEF v
<1>7. /\ Assigned(p, r, n, v) /\ r.args = p.args /\ r.input = p.input /\ r.out = p.out
  BY <1>1, <1>3, <1>6, SetNameIs
<1> HIDE DEF r
<1>8. r \in Programs1 BY <1>7 DEF Assigned
<1>9. q = [r EXCEPT !.input = typed] BY <1>7
<1> HIDE DEF q, typed
<1>10. /\ q \in Programs1 /\ q.frames = r.frames /\ q.ip = r.ip /\ q.args = r.args
       /\ q.input = typed /\ q.out = r.out
  <2> DEFINE S == Seq(Frames) I == Seq(Int)
  <2>1. r \in [ip: Nat, frames: S, args: I, input: I, out: I, result: Int]
    BY <1>8 DEF Programs1
  <2>2. typed \in I BY <1>6
  <2> HIDE DEF S, I
  <2>3. q \in [ip: Nat, frames: S, args: I, input: I, out: I, result: Int]
    BY <1>9, <2>1, <2>2
  <2>4. /\ q.frames = r.frames /\ q.ip = r.ip /\ q.args = r.args
        /\ q.input = typed /\ q.out = r.out
    BY <1>9, <2>1
  <2> QED BY <2>3, <2>4 DEF Programs1, S, I
<1>11. Assigned(p, q, n, v) BY <1>7, <1>10 DEF Assigned, Depth
<1>12. SetLands(c, p.ip, n, v, typed, p, o, l)
  BY <1>3, <1>4, <1>5, <1>7, <1>10, <1>11, SetLanding
<1>13. v = NextOf(c.typed) /\ typed = RestOf(c.typed) BY <1>1 DEF v, typed
<1> QED BY <1>1, <1>2, <1>12, <1>13, ReadLeads

-----------------------------------------------------------------------------
(* Instructions that set no variable.                                      *)

LEMMA IpTo ==
  ASSUME NEW p \in Programs1, NEW t \in Nat
  PROVE  LET q == [p EXCEPT !.ip = t]
         IN /\ q \in Programs1 /\ q.ip = t /\ q.frames = p.frames /\ q.args = p.args
            /\ q.input = p.input /\ q.out = p.out /\ q.result = p.result
<1> DEFINE S == Seq(Frames) I == Seq(Int) q == [p EXCEPT !.ip = t]
<1>1. p \in [ip: Nat, frames: S, args: I, input: I, out: I, result: Int] BY DEF Programs1
<1> HIDE DEF S, I
<1>2. /\ q \in [ip: Nat, frames: S, args: I, input: I, out: I, result: Int]
      /\ q.ip = t /\ q.frames = p.frames /\ q.args = p.args
      /\ q.input = p.input /\ q.out = p.out /\ q.result = p.result
  BY <1>1
<1> QED BY <1>2 DEF Programs1, S, I

LEMMA ArgsTo ==
  ASSUME NEW p \in Programs1, NEW a \in Seq(Int)
  PROVE  LET q == [p EXCEPT !.args = a]
         IN /\ q \in Programs1 /\ q.ip = p.ip /\ q.frames = p.frames /\ q.args = a
            /\ q.input = p.input /\ q.out = p.out /\ q.result = p.result
<1> DEFINE S == Seq(Frames) I == Seq(Int) q == [p EXCEPT !.args = a]
<1>1. p \in [ip: Nat, frames: S, args: I, input: I, out: I, result: Int] BY DEF Programs1
<1>0. a \in I OBVIOUS
<1> HIDE DEF S, I
<1>2. /\ q \in [ip: Nat, frames: S, args: I, input: I, out: I, result: Int]
      /\ q.ip = p.ip /\ q.frames = p.frames /\ q.args = a
      /\ q.input = p.input /\ q.out = p.out /\ q.result = p.result
  BY <1>0, <1>1
<1> QED BY <1>2 DEF Programs1, S, I

LEMMA OutTo ==
  ASSUME NEW p \in Programs1, NEW a \in Seq(Int)
  PROVE  LET q == [p EXCEPT !.out = a]
         IN /\ q \in Programs1 /\ q.ip = p.ip /\ q.frames = p.frames /\ q.out = a
            /\ q.input = p.input /\ q.args = p.args /\ q.result = p.result
<1> DEFINE S == Seq(Frames) I == Seq(Int) q == [p EXCEPT !.out = a]
<1>1. p \in [ip: Nat, frames: S, args: I, input: I, out: I, result: Int] BY DEF Programs1
<1>0. a \in I OBVIOUS
<1> HIDE DEF S, I
<1>2. /\ q \in [ip: Nat, frames: S, args: I, input: I, out: I, result: Int]
      /\ q.ip = p.ip /\ q.frames = p.frames /\ q.out = a
      /\ q.input = p.input /\ q.args = p.args /\ q.result = p.result
  BY <1>0, <1>1
<1> QED BY <1>2 DEF Programs1, S, I

LEMMA SkipIs ==
  ASSUME NEW p \in Programs1
  PROVE  LET q == Skip(p)
         IN /\ q \in Programs1 /\ q.ip = p.ip + 1 /\ q.frames = p.frames /\ q.args = p.args
            /\ q.input = p.input /\ q.out = p.out /\ q.result = p.result
<1>1. p.ip + 1 \in Nat BY DEF Programs1
<1>2. Skip(p) = [p EXCEPT !.ip = p.ip + 1] BY DEF Skip
<1> QED BY <1>1, <1>2, IpTo

LEMMA NoneSet ==
  ASSUME NEW p, NEW o, NEW l,
         Source[p.ip].kind \in {"LABEL", "FUNCTION", "DEC", "GOTO", "IF_GOTO", "WRITE", "ARG",
                                "CALL", "PARAM"}
  PROVE  OwnerAfter(p, o) = o /\ LastAfter(p, l) = l
<1>1. SetBy(p).name = NoName
  <2>1. CASE Source[p.ip].kind \in {"CALL", "PARAM"} BY <2>1 DEF SetBy
  <2>2. CASE Source[p.ip].kind \notin {"CALL", "PARAM"}
    <3>1. SetBy(p) = [name |-> Defined(Source[p.ip]), depth |-> Depth(p)] BY <2>2 DEF SetBy
    <3>2. Defined(Source[p.ip]) = NoName BY <2>2 DEF Defined
    <3> QED BY <3>1, <3>2
  <2> QED BY <2>1, <2>2
<1> QED BY <1>1 DEF OwnerAfter, LastAfter

(* e is c, elsewhere.                                                      *)
Moved(c, e, t) ==
  /\ Near(c, e) /\ e.pc = <<t, 1>> /\ e.regs["s0"] = c.regs["s0"]
  /\ \A w : Peek(e.array, w) = Peek(c.array, w)

LEMMA Passing ==
  ASSUME NEW c, NEW p, NEW o, NEW l, Begins(c, p, o, l), NEW e, NEW p2,
         p2 \in Programs1, p2.frames = p.frames, Moved(c, e, p2.ip), Onward(p.ip, p2.ip),
         e.screen = p2.out, e.typed = p2.input, ArgumentsKept(e, p2)
  PROVE  Follows(e, p2, o, l)
<1> DEFINE D == Depth(p)
<1>1. /\ Runs(c, p, o, l) /\ Len(Source) \in Nat /\ DOMAIN o = Names BY BeginsAt
<1>2. Depth(p2) = D BY DEF Depth
<1>3. Continues(c, p, e, p2) BY <1>2 DEF Continues, Moved
<1>4. LastKept(e, l) BY <1>1 DEF Runs, LastKept, Moved
<1>5. Keeps(e, p2, o)
  <2> SUFFICES ASSUME NEW d \in 1..D, NEW n \in DOMAIN p2.frames[d].env
               PROVE  VariableKept(e, p2, o, d, n)
    BY <1>2 DEF Keeps
  <2>1. n \in DOMAIN p.frames[d].env OBVIOUS
  <2>2. FrameKept(c, p, o, d) BY <1>1 DEF Runs
  <2>3. VariableKept(c, p, o, d, n) BY <2>1, <2>2 DEF FrameKept
  <2>4. /\ Onward(At1(p, d), At1(p2, d))
        /\ \A q \in 1..4 : Kept1(e, p2, d, q) = Kept1(c, p, d, q)
    BY <1>3, PlacesStay
  <2>5. Stays(c, p, o, e, p2, o, d, n) BY <2>4 DEF Stays, Moved
  <2> QED BY <1>1, <2>3, <2>5, VariableStays
<1>6. e.pc = <<p2.ip, 1>> BY DEF Moved
<1> QED BY <1>1, <1>3, <1>4, <1>5, <1>6, GoesOn

LEMMA CompiledArgument ==
  ASSUME NEW c, Compiled(c), NEW i \in 1..Len(c), c[i].kind = "ARG"
  PROVE  i < Len(c) /\ c[i + 1].kind \in {"ARG", "CALL"}
BY DEF Compiled

LEMMA BehindArgument ==
  ASSUME Solid, NEW j \in 1..Len(Source), Source[j].kind = "ARG"
  PROVE  /\ j < Len(Source) /\ Source[j].op1 \in Temps
         /\ Source[j + 1].kind \in {"ARG", "CALL"}
<1>1. Compiled(Source) /\ Len(Source) \in Nat BY DEF Solid
<1>2. j < Len(Source) /\ Source[j + 1].kind \in {"ARG", "CALL"} BY <1>1, CompiledArgument
<1> QED BY <1>1, <1>2 DEF Compiled

LEMMA SkipsMoves ==
  ASSUME NEW c, NEW e, NEW t, Skips(c, e, <<t, 1>>)
  PROVE  Moved(c, e, t) /\ e.screen = c.screen /\ e.typed = c.typed
BY DEF Skips, Moved, Untouched

LEMMA PlainReaches ==
  ASSUME NEW c, NEW p, NEW o, NEW l, Begins(c, p, o, l),
         Source[p.ip].kind \in {"LABEL", "DEC", "FUNCTION"}
  PROVE  Reaches(c, p, o, l)
<1> DEFINE k == p.ip q == Perform(Source, p)
<1>1. /\ IsMachine(c) /\ c.pc = <<k, 1>> /\ p \in Programs1 /\ ~ Ended(p) /\ Solid
      /\ Len(Source) \in Nat /\ k \in 1..Len(Source) /\ c.screen = p.out /\ c.typed = p.input
      /\ Runs(c, p, o, l) /\ Form(linklist, k, code[k])
  BY BeginsAt DEF Begins
<1>2. k # Len(Source) /\ Source[k + 1].kind # "FUNCTION" BY <1>1 DEF Begins, Departs1
<1>3. q = Skip(p) BY Performs1
<1>4. /\ q \in Programs1 /\ q.ip = k + 1 /\ q.frames = p.frames /\ q.args = p.args
      /\ q.input = p.input /\ q.out = p.out
  BY <1>1, <1>3, SkipIs
<1>5. OwnerAfter(p, o) = o /\ LastAfter(p, l) = l BY NoneSet
<1> HIDE DEF q
<1>6. Onward(k, k + 1) BY <1>1, <1>2, OnwardNext
<1>7. ASSUME NEW e, Skips(c, e, <<k + 1, 1>>) PROVE Landed(e, p, o, l)
  <2>1. Moved(c, e, k + 1) /\ e.screen = c.screen /\ e.typed = c.typed BY <1>7, SkipsMoves
  <2>2. ArgumentsKept(e, q)
    <3>1. CASE p.args = <<>>
      <4>1. q.ip \in 1..Len(Source) /\ q.ip - 1 = k BY <1>1, <1>2, <1>4
      <4>2. Source[k].kind # "ARG" OBVIOUS
      <4> QED BY <1>1, <1>4, <3>1, <4>1, <4>2, NoneKept
    <3>2. CASE p.args # <<>>
      <4>1. Source[k].kind = "FUNCTION" BY <3>2, NoArguments
      <4>2. PICK h, r \in 0..Len(Source) : Pending(c, p, h, r)
        BY <1>1, <3>2, <4>1 DEF Runs, ArgumentsKept
      <4>3. h = k /\ r = 0 /\ Takes(k, Len(p.args))
            /\ \A i \in 1..Len(p.args) : i <= 4 => c.regs[E!ArgumentRegister(0 + i - 1)] = p.args[i]
        BY <4>1, <4>2 DEF Pending
      <4>4. Len(p.args) \in Nat \ {0}
        <5>1. p.args \in Seq(Int) BY <1>1, ProgramParts
        <5> QED BY <3>2, <5>1
      <4>5. Source[k + 1].kind = "PARAM"
        <5>1. k + 1 \in k + 1..k + Len(p.args) BY <1>1, <4>4
        <5> QED BY <4>3, <5>1 DEF Takes
      <4>6. IsPlace(k + 1, 0 + 1)
        <5>1. 0 + 1 = 1 /\ 1 \in 1..(k + 1) - 1 /\ (k + 1) - 1 = k
              /\ \A i \in (k + 1) - 1 + 1..k + 1 : i = k + 1
          BY <1>1
        <5>2. IsPlace(k + 1, 1) BY <4>1, <4>5, <5>1 DEF IsPlace
        <5> QED BY <5>1, <5>2
      <4>7. \A i \in 1..Len(p.args) : 0 + i <= 4 =>
              e.regs[E!ArgumentRegister(0 + i - 1)] = q.args[i]
        <5> SUFFICES ASSUME NEW i \in 1..Len(p.args), 0 + i <= 4
                     PROVE  e.regs[E!ArgumentRegister(0 + i - 1)] = p.args[i]
          BY <1>4
        <5>1. i <= 4 BY <4>4
        <5>2. E!ArgumentRegister(0 + i - 1) \in Held BY <4>4, <5>1 DEF E!ArgumentRegister, Held
        <5> QED BY <2>1, <4>3, <5>1, <5>2 DEF Moved, Near
      <4>8. Pending(e, q, k, 0)
        <5>1. q.ip = k + 1 /\ (k + 1) - 1 = k /\ Source[q.ip].kind = "PARAM" BY <1>1, <1>4, <4>5
        <5> QED BY <1>4, <4>3, <4>6, <4>7, <5>1 DEF Pending
      <4>9. k \in 0..Len(Source) /\ 0 \in 0..Len(Source) BY <1>1
      <4> QED BY <1>4, <4>5, <4>8, <4>9 DEF ArgumentsKept
    <3> QED BY <3>1, <3>2
  <2>3. Follows(e, q, o, l) BY <1>1, <1>4, <1>6, <2>1, <2>2, Passing
  <2> QED BY <1>5, <2>3 DEF Landed, q
<1>8. code[k] = <<>> \/ code[k] = <<E!Jump("label", Source[k].op1)>> BY <1>1 DEF Form
<1> QED BY <1>1, <1>7, <1>8, PlainLeads

(* What is read and is no parameter is in its word.                        *)
LEMMA WordIs ==
  ASSUME NEW c, NEW p, NEW o, NEW l, Begins(c, p, o, l), NEW n \in Read(Source[p.ip]),
         ~ IsParameter(n)
  PROVE  Peek(c.array, Slot(n)) = Env(p)[n] /\ Env(p)[n] \in Int
<1> DEFINE D == Depth(p)
<1>1. ~ Ended(p) /\ p \in Programs1 /\ Runs(c, p, o, l) BY BeginsAt DEF Begins
<1>2. n \in DOMAIN Env(p) /\ o[n] = D BY DEF Begins, Departs1
<1>3. D \in 1..D BY <1>1, ProgramParts
<1>4. VariableKept(c, p, o, D, n) BY <1>1, <1>2, <1>3 DEF Runs, FrameKept, Env
<1> QED BY <1>2, <1>4 DEF VariableKept, Env

LEMMA TempIsNoParameter ==
  ASSUME Solid, NEW n \in Temps
  PROVE  ~ IsParameter(n)
<1> SUFFICES ASSUME NEW j \in 1..Len(Source), Source[j].kind = "PARAM", Source[j].op1 = n
             PROVE  FALSE
  BY DEF IsParameter
<1>1. Source[j].op1 \in Vars BY DEF Solid, Compiled
<1> QED BY <1>1, NamesAssumption

LEMMA ArgReaches ==
  ASSUME NEW c, NEW p, NEW o, NEW l, Begins(c, p, o, l), Source[p.ip].kind = "ARG"
  PROVE  Reaches(c, p, o, l)
<1> DEFINE k == p.ip n == Source[k].op1 x == Env(p)[n] m == Len(p.args)
           s == Skip(p) args == <<x>> \o p.args q == Perform(Source, p)
<1>1. /\ IsMachine(c) /\ c.pc = <<k, 1>> /\ p \in Programs1 /\ ~ Ended(p) /\ Solid
      /\ Len(Source) \in Nat /\ k \in 1..Len(Source) /\ c.screen = p.out /\ c.typed = p.input
      /\ Runs(c, p, o, l) /\ Form(linklist, k, code[k])
  BY BeginsAt DEF Begins
<1>2. /\ k # Len(Source) /\ n \in Temps /\ Source[k + 1].kind \in {"ARG", "CALL"}
  BY <1>1, BehindArgument
<1>3. x \in Int /\ Peek(c.array, Slot(n)) = x
  <2>1. n \in Read(Source[k]) BY DEF Read
  <2>2. ~ IsParameter(n) BY <1>1, <1>2, TempIsNoParameter
  <2> QED BY <2>1, <2>2, WordIs
<1>4. p.args \in Seq(Int) /\ m \in Nat BY <1>1, ProgramParts
<1>5. /\ args \in Seq(Int) /\ Len(args) = m + 1 /\ args[1] = x
      /\ \A i \in 1..m : args[1 + i] = p.args[i]
  <2>1. <<x>> \in Seq(Int) /\ Len(<<x>>) = 1 /\ <<x>>[1] = x BY <1>3
  <2> DEFINE a == <<x>>
  <2> HIDE DEF a
  <2>2. /\ a \o p.args \in Seq(Int) /\ Len(a \o p.args) = Len(a) + m
        /\ \A i \in 1..Len(a) : (a \o p.args)[i] = a[i]
        /\ \A i \in 1..m : (a \o p.args)[Len(a) + i] = p.args[i]
    BY <1>4, <2>1, Concatenated DEF a
  <2>3. Len(a) = 1 /\ a[1] = x BY <2>1 DEF a
  <2> QED BY <1>4, <2>2, <2>3 DEF a
<1>6. /\ s \in Programs1 /\ s.ip = k + 1 /\ s.frames = p.frames /\ s.args = p.args
      /\ s.input = p.input /\ s.out = p.out
  BY <1>1, SkipIs
<1>7. q = [s EXCEPT !.args = <<x>> \o @] BY Performs1
<1> HIDE DEF s, q, args
<1>8. q = [s EXCEPT !.args = args] BY <1>6, <1>7 DEF args
<1>9. /\ q \in Programs1 /\ q.ip = k + 1 /\ q.frames = p.frames /\ q.args = args
      /\ q.input = p.input /\ q.out = p.out
  BY <1>5, <1>6, <1>8, ArgsTo
<1>10. OwnerAfter(p, o) = o /\ LastAfter(p, l) = l BY NoneSet
<1>11. Onward(k, k + 1) BY <1>1, <1>2, OnwardNext
<1>12. /\ Passes(k, m)
       /\ \A i \in 1..m : p.args[i] = Peek(c.array, Slot(Source[k - i].op1))
  BY <1>1 DEF Runs, ArgumentsKept
<1>13. Passes(k + 1, m + 1)
  <2>1. m \in 0..k - 1 /\ (\A i \in k - m..k - 1 : Source[i].kind = "ARG")
        /\ (m < k - 1 => Source[k - m - 1].kind # "ARG")
    BY <1>12 DEF Passes
  <2>2. /\ m + 1 \in 0..(k + 1) - 1
        /\ \A i \in (k + 1) - (m + 1)..(k + 1) - 1 : i \in k - m..k - 1 \/ i = k
        /\ m + 1 < (k + 1) - 1 => m < k - 1
        /\ (k + 1) - (m + 1) - 1 = k - m - 1
    <3>1. k \in Nat \ {0} /\ m \in Nat BY <1>1, <1>4
    <3> HIDE DEF k, m
    <3> QED BY <2>1, <3>1
  <2> QED BY <2>1, <2>2 DEF Passes
<1>14. ASSUME NEW e, Skips(c, e, <<k + 1, 1>>) PROVE Landed(e, p, o, l)
  <2>1. Moved(c, e, k + 1) /\ e.screen = c.screen /\ e.typed = c.typed BY <1>14, SkipsMoves
  <2>2. ASSUME NEW i \in 1..m + 1
        PROVE  args[i] = Peek(e.array, Slot(Source[(k + 1) - i].op1))
    <3>0. \A w : Peek(e.array, w) = Peek(c.array, w) BY <2>1 DEF Moved
    <3>1. CASE i = 1
      <4>1. (k + 1) - i = k BY <1>1, <3>1
      <4> QED BY <1>3, <1>5, <3>0, <3>1, <4>1
    <3>2. CASE i # 1
      <4>0. m \in Nat /\ k \in Int BY <1>1, <1>4
      <4>1. i - 1 \in 1..m /\ 1 + (i - 1) = i /\ k - (i - 1) = (k + 1) - i
        <5> HIDE DEF m, k
        <5> QED BY <3>2, <4>0
      <4>2. args[i] = p.args[i - 1] BY <1>5, <4>1
      <4>3. p.args[i - 1] = Peek(c.array, Slot(Source[k - (i - 1)].op1)) BY <1>12, <4>1
      <4> QED BY <3>0, <4>1, <4>2, <4>3
    <3> QED BY <3>1, <3>2
  <2>3. ArgumentsKept(e, q)
    <3>1. q.ip = k + 1 /\ q.args = args /\ Len(q.args) = m + 1
          /\ Source[q.ip].kind \notin {"FUNCTION", "PARAM"}
      BY <1>2, <1>5, <1>9
    <3> QED BY <1>13, <2>2, <3>1 DEF ArgumentsKept
  <2>4. Follows(e, q, o, l) BY <1>1, <1>9, <1>11, <2>1, <2>3, Passing
  <2> QED BY <1>10, <2>4 DEF Landed, q
<1>15. code[k] = <<>> BY <1>1 DEF Form
<1> QED BY <1>1, <1>14, <1>15, PlainLeads

LEMMA WriteReaches ==
  ASSUME NEW c, NEW p, NEW o, NEW l, Begins(c, p, o, l), Source[p.ip].kind = "WRITE"
  PROVE  Reaches(c, p, o, l)
<1> DEFINE k == p.ip n == Source[k].op1 x == Env(p)[n]
           s == Skip(p) q == Perform(Source, p) out == Append(p.out, x)
<1>1. /\ IsMachine(c) /\ c.pc = <<k, 1>> /\ p \in Programs1 /\ ~ Ended(p) /\ Solid
      /\ Len(Source) \in Nat /\ k \in 1..Len(Source) /\ c.screen = p.out /\ c.typed = p.input
      /\ Runs(c, p, o, l) /\ Form(linklist, k, code[k]) /\ c.regs["sp"] \in Int
  BY BeginsAt DEF Begins
<1>2. /\ k # Len(Source) /\ Source[k + 1].kind # "FUNCTION" /\ n = l
  BY <1>1 DEF Begins, Departs1
<1>3. n \in Names /\ n # NoName
  <2>1. n \in Names BY BeginsAt, OperandNames
  <2> QED BY <2>1, NamesAssumption
<1>4. ~ IsParameter(n) /\ c.regs["s0"] = Peek(c.array, Slot(n))
  BY <1>1, <1>2, <1>3 DEF Runs, LastKept
<1>5. x \in Int /\ c.regs["s0"] = x
  <2>1. n \in Read(Source[k]) BY DEF Read
  <2> QED BY <1>4, <2>1, WordIs
<1>6. /\ s \in Programs1 /\ s.ip = k + 1 /\ s.frames = p.frames /\ s.args = p.args
      /\ s.input = p.input /\ s.out = p.out
  BY <1>1, SkipIs
<1>7. q = [s EXCEPT !.out = Append(@, x)] BY Performs1
<1>8. out \in Seq(Int)
  <2>1. p.out \in Seq(Int) BY <1>1, ProgramParts
  <2> QED BY <1>5, <2>1
<1> HIDE DEF s, q
<1>9. q = [s EXCEPT !.out = out] BY <1>6, <1>7
<1>10. /\ q \in Programs1 /\ q.ip = k + 1 /\ q.frames = p.frames /\ q.args = p.args
       /\ q.input = p.input /\ q.out = out
  BY <1>6, <1>8, <1>9, OutTo
<1>11. OwnerAfter(p, o) = o /\ LastAfter(p, l) = l BY NoneSet
<1>12. Onward(k, k + 1) BY <1>1, <1>2, OnwardNext
<1>13. p.args = <<>> BY NoArguments
<1>14. ASSUME NEW e, Writes1(c, e, k) PROVE Landed(e, p, o, l)
  <2>1. Moved(c, e, k + 1) /\ e.screen = out /\ e.typed = c.typed
    BY <1>1, <1>5, <1>14 DEF Writes1, Moved
  <2>2. ArgumentsKept(e, q)
    <3>1. q.ip \in 1..Len(Source) /\ q.ip - 1 = k BY <1>1, <1>2, <1>10
    <3>2. Source[k].kind # "ARG" OBVIOUS
    <3> QED BY <1>1, <1>10, <1>13, <3>1, <3>2, NoneKept
  <2>4. Follows(e, q, o, l) BY <1>1, <1>10, <1>12, <2>1, <2>2, Passing
  <2> QED BY <1>11, <2>4 DEF Landed, q
<1>15. WriteForm(code[k]) BY <1>1 DEF Form
<1> QED BY <1>1, <1>14, <1>15, WriteLeads

(* Where a label or a function begins, in the program and in its code.     *)
LEMMA PlaceOf ==
  ASSUME Solid, NEW t \in 1..Len(Source), Source[t].kind \in {"LABEL", "FUNCTION"}
  PROVE  /\ Address(code, Source[t].op1) = <<t, 1>>
         /\ Source[t].kind = "LABEL" => Target(Source, Source[t].op1) = t
         /\ Source[t].kind = "FUNCTION" => Entry(Source, Source[t].op1) = t
<1> DEFINE x == Source[t].op1
           P(k) == Len(code[k]) > 0 /\ code[k][1].op = "label" /\ code[k][1].target = x
<1>1. \A i \in 1..Len(Source) :
        Source[i].kind \in {"LABEL", "FUNCTION"} /\ Source[i].op1 = x => i = t
  BY DEF Solid, TargetsApart
<1>2. \A k \in 1..Len(Source) : Source[k].kind \in {"LABEL", "FUNCTION"} =>
        /\ Len(code[k]) = 1 /\ code[k][1].op = "label" /\ code[k][1].target = Source[k].op1
  <2> SUFFICES ASSUME NEW k \in 1..Len(Source), Source[k].kind \in {"LABEL", "FUNCTION"}
               PROVE  /\ Len(code[k]) = 1 /\ code[k][1].op = "label"
                      /\ code[k][1].target = Source[k].op1
    OBVIOUS
  <2> DEFINE j == E!Jump("label", Source[k].op1)
  <2>1. Form(linklist, k, code[k]) BY DEF Solid
  <2>2. code[k] = <<j>> BY <2>1 DEF Form
  <2>3. j.op = "label" /\ j.target = Source[k].op1 BY OpFields DEF E!Jump
  <2> HIDE DEF j
  <2> QED BY <2>2, <2>3
<1>3. P(t) BY <1>2
<1>4. \A k \in 1..Len(Source) : P(k) => k = t
  <2> SUFFICES ASSUME NEW k \in 1..Len(Source), P(k) PROVE k = t
    OBVIOUS
  <2>1. Form(linklist, k, code[k]) BY DEF Solid
  <2>2. Source[k].kind \notin {"LABEL", "FUNCTION"} =>
          Len(code[k]) = 0 \/ (Len(code[k]) > 0 /\ code[k][1].op # "label")
    BY <2>1 DEF Form
  <2>3. Source[k].kind \in {"LABEL", "FUNCTION"} BY <2>2
  <2> QED BY <1>1, <1>2, <2>3
<1>5. Len(code) = Len(Source) BY DEF Solid
<1>6. (CHOOSE k \in 1..Len(code) : P(k)) = t BY <1>3, <1>4, <1>5
<1>7. Address(code, x) = <<t, 1>> BY <1>6 DEF Address
<1>8. Source[t].kind = "LABEL" => Target(Source, x) = t BY <1>1 DEF Target
<1>9. Source[t].kind = "FUNCTION" => Entry(Source, x) = t BY <1>1 DEF Entry
<1> QED BY <1>7, <1>8, <1>9

LEMMA CompiledTarget ==
  ASSUME Solid, NEW k \in 1..Len(Source), Source[k].kind \in {"GOTO", "IF_GOTO"}
  PROVE  \E t \in 1..Len(Source) :
           /\ Source[t].kind = "LABEL" /\ Onward(k, t)
           /\ Source[t].op1 = IF Source[k].kind = "GOTO" THEN Source[k].op1 ELSE Source[k].result
<1>1. Compiled(Source) BY DEF Solid
<1>2. PICK t \in 1..Len(Source) :
         /\ Source[t].kind = "LABEL" /\ SameFunction(Source, k, t)
         /\ Source[t].op1 = IF Source[k].kind = "GOTO" THEN Source[k].op1 ELSE Source[k].result
  BY <1>1 DEF Compiled
<1> QED BY <1>2 DEF Onward

(* Control has come to t, in front of which no arguments are put aside.    *)
LEMMA Going ==
  ASSUME NEW c, NEW p, NEW o, NEW l, Begins(c, p, o, l),
         Source[p.ip].kind \in {"GOTO", "IF_GOTO"}, NEW t, Onward(p.ip, t),
         Source[t].kind \notin {"ARG", "CALL"} \/ t = p.ip + 1,
         Perform(Source, p) = [p EXCEPT !.ip = t],
         NEW e, Skips(c, e, <<t, 1>>)
  PROVE  Landed(e, p, o, l)
<1> DEFINE k == p.ip q == Perform(Source, p)
<1>1. /\ p \in Programs1 /\ ~ Ended(p) /\ Solid /\ Len(Source) \in Nat
      /\ k \in 1..Len(Source) /\ c.screen = p.out /\ c.typed = p.input
  BY BeginsAt DEF Begins
<1>2. t \in 1..Len(Source) /\ t \in Nat BY <1>1 DEF Onward
<1>3. /\ q \in Programs1 /\ q.ip = t /\ q.frames = p.frames /\ q.args = p.args
      /\ q.input = p.input /\ q.out = p.out
  BY <1>1, <1>2, IpTo
<1>4. OwnerAfter(p, o) = o /\ LastAfter(p, l) = l BY NoneSet
<1>5. p.args = <<>> BY NoArguments
<1> HIDE DEF q
<1>6. Moved(c, e, t) /\ e.screen = c.screen /\ e.typed = c.typed BY SkipsMoves
<1>7. ArgumentsKept(e, q)
  <2>1. t > 1 => Source[t - 1].kind # "ARG"
    <3>1. CASE t = k + 1
      <4>1. t - 1 = k BY <1>1, <3>1
      <4> QED BY <4>1
    <3>2. CASE t # k + 1
      <4> SUFFICES ASSUME t > 1, Source[t - 1].kind = "ARG" PROVE FALSE
        OBVIOUS
      <4>1. t - 1 \in 1..Len(Source) /\ (t - 1) + 1 = t BY <1>1, <1>2
      <4>2. Source[(t - 1) + 1].kind \in {"ARG", "CALL"} BY <1>1, <4>1, BehindArgument
      <4> QED BY <3>2, <4>1, <4>2
    <3> QED BY <3>1, <3>2
  <2> QED BY <1>1, <1>2, <1>3, <1>5, <2>1, NoneKept
<1>8. Follows(e, q, o, l) BY <1>1, <1>3, <1>6, <1>7, Passing
<1> QED BY <1>4, <1>8 DEF Landed, q

LEMMA GotoReaches ==
  ASSUME NEW c, NEW p, NEW o, NEW l, Begins(c, p, o, l), Source[p.ip].kind = "GOTO"
  PROVE  Reaches(c, p, o, l)
<1> DEFINE k == p.ip n == Source[k].op1
<1>1. /\ IsMachine(c) /\ c.pc = <<k, 1>> /\ Solid /\ k \in 1..Len(Source)
      /\ Form(linklist, k, code[k])
  BY BeginsAt DEF Begins
<1>2. PICK t \in 1..Len(Source) : Source[t].kind = "LABEL" /\ Onward(k, t) /\ Source[t].op1 = n
  BY <1>1, CompiledTarget
<1>3. Address(code, n) = <<t, 1>> /\ Target(Source, n) = t BY <1>1, <1>2, PlaceOf
<1>4. Perform(Source, p) = [p EXCEPT !.ip = t]
  <2>1. Perform(Source, p) = [p EXCEPT !.ip = Target(Source, n)] BY Performs1
  <2> QED BY <1>3, <2>1
<1>5. \A e : Skips(c, e, <<t, 1>>) => Landed(e, p, o, l) BY <1>2, <1>4, Going
<1>6. code[k] = <<E!Jump("j", n)>> BY <1>1 DEF Form
<1> QED BY <1>1, <1>3, <1>5, <1>6, PlainLeads

LEMMA BranchReaches ==
  ASSUME NEW c, NEW p, NEW o, NEW l, Begins(c, p, o, l), Source[p.ip].kind = "IF_GOTO"
  PROVE  Reaches(c, p, o, l)
<1> DEFINE k == p.ip ins == Source[k] n == ins.result x1 == Env(p)[ins.op1] y1 == Env(p)[ins.op2]
           taken == Holds(ins.relation, x1, y1)
<1>1. /\ IsMachine(c) /\ c.pc = <<k, 1>> /\ Solid /\ k \in 1..Len(Source) /\ Len(Source) \in Nat
      /\ Form(linklist, k, code[k])
  BY BeginsAt DEF Begins
<1>2. PICK t \in 1..Len(Source) : Source[t].kind = "LABEL" /\ Onward(k, t) /\ Source[t].op1 = n
  BY <1>1, CompiledTarget
<1>3. Address(code, n) = <<t, 1>> /\ Target(Source, n) = t BY <1>1, <1>2, PlaceOf
<1>4. k # Len(Source) /\ Source[k + 1].kind # "FUNCTION" BY <1>1 DEF Begins, Departs1
<1>5. Onward(k, k + 1) BY <1>1, <1>4, OnwardNext
<1>6. Perform(Source, p) = IF taken THEN [p EXCEPT !.ip = t] ELSE [p EXCEPT !.ip = k + 1]
  <2>1. Perform(Source, p) = IF taken THEN [p EXCEPT !.ip = Target(Source, n)] ELSE Skip(p)
    BY Performs1
  <2>2. Skip(p) = [p EXCEPT !.ip = k + 1] BY DEF Skip
  <2> QED BY <1>3, <2>1, <2>2
<1>7. ins.relation \in {"<", "<=", ">", ">=", "==", "!="} BY BeginsAt, OperandNames
<1>8. BranchForm(linklist, k, code[k]) BY <1>1 DEF Form
<1>9. PICK loads, y, z :
         /\ Loading(loads)
         /\ IsIn(linklist, loads, k, ins.op1, y) /\ IsIn(linklist, loads, k, ins.op2, z)
         /\ Block(code[k], loads, <<E!Op(Comparison(ins.relation), E!None, y, z, 0, n)>>)
  BY <1>8 DEF BranchForm
<1>10. ins.op1 \in Read(ins) /\ ins.op2 \in Read(ins) BY DEF Read
<1>11. \A d : Loaded(c, d, k, loads, Len(loads)) => d.regs[y] = x1 /\ d.regs[z] = y1
  BY <1>9, <1>10, ValueIn
<1>12. \A d : Loaded(c, d, k, loads, Len(loads)) => (Holds(ins.relation, d.regs[y], d.regs[z]) <=> taken)
  BY <1>11
<1> DEFINE b == IF taken THEN TRUE ELSE FALSE pc == IF b THEN Address(code, n) ELSE <<k + 1, 1>>
<1>13. b \in BOOLEAN /\ (taken <=> b) OBVIOUS
<1>14. \A e : Skips(c, e, pc) => Landed(e, p, o, l)
  <2>1. CASE taken
    <3>1. pc = <<t, 1>> /\ Perform(Source, p) = [p EXCEPT !.ip = t] BY <1>3, <1>6, <2>1
    <3> HIDE DEF pc
    <3> QED BY <1>2, <3>1, Going
  <2>2. CASE ~ taken
    <3>1. pc = <<k + 1, 1>> /\ Perform(Source, p) = [p EXCEPT !.ip = k + 1] BY <1>6, <2>2
    <3> HIDE DEF pc
    <3> QED BY <1>5, <3>1, Going
  <2> QED BY <2>1, <2>2
<1>16. pc = IF b THEN Address(code, n) ELSE <<k + 1, 1>> OBVIOUS
<1> HIDE DEF taken, b, pc
<1>15. \A d : Loaded(c, d, k, loads, Len(loads)) => (Holds(ins.relation, d.regs[y], d.regs[z]) <=> b)
  BY <1>12, <1>13
<1> DEFINE relation == ins.relation
<1>17. Block(code[k], loads, <<E!Op(Comparison(relation), E!None, y, z, 0, n)>>) /\ Loading(loads)
  BY <1>9
<1>18. Decides(c, k, loads, relation, y, z, b) BY <1>15 DEF Decides
<1>19. relation \in {"<", "<=", ">", ">=", "==", "!="} BY <1>7
<1> HIDE DEF relation, n, k
<1> QED BY <1>1, <1>13, <1>14, <1>16, <1>17, <1>18, <1>19, BranchLeads

LEMMA OnePlace ==
  ASSUME Len(Source) \in Nat, NEW j \in 1..Len(Source), NEW q, NEW r, IsPlace(j, q), IsPlace(j, r)
  PROVE  q = r
<1>1. q \in Int /\ r \in Int /\ q >= 1 /\ r >= 1 /\ q <= j - 1 /\ r <= j - 1 BY DEF IsPlace
<1>2. CASE q < r
  <2>1. j - q \in j - r + 1..j BY <1>1, <1>2
  <2> QED BY <2>1 DEF IsPlace
<1>3. CASE r < q
  <2>1. j - r \in j - q + 1..j BY <1>1, <1>3
  <2> QED BY <2>1 DEF IsPlace
<1> QED BY <1>1, <1>2, <1>3

(* What a parameter is given.                                              *)
LEMMA FirstPending ==
  ASSUME NEW c, NEW p, NEW o, NEW l, Begins(c, p, o, l), Source[p.ip].kind = "PARAM"
  PROVE  \E r \in 0..3 :
           /\ Pending(c, p, p.ip - 1, r) /\ IsPlace(p.ip, r + 1) /\ p.args \in Seq(Int)
           /\ Len(p.args) \in Nat \ {0} /\ c.regs[E!ArgumentRegister(r)] = p.args[1]
<1> DEFINE k == p.ip
<1>1. /\ p \in Programs1 /\ ~ Ended(p) /\ Len(Source) \in Nat /\ k \in 1..Len(Source)
      /\ Runs(c, p, o, l)
  BY BeginsAt DEF Begins
<1>2. p.args # <<>> /\ \E q \in 1..4 : IsPlace(k, q) BY DEF Begins, Departs1
<1>3. p.args \in Seq(Int) BY <1>1, ProgramParts
<1>4. Len(p.args) \in Nat \ {0} BY <1>2, <1>3
<1>5. PICK h, r \in 0..Len(Source) : Pending(c, p, h, r) BY <1>1, <1>2 DEF Runs, ArgumentsKept
<1>6. h = k - 1 /\ IsPlace(k, r + 1) BY <1>5 DEF Pending
<1>7. PICK q \in 1..4 : IsPlace(k, q) BY <1>2
<1>8. q = r + 1 BY <1>1, <1>6, <1>7, OnePlace
<1>9. r \in 0..3 /\ r + 1 <= 4 /\ r + 1 - 1 = r BY <1>5, <1>8
<1>10. c.regs[E!ArgumentRegister(r + 1 - 1)] = p.args[1]
  <2>1. 1 \in 1..Len(p.args) BY <1>4
  <2> QED BY <1>5, <1>9, <2>1 DEF Pending
<1> QED BY <1>3, <1>4, <1>5, <1>6, <1>9, <1>10

LEMMA ParamReaches ==
  ASSUME NEW c, NEW p, NEW o, NEW l, Begins(c, p, o, l), Source[p.ip].kind = "PARAM"
  PROVE  Reaches(c, p, o, l)
<1> DEFINE k == p.ip D == Depth(p) n == Source[k].op1 m == Len(p.args) v == Head(p.args)
           s == SetName(p, n, v) args == Tail(p.args) q == Perform(Source, p)
<1>1. /\ IsMachine(c) /\ c.pc = <<k, 1>> /\ p \in Programs1 /\ ~ Ended(p) /\ Solid
      /\ Len(Source) \in Nat /\ k \in 1..Len(Source) /\ c.screen = p.out /\ c.typed = p.input
      /\ Runs(c, p, o, l) /\ Form(linklist, k, code[k]) /\ DOMAIN o = Names
  BY BeginsAt DEF Begins
<1>2. /\ k # Len(Source) /\ Source[k + 1].kind # "FUNCTION" BY <1>1 DEF Begins, Departs1
<1>3. PICK r \in 0..3 :
         /\ Pending(c, p, k - 1, r) /\ IsPlace(k, r + 1) /\ p.args \in Seq(Int)
         /\ m \in Nat \ {0} /\ c.regs[E!ArgumentRegister(r)] = p.args[1]
  BY FirstPending
<1>4. n \in Names /\ IsParameter(n) /\ IsSet(n)
  <2>1. n \in Names /\ Defined(Source[k]) = n BY <1>1, ParamDefines
  <2> QED BY <1>1, <2>1 DEF IsParameter, IsSet
<1>5. /\ v \in Int /\ v = p.args[1] /\ args \in Seq(Int) /\ Len(args) = m - 1
      /\ \A i \in 1..m - 1 : args[i] = p.args[i + 1]
  <2> DEFINE a == p.args
  <2>1. a \in Seq(Int) /\ Len(a) \in Nat \ {0} BY <1>3
  <2> HIDE DEF a
  <2>2. a # <<>> BY <2>1
  <2>3. Head(a) = a[1] /\ Head(a) \in Int /\ Tail(a) \in Seq(Int) /\ Len(Tail(a)) = Len(a) - 1
    BY <2>1, <2>2
  <2>4. \A i \in 1..Len(a) - 1 : Tail(a)[i] = a[i + 1] BY <2>1, <2>2
  <2> QED BY <2>3, <2>4 DEF a
<1>6. D \in Nat \ {0} /\ D \in 1..D BY <1>1, ProgramParts
<1> HIDE DEF v, args
<1>7. /\ Assigned(p, s, n, v) /\ s.args = p.args /\ s.input = p.input /\ s.out = p.out
  BY <1>1, <1>4, <1>5, SetNameIs
<1>8. q = [s EXCEPT !.args = Tail(@)] BY Performs1 DEF v
<1> HIDE DEF s, q
<1>9. s \in Programs1 BY <1>7 DEF Assigned
<1>10. q = [s EXCEPT !.args = args] BY <1>7, <1>8 DEF args
<1>11. /\ q \in Programs1 /\ q.ip = s.ip /\ q.frames = s.frames /\ q.args = args
       /\ q.input = p.input /\ q.out = p.out
  BY <1>5, <1>7, <1>9, <1>10, ArgsTo
<1>12. /\ Depth(q) = D /\ q.ip = k + 1
       /\ \A d \in 1..D : q.frames[d].back = p.frames[d].back
       /\ \A d \in 1..D : d # D => q.frames[d].env = p.frames[d].env
       /\ DOMAIN q.frames[D].env = DOMAIN p.frames[D].env \cup {n}
       /\ q.frames[D].env[n] = v
       /\ \A x \in DOMAIN p.frames[D].env : x # n => q.frames[D].env[x] = p.frames[D].env[x]
  BY <1>7, <1>11 DEF Assigned, Depth
<1>13. OwnerAfter(p, o) = o /\ LastAfter(p, l) = l BY NoneSet
<1>14. Onward(k, k + 1) BY <1>1, <1>2, OnwardNext
<1>15. ASSUME NEW e, Skips(c, e, <<k + 1, 1>>) PROVE Landed(e, p, o, l)
  <2>1. Moved(c, e, k + 1) /\ e.screen = c.screen /\ e.typed = c.typed BY <1>15, SkipsMoves
  <2>2. Near(c, e) /\ e.pc = <<k + 1, 1>> BY <2>1 DEF Moved
  <2>3. Continues(c, p, e, q) BY <1>12, <1>14, <2>2 DEF Continues
  <2>4. LastKept(e, l) BY <1>1, <2>1 DEF Runs, LastKept, Moved
  <2>5. ArgumentsKept(e, q)
    <3>1. CASE m = 1
      <4>1. q.args = <<>> BY <1>5, <1>11, <3>1
      <4>2. q.ip \in 1..Len(Source) /\ q.ip - 1 = k BY <1>1, <1>2, <1>12
      <4>3. Source[k].kind # "ARG" OBVIOUS
      <4> QED BY <1>1, <4>1, <4>2, <4>3, NoneKept
    <3>2. CASE m # 1
      <4>0. m >= 2
        <5>1. m \in Nat \ {0} BY <1>3
        <5> HIDE DEF m
        <5> QED BY <3>2, <5>1
      <4>1. Takes(k - 1, m) /\ m >= 2
        <5> HIDE DEF k, m
        <5>1. Takes(k - 1, Len(p.args)) BY <1>3 DEF Pending
        <5> QED BY <4>0, <5>1 DEF m
      <4>2. /\ k - 1 + m <= Len(Source) /\ \A i \in k..k - 1 + m : Source[i].kind = "PARAM"
            /\ k - 1 + m < Len(Source) => Source[k - 1 + m + 1].kind # "PARAM"
        BY <1>1, <4>1 DEF Takes
      <4>3. Source[k + 1].kind = "PARAM"
        <5>1. k + 1 \in k..k - 1 + m
          <6>1. k \in Int /\ m \in Int /\ m >= 2 BY <1>1, <1>3, <4>1
          <6> HIDE DEF k, m
          <6> QED BY <6>1
        <5> QED BY <4>2, <5>1
      <4>4. Takes(k, m - 1)
        <5>1. /\ k + (m - 1) = k - 1 + m /\ k + (m - 1) + 1 = k - 1 + m + 1
              /\ \A i \in k + 1..k + (m - 1) : i \in k..k - 1 + m
          <6>1. k \in Int /\ m \in Int BY <1>1, <1>3
          <6> HIDE DEF k, m
          <6> QED BY <6>1
        <5> QED BY <4>2, <5>1 DEF Takes
      <4>5. IsPlace(k + 1, (r + 1) + 1)
        <5>1. /\ r + 1 \in 1..k - 1 /\ Source[k - (r + 1)].kind = "FUNCTION"
              /\ \A i \in k - (r + 1) + 1..k : Source[i].kind = "PARAM"
          BY <1>3 DEF IsPlace
        <5>2. /\ (r + 1) + 1 \in 1..(k + 1) - 1 /\ (k + 1) - ((r + 1) + 1) = k - (r + 1)
              /\ \A i \in k - (r + 1) + 1..k + 1 : i \in k - (r + 1) + 1..k \/ i = k + 1
          <6>1. k \in Int /\ r \in Int /\ r >= 0 BY <1>1, <1>3
          <6> HIDE DEF k
          <6> QED BY <5>1, <6>1
        <5> QED BY <4>3, <5>1, <5>2 DEF IsPlace
      <4>6. \A i \in 1..m - 1 : (r + 1) + i <= 4 =>
              e.regs[E!ArgumentRegister((r + 1) + i - 1)] = args[i]
        <5> SUFFICES ASSUME NEW i \in 1..m - 1, (r + 1) + i <= 4
                     PROVE  e.regs[E!ArgumentRegister((r + 1) + i - 1)] = args[i]
          OBVIOUS
        <5>1. /\ i + 1 \in 1..m /\ r + (i + 1) <= 4 /\ r + (i + 1) - 1 = (r + 1) + i - 1
              /\ (r + 1) + i - 1 \in 0..3
          BY <1>3
        <5>2. c.regs[E!ArgumentRegister(r + (i + 1) - 1)] = p.args[i + 1]
          BY <1>3, <5>1 DEF Pending
        <5>3. E!ArgumentRegister((r + 1) + i - 1) \in Held
          BY <5>1 DEF E!ArgumentRegister, Held
        <5> QED BY <1>5, <2>2, <5>1, <5>2, <5>3 DEF Near
      <4>7. Pending(e, q, k, r + 1)
        <5>1. q.ip = k + 1 /\ (k + 1) - 1 = k /\ Source[q.ip].kind = "PARAM"
              /\ Len(q.args) = m - 1 /\ q.args = args
          BY <1>1, <1>5, <1>11, <1>12, <4>3
        <5> QED BY <4>4, <4>5, <4>6, <5>1 DEF Pending
      <4>8. k \in 0..Len(Source) /\ r + 1 \in 0..Len(Source)
        <5>1. r + 1 \in 1..k - 1 BY <1>3 DEF IsPlace
        <5> QED BY <1>1, <5>1
      <4> QED BY <1>12, <4>3, <4>7, <4>8 DEF ArgumentsKept
    <3> QED BY <3>1, <3>2
  <2>6. Keeps(e, q, o)
    <3> SUFFICES ASSUME NEW d \in 1..D, NEW x \in DOMAIN q.frames[d].env
                 PROVE  VariableKept(e, q, o, d, x)
      BY <1>12 DEF Keeps
    <3>1. CASE d = D /\ x = n
      <4>1. SameFunction(Source, k, At1(q, D)) /\ k < At1(q, D)
        BY <1>1, <1>12, <1>14 DEF At1, Onward
      <4>2. Kept1(e, q, D, r + 1) = v
        <5>1. Kept1(e, q, D, r + 1) = e.regs[E!ArgumentRegister(r + 1 - 1)] BY <1>12 DEF Kept1
        <5>2. r + 1 - 1 = r BY <1>3
        <5>3. E!ArgumentRegister(r) \in Held BY <1>3 DEF E!ArgumentRegister, Held
        <5> QED BY <1>3, <1>5, <2>2, <5>1, <5>2, <5>3 DEF Near
      <4>3. r + 1 \in 1..4 BY <1>3
      <4>4. ParameterKept(e, q, D, n)
        BY <1>1, <1>3, <1>12, <4>1, <4>2, <4>3 DEF ParameterKept
      <4> QED BY <1>4, <1>5, <1>12, <3>1, <4>4 DEF VariableKept
    <3>2. CASE ~ (d = D /\ x = n)
      <4>1. x \in DOMAIN p.frames[d].env /\ q.frames[d].env[x] = p.frames[d].env[x]
        BY <1>12, <3>2
      <4>2. FrameKept(c, p, o, d) BY <1>1 DEF Runs
      <4>3. VariableKept(c, p, o, d, x) BY <4>1, <4>2 DEF FrameKept
      <4>4. /\ Onward(At1(p, d), At1(q, d))
            /\ \A y \in 1..4 : Kept1(e, q, d, y) = Kept1(c, p, d, y)
        BY <2>3, PlacesStay
      <4>5. Stays(c, p, o, e, q, o, d, x) BY <2>1, <4>1, <4>4 DEF Stays, Moved
      <4> QED BY <1>1, <4>3, <4>5, VariableStays
    <3> QED BY <3>1, <3>2
  <2>7. e.pc = <<q.ip, 1>> /\ e.screen = q.out /\ e.typed = q.input
    BY <1>1, <1>11, <1>12, <2>1, <2>2
  <2>8. Follows(e, q, o, l) BY <1>1, <1>11, <2>3, <2>4, <2>5, <2>6, <2>7, GoesOn
  <2> QED BY <1>13, <2>8 DEF Landed, q
<1>16. code[k] = <<>> BY <1>1 DEF Form
<1> QED BY <1>1, <1>15, <1>16, PlainLeads

-----------------------------------------------------------------------------
(* What a call does when the function has returned.                        *)

RestoreForm(b, m) ==
  /\ m \in Nat /\ Len(code[b]) = 15 + m
  /\ \A i \in 1..5 : code[b][7 + m + i] = E!LwStack(E!Saved[i], 4 * (i - 1))
  /\ code[b][13 + m] = E!Stack(20) /\ code[b][14 + m] = E!Move("s0", "v0")
  /\ code[b][15 + m] = E!Sw("s0", Slot(Source[b].result))

LEMMA SavedAre ==
  /\ \A i \in 1..5 : E!Saved[i] \in E!Registers /\ E!Saved[i] \in Held /\ E!Saved[i] # "sp"
  /\ E!Saved[1] = "ra" /\ \A q \in 1..4 : E!Saved[q + 1] = E!ArgumentRegister(q - 1)
  /\ \A i, j \in 1..5 : E!Saved[i] = E!Saved[j] => i = j
BY DEF E!Saved, E!Registers, Held, E!ArgumentRegister

(* f is e when i of the five have been restored.                           *)
Restored(e, f, b, m, i) ==
  /\ IsMachine(f) /\ f.pc = <<b, 8 + m + i>>
  /\ \A j \in 1..i : f.regs[E!Saved[j]] = Peek(e.stack, e.regs["sp"] + 4 * (j - 1))
  /\ f.regs["sp"] = e.regs["sp"] /\ f.regs["v0"] = e.regs["v0"]
  /\ f.array = e.array /\ f.stack = e.stack /\ f.typed = e.typed /\ f.screen = e.screen

LEMMA RestoreOne ==
  ASSUME NEW b, NEW m, RestoreForm(b, m), NEW e, NEW f, NEW i \in 0..4, Restored(e, f, b, m, i)
  PROVE  Restored(e, Exec(f), b, m, i + 1)
<1> DEFINE g == Exec(f) r == E!Saved[i + 1] k == 8 + m + i
<1>1. m \in Nat /\ Len(code[b]) = 15 + m BY DEF RestoreForm
<1>2. i + 1 \in 1..5 BY DEF RestoreForm
<1>3. /\ r \in E!Registers /\ r # "sp" /\ r # "v0" /\ \A j \in 1..i : E!Saved[j] # r
      /\ \A j \in 1..i : E!Saved[j] \in E!Registers
  <2>1. \A j \in 1..i : j \in 1..5 /\ j # i + 1 BY <1>2
  <2>2. r \in Held /\ "v0" \notin Held BY <1>2, SavedAre DEF Held
  <2> QED BY <1>2, <2>1, <2>2, SavedAre
<1>4. code[b][k] = E!LwStack(r, 4 * ((i + 1) - 1))
  <2>1. 7 + m + (i + 1) = k BY <1>1
  <2>2. code[b][7 + m + (i + 1)] = E!LwStack(E!Saved[i + 1], 4 * ((i + 1) - 1))
    BY <1>2 DEF RestoreForm
  <2> QED BY <2>1, <2>2
<1>5. /\ Len(code[b]) \in Nat /\ k \in 1..Len(code[b]) /\ k # Len(code[b])
      /\ k + 1 = 8 + m + (i + 1)
  BY <1>1
<1> HIDE DEF g, r, k
<1>6. IsMachine(f) /\ f.pc = <<b, k>> BY DEF Restored, k
<1>7. IsAt(f, E!LwStack(r, 4 * ((i + 1) - 1))) /\ Following(code, f.pc) = <<b, k + 1>>
  BY <1>4, <1>5, <1>6, PlaceIs
<1>8. Puts(f, g, r, Peek(f.stack, f.regs["sp"] + 4 * ((i + 1) - 1)))
  BY <1>3, <1>6, <1>7, DoesLwStack DEF g
<1>9. f.stack = e.stack /\ f.regs["sp"] = e.regs["sp"] BY DEF Restored
<1>10. Puts(f, g, r, Peek(e.stack, e.regs["sp"] + 4 * ((i + 1) - 1))) BY <1>8, <1>9
<1>11. "sp" \in E!Registers /\ "v0" \in E!Registers BY DEF E!Registers
<1>12. ASSUME NEW j \in 1..i + 1
       PROVE  g.regs[E!Saved[j]] = Peek(e.stack, e.regs["sp"] + 4 * (j - 1))
  <2>1. CASE j = i + 1 BY <1>3, <1>10, <2>1 DEF Puts, r
  <2>2. CASE j \in 1..i BY <1>3, <1>10, <2>2 DEF Puts, Restored
  <2> QED BY <2>1, <2>2
<1>13. IsMachine(g) /\ g.pc = <<b, 8 + m + (i + 1)>> BY <1>5, <1>7, <1>10 DEF Puts
<1>14. /\ g.regs["sp"] = e.regs["sp"] /\ g.regs["v0"] = e.regs["v0"]
       /\ g.array = e.array /\ g.stack = e.stack /\ g.typed = e.typed /\ g.screen = e.screen
  BY <1>3, <1>10, <1>11 DEF Puts, Restored
<1> QED BY <1>12, <1>13, <1>14 DEF Restored, g

(* f is e behind the call at b.                                            *)
Resumes(e, f, b) ==
  /\ IsMachine(f) /\ f.pc = <<b + 1, 1>>
  /\ \A j \in 1..5 : f.regs[E!Saved[j]] = Peek(e.stack, e.regs["sp"] + 4 * (j - 1))
  /\ f.regs["sp"] = e.regs["sp"] + 20 /\ f.regs["s0"] = e.regs["v0"]
  /\ f.stack = e.stack /\ f.typed = e.typed /\ f.screen = e.screen
  /\ \A w : Peek(f.array, w) = IF w = Slot(Source[b].result) THEN e.regs["v0"]
                               ELSE Peek(e.array, w)

LEMMA RestoreEnds ==
  ASSUME NEW b, NEW m, RestoreForm(b, m), NEW e, NEW f, Restored(e, f, b, m, 5),
         NEW p, NEW o, NEW l, \A g : Resumes(e, g, b) => Landed(g, p, o, l)
  PROVE  Reaches(f, p, o, l)
<1> DEFINE g == Exec(f) h == Exec(g) x == Exec(h) s == Slot(Source[b].result)
           sp == e.regs["sp"] v == e.regs["v0"]
<1>0. \A y : Resumes(e, y, b) => Landed(y, p, o, l) OBVIOUS
<1>1. m \in Nat /\ Len(code[b]) = 15 + m BY DEF RestoreForm
<1>2. /\ code[b][13 + m] = E!Stack(20) /\ code[b][14 + m] = E!Move("s0", "v0")
      /\ code[b][15 + m] = E!Sw("s0", s)
  BY DEF RestoreForm
<1>3. /\ Len(code[b]) \in Nat /\ 13 + m \in 1..Len(code[b]) /\ 13 + m # Len(code[b])
      /\ (13 + m) + 1 = 14 + m /\ 14 + m \in 1..Len(code[b]) /\ 14 + m # Len(code[b])
      /\ (14 + m) + 1 = 15 + m /\ 15 + m \in 1..Len(code[b]) /\ 15 + m = Len(code[b])
      /\ 8 + m + 5 = 13 + m
  BY <1>1
<1>4. {"sp", "v0", "s0"} \subseteq E!Registers BY DEF E!Registers
<1>5. \A j \in 1..5 : E!Saved[j] \in E!Registers /\ E!Saved[j] \notin {"sp", "v0", "s0"}
  BY SavedAre DEF Held
<1> HIDE DEF g, h, x, s, sp, v
<1>6. /\ IsMachine(f) /\ f.pc = <<b, 13 + m>> /\ f.regs["sp"] = sp /\ f.regs["v0"] = v
      /\ f.array = e.array /\ f.stack = e.stack /\ f.typed = e.typed /\ f.screen = e.screen
      /\ \A j \in 1..5 : f.regs[E!Saved[j]] = Peek(e.stack, sp + 4 * (j - 1))
  BY <1>3 DEF Restored, sp, v
<1>7. IsAt(f, E!Stack(20)) /\ Following(code, f.pc) = <<b, 14 + m>>
  <2> DEFINE a == 13 + m
  <2>1. IsAt(f, E!Stack(20)) /\ Following(code, f.pc) = <<b, a + 1>>
    <3>1. f.pc = <<b, a>> /\ a \in 1..Len(code[b]) /\ a # Len(code[b]) /\ code[b][a] = E!Stack(20)
      BY <1>2, <1>3, <1>6
    <3> HIDE DEF a
    <3> QED BY <1>3, <3>1, PlaceIs
  <2> QED BY <1>3, <2>1
<1>8. Puts(f, g, "sp", sp + 20) BY <1>6, <1>7, DoesStack DEF g
<1>9. /\ IsMachine(g) /\ g.pc = <<b, 14 + m>> /\ g.regs["sp"] = sp + 20 /\ g.regs["v0"] = v
      /\ g.array = e.array /\ g.stack = e.stack /\ g.typed = e.typed /\ g.screen = e.screen
      /\ \A j \in 1..5 : g.regs[E!Saved[j]] = Peek(e.stack, sp + 4 * (j - 1))
  BY <1>4, <1>5, <1>6, <1>7, <1>8 DEF Puts
<1>10. IsAt(g, E!Move("s0", "v0")) /\ Following(code, g.pc) = <<b, 15 + m>>
  <2> DEFINE a == 14 + m
  <2>1. IsAt(g, E!Move("s0", "v0")) /\ Following(code, g.pc) = <<b, a + 1>>
    <3>1. /\ g.pc = <<b, a>> /\ a \in 1..Len(code[b]) /\ a # Len(code[b])
          /\ code[b][a] = E!Move("s0", "v0")
      BY <1>2, <1>3, <1>9
    <3> HIDE DEF a
    <3> QED BY <1>3, <3>1, PlaceIs
  <2> QED BY <1>3, <2>1
<1>11. Puts(g, h, "s0", v)
  <2>1. Puts(g, h, "s0", g.regs["v0"]) BY <1>4, <1>9, <1>10, DoesMove DEF h
  <2> QED BY <1>9, <2>1
<1>12. /\ IsMachine(h) /\ h.pc = <<b, 15 + m>> /\ h.regs["sp"] = sp + 20 /\ h.regs["s0"] = v
       /\ h.array = e.array /\ h.stack = e.stack /\ h.typed = e.typed /\ h.screen = e.screen
       /\ \A j \in 1..5 : h.regs[E!Saved[j]] = Peek(e.stack, sp + 4 * (j - 1))
  BY <1>4, <1>5, <1>9, <1>10, <1>11 DEF Puts
<1>13. IsAt(h, E!Sw("s0", s)) /\ Following(code, h.pc) = <<b + 1, 1>>
  <2> DEFINE a == 15 + m
  <2>1. /\ h.pc = <<b, a>> /\ a \in 1..Len(code[b]) /\ a = Len(code[b])
        /\ code[b][a] = E!Sw("s0", s)
    BY <1>2, <1>3, <1>12
  <2> HIDE DEF a
  <2> QED BY <1>3, <2>1, PlaceIs
<1>14. Stores(h, x, s, v)
  <2>1. Stores(h, x, s, h.regs["s0"]) BY <1>12, <1>13, DoesSw DEF x
  <2> QED BY <1>12, <2>1
<1>15. Resumes(e, x, b) BY <1>12, <1>13, <1>14 DEF Stores, Resumes, s, sp, v
<1>16. Landed(x, p, o, l) /\ x.pc[2] = 1 BY <1>0, <1>15 DEF Resumes
<1>17. Reaches(h, p, o, l) BY <1>12, <1>16, ReachesLast DEF x
<1>18. Reaches(g, p, o, l)
  <2>1. h.pc[2] # 1 BY <1>1, <1>12
  <2> QED BY <1>9, <1>17, <2>1, ReachesBefore DEF h
<1>19. g.pc[2] # 1 BY <1>1, <1>9
<1> QED BY <1>6, <1>18, <1>19, ReachesBefore DEF g

LEMMA RestoreLeads ==
  ASSUME NEW b, NEW m, RestoreForm(b, m), NEW e, IsMachine(e), e.pc = <<b, 8 + m>>,
         NEW p, NEW o, NEW l, \A g : Resumes(e, g, b) => Landed(g, p, o, l)
  PROVE  Reaches(e, p, o, l)
<1> DEFINE L(f, i) == Restored(e, f, b, m, i) R(f) == Reaches(f, p, o, l)
           e1 == Exec(e) e2 == Exec(e1) e3 == Exec(e2) e4 == Exec(e3) e5 == Exec(e4)
<1>0. m \in Nat BY DEF RestoreForm
<1>1. L(e, 0)
  <2>1. 8 + m + 0 = 8 + m BY <1>0
  <2> QED BY <2>1 DEF Restored
<1>2. \A f : L(f, 5) => R(f) BY RestoreEnds
<1>3. \A f : \A i \in 1..5 : L(f, i) => f.pc[2] # 1
  <2> SUFFICES ASSUME NEW f, NEW i \in 1..5, L(f, i) PROVE f.pc[2] # 1
    OBVIOUS
  <2>1. f.pc[2] = 8 + m + i BY DEF Restored
  <2> QED BY <1>0, <2>1
<1>4. \A f : \A i \in 0..4 : L(f, i) => L(Exec(f), i + 1) BY RestoreOne
<1>5. \A f : IsMachine(f) /\ Exec(f).pc[2] # 1 /\ R(Exec(f)) => R(f) BY ReachesBefore
<1>21. \A f, i : L(f, i) => IsMachine(f) BY DEF Restored
<1> HIDE DEF L, R
<1>6. 0 + 1 = 1 /\ 1 + 1 = 2 /\ 2 + 1 = 3 /\ 3 + 1 = 4 /\ 4 + 1 = 5 OBVIOUS
<1>7. \A f : /\ L(f, 0) => L(Exec(f), 0 + 1)
             /\ L(f, 1) => L(Exec(f), 1 + 1)
             /\ L(f, 2) => L(Exec(f), 2 + 1)
             /\ L(f, 3) => L(Exec(f), 3 + 1)
             /\ L(f, 4) => L(Exec(f), 4 + 1)
  BY <1>4
<1>8. \A f : /\ L(f, 0) => L(Exec(f), 1)
             /\ L(f, 1) => L(Exec(f), 2)
             /\ L(f, 2) => L(Exec(f), 3)
             /\ L(f, 3) => L(Exec(f), 4)
             /\ L(f, 4) => L(Exec(f), 5)
  BY ONLY <1>6, <1>7
<1> HIDE DEF e1, e2, e3, e4, e5
<1>9. L(e1, 1) BY <1>1, <1>8 DEF e1
<1>10. L(e2, 2) BY <1>8, <1>9 DEF e2
<1>11. L(e3, 3) BY <1>8, <1>10 DEF e3
<1>12. L(e4, 4) BY <1>8, <1>11 DEF e4
<1>13. L(e5, 5) BY <1>8, <1>12 DEF e5
<1>14. /\ e1.pc[2] # 1 /\ e2.pc[2] # 1 /\ e3.pc[2] # 1 /\ e4.pc[2] # 1 /\ e5.pc[2] # 1
  BY <1>3, <1>9, <1>10, <1>11, <1>12, <1>13
<1>15. R(e5) BY <1>2, <1>13
<1>16. R(e4) BY <1>5, <1>21, <1>12, <1>14, <1>15 DEF e5
<1>17. R(e3) BY <1>5, <1>21, <1>11, <1>14, <1>16 DEF e4
<1>18. R(e2) BY <1>5, <1>21, <1>10, <1>14, <1>17 DEF e3
<1>19. R(e1) BY <1>5, <1>21, <1>9, <1>14, <1>18 DEF e2
<1>20. R(e) BY <1>5, <1>14, <1>19 DEF e1
<1> QED BY <1>20 DEF R

-----------------------------------------------------------------------------
(* A return.                                                               *)

(* p without its topmost activation, at the call.                          *)
Popped(p) == [p EXCEPT !.frames = SubSeq(@, 1, Depth(p) - 1), !.ip = p.frames[Depth(p)].back]

LEMMA PoppedIs ==
  ASSUME NEW p \in Programs1, Depth(p) > 1, NEW b \in Nat, p.frames[Depth(p)].back = b
  PROVE  LET q == Popped(p)
         IN /\ q \in Programs1 /\ Depth(q) = Depth(p) - 1 /\ ~ Ended(q) /\ q.ip = b
            /\ \A d \in 1..Depth(p) - 1 : q.frames[d] = p.frames[d]
            /\ q.args = p.args /\ q.input = p.input /\ q.out = p.out /\ q.result = p.result
<1> DEFINE S == Seq(Frames) I == Seq(Int) D == Depth(p) f == SubSeq(p.frames, 1, D - 1)
           q == Popped(p)
<1>1. p \in [ip: Nat, frames: S, args: I, input: I, out: I, result: Int] BY DEF Programs1
<1>2. /\ p.frames \in Seq(Frames) /\ D = Len(p.frames) /\ D \in Nat BY <1>1 DEF Depth
<1>3. f \in S /\ Len(f) = D - 1 /\ \A d \in 1..D - 1 : f[d] = p.frames[d]
  <2>1. \A x \in 1..D - 1 : p.frames[x] \in Frames BY <1>2
  <2>2. /\ f = [x \in 1..D - 1 |-> p.frames[1 + x - 1]] BY <1>2
  <2>3. \A x \in 1..D - 1 : 1 + x - 1 = x OBVIOUS
  <2>4. /\ f \in Seq(Frames) /\ Len(f) = D - 1 /\ \A d \in 1..D - 1 : f[d] = p.frames[d]
    BY <1>2, <2>1
  <2> QED BY <2>4
<1>4. q = [p EXCEPT !.frames = f, !.ip = b] BY DEF Popped
<1> HIDE DEF S, I, f, q, D
<1>5. /\ q \in [ip: Nat, frames: S, args: I, input: I, out: I, result: Int]
      /\ q.ip = b /\ q.frames = f
      /\ q.args = p.args /\ q.input = p.input /\ q.out = p.out /\ q.result = p.result
  BY <1>1, <1>3, <1>4
<1>6. Depth(q) = D - 1 BY <1>3, <1>5 DEF Depth
<1>7. ~ Ended(q) BY <1>2, <1>6 DEF Ended, D
<1> QED BY <1>3, <1>5, <1>6, <1>7 DEF Programs1, S, I, D, q

LEMMA EndedIs ==
  ASSUME NEW p \in Programs1, NEW v \in Int
  PROVE  LET q == [p EXCEPT !.frames = <<>>, !.result = v]
         IN /\ q \in Programs1 /\ Ended(q) /\ q.result = v
            /\ q.input = p.input /\ q.out = p.out
<1> DEFINE S == Seq(Frames) I == Seq(Int) q == [p EXCEPT !.frames = <<>>, !.result = v]
<1>1. p \in [ip: Nat, frames: S, args: I, input: I, out: I, result: Int] BY DEF Programs1
<1>2. <<>> \in S OBVIOUS
<1> HIDE DEF S, I
<1>3. /\ q \in [ip: Nat, frames: S, args: I, input: I, out: I, result: Int]
      /\ q.frames = <<>> /\ q.result = v /\ q.input = p.input /\ q.out = p.out
  BY <1>1, <1>2
<1> HIDE DEF q
<1>4. Ended(q) BY <1>3 DEF Ended, Depth
<1> QED BY <1>3, <1>4 DEF Programs1, S, I, q

(* The last return.                                                        *)
LEMMA EndLands ==
  ASSUME NEW c, NEW p, NEW o, NEW l, Begins(c, p, o, l), Source[p.ip].kind = "RETURN",
         Depth(p) = 1, NEW e, Returns(c, e, Env(p)[Source[p.ip].op1])
  PROVE  Comes(e, p, o, l)
<1> DEFINE k == p.ip v == Env(p)[Source[k].op1] q == Perform(Source, p)
<1>1. /\ p \in Programs1 /\ ~ Ended(p) /\ c.screen = p.out /\ c.typed = p.input
      /\ Runs(c, p, o, l) /\ DOMAIN o = Names
  BY BeginsAt DEF Begins
<1>2. v \in Int
  <2>1. Source[k].op1 \in Read(Source[k]) BY DEF Read
  <2> QED BY <2>1, ValueIsInt
<1>3. q = [p EXCEPT !.frames = <<>>, !.result = v]
  <2>1. q = Returned(Source, p, v) BY Performs1
  <2> QED BY <2>1 DEF Returned
<1>4. /\ q \in Programs1 /\ Ended(q) /\ q.result = v /\ q.input = p.input /\ q.out = p.out
  <2> HIDE DEF q, v
  <2> QED BY <1>1, <1>2, <1>3, EndedIs
<1>5. OwnerAfter(p, o) = o /\ LastAfter(p, l) = l
  <2>1. SetBy(p) = [name |-> Defined(Source[k]), depth |-> Depth(p)] BY DEF SetBy
  <2>2. Defined(Source[k]) = NoName BY DEF Defined
  <2> QED BY <2>1, <2>2 DEF OwnerAfter, LastAfter
<1>6. c.regs["ra"] = Nowhere BY <1>1 DEF Runs, Back
<1> HIDE DEF q, v
<1>7. /\ IsMachine(e) /\ e.pc = Nowhere /\ e.regs["v0"] = v /\ e.screen = c.screen
      /\ e.typed = c.typed
  BY <1>6 DEF Returns, Untouched, Near, v
<1>8. Follows(e, q, o, l) BY <1>1, <1>4, <1>7 DEF Follows, Halted
<1>9. e.pc[2] = 1 BY <1>7 DEF Nowhere
<1> QED BY <1>5, <1>8, <1>9 DEF Comes, Landed, q

(* What the caller will find.                                              *)
LEMMA CallerWaits ==
  ASSUME NEW c, NEW p, NEW o, NEW l, Begins(c, p, o, l), Depth(p) > 1
  PROVE  \E m : LET b == p.frames[Depth(p)].back
                IN /\ CalledAt(b) /\ RestoreForm(b, m) /\ c.regs["ra"] = <<b, 8 + m>>
                   /\ Source[b].result \in Names /\ Defined(Source[b]) = Source[b].result
<1> DEFINE D == Depth(p) b == p.frames[D].back
<1>1. /\ p \in Programs1 /\ ~ Ended(p) /\ Runs(c, p, o, l) /\ Solid /\ Len(Source) \in Nat
  BY BeginsAt DEF Begins
<1>2. D \in 1..D /\ D > 1 BY <1>1, ProgramParts
<1>3. FrameKept(c, p, o, D) BY <1>1, <1>2 DEF Runs
<1>4. CalledAt(b) BY <1>2, <1>3 DEF FrameKept
<1>5. PICK m \in Nat : Passes(b, m) BY <1>4 DEF CalledAt
<1>6. /\ b \in 1..Len(Source) /\ Source[b].kind = "CALL" BY <1>1, <1>4 DEF CalledAt
<1>7. Form(linklist, b, code[b]) /\ Source[b] \in Instructions /\ Printable(Source[b])
      /\ ~ UsesElement(Source[b])
  BY <1>1, <1>6 DEF Solid
<1>8. CallForm(linklist, b, code[b]) BY <1>6, <1>7 DEF Form
<1>9. RestoreForm(b, m) BY <1>5, <1>8 DEF CallForm, RestoreForm, Slot
<1>10. Source[b].result \in Names BY <1>6, <1>7, OperandNames
<1>11. Defined(Source[b]) = Source[b].result BY <1>6 DEF Defined
<1>12. c.regs["ra"] = <<b, Len(code[b]) - 7>> BY <1>1, <1>2 DEF Runs, Back
<1>13. Len(code[b]) - 7 = 8 + m BY <1>9 DEF RestoreForm
<1> QED BY <1>4, <1>9, <1>10, <1>11, <1>12, <1>13

LEMMA ReturnLands ==
  ASSUME NEW c, NEW p, NEW o, NEW l, Begins(c, p, o, l), Source[p.ip].kind = "RETURN",
         Depth(p) > 1, NEW b, p.frames[Depth(p)].back = b, CalledAt(b),
         Source[b].result \in Names, Defined(Source[b]) = Source[b].result,
         NEW v, v = Env(p)[Source[p.ip].op1], NEW e, Returns(c, e, v), NEW f, Resumes(e, f, b)
  PROVE  Landed(f, p, o, l)
<1> DEFINE k == p.ip D == Depth(p) n == Source[b].result t == Popped(p)
           q == Perform(Source, p) o2 == OwnerAfter(p, o) l2 == LastAfter(p, l)
<1>1. /\ p \in Programs1 /\ ~ Ended(p) /\ c.screen = p.out /\ c.typed = p.input /\ Solid
      /\ Runs(c, p, o, l) /\ DOMAIN o = Names /\ Len(Source) \in Nat
      /\ c.regs["sp"] = -20 * (D - 1)
  BY BeginsAt DEF Begins
<1>2. D \in Nat /\ D > 1 /\ D \in 1..D /\ D - 1 \in 1..D BY <1>1, ProgramParts
<1>3. v \in Int
  <2>1. Source[k].op1 \in Read(Source[k]) BY DEF Read
  <2> QED BY <2>1, ValueIsInt
<1>4. /\ b \in 1..Len(Source) /\ b # Len(Source) /\ b + 1 \in 1..Len(Source) /\ b \in Nat
      /\ Source[b].kind = "CALL" /\ Source[b + 1].kind # "FUNCTION" /\ ~ IsParameter(n)
  BY <1>1 DEF CalledAt
<1>5. IsSet(n) /\ n # NoName
  <2>1. n # NoName BY NamesAssumption
  <2> QED BY <1>4, <2>1 DEF IsSet
<1>6. q = SetName(t, n, v)
  <2>1. q = Returned(Source, p, v) BY Performs1
  <2> QED BY <1>2, <2>1 DEF Returned, Popped
<1>7. /\ t \in Programs1 /\ Depth(t) = D - 1 /\ ~ Ended(t) /\ t.ip = b
      /\ \A d \in 1..D - 1 : t.frames[d] = p.frames[d]
      /\ t.args = p.args /\ t.input = p.input /\ t.out = p.out
  BY <1>1, <1>2, <1>4, PoppedIs
<1>8. p.args = <<>> BY NoArguments
<1> HIDE DEF t, q
<1>9. Assigned(t, q, n, v) /\ q.args = <<>> /\ q.input = p.input /\ q.out = p.out
  BY <1>3, <1>6, <1>7, <1>8, SetNameIs
<1>10. /\ q \in Programs1 /\ Depth(q) = D - 1 /\ q.ip = b + 1
       /\ \A d \in 1..D - 1 : q.frames[d].back = p.frames[d].back
       /\ \A d \in 1..D - 1 : d # D - 1 => q.frames[d].env = p.frames[d].env
       /\ DOMAIN q.frames[D - 1].env = DOMAIN p.frames[D - 1].env \cup {n}
       /\ q.frames[D - 1].env[n] = v
       /\ \A x \in DOMAIN p.frames[D - 1].env :
            x # n => q.frames[D - 1].env[x] = p.frames[D - 1].env[x]
  <2>1. t.frames[D - 1] = p.frames[D - 1] BY <1>2, <1>7
  <2> QED BY <1>7, <1>9, <2>1 DEF Assigned
<1>11. SetBy(p) = [name |-> n, depth |-> D - 1] BY <1>2 DEF SetBy
<1>12. o2 = [o EXCEPT ![n] = D - 1] /\ l2 = n BY <1>5, <1>11 DEF OwnerAfter, LastAfter
<1> HIDE DEF o2, l2
<1>13. DOMAIN o2 = Names /\ \A x \in Names : o2[x] = IF x = n THEN D - 1 ELSE o[x]
  BY <1>1, <1>12
<1>14. /\ IsMachine(e) /\ e.screen = c.screen /\ e.typed = c.typed /\ e.regs["v0"] = v
       /\ e.regs["sp"] = -20 * (D - 1)
       /\ \A w : Peek(e.array, w) = Peek(c.array, w)
       /\ \A w \in Int : w >= -20 * (D - 1) => Peek(e.stack, w) = Peek(c.stack, w)
  BY <1>1 DEF Returns, Untouched, Near, Held
<1>15. /\ IsMachine(f) /\ f.pc = <<b + 1, 1>> /\ f.regs["s0"] = v /\ f.stack = e.stack
       /\ f.typed = p.input /\ f.screen = p.out /\ f.regs["sp"] = -20 * (D - 1) + 20
       /\ \A j \in 1..5 : f.regs[E!Saved[j]] = Peek(e.stack, -20 * (D - 1) + 4 * (j - 1))
       /\ \A w : Peek(f.array, w) = IF w = Slot(n) THEN v ELSE Peek(c.array, w)
  BY <1>1, <1>14 DEF Resumes
<1>16. \A w \in Int : w >= -20 * (D - 1) => Peek(f.stack, w) = Peek(c.stack, w)
  BY <1>14, <1>15
<1>17. f.regs["sp"] = -20 * (Depth(q) - 1) BY <1>2, <1>10, <1>15
<1>18. \A d \in 1..D : FrameKept(c, p, o, d) BY <1>1 DEF Runs
<1>19. ASSUME NEW d \in 1..D - 1 PROVE Back(q, d) = Back(p, d)
  <2>1. q.frames[d].back = p.frames[d].back BY <1>10
  <2> QED BY <2>1 DEF Back
<1>20. f.regs["ra"] = Back(q, Depth(q))
  <2>1. f.regs[E!Saved[1]] = Peek(e.stack, -20 * (D - 1) + 4 * (1 - 1)) BY <1>15
  <2>2. -20 * (D - 1) + 4 * (1 - 1) = -20 * (D - 1) /\ -20 * (D - 1) \in Int BY <1>2
  <2>3. f.regs["ra"] = Peek(c.stack, -20 * (D - 1)) BY <1>14, <2>1, <2>2, SavedAre
  <2>4. Peek(c.stack, -20 * (D - 1)) = Back(p, D - 1) BY <1>2, <1>18 DEF FrameKept
  <2> QED BY <1>2, <1>10, <1>19, <2>3, <2>4
<1>21. ASSUME NEW d \in 1..D - 1
       PROVE  /\ Onward(At1(p, d), At1(q, d))
              /\ \A r \in 1..4 : Kept1(f, q, d, r) = Kept1(c, p, d, r)
  <2>0. d \in Int /\ d # D /\ d \in 1..D /\ d + 1 \in 1..D /\ d <= D - 1 BY <1>2
  <2>1. CASE d = D - 1
    <3>1. d + 1 = D BY <1>2, <2>1
    <3>2. At1(p, d) = b BY <2>0, <3>1 DEF At1
    <3>3. At1(q, d) = b + 1 BY <1>10, <2>1 DEF At1
    <3>4. Onward(b, b + 1) BY <1>1, <1>4, OnwardNext
    <3>5. ASSUME NEW r \in 1..4 PROVE Kept1(f, q, d, r) = Kept1(c, p, d, r)
      <4>1. Kept1(f, q, d, r) = f.regs[E!ArgumentRegister(r - 1)] BY <1>10, <2>1 DEF Kept1
      <4>2. E!Saved[r + 1] = E!ArgumentRegister(r - 1) /\ r + 1 \in 1..5 BY SavedAre
      <4>3. f.regs[E!Saved[r + 1]] = Peek(e.stack, -20 * (D - 1) + 4 * ((r + 1) - 1))
        BY <1>15, <4>2
      <4>4. /\ -20 * (D - 1) + 4 * ((r + 1) - 1) = -20 * d + 4 * r
            /\ -20 * d + 4 * r \in Int /\ -20 * d + 4 * r >= -20 * (D - 1)
        BY <1>2, <2>1
      <4>5. Peek(e.stack, -20 * d + 4 * r) = Peek(c.stack, -20 * d + 4 * r) BY <1>14, <4>4
      <4>6. Kept1(c, p, d, r) = Peek(c.stack, -20 * d + 4 * r) BY <2>0 DEF Kept1
      <4> QED BY <4>1, <4>2, <4>3, <4>4, <4>5, <4>6
    <3> QED BY <3>2, <3>3, <3>4, <3>5
  <2>2. CASE d # D - 1
    <3>0. d + 1 \in 1..D - 1 /\ d + 1 > 1 BY <1>2, <2>2
    <3>1. At1(p, d) = p.frames[d + 1].back BY <2>0 DEF At1
    <3>2. At1(q, d) = p.frames[d + 1].back BY <1>10, <2>2, <3>0 DEF At1
    <3>3. FrameKept(c, p, o, d + 1) BY <1>18, <2>0
    <3>4. CalledAt(p.frames[d + 1].back) BY <3>0, <3>3 DEF FrameKept
    <3>5. p.frames[d + 1].back \in 1..Len(Source) BY <1>1, <3>4 DEF CalledAt
    <3>6. Onward(At1(p, d), At1(q, d)) BY <3>1, <3>2, <3>5, OnwardHere
    <3>7. ASSUME NEW r \in 1..4 PROVE Kept1(f, q, d, r) = Kept1(c, p, d, r)
      <4>1. -20 * d + 4 * r \in Int /\ -20 * d + 4 * r >= -20 * (D - 1) BY <1>2, <2>0
      <4>2. Peek(f.stack, -20 * d + 4 * r) = Peek(c.stack, -20 * d + 4 * r) BY <1>16, <4>1
      <4> QED BY <1>10, <2>0, <2>2, <4>2 DEF Kept1
    <3> QED BY <3>6, <3>7
  <2> QED BY <2>1, <2>2
<1>22. ASSUME NEW d \in 1..D - 1, NEW x \in DOMAIN q.frames[d].env
       PROVE  VariableKept(f, q, o2, d, x)
  <2>0. d \in 1..D BY <1>2
  <2>1. CASE d = D - 1 /\ x = n
    <3>1. Peek(f.array, Slot(n)) = v BY <1>15
    <3> QED BY <1>3, <1>4, <1>5, <1>10, <2>1, <3>1 DEF VariableKept
  <2>2. CASE ~ (d = D - 1 /\ x = n)
    <3>1. x \in DOMAIN p.frames[d].env /\ q.frames[d].env[x] = p.frames[d].env[x]
      BY <1>10, <2>2
    <3>3. VariableKept(c, p, o, d, x) BY <1>18, <2>0, <3>1 DEF FrameKept
    <3>4. x \in Names /\ IsSet(x) BY <3>3 DEF VariableKept
    <3>5. ASSUME ~ IsParameter(x), o2[x] = d
          PROVE  o[x] = d /\ Peek(f.array, Slot(x)) = Peek(c.array, Slot(x))
      <4>1. x # n BY <1>13, <2>2, <3>4, <3>5
      <4>2. o[x] = d BY <1>13, <3>4, <3>5, <4>1
      <4>3. Slot(x) # Slot(n) BY <1>1, <1>4, <1>5, <3>4, <3>5, <4>1, SlotsApart
      <4> QED BY <1>15, <4>2, <4>3
    <3>6. Stays(c, p, o, f, q, o2, d, x) BY <1>21, <3>1, <3>5 DEF Stays
    <3> QED BY <1>1, <3>3, <3>6, VariableStays
  <2> QED BY <2>1, <2>2
<1>23. ASSUME NEW d \in 1..D - 1 PROVE FrameKept(f, q, o2, d)
  <2>0. d \in 1..D /\ d \in Int /\ d < D BY <1>2
  <2>1. FrameKept(c, p, o, d) BY <1>18, <2>0
  <2>2. d > 1 => CalledAt(q.frames[d].back)
    <3>1. q.frames[d].back = p.frames[d].back BY <1>10
    <3> QED BY <2>1, <3>1 DEF FrameKept
  <2>3. Peek(f.stack, -20 * d) = Back(q, d)
    <3>1. -20 * d \in Int /\ -20 * d >= -20 * (D - 1) BY <1>2, <2>0
    <3>2. Peek(c.stack, -20 * d) = Back(p, d) BY <2>0, <2>1 DEF FrameKept
    <3> QED BY <1>16, <1>19, <3>1, <3>2
  <2> QED BY <1>22, <2>2, <2>3 DEF FrameKept
<1>24. ArgumentsKept(f, q)
  <2>1. q.ip \in 1..Len(Source) /\ q.ip - 1 = b BY <1>4, <1>10
  <2>2. Source[b].kind # "ARG" BY <1>4
  <2> QED BY <1>1, <1>9, <2>1, <2>2, NoneKept
<1>25. LastKept(f, l2) BY <1>4, <1>12, <1>15 DEF LastKept
<1>26. Runs(f, q, o2, l2)
  BY <1>4, <1>10, <1>15, <1>17, <1>20, <1>23, <1>24, <1>25 DEF Runs
<1>27. ~ Ended(q) BY <1>2, <1>10 DEF Ended
<1>28. Follows(f, q, o2, l2) BY <1>9, <1>10, <1>13, <1>15, <1>26, <1>27 DEF Follows
<1> QED BY <1>28 DEF Landed, q, o2, l2

LEMMA ReturnReaches ==
  ASSUME NEW c, NEW p, NEW o, NEW l, Begins(c, p, o, l), Source[p.ip].kind = "RETURN"
  PROVE  Reaches(c, p, o, l)
<1> DEFINE k == p.ip D == Depth(p) n == Source[k].op1 v == Env(p)[n] b == p.frames[D].back
<1>1. /\ IsMachine(c) /\ c.pc = <<k, 1>> /\ p \in Programs1 /\ ~ Ended(p)
      /\ Form(linklist, k, code[k])
  BY BeginsAt DEF Begins
<1>2. D \in Nat \ {0} BY <1>1, ProgramParts
<1>3. ASSUME NEW e, Returns(c, e, v) PROVE Comes(e, p, o, l)
  <2>1. CASE D = 1 BY <1>3, <2>1, EndLands
  <2>2. CASE D > 1
    <3>1. PICK m : /\ CalledAt(b) /\ RestoreForm(b, m) /\ c.regs["ra"] = <<b, 8 + m>>
                   /\ Source[b].result \in Names /\ Defined(Source[b]) = Source[b].result
      BY <2>2, CallerWaits
    <3>2. IsMachine(e) /\ e.pc = <<b, 8 + m>> BY <1>3, <3>1 DEF Returns, Untouched, Near
    <3>3. ASSUME NEW f, Resumes(e, f, b) PROVE Landed(f, p, o, l)
      BY <1>3, <2>2, <3>1, <3>3, ReturnLands
    <3>4. Reaches(e, p, o, l) BY <3>1, <3>2, <3>3, RestoreLeads
    <3>5. e.pc[2] # 1
      <4>1. m \in Nat BY <3>1 DEF RestoreForm
      <4> QED BY <3>2, <4>1
    <3> QED BY <3>4, <3>5 DEF Comes
  <2> QED BY <1>2, <2>1, <2>2
<1>4. ReturnForm(linklist, k, code[k]) BY <1>1 DEF Form
<1>5. PICK loads, y :
         /\ Loading(loads) /\ IsIn(linklist, loads, k, n, y)
         /\ Block(code[k], loads, <<E!Move("v0", y), E!Jump("jr", NoName)>>)
  BY <1>4 DEF ReturnForm
<1>6. n \in Read(Source[k]) BY DEF Read
<1>7. \A d : Loaded(c, d, k, loads, Len(loads)) => d.regs[y] = v BY <1>5, <1>6, ValueIn
<1> HIDE DEF v
<1> QED BY <1>1, <1>3, <1>5, <1>7, ReturnLeads

-----------------------------------------------------------------------------
(* What a call does until it is at the function.                           *)

Passed(k, m) ==
  /\ m \in Nat /\ Len(code[k]) = 15 + m /\ code[k][1] = E!Stack(-20)
  /\ \A i \in 1..5 : code[k][1 + i] = E!SwStack(E!Saved[i], 4 * (i - 1))
  /\ \A i \in 1..m : code[k][6 + i] = E!ArgumentLoad(i - 1, Slot(Source[k - i].op1))
  /\ code[k][7 + m] = E!Jump("jal", Source[k].op1)

(* d is c when the instruction at j is the next.                           *)
Calling(c, d, k, m, j) ==
  /\ IsMachine(d) /\ d.pc = <<k, j>>
  /\ d.array = c.array /\ d.typed = c.typed /\ d.screen = c.screen
  /\ d.regs["sp"] = c.regs["sp"] - 20
  /\ d.regs["ra"] = c.regs["ra"] /\ d.regs["s0"] = c.regs["s0"]
  /\ j <= 7 => \A r \in Held : r # "sp" => d.regs[r] = c.regs[r]
  /\ \A i \in 1..5 : i <= j - 2 =>
       Peek(d.stack, c.regs["sp"] - 20 + 4 * (i - 1)) = c.regs[E!Saved[i]]
  /\ \A w \in Int : w >= c.regs["sp"] => Peek(d.stack, w) = Peek(c.stack, w)
  /\ \A i \in 1..m : i <= 4 /\ i <= j - 7 =>
       d.regs[E!ArgumentRegister(i - 1)] = Peek(c.array, Slot(Source[k - i].op1))

LEMMA CallingFirst ==
  ASSUME NEW c, IsMachine(c), NEW k, NEW m, Passed(k, m), c.pc = <<k, 1>>, c.regs["sp"] \in Int
  PROVE  Calling(c, Exec(c), k, m, 2)
<1> DEFINE d == Exec(c)
<1>1. m \in Nat /\ Len(code[k]) = 15 + m /\ code[k][1] = E!Stack(-20) BY DEF Passed
<1>2. Len(code[k]) \in Nat /\ 1 \in 1..Len(code[k]) /\ 1 # Len(code[k]) /\ 1 + 1 = 2 BY <1>1
<1>3. IsAt(c, E!Stack(-20)) /\ Following(code, c.pc) = <<k, 2>> BY <1>1, <1>2, PlaceIs
<1> HIDE DEF d
<1>4. Puts(c, d, "sp", c.regs["sp"] + (-20)) BY <1>3, DoesStack DEF d
<1>5. Held \subseteq E!Registers /\ "sp" \in E!Registers /\ "s0" \in E!Registers
      /\ "ra" \in Held /\ "s0" # "sp"
  BY DEF Held, E!Registers
<1>6. /\ IsMachine(d) /\ d.pc = <<k, 2>>
      /\ \A x \in E!Registers : d.regs[x] = IF x = "sp" THEN c.regs["sp"] + (-20) ELSE c.regs[x]
      /\ d.array = c.array /\ d.stack = c.stack /\ d.typed = c.typed /\ d.screen = c.screen
  BY <1>3, <1>4 DEF Puts
<1>7. c.regs["sp"] + (-20) = c.regs["sp"] - 20 OBVIOUS
<1>8. /\ d.regs["sp"] = c.regs["sp"] - 20 /\ d.regs["ra"] = c.regs["ra"]
      /\ d.regs["s0"] = c.regs["s0"] /\ \A r \in Held : r # "sp" => d.regs[r] = c.regs[r]
  BY <1>5, <1>6, <1>7
<1>9. (\A i \in 1..5 : ~ i <= 2 - 2) /\ \A i \in 1..m : ~ i <= 2 - 7 BY <1>1
<1> QED BY <1>6, <1>8, <1>9 DEF Calling, d

(* Saving a register.                                                      *)
LEMMA CallingSaves ==
  ASSUME NEW c, NEW d, NEW k, NEW m, Passed(k, m), c.regs["sp"] \in Int, NEW i \in 1..5,
         Calling(c, d, k, m, 1 + i)
  PROVE  Calling(c, Exec(d), k, m, (1 + i) + 1)
<1> DEFINE e == Exec(d) s == c.regs["sp"] a == s - 20 + 4 * (i - 1) j == 1 + i
<1>1. m \in Nat /\ Len(code[k]) = 15 + m /\ code[k][j] = E!SwStack(E!Saved[i], 4 * (i - 1))
  BY DEF Passed
<1>2. Len(code[k]) \in Nat /\ j \in 1..Len(code[k]) /\ j # Len(code[k]) BY <1>1
<1> HIDE DEF e, j
<1>3. IsMachine(d) /\ d.pc = <<k, j>> /\ d.regs["sp"] = s - 20 BY DEF Calling, j
<1>4. IsAt(d, E!SwStack(E!Saved[i], 4 * (i - 1))) /\ Following(code, d.pc) = <<k, j + 1>>
  BY <1>1, <1>2, <1>3, PlaceIs
<1>5. Pushes(d, e, d.regs["sp"] + 4 * (i - 1), d.regs[E!Saved[i]])
  BY <1>3, <1>4, DoesSwStack DEF e
<1> HIDE DEF s
<1>6. s \in Int BY DEF s
<1>7. /\ j \in Int /\ j <= 7 /\ j + 1 <= 7 /\ j = 1 + i BY DEF j
<1>8. d.regs[E!Saved[i]] = c.regs[E!Saved[i]]
  <2>1. \A r \in Held : r # "sp" => d.regs[r] = c.regs[r] BY <1>7 DEF Calling, j
  <2> QED BY <2>1, SavedAre
<1>9. /\ IsMachine(e) /\ e.pc = <<k, j + 1>> /\ e.regs = d.regs /\ e.array = d.array
      /\ e.typed = d.typed /\ e.screen = d.screen
      /\ \A w : Peek(e.stack, w) = IF w = a THEN c.regs[E!Saved[i]] ELSE Peek(d.stack, w)
  BY <1>3, <1>4, <1>5, <1>8 DEF Pushes
<1>10. ASSUME NEW x \in 1..5, x <= (j + 1) - 2
       PROVE  Peek(e.stack, s - 20 + 4 * (x - 1)) = c.regs[E!Saved[x]]
  <2>1. CASE x = i BY <1>9, <2>1
  <2>2. CASE x # i
    <3>1. x <= j - 2 BY <1>7, <1>10, <2>2
    <3>2. s - 20 + 4 * (x - 1) # a BY <1>6, <2>2
    <3>3. Peek(d.stack, s - 20 + 4 * (x - 1)) = c.regs[E!Saved[x]] BY <3>1 DEF Calling, j, s
    <3> QED BY <1>9, <3>2, <3>3
  <2> QED BY <2>1, <2>2
<1>11. ASSUME NEW w \in Int, w >= s PROVE Peek(e.stack, w) = Peek(c.stack, w)
  <2>1. w # a BY <1>6, <1>11
  <2>2. Peek(d.stack, w) = Peek(c.stack, w) BY <1>11 DEF Calling, s
  <2> QED BY <1>9, <2>1, <2>2
<1>12. \A x \in 1..m : ~ x <= (j + 1) - 7 BY <1>1, <1>7
<1>13. /\ d.array = c.array /\ d.typed = c.typed /\ d.screen = c.screen
       /\ d.regs["ra"] = c.regs["ra"] /\ d.regs["s0"] = c.regs["s0"]
       /\ \A r \in Held : r # "sp" => d.regs[r] = c.regs[r]
  BY <1>7 DEF Calling, j
<1>14. Calling(c, e, k, m, j + 1)
  BY <1>3, <1>9, <1>10, <1>11, <1>12, <1>13 DEF Calling, s
<1> QED BY <1>14 DEF e, j

(* Loading an argument.                                                    *)
LEMMA ArgumentsLoaded ==
  /\ \A i \in 1..4 : \A offset :
       E!ArgumentLoad(i - 1, offset) = E!Lw(E!ArgumentRegister(i - 1), offset)
  /\ \A i \in Nat : i > 4 => \A offset : E!ArgumentLoad(i - 1, offset).op = "lw_none"
  /\ \A i \in 1..4 : E!ArgumentRegister(i - 1) \in {"a0", "a1", "a2", "a3"}
  /\ \A i, x \in 1..4 : E!ArgumentRegister(i - 1) = E!ArgumentRegister(x - 1) => i = x
<1>1. ASSUME NEW i \in Nat, i > 4, NEW offset
      PROVE  E!ArgumentLoad(i - 1, offset).op = "lw_none"
  <2>1. ~ (i - 1 <= 3) BY <1>1
  <2>2. E!ArgumentLoad(i - 1, offset) = E!Op("lw_none", E!None, E!None, E!None, offset, NoName)
    BY <2>1 DEF E!ArgumentLoad
  <2> QED BY <2>2, OpFields
<1>2. ASSUME NEW i \in 1..4, NEW offset
      PROVE  E!ArgumentLoad(i - 1, offset) = E!Lw(E!ArgumentRegister(i - 1), offset)
  <2>1. i - 1 <= 3 OBVIOUS
  <2> QED BY <2>1 DEF E!ArgumentLoad
<1>3. \A i \in 1..4 : E!ArgumentRegister(i - 1) \in {"a0", "a1", "a2", "a3"}
  BY DEF E!ArgumentRegister
<1>4. \A i, x \in 1..4 : E!ArgumentRegister(i - 1) = E!ArgumentRegister(x - 1) => i = x
  BY DEF E!ArgumentRegister
<1> QED BY <1>1, <1>2, <1>3, <1>4

LEMMA CallingLoads ==
  ASSUME NEW c, NEW d, NEW k, NEW m, Passed(k, m), NEW i \in 1..m, Calling(c, d, k, m, 6 + i)
  PROVE  Calling(c, Exec(d), k, m, (6 + i) + 1)
<1> DEFINE e == Exec(d) j == 6 + i a == Slot(Source[k - i].op1) s == E!ArgumentLoad(i - 1, a)
           r == IF i <= 4 THEN E!ArgumentRegister(i - 1) ELSE "nowhere"
<1>1. m \in Nat /\ Len(code[k]) = 15 + m /\ code[k][j] = s BY DEF Passed
<1>2. Len(code[k]) \in Nat /\ j \in 1..Len(code[k]) /\ j # Len(code[k]) BY <1>1
<1>3. /\ i \in Nat \ {0} /\ j \in Int /\ j + 1 > 7 /\ j + 1 - 7 = i /\ j - 7 = i - 1
      /\ \A x \in 1..5 : x <= j - 2 /\ x <= j + 1 - 2
  BY <1>1
<1> HIDE DEF e, j
<1>4. IsMachine(d) /\ d.pc = <<k, j>> BY DEF Calling, j
<1>5. r \notin {"sp", "ra", "s0"}
  <2>1. CASE i <= 4 BY <1>3, <2>1, ArgumentsLoaded
  <2>2. CASE ~ (i <= 4) BY <2>2
  <2> QED BY <2>1, <2>2
<1>6. IsAt(d, s) /\ Following(code, d.pc) = <<k, j + 1>>
  <2> HIDE DEF s
  <2> QED BY <1>1, <1>2, <1>4, PlaceIs
<1>7. /\ d.array = c.array /\ d.typed = c.typed /\ d.screen = c.screen
      /\ d.regs["sp"] = c.regs["sp"] - 20
      /\ d.regs["ra"] = c.regs["ra"] /\ d.regs["s0"] = c.regs["s0"]
      /\ \A w \in Int : w >= c.regs["sp"] => Peek(d.stack, w) = Peek(c.stack, w)
      /\ \A x \in 1..5 : Peek(d.stack, c.regs["sp"] - 20 + 4 * (x - 1)) = c.regs[E!Saved[x]]
      /\ \A x \in 1..m : x <= 4 /\ x <= j - 7 =>
           d.regs[E!ArgumentRegister(x - 1)] = Peek(c.array, Slot(Source[k - x].op1))
  BY <1>3 DEF Calling, j
<1>8. /\ IsMachine(e) /\ e.pc = <<k, j + 1>> /\ e.array = d.array /\ e.stack = d.stack
      /\ e.typed = d.typed /\ e.screen = d.screen
      /\ \A x \in E!Registers : e.regs[x] = IF x = r THEN Peek(c.array, a) ELSE d.regs[x]
  <2>1. CASE i <= 4
    <3>1. r \in E!Registers /\ r # "sp" BY <1>3, <2>1, ArgumentsLoaded DEF E!Registers
    <3>2. s = E!Lw(r, a) BY <1>3, <2>1, ArgumentsLoaded
    <3> HIDE DEF r, a, s
    <3>3. Puts(d, e, r, Peek(d.array, a)) BY <1>4, <1>6, <3>1, <3>2, DoesLw DEF e
    <3> QED BY <1>6, <1>7, <3>3 DEF Puts
  <2>2. CASE ~ (i <= 4)
    <3>0. i \in Nat /\ i > 4 BY <1>3, <2>2
    <3>1. s.op = "lw_none" BY <3>0, ArgumentsLoaded
    <3>2. r \notin E!Registers
      <4>1. r = "nowhere" BY <2>2
      <4> QED BY <4>1 DEF E!Registers, E!None
    <3> HIDE DEF r, a, s
    <3>3. Goes(d, e, <<k, j + 1>>) BY <1>4, <1>6, <3>1, DoesNoLoad DEF e
    <3> QED BY <3>2, <3>3 DEF Goes
  <2> QED BY <2>1, <2>2
<1> HIDE DEF r, a, s
<1>9. /\ e.regs["sp"] = d.regs["sp"] /\ e.regs["ra"] = d.regs["ra"]
      /\ e.regs["s0"] = d.regs["s0"]
  <2>1. {"sp", "ra", "s0"} \subseteq E!Registers BY DEF E!Registers
  <2> QED BY <1>5, <1>8, <2>1
<1>10. ASSUME NEW x \in 1..m, x <= 4, x <= (j + 1) - 7
       PROVE  e.regs[E!ArgumentRegister(x - 1)] = Peek(c.array, Slot(Source[k - x].op1))
  <2>0. x \in 1..4 BY <1>10
  <2>1. E!ArgumentRegister(x - 1) \in E!Registers BY <2>0 DEF E!ArgumentRegister, E!Registers
  <2>2. CASE x = i
    <3>1. E!ArgumentRegister(x - 1) = r BY <1>10, <2>2 DEF r
    <3> QED BY <1>8, <2>1, <2>2, <3>1 DEF a
  <2>3. CASE x # i
    <3>1. x <= j - 7 BY <1>3, <1>10, <2>0, <2>3
    <3>2. E!ArgumentRegister(x - 1) # r
      <4>1. CASE i <= 4 BY <1>3, <2>0, <2>3, <4>1, ArgumentsLoaded DEF r
      <4>2. CASE ~ (i <= 4)
        <5>1. "nowhere" \notin E!Registers BY DEF E!Registers, E!None
        <5>2. r = "nowhere" BY <4>2 DEF r
        <5> QED BY <2>1, <5>1, <5>2
      <4> QED BY <4>1, <4>2
    <3> QED BY <1>7, <1>8, <1>10, <2>1, <3>1, <3>2
  <2> QED BY <2>2, <2>3
<1>11. Calling(c, e, k, m, j + 1)
  <2>1. ~ j + 1 <= 7 BY <1>3
  <2> QED BY <1>7, <1>8, <1>9, <1>10, <2>1 DEF Calling
<1> QED BY <1>11 DEF e, j

(* e is c at the function.                                                 *)
Called1(c, e, k, m, pc) ==
  /\ IsMachine(e) /\ e.pc = pc
  /\ e.array = c.array /\ e.typed = c.typed /\ e.screen = c.screen
  /\ e.regs["sp"] = c.regs["sp"] - 20
  /\ e.regs["ra"] = <<k, 8 + m>> /\ e.regs["s0"] = c.regs["s0"]
  /\ \A i \in 1..5 : Peek(e.stack, c.regs["sp"] - 20 + 4 * (i - 1)) = c.regs[E!Saved[i]]
  /\ \A w \in Int : w >= c.regs["sp"] => Peek(e.stack, w) = Peek(c.stack, w)
  /\ \A i \in 1..m : i <= 4 =>
       e.regs[E!ArgumentRegister(i - 1)] = Peek(c.array, Slot(Source[k - i].op1))

LEMMA CallingLast ==
  ASSUME NEW c, NEW d, NEW k, NEW m, Passed(k, m), Calling(c, d, k, m, 7 + m),
         Source[k].op1 \notin {"read", "write"}
  PROVE  Called1(c, Exec(d), k, m, Address(code, Source[k].op1))
<1> DEFINE e == Exec(d) j == 7 + m t == Source[k].op1
<1>1. m \in Nat /\ Len(code[k]) = 15 + m /\ code[k][j] = E!Jump("jal", t) BY DEF Passed
<1>2. /\ Len(code[k]) \in Nat /\ j \in 1..Len(code[k]) /\ j # Len(code[k]) /\ j + 1 = 8 + m
      /\ \A x \in 1..5 : x <= j - 2
      /\ \A x \in 1..m : x <= j - 7
  BY <1>1
<1> HIDE DEF e, j, t
<1>3. IsMachine(d) /\ d.pc = <<k, j>> BY DEF Calling, j
<1>4. IsAt(d, E!Jump("jal", t)) /\ Following(code, d.pc) = <<k, j + 1>>
  BY <1>1, <1>2, <1>3, PlaceIs
<1>5. Links(d, e, Address(code, t)) BY <1>3, <1>4, DoesJal DEF e, t
<1>6. /\ d.array = c.array /\ d.typed = c.typed /\ d.screen = c.screen
      /\ d.regs["sp"] = c.regs["sp"] - 20 /\ d.regs["s0"] = c.regs["s0"]
      /\ \A w \in Int : w >= c.regs["sp"] => Peek(d.stack, w) = Peek(c.stack, w)
      /\ \A x \in 1..5 : Peek(d.stack, c.regs["sp"] - 20 + 4 * (x - 1)) = c.regs[E!Saved[x]]
      /\ \A x \in 1..m : x <= 4 =>
           d.regs[E!ArgumentRegister(x - 1)] = Peek(c.array, Slot(Source[k - x].op1))
  BY <1>2 DEF Calling, j
<1>7. /\ IsMachine(e) /\ e.pc = Address(code, t) /\ e.array = d.array /\ e.stack = d.stack
      /\ e.typed = d.typed /\ e.screen = d.screen
      /\ \A x \in E!Registers : e.regs[x] = IF x = "ra" THEN <<k, 8 + m>> ELSE d.regs[x]
  BY <1>2, <1>4, <1>5 DEF Links
<1>8. /\ {"sp", "ra", "s0"} \subseteq E!Registers
      /\ \A x \in 1..m : x <= 4 => /\ E!ArgumentRegister(x - 1) \in E!Registers
                                   /\ E!ArgumentRegister(x - 1) # "ra"
  BY <1>1 DEF E!Registers, E!ArgumentRegister
<1>9. /\ e.regs["sp"] = d.regs["sp"] /\ e.regs["ra"] = <<k, 8 + m>>
      /\ e.regs["s0"] = d.regs["s0"]
  BY <1>7, <1>8
<1>10. \A x \in 1..m : x <= 4 =>
         e.regs[E!ArgumentRegister(x - 1)] = Peek(c.array, Slot(Source[k - x].op1))
  BY <1>6, <1>7, <1>8
<1>11. Called1(c, e, k, m, Address(code, t)) BY <1>6, <1>7, <1>9, <1>10 DEF Called1
<1> QED BY <1>11 DEF e, t

(* A set of numbers that has 0 and is closed under successors up to n.     *)
LEMMA OneByOne ==
  ASSUME NEW n \in Nat, NEW S, 0 \in S, \A i \in 1..n : i - 1 \in S => i \in S
  PROVE  \A i \in 0..n : i \in S
<1> DEFINE R == {ss \in Nat \X Nat : ss[1] < ss[2]} W == {i \in 0..n : i \notin S}
<1> SUFFICES ASSUME W # {} PROVE FALSE
  OBVIOUS
<1>1. IsWellFoundedOn(R, Nat) BY NatLessThanWellFounded DEF OpToRel
<1>2. \A i, j \in Nat : <<i, j>> \in R <=> i < j OBVIOUS
<1>3. W \subseteq Nat OBVIOUS
<1> HIDE DEF R, W
<1>4. PICK i \in W : \A j \in W : ~ (<<j, i>> \in R) BY <1>1, <1>3, WFMin
<1>5. \A j \in W : ~ (j < i) BY <1>2, <1>3, <1>4
<1>6. i \in 1..n /\ i - 1 \in 0..n /\ i \notin S BY <1>4 DEF W
<1>7. i - 1 \notin W BY <1>5, <1>6
<1>8. i - 1 \in S BY <1>6, <1>7 DEF W
<1> QED BY <1>6, <1>8

LEMMA CallLeads ==
  ASSUME NEW c, IsMachine(c), NEW k, NEW m, Passed(k, m), c.pc = <<k, 1>>, c.regs["sp"] \in Int,
         Source[k].op1 \notin {"read", "write"}, NEW t, Address(code, Source[k].op1) = <<t, 1>>,
         NEW p, NEW o, NEW l, \A e : Called1(c, e, k, m, <<t, 1>>) => Landed(e, p, o, l)
  PROVE  Reaches(c, p, o, l)
<1> DEFINE L(d, j) == Calling(c, d, k, m, j) R(d) == Reaches(d, p, o, l) n == 5 + m
           S == {i \in 0..n : \A d : L(d, (7 + m) - i) => R(d)}
<1>0. \A e : Called1(c, e, k, m, <<t, 1>>) => Landed(e, p, o, l) OBVIOUS
<1>1. m \in Nat /\ n \in Nat BY DEF Passed
<1>2. \A d : L(d, 7 + m) => R(d)
  <2> SUFFICES ASSUME NEW d, L(d, 7 + m) PROVE R(d)
    OBVIOUS
  <2>1. Called1(c, Exec(d), k, m, <<t, 1>>) BY CallingLast
  <2>2. Landed(Exec(d), p, o, l) BY <1>0, <2>1
  <2>3. Exec(d).pc[2] = 1 BY <2>1 DEF Called1
  <2>4. IsMachine(d) BY DEF Calling
  <2> QED BY <2>2, <2>3, <2>4, ReachesLast
<1>3. \A j \in 2..6 + m : \A d : L(d, j) => L(Exec(d), j + 1)
  <2> SUFFICES ASSUME NEW j \in 2..6 + m, NEW d, L(d, j) PROVE L(Exec(d), j + 1)
    OBVIOUS
  <2>1. CASE j <= 6
    <3>1. PICK i \in 1..5 : j = 1 + i
      <4>1. j - 1 \in 1..5 /\ j = 1 + (j - 1) BY <1>1, <2>1
      <4> QED BY <4>1
    <3> QED BY <3>1, CallingSaves
  <2>2. CASE j > 6
    <3>1. PICK i \in 1..m : j = 6 + i
      <4>1. j - 6 \in 1..m /\ j = 6 + (j - 6) BY <1>1, <2>2
      <4> QED BY <4>1
    <3> QED BY <3>1, CallingLoads
  <2> QED BY <1>1, <2>1, <2>2
<1>4. \A j \in Int : \A d : L(d, j) => d.pc[2] = j /\ IsMachine(d) BY DEF Calling
<1>5. \A d : IsMachine(d) /\ Exec(d).pc[2] # 1 /\ R(Exec(d)) => R(d) BY ReachesBefore
<1>6. L(Exec(c), 2) BY CallingFirst
<1> HIDE DEF L, R, n
<1>7. 0 \in S
  <2>1. (7 + m) - 0 = 7 + m /\ 0 \in 0..n BY <1>1
  <2> QED BY <1>2, <2>1
<1>8. \A i \in 1..n : i - 1 \in S => i \in S
  <2> SUFFICES ASSUME NEW i \in 1..n, i - 1 \in S, NEW d, L(d, (7 + m) - i) PROVE R(d)
    BY <1>1
  <2> DEFINE j == (7 + m) - i
  <2>1. j \in 2..6 + m /\ j + 1 = (7 + m) - (i - 1) /\ j + 1 \in Int /\ j + 1 # 1
    BY <1>1 DEF n
  <2>2. \A x : L(x, (7 + m) - (i - 1)) => R(x) OBVIOUS
  <2> HIDE DEF j, S
  <2>3. L(Exec(d), j + 1) BY <1>3, <2>1 DEF j
  <2>4. R(Exec(d)) BY <2>1, <2>2, <2>3
  <2>5. Exec(d).pc[2] # 1 /\ IsMachine(d)
    <3>1. L(d, j) /\ j \in Int BY <2>1 DEF j
    <3> QED BY <1>4, <2>1, <2>3, <3>1
  <2> QED BY <1>5, <2>4, <2>5
<1> HIDE DEF S
<1>9. \A i \in 0..n : i \in S BY <1>1, <1>7, <1>8, OneByOne
<1>10. n \in S /\ (7 + m) - n = 2
  <2>1. n \in 0..n BY <1>1
  <2>2. (7 + m) - n = 2 BY <1>1 DEF n
  <2> QED BY <1>9, <2>1, <2>2
<1>11. R(Exec(c)) BY <1>6, <1>10 DEF S
<1>12. Exec(c).pc[2] # 1 BY <1>4, <1>6
<1> QED BY <1>5, <1>11, <1>12 DEF R

(* p when a function at t has been called from b.                          *)
Entered(p, b, t) == [p EXCEPT !.frames = Append(@, Activation(b)), !.ip = t]

Enters(p, q, b, t) ==
  /\ q \in Programs1 /\ Depth(q) = Depth(p) + 1 /\ ~ Ended(q) /\ q.ip = t
  /\ \A d \in 1..Depth(p) : q.frames[d] = p.frames[d]
  /\ q.frames[Depth(p) + 1].back = b /\ DOMAIN q.frames[Depth(p) + 1].env = {}
  /\ q.args = p.args /\ q.input = p.input /\ q.out = p.out

LEMMA EnteredIs ==
  ASSUME NEW p \in Programs1, ~ Ended(p), NEW b \in Nat, NEW t \in Nat
  PROVE  Enters(p, Entered(p, b, t), b, t)
<1> DEFINE S == Seq(Frames) I == Seq(Int) D == Depth(p) a == Activation(b)
           f == Append(p.frames, a) q == Entered(p, b, t)
<1>1. p \in [ip: Nat, frames: S, args: I, input: I, out: I, result: Int] BY DEF Programs1
<1>2. p.frames \in Seq(Frames) /\ D = Len(p.frames) /\ D \in Nat \ {0}
  BY ProgramParts
<1>3. a \in Frames /\ a.back = b /\ DOMAIN a.env = {}
  <2> DEFINE e == <<>>
  <2>1. DOMAIN e = {} OBVIOUS
  <2>2. e \in [{} -> Int]
    <3>1. e = [x \in {} |-> 0] OBVIOUS
    <3> QED BY <3>1
  <2>3. {} \in SUBSET Names OBVIOUS
  <2> HIDE DEF e
  <2>4. e \in Envs BY <2>2, <2>3 DEF Envs
  <2>5. a = [env |-> e, back |-> b] BY DEF Activation, e
  <2> QED BY <2>1, <2>4, <2>5 DEF Frames
<1> HIDE DEF a
<1>4. /\ f \in S /\ Len(f) = D + 1 /\ f[D + 1] = a /\ \A d \in 1..D : f[d] = p.frames[d]
  BY <1>2, <1>3
<1>5. q = [p EXCEPT !.frames = f, !.ip = t] BY DEF Entered, a
<1> HIDE DEF S, I, f, q, D
<1>6. /\ q \in [ip: Nat, frames: S, args: I, input: I, out: I, result: Int]
      /\ q.ip = t /\ q.frames = f
      /\ q.args = p.args /\ q.input = p.input /\ q.out = p.out
  BY <1>1, <1>4, <1>5
<1>7. Depth(q) = D + 1 BY <1>4, <1>6 DEF Depth
<1>8. ~ Ended(q) BY <1>2, <1>7 DEF Ended
<1> QED BY <1>3, <1>4, <1>6, <1>7, <1>8 DEF Enters, Programs1, S, I, D, q

LEMMA CallLands ==
  ASSUME NEW c, NEW p, NEW o, NEW l, Begins(c, p, o, l), Source[p.ip].kind = "CALL",
         CalledAt(p.ip), Passed(p.ip, Len(p.args)),
         NEW t \in 1..Len(Source), Source[t].kind = "FUNCTION", Takes(t, Len(p.args)),
         Entry(Source, Source[p.ip].op1) = t,
         NEW e, Called1(c, e, p.ip, Len(p.args), <<t, 1>>)
  PROVE  Landed(e, p, o, l)
<1> DEFINE k == p.ip D == Depth(p) m == Len(p.args) q == Perform(Source, p)
<1>1. /\ p \in Programs1 /\ ~ Ended(p) /\ c.screen = p.out /\ c.typed = p.input /\ Solid
      /\ Runs(c, p, o, l) /\ DOMAIN o = Names /\ Len(Source) \in Nat /\ k \in 1..Len(Source)
      /\ c.regs["sp"] = -20 * (D - 1) /\ k \in Nat
  BY BeginsAt DEF Begins
<1>2. D \in Nat \ {0} BY <1>1, ProgramParts
<1>3. q = Entered(p, k, t)
  <2>1. q = [p EXCEPT !.frames = Append(@, Activation(k)), !.ip = Entry(Source, Source[k].op1)]
    BY Performs1
  <2> QED BY <2>1 DEF Entered
<1>4. t \in Nat BY <1>1
<1> HIDE DEF q
<1>5. /\ q \in Programs1 /\ Depth(q) = D + 1 /\ ~ Ended(q) /\ q.ip = t
      /\ \A d \in 1..D : q.frames[d] = p.frames[d]
      /\ q.frames[D + 1].back = k /\ DOMAIN q.frames[D + 1].env = {}
      /\ q.args = p.args /\ q.input = p.input /\ q.out = p.out
  <2>1. p \in Programs1 /\ ~ Ended(p) /\ k \in Nat BY <1>1
  <2>2. Enters(p, q, k, t)
    <3> HIDE DEF k
    <3> QED BY <1>3, <1>4, <2>1, EnteredIs
  <2> QED BY <2>2 DEF Enters
<1>6. OwnerAfter(p, o) = o /\ LastAfter(p, l) = l BY NoneSet
<1> DEFINE s == -20 * (D - 1)
<1>7. s \in Int /\ s - 20 = -20 * D BY <1>2
<1>8. /\ IsMachine(e) /\ e.pc = <<t, 1>> /\ e.array = c.array /\ e.typed = c.typed
      /\ e.screen = c.screen /\ e.regs["sp"] = s - 20 /\ e.regs["ra"] = <<k, 8 + m>>
      /\ e.regs["s0"] = c.regs["s0"]
      /\ \A i \in 1..5 : Peek(e.stack, (s - 20) + 4 * (i - 1)) = c.regs[E!Saved[i]]
      /\ \A w \in Int : w >= s => Peek(e.stack, w) = Peek(c.stack, w)
      /\ \A i \in 1..m : i <= 4 =>
           e.regs[E!ArgumentRegister(i - 1)] = Peek(c.array, Slot(Source[k - i].op1))
  BY <1>1 DEF Called1
<1> HIDE DEF s
<1>9. \A d \in 1..D : FrameKept(c, p, o, d) BY <1>1 DEF Runs
<1>10. ASSUME NEW d \in 1..D PROVE Back(q, d) = Back(p, d)
  <2>1. q.frames[d] = p.frames[d] BY <1>5
  <2> QED BY <2>1 DEF Back
<1>11. ASSUME NEW d \in 1..D
       PROVE  /\ At1(q, d) = At1(p, d) /\ At1(p, d) \in 1..Len(Source)
              /\ \A r \in 1..4 : Kept1(e, q, d, r) = Kept1(c, p, d, r)
              /\ Peek(e.stack, -20 * d) = Back(p, d)
  <2>0. d \in Int /\ d # D + 1 BY <1>2
  <2>1. CASE d = D
    <3>1. At1(q, d) = k /\ At1(p, d) = k
      <4>1. At1(q, d) = q.frames[D + 1].back BY <1>5, <2>0, <2>1 DEF At1
      <4> QED BY <1>5, <2>1, <4>1 DEF At1
    <3>2. ASSUME NEW r \in 1..4 PROVE Kept1(e, q, d, r) = Kept1(c, p, d, r)
      <4>1. Kept1(e, q, d, r) = Peek(e.stack, -20 * d + 4 * r) BY <1>5, <2>0 DEF Kept1
      <4>2. E!Saved[r + 1] = E!ArgumentRegister(r - 1) /\ r + 1 \in 1..5 BY SavedAre
      <4>3. (s - 20) + 4 * ((r + 1) - 1) = -20 * d + 4 * r BY <1>2, <1>7, <2>1
      <4>4. Peek(e.stack, (s - 20) + 4 * ((r + 1) - 1)) = c.regs[E!Saved[r + 1]] BY <1>8, <4>2
      <4>5. Kept1(c, p, d, r) = c.regs[E!ArgumentRegister(r - 1)] BY <2>1 DEF Kept1
      <4> QED BY <4>1, <4>2, <4>3, <4>4, <4>5
    <3>3. Peek(e.stack, -20 * d) = Back(p, d)
      <4>1. Peek(e.stack, (s - 20) + 4 * (1 - 1)) = c.regs[E!Saved[1]] BY <1>8
      <4>2. (s - 20) + 4 * (1 - 1) = -20 * d BY <1>2, <1>7, <2>1
      <4>3. c.regs["ra"] = Back(p, D) BY <1>1 DEF Runs
      <4> QED BY <2>1, <4>1, <4>2, <4>3, SavedAre
    <3> QED BY <1>1, <3>1, <3>2, <3>3
  <2>2. CASE d # D
    <3>0. d + 1 \in 1..D /\ d + 1 > 1 /\ d < D /\ d <= D - 1 BY <1>2, <2>2
    <3>1. At1(p, d) = p.frames[d + 1].back BY <2>2 DEF At1
    <3>2. At1(q, d) = p.frames[d + 1].back
      <4>1. At1(q, d) = q.frames[d + 1].back BY <1>5, <2>0 DEF At1
      <4> QED BY <1>5, <3>0, <4>1
    <3>3. FrameKept(c, p, o, d + 1) /\ FrameKept(c, p, o, d) BY <1>9, <3>0
    <3>4. CalledAt(p.frames[d + 1].back) BY <3>0, <3>3 DEF FrameKept
    <3>5. p.frames[d + 1].back \in 1..Len(Source) BY <1>1, <3>4 DEF CalledAt
    <3>6. ASSUME NEW r \in 1..4 PROVE Kept1(e, q, d, r) = Kept1(c, p, d, r)
      <4>1. -20 * d + 4 * r \in Int /\ -20 * d + 4 * r >= s BY <1>2, <3>0 DEF s
      <4>2. Peek(e.stack, -20 * d + 4 * r) = Peek(c.stack, -20 * d + 4 * r) BY <1>8, <4>1
      <4> QED BY <1>5, <2>0, <2>2, <4>2 DEF Kept1
    <3>7. Peek(e.stack, -20 * d) = Back(p, d)
      <4>1. -20 * d \in Int /\ -20 * d >= s BY <1>2, <3>0 DEF s
      <4>2. Peek(c.stack, -20 * d) = Back(p, d) BY <3>0, <3>3 DEF FrameKept
      <4> QED BY <1>8, <4>1, <4>2
    <3> QED BY <3>1, <3>2, <3>5, <3>6, <3>7
  <2> QED BY <2>1, <2>2
<1>12. ASSUME NEW d \in 1..D PROVE FrameKept(e, q, o, d)
  <2>1. FrameKept(c, p, o, d) /\ q.frames[d] = p.frames[d] BY <1>5, <1>9
  <2>2. ASSUME NEW n \in DOMAIN p.frames[d].env PROVE VariableKept(e, q, o, d, n)
    <3>1. VariableKept(c, p, o, d, n) BY <2>1 DEF FrameKept
    <3>2. Onward(At1(p, d), At1(q, d)) BY <1>11, OnwardHere
    <3>3. Stays(c, p, o, e, q, o, d, n) BY <1>8, <1>11, <2>1, <3>2 DEF Stays
    <3> QED BY <1>1, <3>1, <3>3, VariableStays
  <2>3. d > 1 => CalledAt(q.frames[d].back) BY <2>1 DEF FrameKept
  <2>4. Peek(e.stack, -20 * d) = Back(q, d) BY <1>10, <1>11
  <2> QED BY <2>1, <2>2, <2>3, <2>4 DEF FrameKept
<1>13. FrameKept(e, q, o, D + 1)
  <2>1. ~ D + 1 < Depth(q) BY <1>2, <1>5
  <2> QED BY <1>5, <2>1 DEF FrameKept
<1>14. \A d \in 1..D + 1 : FrameKept(e, q, o, d)
  <2>1. \A d \in 1..D + 1 : d \in 1..D \/ d = D + 1 BY <1>2
  <2> QED BY <1>12, <1>13, <2>1
<1>15. e.regs["ra"] = Back(q, D + 1)
  <2>1. D + 1 # 1 BY <1>2
  <2>2. Back(q, D + 1) = <<k, Len(code[k]) - 7>> BY <1>5, <2>1 DEF Back
  <2>3. Len(code[k]) - 7 = 8 + m BY DEF Passed
  <2> QED BY <1>8, <2>2, <2>3
<1>16. e.regs["sp"] = -20 * (Depth(q) - 1) BY <1>2, <1>5, <1>7, <1>8
<1>17. ArgumentsKept(e, q)
  <2>1. CASE p.args = <<>> BY <1>5, <2>1 DEF ArgumentsKept
  <2>2. CASE p.args # <<>>
    <3>1. \A i \in 1..m : p.args[i] = Peek(c.array, Slot(Source[k - i].op1))
      BY <1>1 DEF Runs, ArgumentsKept
    <3>2. m \in Nat BY <1>1, ProgramParts
    <3>3. ASSUME NEW i \in 1..m, 0 + i <= 4
          PROVE  e.regs[E!ArgumentRegister(0 + i - 1)] = q.args[i]
      <4>1. i <= 4 /\ 0 + i - 1 = i - 1 BY <3>2, <3>3
      <4>2. e.regs[E!ArgumentRegister(i - 1)] = p.args[i] BY <1>8, <3>1, <4>1
      <4> QED BY <1>5, <4>1, <4>2
    <3>4. Pending(e, q, t, 0) BY <1>5, <3>3 DEF Pending
    <3>5. t \in 0..Len(Source) /\ 0 \in 0..Len(Source) BY <1>1
    <3> QED BY <1>5, <3>4, <3>5 DEF ArgumentsKept
  <2> QED BY <2>1, <2>2
<1>18. LastKept(e, l) BY <1>1, <1>8 DEF Runs, LastKept
<1>19. Runs(e, q, o, l)
  BY <1>5, <1>8, <1>14, <1>15, <1>16, <1>17, <1>18 DEF Runs
<1>20. Follows(e, q, o, l) BY <1>1, <1>5, <1>8, <1>19 DEF Follows
<1> QED BY <1>6, <1>20 DEF Landed, q

LEMMA PassesOne ==
  ASSUME NEW k \in Nat, NEW m, NEW n, Passes(k, m), Passes(k, n)
  PROVE  m = n
<1>1. /\ m \in 0..k - 1 /\ n \in 0..k - 1 /\ m \in Int /\ n \in Int BY DEF Passes
<1>2. CASE m < n
  <2>1. m < k - 1 /\ k - m - 1 \in k - n..k - 1 BY <1>1, <1>2
  <2> QED BY <2>1 DEF Passes
<1>3. CASE n < m
  <2>1. n < k - 1 /\ k - n - 1 \in k - m..k - 1 BY <1>1, <1>3
  <2> QED BY <2>1 DEF Passes
<1> QED BY <1>1, <1>2, <1>3

LEMMA CallReaches ==
  ASSUME NEW c, NEW p, NEW o, NEW l, Begins(c, p, o, l), Source[p.ip].kind = "CALL"
  PROVE  Reaches(c, p, o, l)
<1> DEFINE k == p.ip m == Len(p.args) n == Source[k].op1
<1>1. /\ IsMachine(c) /\ c.pc = <<k, 1>> /\ p \in Programs1 /\ ~ Ended(p) /\ Solid
      /\ Len(Source) \in Nat /\ k \in 1..Len(Source) /\ k \in Nat /\ Runs(c, p, o, l)
      /\ Form(linklist, k, code[k]) /\ c.regs["sp"] \in Int
  BY BeginsAt DEF Begins
<1>2. /\ k # Len(Source) /\ Source[k + 1].kind # "FUNCTION" /\ Fits(k)
      /\ ~ IsParameter(Defined(Source[k])) /\ Defined(Source[k]) = Source[k].result
  BY <1>1 DEF Begins, Departs1, Defined
<1>3. Passes(k, m) /\ m \in Nat BY <1>1, ProgramParts DEF Runs, ArgumentsKept
<1>4. PICK t \in 1..Len(Source), x \in 0..k - 1 :
        Source[t].kind = "FUNCTION" /\ Source[t].op1 = n /\ Takes(t, x) /\ Passes(k, x)
  BY <1>2 DEF Fits
<1>5. Takes(t, m) BY <1>1, <1>3, <1>4, PassesOne
<1>6. CalledAt(k)
  <2>1. k \in 1..Len(Source) - 1 BY <1>1, <1>2
  <2> QED BY <1>2, <1>3, <2>1 DEF CalledAt
<1>7. Passed(k, m)
  <2>1. CallForm(linklist, k, code[k]) BY <1>1 DEF Form
  <2> QED BY <1>3, <2>1 DEF CallForm, Passed, Slot
<1>8. n \notin {"read", "write"} BY <1>1, <1>4 DEF Solid, Compiled
<1>9. Address(code, n) = <<t, 1>> /\ Entry(Source, n) = t BY <1>1, <1>4, PlaceOf
<1> HIDE DEF m
<1>10. ASSUME NEW e, Called1(c, e, k, m, <<t, 1>>) PROVE Landed(e, p, o, l)
  BY <1>4, <1>5, <1>6, <1>7, <1>9, <1>10, CallLands DEF m
<1> QED BY <1>1, <1>7, <1>8, <1>9, <1>10, CallLeads

-----------------------------------------------------------------------------
(* The invariant.                                                          *)

(* Whatever instruction the program has come to, its code does it.         *)
LEMMA BeginsReaches ==
  ASSUME NEW c, NEW p, NEW o, NEW l, Begins(c, p, o, l)
  PROVE  Reaches(c, p, o, l)
<1> DEFINE ins == Source[p.ip]
<1>1. ins.kind \in Kinds BY BeginsAt, OperandNames
<1>2. ins.kind \notin {"ARRAY_OFFSET", "GET_VALUE_IN_ADDRESS", "ASSIGN_VALUE_IN_ADDRESS"}
  BY DEF Begins, Departs1
<1>3. CASE ins.kind \in {"LABEL", "DEC", "FUNCTION"} BY <1>3, PlainReaches
<1>4. CASE ins.kind = "CONSTANT" BY <1>4, ConstantReaches
<1>5. CASE ins.kind = "ASSIGN" BY <1>5, AssignReaches
<1>6. CASE ins.kind = "BINARY" BY <1>6, BinaryReaches
<1>7. CASE ins.kind = "MINUS" BY <1>7, MinusReaches
<1>8. CASE ins.kind = "GOTO" BY <1>8, GotoReaches
<1>9. CASE ins.kind = "IF_GOTO" BY <1>9, BranchReaches
<1>10. CASE ins.kind = "RETURN" BY <1>10, ReturnReaches
<1>11. CASE ins.kind = "CALL" BY <1>11, CallReaches
<1>12. CASE ins.kind = "ARG" BY <1>12, ArgReaches
<1>13. CASE ins.kind = "PARAM" BY <1>13, ParamReaches
<1>14. CASE ins.kind = "READ" BY <1>14, ReadReaches
<1>15. CASE ins.kind = "WRITE" BY <1>15, WriteReaches
<1> QED
  BY <1>1, <1>2, <1>3, <1>4, <1>5, <1>6, <1>7, <1>8, <1>9, <1>10, <1>11, <1>12, <1>13,
     <1>14, <1>15 DEF Kinds

(* The two begin together.                                                 *)
LEMMA StartFollows ==
  ASSUME Solid,
         \E i \in 1..Len(Source) : Source[i].kind = "FUNCTION" /\ Source[i].op1 = "main"
  PROVE  Follows(PoweredOn(E!Registers, Address(code, "main")), Started(Source),
                 [n \in Names |-> 0], NoName)
<1> DEFINE c == PoweredOn(E!Registers, Address(code, "main")) p == Started(Source)
           o == [n \in Names |-> 0] f == <<Activation(0)>>
<1>1. PICK t \in 1..Len(Source) : Source[t].kind = "FUNCTION" /\ Source[t].op1 = "main"
  OBVIOUS
<1>2. Address(code, "main") = <<t, 1>> /\ Entry(Source, "main") = t BY <1>1, PlaceOf
<1>3. Len(Source) \in Nat /\ t \in Nat BY DEF Solid
<1>4. Input \in Seq(Int) /\ Typed = Input BY RunAssumption
<1>5. /\ IsMachine(c) /\ c.pc = <<t, 1>> /\ c.regs["sp"] = 0 /\ c.regs["ra"] = Nowhere
      /\ c.typed = Typed /\ c.screen = <<>>
  <2>1. /\ DOMAIN c = Fields /\ c.pc = <<t, 1>> /\ c.typed = Typed /\ c.screen = <<>>
        /\ c.regs = [r \in E!Registers |-> IF r = "ra" THEN Nowhere ELSE 0]
        /\ c.trapped = FALSE
    BY <1>2 DEF PoweredOn, Fields
  <2>2. "sp" \in E!Registers /\ "ra" \in E!Registers BY DEF E!Registers
  <2> QED BY <2>1, <2>2 DEF IsMachine
<1>6. /\ f \in Seq(Frames) /\ Len(f) = 1 /\ f[1].back = 0 /\ DOMAIN f[1].env = {}
  <2> DEFINE e == <<>> a == Activation(0)
  <2>1. DOMAIN e = {} OBVIOUS
  <2>2. e \in [{} -> Int]
    <3>1. e = [x \in {} |-> 0] OBVIOUS
    <3> QED BY <3>1
  <2>3. {} \in SUBSET Names OBVIOUS
  <2> HIDE DEF e
  <2>4. e \in Envs BY <2>2, <2>3 DEF Envs
  <2>5. a = [env |-> e, back |-> 0] BY DEF Activation, e
  <2>6. a \in Frames /\ a.back = 0 /\ DOMAIN a.env = {} BY <2>1, <2>4, <2>5 DEF Frames
  <2> HIDE DEF a
  <2>7. f = <<a>> BY DEF a
  <2> QED BY <2>6, <2>7
<1> DEFINE S == Seq(Frames) I == Seq(Int)
<1>7. p = [ip |-> t, frames |-> f, args |-> <<>>, input |-> Input, out |-> <<>>, result |-> 0]
  BY <1>2 DEF Started
<1>8. <<>> \in I /\ f \in S /\ Input \in I BY <1>4, <1>6
<1> HIDE DEF c, f, S, I
<1>9. /\ p \in [ip: Nat, frames: S, args: I, input: I, out: I, result: Int]
      /\ p.ip = t /\ p.frames = f /\ p.args = <<>> /\ p.input = Input /\ p.out = <<>>
  BY <1>3, <1>7, <1>8
<1> HIDE DEF p
<1>10. p \in Programs1 BY <1>9 DEF Programs1, S, I
<1>11. Depth(p) = 1 /\ ~ Ended(p)
  <2>1. Depth(p) = 1 BY <1>6, <1>9 DEF Depth
  <2>2. 1 # 0 OBVIOUS
  <2> QED BY <2>1, <2>2 DEF Ended
<1>12. FrameKept(c, p, o, 1) BY <1>6, <1>9, <1>11 DEF FrameKept
<1>13. ArgumentsKept(c, p) BY <1>1, <1>9 DEF ArgumentsKept
<1>14. LastKept(c, NoName) BY DEF LastKept
<1>15. Back(p, 1) = Nowhere BY DEF Back
<1>16. Runs(c, p, o, NoName)
  <2>1. \A d \in 1..1 : d = 1 OBVIOUS
  <2>2. -20 * (1 - 1) = 0
    <3>1. \A z \in Int : z = 1 => -20 * (z - 1) <= 0 /\ -20 * (z - 1) >= 0 OBVIOUS
    <3>2. \A z \in Int : -z <= 0 /\ -z >= 0 => -z = 0 OBVIOUS
    <3>3. 1 \in Int /\ 20 * (1 - 1) \in Int OBVIOUS
    <3> QED BY <3>1, <3>2, <3>3
  <2> QED BY <1>5, <1>9, <1>11, <1>12, <1>13, <1>14, <1>15, <2>1, <2>2 DEF Runs
<1>17. DOMAIN o = Names OBVIOUS
<1>18. Follows(c, p, o, NoName)
  BY <1>4, <1>5, <1>9, <1>10, <1>11, <1>16, <1>17 DEF Follows
<1> QED BY <1>18 DEF c, p

(* The code and the program stay: so does what is said of them.            *)
Fixed == source' = source /\ UNCHANGED emitter

LEMMA FixedParts ==
  ASSUME Fixed
  PROVE  Source' = Source /\ code' = code /\ linklist' = linklist
BY DEF Fixed, Source, emitter

LEMMA KeptStays ==
  ASSUME Fixed, NEW c, NEW p, NEW o, NEW d, NEW n
  PROVE  VariableKept(c, p, o, d, n)' <=> VariableKept(c, p, o, d, n)
<1>1. Source' = Source /\ code' = code /\ linklist' = linklist BY FixedParts
<1>2. ParameterKept(c, p, d, n)' <=> ParameterKept(c, p, d, n)
  BY <1>1 DEF ParameterKept, IsPlace, Kept1, At1, Depth
<1> QED BY <1>1, <1>2 DEF VariableKept, IsSet, IsParameter, Slot, SlotIn

LEMMA FrameStays ==
  ASSUME Fixed, NEW c, NEW p, NEW o, NEW d
  PROVE  FrameKept(c, p, o, d)' <=> FrameKept(c, p, o, d)
<1>1. Source' = Source /\ code' = code /\ linklist' = linklist BY FixedParts
<1>2. \A n : VariableKept(c, p, o, d, n)' <=> VariableKept(c, p, o, d, n) BY KeptStays
<1>3. \A b : CalledAt(b)' <=> CalledAt(b) BY <1>1 DEF CalledAt, Passes, IsParameter
<1>4. Back(p, d)' = Back(p, d) BY <1>1 DEF Back
<1> QED BY <1>2, <1>3, <1>4 DEF FrameKept, Depth

LEMMA FollowsStays ==
  ASSUME Fixed, NEW c, NEW p, NEW o, NEW l
  PROVE  Follows(c, p, o, l)' <=> Follows(c, p, o, l)
<1>1. Source' = Source /\ code' = code /\ linklist' = linklist BY FixedParts
<1>2. \A d : FrameKept(c, p, o, d)' <=> FrameKept(c, p, o, d) BY FrameStays
<1>3. ArgumentsKept(c, p)' <=> ArgumentsKept(c, p)
  BY <1>1 DEF ArgumentsKept, Pending, IsPlace, Takes, Passes, Slot, SlotIn
<1>4. LastKept(c, l)' <=> LastKept(c, l) BY <1>1 DEF LastKept, IsParameter, Slot, SlotIn
<1>5. Back(p, Depth(p))' = Back(p, Depth(p)) BY <1>1 DEF Back, Depth
<1>6. Runs(c, p, o, l)' <=> Runs(c, p, o, l)
  BY <1>1, <1>2, <1>3, <1>4, <1>5 DEF Runs, Depth
<1> QED BY <1>6 DEF Follows, Ended, Depth

LEMMA DepartsStays ==
  ASSUME Fixed, NEW p, NEW o, NEW l
  PROVE  Departs1(p, o, l)' <=> Departs1(p, o, l)
BY FixedParts DEF Departs1, Overflows, IsParameter, IsPlace, Fits, Takes, Passes, Env, Depth

LEMMA ReachesStays ==
  ASSUME Fixed, NEW c, NEW p, NEW o, NEW l
  PROVE  Reaches(c, p, o, l)' <=> Reaches(c, p, o, l)
<1>1. Source' = Source /\ code' = code /\ linklist' = linklist BY FixedParts
<1>2. \A q, x, y, e : Follows(e, q, x, y)' <=> Follows(e, q, x, y) BY FollowsStays
<1>3. OwnerAfter(p, o)' = OwnerAfter(p, o) /\ LastAfter(p, l)' = LastAfter(p, l)
  BY <1>1 DEF OwnerAfter, LastAfter, SetBy, Depth
<1>4. \A d : Exec(d)' = Exec(d) BY <1>1 DEF Exec
<1>5. Perform(Source, p)' = Perform(Source, p) BY <1>1
<1>6. \A e : Landed(e, p, o, l)' <=> Landed(e, p, o, l) BY <1>2, <1>3, <1>5 DEF Landed
<1>7. \A S : Leads(S, p, o, l)' <=> Leads(S, p, o, l) BY <1>4, <1>6 DEF Leads
<1> QED BY <1>7 DEF Reaches

(* The processor between two instructions of the program, or in the code   *)
(* of one: then the end of it is ahead, unless the program departs there.  *)
InStep(c, p, o, l) ==
  /\ ~ c.trapped
  /\ IF c.pc[2] = 1 THEN Follows(c, p, o, l)
     ELSE ~ Ended(p) /\ (Departs1(p, o, l) \/ Reaches(c, p, o, l))

LEMMA InStepStays ==
  ASSUME Fixed, NEW c, NEW p, NEW o, NEW l
  PROVE  InStep(c, p, o, l)' <=> InStep(c, p, o, l)
<1>1. Follows(c, p, o, l)' <=> Follows(c, p, o, l) BY FollowsStays
<1>2. Departs1(p, o, l)' <=> Departs1(p, o, l) BY DepartsStays
<1>3. Reaches(c, p, o, l)' <=> Reaches(c, p, o, l) BY ReachesStays
<1>4. Ended(p)' <=> Ended(p) BY DEF Ended, Depth
<1> QED BY <1>1, <1>2, <1>3, <1>4 DEF InStep

(* While the processor has not come to an end, it is followed.             *)
LEMMA StepLeads ==
  ASSUME Solid, NEW c, NEW p, NEW o, NEW l, InStep(c, p, o, l), ~ Halted(c)
  PROVE  /\ ~ Ended(p)
         /\ \/ Departs1(p, o, l)
            \/ /\ ~ Exec(c).trapped
               /\ IF Exec(c).pc[2] = 1 THEN Landed(Exec(c), p, o, l)
                  ELSE Reaches(Exec(c), p, o, l)
<1>1. ~ Ended(p) BY DEF InStep, Follows
<1>2. Departs1(p, o, l) \/ Reaches(c, p, o, l)
  <2>1. CASE c.pc[2] = 1
    <3>1. Follows(c, p, o, l) BY <2>1 DEF InStep
    <3>2. CASE ~ Departs1(p, o, l) BY <1>1, <3>1, <3>2, BeginsReaches DEF Begins
    <3> QED BY <3>2
  <2>2. CASE c.pc[2] # 1 BY <2>2 DEF InStep
  <2> QED BY <2>1, <2>2
<1>3. CASE Reaches(c, p, o, l)
  <2>1. PICK S : c \in S /\ Leads(S, p, o, l) BY <1>3 DEF Reaches
  <2>2. IF Exec(c).pc[2] = 1 THEN Landed(Exec(c), p, o, l) ELSE Exec(c) \in S
    BY <2>1 DEF Leads
  <2>3. Exec(c).pc[2] # 1 => Reaches(Exec(c), p, o, l) BY <2>1, <2>2 DEF Reaches
  <2>4. IsMachine(Exec(c)) BY <2>1, <2>2 DEF Leads, Landed, Follows
  <2>5. ~ Exec(c).trapped BY <2>4 DEF IsMachine
  <2> QED BY <1>1, <2>2, <2>3, <2>5
<1> QED BY <1>1, <1>2, <1>3

LEMMA ExecuteFollows ==
  ASSUME Solid, Execute, InStep(processor, program, owner, last), ~ departed'
  PROVE  InStep(processor', program', owner', last')
<1> DEFINE c == processor p == program o == owner l == last e == Exec(processor)
<1>1. ~ Halted(c) /\ processor' = e BY DEF Execute, Exec
<1>2. /\ ~ Ended(p)
      /\ \/ Departs1(p, o, l)
         \/ /\ ~ e.trapped
            /\ IF e.pc[2] = 1 THEN Landed(e, p, o, l) ELSE Reaches(e, p, o, l)
  BY <1>1, StepLeads
<1>3. CASE e.pc[2] = 1 \/ e.trapped
  <2>1. Performs BY <1>1, <1>2, <1>3 DEF Execute
  <2>2. ~ Departs(Source[p.ip]) BY <2>1 DEF Performs
  <2>3. ~ Departs1(p, o, l) BY <2>2, DepartsIs
  <2>4. e.pc[2] = 1 /\ ~ e.trapped /\ Landed(e, p, o, l) BY <1>2, <1>3, <2>3
  <2>5. /\ program' = Perform(Source, p) /\ owner' = OwnerAfter(p, o)
        /\ last' = LastAfter(p, l)
    BY <2>1, <2>2, SetByIs DEF Performs, OwnerAfter, LastAfter
  <2>6. Follows(processor', program', owner', last') BY <1>1, <2>4, <2>5 DEF Landed
  <2>7. processor'.pc[2] = 1 /\ ~ processor'.trapped BY <1>1, <2>4
  <2> QED BY <2>6, <2>7 DEF InStep
<1>4. CASE ~ (e.pc[2] = 1 \/ e.trapped)
  <2>1. program' = p /\ owner' = o /\ last' = l BY <1>1, <1>4 DEF Execute
  <2>2. Departs1(p, o, l) \/ Reaches(e, p, o, l) BY <1>2, <1>4
  <2>3. ~ e.trapped BY <1>4
  <2> HIDE DEF e
  <2>4. InStep(e, p, o, l) BY <1>2, <1>4, <2>2, <2>3 DEF InStep
  <2> QED BY <1>1, <2>1, <2>4
<1> QED BY <1>3, <1>4

RunInv ==
  /\ CodeInv
  /\ phase # "run" => owner = [n \in Names |-> 0] /\ last = NoName
  /\ phase = "run" /\ Regular /\ ~ departed => InStep(processor, program, owner, last)

LEMMA RunInit == BInit => RunInv
<1> SUFFICES ASSUME BInit PROVE RunInv
  OBVIOUS
<1>1. CodeInv BY CodeInit
<1>2. phase = "read" BY DEF BInit, Init
<1> QED BY <1>1, <1>2 DEF BInit, RunInv

LEMMA RunInvStep == RunInv /\ [Next]_all => RunInv'
<1> SUFFICES ASSUME RunInv, [Next]_all PROVE RunInv'
  OBVIOUS
<1>0. CodeInv /\ CodeInv' BY CodeStep DEF RunInv
<1>1. CASE Read1 \/ Emit1
  <2>1. UNCHANGED run BY <1>1 DEF Read1, Emit1
  <2>2. phase # "run" /\ phase' # "run"
    <3>1. CASE Read1
      <4>1. phase = "read"
        BY <3>1 DEF Read1, ReadNext, ReadOne, ReadTwo, ReadThree, ReadCall, ReadBinary,
                    ReadIf, Reads, EndOfFile
      <4>2. phase' \in {"read", "crashed", "emit"}
        BY <1>0, <3>1, <4>1, ReadingIsTyped, TypeStep DEF TypeOK, Read1, CodeInv
      <4> QED BY <4>1, <4>2
    <3>2. CASE Emit1
      <4>1. E!Next /\ source' = source BY <3>2 DEF Emit1
      <4>2. phase = "emit" /\ phase' \in {"emit", "aborted", "done"}
        BY <1>0, <4>1, EmitForms DEF CodeInv, BackEndInv, Reading
      <4> QED BY <4>2
    <3> QED BY <1>1, <3>1, <3>2
  <2> QED BY <1>0, <2>1, <2>2 DEF RunInv, run
<1>2. CASE Start
  <2>1. phase = "done" /\ phase' = "run" /\ Fixed /\ UNCHANGED <<owner, last>>
    BY <1>2 DEF Start, Fixed
  <2>2. ASSUME Regular' PROVE InStep(processor, program, owner, last)'
    <3>1. Regular BY <2>1, <2>2, RegularStays DEF Fixed
    <3>2. Solid BY <1>0, <2>1, <3>1, RunningIsSolid
    <3>3. owner' = [n \in Names |-> 0] /\ last' = NoName BY <2>1 DEF RunInv
    <3>4. /\ processor' = PoweredOn(E!Registers, Address(code, "main"))
          /\ program' = Started(Source)
      BY <1>2 DEF Start
    <3>5. Follows(processor', program', owner', last')
      BY <1>2, <3>2, <3>3, <3>4, StartFollows DEF Start
    <3>6. processor'.pc[2] = 1 /\ ~ processor'.trapped BY <3>4 DEF PoweredOn, Address
    <3>7. InStep(processor', program', owner', last') BY <3>5, <3>6 DEF InStep
    <3>8. \A c, p, o, l : InStep(c, p, o, l)' <=> InStep(c, p, o, l) BY <2>1, InStepStays
    <3> QED BY <3>7, <3>8
  <2> QED BY <1>0, <2>1, <2>2 DEF RunInv
<1>3. CASE Execute
  <2>1. phase = "run" /\ phase' = "run" /\ Fixed /\ ~ departed
    BY <1>3 DEF Execute, Fixed, vars
  <2>2. ASSUME Regular', ~ departed' PROVE InStep(processor, program, owner, last)'
    <3>1. Regular BY <2>1, <2>2, RegularStays DEF Fixed
    <3>2. Solid BY <1>0, <2>1, <3>1, RunningIsSolid
    <3>3. InStep(processor, program, owner, last) BY <2>1, <3>1 DEF RunInv
    <3>4. InStep(processor', program', owner', last') BY <1>3, <2>2, <3>2, <3>3, ExecuteFollows
    <3>5. \A c, p, o, l : InStep(c, p, o, l)' <=> InStep(c, p, o, l) BY <2>1, InStepStays
    <3> QED BY <3>4, <3>5
  <2> QED BY <1>0, <2>1, <2>2 DEF RunInv
<1>4. CASE UNCHANGED all
  <2>1. /\ phase' = phase /\ Fixed /\ processor' = processor /\ program' = program
        /\ owner' = owner /\ last' = last /\ departed' = departed
    BY <1>4 DEF all, vars, run, Fixed
  <2>2. Regular' <=> Regular BY <2>1, RegularStays DEF Fixed
  <2>3. \A c, p, o, l : InStep(c, p, o, l)' <=> InStep(c, p, o, l) BY <2>1, InStepStays
  <2>4. InStep(processor, program, owner, last)' <=> InStep(processor, program, owner, last)
    BY <2>1, <2>3
  <2> QED BY <1>0, <2>1, <2>2, <2>4 DEF RunInv
<1> QED BY <1>1, <1>2, <1>3, <1>4 DEF Next

(* The invariant says what the runs check.                                 *)
LEMMA InvFollows == RunInv => FollowsProgram
<1>0. ASSUME RunInv PROVE phase = "run" /\ Regular /\ processor.trapped => departed
  BY <1>0 DEF RunInv, InStep
<1> SUFFICES ASSUME RunInv, Between PROVE FollowsProgram
  BY <1>0 DEF FollowsProgram
<1> DEFINE c == processor p == program
<1>1. Follows(c, p, owner, last) BY DEF Between, RunInv, InStep
<1>2. c.screen = p.out /\ c.typed = p.input BY <1>1 DEF Follows
<1>3. CASE Ended(p)
  <2>1. Halted(c) /\ c.regs["v0"] = p.result BY <1>1, <1>3 DEF Follows
  <2> QED BY <1>0, <1>2, <1>3, <2>1 DEF FollowsProgram
<1>4. CASE ~ Ended(p)
  <2>1. Runs(c, p, owner, last) BY <1>1, <1>4 DEF Follows
  <2>2. c.pc = <<p.ip, 1>> /\ c.regs["sp"] = -20 * (Depth(p) - 1) BY <2>1 DEF Runs
  <2> QED BY <1>0, <1>2, <1>4, <2>2 DEF FollowsProgram
<1> QED BY <1>3, <1>4

LEMMA InvKeeps == RunInv => VariablesAreKept
<1> SUFFICES ASSUME RunInv, Between,
                    NEW d \in 1..Depth(program), NEW n \in DOMAIN program.frames[d].env,
                    IsParameter(n) \/ owner[n] = d
             PROVE  Holds1(d, n)
  BY DEF VariablesAreKept
<1> DEFINE c == processor p == program o == owner l == last
<1>1. Follows(c, p, o, l) BY DEF Between, RunInv, InStep
<1>2. ~ Ended(p)
  <2>1. Depth(p) \in Nat BY <1>1 DEF Follows, Programs1, Depth
  <2>2. Depth(p) # 0 BY <2>1
  <2> QED BY <2>2 DEF Ended
<1>3. VariableKept(c, p, o, d, n) BY <1>1, <1>2 DEF Follows, Runs, FrameKept
<1>4. phase = "run" /\ Regular /\ CodeInv BY DEF Between, RunInv
<1>5. Solid BY <1>4, RunningIsSolid
<1>6. CASE IsParameter(n)
  <2>1. PICK j \in 1..Len(Source), q \in 1..4 :
          /\ Source[j].kind = "PARAM" /\ Source[j].op1 = n /\ IsPlace(j, q)
          /\ Kept1(c, p, d, q) = p.frames[d].env[n]
    BY <1>3, <1>6 DEF VariableKept, ParameterKept
  <2>2. ASSUME NEW i \in 1..Len(Source), NEW r \in 1..4,
               Source[i].kind = "PARAM", Source[i].op1 = n, IsPlace(i, r)
        PROVE  InParameter(d, r) = p.frames[d].env[n]
    <3>1. Compiled(Source) /\ Len(Source) \in Nat BY <1>5 DEF Solid
    <3>2. i = j BY <2>1, <2>2, <3>1 DEF Compiled
    <3>3. r = q BY <2>1, <2>2, <3>1, <3>2, OnePlace
    <3>4. InParameter(d, r) = Kept1(c, p, d, q) BY <3>3 DEF InParameter, Kept1
    <3> QED BY <2>1, <3>4
  <2> QED BY <1>6, <2>2 DEF Holds1
<1>7. CASE ~ IsParameter(n)
  <2>1. Peek(c.array, Slot(n)) = p.frames[d].env[n] BY <1>3, <1>7 DEF VariableKept
  <2>2. InArray(n) = Peek(c.array, Slot(n)) BY DEF InArray, Slot, SlotIn
  <2> QED BY <1>7, <2>1, <2>2 DEF Holds1
<1> QED BY <1>6, <1>7

LEMMA RunInvariant == BSpec => []RunInv
BY RunInit, RunInvStep, PTL DEF BSpec

(* For every program the compiler can print whose names do not meet and    *)
(* that uses no array, whatever is typed in: as long as it does nothing of *)
(* what Departs lists, the processor is at the code of the instruction the *)
(* program has come to whenever it has done with another, with the calls   *)
(* nested as deep and the same printed and read; and when the program      *)
(* ends, the processor stops with its value in $v0 (mips32.c).             *)
THEOREM ProcessorFollows == BSpec => []FollowsProgram
BY RunInvariant, InvFollows, PTL

(* Nor is a value lost on the way: what an activation has set is in the    *)
(* word of array emit_assign and its like have stored it to, unless a      *)
(* later activation has set the same variable; a parameter is in the       *)
(* register it was passed in, or where emit_call has saved it on the       *)
(* stack; for every activation that has not returned.                      *)
THEOREM VariablesStayInPlace == BSpec => []VariablesAreKept
BY RunInvariant, InvKeeps, PTL

(* The return address of the running function is in $ra and that of every  *)
(* suspended one where its call has saved it: the eighth instruction from  *)
(* the end of a call's code is the one behind the jump; the first function *)
(* returns to where main was called from.                                  *)
ReturnsAreKept ==
  Between /\ ~ Ended(program) =>
    /\ processor.regs["ra"] = Back(program, Depth(program))
    /\ \A d \in 1..Depth(program) - 1 : Peek(processor.stack, -20 * d) = Back(program, d)

(* The words emit_call takes from the stack and gives back fit together:   *)
(* however deep calls are nested and whatever is called between, each      *)
(* function returns behind the call it was called by.                      *)
THEOREM FunctionsReturn == BSpec => []ReturnsAreKept
<1>1. RunInv => ReturnsAreKept
  <2> SUFFICES ASSUME RunInv, Between, ~ Ended(program) PROVE ReturnsAreKept
    BY DEF ReturnsAreKept
  <2>1. Follows(processor, program, owner, last) BY DEF Between, RunInv, InStep
  <2>2. Runs(processor, program, owner, last) /\ program \in Programs1 BY <2>1 DEF Follows
  <2>3. Depth(program) \in Nat BY <2>2, ProgramParts
  <2>4. ASSUME NEW d \in 1..Depth(program) - 1
        PROVE  Peek(processor.stack, -20 * d) = Back(program, d)
    <3>1. d \in 1..Depth(program) /\ d < Depth(program) BY <2>3
    <3>2. FrameKept(processor, program, owner, d) BY <2>2, <3>1 DEF Runs
    <3> QED BY <3>1, <3>2 DEF FrameKept
  <2>5. processor.regs["ra"] = Back(program, Depth(program)) BY <2>2 DEF Runs
  <2> QED BY <2>4, <2>5 DEF ReturnsAreKept
<1> QED BY <1>1, RunInvariant, PTL

=============================================================================
