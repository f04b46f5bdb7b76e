------------------------------ MODULE TacMachine ------------------------------
(***************************************************************************)
(* The machine three-address code is meant for: the values of all names, a *)
(* memory for the array, input and output.  A called function belongs to   *)
(* the outside: it answers with a number that depends on its arguments.    *)
(***************************************************************************)
EXTENDS IR

CONSTANTS
  Input         \* what READ reads, one after the other

(* The state of a run before its first instruction, which is at ip.  set   *)
(* are the names that have been assigned.                                  *)
Loaded(ip, env, mem) ==
  [ip |-> ip, env |-> env, mem |-> mem, args |-> <<>>, input |-> Input,
   out |-> <<>>, set |-> {}, halted |-> FALSE]

(* The answer tells arguments apart, and their order.                      *)
Answer(args) ==
  LET sum[i \in 0..Len(args)] ==
        IF i = 0 THEN 1 ELSE Wrap(sum[i - 1] + i * args[i])
  IN sum[Len(args)]

Next1(input) == IF input = <<>> THEN 0 ELSE Head(input)
Rest(input) == IF input = <<>> THEN <<>> ELSE Tail(input)

Operand(m, n) == IF n = ElementSize THEN Wrap(4) ELSE m.env[n]

Put(m, n, v) == [m EXCEPT !.env[n] = v, !.set = @ \cup {n}, !.ip = @ + 1]
Show(m, event) == [m EXCEPT !.out = Append(@, event), !.ip = @ + 1]
Goto(code, m, label) ==
  [m EXCEPT !.ip = CHOOSE i \in 1..Len(code) :
                     code[i].kind = "LABEL" /\ code[i].op1 = label]

(* One instruction.                                                        *)
Step(code, m) ==
  LET ins == code[m.ip]
      x == Operand(m, ins.op1)
      y == Operand(m, ins.op2)
  IN CASE ins.kind = "CONSTANT" -> Put(m, ins.op1, ins.value)
       [] ins.kind = "ASSIGN" -> Put(m, ins.op1, y)
       [] ins.kind = "BINARY" -> Put(m, ins.result, Apply(ins.relation, x, y))
       [] ins.kind = "MINUS" -> Put(m, ins.result, Wrap(-x))
       [] ins.kind = "ARRAY_OFFSET" -> Put(m, ins.result, y)
       [] ins.kind = "GET_VALUE_IN_ADDRESS" -> Put(m, ins.result, m.mem[x])
       [] ins.kind = "ASSIGN_VALUE_IN_ADDRESS" ->
            [m EXCEPT !.mem[m.env[ins.result]] = x, !.ip = @ + 1]
       [] ins.kind = "READ" ->
            [Put(m, ins.op1, Next1(m.input)) EXCEPT !.input = Rest(@)]
       [] ins.kind = "WRITE" -> Show(m, <<"WRITE", x>>)
       [] ins.kind = "ARG" -> [m EXCEPT !.args = <<x>> \o @, !.ip = @ + 1]
       [] ins.kind = "CALL" ->
            [Put(Show(m, <<"CALL", ins.op1, m.args>>), ins.result, Answer(m.args))
               EXCEPT !.args = <<>>, !.ip = m.ip + 1]
       [] ins.kind = "RETURN" -> [Show(m, <<"RETURN", x>>) EXCEPT !.halted = TRUE]
       [] ins.kind = "GOTO" -> Goto(code, m, ins.op1)
       [] ins.kind = "IF_GOTO" ->
            IF Holds(ins.relation, x, y) THEN Goto(code, m, ins.result)
            ELSE [m EXCEPT !.ip = @ + 1]
       [] OTHER -> [m EXCEPT !.ip = @ + 1]

=============================================================================
