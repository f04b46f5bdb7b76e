----------------------------- MODULE Activations -----------------------------
(***************************************************************************)
(* What a program of several functions means: every activation of a        *)
(* function has variables of its own.  The state of a run is a record; the *)
(* instructions are the compiler's.                                        *)
(***************************************************************************)
EXTENDS IR

CONSTANT Input  \* what READ reads, one after the other

Entry(code, f) == CHOOSE i \in 1..Len(code) : code[i].kind = "FUNCTION" /\ code[i].op1 = f

Target(code, label) == CHOOSE i \in 1..Len(code) : code[i].kind = "LABEL" /\ code[i].op1 = label

(* env has the names that are set; back is where the call is.              *)
Activation(back) == [env |-> <<>>, back |-> back]

(* The state before main.  ip is the instruction that comes next.          *)
Started(code) ==
  [ip |-> Entry(code, "main"), frames |-> <<Activation(0)>>, args |-> <<>>,
   input |-> Input, out |-> <<>>, result |-> 0]

Depth(p) == Len(p.frames)
Env(p) == p.frames[Depth(p)].env
Ended(p) == Depth(p) = 0

NextOf(input) == IF input = <<>> THEN 0 ELSE Head(input)
RestOf(input) == IF input = <<>> THEN <<>> ELSE Tail(input)

Bound(env, n, v) == [m \in DOMAIN env \cup {n} |-> IF m = n THEN v ELSE env[m]]

(* The topmost activation sets a name.                                     *)
SetName(p, n, v) ==
  [p EXCEPT !.frames[Depth(p)].env = Bound(@, n, v), !.ip = @ + 1]

Skip(p) == [p EXCEPT !.ip = @ + 1]

(* A value returns to the call, or ends the program.                       *)
Returned(code, p, v) ==
  LET call == p.frames[Depth(p)].back
      caller == [p EXCEPT !.frames = SubSeq(@, 1, Depth(p) - 1), !.ip = call]
  IN IF Depth(p) = 1 THEN [p EXCEPT !.frames = <<>>, !.result = v]
     ELSE SetName(caller, code[call].result, v)

(* One instruction.  The argument that is passed last is the first.        *)
Perform(code, p) ==
  LET ins == code[p.ip] x == Env(p)[ins.op1] y == Env(p)[ins.op2]
  IN CASE ins.kind = "CONSTANT" -> SetName(p, ins.op1, ins.value)
       [] ins.kind = "ASSIGN" -> SetName(p, ins.op1, y)
       [] ins.kind = "BINARY" -> SetName(p, ins.result, Apply(ins.relation, x, y))
       [] ins.kind = "MINUS" -> SetName(p, ins.result, Wrap(-x))
       [] ins.kind = "READ" ->
            [SetName(p, ins.op1, NextOf(p.input)) EXCEPT !.input = RestOf(@)]
       [] ins.kind = "WRITE" -> [Skip(p) EXCEPT !.out = Append(@, x)]
       [] ins.kind = "ARG" -> [Skip(p) EXCEPT !.args = <<x>> \o @]
       [] ins.kind = "PARAM" -> [SetName(p, ins.op1, Head(p.args)) EXCEPT !.args = Tail(@)]
       [] ins.kind = "CALL" ->
            [p EXCEPT !.frames = Append(@, Activation(p.ip)), !.ip = Entry(code, ins.op1)]
       [] ins.kind = "RETURN" -> Returned(code, p, x)
       [] ins.kind = "GOTO" -> [p EXCEPT !.ip = Target(code, ins.op1)]
       [] ins.kind = "IF_GOTO" ->
            IF Holds(ins.relation, x, y) THEN [p EXCEPT !.ip = Target(code, ins.result)]
            ELSE Skip(p)
       [] OTHER -> Skip(p)

=============================================================================
