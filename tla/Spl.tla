--------------------------------- MODULE Spl ---------------------------------
(***************************************************************************)
(* What an SPL program means, read from its syntax tree: the abstract      *)
(* specification of the translator.  Operands are evaluated from left to   *)
(* right, the right side of an assignment to an array element before the   *)
(* index, && and || as far as needed.                                      *)
(***************************************************************************)
EXTENDS TacMachine

CONSTANTS Fuel  \* iterations of loops until a run counts as endless

(* A SyntaxTreeNode, less the children that are only punctuation.          *)
Node(productionEnum, name, value, children) ==
  [productionEnum |-> productionEnum, name |-> name, value |-> value,
   children |-> children]

Logical == {"EXP_FROM_EXP_RELOP_EXP", "EXP_FROM_EXP_AND_EXP",
            "EXP_FROM_EXP_OR_EXP", "EXP_FROM_NOT_EXP"}
Assignments == {"EXP_FROM_EXP_ASSIGNOP_EXP", "DEC_FROM_VARDEC_ASSIGN_EXP"}

(* What a program has done so far.  val is the value of the expression     *)
(* evaluated last.                                                         *)
Begun(env, mem) ==
  [env |-> env, mem |-> mem, input |-> Input, out |-> <<>>, val |-> 0,
   fuel |-> Fuel, returned |-> FALSE]

Truth(b) == IF b THEN 1 ELSE 0

RECURSIVE Eval(_, _), EvalAll(_, _, _), Exec(_, _), ExecAll(_, _)

(* Values of the expressions es, appended to vals.                         *)
EvalAll(es, s, vals) ==
  IF es = <<>> THEN [s |-> s, vals |-> vals]
  ELSE LET t == Eval(Head(es), s) IN EvalAll(Tail(es), t, Append(vals, t.val))

Eval(e, s) ==
  LET child(i) == e.children[i]
      first == Eval(child(1), s)
      second == Eval(child(2), first)
      p == e.productionEnum
  IN CASE p = "EXP_FROM_INT" -> [s EXCEPT !.val = e.value]
       [] p = "EXP_FROM_ID" -> [s EXCEPT !.val = s.env[e.name]]
       [] p = "EXP_FROM_LP_EXP_RP" -> first
       [] p = "EXP_FROM_MINUS_EXP" -> [first EXCEPT !.val = Wrap(-@)]
       [] p = "EXP_FROM_EXP_BINARY_EXP" ->
            [second EXCEPT !.val = Apply(e.name, first.val, second.val)]
       [] p = "EXP_FROM_EXP_RELOP_EXP" ->
            [second EXCEPT !.val = Truth(Holds(e.name, first.val, second.val))]
       [] p = "EXP_FROM_EXP_AND_EXP" ->
            IF first.val = 0 THEN first ELSE [second EXCEPT !.val = Truth(@ # 0)]
       [] p = "EXP_FROM_EXP_OR_EXP" ->
            IF first.val # 0 THEN [first EXCEPT !.val = 1]
            ELSE [second EXCEPT !.val = Truth(@ # 0)]
       [] p = "EXP_FROM_NOT_EXP" -> [first EXCEPT !.val = Truth(@ = 0)]
       [] p = "EXP_FROM_EXP_LB_EXP_RB" -> [first EXCEPT !.val = first.mem[Wrap(4 * @)]]
       [] p \in Assignments ->
            LET right == Eval(child(2), s)
            IN IF child(1).productionEnum # "EXP_FROM_EXP_LB_EXP_RB"
               THEN [right EXCEPT !.env[child(1).name] = right.val]
               ELSE LET index == Eval(child(1).children[1], right)
                    IN [index EXCEPT !.mem[Wrap(4 * index.val)] = right.val,
                                     !.val = right.val]
       [] p = "EXP_FROM_ID_LP_RP" /\ e.name = "read" ->
            [s EXCEPT !.val = Next1(s.input), !.input = Rest(@)]
       [] p \in {"EXP_FROM_ID_LP_RP", "EXP_FROM_ID_LP_ARGS_RP"} /\ e.name # "read" ->
            LET r == EvalAll(e.children, s, <<>>)
            IN IF e.name = "write"
               THEN [r.s EXCEPT !.out = Append(@, <<"WRITE", r.vals[1]>>)]
               ELSE [r.s EXCEPT !.out = Append(@, <<"CALL", e.name, r.vals>>),
                                !.val = Answer(r.vals)]
       [] OTHER -> s

ExecAll(stmts, s) ==
  IF stmts = <<>> \/ s.returned \/ s.fuel = 0 THEN s
  ELSE ExecAll(Tail(stmts), Exec(Head(stmts), s))

Exec(stmt, s) ==
  LET child(i) == stmt.children[i]
      test == Eval(child(1), s)
      p == stmt.productionEnum
  IN CASE p = "STMT_FROM_EXP_SEMI" -> test
       [] p = "STMT_FROM_RETURN_EXP_SEMI" ->
            [test EXCEPT !.out = Append(@, <<"RETURN", test.val>>), !.returned = TRUE]
       [] p = "STMT_IF_LP_EXP_RP_STMT" ->
            IF test.val # 0 THEN Exec(child(2), test) ELSE test
       [] p = "STMT_IF_LP_EXP_RP_STMT_ELSE_STMT" ->
            Exec(child(IF test.val # 0 THEN 2 ELSE 3), test)
       [] p = "STMT_WHILE_LP_EXP_RP_STMT" ->
            IF test.val = 0 THEN test
            ELSE ExecAll(<<child(2), stmt>>, [test EXCEPT !.fuel = @ - 1])
       [] p = "STMT_FROM_COMPST" -> ExecAll(stmt.children, s)
       [] p = "DEC_FROM_VARDEC_ASSIGN_EXP" -> Eval(stmt, s)
       [] OTHER -> s

=============================================================================
