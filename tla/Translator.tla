------------------------------ MODULE Translator ------------------------------
(***************************************************************************)
(* The translator (src/src/IntermediateCodeTranlator.cpp) from the syntax  *)
(* tree to three-address code, followed by a run of the code it emits.     *)
(* The translation of an expression is recursive; one action is one call   *)
(* from the loops of translateFunctionAndPrint and translate_Compst, or    *)
(* one instruction of the run.                                             *)
(***************************************************************************)
EXTENDS Spl, SequencesExt

CONSTANTS
  TempNames,   \* what new_temp returns, in its order
  AddrNames,   \* the same, where the temporary is for an address
  LabelNames,  \* what new_label returns, in its order
  Sources,     \* the syntax trees: for each function <<FunDec, CompSt>>
  Starts,      \* values of all names when the code is run
  Memory,      \* contents of the memory then
  MaxSteps     \* steps until a run counts as endless

ASSUME FreshAssumption ==
  /\ Temps = ToSet(TempNames) \cup ToSet(AddrNames)
  /\ AddrTemps = ToSet(AddrNames)
  /\ ToSet(LabelNames) \subseteq Symbols

VARIABLES
  phase,    \* "translate", "run", "done" or "endless"
  source,   \* the tree
  extdef,   \* index of the function being translated
  child,    \* 0 before its FunDec, then index in its CompSt
  st,       \* the counters of temporaries and labels, and the code
  start,    \* history: the values with which the run begins
  machine,  \* the run of the code
  steps     \* how many steps it has made

vars == <<phase, source, extdef, child, st, start, machine, steps>>

-----------------------------------------------------------------------------
(* Emission.  The code of a node is the code of its children and its own,  *)
(* in the order in which they are translated: what the vectors on the      *)
(* nodes are merged to in the end.                                         *)

Emit(s, ins) == [s EXCEPT !.code = Append(@, ins)]

Copy(x, y) == Ins("ASSIGN", NoName, x, y, "", 0)
One(kind, x) == Ins(kind, NoName, x, NoName, "", 0)
Constant(x, value) == Ins("CONSTANT", NoName, x, NoName, "", value)
Call(x, f) == Ins("CALL", x, f, NoName, "", 0)

(* new_temp and new_label: the name, and the state in which it is taken.   *)
new_temp(s) == TempNames[s.temps + 1]
WithTemp(s) == [s EXCEPT !.temps = @ + 1]

new_label(s) == LabelNames[s.labels + 1]
WithLabel(s) == [s EXCEPT !.labels = @ + 1]

Labels(s, n) == [i \in 1..n |-> LabelNames[s.labels + i]]
WithLabels(s, n) == [s EXCEPT !.labels = @ + n]

-----------------------------------------------------------------------------
(* Expressions.  child of a node: the operands only.                       *)

RECURSIVE translate_Exp(_, _, _), translate_cond_Exp(_, _, _, _)

IsId(e) == e.productionEnum = "EXP_FROM_ID"

(* An operand that is a variable is used in place, all else is put into a  *)
(* temporary first.                                                        *)
Placed(e, s) ==
  IF IsId(e) THEN [place |-> e.name, s |-> s]
  ELSE [place |-> new_temp(s), s |-> translate_Exp(e, new_temp(s), WithTemp(s))]

(* The temporaries of the arguments are collected from the last to the     *)
(* first.                                                                  *)
translate_Args(args, s) ==
  FoldLeft(LAMBDA acc, e :
             [argList |-> <<new_temp(acc.s)>> \o acc.argList,
              s |-> translate_Exp(e, new_temp(acc.s), WithTemp(acc.s))],
           [argList |-> <<>>, s |-> s], args)

translate_Call(e, place, s) ==
  LET args == translate_Args(e.children, s)
  IN IF e.name = "write"
     THEN Emit(args.s, One("WRITE", args.argList[1]))
     ELSE Emit(FoldLeft(LAMBDA acc, arg : Emit(acc, One("ARG", arg)),
                        args.s, args.argList),
               Call(place, e.name))

(* Mutant of translate_Index: the index is taken for a variable.           *)
translate_IndexByName(e, place, s) ==
  LET temp2 == new_temp(s)
      arrayAddress == AddrNames[s.temps + 2]
      code1 == Emit(WithTemp(WithTemp(s)),
                    Ins("BINARY", temp2, e.children[1].name, ElementSize, "*", 0))
      code3 == Emit(code1, Ins("ARRAY_OFFSET", arrayAddress, e.name, temp2, "", 0))
  IN Emit(code3, Ins("GET_VALUE_IN_ADDRESS", place, arrayAddress, NoName, "", 0))

(* The index goes to temp1 unless it is a variable, temp2 is the offset.   *)
translate_Index(e, place, s) ==
  LET temp2 == new_temp(s)
      arrayAddress == AddrNames[s.temps + 2]
      index == Placed(e.children[1], WithTemp(WithTemp(s)))
      code1 == Emit(index.s, Ins("BINARY", temp2, index.place, ElementSize, "*", 0))
      code3 == Emit(code1, Ins("ARRAY_OFFSET", arrayAddress, e.name, temp2, "", 0))
  IN Emit(code3, Ins("GET_VALUE_IN_ADDRESS", place, arrayAddress, NoName, "", 0))

(* Mutant of translate_Assign: the element's value is taken for its        *)
(* address.                                                                *)
translate_AssignThroughValue(e, place, s) ==
  LET left == e.children[1] right == e.children[2]
      temp == new_temp(s) temp2 == new_temp(WithTemp(s))
  IN IF left.productionEnum = "EXP_FROM_EXP_LB_EXP_RB"
     THEN LET code1 == translate_Exp(right, temp, WithTemp(WithTemp(s)))
              code2 == translate_Exp(left, temp2, code1)
          IN Emit(code2, Ins("ASSIGN_VALUE_IN_ADDRESS", temp2, temp, NoName, "", 0))
     ELSE translate_Exp(right, left.name, s)

(* An assignment to an element computes the address by loading from it; it *)
(* leaves place as it is.                                                  *)
translate_Assign(e, place, s) ==
  LET left == e.children[1] right == e.children[2]
      temp == new_temp(s) temp2 == new_temp(WithTemp(s))
  IN IF left.productionEnum = "EXP_FROM_EXP_LB_EXP_RB"
     THEN LET code1 == translate_Exp(right, temp, WithTemp(WithTemp(s)))
              code2 == translate_Exp(left, temp2, code1)
          IN Emit(code2, Ins("ASSIGN_VALUE_IN_ADDRESS", Last(code2.code).op1,
                             temp, NoName, "", 0))
     ELSE IF left.productionEnum \in {"EXP_FROM_ID", "VARDEC_FROM_ID"}
     THEN LET code1 == translate_Exp(right, left.name, s)
          IN IF place = "null" THEN code1 ELSE Emit(code1, Copy(place, left.name))
     ELSE s

(* Mutant of translate_Logical: the value is not set to 0 first.           *)
translate_LogicalOnlyTrue(e, place, s) ==
  LET l == Labels(s, 2)
      code1 == translate_cond_Exp(e, l[1], l[2], WithLabels(s, 2))
  IN Emit(Emit(Emit(code1, One("LABEL", l[1])), Constant(place, 1)), One("LABEL", l[2]))

(* The value of a condition: 0, unless the jumps lead to label1.           *)
translate_Logical(e, place, s) ==
  LET l == Labels(s, 2)
      code1 == translate_cond_Exp(e, l[1], l[2],
                                  Emit(WithLabels(s, 2), Constant(place, 0)))
  IN Emit(Emit(Emit(code1, One("LABEL", l[1])), Constant(place, 1)), One("LABEL", l[2]))

translate_Binary(e, place, s) ==
  LET temp1 == Placed(e.children[1], s)
      temp2 == Placed(e.children[2], temp1.s)
  IN Emit(temp2.s, Ins("BINARY", place, temp1.place, temp2.place, e.name, 0))

translate_Exp(e, place, s) ==
  LET p == e.productionEnum
  IN CASE p = "EXP_FROM_ID_LP_ARGS_RP" -> translate_Call(e, place, s)
       [] p = "EXP_FROM_ID_LP_RP" ->
            Emit(s, IF e.name = "read" THEN One("READ", place) ELSE Call(place, e.name))
       [] p = "EXP_FROM_INT" -> Emit(s, Constant(place, e.value))
       [] p = "EXP_FROM_ID" -> Emit(s, Copy(place, e.name))
       [] p \in Assignments -> translate_Assign(e, place, s)
       [] p = "EXP_FROM_EXP_BINARY_EXP" -> translate_Binary(e, place, s)
       [] p = "EXP_FROM_MINUS_EXP" ->
            Emit(translate_Exp(e.children[1], new_temp(s), WithTemp(s)),
                 Ins("MINUS", place, new_temp(s), NoName, "", 0))
       [] p \in Logical -> translate_Logical(e, place, s)
       [] p = "EXP_FROM_LP_EXP_RP" -> translate_Exp(e.children[1], place, s)
       [] p = "EXP_FROM_EXP_LB_EXP_RB" -> translate_Index(e, place, s)
       [] OTHER -> s

-----------------------------------------------------------------------------
(* Conditions.  Only comparisons and &&, || and ! are handled: a condition *)
(* that is anything else, one in parentheses too, emits nothing.           *)


translate_Or(e, lb_t, lb_f, s) ==
  LET code1 == translate_cond_Exp(e.children[1], lb_t, new_label(s), WithLabel(s))
  IN translate_cond_Exp(e.children[2], lb_t, lb_f, Emit(code1, One("LABEL", new_label(s))))

translate_And(e, lb_t, lb_f, s) ==
  LET code1 == translate_cond_Exp(e.children[1], new_label(s), lb_f, WithLabel(s))
  IN translate_cond_Exp(e.children[2], lb_t, lb_f, Emit(code1, One("LABEL", new_label(s))))

translate_Relop(e, lb_t, lb_f, s) ==
  LET temp1 == Placed(e.children[1], s)
      temp2 == Placed(e.children[2], temp1.s)
  IN Emit(Emit(temp2.s, Ins("IF_GOTO", lb_t, temp1.place, temp2.place, e.name, 0)),
          One("GOTO", lb_f))

translate_cond_Exp(e, lb_t, lb_f, s) ==
  LET p == e.productionEnum
  IN CASE p = "EXP_FROM_EXP_RELOP_EXP" -> translate_Relop(e, lb_t, lb_f, s)
       [] p = "EXP_FROM_EXP_AND_EXP" -> translate_And(e, lb_t, lb_f, s)
       [] p = "EXP_FROM_EXP_OR_EXP" -> translate_Or(e, lb_t, lb_f, s)
       [] p = "EXP_FROM_NOT_EXP" -> translate_cond_Exp(e.children[1], lb_f, lb_t, s)
       [] OTHER -> s

-----------------------------------------------------------------------------
(* Statements.                                                             *)

RECURSIVE translate_stmt(_, _)

(* Only an array that is declared without a value has code.                *)
translate_dec(dec, s) ==
  CASE dec.productionEnum = "DEC_FROM_VARDEC_ASSIGN_EXP" -> translate_Exp(dec, "null", s)
    [] dec.productionEnum = "DEC_FROM_VARDEC" ->
         IF dec.value = 0 THEN s
         ELSE Emit(s, Ins("DEC", NoName, dec.name, NoName, "", Wrap(4 * dec.value)))

Decs == {"DEC_FROM_VARDEC_ASSIGN_EXP", "DEC_FROM_VARDEC"}

(* The children of a CompSt are its declarations and then its statements.  *)
translate_CompstChild(node, s) ==
  IF node.productionEnum \in Decs THEN translate_dec(node, s) ELSE translate_stmt(node, s)

translate_If(stmt, s) ==
  LET l == Labels(s, 2)
      code1 == translate_cond_Exp(stmt.children[1], l[1], l[2], WithLabels(s, 2))
      code2 == translate_stmt(stmt.children[2], Emit(code1, One("LABEL", l[1])))
  IN Emit(code2, One("LABEL", l[2]))

translate_IfElse(stmt, s) ==
  LET l == Labels(s, 3)
      code1 == translate_cond_Exp(stmt.children[1], l[1], l[2], WithLabels(s, 3))
      code2 == translate_stmt(stmt.children[2], Emit(code1, One("LABEL", l[1])))
      else == Emit(Emit(code2, One("GOTO", l[3])), One("LABEL", l[2]))
  IN Emit(translate_stmt(stmt.children[3], else), One("LABEL", l[3]))

translate_While(stmt, s) ==
  LET l == Labels(s, 3)
      code1 == translate_cond_Exp(stmt.children[1], l[2], l[3],
                                  Emit(WithLabels(s, 3), One("LABEL", l[1])))
      code2 == translate_stmt(stmt.children[2], Emit(code1, One("LABEL", l[2])))
  IN Emit(Emit(code2, One("GOTO", l[1])), One("LABEL", l[3]))

translate_stmt(stmt, s) ==
  LET p == stmt.productionEnum
  IN CASE p = "STMT_FROM_EXP_SEMI" ->
            translate_Exp(stmt.children[1], new_temp(s), WithTemp(s))
       [] p = "STMT_FROM_RETURN_EXP_SEMI" ->
            Emit(translate_Exp(stmt.children[1], new_temp(s), WithTemp(s)),
                 One("RETURN", new_temp(s)))
       [] p = "STMT_IF_LP_EXP_RP_STMT" -> translate_If(stmt, s)
       [] p = "STMT_IF_LP_EXP_RP_STMT_ELSE_STMT" -> translate_IfElse(stmt, s)
       [] p = "STMT_WHILE_LP_EXP_RP_STMT" -> translate_While(stmt, s)
       [] p = "STMT_FROM_COMPST" ->
            FoldLeft(LAMBDA acc, node : translate_CompstChild(node, acc), s, stmt.children)
       [] OTHER -> s

(* A parameter that is an array has no PARAM.                              *)
translate_fundec(fundec, s) ==
  FoldLeft(LAMBDA acc, param :
             IF param.productionEnum = "VARDEC_FROM_ID"
             THEN Emit(acc, One("PARAM", param.name)) ELSE acc,
           Emit(s, One("FUNCTION", fundec.name)), fundec.children)

-----------------------------------------------------------------------------
Init ==
  /\ phase = "translate"
  /\ source \in Sources
  /\ extdef = 1 /\ child = 0
  /\ st = [temps |-> 0, labels |-> 0, code |-> <<>>]
  /\ start = CHOOSE env \in Starts : TRUE
  /\ machine = Loaded(1, start, Memory)
  /\ steps = 0

FunDec == source[extdef][1]
Compst == source[extdef][2].children

Translates ==
  /\ phase = "translate" /\ extdef <= Len(source)
  /\ UNCHANGED <<phase, source, start, machine, steps>>

TranslateFundec ==
  /\ Translates
  /\ child = 0
  /\ st' = translate_fundec(FunDec, st)
  /\ child' = 1
  /\ UNCHANGED extdef

TranslateDec ==
  /\ Translates
  /\ child \in 1..Len(Compst)
  /\ Compst[child].productionEnum \in Decs
  /\ st' = translate_dec(Compst[child], st)
  /\ child' = child + 1
  /\ UNCHANGED extdef

TranslateStmt ==
  /\ Translates
  /\ child \in 1..Len(Compst)
  /\ Compst[child].productionEnum \notin Decs
  /\ st' = translate_stmt(Compst[child], st)
  /\ child' = child + 1
  /\ UNCHANGED extdef

(* Mutant of NextFunction: new_label starts again with every function.     *)
NextFunctionRelabels ==
  /\ Translates
  /\ child = Len(Compst) + 1
  /\ extdef' = extdef + 1 /\ child' = 0
  /\ st' = [st EXCEPT !.labels = 0]

NextFunction ==
  /\ Translates
  /\ child = Len(Compst) + 1
  /\ extdef' = extdef + 1 /\ child' = 0
  /\ UNCHANGED st

(* The code is run from the FUNCTION instruction of the last function.     *)
StartRun ==
  /\ phase = "translate" /\ extdef = Len(source) + 1
  /\ start' \in Starts
  /\ IF source = <<>>
     THEN phase' = "done" /\ UNCHANGED machine
     ELSE /\ phase' = "run"
          /\ machine' =
               Loaded(CHOOSE i \in 1..Len(st.code) :
                        st.code[i] = One("FUNCTION", source[Len(source)][1].name),
                      start', Memory)
  /\ UNCHANGED <<source, extdef, child, st, steps>>

Run ==
  /\ phase = "run"
  /\ ~ machine.halted /\ machine.ip <= Len(st.code) /\ steps < MaxSteps
  /\ machine' = Step(st.code, machine)
  /\ steps' = steps + 1
  /\ UNCHANGED <<phase, source, extdef, child, st, start>>

EndRun ==
  /\ phase = "run"
  /\ \/ /\ machine.halted \/ machine.ip > Len(st.code)
        /\ phase' = "done"
     \/ /\ ~ machine.halted /\ machine.ip <= Len(st.code) /\ steps = MaxSteps
        /\ phase' = "endless"
  /\ UNCHANGED <<source, extdef, child, st, start, machine, steps>>

Next ==
  TranslateFundec \/ TranslateDec \/ TranslateStmt \/ NextFunction \/ StartRun
    \/ Run \/ EndRun

Spec == Init /\ [][Next]_vars

-----------------------------------------------------------------------------
(* Where the emitted code departs from the program.                        *)

RECURSIVE Nodes(_), Strip(_)
Nodes(e) == {e} \cup UNION {Nodes(e.children[i]) : i \in 1..Len(e.children)}
Strip(e) == IF e.productionEnum = "EXP_FROM_LP_EXP_RP" THEN Strip(e.children[1]) ELSE e

IsIndex(e) == e.productionEnum = "EXP_FROM_EXP_LB_EXP_RB"

AssignedIn(e) == {n.children[1].name : n \in {n \in Nodes(e) : n.productionEnum \in Assignments}}
NamesIn(e) == {n.name : n \in Nodes(e)}

(* A condition has no code, nor has a node of any other production.        *)
Unhandled(n) ==
  \/ n.productionEnum = "OTHER"
  \/ /\ n.productionEnum \in Logical \ {"EXP_FROM_EXP_RELOP_EXP"}
     /\ \E i \in 1..Len(n.children) : n.children[i].productionEnum \notin Logical
  \/ /\ n.productionEnum \in {"STMT_IF_LP_EXP_RP_STMT", "STMT_IF_LP_EXP_RP_STMT_ELSE_STMT",
                              "STMT_WHILE_LP_EXP_RP_STMT"}
     /\ n.children[1].productionEnum \notin Logical

(* The value of an assignment to an element, or of write, is used: no code *)
(* puts it in its place.                                                   *)
Valueless(e) ==
  \/ Strip(e).productionEnum \in Assignments /\ IsIndex(Strip(e).children[1])
  \/ Strip(e).productionEnum = "EXP_FROM_ID_LP_ARGS_RP" /\ Strip(e).name = "write"

UsesNoValue(n) ==
  /\ n.productionEnum \notin {"STMT_FROM_EXP_SEMI", "STMT_FROM_COMPST", "EXP_FROM_LP_EXP_RP"}
  /\ \E i \in 1..Len(n.children) : Valueless(n.children[i])

(* The left operand is a variable that the right operand assigns: it is    *)
(* read after that.                                                        *)
ReadsLate(n) ==
  /\ n.productionEnum \in {"EXP_FROM_EXP_BINARY_EXP", "EXP_FROM_EXP_RELOP_EXP"}
  /\ IsId(n.children[1])
  /\ n.children[1].name \in AssignedIn(n.children[2])

(* A condition is assigned to a variable that occurs in it: the variable   *)
(* is set to 0 before the condition is evaluated.                          *)
OverwritesEarly(n) ==
  /\ n.productionEnum \in Assignments /\ ~ IsIndex(n.children[1])
  /\ Strip(n.children[2]).productionEnum \in Logical
  /\ n.children[1].name \in NamesIn(n.children[2])

SourceNodes == UNION {Nodes(source[i][2]) : i \in 1..Len(source)}

Handled == \A n \in SourceNodes : ~ Unhandled(n) /\ ~ UsesNoValue(n)
InOrder == \A n \in SourceNodes : ~ ReadsLate(n) /\ ~ OverwritesEarly(n)

-----------------------------------------------------------------------------
(* What the translation has to keep true.                                  *)

(* Every variable has its type.                                            *)
TypeOK ==
  /\ phase \in {"translate", "run", "done", "endless"}
  /\ extdef \in 1..Len(source) + 1
  /\ child \in Nat
  /\ extdef <= Len(source) => child <= Len(Compst) + 1
  /\ st.temps \in 0..Len(TempNames) /\ st.labels \in 0..Len(LabelNames)
  /\ st.code \in Seq([kind: Kinds, result: Operands, op1: Operands, op2: Operands,
                      relation: Relations, value: IntW])
  /\ start \in [Names -> IntW]
  /\ machine.env \in [Names -> IntW] /\ machine.mem \in [IntW -> IntW]
  /\ machine.ip \in 1..Len(st.code) + 1
  /\ steps \in 0..MaxSteps

(* What the optimizer assumes of its input is true of what the translator  *)
(* hands over: operands of every kind of instruction are what the passes   *)
(* take them for, and the code begins with a FUNCTION.                     *)
OutputIsWellFormed ==
  phase # "translate" =>
    /\ \A i \in 1..Len(st.code) : WellFormed(st.code[i])
    /\ st.code # <<>> => st.code[1].kind = "FUNCTION"

(* Every jump has one target: a label is defined once in the whole output, *)
(* whatever conditions, loops and functions are nested in each other.      *)
TargetsDefinedOnce ==
  phase # "translate" =>
    \A i \in 1..Len(st.code) :
      st.code[i].kind \in {"GOTO", "IF_GOTO"} =>
        \E j \in 1..Len(st.code) : \A k \in 1..Len(st.code) :
          (st.code[k].kind = "LABEL" /\
           st.code[k].op1 = IF st.code[i].kind = "GOTO" THEN st.code[i].op1
                            ELSE st.code[i].result)
            <=> k = j

(* On whatever path the run takes, a temporary has been set when it is     *)
(* read: what a node's code leaves in its place is there for its parent.   *)
TempsSetBeforeRead ==
  phase = "run" /\ Handled /\ machine.ip <= Len(st.code) =>
    Temps \cap Read(st.code[machine.ip]) \subseteq machine.set

Meaning ==
  ExecAll(source[Len(source)][2].children, Begun([n \in Vars |-> start[n]], Memory))


=============================================================================
