---------------------------- MODULE MCTranslator ----------------------------
(***************************************************************************)
(* Translator on the trees of small functions: every expression, condition *)
(* and statement of a set of forms, in every place a node has a child.     *)
(***************************************************************************)
EXTENDS Translator

MCTempNames ==
  <<"_t0", "_t1", "_t2", "_t3", "_t4", "_t5", "_t6", "_t7", "_t8", "_t9", "_t10", "_t11",
    "_t12", "_t13", "_t14", "_t15">>
MCAddrNames ==
  <<"_a0", "_a1", "_a2", "_a3", "_a4", "_a5", "_a6", "_a7", "_a8", "_a9", "_a10", "_a11",
    "_a12", "_a13", "_a14", "_a15">>
MCLabelNames ==
  <<"label1", "label2", "label3", "label4", "label5", "label6", "label7", "label8",
    "label9", "label10">>
MCTemps == ToSet(MCTempNames) \cup ToSet(MCAddrNames)
MCAddrTemps == ToSet(MCAddrNames)
MCVars == {"a", "b", "arr"}
MCSymbols == ToSet(MCLabelNames) \cup {"f", "g", "main", "#4"}

Leaf(production, name, value) == Node(production, name, value, <<>>)
Parent(production, name, children) == Node(production, name, 0, children)

A == Leaf("EXP_FROM_ID", "a", 0)
B == Leaf("EXP_FROM_ID", "b", 0)
Num(v) == Leaf("EXP_FROM_INT", "", v)
Char == Leaf("OTHER", "", 0)
ReadCall == Leaf("EXP_FROM_ID_LP_RP", "read", 0)
Binary(x, op, y) == Parent("EXP_FROM_EXP_BINARY_EXP", op, <<x, y>>)
Relop(x, op, y) == Parent("EXP_FROM_EXP_RELOP_EXP", op, <<x, y>>)
And(x, y) == Parent("EXP_FROM_EXP_AND_EXP", "&&", <<x, y>>)
Or(x, y) == Parent("EXP_FROM_EXP_OR_EXP", "||", <<x, y>>)
Not(x) == Parent("EXP_FROM_NOT_EXP", "!", <<x>>)
Minus(x) == Parent("EXP_FROM_MINUS_EXP", "-", <<x>>)
Paren(x) == Parent("EXP_FROM_LP_EXP_RP", "(", <<x>>)
Index(x) == Parent("EXP_FROM_EXP_LB_EXP_RB", "arr", <<x>>)
Asg(x, y) == Parent("EXP_FROM_EXP_ASSIGNOP_EXP", "=", <<x, y>>)
CallF(args) == Parent("EXP_FROM_ID_LP_ARGS_RP", "f", args)
Write(x) == Parent("EXP_FROM_ID_LP_ARGS_RP", "write", <<x>>)

Member == Leaf("OTHER", ".", 0)

Do(x) == Parent("STMT_FROM_EXP_SEMI", "", <<x>>)
Return(x) == Parent("STMT_FROM_RETURN_EXP_SEMI", "", <<x>>)
If(c, s) == Parent("STMT_IF_LP_EXP_RP_STMT", "", <<c, s>>)
IfElse(c, s, t) == Parent("STMT_IF_LP_EXP_RP_STMT_ELSE_STMT", "", <<c, s, t>>)
While(c, s) == Parent("STMT_WHILE_LP_EXP_RP_STMT", "", <<c, s>>)
Block(ss) == Parent("STMT_FROM_COMPST", "", ss)
Break == Leaf("OTHER", "break", 0)
Dec(name, size) == Leaf("DEC_FROM_VARDEC", name, size)
DecInit(name, x) ==
  Parent("DEC_FROM_VARDEC_ASSIGN_EXP", "", <<Leaf("VARDEC_FROM_ID", name, 0), x>>)

(* Expressions of one operation, and the ones built from them.             *)
Operands1 ==
  {A, Num(2), ReadCall, Minus(B), Index(A), Paren(Binary(A, "+", B)), Asg(A, Num(1)),
   Asg(Index(B), A), CallF(<<A, B>>), Relop(A, "<", B), Write(A), Char}

Tests ==
  {Relop(x, "<", B) : x \in Operands1 \ {Char}} \cup {Relop(A, "==", Index(Num(1)))}

Conditions ==
  LET basic == {Relop(A, "<", B), Relop(Asg(B, ReadCall), ">=", A), Relop(B, "!=", CallF(<<A>>))}
      second == {And(x, y) : x, y \in basic} \cup {Or(x, y) : x, y \in basic}
                  \cup {Not(x) : x \in basic}
  IN Tests \cup second \cup {A, Paren(Relop(A, "<", B)), Not(Paren(Relop(A, "<", B)))}
       \cup {And(x, Relop(A, ">", B)) : x \in second} \cup {Or(Relop(A, ">", B), x) : x \in second}
       \cup {Not(x) : x \in second}

Values ==
  Operands1 \cup {Binary(x, "-", y) : x, y \in Operands1}
    \cup {CallF(<<x, y>>) : x, y \in Operands1}
    \cup {Asg(A, x) : x \in Operands1} \cup {Asg(Index(x), y) : x, y \in Operands1}
    \cup {Index(x) : x \in Operands1} \cup {Minus(x) : x \in Operands1}
    \cup {Asg(B, x) : x \in Conditions} \cup {Binary(A, "*", x) : x \in Conditions}

Statements ==
  {Do(x) : x \in Values} \cup {Return(x) : x \in Values}
    \cup {Do(Write(x)) : x \in Values}
    \cup {If(c, Do(Asg(A, B))) : c \in Conditions}
    \cup {Do(Asg(Member, A))}
    \cup {IfElse(c, Return(A), Do(Asg(B, A))) : c \in Conditions}
    \cup {While(c, Do(Asg(A, Binary(A, "+", Num(1))))) : c \in Conditions}
    \cup {While(Relop(A, "<", B), s) :
            s \in {Break, Block(<<DecInit("a", ReadCall), Do(Write(A))>>),
                   Block(<<Do(Write(A)), Do(Asg(A, Binary(A, "+", Num(1)))),
                           If(Relop(A, "==", Num(2)), Return(B))>>),
                   While(Relop(A, "<", B), Do(Asg(A, Binary(A, "+", Num(1)))))}}

Main(ss) == <<Parent("FUNDEC", "main", <<>>), Block(ss)>>
G ==
  <<Parent("FUNDEC", "g", <<Leaf("VARDEC_FROM_ID", "a", 0),
                            Leaf("VARDEC_FROM_VARDEC_LB_INT_RB", "arr", 0)>>),
    Block(<<IfElse(Relop(A, "<", Num(1)), Return(A), Return(Num(1)))>>)>>

MCSources ==
  {<<>>} \cup {<<Main(<<Dec("arr", 2), Dec("a", 0), s, Return(A)>>)>> : s \in Statements}
    \cup {<<G, Main(<<DecInit("b", x), If(c, Do(Write(B)))>>)>> : x \in Operands1, c \in Tests}

MCStarts ==
  {[n \in MCTemps \cup MCVars |-> CASE n = "a" -> x [] n = "b" -> y [] OTHER -> 7] :
     x \in {-1, 2}, y \in {0, 3}}
MCInput == <<3, -2, 0>>
MCMemory == [i \in IntW |-> IF i >= 0 THEN Wrap(i + 1) ELSE 2]
=============================================================================
