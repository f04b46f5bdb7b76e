----------------------------- MODULE MCOptimizer -----------------------------
(***************************************************************************)
(* Optimizer on every short program of a fixed set of statements, each in  *)
(* the shape the translator gives it, and the meaning of straight-line IR  *)
(* against which the two passes are compared.                              *)
(***************************************************************************)
EXTENDS StraightLine, FiniteSets

CONSTANTS MaxStatements

(* Names of the k-th statement's temporaries.  The first is the place the  *)
(* statement's value goes to, the last one holds an array address.         *)
MCTemps == {"_t0", "_t1", "_t2", "_t3", "_t4", "_u0", "_u1", "_u2", "_u3", "_u4",
            "_v0", "_v1", "_v2", "_v3", "_v4"}
MCAddrTemps == {"_t4", "_u4", "_v4"}
MCVars == {"a", "b", "arr"}
MCSymbols == {"f", "g", "l1", "l2", "m1", "m2", "n1", "n2", "#4"}

Temp == << <<"_t0", "_t1", "_t2", "_t3", "_t4">>,
           <<"_u0", "_u1", "_u2", "_u3", "_u4">>,
           <<"_v0", "_v1", "_v2", "_v3", "_v4">> >>
Label == << <<"l1", "l2">>, <<"m1", "m2">>, <<"n1", "n2">> >>

Nil == NoName
Copy(x, y) == Ins("ASSIGN", Nil, x, y, "", 0)
Arith(x, y, rel, z) == Ins("BINARY", x, y, z, rel, 0)
One(kind, x) == Ins(kind, Nil, x, Nil, "", 0)
Call(x, f) == Ins("CALL", x, f, Nil, "", 0)

(* The code the translator emits for one SPL statement, the k-th.  The     *)
(* value of an expression statement is always put into a temporary.        *)
Statement(k) ==
  LET p == Temp[k][1] t1 == Temp[k][2] t2 == Temp[k][3] t3 == Temp[k][4]
      at == Temp[k][5]
      then == Label[k][1] else == Label[k][2]
      Branch(x, y) == << Ins("IF_GOTO", then, x, y, "<", 0), One("GOTO", else),
                         One("LABEL", then) >>
      Address(i) == << Arith(t3, i, "*", "#4"),
                       Ins("ARRAY_OFFSET", at, "arr", t3, "", 0) >>
      Assign(x, code) == code \o << Copy(p, x) >>
  IN { Assign("a", << Constant("a", 1) >>),                    \* a = 1;
       << Constant(p, 9) >>,                                   \* 9; (no int)
       Assign("a", << Copy("a", "b") >>),                      \* a = b;
       << Copy(p, "a") >>,                                     \* a;
       Assign("b", << Constant(t1, 1), Arith("b", "a", "+", t1) >>),
                                                               \* b = a + 1;
       Assign("b", << Constant(t1, 0), Constant(t2, 1),
                      Arith("b", t1, "-", t2) >>),             \* b = 0 - 1;
       Assign("a", << Constant(t1, 3), Constant(t2, 1),
                      Arith("a", t1, "+", t2) >>),             \* a = 3 + 1;
       Assign("a", << Arith("a", "a", "/", "b") >>),           \* a = a / b;
       Assign("a", << Constant(t1, 1), Constant(t2, 0),
                      Arith("a", t1, "/", t2) >>),             \* a = 1 / 0;
       << Constant(t1, 2), Arith(p, "a", "*", t1) >>,          \* a * 2;
       Assign("a", << One("READ", "a") >>),                    \* a = read();
       << Copy(t1, "a"), One("WRITE", t1) >>,                  \* write(a);
       Assign("a", << Copy(t1, "b"), One("ARG", t1), Call("a", "f") >>),
                                                               \* a = f(b);
       << Copy(t1, "b"), One("ARG", t1), Call(p, "f") >>,      \* f(b);
       Assign("a", << Copy(t1, "b"), Ins("MINUS", "a", t1, Nil, "", 0) >>),
                                                               \* a = -b;
       << Copy(t1, "b"), Ins("MINUS", p, t1, Nil, "", 0),
          One("RETURN", p) >>,                                 \* return -b;
       << One("FUNCTION", "g"), One("PARAM", "b") >>,          \* int g(int b)
       Branch("a", "b") \o Assign("a", << Constant("a", 1) >>) \o
         << One("LABEL", else) >>,                        \* if (a < b) a = 1;
       << Constant(t1, 0) >> \o Branch("a", "b") \o
         << Constant(t1, 1), One("LABEL", else), One("WRITE", t1) >>,
                                                               \* write(a < b);
       << Copy(t1, "b") >> \o Address("a") \o
         << Ins("GET_VALUE_IN_ADDRESS", t2, at, Nil, "", 0),
            Ins("ASSIGN_VALUE_IN_ADDRESS", at, t1, Nil, "", 0) >>,
                                                               \* arr[a] = b;
       Assign("a", Address("b") \o
                   << Ins("GET_VALUE_IN_ADDRESS", "a", at, Nil, "", 0) >>) }
                                                               \* a = arr[b];

(* Bodies of main of up to MaxStatements statements, and the IR of a       *)
(* source file without a function.                                         *)
Bodies ==
  LET body[n \in 0..MaxStatements] ==
        IF n = 0 THEN {<<>>}
        ELSE {p \o s : p \in body[n - 1], s \in Statement(n)}
  IN UNION {body[n] : n \in 0..MaxStatements}

MCStarts ==
  {[n \in Names |-> CASE n = "a" -> x [] n = "b" -> y [] n = "arr" -> 1 [] OTHER -> 0] :
     x \in {-2, 0, 3}, y \in {-1, 2}}
MCOutside == [n \in Names |-> CASE n = "a" -> 2 [] n = "b" -> -3 [] OTHER -> -4]

MCPrograms == {<<>>} \cup {<<One("FUNCTION", "f")>> \o p : p \in Bodies}
=============================================================================
