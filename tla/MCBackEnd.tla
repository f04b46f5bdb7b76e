------------------------------ MODULE MCBackEnd ------------------------------
(***************************************************************************)
(* BackEnd on what the translator prints for small programs: a function f  *)
(* of two parameters, with every statement of a list in it and around its  *)
(* call in main, and the recursive programs of project4/sample and test.   *)
(* Where a temporary is in several blocks the optimizer would report it,   *)
(* and nothing could be read: but for two, these programs are here as they *)
(* would be printed without the report.                                    *)
(***************************************************************************)
EXTENDS BackEnd, SequencesExt

CONSTANTS
  MaxInF,      \* statements in f
  MaxInMain,   \* statements in main
  Recursive    \* whether f calls itself and then reads what it has set before

TempNames ==
  <<"_t0", "_t1", "_t2", "_t3", "_t4", "_t5", "_t6", "_t7", "_t8", "_t9", "_t10", "_t11",
    "_t12", "_t13", "_t14", "_t15", "_t16", "_t17", "_t18", "_t19", "_t20", "_t21",
    "_t22", "_t23", "_t24", "_t25", "_t26", "_t27">>
TempTexts ==
  <<"t0", "t1", "t2", "t3", "t4", "t5", "t6", "t7", "t8", "t9", "t10", "t11", "t12", "t13",
    "t14", "t15", "t16", "t17", "t18", "t19", "t20", "t21", "t22", "t23", "t24", "t25",
    "t26", "t27">>
LabelNames ==
  <<"label1", "label2", "label3", "label4", "label5", "label6", "label7", "label8",
    "label9", "label10", "label11", "label12">>

MCTemps == ToSet(TempNames)
MCAddrTemps == {"_t5", "_t11", "_t17", "_t23"}
MCVars == {"a", "b", "n", "p", "q", "x", "y", "p1", "p2", "p3", "arr", "t0", "DEC", "labels"}
MCLabels == ToSet(LabelNames)
MCSymbols == MCLabels \cup {"f", "g", "main", "#4"}
MCStripped == [n \in MCTemps |-> TempTexts[CHOOSE i \in 1..28 : TempNames[i] = n]]
MCReport == <<"ir_optimizer.cpp:120", "_t0", "ir_optimizer.cpp:124">>
MCReportTexts == ToSet(MCReport)
MCInput == <<3, -2, 5>>

(* The i-th temporary and label of the k-th statement.                     *)
Tmp(k, i) == TempNames[6 * (k - 1) + i]
Lbl(k, i) == LabelNames[3 * (k - 1) + i]

Copy(x, y) == Ins("ASSIGN", NoName, x, y, "", 0)
Con(x, v) == Ins("CONSTANT", NoName, x, NoName, "", v)
Bin(r, x, op, y) == Ins("BINARY", r, x, y, op, 0)
One(kind, x) == Ins(kind, NoName, x, NoName, "", 0)
If(x, op, y, label) == Ins("IF_GOTO", label, x, y, op, 0)
Call(r, f) == Ins("CALL", r, f, NoName, "", 0)

(* write(v < w);                                                           *)
Compares(k, v, w) ==
  LET t == Tmp(k, 1) then == Lbl(k, 1) else == Lbl(k, 2)
  IN << Con(t, 0), If(v, "<", w, then), One("GOTO", else), One("LABEL", then),
        Con(t, 1), One("LABEL", else), One("WRITE", t) >>

(* What is printed for a statement on the variables u, v and w.            *)
Printed(k, u, v, w) ==
  LET t == Tmp(k, 1) s == Tmp(k, 2) r == Tmp(k, 3) adr == Tmp(k, 6)
      then == Lbl(k, 1) else == Lbl(k, 2) end == Lbl(k, 3)
  IN {<< Copy(u, v) >>,                                            \* u = v;
      << Con(t, 3), Bin(u, v, "-", t) >>,                          \* u = v - 3;
      << Bin(t, v, "*", w), Bin(u, t, "/", v) >>,                  \* u = v * w / v;
      << Copy(t, v), Ins("MINUS", u, t, NoName, "", 0) >>,         \* u = -v;
      << One("READ", u), Copy(t, u), One("WRITE", t) >>,           \* u = read(); write(u);
      << Bin(t, v, "+", w), One("WRITE", t) >>,                    \* write(v + w);
      Compares(k, v, w),
      << Con(t, 0), Bin(s, v, "+", w), If(s, "<", w, then), One("GOTO", else),
         One("LABEL", then), Con(t, 1), One("LABEL", else),
         One("WRITE", t) >>,                                       \* write(v + w < w);
      << If(v, ">=", w, then), One("GOTO", else), One("LABEL", then), Copy(u, v),
         One("GOTO", end), One("LABEL", else), Copy(u, w),
         One("LABEL", end) >>,                   \* if (v >= w) u = v; else u = w;
      << One("LABEL", then), If(u, "<=", v, else), One("GOTO", end), One("LABEL", else),
         Con(t, 1), Bin(u, u, "+", t), One("GOTO", then),
         One("LABEL", end) >>,                            \* while (u <= v) u = u + 1;
      << Con(t, 1), If(v, "!=", t, then), One("GOTO", else), One("LABEL", then),
         Copy(s, v), One("RETURN", s), One("LABEL", else) >>,   \* if (v != 1) return v;
      << Ins("DEC", NoName, "arr", NoName, "", 8), Con(s, 1), Bin(r, s, "*", "#4"),
         Ins("ARRAY_OFFSET", adr, "arr", r, "", 0),
         Ins("GET_VALUE_IN_ADDRESS", u, adr, NoName, "", 0),
         Ins("ASSIGN_VALUE_IN_ADDRESS", adr, u, NoName, "", 0) >>} \* u = arr[1]; ...

(* u = f(v, w);                                                            *)
Calls(k, u, v, w) ==
  LET t == Tmp(k, 1) s == Tmp(k, 2)
  IN << Copy(t, v), Copy(s, w), One("ARG", s), One("ARG", t), Call(u, "f") >>

(* if (p > 0) u = f(p - 1, w);                                             *)
Recurs(k, u, w) ==
  LET t == Tmp(k, 1) s == Tmp(k, 2) r == Tmp(k, 3)
  IN << Con(r, 0), If("p", ">", r, Lbl(k, 1)), One("GOTO", Lbl(k, 2)), One("LABEL", Lbl(k, 1)),
        Con(r, 1), Bin(t, "p", "-", r), Copy(s, w), One("ARG", s), One("ARG", t),
        Call(u, "f"), One("LABEL", Lbl(k, 2)) >>

Return(k, v) == << Copy(Tmp(k, 4), v), One("RETURN", Tmp(k, 4)) >>

InF(k) ==
  Printed(k, "x", "p", "q") \cup Printed(k, "y", "x", "p")
    \cup {Recurs(k, "x", "q"), << Con("p", 2) >>}
    \cup (IF Recursive THEN {Recurs(k, "y", "q")} ELSE {})

InMain(k) ==
  Printed(k, "a", "a", "b") \cup {Calls(k, "b", "a", "b"), Calls(k, "a", "b", "a")}

Blocks(statements(_), first, n) ==
  LET blocks[i \in 0..n] ==
        IF i = 0 THEN {<<>>}
        ELSE {b \o s : b \in blocks[i - 1], s \in statements(first + i - 1)}
  IN UNION {blocks[i] : i \in 0..n}

(* Two statements, the second on what the first has set.                   *)
Pairs == {g \o h : g \in Printed(1, "x", "p", "q"), h \in InF(2)}

F(body, v) ==
  << One("FUNCTION", "f"), One("PARAM", "p"), One("PARAM", "q"), Con("x", 1), Con("y", 2) >>
    \o body \o Return(1, v)

Main(body) ==
  << One("FUNCTION", "main"), Con("a", 2), Con("b", -1) >> \o body \o Return(3, "b")

(* f before main and after it: main is what is called.                     *)
Small ==
  {F(f, v) \o Main(m) :
     f \in Blocks(InF, 1, MaxInF), v \in {"x", "y"}, m \in Blocks(InMain, 3, MaxInMain)}
    \cup {F(f, "x") \o Main(Calls(3, "b", "a", "b")) : f \in Pairs}
    \cup {Main(m) \o F(f, "x") : f \in Blocks(InF, 1, 1), m \in Blocks(InMain, 3, 1)}

(* test/test_4_r01.spl for two disks, with 10 for 10000; t(i) is a number. *)
t(i) == SelectSeq(TempNames, LAMBDA n : n \notin MCAddrTemps)[i]
Moves1(i) ==
  << Copy(t(i), "p1"), Con(t(i + 1), 10), Bin(t(i + 2), t(i), "*", t(i + 1)),
     Copy(t(i + 3), "p3"), Bin(t(i), t(i + 2), "+", t(i + 3)), One("WRITE", t(i)) >>
Hanoi1(i, x, y, z, unused) ==
  << Copy(t(i), "n"), Con(t(i + 1), 1), Bin(t(i + 2), t(i), "-", t(i + 1)),
     Copy(t(i + 3), x), Copy(t(i + 4), y), Copy(t(i), z), One("ARG", t(i)),
     One("ARG", t(i + 4)), One("ARG", t(i + 3)), One("ARG", t(i + 2)),
     Call(unused, "f") >>
Hanoi ==
  << One("FUNCTION", "f"), One("PARAM", "n"), One("PARAM", "p1"), One("PARAM", "p2"),
     One("PARAM", "p3"), Con(t(1), 1), If("n", "==", t(1), "label1"),
     One("GOTO", "label2"), One("LABEL", "label1") >>
    \o Moves1(1) \o << One("GOTO", "label3"), One("LABEL", "label2") >>
    \o Hanoi1(5, "p1", "p3", "p2", "x") \o Moves1(10)
    \o Hanoi1(14, "p2", "p1", "p3", "x")
    \o << One("LABEL", "label3"), Con(t(20), 0), One("RETURN", t(20)),
          One("FUNCTION", "main"), Con("a", 2), Copy(t(21), "a"), Con(t(22), 1),
          Con(t(23), 2), Con(t(24), 3), One("ARG", t(24)), One("ARG", t(23)),
          One("ARG", t(22)), One("ARG", t(21)), Call("b", "f"), Con(t(1), 0),
          One("RETURN", t(1)) >>

(* sample/test_4_fact.spl.                                                 *)
Fact ==
  << One("FUNCTION", "f"), One("PARAM", "n"), Con(t(1), 1), If("n", "==", t(1), "label1"),
     One("GOTO", "label2"), One("LABEL", "label1"), Copy(t(2), "n"), One("RETURN", t(2)),
     One("LABEL", "label2"), Copy(t(3), "n"), Con(t(5), 1), Bin(t(6), "n", "-", t(5)),
     One("ARG", t(6)), Call(t(4), "f"), Bin(t(7), "n", "*", t(4)), One("RETURN", t(7)),
     One("FUNCTION", "main"), One("READ", "a"), Copy(t(8), "a"), One("ARG", t(8)),
     Call("b", "f"), Copy(t(9), "b"), One("WRITE", t(9)), Con(t(1), 0),
     One("RETURN", t(1)) >>

(* Variables whose names the reader takes for something else, and one that *)
(* has the text of a temporary.                                            *)
Misread ==
  {Main(<< Con("labels", 1) >>), Main(<< Con("DEC", 1) >>),
   Main(<< Con("t0", 5), Con("_t0", 1), Bin("a", "t0", "-", "_t0") >>)}

(* int f(int p) { } at the end of a file.                                  *)
EndsEmpty == Main(<<>>) \o << One("FUNCTION", "f"), One("PARAM", "p") >>

(* g assigns f's parameter; f does not return; f gets one argument; main   *)
(* has a parameter.                                                        *)
Careless ==
  LET call == << Con(t(1), 3), One("ARG", t(1)), Call("a", "f") >>
      end == << Con(t(3), 0), One("RETURN", t(3)) >>
      f == << One("FUNCTION", "f"), One("PARAM", "p") >>
      g == << One("FUNCTION", "g"), Con("p", 2) >> \o end
  IN {f \o << Call("x", "g"), Copy(t(2), "p"), One("RETURN", t(2)) >> \o g \o Main(call),
      f \o << Con("x", 1) >> \o Main(call),
      f \o << One("PARAM", "q"), Copy(t(2), "q"), One("RETURN", t(2)) >> \o Main(call),
      << One("FUNCTION", "main"), One("PARAM", "p"), One("RETURN", "p") >>}

(* A value that is no int, or that still is one; the smallest int is what  *)
(* a minus is put before, and what is divided by -1.                       *)
Overflowing ==
  LET value(x, y, op) ==
        Main(<< Con("a", x), Con("b", y), Bin("b", "a", op, "b") >>)
      least == << Con("a", -63), Con(t(1), 1), Bin("a", "a", "-", t(1)) >>
  IN {value(x, 40, op) : x \in {23, 24}, op \in {"+", "*"}}
       \cup {value(x, 40, "-") : x \in {-24, -25}}
       \cup {value(5, 0, "/"), Main(<< Con("b", 0), Bin("b", "a", "/", "b") >>)}
       \cup {Main(<< Con("a", x), Con(t(1), 1), Bin("a", "a", "+", t(1)) >>) : x \in {62, 63}}
       \cup {Main(least \o << Copy(t(2), "a"), Ins("MINUS", "b", t(2), NoName, "", 0) >>),
             Main(least \o << Con("b", -1), Bin("b", "a", "/", "b") >>), Main(least)}

(* f(1, 2, 3, 4, 5): the fifth argument has no register.                   *)
Five ==
  LET names == <<"p", "q", "n", "p1", "p2">>
  IN << One("FUNCTION", "f") >> \o [i \in 1..5 |-> One("PARAM", names[i])]
       \o << Copy(t(6), "p"), One("RETURN", t(6)) >>
       \o Main([i \in 1..5 |-> Con(t(i), i)] \o [i \in 1..5 |-> One("ARG", t(6 - i))]
                \o << Call("a", "f") >>)

(* while (a) b = 1: no jump is there for the condition.  With a comparison *)
(* behind it the optimizer gives up, too.                                  *)
Warned ==
  LET loop(k) == << One("LABEL", Lbl(k, 1)), One("LABEL", Lbl(k, 2)), Con("b", 1),
                    One("GOTO", Lbl(k, 1)), One("LABEL", Lbl(k, 3)) >>
  IN {[warnings |-> 1, report |-> <<>>, code |-> Main(loop(1))],
      [warnings |-> 2, report |-> <<>>, code |-> Main(loop(1) \o loop(2))],
      [warnings |-> 1, report |-> MCReport, code |-> Main(loop(1) \o Compares(2, "a", "b"))]}

MCOutputs ==
  {[warnings |-> 0, report |-> <<>>, code |-> c] :
     c \in Small \cup {Hanoi, Fact, EndsEmpty, Five} \cup Overflowing \cup Misread \cup Careless}
    \cup {[warnings |-> 0, report |-> MCReport, code |-> Main(Compares(1, "a", "b"))]}
    \cup Warned
=============================================================================
