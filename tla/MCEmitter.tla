------------------------------ MODULE MCEmitter ------------------------------
(***************************************************************************)
(* Emitter on every short list of TAC fragments: the ones the optimizer    *)
(* prints for a statement, and the forms with constants and pointers that  *)
(* the samples of the back end have.                                       *)
(***************************************************************************)
EXTENDS Emitter

CONSTANTS
  MaxFragments,  \* fragments after the first function
  ByHand         \* whether fragments the compiler does not print are among them

MCNames == {"a", "b", "p", "q", "arr", "_t1", "_t2", "_u1", "_u2", "_v1", "_v2"}
MCTargets == {"f", "g", "l1", "l2", "m1", "m2", "n1", "n2"}

Temp == << <<"_t1", "_t2">>, <<"_u1", "_u2">>, <<"_v1", "_v2">> >>
Label == << <<"l1", "l2">>, <<"m1", "m2">>, <<"n1", "n2">> >>

Nil == NoOpd
Set(x, y) == Tac("ASSIGN", x, y, Nil, NoName)
Calc(kind, x, y, z) == Tac(kind, x, y, z, NoName)
Use(kind, x) == Tac(kind, Nil, x, Nil, NoName)
Goto(kind, target) == Tac(kind, Nil, Nil, Nil, target)
If(kind, x, y, target) == Tac(kind, Nil, x, y, target)

A == Variable("a")
B == Variable("b")
P == Variable("p")
Q == Variable("q")
One == Number(1)

(* What the optimizer prints for the k-th statement.                       *)
Printed(k) ==
  LET t == Variable(Temp[k][1]) u == Variable(Temp[k][2])
      then == Label[k][1] else == Label[k][2]
  IN {<< Set(A, One) >>,                                          \* a = 1;
      << Set(P, B) >>,                                            \* p = b;
      << Set(t, One), Calc("ADD", B, A, t) >>,                    \* b = a + 1;
      << Set(t, P), Calc("SUB", B, Number(0), t) >>,              \* b = -p;
      << Calc("MUL", A, P, Q) >>,                                 \* a = p * q;
      << Calc("DIV", A, A, B) >>,                                 \* a = a / b;
      << Tac("READ", A, Nil, Nil, NoName) >>,                     \* a = read();
      << Set(t, P), Use("WRITE", t) >>,                           \* write(p);
      << Set(t, B), Use("RETURN", t) >>,                          \* return b;
      << Set(t, A), Set(u, P), Use("ARG", u), Use("ARG", t),
         Tac("CALL", B, Nil, Nil, "f") >>,                        \* b = f(a, p);
      << If("IFLT", A, P, then), Goto("GOTO", else), Goto("LABEL", then),
         Set(P, One), Goto("LABEL", else) >>,            \* if (a < p) p = 1;
      << Use("DEC", Pointer("arr")), Calc("MUL", t, A, Number(4)),
         Calc("ADD", u, Pointer("arr"), t),
         Tac("FETCH", B, u, Nil, NoName) >>}                      \* b = arr[a];

Handwritten ==
  {<< Calc("ADD", A, B, One) >>, << Calc("ADD", A, One, P) >>,
   << Calc("SUB", A, B, One) >>, << Calc("SUB", A, One, P) >>,
   << If("IFEQ", P, One, "l1") >>, << If("IFGE", One, B, "l1") >>,
   << Use("RETURN", One) >>, << Use("RETURN", B) >>, << Use("RETURN", P) >>,
   << Calc("ADDR", A, Pointer("arr"), Nil) >>, << Calc("DIV", A, One, B) >>,
   << Tac("FETCH", A, B, Nil, NoName) >>, << Calc("DEREF", Nil, A, B) >>,
   << Goto("FUNCTION", "g") >>}

Fragments(k) == Printed(k) \cup (IF ByHand THEN Handwritten ELSE {})

(* The lists of up to n fragments.                                         *)
Bodies(n) ==
  LET body[k \in 0..n] ==
        IF k = 0 THEN {<<>>} ELSE {p \o s : p \in body[k - 1], s \in Fragments(k)}
  IN UNION {body[k] : k \in 0..n}

Header == << Goto("FUNCTION", "f"), Use("PARAM", P), Use("PARAM", Q) >>

(* Two RETURNs that nothing follows which restores the registers.          *)
Returns == << Use("RETURN", B), Goto("LABEL", "l1"), Use("RETURN", B) >>

(* A function of two parameters, and a file in which a parameter is last.  *)
MCPrograms ==
  {Header \o p : p \in Bodies(MaxFragments)} \cup
  (IF ByHand THEN {Header \o Returns \o p : p \in Bodies(MaxFragments - 1)} ELSE {})
=============================================================================
