-------------------------- MODULE StraightLineProofs --------------------------
(***************************************************************************)
(* The passes of the optimizer against the meaning of what they rewrite,   *)
(* for every program, every set of names and every width of an int.        *)
(***************************************************************************)
EXTENDS StraightLine, OptimizerProofs, WellFoundedInduction

-----------------------------------------------------------------------------
(* Recursion and induction.                                                *)

(* Induction is by a least counterexample: a set of naturals has a least   *)
(* element.                                                                *)
LEMMA LeastNatural ==
  ASSUME NEW T, T \subseteq Nat, T # {}
  PROVE  \E n \in T : \A m \in T : n <= m
<1>. DEFINE R == {ss \in Nat \X Nat : ss[1] < ss[2]}
<1>1. IsWellFoundedOn(R, Nat)
  BY NatLessThanWellFounded DEF OpToRel
<1>2. \A m, n \in Nat : <<m, n>> \in R <=> m < n
  OBVIOUS
<1>. HIDE DEF R
<1>3. PICK n \in T : \A m \in T : ~ (<<m, n>> \in R)
  BY <1>1, WFMin
<1>4. ASSUME NEW m \in T PROVE n <= m
  <2>1. m \in Nat /\ n \in Nat
    OBVIOUS
  <2>2. ~ (m < n)
    BY <1>2, <1>3, <2>1
  <2>. QED
    BY <2>1, <2>2
<1>. QED
  BY <1>4

LEMMA StepInduction ==
  ASSUME NEW n \in Nat, NEW S, 0 \in S, \A i \in 1..n : i - 1 \in S => i \in S
  PROVE  \A i \in 0..n : i \in S
<1>. DEFINE T == {k \in 0..n : k \notin S}
<1>. SUFFICES ASSUME T # {} PROVE FALSE
  OBVIOUS
<1>1. PICK k \in T : \A m \in T : k <= m
  <2>. T \subseteq Nat
    OBVIOUS
  <2>. HIDE DEF T
  <2>. QED
    BY LeastNatural
<1>2. k \in 1..n /\ k - 1 \in 0..n
  OBVIOUS
<1>3. k - 1 \notin T
  BY <1>1, <1>2
<1>. QED
  BY <1>2, <1>3

Entered(env) == [env |-> env, events |-> <<>>]

(* g is the run of the first k instructions of b.                          *)
StepsTo(g, b, env, k) ==
  g = [i \in 0..k |-> IF i = 0 THEN Entered(env) ELSE Perform(g[i - 1], b[i])]

LEMMA StepsExist ==
  ASSUME NEW b, NEW env, NEW n \in Nat
  PROVE  \E g : StepsTo(g, b, env, n)
<1>. DEFINE T == {k \in 0..n : ~ \E g : StepsTo(g, b, env, k)}
<1>. SUFFICES ASSUME T # {} PROVE FALSE
  OBVIOUS
<1>1. PICK k \in T : \A m \in T : k <= m
  <2>. T \subseteq Nat
    OBVIOUS
  <2>. HIDE DEF T
  <2>. QED
    BY LeastNatural
<1>2. CASE k = 0
  <2>. DEFINE g == [i \in 0..0 |-> Entered(env)]
  <2>1. StepsTo(g, b, env, 0)
    BY DEF StepsTo
  <2>. QED
    BY <1>2, <2>1
<1>3. CASE k # 0
  <2>1. k \in 1..n /\ k - 1 \in 0..n /\ k - 1 \notin T
    BY <1>1, <1>3
  <2>2. PICK g : StepsTo(g, b, env, k - 1)
    BY <2>1
  <2>. DEFINE h == [i \in 0..k |-> IF i = k THEN Perform(g[k - 1], b[k]) ELSE g[i]]
  <2>3. \A i \in 0..k : i # k => i \in 0..k - 1
    BY <2>1
  <2>4. \A i \in 0..k - 1 : h[i] = g[i]
    BY <2>1
  <2>5. \A i \in 0..k - 1 :
          g[i] = IF i = 0 THEN Entered(env) ELSE Perform(g[i - 1], b[i])
    BY <2>2 DEF StepsTo
  <2>6. ASSUME NEW i \in 0..k
        PROVE  h[i] = IF i = 0 THEN Entered(env) ELSE Perform(h[i - 1], b[i])
    <3>1. CASE i = k
      BY <2>1, <2>4, <3>1
    <3>2. CASE i # k
      <4>1. i \in 0..k - 1 /\ (i # 0 => i - 1 \in 0..k - 1)
        BY <2>1, <3>2
      <4>. QED
        BY <2>4, <2>5, <4>1
    <3>. QED
      BY <3>1, <3>2
  <2>7. h = [i \in 0..k |-> h[i]]
    OBVIOUS
  <2>8. StepsTo(h, b, env, k)
    <3>. HIDE DEF h
    <3>. QED
      BY <2>6, <2>7 DEF StepsTo
  <2>. QED
    BY <2>8, <1>1
<1>. QED
  BY <1>2, <1>3

(* The run of a block goes through its instructions one by one.            *)
LEMMA StepsDefined ==
  ASSUME NEW b, NEW env, Len(b) \in Nat
  PROVE  /\ Steps(b, env)[0] = Entered(env)
         /\ \A i \in 1..Len(b) : Steps(b, env)[i] = Perform(Steps(b, env)[i - 1], b[i])
<1>1. PICK g : StepsTo(g, b, env, Len(b))
  BY StepsExist
<1>2. Steps(b, env) = CHOOSE st : StepsTo(st, b, env, Len(b))
  BY DEF Steps, StepsTo, Entered
<1>3. StepsTo(Steps(b, env), b, env, Len(b))
  BY <1>1, <1>2
<1>. HIDE DEF Steps
<1>. QED
  BY <1>3 DEF StepsTo

LEMMA StepsStart ==
  ASSUME NEW b \in Seq(Instructions), NEW env
  PROVE  Steps(b, env)[0].env = env /\ Steps(b, env)[0].events = <<>>
<1>1. Len(b) \in Nat
  OBVIOUS
<1>2. Steps(b, env)[0] = Entered(env)
  BY <1>1, StepsDefined
<1>. QED
  BY <1>2 DEF Entered

(* A block that begins like another one runs like it as long as it does.   *)
LEMMA StepsPrefix ==
  ASSUME NEW b \in Seq(Instructions), NEW c \in Seq(Instructions), NEW env,
         NEW n \in 0..Len(b), n <= Len(c), \A i \in 1..n : b[i] = c[i]
  PROVE  Steps(b, env)[n] = Steps(c, env)[n]
<1>. DEFINE S == {i \in 0..n : Steps(b, env)[i] = Steps(c, env)[i]}
<1>0. Len(b) \in Nat /\ Len(c) \in Nat /\ n \in Nat
  OBVIOUS
<1>1. 0 \in S
  BY <1>0, StepsDefined
<1>2. ASSUME NEW i \in 1..n, i - 1 \in S
      PROVE  i \in S
  <2>1. i \in 1..Len(b) /\ i \in 1..Len(c) /\ i \in 0..n
    BY <1>0
  <2>2. /\ Steps(b, env)[i] = Perform(Steps(b, env)[i - 1], b[i])
        /\ Steps(c, env)[i] = Perform(Steps(c, env)[i - 1], c[i])
    BY <1>0, <2>1, StepsDefined
  <2>. QED
    BY <1>2, <2>1, <2>2
<1>. HIDE DEF S
<1>3. n \in S
  <2>1. n \in 0..n
    BY <1>0
  <2>2. \A i \in 0..n : i \in S
    BY <1>0, <1>1, <1>2, StepInduction
  <2>. QED
    BY <2>1, <2>2
<1>. QED
  BY <1>3 DEF S

LEMMA RunEmpty ==
  ASSUME NEW env
  PROVE  Run(<<>>, env) = Steps(<<>>, env)[0]
BY DEF Run

LEMMA RunAppend ==
  ASSUME NEW b \in Seq(Instructions), NEW ins \in Instructions, NEW env
  PROVE  Run(Append(b, ins), env) = Perform(Run(b, env), ins)
<1>. DEFINE c == Append(b, ins)
<1>1. /\ c \in Seq(Instructions) /\ Len(c) = Len(b) + 1 /\ Len(b) \in Nat
      /\ c[Len(c)] = ins /\ \A i \in 1..Len(b) : c[i] = b[i]
  OBVIOUS
<1>. HIDE DEF c
<1>2. Steps(c, env)[Len(c)] = Perform(Steps(c, env)[Len(c) - 1], c[Len(c)])
  BY <1>1, StepsDefined
<1>3. Steps(b, env)[Len(b)] = Steps(c, env)[Len(b)]
  BY <1>1, StepsPrefix
<1>4. Len(c) - 1 = Len(b)
  BY <1>1
<1>5. Run(c, env) = Perform(Run(b, env), ins)
  BY <1>1, <1>2, <1>3, <1>4 DEF Run
<1>. QED
  BY <1>5 DEF c

-----------------------------------------------------------------------------
(* The values of names, and what is shown.                                 *)

Environments == [Names -> Int]

LEMMA WrapIsInt == ASSUME NEW x \in Int PROVE Wrap(x) \in Int
BY WrapInRange, IntAssumption DEF IntW

LEMMA ApplyIsInt ==
  ASSUME NEW relation \in {"+", "-", "*", "/"}, NEW x \in Int, NEW y \in Int
  PROVE  Apply(relation, x, y) \in Int
<1>1. x + y \in Int /\ x - y \in Int
  OBVIOUS
<1>2. Wrap(x + y) \in Int /\ Wrap(x - y) \in Int
  BY <1>1, WrapIsInt
<1>3. x * y \in Int
  OBVIOUS
<1>4. Wrap(x * y) \in Int
  BY <1>3, WrapIsInt
<1>5. y # 0 => Wrap(Quotient(x, y)) \in Int
  BY QuotientInt, WrapIsInt
<1>. QED
  BY <1>1, <1>2, <1>4, <1>5 DEF Apply

LEMMA AfterType ==
  ASSUME NEW env \in Environments, NEW ins \in Instructions
  PROVE  After(env, ins) \in Environments
<1>1. WellFormed(ins) /\ ins.kind \in Kinds /\ ins.value \in Int
  BY InstructionFields
<1>2. Outside \in Environments
  BY StartsAssumption, IntAssumption DEF Environments, IntW
<1>3. \A n, v : v \in Int => [env EXCEPT ![n] = v] \in Environments
  BY DEF Environments
<1>4. \A n \in Names : env[n] \in Int
  BY DEF Environments
<1>5. \A n : n \notin Names => [env EXCEPT ![n] = Outside[n]] \in Environments
  BY DEF Environments
<1>6. \A n \in Names : Outside[n] \in Int
  BY <1>2 DEF Environments
<1>7. \A n : [env EXCEPT ![n] = Outside[n]] \in Environments
  BY <1>3, <1>5, <1>6
<1>8. CASE ins.kind = "CONSTANT"
  BY <1>1, <1>3, <1>8 DEF After
<1>9. CASE ins.kind = "ASSIGN"
  BY <1>1, <1>3, <1>4, <1>9 DEF After, WellFormed
<1>10. CASE ins.kind = "BINARY"
  <2>1. Wrap(4) \in Int
    BY WrapIsInt
  <2>2. \A n \in Names \cup {ElementSize} : Value(env, n) \in Int
    BY <1>4, <2>1 DEF Value
  <2>3. Apply(ins.relation, Value(env, ins.op1), Value(env, ins.op2)) \in Int
    BY <1>1, <1>10, <2>2, ApplyIsInt DEF WellFormed
  <2>. QED
    BY <1>3, <1>10, <2>3 DEF After
<1>11. CASE ins.kind = "MINUS"
  <2>1. env[ins.op1] \in Int
    BY <1>1, <1>4, <1>11 DEF WellFormed
  <2>2. Wrap(-env[ins.op1]) \in Int
    BY <2>1, WrapIsInt
  <2>. QED
    BY <1>3, <1>11, <2>2 DEF After
<1>12. CASE ins.kind = "ARRAY_OFFSET"
  <2>1. ins.op1 \in Names /\ ins.op2 \in Names
    BY <1>1, <1>12, NamesAssumption DEF WellFormed, Names
  <2>2. env[ins.op1] + env[ins.op2] \in Int
    BY <1>4, <2>1
  <2>3. Wrap(env[ins.op1] + env[ins.op2]) \in Int
    BY <2>2, WrapIsInt
  <2>. QED
    BY <1>3, <1>12, <2>3 DEF After
<1>13. CASE ins.kind \in {"READ", "PARAM", "GET_VALUE_IN_ADDRESS"}
  BY <1>7, <1>13 DEF After
<1>14. CASE ins.kind = "CALL"
  BY <1>4, <1>6, <1>14 DEF After, Environments
<1>15. CASE ins.kind = "FUNCTION"
  BY <1>2, <1>15 DEF After
<1>16. CASE ins.kind \in {"WRITE", "ARG", "RETURN", "LABEL", "GOTO", "IF_GOTO",
                          "DEC", "ASSIGN_VALUE_IN_ADDRESS"}
  BY <1>16 DEF After
<1>. QED
  BY <1>1, <1>8, <1>9, <1>10, <1>11, <1>12, <1>13, <1>14, <1>15, <1>16 DEF Kinds

(* What instructions show, one by one.                                     *)
Shown == {Event(env, ins)[1] : env \in Environments, ins \in Instructions}

LEMMA EventType ==
  ASSUME NEW env \in Environments, NEW ins \in Instructions
  PROVE  Event(env, ins) \in Seq(Shown)
<1>1. Event(env, ins)[1] \in Shown
  BY DEF Shown
<1>2. Event(env, ins) = <<>> \/ Event(env, ins) = <<Event(env, ins)[1]>>
  BY DEF Event
<1>. HIDE DEF Event, Shown
<1>3. <<Event(env, ins)[1]>> \in Seq(Shown) /\ <<>> \in Seq(Shown)
  BY <1>1
<1>. QED
  BY <1>2, <1>3

StateType(st) == st.env \in Environments /\ st.events \in Seq(Shown)

LEMMA PerformType ==
  ASSUME NEW st, StateType(st), NEW ins \in Instructions
  PROVE  StateType(Perform(st, ins))
<1>1. Event(st.env, ins) \in Seq(Shown) /\ After(st.env, ins) \in Environments
  BY EventType, AfterType DEF StateType
<1>2. st.events \o Event(st.env, ins) \in Seq(Shown)
  BY <1>1 DEF StateType
<1>. QED
  BY <1>1, <1>2 DEF StateType, Perform

LEMMA StepsType ==
  ASSUME NEW b \in Seq(Instructions), NEW env \in Environments, NEW n \in 0..Len(b)
  PROVE  StateType(Steps(b, env)[n])
<1>. DEFINE S == {i \in 0..Len(b) : StateType(Steps(b, env)[i])}
<1>0. Len(b) \in Nat
  OBVIOUS
<1>1. 0 \in S
  <2>1. Steps(b, env)[0].env = env /\ Steps(b, env)[0].events = <<>>
    BY StepsStart
  <2>2. StateType(Steps(b, env)[0])
    BY <2>1 DEF StateType
  <2>. QED
    BY <1>0, <2>2
<1>2. ASSUME NEW i \in 1..Len(b), i - 1 \in S
      PROVE  i \in S
  <2>1. b[i] \in Instructions /\ i \in 0..Len(b)
    BY <1>0
  <2>2. Steps(b, env)[i] = Perform(Steps(b, env)[i - 1], b[i])
    BY <1>0, StepsDefined
  <2>. QED
    BY <1>2, <2>1, <2>2, PerformType
<1>. HIDE DEF S
<1>3. \A i \in 0..Len(b) : i \in S
  BY <1>0, <1>1, <1>2, StepInduction
<1>. QED
  BY <1>3 DEF S

(* An instruction that is no copy changes only the names it overwrites.    *)
LEMMA AfterChanges ==
  ASSUME NEW env \in Environments, NEW ins \in Instructions,
         ins.kind \notin {"CONSTANT", "ASSIGN"}, NEW n \in Names \ Overwrites(ins)
  PROVE  After(env, ins)[n] = env[n]
<1>1. ins.kind \in Kinds
  BY InstructionFields
<1>2. \A m, v : m # n => [env EXCEPT ![m] = v][n] = env[n]
  BY DEF Environments
<1>3. CASE ins.kind \in {"BINARY", "MINUS", "ARRAY_OFFSET", "GET_VALUE_IN_ADDRESS"}
  <2>1. ins.result # n
    BY <1>3 DEF Overwrites
  <2>. QED
    BY <1>2, <1>3, <2>1 DEF After
<1>4. CASE ins.kind \in {"READ", "PARAM"}
  <2>1. ins.op1 # n
    BY <1>4 DEF Overwrites
  <2>. QED
    BY <1>2, <1>4, <2>1 DEF After
<1>5. CASE ins.kind = "CALL"
  BY <1>5 DEF After, Overwrites
<1>6. CASE ins.kind = "FUNCTION"
  BY <1>6 DEF Overwrites
<1>7. CASE ins.kind \in {"WRITE", "ARG", "RETURN", "LABEL", "GOTO", "IF_GOTO",
                         "DEC", "ASSIGN_VALUE_IN_ADDRESS"}
  BY <1>7 DEF After
<1>. QED
  BY <1>1, <1>3, <1>4, <1>5, <1>6, <1>7 DEF Kinds

-----------------------------------------------------------------------------
(* Constant propagation.                                                   *)

(* The names that map holds constant have the values it says.              *)
Agrees(env, map) == \A n \in Names : map[n] # Unknown => env[n] = map[n]

(* The rewritten part of a block does what the instructions it was         *)
(* rewritten from do, and const_map holds values it leaves behind.         *)
Follows ==
  \A env \in Starts :
    /\ Run(block, env) = Steps(blocks[bi], env)[pos - 1]
    /\ Agrees(Run(block, env).env, const_map)

PropMeaning ==
  phase = "prop" =>
    /\ Len(before) = Len(blocks)
    /\ \A k \in 1..Len(blocks) :
         /\ k < bi /\ KeepsConstants(blocks[k]) => Equivalent(before[k], blocks[k], Names)
         /\ k >= bi => blocks[k] = before[k]
    /\ bi <= Len(blocks) /\ KeepsConstants(block) => Follows

LEMMA KeepsConstantsPrefix ==
  ASSUME NEW b \in Seq(Instructions), NEW ins \in Instructions,
         KeepsConstants(Append(b, ins))
  PROVE  KeepsConstants(b)
<1>. DEFINE c == Append(b, ins)
<1>1. Len(c) = Len(b) + 1 /\ Len(b) \in Nat /\ \A i \in 1..Len(b) : c[i] = b[i]
  OBVIOUS
<1>. HIDE DEF c
<1>2. SUFFICES ASSUME NEW i \in 1..Len(b), NEW j \in 1..Len(b), i < j,
                      b[i].kind = "CONSTANT", b[i].op1 \in Overwrites(b[j])
               PROVE  \E m \in i + 1..j - 1 : b[m].kind = "ASSIGN" /\ b[m].op1 = b[i].op1
  BY DEF KeepsConstants
<1>3. i \in 1..Len(c) /\ j \in 1..Len(c) /\ c[i] = b[i] /\ c[j] = b[j]
  BY <1>1
<1>4. KeepsConstants(c)
  BY DEF c
<1>5. PICK m \in i + 1..j - 1 : c[m].kind = "ASSIGN" /\ c[m].op1 = c[i].op1
  BY <1>2, <1>3, <1>4 DEF KeepsConstants
<1>6. m \in 1..Len(b)
  BY <1>1
<1>. QED
  BY <1>1, <1>3, <1>5, <1>6

(* A step that appends an instruction which does the same as the one it    *)
(* stands for, where the names have the values in const_map.               *)
LEMMA PropStep ==
  ASSUME TypeOK, BlockInv, PropMeaning, PropContinues,
         NEW ins \in Instructions, block' = Append(block, ins),
         ASSUME NEW env \in Environments, Agrees(env, const_map)
         PROVE  /\ After(env, ins) = After(env, Current)
                /\ Event(env, ins) = Event(env, Current),
         ASSUME NEW env \in Environments, Agrees(env, const_map), KeepsConstants(block')
         PROVE  Agrees(After(env, ins), const_map')
  PROVE  PropMeaning'
<1>1. /\ phase = "prop" /\ phase' = "prop" /\ blocks' = blocks /\ before' = before
      /\ bi' = bi /\ pos' = pos + 1 /\ bi \in 1..Len(blocks) /\ pos \in 1..Len(blocks[bi])
      /\ blocks[bi] \in Seq(Instructions) /\ block \in Seq(Instructions)
      /\ Current = blocks[bi][pos] /\ Current \in Instructions
  BY CurrentInstruction DEF PropContinues, TypeOK, Current
<1>2. ASSUME KeepsConstants(block'), NEW env \in Starts
      PROVE  /\ Run(block', env) = Steps(blocks[bi], env)[pos]
             /\ Agrees(Run(block', env).env, const_map')
  <2>. DEFINE st == Run(block, env)
  <2>1. st = Steps(blocks[bi], env)[pos - 1] /\ Agrees(st.env, const_map)
    BY <1>1, <1>2, KeepsConstantsPrefix DEF PropMeaning, Follows
  <2>2. st.env \in Environments
    <3>1. env \in Environments /\ pos - 1 \in 0..Len(blocks[bi])
      BY <1>1, StartsAssumption, IntAssumption DEF Environments, IntW
    <3>. QED
      BY <1>1, <2>1, <3>1, StepsType DEF StateType
  <2>3. Run(block', env) = Perform(st, ins)
    BY <1>1, RunAppend
  <2>. HIDE DEF st
  <2>4. /\ After(st.env, ins) = After(st.env, Current)
        /\ Event(st.env, ins) = Event(st.env, Current)
    BY <2>1, <2>2
  <2>5. Perform(st, ins) = Perform(st, Current)
    BY <2>4 DEF Perform
  <2>6. Steps(blocks[bi], env)[pos] = Perform(st, Current)
    <3>1. Len(blocks[bi]) \in Nat
      BY <1>1
    <3>. QED
      BY <1>1, <2>1, <3>1, StepsDefined
  <2>7. Agrees(After(st.env, ins), const_map')
    BY <1>2, <2>1, <2>2
  <2>8. Run(block', env).env = After(st.env, ins)
    BY <2>3 DEF Perform
  <2>. QED
    BY <2>3, <2>5, <2>6, <2>7, <2>8
<1>3. KeepsConstants(block') => Follows'
  BY <1>1, <1>2 DEF Follows
<1>. QED
  BY <1>1, <1>3 DEF PropMeaning

(* Setting a name to a constant, in const_map and in the block.            *)
LEMMA RecordStep ==
  ASSUME TypeOK, BlockInv, PropMeaning, PropContinues,
         NEW name \in Names \ AddrTemps, NEW value \in IntW, Record(name, value),
         ASSUME NEW env \in Environments, Agrees(env, const_map)
         PROVE  /\ After(env, Current) = [env EXCEPT ![name] = value]
                /\ Event(env, Current) = <<>>
  PROVE  PropMeaning'
<1>. DEFINE ins == Constant(name, value)
<1>1. ins \in Instructions /\ block' = Append(block, ins)
  BY ConstantInstruction DEF Record
<1>2. ASSUME NEW env
      PROVE  After(env, ins) = [env EXCEPT ![name] = value] /\ Event(env, ins) = <<>>
  BY DEF Constant, Ins, After, Event
<1>3. ASSUME NEW env \in Environments, Agrees(env, const_map)
      PROVE  Agrees([env EXCEPT ![name] = value], const_map')
  <2>1. const_map' = [const_map EXCEPT ![name] = value]
    BY DEF Record
  <2>. QED
    BY <1>3, <2>1 DEF Agrees, Environments, TypeOK
<1>. HIDE DEF ins
<1>. QED
  BY <1>1, <1>2, <1>3, PropStep

(* A folded operation has the value of the operation.                      *)
LEMMA FoldIsApply ==
  ASSUME NEW relation \in {"+", "-", "*", "/"}, NEW x, NEW y,
         ~ (relation = "/" /\ y = 0)
  PROVE  Fold(relation, x, y) = Apply(relation, x, y)
BY DEF Fold, Apply

(* An instruction that is copied unexamined leaves a name of const_map     *)
(* alone, if the block it is appended to keeps its constants.              *)
LEMMA CopyKeepsConstant ==
  ASSUME TypeOK, PropInv, phase = "prop", NEW ins \in Instructions,
         KeepsConstants(Append(block, ins)), NEW n \in Names, Known(n)
  PROVE  n \notin Overwrites(ins)
<1>. DEFINE c == Append(block, ins)
<1>1. /\ Len(c) = Len(block) + 1 /\ Len(block) \in Nat /\ c[Len(c)] = ins
      /\ \A i \in 1..Len(block) : c[i] = block[i]
  BY DEF TypeOK
<1>. HIDE DEF c
<1>2. PICK j \in 1..Len(block) :
        /\ block[j] = Constant(n, const_map[n])
        /\ \A m \in j + 1..Len(block) :
             Defined(block[m]) = n => block[m].kind \notin {"CONSTANT", "ASSIGN"}
  BY DEF PropInv, ConstMapFromLastCopy
<1>3. SUFFICES ASSUME n \in Overwrites(ins) PROVE FALSE
  OBVIOUS
<1>4. c[j].kind = "CONSTANT" /\ c[j].op1 = n
  <2>1. c[j] = Constant(n, const_map[n])
    BY <1>1, <1>2
  <2>2. \A v : Constant(n, v).kind = "CONSTANT" /\ Constant(n, v).op1 = n
    BY DEF Constant, Ins
  <2>. QED
    BY <2>1, <2>2
<1>5. j \in 1..Len(c) /\ Len(c) \in 1..Len(c) /\ j < Len(c)
  BY <1>1
<1>6. PICK m \in j + 1..Len(c) - 1 : c[m].kind = "ASSIGN" /\ c[m].op1 = n
  BY <1>1, <1>3, <1>4, <1>5 DEF KeepsConstants, c
<1>7. m \in j + 1..Len(block) /\ c[m] = block[m]
  BY <1>1
<1>8. Defined(block[m]) = n /\ block[m].kind = "ASSIGN"
  BY <1>6, <1>7 DEF Defined
<1>. QED
  BY <1>2, <1>7, <1>8

LEMMA PropagateMeaning ==
  ASSUME TypeOK, BlockInv, PropInv, PropMeaning, Propagate PROVE PropMeaning'
<1>1. PropContinues => Current \in Instructions /\ WellFormed(Current) /\ phase = "prop"
  BY CurrentInstruction, InstructionFields DEF PropContinues, TypeOK
<1>2. \A n \in Names : Known(n) => const_map[n] \in IntW
  BY DEF Known, TypeOK
<1>3. CASE PropConstant
  <2>1. /\ Current.op1 \in Names \ AddrTemps /\ Current.value \in IntW
        /\ PropContinues /\ Record(Current.op1, Current.value)
    BY <1>1, <1>3 DEF PropConstant, WellFormed
  <2>2. ASSUME NEW env \in Environments, Agrees(env, const_map)
        PROVE  /\ After(env, Current) = [env EXCEPT ![Current.op1] = Current.value]
               /\ Event(env, Current) = <<>>
    BY <1>3 DEF PropConstant, After, Event
  <2>. QED
    BY <2>1, <2>2, RecordStep
<1>4. CASE PropAssignKnown
  <2>1. /\ Current.op1 \in Names \ AddrTemps /\ Current.op2 \in Names
        /\ const_map[Current.op2] \in IntW /\ const_map[Current.op2] # Unknown
        /\ PropContinues /\ Record(Current.op1, const_map[Current.op2])
    BY <1>1, <1>2, <1>4 DEF PropAssignKnown, WellFormed, Known
  <2>2. ASSUME NEW env \in Environments, Agrees(env, const_map)
        PROVE  /\ After(env, Current) = [env EXCEPT ![Current.op1] = const_map[Current.op2]]
               /\ Event(env, Current) = <<>>
    <3>1. env[Current.op2] = const_map[Current.op2]
      BY <2>1, <2>2 DEF Agrees
    <3>. QED
      BY <1>4, <3>1 DEF PropAssignKnown, After, Event
  <2>. QED
    BY <2>1, <2>2, RecordStep
<1>5. CASE PropFold
  <2>. DEFINE x == const_map[Current.op1]
              y == const_map[Current.op2]
  <2>1. /\ Current.result \in Names \ AddrTemps /\ Current.op1 \in Names
        /\ Current.op2 \in Names /\ Current.relation \in {"+", "-", "*", "/"}
        /\ x \in IntW /\ y \in IntW /\ x # Unknown /\ y # Unknown
        /\ ~ (Current.relation = "/" /\ y = 0) /\ Current.kind = "BINARY"
        /\ PropContinues /\ Record(Current.result, Fold(Current.relation, x, y))
    BY <1>1, <1>2, <1>5 DEF PropFold, Foldable, DividesByZero, Known, WellFormed
  <2>. HIDE DEF x, y
  <2>2. Fold(Current.relation, x, y) \in IntW
    BY <2>1, FoldInRange
  <2>3. ASSUME NEW env \in Environments, Agrees(env, const_map)
        PROVE  /\ After(env, Current)
                    = [env EXCEPT ![Current.result] = Fold(Current.relation, x, y)]
               /\ Event(env, Current) = <<>>
    <3>1. env[Current.op1] = x /\ env[Current.op2] = y
      BY <2>1, <2>3 DEF Agrees, x, y
    <3>2. Value(env, Current.op1) = x /\ Value(env, Current.op2) = y
      BY <2>1, <3>1, NamesAssumption DEF Value
    <3>3. Apply(Current.relation, x, y) = Fold(Current.relation, x, y)
      BY <2>1, FoldIsApply
    <3>. QED
      BY <2>1, <3>2, <3>3 DEF After, Event
  <2>. QED
    BY <2>1, <2>2, <2>3, RecordStep
<1>6. CASE PropAssignUnknown
  <2>1. /\ Current.op1 \in Names /\ Current.kind = "ASSIGN" /\ PropContinues
        /\ block' = Append(block, Current) /\ Current \in Instructions
        /\ const_map' = [const_map EXCEPT ![Current.op1] = Unknown]
    BY <1>1, <1>6 DEF PropAssignUnknown, WellFormed
  <2>2. ASSUME NEW env \in Environments, Agrees(env, const_map)
        PROVE  Agrees(After(env, Current), const_map')
    BY <2>1, <2>2 DEF After, Agrees, Environments, TypeOK
  <2>. QED
    BY <2>1, <2>2, PropStep
<1>7. CASE PropCopy
  <2>1. /\ Current.kind \notin {"CONSTANT", "ASSIGN"} /\ PropContinues
        /\ block' = Append(block, Current) /\ Current \in Instructions
        /\ const_map' = const_map /\ phase = "prop"
    BY <1>1, <1>7 DEF PropCopy
  <2>2. ASSUME NEW env \in Environments, Agrees(env, const_map), KeepsConstants(block')
        PROVE  Agrees(After(env, Current), const_map')
    <3>1. ASSUME NEW n \in Names, const_map[n] # Unknown
          PROVE  After(env, Current)[n] = const_map[n]
      <4>1. n \notin Overwrites(Current)
        BY <2>1, <2>2, <3>1, CopyKeepsConstant DEF Known
      <4>2. After(env, Current)[n] = env[n]
        BY <2>1, <4>1, AfterChanges
      <4>. QED
        BY <2>2, <3>1, <4>2 DEF Agrees
    <3>. QED
      BY <2>1, <3>1 DEF Agrees
  <2>. QED
    BY <2>1, <2>2, PropStep
<1>8. CASE PropBlockEnd
  <2>1. /\ phase = "prop" /\ phase' = "prop" /\ before' = before /\ bi \in 1..Len(blocks)
        /\ bi' = bi + 1 /\ pos' = 1 /\ block' = <<>> /\ const_map' = NoConstants
        /\ blocks' = [blocks EXCEPT ![bi] = block] /\ blocks \in Seq(Seq(Instructions))
        /\ pos - 1 = Len(blocks[bi]) /\ Len(before) = Len(blocks)
        /\ blocks[bi] = before[bi]
    BY <1>8 DEF PropBlockEnd, TypeOK, BlockInv, PropMeaning
  <2>2. /\ Len(blocks') = Len(blocks) /\ Len(blocks) \in Nat
        /\ \A k \in 1..Len(blocks) : blocks'[k] = IF k = bi THEN block ELSE blocks[k]
    BY <2>1
  <2>3. KeepsConstants(block) => Equivalent(before[bi], block, Names)
    <3>1. KeepsConstants(block) => Follows
      BY <2>1 DEF PropMeaning
    <3>. QED
      BY <2>1, <3>1 DEF Follows, Equivalent, Run
  <2>4. ASSUME NEW k \in 1..Len(blocks')
        PROVE  /\ k < bi' /\ KeepsConstants(blocks'[k]) =>
                     Equivalent(before[k], blocks'[k], Names)
               /\ k >= bi' => blocks'[k] = before[k]
    <3>1. CASE k = bi
      BY <2>1, <2>2, <2>3, <3>1
    <3>2. CASE k # bi
      BY <2>1, <2>2, <3>2 DEF PropMeaning
    <3>. QED
      BY <3>1, <3>2
  <2>5. ASSUME bi' <= Len(blocks'), NEW env \in Starts
        PROVE  /\ Run(block', env) = Steps(blocks'[bi'], env)[pos' - 1]
               /\ Agrees(Run(block', env).env, const_map')
    <3>1. blocks'[bi'] \in Seq(Instructions)
      BY <2>1, <2>2, <2>5
    <3>2. Steps(blocks'[bi'], env)[0] = Entered(env) /\ Run(<<>>, env) = Entered(env)
      <4>1. Len(blocks'[bi']) \in Nat /\ Len(<<>>) \in Nat
        BY <3>1
      <4>. QED
        BY <4>1, StepsDefined, RunEmpty
    <3>3. Agrees(Run(block', env).env, const_map')
      BY <2>1 DEF Agrees, NoConstants
    <3>. QED
      BY <2>1, <3>2, <3>3
  <2>6. bi' <= Len(blocks') => Follows'
    BY <2>5 DEF Follows
  <2>. QED
    BY <2>1, <2>2, <2>4, <2>6 DEF PropMeaning
<1>9. CASE PropDivisionTraps \/ PropLiteralTooLarge \/ StartElimination
  BY <1>9 DEF PropDivisionTraps, PropLiteralTooLarge, StartElimination, PropMeaning
<1>. QED
  BY <1>3, <1>4, <1>5, <1>6, <1>7, <1>8, <1>9 DEF Propagate

LEMMA NextPropMeaning ==
  TypeOK /\ BlockInv /\ PropInv /\ PropMeaning /\ [Next]_vars => PropMeaning'
<1>. SUFFICES ASSUME TypeOK, BlockInv, PropInv, PropMeaning, [Next]_vars
              PROVE  PropMeaning'
  OBVIOUS
<1>1. CASE StartPropagation
  <2>1. /\ phase' = "prop" /\ bi' = 1 /\ pos' = 1 /\ block' = <<>> /\ before' = blocks
        /\ blocks' = blocks /\ const_map' = NoConstants /\ blocks \in Seq(Seq(Instructions))
        /\ 1 \in 1..Len(blocks)
    BY <1>1 DEF StartPropagation, PropInv, TypeOK
  <2>2. ASSUME NEW env \in Starts
        PROVE  /\ Run(block', env) = Steps(blocks'[bi'], env)[pos' - 1]
               /\ Agrees(Run(block', env).env, const_map')
    <3>1. Len(blocks[1]) \in Nat /\ Len(<<>>) \in Nat
      BY <2>1
    <3>2. Steps(blocks[1], env)[0] = Entered(env) /\ Run(<<>>, env) = Entered(env)
      BY <3>1, StepsDefined, RunEmpty
    <3>3. Agrees(Run(block', env).env, const_map')
      BY <2>1 DEF Agrees, NoConstants
    <3>. QED
      BY <2>1, <3>2, <3>3
  <2>3. Follows'
    BY <2>2 DEF Follows
  <2>. QED
    BY <2>1, <2>3 DEF PropMeaning
<1>2. CASE Generate \/ GiveUp \/ Eliminate \/ Concatenate \/ Return
  <2>1. phase' # "prop"
    BY <1>2 DEF Generate, GenFirst, GenLabel, GenJump, GenOther, GenContinues, GenEnd,
       GiveUp, Eliminate, DceUserVariable, DceLiveCopy, DceDeadCopy, DceLiveBinary,
       DceDeadBinary, DceRead, DceOther, DceContinues, DceScanned, Keep, DceBlockEnd,
       Concatenate, Return
  <2>. QED
    BY <2>1 DEF PropMeaning
<1>3. CASE UNCHANGED vars
  BY <1>3 DEF vars, PropMeaning, Follows
<1>. QED
  BY <1>1, <1>2, <1>3, PropagateMeaning DEF Next, Check

(* For every program: a block that never overwrites a constant unnoticed   *)
(* shows the same events and leaves the same values in every name once its *)
(* constants are propagated and its operations folded.                     *)
THEOREM PropagationKeepsMeaning == Spec => []PropagationPreservesWhenKept
<1>1. Init => TypeOK /\ BlockInv /\ PropInv /\ PropMeaning
  <2>1. Init => PropMeaning
    BY DEF Init, PropMeaning
  <2>. QED
    BY <2>1, InitTypeOK, InitBlockInv, InitPropInv
<1>2. TypeOK /\ BlockInv /\ PropInv /\ PropMeaning /\ [Next]_vars
        => (TypeOK /\ BlockInv /\ PropInv /\ PropMeaning)'
  BY NextTypeOK, NextBlockInv, NextPropInv, NextPropMeaning
<1>3. TypeOK /\ PropMeaning => PropagationPreservesWhenKept
  BY DEF PropMeaning, PropagationPreservesWhenKept, Propagated, TypeOK
<1>. QED
  BY <1>1, <1>2, <1>3, PTL DEF Spec

-----------------------------------------------------------------------------
(* Dead code elimination.                                                  *)

(* Names no instruction that is removed assigns.                           *)
Base == Vars \cup AddrTemps

SameOn(e, f, W) == \A n \in Names \cap W : e[n] = f[n]

(* An instruction may be kept, or removed if gone, when the names read     *)
(* further down are those of W behind it and those of V in front of it.    *)
Safe(ins, gone, V, W) ==
  IF gone
  THEN /\ ins.kind \in Copies
       /\ Defined(ins) \notin Base \cup W
       /\ W \subseteq V
  ELSE /\ W \subseteq V \cup {Defined(ins)}
       /\ \/ Names \cap Read(ins) \subseteq Base \cup V
          \/ ins.kind = "BINARY" /\ Defined(ins) \notin Base \cup W

(* A copy or an operation sets one name and shows nothing.                 *)
LEMMA SetsOneName ==
  ASSUME NEW env \in Environments, NEW ins \in Instructions,
         ins.kind \in Copies \cup {"BINARY"}
  PROVE  /\ Event(env, ins) = <<>>
         /\ \A n \in Names : n # Defined(ins) => After(env, ins)[n] = env[n]
<1>1. \A m, v : \A n \in Names : n # m => [env EXCEPT ![m] = v][n] = env[n]
  BY DEF Environments
<1>2. CASE ins.kind \in {"CONSTANT", "ASSIGN"}
  BY <1>1, <1>2 DEF Event, After, Defined
<1>3. CASE ins.kind \in {"MINUS", "BINARY"}
  BY <1>1, <1>3 DEF Event, After, Defined
<1>. QED
  BY <1>2, <1>3 DEF Copies

(* Two runs that agree on what an instruction reads see it show and assign *)
(* the same.                                                               *)
LEMMA SameReads ==
  ASSUME NEW e \in Environments, NEW f \in Environments, NEW ins \in Instructions,
         NEW W, Names \cap Read(ins) \subseteq Base \cup W, SameOn(e, f, Base \cup W)
  PROVE  /\ Event(e, ins) = Event(f, ins)
         /\ \A n \in Names : n = Defined(ins) \/ e[n] = f[n] =>
              After(e, ins)[n] = After(f, ins)[n]
<1>1. WellFormed(ins) /\ ins.kind \in Kinds
  BY InstructionFields
<1>2. \A n \in Names : n \in Read(ins) => e[n] = f[n]
  BY DEF SameOn
<1>3. Base \subseteq Names /\ \A n \in Base : e[n] = f[n]
  BY NamesAssumption DEF Base, Names, SameOn
<1>4. ASSUME NEW m, NEW v, Defined(ins) = m,
             After(e, ins) = [e EXCEPT ![m] = v], After(f, ins) = [f EXCEPT ![m] = v]
      PROVE  \A n \in Names :
               n = Defined(ins) \/ e[n] = f[n] => After(e, ins)[n] = After(f, ins)[n]
  BY <1>4 DEF Environments
<1>5. CASE ins.kind = "CONSTANT"
  <2>1. /\ Defined(ins) = ins.op1 /\ After(e, ins) = [e EXCEPT ![ins.op1] = ins.value]
        /\ After(f, ins) = [f EXCEPT ![ins.op1] = ins.value]
    BY <1>5 DEF Defined, After
  <2>2. Event(e, ins) = Event(f, ins)
    BY <1>5 DEF Event
  <2>. QED
    BY <1>4, <2>1, <2>2
<1>6. CASE ins.kind = "ASSIGN"
  <2>1. e[ins.op2] = f[ins.op2]
    BY <1>1, <1>2, <1>6 DEF WellFormed, Read
  <2>2. /\ Defined(ins) = ins.op1 /\ After(e, ins) = [e EXCEPT ![ins.op1] = f[ins.op2]]
        /\ After(f, ins) = [f EXCEPT ![ins.op1] = f[ins.op2]]
    BY <1>6, <2>1 DEF Defined, After
  <2>3. Event(e, ins) = Event(f, ins)
    BY <1>6, <2>1 DEF Event
  <2>. QED
    BY <1>4, <2>2, <2>3
<1>7. CASE ins.kind = "BINARY"
  <2>. DEFINE v == Apply(ins.relation, Value(f, ins.op1), Value(f, ins.op2))
  <2>1. Value(e, ins.op1) = Value(f, ins.op1) /\ Value(e, ins.op2) = Value(f, ins.op2)
    BY <1>1, <1>2, <1>7 DEF WellFormed, Read, Value
  <2>2. /\ Defined(ins) = ins.result /\ After(e, ins) = [e EXCEPT ![ins.result] = v]
        /\ After(f, ins) = [f EXCEPT ![ins.result] = v]
    BY <1>7, <2>1 DEF Defined, After
  <2>3. Event(e, ins) = Event(f, ins)
    BY <1>7 DEF Event
  <2>. QED
    BY <1>4, <2>2, <2>3
<1>8. CASE ins.kind = "MINUS"
  <2>1. e[ins.op1] = f[ins.op1]
    BY <1>1, <1>2, <1>8 DEF WellFormed, Read
  <2>2. /\ Defined(ins) = ins.result /\ After(e, ins) = [e EXCEPT ![ins.result] = Wrap(-f[ins.op1])]
        /\ After(f, ins) = [f EXCEPT ![ins.result] = Wrap(-f[ins.op1])]
    BY <1>8, <2>1 DEF Defined, After
  <2>3. Event(e, ins) = Event(f, ins)
    BY <1>8, <2>1 DEF Event
  <2>. QED
    BY <1>4, <2>2, <2>3
<1>9. CASE ins.kind = "ARRAY_OFFSET"
  <2>1. e[ins.op1] = f[ins.op1] /\ e[ins.op2] = f[ins.op2]
    BY <1>1, <1>2, <1>3, <1>9 DEF WellFormed, Read, Base
  <2>2. /\ Defined(ins) = ins.result /\ After(e, ins) = [e EXCEPT ![ins.result] = Wrap(f[ins.op1] + f[ins.op2])]
        /\ After(f, ins) = [f EXCEPT ![ins.result] = Wrap(f[ins.op1] + f[ins.op2])]
    BY <1>9, <2>1 DEF Defined, After
  <2>3. Event(e, ins) = Event(f, ins)
    BY <1>9, <2>1 DEF Event
  <2>. QED
    BY <1>4, <2>2, <2>3
<1>10. CASE ins.kind \in {"READ", "PARAM"}
  <2>1. /\ Defined(ins) = ins.op1 /\ After(e, ins) = [e EXCEPT ![ins.op1] = Outside[ins.op1]]
        /\ After(f, ins) = [f EXCEPT ![ins.op1] = Outside[ins.op1]]
    BY <1>10 DEF Defined, After
  <2>2. Event(e, ins) = Event(f, ins)
    BY <1>10 DEF Event
  <2>. QED
    BY <1>4, <2>1, <2>2
<1>11. CASE ins.kind = "GET_VALUE_IN_ADDRESS"
  <2>1. e[ins.op1] = f[ins.op1]
    BY <1>1, <1>3, <1>11 DEF WellFormed, Base
  <2>2. /\ Defined(ins) = ins.result /\ After(e, ins) = [e EXCEPT ![ins.result] = Outside[ins.result]]
        /\ After(f, ins) = [f EXCEPT ![ins.result] = Outside[ins.result]]
    BY <1>11, <2>1 DEF Defined, After
  <2>3. Event(e, ins) = Event(f, ins)
    BY <1>11, <2>1 DEF Event
  <2>. QED
    BY <1>4, <2>2, <2>3
<1>12. CASE ins.kind = "CALL"
  BY <1>12 DEF Event, After, Defined
<1>13. CASE ins.kind = "FUNCTION"
  BY <1>13 DEF Event, After
<1>14. CASE ins.kind \in {"WRITE", "RETURN", "ARG", "IF_GOTO", "ASSIGN_VALUE_IN_ADDRESS"}
  <2>1. \A n \in {ins.op1} \cup (IF ins.kind = "IF_GOTO" THEN {ins.op2} ELSE {}) :
          e[n] = f[n]
    BY <1>1, <1>2, <1>14 DEF WellFormed, Read
  <2>2. ins.kind = "ASSIGN_VALUE_IN_ADDRESS" => e[ins.result] = f[ins.result]
    BY <1>1, <1>3 DEF WellFormed, Base
  <2>3. Event(e, ins) = Event(f, ins)
    BY <1>14, <2>1, <2>2 DEF Event
  <2>. QED
    BY <1>1, <1>14, <2>3, NamesAssumption DEF After, Defined
<1>15. CASE ins.kind \in {"LABEL", "GOTO", "DEC"}
  BY <1>15, NamesAssumption DEF Event, After, Defined
<1>. QED
  BY <1>1, <1>5, <1>6, <1>7, <1>8, <1>9, <1>10, <1>11, <1>12, <1>13, <1>14, <1>15 DEF Kinds

LEMMA SafeToKeep ==
  ASSUME NEW e \in Environments, NEW f \in Environments, NEW ins \in Instructions,
         NEW V, NEW W, Safe(ins, FALSE, V, W), SameOn(e, f, Base \cup V)
  PROVE  /\ Event(e, ins) = Event(f, ins)
         /\ SameOn(After(e, ins), After(f, ins), Base \cup W)
<1>1. \A n \in Names \cap (Base \cup W) : n = Defined(ins) \/ e[n] = f[n]
  BY DEF Safe, SameOn
<1>2. CASE Names \cap Read(ins) \subseteq Base \cup V
  BY <1>1, <1>2, SameReads DEF SameOn
<1>3. CASE ins.kind = "BINARY" /\ Defined(ins) \notin Base \cup W
  BY <1>1, <1>3, SetsOneName DEF SameOn
<1>. QED
  BY <1>2, <1>3 DEF Safe

LEMMA SafeToRemove ==
  ASSUME NEW e, NEW f \in Environments, NEW ins \in Instructions,
         NEW V, NEW W, Safe(ins, TRUE, V, W), SameOn(e, f, Base \cup V)
  PROVE  /\ Event(f, ins) = <<>>
         /\ SameOn(e, After(f, ins), Base \cup W)
BY SetsOneName DEF Safe, SameOn

(* U[i] are the temporaries that are read behind instruction i of b, and   *)
(* what follows instruction n is safe to keep or to remove as gone says.   *)
Covers(U, b, gone, n) ==
  /\ U \in [0..Len(b) -> SUBSET Operands]
  /\ \A i \in n + 1..Len(b) : Safe(b[i], i \in gone, U[i - 1], U[i])

(* The thinned out block has shown what the original has, and agrees with  *)
(* it on everything that is still read.                                    *)
Kept(U) ==
  \A env \in Starts :
    LET x == Run(block, env) y == Steps(blocks[bi], env)[pos - 1]
    IN x.events = y.events /\ SameOn(x.env, y.env, Base \cup U[pos - 1])

ScanMeaning ==
  phase = "dce" => \E U : Covers(U, blocks[bi], eliminate_index, pos) /\ U[pos] = use

KeepMeaning ==
  phase = "keep" => \E U : Covers(U, blocks[bi], eliminate_index, 0) /\ Kept(U)

ThinnedOut ==
  phase \in {"dce", "keep", "concat"} =>
    /\ Len(before) = Len(blocks)
    /\ \A k \in 1..Len(blocks) :
         /\ k < bi \/ phase = "concat" => Equivalent(before[k], blocks[k], Vars)
         /\ k >= bi /\ phase # "concat" => blocks[k] = before[k]

DceMeaning == ScanMeaning /\ KeepMeaning /\ ThinnedOut

(* Each case of the switch puts in use what makes its decision safe.       *)
LEMMA ScanSafe ==
  ASSUME TypeOK, DceInv, Eliminate, DceContinues
  PROVE  Safe(Current, pos \in eliminate_index', use', use)
<1>1. Current \in Instructions /\ WellFormed(Current) /\ Current.kind \in Kinds
  BY CurrentInstruction, InstructionFields DEF DceContinues, TypeOK
<1>2. pos \notin eliminate_index
  BY DEF DceContinues, DceInv, Dropped, TypeOK
<1>3. NoName \notin Names /\ AddrTemps \subseteq Names /\ Vars \cap Temps = {}
  BY NamesAssumption DEF Names
<1>4. Current.kind \in Copies \cup {"BINARY"} =>
        /\ Defined(Current) = Left(Current) /\ Left(Current) \in Names \ AddrTemps
        /\ Names \cap Read(Current) \subseteq VarNames(Right(Current))
  BY <1>1, <1>3 DEF Copies, Defined, Left, Right, Read, VarNames, IsVarName, WellFormed
<1>5. CASE DceUserVariable
  <2>1. pos \notin eliminate_index' /\ use' = use \cup VarNames(Right(Current))
        /\ Current.kind \in Copies \cup {"BINARY"}
    BY <1>2, <1>5 DEF DceUserVariable
  <2>. QED
    BY <1>4, <2>1 DEF Safe
<1>6. CASE DceLiveCopy
  <2>1. pos \notin eliminate_index' /\ Current.kind \in Copies
        /\ use' = (use \ {Left(Current)}) \cup VarNames(Right(Current))
    BY <1>2, <1>6 DEF DceLiveCopy
  <2>. QED
    BY <1>4, <2>1 DEF Safe
<1>7. CASE DceDeadCopy
  <2>1. pos \in eliminate_index' /\ Current.kind \in Copies
        /\ use' = use \ {Left(Current)} /\ Left(Current) \in Temps \ use
    BY <1>7 DEF DceDeadCopy
  <2>2. Defined(Current) \notin Base \cup use
    BY <1>3, <1>4, <2>1 DEF Base
  <2>. QED
    BY <1>4, <2>1, <2>2 DEF Safe
<1>8. CASE DceLiveBinary
  <2>1. Current.kind = "BINARY" /\ Left(Current) = Current.result
    BY <1>8 DEF DceLiveBinary, Left
  <2>2. IsVarName(Current.op2)
    BY <1>1, <2>1, BinaryOperands DEF IsVarName
  <2>3. pos \notin eliminate_index'
        /\ use' = (use \ {Left(Current)}) \cup VarNames(Right(Current))
    BY <1>2, <1>8, <2>1, <2>2 DEF DceLiveBinary
  <2>. QED
    BY <1>4, <2>1, <2>3 DEF Safe
<1>9. CASE DceDeadBinary
  <2>1. /\ Current.kind = "BINARY" /\ Left(Current) = Current.result
        /\ use' = use /\ pos \notin eliminate_index' /\ Current.result \in Temps \ use
    BY <1>2, <1>9 DEF DceDeadBinary, Left
  <2>2. Defined(Current) \notin Base \cup use
    BY <1>3, <1>4, <2>1 DEF Base
  <2>. QED
    BY <2>1, <2>2 DEF Safe
<1>10. CASE DceRead
  <2>1. /\ Read(Current) = {} /\ Defined(Current) = Current.op1
        /\ use' = use \ {Current.op1} /\ pos \notin eliminate_index'
    BY <1>2, <1>10 DEF DceRead, Read, Defined
  <2>. QED
    BY <2>1 DEF Safe
<1>11. CASE DceOther
  <2>1. /\ use' = use \cup VarNames(Uses(Current)) /\ pos \notin eliminate_index'
        /\ Current.kind \notin Copies \cup {"BINARY", "READ"}
    BY <1>2, <1>11 DEF DceOther
  <2>2. Read(Current) \subseteq AddrTemps \cup Uses(Current)
    BY <1>1, <2>1 DEF Read, Uses, Copies, WellFormed, Kinds
  <2>3. Names \cap Read(Current) \subseteq Base \cup use'
    BY <1>3, <2>1, <2>2 DEF Base, VarNames, IsVarName
  <2>. QED
    BY <2>1, <2>3 DEF Safe
<1>. QED
  BY <1>5, <1>6, <1>7, <1>8, <1>9, <1>10, <1>11
  DEF Eliminate, DceContinues, DceScanned, Keep, DceBlockEnd

LEMMA ScanMeaningStep ==
  ASSUME TypeOK, DceInv, DceMeaning, Eliminate, DceContinues
  PROVE  DceMeaning'
<1>. DEFINE b == blocks[bi]
<1>1. /\ phase = "dce" /\ phase' = "dce" /\ pos \in 1..Len(b) /\ pos' = pos - 1
      /\ b \in Seq(Instructions) /\ b' = b /\ Current = b[pos]
      /\ blocks' = blocks /\ bi' = bi /\ before' = before
  BY DEF DceContinues, TypeOK, Current
<1>2. PICK U : Covers(U, b, eliminate_index, pos) /\ U[pos] = use
  BY <1>1 DEF DceMeaning, ScanMeaning
<1>. DEFINE V == [U EXCEPT ![pos - 1] = use']
<1>3. use' \subseteq Operands
  BY NextTypeOK DEF Next, TypeOK
<1>4. Len(b) \in Nat /\ U \in [0..Len(b) -> SUBSET Operands]
  BY <1>1, <1>2 DEF Covers
<1>. HIDE DEF b
<1>5. /\ V \in [0..Len(b) -> SUBSET Operands] /\ V[pos - 1] = use'
      /\ \A i \in pos..Len(b) : V[i] = U[i]
  BY <1>1, <1>3, <1>4
<1>6. \A i \in pos + 1..Len(b) : i \in eliminate_index' <=> i \in eliminate_index
  <2>1. eliminate_index' \in {eliminate_index, eliminate_index \cup {pos}}
    BY DEF Eliminate, DceUserVariable, DceLiveCopy, DceDeadCopy, DceLiveBinary,
       DceDeadBinary, DceRead, DceOther, DceContinues, DceScanned, Keep, DceBlockEnd
  <2>. QED
    BY <1>1, <2>1
<1>. HIDE DEF V
<1>7. ASSUME NEW i \in pos..Len(b)
      PROVE  Safe(b[i], i \in eliminate_index', V[i - 1], V[i])
  <2>1. CASE i = pos
    BY <1>1, <1>2, <1>5, <1>7, <2>1, ScanSafe
  <2>2. CASE i # pos
    <3>1. i \in pos + 1..Len(b) /\ V[i] = U[i] /\ V[i - 1] = U[i - 1]
      BY <1>1, <1>4, <1>5, <2>2
    <3>2. Safe(b[i], i \in eliminate_index, U[i - 1], U[i])
      BY <1>2, <3>1 DEF Covers
    <3>3. (i \in eliminate_index') = (i \in eliminate_index)
      BY <1>6, <3>1
    <3>. QED
      BY <3>1, <3>2, <3>3 DEF Safe
  <2>. QED
    BY <2>1, <2>2
<1>8. Covers(V, b, eliminate_index', pos')
  <2>1. pos' + 1 = pos
    BY <1>1
  <2>. QED
    BY <1>5, <1>7, <2>1 DEF Covers
<1>9. ScanMeaning'
  BY <1>1, <1>5, <1>8 DEF ScanMeaning, b
<1>. QED
  BY <1>1, <1>9 DEF DceMeaning, KeepMeaning, ThinnedOut

LEMMA ScannedMeaning ==
  ASSUME TypeOK, BlockInv, DceMeaning, DceScanned
  PROVE  DceMeaning'
<1>1. /\ phase = "dce" /\ phase' = "keep" /\ pos = 0 /\ pos' = 1
      /\ blocks' = blocks /\ bi' = bi /\ before' = before /\ block' = <<>>
      /\ eliminate_index' = eliminate_index /\ blocks[bi] \in Seq(Instructions)
  BY DEF DceScanned, TypeOK, BlockInv
<1>2. PICK U : Covers(U, blocks[bi], eliminate_index, 0)
  BY <1>1 DEF DceMeaning, ScanMeaning
<1>3. Kept(U)'
  <2>1. Len(blocks[bi]) \in Nat /\ Len(<<>>) \in Nat
    BY <1>1
  <2>2. \A env : Steps(blocks[bi], env)[0] = Run(<<>>, env)
    BY <2>1, StepsDefined, RunEmpty
  <2>. QED
    BY <1>1, <2>2 DEF Kept, SameOn
<1>4. KeepMeaning'
  BY <1>1, <1>2, <1>3 DEF KeepMeaning
<1>. QED
  BY <1>1, <1>4 DEF DceMeaning, ScanMeaning, ThinnedOut

LEMMA KeepMeaningStep ==
  ASSUME TypeOK, BlockInv, DceMeaning, Keep
  PROVE  DceMeaning'
<1>. DEFINE b == blocks[bi]
<1>1. /\ phase = "keep" /\ phase' = "keep" /\ pos \in 1..Len(b) /\ pos' = pos + 1
      /\ blocks' = blocks /\ bi' = bi /\ before' = before
      /\ eliminate_index' = eliminate_index /\ b \in Seq(Instructions)
      /\ block \in Seq(Instructions) /\ Current = b[pos] /\ Current \in Instructions
  BY CurrentInstruction DEF Keep, TypeOK, Current
<1>2. PICK U : Covers(U, b, eliminate_index, 0) /\ Kept(U)
  BY <1>1 DEF DceMeaning, KeepMeaning
<1>3. Safe(Current, pos \in eliminate_index, U[pos - 1], U[pos])
  BY <1>1, <1>2 DEF Covers
<1>4. ASSUME NEW env \in Starts
      PROVE  /\ Run(block', env).events = Steps(b, env)[pos].events
             /\ SameOn(Run(block', env).env, Steps(b, env)[pos].env, Base \cup U[pos])
  <2>. DEFINE x == Run(block, env)
              y == Steps(b, env)[pos - 1]
  <2>1. x.events = y.events /\ SameOn(x.env, y.env, Base \cup U[pos - 1])
    BY <1>2 DEF Kept
  <2>2. StateType(x) /\ StateType(y)
    <3>1. env \in Environments /\ Len(block) \in 0..Len(block) /\ pos - 1 \in 0..Len(b)
      BY <1>1, StartsAssumption, IntAssumption DEF Environments, IntW
    <3>. QED
      BY <1>1, <3>1, StepsType DEF Run
  <2>3. Steps(b, env)[pos] = Perform(y, Current)
    <3>1. Len(b) \in Nat
      BY <1>1
    <3>. QED
      BY <1>1, <3>1, StepsDefined
  <2>4. Run(Append(block, Current), env) = Perform(x, Current)
    BY <1>1, RunAppend
  <2>. HIDE DEF x, y
  <2>5. CASE pos \in eliminate_index
    <3>1. Event(y.env, Current) = <<>>
          /\ SameOn(x.env, After(y.env, Current), Base \cup U[pos])
      <4>1. Safe(Current, TRUE, U[pos - 1], U[pos])
        BY <1>3, <2>5 DEF Safe
      <4>. QED
        BY <1>1, <2>1, <2>2, <4>1, SafeToRemove DEF StateType
    <3>2. Perform(y, Current).events = y.events
      BY <2>2, <3>1 DEF Perform, StateType
    <3>3. Perform(y, Current).env = After(y.env, Current)
      BY DEF Perform
    <3>4. Run(block', env) = x
      BY <2>5 DEF Keep, x
    <3>. QED
      BY <2>1, <2>3, <3>1, <3>2, <3>3, <3>4
  <2>6. CASE pos \notin eliminate_index
    <3>1. Event(x.env, Current) = Event(y.env, Current)
          /\ SameOn(After(x.env, Current), After(y.env, Current), Base \cup U[pos])
      <4>1. Safe(Current, FALSE, U[pos - 1], U[pos])
        BY <1>3, <2>6 DEF Safe
      <4>. QED
        BY <1>1, <2>1, <2>2, <4>1, SafeToKeep DEF StateType
    <3>2. /\ Perform(x, Current).events = Perform(y, Current).events
          /\ Perform(x, Current).env = After(x.env, Current)
          /\ Perform(y, Current).env = After(y.env, Current)
      BY <2>1, <3>1 DEF Perform
    <3>3. Run(block', env) = Perform(x, Current)
      BY <2>4, <2>6 DEF Keep
    <3>. QED
      BY <2>3, <3>1, <3>2, <3>3
  <2>. QED
    BY <2>5, <2>6
<1>5. Kept(U)'
  <2>1. pos' - 1 = pos
    BY <1>1
  <2>. QED
    BY <1>1, <1>4, <2>1 DEF Kept
<1>6. KeepMeaning'
  BY <1>1, <1>2, <1>5 DEF KeepMeaning
<1>. QED
  BY <1>1, <1>6 DEF DceMeaning, ScanMeaning, ThinnedOut

(* Nothing is in use behind the last instruction of a block.               *)
LEMMA CoversEnd ==
  ASSUME NEW b \in Seq(Instructions), NEW gone
  PROVE  \E U : Covers(U, b, gone, Len(b)) /\ U[Len(b)] = {}
<1>. DEFINE U == [i \in 0..Len(b) |-> {}]
<1>1. Len(b) \in Nat
  OBVIOUS
<1>2. Covers(U, b, gone, Len(b)) /\ U[Len(b)] = {}
  BY <1>1 DEF Covers
<1>. HIDE DEF U
<1>. QED
  BY <1>2

LEMMA BlockEndMeaning ==
  ASSUME TypeOK, BlockInv, DceMeaning, DceBlockEnd
  PROVE  DceMeaning'
<1>1. /\ phase = "keep" /\ bi \in 1..Len(blocks) /\ blocks \in Seq(Seq(Instructions))
      /\ blocks' = [blocks EXCEPT ![bi] = block] /\ before' = before /\ use' = {}
      /\ pos - 1 = Len(blocks[bi]) /\ Len(before) = Len(blocks)
      /\ blocks[bi] = before[bi] /\ blocks[bi] \in Seq(Instructions)
  BY DEF DceBlockEnd, TypeOK, BlockInv, DceMeaning, ThinnedOut
<1>2. /\ Len(blocks') = Len(blocks) /\ Len(blocks) \in Nat
      /\ \A k \in 1..Len(blocks) : blocks'[k] = IF k = bi THEN block ELSE blocks[k]
  BY <1>1
<1>3. \A k \in 1..Len(blocks) : /\ k < bi => Equivalent(before[k], blocks[k], Vars)
                                /\ k >= bi => blocks[k] = before[k]
  BY <1>1 DEF DceMeaning, ThinnedOut
<1>4. Equivalent(before[bi], block, Vars)
  <2>1. PICK U : Kept(U)
    BY <1>1 DEF DceMeaning, KeepMeaning
  <2>2. Vars \subseteq Names \cap (Base \cup U[pos - 1])
    BY DEF Names, Base
  <2>3. \A env \in Starts :
          LET x == Run(block, env) y == Run(before[bi], env)
          IN x.events = y.events /\ SameOn(x.env, y.env, Base \cup U[pos - 1])
    BY <1>1, <2>1 DEF Kept, Run
  <2>. QED
    BY <2>2, <2>3 DEF Equivalent, SameOn
<1>5. CASE bi < Len(blocks)
  <2>1. phase' = "dce" /\ bi' = bi + 1 /\ pos' = Len(blocks[bi + 1])
    BY <1>5 DEF DceBlockEnd
  <2>2. blocks'[bi'] = blocks[bi + 1] /\ blocks[bi + 1] \in Seq(Instructions)
    BY <1>1, <1>2, <1>5, <2>1
  <2>3. ScanMeaning'
    <3>1. PICK U : /\ Covers(U, blocks[bi + 1], eliminate_index', Len(blocks[bi + 1]))
                   /\ U[Len(blocks[bi + 1])] = {}
      BY <2>2, CoversEnd
    <3>2. Covers(U, blocks'[bi'], eliminate_index', pos') /\ U[pos'] = use'
      BY <1>1, <2>1, <2>2, <3>1
    <3>. QED
      BY <3>2 DEF ScanMeaning
  <2>4. ASSUME NEW k \in 1..Len(blocks')
        PROVE  /\ k < bi' => Equivalent(before[k], blocks'[k], Vars)
               /\ k >= bi' => blocks'[k] = before[k]
    <3>1. CASE k = bi
      BY <1>1, <1>2, <1>4, <2>1, <3>1
    <3>2. CASE k # bi
      BY <1>1, <1>2, <1>3, <2>1, <3>2
    <3>. QED
      BY <3>1, <3>2
  <2>. QED
    BY <1>1, <1>2, <2>1, <2>3, <2>4 DEF DceMeaning, KeepMeaning, ThinnedOut
<1>6. CASE ~ (bi < Len(blocks))
  <2>1. phase' = "concat" /\ bi = Len(blocks)
    BY <1>1, <1>6 DEF DceBlockEnd
  <2>2. ASSUME NEW k \in 1..Len(blocks')
        PROVE  Equivalent(before[k], blocks'[k], Vars)
    <3>1. CASE k = bi
      BY <1>1, <1>2, <1>4, <3>1
    <3>2. CASE k # bi
      BY <1>1, <1>2, <1>3, <2>1, <3>2
    <3>. QED
      BY <3>1, <3>2
  <2>. QED
    BY <1>1, <1>2, <2>1, <2>2 DEF DceMeaning, ScanMeaning, KeepMeaning, ThinnedOut
<1>. QED
  BY <1>5, <1>6

LEMMA NextDceMeaning ==
  TypeOK /\ BlockInv /\ DceInv /\ DceMeaning /\ [Next]_vars => DceMeaning'
<1>. SUFFICES ASSUME TypeOK, BlockInv, DceInv, DceMeaning, [Next]_vars
              PROVE  DceMeaning'
  OBVIOUS
<1>1. CASE Eliminate /\ DceContinues
  BY <1>1, ScanMeaningStep
<1>2. CASE DceScanned
  BY <1>2, ScannedMeaning
<1>3. CASE Keep
  BY <1>3, KeepMeaningStep
<1>4. CASE DceBlockEnd
  BY <1>4, BlockEndMeaning
<1>5. CASE StartElimination
  <2>1. /\ phase' = "dce" /\ bi' = 1 /\ pos' = Len(blocks[1]) /\ before' = blocks
        /\ blocks' = blocks /\ use' = {} /\ blocks[1] \in Seq(Instructions)
    BY <1>5 DEF StartElimination, DceInv, TypeOK
  <2>2. ScanMeaning'
    BY <2>1, CoversEnd DEF ScanMeaning
  <2>. QED
    BY <2>1, <2>2 DEF DceMeaning, KeepMeaning, ThinnedOut
<1>6. CASE Concatenate
  <2>1. phase' = phase /\ phase = "concat" /\ blocks' = blocks /\ before' = before
    BY <1>6 DEF Concatenate
  <2>. QED
    BY <2>1 DEF DceMeaning, ScanMeaning, KeepMeaning, ThinnedOut
<1>7. CASE \/ Generate \/ Check \/ Return \/ PropConstant \/ PropAssignKnown
           \/ PropAssignUnknown \/ PropFold \/ PropDivisionTraps
           \/ PropLiteralTooLarge \/ PropCopy \/ PropBlockEnd
  <2>1. phase' \notin {"dce", "keep", "concat"}
    BY <1>7 DEF Generate, GenFirst, GenLabel, GenJump, GenOther, GenContinues, GenEnd,
       Check, GiveUp, StartPropagation, Return, PropConstant, PropAssignKnown,
       PropAssignUnknown, PropLiteralTooLarge, PropFold, PropDivisionTraps, PropCopy,
       PropBlockEnd, PropContinues
  <2>. QED
    BY <2>1 DEF DceMeaning, ScanMeaning, KeepMeaning, ThinnedOut
<1>8. CASE UNCHANGED vars
  BY <1>8 DEF vars, DceMeaning, ScanMeaning, KeepMeaning, ThinnedOut, Kept
<1>. QED
  BY <1>1, <1>2, <1>3, <1>4, <1>5, <1>6, <1>7, <1>8
  DEF Next, Propagate, Eliminate, DceUserVariable, DceLiveCopy, DceDeadCopy,
      DceLiveBinary, DceDeadBinary, DceRead, DceOther

(* For every program: removing the assignments to dead temporaries changes *)
(* neither what a block shows nor what it leaves in the user's variables.  *)
THEOREM EliminationKeepsMeaning == Spec => []EliminationPreserves
<1>1. Init => TypeOK /\ BlockInv /\ DceInv /\ DceMeaning
  <2>1. Init => DceMeaning
    BY DEF Init, DceMeaning, ScanMeaning, KeepMeaning, ThinnedOut
  <2>. QED
    BY <2>1, InitTypeOK, InitBlockInv, InitDceInv
<1>2. TypeOK /\ BlockInv /\ DceInv /\ DceMeaning /\ [Next]_vars
        => (TypeOK /\ BlockInv /\ DceInv /\ DceMeaning)'
  BY NextTypeOK, NextBlockInv, NextDceInv, NextDceMeaning
<1>3. DceMeaning => EliminationPreserves
  BY DEF DceMeaning, ThinnedOut, EliminationPreserves
<1>. QED
  BY <1>1, <1>2, <1>3, PTL DEF Spec

-----------------------------------------------------------------------------
(* Cutting the program into blocks.                                        *)

(* g joins the first k blocks of bs.                                       *)
JoinsTo(g, bs, k) == g = [i \in 0..k |-> IF i = 0 THEN <<>> ELSE g[i - 1] \o bs[i]]

LEMMA JoinsExist ==
  ASSUME NEW bs, NEW n \in Nat
  PROVE  \E g : JoinsTo(g, bs, n)
<1>. DEFINE T == {k \in 0..n : ~ \E g : JoinsTo(g, bs, k)}
<1>. SUFFICES ASSUME T # {} PROVE FALSE
  OBVIOUS
<1>1. PICK k \in T : \A m \in T : k <= m
  <2>. T \subseteq Nat
    OBVIOUS
  <2>. HIDE DEF T
  <2>. QED
    BY LeastNatural
<1>2. CASE k = 0
  <2>. DEFINE g == [i \in 0..0 |-> <<>>]
  <2>1. JoinsTo(g, bs, 0)
    BY DEF JoinsTo
  <2>. QED
    BY <1>2, <2>1
<1>3. CASE k # 0
  <2>1. k \in 1..n /\ k - 1 \in 0..n /\ k - 1 \notin T
    BY <1>1, <1>3
  <2>2. PICK g : JoinsTo(g, bs, k - 1)
    BY <2>1
  <2>. DEFINE h == [i \in 0..k |-> IF i = k THEN g[k - 1] \o bs[k] ELSE g[i]]
  <2>3. \A i \in 0..k - 1 : h[i] = g[i]
    BY <2>1
  <2>4. \A i \in 0..k - 1 : g[i] = IF i = 0 THEN <<>> ELSE g[i - 1] \o bs[i]
    BY <2>2 DEF JoinsTo
  <2>5. ASSUME NEW i \in 0..k
        PROVE  h[i] = IF i = 0 THEN <<>> ELSE h[i - 1] \o bs[i]
    <3>1. CASE i = k
      <4>1. k # 0 /\ k - 1 \in 0..k - 1 /\ k \in 0..k
        BY <2>1
      <4>2. h[k] = g[k - 1] \o bs[k]
        BY <4>1
      <4>3. h[k - 1] = g[k - 1]
        BY <2>3, <4>1
      <4>. HIDE DEF h
      <4>. QED
        BY <3>1, <4>1, <4>2, <4>3
    <3>2. CASE i # k
      <4>1. i \in 0..k - 1 /\ (i # 0 => i - 1 \in 0..k - 1)
        BY <2>1, <3>2
      <4>. QED
        BY <2>3, <2>4, <4>1
    <3>. QED
      BY <3>1, <3>2
  <2>6. h = [i \in 0..k |-> h[i]]
    OBVIOUS
  <2>7. JoinsTo(h, bs, k)
    <3>. HIDE DEF h
    <3>. QED
      BY <2>5, <2>6 DEF JoinsTo
  <2>. QED
    BY <2>7, <1>1
<1>. QED
  BY <1>2, <1>3

LEMMA JoinsUnfold ==
  ASSUME NEW bs, Len(bs) \in Nat
  PROVE  \E g : JoinsTo(g, bs, Len(bs)) /\ Joined(bs) = g[Len(bs)]
<1>1. PICK g : JoinsTo(g, bs, Len(bs))
  BY JoinsExist
<1>. DEFINE upto == CHOOSE f : JoinsTo(f, bs, Len(bs))
<1>2. JoinsTo(upto, bs, Len(bs))
  BY <1>1
<1>3. Joined(bs) = upto[Len(bs)]
  BY DEF Joined, JoinsTo
<1>. HIDE DEF upto
<1>. QED
  BY <1>2, <1>3

(* Two ways of joining the same blocks arrive at the same place.           *)
LEMMA JoinsAgree ==
  ASSUME NEW bs, NEW cs, NEW g, NEW h, Len(bs) \in Nat, Len(cs) \in Nat,
         JoinsTo(g, bs, Len(bs)), JoinsTo(h, cs, Len(cs)), Len(bs) <= Len(cs),
         \A i \in 1..Len(bs) : bs[i] = cs[i]
  PROVE  g[Len(bs)] = h[Len(bs)]
<1>. DEFINE k == Len(bs)
            m == Len(cs)
            S == {i \in 0..k : g[i] = h[i]}
<1>1. \A i \in 0..k : g[i] = IF i = 0 THEN <<>> ELSE g[i - 1] \o bs[i]
  BY DEF JoinsTo
<1>2. \A i \in 0..m : h[i] = IF i = 0 THEN <<>> ELSE h[i - 1] \o cs[i]
  BY DEF JoinsTo
<1>3. 0 \in S
  BY <1>1, <1>2
<1>4. ASSUME NEW i \in 1..k, i - 1 \in S
      PROVE  i \in S
  <2>1. i \in 0..m /\ i # 0 /\ i \in 0..k
    OBVIOUS
  <2>. QED
    BY <1>1, <1>2, <1>4, <2>1
<1>. HIDE DEF S
<1>5. \A i \in 0..k : i \in S
  BY <1>3, <1>4, StepInduction
<1>6. k \in 0..k
  OBVIOUS
<1>. QED
  BY <1>5, <1>6 DEF S

LEMMA JoinedEmpty == Joined(<<>>) = <<>>
<1>1. Len(<<>>) = 0 /\ 0 \in Nat
  OBVIOUS
<1>2. PICK g : JoinsTo(g, <<>>, 0) /\ Joined(<<>>) = g[0]
  BY <1>1, JoinsUnfold
<1>. QED
  BY <1>2 DEF JoinsTo

LEMMA JoinedAppend ==
  ASSUME NEW S, NEW bs \in Seq(S), NEW b \in S
  PROVE  Joined(Append(bs, b)) = Joined(bs) \o b
<1>. DEFINE cs == Append(bs, b)
<1>1. /\ Len(cs) = Len(bs) + 1 /\ Len(bs) \in Nat /\ cs[Len(cs)] = b
      /\ \A i \in 1..Len(bs) : bs[i] = cs[i]
  OBVIOUS
<1>. HIDE DEF cs
<1>2. PICK g : JoinsTo(g, bs, Len(bs)) /\ Joined(bs) = g[Len(bs)]
  BY <1>1, JoinsUnfold
<1>3. PICK h : JoinsTo(h, cs, Len(cs)) /\ Joined(cs) = h[Len(cs)]
  BY <1>1, JoinsUnfold
<1>4. g[Len(bs)] = h[Len(bs)]
  <2>1. Len(cs) \in Nat /\ Len(bs) <= Len(cs)
    BY <1>1
  <2>. QED
    BY <1>1, <1>2, <1>3, <2>1, JoinsAgree, Zenon
<1>5. h[Len(cs)] = h[Len(cs) - 1] \o cs[Len(cs)]
  BY <1>1, <1>3 DEF JoinsTo
<1>6. Len(cs) - 1 = Len(bs)
  BY <1>1
<1>7. Joined(cs) = Joined(bs) \o b
  BY <1>1, <1>2, <1>3, <1>4, <1>5, <1>6
<1>. QED
  BY <1>7 DEF cs

CoverInv ==
  /\ phase = "start" => blocks = <<>>
  /\ phase = "blocks" => pos <= Len(ir) + 1
  /\ phase \in {"start", "blocks"} => Joined(blocks) \in Seq(Instructions)
  /\ BlocksCoverProgram

(* Reading one more instruction of the program.                            *)
LEMMA ReadOneMore ==
  ASSUME NEW p \in Seq(Instructions), NEW n \in 1..Len(p),
         NEW j \in Seq(Instructions), NEW b \in Seq(Instructions),
         j \o b = SubSeq(p, 1, n - 1)
  PROVE  j \o Append(b, p[n]) = SubSeq(p, 1, n)
<1>1. SubSeq(p, 1, n) = Append(SubSeq(p, 1, n - 1), p[n])
  OBVIOUS
<1>2. j \o Append(b, p[n]) = Append(j \o b, p[n])
  OBVIOUS
<1>. QED
  BY <1>1, <1>2

LEMMA NextCoverInv == TypeOK /\ CoverInv /\ [Next]_vars => CoverInv'
<1>. SUFFICES ASSUME TypeOK, CoverInv, [Next]_vars PROVE CoverInv'
  OBVIOUS
<1>1. /\ ir \in Seq(Instructions) /\ block \in Seq(Instructions)
      /\ blocks \in Seq(Seq(Instructions)) /\ pos \in Nat
  BY DEF TypeOK
<1>2. CASE GenFirst
  <2>1. CASE ir = <<>>
    BY <1>2, <2>1 DEF GenFirst, CoverInv, BlocksCoverProgram
  <2>2. CASE ir # <<>>
    <3>1. phase' = "blocks" /\ block' = <<ir[1]>> /\ pos' = 2 /\ blocks' = <<>> /\ ir' = ir
      BY <1>2, <2>2 DEF GenFirst, CoverInv
    <3>2. Len(ir) \in Nat \ {0} /\ ir[1] \in Instructions
      BY <1>1, <2>2
    <3>3. <<>> \o <<ir[1]>> = SubSeq(ir, 1, 1)
      BY <1>1, <3>2
    <3>4. Joined(blocks') = <<>> /\ <<>> \in Seq(Instructions) /\ pos' - 1 = 1
      BY <3>1, JoinedEmpty
    <3>5. Joined(blocks') \in Seq(Instructions)
          /\ Joined(blocks') \o block' = SubSeq(ir', 1, pos' - 1)
      BY <3>1, <3>3, <3>4, Zenon
    <3>6. pos' <= Len(ir') + 1
      BY <3>1, <3>2
    <3>. QED
      BY <3>1, <3>5, <3>6 DEF CoverInv, BlocksCoverProgram
  <2>. QED
    BY <2>1, <2>2
<1>3. CASE GenLabel \/ GenJump \/ GenOther
  <2>1. /\ phase = "blocks" /\ phase' = "blocks" /\ pos <= Len(ir) /\ pos # 0
        /\ pos' = pos + 1 /\ ir' = ir /\ Joined(blocks) \in Seq(Instructions)
        /\ Joined(blocks) \o block = SubSeq(ir, 1, pos - 1) /\ pos' - 1 = pos
    BY <1>3 DEF GenLabel, GenJump, GenOther, GenContinues, TypeOK, CoverInv,
       BlocksCoverProgram
  <2>2. pos \in 1..Len(ir) /\ ir[pos] \in Instructions
    BY <1>1, <2>1
  <2>3. Joined(blocks) \o Append(block, ir[pos]) = SubSeq(ir, 1, pos)
    BY <1>1, <2>1, <2>2, ReadOneMore
  <2>4. Joined(blocks') \in Seq(Instructions)
        /\ Joined(blocks') \o block' = SubSeq(ir, 1, pos)
    <3>1. CASE GenLabel
      <4>1. block' = <<ir[pos]>>
        BY <3>1 DEF GenLabel
      <4>2. Joined(blocks') = Joined(blocks) \o block
        <5>1. CASE block = <<>>
          BY <2>1, <3>1, <5>1 DEF GenLabel
        <5>2. CASE block # <<>>
          BY <1>1, <3>1, <5>2, JoinedAppend DEF GenLabel
        <5>. QED
          BY <5>1, <5>2
      <4>3. (Joined(blocks) \o block) \o <<ir[pos]>> = Joined(blocks) \o Append(block, ir[pos])
        BY <1>1, <2>1, <2>2
      <4>. QED
        BY <1>1, <2>1, <2>3, <4>1, <4>2, <4>3
    <3>2. CASE GenJump
      <4>1. /\ blocks' = Append(blocks, Append(block, ir[pos])) /\ block' = <<>>
            /\ Append(block, ir[pos]) \in Seq(Instructions)
        BY <1>1, <2>2, <3>2 DEF GenJump
      <4>2. Joined(blocks') = Joined(blocks) \o Append(block, ir[pos])
        BY <1>1, <4>1, JoinedAppend
      <4>3. Joined(blocks') \in Seq(Instructions)
        BY <2>1, <4>1, <4>2
      <4>. QED
        BY <2>3, <4>1, <4>2, <4>3
    <3>3. CASE GenOther
      BY <2>1, <2>3, <3>3 DEF GenOther
    <3>. QED
      BY <1>3, <3>1, <3>2, <3>3
  <2>5. pos' <= Len(ir') + 1
    BY <1>1, <2>1
  <2>. QED
    BY <2>1, <2>4, <2>5 DEF CoverInv, BlocksCoverProgram
<1>4. CASE GenEnd
  <2>1. /\ phase = "blocks" /\ phase' = "check" /\ ir' = ir
        /\ blocks' = Append(blocks, block) /\ pos = Len(ir) + 1
        /\ Joined(blocks) \o block = SubSeq(ir, 1, pos - 1)
    BY <1>1, <1>4 DEF GenEnd, CoverInv, BlocksCoverProgram
  <2>2. Joined(blocks') = Joined(blocks) \o block
    BY <1>1, <2>1, JoinedAppend
  <2>3. SubSeq(ir, 1, pos - 1) = ir
    BY <1>1, <2>1
  <2>. QED
    BY <2>1, <2>2, <2>3 DEF CoverInv, BlocksCoverProgram
<1>5. CASE \/ Check \/ Propagate \/ Eliminate \/ Concatenate \/ Return
  <2>1. phase' \notin {"start", "blocks", "check"}
    BY <1>5 DEF Check, GiveUp, StartPropagation, Propagate, PropConstant, PropAssignKnown,
       PropAssignUnknown, PropLiteralTooLarge, PropFold, PropDivisionTraps, PropCopy,
       PropBlockEnd, StartElimination, PropContinues, Eliminate, DceUserVariable, DceLiveCopy,
       DceDeadCopy, DceLiveBinary, DceDeadBinary, DceRead, DceOther, DceContinues,
       DceScanned, Keep, DceBlockEnd, Concatenate, Return
  <2>. QED
    BY <2>1 DEF CoverInv, BlocksCoverProgram
<1>6. CASE UNCHANGED vars
  BY <1>6 DEF vars, CoverInv, BlocksCoverProgram
<1>. QED
  BY <1>2, <1>3, <1>4, <1>5, <1>6 DEF Next, Generate

(* For every program: the basic blocks, end to end, are the program.       *)
THEOREM BlocksAreTheProgram == Spec => []BlocksCoverProgram
<1>1. Init => TypeOK /\ CoverInv
  <2>1. ASSUME Init PROVE CoverInv
    <3>1. phase = "start" /\ blocks = <<>>
      BY <2>1 DEF Init
    <3>2. Joined(blocks) \in Seq(Instructions)
      <4>1. <<>> \in Seq(Instructions)
        OBVIOUS
      <4>. QED
        BY <3>1, <4>1, JoinedEmpty, Zenon
    <3>. QED
      BY <3>1, <3>2 DEF CoverInv, BlocksCoverProgram
  <2>. QED
    BY <2>1, InitTypeOK
<1>2. TypeOK /\ CoverInv /\ [Next]_vars => (TypeOK /\ CoverInv)'
  BY NextTypeOK, NextCoverInv
<1>3. CoverInv => BlocksCoverProgram
  BY DEF CoverInv
<1>. QED
  BY <1>1, <1>2, <1>3, PTL DEF Spec

=============================================================================
