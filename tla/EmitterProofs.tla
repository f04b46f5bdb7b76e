---------------------------- MODULE EmitterProofs ----------------------------
(***************************************************************************)
(* The back end's emitter, for every TAC list: types, the words variables  *)
(* have in array, which words the emitted code uses, and which registers   *)
(* arguments, parameters and operands are in.                              *)
(***************************************************************************)
EXTENDS Emitter, FiniteSetTheorems, TLAPS

(* list2 has what list1 has, where list1 has it.                           *)
Extends(list1, list2) ==
  /\ Len(list1) <= Len(list2)
  /\ \A i \in 1..Len(list1) : list2[i] = list1[i]

(* What get_register and get_register_w work on.                           *)
States == [list: Seq(Entries), free: SUBSET Allocatable, offset: Nat,
           regs: Seq(Registers), loads: Seq(Ops)]

-----------------------------------------------------------------------------
(* The list of variables.                                                  *)

LEMMA InsertLastType ==
  ASSUME NEW list \in Seq(Entries), NEW name \in Names
  PROVE  /\ insertLast(list, name) \in Seq(Entries)
         /\ Len(insertLast(list, name)) = Len(list) + 1
         /\ insertLast(list, name)[Len(list) + 1].key = name
         /\ \A i \in 1..Len(list) : insertLast(list, name)[i] = list[i]
<1> DEFINE offset == IF list = <<>> THEN 0 ELSE list[Len(list)].arrayOffset + 4
           e == [key |-> name, arrayOffset |-> offset]
<1>1. offset \in Nat
  <2>1. CASE list = <<>> BY <2>1
  <2>2. CASE list # <<>>
    <3>1. Len(list) \in 1..Len(list) BY <2>2
    <3>2. list[Len(list)] \in Entries BY <3>1
    <3> QED BY <2>2, <3>2 DEF Entries
  <2> QED BY <2>1, <2>2
<1>2. e \in Entries BY <1>1 DEF Entries
<1>3. insertLast(list, name) = Append(list, e) BY DEF insertLast
<1> HIDE DEF e
<1>4. e.key = name BY DEF e
<1> QED BY <1>2, <1>3, <1>4

LEMMA EnteredType ==
  ASSUME NEW list \in Seq(Entries), NEW name \in Names
  PROVE  /\ Entered(list, name) \in Seq(Entries)
         /\ Has(Entered(list, name), name)
         /\ Extends(list, Entered(list, name))
<1>1. CASE Has(list, name) BY <1>1 DEF Entered, Extends
<1>2. CASE ~ Has(list, name)
  <2>1. Entered(list, name) = insertLast(list, name) BY <1>2 DEF Entered
  <2> DEFINE new == insertLast(list, name)
  <2>2. /\ new \in Seq(Entries) /\ Len(new) = Len(list) + 1
        /\ new[Len(list) + 1].key = name
        /\ \A i \in 1..Len(list) : new[i] = list[i]
    BY InsertLastType
  <2> HIDE DEF new
  <2>3. Has(new, name) BY <2>2 DEF Has
  <2>4. Extends(list, new) BY <2>2 DEF Extends
  <2> QED BY <2>1, <2>2, <2>3, <2>4 DEF new
<1> QED BY <1>1, <1>2

LEMMA FoundHasKey ==
  ASSUME NEW list, NEW name, Has(list, name)
  PROVE  \E i \in 1..Len(list) :
           list[i].key = name /\ Found(list, name) = list[i]
BY DEF Has, Found

LEMMA OffsetType ==
  ASSUME NEW list \in Seq(Entries), NEW name
  PROVE  /\ findOffset(list, name) \in Int
         /\ Has(list, name) => findOffset(list, name) \in Nat
<1>1. CASE Has(list, name)
  <2>1. PICK i \in 1..Len(list) : Found(list, name) = list[i]
    BY <1>1, FoundHasKey
  <2>2. Found(list, name) \in Entries BY <2>1
  <2> QED BY <1>1, <2>2 DEF findOffset, Entries
<1>2. CASE ~ Has(list, name) BY <1>2 DEF findOffset
<1> QED BY <1>1, <1>2

(* insertLast gives a new variable the next word.                          *)
LEMMA EnteredDistinct ==
  ASSUME NEW list \in Seq(Entries), NEW name \in Names, Distinct(list)
  PROVE  Distinct(Entered(list, name))
<1>1. CASE Has(list, name) BY <1>1 DEF Entered
<1>2. CASE ~ Has(list, name)
  <2> DEFINE new == insertLast(list, name)
             n == Len(list)
  <2>1. n \in Nat OBVIOUS
  <2>2. /\ Len(new) = n + 1
        /\ new[n + 1].key = name
        /\ \A i \in 1..n : new[i] = list[i]
    BY InsertLastType
  <2>3. new[n + 1].arrayOffset = 4 * n
    <3>1. new[n + 1] = [key |-> name,
                        arrayOffset |-> IF list = <<>> THEN 0
                                        ELSE list[n].arrayOffset + 4]
      BY DEF insertLast
    <3>2. CASE list = <<>> BY <3>1, <3>2
    <3>3. CASE list # <<>>
      <4>1. n \in 1..n BY <3>3
      <4>2. list[n].arrayOffset = 4 * (n - 1) BY <4>1 DEF Distinct
      <4> QED BY <3>1, <3>3, <4>2, <2>1
    <3> QED BY <3>2, <3>3
  <2>4. ASSUME NEW i \in 1..Len(new), NEW j \in 1..Len(new)
        PROVE  /\ new[i].arrayOffset = 4 * (i - 1)
               /\ new[i].key = new[j].key => i = j
    <3>1. new[i].arrayOffset = 4 * (i - 1)
      <4>1. CASE i \in 1..n BY <4>1, <2>2 DEF Distinct
      <4>2. CASE i = n + 1 BY <4>2, <2>3, <2>1
      <4> QED BY <4>1, <4>2, <2>2, <2>1
    <3>2. ASSUME new[i].key = new[j].key PROVE i = j
      <4>1. \A k \in 1..n : list[k].key # name BY <1>2 DEF Has
      <4>2. CASE i \in 1..n /\ j \in 1..n BY <4>2, <3>2, <2>2 DEF Distinct
      <4>3. CASE i = n + 1 /\ j \in 1..n BY <4>3, <3>2, <2>2, <4>1
      <4>4. CASE i \in 1..n /\ j = n + 1 BY <4>4, <3>2, <2>2, <4>1
      <4>5. CASE i = n + 1 /\ j = n + 1 BY <4>5
      <4> QED BY <4>2, <4>3, <4>4, <4>5, <2>2, <2>1
    <3> QED BY <3>1, <3>2
  <2>5. Distinct(new) BY <2>4 DEF Distinct
  <2> QED BY <1>2, <2>5 DEF Entered
<1> QED BY <1>1, <1>2

LEMMA ExtendsTransitive ==
  ASSUME NEW a \in Seq(Entries), NEW b \in Seq(Entries), NEW c \in Seq(Entries),
         Extends(a, b), Extends(b, c)
  PROVE  Extends(a, c)
BY DEF Extends

(* What the list has stays at its offset when the list is extended.        *)
LEMMA ExtensionKeepsOffsets ==
  ASSUME NEW a \in Seq(Entries), NEW b \in Seq(Entries), NEW name,
         Extends(a, b), Distinct(b), Has(a, name)
  PROVE  findOffset(b, name) = findOffset(a, name)
<1>1. PICK i \in 1..Len(a) : a[i].key = name /\ Found(a, name) = a[i]
  BY FoundHasKey
<1>2. i \in 1..Len(b) /\ b[i] = a[i] BY DEF Extends
<1>3. Has(b, name) BY <1>1, <1>2 DEF Has
<1>4. PICK j \in 1..Len(b) : b[j].key = name /\ Found(b, name) = b[j]
  BY <1>3, FoundHasKey
<1>5. i = j BY <1>1, <1>2, <1>4 DEF Distinct
<1> QED BY <1>1, <1>2, <1>3, <1>4, <1>5 DEF findOffset

-----------------------------------------------------------------------------
(* The register requests of a handler.                                     *)

LEMMA FirstFreeType ==
  ASSUME NEW free,
         NEW r0 \in Registers, NEW r1 \in Registers, NEW r2 \in Registers,
         NEW r3 \in Registers
  PROVE  FirstFree(free, r0, r1, r2, r3) \in Registers
BY DEF FirstFree

LEMMA RegisterNames ==
  /\ None \in Registers /\ "v0" \in Registers /\ "sp" \in Registers
  /\ "ra" \in Registers
  /\ "a0" \in Registers /\ "a1" \in Registers /\ "a2" \in Registers
  /\ "a3" \in Registers
  /\ "t0" \in Registers /\ "t1" \in Registers /\ "t2" \in Registers
  /\ "t3" \in Registers /\ "t5" \in Registers /\ "t6" \in Registers
  /\ "t7" \in Registers
  /\ "s0" \in Registers /\ "s1" \in Registers /\ "s2" \in Registers
  /\ "s3" \in Registers
BY DEF Registers

LEMMA OpType ==
  ASSUME NEW op \in Operations, NEW rd \in Registers, NEW rs \in Registers,
         NEW rt \in Registers, NEW imm \in Int,
         NEW target \in Targets \cup {NoName, "read", "write"}
  PROVE  Op(op, rd, rs, rt, imm, target) \in Ops
BY DEF Op, Ops

LEMMA LwType ==
  ASSUME NEW rd \in Registers, NEW offset \in Int
  PROVE  Lw(rd, offset) \in Ops
<1>1. NoName \in Targets \cup {NoName, "read", "write"} OBVIOUS
<1>2. "lw" \in Operations BY DEF Operations
<1>3. Op("lw", rd, None, None, offset, NoName) \in Ops
  BY <1>1, <1>2, OpType, RegisterNames
<1> QED BY <1>3 DEF Lw

(* A request extends the list by at most one distinct entry, and answers   *)
(* with one register.                                                      *)
LEMMA GrantType ==
  ASSUME NEW st \in States, NEW requests, NEW i \in Nat \ {0},
         i <= Len(requests) => requests[i].opd.name \in Names
  PROVE  /\ Grant(st, requests, i) \in States
         /\ Extends(st.list, Grant(st, requests, i).list)
         /\ Distinct(st.list) => Distinct(Grant(st, requests, i).list)
         /\ Len(Grant(st, requests, i).regs) =
              IF i > Len(requests) THEN Len(st.regs) ELSE Len(st.regs) + 1
<1> DEFINE name == requests[i].opd.name
           list == Entered(st.list, name)
<1>1. /\ st.list \in Seq(Entries) /\ st.free \subseteq Allocatable
      /\ st.regs \in Seq(Registers) /\ st.loads \in Seq(Ops)
      /\ st.offset \in Nat
  BY DEF States
<1>2. Extends(st.list, st.list) BY <1>1 DEF Extends
<1>3. CASE i > Len(requests) BY <1>2, <1>3 DEF Grant
<1>4. CASE ~ (i > Len(requests)) /\ requests[i].mode = "w"
  <2>1. name \in Names BY <1>4
  <2> DEFINE reg == FirstFree(st.free, "s0", "s1", "s2", "s3")
             new == [st EXCEPT !.list = list, !.free = @ \ {reg},
                               !.offset = findOffset(list, name),
                               !.regs = Append(@, reg)]
  <2>2. Grant(st, requests, i) = new BY <1>4 DEF Grant, get_register_w
  <2>3. reg \in Registers BY FirstFreeType, RegisterNames
  <2>4. list \in Seq(Entries) /\ Has(list, name) /\ Extends(st.list, list)
    BY <1>1, <2>1, EnteredType
  <2>5. findOffset(list, name) \in Nat BY <2>4, OffsetType
  <2> HIDE DEF list, reg, name
  <2>6. /\ new.list = list /\ new.free = st.free \ {reg}
        /\ new.offset = findOffset(list, name)
        /\ new.regs = Append(st.regs, reg) /\ new.loads = st.loads
    BY DEF States
  <2>7. Append(st.regs, reg) \in Seq(Registers)
        /\ Len(Append(st.regs, reg)) = Len(st.regs) + 1
    BY <1>1, <2>3
  <2>8. new \in States BY <1>1, <2>4, <2>5, <2>7 DEF States
  <2> HIDE DEF new
  <2>9. Distinct(st.list) => Distinct(list)
    BY <1>1, <2>1, EnteredDistinct DEF list
  <2> QED BY <1>4, <2>2, <2>4, <2>6, <2>7, <2>8, <2>9
<1>5. CASE ~ (i > Len(requests)) /\ requests[i].mode # "w"
  <2>1. name \in Names BY <1>5
  <2>2. Grant(st, requests, i) = get_register(st, name) BY <1>5 DEF Grant
  <2>3. CASE Has(a0_a3_list, name)
    <3> DEFINE reg == ArgumentRegister(Found(a0_a3_list, name).aRegister)
               new == [st EXCEPT !.regs = Append(@, reg)]
    <3>1. get_register(st, name) = new BY <2>3 DEF get_register
    <3>2. reg \in Registers BY RegisterNames DEF ArgumentRegister
    <3> HIDE DEF reg
    <3>3. Append(st.regs, reg) \in Seq(Registers)
          /\ Len(Append(st.regs, reg)) = Len(st.regs) + 1
      BY <1>1, <3>2
    <3>4. new \in States /\ new.list = st.list /\ new.regs = Append(st.regs, reg)
      BY <3>3 DEF States
    <3> QED BY <1>2, <1>5, <2>2, <3>1, <3>3, <3>4
  <2>4. CASE ~ Has(a0_a3_list, name)
    <3> DEFINE reg == FirstFree(st.free, "t0", "t1", "t2", "t3")
               load == Lw(reg, findOffset(list, name))
               new == [st EXCEPT !.list = list, !.free = @ \ {reg},
                                 !.regs = Append(@, reg), !.loads = Append(@, load)]
    <3>1. get_register(st, name) = new BY <2>4 DEF get_register
    <3>2. reg \in Registers BY FirstFreeType, RegisterNames
    <3>3. list \in Seq(Entries) /\ Extends(st.list, list)
      BY <1>1, <2>1, EnteredType
    <3>4. load \in Ops BY <3>2, <3>3, OffsetType, LwType
    <3> HIDE DEF list, reg, load, name
    <3>5. /\ Append(st.regs, reg) \in Seq(Registers)
          /\ Len(Append(st.regs, reg)) = Len(st.regs) + 1
          /\ Append(st.loads, load) \in Seq(Ops)
      BY <1>1, <3>2, <3>4
    <3>6. new.list = list /\ new.regs = Append(st.regs, reg) BY DEF States
    <3>7. new \in States BY <1>1, <3>3, <3>5 DEF States
    <3> HIDE DEF new
    <3>8. Distinct(st.list) => Distinct(list)
      BY <1>1, <2>1, EnteredDistinct DEF list, name
    <3> QED BY <1>5, <2>2, <3>1, <3>3, <3>5, <3>6, <3>7, <3>8
  <2> QED BY <2>3, <2>4
<1> QED BY <1>3, <1>4, <1>5

AllRequests == [mode: {"r", "w"}, opd: Opds]

LEMMA SourcesType ==
  ASSUME NEW r1 \in Opds, NEW r2 \in Opds
  PROVE  /\ Sources(r1, r2) \in Seq(AllRequests)
         /\ AddSources(r1, r2) \in Seq(AllRequests)
         /\ MulSources(r1, r2) \in Seq(AllRequests)
         /\ Sources(r1, Number(0)) \in Seq(AllRequests)
<1>1. /\ ReadOf(r1) \in AllRequests /\ ReadOf(r2) \in AllRequests
      /\ WriteOf(r1) \in AllRequests /\ WriteOf(r2) \in AllRequests
  BY DEF ReadOf, WriteOf, AllRequests
<1>2. IsConstant(Number(0)) BY DEF IsConstant, Number, Opd
<1>3. /\ <<>> \in Seq(AllRequests)
      /\ \A x \in AllRequests : <<x>> \in Seq(AllRequests)
      /\ \A x, y \in AllRequests : <<x, y>> \in Seq(AllRequests)
      /\ \A s, t \in Seq(AllRequests) : s \o t \in Seq(AllRequests)
  OBVIOUS
<1>4. Sources(r1, r2) \in Seq(AllRequests) BY <1>1, <1>3 DEF Sources
<1>5. AddSources(r1, r2) \in Seq(AllRequests) BY <1>1, <1>3 DEF AddSources
<1>6. MulSources(r1, r2) \in Seq(AllRequests) BY <1>1, <1>3 DEF MulSources
<1>7. Sources(r1, Number(0)) \in Seq(AllRequests) BY <1>1, <1>2, <1>3 DEF Sources
<1> QED BY <1>4, <1>5, <1>6, <1>7

LEMMA RequestsType ==
  ASSUME NEW tac \in Code
  PROVE  Requests(tac) \in Seq(AllRequests)
<1>1. tac.left \in Opds /\ tac.r1 \in Opds /\ tac.r2 \in Opds
  BY DEF Code
<1>2. /\ ReadOf(tac.r1) \in AllRequests /\ ReadOf(tac.r2) \in AllRequests
      /\ WriteOf(tac.left) \in AllRequests /\ WriteOf(tac.r1) \in AllRequests
  BY <1>1 DEF ReadOf, WriteOf, AllRequests
<1>3. /\ <<>> \in Seq(AllRequests)
      /\ \A x \in AllRequests : <<x>> \in Seq(AllRequests)
      /\ \A x, y \in AllRequests : <<x, y>> \in Seq(AllRequests)
      /\ \A s, t \in Seq(AllRequests) : s \o t \in Seq(AllRequests)
  OBVIOUS
<1>4. /\ Sources(tac.r1, tac.r2) \in Seq(AllRequests)
      /\ AddSources(tac.r1, tac.r2) \in Seq(AllRequests)
      /\ MulSources(tac.r1, tac.r2) \in Seq(AllRequests)
      /\ Sources(tac.r1, Number(0)) \in Seq(AllRequests)
  BY <1>1, SourcesType
<1>5. /\ <<WriteOf(tac.left)>> \in Seq(AllRequests)
      /\ <<WriteOf(tac.r1)>> \in Seq(AllRequests)
      /\ <<WriteOf(tac.left), ReadOf(tac.r1)>> \in Seq(AllRequests)
      /\ <<ReadOf(tac.r1), ReadOf(tac.r2)>> \in Seq(AllRequests)
  BY <1>2, <1>3
<1>6. /\ <<WriteOf(tac.left)>> \o Sources(tac.r1, Number(0)) \in Seq(AllRequests)
      /\ <<WriteOf(tac.left)>> \o AddSources(tac.r1, tac.r2) \in Seq(AllRequests)
      /\ <<WriteOf(tac.left)>> \o MulSources(tac.r1, tac.r2) \in Seq(AllRequests)
  BY <1>3, <1>4, <1>5
<1> QED BY <1>3, <1>4, <1>5, <1>6 DEF Requests

(* The requests of the current instruction are for variables.              *)
LEMMA RequestsProper ==
  ASSUME ir \in Seq(Code), tac_code \in 1..Len(ir), Asserted
  PROVE  /\ Len(Requests(Now)) \in Nat
         /\ \A i \in 1..Len(Requests(Now)) :
              Requests(Now)[i].opd.name \in Names
<1>1. Now \in Code BY DEF Now
<1> DEFINE R == Requests(Now)
<1>2. R \in Seq(AllRequests) BY <1>1, RequestsType
<1>3. ASSUME NEW i \in 1..Len(R) PROVE R[i].opd.name \in Names
  <2>1. IsVariable(R[i].opd) BY DEF Asserted
  <2> HIDE DEF R
  <2>2. R[i] \in AllRequests BY <1>2
  <2>3. R[i].opd \in Opds BY <2>2 DEF AllRequests
  <2> QED BY <2>1, <2>3 DEF IsVariable, Opds
<1> QED BY <1>2, <1>3

(* The three steps of Granted.                                             *)
LEMMA GrantsType ==
  ASSUME ir \in Seq(Code), tac_code \in 1..Len(ir), Asserted,
         linklist \in Seq(Entries), available \subseteq Allocatable,
         write_offset \in Nat
  PROVE  /\ Grants \in States
         /\ Extends(linklist, Grants.list)
         /\ Distinct(linklist) => Distinct(Grants.list)
         /\ Len(Requests(Now)) <= 3 => Len(Grants.regs) = Len(Requests(Now))
<1> DEFINE R == Requests(Now)
           st0 == [list |-> linklist, free |-> available, offset |-> write_offset,
                   regs |-> <<>>, loads |-> <<>>]
           st1 == Grant(st0, R, 1)
           st2 == Grant(st1, R, 2)
           st3 == Grant(st2, R, 3)
<1>1. /\ Len(R) \in Nat
      /\ \A i \in 1..Len(R) : R[i].opd.name \in Names
  BY RequestsProper
<1>2. Grants = st3 BY DEF Grants, Granted
<1>3. st0 \in States /\ st0.list = linklist /\ Len(st0.regs) = 0
  BY DEF States
<1> HIDE DEF R, st0
<1>4. \A i \in Nat \ {0} : i <= Len(R) => R[i].opd.name \in Names
  BY <1>1
<1>5. /\ st1 \in States /\ Extends(st0.list, st1.list)
      /\ Distinct(st0.list) => Distinct(st1.list)
      /\ Len(st1.regs) = IF 1 > Len(R) THEN Len(st0.regs) ELSE Len(st0.regs) + 1
  BY <1>3, <1>4, GrantType
<1> HIDE DEF st1
<1>6. /\ st2 \in States /\ Extends(st1.list, st2.list)
      /\ Distinct(st1.list) => Distinct(st2.list)
      /\ Len(st2.regs) = IF 2 > Len(R) THEN Len(st1.regs) ELSE Len(st1.regs) + 1
  BY <1>5, <1>4, GrantType
<1> HIDE DEF st2
<1>7. /\ st3 \in States /\ Extends(st2.list, st3.list)
      /\ Distinct(st2.list) => Distinct(st3.list)
      /\ Len(st3.regs) = IF 3 > Len(R) THEN Len(st2.regs) ELSE Len(st2.regs) + 1
  BY <1>6, <1>4, GrantType
<1> HIDE DEF st3
<1>8. Extends(linklist, st3.list)
  <2>1. /\ st0.list \in Seq(Entries) /\ st1.list \in Seq(Entries)
        /\ st2.list \in Seq(Entries) /\ st3.list \in Seq(Entries)
    BY <1>3, <1>5, <1>6, <1>7 DEF States
  <2>2. Extends(st0.list, st2.list) BY <2>1, <1>5, <1>6, ExtendsTransitive
  <2>3. Extends(st0.list, st3.list) BY <2>1, <2>2, <1>7, ExtendsTransitive
  <2> QED BY <2>3, <1>3
<1>9. ASSUME Len(R) <= 3 PROVE Len(st3.regs) = Len(R)
  <2> DEFINE n == Len(R)
  <2> HIDE DEF n
  <2>0. n \in Nat /\ n <= 3 BY <1>1, <1>9 DEF n
  <2>1. n = 0 \/ n = 1 \/ n = 2 \/ n = 3 BY <2>0
  <2>2. Len(st1.regs) = IF 1 > n THEN 0 ELSE 1 BY <1>3, <1>5 DEF n
  <2>3. Len(st2.regs) = IF 1 > n THEN 0 ELSE IF 2 > n THEN 1 ELSE 2
    BY <2>1, <2>2, <1>6 DEF n
  <2>4. Len(st3.regs) = IF 3 > n THEN Len(st2.regs) ELSE Len(st2.regs) + 1
    BY <1>7 DEF n
  <2>5. Len(st3.regs) = n BY <2>1, <2>3, <2>4
  <2> QED BY <2>5 DEF n
<1>10. Distinct(linklist) => Distinct(st3.list) BY <1>3, <1>5, <1>6, <1>7
<1> QED BY <1>2, <1>7, <1>8, <1>9, <1>10 DEF R

(* How many registers a handler of each kind gets.                         *)
LEMMA RequestsLength ==
  ASSUME NEW tac \in Code
  PROVE  /\ Len(Requests(tac)) <= 3
         /\ tac.kind = "ASSIGN" => Len(Requests(tac)) = IF IsConstant(tac.r1) THEN 1 ELSE 2
         /\ tac.kind \in {"ADD", "SUB"} =>
              Len(Requests(tac)) = IF IsConstant(tac.r1) \/ IsConstant(tac.r2) THEN 2 ELSE 3
         /\ tac.kind \in {"MUL", "DIV"} => Len(Requests(tac)) = 3
         /\ tac.kind \in {"ADDR", "FETCH", "DEREF"} => Len(Requests(tac)) = 2
         /\ tac.kind \in Branches =>
              Len(Requests(tac)) = (IF IsConstant(tac.r1) THEN 0 ELSE 1)
                                   + (IF IsConstant(tac.r2) THEN 0 ELSE 1)
         /\ tac.kind = "RETURN" => Len(Requests(tac)) = IF IsConstant(tac.r1) THEN 0 ELSE 1
         /\ tac.kind \in {"CALL", "READ", "WRITE"} => Len(Requests(tac)) = 1
<1> DEFINE R == Requests(tac)
<1>1. IsConstant(Number(0)) BY DEF IsConstant, Number, Opd
<1>2. /\ tac.kind = "ASSIGN" => R = <<WriteOf(tac.left)>> \o Sources(tac.r1, Number(0))
      /\ tac.kind \in {"ADD", "SUB"} =>
           R = <<WriteOf(tac.left)>> \o AddSources(tac.r1, tac.r2)
      /\ tac.kind \in {"MUL", "DIV"} =>
           R = <<WriteOf(tac.left)>> \o MulSources(tac.r1, tac.r2)
      /\ tac.kind \in {"ADDR", "FETCH"} => R = <<WriteOf(tac.left), ReadOf(tac.r1)>>
      /\ tac.kind = "DEREF" => R = <<ReadOf(tac.r1), ReadOf(tac.r2)>>
      /\ tac.kind \in Branches => R = Sources(tac.r1, tac.r2)
      /\ tac.kind = "RETURN" => R = Sources(tac.r1, Number(0))
      /\ tac.kind \in {"CALL", "READ"} => R = <<WriteOf(tac.left)>>
      /\ tac.kind = "WRITE" => R = <<WriteOf(tac.r1)>>
      /\ tac.kind \notin {"ASSIGN", "ADD", "SUB", "MUL", "DIV", "ADDR", "FETCH", "DEREF",
                         "RETURN", "CALL", "READ", "WRITE"} \cup Branches => R = <<>>
  BY DEF Requests, Branches
<1>3. /\ Len(Sources(tac.r1, Number(0))) = IF IsConstant(tac.r1) THEN 0 ELSE 1
      /\ Len(AddSources(tac.r1, tac.r2)) =
           IF IsConstant(tac.r1) \/ IsConstant(tac.r2) THEN 1 ELSE 2
      /\ Len(MulSources(tac.r1, tac.r2)) = 2
      /\ Len(Sources(tac.r1, tac.r2)) = (IF IsConstant(tac.r1) THEN 0 ELSE 1)
                                        + (IF IsConstant(tac.r2) THEN 0 ELSE 1)
  BY <1>1 DEF Sources, AddSources, MulSources
<1>4. tac.left \in Opds /\ tac.r1 \in Opds /\ tac.r2 \in Opds BY DEF Code
<1>5. /\ <<WriteOf(tac.left)>> \in Seq(AllRequests)
      /\ \A s, t \in Seq(AllRequests) : Len(s \o t) = Len(s) + Len(t)
  BY <1>4 DEF WriteOf, AllRequests
<1>6. /\ Len(<<WriteOf(tac.left)>>) = 1 /\ Len(<<WriteOf(tac.r1)>>) = 1
      /\ Len(<<WriteOf(tac.left), ReadOf(tac.r1)>>) = 2
      /\ Len(<<ReadOf(tac.r1), ReadOf(tac.r2)>>) = 2
      /\ Len(<<>>) = 0 /\ Len(<<ReadOf(tac.r1)>>) = 1
  OBVIOUS
<1>7. /\ Len(<<WriteOf(tac.left)>> \o Sources(tac.r1, Number(0)))
             = 1 + Len(Sources(tac.r1, Number(0)))
      /\ Len(<<WriteOf(tac.left)>> \o AddSources(tac.r1, tac.r2))
             = 1 + Len(AddSources(tac.r1, tac.r2))
      /\ Len(<<WriteOf(tac.left)>> \o MulSources(tac.r1, tac.r2))
             = 1 + Len(MulSources(tac.r1, tac.r2))
  BY <1>4, <1>5, <1>6, SourcesType
<1> HIDE DEF R
<1>8. /\ tac.kind = "ASSIGN" => Len(R) = IF IsConstant(tac.r1) THEN 1 ELSE 2
      /\ tac.kind \in {"ADD", "SUB"} =>
           Len(R) = IF IsConstant(tac.r1) \/ IsConstant(tac.r2) THEN 2 ELSE 3
      /\ tac.kind \in {"MUL", "DIV"} => Len(R) = 3
  <2>2. ASSUME tac.kind = "ASSIGN"
        PROVE  Len(R) = IF IsConstant(tac.r1) THEN 1 ELSE 2
    <3>1. Len(R) = 1 + Len(Sources(tac.r1, Number(0))) BY <2>2, <1>2, <1>7
    <3> QED BY <3>1, <1>3
  <2>3. ASSUME tac.kind \in {"ADD", "SUB"}
        PROVE  Len(R) = IF IsConstant(tac.r1) \/ IsConstant(tac.r2) THEN 2 ELSE 3
    <3>1. Len(R) = 1 + Len(AddSources(tac.r1, tac.r2)) BY <2>3, <1>2, <1>7
    <3> QED BY <3>1, <1>3
  <2>4. ASSUME tac.kind \in {"MUL", "DIV"} PROVE Len(R) = 3
    <3>1. Len(R) = 1 + Len(MulSources(tac.r1, tac.r2)) BY <2>4, <1>2, <1>7
    <3> QED BY <3>1, <1>3
  <2> QED BY <2>2, <2>3, <2>4
<1>9. /\ tac.kind \in {"ADDR", "FETCH", "DEREF"} => Len(R) = 2
      /\ tac.kind \in Branches =>
           Len(R) = (IF IsConstant(tac.r1) THEN 0 ELSE 1)
                    + (IF IsConstant(tac.r2) THEN 0 ELSE 1)
      /\ tac.kind = "RETURN" => Len(R) = IF IsConstant(tac.r1) THEN 0 ELSE 1
      /\ tac.kind \in {"CALL", "READ", "WRITE"} => Len(R) = 1
  BY <1>2, <1>3, <1>6
<1>10. Len(R) = 0 \/ Len(R) = 1 \/ Len(R) = 2 \/ Len(R) = 3
  <2> DEFINE A == {"ASSIGN", "ADD", "SUB", "MUL", "DIV"}
             B == {"ADDR", "FETCH", "DEREF", "RETURN", "CALL", "READ", "WRITE"}
  <2>1. CASE tac.kind \in A BY <2>1, <1>8
  <2>2. CASE tac.kind \in B BY <2>2, <1>9
  <2>3. CASE tac.kind \in Branches
    <3>1. CASE IsConstant(tac.r1) /\ IsConstant(tac.r2) BY <2>3, <3>1, <1>9
    <3>2. CASE IsConstant(tac.r1) /\ ~ IsConstant(tac.r2) BY <2>3, <3>2, <1>9
    <3>3. CASE ~ IsConstant(tac.r1) /\ IsConstant(tac.r2) BY <2>3, <3>3, <1>9
    <3>4. CASE ~ IsConstant(tac.r1) /\ ~ IsConstant(tac.r2) BY <2>3, <3>4, <1>9
    <3> QED BY <3>1, <3>2, <3>3, <3>4
  <2>4. CASE tac.kind \notin A /\ tac.kind \notin B /\ tac.kind \notin Branches
    <3>1. R = <<>> BY <2>4, <1>2
    <3> QED BY <3>1
  <2> HIDE DEF A, B
  <2> QED BY <2>1, <2>2, <2>3, <2>4
<1>11. Len(R) <= 3
  <2> DEFINE n == Len(R)
  <2>1. n = 0 \/ n = 1 \/ n = 2 \/ n = 3 BY <1>10
  <2> HIDE DEF n
  <2>2. n <= 3 BY <2>1
  <2> QED BY <2>2 DEF n
<1> QED BY <1>8, <1>9, <1>11 DEF R

-----------------------------------------------------------------------------
(* The emitted instructions.                                               *)

LEMMA EmittedType ==
  /\ \A rs \in Registers, offset \in Int : Sw(rs, offset) \in Ops
  /\ \A rd \in Registers, value \in Int : Li(rd, value) \in Ops
  /\ \A rd \in Registers, rs \in Registers : Move(rd, rs) \in Ops
  /\ \A r \in Registers : Neg(r) \in Ops
  /\ \A rd \in Registers, rs \in Registers, value \in Int : Addi(rd, rs, value) \in Ops
  /\ \A op \in {"add", "sub", "mul", "div", "mflo", "lw_at", "sw_at"} :
       \A rd \in Registers, rs \in Registers, rt \in Registers :
         Three(op, rd, rs, rt) \in Ops
  /\ \A rs \in Registers, offset \in Int : SwStack(rs, offset) \in Ops
  /\ \A rd \in Registers, offset \in Int : LwStack(rd, offset) \in Ops
  /\ \A size \in Int : Stack(size) \in Ops
  /\ \A op \in {"label", "j", "jal", "jr"} :
       \A target \in Targets \cup {NoName, "read", "write"} : Jump(op, target) \in Ops
<1>1. NoName \in Targets \cup {NoName, "read", "write"} /\ 0 \in Int OBVIOUS
<1>2. /\ "sw" \in Operations /\ "li" \in Operations /\ "move" \in Operations
      /\ "neg" \in Operations /\ "addi" \in Operations
      /\ "sw_sp" \in Operations /\ "lw_sp" \in Operations
      /\ {"add", "sub", "mul", "div", "mflo", "lw_at", "sw_at"} \subseteq Operations
      /\ {"label", "j", "jal", "jr"} \subseteq Operations
  BY DEF Operations
<1>3. \A rs \in Registers, offset \in Int : Sw(rs, offset) \in Ops
  BY <1>1, <1>2, OpType, RegisterNames DEF Sw
<1>4. \A rd \in Registers, value \in Int : Li(rd, value) \in Ops
  BY <1>1, <1>2, OpType, RegisterNames DEF Li
<1>5. \A rd \in Registers, rs \in Registers : Move(rd, rs) \in Ops
  BY <1>1, <1>2, OpType, RegisterNames DEF Move
<1>6. \A r \in Registers : Neg(r) \in Ops
  BY <1>1, <1>2, OpType, RegisterNames DEF Neg
<1>7. \A rd \in Registers, rs \in Registers, value \in Int : Addi(rd, rs, value) \in Ops
  BY <1>1, <1>2, OpType, RegisterNames DEF Addi
<1>8. ASSUME NEW op \in {"add", "sub", "mul", "div", "mflo", "lw_at", "sw_at"},
             NEW rd \in Registers, NEW rs \in Registers, NEW rt \in Registers
      PROVE  Three(op, rd, rs, rt) \in Ops
  <2>1. op \in Operations BY <1>2
  <2> QED BY <2>1, <1>1, OpType DEF Three
<1>9. \A rs \in Registers, offset \in Int : SwStack(rs, offset) \in Ops
  BY <1>1, <1>2, OpType, RegisterNames DEF SwStack
<1>10. \A rd \in Registers, offset \in Int : LwStack(rd, offset) \in Ops
  BY <1>1, <1>2, OpType, RegisterNames DEF LwStack
<1>11. \A size \in Int : Stack(size) \in Ops BY <1>7, RegisterNames DEF Stack
<1>12. ASSUME NEW op \in {"label", "j", "jal", "jr"},
              NEW target \in Targets \cup {NoName, "read", "write"}
       PROVE  Jump(op, target) \in Ops
  <2>1. op \in Operations BY <1>2
  <2> QED BY <2>1, <1>1, OpType, RegisterNames DEF Jump
<1> QED BY <1>3, <1>4, <1>5, <1>6, <1>7, <1>8, <1>9, <1>10, <1>11, <1>12

(* What a handler has once its requests are granted.                       *)
LEMMA HandlesType ==
  ASSUME TypeOK, NEW kinds, Handles(kinds)
  PROVE  /\ tac_code \in 1..Len(ir) /\ Now \in Code /\ Now.kind \in kinds
         /\ Grants.list \in Seq(Entries) /\ Grants.free \subseteq Allocatable
         /\ Grants.offset \in Nat /\ Grants.regs \in Seq(Registers)
         /\ Loads \in Seq(Ops)
         /\ Extends(linklist, Grants.list)
         /\ Distinct(linklist) => Distinct(Grants.list)
         /\ Len(Grants.regs) = Len(Requests(Now))
<1>1. /\ ir \in Seq(Code) /\ tac_code \in 1..Len(ir) + 1
      /\ linklist \in Seq(Entries) /\ available \subseteq Allocatable
      /\ write_offset \in Nat
  BY DEF TypeOK
<1>2. tac_code <= Len(ir) /\ Now.kind \in kinds /\ Asserted BY DEF Handles
<1>3. Len(ir) \in Nat BY <1>1
<1>4. tac_code \in 1..Len(ir) BY <1>1, <1>2, <1>3
<1>5. Now \in Code BY <1>1, <1>4 DEF Now
<1>6. Len(Requests(Now)) <= 3 BY <1>5, RequestsLength
<1>7. /\ Grants \in States
      /\ Extends(linklist, Grants.list)
      /\ Distinct(linklist) => Distinct(Grants.list)
      /\ Len(Grants.regs) = Len(Requests(Now))
  BY <1>1, <1>2, <1>4, <1>6, GrantsType
<1>8. /\ Grants.list \in Seq(Entries) /\ Grants.free \subseteq Allocatable
      /\ Grants.offset \in Nat /\ Grants.regs \in Seq(Registers)
      /\ Grants.loads \in Seq(Ops)
  BY <1>7 DEF States
<1> QED BY <1>2, <1>4, <1>5, <1>7, <1>8 DEF Loads

(* A handler that emits instructions keeps the types.                      *)
LEMMA EmitType ==
  ASSUME TypeOK, NEW kinds, Handles(kinds), NEW ops \in Seq(Ops), Emit(ops),
         available' \subseteq Allocatable
  PROVE  TypeOK'
<1>1. /\ tac_code \in 1..Len(ir) /\ Grants.list \in Seq(Entries)
      /\ Grants.offset \in Nat
  BY HandlesType
<1>2. /\ linklist' \in Seq(Entries) /\ write_offset' \in Nat
      /\ code' = Append(code, ops) /\ tac_code' = tac_code + 1
      /\ phase' = phase /\ ir' = ir /\ a0_a3_list' = a0_a3_list
      /\ param_count' = param_count
  BY <1>1 DEF Emit
<1>3. code \in Seq(Seq(Ops)) /\ Len(code) = tac_code - 1 /\ ir \in Seq(Code)
  BY DEF TypeOK
<1>4. code' \in Seq(Seq(Ops)) /\ Len(code') = Len(code) + 1 BY <1>2, <1>3
<1>5. Len(ir) \in Nat BY <1>3
<1>6. tac_code' \in 1..Len(ir') + 1 /\ Len(code') = tac_code' - 1
  BY <1>1, <1>2, <1>3, <1>4, <1>5
<1> QED BY <1>2, <1>4, <1>6 DEF TypeOK

(* The registers a handler was given, and its store.                       *)
LEMMA GrantedRegisters ==
  ASSUME Grants.regs \in Seq(Registers), Grants.offset \in Nat
  PROVE  /\ Len(Grants.regs) >= 1 => X \in Registers /\ Store \in Ops
         /\ Len(Grants.regs) >= 2 => Y \in Registers
         /\ Len(Grants.regs) >= 3 => Z \in Registers
<1>1. Len(Grants.regs) >= 1 => X \in Registers BY DEF X
<1>2. Len(Grants.regs) >= 2 => Y \in Registers BY DEF Y
<1>3. Len(Grants.regs) >= 3 => Z \in Registers BY DEF Z
<1>4. Len(Grants.regs) >= 1 => Store \in Ops BY <1>1, EmittedType DEF Store
<1> QED BY <1>1, <1>2, <1>3, <1>4

(* Code put together from well-typed code.                                 *)
LEMMA CodeType ==
  /\ <<>> \in Seq(Ops)
  /\ \A a \in Ops : <<a>> \in Seq(Ops)
  /\ \A a, b \in Ops : <<a, b>> \in Seq(Ops)
  /\ \A a, b, c \in Ops : <<a, b, c>> \in Seq(Ops)
  /\ \A s, t \in Seq(Ops) : s \o t \in Seq(Ops)
OBVIOUS

(* The load of an argument, and what it loads.                             *)
LEMMA ArgumentLoadType ==
  ASSUME NEW i, NEW offset \in Int
  PROVE  /\ ArgumentLoad(i, offset) \in Ops
         /\ ArgumentLoad(i, offset).op \in {"lw", "lw_none"}
         /\ ArgumentLoad(i, offset).imm = offset
<1>1. ArgumentRegister(i) \in Registers BY RegisterNames DEF ArgumentRegister
<1>2. CASE i <= 3
  <2>1. ArgumentLoad(i, offset) = Lw(ArgumentRegister(i), offset) BY <1>2 DEF ArgumentLoad
  <2>2. /\ Lw(ArgumentRegister(i), offset).op = "lw"
        /\ Lw(ArgumentRegister(i), offset).imm = offset
    BY DEF Lw, Op
  <2> QED BY <1>1, <2>1, <2>2, LwType
<1>3. CASE ~ (i <= 3)
  <2> DEFINE load == Op("lw_none", None, None, None, offset, NoName)
  <2>1. ArgumentLoad(i, offset) = load BY <1>3 DEF ArgumentLoad
  <2>2. load.op = "lw_none" /\ load.imm = offset BY DEF Op
  <2>3. NoName \in Targets \cup {NoName, "read", "write"} /\ "lw_none" \in Operations
    BY DEF Operations
  <2>4. load \in Ops BY <2>3, OpType, RegisterNames
  <2> HIDE DEF load
  <2> QED BY <2>1, <2>2, <2>4
<1> QED BY <1>2, <1>3

(* The loads of the arguments of a call.                                   *)
LEMMA ArgumentLoadsType ==
  ASSUME linklist \in Seq(Entries), tac_code \in Nat
  PROVE  ArgumentLoads \in Seq(Ops)
<1> DEFINE args == {i \in 1..tac_code - 1 : IsArg(i)}
           count == Cardinality(args)
           load(i) == ArgumentLoad(i - 1,
                         findOffset(linklist, ir[tac_code - i].r1.name))
<1>1. IsFiniteSet(1..tac_code - 1) BY FS_Interval
<1>2. IsFiniteSet(args) BY <1>1, FS_Subset
<1>3. count \in Nat BY <1>2, FS_CardinalityType
<1>4. \A i \in 1..count : load(i) \in Ops
  <2> TAKE i \in 1..count
  <2>1. findOffset(linklist, ir[tac_code - i].r1.name) \in Int BY OffsetType
  <2> QED BY <2>1, ArgumentLoadType
<1>5. ArgumentLoads = [i \in 1..count |-> load(i)] BY DEF ArgumentLoads
<1> HIDE DEF count, load
<1> QED BY <1>3, <1>4, <1>5

LEMMA SavedType ==
  /\ [i \in 1..5 |-> SwStack(Saved[i], 4 * (i - 1))] \in Seq(Ops)
  /\ [i \in 1..5 |-> LwStack(Saved[i], 4 * (i - 1))] \in Seq(Ops)
<1>1. \A i \in 1..5 : Saved[i] \in Registers /\ 4 * (i - 1) \in Int
  BY RegisterNames DEF Saved
<1>2. \A i \in 1..5 : /\ SwStack(Saved[i], 4 * (i - 1)) \in Ops
                      /\ LwStack(Saved[i], 4 * (i - 1)) \in Ops
  BY <1>1, EmittedType
<1> QED BY <1>2

-----------------------------------------------------------------------------
(* Type correctness.                                                       *)

LEMMA AssignType == ASSUME TypeOK, EmitAssign PROVE TypeOK'
<1> DEFINE last == IF IsConstant(Now.r1) THEN Li(X, Now.r1.value) ELSE Move(X, Y)
<1>1. Handles({"ASSIGN"}) BY DEF EmitAssign
<1>2. /\ Now \in Code /\ Now.kind = "ASSIGN" /\ Loads \in Seq(Ops)
      /\ Grants.regs \in Seq(Registers) /\ Grants.offset \in Nat
      /\ Len(Grants.regs) = Len(Requests(Now))
  BY <1>1, HandlesType
<1>3. Len(Grants.regs) = IF IsConstant(Now.r1) THEN 1 ELSE 2
  BY <1>2, RequestsLength
<1>4. X \in Registers /\ Store \in Ops /\ (~ IsConstant(Now.r1) => Y \in Registers)
  BY <1>2, <1>3, GrantedRegisters
<1>5. Now.r1.value \in Int BY <1>2 DEF Code, Opds
<1>6. last \in Ops BY <1>4, <1>5, EmittedType
<1>7. Emit(Loads \o <<last, Store>>) /\ available' = Allocatable
  BY DEF EmitAssign, restore_reg
<1>8. Loads \o <<last, Store>> \in Seq(Ops)
  <2> HIDE DEF last
  <2> QED BY <1>2, <1>4, <1>6, CodeType
<1> QED BY <1>1, <1>7, <1>8, EmitType

LEMMA AddType == ASSUME TypeOK, EmitAdd PROVE TypeOK'
<1> DEFINE sum == IF IsConstant(Now.r1) THEN Addi(X, Y, Now.r1.value)
                  ELSE IF IsConstant(Now.r2) THEN Addi(X, Y, Now.r2.value)
                  ELSE Three("add", X, Y, Z)
<1>1. Handles({"ADD"}) BY DEF EmitAdd
<1>2. /\ Now \in Code /\ Now.kind = "ADD" /\ Loads \in Seq(Ops)
      /\ Grants.regs \in Seq(Registers) /\ Grants.offset \in Nat
      /\ Len(Grants.regs) = Len(Requests(Now))
  BY <1>1, HandlesType
<1>3. Len(Grants.regs) = IF IsConstant(Now.r1) \/ IsConstant(Now.r2) THEN 2 ELSE 3
  BY <1>2, RequestsLength
<1>4. /\ X \in Registers /\ Store \in Ops /\ Y \in Registers
      /\ ~ IsConstant(Now.r1) /\ ~ IsConstant(Now.r2) => Z \in Registers
  BY <1>2, <1>3, GrantedRegisters
<1>5. Now.r1.value \in Int /\ Now.r2.value \in Int BY <1>2 DEF Code, Opds
<1>6. sum \in Ops
  <2>1. CASE IsConstant(Now.r1) \/ IsConstant(Now.r2)
    <3>1. Addi(X, Y, Now.r1.value) \in Ops /\ Addi(X, Y, Now.r2.value) \in Ops
      BY <1>4, <1>5, EmittedType
    <3>2. sum = Addi(X, Y, Now.r1.value) \/ sum = Addi(X, Y, Now.r2.value) BY <2>1
    <3> QED BY <3>1, <3>2
  <2>2. CASE ~ (IsConstant(Now.r1) \/ IsConstant(Now.r2))
    <3>1. sum = Three("add", X, Y, Z) BY <2>2
    <3>2. Three("add", X, Y, Z) \in Ops BY <2>2, <1>4, EmittedType
    <3> QED BY <3>1, <3>2
  <2> QED BY <2>1, <2>2
<1>7. Emit(Loads \o <<sum, Store>>) /\ available' = Allocatable
  BY DEF EmitAdd, restore_reg
<1>8. Loads \o <<sum, Store>> \in Seq(Ops)
  <2> HIDE DEF sum
  <2> QED BY <1>2, <1>4, <1>6, CodeType
<1> QED BY <1>1, <1>7, <1>8, EmitType

LEMMA SubType == ASSUME TypeOK, EmitSub PROVE TypeOK'
<1> DEFINE difference ==
             IF IsConstant(Now.r1) THEN <<Neg(Y), Addi(X, Y, Now.r1.value)>>
             ELSE IF IsConstant(Now.r2) THEN <<Addi(X, Y, -Now.r2.value)>>
             ELSE <<Three("sub", X, Y, Z)>>
<1>1. Handles({"SUB"}) BY DEF EmitSub
<1>2. /\ Now \in Code /\ Now.kind = "SUB" /\ Loads \in Seq(Ops)
      /\ Grants.regs \in Seq(Registers) /\ Grants.offset \in Nat
      /\ Len(Grants.regs) = Len(Requests(Now))
  BY <1>1, HandlesType
<1>3. Len(Grants.regs) = IF IsConstant(Now.r1) \/ IsConstant(Now.r2) THEN 2 ELSE 3
  BY <1>2, RequestsLength
<1>4. /\ X \in Registers /\ Store \in Ops /\ Y \in Registers
      /\ ~ IsConstant(Now.r1) /\ ~ IsConstant(Now.r2) => Z \in Registers
  BY <1>2, <1>3, GrantedRegisters
<1>5. Now.r1.value \in Int /\ -Now.r2.value \in Int BY <1>2 DEF Code, Opds
<1>6. difference \in Seq(Ops)
  <2>1. CASE IsConstant(Now.r1)
    <3>1. difference = <<Neg(Y), Addi(X, Y, Now.r1.value)>> BY <2>1
    <3>2. Neg(Y) \in Ops /\ Addi(X, Y, Now.r1.value) \in Ops
      BY <1>4, <1>5, EmittedType
    <3> QED BY <3>1, <3>2, CodeType
  <2>2. CASE ~ IsConstant(Now.r1) /\ IsConstant(Now.r2)
    <3>1. difference = <<Addi(X, Y, -Now.r2.value)>> BY <2>2
    <3>2. Addi(X, Y, -Now.r2.value) \in Ops BY <1>4, <1>5, EmittedType
    <3> QED BY <3>1, <3>2, CodeType
  <2>3. CASE ~ IsConstant(Now.r1) /\ ~ IsConstant(Now.r2)
    <3>1. difference = <<Three("sub", X, Y, Z)>> BY <2>3
    <3>2. Three("sub", X, Y, Z) \in Ops BY <2>3, <1>4, EmittedType
    <3> QED BY <3>1, <3>2, CodeType
  <2> QED BY <2>1, <2>2, <2>3
<1>7. Emit(Loads \o difference \o <<Store>>) /\ available' = Allocatable
  BY DEF EmitSub, restore_reg
<1>8. Loads \o difference \o <<Store>> \in Seq(Ops)
  <2> HIDE DEF difference
  <2> QED BY <1>2, <1>4, <1>6, CodeType
<1> QED BY <1>1, <1>7, <1>8, EmitType

LEMMA MulType == ASSUME TypeOK, EmitMul PROVE TypeOK'
<1>1. Handles({"MUL"}) BY DEF EmitMul
<1>2. /\ Now \in Code /\ Now.kind = "MUL" /\ Loads \in Seq(Ops)
      /\ Grants.regs \in Seq(Registers) /\ Grants.offset \in Nat
      /\ Len(Grants.regs) = Len(Requests(Now))
  BY <1>1, HandlesType
<1>3. Len(Grants.regs) = 3 BY <1>2, RequestsLength
<1>4. X \in Registers /\ Y \in Registers /\ Z \in Registers /\ Store \in Ops
  BY <1>2, <1>3, GrantedRegisters
<1>6. Three("mul", X, Y, Z) \in Ops BY <1>4, EmittedType
<1>7. Emit(Loads \o <<Three("mul", X, Y, Z), Store>>) /\ available' = Allocatable
  BY DEF EmitMul, restore_reg
<1>8. Loads \o <<Three("mul", X, Y, Z), Store>> \in Seq(Ops) BY <1>2, <1>4, <1>6, CodeType
<1> QED BY <1>1, <1>7, <1>8, EmitType

LEMMA DivType == ASSUME TypeOK, EmitDiv PROVE TypeOK'
<1>1. Handles({"DIV"}) BY DEF EmitDiv
<1>2. /\ Now \in Code /\ Now.kind = "DIV" /\ Loads \in Seq(Ops)
      /\ Grants.regs \in Seq(Registers) /\ Grants.offset \in Nat
      /\ Len(Grants.regs) = Len(Requests(Now))
  BY <1>1, HandlesType
<1>3. Len(Grants.regs) = 3 BY <1>2, RequestsLength
<1>4. X \in Registers /\ Y \in Registers /\ Z \in Registers /\ Store \in Ops
  BY <1>2, <1>3, GrantedRegisters
<1>6. Three("div", None, Y, Z) \in Ops /\ Three("mflo", X, None, None) \in Ops
  BY <1>4, EmittedType, RegisterNames
<1>7. Emit(Loads \o <<Three("div", None, Y, Z), Three("mflo", X, None, None), Store>>) /\ available' = Allocatable
  BY DEF EmitDiv, restore_reg
<1>8. Loads \o <<Three("div", None, Y, Z), Three("mflo", X, None, None), Store>> \in Seq(Ops) BY <1>2, <1>4, <1>6, CodeType
<1> QED BY <1>1, <1>7, <1>8, EmitType

LEMMA FetchType == ASSUME TypeOK, EmitFetch PROVE TypeOK'
<1>1. Handles({"FETCH"}) BY DEF EmitFetch
<1>2. /\ Now \in Code /\ Now.kind = "FETCH" /\ Loads \in Seq(Ops)
      /\ Grants.regs \in Seq(Registers) /\ Grants.offset \in Nat
      /\ Len(Grants.regs) = Len(Requests(Now))
  BY <1>1, HandlesType
<1>3. Len(Grants.regs) = 2 BY <1>2, RequestsLength
<1>4. X \in Registers /\ Y \in Registers /\ Store \in Ops
  BY <1>2, <1>3, GrantedRegisters
<1>6. Three("lw_at", X, Y, None) \in Ops BY <1>4, EmittedType, RegisterNames
<1>7. Emit(Loads \o <<Three("lw_at", X, Y, None), Store>>) /\ available' = Allocatable
  BY DEF EmitFetch, restore_reg
<1>8. Loads \o <<Three("lw_at", X, Y, None), Store>> \in Seq(Ops) BY <1>2, <1>4, <1>6, CodeType
<1> QED BY <1>1, <1>7, <1>8, EmitType

LEMMA DerefType == ASSUME TypeOK, EmitDeref PROVE TypeOK'
<1>1. Handles({"DEREF"}) BY DEF EmitDeref
<1>2. /\ Now \in Code /\ Now.kind = "DEREF" /\ Loads \in Seq(Ops)
      /\ Grants.regs \in Seq(Registers) /\ Grants.offset \in Nat
      /\ Len(Grants.regs) = Len(Requests(Now))
  BY <1>1, HandlesType
<1>3. Len(Grants.regs) = 2 BY <1>2, RequestsLength
<1>4. X \in Registers /\ Y \in Registers
  BY <1>2, <1>3, GrantedRegisters
<1>6. Three("sw_at", None, Y, X) \in Ops BY <1>4, EmittedType, RegisterNames
<1>7. Emit(Loads \o <<Three("sw_at", None, Y, X)>>) /\ available' = Allocatable
  BY DEF EmitDeref, restore_reg
<1>8. Loads \o <<Three("sw_at", None, Y, X)>> \in Seq(Ops) BY <1>2, <1>4, <1>6, CodeType
<1> QED BY <1>1, <1>7, <1>8, EmitType

LEMMA BranchType == ASSUME TypeOK, EmitBranch PROVE TypeOK'
<1> DEFINE first == IF IsConstant(Now.r1) THEN "t5" ELSE X
           second == IF IsConstant(Now.r2) THEN "t6"
                     ELSE Grants.regs[Len(Grants.regs)]
           load1 == IF IsConstant(Now.r1) THEN <<Li("t5", Now.r1.value)>> ELSE <<>>
           load2 == IF IsConstant(Now.r2) THEN <<Li("t6", Now.r2.value)>> ELSE <<>>
           jump == Op(Now.kind, None, first, second, 0, Now.target)
<1>1. Handles(Branches) BY DEF EmitBranch
<1>2. /\ Now \in Code /\ Now.kind \in Branches /\ Loads \in Seq(Ops)
      /\ Grants.regs \in Seq(Registers) /\ Grants.offset \in Nat
      /\ Len(Grants.regs) = Len(Requests(Now))
  BY <1>1, HandlesType
<1>3. Len(Grants.regs) = (IF IsConstant(Now.r1) THEN 0 ELSE 1)
                         + (IF IsConstant(Now.r2) THEN 0 ELSE 1)
  BY <1>2, RequestsLength
<1>4. first \in Registers BY <1>2, <1>3, GrantedRegisters, RegisterNames
<1>5. second \in Registers
  <2>1. CASE IsConstant(Now.r2) BY <2>1, RegisterNames
  <2>2. CASE ~ IsConstant(Now.r2)
    <3>1. Len(Grants.regs) \in 1..Len(Grants.regs) BY <2>2, <1>2, <1>3
    <3> QED BY <2>2, <3>1, <1>2
  <2> QED BY <2>1, <2>2
<1>6. /\ Now.r1.value \in Int /\ Now.r2.value \in Int
      /\ Now.target \in Targets \cup {NoName, "read", "write"}
  BY <1>2 DEF Code, Opds
<1>7. load1 \in Seq(Ops) /\ load2 \in Seq(Ops)
  <2>1. Li("t5", Now.r1.value) \in Ops /\ Li("t6", Now.r2.value) \in Ops
    BY <1>6, EmittedType, RegisterNames
  <2> QED BY <2>1, CodeType
<1>8. jump \in Ops
  <2>1. Now.kind \in Operations /\ 0 \in Int BY <1>2 DEF Operations
  <2> HIDE DEF first, second
  <2> QED BY <2>1, <1>4, <1>5, <1>6, OpType, RegisterNames
<1>9. Emit(load1 \o Loads \o load2 \o <<jump>>) /\ available' = Allocatable
  BY DEF EmitBranch, restore_reg
<1>10. load1 \o Loads \o load2 \o <<jump>> \in Seq(Ops)
  <2> HIDE DEF load1, load2, jump
  <2> QED BY <1>2, <1>7, <1>8, CodeType
<1> QED BY <1>1, <1>9, <1>10, EmitType

LEMMA ReturnType == ASSUME TypeOK, EmitReturn PROVE TypeOK'
<1> DEFINE result == IF IsConstant(Now.r1) THEN Li("v0", Now.r1.value) ELSE Move("v0", X)
<1>1. Handles({"RETURN"}) BY DEF EmitReturn
<1>2. /\ Now \in Code /\ Now.kind = "RETURN" /\ Loads \in Seq(Ops)
      /\ Grants.regs \in Seq(Registers) /\ Grants.offset \in Nat
      /\ Grants.free \subseteq Allocatable
      /\ Len(Grants.regs) = Len(Requests(Now))
  BY <1>1, HandlesType
<1>3. Len(Grants.regs) = IF IsConstant(Now.r1) THEN 0 ELSE 1
  BY <1>2, RequestsLength
<1>4. ~ IsConstant(Now.r1) => X \in Registers BY <1>2, <1>3, GrantedRegisters
<1>5. Now.r1.value \in Int BY <1>2 DEF Code, Opds
<1>6. result \in Ops BY <1>4, <1>5, EmittedType, RegisterNames
<1>7. Emit(Loads \o <<result, Jump("jr", NoName)>>) /\ available' = Grants.free
  BY DEF EmitReturn
<1>8. Jump("jr", NoName) \in Ops BY EmittedType
<1>9. Loads \o <<result, Jump("jr", NoName)>> \in Seq(Ops)
  <2> HIDE DEF result
  <2> QED BY <1>2, <1>6, <1>8, CodeType
<1> QED BY <1>1, <1>2, <1>7, <1>9, EmitType

LEMMA CallType == ASSUME TypeOK, EmitCall PROVE TypeOK'
<1> DEFINE saves == [i \in 1..5 |-> SwStack(Saved[i], 4 * (i - 1))]
           restores == [i \in 1..5 |-> LwStack(Saved[i], 4 * (i - 1))]
           ops == <<Stack(-20)>> \o saves \o ArgumentLoads
                  \o <<Jump("jal", Now.target)>> \o restores
                  \o <<Stack(20), Move(X, "v0"), Store>>
<1>1. Handles({"CALL"}) BY DEF EmitCall
<1>2. /\ Now \in Code /\ Now.kind = "CALL" /\ tac_code \in 1..Len(ir)
      /\ Grants.regs \in Seq(Registers) /\ Grants.offset \in Nat
      /\ Len(Grants.regs) = Len(Requests(Now))
  BY <1>1, HandlesType
<1>3. Len(Grants.regs) = 1 BY <1>2, RequestsLength
<1>4. X \in Registers /\ Store \in Ops BY <1>2, <1>3, GrantedRegisters
<1>5. linklist \in Seq(Entries) /\ tac_code \in Nat BY <1>2 DEF TypeOK
<1>6. ArgumentLoads \in Seq(Ops) BY <1>5, ArgumentLoadsType
<1>7. Now.target \in Targets \cup {NoName, "read", "write"} BY <1>2 DEF Code
<1>8. /\ Stack(-20) \in Ops /\ Stack(20) \in Ops /\ Move(X, "v0") \in Ops
      /\ Jump("jal", Now.target) \in Ops
  BY <1>4, <1>7, EmittedType, RegisterNames
<1>9. saves \in Seq(Ops) /\ restores \in Seq(Ops) BY SavedType
<1>10. ops \in Seq(Ops)
  <2> HIDE DEF saves, restores
  <2> QED BY <1>4, <1>6, <1>8, <1>9, CodeType
<1>11. Emit(ops) /\ available' = Allocatable BY DEF EmitCall, restore_reg
<1> HIDE DEF ops
<1> QED BY <1>1, <1>10, <1>11, EmitType

LEMMA ReadType == ASSUME TypeOK, EmitRead PROVE TypeOK'
<1> DEFINE call == <<Stack(-4), SwStack("ra", 0), Jump("jal", "read"), LwStack("ra", 0),
                     Stack(4), Move(X, "v0"), Store>>
<1>1. Handles({"READ"}) BY DEF EmitRead
<1>2. /\ Now \in Code /\ Now.kind = "READ"
      /\ Grants.regs \in Seq(Registers) /\ Grants.offset \in Nat
      /\ Len(Grants.regs) = Len(Requests(Now))
  BY <1>1, HandlesType
<1>3. Len(Grants.regs) = 1 BY <1>2, RequestsLength
<1>4. X \in Registers /\ Store \in Ops BY <1>2, <1>3, GrantedRegisters
<1>5. /\ Stack(-4) \in Ops /\ Stack(4) \in Ops /\ Move(X, "v0") \in Ops
      /\ SwStack("ra", 0) \in Ops /\ LwStack("ra", 0) \in Ops
      /\ Jump("jal", "read") \in Ops
  BY <1>4, EmittedType, RegisterNames
<1>6. call \in Seq(Ops) BY <1>4, <1>5
<1>7. Emit(call) /\ available' = Allocatable BY DEF EmitRead, restore_reg
<1> HIDE DEF call
<1> QED BY <1>1, <1>6, <1>7, EmitType

LEMMA WriteType == ASSUME TypeOK, EmitWrite PROVE TypeOK'
<1> DEFINE call == <<Move("t7", "a0"), Move("a0", X), Stack(-4), SwStack("ra", 0),
                     Jump("jal", "write"), LwStack("ra", 0), Stack(4), Move("a0", "t7")>>
<1>1. Handles({"WRITE"}) BY DEF EmitWrite
<1>2. /\ Now \in Code /\ Now.kind = "WRITE"
      /\ Grants.regs \in Seq(Registers) /\ Grants.offset \in Nat
      /\ Len(Grants.regs) = Len(Requests(Now))
  BY <1>1, HandlesType
<1>3. Len(Grants.regs) = 1 BY <1>2, RequestsLength
<1>4. X \in Registers BY <1>2, <1>3, GrantedRegisters
<1>5. /\ Stack(-4) \in Ops /\ Stack(4) \in Ops /\ Move("a0", X) \in Ops
      /\ Move("t7", "a0") \in Ops /\ Move("a0", "t7") \in Ops
      /\ SwStack("ra", 0) \in Ops /\ LwStack("ra", 0) \in Ops
      /\ Jump("jal", "write") \in Ops
  BY <1>4, EmittedType, RegisterNames
<1>6. call \in Seq(Ops) BY <1>5
<1>7. Emit(call) /\ available' = Allocatable BY DEF EmitWrite, restore_reg
<1> HIDE DEF call
<1> QED BY <1>1, <1>6, <1>7, EmitType

(* The handlers that make no request.                                      *)
LEMMA PlainType ==
  ASSUME TypeOK, EmitLabel \/ EmitGoto \/ EmitNothing
  PROVE  TypeOK'
<1>1. available \subseteq Allocatable BY DEF TypeOK
<1>2. CASE EmitLabel
  <2>1. Handles({"LABEL", "FUNCTION"}) BY <1>2 DEF EmitLabel
  <2>2. Now \in Code BY <2>1, HandlesType
  <2>3. Jump("label", Now.target) \in Ops BY <2>2, EmittedType DEF Code
  <2>4. <<Jump("label", Now.target)>> \in Seq(Ops) BY <2>3, CodeType
  <2> QED BY <1>1, <1>2, <2>1, <2>4, EmitType DEF EmitLabel
<1>3. CASE EmitGoto
  <2>1. Handles({"GOTO"}) BY <1>3 DEF EmitGoto
  <2>2. Now \in Code BY <2>1, HandlesType
  <2>3. Jump("j", Now.target) \in Ops BY <2>2, EmittedType DEF Code
  <2>4. <<Jump("j", Now.target)>> \in Seq(Ops) BY <2>3, CodeType
  <2> QED BY <1>1, <1>3, <2>1, <2>4, EmitType DEF EmitGoto
<1>4. CASE EmitNothing
  <2>1. Handles({"DEC", "ARG"}) BY <1>4 DEF EmitNothing
  <2> QED BY <1>1, <1>4, <2>1, EmitType, CodeType DEF EmitNothing
<1> QED BY <1>2, <1>3, <1>4

LEMMA ParamType ==
  ASSUME TypeOK, EmitParam, ir \in Programs
  PROVE  TypeOK'
<1> DEFINE entry == [key |-> Now.r1.name, aRegister |-> param_count]
           ParamEntries == [key: Names, aRegister: Nat]
<1>1. Handles({"PARAM"}) BY DEF EmitParam
<1>2. tac_code \in 1..Len(ir) /\ Now \in Code /\ Now.kind = "PARAM"
  BY <1>1, HandlesType
<1>3. /\ a0_a3_list \in Seq(ParamEntries) /\ param_count \in Nat
      /\ code \in Seq(Seq(Ops)) /\ Len(code) = tac_code - 1
      /\ ir \in Seq(Code) /\ phase \in {"emit", "done", "aborted"}
  BY DEF TypeOK
<1>4. Now.r1.name \in Names
  <2>1. IsVariable(Now.r1) BY <1>2, ProgramsAssumption DEF Now
  <2> QED BY <1>2, <2>1 DEF Code, Opds, IsVariable
<1>5. entry \in ParamEntries BY <1>3, <1>4
<1>6. a0_a3_list' \in Seq(ParamEntries)
  <2>1. a0_a3_list' = a0_a3_list \/ a0_a3_list' = Append(a0_a3_list, entry)
    BY DEF EmitParam
  <2>2. a0_a3_list \in Seq(ParamEntries) BY <1>3
  <2> HIDE DEF entry, ParamEntries
  <2>3. Append(a0_a3_list, entry) \in Seq(ParamEntries) BY <1>5, <2>2
  <2> QED BY <2>1, <2>2, <2>3
<1>7. /\ code' = Append(code, <<>>) /\ tac_code' = tac_code + 1
      /\ ir' = ir /\ linklist' = linklist /\ available' = available
      /\ write_offset' = write_offset
  BY DEF EmitParam
<1>8. code' \in Seq(Seq(Ops)) /\ Len(code') = Len(code) + 1 BY <1>3, <1>7, CodeType
<1>9. param_count' \in Nat BY <1>3 DEF EmitParam
<1>10. phase' \in {"emit", "done", "aborted"} BY <1>3 DEF EmitParam
<1>11. Len(ir) \in Nat BY <1>3
<1>12. tac_code' \in 1..Len(ir') + 1 /\ Len(code') = tac_code' - 1
  BY <1>2, <1>3, <1>7, <1>8, <1>11
<1> HIDE DEF entry
<1> QED BY <1>6, <1>7, <1>8, <1>9, <1>10, <1>12 DEF TypeOK

-----------------------------------------------------------------------------
(* The list that is emitted is one that tac_from_buffer returned.          *)
LEMMA ProgramStays == ASSUME [Next]_vars PROVE ir' = ir
<1>1. \A ops : Emit(ops) => ir' = ir BY DEF Emit
<1> QED BY <1>1 DEF Next, vars, EmitLabel, EmitGoto, EmitNothing, EmitAssign, EmitAdd,
     EmitSub, EmitMul, EmitDiv, EmitFetch, EmitDeref, EmitBranch, EmitReturn,
     EmitCall, EmitParam, EmitRead, EmitWrite, Abort, Finish

LEMMA InitType == ASSUME Init PROVE TypeOK /\ ir \in Programs
<1>1. ir \in Programs /\ ir \in Seq(Code) BY ProgramsAssumption DEF Init
<1>2. Len(ir) \in Nat BY <1>1
<1>3. tac_code \in 1..Len(ir) + 1 BY <1>2 DEF Init
<1> QED BY <1>1, <1>3 DEF Init, TypeOK

LEMMA NextType == ASSUME TypeOK, ir \in Programs, [Next]_vars PROVE TypeOK'
<1>1. CASE UNCHANGED vars BY <1>1 DEF TypeOK, vars
<1>2. CASE Abort \/ Finish BY <1>2 DEF Abort, Finish, TypeOK
<1> QED BY <1>1, <1>2, PlainType, AssignType, AddType, SubType, MulType, DivType,
     FetchType, DerefType, BranchType, ReturnType, CallType, ParamType, ReadType,
     WriteType DEF Next

(* Whatever the TAC list, the registers, offsets and instructions that are *)
(* used and emitted are of their types: no handler takes a register it did *)
(* not ask for, and no parameter gets a negative register.                 *)
THEOREM TypeCorrect == Spec => []TypeOK
<1>1. Init => TypeOK /\ ir \in Programs BY InitType
<1>2. TypeOK /\ ir \in Programs /\ [Next]_vars => (TypeOK /\ ir \in Programs)'
  BY NextType, ProgramStays
<1> QED BY <1>1, <1>2, PTL DEF Spec

-----------------------------------------------------------------------------
(* The list of variables is only extended, and stays distinct.             *)

Kept ==
  /\ linklist' \in Seq(Entries)
  /\ Extends(linklist, linklist')
  /\ Distinct(linklist) => Distinct(linklist')

LEMMA EmitKeeps ==
  ASSUME TypeOK, NEW kinds, Handles(kinds), NEW ops, Emit(ops)
  PROVE  Kept
BY HandlesType DEF Emit, Kept

LEMMA ListStep == ASSUME TypeOK, [Next]_vars PROVE Kept
<1>1. ASSUME linklist' = linklist PROVE Kept
  BY <1>1 DEF Kept, Extends, TypeOK
<1>2. CASE UNCHANGED vars BY <1>1, <1>2 DEF vars
<1>3. CASE Abort \/ Finish \/ EmitParam BY <1>1, <1>3 DEF Abort, Finish, EmitParam
<1>4. CASE EmitLabel \/ EmitGoto \/ EmitNothing
  BY <1>4, EmitKeeps DEF EmitLabel, EmitGoto, EmitNothing
<1>5. CASE EmitAssign \/ EmitAdd \/ EmitSub \/ EmitMul \/ EmitDiv
  BY <1>5, EmitKeeps DEF EmitAssign, EmitAdd, EmitSub, EmitMul, EmitDiv
<1>6. CASE EmitFetch \/ EmitDeref \/ EmitRead \/ EmitWrite \/ EmitReturn
  BY <1>6, EmitKeeps DEF EmitFetch, EmitDeref, EmitRead, EmitWrite, EmitReturn
<1>7. CASE EmitBranch BY <1>7, EmitKeeps DEF EmitBranch
<1>8. CASE EmitCall BY <1>8, EmitKeeps DEF EmitCall
<1> QED BY <1>2, <1>3, <1>4, <1>5, <1>6, <1>7, <1>8 DEF Next

(* No two variables share a word of array.                                 *)
THEOREM OffsetsAreDistinct == Spec => []OffsetsDistinct
<1>1. Init => OffsetsDistinct BY DEF Init, OffsetsDistinct, Distinct
<1>2. TypeOK /\ OffsetsDistinct /\ [Next]_vars => OffsetsDistinct'
  BY ListStep DEF OffsetsDistinct, Kept
<1> QED BY <1>1, <1>2, TypeCorrect, PTL DEF Spec

(* A variable keeps its word: code that was emitted with its offset stays  *)
(* right whatever is entered later.                                        *)
THEOREM OffsetsAreStable == Spec => OffsetsStable
<1>1. ASSUME TypeOK, OffsetsDistinct, [Next]_vars
      PROVE  \A n \in Names : Has(linklist, n) =>
               findOffset(linklist', n) = findOffset(linklist, n)
  <2>1. Kept BY <1>1, ListStep
  <2>2. Distinct(linklist') BY <1>1, <2>1 DEF Kept, OffsetsDistinct
  <2>3. linklist \in Seq(Entries) BY <1>1 DEF TypeOK
  <2> QED BY <2>1, <2>2, <2>3, ExtensionKeepsOffsets DEF Kept
<1>2. TypeOK /\ OffsetsDistinct /\ [Next]_vars =>
        [\A n \in Names : Has(linklist, n) =>
           findOffset(linklist', n) = findOffset(linklist, n)]_vars
  BY <1>1
<1> QED BY <1>2, TypeCorrect, OffsetsAreDistinct, PTL DEF Spec, OffsetsStable

-----------------------------------------------------------------------------
(***************************************************************************)
(* Where the emitted code goes in array, for every TAC list: a store to    *)
(* the word of the variable on the left, a load from the word of an        *)
(* operand or an argument.                                                 *)
(***************************************************************************)

(* AddressesAreOperands for one emitted instruction.                       *)
ArgumentsOf(prog, k) ==
  {prog[i].r1.name : i \in {i \in 1..k - 1 : \A j \in i..k - 1 : prog[j].kind = "ARG"}}

Held(list, name, offset) == Has(list, name) /\ offset = findOffset(list, name)

Addressed(prog, list, k, e) ==
  /\ e.op = "sw" => Held(list, prog[k].left.name, e.imm)
  /\ e.op \in {"lw", "lw_none"} =>
       \E n \in {prog[k].r1.name, prog[k].r2.name} \cup ArgumentsOf(prog, k) :
         Held(list, n, e.imm)

AddressInv ==
  \A k \in 1..Len(code) : \A i \in 1..Len(code[k]) :
    Addressed(ir, linklist, k, code[k][i])

(* What has been assigned has its word.                                    *)
AssignedInv ==
  \A k \in 1..Len(code) : ir[k].kind \in Sets => Has(linklist, ir[k].left.name)

-----------------------------------------------------------------------------
LEMMA ExtensionHolds ==
  ASSUME NEW a \in Seq(Entries), NEW b \in Seq(Entries), Extends(a, b), Distinct(b),
         NEW name, NEW offset, Held(a, name, offset)
  PROVE  Held(b, name, offset)
<1>1. Has(b, name) BY DEF Held, Has, Extends
<1>2. findOffset(b, name) = findOffset(a, name) BY ExtensionKeepsOffsets DEF Held
<1> QED BY <1>1, <1>2 DEF Held

LEMMA ExtensionAddressed ==
  ASSUME NEW a \in Seq(Entries), NEW b \in Seq(Entries), Extends(a, b), Distinct(b),
         NEW prog, NEW k, NEW e, Addressed(prog, a, k, e)
  PROVE  Addressed(prog, b, k, e)
BY ExtensionHolds DEF Addressed

(* The loads that get_register may print for an instruction.               *)
LoadsOf(list, tac) ==
  {e \in Ops : e.op = "lw" /\ \E n \in {tac.r1.name, tac.r2.name} : Held(list, n, e.imm)}

LEMMA ExtensionLoads ==
  ASSUME NEW a \in Seq(Entries), NEW b \in Seq(Entries), Extends(a, b), Distinct(b),
         NEW tac, NEW loads \in Seq(LoadsOf(a, tac))
  PROVE  loads \in Seq(LoadsOf(b, tac))
<1>1. LoadsOf(a, tac) \subseteq LoadsOf(b, tac) BY ExtensionHolds DEF LoadsOf
<1> HIDE DEF LoadsOf
<1> QED BY <1>1

-----------------------------------------------------------------------------
(* The first request may be to write the variable on the left, the others  *)
(* are to read an operand.                                                 *)

LEMMA SequencesOver ==
  ASSUME NEW S
  PROVE  /\ <<>> \in Seq(S)
         /\ \A a \in S : <<a>> \in Seq(S)
         /\ \A a, b \in S : <<a, b>> \in Seq(S)
         /\ \A a, b, c \in S : <<a, b, c>> \in Seq(S)
         /\ \A s, t \in Seq(S) : s \o t \in Seq(S)
OBVIOUS

LEMMA SourcesForm ==
  ASSUME NEW r1, NEW r2
  PROVE  /\ Sources(r1, r2) \in Seq({ReadOf(r1), ReadOf(r2)})
         /\ Sources(r1, Number(0)) \in Seq({ReadOf(r1), ReadOf(r2)})
         /\ AddSources(r1, r2) \in Seq({ReadOf(r1), ReadOf(r2)})
         /\ ~ IsConstant(r1) /\ ~ IsConstant(r2) =>
              MulSources(r1, r2) \in Seq({ReadOf(r1), ReadOf(r2)})
<1> DEFINE S == {ReadOf(r1), ReadOf(r2)}
<1>1. ReadOf(r1) \in S /\ ReadOf(r2) \in S OBVIOUS
<1>2. IsConstant(Number(0)) BY DEF IsConstant, Number, Opd
<1> HIDE DEF S
<1>3. Sources(r1, r2) \in Seq(S) BY <1>1, SequencesOver DEF Sources
<1>4. Sources(r1, Number(0)) \in Seq(S) BY <1>1, <1>2, SequencesOver DEF Sources
<1>5. AddSources(r1, r2) \in Seq(S) BY <1>1, SequencesOver DEF AddSources
<1>6. ~ IsConstant(r1) /\ ~ IsConstant(r2) => MulSources(r1, r2) \in Seq(S)
  BY <1>1, SequencesOver DEF MulSources
<1> QED BY <1>3, <1>4, <1>5, <1>6 DEF S

LEMMA FirstIs ==
  ASSUME NEW S, NEW s \in Seq(S), NEW a
  PROVE  /\ Len(<<a>> \o s) >= 1 /\ (<<a>> \o s)[1] = a
         /\ \A i \in 1..Len(<<a>> \o s) : i # 1 => (<<a>> \o s)[i] \in S
OBVIOUS

(* A request to read an operand.                                           *)
Reads(request, tac) ==
  request.mode # "w" /\ request.opd.name \in {tac.r1.name, tac.r2.name}

LEMMA ReadsForm ==
  ASSUME NEW tac
  PROVE  \A request \in {ReadOf(tac.r1), ReadOf(tac.r2)} : Reads(request, tac)
BY DEF ReadOf, Reads

LEMMA RequestsForm ==
  ASSUME NEW tac \in Code,
         \A i \in 1..Len(Requests(tac)) : IsVariable(Requests(tac)[i].opd)
  PROVE  /\ \A i \in 1..Len(Requests(tac)) : i # 1 => Reads(Requests(tac)[i], tac)
         /\ tac.kind \in Sets =>
              /\ Len(Requests(tac)) >= 1 /\ Requests(tac)[1].mode = "w"
              /\ Requests(tac)[1].opd = tac.left
         /\ Len(Requests(tac)) >= 1 /\ Requests(tac)[1].mode # "w"
              => Reads(Requests(tac)[1], tac)
<1> DEFINE R == Requests(tac)
           S == {ReadOf(tac.r1), ReadOf(tac.r2)}
           Form == /\ \A i \in 1..Len(R) : i # 1 => Reads(R[i], tac)
                   /\ tac.kind \in Sets =>
                        Len(R) >= 1 /\ R[1].mode = "w" /\ R[1].opd = tac.left
                   /\ Len(R) >= 1 /\ R[1].mode # "w" => Reads(R[1], tac)
<1>1. \A request \in S : Reads(request, tac) BY ReadsForm
<1>2. ReadOf(tac.r1) \in S /\ ReadOf(tac.r2) \in S OBVIOUS
<1>3. /\ WriteOf(tac.left).mode = "w" /\ WriteOf(tac.left).opd = tac.left
      /\ WriteOf(tac.r1).mode = "w"
  BY DEF WriteOf
<1> HIDE DEF S
<1>4. /\ Sources(tac.r1, tac.r2) \in Seq(S)
      /\ Sources(tac.r1, Number(0)) \in Seq(S)
      /\ AddSources(tac.r1, tac.r2) \in Seq(S)
      /\ ~ IsConstant(tac.r1) /\ ~ IsConstant(tac.r2) =>
           MulSources(tac.r1, tac.r2) \in Seq(S)
  BY SourcesForm DEF S
<1>5. ASSUME NEW s \in Seq(S), R = <<WriteOf(tac.left)>> \o s PROVE Form
  <2>1. /\ Len(R) >= 1 /\ R[1] = WriteOf(tac.left)
        /\ \A i \in 1..Len(R) : i # 1 => R[i] \in S
    BY <1>5, FirstIs
  <2> HIDE DEF R
  <2> QED BY <2>1, <1>1, <1>3
<1>6. ASSUME R \in Seq(S), tac.kind \notin Sets PROVE Form
  <2> HIDE DEF R
  <2>1. \A i \in 1..Len(R) : R[i] \in S BY <1>6
  <2>2. Len(R) \in Nat BY <1>6
  <2>3. Len(R) >= 1 => 1 \in 1..Len(R) BY <2>2
  <2> QED BY <2>1, <2>3, <1>1, <1>6
<1>7. CASE tac.kind = "ASSIGN"
  <2>1. R = <<WriteOf(tac.left)>> \o Sources(tac.r1, Number(0)) BY <1>7 DEF Requests, Branches
  <2> QED BY <2>1, <1>4, <1>5
<1>8. CASE tac.kind \in {"ADD", "SUB"}
  <2>1. R = <<WriteOf(tac.left)>> \o AddSources(tac.r1, tac.r2) BY <1>8 DEF Requests, Branches
  <2> QED BY <2>1, <1>4, <1>5
<1>9. CASE tac.kind \in {"MUL", "DIV"}
  <2> DEFINE M == MulSources(tac.r1, tac.r2)
  <2>1. R = <<WriteOf(tac.left)>> \o M BY <1>9 DEF Requests, Branches
  <2>2. Len(M) = 2 /\ Len(R) = 3 /\ R[2] = M[1] /\ R[3] = M[2]
    BY <2>1 DEF MulSources
  <2>3. IsVariable(M[1].opd) /\ IsVariable(M[2].opd)
    <3> HIDE DEF M
    <3>1. 2 \in 1..Len(R) /\ 3 \in 1..Len(R) BY <2>2
    <3> QED BY <3>1, <2>2
  <2>4. ~ IsConstant(tac.r1)
    <3>1. IsConstant(tac.r1) => M[1].opd = tac.r1 BY DEF MulSources, WriteOf
    <3> QED BY <3>1, <2>3 DEF IsConstant, IsVariable
  <2>5. ~ IsConstant(tac.r2)
    <3>1. IsConstant(tac.r2) => M[2].opd = tac.r2 BY <2>4 DEF MulSources, WriteOf
    <3> QED BY <3>1, <2>3 DEF IsConstant, IsVariable
  <2> QED BY <2>1, <2>4, <2>5, <1>4, <1>5
<1>10. CASE tac.kind \in {"ADDR", "FETCH"}
  <2>1. R = <<WriteOf(tac.left), ReadOf(tac.r1)>> BY <1>10 DEF Requests, Branches
  <2>2. R = <<WriteOf(tac.left)>> \o <<ReadOf(tac.r1)>> BY <2>1
  <2> QED BY <2>2, <1>2, <1>5, SequencesOver
<1>11. CASE tac.kind \in {"CALL", "READ"}
  <2>1. R = <<WriteOf(tac.left)>> BY <1>11 DEF Requests
  <2> QED BY <2>1, <1>3
<1>12. CASE tac.kind = "WRITE"
  <2>1. R = <<WriteOf(tac.r1)>> BY <1>12 DEF Requests
  <2> QED BY <2>1, <1>3, <1>12 DEF Sets, Arithmetic
<1>13. CASE tac.kind \notin {"ASSIGN", "ADD", "SUB", "MUL", "DIV", "ADDR", "FETCH",
                             "CALL", "READ", "WRITE"}
  <2>1. tac.kind \notin Sets BY <1>13 DEF Sets, Arithmetic
  <2>2. R \in Seq(S)
    <3>1. \/ R = <<ReadOf(tac.r1), ReadOf(tac.r2)>>
          \/ R = Sources(tac.r1, tac.r2)
          \/ R = Sources(tac.r1, Number(0))
          \/ R = <<>>
      BY <1>13 DEF Requests
    <3> QED BY <3>1, <1>2, <1>4, SequencesOver
  <2> QED BY <2>1, <2>2, <1>6
<1> QED BY <1>7, <1>8, <1>9, <1>10, <1>11, <1>12, <1>13

-----------------------------------------------------------------------------
(* What the requests leave: every load is of an operand, and the offset is *)
(* that of the variable on the left, as the list is after the last request.*)

LEMMA GrantAddress ==
  ASSUME NEW st \in States, Distinct(st.list), NEW requests, NEW i \in Nat \ {0}, NEW tac,
         Len(requests) \in Nat,
         i <= Len(requests) => requests[i].opd.name \in Names,
         i <= Len(requests) /\ requests[i].mode # "w" => Reads(requests[i], tac),
         st.loads \in Seq(LoadsOf(st.list, tac))
  PROVE  /\ Grant(st, requests, i).loads \in Seq(LoadsOf(Grant(st, requests, i).list, tac))
         /\ i <= Len(requests) /\ requests[i].mode = "w" =>
              Held(Grant(st, requests, i).list, requests[i].opd.name,
                   Grant(st, requests, i).offset)
         /\ i <= Len(requests) /\ requests[i].mode # "w" =>
              Grant(st, requests, i).offset = st.offset
         /\ i > Len(requests) => Grant(st, requests, i) = st
<1> DEFINE name == requests[i].opd.name
           list == Entered(st.list, name)
<1>1. st.list \in Seq(Entries) /\ st.loads \in Seq(Ops) BY DEF States
<1>2. CASE i > Len(requests)
  <2>1. Grant(st, requests, i) = st BY <1>2 DEF Grant
  <2>2. ~ (i <= Len(requests)) BY <1>2
  <2> QED BY <2>1, <2>2
<1>3. CASE i <= Len(requests) /\ requests[i].mode = "w"
  <2> DEFINE reg == FirstFree(st.free, "s0", "s1", "s2", "s3")
             new == [st EXCEPT !.list = list, !.free = @ \ {reg},
                               !.offset = findOffset(list, name),
                               !.regs = Append(@, reg)]
  <2>1. ~ (i > Len(requests)) BY <1>3
  <2>2. Grant(st, requests, i) = new BY <1>3, <2>1 DEF Grant, get_register_w
  <2>3. name \in Names BY <1>3
  <2>4. /\ list \in Seq(Entries) /\ Has(list, name) /\ Extends(st.list, list)
        /\ Distinct(list)
    BY <1>1, <2>3, EnteredType, EnteredDistinct
  <2> HIDE DEF list, reg, name
  <2>5. new.list = list /\ new.offset = findOffset(list, name) /\ new.loads = st.loads
    BY DEF States
  <2> HIDE DEF new
  <2>6. new.loads \in Seq(LoadsOf(new.list, tac)) BY <1>1, <2>4, <2>5, ExtensionLoads
  <2>7. Held(new.list, name, new.offset) BY <2>4, <2>5 DEF Held
  <2> QED BY <1>3, <2>1, <2>2, <2>6, <2>7 DEF name
<1>4. CASE i <= Len(requests) /\ requests[i].mode # "w"
  <2>1. ~ (i > Len(requests)) BY <1>4
  <2>2. Grant(st, requests, i) = get_register(st, name) BY <1>4, <2>1 DEF Grant
  <2>3. name \in Names /\ name \in {tac.r1.name, tac.r2.name} BY <1>4 DEF Reads
  <2>4. CASE Has(a0_a3_list, name)
    <3> DEFINE reg == ArgumentRegister(Found(a0_a3_list, name).aRegister)
               new == [st EXCEPT !.regs = Append(@, reg)]
    <3>1. get_register(st, name) = new BY <2>4 DEF get_register
    <3> HIDE DEF reg
    <3>2. new.list = st.list /\ new.loads = st.loads /\ new.offset = st.offset
      BY DEF States
    <3> HIDE DEF new
    <3> QED BY <1>4, <2>1, <2>2, <3>1, <3>2
  <2>5. CASE ~ Has(a0_a3_list, name)
    <3> DEFINE reg == FirstFree(st.free, "t0", "t1", "t2", "t3")
               load == Lw(reg, findOffset(list, name))
               new == [st EXCEPT !.list = list, !.free = @ \ {reg},
                                 !.regs = Append(@, reg), !.loads = Append(@, load)]
    <3>1. get_register(st, name) = new BY <2>5 DEF get_register
    <3>2. reg \in Registers BY FirstFreeType, RegisterNames
    <3>3. /\ list \in Seq(Entries) /\ Has(list, name) /\ Extends(st.list, list)
          /\ Distinct(list)
      BY <1>1, <2>3, EnteredType, EnteredDistinct
    <3>4. findOffset(list, name) \in Int BY <3>3, OffsetType
    <3>5. load \in Ops BY <3>2, <3>4, LwType
    <3>6. load.op = "lw" /\ load.imm = findOffset(list, name) BY DEF Lw, Op
    <3>7. Held(list, name, load.imm) BY <3>3, <3>6 DEF Held
    <3> HIDE DEF list, reg, load, name
    <3>8. load \in LoadsOf(list, tac) BY <2>3, <3>5, <3>6, <3>7 DEF LoadsOf
    <3>9. new.list = list /\ new.offset = st.offset /\ new.loads = Append(st.loads, load)
      BY DEF States
    <3>10. st.loads \in Seq(LoadsOf(list, tac)) BY <1>1, <3>3, ExtensionLoads
    <3> HIDE DEF new, LoadsOf
    <3>11. new.loads \in Seq(LoadsOf(new.list, tac)) BY <3>8, <3>9, <3>10
    <3> QED BY <1>4, <2>1, <2>2, <3>1, <3>9, <3>11
  <2> QED BY <2>4, <2>5
<1> QED BY <1>2, <1>3, <1>4

LEMMA GrantsAddress ==
  ASSUME TypeOK, OffsetsDistinct, NEW kinds, Handles(kinds)
  PROVE  /\ Loads \in Seq(LoadsOf(Grants.list, Now))
         /\ Now.kind \in Sets => Held(Grants.list, Now.left.name, Grants.offset)
<1> DEFINE R == Requests(Now)
           st0 == [list |-> linklist, free |-> available, offset |-> write_offset,
                   regs |-> <<>>, loads |-> <<>>]
           st1 == Grant(st0, R, 1)
           st2 == Grant(st1, R, 2)
           st3 == Grant(st2, R, 3)
           Keeps(a, b) == /\ Extends(a.list, b.list) /\ b \in States /\ Distinct(b.list)
                          /\ b.loads \in Seq(LoadsOf(b.list, Now))
<1>1. /\ ir \in Seq(Code) /\ linklist \in Seq(Entries) /\ available \subseteq Allocatable
      /\ write_offset \in Nat /\ Distinct(linklist) /\ Asserted
  BY DEF TypeOK, OffsetsDistinct, Handles
<1>2. tac_code \in 1..Len(ir) /\ Now \in Code BY HandlesType
<1>3. /\ Len(R) \in Nat /\ Len(R) <= 3
      /\ \A i \in 1..Len(R) : R[i].opd.name \in Names
  BY <1>1, <1>2, RequestsProper, RequestsLength
<1>4. /\ \A i \in 1..Len(R) : i # 1 => Reads(R[i], Now)
      /\ Now.kind \in Sets => Len(R) >= 1 /\ R[1].mode = "w" /\ R[1].opd = Now.left
      /\ Len(R) >= 1 /\ R[1].mode # "w" => Reads(R[1], Now)
  BY <1>1, <1>2, RequestsForm DEF Asserted
<1>5. Grants = st3 BY DEF Grants, Granted
<1>6. /\ st0 \in States /\ Distinct(st0.list)
      /\ st0.loads \in Seq(LoadsOf(st0.list, Now))
  BY <1>1 DEF States
<1> HIDE DEF R, st0
<1>7. \A i \in Nat \ {0} :
        /\ i <= Len(R) => R[i].opd.name \in Names
        /\ i <= Len(R) /\ R[i].mode # "w" => Reads(R[i], Now)
        /\ i <= Len(R) /\ i # 1 => R[i].mode # "w"
  BY <1>3, <1>4 DEF Reads
<1>8. ASSUME NEW st \in States, Distinct(st.list), st.loads \in Seq(LoadsOf(st.list, Now)),
             NEW i \in {1, 2, 3}
      PROVE  /\ Keeps(st, Grant(st, R, i))
             /\ i <= Len(R) /\ R[i].mode = "w" =>
                  Held(Grant(st, R, i).list, R[i].opd.name, Grant(st, R, i).offset)
             /\ i # 1 => Grant(st, R, i).offset = st.offset
  <2>1. /\ i \in Nat \ {0}
        /\ i <= Len(R) => R[i].opd.name \in Names
        /\ i <= Len(R) /\ R[i].mode # "w" => Reads(R[i], Now)
    BY <1>7
  <2>2. /\ Grant(st, R, i) \in States /\ Extends(st.list, Grant(st, R, i).list)
        /\ Distinct(Grant(st, R, i).list)
    BY <2>1, <1>8, GrantType
  <2>3. /\ Grant(st, R, i).loads \in Seq(LoadsOf(Grant(st, R, i).list, Now))
        /\ i <= Len(R) /\ R[i].mode = "w" =>
             Held(Grant(st, R, i).list, R[i].opd.name, Grant(st, R, i).offset)
        /\ i <= Len(R) /\ R[i].mode # "w" => Grant(st, R, i).offset = st.offset
        /\ i > Len(R) => Grant(st, R, i) = st
    BY <2>1, <1>3, <1>8, GrantAddress
  <2>4. i # 1 => Grant(st, R, i).offset = st.offset
    <3>1. CASE i > Len(R) BY <2>3, <3>1
    <3>2. CASE ~ (i > Len(R))
      <4>1. i <= Len(R) BY <1>3, <2>1, <3>2
      <4> QED BY <1>7, <2>1, <2>3, <4>1
    <3> QED BY <3>1, <3>2
  <2> QED BY <2>2, <2>3, <2>4
<1>9. /\ Keeps(st0, st1)
      /\ 1 <= Len(R) /\ R[1].mode = "w" => Held(st1.list, R[1].opd.name, st1.offset)
  <2> HIDE DEF Keeps
  <2>1. 1 \in {1, 2, 3} OBVIOUS
  <2> QED BY <1>6, <1>8, <2>1
<1> HIDE DEF st1
<1>10. Keeps(st1, st2) /\ st2.offset = st1.offset
  <2>1. 2 \in {1, 2, 3} /\ 2 # 1 OBVIOUS
  <2>2. /\ st1 \in States /\ Distinct(st1.list) /\ st1.loads \in Seq(LoadsOf(st1.list, Now))
    BY <1>9
  <2> HIDE DEF Keeps
  <2> QED BY <1>8, <2>1, <2>2
<1> HIDE DEF st2
<1>11. Keeps(st2, st3) /\ st3.offset = st2.offset
  <2>1. 3 \in {1, 2, 3} /\ 3 # 1 OBVIOUS
  <2>2. /\ st2 \in States /\ Distinct(st2.list) /\ st2.loads \in Seq(LoadsOf(st2.list, Now))
    BY <1>10
  <2> HIDE DEF Keeps
  <2> QED BY <1>8, <2>1, <2>2
<1> HIDE DEF st3
<1>12. ASSUME Now.kind \in Sets PROVE Held(st3.list, Now.left.name, st3.offset)
  <2>1. Held(st1.list, Now.left.name, st1.offset) BY <1>4, <1>9, <1>12
  <2>2. /\ st1.list \in Seq(Entries) /\ st2.list \in Seq(Entries)
        /\ st3.list \in Seq(Entries)
    BY <1>9, <1>10, <1>11 DEF States
  <2>3. Held(st2.list, Now.left.name, st1.offset) BY <1>10, <2>1, <2>2, ExtensionHolds
  <2>4. Held(st3.list, Now.left.name, st1.offset) BY <1>11, <2>2, <2>3, ExtensionHolds
  <2> QED BY <1>10, <1>11, <2>4
<1> QED BY <1>5, <1>11, <1>12 DEF Loads

-----------------------------------------------------------------------------
(* A handler that emits only what is addressed keeps the invariant.        *)

LEMMA EmitAddressed ==
  ASSUME TypeOK, OffsetsDistinct, AddressInv, AssignedInv, NEW kinds, Handles(kinds),
         NEW S, NEW ops \in Seq(S), Emit(ops),
         \A e \in S : Addressed(ir, Grants.list, tac_code, e),
         Now.kind \in Sets => Has(Grants.list, Now.left.name)
  PROVE  AddressInv' /\ AssignedInv'
<1>1. /\ linklist' = Grants.list /\ ir' = ir /\ code' = Append(code, ops)
  BY DEF Emit
<1>2. /\ linklist \in Seq(Entries) /\ code \in Seq(Seq(Ops)) /\ Len(code) = tac_code - 1
      /\ tac_code \in 1..Len(ir)
  BY HandlesType DEF TypeOK
<1>3. /\ Grants.list \in Seq(Entries) /\ Extends(linklist, Grants.list)
      /\ Distinct(Grants.list)
  BY HandlesType DEF OffsetsDistinct
<1>4. /\ Len(code') = Len(code) + 1 /\ code'[Len(code) + 1] = ops
      /\ \A k \in 1..Len(code) : code'[k] = code[k]
      /\ Len(code) \in Nat /\ Len(code) + 1 = tac_code
  BY <1>1, <1>2
<1>5. \A i \in 1..Len(ops) : ops[i] \in S OBVIOUS
<1>6. ASSUME NEW k \in 1..Len(code')
      PROVE  \A i \in 1..Len(code'[k]) : Addressed(ir', linklist', k, code'[k][i])
  <2>1. CASE k \in 1..Len(code)
    <3>1. \A i \in 1..Len(code[k]) : Addressed(ir, linklist, k, code[k][i])
      BY <2>1 DEF AddressInv
    <3>2. \A i \in 1..Len(code[k]) : Addressed(ir, Grants.list, k, code[k][i])
      BY <3>1, <1>2, <1>3, ExtensionAddressed
    <3> QED BY <2>1, <3>2, <1>1, <1>4
  <2>2. CASE k = tac_code BY <2>2, <1>1, <1>4, <1>5
  <2> QED BY <2>1, <2>2, <1>4
<1>7. ASSUME NEW k \in 1..Len(code'), ir[k].kind \in Sets
      PROVE  Has(Grants.list, ir[k].left.name)
  <2>1. CASE k \in 1..Len(code)
    <3>1. Has(linklist, ir[k].left.name) BY <2>1, <1>7 DEF AssignedInv
    <3> QED BY <3>1, <1>2, <1>3 DEF Has, Extends
  <2>2. CASE k = tac_code BY <2>2, <1>7 DEF Now
  <2> QED BY <2>1, <2>2, <1>4
<1> QED BY <1>1, <1>6, <1>7 DEF AddressInv, AssignedInv

(* What has no word of array in its line.                                  *)
Plain(e) == e.op \notin {"sw", "lw", "lw_none"}

LEMMA PlainOps ==
  /\ \A rd, value : Plain(Li(rd, value))
  /\ \A rd, rs : Plain(Move(rd, rs))
  /\ \A r : Plain(Neg(r))
  /\ \A rd, rs, value : Plain(Addi(rd, rs, value))
  /\ \A op \in {"add", "sub", "mul", "div", "mflo", "lw_at", "sw_at"} :
       \A rd, rs, rt : Plain(Three(op, rd, rs, rt))
  /\ \A rs, offset : Plain(SwStack(rs, offset))
  /\ \A rd, offset : Plain(LwStack(rd, offset))
  /\ \A size : Plain(Stack(size))
  /\ \A op \in {"label", "j", "jal", "jr"} : \A target : Plain(Jump(op, target))
  /\ \A op \in Branches : \A rs, rt, target : Plain(Op(op, None, rs, rt, 0, target))
BY DEF Plain, Li, Move, Neg, Addi, Three, SwStack, LwStack, Stack, Jump, Branches, Op

(* What a handler may emit.                                                *)
LEMMA GrantedAddressed ==
  ASSUME TypeOK, OffsetsDistinct, NEW kinds, Handles(kinds)
  PROVE  /\ Loads \in Seq(LoadsOf(Grants.list, Now))
         /\ \A e \in LoadsOf(Grants.list, Now) : Addressed(ir, Grants.list, tac_code, e)
         /\ \A e : Plain(e) => Addressed(ir, Grants.list, tac_code, e)
         /\ Now.kind \in Sets =>
              /\ Addressed(ir, Grants.list, tac_code, Store)
              /\ Has(Grants.list, Now.left.name)
<1>1. /\ Loads \in Seq(LoadsOf(Grants.list, Now))
      /\ Now.kind \in Sets => Held(Grants.list, Now.left.name, Grants.offset)
  BY GrantsAddress
<1>2. \A e : Plain(e) => Addressed(ir, Grants.list, tac_code, e) BY DEF Plain, Addressed
<1>3. \A e \in LoadsOf(Grants.list, Now) : Addressed(ir, Grants.list, tac_code, e)
  BY DEF LoadsOf, Addressed, Now
<1>4. Store.op = "sw" /\ Store.imm = Grants.offset BY DEF Store, Sw, Op
<1>5. Now.kind \in Sets => Addressed(ir, Grants.list, tac_code, Store)
  BY <1>1, <1>4 DEF Addressed, Now
<1> QED BY <1>1, <1>2, <1>3, <1>5 DEF Held

-----------------------------------------------------------------------------
(* One lemma per handler.                                                  *)

LEMMA MulAddressed ==
  ASSUME TypeOK, OffsetsDistinct, AddressInv, AssignedInv, EmitMul
  PROVE  AddressInv' /\ AssignedInv'
<1> DEFINE S == LoadsOf(Grants.list, Now) \cup {Three("mul", X, Y, Z), Store}
<1>1. Handles({"MUL"}) BY DEF EmitMul
<1>2. Now.kind \in {"MUL"} BY <1>1 DEF Handles
<1>3. \A e \in S : Addressed(ir, Grants.list, tac_code, e)
  <2>1. Now.kind \in Sets BY <1>2 DEF Sets, Arithmetic
  <2> QED BY <1>1, <2>1, GrantedAddressed, PlainOps
<1>4. Loads \in Seq(S)
  <2>1. Loads \in Seq(LoadsOf(Grants.list, Now)) BY <1>1, GrantedAddressed
  <2> QED BY <2>1
<1>5. Three("mul", X, Y, Z) \in S /\ Store \in S OBVIOUS
<1> HIDE DEF S
<1>6. Loads \o <<Three("mul", X, Y, Z), Store>> \in Seq(S)
  BY <1>4, <1>5, SequencesOver
<1>7. Emit(Loads \o <<Three("mul", X, Y, Z), Store>>) BY DEF EmitMul
<1>8. Has(Grants.list, Now.left.name)
  <2>1. Now.kind \in Sets BY <1>2 DEF Sets, Arithmetic
  <2> QED BY <1>1, <2>1, GrantedAddressed
<1> QED BY <1>1, <1>3, <1>6, <1>7, <1>8, EmitAddressed

LEMMA DivAddressed ==
  ASSUME TypeOK, OffsetsDistinct, AddressInv, AssignedInv, EmitDiv
  PROVE  AddressInv' /\ AssignedInv'
<1> DEFINE S == LoadsOf(Grants.list, Now) \cup {Three("div", None, Y, Z), Three("mflo", X, None, None), Store}
<1>1. Handles({"DIV"}) BY DEF EmitDiv
<1>2. Now.kind \in {"DIV"} BY <1>1 DEF Handles
<1>3. \A e \in S : Addressed(ir, Grants.list, tac_code, e)
  <2>1. Now.kind \in Sets BY <1>2 DEF Sets, Arithmetic
  <2> QED BY <1>1, <2>1, GrantedAddressed, PlainOps
<1>4. Loads \in Seq(S)
  <2>1. Loads \in Seq(LoadsOf(Grants.list, Now)) BY <1>1, GrantedAddressed
  <2> QED BY <2>1
<1>5. Three("div", None, Y, Z) \in S /\ Three("mflo", X, None, None) \in S /\ Store \in S OBVIOUS
<1> HIDE DEF S
<1>6. Loads \o <<Three("div", None, Y, Z), Three("mflo", X, None, None), Store>> \in Seq(S)
  BY <1>4, <1>5, SequencesOver
<1>7. Emit(Loads \o <<Three("div", None, Y, Z), Three("mflo", X, None, None), Store>>) BY DEF EmitDiv
<1>8. Has(Grants.list, Now.left.name)
  <2>1. Now.kind \in Sets BY <1>2 DEF Sets, Arithmetic
  <2> QED BY <1>1, <2>1, GrantedAddressed
<1> QED BY <1>1, <1>3, <1>6, <1>7, <1>8, EmitAddressed

LEMMA FetchAddressed ==
  ASSUME TypeOK, OffsetsDistinct, AddressInv, AssignedInv, EmitFetch
  PROVE  AddressInv' /\ AssignedInv'
<1> DEFINE S == LoadsOf(Grants.list, Now) \cup {Three("lw_at", X, Y, None), Store}
<1>1. Handles({"FETCH"}) BY DEF EmitFetch
<1>2. Now.kind \in {"FETCH"} BY <1>1 DEF Handles
<1>3. \A e \in S : Addressed(ir, Grants.list, tac_code, e)
  <2>1. Now.kind \in Sets BY <1>2 DEF Sets, Arithmetic
  <2> QED BY <1>1, <2>1, GrantedAddressed, PlainOps
<1>4. Loads \in Seq(S)
  <2>1. Loads \in Seq(LoadsOf(Grants.list, Now)) BY <1>1, GrantedAddressed
  <2> QED BY <2>1
<1>5. Three("lw_at", X, Y, None) \in S /\ Store \in S OBVIOUS
<1> HIDE DEF S
<1>6. Loads \o <<Three("lw_at", X, Y, None), Store>> \in Seq(S)
  BY <1>4, <1>5, SequencesOver
<1>7. Emit(Loads \o <<Three("lw_at", X, Y, None), Store>>) BY DEF EmitFetch
<1>8. Has(Grants.list, Now.left.name)
  <2>1. Now.kind \in Sets BY <1>2 DEF Sets, Arithmetic
  <2> QED BY <1>1, <2>1, GrantedAddressed
<1> QED BY <1>1, <1>3, <1>6, <1>7, <1>8, EmitAddressed

LEMMA DerefAddressed ==
  ASSUME TypeOK, OffsetsDistinct, AddressInv, AssignedInv, EmitDeref
  PROVE  AddressInv' /\ AssignedInv'
<1> DEFINE S == LoadsOf(Grants.list, Now) \cup {Three("sw_at", None, Y, X)}
<1>1. Handles({"DEREF"}) BY DEF EmitDeref
<1>2. Now.kind \in {"DEREF"} BY <1>1 DEF Handles
<1>3. \A e \in S : Addressed(ir, Grants.list, tac_code, e)
  BY <1>1, GrantedAddressed, PlainOps
<1>4. Loads \in Seq(S)
  <2>1. Loads \in Seq(LoadsOf(Grants.list, Now)) BY <1>1, GrantedAddressed
  <2> QED BY <2>1
<1>5. Three("sw_at", None, Y, X) \in S OBVIOUS
<1> HIDE DEF S
<1>6. Loads \o <<Three("sw_at", None, Y, X)>> \in Seq(S)
  BY <1>4, <1>5, SequencesOver
<1>7. Emit(Loads \o <<Three("sw_at", None, Y, X)>>) BY DEF EmitDeref
<1>8. Now.kind \notin Sets BY <1>2 DEF Sets, Arithmetic, Branches
<1> QED BY <1>1, <1>3, <1>6, <1>7, <1>8, EmitAddressed

LEMMA AssignAddressed ==
  ASSUME TypeOK, OffsetsDistinct, AddressInv, AssignedInv, EmitAssign
  PROVE  AddressInv' /\ AssignedInv'
<1> DEFINE last == IF IsConstant(Now.r1) THEN Li(X, Now.r1.value) ELSE Move(X, Y)
           S == LoadsOf(Grants.list, Now) \cup {last, Store}
<1>1. Handles({"ASSIGN"}) BY DEF EmitAssign
<1>2. Now.kind \in Sets BY <1>1 DEF Handles, Sets
<1>3. Plain(last) BY PlainOps
<1> HIDE DEF last
<1>4. \A e \in S : Addressed(ir, Grants.list, tac_code, e)
  BY <1>1, <1>2, <1>3, GrantedAddressed
<1>5. Loads \in Seq(S) /\ last \in S /\ Store \in S
  <2>1. Loads \in Seq(LoadsOf(Grants.list, Now)) BY <1>1, GrantedAddressed
  <2> QED BY <2>1
<1> HIDE DEF S
<1>6. Loads \o <<last, Store>> \in Seq(S) BY <1>5, SequencesOver
<1>7. Emit(Loads \o <<last, Store>>) BY DEF EmitAssign, last
<1> QED BY <1>1, <1>2, <1>4, <1>6, <1>7, GrantedAddressed, EmitAddressed

LEMMA AddAddressed ==
  ASSUME TypeOK, OffsetsDistinct, AddressInv, AssignedInv, EmitAdd
  PROVE  AddressInv' /\ AssignedInv'
<1> DEFINE sum == IF IsConstant(Now.r1) THEN Addi(X, Y, Now.r1.value)
                  ELSE IF IsConstant(Now.r2) THEN Addi(X, Y, Now.r2.value)
                  ELSE Three("add", X, Y, Z)
           S == LoadsOf(Grants.list, Now) \cup {sum, Store}
<1>1. Handles({"ADD"}) BY DEF EmitAdd
<1>2. Now.kind \in Sets BY <1>1 DEF Handles, Sets, Arithmetic
<1>3. Plain(sum) BY PlainOps
<1> HIDE DEF sum
<1>4. \A e \in S : Addressed(ir, Grants.list, tac_code, e)
  BY <1>1, <1>2, <1>3, GrantedAddressed
<1>5. Loads \in Seq(S) /\ sum \in S /\ Store \in S
  <2>1. Loads \in Seq(LoadsOf(Grants.list, Now)) BY <1>1, GrantedAddressed
  <2> QED BY <2>1
<1> HIDE DEF S
<1>6. Loads \o <<sum, Store>> \in Seq(S) BY <1>5, SequencesOver
<1>7. Emit(Loads \o <<sum, Store>>) BY DEF EmitAdd, sum
<1> QED BY <1>1, <1>2, <1>4, <1>6, <1>7, GrantedAddressed, EmitAddressed

LEMMA SubAddressed ==
  ASSUME TypeOK, OffsetsDistinct, AddressInv, AssignedInv, EmitSub
  PROVE  AddressInv' /\ AssignedInv'
<1> DEFINE difference ==
             IF IsConstant(Now.r1) THEN <<Neg(Y), Addi(X, Y, Now.r1.value)>>
             ELSE IF IsConstant(Now.r2) THEN <<Addi(X, Y, -Now.r2.value)>>
             ELSE <<Three("sub", X, Y, Z)>>
           D == {Neg(Y), Addi(X, Y, Now.r1.value), Addi(X, Y, -Now.r2.value),
                 Three("sub", X, Y, Z)}
           S == LoadsOf(Grants.list, Now) \cup D \cup {Store}
<1>1. Handles({"SUB"}) BY DEF EmitSub
<1>2. Now.kind \in Sets BY <1>1 DEF Handles, Sets, Arithmetic
<1>3. \A e \in D : Plain(e) BY PlainOps
<1>4. difference \in Seq(D)
  <2>1. /\ Neg(Y) \in D /\ Addi(X, Y, Now.r1.value) \in D
        /\ Addi(X, Y, -Now.r2.value) \in D /\ Three("sub", X, Y, Z) \in D
    OBVIOUS
  <2> HIDE DEF D
  <2> QED BY <2>1, SequencesOver
<1> HIDE DEF difference, D
<1>5. \A e \in S : Addressed(ir, Grants.list, tac_code, e)
  BY <1>1, <1>2, <1>3, GrantedAddressed
<1>6. Loads \in Seq(S) /\ difference \in Seq(S) /\ Store \in S
  <2>1. Loads \in Seq(LoadsOf(Grants.list, Now)) BY <1>1, GrantedAddressed
  <2> QED BY <2>1, <1>4
<1> HIDE DEF S
<1>7. Loads \o difference \o <<Store>> \in Seq(S) BY <1>6, SequencesOver
<1>8. Emit(Loads \o difference \o <<Store>>) BY DEF EmitSub, difference
<1> QED BY <1>1, <1>2, <1>5, <1>7, <1>8, GrantedAddressed, EmitAddressed

LEMMA BranchAddressed ==
  ASSUME TypeOK, OffsetsDistinct, AddressInv, AssignedInv, EmitBranch
  PROVE  AddressInv' /\ AssignedInv'
<1> DEFINE first == IF IsConstant(Now.r1) THEN "t5" ELSE X
           second == IF IsConstant(Now.r2) THEN "t6"
                     ELSE Grants.regs[Len(Grants.regs)]
           load1 == IF IsConstant(Now.r1) THEN <<Li("t5", Now.r1.value)>> ELSE <<>>
           load2 == IF IsConstant(Now.r2) THEN <<Li("t6", Now.r2.value)>> ELSE <<>>
           jump == Op(Now.kind, None, first, second, 0, Now.target)
           D == {Li("t5", Now.r1.value), Li("t6", Now.r2.value), jump}
           S == LoadsOf(Grants.list, Now) \cup D
<1>1. Handles(Branches) BY DEF EmitBranch
<1>2. Now.kind \in Branches /\ Now.kind \notin Sets
  BY <1>1 DEF Handles, Branches, Sets, Arithmetic
<1>3. \A e \in D : Plain(e)
  <2> HIDE DEF first, second
  <2> QED BY <1>2, PlainOps
<1>4. load1 \in Seq(D) /\ load2 \in Seq(D) /\ jump \in D
  <2>1. Li("t5", Now.r1.value) \in D /\ Li("t6", Now.r2.value) \in D /\ jump \in D
    OBVIOUS
  <2> HIDE DEF D, jump
  <2> QED BY <2>1, SequencesOver
<1>5. Emit(load1 \o Loads \o load2 \o <<jump>>) BY DEF EmitBranch
<1> HIDE DEF load1, load2, jump, D
<1>6. \A e \in S : Addressed(ir, Grants.list, tac_code, e)
  BY <1>1, <1>3, GrantedAddressed
<1>7. Loads \in Seq(S) /\ load1 \in Seq(S) /\ load2 \in Seq(S) /\ jump \in S
  <2>1. Loads \in Seq(LoadsOf(Grants.list, Now)) BY <1>1, GrantedAddressed
  <2> QED BY <2>1, <1>4
<1> HIDE DEF S
<1>8. load1 \o Loads \o load2 \o <<jump>> \in Seq(S) BY <1>7, SequencesOver
<1> QED BY <1>1, <1>2, <1>5, <1>6, <1>8, EmitAddressed

LEMMA ReturnAddressed ==
  ASSUME TypeOK, OffsetsDistinct, AddressInv, AssignedInv, EmitReturn
  PROVE  AddressInv' /\ AssignedInv'
<1> DEFINE result == IF IsConstant(Now.r1) THEN Li("v0", Now.r1.value) ELSE Move("v0", X)
           S == LoadsOf(Grants.list, Now) \cup {result, Jump("jr", NoName)}
<1>1. Handles({"RETURN"}) BY DEF EmitReturn
<1>2. Now.kind \notin Sets BY <1>1 DEF Handles, Sets, Arithmetic
<1>3. Plain(result) /\ Plain(Jump("jr", NoName)) BY PlainOps
<1>4. Emit(Loads \o <<result, Jump("jr", NoName)>>) BY DEF EmitReturn
<1> HIDE DEF result
<1>5. \A e \in S : Addressed(ir, Grants.list, tac_code, e)
  BY <1>1, <1>3, GrantedAddressed
<1>6. Loads \in Seq(S) /\ result \in S /\ Jump("jr", NoName) \in S
  <2>1. Loads \in Seq(LoadsOf(Grants.list, Now)) BY <1>1, GrantedAddressed
  <2> QED BY <2>1
<1> HIDE DEF S
<1>7. Loads \o <<result, Jump("jr", NoName)>> \in Seq(S) BY <1>6, SequencesOver
<1> QED BY <1>1, <1>2, <1>4, <1>5, <1>7, EmitAddressed

LEMMA ReadAddressed ==
  ASSUME TypeOK, OffsetsDistinct, AddressInv, AssignedInv, EmitRead
  PROVE  AddressInv' /\ AssignedInv'
<1> DEFINE call == <<Stack(-4), SwStack("ra", 0), Jump("jal", "read"), LwStack("ra", 0),
                     Stack(4), Move(X, "v0"), Store>>
           S == {Stack(-4), SwStack("ra", 0), Jump("jal", "read"), LwStack("ra", 0),
                 Stack(4), Move(X, "v0"), Store}
<1>1. Handles({"READ"}) BY DEF EmitRead
<1>2. Now.kind \in Sets BY <1>1 DEF Handles, Sets
<1>3. \A e \in S : Addressed(ir, Grants.list, tac_code, e)
  BY <1>1, <1>2, PlainOps, GrantedAddressed
<1>4. call \in Seq(S) OBVIOUS
<1>5. Emit(call) BY DEF EmitRead
<1> HIDE DEF call, S
<1> QED BY <1>1, <1>2, <1>3, <1>4, <1>5, GrantedAddressed, EmitAddressed

LEMMA WriteAddressed ==
  ASSUME TypeOK, OffsetsDistinct, AddressInv, AssignedInv, EmitWrite
  PROVE  AddressInv' /\ AssignedInv'
<1> DEFINE call == <<Move("t7", "a0"), Move("a0", X), Stack(-4), SwStack("ra", 0),
                     Jump("jal", "write"), LwStack("ra", 0), Stack(4), Move("a0", "t7")>>
           S == {Move("t7", "a0"), Move("a0", X), Stack(-4), SwStack("ra", 0),
                 Jump("jal", "write"), LwStack("ra", 0), Stack(4), Move("a0", "t7")}
<1>1. Handles({"WRITE"}) BY DEF EmitWrite
<1>2. Now.kind \notin Sets BY <1>1 DEF Handles, Sets, Arithmetic
<1>3. \A e \in S : Addressed(ir, Grants.list, tac_code, e)
  BY <1>1, PlainOps, GrantedAddressed
<1>4. call \in Seq(S) OBVIOUS
<1>5. Emit(call) BY DEF EmitWrite
<1> HIDE DEF call, S
<1> QED BY <1>1, <1>2, <1>3, <1>4, <1>5, EmitAddressed

LEMMA PlainAddressed ==
  ASSUME TypeOK, OffsetsDistinct, AddressInv, AssignedInv,
         EmitLabel \/ EmitGoto \/ EmitNothing
  PROVE  AddressInv' /\ AssignedInv'
<1> DEFINE S == {Jump("label", Now.target), Jump("j", Now.target)}
           kinds == {"LABEL", "FUNCTION", "GOTO", "DEC", "ARG"}
<1>1. Handles(kinds) BY DEF EmitLabel, EmitGoto, EmitNothing, Handles
<1>2. Now.kind \notin Sets BY <1>1 DEF Handles, Sets, Arithmetic
<1>3. \A e \in S : Addressed(ir, Grants.list, tac_code, e)
  BY <1>1, PlainOps, GrantedAddressed
<1>4. PICK ops \in Seq(S) : Emit(ops)
  <2>1. /\ <<Jump("label", Now.target)>> \in Seq(S) /\ <<Jump("j", Now.target)>> \in Seq(S)
        /\ <<>> \in Seq(S)
    BY SequencesOver
  <2> HIDE DEF S
  <2> QED BY <2>1 DEF EmitLabel, EmitGoto, EmitNothing
<1> HIDE DEF S
<1> QED BY <1>1, <1>2, <1>3, <1>4, EmitAddressed

-----------------------------------------------------------------------------
(* A call, and the parameters.                                             *)

(* The loads of a call are for the ARGs directly in front of it.           *)
LEMMA ArgumentsPrecede ==
  ASSUME tac_code \in Nat \ {0}, NEW i \in Nat \ {0},
         i <= Cardinality({m \in 1..tac_code - 1 : IsArg(m)})
  PROVE  IsArg(tac_code - i)
<1> DEFINE args == {m \in 1..tac_code - 1 : IsArg(m)}
           above == tac_code - i + 1..tac_code - 1
<1>1. SUFFICES ASSUME ~ IsArg(tac_code - i) PROVE FALSE OBVIOUS
<1>2. IsFiniteSet(above) /\ Cardinality(above) = i - 1
  <2>1. tac_code - i + 1 \in Int /\ tac_code - 1 \in Int OBVIOUS
  <2>2. /\ IsFiniteSet(above)
        /\ Cardinality(above) = IF tac_code - i + 1 > tac_code - 1 THEN 0
                                ELSE tac_code - 1 - (tac_code - i + 1) + 1
    BY <2>1, FS_Interval
  <2> QED BY <2>2
<1>3. args \subseteq above
  <2>1. ASSUME NEW m \in args, ~ (m > tac_code - i) PROVE FALSE
    <3>1. m \in 1..tac_code - 1 /\ \A j \in m..tac_code - 1 : ir[j].kind = "ARG"
      BY DEF IsArg
    <3>2. tac_code - i \in 1..tac_code - 1 BY <3>1, <2>1
    <3>3. \A j \in tac_code - i..tac_code - 1 : ir[j].kind = "ARG" BY <3>1, <2>1
    <3> QED BY <3>2, <3>3, <1>1 DEF IsArg
  <2> QED BY <2>1
<1>4. Cardinality(args) <= i - 1 BY <1>2, <1>3, FS_Subset
<1>5. Cardinality(args) \in Nat BY <1>2, <1>3, FS_Subset, FS_CardinalityType
<1>6. i <= Cardinality(args) OBVIOUS
<1> HIDE DEF args
<1> QED BY <1>4, <1>5, <1>6

LEMMA ArgumentLoadsAddressed ==
  ASSUME TypeOK, OffsetsDistinct, AssignedInv, ir \in Programs, Handles({"CALL"}),
         NEW i \in 1..Cardinality({m \in 1..tac_code - 1 : IsArg(m)})
  PROVE  Addressed(ir, Grants.list, tac_code,
                   ArgumentLoad(i - 1, findOffset(linklist, ir[tac_code - i].r1.name)))
<1> DEFINE m == tac_code - i
           name == ir[m].r1.name
           load == ArgumentLoad(i - 1, findOffset(linklist, name))
<1>1. /\ tac_code \in 1..Len(ir) /\ Grants.list \in Seq(Entries)
      /\ Extends(linklist, Grants.list) /\ Distinct(Grants.list)
      /\ linklist \in Seq(Entries) /\ Len(code) = tac_code - 1 /\ ir \in Seq(Code)
  BY HandlesType DEF OffsetsDistinct, TypeOK
<1>2. IsArg(m)
  <2>1. IsFiniteSet({k \in 1..tac_code - 1 : IsArg(k)})
    <3>1. IsFiniteSet(1..tac_code - 1) BY <1>1, FS_Interval
    <3> QED BY <3>1, FS_Subset
  <2>2. Cardinality({k \in 1..tac_code - 1 : IsArg(k)}) \in Nat BY <2>1, FS_CardinalityType
  <2>3. i \in Nat \ {0} /\ i <= Cardinality({k \in 1..tac_code - 1 : IsArg(k)}) BY <2>2
  <2>4. tac_code \in Nat \ {0} BY <1>1
  <2> QED BY <2>3, <2>4, ArgumentsPrecede
<1> HIDE DEF m
<1>3. m \in 1..tac_code - 1 /\ \A j \in m..tac_code - 1 : ir[j].kind = "ARG"
  BY <1>2 DEF IsArg
<1>4. m \in 1..Len(ir) /\ ir[m].kind = "ARG" BY <1>1, <1>3
<1>5. PICK j \in 1..m - 1 : ir[j].kind \in Sets /\ ir[j].left.name = name
  BY <1>4, ArgumentsAssumption
<1>6. j \in 1..Len(code) BY <1>1, <1>3
<1>7. Has(linklist, name) BY <1>5, <1>6 DEF AssignedInv
<1>8. load.op \in {"lw", "lw_none"} /\ load.imm = findOffset(linklist, name)
  <2>1. findOffset(linklist, name) \in Int BY <1>1, OffsetType
  <2> HIDE DEF name
  <2> QED BY <2>1, ArgumentLoadType
<1>9. Held(linklist, name, load.imm) BY <1>7, <1>8 DEF Held
<1>10. Held(Grants.list, name, load.imm) BY <1>1, <1>9, ExtensionHolds
<1>11. name \in ArgumentsOf(ir, tac_code) BY <1>3 DEF ArgumentsOf
<1>12. Addressed(ir, Grants.list, tac_code, load)
  <2> HIDE DEF load, name
  <2> QED BY <1>8, <1>10, <1>11 DEF Addressed
<1> QED BY <1>12 DEF m

LEMMA CallAddressed ==
  ASSUME TypeOK, OffsetsDistinct, AddressInv, AssignedInv, ir \in Programs, EmitCall
  PROVE  AddressInv' /\ AssignedInv'
<1> DEFINE saves == [i \in 1..5 |-> SwStack(Saved[i], 4 * (i - 1))]
           restores == [i \in 1..5 |-> LwStack(Saved[i], 4 * (i - 1))]
           count == Cardinality({m \in 1..tac_code - 1 : IsArg(m)})
           load(i) == ArgumentLoad(i - 1,
                         findOffset(linklist, ir[tac_code - i].r1.name))
           A == {saves[i] : i \in 1..5} \cup {restores[i] : i \in 1..5}
           L == {load(i) : i \in 1..count}
           D == {Stack(-20), Stack(20), Jump("jal", Now.target), Move(X, "v0"), Store}
           S == A \cup L \cup D
           ops == <<Stack(-20)>> \o saves \o ArgumentLoads
                  \o <<Jump("jal", Now.target)>> \o restores
                  \o <<Stack(20), Move(X, "v0"), Store>>
<1>1. Handles({"CALL"}) BY DEF EmitCall
<1>2. Now.kind \in Sets BY <1>1 DEF Handles, Sets
<1>3. \A e \in A : Plain(e)
  <2>1. \A i \in 1..5 : Plain(saves[i]) /\ Plain(restores[i]) BY PlainOps
  <2> HIDE DEF saves, restores
  <2> QED BY <2>1
<1>4. \A e \in L : Addressed(ir, Grants.list, tac_code, e)
  BY <1>1, ArgumentLoadsAddressed
<1>5. \A e \in D : Addressed(ir, Grants.list, tac_code, e)
  BY <1>1, <1>2, PlainOps, GrantedAddressed
<1>6. \A e \in S : Addressed(ir, Grants.list, tac_code, e)
  <2> HIDE DEF A, L, D
  <2> QED BY <1>1, <1>3, <1>4, <1>5, GrantedAddressed
<1>7. saves \in Seq(A) /\ restores \in Seq(A) OBVIOUS
<1>8. ArgumentLoads \in Seq(L)
  <2>1. ArgumentLoads = [i \in 1..count |-> load(i)] BY DEF ArgumentLoads
  <2>2. count \in Nat
    <3>1. tac_code \in Nat BY <1>1, HandlesType
    <3>2. IsFiniteSet(1..tac_code - 1) BY <3>1, FS_Interval
    <3> QED BY <3>2, FS_Subset, FS_CardinalityType
  <2> HIDE DEF count, load
  <2> QED BY <2>1, <2>2
<1>9. Emit(ops) BY DEF EmitCall
<1>10. /\ <<Stack(-20)>> \in Seq(D) /\ <<Jump("jal", Now.target)>> \in Seq(D)
       /\ <<Stack(20), Move(X, "v0"), Store>> \in Seq(D)
  <2>1. /\ Stack(-20) \in D /\ Stack(20) \in D /\ Jump("jal", Now.target) \in D
        /\ Move(X, "v0") \in D /\ Store \in D
    OBVIOUS
  <2> HIDE DEF D
  <2> QED BY <2>1, SequencesOver
<1>11. ops \in Seq(S)
  <2> HIDE DEF saves, restores, A, L, D
  <2>1. /\ <<Stack(-20)>> \in Seq(S) /\ <<Jump("jal", Now.target)>> \in Seq(S)
        /\ <<Stack(20), Move(X, "v0"), Store>> \in Seq(S)
        /\ saves \in Seq(S) /\ restores \in Seq(S) /\ ArgumentLoads \in Seq(S)
    BY <1>7, <1>8, <1>10
  <2> HIDE DEF S
  <2> QED BY <2>1, SequencesOver
<1> HIDE DEF ops, S
<1> QED BY <1>1, <1>2, <1>6, <1>9, <1>11, GrantedAddressed, EmitAddressed

LEMMA ParamAddressed ==
  ASSUME TypeOK, AddressInv, AssignedInv, EmitParam
  PROVE  AddressInv' /\ AssignedInv'
<1>1. /\ linklist' = linklist /\ ir' = ir /\ code' = Append(code, <<>>)
      /\ Handles({"PARAM"})
  BY DEF EmitParam
<1>2. code \in Seq(Seq(Ops)) /\ Len(code) = tac_code - 1 /\ tac_code \in Nat
  BY DEF TypeOK
<1>3. ir[tac_code].kind \notin Sets BY <1>1 DEF Handles, Now, Sets, Arithmetic
<1>4. /\ Len(code') = Len(code) + 1 /\ code'[Len(code) + 1] = <<>>
      /\ \A k \in 1..Len(code) : code'[k] = code[k]
      /\ Len(code) \in Nat /\ Len(code) + 1 = tac_code
  BY <1>1, <1>2, CodeType
<1>5. \A k \in 1..Len(code') : k \in 1..Len(code) \/ k = tac_code BY <1>4
<1>6. AddressInv'
  <2>1. ASSUME NEW k \in 1..Len(code')
        PROVE  \A i \in 1..Len(code'[k]) : Addressed(ir, linklist, k, code'[k][i])
    <3>1. CASE k \in 1..Len(code) BY <3>1, <1>4 DEF AddressInv
    <3>2. CASE k = tac_code BY <3>2, <1>4
    <3> QED BY <3>1, <3>2, <1>5
  <2> QED BY <2>1, <1>1 DEF AddressInv
<1>7. AssignedInv' BY <1>1, <1>3, <1>5 DEF AssignedInv
<1> QED BY <1>6, <1>7

(* Every address emitted is that of an operand, and what has been assigned *)
(* by a handler has its word.                                              *)
THEOREM AddressInvariant == Spec => [](ir \in Programs /\ AddressInv /\ AssignedInv)
<1>1. Init => AddressInv /\ AssignedInv BY DEF Init, AddressInv, AssignedInv
<1>2. ASSUME TypeOK, OffsetsDistinct, ir \in Programs, AddressInv, AssignedInv, [Next]_vars
      PROVE  AddressInv' /\ AssignedInv'
  <2>1. CASE UNCHANGED vars BY <2>1, <1>2 DEF vars, AddressInv, AssignedInv
  <2>2. CASE Abort \/ Finish BY <2>2, <1>2 DEF Abort, Finish, AddressInv, AssignedInv
  <2>3. CASE EmitLabel \/ EmitGoto \/ EmitNothing BY <2>3, <1>2, PlainAddressed
  <2>4. CASE EmitAssign \/ EmitAdd \/ EmitSub \/ EmitMul \/ EmitDiv
    BY <2>4, <1>2, AssignAddressed, AddAddressed, SubAddressed, MulAddressed, DivAddressed
  <2>5. CASE EmitFetch \/ EmitDeref \/ EmitBranch \/ EmitReturn
    BY <2>5, <1>2, FetchAddressed, DerefAddressed, BranchAddressed, ReturnAddressed
  <2>6. CASE EmitCall \/ EmitParam \/ EmitRead \/ EmitWrite
    BY <2>6, <1>2, CallAddressed, ParamAddressed, ReadAddressed, WriteAddressed
  <2> QED BY <1>2, <2>1, <2>2, <2>3, <2>4, <2>5, <2>6 DEF Next
<1>3. Init => ir \in Programs BY DEF Init
<1>4. ir \in Programs /\ [Next]_vars => (ir \in Programs)' BY ProgramStays
<1> QED BY <1>1, <1>2, <1>3, <1>4, TypeCorrect, OffsetsAreDistinct, PTL DEF Spec

(* What is stored goes to the word of the variable on the left, whatever   *)
(* get_register has entered since get_register_w remembered its offset;    *)
(* what is loaded comes from the word of an operand or an argument.        *)
THEOREM AddressesAreRight == Spec => []AddressesAreOperands
<1>1. AddressInv => AddressesAreOperands
  BY DEF AddressInv, AddressesAreOperands, Addressed, Emitted, Held, ArgumentsOf, Arguments,
         ArgumentPlaces
<1> QED BY <1>1, AddressInvariant, PTL

-----------------------------------------------------------------------------
(***************************************************************************)
(* A call loads its arguments where the function looks for its parameters, *)
(* for every TAC list: emit_call counts the ARGs backwards, emit_param the *)
(* PARAMs forwards.  And no handler loads two operands into one register,  *)
(* though RETURN gives none back.                                          *)
(***************************************************************************)

(* The instructions from i to k are all of one kind.                       *)
AllAre(kind, i, k) == \A n \in i..k : ir[n].kind = kind

(* The j-th PARAM behind anything else has the register j - 1.             *)
Registered(list, name, number) ==
  Has(list, name) /\ Found(list, name).aRegister = number

RegisterInv ==
  \A m \in 1..Len(code) : \A j \in Nat \ {0} :
    m + j <= Len(code) /\ ir[m].kind # "PARAM" /\ AllAre("PARAM", m + 1, m + j)
      => Registered(a0_a3_list, ir[m + j].r1.name, j - 1)

(* Only the parameters passed so far are in the list.                      *)
EntryInv ==
  \A i \in 1..Len(a0_a3_list) :
    \E k \in 1..Len(code) : ir[k].kind = "PARAM" /\ ir[k].r1.name = a0_a3_list[i].key

(* paramCount is the number of PARAMs passed since the loop began.         *)
CountInv ==
  phase = "emit" /\ tac_code <= Len(ir) =>
    /\ Now.kind # "PARAM" => param_count = 0
    /\ Now.kind = "PARAM" =>
         \A m \in 1..Len(code) :
           ir[m].kind # "PARAM" /\ AllAre("PARAM", m + 1, Len(code))
             => param_count = Len(code) - m

(* The code of a call has the loads of the ARGs in front of it.            *)
ArgumentInv ==
  \A k \in 1..Len(code) : \A j \in Nat \ {0} :
    ir[k].kind = "CALL" /\ j < k /\ AllAre("ARG", k - j, k - 1)
      => /\ Has(linklist, ir[k - j].r1.name)
         /\ ArgumentLoad(j - 1, findOffset(linklist, ir[k - j].r1.name)) \in Emitted(k)

ParamInv == RegisterInv /\ EntryInv /\ CountInv

-----------------------------------------------------------------------------
(* The handlers but emit_param's.                                          *)

HandlesNoParam ==
  /\ code' = Append(code, code'[tac_code]) /\ tac_code' = tac_code + 1
  /\ tac_code <= Len(ir) /\ Now.kind # "PARAM" /\ phase = "emit"
  /\ Now.kind = "CALL" => EmitCall
  /\ UNCHANGED <<phase, ir, a0_a3_list, param_count>>

LEMMA EmitHandles ==
  ASSUME TypeOK, NEW kinds, Handles(kinds), "PARAM" \notin kinds, NEW ops, Emit(ops),
         "CALL" \in kinds => EmitCall
  PROVE  HandlesNoParam
<1>1. code \in Seq(Seq(Ops)) /\ Len(code) = tac_code - 1 /\ tac_code \in Nat
  BY DEF TypeOK
<1>2. Append(code, ops)[tac_code] = ops BY <1>1
<1> QED BY <1>1, <1>2 DEF Handles, Emit, HandlesNoParam

LEMMA HandlerStep ==
  ASSUME TypeOK, Next
  PROVE  EmitParam \/ Abort \/ Finish \/ HandlesNoParam
<1>1. CASE EmitLabel \/ EmitGoto \/ EmitNothing
  BY <1>1, EmitHandles DEF EmitLabel, EmitGoto, EmitNothing
<1>2. CASE EmitAssign \/ EmitAdd \/ EmitSub \/ EmitMul \/ EmitDiv
  BY <1>2, EmitHandles DEF EmitAssign, EmitAdd, EmitSub, EmitMul, EmitDiv
<1>3. CASE EmitFetch \/ EmitDeref \/ EmitRead \/ EmitWrite \/ EmitReturn
  BY <1>3, EmitHandles DEF EmitFetch, EmitDeref, EmitRead, EmitWrite, EmitReturn
<1>4. CASE EmitBranch
  <2>1. "PARAM" \notin Branches /\ "CALL" \notin Branches BY DEF Branches
  <2> QED BY <1>4, <2>1, EmitHandles DEF EmitBranch
<1>5. CASE EmitCall BY <1>5, EmitHandles DEF EmitCall
<1> QED BY <1>1, <1>2, <1>3, <1>4, <1>5 DEF Next

-----------------------------------------------------------------------------
(* The list of parameters.                                                 *)

LEMMA HandlerKeepsParams ==
  ASSUME TypeOK, ParamInv, HandlesNoParam
  PROVE  ParamInv'
<1>1. /\ Len(code) = tac_code - 1 /\ tac_code \in Nat \ {0} /\ Len(ir) \in Nat
      /\ code \in Seq(Seq(Ops))
  BY DEF TypeOK
<1>2. /\ ir' = ir /\ a0_a3_list' = a0_a3_list /\ param_count' = param_count
      /\ phase' = phase /\ tac_code' = tac_code + 1 /\ phase = "emit"
      /\ ir[tac_code].kind # "PARAM" /\ tac_code <= Len(ir)
  BY DEF HandlesNoParam, Now
<1>3. Len(code') = tac_code BY <1>1 DEF HandlesNoParam
<1>4. RegisterInv'
  <2> SUFFICES ASSUME NEW m \in 1..tac_code, NEW j \in Nat \ {0}, m + j <= tac_code,
                      ir[m].kind # "PARAM", AllAre("PARAM", m + 1, m + j)
               PROVE  Registered(a0_a3_list, ir[m + j].r1.name, j - 1)
    BY <1>2, <1>3 DEF RegisterInv, AllAre
  <2>1. m + j \in m + 1..m + j OBVIOUS
  <2>2. m + j # tac_code BY <2>1, <1>2 DEF AllAre
  <2>3. m + j < tac_code
    <3>1. m + j \in Nat /\ tac_code \in Nat BY <1>1
    <3> DEFINE last == m + j
    <3>2. last \in Nat /\ last <= tac_code /\ last # tac_code BY <2>2, <3>1
    <3> HIDE DEF last
    <3>3. last < tac_code BY <3>1, <3>2
    <3> QED BY <3>3 DEF last
  <2>4. m \in 1..Len(code) /\ m + j <= Len(code) BY <1>1, <2>3
  <2> QED BY <2>4 DEF ParamInv, RegisterInv
<1>5. EntryInv'
  <2>1. 1..Len(code) \subseteq 1..tac_code BY <1>1
  <2> QED BY <2>1, <1>2, <1>3 DEF ParamInv, EntryInv
<1>6. CountInv'
  <2>1. param_count = 0 BY <1>2 DEF ParamInv, CountInv, Now
  <2>2. ASSUME NEW m \in 1..tac_code, AllAre("PARAM", m + 1, tac_code)
        PROVE  m = tac_code
    <3>1. m < tac_code => tac_code \in m + 1..tac_code BY <1>1
    <3> QED BY <3>1, <2>2, <1>1, <1>2 DEF AllAre
  <2> QED BY <2>1, <2>2, <1>1, <1>2, <1>3 DEF CountInv, AllAre, Now
<1> QED BY <1>4, <1>5, <1>6 DEF ParamInv

(* A parameter appended to the list is found there, and hides no other.    *)
LEMMA AppendedParameter ==
  ASSUME NEW S, NEW list \in Seq([key: S, aRegister: Nat]), NEW name \in S, NEW n \in Nat,
         ~ Has(list, name)
  PROVE  LET new == Append(list, [key |-> name, aRegister |-> n])
         IN /\ Registered(new, name, n)
            /\ \A other, number : other # name /\ Registered(list, other, number)
                 => Registered(new, other, number)
<1> DEFINE entry == [key |-> name, aRegister |-> n]
           new == Append(list, entry)
<1>1. /\ entry.key = name /\ entry.aRegister = n OBVIOUS
<1>2. /\ Len(new) = Len(list) + 1 /\ new[Len(list) + 1] = entry
      /\ \A i \in 1..Len(list) : new[i] = list[i]
      /\ Len(list) \in Nat
  OBVIOUS
<1> HIDE DEF new, entry
<1>3. 1..Len(new) = 1..Len(list) \cup {Len(list) + 1} BY <1>2
<1>4. Registered(new, name, n)
  <2>1. \A i \in 1..Len(new) : new[i].key = name => i = Len(list) + 1
    BY <1>2, <1>3 DEF Has
  <2>2. Has(new, name) BY <1>1, <1>2, <1>3 DEF Has
  <2>3. PICK i \in 1..Len(new) : new[i].key = name /\ Found(new, name) = new[i]
    BY <2>2, FoundHasKey
  <2> QED BY <2>1, <2>2, <2>3, <1>1, <1>2 DEF Registered
<1>5. ASSUME NEW other, NEW number, other # name, Registered(list, other, number)
      PROVE  Registered(new, other, number)
  <2>1. \A i : i \in 1..Len(new) /\ new[i].key = other
               <=> i \in 1..Len(list) /\ list[i].key = other
    BY <1>1, <1>2, <1>3, <1>5
  <2>2. Has(new, other) BY <2>1, <1>5 DEF Registered, Has
  <2>3. (CHOOSE i \in 1..Len(new) : new[i].key = other)
          = (CHOOSE i \in 1..Len(list) : list[i].key = other)
    BY <2>1
  <2>4. (CHOOSE i \in 1..Len(list) : list[i].key = other) \in 1..Len(list)
    BY <1>5 DEF Registered, Has
  <2>5. Found(new, other) = Found(list, other) BY <2>3, <2>4, <1>2 DEF Found
  <2> QED BY <2>2, <2>5, <1>5 DEF Registered
<1> QED BY <1>4, <1>5 DEF new, entry

LEMMA ParamKeepsParams ==
  ASSUME TypeOK, ParamInv, ir \in Programs, EmitParam
  PROVE  ParamInv'
<1> DEFINE name == ir[tac_code].r1.name
<1>1. /\ Len(code) = tac_code - 1 /\ tac_code \in Nat \ {0} /\ Len(ir) \in Nat
      /\ code \in Seq(Seq(Ops)) /\ param_count \in Nat /\ ir \in Seq(Code)
      /\ a0_a3_list \in Seq([key: Names, aRegister: Nat])
  BY DEF TypeOK
<1>2. /\ ir' = ir /\ tac_code' = tac_code + 1 /\ phase = "emit"
      /\ ir[tac_code].kind = "PARAM" /\ tac_code <= Len(ir)
      /\ Len(code') = tac_code
  BY <1>1 DEF EmitParam, Handles, Now
<1>3. tac_code \in 1..Len(ir) BY <1>1, <1>2
<1>4. name \in Names
  <2>1. IsVariable(ir[tac_code].r1) BY <1>2, <1>3, ProgramsAssumption
  <2>2. ir[tac_code] \in Code BY <1>1, <1>3
  <2> QED BY <2>1, <2>2 DEF IsVariable, Opds, Code
<1>5. ~ Has(a0_a3_list, name)
  <2> SUFFICES ASSUME NEW i \in 1..Len(a0_a3_list), a0_a3_list[i].key = name PROVE FALSE
    BY DEF Has
  <2>1. PICK k \in 1..Len(code) : ir[k].kind = "PARAM" /\ ir[k].r1.name = name
    BY DEF ParamInv, EntryInv
  <2>2. k \in 1..Len(ir) /\ k # tac_code BY <1>1, <1>2
  <2> QED BY <2>1, <2>2, <1>2, <1>3, ParametersAssumption
<1>6. a0_a3_list' = Append(a0_a3_list, [key |-> name, aRegister |-> param_count])
  BY <1>5 DEF EmitParam, Now
<1>7. /\ Registered(a0_a3_list', name, param_count)
      /\ \A other, number : other # name /\ Registered(a0_a3_list, other, number)
           => Registered(a0_a3_list', other, number)
  BY <1>1, <1>4, <1>5, <1>6, AppendedParameter
<1>8. \A m \in 1..Len(code) :
        ir[m].kind # "PARAM" /\ AllAre("PARAM", m + 1, Len(code))
          => param_count = Len(code) - m
  BY <1>2 DEF ParamInv, CountInv, Now
<1> HIDE DEF name
<1>9. ASSUME NEW m \in 1..tac_code, NEW j \in Nat \ {0}, m + j <= tac_code,
             ir[m].kind # "PARAM", AllAre("PARAM", m + 1, m + j)
      PROVE  Registered(a0_a3_list', ir[m + j].r1.name, j - 1)
  <2>1. m \in 1..Len(code) BY <1>1, <1>9
  <2>2. CASE m + j = tac_code
    <3>1. AllAre("PARAM", m + 1, Len(code)) BY <1>1, <1>9, <2>2 DEF AllAre
    <3>2. param_count = j - 1 BY <1>1, <1>8, <1>9, <2>1, <2>2, <3>1
    <3> QED BY <3>2, <2>2, <1>7 DEF name
  <2>3. CASE m + j # tac_code
    <3>1. m + j <= Len(code) /\ m + j \in 1..Len(ir) BY <1>1, <1>2, <1>9, <2>3
    <3>2. Registered(a0_a3_list, ir[m + j].r1.name, j - 1)
      BY <1>9, <2>1, <3>1 DEF ParamInv, RegisterInv
    <3>3. m + j \in m + 1..m + j OBVIOUS
    <3>4. ir[m + j].kind = "PARAM" BY <3>3, <1>9 DEF AllAre
    <3>5. ir[m + j].r1.name # name
      BY <3>1, <3>4, <2>3, <1>2, <1>3, ParametersAssumption DEF name
    <3> QED BY <3>2, <3>5, <1>7
  <2> QED BY <2>2, <2>3
<1>10. RegisterInv' BY <1>2, <1>9 DEF RegisterInv, AllAre
<1>11. EntryInv'
  <2> SUFFICES ASSUME NEW i \in 1..Len(a0_a3_list')
               PROVE  \E k \in 1..tac_code :
                        ir[k].kind = "PARAM" /\ ir[k].r1.name = a0_a3_list'[i].key
    BY <1>2 DEF EntryInv
  <2>1. CASE i \in 1..Len(a0_a3_list)
    <3>1. a0_a3_list'[i] = a0_a3_list[i] BY <2>1, <1>1, <1>6
    <3>2. 1..Len(code) \subseteq 1..tac_code BY <1>1
    <3> QED BY <3>1, <3>2, <2>1 DEF ParamInv, EntryInv
  <2>2. CASE i = Len(a0_a3_list) + 1
    <3>1. a0_a3_list'[i].key = name BY <2>2, <1>1, <1>6
    <3>2. tac_code \in 1..tac_code BY <1>1
    <3> QED BY <3>1, <3>2, <1>2 DEF name
  <2> QED BY <2>1, <2>2, <1>1, <1>6
<1>12. CountInv'
  <2> SUFFICES ASSUME phase' = "emit", tac_code + 1 <= Len(ir)
               PROVE  /\ ir[tac_code + 1].kind # "PARAM" => param_count' = 0
                      /\ ir[tac_code + 1].kind = "PARAM" =>
                           \A m \in 1..tac_code :
                             ir[m].kind # "PARAM" /\ AllAre("PARAM", m + 1, tac_code)
                               => param_count' = tac_code - m
    BY <1>2 DEF CountInv, AllAre, Now
  <2>1. param_count' = IF ir[tac_code + 1].kind = "PARAM" THEN param_count + 1 ELSE 0
    BY <1>1 DEF EmitParam
  <2>2. ASSUME NEW m \in 1..tac_code, ir[m].kind # "PARAM",
               AllAre("PARAM", m + 1, tac_code)
        PROVE  param_count + 1 = tac_code - m
    <3>1. m \in 1..Len(code) BY <1>1, <1>2, <2>2
    <3>2. AllAre("PARAM", m + 1, Len(code)) BY <1>1, <2>2 DEF AllAre
    <3> QED BY <3>1, <3>2, <2>2, <1>1, <1>8
  <2> QED BY <2>1, <2>2
<1> QED BY <1>10, <1>11, <1>12 DEF ParamInv

LEMMA ParamStep ==
  ASSUME TypeOK, ParamInv, ir \in Programs, [Next]_vars
  PROVE  ParamInv'
<1>1. CASE HandlesNoParam BY <1>1, HandlerKeepsParams
<1>2. CASE EmitParam BY <1>2, ParamKeepsParams
<1>3. CASE Abort \/ Finish
  <2>1. /\ UNCHANGED <<ir, tac_code, a0_a3_list, param_count, code>>
        /\ phase' # "emit"
    BY <1>3 DEF Abort, Finish
  <2> QED BY <2>1 DEF ParamInv, RegisterInv, EntryInv, CountInv, AllAre
<1>4. CASE UNCHANGED vars
  BY <1>4 DEF vars, ParamInv, RegisterInv, EntryInv, CountInv, AllAre, Now
<1> QED BY <1>1, <1>2, <1>3, <1>4, HandlerStep

-----------------------------------------------------------------------------
(* The arguments.                                                          *)

(* Every ARG directly in front of a call is counted.                       *)
LEMMA ArgumentsCounted ==
  ASSUME tac_code \in Nat, NEW j \in Nat \ {0}, j < tac_code,
         AllAre("ARG", tac_code - j, tac_code - 1)
  PROVE  /\ Cardinality({m \in 1..tac_code - 1 : IsArg(m)}) \in Nat
         /\ j <= Cardinality({m \in 1..tac_code - 1 : IsArg(m)})
<1> DEFINE args == {m \in 1..tac_code - 1 : IsArg(m)}
           last == tac_code - j..tac_code - 1
<1>1. IsFiniteSet(1..tac_code - 1) BY FS_Interval
<1>2. IsFiniteSet(args) BY <1>1, FS_Subset
<1>3. last \subseteq args
  <2>1. ASSUME NEW m \in last PROVE m \in 1..tac_code - 1 /\ IsArg(m)
    BY DEF IsArg, AllAre
  <2> QED BY <2>1
<1>4. Cardinality(last) = j
  <2>1. tac_code - j \in Int /\ tac_code - 1 \in Int OBVIOUS
  <2>2. Cardinality(last) = IF tac_code - j > tac_code - 1 THEN 0
                            ELSE tac_code - 1 - (tac_code - j) + 1
    BY <2>1, FS_Interval
  <2> QED BY <2>2
<1> HIDE DEF args, last
<1>5. Cardinality(last) <= Cardinality(args) BY <1>2, <1>3, FS_Subset
<1>6. Cardinality(args) \in Nat BY <1>2, FS_CardinalityType
<1> QED BY <1>4, <1>5, <1>6 DEF args

Elements(s) == {s[i] : i \in 1..Len(s)}

LEMMA ConcatenationHasBoth ==
  ASSUME NEW S, NEW s \in Seq(S), NEW t \in Seq(S)
  PROVE  /\ s \o t \in Seq(S)
         /\ Elements(s) \subseteq Elements(s \o t)
         /\ Elements(t) \subseteq Elements(s \o t)
<1>1. /\ s \o t \in Seq(S) /\ Len(s \o t) = Len(s) + Len(t)
      /\ Len(s) \in Nat /\ Len(t) \in Nat
      /\ \A i \in 1..Len(s) : (s \o t)[i] = s[i]
      /\ \A i \in 1..Len(t) : (s \o t)[Len(s) + i] = t[i]
  OBVIOUS
<1>2. \A i \in 1..Len(s) : i \in 1..Len(s \o t) BY <1>1
<1>3. \A i \in 1..Len(t) : Len(s) + i \in 1..Len(s \o t) BY <1>1
<1> DEFINE u == s \o t
<1> HIDE DEF u
<1>4. Elements(s) \subseteq Elements(u)
  <2>1. ASSUME NEW i \in 1..Len(s) PROVE s[i] \in Elements(u)
    <3>1. i \in 1..Len(u) /\ u[i] = s[i] BY <1>1, <1>2 DEF u
    <3> QED BY <3>1 DEF Elements
  <2> QED BY <2>1 DEF Elements
<1>5. Elements(t) \subseteq Elements(u)
  <2>1. ASSUME NEW i \in 1..Len(t) PROVE t[i] \in Elements(u)
    <3>1. Len(s) + i \in 1..Len(u) /\ u[Len(s) + i] = t[i] BY <1>1, <1>3 DEF u
    <3> QED BY <3>1 DEF Elements
  <2> QED BY <2>1 DEF Elements
<1> QED BY <1>1, <1>4, <1>5 DEF u

LEMMA CallHasLoads ==
  ASSUME TypeOK, EmitCall
  PROVE  Elements(ArgumentLoads) \subseteq Elements(code'[tac_code])
<1> DEFINE saves == [i \in 1..5 |-> SwStack(Saved[i], 4 * (i - 1))]
           restores == [i \in 1..5 |-> LwStack(Saved[i], 4 * (i - 1))]
           last == <<Stack(20), Move(X, "v0"), Store>>
           jump == <<Jump("jal", Now.target)>>
           ops == <<Stack(-20)>> \o saves \o ArgumentLoads \o jump \o restores \o last
<1>1. Handles({"CALL"}) /\ Emit(ops) BY DEF EmitCall
<1>2. /\ tac_code \in 1..Len(ir) /\ linklist \in Seq(Entries) /\ Len(code) = tac_code - 1
      /\ code \in Seq(Seq(Ops)) /\ Now \in Code /\ Now.kind = "CALL"
      /\ Grants.regs \in Seq(Registers) /\ Grants.offset \in Nat
      /\ Len(Grants.regs) = Len(Requests(Now))
  <2>1. /\ tac_code \in 1..Len(ir) /\ Now \in Code /\ Now.kind = "CALL"
        /\ Grants.regs \in Seq(Registers) /\ Grants.offset \in Nat
        /\ Len(Grants.regs) = Len(Requests(Now))
    BY <1>1, HandlesType
  <2>2. linklist \in Seq(Entries) /\ Len(code) = tac_code - 1 /\ code \in Seq(Seq(Ops))
    BY DEF TypeOK
  <2> QED BY <2>1, <2>2
<1>3. X \in Registers /\ Store \in Ops
  <2>1. Len(Grants.regs) = 1 BY <1>2, RequestsLength
  <2> QED BY <1>2, <2>1, GrantedRegisters
<1>4. Now.target \in Targets \cup {NoName, "read", "write"} BY <1>2 DEF Code
<1>5. /\ Stack(-20) \in Ops /\ Stack(20) \in Ops /\ Move(X, "v0") \in Ops
      /\ Jump("jal", Now.target) \in Ops
  BY <1>3, <1>4, EmittedType, RegisterNames
<1>6. /\ <<Stack(-20)>> \in Seq(Ops) /\ jump \in Seq(Ops) /\ last \in Seq(Ops)
      /\ saves \in Seq(Ops) /\ restores \in Seq(Ops) /\ ArgumentLoads \in Seq(Ops)
  BY <1>2, <1>3, <1>5, SavedType, ArgumentLoadsType, CodeType
<1>7. code'[tac_code] = ops
  <2> HIDE DEF ops
  <2> QED BY <1>1, <1>2 DEF Emit
<1> DEFINE a == <<Stack(-20)>> \o saves
<1> HIDE DEF jump, last, saves, restores
<1>8. a \in Seq(Ops) BY <1>6, ConcatenationHasBoth
<1> HIDE DEF a
<1>9. /\ a \o ArgumentLoads \in Seq(Ops)
      /\ Elements(ArgumentLoads) \subseteq Elements(a \o ArgumentLoads)
  BY <1>6, <1>8, ConcatenationHasBoth
<1>10. /\ a \o ArgumentLoads \o jump \in Seq(Ops)
       /\ Elements(a \o ArgumentLoads) \subseteq Elements(a \o ArgumentLoads \o jump)
  BY <1>6, <1>9, ConcatenationHasBoth
<1>11. /\ a \o ArgumentLoads \o jump \o restores \in Seq(Ops)
       /\ Elements(a \o ArgumentLoads \o jump)
            \subseteq Elements(a \o ArgumentLoads \o jump \o restores)
  BY <1>6, <1>10, ConcatenationHasBoth
<1>12. Elements(a \o ArgumentLoads \o jump \o restores) \subseteq Elements(ops)
  BY <1>6, <1>11, ConcatenationHasBoth DEF a
<1> HIDE DEF ops
<1> QED BY <1>7, <1>9, <1>10, <1>11, <1>12

(* The loads of the calls already emitted stay right.                      *)
LEMMA ArgumentsStay ==
  ASSUME TypeOK, OffsetsDistinct, ArgumentInv, Kept, ir' = ir,
         NEW k \in 1..Len(code), code'[k] = code[k],
         NEW j \in Nat \ {0}, ir[k].kind = "CALL", j < k, AllAre("ARG", k - j, k - 1)
  PROVE  /\ Has(linklist', ir[k - j].r1.name)
         /\ ArgumentLoad(j - 1, findOffset(linklist', ir[k - j].r1.name)) \in Emitted(k)'
<1> DEFINE name == ir[k - j].r1.name
<1>1. /\ Has(linklist, name)
      /\ ArgumentLoad(j - 1, findOffset(linklist, name)) \in Emitted(k)
  BY DEF ArgumentInv
<1>2. /\ linklist \in Seq(Entries) /\ linklist' \in Seq(Entries)
      /\ Extends(linklist, linklist') /\ Distinct(linklist')
  BY DEF TypeOK, Kept, OffsetsDistinct
<1> HIDE DEF name
<1>3. findOffset(linklist', name) = findOffset(linklist, name)
  BY <1>1, <1>2, ExtensionKeepsOffsets
<1>4. Has(linklist', name) BY <1>1, <1>2 DEF Has, Extends
<1>5. Emitted(k)' = Emitted(k) BY DEF Emitted
<1> QED BY <1>1, <1>3, <1>4, <1>5 DEF name

LEMMA CallMeetsArguments ==
  ASSUME TypeOK, OffsetsDistinct, AssignedInv, ir \in Programs, EmitCall,
         NEW j \in Nat \ {0}, j < tac_code, AllAre("ARG", tac_code - j, tac_code - 1)
  PROVE  /\ Has(linklist', ir[tac_code - j].r1.name)
         /\ ArgumentLoad(j - 1, findOffset(linklist', ir[tac_code - j].r1.name))
              \in Elements(code'[tac_code])
<1> DEFINE count == Cardinality({m \in 1..tac_code - 1 : IsArg(m)})
           load(i) == ArgumentLoad(i - 1, findOffset(linklist, ir[tac_code - i].r1.name))
           name == ir[tac_code - j].r1.name
<1>1. Handles({"CALL"}) BY DEF EmitCall
<1>2. Kept BY ListStep DEF Next
<1>3. /\ tac_code \in 1..Len(ir) /\ Len(code) = tac_code - 1 /\ ir \in Seq(Code)
      /\ linklist \in Seq(Entries) /\ linklist' \in Seq(Entries)
      /\ Extends(linklist, linklist') /\ Distinct(linklist')
  BY <1>1, <1>2, HandlesType DEF TypeOK, Kept, OffsetsDistinct
<1>4. count \in Nat /\ j <= count BY <1>3, ArgumentsCounted
<1>5. ArgumentLoads = [i \in 1..count |-> load(i)] BY DEF ArgumentLoads
<1>6. load(j) \in Elements(ArgumentLoads)
  <2> HIDE DEF count, load
  <2>1. j \in 1..count /\ Len(ArgumentLoads) = count /\ ArgumentLoads[j] = load(j)
    BY <1>4, <1>5
  <2> QED BY <2>1 DEF Elements
<1>7. Has(linklist, name)
  <2>1. tac_code - j \in 1..Len(ir) /\ tac_code - j \in tac_code - j..tac_code - 1
    BY <1>3
  <2>2. ir[tac_code - j].kind = "ARG" BY <2>1 DEF AllAre
  <2>3. PICK i \in 1..(tac_code - j) - 1 : ir[i].kind \in Sets /\ ir[i].left.name = name
    BY <2>1, <2>2, ArgumentsAssumption
  <2>4. i \in 1..Len(code) BY <1>3
  <2> QED BY <2>3, <2>4 DEF AssignedInv
<1> HIDE DEF name
<1>8. findOffset(linklist', name) = findOffset(linklist, name)
  BY <1>3, <1>7, ExtensionKeepsOffsets
<1>9. Has(linklist', name) BY <1>3, <1>7 DEF Has, Extends
<1>10. load(j) \in Elements(code'[tac_code])
  <2> HIDE DEF load
  <2> QED BY <1>6, CallHasLoads
<1> QED BY <1>8, <1>9, <1>10 DEF name

LEMMA ArgumentStep ==
  ASSUME TypeOK, OffsetsDistinct, AssignedInv, ArgumentInv, ir \in Programs, [Next]_vars
  PROVE  ArgumentInv'
<1>1. CASE Abort \/ Finish \/ UNCHANGED vars
  <2>1. UNCHANGED <<ir, linklist, code>> BY <1>1 DEF Abort, Finish, vars
  <2>2. \A k : Emitted(k)' = Emitted(k) BY <2>1 DEF Emitted
  <2> QED BY <2>1, <2>2 DEF ArgumentInv, AllAre
<1>2. CASE EmitParam \/ HandlesNoParam
  <2>1. /\ code \in Seq(Seq(Ops)) /\ Len(code) = tac_code - 1 /\ tac_code \in Nat \ {0}
    BY DEF TypeOK
  <2>2. /\ ir' = ir /\ \E ops : code' = Append(code, ops)
        /\ ir[tac_code].kind = "CALL" => EmitCall
    <3>1. CASE EmitParam BY <3>1 DEF EmitParam, Handles, Now
    <3>2. CASE HandlesNoParam BY <3>2 DEF HandlesNoParam, Now
    <3> QED BY <1>2, <3>1, <3>2
  <2>3. /\ Len(code') = tac_code /\ \A k \in 1..Len(code) : code'[k] = code[k]
    BY <2>1, <2>2
  <2>4. Kept BY ListStep
  <2> SUFFICES ASSUME NEW k \in 1..tac_code, NEW j \in Nat \ {0}, ir[k].kind = "CALL",
                      j < k, AllAre("ARG", k - j, k - 1)
               PROVE  /\ Has(linklist', ir[k - j].r1.name)
                      /\ ArgumentLoad(j - 1, findOffset(linklist', ir[k - j].r1.name))
                           \in Emitted(k)'
    BY <2>2, <2>3 DEF ArgumentInv, AllAre
  <2>5. CASE k \in 1..Len(code) BY <2>5, <2>2, <2>3, <2>4, ArgumentsStay
  <2>6. CASE k = tac_code
    <3>1. Emitted(k)' = Elements(code'[tac_code]) BY <2>6 DEF Emitted, Elements
    <3> QED BY <3>1, <2>2, <2>6, CallMeetsArguments
  <2> QED BY <2>1, <2>5, <2>6
<1> QED BY <1>1, <1>2, HandlerStep

-----------------------------------------------------------------------------
(* The j-th of up to four arguments is loaded into the register in which   *)
(* the function finds its j-th parameter.                                  *)
THEOREM ArgumentsAreParameters == Spec => []ArgumentsMeetParameters
<1>1. Init => ParamInv /\ ArgumentInv
  BY DEF Init, ParamInv, RegisterInv, EntryInv, CountInv, ArgumentInv
<1>2. TypeOK /\ OffsetsDistinct /\ AssignedInv /\ ir \in Programs /\ ParamInv
        /\ ArgumentInv /\ [Next]_vars => ParamInv' /\ ArgumentInv'
  BY ParamStep, ArgumentStep
<1>3. TypeOK /\ ParamInv /\ ArgumentInv => ArgumentsMeetParameters
  <2> SUFFICES ASSUME TypeOK, ParamInv, ArgumentInv,
                      NEW k \in 1..Len(code), NEW m \in 1..Len(code), NEW j \in 1..4,
                      ir[k].kind = "CALL", ir[m].kind = "FUNCTION", m + j <= Len(code),
                      \A i \in m + 1..m + j : ir[i].kind = "PARAM",
                      j < k, \A i \in k - j..k - 1 : ir[i].kind = "ARG"
               PROVE  Lw(ArgumentRegister(Found(a0_a3_list, ir[m + j].r1.name).aRegister),
                         findOffset(linklist, ir[k - j].r1.name)) \in Emitted(k)
    BY DEF ArgumentsMeetParameters
  <2>1. AllAre("PARAM", m + 1, m + j) /\ AllAre("ARG", k - j, k - 1) BY DEF AllAre
  <2>2. j \in Nat \ {0} OBVIOUS
  <2>3. Found(a0_a3_list, ir[m + j].r1.name).aRegister = j - 1
    BY <2>1, <2>2 DEF ParamInv, RegisterInv, Registered
  <2>4. ArgumentLoad(j - 1, findOffset(linklist, ir[k - j].r1.name)) \in Emitted(k)
    BY <2>1, <2>2 DEF ArgumentInv
  <2>5. ArgumentLoad(j - 1, findOffset(linklist, ir[k - j].r1.name))
          = Lw(ArgumentRegister(j - 1), findOffset(linklist, ir[k - j].r1.name))
    BY DEF ArgumentLoad
  <2> QED BY <2>3, <2>4, <2>5
<1> QED BY <1>1, <1>2, <1>3, TypeCorrect, OffsetsAreDistinct, AddressInvariant, PTL DEF Spec

-----------------------------------------------------------------------------
(* No register is loaded twice.                                            *)

LoadsApart(s) ==
  \A i, j \in 1..Len(s) : s[i].op = "lw" /\ s[j].op = "lw" /\ s[i].rd = s[j].rd => i = j

Temporaries == {"t0", "t1", "t2"}

(* A register is only taken by a RETURN that has not given it back.        *)
TakenInv == Cardinality(Temporaries \ available) <= Cardinality(Unrestored(tac_code))

LEMMA Concatenation ==
  ASSUME NEW S, NEW T, NEW s \in Seq(S), NEW t \in Seq(T)
  PROVE  /\ s \o t \in Seq(S \cup T) /\ Len(s \o t) = Len(s) + Len(t)
         /\ Len(s) \in Nat /\ Len(t) \in Nat
         /\ \A i \in 1..Len(s) : (s \o t)[i] = s[i] /\ s[i] \in S
         /\ \A i \in 1..Len(t) : (s \o t)[Len(s) + i] = t[i] /\ t[i] \in T
OBVIOUS

LEMMA ApartBefore ==
  ASSUME NEW N, \A e \in N : e.op # "lw", NEW S, NEW b \in Seq(S), LoadsApart(b),
         NEW c \in Seq(N)
  PROVE  LoadsApart(b \o c)
<1>. DEFINE s == b \o c
<1>1. /\ Len(s) = Len(b) + Len(c) /\ Len(b) \in Nat /\ Len(c) \in Nat
      /\ \A i \in 1..Len(b) : s[i] = b[i]
      /\ \A i \in 1..Len(c) : s[Len(b) + i] \in N
  BY Concatenation
<1>. HIDE DEF s
<1>2. ASSUME NEW i \in 1..Len(s), s[i].op = "lw" PROVE i \in 1..Len(b)
  <2>1. CASE i > Len(b)
    <3>. DEFINE k == i - Len(b)
    <3>1. k \in 1..Len(c) /\ i = Len(b) + k BY <1>1, <2>1
    <3>. HIDE DEF k
    <3>. QED BY <1>1, <1>2, <3>1
  <2>. QED BY <1>1, <2>1
<1>3. LoadsApart(s) BY <1>1, <1>2 DEF LoadsApart
<1>. QED BY <1>3 DEF s

LEMMA ApartBehind ==
  ASSUME NEW N, \A e \in N : e.op # "lw", NEW S, NEW b \in Seq(S), LoadsApart(b),
         NEW a \in Seq(N)
  PROVE  LoadsApart(a \o b)
<1>. DEFINE s == a \o b
<1>1. /\ Len(s) = Len(a) + Len(b) /\ Len(a) \in Nat /\ Len(b) \in Nat
      /\ \A i \in 1..Len(a) : s[i] \in N
      /\ \A i \in 1..Len(b) : s[Len(a) + i] = b[i]
  BY Concatenation
<1>. HIDE DEF s
<1>2. ASSUME NEW i \in 1..Len(s), s[i].op = "lw"
      PROVE  \E k \in 1..Len(b) : i = Len(a) + k /\ s[i] = b[k]
  <2>. DEFINE k == i - Len(a)
  <2>1. i \notin 1..Len(a) BY <1>1, <1>2
  <2>2. k \in 1..Len(b) /\ i = Len(a) + k BY <1>1, <2>1
  <2>. HIDE DEF k
  <2>. QED BY <1>1, <2>2
<1>3. LoadsApart(s)
  <2>. SUFFICES ASSUME NEW i \in 1..Len(s), NEW j \in 1..Len(s), s[i].op = "lw",
                       s[j].op = "lw", s[i].rd = s[j].rd
                PROVE  i = j
    BY DEF LoadsApart
  <2>1. PICK k \in 1..Len(b) : i = Len(a) + k /\ s[i] = b[k] BY <1>2
  <2>2. PICK m \in 1..Len(b) : j = Len(a) + m /\ s[j] = b[m] BY <1>2
  <2>3. b[k].op = "lw" /\ b[m].op = "lw" /\ b[k].rd = b[m].rd BY <2>1, <2>2
  <2>4. k = m BY ONLY <2>3, LoadsApart(b) DEF LoadsApart
  <2>. QED BY <2>1, <2>2, <2>4
<1>. QED BY <1>3 DEF s

(* One request: a load goes to a register that is free while there is one, *)
(* which then is not.                                                      *)
LEMMA GrantLoads ==
  ASSUME NEW st \in States, NEW requests, NEW i \in Nat \ {0}
  PROVE  LET new == Grant(st, requests, i)
         IN \/ /\ new.loads = st.loads
               /\ new.free \cap Temporaries = st.free \cap Temporaries
            \/ /\ i <= Len(requests) /\ requests[i].mode # "w"
               /\ \E reg, offset :
                    /\ new.loads = Append(st.loads, Lw(reg, offset))
                    /\ new.free = st.free \ {reg}
                    /\ \/ reg = "t3" /\ st.free \cap Temporaries = {}
                       \/ reg \in st.free \cap Temporaries
<1>. DEFINE name == requests[i].opd.name
            list == Entered(st.list, name)
<1>1. CASE i > Len(requests) BY <1>1 DEF Grant
<1>2. CASE ~ (i > Len(requests)) /\ requests[i].mode = "w"
  <2>. DEFINE reg == FirstFree(st.free, "s0", "s1", "s2", "s3")
              new == [st EXCEPT !.list = list, !.free = @ \ {reg},
                                !.offset = findOffset(list, name), !.regs = Append(@, reg)]
  <2>1. Grant(st, requests, i) = new BY <1>2 DEF Grant, get_register_w
  <2>2. reg \notin Temporaries BY DEF FirstFree, Temporaries
  <2>. HIDE DEF list, reg, name
  <2>3. new.loads = st.loads /\ new.free = st.free \ {reg} BY DEF States
  <2>. QED BY <2>1, <2>2, <2>3
<1>3. CASE ~ (i > Len(requests)) /\ requests[i].mode # "w"
  <2>1. Grant(st, requests, i) = get_register(st, name) BY <1>3 DEF Grant
  <2>2. CASE Has(a0_a3_list, name)
    <3>. DEFINE reg == ArgumentRegister(Found(a0_a3_list, name).aRegister)
                new == [st EXCEPT !.regs = Append(@, reg)]
    <3>1. get_register(st, name) = new BY <2>2 DEF get_register
    <3>. HIDE DEF reg
    <3>2. new.loads = st.loads /\ new.free = st.free BY DEF States
    <3>. QED BY <2>1, <3>1, <3>2
  <2>3. CASE ~ Has(a0_a3_list, name)
    <3>. DEFINE reg == FirstFree(st.free, "t0", "t1", "t2", "t3")
                offset == findOffset(list, name)
                new == [st EXCEPT !.list = list, !.free = @ \ {reg},
                                  !.regs = Append(@, reg), !.loads = Append(@, Lw(reg, offset))]
    <3>1. get_register(st, name) = new BY <2>3 DEF get_register
    <3>2. \/ reg = "t3" /\ st.free \cap Temporaries = {}
          \/ reg \in st.free \cap Temporaries
      BY DEF FirstFree, Temporaries
    <3>. HIDE DEF reg, offset, list
    <3>3. new.loads = Append(st.loads, Lw(reg, offset)) /\ new.free = st.free \ {reg}
      BY DEF States
    <3>4. i <= Len(requests) /\ requests[i].mode # "w" BY <1>3
    <3>. QED BY <2>1, <3>1, <3>2, <3>3, <3>4
  <2>. QED BY <2>2, <2>3
<1>. QED BY <1>1, <1>2, <1>3

(* From a state in which a temporary is free, two loads go to two registers.*)
LEMMA TwoLoads ==
  ASSUME NEW st \in States, st.loads = <<>>, st.free \cap Temporaries # {},
         NEW requests, NEW i \in Nat \ {0}, Grant(st, requests, i) \in States
  PROVE  LoadsApart(Grant(Grant(st, requests, i), requests, i + 1).loads)
<1>. DEFINE st1 == Grant(st, requests, i)
            st2 == Grant(st1, requests, i + 1)
<1>1. i + 1 \in Nat \ {0} OBVIOUS
<1>2. \/ st1.loads = <<>>
      \/ \E r, o : st1.loads = <<Lw(r, o)>> /\ st1.free = st.free \ {r} /\ r \in Temporaries
  <2>1. \/ st1.loads = <<>>
        \/ \E r, o : st1.loads = Append(<<>>, Lw(r, o)) /\ st1.free = st.free \ {r}
                     /\ r \in st.free \cap Temporaries
    BY GrantLoads
  <2>. HIDE DEF st1
  <2>. QED BY <2>1
<1>3. \/ st2.loads = st1.loads
      \/ \E q, p : st2.loads = Append(st1.loads, Lw(q, p))
                   /\ (q = "t3" \/ q \in st1.free \cap Temporaries)
  BY <1>1, GrantLoads
<1>. HIDE DEF st1, st2
<1>4. \A r, o : Lw(r, o).rd = r BY DEF Lw, Op
<1>5. ASSUME st2.loads = st1.loads PROVE LoadsApart(st2.loads)
  <2>1. CASE st1.loads = <<>> BY <1>5, <2>1 DEF LoadsApart
  <2>2. CASE \E r, o : st1.loads = <<Lw(r, o)>>
    <3>1. PICK r, o : st1.loads = <<Lw(r, o)>> BY <2>2
    <3>2. Len(st2.loads) = 1 BY <1>5, <3>1
    <3>. QED BY <3>2 DEF LoadsApart
  <2>. QED BY <1>2, <2>1, <2>2
<1>6. ASSUME NEW q, NEW p, st2.loads = Append(st1.loads, Lw(q, p)),
             q = "t3" \/ q \in st1.free \cap Temporaries
      PROVE  LoadsApart(st2.loads)
  <2>1. CASE st1.loads = <<>>
    <3>1. Len(st2.loads) = 1 BY <1>6, <2>1
    <3>. QED BY <3>1 DEF LoadsApart
  <2>2. CASE st1.loads # <<>>
    <3>0. PICK r, o : st1.loads = <<Lw(r, o)>> /\ st1.free = st.free \ {r} /\ r \in Temporaries
      BY <1>2, <2>2
    <3>1. Len(st2.loads) = 2 /\ st2.loads[1] = Lw(r, o) /\ st2.loads[2] = Lw(q, p)
      BY <1>6, <3>0
    <3>2. q # r BY <1>6, <3>0 DEF Temporaries
    <3>3. st2.loads[1].rd = r /\ st2.loads[2].rd = q BY <3>1 DEF Lw, Op
    <3>. QED BY <3>1, <3>2, <3>3 DEF LoadsApart
  <2>. QED BY <2>1, <2>2
<1>7. LoadsApart(st2.loads) BY <1>3, <1>5, <1>6
<1>. QED BY <1>7 DEF st1, st2

(* Of three requests the first is to write.                                *)
LEMMA FirstOfThree ==
  ASSUME NEW tac \in Code, Len(Requests(tac)) = 3,
         \A i \in 1..Len(Requests(tac)) : IsVariable(Requests(tac)[i].opd)
  PROVE  Requests(tac)[1].mode = "w"
<1>1. CASE tac.kind \in Sets BY <1>1, RequestsForm
<1>2. CASE tac.kind \in {"ADDR", "DEREF", "WRITE"}
  <2>1. Len(Requests(tac)) \in {1, 2} BY <1>2, RequestsLength
  <2>. QED BY ONLY <2>1, Len(Requests(tac)) = 3
<1>3. CASE tac.kind = "RETURN"
  <2>1. Len(Requests(tac)) = IF IsConstant(tac.r1) THEN 0 ELSE 1 BY <1>3, RequestsLength
  <2>. QED BY ONLY <2>1, Len(Requests(tac)) = 3
<1>4. CASE tac.kind \in Branches
  <2>1. Len(Requests(tac)) = (IF IsConstant(tac.r1) THEN 0 ELSE 1)
                             + (IF IsConstant(tac.r2) THEN 0 ELSE 1)
    BY <1>4, RequestsLength
  <2>. DEFINE n == Len(Requests(tac))
              a == IF IsConstant(tac.r1) THEN 0 ELSE 1
              b == IF IsConstant(tac.r2) THEN 0 ELSE 1
  <2>2. a \in {0, 1} /\ b \in {0, 1} /\ n = a + b BY <2>1
  <2>. HIDE DEF n, a, b
  <2>3. n # 3 BY <2>2
  <2>. QED BY <2>3 DEF n
<1>5. CASE tac.kind \notin Sets \cup Branches \cup {"ADDR", "DEREF", "WRITE", "RETURN"}
  <2>1. Requests(tac) = <<>> BY <1>5 DEF Requests, Sets, Arithmetic, Branches
  <2>. QED BY <2>1
<1>. QED BY <1>1, <1>2, <1>3, <1>4, <1>5

LEMMA GrantsApart ==
  ASSUME TypeOK, NEW kinds, Handles(kinds), available \cap Temporaries # {}
  PROVE  LoadsApart(Loads)
<1>. DEFINE R == Requests(Now)
            st0 == [list |-> linklist, free |-> available, offset |-> write_offset,
                    regs |-> <<>>, loads |-> <<>>]
            st1 == Grant(st0, R, 1)
            st2 == Grant(st1, R, 2)
            st3 == Grant(st2, R, 3)
<1>1. /\ ir \in Seq(Code) /\ tac_code \in 1..Len(ir) /\ Asserted /\ Now \in Code
      /\ linklist \in Seq(Entries) /\ available \subseteq Allocatable /\ write_offset \in Nat
  BY HandlesType DEF TypeOK, Handles
<1>2. /\ Len(R) \in Nat /\ \A i \in 1..Len(R) : R[i].opd.name \in Names
      /\ \A i \in 1..Len(R) : IsVariable(R[i].opd)
  BY <1>1, RequestsProper DEF Asserted
<1>3. Len(R) <= 3 /\ (Len(R) = 3 => R[1].mode = "w")
  BY <1>1, <1>2, RequestsLength, FirstOfThree
<1>4. Loads = st3.loads BY DEF Loads, Grants, Granted
<1>5. st0 \in States /\ st0.loads = <<>> /\ st0.free = available BY <1>1 DEF States
<1>. HIDE DEF R, st0
<1>6. \A i \in Nat \ {0} : i <= Len(R) => R[i].opd.name \in Names BY <1>2
<1>7. st1 \in States /\ 1 + 1 = 2 /\ 2 + 1 = 3 BY <1>5, <1>6, GrantType
<1>8. CASE Len(R) = 3
  <2>1. st1.loads = <<>> /\ st1.free \cap Temporaries # {}
    BY <1>3, <1>5, <1>8, GrantLoads
  <2>. HIDE DEF st1
  <2>2. st2 \in States BY <1>6, <1>7, GrantType
  <2>. QED BY <1>4, <1>7, <2>1, <2>2, TwoLoads
<1>9. CASE Len(R) < 3
  <2>1. st3 = st2 BY <1>9 DEF Grant
  <2>2. LoadsApart(st2.loads) BY <1>5, <1>7, TwoLoads
  <2>. QED BY <1>4, <2>1, <2>2
<1>10. Len(R) = 3 \/ Len(R) < 3
  <2>. DEFINE n == Len(R)
  <2>1. n \in Nat /\ n <= 3 BY <1>2, <1>3
  <2>. HIDE DEF n
  <2>2. n = 3 \/ n < 3 BY <2>1
  <2>. QED BY <2>2 DEF n
<1>. QED BY <1>8, <1>9, <1>10

(* $a0 to $a3 for the first four arguments, and nothing for the others.    *)
LEMMA ArgumentLoadsApart ==
  ASSUME TypeOK, Handles({"CALL"})
  PROVE  LoadsApart(ArgumentLoads)
<1>. DEFINE count == Cardinality({i \in 1..tac_code - 1 : IsArg(i)})
            load(i) == ArgumentLoad(i - 1, findOffset(linklist, ir[tac_code - i].r1.name))
<1>1. count \in Nat
  <2>1. tac_code \in Nat BY HandlesType
  <2>2. IsFiniteSet(1..tac_code - 1) BY <2>1, FS_Interval
  <2>. QED BY <2>2, FS_Subset, FS_CardinalityType
<1>2. ArgumentLoads = [i \in 1..count |-> load(i)] BY DEF ArgumentLoads
<1>3. ASSUME NEW i \in Nat \ {0}, load(i).op = "lw"
      PROVE  i \in 1..4 /\ load(i).rd = ArgumentRegister(i - 1)
  <2>1. CASE i - 1 <= 3 BY <2>1 DEF ArgumentLoad, Lw, Op
  <2>2. CASE ~ (i - 1 <= 3)
    <3>1. load(i).op = "lw_none" BY <2>2 DEF ArgumentLoad, Op
    <3>. HIDE DEF load
    <3>. QED BY <1>3, <3>1
  <2>. QED BY <2>1, <2>2
<1>4. \A i, j \in 1..4 : ArgumentRegister(i - 1) = ArgumentRegister(j - 1) => i = j
  BY DEF ArgumentRegister
<1>. HIDE DEF count, load
<1>5. /\ Len(ArgumentLoads) = count
      /\ \A i \in 1..count : ArgumentLoads[i] = load(i) /\ i \in Nat \ {0}
  BY <1>1, <1>2
<1>. QED BY <1>3, <1>4, <1>5 DEF LoadsApart

LEMMA NotLoads ==
  /\ \A e : Plain(e) => e.op # "lw"
  /\ Store.op # "lw"
BY DEF Plain, Store, Sw, Op

(* What a handler emits has its loads and the loads of arguments apart.    *)
LEMMA ArithmeticApart ==
  ASSUME TypeOK, available \cap Temporaries # {},
         EmitAssign \/ EmitAdd \/ EmitSub \/ EmitMul \/ EmitDiv \/ EmitFetch \/ EmitDeref
  PROVE  \E ops : Emit(ops) /\ LoadsApart(ops)
<1>1. ASSUME NEW kinds, Handles(kinds), NEW N, \A e \in N : Plain(e) \/ e = Store,
             NEW c \in Seq(N)
      PROVE  LoadsApart(Loads \o c)
  <2>1. Loads \in Seq(Ops) /\ LoadsApart(Loads) BY <1>1, HandlesType, GrantsApart
  <2>2. \A e \in N : e.op # "lw" BY <1>1, NotLoads
  <2>. QED BY <2>1, <2>2, ApartBefore
<1>2. CASE EmitAssign
  <2>. DEFINE last == IF IsConstant(Now.r1) THEN Li(X, Now.r1.value) ELSE Move(X, Y)
  <2>1. Handles({"ASSIGN"}) /\ Emit(Loads \o <<last, Store>>) BY <1>2 DEF EmitAssign
  <2>2. Plain(last) BY PlainOps
  <2>. HIDE DEF last
  <2>3. <<last, Store>> \in Seq({last, Store}) BY SequencesOver
  <2>4. LoadsApart(Loads \o <<last, Store>>) BY <1>1, <2>1, <2>2, <2>3
  <2>. QED BY <2>1, <2>4
<1>3. CASE EmitAdd
  <2>. DEFINE sum == IF IsConstant(Now.r1) THEN Addi(X, Y, Now.r1.value)
                     ELSE IF IsConstant(Now.r2) THEN Addi(X, Y, Now.r2.value)
                     ELSE Three("add", X, Y, Z)
  <2>1. Handles({"ADD"}) /\ Emit(Loads \o <<sum, Store>>) BY <1>3 DEF EmitAdd
  <2>2. Plain(sum) BY PlainOps
  <2>. HIDE DEF sum
  <2>3. <<sum, Store>> \in Seq({sum, Store}) BY SequencesOver
  <2>4. LoadsApart(Loads \o <<sum, Store>>) BY <1>1, <2>1, <2>2, <2>3
  <2>. QED BY <2>1, <2>4
<1>4. CASE EmitSub
  <2>. DEFINE difference ==
                IF IsConstant(Now.r1) THEN <<Neg(Y), Addi(X, Y, Now.r1.value)>>
                ELSE IF IsConstant(Now.r2) THEN <<Addi(X, Y, -Now.r2.value)>>
                ELSE <<Three("sub", X, Y, Z)>>
              D == {Neg(Y), Addi(X, Y, Now.r1.value), Addi(X, Y, -Now.r2.value),
                    Three("sub", X, Y, Z)}
  <2>1. Handles({"SUB"}) /\ Emit(Loads \o difference \o <<Store>>) BY <1>4 DEF EmitSub
  <2>2. \A e \in D : Plain(e) BY PlainOps
  <2>3. difference \in Seq(D)
    <3>1. /\ Neg(Y) \in D /\ Addi(X, Y, Now.r1.value) \in D
          /\ Addi(X, Y, -Now.r2.value) \in D /\ Three("sub", X, Y, Z) \in D
      OBVIOUS
    <3>. HIDE DEF D
    <3>. QED BY <3>1, SequencesOver
  <2>. HIDE DEF difference, D
  <2>4. LoadsApart(Loads \o difference) BY <1>1, <2>1, <2>2, <2>3
  <2>5. Loads \o difference \in Seq(Ops \cup D) BY <2>1, <2>3, HandlesType, Concatenation
  <2>6. <<Store>> \in Seq({Store}) BY SequencesOver
  <2>7. LoadsApart(Loads \o difference \o <<Store>>)
    BY <2>4, <2>5, <2>6, NotLoads, ApartBefore
  <2>. QED BY <2>1, <2>7
<1>5. CASE EmitMul
  <2>. DEFINE N == {Three("mul", X, Y, Z), Store}
  <2>1. Handles({"MUL"}) /\ Emit(Loads \o <<Three("mul", X, Y, Z), Store>>)
    BY <1>5 DEF EmitMul
  <2>2. /\ \A e \in N : Plain(e) \/ e = Store
        /\ <<Three("mul", X, Y, Z), Store>> \in Seq(N)
    BY PlainOps, SequencesOver
  <2>. QED BY <1>1, <2>1, <2>2
<1>6. CASE EmitDiv
  <2>. DEFINE N == {Three("div", None, Y, Z), Three("mflo", X, None, None), Store}
  <2>1. Handles({"DIV"})
        /\ Emit(Loads \o <<Three("div", None, Y, Z), Three("mflo", X, None, None), Store>>)
    BY <1>6 DEF EmitDiv
  <2>2. /\ \A e \in N : Plain(e) \/ e = Store
        /\ <<Three("div", None, Y, Z), Three("mflo", X, None, None), Store>> \in Seq(N)
    BY PlainOps, SequencesOver
  <2>. QED BY <1>1, <2>1, <2>2
<1>7. CASE EmitFetch
  <2>. DEFINE N == {Three("lw_at", X, Y, None), Store}
  <2>1. Handles({"FETCH"}) /\ Emit(Loads \o <<Three("lw_at", X, Y, None), Store>>)
    BY <1>7 DEF EmitFetch
  <2>2. /\ \A e \in N : Plain(e) \/ e = Store
        /\ <<Three("lw_at", X, Y, None), Store>> \in Seq(N)
    BY PlainOps, SequencesOver
  <2>. QED BY <1>1, <2>1, <2>2
<1>8. CASE EmitDeref
  <2>. DEFINE N == {Three("sw_at", None, Y, X)}
  <2>1. Handles({"DEREF"}) /\ Emit(Loads \o <<Three("sw_at", None, Y, X)>>)
    BY <1>8 DEF EmitDeref
  <2>2. /\ \A e \in N : Plain(e) \/ e = Store
        /\ <<Three("sw_at", None, Y, X)>> \in Seq(N)
    BY PlainOps, SequencesOver
  <2>. QED BY <1>1, <2>1, <2>2
<1>. QED BY <1>2, <1>3, <1>4, <1>5, <1>6, <1>7, <1>8

LEMMA OtherApart ==
  ASSUME TypeOK, available \cap Temporaries # {},
         \/ EmitLabel \/ EmitGoto \/ EmitNothing \/ EmitBranch \/ EmitReturn \/ EmitCall
         \/ EmitRead \/ EmitWrite
  PROVE  \E ops : Emit(ops) /\ LoadsApart(ops)
<1>1. ASSUME NEW N, \A e \in N : Plain(e) \/ e = Store, NEW c \in Seq(N) PROVE LoadsApart(c)
  <2>1. \A e \in N : e.op # "lw" BY <1>1, NotLoads
  <2>. QED BY <2>1 DEF LoadsApart
<1>2. CASE EmitLabel \/ EmitGoto \/ EmitNothing
  <2>. DEFINE S == {Jump("label", Now.target), Jump("j", Now.target)}
  <2>1. \A e \in S : Plain(e) BY PlainOps
  <2>2. PICK ops \in Seq(S) : Emit(ops)
    <3>1. /\ <<Jump("label", Now.target)>> \in Seq(S) /\ <<Jump("j", Now.target)>> \in Seq(S)
          /\ <<>> \in Seq(S)
      BY SequencesOver
    <3>. HIDE DEF S
    <3>. QED BY <1>2, <3>1 DEF EmitLabel, EmitGoto, EmitNothing
  <2>. HIDE DEF S
  <2>. QED BY <1>1, <2>1, <2>2
<1>3. CASE EmitBranch
  <2>. DEFINE first == IF IsConstant(Now.r1) THEN "t5" ELSE X
              second == IF IsConstant(Now.r2) THEN "t6"
                        ELSE Grants.regs[Len(Grants.regs)]
              load1 == IF IsConstant(Now.r1) THEN <<Li("t5", Now.r1.value)>> ELSE <<>>
              load2 == IF IsConstant(Now.r2) THEN <<Li("t6", Now.r2.value)>> ELSE <<>>
              jump == Op(Now.kind, None, first, second, 0, Now.target)
              D == {Li("t5", Now.r1.value), Li("t6", Now.r2.value), jump}
  <2>1. Handles(Branches) /\ Emit(load1 \o Loads \o load2 \o <<jump>>)
    BY <1>3 DEF EmitBranch
  <2>2. Now.kind \in Branches BY <2>1 DEF Handles
  <2>3. \A e \in D : Plain(e)
    <3>. HIDE DEF first, second
    <3>. QED BY <2>2, PlainOps
  <2>4. load1 \in Seq(D) /\ load2 \in Seq(D) /\ <<jump>> \in Seq(D)
    <3>1. Li("t5", Now.r1.value) \in D /\ Li("t6", Now.r2.value) \in D /\ jump \in D
      OBVIOUS
    <3>. HIDE DEF D, jump
    <3>. QED BY <3>1, SequencesOver
  <2>. HIDE DEF load1, load2, jump, D
  <2>5. Loads \in Seq(Ops) /\ LoadsApart(Loads) BY <2>1, HandlesType, GrantsApart
  <2>6. \A e \in D : e.op # "lw" BY <2>3, NotLoads
  <2>7. LoadsApart(load1 \o Loads) /\ load1 \o Loads \in Seq(D \cup Ops)
    BY <2>4, <2>5, <2>6, ApartBehind, Concatenation
  <2>8. /\ LoadsApart(load1 \o Loads \o load2)
        /\ load1 \o Loads \o load2 \in Seq(D \cup Ops \cup D)
    BY <2>4, <2>6, <2>7, ApartBefore, Concatenation
  <2>9. LoadsApart(load1 \o Loads \o load2 \o <<jump>>)
    BY <2>4, <2>6, <2>8, ApartBefore
  <2>. QED BY <2>1, <2>9
<1>4. CASE EmitReturn
  <2>. DEFINE result == IF IsConstant(Now.r1) THEN Li("v0", Now.r1.value) ELSE Move("v0", X)
              N == {result, Jump("jr", NoName)}
  <2>1. Handles({"RETURN"}) /\ Emit(Loads \o <<result, Jump("jr", NoName)>>)
    BY <1>4 DEF EmitReturn
  <2>2. Plain(result) /\ Plain(Jump("jr", NoName)) BY PlainOps
  <2>. HIDE DEF result
  <2>3. <<result, Jump("jr", NoName)>> \in Seq(N) BY SequencesOver
  <2>4. \A e \in N : e.op # "lw" BY <2>2, NotLoads
  <2>5. Loads \in Seq(Ops) /\ LoadsApart(Loads) BY <2>1, HandlesType, GrantsApart
  <2>6. LoadsApart(Loads \o <<result, Jump("jr", NoName)>>)
    BY <2>3, <2>4, <2>5, ApartBefore
  <2>. QED BY <2>1, <2>6
<1>5. CASE EmitCall
  <2>. DEFINE saves == [i \in 1..5 |-> SwStack(Saved[i], 4 * (i - 1))]
              restores == [i \in 1..5 |-> LwStack(Saved[i], 4 * (i - 1))]
              A == {saves[i] : i \in 1..5} \cup {restores[i] : i \in 1..5}
              D == {Stack(-20), Stack(20), Jump("jal", Now.target), Move(X, "v0"), Store}
              N == A \cup D
              begin == <<Stack(-20)>>
              jump == <<Jump("jal", Now.target)>>
              end == <<Stack(20), Move(X, "v0"), Store>>
  <2>1. Handles({"CALL"})
        /\ Emit(begin \o saves \o ArgumentLoads \o jump \o restores \o end)
    BY <1>5 DEF EmitCall
  <2>2. \A i \in 1..5 : Plain(saves[i]) /\ Plain(restores[i]) BY PlainOps
  <2>3. \A e \in D : Plain(e) \/ e = Store BY PlainOps
  <2>4. saves \in Seq(A) /\ restores \in Seq(A) OBVIOUS
  <2>5. begin \in Seq(D) /\ jump \in Seq(D) /\ end \in Seq(D)
    <3>1. /\ Stack(-20) \in D /\ Stack(20) \in D /\ Jump("jal", Now.target) \in D
          /\ Move(X, "v0") \in D /\ Store \in D
      OBVIOUS
    <3>. HIDE DEF D
    <3>. QED BY <3>1, SequencesOver
  <2>6. \A e \in A : Plain(e)
    <3>. HIDE DEF saves, restores
    <3>. QED BY <2>2
  <2>7. \A e \in N : e.op # "lw"
    <3>. HIDE DEF A, D
    <3>. QED BY <2>3, <2>6, NotLoads
  <2>. HIDE DEF saves, restores, A, D, begin, jump, end
  <2>8. /\ saves \in Seq(N) /\ restores \in Seq(N) /\ begin \in Seq(N) /\ jump \in Seq(N)
        /\ end \in Seq(N)
    BY <2>4, <2>5
  <2>. HIDE DEF N
  <2>9. ArgumentLoads \in Seq(Ops) /\ LoadsApart(ArgumentLoads)
    <3>1. Now.kind = "CALL" /\ tac_code \in Nat BY <2>1, HandlesType
    <3>. QED BY <2>1, <3>1, ArgumentLoadsType, ArgumentLoadsApart DEF TypeOK
  <2>. DEFINE a == begin \o saves
              b == a \o ArgumentLoads
              c == b \o jump
              d == c \o restores
  <2>10. a \in Seq(N) BY <2>8, SequencesOver
  <2>. HIDE DEF a
  <2>11. LoadsApart(b) /\ b \in Seq(N \cup Ops) BY <2>7, <2>9, <2>10, ApartBehind, Concatenation
  <2>. HIDE DEF b
  <2>12. LoadsApart(c) /\ c \in Seq((N \cup Ops) \cup N)
    BY <2>7, <2>8, <2>11, ApartBefore, Concatenation
  <2>. HIDE DEF c
  <2>13. LoadsApart(d) /\ d \in Seq(((N \cup Ops) \cup N) \cup N)
    BY <2>7, <2>8, <2>12, ApartBefore, Concatenation
  <2>. HIDE DEF d
  <2>14. LoadsApart(d \o end) BY <2>7, <2>8, <2>13, ApartBefore
  <2>. QED BY <2>1, <2>14 DEF a, b, c, d
<1>6. CASE EmitRead
  <2>. DEFINE call == <<Stack(-4), SwStack("ra", 0), Jump("jal", "read"), LwStack("ra", 0),
                        Stack(4), Move(X, "v0"), Store>>
              S == {Stack(-4), SwStack("ra", 0), Jump("jal", "read"), LwStack("ra", 0),
                    Stack(4), Move(X, "v0"), Store}
  <2>1. \A e \in S : Plain(e) \/ e = Store BY PlainOps
  <2>2. call \in Seq(S) OBVIOUS
  <2>3. Emit(call) BY <1>6 DEF EmitRead
  <2>. HIDE DEF call, S
  <2>. QED BY <1>1, <2>1, <2>2, <2>3
<1>7. CASE EmitWrite
  <2>. DEFINE call == <<Move("t7", "a0"), Move("a0", X), Stack(-4), SwStack("ra", 0),
                        Jump("jal", "write"), LwStack("ra", 0), Stack(4), Move("a0", "t7")>>
              S == {Move("t7", "a0"), Move("a0", X), Stack(-4), SwStack("ra", 0),
                    Jump("jal", "write"), LwStack("ra", 0), Stack(4), Move("a0", "t7")}
  <2>1. \A e \in S : Plain(e) BY PlainOps
  <2>2. call \in Seq(S) OBVIOUS
  <2>3. Emit(call) BY <1>7 DEF EmitWrite
  <2>. HIDE DEF call, S
  <2>. QED BY <1>1, <2>1, <2>2, <2>3
<1>. QED BY <1>2, <1>3, <1>4, <1>5, <1>6, <1>7

-----------------------------------------------------------------------------
(* The registers that RETURN has not given back.                           *)

LEMMA UnrestoredFinite ==
  ASSUME NEW k \in Nat
  PROVE  IsFiniteSet(Unrestored(k)) /\ Cardinality(Unrestored(k)) \in Nat
<1>1. IsFiniteSet(1..k - 1) BY FS_Interval
<1>2. Unrestored(k) \subseteq 1..k - 1 BY DEF Unrestored
<1>. QED BY <1>1, <1>2, FS_Subset, FS_CardinalityType

LEMMA TemporariesFinite ==
  IsFiniteSet(Temporaries) /\ Cardinality(Temporaries) = 3
<1>1. IsFiniteSet({}) /\ Cardinality({}) = 0 BY FS_EmptySet
<1>2. IsFiniteSet({"t0"}) /\ Cardinality({"t0"}) = 1
  <2>1. {"t0"} = {} \cup {"t0"} /\ "t0" \notin {} OBVIOUS
  <2>. QED BY <1>1, <2>1, FS_AddElement
<1>3. IsFiniteSet({"t0", "t1"}) /\ Cardinality({"t0", "t1"}) = 2
  <2>1. {"t0", "t1"} = {"t0"} \cup {"t1"} /\ "t1" \notin {"t0"} OBVIOUS
  <2>. QED BY <1>2, <2>1, FS_AddElement
<1>4. Temporaries = {"t0", "t1"} \cup {"t2"} /\ "t2" \notin {"t0", "t1"} BY DEF Temporaries
<1>. QED BY <1>3, <1>4, FS_AddElement

(* One RETURN of a variable takes one register at most.                    *)
LEMMA ReturnTakes ==
  ASSUME TypeOK, Handles({"RETURN"})
  PROVE  \/ Temporaries \ Grants.free = Temporaries \ available
         \/ /\ IsVariable(Now.r1)
            /\ \E reg : Temporaries \ Grants.free \subseteq (Temporaries \ available) \cup {reg}
<1>. DEFINE R == Requests(Now)
            st0 == [list |-> linklist, free |-> available, offset |-> write_offset,
                    regs |-> <<>>, loads |-> <<>>]
            st1 == Grant(st0, R, 1)
<1>1. /\ ir \in Seq(Code) /\ tac_code \in 1..Len(ir) /\ Asserted /\ Now \in Code
      /\ linklist \in Seq(Entries) /\ available \subseteq Allocatable /\ write_offset \in Nat
      /\ Now.kind = "RETURN"
  BY HandlesType DEF TypeOK, Handles
<1>2. Len(R) = IF IsConstant(Now.r1) THEN 0 ELSE 1 BY <1>1, RequestsLength
<1>3. st0 \in States /\ st0.free = available BY <1>1 DEF States
<1>4. Grants = st1
  <2>1. Len(R) < 2 BY <1>2
  <2>. HIDE DEF R, st0
  <2>. QED BY <2>1 DEF Grants, Granted, Grant, R, st0
<1>5. CASE IsConstant(Now.r1)
  <2>1. st1 = st0 BY <1>2, <1>5 DEF Grant
  <2>. QED BY <1>3, <1>4, <2>1
<1>6. CASE ~ IsConstant(Now.r1)
  <2>1. R = <<ReadOf(Now.r1)>>
    <3>1. IsConstant(Number(0)) BY DEF IsConstant, Number, Opd
    <3>2. R = Sources(Now.r1, Number(0)) BY <1>1 DEF Requests, Branches
    <3>. QED BY <1>6, <3>1, <3>2 DEF Sources
  <2>2. IsVariable(Now.r1) BY <1>1, <2>1 DEF Asserted, ReadOf
  <2>3. \/ st1.free \cap Temporaries = available \cap Temporaries
        \/ \E reg : st1.free = available \ {reg}
    <3>. HIDE DEF R, st0
    <3>1. 1 \in Nat \ {0} OBVIOUS
    <3>2. \/ /\ st1.loads = st0.loads
             /\ st1.free \cap Temporaries = st0.free \cap Temporaries
          \/ \E reg, offset : /\ st1.loads = Append(st0.loads, Lw(reg, offset))
                              /\ st1.free = st0.free \ {reg}
      BY <1>3, <3>1, GrantLoads
    <3>. QED BY <1>3, <3>2
  <2>. HIDE DEF st1
  <2>. QED BY <1>4, <2>2, <2>3
<1>. QED BY <1>5, <1>6

LEMMA TakenStep ==
  ASSUME TypeOK, TakenInv, [Next]_vars
  PROVE  TakenInv'
<1>. DEFINE taken == Temporaries \ available
            new == Temporaries \ available'
            k == tac_code
<1>1. /\ k \in Nat /\ tac_code \in 1..Len(ir) + 1 BY DEF TypeOK
<1>2. /\ IsFiniteSet(taken) /\ Cardinality(taken) \in Nat
      /\ Cardinality(taken) <= Cardinality(Unrestored(k))
  BY TemporariesFinite, FS_Subset, FS_CardinalityType DEF TakenInv
<1>3. /\ IsFiniteSet(Unrestored(k)) /\ Cardinality(Unrestored(k)) \in Nat
      /\ IsFiniteSet(Unrestored(k + 1)) /\ Cardinality(Unrestored(k + 1)) \in Nat
  BY <1>1, UnrestoredFinite
<1>4. ASSUME ir' = ir, tac_code' = k + 1 PROVE TakenInv' <=> Cardinality(new) <= Cardinality(Unrestored(k + 1))
  BY <1>4 DEF TakenInv, Unrestored
<1>5. CASE UNCHANGED <<ir, tac_code, available>> BY <1>5 DEF TakenInv, Unrestored
<1>6. ASSUME ir' = ir, tac_code' = k + 1, available' = Allocatable PROVE TakenInv'
  <2>1. new = {} BY <1>6 DEF Temporaries, Allocatable
  <2>2. Cardinality(new) = 0 BY <2>1, FS_EmptySet
  <2>. QED BY <1>3, <1>4, <1>6, <2>2
<1>7. ASSUME ir[k].kind \in KeepsRegisters PROVE Unrestored(k) \subseteq Unrestored(k + 1)
  BY <1>1, <1>7 DEF Unrestored
<1>8. ASSUME ir' = ir, tac_code' = k + 1, new = taken, ir[k].kind \in KeepsRegisters
      PROVE  TakenInv'
  <2>1. Cardinality(Unrestored(k)) <= Cardinality(Unrestored(k + 1))
    BY <1>3, <1>7, <1>8, FS_Subset
  <2>2. Cardinality(new) <= Cardinality(Unrestored(k + 1))
    BY <1>2, <1>3, <1>8, <2>1
  <2>. QED BY <1>4, <1>8, <2>2
<1>9. CASE \/ EmitAssign \/ EmitAdd \/ EmitSub \/ EmitMul \/ EmitDiv \/ EmitFetch \/ EmitDeref
           \/ EmitBranch \/ EmitCall \/ EmitRead \/ EmitWrite
  BY <1>6, <1>9
  DEF EmitAssign, EmitAdd, EmitSub, EmitMul, EmitDiv, EmitFetch, EmitDeref, EmitBranch,
      EmitCall, EmitRead, EmitWrite, Emit, restore_reg
<1>10. CASE EmitLabel \/ EmitGoto \/ EmitNothing \/ EmitParam
  BY <1>8, <1>10
  DEF EmitLabel, EmitGoto, EmitNothing, EmitParam, Emit, Handles, Now, KeepsRegisters
<1>11. CASE EmitReturn
  <2>1. /\ Handles({"RETURN"}) /\ ir' = ir /\ tac_code' = k + 1 /\ available' = Grants.free
        /\ ir[k].kind = "RETURN"
    BY <1>11 DEF EmitReturn, Emit, Handles, Now
  <2>2. ir[k].kind \in KeepsRegisters BY <2>1 DEF KeepsRegisters
  <2>3. CASE new = taken BY <1>8, <2>1, <2>2, <2>3
  <2>4. CASE new # taken
    <3>1. PICK reg : IsVariable(ir[k].r1) /\ new \subseteq taken \cup {reg}
      BY <2>1, <2>4, ReturnTakes DEF Now
    <3>2. k \in Unrestored(k + 1) BY <1>1, <2>1, <2>2, <3>1 DEF Unrestored
    <3>3. k \notin Unrestored(k) BY <1>1 DEF Unrestored
    <3>4. Unrestored(k) \cup {k} \subseteq Unrestored(k + 1) BY <1>7, <2>2, <3>2
    <3>5. Cardinality(Unrestored(k) \cup {k}) = Cardinality(Unrestored(k)) + 1
      BY <1>3, <3>3, FS_AddElement
    <3>6. Cardinality(Unrestored(k)) + 1 <= Cardinality(Unrestored(k + 1))
      BY <1>3, <3>4, <3>5, FS_Subset
    <3>7. /\ IsFiniteSet(taken \cup {reg})
          /\ Cardinality(taken \cup {reg}) <= Cardinality(taken) + 1
      <4>1. CASE reg \in taken
        <5>1. taken \cup {reg} = taken BY <4>1
        <5>. QED BY <1>2, <5>1
      <4>2. CASE reg \notin taken BY <1>2, <4>2, FS_AddElement
      <4>. QED BY <4>1, <4>2
    <3>8. Cardinality(new) <= Cardinality(taken \cup {reg}) /\ Cardinality(new) \in Nat
      BY <3>1, <3>7, FS_Subset, FS_CardinalityType
    <3>9. Cardinality(new) <= Cardinality(Unrestored(k + 1))
      BY <1>2, <1>3, <3>6, <3>7, <3>8, FS_CardinalityType
    <3>. QED BY <1>4, <2>1, <3>9
  <2>. QED BY <2>3, <2>4
<1>. QED BY <1>5, <1>9, <1>10, <1>11 DEF Next, vars, Abort, Finish

LEMMA ApartStep ==
  ASSUME TypeOK, TakenInv, OperandsApart, [Next]_vars
  PROVE  OperandsApart'
<1>1. /\ code \in Seq(Seq(Ops)) /\ Len(code) = tac_code - 1 /\ tac_code \in Nat \ {0}
  BY DEF TypeOK
<1>2. CASE UNCHANGED <<ir, code>>
  <2>1. \A k : Unrestored(k)' = Unrestored(k) BY <1>2 DEF Unrestored
  <2>. QED BY <1>2, <2>1 DEF OperandsApart
<1>3. ASSUME ir' = ir, NEW ops, code' = Append(code, ops),
             Cardinality(Unrestored(tac_code)) <= 2 => LoadsApart(ops)
      PROVE  OperandsApart'
  <2>1. /\ Len(code') = tac_code /\ code'[tac_code] = ops
        /\ \A k \in 1..Len(code) : code'[k] = code[k]
    BY <1>1, <1>3
  <2>2. \A k : Unrestored(k)' = Unrestored(k) BY <1>3 DEF Unrestored
  <2>3. SUFFICES ASSUME NEW k \in 1..tac_code, NEW i \in 1..Len(code'[k]),
                        NEW j \in 1..Len(code'[k]), Cardinality(Unrestored(k)) <= 2,
                        code'[k][i].op = "lw", code'[k][j].op = "lw",
                        code'[k][i].rd = code'[k][j].rd
                 PROVE  i = j
    BY <1>3, <2>1, <2>2 DEF OperandsApart
  <2>4. CASE k \in 1..Len(code) BY <2>1, <2>3, <2>4 DEF OperandsApart
  <2>5. CASE k = tac_code BY <1>3, <2>1, <2>3, <2>5 DEF LoadsApart
  <2>. QED BY <1>1, <2>4, <2>5
<1>4. CASE EmitParam
  <2>1. ir' = ir /\ code' = Append(code, <<>>) BY <1>4 DEF EmitParam
  <2>2. LoadsApart(<<>>) BY DEF LoadsApart
  <2>. QED BY <1>3, <2>1, <2>2
<1>5. CASE HandlesNoParam
  <2>1. ir' = ir /\ code' = Append(code, code'[tac_code]) BY <1>5 DEF HandlesNoParam
  <2>2. ASSUME Cardinality(Unrestored(tac_code)) <= 2
        PROVE  LoadsApart(code'[tac_code])
    <3>1. available \cap Temporaries # {}
      <4>1. SUFFICES ASSUME available \cap Temporaries = {} PROVE FALSE OBVIOUS
      <4>2. Temporaries \ available = Temporaries BY <4>1
      <4>3. Cardinality(Unrestored(tac_code)) \in Nat BY <1>1, UnrestoredFinite
      <4>. QED BY <2>2, <4>2, <4>3, TemporariesFinite DEF TakenInv
    <3>2. PICK ops : Emit(ops) /\ LoadsApart(ops)
      <4>1. ~ EmitParam /\ ~ Abort /\ ~ Finish /\ ~ UNCHANGED vars
        BY <1>1, <1>5 DEF HandlesNoParam, EmitParam, Handles, Abort, Finish, vars
      <4>. QED BY <2>2, <3>1, <4>1, ArithmeticApart, OtherApart DEF Next
    <3>3. code'[tac_code] = ops BY <1>1, <3>2 DEF Emit
    <3>. QED BY <3>2, <3>3
  <2>. QED BY <1>3, <2>1, <2>2
<1>. QED BY <1>2, <1>4, <1>5, HandlerStep DEF Abort, Finish, vars

(* A loaded operand is still in its register when it is used: between the  *)
(* handlers that call restore_reg no more registers are taken than RETURNs *)
(* have passed.                                                            *)
THEOREM OperandsAreApart == Spec => []OperandsApart
<1>1. Init => TakenInv /\ OperandsApart
  <2>. SUFFICES ASSUME Init PROVE TakenInv /\ OperandsApart OBVIOUS
  <2>1. Temporaries \ available = {} /\ tac_code \in Nat
    BY DEF Init, Temporaries, Allocatable
  <2>2. Cardinality({}) = 0 BY FS_EmptySet
  <2>3. Cardinality(Unrestored(tac_code)) \in Nat BY <2>1, UnrestoredFinite
  <2>4. TakenInv BY <2>1, <2>2, <2>3 DEF TakenInv
  <2>5. Len(code) = 0 BY DEF Init
  <2>. QED BY <2>4, <2>5 DEF OperandsApart
<1>2. TypeOK /\ TakenInv /\ OperandsApart /\ [Next]_vars => TakenInv' /\ OperandsApart'
  BY TakenStep, ApartStep
<1>. QED BY <1>1, <1>2, TypeCorrect, PTL DEF Spec

=============================================================================
