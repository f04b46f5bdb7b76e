------------------------------ MODULE CodeProofs ------------------------------
(***************************************************************************)
(* The code the back end emits for each instruction of a program of the    *)
(* compiler, whatever the program.                                         *)
(***************************************************************************)
EXTENDS BackEndProofs, FiniteSetTheorems

(* list2 has what list1 has, where list1 has it.                           *)
Extends(list1, list2) ==
  /\ Len(list1) <= Len(list2)
  /\ \A i \in 1..Len(list1) : list2[i] = list1[i]

-----------------------------------------------------------------------------
(* The list of variables, as in EmitterProofs.                             *)

LEMMA InsertLastType ==
  ASSUME NEW list \in Seq(E!Entries), NEW name \in Texts
  PROVE  /\ E!insertLast(list, name) \in Seq(E!Entries)
         /\ Len(E!insertLast(list, name)) = Len(list) + 1
         /\ E!insertLast(list, name)[Len(list) + 1].key = name
         /\ \A i \in 1..Len(list) : E!insertLast(list, name)[i] = list[i]
<1> DEFINE offset == IF list = <<>> THEN 0 ELSE list[Len(list)].arrayOffset + 4
           e == [key |-> name, arrayOffset |-> offset]
<1>1. offset \in Nat
  <2>1. CASE list = <<>> BY <2>1
  <2>2. CASE list # <<>>
    <3>1. Len(list) \in 1..Len(list) BY <2>2
    <3>2. list[Len(list)] \in E!Entries BY <3>1
    <3> QED BY <2>2, <3>2 DEF E!Entries
  <2> QED BY <2>1, <2>2
<1>2. e \in E!Entries BY <1>1 DEF E!Entries
<1>3. E!insertLast(list, name) = Append(list, e) BY DEF E!insertLast
<1> HIDE DEF e
<1>4. e.key = name BY DEF e
<1> QED BY <1>2, <1>3, <1>4

LEMMA EnteredType ==
  ASSUME NEW list \in Seq(E!Entries), NEW name \in Texts
  PROVE  /\ E!Entered(list, name) \in Seq(E!Entries)
         /\ E!Has(E!Entered(list, name), name)
         /\ Extends(list, E!Entered(list, name))
<1>1. CASE E!Has(list, name) BY <1>1 DEF E!Entered, Extends
<1>2. CASE ~ E!Has(list, name)
  <2>1. E!Entered(list, name) = E!insertLast(list, name) BY <1>2 DEF E!Entered
  <2> DEFINE new == E!insertLast(list, name)
  <2>2. /\ new \in Seq(E!Entries) /\ Len(new) = Len(list) + 1
        /\ new[Len(list) + 1].key = name
        /\ \A i \in 1..Len(list) : new[i] = list[i]
    BY InsertLastType
  <2> HIDE DEF new
  <2>3. E!Has(new, name) BY <2>2 DEF E!Has
  <2>4. Extends(list, new) BY <2>2 DEF Extends
  <2> QED BY <2>1, <2>2, <2>3, <2>4 DEF new
<1> QED BY <1>1, <1>2

LEMMA FoundHasKey ==
  ASSUME NEW list, NEW name, E!Has(list, name)
  PROVE  \E i \in 1..Len(list) :
           list[i].key = name /\ E!Found(list, name) = list[i]
BY DEF E!Has, E!Found

LEMMA OffsetType ==
  ASSUME NEW list \in Seq(E!Entries), NEW name
  PROVE  /\ E!findOffset(list, name) \in Int
         /\ E!Has(list, name) => E!findOffset(list, name) \in Nat
<1>1. CASE E!Has(list, name)
  <2>1. PICK i \in 1..Len(list) : E!Found(list, name) = list[i]
    BY <1>1, FoundHasKey
  <2>2. E!Found(list, name) \in E!Entries BY <2>1
  <2> QED BY <1>1, <2>2 DEF E!findOffset, E!Entries
<1>2. CASE ~ E!Has(list, name) BY <1>2 DEF E!findOffset
<1> QED BY <1>1, <1>2

(* E!insertLast gives a new variable the next word.                          *)
LEMMA EnteredDistinct ==
  ASSUME NEW list \in Seq(E!Entries), NEW name \in Texts, E!Distinct(list)
  PROVE  E!Distinct(E!Entered(list, name))
<1>1. CASE E!Has(list, name) BY <1>1 DEF E!Entered
<1>2. CASE ~ E!Has(list, name)
  <2> DEFINE new == E!insertLast(list, name)
             n == Len(list)
  <2>1. n \in Nat OBVIOUS
  <2>2. /\ Len(new) = n + 1
        /\ new[n + 1].key = name
        /\ \A i \in 1..n : new[i] = list[i]
    BY InsertLastType
  <2>3. new[n + 1].arrayOffset = 4 * n
    <3>1. new[n + 1] = [key |-> name,
                        arrayOffset |-> IF list = <<>> THEN 0
                                        ELSE list[n].arrayOffset + 4]
      BY DEF E!insertLast
    <3>2. CASE list = <<>> BY <3>1, <3>2
    <3>3. CASE list # <<>>
      <4>1. n \in 1..n BY <3>3
      <4>2. list[n].arrayOffset = 4 * (n - 1) BY <4>1 DEF E!Distinct
      <4> QED BY <3>1, <3>3, <4>2, <2>1
    <3> QED BY <3>2, <3>3
  <2>4. ASSUME NEW i \in 1..Len(new), NEW j \in 1..Len(new)
        PROVE  /\ new[i].arrayOffset = 4 * (i - 1)
               /\ new[i].key = new[j].key => i = j
    <3>1. new[i].arrayOffset = 4 * (i - 1)
      <4>1. CASE i \in 1..n BY <4>1, <2>2 DEF E!Distinct
      <4>2. CASE i = n + 1 BY <4>2, <2>3, <2>1
      <4> QED BY <4>1, <4>2, <2>2, <2>1
    <3>2. ASSUME new[i].key = new[j].key PROVE i = j
      <4>1. \A k \in 1..n : list[k].key # name BY <1>2 DEF E!Has
      <4>2. CASE i \in 1..n /\ j \in 1..n BY <4>2, <3>2, <2>2 DEF E!Distinct
      <4>3. CASE i = n + 1 /\ j \in 1..n BY <4>3, <3>2, <2>2, <4>1
      <4>4. CASE i \in 1..n /\ j = n + 1 BY <4>4, <3>2, <2>2, <4>1
      <4>5. CASE i = n + 1 /\ j = n + 1 BY <4>5
      <4> QED BY <4>2, <4>3, <4>4, <4>5, <2>2, <2>1
    <3> QED BY <3>1, <3>2
  <2>5. E!Distinct(new) BY <2>4 DEF E!Distinct
  <2> QED BY <1>2, <2>5 DEF E!Entered
<1> QED BY <1>1, <1>2

LEMMA ExtendsTransitive ==
  ASSUME NEW a \in Seq(E!Entries), NEW b \in Seq(E!Entries), NEW c \in Seq(E!Entries),
         Extends(a, b), Extends(b, c)
  PROVE  Extends(a, c)
BY DEF Extends

(* What the list has stays at its offset when the list is extended.        *)
LEMMA ExtensionKeepsOffsets ==
  ASSUME NEW a \in Seq(E!Entries), NEW b \in Seq(E!Entries), NEW name,
         Extends(a, b), E!Distinct(b), E!Has(a, name)
  PROVE  E!findOffset(b, name) = E!findOffset(a, name)
<1>1. PICK i \in 1..Len(a) : a[i].key = name /\ E!Found(a, name) = a[i]
  BY FoundHasKey
<1>2. i \in 1..Len(b) /\ b[i] = a[i] BY DEF Extends
<1>3. E!Has(b, name) BY <1>1, <1>2 DEF E!Has
<1>4. PICK j \in 1..Len(b) : b[j].key = name /\ E!Found(b, name) = b[j]
  BY <1>3, FoundHasKey
<1>5. i = j BY <1>1, <1>2, <1>4 DEF E!Distinct
<1> QED BY <1>1, <1>2, <1>3, <1>4, <1>5 DEF E!findOffset

-----------------------------------------------------------------------------
(* What get_register and get_register_w give.                              *)

Loaders == {"t0", "t1", "t2", "t3"}
LoadOps == {E!Lw(r, offset) : r \in Loaders, offset \in Int}

(* At most two loads, to different registers.                              *)
Loading(loads) ==
  /\ loads \in Seq(LoadOps) /\ Len(loads) <= 2
  /\ \A i, j \in 1..Len(loads) : loads[i].rd = loads[j].rd => i = j

(* The variable of text name is in register r, loaded if it has to be.     *)
Took(list, loads, name, r) ==
  IF E!Has(a0_a3_list, name)
  THEN r = E!ArgumentRegister(E!Found(a0_a3_list, name).aRegister)
  ELSE /\ E!Has(list, name)
       /\ \E i \in 1..Len(loads) : loads[i] = E!Lw(r, E!findOffset(list, name))

Given(list, free, offset, regs, loads) ==
  [list |-> list, free |-> free, offset |-> offset, regs |-> regs, loads |-> loads]

LEMMA WriteGiven ==
  ASSUME NEW list, NEW free, NEW offset, NEW regs, NEW loads, NEW name, "s0" \in free
  PROVE  E!get_register_w(Given(list, free, offset, regs, loads), name)
           = Given(E!Entered(list, name), free \ {"s0"},
                   E!findOffset(E!Entered(list, name), name), Append(regs, "s0"), loads)
<1> DEFINE list2 == E!Entered(list, name)
           st == Given(list, free, offset, regs, loads)
<1>1. E!FirstFree(free, "s0", "s1", "s2", "s3") = "s0" BY DEF E!FirstFree
<1>2. st.list = list /\ st.free = free BY DEF Given
<1> HIDE DEF st
<1>3. E!get_register_w(st, name) =
        [st EXCEPT !.list = list2, !.free = @ \ {"s0"}, !.offset = E!findOffset(list2, name),
                   !.regs = Append(@, "s0")]
  BY <1>1, <1>2 DEF E!get_register_w
<1> HIDE DEF list2
<1>4. E!get_register_w(st, name)
        = Given(list2, free \ {"s0"}, E!findOffset(list2, name), Append(regs, "s0"), loads)
  BY <1>3 DEF Given, st
<1> QED BY <1>4 DEF list2, st

(* What get_register does to its state.                                    *)
InPlace(name) == E!Has(a0_a3_list, name)
FirstOf(free) == E!FirstFree(free, "t0", "t1", "t2", "t3")

ListOf(list, name) == IF InPlace(name) THEN list ELSE E!Entered(list, name)
FreeOf(free, name) == IF InPlace(name) THEN free ELSE free \ {FirstOf(free)}
RegisterOf(free, name) ==
  IF InPlace(name) THEN E!ArgumentRegister(E!Found(a0_a3_list, name).aRegister)
  ELSE FirstOf(free)
LoadsOf(list, free, loads, name) ==
  IF InPlace(name) THEN loads
  ELSE Append(loads, E!Lw(FirstOf(free), E!findOffset(E!Entered(list, name), name)))

LEMMA ReadGiven ==
  ASSUME NEW list, NEW free, NEW offset, NEW regs, NEW loads, NEW name
  PROVE  E!get_register(Given(list, free, offset, regs, loads), name)
           = Given(ListOf(list, name), FreeOf(free, name), offset,
                   Append(regs, RegisterOf(free, name)), LoadsOf(list, free, loads, name))
<1> DEFINE first == E!FirstFree(free, "t0", "t1", "t2", "t3")
           list2 == E!Entered(list, name)
           a == E!ArgumentRegister(E!Found(a0_a3_list, name).aRegister)
           lw == E!Lw(first, E!findOffset(list2, name))
           st == Given(list, free, offset, regs, loads)
<1>0. st.list = list /\ st.free = free BY DEF Given
<1> HIDE DEF st
<1>1. E!get_register(st, name) =
        IF E!Has(a0_a3_list, name)
        THEN [st EXCEPT !.regs = Append(@, a)]
        ELSE [st EXCEPT !.list = list2, !.free = @ \ {first}, !.regs = Append(@, first),
                     !.loads = Append(@, lw)]
  BY <1>0 DEF E!get_register
<1> HIDE DEF first, list2, a, lw
<1>2. E!get_register(st, name) =
        IF E!Has(a0_a3_list, name)
        THEN Given(list, free, offset, Append(regs, a), loads)
        ELSE Given(list2, free \ {first}, offset, Append(regs, first), Append(loads, lw))
  BY <1>1 DEF Given, st
<1>3. CASE InPlace(name)
  BY <1>2, <1>3 DEF InPlace, ListOf, FreeOf, RegisterOf, LoadsOf, a, st
<1>4. CASE ~ InPlace(name)
  BY <1>2, <1>4 DEF InPlace, ListOf, FreeOf, RegisterOf, LoadsOf, FirstOf, list2, first, lw, st
<1> QED BY <1>3, <1>4

(* One read: free has a register of get_register's own, or no load is in   *)
(* front.                                                                  *)
LEMMA ReadTakes ==
  ASSUME NEW list \in Seq(E!Entries), E!Distinct(list), NEW free,
         NEW loads, Loading(loads), Len(loads) <= 1, NEW name \in Texts,
         \A i \in 1..Len(loads) : loads[i].rd \notin free \cup {"t3"}
  PROVE  /\ ListOf(list, name) \in Seq(E!Entries) /\ E!Distinct(ListOf(list, name))
         /\ Extends(list, ListOf(list, name))
         /\ Loading(LoadsOf(list, free, loads, name))
         /\ Took(ListOf(list, name), LoadsOf(list, free, loads, name), name,
                 RegisterOf(free, name))
         /\ Len(loads) <= Len(LoadsOf(list, free, loads, name))
         /\ \A i \in 1..Len(loads) : LoadsOf(list, free, loads, name)[i] = loads[i]
<1>1. CASE InPlace(name)
  <2>1. Took(list, loads, name, RegisterOf(free, name))
    BY <1>1 DEF Took, RegisterOf, InPlace
  <2>2. Extends(list, list) BY DEF Extends
  <2>3. Len(loads) \in Nat BY DEF Loading
  <2> QED BY <1>1, <2>1, <2>2, <2>3 DEF ListOf, LoadsOf
<1>2. CASE ~ InPlace(name)
  <2> DEFINE first == FirstOf(free)
             list2 == E!Entered(list, name)
             lw == E!Lw(first, E!findOffset(list2, name)) loads2 == Append(loads, lw)
  <2>1. /\ ListOf(list, name) = list2 /\ LoadsOf(list, free, loads, name) = loads2
        /\ RegisterOf(free, name) = first
    BY <1>2 DEF ListOf, LoadsOf, RegisterOf
  <2>2. /\ list2 \in Seq(E!Entries) /\ E!Has(list2, name) /\ Extends(list, list2)
        /\ E!Distinct(list2)
    BY EnteredType, EnteredDistinct
  <2>3. first \in Loaders /\ (first \in free \/ first = "t3")
    BY DEF FirstOf, E!FirstFree, Loaders
  <2>4. lw \in LoadOps /\ lw.rd = first BY <2>2, <2>3, OffsetType DEF LoadOps, E!Lw, E!Op
  <2> HIDE DEF lw, first, list2
  <2>5. Len(loads) \in Nat /\ loads \in Seq(LoadOps) BY DEF Loading
  <2>6. /\ loads2 \in Seq(LoadOps) /\ Len(loads2) = Len(loads) + 1
        /\ \A i \in 1..Len(loads) : loads2[i] = loads[i]
        /\ loads2[Len(loads) + 1] = lw
    BY <2>4, <2>5
  <2> HIDE DEF loads2
  <2>7. Loading(loads2)
    <3>1. \A i \in 1..Len(loads) : loads[i].rd # first BY <2>3
    <3>2. ASSUME NEW i \in 1..Len(loads2), NEW j \in 1..Len(loads2),
                 loads2[i].rd = loads2[j].rd
          PROVE  i = j
      BY <2>4, <2>5, <2>6, <3>1, <3>2 DEF Loading
    <3> QED BY <2>5, <2>6, <3>2 DEF Loading
  <2>8. Took(list2, loads2, name, first)
    <3>1. Len(loads2) \in 1..Len(loads2) /\ loads2[Len(loads2)] = lw BY <2>5, <2>6
    <3> QED BY <1>2, <2>2, <3>1 DEF Took, lw, InPlace
  <2> QED BY <2>1, <2>2, <2>5, <2>6, <2>7, <2>8
<1> QED BY <1>1, <1>2

LEMMA TookKept ==
  ASSUME NEW list \in Seq(E!Entries), NEW list2 \in Seq(E!Entries), Extends(list, list2),
         E!Distinct(list2), NEW loads \in Seq(LoadOps), NEW loads2 \in Seq(LoadOps),
         Len(loads) <= Len(loads2), \A i \in 1..Len(loads) : loads2[i] = loads[i],
         NEW name, NEW r, Took(list, loads, name, r)
  PROVE  Took(list2, loads2, name, r)
<1>1. CASE E!Has(a0_a3_list, name) BY <1>1 DEF Took
<1>2. CASE ~ E!Has(a0_a3_list, name)
  <2>1. PICK i \in 1..Len(loads) : loads[i] = E!Lw(r, E!findOffset(list, name))
    BY <1>2 DEF Took
  <2>2. E!Has(list, name) BY <1>2 DEF Took
  <2>3. E!findOffset(list2, name) = E!findOffset(list, name)
    BY <2>2, ExtensionKeepsOffsets
  <2>4. E!Has(list2, name) BY <2>2 DEF E!Has, Extends
  <2>5. i \in 1..Len(loads2) /\ loads2[i] = E!Lw(r, E!findOffset(list2, name))
    BY <2>1, <2>3
  <2> QED BY <1>2, <2>4, <2>5 DEF Took
<1> QED BY <1>1, <1>2

(* The first and the second register of a handler that reads.              *)
LEMMA OneRead ==
  ASSUME NEW list \in Seq(E!Entries), E!Distinct(list), NEW free, "t2" \in free,
         NEW x \in Texts
  PROVE  LET list2 == ListOf(list, x) loads == LoadsOf(list, free, <<>>, x)
         IN /\ list2 \in Seq(E!Entries) /\ E!Distinct(list2) /\ Extends(list, list2)
            /\ Loading(loads) /\ Len(loads) <= 1
            /\ \A i \in 1..Len(loads) : loads[i].rd \notin FreeOf(free, x) \cup {"t3"}
            /\ Took(list2, loads, x, RegisterOf(free, x))
<1> DEFINE list2 == ListOf(list, x) loads == LoadsOf(list, free, <<>>, x)
<1>1. /\ Loading(<<>>) /\ Len(<<>>) <= 1
      /\ \A i \in 1..Len(<<>>) : <<>>[i].rd \notin free \cup {"t3"}
  BY DEF Loading
<1>2. /\ list2 \in Seq(E!Entries) /\ E!Distinct(list2) /\ Extends(list, list2)
      /\ Loading(loads) /\ Took(list2, loads, x, RegisterOf(free, x))
  BY <1>1, ReadTakes
<1>3. Len(loads) <= 1 /\ \A i \in 1..Len(loads) : loads[i].rd \notin FreeOf(free, x) \cup {"t3"}
  <2>1. CASE InPlace(x)
    <3>1. loads = <<>> BY <2>1 DEF LoadsOf
    <3> HIDE DEF loads
    <3> QED BY <3>1
  <2>2. CASE ~ InPlace(x)
    <3> DEFINE lw == E!Lw(FirstOf(free), E!findOffset(E!Entered(list, x), x))
    <3>1. FirstOf(free) \in free /\ FirstOf(free) # "t3" BY DEF FirstOf, E!FirstFree
    <3>2. loads = <<lw>> BY <2>2 DEF LoadsOf
    <3>3. lw.rd = FirstOf(free) BY DEF E!Lw, E!Op
    <3>4. FreeOf(free, x) = free \ {FirstOf(free)} BY <2>2 DEF FreeOf
    <3> HIDE DEF loads, lw
    <3> QED BY <3>1, <3>2, <3>3, <3>4
  <2> QED BY <2>1, <2>2
<1> QED BY <1>2, <1>3

LEMMA BothReads ==
  ASSUME NEW list \in Seq(E!Entries), E!Distinct(list), NEW free, "t2" \in free,
         NEW x \in Texts, NEW y \in Texts
  PROVE  LET list1 == ListOf(list, x) loads1 == LoadsOf(list, free, <<>>, x)
             free1 == FreeOf(free, x)
             list2 == ListOf(list1, y) loads2 == LoadsOf(list1, free1, loads1, y)
         IN /\ list2 \in Seq(E!Entries) /\ E!Distinct(list2) /\ Extends(list, list2)
            /\ Loading(loads2)
            /\ Took(list2, loads2, x, RegisterOf(free, x))
            /\ Took(list2, loads2, y, RegisterOf(free1, y))
<1> DEFINE list1 == ListOf(list, x) loads1 == LoadsOf(list, free, <<>>, x)
           free1 == FreeOf(free, x)
           list2 == ListOf(list1, y) loads2 == LoadsOf(list1, free1, loads1, y)
<1>1. /\ list1 \in Seq(E!Entries) /\ E!Distinct(list1) /\ Extends(list, list1)
      /\ Loading(loads1) /\ Len(loads1) <= 1
      /\ \A i \in 1..Len(loads1) : loads1[i].rd \notin free1 \cup {"t3"}
      /\ Took(list1, loads1, x, RegisterOf(free, x))
  BY OneRead
<1> HIDE DEF list1, loads1, free1
<1>2. /\ list2 \in Seq(E!Entries) /\ E!Distinct(list2) /\ Extends(list1, list2)
      /\ Loading(loads2) /\ Took(list2, loads2, y, RegisterOf(free1, y))
      /\ Len(loads1) <= Len(loads2) /\ \A i \in 1..Len(loads1) : loads2[i] = loads1[i]
  BY <1>1, ReadTakes
<1> HIDE DEF list2, loads2
<1>3. loads1 \in Seq(LoadOps) /\ loads2 \in Seq(LoadOps) BY <1>1, <1>2 DEF Loading
<1>4. Took(list2, loads2, x, RegisterOf(free, x))
  BY <1>1, <1>2, <1>3, TookKept
<1>5. Extends(list, list2) BY <1>1, <1>2, ExtendsTransitive
<1> QED BY <1>2, <1>4, <1>5 DEF list1, loads1, free1, list2, loads2

-----------------------------------------------------------------------------
(* What the requests of a handler give.                                    *)

Lists(G) == G.list \in Seq(E!Entries) /\ E!Distinct(G.list) /\ Extends(linklist, G.list)

Writes(G, name) ==
  /\ E!Has(G.list, name) /\ G.offset = E!findOffset(G.list, name)
  /\ G.regs[1] = "s0"

Listed == linklist \in Seq(E!Entries) /\ E!Distinct(linklist)

LEMMA GivenFields ==
  ASSUME NEW list, NEW free, NEW offset, NEW regs, NEW loads
  PROVE  LET G == Given(list, free, offset, regs, loads)
         IN /\ G.list = list /\ G.free = free /\ G.offset = offset /\ G.regs = regs
            /\ G.loads = loads
BY DEF Given

LEMMA RequestModes ==
  ASSUME NEW v
  PROVE  /\ E!ReadOf(v).mode = "r" /\ E!ReadOf(v).opd = v
         /\ E!WriteOf(v).mode = "w" /\ E!WriteOf(v).opd = v
BY DEF E!ReadOf, E!WriteOf

LEMMA GrantSteps ==
  ASSUME NEW st, NEW requests, NEW i \in 1..3
  PROVE  /\ Len(requests) < i => E!Grant(st, requests, i) = st
         /\ Len(requests) \in Nat /\ i <= Len(requests) =>
              E!Grant(st, requests, i) =
                IF requests[i].mode = "w" THEN E!get_register_w(st, requests[i].opd.name)
                ELSE E!get_register(st, requests[i].opd.name)
BY DEF E!Grant

Start0 == Given(linklist, available, write_offset, <<>>, <<>>)

LEMMA GrantedIs ==
  ASSUME NEW requests
  PROVE  E!Granted(requests)
           = E!Grant(E!Grant(E!Grant(Start0, requests, 1), requests, 2), requests, 3)
BY DEF E!Granted, Start0, Given

LEMMA GrantedForms ==
  ASSUME NEW v, NEW x, NEW y
  PROVE  /\ E!Granted(<<E!WriteOf(v)>>) = E!get_register_w(Start0, v.name)
         /\ E!Granted(<<E!WriteOf(v), E!ReadOf(x)>>)
              = E!get_register(E!get_register_w(Start0, v.name), x.name)
         /\ E!Granted(<<E!ReadOf(x)>>) = E!get_register(Start0, x.name)
         /\ E!Granted(<<E!ReadOf(x), E!ReadOf(y)>>)
              = E!get_register(E!get_register(Start0, x.name), y.name)
         /\ E!Granted(<<>>) = Start0
<1> DEFINE wv == E!WriteOf(v) rx == E!ReadOf(x) ry == E!ReadOf(y) S == Start0
           W(st) == E!get_register_w(st, v.name)
           R(st) == E!get_register(st, x.name) Q(st) == E!get_register(st, y.name)
<1>1. wv.mode = "w" /\ wv.opd = v /\ rx.mode = "r" /\ rx.opd = x /\ ry.mode = "r" /\ ry.opd = y
  BY RequestModes
<1> HIDE DEF wv, rx, ry, S
<1>2. ASSUME NEW st
      PROVE  /\ E!Grant(st, <<>>, 1) = st /\ E!Grant(st, <<>>, 2) = st /\ E!Grant(st, <<>>, 3) = st
             /\ E!Grant(st, <<wv>>, 1) = W(st) /\ E!Grant(st, <<wv>>, 2) = st
             /\ E!Grant(st, <<wv>>, 3) = st
             /\ E!Grant(st, <<wv, rx>>, 1) = W(st) /\ E!Grant(st, <<wv, rx>>, 2) = R(st)
             /\ E!Grant(st, <<wv, rx>>, 3) = st
  BY <1>1, GrantSteps DEF E!Grant
<1>3. ASSUME NEW st
      PROVE  /\ E!Grant(st, <<wv, rx, ry>>, 1) = W(st) /\ E!Grant(st, <<wv, rx, ry>>, 2) = R(st)
             /\ E!Grant(st, <<wv, rx, ry>>, 3) = Q(st)
             /\ E!Grant(st, <<rx>>, 1) = R(st)
             /\ E!Grant(st, <<rx>>, 2) = st /\ E!Grant(st, <<rx>>, 3) = st
             /\ E!Grant(st, <<rx, ry>>, 1) = R(st) /\ E!Grant(st, <<rx, ry>>, 2) = Q(st)
             /\ E!Grant(st, <<rx, ry>>, 3) = st
  BY <1>1, GrantSteps DEF E!Grant
<1>4. \A requests : E!Granted(requests)
           = E!Grant(E!Grant(E!Grant(S, requests, 1), requests, 2), requests, 3)
  BY GrantedIs DEF S
<1> HIDE DEF W, R, Q
<1>5. /\ E!Granted(<<wv>>) = W(S)
      /\ E!Granted(<<wv, rx>>) = R(W(S))
  <2>1. E!Granted(<<wv>>) = W(S) BY <1>2, <1>4
  <2>2. E!Granted(<<wv, rx>>) = R(W(S)) BY <1>2, <1>4
  <2> QED BY <2>1, <2>2
<1>6. /\ E!Granted(<<rx>>) = R(S) /\ E!Granted(<<rx, ry>>) = Q(R(S)) /\ E!Granted(<<>>) = S
  <2>1. E!Granted(<<rx>>) = R(S) BY <1>3, <1>4
  <2>2. E!Granted(<<rx, ry>>) = Q(R(S)) BY <1>3, <1>4
  <2>3. E!Granted(<<>>) = S BY <1>2, <1>4
  <2> QED BY <2>1, <2>2, <2>3
<1> QED BY <1>5, <1>6 DEF W, R, Q, wv, rx, ry, S

LEMMA GrantedThree ==
  ASSUME NEW v, NEW x, NEW y
  PROVE  E!Granted(<<E!WriteOf(v), E!ReadOf(x), E!ReadOf(y)>>)
           = E!get_register(E!get_register(E!get_register_w(Start0, v.name), x.name), y.name)
<1> DEFINE wv == E!WriteOf(v) rx == E!ReadOf(x) ry == E!ReadOf(y) S == Start0
           requests == <<wv, rx, ry>>
           s1 == E!get_register_w(S, v.name) s2 == E!get_register(s1, x.name)
           s3 == E!get_register(s2, y.name)
<1>1. wv.mode = "w" /\ wv.opd = v /\ rx.mode = "r" /\ rx.opd = x /\ ry.mode = "r" /\ ry.opd = y
  BY RequestModes
<1> HIDE DEF wv, rx, ry, S
<1>2. /\ Len(requests) = 3 /\ requests[1] = wv /\ requests[2] = rx /\ requests[3] = ry
  OBVIOUS
<1> HIDE DEF requests
<1>3. /\ E!Grant(S, requests, 1) = s1 /\ E!Grant(s1, requests, 2) = s2
      /\ E!Grant(s2, requests, 3) = s3
  BY <1>1, <1>2 DEF E!Grant
<1> HIDE DEF s1, s2, s3
<1>4. E!Granted(requests)
        = E!Grant(E!Grant(E!Grant(S, requests, 1), requests, 2), requests, 3)
  BY GrantedIs DEF S
<1>5. E!Granted(requests) = s3 BY <1>3, <1>4
<1> QED BY <1>5 DEF s3, s2, s1, S, requests, wv, rx, ry

LEMMA Appended ==
  ASSUME NEW a, NEW b, NEW c
  PROVE  /\ Append(<<>>, a)[1] = a
         /\ Append(Append(<<>>, a), b)[1] = a /\ Append(Append(<<>>, a), b)[2] = b
         /\ Len(Append(Append(<<>>, a), b)) = 2
         /\ Append(Append(Append(<<>>, a), b), c)[1] = a
         /\ Append(Append(Append(<<>>, a), b), c)[2] = b
         /\ Append(Append(Append(<<>>, a), b), c)[3] = c
<1>1. <<>> \in Seq({a, b, c}) OBVIOUS
<1>2. Append(<<>>, a) \in Seq({a, b, c}) /\ Len(Append(<<>>, a)) = 1 BY <1>1
<1>3. Append(Append(<<>>, a), b) \in Seq({a, b, c}) /\ Len(Append(Append(<<>>, a), b)) = 2
  BY <1>2
<1>4. Append(<<>>, a)[1] = a OBVIOUS
<1>5. Append(Append(<<>>, a), b)[1] = a /\ Append(Append(<<>>, a), b)[2] = b
  BY <1>2, <1>4
<1> QED BY <1>3, <1>4, <1>5

(* The list and the offset behind a write request.                         *)
LEMMA WriteFirst ==
  ASSUME Listed, "s0" \in available, NEW name \in Texts
  PROVE  LET list == E!Entered(linklist, name)
         IN /\ E!get_register_w(Start0, name)
                 = Given(list, available \ {"s0"}, E!findOffset(list, name),
                         Append(<<>>, "s0"), <<>>)
            /\ list \in Seq(E!Entries) /\ E!Distinct(list) /\ Extends(linklist, list)
            /\ E!Has(list, name)
<1> DEFINE list == E!Entered(linklist, name)
<1>1. list \in Seq(E!Entries) /\ E!Distinct(list) /\ Extends(linklist, list) /\ E!Has(list, name)
  BY EnteredType, EnteredDistinct DEF Listed
<1> DEFINE none == <<>>
<1> HIDE DEF none
<1>2. E!get_register_w(Given(linklist, available, write_offset, none, none), name)
        = Given(list, available \ {"s0"}, E!findOffset(list, name), Append(none, "s0"), none)
  BY WriteGiven
<1>3. E!get_register_w(Start0, name)
        = Given(list, available \ {"s0"}, E!findOffset(list, name), Append(<<>>, "s0"), <<>>)
  BY <1>2 DEF Start0, none
<1> QED BY <1>1, <1>3

LEMMA ReadFirst ==
  ASSUME NEW name
  PROVE  E!get_register(Start0, name)
           = Given(ListOf(linklist, name), FreeOf(available, name), write_offset,
                   Append(<<>>, RegisterOf(available, name)),
                   LoadsOf(linklist, available, <<>>, name))
<1> DEFINE none == <<>>
<1> HIDE DEF none
<1>1. E!get_register(Given(linklist, available, write_offset, none, none), name)
        = Given(ListOf(linklist, name), FreeOf(available, name), write_offset,
                Append(none, RegisterOf(available, name)),
                LoadsOf(linklist, available, none, name))
  BY ReadGiven
<1> QED BY <1>1 DEF Start0, none

LEMMA GrantedW ==
  ASSUME Listed, "s0" \in available, NEW v, v.name \in Texts
  PROVE  LET G == E!Granted(<<E!WriteOf(v)>>)
         IN Lists(G) /\ Writes(G, v.name) /\ G.loads = <<>>
<1> DEFINE list == E!Entered(linklist, v.name)
           regs == Append(<<>>, "s0")
           G == Given(list, available \ {"s0"}, E!findOffset(list, v.name), regs, <<>>)
<1>1. E!Granted(<<E!WriteOf(v)>>) = G BY GrantedForms, WriteFirst
<1>a. regs[1] = "s0" BY Appended
<1> HIDE DEF regs
<1>2. /\ list \in Seq(E!Entries) /\ E!Distinct(list) /\ Extends(linklist, list)
      /\ E!Has(list, v.name)
  BY WriteFirst
<1>3. /\ G.list = list /\ G.offset = E!findOffset(list, v.name) /\ G.regs = regs
      /\ G.loads = <<>>
  BY GivenFields
<1> HIDE DEF G, list
<1>4. Lists(G) /\ Writes(G, v.name) /\ G.loads = <<>> BY <1>2, <1>3, <1>a DEF Lists, Writes
<1> QED BY <1>1, <1>4

LEMMA GrantedWR ==
  ASSUME Listed, {"s0", "t2"} \subseteq available, NEW v, v.name \in Texts,
         NEW x, x.name \in Texts
  PROVE  LET G == E!Granted(<<E!WriteOf(v), E!ReadOf(x)>>)
         IN /\ Lists(G) /\ Writes(G, v.name)
            /\ Loading(G.loads) /\ Took(G.list, G.loads, x.name, G.regs[2])
<1> DEFINE list == E!Entered(linklist, v.name) free == available \ {"s0"}
           offset == E!findOffset(list, v.name)
           list1 == ListOf(list, x.name) loads == LoadsOf(list, free, <<>>, x.name)
           y == RegisterOf(free, x.name)
           regs == Append(Append(<<>>, "s0"), y)
           G == Given(list1, FreeOf(free, x.name), offset, regs, loads)
<1>1. E!Granted(<<E!WriteOf(v), E!ReadOf(x)>>)
        = E!get_register(Given(list, free, offset, Append(<<>>, "s0"), <<>>), x.name)
  <2>1. E!Granted(<<E!WriteOf(v), E!ReadOf(x)>>)
          = E!get_register(E!get_register_w(Start0, v.name), x.name)
    BY GrantedForms
  <2>2. E!get_register_w(Start0, v.name)
          = Given(list, free, offset, Append(<<>>, "s0"), <<>>)
    BY WriteFirst
  <2> QED BY <2>1, <2>2
<1>2. E!Granted(<<E!WriteOf(v), E!ReadOf(x)>>) = G BY <1>1, ReadGiven
<1>3. /\ list \in Seq(E!Entries) /\ E!Distinct(list) /\ Extends(linklist, list)
      /\ E!Has(list, v.name)
  BY WriteFirst
<1>4. /\ list1 \in Seq(E!Entries) /\ E!Distinct(list1) /\ Extends(list, list1)
      /\ Loading(loads) /\ Took(list1, loads, x.name, y)
  <2> HIDE DEF list
  <2> "t2" \in free OBVIOUS
  <2> QED BY <1>3, OneRead
<1>6. regs[1] = "s0" /\ regs[2] = y BY Appended
<1> HIDE DEF regs, loads, y
<1>5. G.list = list1 /\ G.offset = offset /\ G.regs = regs /\ G.loads = loads
  BY GivenFields
<1> HIDE DEF G, list, list1, free
<1>7. Extends(linklist, list1) BY <1>3, <1>4, ExtendsTransitive DEF Listed
<1>8. offset = E!findOffset(list1, v.name)
  BY <1>3, <1>4, ExtensionKeepsOffsets
<1>9. E!Has(list1, v.name) BY <1>3, <1>4 DEF E!Has, Extends
<1>10. /\ Lists(G) /\ Writes(G, v.name) /\ Loading(G.loads)
       /\ Took(G.list, G.loads, x.name, G.regs[2])
  BY <1>4, <1>5, <1>6, <1>7, <1>8, <1>9 DEF Lists, Writes
<1> QED BY <1>2, <1>10

LEMMA GrantedWRR ==
  ASSUME Listed, {"s0", "t2"} \subseteq available, NEW v, v.name \in Texts,
         NEW x, x.name \in Texts, NEW z, z.name \in Texts
  PROVE  LET G == E!Granted(<<E!WriteOf(v), E!ReadOf(x), E!ReadOf(z)>>)
         IN /\ Lists(G) /\ Writes(G, v.name) /\ Loading(G.loads)
            /\ Took(G.list, G.loads, x.name, G.regs[2])
            /\ Took(G.list, G.loads, z.name, G.regs[3])
<1> DEFINE list == E!Entered(linklist, v.name) free == available \ {"s0"}
           offset == E!findOffset(list, v.name)
           list1 == ListOf(list, x.name) loads1 == LoadsOf(list, free, <<>>, x.name)
           free1 == FreeOf(free, x.name)
           y1 == RegisterOf(free, x.name)
           list2 == ListOf(list1, z.name) loads2 == LoadsOf(list1, free1, loads1, z.name)
           y2 == RegisterOf(free1, z.name)
           regs == Append(Append(Append(<<>>, "s0"), y1), y2)
           G == Given(list2, FreeOf(free1, z.name), offset, regs, loads2)
           granted == E!Granted(<<E!WriteOf(v), E!ReadOf(x), E!ReadOf(z)>>)
<1>1. granted
        = E!get_register(E!get_register(Given(list, free, offset, Append(<<>>, "s0"), <<>>),
                                        x.name), z.name)
  <2>1. granted
          = E!get_register(E!get_register(E!get_register_w(Start0, v.name), x.name), z.name)
    BY GrantedThree
  <2>2. E!get_register_w(Start0, v.name)
          = Given(list, free, offset, Append(<<>>, "s0"), <<>>)
    BY WriteFirst
  <2> QED BY <2>1, <2>2
<1>2. granted = G
  <2> HIDE DEF granted, list, free
  <2> QED BY <1>1, ReadGiven
<1>3. /\ list \in Seq(E!Entries) /\ E!Distinct(list) /\ Extends(linklist, list)
      /\ E!Has(list, v.name)
  BY WriteFirst
<1>4. /\ list2 \in Seq(E!Entries) /\ E!Distinct(list2) /\ Extends(list, list2)
      /\ Loading(loads2) /\ Took(list2, loads2, x.name, y1) /\ Took(list2, loads2, z.name, y2)
  <2> HIDE DEF list
  <2> "t2" \in free OBVIOUS
  <2> QED BY <1>3, BothReads
<1>6. regs[1] = "s0" /\ regs[2] = y1 /\ regs[3] = y2 BY Appended
<1> HIDE DEF regs, loads2, y1, y2
<1>5. G.list = list2 /\ G.offset = offset /\ G.regs = regs /\ G.loads = loads2
  BY GivenFields
<1> HIDE DEF G, list, list2, free1, free, granted
<1>7. Extends(linklist, list2) BY <1>3, <1>4, ExtendsTransitive DEF Listed
<1>8. offset = E!findOffset(list2, v.name)
  BY <1>3, <1>4, ExtensionKeepsOffsets
<1>9. E!Has(list2, v.name) BY <1>3, <1>4 DEF E!Has, Extends
<1>10. /\ Lists(G) /\ Writes(G, v.name) /\ Loading(G.loads)
       /\ Took(G.list, G.loads, x.name, G.regs[2]) /\ Took(G.list, G.loads, z.name, G.regs[3])
  BY <1>4, <1>5, <1>6, <1>7, <1>8, <1>9 DEF Lists, Writes
<1> QED BY <1>2, <1>10 DEF granted

LEMMA GrantedR ==
  ASSUME Listed, "t2" \in available, NEW x, x.name \in Texts
  PROVE  LET G == E!Granted(<<E!ReadOf(x)>>)
         IN /\ Lists(G) /\ Loading(G.loads) /\ Took(G.list, G.loads, x.name, G.regs[1])
            /\ G.free = FreeOf(available, x.name)
<1> DEFINE list1 == ListOf(linklist, x.name)
           loads == LoadsOf(linklist, available, <<>>, x.name)
           y == RegisterOf(available, x.name)
           regs == Append(<<>>, y)
           G == Given(list1, FreeOf(available, x.name), write_offset, regs, loads)
<1>1. E!Granted(<<E!ReadOf(x)>>) = E!get_register(Start0, x.name)
  BY GrantedForms
<1>2. E!get_register(Start0, x.name) = G BY ReadFirst
<1>a. E!Granted(<<E!ReadOf(x)>>) = G BY <1>1, <1>2
<1>3. /\ list1 \in Seq(E!Entries) /\ E!Distinct(list1) /\ Extends(linklist, list1)
      /\ Loading(loads) /\ Took(list1, loads, x.name, y)
  BY OneRead DEF Listed
<1>5. regs[1] = y BY Appended
<1> HIDE DEF regs, loads, y
<1>4. /\ G.list = list1 /\ G.regs = regs /\ G.loads = loads
      /\ G.free = FreeOf(available, x.name)
  BY GivenFields
<1> HIDE DEF G, list1
<1> QED BY <1>a, <1>3, <1>4, <1>5 DEF Lists

LEMMA GrantedRR ==
  ASSUME Listed, "t2" \in available, NEW x, x.name \in Texts, NEW z, z.name \in Texts
  PROVE  LET G == E!Granted(<<E!ReadOf(x), E!ReadOf(z)>>)
         IN /\ Lists(G) /\ Loading(G.loads) /\ Took(G.list, G.loads, x.name, G.regs[1])
            /\ Took(G.list, G.loads, z.name, G.regs[2]) /\ Len(G.regs) = 2
<1> DEFINE free == available
           list1 == ListOf(linklist, x.name) loads1 == LoadsOf(linklist, free, <<>>, x.name)
           free1 == FreeOf(free, x.name)
           y1 == RegisterOf(free, x.name)
           list2 == ListOf(list1, z.name) loads2 == LoadsOf(list1, free1, loads1, z.name)
           y2 == RegisterOf(free1, z.name)
           regs == Append(Append(<<>>, y1), y2)
           G == Given(list2, FreeOf(free1, z.name), write_offset, regs, loads2)
           granted == E!Granted(<<E!ReadOf(x), E!ReadOf(z)>>)
<1>1. granted = E!get_register(E!get_register(Start0, x.name), z.name)
  BY GrantedForms
<1>2. granted = G
  <2>1. E!get_register(Start0, x.name)
          = Given(list1, free1, write_offset, Append(<<>>, y1), loads1)
    BY ReadFirst
  <2> HIDE DEF granted, list1, free1, loads1, y1
  <2>2. E!get_register(Given(list1, free1, write_offset, Append(<<>>, y1), loads1), z.name) = G
    BY ReadGiven
  <2> QED BY <1>1, <2>1, <2>2
<1>3. /\ list2 \in Seq(E!Entries) /\ E!Distinct(list2) /\ Extends(linklist, list2)
      /\ Loading(loads2) /\ Took(list2, loads2, x.name, y1) /\ Took(list2, loads2, z.name, y2)
  BY BothReads DEF Listed
<1>5. regs[1] = y1 /\ regs[2] = y2 /\ Len(regs) = 2 BY Appended
<1> HIDE DEF regs, loads2, y1, y2
<1>4. G.list = list2 /\ G.regs = regs /\ G.loads = loads2
  BY GivenFields
<1> HIDE DEF G, list2, free1, free, granted
<1>6. /\ Lists(G) /\ Loading(G.loads) /\ Took(G.list, G.loads, x.name, G.regs[1])
      /\ Took(G.list, G.loads, z.name, G.regs[2]) /\ Len(G.regs) = 2
  BY <1>3, <1>4, <1>5 DEF Lists
<1> QED BY <1>2, <1>6 DEF granted

-----------------------------------------------------------------------------
(* What a handler asks for, and what it sees of the instruction.           *)

LEMMA SameSequence ==
  ASSUME NEW S, NEW s \in Seq(S), NEW t \in Seq(S), Len(s) = Len(t),
         \A i \in 1..Len(s) : s[i] = t[i]
  PROVE  s = t
OBVIOUS

LEMMA Concatenated ==
  ASSUME NEW S, NEW s \in Seq(S), NEW t \in Seq(S)
  PROVE  /\ s \o t \in Seq(S) /\ Len(s \o t) = Len(s) + Len(t)
         /\ Len(s) \in Nat /\ Len(t) \in Nat
         /\ \A i \in 1..Len(s) : (s \o t)[i] = s[i]
         /\ \A i \in 1..Len(t) : (s \o t)[Len(s) + i] = t[i]
OBVIOUS

LEMMA OneAndOne ==
  ASSUME NEW a, NEW b
  PROVE  <<a>> \o <<b>> = <<a, b>>
<1> DEFINE S == {a, b} s == <<a>> t == <<b>> u == <<a, b>>
<1>1. /\ s \in Seq(S) /\ t \in Seq(S) /\ u \in Seq(S)
      /\ Len(s) = 1 /\ Len(t) = 1 /\ Len(u) = 2
      /\ s[1] = a /\ t[1] = b /\ u[1] = a /\ u[2] = b
  OBVIOUS
<1> HIDE DEF s, t, u, S
<1> DEFINE v == s \o t
<1>2. /\ v \in Seq(S) /\ Len(v) = Len(s) + Len(t)
      /\ \A i \in 1..Len(s) : v[i] = s[i]
      /\ \A i \in 1..Len(t) : v[Len(s) + i] = t[i]
  BY <1>1, Concatenated
<1> HIDE DEF v
<1>3. Len(v) = 2 /\ v[1] = a /\ v[1 + 1] = b BY <1>1, <1>2
<1>4. v = u BY <1>1, <1>2, <1>3, SameSequence
<1> QED BY <1>4 DEF s, t, u, v

LEMMA OneAndTwo ==
  ASSUME NEW a, NEW b, NEW c
  PROVE  <<a>> \o <<b, c>> = <<a, b, c>>
<1> DEFINE S == {a, b, c} s == <<a>> t == <<b, c>> u == <<a, b, c>>
<1>1. /\ s \in Seq(S) /\ t \in Seq(S) /\ u \in Seq(S)
      /\ Len(s) = 1 /\ Len(t) = 2 /\ Len(u) = 3
      /\ s[1] = a /\ t[1] = b /\ t[2] = c /\ u[1] = a /\ u[2] = b /\ u[3] = c
  OBVIOUS
<1> HIDE DEF s, t, u, S
<1> DEFINE v == s \o t
<1>2. /\ v \in Seq(S) /\ Len(v) = Len(s) + Len(t)
      /\ \A i \in 1..Len(s) : v[i] = s[i]
      /\ \A i \in 1..Len(t) : v[Len(s) + i] = t[i]
  <2>1. s \in Seq(S) /\ t \in Seq(S) BY <1>1
  <2> QED BY <2>1, Concatenated
<1> HIDE DEF v
<1>3. Len(v) = 3 /\ v[1] = a /\ v[1 + 1] = b /\ v[1 + 2] = c BY <1>1, <1>2
<1>4. v = u BY <1>1, <1>2, <1>3, SameSequence
<1> QED BY <1>4 DEF s, t, u, v

LEMMA VariableIs ==
  ASSUME NEW n \in Names
  PROVE  /\ Variable(n).name = Text(n).text /\ Text(n).text \in Texts
         /\ E!IsVariable(Variable(n)) /\ ~ E!IsConstant(Variable(n))
<1>1. n # ElementSize BY SizeIsNoName
<1>2. Variable(n).name = Text(n).text BY <1>1 DEF Variable, T!Variable, T!Opd
<1> QED BY <1>2, NamesHaveTexts, OperandForms DEF Values

LEMMA NumberIs ==
  ASSUME NEW v
  PROVE  /\ E!IsConstant(T!Number(v)) /\ T!Number(v).value = v
         /\ E!IsConstant(E!Number(v))
BY DEF E!IsConstant, T!Number, T!Opd, E!Number, E!Opd

LEMMA SourcesOf ==
  ASSUME NEW x, NEW y, ~ E!IsConstant(x)
  PROVE  /\ E!IsConstant(y) => E!Sources(x, y) = <<E!ReadOf(x)>>
         /\ ~ E!IsConstant(y) => E!Sources(x, y) = <<E!ReadOf(x), E!ReadOf(y)>>
<1> DEFINE a == E!ReadOf(x) b == E!ReadOf(y)
<1>1. E!Sources(x, y) = <<a>> \o (IF E!IsConstant(y) THEN <<>> ELSE <<b>>)
  BY DEF E!Sources
<1> HIDE DEF a, b
<1>2. <<a>> \o <<>> = <<a>> OBVIOUS
<1>3. CASE E!IsConstant(y) BY <1>1, <1>2, <1>3 DEF a
<1>4. CASE ~ E!IsConstant(y) BY <1>1, <1>4, OneAndOne DEF a, b
<1> QED BY <1>3, <1>4

LEMMA NoSources ==
  ASSUME NEW x, NEW y, E!IsConstant(x), E!IsConstant(y)
  PROVE  E!Sources(x, y) = <<>>
BY DEF E!Sources

LEMMA RequestsOf ==
  ASSUME NEW tac
  PROVE  /\ tac.kind = "ASSIGN" =>
              E!Requests(tac) = <<E!WriteOf(tac.left)>> \o E!Sources(tac.r1, E!Number(0))
         /\ tac.kind \in {"ADD", "SUB"} =>
              E!Requests(tac) = <<E!WriteOf(tac.left)>> \o E!AddSources(tac.r1, tac.r2)
         /\ tac.kind \in {"MUL", "DIV"} =>
              E!Requests(tac) = <<E!WriteOf(tac.left)>> \o E!MulSources(tac.r1, tac.r2)
BY DEF E!Requests, E!Branches

LEMMA OneAndNone == ASSUME NEW a PROVE <<a>> \o <<>> = <<a>>
OBVIOUS

(* The requests of every handler.                                          *)
LEMMA RequestForms ==
  ASSUME NEW ins \in Instructions, Printable(ins), ~ UsesElement(ins)
  PROVE  LET tac == Meant(ins) left == Variable(ins.result)
             x == Variable(ins.op1) y == Variable(ins.op2) R == E!Requests(tac)
         IN /\ ins.kind = "CONSTANT" =>
                 /\ tac.kind = "ASSIGN" /\ tac.r1 = T!Number(ins.value)
                 /\ R = <<E!WriteOf(x)>>
            /\ ins.kind = "ASSIGN" =>
                 tac.kind = "ASSIGN" /\ tac.r1 = y /\ R = <<E!WriteOf(x), E!ReadOf(y)>>
            /\ ins.kind = "BINARY" =>
                 /\ tac.kind = Operation(ins.relation) /\ tac.r1 = x /\ tac.r2 = y
                 /\ R = <<E!WriteOf(left), E!ReadOf(x), E!ReadOf(y)>>
            /\ ins.kind = "MINUS" =>
                 /\ tac.kind = "SUB" /\ tac.r1 = T!Number(0)
                 /\ R = <<E!WriteOf(left), E!ReadOf(x)>>
            /\ ins.kind = "IF_GOTO" =>
                 /\ tac.kind = Comparison(ins.relation) /\ tac.r1 = x /\ tac.r2 = y
                 /\ tac.target = ins.result
                 /\ R = <<E!ReadOf(x), E!ReadOf(y)>>
            /\ ins.kind = "RETURN" =>
                 tac.kind = "RETURN" /\ tac.r1 = x /\ R = <<E!ReadOf(x)>>
            /\ ins.kind = "WRITE" => tac.kind = "WRITE" /\ R = <<E!WriteOf(x)>>
            /\ ins.kind = "READ" => tac.kind = "READ" /\ R = <<E!WriteOf(x)>>
            /\ ins.kind = "CALL" =>
                 tac.kind = "CALL" /\ tac.target = ins.op1 /\ R = <<E!WriteOf(left)>>
            /\ ins.kind = "GET_VALUE_IN_ADDRESS" =>
                 tac.kind = "FETCH" /\ R = <<E!WriteOf(left), E!ReadOf(x)>>
            /\ ins.kind = "ASSIGN_VALUE_IN_ADDRESS" =>
                 tac.kind = "DEREF" /\ R = <<E!ReadOf(left), E!ReadOf(x)>>
            /\ ins.kind \in {"LABEL", "FUNCTION", "GOTO"} =>
                 tac.kind = ins.kind /\ tac.target = ins.op1 /\ R = <<>>
            /\ ins.kind \in {"DEC", "ARG", "PARAM"} => tac.kind = ins.kind /\ R = <<>>
            /\ ins.kind \in {"ARG", "PARAM"} => tac.r1 = x
<1> DEFINE tac == Meant(ins) left == Variable(ins.result)
           x == Variable(ins.op1) y == Variable(ins.op2) R == E!Requests(tac)
<1>0. ins.kind \in Kinds /\ WellFormed(ins) BY DEF Instructions
<1>1. CASE ins.kind = "CONSTANT"
  <2>1. tac = T!Tac("ASSIGN", x, T!Number(ins.value), T!NoOpd, NoName) BY <1>1 DEF Meant
  <2>2. tac.kind = "ASSIGN" /\ tac.left = x /\ tac.r1 = T!Number(ins.value)
    BY <2>1, TacFields
  <2>3. R = <<E!WriteOf(x)>> \o E!Sources(tac.r1, E!Number(0)) BY <2>2, RequestsOf
  <2>4. E!Sources(tac.r1, E!Number(0)) = <<>> BY <2>2, NumberIs, NoSources
  <2>5. R = <<E!WriteOf(x)>> BY <2>3, <2>4, OneAndNone
  <2> QED BY <1>1, <2>2, <2>5
<1>2. CASE ins.kind = "ASSIGN"
  <2>1. tac = T!Tac("ASSIGN", x, y, T!NoOpd, NoName) BY <1>2 DEF Meant
  <2>2. tac.kind = "ASSIGN" /\ tac.left = x /\ tac.r1 = y
    BY <2>1, TacFields
  <2>3. R = <<E!WriteOf(x)>> \o E!Sources(y, E!Number(0)) BY <2>2, RequestsOf
  <2>4. ~ E!IsConstant(y) BY <1>0, <1>2, VariableIs DEF WellFormed
  <2>5. E!Sources(y, E!Number(0)) = <<E!ReadOf(y)>> BY <2>4, NumberIs, SourcesOf
  <2>6. R = <<E!WriteOf(x), E!ReadOf(y)>> BY <2>3, <2>5, OneAndOne
  <2> QED BY <1>2, <2>2, <2>6
<1>3. CASE ins.kind = "BINARY"
  <2>1. tac = T!Tac(Operation(ins.relation), left, x, y, NoName) BY <1>3 DEF Meant
  <2>2. tac.kind = Operation(ins.relation) /\ tac.left = left /\ tac.r1 = x /\ tac.r2 = y
    BY <2>1, TacFields
  <2>3. ins.op1 \in Names /\ ins.op2 \in Names
    BY <1>3, ReadOperands DEF UsesElement, Values, Read
  <2>4. ~ E!IsConstant(x) /\ ~ E!IsConstant(y) BY <2>3, VariableIs
  <2>5. tac.kind \in {"ADD", "SUB", "MUL", "DIV"}
    BY <1>3, <2>2, ReadOperands DEF Operation
  <2> DEFINE pair == <<E!ReadOf(x), E!ReadOf(y)>>
  <2>6. E!AddSources(x, y) = pair /\ E!MulSources(x, y) = pair
    BY <2>4 DEF E!AddSources, E!MulSources
  <2>7. R = <<E!WriteOf(left)>> \o pair BY <2>2, <2>5, <2>6, RequestsOf
  <2>8. R = <<E!WriteOf(left), E!ReadOf(x), E!ReadOf(y)>> BY <2>7, OneAndTwo
  <2> QED BY <1>3, <2>2, <2>8
<1>4. CASE ins.kind = "MINUS"
  <2>1. tac = T!Tac("SUB", left, T!Number(0), x, NoName) BY <1>4 DEF Meant
  <2>2. tac.kind = "SUB" /\ tac.left = left /\ tac.r1 = T!Number(0) /\ tac.r2 = x
    BY <2>1, TacFields
  <2>3. R = <<E!WriteOf(left)>> \o E!AddSources(T!Number(0), x)
    BY <2>2, RequestsOf
  <2>4. E!AddSources(T!Number(0), x) = <<E!ReadOf(x)>> BY NumberIs DEF E!AddSources
  <2>5. R = <<E!WriteOf(left), E!ReadOf(x)>> BY <2>3, <2>4, OneAndOne
  <2> QED BY <1>4, <2>2, <2>5
<1>5. CASE ins.kind = "IF_GOTO"
  <2>1. /\ ins.op1 \in Names /\ ins.op2 \in Names
        /\ ins.relation \in {"<", "<=", ">", ">=", "==", "!="}
    BY <1>0, <1>5 DEF Printable, WellFormed
  <2>2. tac = T!Tac(Comparison(ins.relation), T!NoOpd, x, y, ins.result)
    BY <1>5, <2>1 DEF Meant, Comparison
  <2>3. tac.kind = Comparison(ins.relation) /\ tac.r1 = x /\ tac.r2 = y
    BY <2>2, TacFields
  <2>4. tac.target = ins.result BY <2>2 DEF T!Tac
  <2>5. tac.kind \in E!Branches BY <2>3 DEF Comparison, E!Branches
  <2>6. R = E!Sources(x, y) BY <2>3, <2>5 DEF E!Requests, E!Branches
  <2>7. ~ E!IsConstant(x) /\ ~ E!IsConstant(y) BY <2>1, VariableIs
  <2>8. R = <<E!ReadOf(x), E!ReadOf(y)>> BY <2>6, <2>7, SourcesOf
  <2> QED BY <1>5, <2>3, <2>4, <2>8
<1>6. CASE ins.kind \in {"RETURN", "WRITE", "ARG", "PARAM"}
  <2>1. tac = T!Tac(ins.kind, T!NoOpd, x, T!NoOpd, NoName) BY <1>6 DEF Meant
  <2>2. tac.kind = ins.kind /\ tac.r1 = x BY <2>1, TacFields
  <2>3. CASE ins.kind = "RETURN"
    <3>1. R = E!Sources(x, E!Number(0)) BY <2>2, <2>3 DEF E!Requests, E!Branches
    <3>2. ~ E!IsConstant(x) BY <1>0, <2>3, VariableIs DEF WellFormed
    <3>3. R = <<E!ReadOf(x)>> BY <3>1, <3>2, NumberIs, SourcesOf
    <3> QED BY <2>2, <2>3, <3>3
  <2>4. CASE ins.kind = "WRITE"
    <3>1. R = <<E!WriteOf(x)>> BY <2>2, <2>4 DEF E!Requests, E!Branches
    <3> QED BY <2>2, <2>4, <3>1
  <2>5. CASE ins.kind \in {"ARG", "PARAM"}
    <3>1. R = <<>> BY <2>2, <2>5 DEF E!Requests, E!Branches
    <3> QED BY <2>2, <2>5, <3>1
  <2> QED BY <1>6, <2>3, <2>4, <2>5
<1>7. CASE ins.kind = "READ"
  <2>1. tac = T!Tac("READ", x, T!NoOpd, T!NoOpd, NoName) BY <1>7 DEF Meant
  <2>2. tac.kind = "READ" /\ tac.left = x BY <2>1, TacFields
  <2>3. R = <<E!WriteOf(x)>> BY <2>2 DEF E!Requests, E!Branches
  <2> QED BY <1>7, <2>2, <2>3
<1>8. CASE ins.kind = "CALL"
  <2>1. tac = T!Tac("CALL", left, T!NoOpd, T!NoOpd, ins.op1) BY <1>8 DEF Meant
  <2>2. tac.kind = "CALL" /\ tac.left = left BY <2>1, TacFields
  <2>3. tac.target = ins.op1 BY <2>1 DEF T!Tac
  <2>4. R = <<E!WriteOf(left)>> BY <2>2 DEF E!Requests, E!Branches
  <2> QED BY <1>8, <2>2, <2>3, <2>4
<1>9. CASE ins.kind = "GET_VALUE_IN_ADDRESS"
  <2>1. tac = T!Tac("FETCH", left, x, T!NoOpd, NoName) BY <1>9 DEF Meant
  <2>2. tac.kind = "FETCH" /\ tac.left = left /\ tac.r1 = x BY <2>1, TacFields
  <2>3. R = <<E!WriteOf(left), E!ReadOf(x)>> BY <2>2 DEF E!Requests, E!Branches
  <2> QED BY <1>9, <2>2, <2>3
<1>10. CASE ins.kind = "ASSIGN_VALUE_IN_ADDRESS"
  <2>1. tac = T!Tac("DEREF", T!NoOpd, left, x, NoName) BY <1>10 DEF Meant
  <2>2. tac.kind = "DEREF" /\ tac.r1 = left /\ tac.r2 = x BY <2>1, TacFields
  <2>3. R = <<E!ReadOf(left), E!ReadOf(x)>> BY <2>2 DEF E!Requests, E!Branches
  <2> QED BY <1>10, <2>2, <2>3
<1>11. CASE ins.kind \in {"LABEL", "FUNCTION", "GOTO"}
  <2>1. tac = T!Tac(ins.kind, T!NoOpd, T!NoOpd, T!NoOpd, ins.op1) BY <1>11 DEF Meant
  <2>2. tac.kind = ins.kind /\ tac.target = ins.op1 BY <2>1 DEF T!Tac
  <2>3. R = <<>> BY <1>11, <2>2 DEF E!Requests, E!Branches
  <2> QED BY <1>11, <2>2, <2>3
<1>12. CASE ins.kind = "DEC"
  <2>1. tac = T!Tac("DEC", T!Pointer(ins.op1), T!NoOpd, T!NoOpd, NoName)
           \/ tac = T!Tac("DEC", T!NoOpd, T!Pointer(ins.op1), T!NoOpd, NoName)
    BY <1>12 DEF Meant
  <2>2. tac.kind = "DEC" BY <2>1, TacFields
  <2>3. R = <<>> BY <2>2 DEF E!Requests, E!Branches
  <2> QED BY <1>12, <2>2, <2>3
<1>13. ins.kind # "ARRAY_OFFSET" BY DEF UsesElement
<1> QED
  BY <1>0, <1>1, <1>2, <1>3, <1>4, <1>5, <1>6, <1>7, <1>8, <1>9, <1>10, <1>11, <1>12, <1>13
  DEF Kinds

-----------------------------------------------------------------------------
(* The form of the code.                                                   *)

(* b is first and then behind.                                             *)
Block(b, first, behind) ==
  /\ Len(b) = Len(first) + Len(behind)
  /\ \A i \in 1..Len(first) : b[i] = first[i]
  /\ \A i \in 1..Len(behind) : b[Len(first) + i] = behind[i]

LEMMA Joined ==
  ASSUME NEW S, NEW s \in Seq(S), NEW R, NEW t \in Seq(R)
  PROVE  /\ Block(s \o t, s, t) /\ s \o t \in Seq(S \cup R)
         /\ Len(s) \in Nat /\ Len(t) \in Nat
<1>1. s \in Seq(S \cup R) /\ t \in Seq(S \cup R) OBVIOUS
<1> DEFINE U == S \cup R
<1> HIDE DEF U
<1>2. s \in Seq(U) /\ t \in Seq(U) BY <1>1 DEF U
<1>3. /\ s \o t \in Seq(U) /\ Len(s \o t) = Len(s) + Len(t)
      /\ Len(s) \in Nat /\ Len(t) \in Nat
      /\ \A i \in 1..Len(s) : (s \o t)[i] = s[i]
      /\ \A i \in 1..Len(t) : (s \o t)[Len(s) + i] = t[i]
  BY <1>2, Concatenated
<1> QED BY <1>3 DEF Block, U

SlotIn(list, n) == E!findOffset(list, Text(n).text)
StoredIn(list, n) == E!Has(list, Text(n).text)

(* Instruction j is a PARAM of n, or of a name that looks like it.         *)
ParamOf(j, n) == Source[j].kind = "PARAM" /\ Text(Source[j].op1).text = Text(n).text

(* What instruction k reads as n is in register r: where it was passed, or *)
(* it is loaded.                                                           *)
IsIn(list, loads, k, n, r) ==
  IF \E j \in 1..k - 1 : ParamOf(j, n)
  THEN \A j \in 1..k - 1, q \in 1..4 : ParamOf(j, n) /\ IsPlace(j, q) => r = E!ArgumentRegister(q - 1)
  ELSE StoredIn(list, n) /\ \E i \in 1..Len(loads) : loads[i] = E!Lw(r, SlotIn(list, n))

ConstantForm(list, k, b) ==
  LET ins == Source[k]
  IN /\ StoredIn(list, ins.op1)
     /\ b = <<E!Li("s0", ins.value), E!Sw("s0", SlotIn(list, ins.op1))>>

AssignForm(list, k, b) ==
  LET ins == Source[k]
  IN /\ StoredIn(list, ins.op1)
     /\ \E loads, y :
          /\ Loading(loads) /\ IsIn(list, loads, k, ins.op2, y)
          /\ Block(b, loads, <<E!Move("s0", y), E!Sw("s0", SlotIn(list, ins.op1))>>)

(* The instructions of an operation on registers y and z.                  *)
Operates(relation, y, z) ==
  CASE relation = "+" -> <<E!Three("add", "s0", y, z)>>
    [] relation = "-" -> <<E!Three("sub", "s0", y, z)>>
    [] relation = "*" -> <<E!Three("mul", "s0", y, z)>>
    [] relation = "/" -> <<E!Three("div", E!None, y, z), E!Three("mflo", "s0", E!None, E!None)>>

BinaryForm(list, k, b) ==
  LET ins == Source[k]
  IN /\ StoredIn(list, ins.result)
     /\ \E loads, y, z :
          /\ Loading(loads)
          /\ IsIn(list, loads, k, ins.op1, y) /\ IsIn(list, loads, k, ins.op2, z)
          /\ Block(b, loads, Operates(ins.relation, y, z)
                               \o <<E!Sw("s0", SlotIn(list, ins.result))>>)

MinusForm(list, k, b) ==
  LET ins == Source[k]
  IN /\ StoredIn(list, ins.result)
     /\ \E loads, y :
          /\ Loading(loads) /\ IsIn(list, loads, k, ins.op1, y)
          /\ Block(b, loads, <<E!Neg(y), E!Addi("s0", y, 0),
                               E!Sw("s0", SlotIn(list, ins.result))>>)

BranchForm(list, k, b) ==
  LET ins == Source[k]
  IN \E loads, y, z :
       /\ Loading(loads)
       /\ IsIn(list, loads, k, ins.op1, y) /\ IsIn(list, loads, k, ins.op2, z)
       /\ Block(b, loads, <<E!Op(Comparison(ins.relation), E!None, y, z, 0, ins.result)>>)

ReturnForm(list, k, b) ==
  LET ins == Source[k]
  IN \E loads, y :
       /\ Loading(loads) /\ IsIn(list, loads, k, ins.op1, y)
       /\ Block(b, loads, <<E!Move("v0", y), E!Jump("jr", NoName)>>)

ReadForm(list, k, b) ==
  LET ins == Source[k]
  IN /\ StoredIn(list, ins.op1)
     /\ b = <<E!Stack(-4), E!SwStack("ra", 0), E!Jump("jal", "read"), E!LwStack("ra", 0),
              E!Stack(4), E!Move("s0", "v0"), E!Sw("s0", SlotIn(list, ins.op1))>>

WriteForm(b) ==
  b = <<E!Move("t7", "a0"), E!Move("a0", "s0"), E!Stack(-4), E!SwStack("ra", 0),
        E!Jump("jal", "write"), E!LwStack("ra", 0), E!Stack(4), E!Move("a0", "t7")>>

(* A call with m arguments.                                                *)
CallForm(list, k, b) ==
  LET ins == Source[k]
  IN /\ StoredIn(list, ins.result)
     /\ \A m \in Nat : Passes(k, m) =>
          /\ Len(b) = 15 + m
          /\ b[1] = E!Stack(-20)
          /\ \A i \in 1..5 : b[1 + i] = E!SwStack(E!Saved[i], 4 * (i - 1))
          /\ \A i \in 1..m :
               /\ StoredIn(list, Source[k - i].op1)
               /\ b[6 + i] = E!ArgumentLoad(i - 1, SlotIn(list, Source[k - i].op1))
          /\ b[7 + m] = E!Jump("jal", ins.op1)
          /\ \A i \in 1..5 : b[7 + m + i] = E!LwStack(E!Saved[i], 4 * (i - 1))
          /\ b[13 + m] = E!Stack(20) /\ b[14 + m] = E!Move("s0", "v0")
          /\ b[15 + m] = E!Sw("s0", SlotIn(list, ins.result))

Form(list, k, b) ==
  LET ins == Source[k]
  IN /\ ins.kind \in {"LABEL", "FUNCTION"} => b = <<E!Jump("label", ins.op1)>>
     /\ ins.kind = "GOTO" => b = <<E!Jump("j", ins.op1)>>
     /\ ins.kind \in {"DEC", "ARG", "PARAM"} => b = <<>>
     /\ ins.kind = "CONSTANT" => ConstantForm(list, k, b)
     /\ ins.kind = "ASSIGN" => AssignForm(list, k, b)
     /\ ins.kind = "BINARY" => BinaryForm(list, k, b)
     /\ ins.kind = "MINUS" => MinusForm(list, k, b)
     /\ ins.kind = "IF_GOTO" => BranchForm(list, k, b)
     /\ ins.kind = "RETURN" => ReturnForm(list, k, b)
     /\ ins.kind = "READ" => ReadForm(list, k, b)
     /\ ins.kind = "WRITE" => WriteForm(b)
     /\ ins.kind = "CALL" => CallForm(list, k, b)
     /\ ins.kind \notin {"LABEL", "FUNCTION"} =>
          \/ Len(b) = 0
          \/ Len(b) > 0 /\ b[1].op # "label"

(* Code that has been emitted stays right when variables are entered.      *)
LEMMA FormKept ==
  ASSUME NEW list \in Seq(E!Entries), NEW list2 \in Seq(E!Entries), Extends(list, list2),
         E!Distinct(list2), NEW k, NEW b, Form(list, k, b)
  PROVE  Form(list2, k, b)
<1>1. \A n : StoredIn(list, n) => StoredIn(list2, n) /\ SlotIn(list2, n) = SlotIn(list, n)
  <2> SUFFICES ASSUME NEW n, StoredIn(list, n)
               PROVE  StoredIn(list2, n) /\ SlotIn(list2, n) = SlotIn(list, n)
    OBVIOUS
  <2>1. StoredIn(list2, n) BY DEF StoredIn, E!Has, Extends
  <2>2. SlotIn(list2, n) = SlotIn(list, n)
    BY ExtensionKeepsOffsets DEF StoredIn, SlotIn
  <2> QED BY <2>1, <2>2
<1>2. \A loads, n, r : IsIn(list, loads, k, n, r) => IsIn(list2, loads, k, n, r)
  BY <1>1 DEF IsIn
<1> DEFINE ins == Source[k]
<1>3. ConstantForm(list, k, b) => ConstantForm(list2, k, b) BY <1>1 DEF ConstantForm
<1>4. AssignForm(list, k, b) => AssignForm(list2, k, b)
  <2> SUFFICES ASSUME AssignForm(list, k, b) PROVE AssignForm(list2, k, b)
    OBVIOUS
  <2>1. PICK loads, y :
          /\ Loading(loads) /\ IsIn(list, loads, k, ins.op2, y)
          /\ Block(b, loads, <<E!Move("s0", y), E!Sw("s0", SlotIn(list, ins.op1))>>)
    BY DEF AssignForm
  <2>2. StoredIn(list, ins.op1) BY DEF AssignForm
  <2>3. SlotIn(list2, ins.op1) = SlotIn(list, ins.op1) /\ StoredIn(list2, ins.op1)
    BY <1>1, <2>2
  <2>4. IsIn(list2, loads, k, ins.op2, y) BY <1>2, <2>1
  <2> QED BY <2>1, <2>3, <2>4 DEF AssignForm
<1>5. BinaryForm(list, k, b) => BinaryForm(list2, k, b)
  <2> SUFFICES ASSUME BinaryForm(list, k, b) PROVE BinaryForm(list2, k, b)
    OBVIOUS
  <2>1. PICK loads, y, z :
          /\ Loading(loads)
          /\ IsIn(list, loads, k, ins.op1, y) /\ IsIn(list, loads, k, ins.op2, z)
          /\ Block(b, loads, Operates(ins.relation, y, z)
                               \o <<E!Sw("s0", SlotIn(list, ins.result))>>)
    BY DEF BinaryForm
  <2>2. StoredIn(list, ins.result) BY DEF BinaryForm
  <2>3. SlotIn(list2, ins.result) = SlotIn(list, ins.result) /\ StoredIn(list2, ins.result)
    BY <1>1, <2>2
  <2>4. IsIn(list2, loads, k, ins.op1, y) /\ IsIn(list2, loads, k, ins.op2, z)
    BY <1>2, <2>1
  <2> QED BY <2>1, <2>3, <2>4 DEF BinaryForm
<1>6. MinusForm(list, k, b) => MinusForm(list2, k, b)
  <2> SUFFICES ASSUME MinusForm(list, k, b) PROVE MinusForm(list2, k, b)
    OBVIOUS
  <2>1. PICK loads, y :
          /\ Loading(loads) /\ IsIn(list, loads, k, ins.op1, y)
          /\ Block(b, loads, <<E!Neg(y), E!Addi("s0", y, 0),
                               E!Sw("s0", SlotIn(list, ins.result))>>)
    BY DEF MinusForm
  <2>2. StoredIn(list, ins.result) BY DEF MinusForm
  <2>3. SlotIn(list2, ins.result) = SlotIn(list, ins.result) /\ StoredIn(list2, ins.result)
    BY <1>1, <2>2
  <2>4. IsIn(list2, loads, k, ins.op1, y) BY <1>2, <2>1
  <2> QED BY <2>1, <2>3, <2>4 DEF MinusForm
<1>7. BranchForm(list, k, b) => BranchForm(list2, k, b)
  <2> SUFFICES ASSUME BranchForm(list, k, b) PROVE BranchForm(list2, k, b)
    OBVIOUS
  <2>1. PICK loads, y, z :
       /\ Loading(loads)
       /\ IsIn(list, loads, k, ins.op1, y) /\ IsIn(list, loads, k, ins.op2, z)
       /\ Block(b, loads, <<E!Op(Comparison(ins.relation), E!None, y, z, 0, ins.result)>>)
    BY DEF BranchForm
  <2>4. IsIn(list2, loads, k, ins.op1, y) /\ IsIn(list2, loads, k, ins.op2, z)
    BY <1>2, <2>1
  <2> QED BY <2>1, <2>4 DEF BranchForm
<1>8. ReturnForm(list, k, b) => ReturnForm(list2, k, b)
  <2> SUFFICES ASSUME ReturnForm(list, k, b) PROVE ReturnForm(list2, k, b)
    OBVIOUS
  <2>1. PICK loads, y :
       /\ Loading(loads) /\ IsIn(list, loads, k, ins.op1, y)
       /\ Block(b, loads, <<E!Move("v0", y), E!Jump("jr", NoName)>>)
    BY DEF ReturnForm
  <2>4. IsIn(list2, loads, k, ins.op1, y) BY <1>2, <2>1
  <2> QED BY <2>1, <2>4 DEF ReturnForm
<1>9. ReadForm(list, k, b) => ReadForm(list2, k, b) BY <1>1 DEF ReadForm
<1>10. CallForm(list, k, b) => CallForm(list2, k, b)
  <2> SUFFICES ASSUME CallForm(list, k, b) PROVE CallForm(list2, k, b)
    OBVIOUS
  <2>1. StoredIn(list2, ins.result) /\ SlotIn(list2, ins.result) = SlotIn(list, ins.result)
    BY <1>1 DEF CallForm
  <2> SUFFICES ASSUME NEW m \in Nat, Passes(k, m)
               PROVE  /\ Len(b) = 15 + m
                      /\ b[1] = E!Stack(-20)
                      /\ \A i \in 1..5 : b[1 + i] = E!SwStack(E!Saved[i], 4 * (i - 1))
                      /\ \A i \in 1..m :
                           /\ StoredIn(list2, Source[k - i].op1)
                           /\ b[6 + i] = E!ArgumentLoad(i - 1,
                                              SlotIn(list2, Source[k - i].op1))
                      /\ b[7 + m] = E!Jump("jal", ins.op1)
                      /\ \A i \in 1..5 : b[7 + m + i] = E!LwStack(E!Saved[i], 4 * (i - 1))
                      /\ b[13 + m] = E!Stack(20) /\ b[14 + m] = E!Move("s0", "v0")
                      /\ b[15 + m] = E!Sw("s0", SlotIn(list2, ins.result))
    BY <2>1 DEF CallForm
  <2> QED BY <1>1, <2>1 DEF CallForm
<1> HIDE DEF ins
<1> QED BY <1>3, <1>4, <1>5, <1>6, <1>7, <1>8, <1>9, <1>10 DEF Form

-----------------------------------------------------------------------------
(* What holds while the emitter walks the program.                         *)

(* The parameters entered are those passed, each at its place.             *)
ParamsEntered ==
  /\ a0_a3_list \in Seq([key: Texts, aRegister: Nat])
  /\ \A i \in 1..Len(a0_a3_list) : \E j \in 1..tac_code - 1 :
       Source[j].kind = "PARAM" /\ a0_a3_list[i].key = Text(Source[j].op1).text
  /\ \A j \in 1..tac_code - 1 : Source[j].kind = "PARAM" =>
       \E i \in 1..Len(a0_a3_list) :
         /\ a0_a3_list[i].key = Text(Source[j].op1).text
         /\ \A q \in Nat : IsPlace(j, q) => a0_a3_list[i].aRegister = q - 1
  /\ \A i, j \in 1..Len(a0_a3_list) : a0_a3_list[i].key = a0_a3_list[j].key => i = j

(* paramCount is the place of the PARAM that comes next.                   *)
ParamsCounted ==
  /\ param_count \in Nat
  /\ IF tac_code <= Len(Source) /\ Source[tac_code].kind = "PARAM"
     THEN \A q \in Nat : IsPlace(tac_code, q) => param_count = q - 1
     ELSE param_count = 0

(* The RETURNs since i have left the registers taken.                      *)
TakenSince(i) ==
  /\ i \in 1..tac_code - 1 /\ Source[i].kind = "RETURN"
  /\ \A m \in i..tac_code - 1 : Source[m].kind \in E!KeepsRegisters

RegistersLeft ==
  /\ {"s0", "s1", "s2", "t2"} \subseteq available
  /\ \/ {"t0", "t1"} \subseteq available
     \/ "t1" \in available /\ \E i \in 1..tac_code - 1 : TakenSince(i)
     \/ \E i \in 1..tac_code - 1, j \in 1..tac_code - 1 : i < j /\ TakenSince(i) /\ TakenSince(j)

(* What the instructions passed set has its word, and their code its form. *)
Formed ==
  /\ Listed
  /\ \E S : code \in Seq(S)
  /\ Len(code) = tac_code - 1
  /\ \A k \in 1..tac_code - 1 :
       /\ Form(linklist, k, code[k])
       /\ Source[k].kind # "PARAM" /\ Defined(Source[k]) \in Names =>
            StoredIn(linklist, Defined(Source[k]))

Emitted == ParamsEntered /\ ParamsCounted /\ RegistersLeft /\ Formed

Laying ==
  /\ BackEndInv /\ Regular /\ phase = "emit" /\ Emitted /\ tac_code <= Len(ir)

Ins1 == Source[tac_code]

LEMMA NowIs ==
  ASSUME Laying
  PROVE  /\ tac_code \in 1..Len(Source) /\ Len(Source) \in Nat /\ Len(ir) = Len(Source)
         /\ Ins1 \in Instructions /\ Printable(Ins1) /\ ~ UsesElement(Ins1)
         /\ E!Now = Meant(Ins1)
<1>1. BackEndInv /\ ~ Reading /\ NamesAreSafe /\ source.warnings = 0
  BY DEF Laying, Regular, Reading
<1>2. /\ Len(ir) = Len(Source) /\ Len(Source) \in Nat
      /\ \A i \in 1..Len(Source) :
           /\ ir[i] = Meant(Source[i]) /\ Source[i] \in Instructions
           /\ Printable(Source[i])
  BY <1>1, ListIsProgram
<1>3. tac_code \in 1..Len(Source) BY <1>1, <1>2 DEF Laying, BackEndInv
<1>4. ~ UsesElement(Ins1) BY <1>3 DEF Laying, Regular, UsesArray, UsesElement, Ins1
<1> QED BY <1>2, <1>3, <1>4 DEF Ins1, E!Now

LEMMA OperandNames ==
  ASSUME NEW ins \in Instructions, Printable(ins), ~ UsesElement(ins)
  PROVE  /\ ins.kind \in {"CONSTANT", "ASSIGN", "READ", "PARAM", "MINUS", "BINARY", "WRITE",
                          "RETURN", "ARG", "IF_GOTO"} => ins.op1 \in Names
         /\ ins.kind \in {"ASSIGN", "BINARY", "IF_GOTO"} => ins.op2 \in Names
         /\ ins.kind \in {"BINARY", "MINUS", "CALL"} => ins.result \in Names
         /\ ins.kind = "BINARY" => ins.relation \in {"+", "-", "*", "/"}
         /\ ins.kind = "IF_GOTO" => ins.relation \in {"<", "<=", ">", ">=", "==", "!="}
         /\ ins.kind \in Kinds /\ ins.kind # "ARRAY_OFFSET" /\ ins.value \in Int
<1>1. WellFormed(ins) /\ ins.kind \in Kinds BY DEF Instructions
<1>2. ins.value \in Int BY DEF Instructions
<1>3. ins.kind = "BINARY" => ins.op1 \in Names /\ ins.op2 \in Names
  BY <1>1 DEF WellFormed, UsesElement, Read
<1> QED BY <1>1, <1>2, <1>3 DEF WellFormed, Printable, UsesElement

(* Which handler it is.                                                    *)
LEMMA HandledKinds ==
  /\ E!EmitLabel => E!Now.kind \in {"LABEL", "FUNCTION"}
  /\ E!EmitGoto => E!Now.kind = "GOTO"
  /\ E!EmitNothing => E!Now.kind \in {"DEC", "ARG"}
  /\ E!EmitAssign => E!Now.kind = "ASSIGN"
  /\ E!EmitAdd => E!Now.kind = "ADD"
  /\ E!EmitSub => E!Now.kind = "SUB"
  /\ E!EmitMul => E!Now.kind = "MUL"
  /\ E!EmitDiv => E!Now.kind = "DIV"
  /\ E!EmitFetch => E!Now.kind = "FETCH"
  /\ E!EmitDeref => E!Now.kind = "DEREF"
  /\ E!EmitBranch => E!Now.kind \in {"IFLT", "IFLE", "IFGT", "IFGE", "IFNE", "IFEQ"}
  /\ E!EmitReturn => E!Now.kind = "RETURN"
  /\ E!EmitCall => E!Now.kind = "CALL"
  /\ E!EmitParam => E!Now.kind = "PARAM"
  /\ E!EmitRead => E!Now.kind = "READ"
  /\ E!EmitWrite => E!Now.kind = "WRITE"
<1>1. \A kinds : E!Handles(kinds) => E!Now.kind \in kinds BY DEF E!Handles
<1> QED BY <1>1
  DEF E!EmitLabel, E!EmitGoto, E!EmitNothing, E!EmitAssign, E!EmitAdd, E!EmitSub, E!EmitMul,
      E!EmitDiv, E!EmitFetch, E!EmitDeref, E!EmitBranch, E!EmitReturn, E!EmitCall, E!EmitParam,
      E!EmitRead, E!EmitWrite, E!Branches

LEMMA HandlerIs ==
  ASSUME E!Next, phase' # "aborted", tac_code <= Len(ir), tac_code \in Nat, Len(ir) \in Nat
  PROVE  LET kind == E!Now.kind
         IN /\ kind \in {"LABEL", "FUNCTION"} => E!EmitLabel
            /\ kind = "GOTO" => E!EmitGoto
            /\ kind \in {"DEC", "ARG"} => E!EmitNothing
            /\ kind = "ASSIGN" => E!EmitAssign
            /\ kind = "ADD" => E!EmitAdd
            /\ kind = "SUB" => E!EmitSub
            /\ kind = "MUL" => E!EmitMul
            /\ kind = "DIV" => E!EmitDiv
            /\ kind = "FETCH" => E!EmitFetch
            /\ kind = "DEREF" => E!EmitDeref
            /\ kind \in {"IFLT", "IFLE", "IFGT", "IFGE", "IFNE", "IFEQ"} => E!EmitBranch
            /\ kind = "RETURN" => E!EmitReturn
            /\ kind = "CALL" => E!EmitCall
            /\ kind = "PARAM" => E!EmitParam
            /\ kind = "READ" => E!EmitRead
            /\ kind = "WRITE" => E!EmitWrite
<1>1. ~ E!Abort /\ ~ E!Finish BY DEF E!Abort, E!Finish
<1>2. \/ E!EmitLabel \/ E!EmitGoto \/ E!EmitNothing \/ E!EmitAssign \/ E!EmitAdd \/ E!EmitSub
      \/ E!EmitMul \/ E!EmitDiv \/ E!EmitFetch \/ E!EmitDeref \/ E!EmitBranch \/ E!EmitReturn
      \/ E!EmitCall \/ E!EmitParam \/ E!EmitRead \/ E!EmitWrite
  BY <1>1 DEF E!Next
<1> QED BY <1>2, HandledKinds

-----------------------------------------------------------------------------
(* What the handler of each instruction does.                              *)

NoLabel(b) == Len(b) = 0 \/ (Len(b) > 0 /\ b[1].op # "label")

Lays(b, list) ==
  /\ linklist' = list /\ code' = Append(code, b) /\ tac_code' = tac_code + 1
  /\ UNCHANGED <<phase, ir, a0_a3_list, param_count>>
  /\ list \in Seq(E!Entries) /\ E!Distinct(list) /\ Extends(linklist, list)
  /\ Form(list, tac_code, b)
  /\ Ins1.kind # "PARAM" /\ Defined(Ins1) \in Names => StoredIn(list, Defined(Ins1))

LEMMA EmitIs ==
  ASSUME NEW ops, E!Emit(ops), Lists(E!Grants)
  PROVE  /\ linklist' = E!Grants.list /\ code' = Append(code, ops)
         /\ tac_code' = tac_code + 1
         /\ UNCHANGED <<phase, ir, a0_a3_list, param_count>>
         /\ E!Grants.list \in Seq(E!Entries) /\ E!Distinct(E!Grants.list)
         /\ Extends(linklist, E!Grants.list)
BY DEF E!Emit, Lists

LEMMA TookIsIn ==
  ASSUME ParamsEntered, NEW list, NEW loads, NEW n, NEW r,
         Took(list, loads, Text(n).text, r)
  PROVE  IsIn(list, loads, tac_code, n, r)
<1> DEFINE name == Text(n).text
<1>1. CASE E!Has(a0_a3_list, name)
  <2>1. PICK i \in 1..Len(a0_a3_list) :
          a0_a3_list[i].key = name /\ E!Found(a0_a3_list, name) = a0_a3_list[i]
    BY <1>1, FoundHasKey
  <2>2. r = E!ArgumentRegister(a0_a3_list[i].aRegister) BY <1>1, <2>1 DEF Took
  <2>3. ASSUME NEW j \in 1..tac_code - 1, NEW q \in 1..4, ParamOf(j, n), IsPlace(j, q)
        PROVE  r = E!ArgumentRegister(q - 1)
    <3>1. PICK h \in 1..Len(a0_a3_list) :
            /\ a0_a3_list[h].key = name
            /\ \A p \in Nat : IsPlace(j, p) => a0_a3_list[h].aRegister = p - 1
      BY <2>3 DEF ParamsEntered, ParamOf
    <3>2. h = i BY <2>1, <3>1 DEF ParamsEntered
    <3>3. q \in Nat OBVIOUS
    <3>4. a0_a3_list[i].aRegister = q - 1 BY <2>3, <3>1, <3>2, <3>3
    <3> QED BY <2>2, <3>4
  <2>4. \E j \in 1..tac_code - 1 : ParamOf(j, n) BY <2>1 DEF ParamsEntered, ParamOf
  <2> QED BY <2>3, <2>4 DEF IsIn
<1>2. CASE ~ E!Has(a0_a3_list, name)
  <2>1. ~ \E j \in 1..tac_code - 1 : ParamOf(j, n)
    BY <1>2 DEF ParamsEntered, ParamOf, E!Has
  <2> QED BY <1>2, <2>1 DEF IsIn, Took, StoredIn, SlotIn
<1> QED BY <1>1, <1>2

LEMMA LoadsAreTyped ==
  ASSUME NEW loads, Loading(loads)
  PROVE  /\ loads \in Seq(LoadOps) /\ Len(loads) \in Nat /\ Len(loads) <= 2
         /\ \A i \in 1..Len(loads) : loads[i].op = "lw"
<1>1. loads \in Seq(LoadOps) /\ Len(loads) \in Nat /\ Len(loads) <= 2 BY DEF Loading
<1>2. \A e \in LoadOps : e.op = "lw" BY DEF LoadOps, E!Lw, E!Op
<1> QED BY <1>1, <1>2

LEMMA OpFields ==
  ASSUME NEW op, NEW rd, NEW rs, NEW rt, NEW imm, NEW target
  PROVE  LET e == E!Op(op, rd, rs, rt, imm, target)
         IN /\ e.op = op /\ e.rd = rd /\ e.rs = rs /\ e.rt = rt /\ e.imm = imm
            /\ e.target = target
BY DEF E!Op

LEMMA OpNames ==
  ASSUME NEW r, NEW s, NEW t, NEW v
  PROVE  /\ E!Lw(r, v).op = "lw" /\ E!Sw(r, v).op = "sw" /\ E!Li(r, v).op = "li"
         /\ E!Move(r, s).op = "move" /\ E!Neg(r).op = "neg" /\ E!Addi(r, s, v).op = "addi"
         /\ E!Three(v, r, s, t).op = v /\ E!SwStack(r, v).op = "sw_sp"
         /\ E!LwStack(r, v).op = "lw_sp" /\ E!Stack(v).op = "addi" /\ E!Jump(r, v).op = r
BY OpFields DEF E!Lw, E!Sw, E!Li, E!Move, E!Neg, E!Addi, E!Three, E!SwStack, E!LwStack,
      E!Stack, E!Jump

LEMMA BlockNoLabel ==
  ASSUME NEW b, NEW loads, NEW ops, Loading(loads), Block(b, loads, ops), Len(ops) \in Nat,
         Len(ops) > 0, ops[1].op # "label"
  PROVE  NoLabel(b)
<1>1. /\ Len(loads) \in Nat /\ \A i \in 1..Len(loads) : loads[i].op = "lw"
  BY LoadsAreTyped
<1>2. Len(b) = Len(loads) + Len(ops) BY DEF Block
<1>3. CASE Len(loads) = 0
  <2>1. b[Len(loads) + 1] = ops[1] BY DEF Block
  <2> QED BY <1>2, <1>3, <2>1 DEF NoLabel
<1>4. CASE Len(loads) > 0
  <2>1. b[1] = loads[1] /\ loads[1].op = "lw" BY <1>1, <1>4 DEF Block
  <2> QED BY <1>1, <1>2, <1>4, <2>1 DEF NoLabel
<1> QED BY <1>1, <1>3, <1>4

LEMMA NoneAnd == ASSUME NEW S, NEW s \in Seq(S) PROVE <<>> \o s = s
OBVIOUS

LEMMA Literals ==
  ASSUME NEW a, NEW b, NEW c
  PROVE  /\ <<a>> \in Seq({a}) /\ Len(<<a>>) = 1 /\ <<a>>[1] = a
         /\ <<a, b>> \in Seq({a, b}) /\ Len(<<a, b>>) = 2 /\ <<a, b>>[1] = a /\ <<a, b>>[2] = b
         /\ <<a, b, c>> \in Seq({a, b, c}) /\ Len(<<a, b, c>>) = 3 /\ <<a, b, c>>[1] = a
         /\ <<a, b, c>>[2] = b /\ <<a, b, c>>[3] = c
OBVIOUS

(* A handler's code is its loads and what it emits itself.                 *)
LEMMA LoadsThen ==
  ASSUME NEW loads, Loading(loads), NEW S, NEW ops \in Seq(S)
  PROVE  Block(loads \o ops, loads, ops)
<1>1. loads \in Seq(LoadOps) BY LoadsAreTyped
<1> QED BY <1>1, Joined

LEMMA LoadsThenSome ==
  ASSUME NEW loads, Loading(loads), NEW a, NEW b, NEW c
  PROVE  /\ Block(loads \o <<a>>, loads, <<a>>)
         /\ Block(loads \o <<a, b>>, loads, <<a, b>>)
         /\ Block(loads \o <<a, b, c>>, loads, <<a, b, c>>)
<1> DEFINE r == <<a>> s == <<a, b>> t == <<a, b, c>>
<1>1. r \in Seq({a}) /\ s \in Seq({a, b}) /\ t \in Seq({a, b, c}) BY Literals
<1> HIDE DEF r, s, t
<1>2. Block(loads \o r, loads, r) BY <1>1, LoadsThen
<1>3. Block(loads \o s, loads, s) BY <1>1, LoadsThen
<1>4. Block(loads \o t, loads, t) BY <1>1, LoadsThen
<1> QED BY <1>2, <1>3, <1>4 DEF r, s, t

LEMMA SomeNoLabel ==
  ASSUME NEW loads, Loading(loads), NEW a, NEW b, NEW c, a.op # "label"
  PROVE  /\ NoLabel(loads \o <<a>>) /\ NoLabel(loads \o <<a, b>>)
         /\ NoLabel(loads \o <<a, b, c>>)
<1> DEFINE r == <<a>> s == <<a, b>> t == <<a, b, c>>
<1>1. /\ Block(loads \o r, loads, r) /\ Block(loads \o s, loads, s)
      /\ Block(loads \o t, loads, t)
  BY LoadsThenSome
<1>2. /\ Len(r) = 1 /\ r[1] = a /\ Len(s) = 2 /\ s[1] = a /\ Len(t) = 3 /\ t[1] = a
  OBVIOUS
<1> HIDE DEF r, s, t
<1> DEFINE x == loads \o r y == loads \o s z == loads \o t
<1>3. Block(x, loads, r) /\ Block(y, loads, s) /\ Block(z, loads, t) BY <1>1
<1> HIDE DEF x, y, z
<1>4. NoLabel(x) BY <1>2, <1>3, BlockNoLabel
<1>5. NoLabel(y) BY <1>2, <1>3, BlockNoLabel
<1>6. NoLabel(z) BY <1>2, <1>3, BlockNoLabel
<1> QED BY <1>4, <1>5, <1>6 DEF x, y, z, r, s, t

LEMMA Ready ==
  ASSUME Laying
  PROVE  /\ Listed /\ ParamsEntered
         /\ "s0" \in available /\ "t2" \in available /\ {"s0", "t2"} \subseteq available
BY DEF Laying, Emitted, Formed, RegistersLeft

LEMMA ConstantLays ==
  ASSUME Laying, E!EmitAssign, Ins1.kind = "CONSTANT"
  PROVE  (\E b, list : Lays(b, list)) /\ available' = E!Allocatable
<1> DEFINE ins == Ins1 x == Variable(ins.op1) G == E!Grants
           li == E!Li("s0", ins.value) sw == E!Sw("s0", SlotIn(G.list, ins.op1))
<1>1. ins.op1 \in Names BY NowIs, OperandNames
<1>2. E!Now.kind = "ASSIGN" /\ E!Now.r1 = T!Number(ins.value)
      /\ E!Requests(E!Now) = <<E!WriteOf(x)>>
  BY NowIs, RequestForms
<1>3. x.name = Text(ins.op1).text /\ x.name \in Texts BY <1>1, VariableIs
<1>4. Lists(G) /\ Writes(G, x.name) /\ G.loads = <<>>
  BY <1>2, <1>3, Ready, GrantedW DEF E!Grants
<1>5. E!IsConstant(E!Now.r1) /\ E!Now.r1.value = ins.value BY <1>2, NumberIs
<1>6. E!X = "s0" /\ E!Loads = <<>> /\ E!Store = sw
  BY <1>3, <1>4 DEF E!X, E!Loads, E!Store, Writes, SlotIn
<1>7. E!Emit(<<>> \o <<li, sw>>) /\ available' = E!Allocatable
  BY <1>5, <1>6 DEF E!EmitAssign, E!restore_reg
<1> HIDE DEF li, sw, G
<1>8. E!Emit(<<li, sw>>) BY <1>7, Literals, NoneAnd
<1>9. StoredIn(G.list, ins.op1) BY <1>3, <1>4 DEF Writes, StoredIn
<1>10. NoLabel(<<li, sw>>) BY Literals, OpNames DEF NoLabel, li
<1>11. ConstantForm(G.list, tac_code, <<li, sw>>) BY <1>9 DEF ConstantForm, li, sw, Ins1
<1>12. Form(G.list, tac_code, <<li, sw>>) BY <1>10, <1>11 DEF Form, NoLabel, Ins1
<1>13. Defined(ins) = ins.op1 BY DEF Defined
<1>14. Lays(<<li, sw>>, G.list) BY <1>4, <1>8, <1>9, <1>12, <1>13, EmitIs DEF Lays, G
<1> QED BY <1>7, <1>14

LEMMA AssignLays ==
  ASSUME Laying, E!EmitAssign, Ins1.kind = "ASSIGN"
  PROVE  (\E b, list : Lays(b, list)) /\ available' = E!Allocatable
<1> DEFINE ins == Ins1 x == Variable(ins.op1) v == Variable(ins.op2) G == E!Grants
           y == G.regs[2]
           mv == E!Move("s0", y) sw == E!Sw("s0", SlotIn(G.list, ins.op1))
           b == G.loads \o <<mv, sw>>
<1>1. ins.op1 \in Names /\ ins.op2 \in Names BY NowIs, OperandNames
<1>2. E!Now.kind = "ASSIGN" /\ E!Now.r1 = v
      /\ E!Requests(E!Now) = <<E!WriteOf(x), E!ReadOf(v)>>
  BY NowIs, RequestForms
<1>3. /\ x.name = Text(ins.op1).text /\ x.name \in Texts
      /\ v.name = Text(ins.op2).text /\ v.name \in Texts /\ ~ E!IsConstant(v)
  BY <1>1, VariableIs
<1>4. /\ Lists(G) /\ Writes(G, x.name)
      /\ Loading(G.loads) /\ Took(G.list, G.loads, v.name, y)
  BY <1>2, <1>3, Ready, GrantedWR DEF E!Grants
<1>6. E!X = "s0" /\ E!Y = y /\ E!Loads = G.loads /\ E!Store = sw
  BY <1>3, <1>4 DEF E!X, E!Y, E!Loads, E!Store, Writes, SlotIn
<1>7. E!Emit(b) /\ available' = E!Allocatable
  BY <1>2, <1>3, <1>6 DEF E!EmitAssign, E!restore_reg
<1> HIDE DEF mv, sw, G, y
<1>8. Block(b, G.loads, <<mv, sw>>) BY <1>4, LoadsThenSome
<1>9. StoredIn(G.list, ins.op1) BY <1>3, <1>4 DEF Writes, StoredIn
<1>10. NoLabel(b)
  <2>1. mv.op # "label" BY OpNames DEF mv
  <2> QED BY <1>4, <2>1, SomeNoLabel
<1> HIDE DEF b
<1>11. IsIn(G.list, G.loads, tac_code, ins.op2, y) BY <1>3, <1>4, Ready, TookIsIn
<1>12. AssignForm(G.list, tac_code, b) BY <1>4, <1>8, <1>9, <1>11 DEF AssignForm, mv, sw, Ins1
<1>13. Form(G.list, tac_code, b) BY <1>10, <1>12 DEF Form, NoLabel, Ins1
<1>14. Defined(ins) = ins.op1 BY DEF Defined
<1>15. Lays(b, G.list) BY <1>4, <1>7, <1>9, <1>13, <1>14, EmitIs DEF Lays, G
<1> QED BY <1>7, <1>15

LEMMA AppendedLast ==
  ASSUME NEW a, NEW b, NEW c
  PROVE  <<a>> \o <<c>> = <<a, c>> /\ <<a, b>> \o <<c>> = <<a, b, c>>
<1>1. <<a>> \o <<c>> = <<a, c>> BY OneAndOne
<1> DEFINE S == {a, b, c} s == <<a, b>> t == <<c>> u == <<a, b, c>>
<1>2. /\ s \in Seq(S) /\ t \in Seq(S) /\ u \in Seq(S)
      /\ Len(s) = 2 /\ Len(t) = 1 /\ Len(u) = 3
      /\ s[1] = a /\ s[2] = b /\ t[1] = c /\ u[1] = a /\ u[2] = b /\ u[3] = c
  OBVIOUS
<1> HIDE DEF s, t, u, S
<1> DEFINE v == s \o t
<1>3. /\ v \in Seq(S) /\ Len(v) = Len(s) + Len(t)
      /\ \A i \in 1..Len(s) : v[i] = s[i]
      /\ \A i \in 1..Len(t) : v[Len(s) + i] = t[i]
  <2>1. s \in Seq(S) /\ t \in Seq(S) BY <1>2
  <2> QED BY <2>1, Concatenated
<1> HIDE DEF v
<1>4. Len(v) = 3 /\ v[1] = a /\ v[2] = b /\ v[2 + 1] = c BY <1>2, <1>3
<1>5. v = u BY <1>2, <1>3, <1>4, SameSequence
<1> QED BY <1>1, <1>5 DEF s, t, u, v

LEMMA JoinedThree ==
  ASSUME NEW S, NEW loads \in Seq(S), NEW R, NEW s \in Seq(R), NEW t \in Seq(R)
  PROVE  (loads \o s) \o t = loads \o (s \o t)
<1> DEFINE U == S \cup R
<1>1. loads \in Seq(U) /\ s \in Seq(U) /\ t \in Seq(U) OBVIOUS
<1> HIDE DEF U
<1> DEFINE a == loads \o s b == s \o t c == a \o t d == loads \o b
<1>2. /\ a \in Seq(U) /\ Len(a) = Len(loads) + Len(s)
      /\ b \in Seq(U) /\ Len(b) = Len(s) + Len(t)
      /\ Len(loads) \in Nat /\ Len(s) \in Nat /\ Len(t) \in Nat
      /\ \A i \in 1..Len(loads) : a[i] = loads[i]
      /\ \A i \in 1..Len(s) : a[Len(loads) + i] = s[i]
      /\ \A i \in 1..Len(s) : b[i] = s[i]
      /\ \A i \in 1..Len(t) : b[Len(s) + i] = t[i]
  BY <1>1, Concatenated
<1> HIDE DEF a, b
<1>3. /\ c \in Seq(U) /\ Len(c) = Len(a) + Len(t)
      /\ \A i \in 1..Len(a) : c[i] = a[i]
      /\ \A i \in 1..Len(t) : c[Len(a) + i] = t[i]
      /\ d \in Seq(U) /\ Len(d) = Len(loads) + Len(b)
      /\ \A i \in 1..Len(loads) : d[i] = loads[i]
      /\ \A i \in 1..Len(b) : d[Len(loads) + i] = b[i]
  <2>1. loads \in Seq(U) /\ t \in Seq(U) /\ a \in Seq(U) /\ b \in Seq(U) BY <1>1, <1>2
  <2>2. /\ c \in Seq(U) /\ Len(c) = Len(a) + Len(t)
        /\ \A i \in 1..Len(a) : c[i] = a[i]
        /\ \A i \in 1..Len(t) : c[Len(a) + i] = t[i]
    BY <2>1, Concatenated
  <2>3. /\ d \in Seq(U) /\ Len(d) = Len(loads) + Len(b)
        /\ \A i \in 1..Len(loads) : d[i] = loads[i]
        /\ \A i \in 1..Len(b) : d[Len(loads) + i] = b[i]
    BY <2>1, Concatenated
  <2> QED BY <2>2, <2>3
<1> HIDE DEF c, d
<1>4. ASSUME NEW i \in 1..Len(c) PROVE c[i] = d[i]
  <2>1. CASE i <= Len(loads) BY <1>2, <1>3, <2>1
  <2>2. CASE i > Len(loads) /\ i <= Len(loads) + Len(s)
    <3> DEFINE j == i - Len(loads)
    <3>1. j \in 1..Len(s) /\ j \in 1..Len(b) /\ i = Len(loads) + j /\ i \in 1..Len(a)
      BY <1>2, <1>3, <2>2
    <3> HIDE DEF j
    <3> QED BY <1>2, <1>3, <3>1
  <2>3. CASE i > Len(loads) + Len(s)
    <3> DEFINE j == i - (Len(loads) + Len(s))
    <3>1. j \in 1..Len(t) /\ Len(s) + j \in 1..Len(b) /\ i = Len(loads) + (Len(s) + j)
          /\ i = Len(a) + j
      BY <1>2, <1>3, <2>3
    <3> HIDE DEF j
    <3> QED BY <1>2, <1>3, <3>1
  <2>4. i \in Int /\ Len(loads) \in Int /\ Len(s) \in Int BY <1>2
  <2>5. \/ i <= Len(loads)
        \/ i > Len(loads) /\ i <= Len(loads) + Len(s)
        \/ i > Len(loads) + Len(s)
    BY <2>4
  <2> QED BY <2>1, <2>2, <2>3, <2>5
<1>5. c = d
  <2>1. c \in Seq(U) /\ d \in Seq(U) /\ Len(c) = Len(d) BY <1>2, <1>3
  <2> QED BY <2>1, <1>4, SameSequence
<1> QED BY <1>5 DEF c, d, a, b

LEMMA BinaryLays ==
  ASSUME Laying, E!Next, phase' # "aborted", Ins1.kind = "BINARY"
  PROVE  (\E b, list : Lays(b, list)) /\ available' = E!Allocatable
<1> DEFINE ins == Ins1 x == Variable(ins.result) u == Variable(ins.op1) v == Variable(ins.op2)
           G == E!Grants y == G.regs[2] z == G.regs[3]
           sw == E!Sw("s0", SlotIn(G.list, ins.result))
           ops == Operates(ins.relation, y, z)
           b == G.loads \o (ops \o <<sw>>)
<1>1. /\ ins.op1 \in Names /\ ins.op2 \in Names /\ ins.result \in Names
      /\ ins.relation \in {"+", "-", "*", "/"}
  BY NowIs, OperandNames
<1>2. E!Now.kind = Operation(ins.relation) /\ E!Now.r1 = u /\ E!Now.r2 = v
      /\ E!Requests(E!Now) = <<E!WriteOf(x), E!ReadOf(u), E!ReadOf(v)>>
  BY NowIs, RequestForms
<1>3. /\ x.name = Text(ins.result).text /\ x.name \in Texts
      /\ u.name = Text(ins.op1).text /\ u.name \in Texts /\ ~ E!IsConstant(u)
      /\ v.name = Text(ins.op2).text /\ v.name \in Texts /\ ~ E!IsConstant(v)
  BY <1>1, VariableIs
<1>4. /\ Lists(G) /\ Writes(G, x.name) /\ Loading(G.loads)
      /\ Took(G.list, G.loads, u.name, y) /\ Took(G.list, G.loads, v.name, z)
  BY <1>2, <1>3, Ready, GrantedWRR DEF E!Grants
<1>6. E!X = "s0" /\ E!Y = y /\ E!Z = z /\ E!Loads = G.loads /\ E!Store = sw
  BY <1>3, <1>4 DEF E!X, E!Y, E!Z, E!Loads, E!Store, Writes, SlotIn
<1>7. /\ ins.relation = "+" => E!EmitAdd
      /\ ins.relation = "-" => E!EmitSub
      /\ ins.relation = "*" => E!EmitMul
      /\ ins.relation = "/" => E!EmitDiv
  BY <1>2, NowIs, HandlerIs DEF Operation, Laying
<1> HIDE DEF G, y, z
<1>8. E!Emit(b) /\ available' = E!Allocatable
  <2> HIDE DEF sw
  <2>1. CASE ins.relation = "+"
    <3> DEFINE e == E!Three("add", "s0", y, z)
    <3>1. E!Emit(G.loads \o <<e, sw>>) /\ available' = E!Allocatable
      BY <1>2, <1>3, <1>6, <1>7, <2>1 DEF E!EmitAdd, E!restore_reg
    <3>2. ops = <<e>> BY <2>1 DEF Operates
    <3> HIDE DEF e, ops
    <3> QED BY <3>1, <3>2, AppendedLast
  <2>2. CASE ins.relation = "-"
    <3> DEFINE e == E!Three("sub", "s0", y, z)
    <3>1. E!Emit((G.loads \o <<e>>) \o <<sw>>) /\ available' = E!Allocatable
      BY <1>2, <1>3, <1>6, <1>7, <2>2 DEF E!EmitSub, E!restore_reg
    <3>2. ops = <<e>> BY <2>2 DEF Operates
    <3> HIDE DEF e, ops
    <3>3. (G.loads \o <<e>>) \o <<sw>> = G.loads \o (<<e>> \o <<sw>>)
      <4>1. <<e>> \in Seq({e, sw}) /\ <<sw>> \in Seq({e, sw}) OBVIOUS
      <4>2. G.loads \in Seq(LoadOps) BY <1>4, LoadsAreTyped
      <4> QED BY <4>1, <4>2, JoinedThree
    <3> QED BY <3>1, <3>2, <3>3
  <2>3. CASE ins.relation = "*"
    <3> DEFINE e == E!Three("mul", "s0", y, z)
    <3>1. E!Emit(G.loads \o <<e, sw>>) /\ available' = E!Allocatable
      BY <1>6, <1>7, <2>3 DEF E!EmitMul, E!restore_reg
    <3>2. ops = <<e>> BY <2>3 DEF Operates
    <3> HIDE DEF e, ops
    <3> QED BY <3>1, <3>2, AppendedLast
  <2>4. CASE ins.relation = "/"
    <3> DEFINE e == E!Three("div", E!None, y, z) f == E!Three("mflo", "s0", E!None, E!None)
    <3>1. E!Emit(G.loads \o <<e, f, sw>>) /\ available' = E!Allocatable
      BY <1>6, <1>7, <2>4 DEF E!EmitDiv, E!restore_reg
    <3>2. ops = <<e, f>> BY <2>4 DEF Operates
    <3> HIDE DEF e, f, ops
    <3> QED BY <3>1, <3>2, AppendedLast
  <2> QED BY <1>1, <2>1, <2>2, <2>3, <2>4
<1>9. StoredIn(G.list, ins.result) BY <1>3, <1>4 DEF Writes, StoredIn
<1>10. Block(b, G.loads, ops \o <<sw>>) /\ NoLabel(b)
  <2> HIDE DEF sw
  <2>1. \E e, f : /\ e.op # "label"
                  /\ ops = <<e>> \/ ops = <<e, f>>
    <3>1. \A w : E!Three(w, "s0", y, z).op = w /\ E!Three(w, E!None, y, z).op = w
      BY OpNames
    <3> QED BY <1>1, <3>1 DEF Operates
  <2> HIDE DEF ops
  <2>2. PICK e, f : e.op # "label" /\ (ops = <<e>> \/ ops = <<e, f>>) BY <2>1
  <2>3. ops \o <<sw>> = <<e, sw>> \/ ops \o <<sw>> = <<e, f, sw>> BY <2>2, AppendedLast
  <2> DEFINE all1 == ops \o <<sw>>
  <2> HIDE DEF all1
  <2>4. /\ all1 \in Seq({e, f, sw})
        /\ Len(all1) \in Nat /\ Len(all1) > 0 /\ all1[1].op # "label"
    <3>1. /\ <<e, sw>> \in Seq({e, f, sw}) /\ Len(<<e, sw>>) = 2 /\ <<e, sw>>[1] = e
          /\ <<e, f, sw>> \in Seq({e, f, sw}) /\ Len(<<e, f, sw>>) = 3
          /\ <<e, f, sw>>[1] = e
      OBVIOUS
    <3>2. CASE all1 = <<e, sw>> BY <2>2, <3>1, <3>2
    <3>3. CASE all1 = <<e, f, sw>> BY <2>2, <3>1, <3>3
    <3> QED BY <2>3, <3>2, <3>3 DEF all1
  <2>5. Block(b, G.loads, all1) BY <1>4, <2>4, LoadsThen DEF all1
  <2> HIDE DEF b
  <2>6. NoLabel(b) BY <1>4, <2>4, <2>5, BlockNoLabel
  <2> QED BY <2>5, <2>6 DEF all1
<1> HIDE DEF b
<1>11. /\ IsIn(G.list, G.loads, tac_code, ins.op1, y)
       /\ IsIn(G.list, G.loads, tac_code, ins.op2, z)
  BY <1>3, <1>4, Ready, TookIsIn
<1>12. BinaryForm(G.list, tac_code, b)
  BY <1>4, <1>9, <1>10, <1>11 DEF BinaryForm, Ins1
<1>13. Form(G.list, tac_code, b) BY <1>10, <1>12 DEF Form, NoLabel, Ins1
<1>14. Defined(ins) = ins.result BY DEF Defined
<1>15. Lays(b, G.list) BY <1>4, <1>8, <1>9, <1>13, <1>14, EmitIs DEF Lays, G
<1> QED BY <1>8, <1>15

LEMMA MinusLays ==
  ASSUME Laying, E!EmitSub, Ins1.kind = "MINUS"
  PROVE  (\E b, list : Lays(b, list)) /\ available' = E!Allocatable
<1> DEFINE ins == Ins1 x == Variable(ins.result) v == Variable(ins.op1) G == E!Grants
           y == G.regs[2]
           ng == E!Neg(y) ad == E!Addi("s0", y, 0)
           sw == E!Sw("s0", SlotIn(G.list, ins.result))
           b == G.loads \o <<ng, ad, sw>>
<1>1. ins.op1 \in Names /\ ins.result \in Names BY NowIs, OperandNames
<1>2. /\ E!Now.r1 = T!Number(0)
      /\ E!Requests(E!Now) = <<E!WriteOf(x), E!ReadOf(v)>>
  BY NowIs, RequestForms
<1>3. /\ x.name = Text(ins.result).text /\ x.name \in Texts
      /\ v.name = Text(ins.op1).text /\ v.name \in Texts
  BY <1>1, VariableIs
<1>4. /\ Lists(G) /\ Writes(G, x.name)
      /\ Loading(G.loads) /\ Took(G.list, G.loads, v.name, y)
  BY <1>2, <1>3, Ready, GrantedWR DEF E!Grants
<1>5. E!IsConstant(E!Now.r1) /\ E!Now.r1.value = 0 BY <1>2, NumberIs
<1>6. E!X = "s0" /\ E!Y = y /\ E!Loads = G.loads /\ E!Store = sw
  BY <1>3, <1>4 DEF E!X, E!Y, E!Loads, E!Store, Writes, SlotIn
<1>7. E!Emit((G.loads \o <<ng, ad>>) \o <<sw>>) /\ available' = E!Allocatable
  BY <1>5, <1>6 DEF E!EmitSub, E!restore_reg
<1> HIDE DEF ng, ad, sw, G, y
<1>a. E!Emit(b)
  <2>1. <<ng, ad>> \in Seq({ng, ad, sw}) /\ <<sw>> \in Seq({ng, ad, sw}) OBVIOUS
  <2>2. G.loads \in Seq(LoadOps) BY <1>4, LoadsAreTyped
  <2>3. (G.loads \o <<ng, ad>>) \o <<sw>> = G.loads \o (<<ng, ad>> \o <<sw>>)
    BY <2>1, <2>2, JoinedThree
  <2> QED BY <1>7, <2>3, AppendedLast
<1>8. Block(b, G.loads, <<ng, ad, sw>>) BY <1>4, LoadsThenSome
<1>9. StoredIn(G.list, ins.result) BY <1>3, <1>4 DEF Writes, StoredIn
<1>10. NoLabel(b)
  <2>1. ng.op # "label" BY OpNames DEF ng
  <2> QED BY <1>4, <2>1, SomeNoLabel
<1> HIDE DEF b
<1>11. IsIn(G.list, G.loads, tac_code, ins.op1, y) BY <1>3, <1>4, Ready, TookIsIn
<1>12. MinusForm(G.list, tac_code, b)
  BY <1>4, <1>8, <1>9, <1>11 DEF MinusForm, ng, ad, sw, Ins1
<1>13. Form(G.list, tac_code, b) BY <1>10, <1>12 DEF Form, NoLabel, Ins1
<1>14. Defined(ins) = ins.result BY DEF Defined
<1>15. Lays(b, G.list) BY <1>4, <1>a, <1>9, <1>13, <1>14, EmitIs DEF Lays, G
<1> QED BY <1>7, <1>15

LEMMA BranchLays ==
  ASSUME Laying, E!EmitBranch, Ins1.kind = "IF_GOTO"
  PROVE  (\E b, list : Lays(b, list)) /\ available' = E!Allocatable
<1> DEFINE ins == Ins1 u == Variable(ins.op1) v == Variable(ins.op2) G == E!Grants
           y == G.regs[1] z == G.regs[2]
           op == E!Op(Comparison(ins.relation), E!None, y, z, 0, ins.result)
           b == G.loads \o <<op>>
<1>1. ins.op1 \in Names /\ ins.op2 \in Names BY NowIs, OperandNames
<1>2. /\ E!Now.kind = Comparison(ins.relation) /\ E!Now.r1 = u /\ E!Now.r2 = v
      /\ E!Now.target = ins.result
      /\ E!Requests(E!Now) = <<E!ReadOf(u), E!ReadOf(v)>>
  BY NowIs, RequestForms
<1>3. /\ u.name = Text(ins.op1).text /\ u.name \in Texts /\ ~ E!IsConstant(u)
      /\ v.name = Text(ins.op2).text /\ v.name \in Texts /\ ~ E!IsConstant(v)
  BY <1>1, VariableIs
<1>4. /\ Lists(G) /\ Loading(G.loads) /\ Len(G.regs) = 2
      /\ Took(G.list, G.loads, u.name, y) /\ Took(G.list, G.loads, v.name, z)
  BY <1>2, <1>3, Ready, GrantedRR DEF E!Grants
<1>5. G.loads \in Seq(LoadOps) BY <1>4, LoadsAreTyped
<1>6. E!X = y /\ E!Loads = G.loads /\ E!Grants.regs[Len(E!Grants.regs)] = z
  BY <1>4 DEF E!X, E!Loads
<1>7. E!Emit(((<<>> \o G.loads) \o <<>>) \o <<op>>) /\ available' = E!Allocatable
  BY <1>2, <1>3, <1>6 DEF E!EmitBranch, E!restore_reg
<1> HIDE DEF op, G, y, z
<1>a. E!Emit(b)
  <2> DEFINE loads == G.loads
  <2>1. loads \in Seq(LoadOps) BY <1>5
  <2> HIDE DEF loads
  <2>2. <<>> \o loads = loads /\ loads \o <<>> = loads BY <2>1
  <2> QED BY <1>7, <2>2 DEF loads
<1>8. Block(b, G.loads, <<op>>) BY <1>4, LoadsThenSome
<1>10. NoLabel(b)
  <2>1. op.op # "label" BY OpFields DEF op, Comparison
  <2> QED BY <1>4, <2>1, SomeNoLabel
<1> HIDE DEF b
<1>11. /\ IsIn(G.list, G.loads, tac_code, ins.op1, y)
       /\ IsIn(G.list, G.loads, tac_code, ins.op2, z)
  BY <1>3, <1>4, Ready, TookIsIn
<1>12. BranchForm(G.list, tac_code, b) BY <1>4, <1>8, <1>11 DEF BranchForm, op, Ins1
<1>13. Form(G.list, tac_code, b) BY <1>10, <1>12 DEF Form, NoLabel, Ins1
<1>14. Defined(ins) \notin Names BY NamesAssumption DEF Defined, Names
<1>15. Lays(b, G.list) BY <1>4, <1>a, <1>13, <1>14, EmitIs DEF Lays, G
<1> QED BY <1>7, <1>15

LEMMA ReturnLays ==
  ASSUME Laying, E!EmitReturn, Ins1.kind = "RETURN"
  PROVE  /\ \E b, list : Lays(b, list)
         /\ available' = FreeOf(available, Text(Ins1.op1).text)
<1> DEFINE ins == Ins1 u == Variable(ins.op1) G == E!Grants
           y == G.regs[1]
           mv == E!Move("v0", y) jr == E!Jump("jr", NoName)
           b == G.loads \o <<mv, jr>>
<1>1. ins.op1 \in Names BY NowIs, OperandNames
<1>2. E!Now.r1 = u /\ E!Requests(E!Now) = <<E!ReadOf(u)>>
  BY NowIs, RequestForms
<1>3. u.name = Text(ins.op1).text /\ u.name \in Texts /\ ~ E!IsConstant(u)
  BY <1>1, VariableIs
<1>4. /\ Lists(G) /\ Loading(G.loads) /\ Took(G.list, G.loads, u.name, y)
      /\ G.free = FreeOf(available, u.name)
  BY <1>2, <1>3, Ready, GrantedR DEF E!Grants
<1>6. E!X = y /\ E!Loads = G.loads BY <1>4 DEF E!X, E!Loads
<1>7. E!Emit(b) /\ available' = G.free
  BY <1>2, <1>3, <1>6 DEF E!EmitReturn
<1> HIDE DEF mv, jr, G, y
<1>8. Block(b, G.loads, <<mv, jr>>) BY <1>4, LoadsThenSome
<1>10. NoLabel(b)
  <2>1. mv.op # "label" BY OpNames DEF mv
  <2> QED BY <1>4, <2>1, SomeNoLabel
<1> HIDE DEF b
<1>11. IsIn(G.list, G.loads, tac_code, ins.op1, y) BY <1>3, <1>4, Ready, TookIsIn
<1>12. ReturnForm(G.list, tac_code, b) BY <1>4, <1>8, <1>11 DEF ReturnForm, mv, jr, Ins1
<1>13. Form(G.list, tac_code, b) BY <1>10, <1>12 DEF Form, NoLabel, Ins1
<1>14. Defined(ins) \notin Names BY NamesAssumption DEF Defined, Names
<1>15. Lays(b, G.list) BY <1>4, <1>7, <1>13, <1>14, EmitIs DEF Lays, G
<1> QED BY <1>3, <1>4, <1>7, <1>15

LEMMA ReadLays ==
  ASSUME Laying, E!EmitRead, Ins1.kind = "READ"
  PROVE  (\E b, list : Lays(b, list)) /\ available' = E!Allocatable
<1> DEFINE ins == Ins1 x == Variable(ins.op1) G == E!Grants
           sw == E!Sw("s0", SlotIn(G.list, ins.op1))
           b == <<E!Stack(-4), E!SwStack("ra", 0), E!Jump("jal", "read"), E!LwStack("ra", 0),
                  E!Stack(4), E!Move("s0", "v0"), sw>>
<1>1. ins.op1 \in Names BY NowIs, OperandNames
<1>2. E!Requests(E!Now) = <<E!WriteOf(x)>> BY NowIs, RequestForms
<1>3. x.name = Text(ins.op1).text /\ x.name \in Texts BY <1>1, VariableIs
<1>4. Lists(G) /\ Writes(G, x.name) BY <1>2, <1>3, Ready, GrantedW DEF E!Grants
<1>6. E!X = "s0" /\ E!Store = sw BY <1>3, <1>4 DEF E!X, E!Store, Writes, SlotIn
<1>7. E!Emit(b) /\ available' = E!Allocatable
  BY <1>6 DEF E!EmitRead, E!restore_reg
<1>9. StoredIn(G.list, ins.op1) BY <1>3, <1>4 DEF Writes, StoredIn
<1>10. NoLabel(b)
  <2>1. E!Stack(-4).op # "label" BY OpNames
  <2> QED BY <2>1 DEF NoLabel
<1>12. ReadForm(G.list, tac_code, b) BY <1>9 DEF ReadForm, Ins1
<1> HIDE DEF b, G
<1>13. Form(G.list, tac_code, b) BY <1>10, <1>12 DEF Form, NoLabel, Ins1
<1>14. Defined(ins) = ins.op1 BY DEF Defined
<1>15. Lays(b, G.list) BY <1>4, <1>7, <1>9, <1>13, <1>14, EmitIs DEF Lays, G
<1> QED BY <1>7, <1>15

LEMMA WriteLays ==
  ASSUME Laying, E!EmitWrite, Ins1.kind = "WRITE"
  PROVE  (\E b, list : Lays(b, list)) /\ available' = E!Allocatable
<1> DEFINE ins == Ins1 x == Variable(ins.op1) G == E!Grants
           b == <<E!Move("t7", "a0"), E!Move("a0", "s0"), E!Stack(-4), E!SwStack("ra", 0),
                  E!Jump("jal", "write"), E!LwStack("ra", 0), E!Stack(4), E!Move("a0", "t7")>>
<1>1. ins.op1 \in Names BY NowIs, OperandNames
<1>2. E!Requests(E!Now) = <<E!WriteOf(x)>> BY NowIs, RequestForms
<1>3. x.name = Text(ins.op1).text /\ x.name \in Texts BY <1>1, VariableIs
<1>4. Lists(G) /\ Writes(G, x.name) BY <1>2, <1>3, Ready, GrantedW DEF E!Grants
<1>6. E!X = "s0" BY <1>4 DEF E!X, Writes
<1>7. E!Emit(b) /\ available' = E!Allocatable
  BY <1>6 DEF E!EmitWrite, E!restore_reg
<1>10. NoLabel(b)
  <2>1. E!Move("t7", "a0").op # "label" BY OpNames
  <2> QED BY <2>1 DEF NoLabel
<1>12. WriteForm(b) BY DEF WriteForm
<1> HIDE DEF b, G
<1>13. Form(G.list, tac_code, b) BY <1>10, <1>12 DEF Form, NoLabel, Ins1
<1>14. Defined(ins) \notin Names BY NamesAssumption DEF Defined, Names
<1>15. Lays(b, G.list) BY <1>4, <1>7, <1>13, <1>14, EmitIs DEF Lays, G
<1> QED BY <1>7, <1>15

LEMMA NothingGranted ==
  ASSUME Laying, E!Requests(E!Now) = <<>>
  PROVE  Lists(E!Grants)
<1>1. E!Grants = Start0 BY GrantedForms DEF E!Grants
<1>2. E!Grants.list = linklist BY <1>1, GivenFields DEF Start0
<1>3. Extends(linklist, linklist) BY DEF Extends
<1> QED BY <1>2, <1>3, Ready DEF Lists, Listed

LEMMA PlainLays ==
  ASSUME Laying, Ins1.kind \in {"LABEL", "FUNCTION", "GOTO", "DEC", "ARG"},
         E!EmitLabel \/ E!EmitGoto \/ E!EmitNothing
  PROVE  (\E b, list : Lays(b, list)) /\ available' = available
<1> DEFINE ins == Ins1 G == E!Grants
           b == IF ins.kind \in {"LABEL", "FUNCTION"} THEN <<E!Jump("label", ins.op1)>>
                ELSE IF ins.kind = "GOTO" THEN <<E!Jump("j", ins.op1)>> ELSE <<>>
<1>2. /\ E!Now.kind = ins.kind /\ E!Requests(E!Now) = <<>>
      /\ ins.kind \in {"LABEL", "FUNCTION", "GOTO"} => E!Now.target = ins.op1
  BY NowIs, RequestForms
<1>4. Lists(G) BY <1>2, NothingGranted
<1>7. E!Emit(b) /\ available' = available
  BY <1>2, HandledKinds DEF E!EmitLabel, E!EmitGoto, E!EmitNothing
<1>10. ins.kind \notin {"LABEL", "FUNCTION"} => NoLabel(b)
  <2>1. E!Jump("j", ins.op1).op # "label" BY OpNames
  <2> QED BY <2>1 DEF NoLabel
<1>13. Form(G.list, tac_code, b) BY <1>10 DEF Form, NoLabel, Ins1
<1> HIDE DEF b, G
<1>14. Defined(ins) \notin Names BY NamesAssumption DEF Defined, Names
<1>15. Lays(b, G.list) BY <1>4, <1>7, <1>13, <1>14, EmitIs DEF Lays, G
<1> QED BY <1>7, <1>15

LEMMA AddressLays ==
  ASSUME Laying, \/ Ins1.kind = "GET_VALUE_IN_ADDRESS" /\ E!EmitFetch
                 \/ Ins1.kind = "ASSIGN_VALUE_IN_ADDRESS" /\ E!EmitDeref
  PROVE  (\E b, list : Lays(b, list)) /\ available' = E!Allocatable
<1> DEFINE ins == Ins1 left == Variable(ins.result) u == Variable(ins.op1) G == E!Grants
<1>0. Ins1 \in Instructions /\ WellFormed(ins) /\ Printable(ins) BY NowIs DEF Instructions
<1>1. ins.op1 \in Names /\ ins.result \in Names
  BY <1>0, NamesAssumption DEF WellFormed, Printable, Names
<1>3. /\ left.name = Text(ins.result).text /\ left.name \in Texts
      /\ u.name = Text(ins.op1).text /\ u.name \in Texts
  BY <1>1, VariableIs
<1>5. CASE ins.kind = "GET_VALUE_IN_ADDRESS"
  <2> DEFINE lw == E!Three("lw_at", E!X, E!Y, E!None)
             b == G.loads \o <<lw, E!Store>>
  <2>1. E!Requests(E!Now) = <<E!WriteOf(left), E!ReadOf(u)>> BY <1>5, NowIs, RequestForms
  <2>2. Lists(G) /\ Writes(G, left.name) /\ Loading(G.loads)
    BY <1>3, <2>1, Ready, GrantedWR DEF E!Grants
  <2>3. E!Emit(b) /\ available' = E!Allocatable
    BY <1>5 DEF E!EmitFetch, E!restore_reg, E!Loads
  <2>4. lw.op # "label" BY OpNames
  <2>5. NoLabel(b) BY <2>2, <2>4, SomeNoLabel
  <2> HIDE DEF b, G
  <2>6. Form(G.list, tac_code, b) BY <1>5, <2>5 DEF Form, NoLabel, Ins1
  <2>7. StoredIn(G.list, ins.result) /\ Defined(ins) = ins.result
    BY <1>3, <1>5, <2>2 DEF Writes, StoredIn, Defined
  <2>8. Lays(b, G.list) BY <2>2, <2>3, <2>6, <2>7, EmitIs DEF Lays, G
  <2> QED BY <2>3, <2>8
<1>6. CASE ins.kind = "ASSIGN_VALUE_IN_ADDRESS"
  <2> DEFINE sw == E!Three("sw_at", E!None, E!Y, E!X)
             b == G.loads \o <<sw>>
  <2>1. E!Requests(E!Now) = <<E!ReadOf(left), E!ReadOf(u)>> BY <1>6, NowIs, RequestForms
  <2>2. Lists(G) /\ Loading(G.loads)
    BY <1>3, <2>1, Ready, GrantedRR DEF E!Grants
  <2>3. E!Emit(b) /\ available' = E!Allocatable
    BY <1>6 DEF E!EmitDeref, E!restore_reg, E!Loads
  <2>4. sw.op # "label" BY OpNames
  <2>5. NoLabel(b) BY <2>2, <2>4, SomeNoLabel
  <2> HIDE DEF b, G
  <2>6. Form(G.list, tac_code, b) BY <1>6, <2>5 DEF Form, NoLabel, Ins1
  <2>7. Defined(ins) \notin Names BY <1>6, NamesAssumption DEF Defined, Names
  <2>8. Lays(b, G.list) BY <2>2, <2>3, <2>6, <2>7, EmitIs DEF Lays, G
  <2> QED BY <2>3, <2>8
<1> QED BY <1>5, <1>6

(* The reader's kind is the compiler's, where the emitter looks around.    *)
LEMMA MeantKinds ==
  ASSUME NEW ins \in Instructions, Printable(ins), ~ UsesElement(ins)
  PROVE  /\ Meant(ins).kind = "ARG" <=> ins.kind = "ARG"
         /\ Meant(ins).kind = "PARAM" <=> ins.kind = "PARAM"
         /\ Meant(ins).kind = "RETURN" <=> ins.kind = "RETURN"
<1>1. ins.kind \in Kinds /\ ins.kind # "ARRAY_OFFSET"
      /\ (ins.kind = "BINARY" => ins.relation \in {"+", "-", "*", "/"})
  BY OperandNames
<1>2. ins.kind = "BINARY" => Operation(ins.relation) \in {"ADD", "SUB", "MUL", "DIV"}
  BY <1>1 DEF Operation
<1>3. \A r : Comparison(r) \in {"IFLT", "IFLE", "IFGT", "IFGE", "IFNE", "IFEQ"}
  BY DEF Comparison
<1>4. /\ ins.kind = "CONSTANT" => Meant(ins).kind = "ASSIGN"
      /\ ins.kind = "ASSIGN" => Meant(ins).kind = "ASSIGN"
      /\ ins.kind = "BINARY" => Meant(ins).kind = Operation(ins.relation)
      /\ ins.kind = "MINUS" => Meant(ins).kind = "SUB"
      /\ ins.kind = "IF_GOTO" => Meant(ins).kind = Comparison(ins.relation)
      /\ ins.kind = "GET_VALUE_IN_ADDRESS" => Meant(ins).kind = "FETCH"
      /\ ins.kind = "ASSIGN_VALUE_IN_ADDRESS" => Meant(ins).kind = "DEREF"
      /\ ins.kind \in {"LABEL", "FUNCTION", "GOTO", "DEC", "ARG", "PARAM", "RETURN", "WRITE",
                       "READ", "CALL"} => Meant(ins).kind = ins.kind
  BY RequestForms
<1> QED BY <1>1, <1>2, <1>3, <1>4 DEF Kinds

LEMMA SourceIs ==
  ASSUME Laying, NEW i \in 1..Len(Source)
  PROVE  /\ ir[i] = Meant(Source[i]) /\ Source[i] \in Instructions /\ Printable(Source[i])
         /\ ~ UsesElement(Source[i])
         /\ ir[i].kind = "ARG" <=> Source[i].kind = "ARG"
         /\ ir[i].kind = "PARAM" <=> Source[i].kind = "PARAM"
<1>1. BackEndInv /\ ~ Reading /\ NamesAreSafe /\ source.warnings = 0
  BY DEF Laying, Regular, Reading
<1>2. ir[i] = Meant(Source[i]) /\ Source[i] \in Instructions /\ Printable(Source[i])
  BY <1>1, ListIsProgram
<1>3. ~ UsesElement(Source[i]) BY DEF Laying, Regular, UsesArray, UsesElement
<1> QED BY <1>2, <1>3, MeantKinds

(* What an ARG passes has been set and is no parameter.                    *)
LEMMA ArgumentStored ==
  ASSUME Laying, NEW j \in 1..tac_code - 1, Source[j].kind = "ARG"
  PROVE  StoredIn(linklist, Source[j].op1) /\ ir[j].r1.name = Text(Source[j].op1).text
<1>0. j \in 1..Len(Source) /\ tac_code \in Nat /\ Len(Source) \in Nat BY NowIs
<1>1. Compiled(Source) BY RunAssumption DEF Laying, Regular, BackEndInv, Source
<1>2. Source[j].op1 \in Temps /\ \E h \in 1..j - 1 : Defined(Source[h]) = Source[j].op1
  BY <1>0, <1>1 DEF Compiled
<1>3. PICK h \in 1..j - 1 : Defined(Source[h]) = Source[j].op1 BY <1>2
<1>4. h \in 1..tac_code - 1 /\ h \in 1..Len(Source) BY <1>0
<1>5. Source[h].kind # "PARAM"
  <2>1. SUFFICES ASSUME Source[h].kind = "PARAM" PROVE FALSE OBVIOUS
  <2>2. Source[h].op1 \in Vars BY <1>1, <1>4, <2>1 DEF Compiled
  <2>3. Defined(Source[h]) = Source[h].op1 BY <2>1 DEF Defined
  <2> QED BY <1>2, <1>3, <2>2, <2>3, NamesAssumption
<1>6. Defined(Source[h]) \in Names BY <1>2, <1>3 DEF Names
<1>7. StoredIn(linklist, Source[j].op1) BY <1>3, <1>4, <1>5, <1>6 DEF Laying, Emitted, Formed
<1>8. ir[j].r1 = Variable(Source[j].op1) BY <1>0, SourceIs, RequestForms
<1>9. ir[j].r1.name = Text(Source[j].op1).text BY <1>2, <1>8, VariableIs DEF Names
<1> QED BY <1>7, <1>9

LEMMA SameCardinality == ASSUME NEW S PROVE E!Cardinality(S) = Cardinality(S)
BY DEF E!Cardinality, Cardinality

LEMMA ArgumentsOf ==
  ASSUME Laying, NEW m \in Nat, Passes(tac_code, m)
  PROVE  E!ArgumentLoads = [i \in 1..m |->
           E!ArgumentLoad(i - 1, SlotIn(linklist, Source[tac_code - i].op1))]
<1>0. tac_code \in 1..Len(Source) /\ Len(Source) \in Nat /\ m \in 0..tac_code - 1
  BY NowIs DEF Passes
<1> DEFINE args == {i \in 1..tac_code - 1 : E!IsArg(i)}
<1>1. \A i \in 1..tac_code - 1 : ir[i].kind = "ARG" <=> Source[i].kind = "ARG"
  BY <1>0, SourceIs
<1>2. args = tac_code - m..tac_code - 1
  <2>1. ASSUME NEW i \in tac_code - m..tac_code - 1 PROVE i \in args
    <3>1. i \in 1..tac_code - 1 /\ \A j \in i..tac_code - 1 : j \in tac_code - m..tac_code - 1
      BY <1>0
    <3>2. \A j \in i..tac_code - 1 : Source[j].kind = "ARG" BY <3>1 DEF Passes
    <3>3. \A j \in i..tac_code - 1 : ir[j].kind = "ARG" BY <3>1, <3>2, <1>1
    <3> QED BY <3>1, <3>3 DEF E!IsArg
  <2>2. ASSUME NEW i \in args PROVE i \in tac_code - m..tac_code - 1
    <3>1. i \in 1..tac_code - 1 /\ \A j \in i..tac_code - 1 : ir[j].kind = "ARG"
      BY DEF E!IsArg
    <3>2. SUFFICES ASSUME i < tac_code - m PROVE FALSE BY <1>0, <3>1
    <3>3. tac_code - m - 1 \in i..tac_code - 1 /\ tac_code - m - 1 \in 1..tac_code - 1
          /\ m < tac_code - 1
      BY <1>0, <3>1, <3>2
    <3>4. Source[tac_code - m - 1].kind = "ARG" BY <1>1, <3>1, <3>3
    <3> QED BY <3>3, <3>4 DEF Passes
  <2> QED BY <2>1, <2>2
<1>3. Cardinality(args) = m
  <2>0. tac_code - m \in Int /\ tac_code - 1 \in Int BY <1>0
  <2>1. Cardinality(tac_code - m..tac_code - 1)
          = IF tac_code - m > tac_code - 1 THEN 0 ELSE (tac_code - 1) - (tac_code - m) + 1
    BY <2>0, FS_Interval
  <2> HIDE DEF args
  <2>2. CASE m = 0 BY <1>0, <1>2, <2>1, <2>2
  <2>3. CASE m > 0 BY <1>0, <1>2, <2>1, <2>3
  <2> QED BY <1>0, <2>2, <2>3
<1>4. E!ArgumentLoads = [i \in 1..m |->
        E!ArgumentLoad(i - 1, E!findOffset(linklist, ir[tac_code - i].r1.name))]
  <2> DEFINE loads(n) == [i \in 1..n |->
        E!ArgumentLoad(i - 1, E!findOffset(linklist, ir[tac_code - i].r1.name))]
  <2>1. E!ArgumentLoads = loads(E!Cardinality(args)) BY Zenon DEF E!ArgumentLoads
  <2> HIDE DEF loads, args
  <2>2. E!ArgumentLoads = loads(m) BY <1>3, <2>1, SameCardinality
  <2> QED BY <2>2 DEF loads
<1>5. ASSUME NEW i \in 1..m
      PROVE  E!findOffset(linklist, ir[tac_code - i].r1.name)
               = SlotIn(linklist, Source[tac_code - i].op1)
  <2>1. tac_code - i \in 1..tac_code - 1 /\ Source[tac_code - i].kind = "ARG"
    BY <1>0 DEF Passes
  <2> QED BY <2>1, ArgumentStored DEF SlotIn
<1> QED BY <1>4, <1>5

(* A sequence behind another.                                              *)
LEMMA Behind ==
  ASSUME NEW S, NEW s \in Seq(S), NEW t \in Seq(S), NEW u, u = s \o t
  PROVE  /\ u \in Seq(S) /\ Len(u) = Len(s) + Len(t)
         /\ \A i \in 1..Len(s) : u[i] = s[i]
         /\ \A i \in 1..Len(t) : u[Len(s) + i] = t[i]
OBVIOUS

(* Six sequences in a row, as a call has them.                             *)
Row(s1, s2, s3, s4, s5, s6) == ((((s1 \o s2) \o s3) \o s4) \o s5) \o s6

OfLengths(S, m, s1, s2, s3, s4, s5, s6) ==
  /\ m \in Nat
  /\ s1 \in Seq(S) /\ s2 \in Seq(S) /\ s3 \in Seq(S)
  /\ s4 \in Seq(S) /\ s5 \in Seq(S) /\ s6 \in Seq(S)
  /\ Len(s1) = 1 /\ Len(s2) = 5 /\ Len(s3) = m /\ Len(s4) = 1 /\ Len(s5) = 5 /\ Len(s6) = 3

IsCall(b, m, down, saves, args, jal, restores, up, mv, sw) ==
  /\ Len(b) = 15 + m
  /\ b[1] = down
  /\ \A i \in 1..5 : b[1 + i] = saves[i]
  /\ \A i \in 1..m : b[6 + i] = args[i]
  /\ b[7 + m] = jal
  /\ \A i \in 1..5 : b[7 + m + i] = restores[i]
  /\ b[13 + m] = up /\ b[14 + m] = mv /\ b[15 + m] = sw

LEMMA CallParts ==
  ASSUME NEW S, NEW m, NEW s1, NEW s2, NEW s3, NEW s4, NEW s5, NEW s6,
         OfLengths(S, m, s1, s2, s3, s4, s5, s6)
  PROVE  IsCall(Row(s1, s2, s3, s4, s5, s6), m, s1[1], s2, s3, s4[1], s5, s6[1], s6[2], s6[3])
<1> DEFINE t2 == s1 \o s2 t3 == t2 \o s3 t4 == t3 \o s4 t5 == t4 \o s5 t6 == t5 \o s6
<1>a. Row(s1, s2, s3, s4, s5, s6) = t6 BY DEF Row
<1>b. t2 = s1 \o s2 /\ t3 = t2 \o s3 /\ t4 = t3 \o s4 /\ t5 = t4 \o s5 /\ t6 = t5 \o s6 OBVIOUS
<1> HIDE DEF t2, t3, t4, t5, t6
<1>0. /\ Len(s1) = 1 /\ Len(s2) = 5 /\ Len(s3) = m /\ Len(s4) = 1 /\ Len(s5) = 5 /\ Len(s6) = 3
      /\ m \in Nat
      /\ s1 \in Seq(S) /\ s2 \in Seq(S) /\ s3 \in Seq(S)
      /\ s4 \in Seq(S) /\ s5 \in Seq(S) /\ s6 \in Seq(S)
  BY DEF OfLengths
<1>2. /\ t2 \in Seq(S) /\ Len(t2) = 6
      /\ \A i \in 1..1 : t2[i] = s1[i]
      /\ \A i \in 1..5 : t2[1 + i] = s2[i]
  <2>0. s1 \in Seq(S) /\ s2 \in Seq(S) /\ t2 = s1 \o s2
    BY <1>0, <1>b
  <2>1. /\ t2 \in Seq(S) /\ Len(t2) = Len(s1) + Len(s2)
        /\ \A i \in 1..Len(s1) : t2[i] = s1[i]
        /\ \A i \in 1..Len(s2) : t2[Len(s1) + i] = s2[i]
    BY ONLY <2>0, Behind
  <2> QED BY ONLY <1>0, <2>1
<1>3. /\ t3 \in Seq(S) /\ Len(t3) = 6 + m
      /\ \A i \in 1..6 : t3[i] = t2[i]
      /\ \A i \in 1..m : t3[6 + i] = s3[i]
  <2>0. t2 \in Seq(S) /\ s3 \in Seq(S) /\ t3 = t2 \o s3
    BY <1>0, <1>2, <1>b
  <2>1. /\ t3 \in Seq(S) /\ Len(t3) = Len(t2) + Len(s3)
        /\ \A i \in 1..Len(t2) : t3[i] = t2[i]
        /\ \A i \in 1..Len(s3) : t3[Len(t2) + i] = s3[i]
    BY ONLY <2>0, Behind
  <2> QED BY ONLY <1>0, <1>2, <2>1
<1>4. /\ t4 \in Seq(S) /\ Len(t4) = 7 + m
      /\ \A i \in 1..6 + m : t4[i] = t3[i]
      /\ t4[7 + m] = s4[1]
  <2>0. t3 \in Seq(S) /\ s4 \in Seq(S) /\ t4 = t3 \o s4
    BY <1>0, <1>3, <1>b
  <2>1. /\ t4 \in Seq(S) /\ Len(t4) = Len(t3) + Len(s4)
        /\ \A i \in 1..Len(t3) : t4[i] = t3[i]
        /\ \A i \in 1..Len(s4) : t4[Len(t3) + i] = s4[i]
    BY ONLY <2>0, Behind
  <2>2. t4[Len(t3) + 1] = s4[1] /\ Len(t3) + 1 = 7 + m BY ONLY <1>0, <1>3, <2>1
  <2> QED BY ONLY <1>0, <1>3, <2>1, <2>2
<1>5. /\ t5 \in Seq(S) /\ Len(t5) = 12 + m
      /\ \A i \in 1..7 + m : t5[i] = t4[i]
      /\ \A i \in 1..5 : t5[7 + m + i] = s5[i]
  <2>0. t4 \in Seq(S) /\ s5 \in Seq(S) /\ t5 = t4 \o s5
    BY <1>0, <1>4, <1>b
  <2>1. /\ t5 \in Seq(S) /\ Len(t5) = Len(t4) + Len(s5)
        /\ \A i \in 1..Len(t4) : t5[i] = t4[i]
        /\ \A i \in 1..Len(s5) : t5[Len(t4) + i] = s5[i]
    BY ONLY <2>0, Behind
  <2> QED BY ONLY <1>0, <1>4, <2>1
<1>6. /\ t6 \in Seq(S) /\ Len(t6) = 15 + m
      /\ \A i \in 1..12 + m : t6[i] = t5[i]
      /\ \A i \in 1..3 : t6[12 + m + i] = s6[i]
  <2>0. t5 \in Seq(S) /\ s6 \in Seq(S) /\ t6 = t5 \o s6
    BY <1>0, <1>5, <1>b
  <2>1. /\ t6 \in Seq(S) /\ Len(t6) = Len(t5) + Len(s6)
        /\ \A i \in 1..Len(t5) : t6[i] = t5[i]
        /\ \A i \in 1..Len(s6) : t6[Len(t5) + i] = s6[i]
    BY ONLY <2>0, Behind
  <2> QED BY ONLY <1>0, <1>5, <2>1
<1>7. t6[1] = s1[1]
  <2>0. 1 \in 1..1 /\ 1 \in 1..6 /\ 1 \in 1..6 + m /\ 1 \in 1..7 + m /\ 1 \in 1..12 + m
    BY ONLY <1>0
  <2>1. t2[1] = s1[1] BY ONLY <2>0, <1>2
  <2>2. t3[1] = t2[1] BY ONLY <2>0, <1>3
  <2>3. t4[1] = t3[1] BY ONLY <2>0, <1>4
  <2>4. t5[1] = t4[1] BY ONLY <2>0, <1>5
  <2>5. t6[1] = t5[1] BY ONLY <2>0, <1>6
  <2> QED BY ONLY <2>1, <2>2, <2>3, <2>4, <2>5
<1>8. ASSUME NEW i \in 1..5 PROVE t6[1 + i] = s2[i]
  <2>1. 1 + i \in 1..6 /\ 1 + i \in 1..6 + m /\ 1 + i \in 1..7 + m /\ 1 + i \in 1..12 + m
    BY ONLY <1>0
  <2>2. t6[1 + i] = t5[1 + i] /\ t5[1 + i] = t4[1 + i] BY ONLY <1>0, <1>5, <1>6, <2>1
  <2>3. t4[1 + i] = t3[1 + i] /\ t3[1 + i] = t2[1 + i] BY ONLY <1>0, <1>3, <1>4, <2>1
  <2> QED BY ONLY <1>0, <1>2, <2>2, <2>3
<1>9. ASSUME NEW i \in 1..m PROVE t6[6 + i] = s3[i]
  <2>1. 6 + i \in 1..6 + m /\ 6 + i \in 1..7 + m /\ 6 + i \in 1..12 + m
    BY ONLY <1>0
  <2>2. t6[6 + i] = t5[6 + i] /\ t5[6 + i] = t4[6 + i] BY ONLY <1>0, <1>5, <1>6, <2>1
  <2>3. t4[6 + i] = t3[6 + i] BY ONLY <1>0, <1>4, <2>1
  <2> QED BY ONLY <1>0, <1>3, <2>2, <2>3
<1>10. t6[7 + m] = s4[1]
  <2>1. 7 + m \in 1..7 + m /\ 7 + m \in 1..12 + m
    BY ONLY <1>0
  <2> QED BY ONLY <1>0, <1>4, <1>5, <1>6, <2>1
<1>11. ASSUME NEW i \in 1..5 PROVE t6[7 + m + i] = s5[i]
  <2>1. 7 + m + i \in 1..12 + m
    BY ONLY <1>0
  <2> QED BY ONLY <1>0, <1>5, <1>6, <2>1
<1>12. t6[13 + m] = s6[1] /\ t6[14 + m] = s6[2] /\ t6[15 + m] = s6[3]
  <2>1. t6[12 + m + 1] = s6[1] /\ t6[12 + m + 2] = s6[2] /\ t6[12 + m + 3] = s6[3]
    BY ONLY <1>0, <1>6
  <2>2. 12 + m + 1 = 13 + m /\ 12 + m + 2 = 14 + m /\ 12 + m + 3 = 15 + m BY ONLY <1>0
  <2> QED BY ONLY <1>0, <2>1, <2>2
<1>13. IsCall(t6, m, s1[1], s2, s3, s4[1], s5, s6[1], s6[2], s6[3])
  BY ONLY <1>6, <1>7, <1>8, <1>9, <1>10, <1>11, <1>12 DEF IsCall
<1> QED BY <1>a, <1>13

(* The code of a call, whatever the loads of its arguments.                *)
LEMMA CallCode ==
  ASSUME NEW down, NEW up, NEW jal, NEW mv, NEW sw, NEW saves, NEW restores, NEW A, NEW m \in Nat,
         saves \in Seq(A), Len(saves) = 5, restores \in Seq(A), Len(restores) = 5,
         NEW args \in Seq(A), Len(args) = m
  PROVE  IsCall(Row(<<down>>, saves, args, <<jal>>, restores, <<up, mv, sw>>),
                m, down, saves, args, jal, restores, up, mv, sw)
<1> DEFINE S == A \cup {down, up, jal, mv, sw}
           s1 == <<down>> s4 == <<jal>> s6 == <<up, mv, sw>>
<1>1. saves \in Seq(S) /\ args \in Seq(S) /\ restores \in Seq(S) OBVIOUS
<1>2. /\ s1 \in Seq(S) /\ Len(s1) = 1 /\ s1[1] = down
      /\ s4 \in Seq(S) /\ Len(s4) = 1 /\ s4[1] = jal
      /\ s6 \in Seq(S) /\ Len(s6) = 3 /\ s6[1] = up /\ s6[2] = mv /\ s6[3] = sw
  OBVIOUS
<1> HIDE DEF S, s1, s4, s6
<1>3. OfLengths(S, m, s1, saves, args, s4, restores, s6) BY <1>1, <1>2 DEF OfLengths
<1>4. IsCall(Row(s1, saves, args, s4, restores, s6), m,
             s1[1], saves, args, s4[1], restores, s6[1], s6[2], s6[3])
  BY ONLY <1>3, CallParts
<1> QED BY <1>2, <1>4 DEF s1, s4, s6

LEMMA CallLays ==
  ASSUME Laying, E!EmitCall, Ins1.kind = "CALL"
  PROVE  (\E b, list : Lays(b, list)) /\ available' = E!Allocatable
<1> DEFINE ins == Ins1 x == Variable(ins.result) G == E!Grants
           down == E!Stack(-20) up == E!Stack(20) jal == E!Jump("jal", ins.op1)
           mv == E!Move("s0", "v0") sw == E!Sw("s0", SlotIn(G.list, ins.result))
           save(i) == E!SwStack(E!Saved[i], 4 * (i - 1))
           restore(i) == E!LwStack(E!Saved[i], 4 * (i - 1))
           saves == [i \in 1..5 |-> save(i)] restores == [i \in 1..5 |-> restore(i)]
           args == E!ArgumentLoads
           b == Row(<<down>>, saves, args, <<jal>>, restores, <<up, mv, sw>>)
<1>0. tac_code \in 1..Len(Source) /\ Len(Source) \in Nat BY NowIs
<1>1. ins.result \in Names BY NowIs, OperandNames
<1>2. E!Requests(E!Now) = <<E!WriteOf(x)>> /\ E!Now.target = ins.op1
  BY NowIs, RequestForms
<1>3. x.name = Text(ins.result).text /\ x.name \in Texts BY <1>1, VariableIs
<1>4. Lists(G) /\ Writes(G, x.name) BY <1>2, <1>3, Ready, GrantedW DEF E!Grants
<1>6. E!X = "s0" /\ E!Store = sw BY <1>3, <1>4 DEF E!X, E!Store, Writes, SlotIn
<1>7. E!Emit(b) /\ available' = E!Allocatable
  BY <1>2, <1>6 DEF E!EmitCall, E!restore_reg, Row
<1> HIDE DEF down, up, jal, mv, sw, save, restore, args, G
<1>9. StoredIn(G.list, ins.result) BY <1>3, <1>4 DEF Writes, StoredIn
<1>8. ASSUME NEW m \in Nat, Passes(tac_code, m)
      PROVE  /\ Len(b) = 15 + m
             /\ b[1] = down
             /\ \A i \in 1..5 : b[1 + i] = save(i)
             /\ \A i \in 1..m :
                  /\ StoredIn(G.list, Source[tac_code - i].op1)
                  /\ b[6 + i] = E!ArgumentLoad(i - 1, SlotIn(G.list, Source[tac_code - i].op1))
             /\ b[7 + m] = jal
             /\ \A i \in 1..5 : b[7 + m + i] = restore(i)
             /\ b[13 + m] = up /\ b[14 + m] = mv
             /\ b[15 + m] = sw
  <2> DEFINE load(i) == E!ArgumentLoad(i - 1, SlotIn(linklist, Source[tac_code - i].op1))
             A == {save(i) : i \in 1..5} \cup {restore(i) : i \in 1..5} \cup {load(i) : i \in 1..m}
  <2>1. args = [i \in 1..m |-> load(i)] BY <1>8, ArgumentsOf DEF args
  <2> HIDE DEF load
  <2>2. args \in Seq(A) /\ Len(args) = m /\ \A i \in 1..m : args[i] = load(i) BY <2>1
  <2>3. saves \in Seq(A) /\ Len(saves) = 5 /\ \A i \in 1..5 : saves[i] = save(i) OBVIOUS
  <2>4. restores \in Seq(A) /\ Len(restores) = 5 /\ \A i \in 1..5 : restores[i] = restore(i)
    OBVIOUS
  <2> HIDE DEF A, saves, restores
  <2>6. IsCall(b, m, down, saves, args, jal, restores, up, mv, sw)
    BY <2>2, <2>3, <2>4, CallCode
  <2>7. /\ Len(b) = 15 + m
        /\ b[1] = down
        /\ \A i \in 1..5 : b[1 + i] = saves[i]
        /\ \A i \in 1..m : b[6 + i] = args[i]
        /\ b[7 + m] = jal
        /\ \A i \in 1..5 : b[7 + m + i] = restores[i]
        /\ b[13 + m] = up /\ b[14 + m] = mv /\ b[15 + m] = sw
    <3> HIDE DEF b
    <3> QED BY <2>6 DEF IsCall
  <2> HIDE DEF b
  <2>10. ASSUME NEW i \in 1..m
         PROVE  /\ StoredIn(G.list, Source[tac_code - i].op1)
                /\ load(i) = E!ArgumentLoad(i - 1, SlotIn(G.list, Source[tac_code - i].op1))
    <3>1. tac_code - i \in 1..tac_code - 1 /\ Source[tac_code - i].kind = "ARG"
      BY <1>0, <1>8 DEF Passes
    <3>2. StoredIn(linklist, Source[tac_code - i].op1) BY <3>1, ArgumentStored
    <3>3. /\ linklist \in Seq(E!Entries) /\ G.list \in Seq(E!Entries) /\ E!Distinct(G.list)
          /\ Extends(linklist, G.list)
      BY <1>4, Ready DEF Lists, Listed
    <3>4. SlotIn(G.list, Source[tac_code - i].op1) = SlotIn(linklist, Source[tac_code - i].op1)
      BY <3>2, <3>3, ExtensionKeepsOffsets DEF SlotIn, StoredIn
    <3>5. StoredIn(G.list, Source[tac_code - i].op1)
      BY <3>2, <3>3 DEF StoredIn, E!Has, Extends
    <3> QED BY <3>4, <3>5 DEF load
  <2> QED BY <2>2, <2>3, <2>4, <2>7, <2>10
<1>10. NoLabel(b)
  <2> DEFINE count == Cardinality({i \in 1..tac_code - 1 : E!IsArg(i)})
             load(i) == E!ArgumentLoad(i - 1, E!findOffset(linklist, ir[tac_code - i].r1.name))
             A == {save(i) : i \in 1..5} \cup {restore(i) : i \in 1..5} \cup {load(i) : i \in 1..count}
  <2>1. count \in Nat
    <3>0. tac_code - 1 \in Int BY <1>0
    <3>1. IsFiniteSet(1..tac_code - 1) BY <3>0, FS_Interval
    <3>2. IsFiniteSet({i \in 1..tac_code - 1 : E!IsArg(i)}) BY <3>1, FS_Subset
    <3> QED BY <3>2, FS_CardinalityType
  <2>2. args = [i \in 1..count |-> load(i)]
    <3> DEFINE loads(n) == [i \in 1..n |-> load(i)]
    <3>1. args = loads(E!Cardinality({i \in 1..tac_code - 1 : E!IsArg(i)}))
      BY Zenon DEF E!ArgumentLoads, args
    <3>2. args = loads(count)
      <4> HIDE DEF loads
      <4> QED BY <3>1, SameCardinality
    <3> QED BY <3>2
  <2> HIDE DEF count, load
  <2>3. args \in Seq(A) /\ Len(args) = count BY <2>1, <2>2
  <2>4. /\ saves \in Seq(A) /\ Len(saves) = 5 /\ restores \in Seq(A) /\ Len(restores) = 5
    OBVIOUS
  <2> HIDE DEF A, saves, restores
  <2>a. IsCall(b, count, down, saves, args, jal, restores, up, mv, sw)
    BY <2>1, <2>3, <2>4, CallCode
  <2>5. Len(b) = 15 + count /\ b[1] = down
    <3> HIDE DEF b
    <3> QED BY <2>a DEF IsCall
  <2> HIDE DEF b
  <2>6. down.op # "label" BY OpNames DEF down
  <2> QED BY <2>1, <2>5, <2>6 DEF NoLabel
<1> HIDE DEF b
<1>12. CallForm(G.list, tac_code, b)
  BY <1>8, <1>9 DEF CallForm, Ins1, down, up, jal, mv, sw, save, restore
<1>13. Form(G.list, tac_code, b) BY <1>10, <1>12 DEF Form, NoLabel, Ins1
<1>14. Defined(ins) = ins.result BY DEF Defined
<1>15. Lays(b, G.list) BY <1>4, <1>7, <1>9, <1>13, <1>14, EmitIs DEF Lays, G
<1> QED BY <1>7, <1>15

-----------------------------------------------------------------------------
(* One handler after the other.                                            *)

(* The program does not change.                                            *)
LEMMA PlaceStays == ASSUME source' = source, NEW j, NEW q PROVE IsPlace(j, q)' <=> IsPlace(j, q)
BY DEF IsPlace, Source

LEMMA PassesStays == ASSUME source' = source, NEW k, NEW m PROVE Passes(k, m)' <=> Passes(k, m)
BY DEF Passes, Source

LEMMA IsInStays ==
  ASSUME source' = source, NEW list, NEW loads, NEW k, NEW n, NEW r
  PROVE  IsIn(list, loads, k, n, r)' <=> IsIn(list, loads, k, n, r)
BY DEF IsIn, ParamOf, IsPlace, StoredIn, SlotIn, Source

LEMMA FormStays ==
  ASSUME source' = source, NEW list, NEW k, NEW b
  PROVE  Form(list, k, b)' <=> Form(list, k, b)
<1>0. Source' = Source BY DEF Source
<1>1. ConstantForm(list, k, b)' <=> ConstantForm(list, k, b)
  BY <1>0 DEF ConstantForm, StoredIn, SlotIn
<1>2. AssignForm(list, k, b)' <=> AssignForm(list, k, b)
  BY <1>0, IsInStays DEF AssignForm, StoredIn, SlotIn
<1>3. BinaryForm(list, k, b)' <=> BinaryForm(list, k, b)
  BY <1>0, IsInStays DEF BinaryForm, StoredIn, SlotIn
<1>4. MinusForm(list, k, b)' <=> MinusForm(list, k, b)
  BY <1>0, IsInStays DEF MinusForm, StoredIn, SlotIn
<1>5. BranchForm(list, k, b)' <=> BranchForm(list, k, b)
  BY <1>0, IsInStays DEF BranchForm
<1>6. ReturnForm(list, k, b)' <=> ReturnForm(list, k, b)
  BY <1>0, IsInStays DEF ReturnForm
<1>7. ReadForm(list, k, b)' <=> ReadForm(list, k, b)
  BY <1>0 DEF ReadForm, StoredIn, SlotIn
<1>8. CallForm(list, k, b)' <=> CallForm(list, k, b)
  BY <1>0, PassesStays DEF CallForm, StoredIn, SlotIn
<1> QED
  BY <1>0, <1>1, <1>2, <1>3, <1>4, <1>5, <1>6, <1>7, <1>8 DEF Form

LEMMA FormedStep ==
  ASSUME Formed, tac_code \in Nat \ {0}, source' = source, NEW b, NEW list,
         linklist' = list, code' = Append(code, b), tac_code' = tac_code + 1,
         list \in Seq(E!Entries), E!Distinct(list), Extends(linklist, list),
         Form(list, tac_code, b),
         Ins1.kind # "PARAM" /\ Defined(Ins1) \in Names => StoredIn(list, Defined(Ins1))
  PROVE  Formed'
<1>0. Source' = Source BY DEF Source
<1>1. Listed' BY DEF Listed
<1>2. PICK S : code \in Seq(S) BY DEF Formed
<1>3. /\ code' \in Seq(S \cup {b}) /\ Len(code') = tac_code
      /\ code'[tac_code] = b /\ \A k \in 1..tac_code - 1 : code'[k] = code[k]
  <2>1. Len(code) = tac_code - 1 BY DEF Formed
  <2>2. code \in Seq(S \cup {b}) BY <1>2
  <2> QED BY <2>1, <2>2
<1>4. ASSUME NEW k \in 1..tac_code
      PROVE  /\ Form(list, k, code'[k])
             /\ Source[k].kind # "PARAM" /\ Defined(Source[k]) \in Names =>
                  StoredIn(list, Defined(Source[k]))
  <2>1. CASE k = tac_code BY <1>3, <2>1 DEF Ins1
  <2>2. CASE k \in 1..tac_code - 1
    <3>1. /\ Form(linklist, k, code[k])
          /\ Source[k].kind # "PARAM" /\ Defined(Source[k]) \in Names =>
               StoredIn(linklist, Defined(Source[k]))
      BY <2>2 DEF Formed
    <3>2. linklist \in Seq(E!Entries) BY DEF Formed, Listed
    <3>3. Form(list, k, code'[k]) BY <1>3, <2>2, <3>1, <3>2, FormKept
    <3>4. \A n : StoredIn(linklist, n) => StoredIn(list, n)
      BY <3>2 DEF StoredIn, E!Has, Extends
    <3> QED BY <3>1, <3>3, <3>4
  <2>3. k = tac_code \/ k \in 1..tac_code - 1 OBVIOUS
  <2> QED BY ONLY <2>1, <2>2, <2>3
<1>5. \A k \in 1..tac_code : Form(linklist, k, code[k])'
  BY <1>4, FormStays
<1>6. \A k \in 1..tac_code :
        Source'[k].kind # "PARAM" /\ Defined(Source'[k]) \in Names =>
          StoredIn(linklist', Defined(Source'[k]))
  BY <1>0, <1>4
<1>7. tac_code' - 1 = tac_code OBVIOUS
<1> QED BY <1>1, <1>3, <1>5, <1>6, <1>7 DEF Formed, StoredIn

(* All kinds but PARAM.                                                    *)
LEMMA HandlerLays ==
  ASSUME Laying, E!Next, phase' # "aborted", Ins1.kind # "PARAM"
  PROVE  /\ \E b, list : Lays(b, list)
         /\ \/ available' = E!Allocatable
            \/ Ins1.kind \in E!KeepsRegisters /\ available' = available
            \/ /\ Ins1.kind = "RETURN"
               /\ available' = FreeOf(available, Text(Ins1.op1).text)
<1> DEFINE ins == Ins1
<1>0. /\ ins \in Instructions /\ Printable(ins) /\ ~ UsesElement(ins) /\ E!Now = Meant(ins)
      /\ tac_code \in Nat /\ Len(ir) \in Nat /\ tac_code <= Len(ir)
  BY NowIs DEF Laying
<1>1. ins.kind \in Kinds \ {"ARRAY_OFFSET"} BY <1>0, OperandNames
<1>2. /\ ins.kind \in {"CONSTANT", "ASSIGN"} => E!Now.kind = "ASSIGN"
      /\ ins.kind = "MINUS" => E!Now.kind = "SUB"
      /\ ins.kind = "IF_GOTO" => E!Now.kind = Comparison(ins.relation)
      /\ ins.kind = "GET_VALUE_IN_ADDRESS" => E!Now.kind = "FETCH"
      /\ ins.kind = "ASSIGN_VALUE_IN_ADDRESS" => E!Now.kind = "DEREF"
      /\ ins.kind \in {"LABEL", "FUNCTION", "GOTO", "DEC", "ARG", "RETURN", "WRITE", "READ",
                       "CALL"} => E!Now.kind = ins.kind
  BY <1>0, RequestForms
<1>3. Comparison(ins.relation) \in {"IFLT", "IFLE", "IFGT", "IFGE", "IFNE", "IFEQ"}
  BY DEF Comparison
<1> HIDE DEF ins
<1>4. CASE ins.kind = "CONSTANT"
  <2>1. E!EmitAssign BY <1>0, <1>2, <1>4, HandlerIs
  <2> QED BY <1>4, <2>1, ConstantLays DEF ins
<1>5. CASE ins.kind = "ASSIGN"
  <2>1. E!EmitAssign BY <1>0, <1>2, <1>5, HandlerIs
  <2> QED BY <1>5, <2>1, AssignLays DEF ins
<1>6. CASE ins.kind = "BINARY" BY <1>6, BinaryLays DEF ins
<1>7. CASE ins.kind = "MINUS"
  <2>1. E!EmitSub BY <1>0, <1>2, <1>7, HandlerIs
  <2> QED BY <1>7, <2>1, MinusLays DEF ins
<1>8. CASE ins.kind = "IF_GOTO"
  <2>1. E!EmitBranch BY <1>0, <1>2, <1>3, <1>8, HandlerIs
  <2> QED BY <1>8, <2>1, BranchLays DEF ins
<1>9. CASE ins.kind = "RETURN"
  <2>1. E!EmitReturn BY <1>0, <1>2, <1>9, HandlerIs
  <2> QED BY <1>9, <2>1, ReturnLays DEF ins
<1>10. CASE ins.kind = "READ"
  <2>1. E!EmitRead BY <1>0, <1>2, <1>10, HandlerIs
  <2> QED BY <1>10, <2>1, ReadLays DEF ins
<1>11. CASE ins.kind = "WRITE"
  <2>1. E!EmitWrite BY <1>0, <1>2, <1>11, HandlerIs
  <2> QED BY <1>11, <2>1, WriteLays DEF ins
<1>12. CASE ins.kind = "CALL"
  <2>1. E!EmitCall BY <1>0, <1>2, <1>12, HandlerIs
  <2> QED BY <1>12, <2>1, CallLays DEF ins
<1>13. CASE ins.kind \in {"LABEL", "FUNCTION", "GOTO", "DEC", "ARG"}
  <2>1. E!EmitLabel \/ E!EmitGoto \/ E!EmitNothing BY <1>0, <1>2, <1>13, HandlerIs
  <2>2. ins.kind \in E!KeepsRegisters BY <1>13 DEF E!KeepsRegisters
  <2> QED BY <1>13, <2>1, <2>2, PlainLays DEF ins
<1>14. CASE ins.kind = "GET_VALUE_IN_ADDRESS"
  <2>1. E!EmitFetch BY <1>0, <1>2, <1>14, HandlerIs
  <2> QED BY <1>14, <2>1, AddressLays DEF ins
<1>15. CASE ins.kind = "ASSIGN_VALUE_IN_ADDRESS"
  <2>1. E!EmitDeref BY <1>0, <1>2, <1>15, HandlerIs
  <2> QED BY <1>15, <2>1, AddressLays DEF ins
<1>16. ins.kind # "PARAM" BY DEF ins
<1> QED
  BY <1>1, <1>4, <1>5, <1>6, <1>7, <1>8, <1>9, <1>10, <1>11, <1>12, <1>13, <1>14, <1>15, <1>16
  DEF Kinds

LEMMA TakenStays ==
  ASSUME source' = source, tac_code \in Nat, tac_code' = tac_code + 1,
         NEW i, TakenSince(i), Ins1.kind \in E!KeepsRegisters
  PROVE  TakenSince(i)'
<1>0. Source' = Source BY DEF Source
<1>1. i \in 1..tac_code' - 1 /\ Source'[i].kind = "RETURN" BY <1>0 DEF TakenSince
<1>2. ASSUME NEW m \in i..tac_code' - 1 PROVE Source'[m].kind \in E!KeepsRegisters
  <2>1. i \in 1..tac_code - 1 BY DEF TakenSince
  <2>2. CASE m = tac_code BY <1>0, <2>2 DEF Ins1
  <2>3. CASE m \in i..tac_code - 1 BY <1>0, <2>3 DEF TakenSince
  <2>4. m = tac_code \/ m \in i..tac_code - 1 BY <2>1
  <2> QED BY ONLY <2>2, <2>3, <2>4
<1> QED BY <1>1, <1>2 DEF TakenSince

(* Only RETURN takes registers and does not give them back.                *)
LEMMA RegistersStep ==
  ASSUME Laying, source' = source, tac_code' = tac_code + 1,
         \/ available' = E!Allocatable
         \/ Ins1.kind \in E!KeepsRegisters /\ available' = available
         \/ /\ Ins1.kind = "RETURN"
            /\ available' = FreeOf(available, Text(Ins1.op1).text)
  PROVE  RegistersLeft'
<1>0. tac_code \in 1..Len(Source) /\ Len(Source) \in Nat BY NowIs
<1>1. RegistersLeft BY DEF Laying, Emitted
<1>2. CASE available' = E!Allocatable
  <2>1. {"s0", "s1", "s2", "t2"} \subseteq available' /\ {"t0", "t1"} \subseteq available'
    BY <1>2 DEF E!Allocatable
  <2> QED BY <2>1 DEF RegistersLeft
<1>3. CASE Ins1.kind \in E!KeepsRegisters /\ available' = available
  <2>1. ASSUME NEW i \in 1..tac_code - 1, TakenSince(i)
        PROVE  i \in 1..tac_code' - 1 /\ TakenSince(i)'
    BY <1>0, <1>3, <2>1, TakenStays
  <2> QED BY <1>1, <1>3, <2>1 DEF RegistersLeft
<1>4. CASE Ins1.kind = "RETURN" /\ available' = available \ {FirstOf(available)}
  <2>1. Ins1.kind \in E!KeepsRegisters BY <1>4 DEF E!KeepsRegisters
  <2>2. ASSUME NEW i \in 1..tac_code - 1, TakenSince(i)
        PROVE  i \in 1..tac_code' - 1 /\ TakenSince(i)'
    BY <1>0, <2>1, <2>2, TakenStays
  <2>3. ASSUME NEW i, i = tac_code
        PROVE  i \in 1..tac_code' - 1 /\ TakenSince(i)'
    <3>1. Source' = Source BY DEF Source
    <3>2. i \in 1..tac_code' - 1 BY <1>0, <2>3
    <3>3. Source'[i].kind = "RETURN" BY <1>4, <2>3, <3>1 DEF Ins1
    <3>4. \A m \in i..tac_code' - 1 : m = tac_code BY <1>0, <2>3
    <3>5. \A m \in i..tac_code' - 1 : Source'[m].kind \in E!KeepsRegisters
      BY <2>1, <3>1, <3>4 DEF Ins1
    <3> QED BY <3>2, <3>3, <3>5 DEF TakenSince
  <2>7. PICK n : n = tac_code OBVIOUS
  <2>4. CASE {"t0", "t1"} \subseteq available
    <3>1. FirstOf(available) = "t0" BY <2>4 DEF FirstOf, E!FirstFree
    <3>2. "t1" \in available' BY <1>4, <2>4, <3>1
    <3>4. n \in 1..tac_code' - 1 /\ TakenSince(n)' BY <2>3, <2>7
    <3>3. {"s0", "s1", "s2", "t2"} \subseteq available' BY <1>1, <1>4, <3>1 DEF RegistersLeft
    <3> QED BY <3>2, <3>3, <3>4 DEF RegistersLeft
  <2>5. CASE "t1" \in available /\ \E i \in 1..tac_code - 1 : TakenSince(i)
    <3>1. PICK i \in 1..tac_code - 1 : TakenSince(i) BY <2>5
    <3>2. i < tac_code BY <1>0
    <3>3. FirstOf(available) \in {"t0", "t1"} BY <2>5 DEF FirstOf, E!FirstFree
    <3>4. {"s0", "s1", "s2", "t2"} \subseteq available' BY <1>1, <1>4, <3>3 DEF RegistersLeft
    <3>5. n \in 1..tac_code' - 1 /\ TakenSince(n)' /\ i < n BY <2>3, <2>7, <3>2
    <3>6. i \in 1..tac_code' - 1 /\ TakenSince(i)' BY <2>2, <3>1
    <3> QED BY <3>4, <3>5, <3>6 DEF RegistersLeft
  <2>6. CASE \E i \in 1..tac_code - 1, j \in 1..tac_code - 1 :
               i < j /\ TakenSince(i) /\ TakenSince(j)
    <3>1. PICK i \in 1..tac_code - 1, j \in 1..tac_code - 1 :
            i < j /\ TakenSince(i) /\ TakenSince(j)
      BY <2>6
    <3>2. i < tac_code /\ j < tac_code /\ i \in 1..Len(Source) /\ j \in 1..Len(Source)
      BY <1>0
    <3>3. Source[i].kind = "RETURN" /\ Source[j].kind = "RETURN" BY <3>1 DEF TakenSince
    <3>4. PICK m \in i..tac_code : Source[m].kind \notin E!KeepsRegisters
      BY <1>0, <1>4, <3>1, <3>2, <3>3 DEF Laying, Regular, RegistersSuffice, Ins1
    <3>5. m # tac_code BY <2>1, <3>4 DEF Ins1
    <3>6. m \in i..tac_code - 1 BY <1>0, <3>5
    <3> QED BY <3>1, <3>4, <3>6 DEF TakenSince
  <2> QED BY <1>1, <2>4, <2>5, <2>6 DEF RegistersLeft
<1>5. available' = FreeOf(available, Text(Ins1.op1).text) =>
        available' = available \/ available' = available \ {FirstOf(available)}
  BY DEF FreeOf
<1>6. Ins1.kind = "RETURN" => Ins1.kind \in E!KeepsRegisters BY DEF E!KeepsRegisters
<1> QED BY <1>2, <1>3, <1>4, <1>5, <1>6

(* The place after a PARAM is the place behind it.                         *)
LEMMA PlaceAfter ==
  ASSUME NEW t \in Nat, t >= 1, NEW q \in Nat, IsPlace(t + 1, q)
  PROVE  /\ Source[t].kind # "FUNCTION" => q >= 2 /\ Source[t].kind = "PARAM" /\ IsPlace(t, q - 1)
         /\ Source[t].kind # "PARAM" => q = 1
<1>1. q \in 1..t /\ Source[t + 1 - q].kind = "FUNCTION"
      /\ \A i \in t + 1 - q + 1..t + 1 : Source[i].kind = "PARAM"
  BY DEF IsPlace
<1>2. q = 1 \/ q >= 2 BY <1>1
<1>3. CASE q = 1
  <2>1. t + 1 - q = t BY <1>3
  <2> QED BY <1>1, <1>3, <2>1
<1>4. CASE q >= 2
  <2>1. t \in t + 1 - q + 1..t + 1 BY <1>1, <1>4
  <2>2. Source[t].kind = "PARAM" BY <1>1, <2>1
  <2>3. q - 1 \in 1..t - 1 /\ t - (q - 1) = t + 1 - q BY <1>1, <1>4
  <2>4. Source[t - (q - 1)].kind = "FUNCTION" BY <1>1, <2>3
  <2>5. \A i \in t - (q - 1) + 1..t : Source[i].kind = "PARAM" BY <1>1, <2>3
  <2>6. IsPlace(t, q - 1) BY <2>3, <2>4, <2>5 DEF IsPlace
  <2> QED BY <1>4, <2>2, <2>6
<1> QED BY <1>2, <1>3, <1>4

LEMMA ParamsStep ==
  ASSUME Laying, source' = source, tac_code' = tac_code + 1, Ins1.kind # "PARAM",
         a0_a3_list' = a0_a3_list, param_count' = param_count
  PROVE  ParamsEntered' /\ ParamsCounted'
<1>0. tac_code \in 1..Len(Source) /\ Len(Source) \in Nat /\ tac_code \in Nat /\ tac_code >= 1
  BY NowIs
<1>1. Source' = Source BY DEF Source
<1>2. ParamsEntered /\ ParamsCounted BY DEF Laying, Emitted
<1>3. ParamsEntered'
  <2>1. \A i \in 1..Len(a0_a3_list) : \E j \in 1..tac_code' - 1 :
          Source[j].kind = "PARAM" /\ a0_a3_list[i].key = Text(Source[j].op1).text
    BY <1>0, <1>2 DEF ParamsEntered
  <2>2. ASSUME NEW j \in 1..tac_code' - 1, Source[j].kind = "PARAM"
        PROVE  \E i \in 1..Len(a0_a3_list) :
                 /\ a0_a3_list[i].key = Text(Source[j].op1).text
                 /\ \A q \in Nat : IsPlace(j, q) => a0_a3_list[i].aRegister = q - 1
    <3>1. j # tac_code BY <2>2 DEF Ins1
    <3>2. j \in 1..tac_code - 1 BY <1>0, <3>1
    <3> QED BY <1>2, <2>2, <3>2 DEF ParamsEntered
  <2>3. \A j \in 1..tac_code' - 1 : Source[j].kind = "PARAM" =>
          \E i \in 1..Len(a0_a3_list) :
                 /\ a0_a3_list[i].key = Text(Source[j].op1).text
                 /\ \A q \in Nat : IsPlace(j, q)' => a0_a3_list[i].aRegister = q - 1
    BY <2>2, PlaceStays
  <2> QED BY <1>1, <1>2, <2>1, <2>3 DEF ParamsEntered
<1>4. ParamsCounted'
  <2>1. param_count = 0 BY <1>0, <1>2 DEF ParamsCounted, Ins1
  <2>2. ASSUME NEW q \in Nat, IsPlace(tac_code + 1, q) PROVE q = 1
    BY <1>0, <2>2, PlaceAfter DEF Ins1
  <2>3. ASSUME NEW t, t = tac_code + 1, NEW q \in Nat, IsPlace(t, q)'
        PROVE  q = 1
    BY <2>2, <2>3, PlaceStays
  <2>4. \A q \in Nat : IsPlace(tac_code, q)' => q = 1 BY <2>3
  <2> QED BY <1>1, <2>1, <2>4 DEF ParamsCounted
<1> QED BY <1>3, <1>4

(* No PARAM has entered a name of this text before.                        *)
LEMMA ParamIsNew ==
  ASSUME Laying, Ins1.kind = "PARAM"
  PROVE  Ins1.op1 \in Names /\ ~ E!Has(a0_a3_list, Text(Ins1.op1).text)
<1>0. tac_code \in 1..Len(Source) /\ Len(Source) \in Nat BY NowIs
<1>1. Ins1.op1 \in Names BY NowIs, OperandNames
<1>2. SUFFICES ASSUME E!Has(a0_a3_list, Text(Ins1.op1).text) PROVE FALSE BY <1>1
<1>3. PICK i \in 1..Len(a0_a3_list) : a0_a3_list[i].key = Text(Ins1.op1).text
  BY <1>2 DEF E!Has
<1>4. PICK j \in 1..tac_code - 1 :
        Source[j].kind = "PARAM" /\ a0_a3_list[i].key = Text(Source[j].op1).text
  BY DEF Laying, Emitted, ParamsEntered
<1>5. j \in 1..Len(Source) /\ j # tac_code BY <1>0
<1>6. Source[j].op1 \in Names BY <1>4, <1>5, SourceIs, OperandNames
<1>7. Text(Source[j].op1) = Text(Ins1.op1)
  <2>1. \A n \in Names : Text(n) = Word(Text(n).text) BY NamesHaveTexts DEF Values
  <2> QED BY <1>1, <1>3, <1>4, <1>6, <2>1
<1>8. Defined(Source[j]) = Source[j].op1 /\ Defined(Ins1) = Ins1.op1
  BY <1>4 DEF Defined
<1>9. Source[j].op1 = Ins1.op1
  BY <1>0, <1>1, <1>5, <1>6, <1>7, <1>8 DEF Laying, Regular, NamesApart, Ins1
<1>10. Compiled(Source) BY RunAssumption DEF Laying, Regular, BackEndInv, Source
<1> QED BY <1>0, <1>4, <1>5, <1>9, <1>10 DEF Compiled, Ins1

LEMMA ParamLays ==
  ASSUME Laying, E!Next, phase' # "aborted", Ins1.kind = "PARAM", source' = source
  PROVE  /\ linklist' = linklist /\ code' = Append(code, <<>>) /\ tac_code' = tac_code + 1
         /\ UNCHANGED <<phase, ir, available>>
         /\ Form(linklist, tac_code, <<>>)
         /\ ParamsEntered' /\ ParamsCounted'
<1> DEFINE name == Text(Ins1.op1).text
           entry == [key |-> name, aRegister |-> param_count]
<1>0. /\ tac_code \in 1..Len(Source) /\ Len(Source) \in Nat /\ tac_code \in Nat /\ tac_code >= 1
      /\ Ins1 \in Instructions /\ Printable(Ins1) /\ ~ UsesElement(Ins1) /\ E!Now = Meant(Ins1)
      /\ Len(ir) = Len(Source)
  BY NowIs
<1>1. E!Now.kind = "PARAM" BY <1>0, RequestForms
<1>2. E!EmitParam BY <1>0, <1>1, HandlerIs
<1>3. Ins1.op1 \in Names /\ ~ E!Has(a0_a3_list, name) BY ParamIsNew
<1>4. E!Now.r1.name = name
  <2>1. E!Now.r1 = Variable(Ins1.op1) BY <1>0 DEF Meant, T!Tac
  <2> QED BY <1>3, <2>1, VariableIs
<1>5. /\ a0_a3_list' = Append(a0_a3_list, entry)
      /\ linklist' = linklist /\ code' = Append(code, <<>>) /\ tac_code' = tac_code + 1
      /\ UNCHANGED <<phase, ir, available>>
      /\ tac_code < Len(Source)
      /\ param_count' = IF ir[tac_code + 1].kind = "PARAM" THEN param_count + 1 ELSE 0
  BY <1>0, <1>2, <1>3, <1>4 DEF E!EmitParam
<1>6. Source' = Source BY DEF Source
<1>7. ParamsEntered /\ ParamsCounted BY DEF Laying, Emitted
<1>8. name \in Texts BY <1>3, VariableIs
<1>9. param_count \in Nat /\ \A q \in Nat : IsPlace(tac_code, q) => param_count = q - 1
  BY <1>0, <1>7 DEF ParamsCounted, Ins1
<1>10. entry \in [key: Texts, aRegister: Nat] /\ entry.key = name /\ entry.aRegister = param_count
  BY <1>8, <1>9
<1> HIDE DEF entry
<1> DEFINE list == a0_a3_list n == Len(list) list2 == Append(list, entry)
<1>11. list \in Seq([key: Texts, aRegister: Nat]) /\ n \in Nat BY <1>7 DEF ParamsEntered
<1>12. /\ list2 \in Seq([key: Texts, aRegister: Nat]) /\ Len(list2) = n + 1
       /\ list2[n + 1] = entry /\ \A i \in 1..n : list2[i] = list[i]
  BY <1>10, <1>11
<1>13. a0_a3_list' = list2 BY <1>5
<1>20. ParamsEntered'
  <2> HIDE DEF list2
  <2>1. ASSUME NEW i \in 1..n + 1
        PROVE  \E j \in 1..tac_code : Source[j].kind = "PARAM" /\ list2[i].key = Text(Source[j].op1).text
    <3>1. CASE i = n + 1
      <4>1. tac_code \in 1..tac_code /\ Source[tac_code] = Ins1 BY <1>0 DEF Ins1
      <4> QED BY <1>10, <1>12, <3>1, <4>1
    <3>2. CASE i \in 1..n
      <4>1. PICK j \in 1..tac_code - 1 :
              Source[j].kind = "PARAM" /\ list[i].key = Text(Source[j].op1).text
        BY <1>7, <3>2 DEF ParamsEntered
      <4>2. j \in 1..tac_code BY <1>0
      <4> QED BY <1>12, <3>2, <4>1, <4>2
    <3>3. i = n + 1 \/ i \in 1..n BY <1>11
    <3> QED BY ONLY <3>1, <3>2, <3>3
  <2>2. ASSUME NEW j \in 1..tac_code, Source[j].kind = "PARAM"
        PROVE  \E i \in 1..n + 1 :
                 /\ list2[i].key = Text(Source[j].op1).text
                 /\ \A q \in Nat : IsPlace(j, q)' => list2[i].aRegister = q - 1
    <3>1. CASE j = tac_code
      <4>1. n + 1 \in 1..n + 1 BY <1>11
      <4>2. list2[n + 1].key = Text(Source[j].op1).text BY <1>10, <1>12, <3>1 DEF Ins1
      <4>3. \A q \in Nat : IsPlace(j, q)' => list2[n + 1].aRegister = q - 1
        BY <1>9, <1>10, <1>12, <3>1, PlaceStays
      <4> QED BY <4>1, <4>2, <4>3
    <3>2. CASE j \in 1..tac_code - 1
      <4>1. PICK i \in 1..n :
              /\ list[i].key = Text(Source[j].op1).text
              /\ \A q \in Nat : IsPlace(j, q) => list[i].aRegister = q - 1
        BY <1>7, <2>2, <3>2 DEF ParamsEntered
      <4>2. i \in 1..n + 1 /\ list2[i] = list[i] BY <1>11, <1>12
      <4> QED BY <4>1, <4>2, PlaceStays
    <3>3. j = tac_code \/ j \in 1..tac_code - 1 BY <1>0
    <3> QED BY ONLY <3>1, <3>2, <3>3
  <2>3. ASSUME NEW i \in 1..n + 1, NEW j \in 1..n + 1, list2[i].key = list2[j].key
        PROVE  i = j
    <3>1. \A k \in 1..n : list[k].key # name BY <1>3 DEF E!Has
    <3>2. CASE i \in 1..n /\ j \in 1..n BY <1>7, <1>12, <2>3, <3>2 DEF ParamsEntered
    <3>3. CASE i = n + 1 /\ j \in 1..n BY <1>10, <1>12, <2>3, <3>1, <3>3
    <3>4. CASE i \in 1..n /\ j = n + 1 BY <1>10, <1>12, <2>3, <3>1, <3>4
    <3>5. CASE i = n + 1 /\ j = n + 1 BY <3>5
    <3>6. (i = n + 1 \/ i \in 1..n) /\ (j = n + 1 \/ j \in 1..n) BY <1>11
    <3> QED BY ONLY <3>2, <3>3, <3>4, <3>5, <3>6
  <2>4. tac_code' - 1 = tac_code BY <1>0, <1>5
  <2>5. list2 \in Seq([key: Texts, aRegister: Nat]) /\ Len(list2) = n + 1 BY <1>12
  <2>6. /\ a0_a3_list' \in Seq([key: Texts, aRegister: Nat]) /\ Len(a0_a3_list') = n + 1
        /\ tac_code' - 1 = tac_code /\ Source' = Source
    BY <1>6, <1>13, <2>4, <2>5
  <2> HIDE DEF n, list
  <2>7. \A i \in 1..Len(a0_a3_list') : \E j \in 1..tac_code' - 1 :
          Source'[j].kind = "PARAM" /\ a0_a3_list'[i].key = Text(Source'[j].op1).text
    BY ONLY <1>13, <2>1, <2>6
  <2>8. \A j \in 1..tac_code' - 1 : Source'[j].kind = "PARAM" =>
          \E i \in 1..Len(a0_a3_list') :
            /\ a0_a3_list'[i].key = Text(Source'[j].op1).text
            /\ \A q \in Nat : IsPlace(j, q)' => a0_a3_list'[i].aRegister = q - 1
    BY ONLY <1>13, <2>2, <2>6
  <2>9. \A i, j \in 1..Len(a0_a3_list') : a0_a3_list'[i].key = a0_a3_list'[j].key => i = j
    BY ONLY <1>13, <2>3, <2>6
  <2> QED BY ONLY <2>6, <2>7, <2>8, <2>9 DEF ParamsEntered
<1>21. ParamsCounted'
  <2>1. tac_code + 1 \in 1..Len(Source) BY <1>0, <1>5
  <2>2. ir[tac_code + 1].kind = "PARAM" <=> Source[tac_code + 1].kind = "PARAM"
    BY <2>1, SourceIs
  <2>3. ASSUME NEW q \in Nat, IsPlace(tac_code + 1, q) PROVE param_count + 1 = q - 1
    <3>1. q >= 2 /\ IsPlace(tac_code, q - 1) BY <1>0, <2>3, PlaceAfter DEF Ins1
    <3>2. q - 1 \in Nat BY <3>1
    <3> QED BY <1>9, <3>1, <3>2
  <2>4. ASSUME NEW t, t = tac_code + 1, NEW q \in Nat, IsPlace(t, q)'
        PROVE  param_count + 1 = q - 1
    BY <2>3, <2>4, PlaceStays
  <2>5. \A q \in Nat : IsPlace(tac_code, q)' => param_count + 1 = q - 1 BY <1>5, <2>4
  <2> QED BY <1>5, <1>6, <1>9, <2>1, <2>2, <2>5 DEF ParamsCounted
<1>22. Form(linklist, tac_code, <<>>) BY DEF Form, Ins1
<1> QED BY <1>5, <1>20, <1>21, <1>22

(* One turn of emit_code's loop.                                           *)
LEMMA EmittedStep ==
  ASSUME Laying, E!Next, phase' # "aborted", source' = source
  PROVE  Emitted' /\ tac_code' = tac_code + 1 /\ phase' = "emit"
<1>0. /\ tac_code \in Nat \ {0} /\ phase = "emit" /\ Formed
  BY NowIs DEF Laying, Emitted
<1>1. CASE Ins1.kind = "PARAM"
  <2>1. /\ linklist' = linklist /\ code' = Append(code, <<>>) /\ tac_code' = tac_code + 1
        /\ UNCHANGED <<phase, ir, available>>
        /\ Form(linklist, tac_code, <<>>)
        /\ ParamsEntered' /\ ParamsCounted'
    BY <1>1, ParamLays
  <2>2. Listed BY Ready
  <2>3. Extends(linklist, linklist) BY DEF Extends
  <2>4. Formed' BY <1>0, <1>1, <2>1, <2>2, <2>3, FormedStep DEF Listed
  <2>5. Ins1.kind \in E!KeepsRegisters BY <1>1 DEF E!KeepsRegisters
  <2>6. RegistersLeft' BY <2>1, <2>5, RegistersStep
  <2> QED BY <1>0, <2>1, <2>4, <2>6 DEF Emitted
<1>2. CASE Ins1.kind # "PARAM"
  <2>1. PICK b, list : Lays(b, list) BY <1>2, HandlerLays
  <2>2. /\ linklist' = list /\ code' = Append(code, b) /\ tac_code' = tac_code + 1
        /\ UNCHANGED <<phase, ir, a0_a3_list, param_count>>
        /\ list \in Seq(E!Entries) /\ E!Distinct(list) /\ Extends(linklist, list)
        /\ Form(list, tac_code, b)
        /\ Ins1.kind # "PARAM" /\ Defined(Ins1) \in Names => StoredIn(list, Defined(Ins1))
    BY <2>1 DEF Lays
  <2>3. Formed' BY <1>0, <2>2, FormedStep
  <2>4. ParamsEntered' /\ ParamsCounted' BY <1>2, <2>2, ParamsStep
  <2>5. RegistersLeft' BY <1>2, <2>2, HandlerLays, RegistersStep
  <2> QED BY <1>0, <2>2, <2>3, <2>4, <2>5 DEF Emitted
<1> QED BY <1>1, <1>2

(* The emitter has not begun.                                              *)
Blank ==
  /\ linklist = <<>> /\ a0_a3_list = <<>> /\ param_count = 0
  /\ available = E!Allocatable /\ code = <<>>

Laid ==
  /\ tac_code <= Len(ir) + 1
  /\ phase # "emit" => tac_code = Len(ir) + 1
  /\ Emitted

CodeInv ==
  /\ BackEndInv
  /\ Reading => Blank
  /\ phase \in {"emit", "done", "run"} /\ Regular => Laid

LEMMA BlankIsEmitted ==
  ASSUME Blank, tac_code = 1
  PROVE  Emitted
<1>1. ParamsEntered BY DEF Blank, ParamsEntered
<1>2. ParamsCounted
  <2>1. \A q \in Nat : ~ IsPlace(1, q) BY DEF IsPlace
  <2> QED BY <2>1 DEF Blank, ParamsCounted
<1>3. RegistersLeft BY DEF Blank, RegistersLeft, E!Allocatable
<1>4. Formed
  <2>1. <<>> \in Seq(E!Entries) /\ Len(<<>>) = 0 OBVIOUS
  <2>2. Listed BY <2>1 DEF Blank, Listed, E!Distinct
  <2>3. code \in Seq({}) /\ Len(code) = tac_code - 1 BY DEF Blank
  <2>4. \A k \in 1..tac_code - 1 : FALSE OBVIOUS
  <2> QED BY <2>2, <2>3, <2>4 DEF Formed
<1> QED BY <1>1, <1>2, <1>3, <1>4 DEF Emitted

LEMMA CodeInit == BInit => CodeInv
<1> SUFFICES ASSUME BInit PROVE CodeInv
  OBVIOUS
<1>1. BackEndInv BY BackEndInit
<1>2. Blank BY DEF BInit, Blank
<1>3. phase = "read" BY DEF BInit, Init
<1> QED BY <1>1, <1>2, <1>3 DEF CodeInv

LEMMA RegularStays == ASSUME source' = source PROVE Regular' <=> Regular
<1>1. Source' = Source BY DEF Source
<1>2. NamesAreSafe' <=> NamesAreSafe BY DEF NamesAreSafe
<1>3. NamesApart' <=> NamesApart BY <1>1 DEF NamesApart
<1>4. TargetsApart' <=> TargetsApart BY <1>1 DEF TargetsApart
<1>5. RegistersSuffice' <=> RegistersSuffice BY <1>1 DEF RegistersSuffice
<1>6. UsesArray' <=> UsesArray BY <1>1 DEF UsesArray
<1> QED BY <1>2, <1>3, <1>4, <1>5, <1>6 DEF Regular

(* The emitter's variables and the program stay: so does what holds of     *)
(* them.                                                                   *)
LEMMA EmittedStays ==
  ASSUME source' = source, UNCHANGED emitter, Emitted
  PROVE  Emitted'
<1>0. /\ Source' = Source /\ linklist' = linklist /\ a0_a3_list' = a0_a3_list
      /\ param_count' = param_count /\ available' = available /\ code' = code
      /\ tac_code' = tac_code
  BY DEF Source, emitter
<1>1. ParamsEntered' BY <1>0, PlaceStays DEF Emitted, ParamsEntered
<1>2. ParamsCounted'
  <2>1. \A t, q : IsPlace(t, q)' <=> IsPlace(t, q) BY PlaceStays
  <2>2. \A q : IsPlace(tac_code, q)' <=> IsPlace(tac_code, q)
    <3>1. \A t : t = tac_code => \A q : IsPlace(t, q)' <=> IsPlace(tac_code, q) BY <2>1
    <3> QED BY <1>0, <3>1
  <2> QED BY <1>0, <2>2 DEF Emitted, ParamsCounted
<1>3. RegistersLeft' BY <1>0 DEF Emitted, RegistersLeft, TakenSince
<1>4. Formed'
  <2>1. \A list, k, b : Form(list, k, b)' <=> Form(list, k, b) BY FormStays
  <2>2. \A k : Form(linklist, k, code[k])' <=> Form(linklist, k, code[k])
    BY <1>0, <2>1
  <2> QED BY <1>0, <2>2 DEF Emitted, Formed, Listed, StoredIn
<1> QED BY <1>1, <1>2, <1>3, <1>4 DEF Emitted

LEMMA CodeStep == CodeInv /\ [Next]_all => CodeInv'
<1> SUFFICES ASSUME CodeInv, [Next]_all PROVE CodeInv'
  OBVIOUS
<1>0. BackEndInv /\ BackEndInv' BY BackEndStep DEF CodeInv
<1>1. CASE Read1
  <2>1. ReadNext /\ UNCHANGED emitter BY <1>1 DEF Read1
  <2>2. phase = "read" /\ source' = source
    BY <2>1 DEF ReadNext, ReadOne, ReadTwo, ReadThree, ReadCall, ReadBinary, ReadIf, Reads,
           EndOfFile
  <2>3. Blank /\ tac_code = 1 BY <1>0, <2>2 DEF CodeInv, Reading, BackEndInv
  <2>4. Blank' /\ tac_code' = 1 BY <2>1, <2>3 DEF Blank, emitter
  <2>5. Emitted' BY <2>1, <2>2, <2>3, BlankIsEmitted, EmittedStays
  <2>6. phase' \in {"read", "crashed", "emit"}
    BY <1>0, <2>1, <2>2, ReadingIsTyped, TypeStep DEF TypeOK
  <2>7. Len(ir') \in Nat
    <3>1. (ir \in Seq(T!Code))' BY <1>0 DEF BackEndInv
    <3>2. ir' \in Seq(T!Code') BY <3>1
    <3> QED BY <3>2
  <2> QED BY <1>0, <2>4, <2>5, <2>6, <2>7 DEF CodeInv, Laid
<1>2. CASE Emit1
  <2>1. E!Next /\ source' = source BY <1>2 DEF Emit1
  <2>2. phase = "emit" /\ phase' \in {"emit", "aborted", "done"} /\ ir' = ir
    BY <1>0, <2>1, EmitForms DEF BackEndInv, Reading
  <2>3. tac_code \in Nat /\ Len(ir) \in Nat BY <1>0, <2>2 DEF BackEndInv, Reading
  <2>4. ASSUME phase' \in {"emit", "done", "run"}, Regular' PROVE Laid'
    <3>1. Regular BY <2>1, <2>4, RegularStays
    <3>2. Laid BY <2>2, <3>1 DEF CodeInv
    <3>3. CASE tac_code <= Len(ir)
      <4>1. Laying BY <1>0, <2>2, <3>1, <3>2, <3>3 DEF Laying, Laid
      <4>2. Emitted' /\ tac_code' = tac_code + 1 /\ phase' = "emit"
        BY <2>1, <2>4, <4>1, EmittedStep
      <4> QED BY <2>2, <2>3, <3>3, <4>2 DEF Laid
    <3>4. CASE ~ tac_code <= Len(ir)
      <4>1. E!Finish
        <5>1. \A kinds : ~ E!Handles(kinds) BY <3>4 DEF E!Handles
        <5>2. ~ E!Abort BY <3>4 DEF E!Abort
        <5> QED
          BY <2>1, <5>1, <5>2
          DEF E!Next, E!EmitLabel, E!EmitGoto, E!EmitNothing, E!EmitAssign, E!EmitAdd,
              E!EmitSub, E!EmitMul, E!EmitDiv, E!EmitFetch, E!EmitDeref, E!EmitBranch,
              E!EmitReturn, E!EmitCall, E!EmitParam, E!EmitRead, E!EmitWrite
      <4>2. UNCHANGED emitter BY <4>1 DEF E!Finish, emitter
      <4>3. Emitted' BY <2>1, <3>2, <4>2, EmittedStays DEF Laid
      <4>4. tac_code' = tac_code BY <4>2 DEF emitter
      <4>5. tac_code = Len(ir) + 1 BY <2>3, <3>2, <3>4 DEF Laid
      <4> QED BY <2>2, <2>3, <4>3, <4>4, <4>5 DEF Laid
    <3> QED BY <3>3, <3>4
  <2>5. ~ Reading' BY <2>2 DEF Reading
  <2> QED BY <1>0, <2>4, <2>5 DEF CodeInv
<1>3. CASE Start \/ Execute \/ UNCHANGED all
  <2>1. /\ source' = source /\ ir' = ir /\ UNCHANGED emitter
        /\ phase' = phase \/ (phase = "done" /\ phase' = "run")
    <3>1. CASE Start BY <3>1 DEF Start
    <3>2. CASE Execute BY <3>2 DEF Execute, vars
    <3>3. CASE UNCHANGED all BY <3>3 DEF all, vars
    <3> QED BY <1>3, <3>1, <3>2, <3>3
  <2>2. tac_code' = tac_code BY <2>1 DEF emitter
  <2>3. Reading' => Blank' BY <2>1 DEF CodeInv, Reading, Blank, emitter
  <2>4. ASSUME phase' \in {"emit", "done", "run"}, Regular' PROVE Laid'
    <3>1. Regular BY <2>1, <2>4, RegularStays
    <3>2. Laid BY <2>1, <2>4, <3>1 DEF CodeInv
    <3>3. Emitted' BY <2>1, <3>2, EmittedStays DEF Laid
    <3> QED BY <2>1, <2>2, <3>2, <3>3 DEF Laid
  <2> QED BY <1>0, <2>3, <2>4 DEF CodeInv
<1> QED BY <1>1, <1>2, <1>3 DEF Next

(* The code of a whole program has its form, and it does not change any    *)
(* more.                                                                   *)
CodeIsFormed ==
  phase = "run" /\ Regular =>
    /\ Len(code) = Len(Source)
    /\ \A k \in 1..Len(Source) : Form(linklist, k, code[k])

(* For every program the compiler can print whose names do not meet and    *)
(* that uses no array: when its code is run, there is for each instruction *)
(* of it a sequence of the form its handler emits (mips32.c), which loads  *)
(* what the instruction reads from the word the variable has in array, or  *)
(* takes it from the register it was passed in, and stores what it sets.   *)
THEOREM CodeHasItsForm == BSpec => []CodeIsFormed
<1>1. CodeInv => CodeIsFormed
  <2> SUFFICES ASSUME CodeInv, phase = "run", Regular PROVE CodeIsFormed
    BY DEF CodeIsFormed
  <2>1. BackEndInv /\ Laid /\ ~ Reading /\ NamesAreSafe /\ source.warnings = 0
    BY DEF CodeInv, Reading, Regular
  <2>2. Len(ir) = Len(Source) /\ Len(Source) \in Nat BY <2>1, ListIsProgram
  <2>3. tac_code - 1 = Len(Source) BY <2>1, <2>2 DEF Laid
  <2>4. Formed BY <2>1 DEF Laid, Emitted
  <2> QED BY <2>3, <2>4 DEF Formed, CodeIsFormed
<1>2. BSpec => []CodeInv BY CodeInit, CodeStep, PTL DEF BSpec
<1> QED BY <1>1, <1>2, PTL

=============================================================================
