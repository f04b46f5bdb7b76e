---------------------------- MODULE SymbolsProofs ----------------------------
(***************************************************************************)
(* The symbol table, for every set of names, struct tags and declarations: *)
(* nothing dangles, and the tables keep the promises of Environment.       *)
(***************************************************************************)
EXTENDS Symbols, TLAPS

(* The numbers of declarations are never used twice.                       *)
Fresh == next >= 4 /\ \A a \in Live : a[1] < next

(* The object of an undefined struct never gets a type.                    *)
UnknownStays == heap[<<0, 0>>].type = "UNKNOWN"

(* The parameters of the header that is being read have their types, so    *)
(* the names that FunctionHeader binds do.                                 *)
ParametersTyped ==
  at \in {"header", "declared"} =>
    \A i \in DOMAIN pending.parts : heap[pending.parts[i]].type # "UNKNOWN"

(* The object that Definition binds is the one FunctionHeader has made.    *)
HeaderMade ==
  at = "declared" => <<next - 1, 0>> \in Live /\ heap[<<next - 1, 0>>].type = "FUNCTION"

(* A struct whose members are collected is not in the table.               *)
StructIsNew == at = "struct" /\ pending.list => structs[pending.name] = NoSymbol

IInv ==
  TypeOK /\ Fresh /\ UnknownStays /\ ParametersTyped /\ HeaderMade /\ StructIsNew

(* g has what h has, and more.                                             *)
Extends(h, g) == DOMAIN h \subseteq DOMAIN g /\ \A a \in DOMAIN h : g[a] = h[a]

(* h is a heap in which nothing dangles.                                   *)
GoodHeap(h) ==
  DOMAIN h \subseteq Addresses /\ h \in [DOMAIN h -> SymbolsOver(DOMAIN h)]

-----------------------------------------------------------------------------
(* Objects.                                                                *)

LEMMA SymbolsMonotone ==
  ASSUME NEW L, NEW K, L \subseteq K
  PROVE  SymbolsOver(L) \subseteq SymbolsOver(K) /\ Exps(L) \subseteq Exps(K)
<1>1. Seq(L) \subseteq Seq(K) OBVIOUS
<1> QED BY <1>1 DEF SymbolsOver, Exps

LEMMA TempsAreAddresses == Temps \subseteq Addresses
BY DEF Temps, Temp, Addresses

LEMMA SpecLives ==
  ASSUME TypeOK, NEW spec \in Specifiers
  PROVE  SpecAddress(spec) \in Live /\ heap[SpecAddress(spec)] \in SymbolsOver(Live)
<1>1. CASE spec \in Scalars BY <1>1 DEF SpecAddress, TypeOK, Temps
<1>2. CASE spec \notin Scalars
  <2>1. spec \in StructNames BY <1>2 DEF Specifiers
  <2>2. structs[spec] \in Live \cup {NoSymbol} BY <2>1 DEF TypeOK
  <2>3. Temp("UNKNOWN") \in Live BY DEF TypeOK, Temps
  <2> QED BY <1>2, <2>2, <2>3 DEF SpecAddress, TypeOK
<1> QED BY <1>1, <1>2 DEF TypeOK

LEMMA KnownStruct ==
  ASSUME TypeOK, UnknownStays, NEW spec \in StructNames, Known(spec)
  PROVE  structs[spec] \in Live /\ SpecAddress(spec) = structs[spec]
<1>1. Temp("UNKNOWN") = <<0, 0>> BY DEF Temp
<1>2. spec \notin Scalars BY ConstantsAssumption
<1>3. structs[spec] # NoSymbol BY <1>1, <1>2 DEF Known, SpecAddress, UnknownStays
<1> QED BY <1>2, <1>3 DEF SpecAddress, TypeOK

LEMMA ObjectGood ==
  ASSUME NEW live, NEW n \in Names \cup StructNames \cup {"", "$1", "read", "write"},
         NEW t \in SymbolTypes, NEW parts \in Seq(live), NEW size \in Nat, NEW depth \in Nat,
         NEW ret \in live \cup {NoSymbol}, t = "ARRAY" => parts # <<>>
  PROVE  Symbol(n, t, parts, size, depth, ret) \in SymbolsOver(live)
BY DEF Symbol, SymbolsOver

LEMMA ArrayGood ==
  ASSUME NEW live, NEW n \in Names, NEW element \in live, NEW size \in Nat, NEW k \in Nat
  PROVE  Symbol(n, "ARRAY", <<element>>, size, k, NoSymbol) \in SymbolsOver(live)
<1>1. <<element>> \in Seq(live) OBVIOUS
<1>2. "ARRAY" \in SymbolTypes BY DEF SymbolTypes
<1> QED BY <1>1, <1>2, ObjectGood

(* What getArrSymbol and the insertions allocate.                          *)
LEMMA AllocatedGood ==
  ASSUME TypeOK, UnknownStays, NEW n \in Names, NEW spec \in Specifiers,
         NEW dims \in Seq(Nat), NEW d \in Nat, ~ NullBase(spec, dims),
         NEW h, GoodHeap(h), Live \subseteq DOMAIN h,
         \A k \in Nat : <<d, k>> \notin DOMAIN h
  PROVE  LET g == Allocated(h, n, spec, dims, d)
         IN /\ GoodHeap(g) /\ Extends(h, g)
            /\ DOMAIN g \subseteq DOMAIN h \cup ({d} \X Nat)
            /\ Top(d, dims) \in DOMAIN g
            /\ Known(spec) => g[Top(d, dims)].type # "UNKNOWN"
<1> DEFINE g == Allocated(h, n, spec, dims, d)
           new == {d} \X Levels(spec, dims)
<1>1. Levels(spec, dims) \subseteq 0..Len(dims) /\ Len(dims) \in Levels(spec, dims)
      /\ Len(dims) \in Nat
  <2>1. Len(dims) \in Nat OBVIOUS
  <2>2. dims # <<>> => Len(dims) >= 1 OBVIOUS
  <2> QED BY <2>1, <2>2 DEF Levels
<1>2. DOMAIN g = DOMAIN h \cup new BY DEF Allocated
<1>3. new \subseteq Addresses BY <1>1 DEF Addresses
<1>4. DOMAIN g \subseteq Addresses BY <1>2, <1>3 DEF GoodHeap
<1>5. SymbolsOver(DOMAIN h) \subseteq SymbolsOver(DOMAIN g) BY <1>2, SymbolsMonotone
<1>6. SymbolsOver(Live) \subseteq SymbolsOver(DOMAIN g)
  <2>1. Live \subseteq DOMAIN g BY <1>2
  <2> QED BY <2>1, SymbolsMonotone
<1>7. ASSUME NEW k \in Levels(spec, dims)
      PROVE  NewSymbol(n, spec, dims, d, k) \in SymbolsOver(DOMAIN g)
  <2>1. k \in Nat /\ k <= Len(dims) BY <1>1
  <2>2. CASE k = 0
    <3>1. heap[SpecAddress(spec)] \in SymbolsOver(DOMAIN g) BY SpecLives, <1>6
    <3>2. NewSymbol(n, spec, dims, d, k) = [heap[SpecAddress(spec)] EXCEPT !.name = n]
      BY <2>2 DEF NewSymbol
    <3> QED BY <3>1, <3>2 DEF SymbolsOver
  <2>3. CASE k # 0
    <3> DEFINE element == IF k = 1 /\ spec \in StructNames THEN structs[spec] ELSE <<d, k - 1>>
    <3>1. dims # <<>> BY <2>1, <2>3
    <3>2. element \in DOMAIN g
      <4>1. CASE k = 1 /\ spec \in StructNames
        <5>1. Known(spec) BY <3>1 DEF NullBase
        <5> QED BY <4>1, <5>1, <1>2, KnownStruct
      <4>2. CASE ~ (k = 1 /\ spec \in StructNames)
        <5>1. k - 1 \in Levels(spec, dims) BY <2>1, <2>3, <4>2, <3>1 DEF Levels
        <5> QED BY <4>2, <5>1, <1>2
      <4> QED BY <4>1, <4>2
    <3>3. dims[Len(dims) + 1 - k] \in Nat BY <2>1, <2>3
    <3> HIDE DEF element, g
    <3>4. Symbol(n, "ARRAY", <<element>>, dims[Len(dims) + 1 - k], k, NoSymbol)
            \in SymbolsOver(DOMAIN g)
      BY <2>1, <3>2, <3>3, ArrayGood
    <3>5. NewSymbol(n, spec, dims, d, k) =
            Symbol(n, "ARRAY", <<element>>, dims[Len(dims) + 1 - k], k, NoSymbol)
      BY <2>3 DEF NewSymbol, element
    <3> QED BY <3>4, <3>5
  <2> QED BY <2>2, <2>3
<1>8. \A a \in DOMAIN g : g[a] \in SymbolsOver(DOMAIN g)
  <2> SUFFICES ASSUME NEW a \in DOMAIN g PROVE g[a] \in SymbolsOver(DOMAIN g) OBVIOUS
  <2>1. g[a] = IF a \in DOMAIN h THEN h[a] ELSE NewSymbol(n, spec, dims, d, a[2])
    BY <1>2 DEF Allocated
  <2>2. CASE a \in DOMAIN h BY <2>1, <2>2, <1>5 DEF GoodHeap
  <2>3. CASE a \notin DOMAIN h
    <3>1. a[2] \in Levels(spec, dims) BY <1>2, <2>3
    <3> QED BY <2>1, <2>3, <3>1, <1>7
  <2> QED BY <2>2, <2>3
<1>9. g \in [DOMAIN g -> SymbolsOver(DOMAIN g)]
  <2>1. g = [a \in DOMAIN g |-> g[a]] BY <1>2 DEF Allocated
  <2> QED BY <2>1, <1>8
<1>10. Extends(h, g) BY <1>2 DEF Allocated, Extends
<1>11. Top(d, dims) \in new BY <1>1 DEF Top
<1>12. ASSUME Known(spec) PROVE g[Top(d, dims)].type # "UNKNOWN"
  <2>1. Top(d, dims) \notin DOMAIN h BY <1>1 DEF Top
  <2>2. g[Top(d, dims)] = NewSymbol(n, spec, dims, d, Len(dims))
    BY <2>1, <1>2, <1>11 DEF Allocated, Top
  <2>3. CASE Len(dims) = 0
    <3>1. heap[SpecAddress(spec)] \in SymbolsOver(Live) BY SpecLives
    <3>2. g[Top(d, dims)] = [heap[SpecAddress(spec)] EXCEPT !.name = n]
      BY <2>2, <2>3 DEF NewSymbol
    <3>3. g[Top(d, dims)].type = heap[SpecAddress(spec)].type BY <3>1, <3>2 DEF SymbolsOver
    <3> QED BY <3>3, <1>12 DEF Known
  <2>4. CASE Len(dims) # 0 BY <2>2, <2>4 DEF NewSymbol, Symbol
  <2> QED BY <2>3, <2>4
<1> HIDE DEF g
<1>13. GoodHeap(g) BY <1>4, <1>9 DEF GoodHeap
<1>14. DOMAIN g \subseteq DOMAIN h \cup ({d} \X Nat) BY <1>1, <1>2
<1> QED BY <1>2, <1>10, <1>11, <1>12, <1>13, <1>14 DEF g

(* What With adds.                                                         *)
LEMMA WithGood ==
  ASSUME NEW h, GoodHeap(h), NEW a \in Addresses, a \notin DOMAIN h,
         NEW s \in SymbolsOver(DOMAIN h)
  PROVE  /\ GoodHeap(With(h, a, s)) /\ Extends(h, With(h, a, s))
         /\ DOMAIN With(h, a, s) = DOMAIN h \cup {a} /\ With(h, a, s)[a] = s
<1> DEFINE g == With(h, a, s)
<1>1. DOMAIN g = DOMAIN h \cup {a} BY DEF With
<1>2. SymbolsOver(DOMAIN h) \subseteq SymbolsOver(DOMAIN g) BY <1>1, SymbolsMonotone
<1>3. \A b \in DOMAIN g : g[b] \in SymbolsOver(DOMAIN g) BY <1>1, <1>2 DEF With, GoodHeap
<1>4. g = [b \in DOMAIN g |-> g[b]] BY <1>1 DEF With
<1>5. g \in [DOMAIN g -> SymbolsOver(DOMAIN g)] BY <1>3, <1>4
<1>6. DOMAIN g \subseteq Addresses BY <1>1 DEF GoodHeap
<1>7. Extends(h, g) BY <1>1 DEF With, Extends
<1>8. g[a] = s BY DEF With
<1> HIDE DEF g
<1> QED BY <1>1, <1>5, <1>6, <1>7, <1>8 DEF GoodHeap, g

-----------------------------------------------------------------------------
(* What a step may do to the tables: nothing that has a type loses it, and *)
(* names that stood for nothing may come to stand for something typed.     *)

Kept(table, newTable, names, newTyped) ==
  \A x \in names :
    IF table[x] # NoSymbol THEN newTable[x] = table[x]
    ELSE newTable[x] # NoSymbol => newTable[x] \in newTyped

Enters ==
  /\ Typed \subseteq Typed'
  /\ reports' \in {reports, reports + 1}
  /\ Kept(vars, vars', Names, Typed')
  /\ Kept(defs, defs', Callees, Typed')
  /\ Kept(decls, decls', Callees, Typed')
  /\ Kept(structs, structs', StructNames, Typed')

(* A type is taken away, with a report.                                    *)
Forgets ==
  /\ \E a \in Live : Typed' = Typed \ {a}
  /\ reports' = reports + 1
  /\ UNCHANGED tables

LEMMA ReportCounts ==
  ASSUME NEW kinds, reports \in Nat, Report(kinds)
  PROVE  reports' \in Nat /\ reports' \in {reports, reports + 1}
BY DEF Report

LEMMA Widened ==
  ASSUME TypeOK, NEW live, Live \subseteq live
  PROVE  /\ vars \in [Names -> live \cup {NoSymbol}]
         /\ defs \in [Callees -> live \cup {NoSymbol}]
         /\ decls \in [Callees -> live \cup {NoSymbol}]
         /\ structs \in [StructNames -> live \cup {NoSymbol}]
         /\ stack \in Seq(Exps(live))
         /\ pending \in [name: StructNames \cup FunctionNames \cup {NoSymbol},
                        parts: Seq(live), list: BOOLEAN]
<1>1. Seq(Live) \subseteq Seq(live) OBVIOUS
<1>2. Exps(Live) \subseteq Exps(live) BY SymbolsMonotone
<1>3. Seq(Exps(Live)) \subseteq Seq(Exps(live)) BY <1>2
<1>4. stack \in Seq(Exps(live)) BY <1>3 DEF TypeOK
<1>5. pending \in [name: StructNames \cup FunctionNames \cup {NoSymbol},
                   parts: Seq(live), list: BOOLEAN] BY <1>1 DEF TypeOK
<1> QED BY <1>4, <1>5 DEF TypeOK

LEMMA TempTypes ==
  /\ \A a \in Temps : TempType(a) \in Scalars \cup {"UNKNOWN"} /\ a[1] = 0
  /\ <<0, 0>> \in Temps /\ TempType(<<0, 0>>) = "UNKNOWN"
<1>1. \A a \in Temps : TempType(a) \in Scalars \cup {"UNKNOWN"} /\ Temp(TempType(a)) = a
  BY DEF Temps, TempType
<1>2. Temp("UNKNOWN") = <<0, 0>> BY DEF Temp
<1>3. <<0, 0>> \in Temps BY <1>2 DEF Temps
<1>4. \A t \in Scalars \cup {"UNKNOWN"} : Temp(t) = <<0, 0>> => t = "UNKNOWN"
  <2>1. \A t \in {"INT", "FLOAT", "CHAR"} : Temp(t) # <<0, 0>> BY DEF Temp
  <2> QED BY <2>1, ConstantsAssumption
<1>5. \A a \in Temps : a[1] = 0 BY DEF Temps, Temp
<1> QED BY <1>1, <1>3, <1>4, <1>5

LEMMA InitEstablishes == Init => IInv
<1> SUFFICES ASSUME Init PROVE IInv OBVIOUS
<1> DEFINE live == Temps \cup {<<1, 0>>, <<2, 0>>, <<3, 0>>}
<1>1. PICK wild \in Wilds : heap = [a \in live |-> Builtin(a, wild)] BY DEF Init
<1>2. Live = live BY <1>1 DEF Live
<1>3. live \subseteq Addresses BY TempsAreAddresses DEF Addresses
<1>4. wild \in live \cup {NoSymbol} /\ Temp("INT") \in live /\ <<3, 0>> \in live
  BY WildsAssumption, ConstantsAssumption DEF Temps
<1>5. \A a \in Temps : a # <<1, 0>> /\ a # <<2, 0>> /\ a # <<3, 0>>
  BY TempTypes
<1>6. ASSUME NEW a \in live PROVE Builtin(a, wild) \in SymbolsOver(live)
  <2>0. <<>> \in Seq(live) /\ "FUNCTION" \in SymbolTypes /\ "INT" \in SymbolTypes
    BY ConstantsAssumption DEF SymbolTypes
  <2>1. CASE a = <<1, 0>>
    <3>1. Builtin(a, wild) = Symbol("read", "FUNCTION", <<>>, 0, 0, Temp("INT"))
      BY <2>1 DEF Builtin
    <3> HIDE DEF live
    <3> QED BY <2>0, <3>1, <1>4, ObjectGood
  <2>2. CASE a = <<2, 0>>
    <3>1. Builtin(a, wild) = Symbol("write", "FUNCTION", << <<3, 0>> >>, 0, 0, wild)
      BY <2>2 DEF Builtin
    <3> HIDE DEF live
    <3>2. << <<3, 0>> >> \in Seq(live) BY <1>4
    <3> QED BY <2>0, <3>1, <3>2, <1>4, ObjectGood
  <2>3. CASE a = <<3, 0>>
    <3>1. Builtin(a, wild) = Symbol("$1", "INT", <<>>, 0, 0, NoSymbol)
      BY <2>3 DEF Builtin
    <3> HIDE DEF live
    <3> QED BY <2>0, <3>1, ObjectGood
  <2>4. CASE a \in Temps
    <3>1. Builtin(a, wild) = Symbol("", TempType(a), <<>>, 0, 0, NoSymbol)
      BY <2>4, <1>5 DEF Builtin
    <3>2. TempType(a) \in SymbolTypes /\ TempType(a) # "ARRAY"
      BY <2>4, TempTypes, ConstantsAssumption DEF SymbolTypes
    <3> HIDE DEF live
    <3> QED BY <2>0, <3>1, <3>2, ObjectGood
  <2> QED BY <2>1, <2>2, <2>3, <2>4
<1>7. heap \in [Live -> SymbolsOver(Live)]
  <2> HIDE DEF live
  <2> QED BY <1>1, <1>2, <1>6
<1>8. UnknownStays
  <2>1. Builtin(<<0, 0>>, wild) = Symbol("", "UNKNOWN", <<>>, 0, 0, NoSymbol)
    BY <1>5, TempTypes DEF Builtin
  <2>2. heap[<<0, 0>>] = Symbol("", "UNKNOWN", <<>>, 0, 0, NoSymbol)
    BY <1>1, <2>1, TempTypes
  <2>3. Symbol("", "UNKNOWN", <<>>, 0, 0, NoSymbol).type = "UNKNOWN" BY DEF Symbol
  <2> QED BY <2>2, <2>3 DEF UnknownStays
<1>9. TypeOK
  <2>1. <<>> \in Seq(Exps(Live)) /\ <<>> \in Seq(Live) OBVIOUS
  <2>2. defs \in [Callees -> Live \cup {NoSymbol}]
    <3>1. <<1, 0>> \in Live /\ <<2, 0>> \in Live BY <1>2
    <3> QED BY <3>1 DEF Init
  <2>3. stack \in Seq(Exps(Live)) BY <2>1 DEF Init
  <2>4. pending \in [name: StructNames \cup FunctionNames \cup {NoSymbol},
                     parts: Seq(Live), list: BOOLEAN] BY <2>1 DEF Init, NothingPending
  <2>5. /\ vars \in [Names -> Live \cup {NoSymbol}]
        /\ decls \in [Callees -> Live \cup {NoSymbol}]
        /\ structs \in [StructNames -> Live \cup {NoSymbol}]
    BY DEF Init
  <2>6. Temps \subseteq Live /\ Live \subseteq Addresses BY <1>2, <1>3
  <2>7. at = "file" /\ next \in Nat /\ reports \in Nat BY DEF Init
  <2> QED BY <1>7, <2>2, <2>3, <2>4, <2>5, <2>6, <2>7 DEF TypeOK
<1>10. Fresh
  <2>1. next = 4 BY DEF Init
  <2>2. \A a \in live : a[1] < 4 BY TempTypes
  <2> QED BY <1>2, <2>1, <2>2 DEF Fresh
<1>11. ParametersTyped /\ HeaderMade /\ StructIsNew
  BY DEF ParametersTyped, HeaderMade, StructIsNew, Init
<1> QED BY <1>8, <1>9, <1>10, <1>11 DEF IInv

-----------------------------------------------------------------------------
(* Steps of declarations.                                                  *)

LEMMA GoodIsTyped ==
  ASSUME TypeOK
  PROVE  GoodHeap(heap) /\ Extends(heap, heap)
BY DEF TypeOK, GoodHeap, Extends, Live

LEMMA TypedGrows ==
  ASSUME Extends(heap, heap')
  PROVE  Live \subseteq Live' /\ Typed \subseteq Typed'
BY DEF Extends, Live, Typed

(* What a step that only adds objects keeps, whatever else it does.        *)
LEMMA GrowthKeeps ==
  ASSUME IInv, GoodHeap(heap'), Extends(heap, heap')
  PROVE  /\ Temps \subseteq Live' /\ Live' \subseteq Addresses
         /\ heap' \in [Live' -> SymbolsOver(Live')]
         /\ UnknownStays'
<1>1. Live \subseteq Live' BY TypedGrows
<1>2. <<0, 0>> \in Live BY TempTypes DEF IInv, TypeOK
<1>3. heap'[<<0, 0>>] = heap[<<0, 0>>] BY <1>2 DEF Extends, Live
<1> QED BY <1>1, <1>3 DEF IInv, TypeOK, GoodHeap, Live, UnknownStays

LEMMA InsertGood ==
  ASSUME IInv, NEW n \in Names, NEW spec \in Specifiers, NEW dims \in Seq(Nat),
         vars[n] # NoSymbol \/ ~ ArrayFails(spec, dims)
  PROVE  LET g == HeapWith(n, spec, dims)
         IN /\ GoodHeap(g) /\ Extends(heap, g)
            /\ DOMAIN g \subseteq Live \cup ({next} \X Nat)
            /\ ~ Allocates(n, spec, dims) => g = heap
            /\ Allocates(n, spec, dims) =>
                 Top(next, dims) \in DOMAIN g /\ g[Top(next, dims)].type # "UNKNOWN"
<1>1. CASE Allocates(n, spec, dims)
  <2>1. ~ NullBase(spec, dims) /\ Known(spec) BY <1>1 DEF Allocates, Inserts, ArrayFails
  <2>2. \A k \in Nat : <<next, k>> \notin DOMAIN heap BY DEF IInv, Fresh, Live, TypeOK
  <2>3. GoodHeap(heap) /\ Live \subseteq DOMAIN heap /\ next \in Nat
    BY GoodIsTyped DEF IInv, Live, TypeOK
  <2>4. HeapWith(n, spec, dims) = Allocated(heap, n, spec, dims, next)
    BY <1>1 DEF HeapWith
  <2>5. LET g == Allocated(heap, n, spec, dims, next)
        IN /\ GoodHeap(g) /\ Extends(heap, g)
           /\ DOMAIN g \subseteq DOMAIN heap \cup ({next} \X Nat)
           /\ Top(next, dims) \in DOMAIN g
           /\ Known(spec) => g[Top(next, dims)].type # "UNKNOWN"
    <3>1. TypeOK /\ UnknownStays BY DEF IInv
    <3> QED BY <2>1, <2>2, <2>3, <3>1, AllocatedGood
  <2> QED BY ONLY <1>1, <2>1, <2>4, <2>5 DEF Live
<1>2. CASE ~ Allocates(n, spec, dims)
  <2>1. HeapWith(n, spec, dims) = heap BY <1>2 DEF HeapWith
  <2> QED BY <1>2, <2>1, GoodIsTyped DEF IInv, Live
<1> QED BY <1>1, <1>2

(* The table of variables after an insertion.                              *)
LEMMA InsertBinds ==
  ASSUME IInv, NEW n \in Names, NEW spec \in Specifiers, NEW dims \in Seq(Nat),
         vars[n] # NoSymbol \/ ~ ArrayFails(spec, dims), Insert(n, spec, dims),
         Extends(heap, heap'), Extends(HeapWith(n, spec, dims), heap')
  PROVE  /\ vars' \in [Names -> Live' \cup {NoSymbol}]
         /\ Kept(vars, vars', Names, Typed')
         /\ reports' \in Nat /\ reports' \in {reports, reports + 1}
<1> DEFINE g == HeapWith(n, spec, dims)
           a == IF Shares(spec, dims) THEN structs[spec] ELSE Top(next, dims)
<1>1. reports' \in Nat /\ reports' \in {reports, reports + 1}
  BY ReportCounts DEF Insert, IInv, TypeOK
<1>2. vars \in [Names -> Live' \cup {NoSymbol}] BY Widened, TypedGrows DEF IInv
<1>3. CASE ~ Inserts(n, spec)
  <2>1. vars' = vars BY <1>3 DEF Insert
  <2> QED BY <1>1, <1>2, <2>1 DEF Kept
<1>4. CASE Inserts(n, spec)
  <2>1. vars' = [vars EXCEPT ![n] = a] BY <1>4 DEF Insert
  <2>2. a \in Typed'
    <3>1. CASE Shares(spec, dims)
      <4>1. spec \in StructNames /\ Known(spec) BY <3>1, <1>4 DEF Shares, Inserts
      <4>2. structs[spec] \in Live /\ SpecAddress(spec) = structs[spec]
        BY <4>1, KnownStruct DEF IInv
      <4>3. structs[spec] \in Typed BY <4>1, <4>2 DEF Known, Typed
      <4> QED BY <3>1, <4>3, TypedGrows
    <3>2. CASE ~ Shares(spec, dims)
      <4>1. Allocates(n, spec, dims) BY <3>2, <1>4 DEF Allocates
      <4>2. Top(next, dims) \in DOMAIN g /\ g[Top(next, dims)].type # "UNKNOWN"
        BY <4>1, InsertGood
      <4> HIDE DEF g
      <4>3. Extends(g, heap') BY DEF g
      <4>4. Top(next, dims) \in DOMAIN heap' /\ heap'[Top(next, dims)].type # "UNKNOWN"
        BY <4>2, <4>3 DEF Extends
      <4> QED BY <3>2, <4>4 DEF Typed, Live
    <3> QED BY <3>1, <3>2
  <2>3. a \in Live' BY <2>2 DEF Typed
  <2>4. vars[n] = NoSymbol BY <1>4 DEF Inserts
  <2> HIDE DEF a
  <2>5. vars' \in [Names -> Live' \cup {NoSymbol}] BY <1>2, <2>1, <2>3
  <2>6. Kept(vars, vars', Names, Typed') BY <2>1, <2>2, <2>4, <1>2 DEF Kept
  <2> QED BY <1>1, <2>5, <2>6
<1> QED BY <1>3, <1>4

LEMMA KeptUnchanged ==
  ASSUME NEW table, NEW names, NEW newTyped
  PROVE  Kept(table, table, names, newTyped)
BY DEF Kept

LEMMA DeclarationTypes ==
  ASSUME NEW d \in Declarations
  PROVE  d[1] \in Names /\ d[2] \in Specifiers /\ d[3] \in Seq(Nat)
BY ConstantsAssumption DEF Names

LEMMA FreshGrows ==
  ASSUME NEW live, live \subseteq Addresses, NEW d \in Nat, \A a \in live : a[1] < d,
         NEW grown, grown \subseteq live \cup ({d} \X Nat)
  PROVE  \A a \in grown : a[1] < d + 1
<1> SUFFICES ASSUME NEW a \in grown PROVE a[1] < d + 1 OBVIOUS
<1>1. CASE a \in live
  <2>1. a[1] \in Nat /\ a[1] < d BY <1>1 DEF Addresses
  <2> QED BY <2>1
<1>2. CASE a \in {d} \X Nat
  <2>1. a[1] = d BY <1>2
  <2> QED BY <2>1
<1> QED BY <1>1, <1>2

LEMMA DeclareStep ==
  ASSUME IInv, NEW n \in Names, NEW spec \in Specifiers, NEW dims \in Seq(Nat),
         Declare(n, spec, dims)
  PROVE  IInv' /\ Enters
<1> DEFINE g == HeapWith(n, spec, dims)
<1>1. heap' = g /\ GoodHeap(g) /\ Extends(heap, g)
      /\ DOMAIN g \subseteq Live \cup ({next} \X Nat) /\ (~ Allocates(n, spec, dims) => g = heap)
  BY InsertGood DEF Declare
<1> HIDE DEF g
<1>2. GoodHeap(heap') /\ Extends(heap, heap') /\ Extends(HeapWith(n, spec, dims), heap')
  BY <1>1 DEF g, Extends
<1>3. Live \subseteq Live' /\ Typed \subseteq Typed' BY <1>2, TypedGrows
<1>4. /\ vars' \in [Names -> Live' \cup {NoSymbol}]
      /\ Kept(vars, vars', Names, Typed')
      /\ reports' \in Nat /\ reports' \in {reports, reports + 1}
  BY <1>2, InsertBinds DEF Declare
<1>5. next' = next + (IF Allocates(n, spec, dims) THEN 1 ELSE 0) /\ next \in Nat
  BY DEF Declare, Take, IInv, TypeOK
<1>6. TypeOK'
  <2>1. stack' \in Seq(Exps(Live')) BY DEF Declare
  <2>2. next' \in Nat BY <1>5
  <2> QED BY <1>2, <1>3, <1>4, <2>1, <2>2, GrowthKeeps, Widened DEF IInv, Declare, TypeOK
<1>7. Fresh'
  <2>1. CASE Allocates(n, spec, dims)
    <3>1. \A a \in DOMAIN g : a[1] < next + 1
      BY <1>1, <1>5, FreshGrows DEF IInv, Fresh, TypeOK
    <3> QED BY <1>1, <1>5, <2>1, <3>1 DEF IInv, Fresh, Live
  <2>2. CASE ~ Allocates(n, spec, dims) BY <1>1, <1>5, <2>2 DEF IInv, Fresh, Live
  <2> QED BY <2>1, <2>2
<1>8. UnknownStays' BY <1>2, GrowthKeeps
<1>9. ParametersTyped' /\ HeaderMade' /\ StructIsNew'
  BY DEF Declare, ParametersTyped, HeaderMade, StructIsNew
<1>10. Enters BY <1>3, <1>4, KeptUnchanged DEF Enters, Declare
<1> QED BY <1>6, <1>7, <1>8, <1>9, <1>10 DEF IInv

LEMMA MemberStep ==
  ASSUME IInv, NEW n \in Names, NEW spec \in Specifiers, NEW dims \in Seq(Nat),
         Member(n, spec, dims)
  PROVE  IInv' /\ Enters
<1> DEFINE g == HeapWith(n, spec, dims)
           d == MemberNumber(n, spec, dims)
<1>1. GoodHeap(g) /\ Extends(heap, g)
      /\ DOMAIN g \subseteq Live \cup ({next} \X Nat) /\ (~ Allocates(n, spec, dims) => g = heap)
  BY InsertGood DEF Member
<1>2. d \in Nat /\ next \in Nat /\ next <= d /\ (Allocates(n, spec, dims) => d = next + 1)
      /\ (~ Allocates(n, spec, dims) => d = next)
  BY DEF MemberNumber, IInv, TypeOK
<1>3. \A k \in Nat : <<d, k>> \notin DOMAIN g
  <2>1. \A a \in Live : a[1] < next BY DEF IInv, Fresh
  <2>2. CASE Allocates(n, spec, dims) BY <1>1, <1>2, <2>1, <2>2
  <2>3. CASE ~ Allocates(n, spec, dims) BY <1>1, <1>2, <2>1, <2>3 DEF Live
  <2> QED BY <2>2, <2>3
<1>4. heap' = IF pending.list THEN Allocated(g, n, spec, dims, d) ELSE g BY DEF Member
<1> HIDE DEF g
<1>5. CASE pending.list
  <2> DEFINE h == Allocated(g, n, spec, dims, d)
  <2>1. ~ NullBase(spec, dims) BY <1>5 DEF Member, ArrayFails
  <2>2. Live \subseteq DOMAIN g BY <1>1 DEF Extends, Live
  <2>3. /\ GoodHeap(h) /\ Extends(g, h) /\ DOMAIN h \subseteq DOMAIN g \cup ({d} \X Nat)
        /\ Top(d, dims) \in DOMAIN h
    BY <1>1, <1>2, <1>3, <2>1, <2>2, AllocatedGood DEF IInv
  <2> HIDE DEF h, d
  <2>4. heap' = h BY <1>4, <1>5 DEF h
  <2>5. GoodHeap(heap') /\ Extends(heap, heap') /\ Extends(HeapWith(n, spec, dims), heap')
    BY <1>1, <2>3, <2>4 DEF Extends, g
  <2>6. Live \subseteq Live' /\ Typed \subseteq Typed' BY <2>5, TypedGrows
  <2>7. /\ vars' \in [Names -> Live' \cup {NoSymbol}]
        /\ Kept(vars, vars', Names, Typed')
        /\ reports' \in Nat /\ reports' \in {reports, reports + 1}
    BY <2>5, InsertBinds DEF Member
  <2>8. next' = d + 1
    <3>1. next' = next + (d - next + 1) BY <1>5 DEF Member, Take, d
    <3> QED BY <3>1, <1>2
  <2>9. TypeOK'
    <3>1. pending' = [pending EXCEPT !.parts = Append(@, Top(d, dims))]
      BY <1>5 DEF Member, d
    <3>2. Top(d, dims) \in Live' BY <2>3, <2>4 DEF Live
    <3>3. pending \in [name: StructNames \cup FunctionNames \cup {NoSymbol},
                       parts: Seq(Live'), list: BOOLEAN]
      BY <2>6, Widened DEF IInv
    <3>4. pending' \in [name: StructNames \cup FunctionNames \cup {NoSymbol},
                        parts: Seq(Live'), list: BOOLEAN]
          /\ pending'.name = pending.name
      <4>1. Append(pending.parts, Top(d, dims)) \in Seq(Live') BY <3>2, <3>3
      <4>2. pending' = [pending EXCEPT !.parts = Append(pending.parts, Top(d, dims))] BY <3>1
      <4> QED BY <3>3, <4>1, <4>2
    <3>5. next' \in Nat BY <2>8, <1>2
    <3> QED BY <2>5, <2>6, <2>7, <3>4, <3>5, GrowthKeeps, Widened DEF IInv, Member, TypeOK
  <2>10. Fresh'
    <3>1. \A a \in Live : a[1] < next BY DEF IInv, Fresh
    <3>2. \A a \in DOMAIN g : a[1] < d
      <4>1. CASE Allocates(n, spec, dims)
        <5>1. \A a \in DOMAIN g : a[1] < next + 1
          BY <1>1, <1>2, <3>1, FreshGrows DEF IInv, TypeOK
        <5> QED BY <1>2, <4>1, <5>1
      <4>2. CASE ~ Allocates(n, spec, dims) BY <1>1, <1>2, <3>1, <4>2 DEF Live
      <4> QED BY <4>1, <4>2
    <3>3. \A a \in DOMAIN g : a[1] \in Nat BY <1>1 DEF GoodHeap, Addresses
    <3>4. \A a \in DOMAIN h : a[1] < d + 1 BY <1>2, <2>3, <3>2, <3>3
    <3> QED BY <1>2, <2>4, <2>8, <3>4 DEF IInv, Fresh, Live
  <2>11. UnknownStays' BY <2>5, GrowthKeeps
  <2>12. ParametersTyped' /\ HeaderMade' BY DEF Member, ParametersTyped, HeaderMade
  <2>14. StructIsNew'
    <3>1. pending'.name = pending.name BY <1>5 DEF Member, IInv, TypeOK
    <3> QED BY <1>5, <3>1 DEF Member, IInv, StructIsNew
  <2>13. Enters BY <2>6, <2>7, KeptUnchanged DEF Enters, Member
  <2> QED BY <2>9, <2>10, <2>11, <2>12, <2>13, <2>14 DEF IInv
<1>6. CASE ~ pending.list
  <2> HIDE DEF d
  <2>1. heap' = g BY <1>4, <1>6
  <2>2. GoodHeap(heap') /\ Extends(heap, heap') /\ Extends(HeapWith(n, spec, dims), heap')
    BY <1>1, <2>1 DEF g, Extends
  <2>3. Live \subseteq Live' /\ Typed \subseteq Typed' BY <2>2, TypedGrows
  <2>4. /\ vars' \in [Names -> Live' \cup {NoSymbol}]
        /\ Kept(vars, vars', Names, Typed')
        /\ reports' \in Nat /\ reports' \in {reports, reports + 1}
    BY <2>2, InsertBinds DEF Member
  <2>5. next' = d
    <3>1. next' = next + (d - next + 0) BY <1>6 DEF Member, Take, d
    <3> QED BY <3>1, <1>2
  <2>6. pending' = pending BY <1>6 DEF Member
  <2>7. TypeOK'
    <3>1. next' \in Nat BY <2>5, <1>2
    <3> QED BY <2>2, <2>3, <2>4, <2>6, <3>1, GrowthKeeps, Widened DEF IInv, Member, TypeOK
  <2>8. Fresh'
    <3>1. CASE Allocates(n, spec, dims)
      <4>1. \A a \in DOMAIN g : a[1] < next + 1
        BY <1>1, <1>2, FreshGrows DEF IInv, Fresh, TypeOK
      <4> QED BY <1>2, <2>1, <2>5, <3>1, <4>1 DEF IInv, Fresh, Live
    <3>2. CASE ~ Allocates(n, spec, dims) BY <1>1, <1>2, <2>1, <2>5, <3>2 DEF IInv, Fresh, Live
    <3> QED BY <3>1, <3>2
  <2>9. UnknownStays' BY <2>2, GrowthKeeps
  <2>10. ParametersTyped' /\ HeaderMade' /\ StructIsNew'
    BY <1>6, <2>6 DEF Member, ParametersTyped, HeaderMade, StructIsNew
  <2>11. Enters BY <2>3, <2>4, KeptUnchanged DEF Enters, Member
  <2> QED BY <2>7, <2>8, <2>9, <2>10, <2>11 DEF IInv
<1> QED BY <1>5, <1>6

LEMMA ParameterStep ==
  ASSUME IInv, NEW n \in Names, NEW spec \in Specifiers, NEW dims \in Seq(Nat),
         Parameter(n, spec, dims)
  PROVE  IInv' /\ Enters
<1>1. reports' \in Nat /\ reports' \in {reports, reports + 1}
  BY ReportCounts DEF Parameter, IInv, TypeOK
<1>2. at = "header" /\ at' = "header" /\ next \in Nat /\ ~ NullBase(spec, dims)
  BY DEF Parameter, IInv, TypeOK, ArrayFails
<1>3. CASE ~ Known(spec)
  <2>1. heap' = heap /\ next' = next BY <1>2, <1>3 DEF Parameter, Take
  <2>2. pending' = [pending EXCEPT !.list = TRUE] BY <1>3 DEF Parameter
  <2>3. pending' \in [name: StructNames \cup FunctionNames \cup {NoSymbol},
                      parts: Seq(Live), list: BOOLEAN]
        /\ pending'.name = pending.name /\ pending'.parts = pending.parts
    BY <2>2 DEF IInv, TypeOK
  <2>4. TypeOK' BY <2>1, <2>3, <1>1, <1>2 DEF IInv, TypeOK, Parameter, Live, tables
  <2>5. Fresh' /\ UnknownStays' BY <2>1 DEF IInv, Fresh, UnknownStays, Live
  <2>6. ParametersTyped' /\ HeaderMade' /\ StructIsNew'
    BY <1>2, <2>1, <2>3 DEF IInv, ParametersTyped, HeaderMade, StructIsNew
  <2>7. Enters BY <1>1, <2>1, KeptUnchanged DEF Enters, Parameter, tables, Typed, Live
  <2> QED BY <2>4, <2>5, <2>6, <2>7 DEF IInv
<1>4. CASE Known(spec)
  <2> DEFINE h == Allocated(heap, n, spec, dims, next)
             a == Top(next, dims)
  <2>1. \A k \in Nat : <<next, k>> \notin DOMAIN heap BY DEF IInv, Fresh, Live, TypeOK
  <2>2. GoodHeap(heap) /\ Live \subseteq DOMAIN heap BY GoodIsTyped DEF IInv, Live
  <2>3. /\ GoodHeap(h) /\ Extends(heap, h) /\ DOMAIN h \subseteq Live \cup ({next} \X Nat)
        /\ a \in DOMAIN h /\ h[a].type # "UNKNOWN"
    BY <1>2, <1>4, <2>1, <2>2, AllocatedGood DEF IInv, Live
  <2>4. heap' = h BY <1>4 DEF Parameter
  <2>5. next' = next + 1 BY <1>4 DEF Parameter, Take
  <2>6. pending' = [pending EXCEPT !.list = TRUE, !.parts = Append(pending.parts, a)]
    BY <1>4 DEF Parameter
  <2> HIDE DEF h, a
  <2>7. Live \subseteq Live' /\ Typed \subseteq Typed' BY <2>3, <2>4, TypedGrows
  <2>8. pending \in [name: StructNames \cup FunctionNames \cup {NoSymbol},
                     parts: Seq(Live'), list: BOOLEAN]
    BY <2>7, Widened DEF IInv
  <2>9. a \in Live' /\ a \in Typed' BY <2>3, <2>4 DEF Live, Typed
  <2>10. Append(pending.parts, a) \in Seq(Live') BY <2>8, <2>9
  <2>11. pending' \in [name: StructNames \cup FunctionNames \cup {NoSymbol},
                       parts: Seq(Live'), list: BOOLEAN]
         /\ pending'.name = pending.name /\ pending'.parts = Append(pending.parts, a)
    BY <2>6, <2>8, <2>10
  <2>12. TypeOK'
    <3>1. next' \in Nat BY <1>2, <2>5
    <3>2. vars' = vars /\ defs' = defs /\ decls' = decls /\ structs' = structs /\ stack' = stack
      BY DEF Parameter, tables
    <3> QED BY <1>1, <1>2, <2>3, <2>4, <2>7, <2>11, <3>1, <3>2, GrowthKeeps, Widened DEF IInv, TypeOK
  <2>13. Fresh'
    <3>1. \A b \in DOMAIN h : b[1] < next + 1
      BY <1>2, <2>3, FreshGrows DEF IInv, Fresh, TypeOK
    <3> QED BY <1>2, <2>4, <2>5, <3>1 DEF IInv, Fresh, Live
  <2>14. UnknownStays' BY <2>3, <2>4, GrowthKeeps
  <2>15. ParametersTyped'
    <3> SUFFICES ASSUME NEW i \in DOMAIN pending'.parts
                 PROVE  heap'[pending'.parts[i]].type # "UNKNOWN"
      BY DEF ParametersTyped
    <3>1. pending.parts \in Seq(Live) BY DEF IInv, TypeOK
    <3>2. CASE i \in DOMAIN pending.parts
      <4>1. pending'.parts[i] = pending.parts[i] BY <2>11, <3>1, <3>2
      <4>2. pending.parts[i] \in Live BY <3>1, <3>2
      <4>3. heap[pending.parts[i]].type # "UNKNOWN" BY <1>2, <3>2 DEF IInv, ParametersTyped
      <4>4. pending.parts[i] \in Typed BY <4>2, <4>3 DEF Typed
      <4> QED BY <4>1, <4>4, <2>7 DEF Typed
    <3>3. CASE i \notin DOMAIN pending.parts
      <4>1. pending'.parts[i] = a BY <2>11, <3>1, <3>3
      <4> QED BY <4>1, <2>9 DEF Typed
    <3> QED BY <3>2, <3>3
  <2>16. HeaderMade' /\ StructIsNew' BY <1>2 DEF HeaderMade, StructIsNew
  <2>17. Enters BY <1>1, <2>7, KeptUnchanged DEF Enters, Parameter, tables
  <2> QED BY <2>12, <2>13, <2>14, <2>15, <2>16, <2>17 DEF IInv
<1> QED BY <1>3, <1>4

LEMMA CloseStructStep ==
  ASSUME IInv, CloseStruct
  PROVE  IInv' /\ Enters
<1>1. reports' \in Nat /\ reports' \in {reports, reports + 1}
  BY ReportCounts DEF CloseStruct, IInv, TypeOK
<1>2. at = "struct" /\ at' = "file" /\ next \in Nat /\ pending.name \in StructNames
  BY DEF CloseStruct, IInv, TypeOK
<1>3. \A live : NothingPending \in [name: StructNames \cup FunctionNames \cup {NoSymbol},
                                    parts: Seq(live), list: BOOLEAN]
  BY DEF NothingPending
<1>4. pending' = NothingPending BY DEF CloseStruct
<1>5. CASE ~ pending.list
  <2>1. heap' = heap /\ next' = next /\ structs' = structs
    BY <1>2, <1>5 DEF CloseStruct, Take
  <2>2. TypeOK' BY <2>1, <1>1, <1>2, <1>3, <1>4 DEF IInv, TypeOK, CloseStruct, Live
  <2>3. Fresh' /\ UnknownStays' BY <2>1 DEF IInv, Fresh, UnknownStays, Live
  <2>4. ParametersTyped' /\ HeaderMade' /\ StructIsNew'
    BY <1>2 DEF ParametersTyped, HeaderMade, StructIsNew
  <2>5. Enters BY <1>1, <2>1, KeptUnchanged DEF Enters, CloseStruct, Typed, Live
  <2> QED BY <2>2, <2>3, <2>4, <2>5 DEF IInv
<1>6. CASE pending.list
  <2> DEFINE a == <<next, 0>>
             s == Symbol(pending.name, "STRUCT", pending.parts, 0, 0, NoSymbol)
             h == With(heap, a, s)
  <2>1. a \in Addresses /\ a \in {next} \X Nat BY <1>2 DEF Addresses
  <2>2. a \notin DOMAIN heap BY <1>2 DEF IInv, Fresh, Live
  <2>3. s \in SymbolsOver(Live)
    <3>1. "STRUCT" \in SymbolTypes BY DEF SymbolTypes
    <3>2. pending.parts \in Seq(Live) BY DEF IInv, TypeOK
    <3> QED BY <1>2, <3>1, <3>2, ObjectGood
  <2>4. s.type = "STRUCT" BY DEF Symbol
  <2>5. heap' = h /\ structs' = [structs EXCEPT ![pending.name] = a]
    BY <1>6 DEF CloseStruct
  <2> HIDE DEF a, s
  <2>6. /\ GoodHeap(h) /\ Extends(heap, h)
        /\ DOMAIN h = Live \cup {a} /\ h[a] = s
    <3>1. GoodHeap(heap) BY GoodIsTyped DEF IInv
    <3> HIDE DEF h
    <3>2. /\ GoodHeap(With(heap, a, s)) /\ Extends(heap, With(heap, a, s))
          /\ DOMAIN With(heap, a, s) = DOMAIN heap \cup {a} /\ With(heap, a, s)[a] = s
      BY <2>1, <2>2, <2>3, <3>1, WithGood DEF Live
    <3> QED BY <3>2 DEF Live, h
  <2> HIDE DEF h
  <2>7. next' = next + 1 BY <1>6 DEF CloseStruct, Take
  <2>8. Live \subseteq Live' /\ Typed \subseteq Typed' BY <2>5, <2>6, TypedGrows
  <2>9. a \in Live' /\ a \in Typed' BY <2>4, <2>5, <2>6 DEF Live, Typed
  <2>10. structs \in [StructNames -> Live' \cup {NoSymbol}] BY <2>8, Widened DEF IInv
  <2>11. structs' \in [StructNames -> Live' \cup {NoSymbol}] BY <2>5, <2>9, <2>10
  <2>12. TypeOK'
    <3>1. next' \in Nat BY <1>2, <2>7
    <3>2. vars' = vars /\ defs' = defs /\ decls' = decls /\ stack' = stack BY DEF CloseStruct
    <3> QED BY <1>1, <1>2, <1>3, <1>4, <2>5, <2>6, <2>8, <2>11, <3>1, <3>2, GrowthKeeps, Widened
         DEF IInv, TypeOK
  <2>13. Fresh'
    <3>1. DOMAIN h \subseteq Live \cup ({next} \X Nat) BY <2>1, <2>6
    <3>2. \A b \in DOMAIN h : b[1] < next + 1
      BY <1>2, <3>1, FreshGrows DEF IInv, Fresh, TypeOK
    <3> QED BY <1>2, <2>5, <2>7, <3>2 DEF IInv, Fresh, Live
  <2>14. UnknownStays' BY <2>5, <2>6, GrowthKeeps
  <2>15. ParametersTyped' /\ HeaderMade' /\ StructIsNew'
    BY <1>2 DEF ParametersTyped, HeaderMade, StructIsNew
  <2>16. Kept(structs, structs', StructNames, Typed')
    <3>1. structs[pending.name] = NoSymbol BY <1>2, <1>6 DEF IInv, StructIsNew
    <3> QED BY <2>5, <2>9, <2>10, <3>1 DEF Kept
  <2>17. Enters BY <1>1, <2>8, <2>16, KeptUnchanged DEF Enters, CloseStruct
  <2> QED BY <2>12, <2>13, <2>14, <2>15, <2>17 DEF IInv
<1> QED BY <1>5, <1>6

-----------------------------------------------------------------------------
(* Steps of functions, and the steps that leave heap and tables alone.     *)

LEMMA NothingPendingType ==
  ASSUME NEW live
  PROVE  NothingPending \in [name: StructNames \cup FunctionNames \cup {NoSymbol},
                             parts: Seq(live), list: BOOLEAN]
BY DEF NothingPending

LEMMA QuietStep ==
  ASSUME IInv, UNCHANGED <<heap, vars, defs, decls, structs, next>>,
         stack' \in Seq(Exps(Live)), reports' \in Nat, reports' \in {reports, reports + 1},
         pending' \in {pending, NothingPending}, at' \in {"file", "body", "crashed", "out_of_range"}
  PROVE  IInv' /\ Enters
<1>1. pending' \in [name: StructNames \cup FunctionNames \cup {NoSymbol},
                   parts: Seq(Live), list: BOOLEAN]
  BY NothingPendingType DEF IInv, TypeOK
<1>2. TypeOK' BY <1>1 DEF IInv, TypeOK, Live
<1>3. Fresh' /\ UnknownStays' BY DEF IInv, Fresh, UnknownStays, Live
<1>4. ParametersTyped' /\ HeaderMade' /\ StructIsNew'
  BY DEF ParametersTyped, HeaderMade, StructIsNew
<1>5. Enters BY KeptUnchanged DEF Enters, Typed, Live
<1> QED BY <1>2, <1>3, <1>4, <1>5 DEF IInv

LEMMA OpenStructStep ==
  ASSUME IInv, NEW s \in StructNames, OpenStruct(s)
  PROVE  IInv' /\ Enters
<1>1. pending' \in [name: StructNames \cup FunctionNames \cup {NoSymbol},
                   parts: Seq(Live), list: BOOLEAN]
      /\ pending'.name = s /\ pending'.list = (structs[s] = NoSymbol)
  BY DEF OpenStruct
<1>2. at' = "struct" /\ UNCHANGED <<heap, vars, defs, decls, structs, stack, next, reports>>
  BY DEF OpenStruct, tables
<1>3. TypeOK' BY <1>1, <1>2 DEF IInv, TypeOK, Live
<1>4. Fresh' /\ UnknownStays' BY <1>2 DEF IInv, Fresh, UnknownStays, Live
<1>5. ParametersTyped' /\ HeaderMade' BY <1>2 DEF ParametersTyped, HeaderMade
<1>6. StructIsNew' BY <1>1, <1>2 DEF StructIsNew
<1>7. Enters BY <1>2, KeptUnchanged DEF Enters, Typed, Live
<1> QED BY <1>3, <1>4, <1>5, <1>6, <1>7 DEF IInv

LEMMA OpenHeaderStep ==
  ASSUME IInv, NEW f \in FunctionNames, OpenHeader(f)
  PROVE  IInv' /\ Enters
<1>1. pending' \in [name: StructNames \cup FunctionNames \cup {NoSymbol},
                   parts: Seq(Live), list: BOOLEAN]
      /\ pending'.name = f /\ pending'.parts = <<>>
  BY DEF OpenHeader
<1>2. at' = "header" /\ UNCHANGED <<heap, vars, defs, decls, structs, stack, next, reports>>
  BY DEF OpenHeader, tables
<1>3. TypeOK' BY <1>1, <1>2 DEF IInv, TypeOK, Live
<1>4. Fresh' /\ UnknownStays' BY <1>2 DEF IInv, Fresh, UnknownStays, Live
<1>5. ParametersTyped' BY <1>1 DEF ParametersTyped
<1>6. HeaderMade' /\ StructIsNew' BY <1>2 DEF HeaderMade, StructIsNew
<1>7. Enters BY <1>2, KeptUnchanged DEF Enters, Typed, Live
<1> QED BY <1>3, <1>4, <1>5, <1>6, <1>7 DEF IInv

LEMMA FunctionHeaderStep ==
  ASSUME IInv, FunctionHeader
  PROVE  IInv' /\ Enters
<1> DEFINE a == <<next, 0>>
           s == Symbol(pending.name, "FUNCTION", pending.parts, 0, 0, NoSymbol)
           h == With(heap, a, s)
<1>1. reports' \in Nat /\ reports' \in {reports, reports + 1}
  BY ReportCounts DEF FunctionHeader, IInv, TypeOK
<1>2. /\ at = "header" /\ at' = "declared" /\ next \in Nat
      /\ pending.name \in FunctionNames /\ pending.parts \in Seq(Live)
  BY DEF FunctionHeader, IInv, TypeOK
<1>3. a \in Addresses /\ a \in {next} \X Nat BY <1>2 DEF Addresses
<1>4. a \notin DOMAIN heap BY <1>2 DEF IInv, Fresh, Live
<1>5. s \in SymbolsOver(Live)
  <2>1. "FUNCTION" \in SymbolTypes BY DEF SymbolTypes
  <2>2. pending.name \in Names BY <1>2 DEF Names
  <2> QED BY <1>2, <2>1, <2>2, ObjectGood
<1>6. s.type = "FUNCTION" BY DEF Symbol
<1>7. heap' = h BY DEF FunctionHeader
<1>8. decls' = decls \/ (decls[pending.name] = NoSymbol
                          /\ decls' = [decls EXCEPT ![pending.name] = a])
  BY DEF FunctionHeader
<1> HIDE DEF a, s
<1>9. /\ GoodHeap(h) /\ Extends(heap, h)
      /\ DOMAIN h = Live \cup {a} /\ h[a] = s
  <2>1. GoodHeap(heap) BY GoodIsTyped DEF IInv
  <2> HIDE DEF h
  <2>2. /\ GoodHeap(With(heap, a, s)) /\ Extends(heap, With(heap, a, s))
        /\ DOMAIN With(heap, a, s) = DOMAIN heap \cup {a} /\ With(heap, a, s)[a] = s
    BY <1>3, <1>4, <1>5, <2>1, WithGood DEF Live
  <2> QED BY <2>2 DEF Live, h
<1> HIDE DEF h
<1>10. next' = next + 1 BY DEF FunctionHeader, Take
<1>11. Live \subseteq Live' /\ Typed \subseteq Typed' BY <1>7, <1>9, TypedGrows
<1>12. a \in Live' /\ a \in Typed' BY <1>6, <1>7, <1>9 DEF Live, Typed
<1>13. decls' \in [Callees -> Live' \cup {NoSymbol}] /\ Kept(decls, decls', Callees, Typed')
  <2>1. decls \in [Callees -> Live' \cup {NoSymbol}] BY <1>11, Widened DEF IInv
  <2> QED BY <1>8, <1>12, <2>1, KeptUnchanged DEF Kept
<1>14. \A i \in DOMAIN pending.parts : pending.parts[i] \in Typed'
  BY <1>2, <1>11 DEF IInv, ParametersTyped, Typed
<1>15. vars' \in [Names -> Live' \cup {NoSymbol}] /\ Kept(vars, vars', Names, Typed')
  <2>1. vars \in [Names -> Live' \cup {NoSymbol}] BY <1>11, Widened DEF IInv
  <2>2. vars' = [n \in Names |->
                  IF vars[n] = NoSymbol /\ \E i \in DOMAIN pending.parts : IsFirst(i, n)
                  THEN pending.parts[FirstParameter(n)] ELSE vars[n]]
    BY DEF FunctionHeader, WithParameters
  <2>3. ASSUME NEW n \in Names, vars[n] = NoSymbol, vars'[n] # NoSymbol
        PROVE  vars'[n] \in Typed'
    <3>1. vars'[n] = pending.parts[FirstParameter(n)] BY <2>2, <2>3
    <3>2. \E i \in DOMAIN pending.parts : IsFirst(i, n) BY <2>2, <2>3
    <3>3. FirstParameter(n) \in DOMAIN pending.parts BY <3>2 DEF FirstParameter
    <3> QED BY <3>1, <3>3, <1>14
  <2>4. \A n \in Names : vars[n] # NoSymbol => vars'[n] = vars[n] BY <2>2
  <2>5. Kept(vars, vars', Names, Typed') BY <2>3, <2>4 DEF Kept
  <2>6. \A n \in Names : vars'[n] \in Live' \cup {NoSymbol}
    BY <2>1, <2>3, <2>4 DEF Typed
  <2>7. vars' \in [Names -> Live' \cup {NoSymbol}]
    <3>1. vars' = [n \in Names |-> vars'[n]] BY <2>2
    <3> QED BY <2>6, <3>1
  <2> QED BY <2>5, <2>7
<1>16. UNCHANGED <<defs, structs, stack, pending>> BY DEF FunctionHeader
<1>17. TypeOK'
  <2>1. next' \in Nat BY <1>2, <1>10
  <2> QED BY <1>1, <1>2, <1>7, <1>9, <1>11, <1>13, <1>15, <1>16, <2>1, GrowthKeeps, Widened
       DEF IInv, TypeOK
<1>18. Fresh'
  <2>1. DOMAIN h \subseteq Live \cup ({next} \X Nat) BY <1>3, <1>9
  <2>2. \A b \in DOMAIN h : b[1] < next + 1
    BY <1>2, <2>1, FreshGrows DEF IInv, Fresh, TypeOK
  <2> QED BY <1>2, <1>7, <1>10, <2>2 DEF IInv, Fresh, Live
<1>19. UnknownStays' BY <1>7, <1>9, GrowthKeeps
<1>20. ParametersTyped' BY <1>14, <1>16 DEF ParametersTyped, Typed
<1>21. HeaderMade'
  <2>1. <<next' - 1, 0>> = a BY <1>2, <1>10 DEF a
  <2> QED BY <1>12, <1>6, <1>7, <1>9, <2>1 DEF HeaderMade
<1>22. StructIsNew' BY <1>2 DEF StructIsNew
<1>23. Enters BY <1>1, <1>11, <1>13, <1>15, <1>16, KeptUnchanged DEF Enters
<1> QED BY <1>17, <1>18, <1>19, <1>20, <1>21, <1>22, <1>23 DEF IInv

LEMMA DeclarationStep ==
  ASSUME IInv, NEW spec \in Specifiers, Declaration(spec)
  PROVE  IInv' /\ Enters
<1>1. reports' \in Nat /\ reports' \in {reports, reports + 1}
  BY ReportCounts DEF Declaration, IInv, TypeOK
<1>2. stack' \in Seq(Exps(Live)) BY DEF Declaration, IInv, TypeOK
<1>3. UNCHANGED <<heap, vars, defs, decls, structs, next>> BY DEF Declaration, tables
<1> QED BY <1>1, <1>2, <1>3, QuietStep DEF Declaration

LEMMA DefinitionStep ==
  ASSUME IInv, NEW spec \in Specifiers, Definition(spec)
  PROVE  IInv' /\ Enters
<1> DEFINE a == <<next - 1, 0>>
<1>1. reports' \in Nat /\ reports' \in {reports, reports + 1}
  BY ReportCounts DEF Definition, IInv, TypeOK
<1>2. /\ at = "declared" /\ at' = "body" /\ pending' = NothingPending
      /\ UNCHANGED <<vars, decls, structs, stack, next>>
      /\ heap' = [heap EXCEPT ![a].ret = SpecAddress(spec)]
  BY DEF Definition
<1>3. a \in Live /\ heap[a].type = "FUNCTION"
  <2>1. HeaderMade BY DEF IInv
  <2> QED BY <1>2, <2>1 DEF HeaderMade
<1> HIDE DEF a
<1>4. SpecAddress(spec) \in Live BY SpecLives DEF IInv
<1>5. heap \in [Live -> SymbolsOver(Live)]
  <2>1. TypeOK BY DEF IInv
  <2> QED BY <2>1 DEF TypeOK
<1>6. heap' \in [Live -> SymbolsOver(Live)]
  <2>1. heap[a] \in SymbolsOver(Live) BY <1>3, <1>5
  <2>2. [heap[a] EXCEPT !.ret = SpecAddress(spec)] \in SymbolsOver(Live)
    BY <1>4, <2>1 DEF SymbolsOver
  <2> QED BY <1>2, <1>3, <1>5, <2>2
<1>7. Live' = Live BY <1>5, <1>6 DEF Live
<1>8. \A b \in Live : heap'[b].type = heap[b].type BY <1>2, <1>3, <1>5 DEF SymbolsOver
<1>9. Typed' = Typed BY <1>7, <1>8 DEF Typed
<1>10. defs' \in [Callees -> Live \cup {NoSymbol}] /\ Kept(defs, defs', Callees, Typed')
  <2>1. defs \in [Callees -> Live \cup {NoSymbol}] BY DEF IInv, TypeOK
  <2>2. a \in Typed' BY <1>3, <1>9 DEF Typed
  <2>3. defs' = defs \/ (defs[pending.name] = NoSymbol
                         /\ defs' = [defs EXCEPT ![pending.name] = a])
    BY DEF Definition, a
  <2> QED BY <1>3, <2>1, <2>2, <2>3, KeptUnchanged DEF Kept
<1>11. pending' \in [name: StructNames \cup FunctionNames \cup {NoSymbol},
                    parts: Seq(Live), list: BOOLEAN]
  BY <1>2, NothingPendingType
<1>12. TypeOK' BY <1>1, <1>2, <1>6, <1>7, <1>10, <1>11 DEF IInv, TypeOK
<1>13. Fresh' BY <1>2, <1>7 DEF IInv, Fresh
<1>14. UnknownStays'
  <2>1. <<0, 0>> \in Live BY TempTypes DEF IInv, TypeOK
  <2> QED BY <1>8, <2>1 DEF IInv, UnknownStays
<1>15. ParametersTyped' /\ HeaderMade' /\ StructIsNew'
  BY <1>2 DEF ParametersTyped, HeaderMade, StructIsNew
<1>16. Enters BY <1>1, <1>2, <1>9, <1>10, KeptUnchanged DEF Enters
<1> QED BY <1>12, <1>13, <1>14, <1>15, <1>16 DEF IInv

LEMMA EndStep ==
  ASSUME IInv, EndFunction \/ EndStatement
  PROVE  IInv' /\ Enters
<1>1. stack' \in Seq(Exps(Live))
  <2>1. stack \in Seq(Exps(Live)) /\ <<>> \in Seq(Exps(Live)) BY DEF IInv, TypeOK
  <2> QED BY <2>1 DEF EndFunction, EndStatement
<1>2. UNCHANGED <<heap, vars, defs, decls, structs, next, pending, reports>>
  BY DEF EndFunction, EndStatement, tables
<1>3. at' \in {"file", "body"} BY DEF EndFunction, EndStatement
<1>4. reports' \in Nat BY <1>2 DEF IInv, TypeOK
<1> QED BY <1>1, <1>2, <1>3, <1>4, QuietStep

LEMMA CrashStep ==
  ASSUME IInv, NEW outcome \in {"crashed", "out_of_range"}, NEW kinds, Crash(outcome, kinds)
  PROVE  IInv' /\ Enters
<1>1. reports' \in Nat /\ reports' \in {reports, reports + 1}
  BY ReportCounts DEF Crash, IInv, TypeOK
<1>2. stack' \in Seq(Exps(Live)) /\ at' \in {"crashed", "out_of_range"} /\ UNCHANGED pending
  BY DEF Crash, IInv, TypeOK
<1>3. UNCHANGED <<heap, vars, defs, decls, structs, next>> BY DEF Crash, tables
<1> QED BY <1>1, <1>2, <1>3, QuietStep

-----------------------------------------------------------------------------
(* Steps of expressions.                                                   *)

LEMMA NthLives ==
  ASSUME TypeOK, NEW k \in Nat, 1 <= k, k <= Len(stack)
  PROVE  Nth(k) \in Live
<1>1. stack \in Seq(Exps(Live)) BY DEF TypeOK
<1>2. Len(stack) + 1 - k \in 1..Len(stack) BY <1>1
<1>3. stack[Len(stack) + 1 - k] \in Exps(Live) BY <1>1, <1>2
<1> QED BY <1>3 DEF Nth, Exps

LEMMA ExpLives ==
  ASSUME NEW live, NEW a \in live
  PROVE  Exp(a) \in Exps(live)
BY DEF Exp, Exps

LEMMA FailedType ==
  ASSUME TypeOK
  PROVE  Failed \in Exps(Live)
<1>1. Temp("UNKNOWN") \in Live BY DEF TypeOK, Temps
<1> QED BY <1>1, ExpLives DEF Failed

LEMMA ReducedStack ==
  ASSUME TypeOK, NEW k \in Nat, NEW e \in Exps(Live), Reduce(k, e)
  PROVE  stack' \in Seq(Exps(Live)) /\ at' = "body"
         /\ UNCHANGED <<vars, defs, decls, structs, next, pending>>
<1>1. stack \in Seq(Exps(Live)) BY DEF TypeOK
<1>2. k <= Len(stack) BY DEF Reduce
<1>3. SubSeq(stack, 1, Len(stack) - k) \in Seq(Exps(Live)) BY <1>1, <1>2
<1> QED BY <1>3 DEF Reduce, tables

LEMMA ReduceStep ==
  ASSUME IInv, NEW k \in Nat, NEW e \in Exps(Live), Reduce(k, e), UNCHANGED heap,
         reports' \in Nat, reports' \in {reports, reports + 1}
  PROVE  IInv' /\ Enters
BY ReducedStack, QuietStep DEF IInv

LEMMA ConstantStep ==
  ASSUME IInv,
         (\E v \in Indices : IntConstant(v)) \/ (\E t \in Scalars : OtherConstant(t))
  PROVE  IInv' /\ Enters
<1>1. reports \in Nat BY DEF IInv, TypeOK
<1>2. \A t \in Scalars : Temp(t) \in Live BY DEF IInv, TypeOK, Temps
<1>3. CASE \E v \in Indices : IntConstant(v)
  <2>1. PICK v \in Indices : IntConstant(v) BY <1>3
  <2> DEFINE e == [sym |-> Temp("INT"), constant |-> TRUE, index |-> v]
  <2>2. e \in Exps(Live) BY <1>2, ConstantsAssumption DEF Exps
  <2>3. Reduce(0, e) /\ UNCHANGED <<heap, reports>> BY <2>1 DEF IntConstant
  <2> HIDE DEF e
  <2> QED BY <1>1, <2>2, <2>3, ReduceStep
<1>4. CASE \E t \in Scalars : OtherConstant(t)
  <2>1. PICK t \in Scalars : OtherConstant(t) BY <1>4
  <2> DEFINE e == [sym |-> Temp(t), constant |-> TRUE, index |-> NoIndex]
  <2>2. e \in Exps(Live) BY <1>2 DEF Exps
  <2>3. Reduce(0, e) /\ UNCHANGED <<heap, reports>> BY <2>1 DEF OtherConstant
  <2> HIDE DEF e
  <2> QED BY <1>1, <2>2, <2>3, ReduceStep
<1> QED BY <1>3, <1>4

LEMMA VariableStep ==
  ASSUME IInv, NEW n \in VariableNames, Variable(n)
  PROVE  IInv' /\ Enters
<1> DEFINE e == IF vars[n] = NoSymbol THEN Failed ELSE Exp(vars[n])
<1>1. reports' \in Nat /\ reports' \in {reports, reports + 1}
  BY ReportCounts DEF Variable, IInv, TypeOK
<1>2. n \in Names BY DEF Names
<1>3. e \in Exps(Live) BY <1>2, FailedType, ExpLives DEF IInv, TypeOK
<1>4. Reduce(0, e) /\ UNCHANGED heap BY DEF Variable
<1> HIDE DEF e
<1> QED BY <1>1, <1>3, <1>4, ReduceStep

LEMMA OperatorStep ==
  ASSUME IInv, Wrap \/ Operator \/ Assign
  PROVE  IInv' /\ Enters
<1>1. reports \in Nat BY DEF IInv, TypeOK
<1>2. CASE Wrap
  <2>1. Exp(Nth(1)) \in Exps(Live) BY <1>2, NthLives, ExpLives DEF Wrap, IInv
  <2> QED BY <1>1, <1>2, <2>1, ReduceStep DEF Wrap
<1>3. CASE Operator
  <2>1. Exp(Nth(2)) \in Exps(Live) BY <1>3, NthLives, ExpLives DEF Operator, IInv
  <2> QED BY <1>1, <1>3, <2>1, ReduceStep DEF Operator
<1>4. CASE Assign
  <2>1. Exp(Nth(2)) \in Exps(Live) BY <1>4, NthLives, ExpLives DEF Assign, IInv
  <2>2. reports' \in Nat /\ reports' \in {reports, reports + 1}
    BY <1>1, <1>4, ReportCounts DEF Assign
  <2> QED BY <1>4, <2>1, <2>2, ReduceStep DEF Assign
<1> QED BY <1>2, <1>3, <1>4

(* Member i of an object lives.                                            *)
LEMMA PartLives ==
  ASSUME TypeOK, NEW a \in Live, NEW i \in DOMAIN heap[a].parts
  PROVE  heap[a].parts[i] \in Live
<1>1. heap[a].parts \in Seq(Live) BY DEF TypeOK, SymbolsOver
<1> QED BY <1>1

LEMMA DotStep ==
  ASSUME IInv, NEW n \in VariableNames, Dot(n)
  PROVE  IInv' /\ Enters
<1> DEFINE members == heap[Nth(1)].parts
<1>1. PICK e \in Exps(Live) : Reduce(1, e) /\ UNCHANGED heap /\ \E kinds : Report(kinds)
  <2>1. Nth(1) \in Live BY NthLives DEF Dot, IInv
  <2>2. CASE TypeOf(Nth(1)) # "STRUCT" BY <2>2, FailedType DEF Dot, IInv
  <2>3. CASE TypeOf(Nth(1)) = "STRUCT" /\ ~ \E i \in DOMAIN members : heap[members[i]].name = n
    BY <2>3, FailedType DEF Dot, IInv
  <2>4. CASE TypeOf(Nth(1)) = "STRUCT" /\ \E i \in DOMAIN members : heap[members[i]].name = n
    <3>1. PICK i \in DOMAIN members : Reduce(1, Exp(members[i])) /\ Report({})
      BY <2>4 DEF Dot
    <3>2. Exp(members[i]) \in Exps(Live) BY <2>1, PartLives, ExpLives DEF IInv
    <3>3. UNCHANGED heap BY DEF Dot
    <3> HIDE DEF members
    <3> QED BY <3>1, <3>2, <3>3
  <2> QED BY <2>2, <2>3, <2>4
<1>2. reports' \in Nat /\ reports' \in {reports, reports + 1}
  BY <1>1, ReportCounts DEF IInv, TypeOK
<1> QED BY <1>1, <1>2, ReduceStep

LEMMA CallStep ==
  ASSUME IInv, NEW f \in Callees, NEW k \in Nat, Call(f, k)
  PROVE  IInv' /\ Enters
<1>1. PICK e \in Exps(Live) : Reduce(k, e) /\ UNCHANGED heap /\ \E kinds : Report(kinds)
  <2>1. CASE defs[f] = NoSymbol BY <2>1, FailedType DEF Call, IInv
  <2>2. CASE defs[f] # NoSymbol
    <3>1. defs[f] \in Live BY <2>2 DEF IInv, TypeOK
    <3>2. Exp(defs[f]) \in Exps(Live) BY <3>1, ExpLives
    <3> QED BY <2>2, <3>2 DEF Call
  <2> QED BY <2>1, <2>2
<1>2. reports' \in Nat /\ reports' \in {reports, reports + 1}
  BY <1>1, ReportCounts DEF IInv, TypeOK
<1> QED BY <1>1, <1>2, ReduceStep

LEMMA IndexStep ==
  ASSUME IInv, Index
  PROVE  IInv' /\ Enters
<1> DEFINE array == heap[Nth(2)]
<1>1. PICK e \in Exps(Live) : Reduce(2, e) /\ UNCHANGED heap /\ \E kinds : Report(kinds)
  <2>1. Nth(2) \in Live BY NthLives DEF Index, IInv
  <2>2. CASE array.type # "ARRAY" \/ TypeOf(Nth(1)) # "INT"
    BY <2>2, FailedType DEF Index, IInv
  <2>3. CASE array.type = "ARRAY" /\ TypeOf(Nth(1)) = "INT"
    <3>1. array.parts \in Seq(Live) /\ array.parts # <<>>
      BY <2>1, <2>3 DEF IInv, TypeOK, SymbolsOver
    <3>2. Exp(array.parts[1]) \in Exps(Live) BY <3>1, ExpLives
    <3> QED BY <2>3, <3>2 DEF Index
  <2> QED BY <2>2, <2>3
<1>2. reports' \in Nat /\ reports' \in {reports, reports + 1}
  BY <1>1, ReportCounts DEF IInv, TypeOK
<1> QED BY <1>1, <1>2, ReduceStep

LEMMA ArrayFailureIs ==
  ASSUME NEW dims
  PROVE  ArrayFailure(dims) \in {"crashed", "out_of_range"}
BY DEF ArrayFailure

LEMMA PlusStep ==
  ASSUME IInv, Plus
  PROVE  IInv' /\ (Enters \/ Forgets)
<1> DEFINE a == Nth(2)
<1>1. a \in Live /\ Exp(a) \in Exps(Live) BY NthLives, ExpLives DEF Plus, IInv
<1>2. reports \in Nat BY DEF IInv, TypeOK
<1>3. CASE UNCHANGED heap
  <2>1. PICK e \in Exps(Live) : Reduce(2, e) /\ reports' \in Nat /\ reports' \in {reports, reports + 1}
    <3>1. CASE Addable(Nth(2), Nth(1)) BY <1>1, <1>2, <3>1 DEF Plus
    <3>2. CASE ~ Addable(Nth(2), Nth(1))
      <4>1. reports' \in Nat /\ reports' \in {reports, reports + 1}
        BY <1>2, <3>2, ReportCounts DEF Plus
      <4> QED BY <1>1, <3>2, <4>1, FailedType DEF Plus, IInv
    <3> QED BY <3>1, <3>2
  <2> QED BY <1>3, <2>1, ReduceStep
<1>4. CASE ~ UNCHANGED heap
  <2>1. /\ Reduce(2, Exp(a)) /\ heap' = [heap EXCEPT ![a].type = "UNKNOWN"] /\ Report({7})
        /\ a \notin Temps
    BY <1>4 DEF Plus
  <2>2. reports' = reports + 1 /\ reports' \in Nat BY <1>2, <2>1 DEF Report
  <2>3. /\ stack' \in Seq(Exps(Live)) /\ at' = "body"
        /\ UNCHANGED <<vars, defs, decls, structs, next, pending>>
    BY <1>1, <2>1, ReducedStack DEF IInv
  <2> HIDE DEF a
  <2>4. heap \in [Live -> SymbolsOver(Live)] BY DEF IInv, TypeOK
  <2>5. "UNKNOWN" \in SymbolTypes BY DEF SymbolTypes
  <2>6. heap' \in [Live -> SymbolsOver(Live)] BY <1>1, <2>1, <2>4, <2>5 DEF SymbolsOver
  <2>7. Live' = Live BY <2>4, <2>6 DEF Live
  <2>8. heap'[a].type = "UNKNOWN" /\ \A b \in Live : b # a => heap'[b] = heap[b]
    BY <1>1, <2>1, <2>4 DEF SymbolsOver
  <2>9. Typed' = Typed \ {a} BY <2>7, <2>8 DEF Typed
  <2>10. TypeOK' BY <2>2, <2>3, <2>6, <2>7 DEF IInv, TypeOK
  <2>11. Fresh' BY <2>3, <2>7 DEF IInv, Fresh
  <2>12. UnknownStays'
    <3>1. <<0, 0>> \in Live /\ a # <<0, 0>> BY <2>1, TempTypes DEF IInv, TypeOK
    <3> QED BY <2>8, <3>1 DEF IInv, UnknownStays
  <2>13. ParametersTyped' /\ HeaderMade' /\ StructIsNew'
    BY <2>3 DEF ParametersTyped, HeaderMade, StructIsNew
  <2>14. Forgets BY <1>1, <2>2, <2>3, <2>9 DEF Forgets, tables
  <2> QED BY <2>10, <2>11, <2>12, <2>13, <2>14 DEF IInv
<1> QED BY <1>3, <1>4

LEMMA StepKeeps ==
  ASSUME IInv, Next
  PROVE  IInv' /\ (Enters \/ Forgets)
<1>1. ASSUME NEW d \in Declarations,
             \/ Declare(d[1], d[2], d[3]) \/ DeclareCrashes(d[1], d[2], d[3])
             \/ Member(d[1], d[2], d[3]) \/ MemberCrashes(d[1], d[2], d[3])
             \/ Parameter(d[1], d[2], d[3]) \/ ParameterCrashes(d[1], d[2], d[3])
      PROVE  IInv' /\ Enters
  <2>1. d[1] \in Names /\ d[2] \in Specifiers /\ d[3] \in Seq(Nat) BY DeclarationTypes
  <2>2. CASE Declare(d[1], d[2], d[3]) BY <2>1, <2>2, DeclareStep
  <2>3. CASE Member(d[1], d[2], d[3]) BY <2>1, <2>3, MemberStep
  <2>4. CASE Parameter(d[1], d[2], d[3]) BY <2>1, <2>4, ParameterStep
  <2>5. CASE DeclareCrashes(d[1], d[2], d[3])
    BY <2>5, ArrayFailureIs, CrashStep DEF DeclareCrashes
  <2>6. CASE MemberCrashes(d[1], d[2], d[3])
    BY <2>6, ArrayFailureIs, CrashStep DEF MemberCrashes
  <2>7. CASE ParameterCrashes(d[1], d[2], d[3])
    BY <2>7, ArrayFailureIs, CrashStep DEF ParameterCrashes
  <2> QED BY <1>1, <2>2, <2>3, <2>4, <2>5, <2>6, <2>7
<1>2. CASE \E s \in StructNames : OpenStruct(s) BY <1>2, OpenStructStep
<1>3. CASE CloseStruct BY <1>3, CloseStructStep
<1>4. CASE \E f \in FunctionNames : OpenHeader(f) BY <1>4, OpenHeaderStep
<1>5. CASE FunctionHeader BY <1>5, FunctionHeaderStep
<1>6. CASE \E spec \in Specifiers : Declaration(spec) \/ Definition(spec)
  BY <1>6, DeclarationStep, DefinitionStep
<1>7. CASE EndFunction \/ EndStatement BY <1>7, EndStep
<1>8. CASE \E v \in Indices : IntConstant(v) BY <1>8, ConstantStep
<1>9. CASE \E t \in Scalars \ {"INT"} : OtherConstant(t) BY <1>9, ConstantStep
<1>10. CASE \E n \in VariableNames : Variable(n) \/ Dot(n) BY <1>10, VariableStep, DotStep
<1>11. CASE Wrap \/ Operator \/ Assign BY <1>11, OperatorStep
<1>12. CASE Plus BY <1>12, PlusStep
<1>13. CASE OperandCrashes BY <1>13, CrashStep DEF OperandCrashes
<1>14. CASE Index BY <1>14, IndexStep
<1>16. CASE IndexCrashes BY <1>16, CrashStep DEF IndexCrashes
<1>15. CASE \E f \in Callees, k \in 0..MaxStack : Call(f, k) \/ CallCrashes(f, k)
  <2>1. PICK f \in Callees, k \in 0..MaxStack : Call(f, k) \/ CallCrashes(f, k) BY <1>15
  <2>2. k \in Nat OBVIOUS
  <2>3. CASE Call(f, k) BY <2>2, <2>3, CallStep
  <2>4. CASE CallCrashes(f, k) BY <2>4, CrashStep DEF CallCrashes
  <2> QED BY <2>1, <2>3, <2>4
<1> QED BY <1>1, <1>2, <1>3, <1>4, <1>5, <1>6, <1>7, <1>8, <1>9, <1>10, <1>11, <1>12, <1>13,
        <1>14, <1>15, <1>16 DEF Next

-----------------------------------------------------------------------------
(* The theorems.                                                           *)

LEMMA Inductive == Spec => []IInv
<1>1. Init => IInv BY InitEstablishes
<1>2. IInv /\ [Next]_state => IInv'
  <2> SUFFICES ASSUME IInv, [Next]_state PROVE IInv' OBVIOUS
  <2>1. CASE Next BY <2>1, StepKeeps
  <2>2. CASE UNCHANGED state
    <3>1. /\ heap' = heap /\ vars' = vars /\ defs' = defs /\ decls' = decls
          /\ structs' = structs /\ stack' = stack /\ at' = at /\ pending' = pending
          /\ next' = next /\ reports' = reports
      BY <2>2 DEF state, tables
    <3> QED BY <3>1 DEF IInv, TypeOK, Fresh, UnknownStays, ParametersTyped, HeaderMade,
                        StructIsNew, Live
  <2> QED BY <2>1, <2>2
<1> QED BY <1>1, <1>2, PTL DEF Spec

(* Every state of the front end is well typed: no table, no expression and *)
(* no object refers to an object that does not exist, and every array has  *)
(* an element type.                                                        *)
THEOREM TypeCorrect == Spec => []TypeOK
<1>1. IInv => TypeOK BY DEF IInv
<1> QED BY <1>1, Inductive, PTL

(* A name is bound in one of the four tables, before and after a step.     *)
LEMMA KeyTables ==
  ASSUME NEW key \in Keys
  PROVE  \/ /\ key[2] \in Names
            /\ Binding(key) = vars[key[2]] /\ Binding(key)' = vars'[key[2]]
         \/ /\ key[2] \in Callees
            /\ Binding(key) = defs[key[2]] /\ Binding(key)' = defs'[key[2]]
         \/ /\ key[2] \in Callees
            /\ Binding(key) = decls[key[2]] /\ Binding(key)' = decls'[key[2]]
         \/ /\ key[2] \in StructNames
            /\ Binding(key) = structs[key[2]] /\ Binding(key)' = structs'[key[2]]
<1>1. CASE key \in {"variable"} \X Names BY <1>1 DEF Binding
<1>2. CASE key \in {"definition"} \X Callees BY <1>2 DEF Binding
<1>3. CASE key \in {"declaration"} \X Callees BY <1>3 DEF Binding
<1>4. CASE key \in {"struct"} \X StructNames BY <1>4 DEF Binding
<1> QED BY <1>1, <1>2, <1>3, <1>4 DEF Keys

LEMMA BindingsMap ==
  /\ \A key \in Keys : Bindings[key] = Binding(key) /\ Bindings'[key] = Binding(key)'
  /\ TypeOK => Bindings \in Env!Bindings
  /\ TypeOK' => Bindings' \in Env!Bindings
<1>1. \A key \in Keys : Bindings[key] = Binding(key) /\ Bindings'[key] = Binding(key)'
  BY DEF Bindings
<1>2. ASSUME TypeOK, NEW key \in Keys PROVE Binding(key) \in Addresses \cup {NoSymbol}
  BY <1>2, KeyTables DEF TypeOK
<1>3. ASSUME TypeOK', NEW key \in Keys PROVE Binding(key)' \in Addresses \cup {NoSymbol}
  BY <1>3, KeyTables DEF TypeOK
<1> QED BY <1>1, <1>2, <1>3 DEF Bindings, Env!Bindings

LEMMA TypedThings ==
  /\ TypeOK => Typed \in SUBSET Addresses
  /\ TypeOK' => Typed' \in SUBSET Addresses
BY DEF Typed, TypeOK

(* A step that takes no type away is one of Environment's entries.         *)
LEMMA EntersIsEnter ==
  ASSUME IInv, IInv', Enters
  PROVE  Env!Enter
<1>1. Bindings' \in Env!Bindings BY BindingsMap DEF IInv
<1>2. Typed' \in SUBSET Addresses BY TypedThings DEF IInv
<1>3. ASSUME NEW key \in Keys
      PROVE  IF Bindings[key] # NoSymbol THEN Bindings'[key] = Bindings[key]
             ELSE Bindings'[key] # NoSymbol => Bindings'[key] \in Typed'
  BY KeyTables, BindingsMap DEF Enters, Kept
<1>4. Accepted' \in {Accepted, FALSE}
  <2>1. reports' \in {reports, reports + 1} /\ reports \in Nat BY DEF Enters, IInv, TypeOK
  <2>2. reports' = 0 => reports = 0 BY <2>1
  <2> QED BY <2>2 DEF Accepted
<1>5. Typed \subseteq Typed' BY DEF Enters
<1> QED BY <1>1, <1>2, <1>3, <1>4, <1>5 DEF Env!Enter

LEMMA SameBindings ==
  ASSUME UNCHANGED tables
  PROVE  Bindings' = Bindings
BY DEF Bindings, Binding, tables

(* A step that takes a type away is Environment's Forget, or an entry of   *)
(* nothing if the object had none.                                         *)
LEMMA ForgetsIsForget ==
  ASSUME IInv, IInv', Forgets
  PROVE  Env!Next
<1>1. Bindings' = Bindings BY SameBindings DEF Forgets
<1>2. Accepted' = FALSE
  <2>1. reports' = reports + 1 /\ reports \in Nat BY DEF Forgets, IInv, TypeOK
  <2> QED BY <2>1 DEF Accepted
<1>3. PICK a \in Live : Typed' = Typed \ {a} BY DEF Forgets
<1>4. CASE a \in Typed
  <2>1. Env!Forget(a) BY <1>1, <1>2, <1>3 DEF Env!Forget
  <2> QED BY <1>4, <2>1 DEF Env!Next
<1>5. CASE a \notin Typed
  <2>1. Typed' = Typed BY <1>3, <1>5
  <2>2. Bindings' \in Env!Bindings /\ Typed' \in SUBSET Addresses
    BY BindingsMap, TypedThings DEF IInv
  <2>3. Env!Enter BY <1>1, <1>2, <2>1, <2>2 DEF Env!Enter
  <2> QED BY <2>3 DEF Env!Next
<1> QED BY <1>4, <1>5

LEMMA InitIsInit ==
  ASSUME Init
  PROVE  Env!Init
<1>1. IInv BY InitEstablishes
<1>2. Bindings \in Env!Bindings /\ Typed \in SUBSET Addresses
  BY <1>1, BindingsMap, TypedThings DEF IInv
<1>3. <<1, 0>> \in Typed /\ <<2, 0>> \in Typed
  <2>1. PICK wild \in Wilds :
          heap = [a \in Temps \cup {<<1, 0>>, <<2, 0>>, <<3, 0>>} |-> Builtin(a, wild)]
    BY DEF Init
  <2>2. Builtin(<<1, 0>>, wild).type = "FUNCTION" /\ Builtin(<<2, 0>>, wild).type = "FUNCTION"
    BY DEF Builtin, Symbol
  <2> QED BY <2>1, <2>2 DEF Typed, Live
<1>4. ASSUME NEW key \in Keys, Bindings[key] # NoSymbol PROVE Bindings[key] \in Typed
  BY <1>3, <1>4, KeyTables, BindingsMap DEF Init
<1>5. Accepted = TRUE BY DEF Init, Accepted
<1> QED BY <1>2, <1>4, <1>5 DEF Env!Init

(* The front end keeps the promises of Environment, whatever is declared   *)
(* and however often: the first declaration of a name is the one found to  *)
(* the end of the file, what is found has a type when it is entered, and a *)
(* type is taken away one at a time and only with a report.                *)
THEOREM PromisesKept == Spec => KeepsPromises
<1>1. Init => Env!Init BY InitIsInit
<1>2. IInv /\ IInv' /\ [Next]_state => [Env!Next]_(Env!vars)
  <2> SUFFICES ASSUME IInv, IInv', [Next]_state PROVE [Env!Next]_(Env!vars) OBVIOUS
  <2>1. CASE Next
    <3>1. CASE Enters BY <2>1, <3>1, EntersIsEnter DEF Env!Next
    <3>2. CASE Forgets BY <2>1, <3>2, ForgetsIsForget
    <3> QED BY <2>1, <3>1, <3>2, StepKeeps
  <2>2. CASE UNCHANGED state
    <3>1. UNCHANGED tables /\ heap' = heap /\ reports' = reports BY <2>2 DEF state
    <3>2. Bindings' = Bindings BY <3>1, SameBindings
    <3>3. Typed' = Typed /\ Accepted' = Accepted BY <3>1 DEF Typed, Live, Accepted
    <3> QED BY <3>2, <3>3 DEF Env!vars
  <2> QED BY <2>1, <2>2
<1>3. Spec => Init /\ [][Next]_state BY DEF Spec
<1> QED BY <1>1, <1>2, <1>3, Inductive, PTL DEF KeepsPromises, Env!Spec

(* What Environment promises is enough for its users: as long as nothing   *)
(* is reported, a name that is found stands for something with a type.     *)
THEOREM PromisesSuffice == KeepsPromises => []Env!AcceptedIsTyped
<1>1. Env!Init => Env!AcceptedIsTyped BY DEF Env!Init, Env!AcceptedIsTyped
<1>2. Env!AcceptedIsTyped /\ [Env!Next]_(Env!vars) => Env!AcceptedIsTyped'
  <2> SUFFICES ASSUME Env!AcceptedIsTyped, [Env!Next]_(Env!vars) PROVE Env!AcceptedIsTyped'
    OBVIOUS
  <2>1. CASE Env!Enter BY <2>1 DEF Env!Enter, Env!AcceptedIsTyped
  <2>2. CASE \E t \in Typed : Env!Forget(t) BY <2>2 DEF Env!Forget, Env!AcceptedIsTyped
  <2>3. CASE UNCHANGED Env!vars BY <2>3 DEF Env!vars, Env!AcceptedIsTyped
  <2> QED BY <2>1, <2>2, <2>3 DEF Env!Next
<1> QED BY <1>1, <1>2, PTL DEF KeepsPromises, Env!Spec
=============================================================================
