---------------------------- MODULE AcceptedProofs ----------------------------
(***************************************************************************)
(* What holds of a file in which no error is reported, for every set of    *)
(* names, struct tags and declarations: everything has a type, parameters  *)
(* and members are found under their names, and the compiler dies only on  *)
(* the value of a call. Types are compared by what they are made of,       *)
(* though the comparison walks a graph of shared objects.                  *)
(***************************************************************************)
EXTENDS SymbolsProofs, WellFoundedInduction

(* The objects of the scalar types keep their types.                       *)
TempsKeep == \A t \in Scalars : heap[Temp(t)].type = t

(* A struct in the table is a declared one.                                *)
StructsDeclared == \A s \in StructNames : structs[s] # NoSymbol => structs[s][1] # 0

(* The names of parameters are names of variables.                         *)
ParametersNamed ==
  at \in {"header", "declared"} =>
    \A i \in DOMAIN pending.parts : heap[pending.parts[i]].name \in Names

(* Behind a header its parameters are found, and they are the function's.  *)
HeaderResolves ==
  at = "declared" =>
    /\ heap[<<next - 1, 0>>].parts = pending.parts
    /\ Accepted => \A i \in DOMAIN pending.parts :
                     vars[heap[pending.parts[i]].name] = pending.parts[i]

(* So are those of a function that is defined.                             *)
DefinedNamed ==
  \A f \in FunctionNames :
    defs[f] # NoSymbol =>
      \A i \in DOMAIN heap[defs[f]].parts : heap[heap[defs[f]].parts[i]].name \in Names

(* The members read so far have different names, each of a variable.       *)
Apart(parts) ==
  \A i, j \in DOMAIN parts : heap[parts[i]].name = heap[parts[j]].name => i = j

MembersApart ==
  at = "struct" /\ pending.list /\ Accepted =>
    /\ Apart(pending.parts)
    /\ \A i \in DOMAIN pending.parts :
         heap[pending.parts[i]].name \in Names /\ vars[heap[pending.parts[i]].name] # NoSymbol

AInv ==
  /\ IInv /\ TempsKeep /\ StructsDeclared
  /\ AcceptedKeepsTypes /\ CrashesExplained
  /\ ParametersNamed /\ HeaderResolves /\ DefinedNamed /\ ParametersResolve
  /\ MembersApart /\ MembersAreUnambiguous

-----------------------------------------------------------------------------
(* What the steps do.                                                      *)

(* A step that touches no object and no table.                             *)
Quiet ==
  /\ UNCHANGED <<heap, vars, defs, decls, structs>>
  /\ at' \in {"file", "body"}

Explained == \E i \in DOMAIN stack : TypeOf(stack[i].sym) = "FUNCTION"

Crashing ==
  /\ UNCHANGED <<heap, vars, defs, decls, structs, stack>>
  /\ at' \in {"crashed", "out_of_range"}
  /\ Accepted' => Accepted /\ (Explained \/ at' = "out_of_range")

(* The step of a failed +.                                                 *)
Losing ==
  /\ \E a \in Live \ Temps : heap' = [heap EXCEPT ![a].type = "UNKNOWN"]
  /\ UNCHANGED <<vars, defs, decls, structs>>
  /\ at' = "body"
  /\ reports' = reports + 1

LEMMA ReportAccepted ==
  ASSUME reports \in Nat, NEW kinds, Report(kinds), Accepted'
  PROVE  Accepted /\ kinds = {}
BY DEF Report, Accepted

(* A specifier that is not reported has a type.                            *)
LEMMA SpecKnown ==
  ASSUME AInv, Accepted, NEW spec \in Specifiers, SpecErrors(spec) = {}
  PROVE  Known(spec)
<1>1. CASE spec \in Scalars
  <2>1. spec # "UNKNOWN" BY <1>1, ConstantsAssumption
  <2> QED BY <1>1, <2>1 DEF Known, SpecAddress, AInv, TempsKeep
<1>2. CASE spec \notin Scalars
  <2>1. spec \in StructNames BY <1>2 DEF Specifiers
  <2>2. structs[spec] # NoSymbol BY <2>1 DEF SpecErrors
  <2>3. structs[spec] \in Live BY <2>1, <2>2 DEF AInv, IInv, TypeOK
  <2>4. structs[spec][1] # 0 BY <2>1, <2>2 DEF AInv, StructsDeclared
  <2>5. heap[structs[spec]].type # "UNKNOWN" BY <2>3, <2>4 DEF AInv, AcceptedKeepsTypes
  <2> QED BY <1>2, <2>2, <2>5 DEF Known, SpecAddress
<1> QED BY <1>1, <1>2

LEMMA NullBaseReported ==
  ASSUME AInv, NEW spec \in Specifiers, NEW dims, NullBase(spec, dims), Accepted
  PROVE  SpecErrors(spec) # {}
BY SpecKnown DEF NullBase

(* A declaration crashes only where an error was reported before or is now,*)
(* or where a size is no int.                                              *)
LEMMA DeclarationCrash ==
  ASSUME AInv, NEW spec \in Specifiers, NEW dims, ArrayFails(spec, dims), NEW kinds,
         SpecErrors(spec) \subseteq kinds, Crash(ArrayFailure(dims), kinds)
  PROVE  Crashing
<1>1. reports \in Nat /\ Report(kinds) BY DEF AInv, IInv, TypeOK, Crash
<1>2. CASE TooLarge(dims)
  <2>1. ArrayFailure(dims) = "out_of_range" BY <1>2 DEF ArrayFailure
  <2>2. Accepted' => Accepted BY <1>1, ReportAccepted
  <2> QED BY <2>1, <2>2 DEF Crashing, Crash, tables
<1>3. CASE ~ TooLarge(dims)
  <2>1. NullBase(spec, dims) /\ ArrayFailure(dims) = "crashed"
    BY <1>3 DEF ArrayFails, ArrayFailure
  <2>2. ~ Accepted'
    <3> SUFFICES ASSUME Accepted' PROVE FALSE OBVIOUS
    <3>1. Accepted /\ kinds = {} BY <1>1, ReportAccepted
    <3> QED BY <2>1, <3>1, NullBaseReported
  <2> QED BY <2>1, <2>2 DEF Crashing, Crash, tables
<1> QED BY <1>2, <1>3

LEMMA WildIsCall ==
  ASSUME TypeOK, Len(stack) >= 2, Wild(Nth(1)) \/ Wild(Nth(2)) \/ BadGet(Nth(2), Nth(1))
  PROVE  Explained
<1>1. Len(stack) \in DOMAIN stack /\ Len(stack) - 1 \in DOMAIN stack BY DEF TypeOK
<1>2. Nth(1) = stack[Len(stack)].sym /\ Nth(2) = stack[Len(stack) - 1].sym
  BY <1>1 DEF Nth, TypeOK
<1>3. TypeOf(Nth(1)) = "FUNCTION" \/ TypeOf(Nth(2)) = "FUNCTION" BY DEF Wild, BadGet
<1> QED BY <1>1, <1>2, <1>3 DEF Explained

LEMMA WildArgumentIsCall ==
  ASSUME TypeOK, NEW f \in Callees, NEW k \in Nat, k <= Len(stack), WildArgument(f, k)
  PROVE  Explained
<1>1. PICK i \in 1..k : Wild(Arguments(k)[i]) BY DEF WildArgument
<1>2. Arguments(k)[i] = stack[Len(stack) - k + i].sym BY DEF Arguments
<1>3. Len(stack) \in Nat /\ DOMAIN stack = 1..Len(stack) BY DEF TypeOK
<1>4. Len(stack) - k + i \in DOMAIN stack BY <1>3
<1> QED BY <1>1, <1>2, <1>4 DEF Explained, Wild

LEMMA QuietCrash ==
  ASSUME AInv, NEW outcome \in {"crashed", "out_of_range"}, Crash(outcome, {}),
         Explained \/ outcome = "out_of_range"
  PROVE  Crashing
<1>1. reports \in Nat /\ Report({}) BY DEF AInv, IInv, TypeOK, Crash
<1>2. Accepted' => Accepted BY <1>1, ReportAccepted
<1> QED BY <1>2 DEF Crashing, Crash, tables

LEMMA ReduceQuiet ==
  ASSUME NEW k, NEW e, Reduce(k, e), UNCHANGED heap
  PROVE  Quiet
BY DEF Reduce, Quiet, tables

(* The reductions of expressions.                                          *)
LEMMA ExpressionKinds ==
  ASSUME AInv,
         \/ \E v \in Indices : IntConstant(v)
         \/ \E t \in Scalars \ {"INT"} : OtherConstant(t)
         \/ \E n \in VariableNames : Variable(n) \/ Dot(n)
         \/ Wrap \/ Operator \/ Plus \/ Assign \/ Index
         \/ \E f \in Callees, k \in 0..MaxStack : Call(f, k)
  PROVE  Quiet \/ Losing
<1>1. CASE \E k, e : Reduce(k, e) /\ UNCHANGED heap BY <1>1, ReduceQuiet
<1>2. CASE ~ \E k, e : Reduce(k, e) /\ UNCHANGED heap
  <2>1. CASE Plus
    <3>1. /\ Reduce(2, Exp(Nth(2))) /\ Report({7}) /\ Nth(2) \notin Temps
          /\ heap' = [heap EXCEPT ![Nth(2)].type = "UNKNOWN"]
      BY <1>2, <2>1 DEF Plus
    <3>2. Nth(2) \in Live BY <2>1, NthLives DEF Plus, AInv, IInv
    <3>3. reports' = reports + 1 BY <3>1 DEF Report
    <3> QED BY <3>1, <3>2, <3>3 DEF Losing, Reduce, tables
  <2>2. CASE \E n \in VariableNames : Variable(n) \/ Dot(n)
    BY <1>2, <2>2 DEF Variable, Dot
  <2>3. CASE \E f \in Callees, k \in 0..MaxStack : Call(f, k)
    BY <1>2, <2>3 DEF Call
  <2>4. CASE Wrap \/ Operator \/ Assign BY <1>2, <2>4 DEF Wrap, Operator, Assign
  <2>5. CASE Index BY <1>2, <2>5 DEF Index
  <2>6. CASE \/ \E v \in Indices : IntConstant(v)
             \/ \E t \in Scalars \ {"INT"} : OtherConstant(t)
    BY <1>2, <2>6 DEF IntConstant, OtherConstant
  <2> QED BY <2>1, <2>2, <2>3, <2>4, <2>5, <2>6
<1> QED BY <1>1, <1>2

(* A declaration of a name, whichever it is.                               *)
Declares(n, spec, dims) ==
  Declare(n, spec, dims) \/ Member(n, spec, dims) \/ Parameter(n, spec, dims)

LEMMA Kinds ==
  ASSUME AInv, Next
  PROVE  \/ Quiet \/ Crashing \/ Losing
         \/ \E n \in Names, spec \in Specifiers, dims \in Seq(Nat) : Declares(n, spec, dims)
         \/ (\E s \in StructNames : OpenStruct(s)) \/ CloseStruct
         \/ (\E f \in FunctionNames : OpenHeader(f)) \/ FunctionHeader
         \/ \E spec \in Specifiers : Definition(spec)
<1>1. ASSUME NEW d \in Declarations,
             \/ Declare(d[1], d[2], d[3]) \/ DeclareCrashes(d[1], d[2], d[3])
             \/ Member(d[1], d[2], d[3]) \/ MemberCrashes(d[1], d[2], d[3])
             \/ Parameter(d[1], d[2], d[3]) \/ ParameterCrashes(d[1], d[2], d[3])
      PROVE  \/ Crashing
             \/ \E n \in Names, spec \in Specifiers, dims \in Seq(Nat) : Declares(n, spec, dims)
  <2>1. d[1] \in Names /\ d[2] \in Specifiers /\ d[3] \in Seq(Nat) BY DeclarationTypes
  <2>2. CASE \/ Declare(d[1], d[2], d[3]) \/ Member(d[1], d[2], d[3])
             \/ Parameter(d[1], d[2], d[3])
    BY <2>1, <2>2 DEF Declares
  <2>3. CASE DeclareCrashes(d[1], d[2], d[3])
    BY <2>1, <2>3, DeclarationCrash DEF DeclareCrashes
  <2>4. CASE MemberCrashes(d[1], d[2], d[3])
    <3> DEFINE kinds == SpecErrors(d[2]) \cup If(vars[d[1]] # NoSymbol, 3)
    <3>1. /\ SpecErrors(d[2]) \subseteq kinds /\ Crash(ArrayFailure(d[3]), kinds)
          /\ ArrayFails(d[2], d[3])
      BY <2>4 DEF MemberCrashes
    <3> HIDE DEF kinds
    <3> QED BY <2>1, <3>1, DeclarationCrash
  <2>5. CASE ParameterCrashes(d[1], d[2], d[3])
    BY <2>1, <2>5, DeclarationCrash DEF ParameterCrashes
  <2> QED BY <1>1, <2>2, <2>3, <2>4, <2>5
<1>2. CASE \E spec \in Specifiers : Declaration(spec) \/ Definition(spec)
  <2>1. PICK spec \in Specifiers : Declaration(spec) \/ Definition(spec) BY <1>2
  <2>2. CASE Declaration(spec) BY <2>2 DEF Declaration, Quiet, tables
  <2> QED BY <2>1, <2>2
<1>3. CASE EndFunction \/ EndStatement
  <2>1. at' \in {"file", "body"} BY <1>3 DEF EndFunction, EndStatement
  <2> QED BY <1>3, <2>1 DEF EndFunction, EndStatement, Quiet, tables
<1>4. CASE OperandCrashes
  <2>1. Explained BY <1>4, WildIsCall DEF OperandCrashes, AInv, IInv
  <2> QED BY <1>4, <2>1, QuietCrash DEF OperandCrashes
<1>5. CASE \E f \in Callees, k \in 0..MaxStack : CallCrashes(f, k)
  <2>1. PICK f \in Callees, k \in 0..MaxStack : CallCrashes(f, k) BY <1>5
  <2>2. k \in Nat OBVIOUS
  <2>3. Explained BY <2>1, <2>2, WildArgumentIsCall DEF CallCrashes, AInv, IInv
  <2> QED BY <2>1, <2>3, QuietCrash DEF CallCrashes
<1>6. CASE \/ \E v \in Indices : IntConstant(v)
           \/ \E t \in Scalars \ {"INT"} : OtherConstant(t)
           \/ \E n \in VariableNames : Variable(n) \/ Dot(n)
           \/ Wrap \/ Operator \/ Plus \/ Assign \/ Index
           \/ \E f \in Callees, k \in 0..MaxStack : Call(f, k)
  BY <1>6, ExpressionKinds
<1>7. CASE IndexCrashes BY <1>7, QuietCrash DEF IndexCrashes
<1> QED BY <1>1, <1>2, <1>3, <1>4, <1>5, <1>6, <1>7 DEF Next

-----------------------------------------------------------------------------
(* What a step leaves as it is: objects keep their names and parts, and    *)
(* their types as long as nothing is reported.                             *)
Same ==
  /\ Live \subseteq Live'
  /\ \A a \in Live : heap'[a].name = heap[a].name /\ heap'[a].parts = heap[a].parts
  /\ \A a \in Live : Accepted' => heap'[a].type = heap[a].type
  /\ \A a \in Temps : heap'[a].type = heap[a].type

LEMMA ExtendsSame ==
  ASSUME AInv, Extends(heap, heap')
  PROVE  Same
<1>1. Temps \subseteq Live BY DEF AInv, IInv, TypeOK
<1> QED BY <1>1 DEF Extends, Same, Live

LEMMA AllocatedExtends ==
  ASSUME NEW h, NEW n, NEW spec, NEW dims, NEW d
  PROVE  Extends(h, Allocated(h, n, spec, dims, d))
BY DEF Extends, Allocated

LEMMA HeapWithExtends ==
  ASSUME NEW n, NEW spec, NEW dims
  PROVE  Extends(heap, HeapWith(n, spec, dims))
BY AllocatedExtends DEF HeapWith, Extends

LEMMA ExtendsTransitive ==
  ASSUME NEW f, NEW g, NEW h, Extends(f, g), Extends(g, h)
  PROVE  Extends(f, h)
BY DEF Extends

LEMMA DeclaresExtends ==
  ASSUME NEW n, NEW spec, NEW dims, Declares(n, spec, dims)
  PROVE  Extends(heap, heap')
<1>1. Extends(heap, heap) BY DEF Extends
<1>2. CASE Declare(n, spec, dims) BY <1>2, HeapWithExtends DEF Declare
<1>3. CASE Member(n, spec, dims)
  <2>1. Extends(heap, HeapWith(n, spec, dims)) BY HeapWithExtends
  <2>2. Extends(HeapWith(n, spec, dims), heap')
    BY <1>3, AllocatedExtends DEF Member, Extends
  <2> QED BY <2>1, <2>2, ExtendsTransitive
<1>4. CASE Parameter(n, spec, dims) BY <1>1, <1>4, AllocatedExtends DEF Parameter
<1> QED BY <1>2, <1>3, <1>4 DEF Declares

LEMMA NextIsNew ==
  ASSUME IInv
  PROVE  <<next, 0>> \notin Live /\ next \in Nat /\ next >= 4
BY DEF IInv, Fresh, TypeOK

LEMMA ClosingExtends ==
  ASSUME IInv, CloseStruct \/ FunctionHeader
  PROVE  Extends(heap, heap')
<1>1. <<next, 0>> \notin DOMAIN heap BY NextIsNew DEF Live
<1>2. \A s : Extends(heap, With(heap, <<next, 0>>, s)) BY <1>1 DEF Extends, With
<1>3. Extends(heap, heap) BY DEF Extends
<1> QED BY <1>2, <1>3 DEF CloseStruct, FunctionHeader

LEMMA ForgottenRecord ==
  ASSUME TypeOK, NEW a \in Live, heap' = [heap EXCEPT ![a].type = "UNKNOWN"]
  PROVE  /\ Live' = Live
         /\ \A b \in Live : heap'[b].name = heap[b].name /\ heap'[b].parts = heap[b].parts
         /\ \A b \in Live : b # a => heap'[b].type = heap[b].type
<1>1. heap \in [Live -> SymbolsOver(Live)] BY DEF TypeOK
<1>2. Live' = Live BY <1>1 DEF Live
<1>3. \A s \in SymbolsOver(Live) :
        [s EXCEPT !.type = "UNKNOWN"].name = s.name /\ [s EXCEPT !.type = "UNKNOWN"].parts = s.parts
  BY DEF SymbolsOver
<1>4. \A b \in Live : heap'[b] = IF b = a THEN [heap[b] EXCEPT !.type = "UNKNOWN"] ELSE heap[b]
  BY <1>1
<1> QED BY <1>1, <1>2, <1>3, <1>4

LEMMA ReturnRecord ==
  ASSUME TypeOK, NEW a \in Live, NEW spec, heap' = [heap EXCEPT ![a].ret = SpecAddress(spec)]
  PROVE  /\ Live' = Live
         /\ \A b \in Live : /\ heap'[b].name = heap[b].name /\ heap'[b].parts = heap[b].parts
                           /\ heap'[b].type = heap[b].type
<1> DEFINE x == SpecAddress(spec)
<1>1. heap \in [Live -> SymbolsOver(Live)] BY DEF TypeOK
<1>2. Live' = Live BY <1>1 DEF Live
<1>3. \A s \in SymbolsOver(Live) :
        /\ [s EXCEPT !.ret = x].name = s.name /\ [s EXCEPT !.ret = x].parts = s.parts
        /\ [s EXCEPT !.ret = x].type = s.type
  BY DEF SymbolsOver
<1>4. \A b \in Live : heap'[b] = IF b = a THEN [heap[b] EXCEPT !.ret = x] ELSE heap[b]
  BY <1>1
<1> QED BY <1>1, <1>2, <1>3, <1>4

LEMMA StepSame ==
  ASSUME AInv, Next
  PROVE  Same
<1>1. TypeOK /\ IInv /\ reports \in Nat BY DEF AInv, IInv, TypeOK
<1>2. CASE UNCHANGED heap BY <1>2, ExtendsSame DEF Extends
<1>3. CASE Losing
  <2>1. PICK a \in Live \ Temps : heap' = [heap EXCEPT ![a].type = "UNKNOWN"] BY <1>3 DEF Losing
  <2>2. ~ Accepted' BY <1>1, <1>3 DEF Losing, Accepted
  <2>3. Temps \subseteq Live BY <1>1 DEF TypeOK
  <2>4. a \in Live /\ heap' = [heap EXCEPT ![a].type = "UNKNOWN"] BY <2>1
  <2>5. /\ Live' = Live
        /\ \A b \in Live : heap'[b].name = heap[b].name /\ heap'[b].parts = heap[b].parts
        /\ \A b \in Live : b # a => heap'[b].type = heap[b].type
    BY <1>1, <2>4, ForgottenRecord
  <2>6. \A b \in Temps : heap'[b].type = heap[b].type BY <2>3, <2>5
  <2> QED BY <2>2, <2>5, <2>6 DEF Same
<1>4. CASE \E n \in Names, spec \in Specifiers, dims \in Seq(Nat) : Declares(n, spec, dims)
  BY <1>4, DeclaresExtends, ExtendsSame
<1>5. CASE CloseStruct \/ FunctionHeader BY <1>1, <1>5, ClosingExtends, ExtendsSame
<1>6. CASE \E spec \in Specifiers : Definition(spec)
  <2>1. PICK spec \in Specifiers : Definition(spec) BY <1>6
  <2>2. heap' = [heap EXCEPT ![<<next - 1, 0>>].ret = SpecAddress(spec)] /\ at = "declared"
    BY <2>1 DEF Definition
  <2>3. <<next - 1, 0>> \in Live BY <1>1, <2>2 DEF IInv, HeaderMade
  <2>4. Temps \subseteq Live BY <1>1 DEF TypeOK
  <2> DEFINE a == <<next - 1, 0>>
  <2>5. a \in Live /\ heap' = [heap EXCEPT ![a].ret = SpecAddress(spec)] BY <2>2, <2>3
  <2> HIDE DEF a
  <2>6. /\ Live' = Live
        /\ \A b \in Live : /\ heap'[b].name = heap[b].name /\ heap'[b].parts = heap[b].parts
                          /\ heap'[b].type = heap[b].type
    BY <1>1, <2>5, ReturnRecord
  <2> QED BY <2>4, <2>6 DEF Same
<1>7. CASE Quiet \/ Crashing BY <1>2, <1>7 DEF Quiet, Crashing
<1>8. CASE (\E s \in StructNames : OpenStruct(s)) \/ (\E f \in FunctionNames : OpenHeader(f))
  BY <1>2, <1>8 DEF OpenStruct, OpenHeader
<1> QED BY <1>3, <1>4, <1>5, <1>6, <1>7, <1>8, Kinds

LEMMA StaysAccepted ==
  ASSUME AInv, Next, Accepted'
  PROVE  Accepted
<1>1. Enters \/ Forgets BY StepKeeps DEF AInv
<1>2. reports' = reports \/ reports' = reports + 1 BY <1>1 DEF Enters, Forgets
<1> QED BY <1>2 DEF Accepted, AInv, IInv, TypeOK

-----------------------------------------------------------------------------
(* New objects.                                                            *)

LEMMA NewSymbolTyped ==
  ASSUME TypeOK, NEW n, NEW spec \in Specifiers, NEW dims, NEW d, NEW k, Known(spec)
  PROVE  /\ NewSymbol(n, spec, dims, d, k).type # "UNKNOWN"
         /\ NewSymbol(n, spec, dims, d, k).name = n
<1>1. CASE k = 0
  <2>1. heap[SpecAddress(spec)] \in SymbolsOver(Live) BY SpecLives
  <2>2. /\ [heap[SpecAddress(spec)] EXCEPT !.name = n].type = heap[SpecAddress(spec)].type
        /\ [heap[SpecAddress(spec)] EXCEPT !.name = n].name = n
    BY <2>1 DEF SymbolsOver
  <2> QED BY <1>1, <2>2 DEF NewSymbol, Known
<1>2. CASE k # 0 BY <1>2 DEF NewSymbol, Symbol
<1> QED BY <1>1, <1>2

LEMMA AllocatedTyped ==
  ASSUME TypeOK, NEW h, NEW n, NEW spec \in Specifiers, NEW dims, NEW d, Known(spec),
         NEW a \in DOMAIN Allocated(h, n, spec, dims, d) \ DOMAIN h
  PROVE  /\ Allocated(h, n, spec, dims, d)[a].type # "UNKNOWN"
         /\ Allocated(h, n, spec, dims, d)[a].name = n
<1>1. Allocated(h, n, spec, dims, d)[a] = NewSymbol(n, spec, dims, d, a[2]) BY DEF Allocated
<1> QED BY <1>1, NewSymbolTyped

(* A declaration that is not reported has a type.                          *)
LEMMA DeclaredKnown ==
  ASSUME AInv, NEW n \in Names, NEW spec \in Specifiers, NEW dims, Declares(n, spec, dims),
         Accepted'
  PROVE  Known(spec) /\ Accepted
<1>1. reports \in Nat BY DEF AInv, IInv, TypeOK
<1>2. PICK kinds : SpecErrors(spec) \subseteq kinds /\ Report(kinds)
  BY DEF Declares, Declare, Member, Parameter, Insert
<1>3. Accepted /\ kinds = {} BY <1>1, <1>2, ReportAccepted
<1> QED BY <1>2, <1>3, SpecKnown

LEMMA DeclaresTyped ==
  ASSUME AInv, NEW n \in Names, NEW spec \in Specifiers, NEW dims \in Seq(Nat),
         Declares(n, spec, dims), Accepted', NEW a \in Live' \ Live
  PROVE  heap'[a].type # "UNKNOWN"
<1>1. Known(spec) /\ TypeOK BY DeclaredKnown DEF AInv, IInv
<1> DEFINE g == HeapWith(n, spec, dims)
           d == MemberNumber(n, spec, dims)
<1>2. \A b \in DOMAIN g \ Live : g[b].type # "UNKNOWN"
  BY <1>1, AllocatedTyped DEF HeapWith, Live
<1>3. CASE Declare(n, spec, dims) BY <1>2, <1>3 DEF Declare, Live
<1>4. CASE Member(n, spec, dims)
  <2>1. heap' = IF pending.list THEN Allocated(g, n, spec, dims, d) ELSE g BY <1>4 DEF Member
  <2>2. CASE pending.list
    <3>1. Extends(g, Allocated(g, n, spec, dims, d)) BY AllocatedExtends
    <3>2. heap' = Allocated(g, n, spec, dims, d) BY <2>1, <2>2
    <3> HIDE DEF g, d
    <3>3. CASE a \in DOMAIN g
      <4>1. heap'[a] = g[a] BY <3>1, <3>2, <3>3 DEF Extends
      <4> QED BY <1>2, <3>3, <4>1
    <3>4. CASE a \notin DOMAIN g BY <1>1, <3>2, <3>4, AllocatedTyped DEF Live
    <3> QED BY <3>3, <3>4
  <2>3. CASE ~ pending.list BY <1>2, <2>1, <2>3 DEF Live
  <2> QED BY <2>2, <2>3
<1>5. CASE Parameter(n, spec, dims)
  <2>1. heap' = Allocated(heap, n, spec, dims, next) BY <1>1, <1>5 DEF Parameter
  <2> QED BY <1>1, <2>1, AllocatedTyped DEF Live
<1> QED BY <1>3, <1>4, <1>5 DEF Declares

LEMMA ClosingTyped ==
  ASSUME IInv, CloseStruct \/ FunctionHeader, NEW a \in Live' \ Live
  PROVE  heap'[a].type # "UNKNOWN"
<1>1. PICK s : /\ heap' = With(heap, <<next, 0>>, s) \/ heap' = heap
               /\ s.type # "UNKNOWN"
  <2>1. CASE CloseStruct
    <3> DEFINE s == Symbol(pending.name, "STRUCT", pending.parts, 0, 0, NoSymbol)
    <3>1. s.type # "UNKNOWN" BY DEF Symbol
    <3>2. heap' = With(heap, <<next, 0>>, s) \/ heap' = heap BY <2>1 DEF CloseStruct
    <3> QED BY <3>1, <3>2
  <2>2. CASE FunctionHeader
    <3> DEFINE s == Symbol(pending.name, "FUNCTION", pending.parts, 0, 0, NoSymbol)
    <3>1. s.type # "UNKNOWN" BY DEF Symbol
    <3>2. heap' = With(heap, <<next, 0>>, s) BY <2>2 DEF FunctionHeader
    <3> QED BY <3>1, <3>2
  <2> QED BY <2>1, <2>2
<1> QED BY <1>1 DEF With, Live

LEMMA NewTyped ==
  ASSUME AInv, Next, Accepted', NEW a \in Live' \ Live
  PROVE  heap'[a].type # "UNKNOWN"
<1>1. TypeOK /\ IInv /\ reports \in Nat BY DEF AInv, IInv, TypeOK
<1>2. ~ UNCHANGED heap BY DEF Live
<1>3. ~ Losing BY <1>1 DEF Losing, Accepted
<1>4. CASE \E n \in Names, spec \in Specifiers, dims \in Seq(Nat) : Declares(n, spec, dims)
  BY <1>4, DeclaresTyped
<1>5. CASE CloseStruct \/ FunctionHeader BY <1>1, <1>5, ClosingTyped
<1>6. ASSUME NEW spec \in Specifiers, Definition(spec) PROVE FALSE
  <2>1. heap \in [Live -> SymbolsOver(Live)] BY <1>1 DEF TypeOK
  <2>2. Live' = Live BY <1>6, <2>1 DEF Definition, Live
  <2> QED BY <2>2
<1>7. ~ Quiet /\ ~ Crashing BY <1>2 DEF Quiet, Crashing
<1>8. ~ (\E s \in StructNames : OpenStruct(s)) /\ ~ (\E f \in FunctionNames : OpenHeader(f))
  BY <1>2 DEF OpenStruct, OpenHeader
<1> QED BY <1>3, <1>4, <1>5, <1>6, <1>7, <1>8, Kinds

-----------------------------------------------------------------------------
(* The steps keep the invariant, part by part.                             *)

LEMMA TypesStep ==
  ASSUME AInv, Next
  PROVE  TempsKeep' /\ AcceptedKeepsTypes'
<1>1. Same BY StepSame
<1>2. TempsKeep'
  <2>1. \A t \in Scalars : Temp(t) \in Temps BY DEF Temps
  <2> QED BY <1>1, <2>1 DEF Same, AInv, TempsKeep
<1>3. AcceptedKeepsTypes'
  <2> SUFFICES ASSUME Accepted', NEW a \in Live', a[1] # 0 PROVE heap'[a].type # "UNKNOWN"
    BY DEF AcceptedKeepsTypes
  <2>1. CASE a \in Live
    <3>1. Accepted BY StaysAccepted
    <3> QED BY <1>1, <2>1, <3>1 DEF Same, AInv, AcceptedKeepsTypes
  <2>2. CASE a \notin Live BY <2>2, NewTyped
  <2> QED BY <2>1, <2>2
<1> QED BY <1>2, <1>3

LEMMA StructsStep ==
  ASSUME AInv, Next
  PROVE  StructsDeclared'
<1>1. CASE UNCHANGED structs BY <1>1 DEF AInv, StructsDeclared
<1>2. CASE CloseStruct
  <2>1. <<next, 0>>[1] # 0 BY NextIsNew DEF AInv
  <2>2. structs \in [StructNames -> Live \cup {NoSymbol}] BY DEF AInv, IInv, TypeOK
  <2>3. structs' = structs \/ structs' = [structs EXCEPT ![pending.name] = <<next, 0>>]
    BY <1>2 DEF CloseStruct
  <2> QED BY <1>1, <2>1, <2>2, <2>3 DEF AInv, StructsDeclared
<1>3. ASSUME NEW n, NEW spec, NEW dims, Declares(n, spec, dims) PROVE UNCHANGED structs
  BY <1>3 DEF Declares, Declare, Member, Parameter, tables
<1>4. Quiet \/ Crashing \/ Losing => UNCHANGED structs BY DEF Quiet, Crashing, Losing
<1>5. (\E s \in StructNames : OpenStruct(s)) \/ (\E f \in FunctionNames : OpenHeader(f))
        => UNCHANGED structs
  BY DEF OpenStruct, OpenHeader, tables
<1>6. FunctionHeader \/ (\E spec \in Specifiers : Definition(spec)) => UNCHANGED structs
  BY DEF FunctionHeader, Definition
<1> QED BY <1>1, <1>2, <1>3, <1>4, <1>5, <1>6, Kinds

(* Only a crash leads to "crashed".                                        *)
LEMMA CrashesStep ==
  ASSUME AInv, Next
  PROVE  CrashesExplained'
<1>1. CASE Crashing
  <2> SUFFICES ASSUME Accepted', at' = "crashed" PROVE Explained'
    BY DEF CrashesExplained, Explained
  <2>1. Explained /\ UNCHANGED <<heap, stack>> BY <1>1 DEF Crashing
  <2> QED BY <2>1 DEF Explained, TypeOf
<1>2. Quiet \/ Losing => at' # "crashed" BY DEF Quiet, Losing
<1>3. ASSUME NEW n, NEW spec, NEW dims, Declares(n, spec, dims) PROVE at' # "crashed"
  BY <1>3 DEF Declares, Declare, Member, Parameter
<1>4. (\E s \in StructNames : OpenStruct(s)) \/ CloseStruct
        \/ (\E f \in FunctionNames : OpenHeader(f)) \/ FunctionHeader
        \/ (\E spec \in Specifiers : Definition(spec))
          => at' # "crashed"
  BY DEF OpenStruct, CloseStruct, OpenHeader, FunctionHeader, Definition
<1>5. at' = "crashed" => Crashing BY <1>2, <1>3, <1>4, Kinds
<1>6. CASE at' # "crashed" BY <1>6 DEF CrashesExplained
<1> QED BY <1>1, <1>5, <1>6

(* The declaration of a parameter appends one of that name.                *)
LEMMA ParameterAppends ==
  ASSUME AInv, NEW n \in Names, NEW spec \in Specifiers, NEW dims \in Seq(Nat),
         Parameter(n, spec, dims)
  PROVE  \A i \in DOMAIN pending'.parts :
           \/ i \in DOMAIN pending.parts /\ pending'.parts[i] = pending.parts[i]
           \/ heap'[pending'.parts[i]].name = n
<1>1. pending.parts \in Seq(Live) /\ TypeOK BY DEF AInv, IInv, TypeOK
<1>2. pending \in [name: StructNames \cup FunctionNames \cup {NoSymbol},
                   parts: Seq(Live), list: BOOLEAN] BY <1>1 DEF TypeOK
<1>3. CASE ~ Known(spec)
  <2>1. pending'.parts = pending.parts BY <1>2, <1>3 DEF Parameter
  <2> QED BY <2>1
<1>4. CASE Known(spec)
  <2> DEFINE a == Top(next, dims)
  <2>1. pending'.parts = Append(pending.parts, a) BY <1>2, <1>4 DEF Parameter
  <2>2. heap' = Allocated(heap, n, spec, dims, next) BY <1>4 DEF Parameter
  <2>3. a \in DOMAIN heap' \ DOMAIN heap
    <3>1. a \notin DOMAIN heap BY NextIsNew DEF AInv, IInv, Fresh, Live, Top
    <3>2. Len(dims) \in Levels(spec, dims) BY DEF Levels
    <3> QED BY <2>2, <3>1, <3>2 DEF Allocated, Top
  <2>4. heap'[a].name = n BY <1>1, <1>4, <2>2, <2>3, AllocatedTyped
  <2> HIDE DEF a
  <2>5. \A i \in DOMAIN pending'.parts :
          IF i \in DOMAIN pending.parts THEN pending'.parts[i] = pending.parts[i]
          ELSE pending'.parts[i] = a
    BY <1>1, <2>1
  <2> QED BY <2>4, <2>5
<1> QED BY <1>3, <1>4

LEMMA NamedStep ==
  ASSUME AInv, Next
  PROVE  ParametersNamed'
<1>1. Same BY StepSame
<1>2. pending.parts \in Seq(Live) /\ TypeOK BY DEF AInv, IInv, TypeOK
<1> SUFFICES ASSUME at' \in {"header", "declared"}, NEW i \in DOMAIN pending'.parts
             PROVE  heap'[pending'.parts[i]].name \in Names
  BY DEF ParametersNamed
<1>3. CASE /\ at \in {"header", "declared"} /\ i \in DOMAIN pending.parts
           /\ pending'.parts[i] = pending.parts[i]
  <2>1. pending.parts[i] \in Live BY <1>2, <1>3
  <2> QED BY <1>1, <1>3, <2>1 DEF Same, AInv, ParametersNamed
<1>4. ASSUME NEW n \in Names, NEW spec \in Specifiers, NEW dims \in Seq(Nat),
             Declares(n, spec, dims)
      PROVE  heap'[pending'.parts[i]].name \in Names
  <2>1. Parameter(n, spec, dims) /\ at = "header"
    BY <1>4 DEF Declares, Declare, Member, Parameter
  <2> QED BY <1>3, <2>1, ParameterAppends
<1>5. CASE FunctionHeader BY <1>3, <1>5 DEF FunctionHeader
<1>6. CASE \E f \in FunctionNames : OpenHeader(f) BY <1>6 DEF OpenHeader
<1>7. ~ Quiet /\ ~ Crashing /\ ~ Losing BY DEF Quiet, Crashing, Losing
<1>8. /\ ~ (\E s \in StructNames : OpenStruct(s)) /\ ~ CloseStruct
      /\ ~ (\E spec \in Specifiers : Definition(spec))
  BY DEF OpenStruct, CloseStruct, Definition
<1> QED BY <1>4, <1>5, <1>6, <1>7, <1>8, Kinds

(* A header that is not reported leaves each parameter in the table.       *)
LEMMA HeaderStep ==
  ASSUME AInv, Next
  PROVE  HeaderResolves'
<1> SUFFICES ASSUME at' = "declared"
             PROVE  /\ heap'[<<next' - 1, 0>>].parts = pending'.parts
                    /\ Accepted' => \A i \in DOMAIN pending'.parts :
                                      vars'[heap'[pending'.parts[i]].name] = pending'.parts[i]
  BY DEF HeaderResolves
<1>1. TypeOK /\ IInv BY DEF AInv, IInv
<1>2. Same BY StepSame
<1>3. FunctionHeader
  <2>1. ~ Quiet /\ ~ Crashing /\ ~ Losing BY DEF Quiet, Crashing, Losing
  <2>2. /\ ~ (\E s \in StructNames : OpenStruct(s)) /\ ~ CloseStruct
        /\ ~ (\E spec \in Specifiers : Definition(spec))
        /\ ~ (\E f \in FunctionNames : OpenHeader(f))
    BY DEF OpenStruct, CloseStruct, Definition, OpenHeader
  <2>3. ASSUME NEW n, NEW spec, NEW dims, Declares(n, spec, dims) PROVE FALSE
    BY <2>3 DEF Declares, Declare, Member, Parameter
  <2> QED BY <2>1, <2>2, <2>3, Kinds
<1>4. pending' = pending /\ at = "header" /\ next' = next + 1 /\ next \in Nat
  BY <1>1, <1>3 DEF FunctionHeader, Take, TypeOK
<1>5. pending.parts \in Seq(Live) BY <1>1 DEF TypeOK
<1>6. heap'[<<next' - 1, 0>>].parts = pending'.parts
  <2> DEFINE s == Symbol(pending.name, "FUNCTION", pending.parts, 0, 0, NoSymbol)
             a == <<next, 0>>
  <2>1. heap' = With(heap, a, s) BY <1>3 DEF FunctionHeader
  <2>2. s.parts = pending.parts BY DEF Symbol
  <2>3. <<next' - 1, 0>> = a BY <1>4
  <2> HIDE DEF a, s
  <2>4. heap'[a] = s BY <2>1 DEF With
  <2> QED BY <1>4, <2>2, <2>3, <2>4
<1>7. ASSUME Accepted', NEW i \in DOMAIN pending.parts
      PROVE  vars'[heap'[pending.parts[i]].name] = pending.parts[i]
  <2> DEFINE n == heap[pending.parts[i]].name
  <2>1. n \in Names BY <1>4 DEF AInv, ParametersNamed
  <2>2. ~ RedefinesParameter
    <3>1. reports \in Nat /\ Report(HeaderErrors) BY <1>1, <1>3 DEF TypeOK, FunctionHeader
    <3>2. HeaderErrors = {} BY <1>7, <3>1, ReportAccepted
    <3>3. If(RedefinesParameter, 3) = {} BY <3>2 DEF HeaderErrors
    <3> QED BY <3>3 DEF If
  <2>3. DOMAIN pending.parts = 1..Len(pending.parts) /\ Len(pending.parts) \in Nat BY <1>5
  <2>4. \A j \in DOMAIN pending.parts : ParameterNames[j] = heap[pending.parts[j]].name
    BY DEF ParameterNames
  <2>5. vars[n] = NoSymbol BY <2>2, <2>4 DEF RedefinesParameter
  <2>6. \A j, k \in DOMAIN pending.parts : j < k => ParameterNames[j] # ParameterNames[k]
    <3> SUFFICES ASSUME NEW j \in DOMAIN pending.parts, NEW k \in DOMAIN pending.parts, j < k
                 PROVE  ParameterNames[j] # ParameterNames[k]
      OBVIOUS
    <3>1. j \in 1..(k - 1) BY <2>3
    <3> QED BY <2>2, <3>1 DEF RedefinesParameter
  <2>7. IsFirst(i, n)
    <3>1. \A j \in 1..(i - 1) : j \in DOMAIN pending.parts /\ j < i BY <2>3
    <3> QED BY <2>4, <2>6, <3>1 DEF IsFirst
  <2>8. \A j \in DOMAIN pending.parts : IsFirst(j, n) => j = i
    <3> SUFFICES ASSUME NEW j \in DOMAIN pending.parts, IsFirst(j, n), j # i PROVE FALSE
      OBVIOUS
    <3>1. ParameterNames[j] = ParameterNames[i] BY <2>4 DEF IsFirst
    <3>2. j < i \/ i < j BY <2>3
    <3> QED BY <2>6, <3>1, <3>2
  <2>9. FirstParameter(n) = i BY <2>7, <2>8 DEF FirstParameter
  <2>10. heap'[pending.parts[i]].name = n
    <3>1. pending.parts[i] \in Live BY <1>5
    <3> QED BY <1>2, <3>1 DEF Same
  <2>11. vars' = WithParameters BY <1>3 DEF FunctionHeader
  <2> HIDE DEF n
  <2>12. vars'[n] = pending.parts[i] BY <2>1, <2>5, <2>7, <2>9, <2>11 DEF WithParameters
  <2> QED BY <2>10, <2>12
<1> QED BY <1>4, <1>6, <1>7

LEMMA DefinitionsChange ==
  ASSUME AInv, Next
  PROVE  UNCHANGED defs \/ \E spec \in Specifiers : Definition(spec)
<1>1. ASSUME NEW n, NEW spec, NEW dims, Declares(n, spec, dims) PROVE UNCHANGED defs
  BY <1>1 DEF Declares, Declare, Member, Parameter, tables
<1>2. Quiet \/ Crashing \/ Losing => UNCHANGED defs BY DEF Quiet, Crashing, Losing
<1>3. (\E s \in StructNames : OpenStruct(s)) \/ (\E f \in FunctionNames : OpenHeader(f))
        => UNCHANGED defs
  BY DEF OpenStruct, OpenHeader, tables
<1>4. FunctionHeader \/ CloseStruct => UNCHANGED defs BY DEF FunctionHeader, CloseStruct
<1> QED BY <1>1, <1>2, <1>3, <1>4, Kinds

(* What is bound to an address stays bound to it.                          *)
LEMMA VariableStays ==
  ASSUME AInv, Next, Accepted', NEW n \in Names, vars[n] # NoSymbol
  PROVE  vars'[n] = vars[n]
<1>1. Enters \/ Forgets BY StepKeeps DEF AInv
<1> QED BY <1>1 DEF Enters, Forgets, Kept, tables

LEMMA LiveIsSymbol ==
  ASSUME TypeOK, NEW a \in Live
  PROVE  a # NoSymbol
BY ConstantsAssumption DEF TypeOK

LEMMA ResolveStep ==
  ASSUME AInv, Next
  PROVE  DefinedNamed' /\ ParametersResolve'
<1>1. TypeOK /\ IInv BY DEF AInv, IInv
<1>2. Same BY StepSame
<1> SUFFICES ASSUME NEW f \in FunctionNames, defs'[f] # NoSymbol,
                    NEW i \in DOMAIN heap'[defs'[f]].parts
             PROVE  LET p == heap'[defs'[f]].parts[i]
                    IN heap'[p].name \in Names /\ (Accepted' => vars'[heap'[p].name] = p)
  BY DEF DefinedNamed, ParametersResolve
<1>3. ASSUME NEW a \in Live, defs'[f] = a, NEW p, i \in DOMAIN heap[a].parts,
             p = heap[a].parts[i], heap[p].name \in Names,
             Accepted' => vars[heap[p].name] = p
      PROVE  LET q == heap'[defs'[f]].parts[i]
             IN heap'[q].name \in Names /\ (Accepted' => vars'[heap'[q].name] = q)
  <2>1. p \in Live /\ p # NoSymbol BY <1>1, <1>3, PartLives, LiveIsSymbol
  <2>2. heap'[defs'[f]].parts[i] = p /\ heap'[p].name = heap[p].name
    BY <1>2, <1>3, <2>1 DEF Same
  <2>3. Accepted' => vars'[heap[p].name] = p BY <1>3, <2>1, VariableStays
  <2> QED BY <1>3, <2>2, <2>3
<1>4. CASE defs'[f] = defs[f]
  <2>1. f \in Callees BY DEF Callees, Names
  <2>2. defs[f] \in Live BY <1>1, <1>4, <2>1 DEF TypeOK
  <2>3. i \in DOMAIN heap[defs[f]].parts BY <1>2, <1>4, <2>2 DEF Same
  <2> DEFINE p == heap[defs[f]].parts[i]
  <2>4. heap[p].name \in Names BY <1>4, <2>3 DEF AInv, DefinedNamed
  <2>5. Accepted' => vars[heap[p].name] = p
    BY <1>4, <2>3, StaysAccepted DEF AInv, ParametersResolve
  <2> HIDE DEF p
  <2>6. p = heap[defs[f]].parts[i] BY DEF p
  <2> QED BY <1>3, <1>4, <2>2, <2>3, <2>4, <2>5, <2>6
<1>5. CASE defs'[f] # defs[f]
  <2>1. PICK spec \in Specifiers : Definition(spec) BY <1>5, DefinitionsChange
  <2> DEFINE a == <<next - 1, 0>>
  <2>2. at = "declared" /\ (defs' = defs \/ defs' = [defs EXCEPT ![pending.name] = a])
    BY <2>1 DEF Definition
  <2>3. a \in Live BY <1>1, <2>2 DEF IInv, HeaderMade
  <2>4. heap[a].parts = pending.parts BY <2>2 DEF AInv, HeaderResolves
  <2>5. defs'[f] = a
    <3>1. f \in Callees BY DEF Callees, Names
    <3>2. defs \in [Callees -> Live \cup {NoSymbol}] BY <1>1 DEF TypeOK
    <3> HIDE DEF a
    <3> QED BY <1>5, <2>2, <3>1, <3>2
  <2>6. i \in DOMAIN heap[a].parts BY <1>2, <2>3, <2>5 DEF Same
  <2> DEFINE p == heap[a].parts[i]
  <2>7. heap[p].name \in Names BY <2>2, <2>4, <2>6 DEF AInv, ParametersNamed
  <2>8. Accepted' => vars[heap[p].name] = p
    BY <2>2, <2>4, <2>6, StaysAccepted DEF AInv, HeaderResolves
  <2> HIDE DEF a, p
  <2>9. p = heap[a].parts[i] BY DEF p
  <2> QED BY <1>3, <2>3, <2>5, <2>6, <2>7, <2>8, <2>9
<1> QED BY <1>4, <1>5

(* A member that is not reported has a name that no variable had.          *)
LEMMA MemberNew ==
  ASSUME AInv, NEW n \in Names, NEW spec \in Specifiers, NEW dims \in Seq(Nat),
         Member(n, spec, dims), pending.list, Accepted'
  PROVE  /\ vars[n] = NoSymbol /\ vars'[n] # NoSymbol
         /\ \E b \in Live' : /\ heap'[b].name = n
                            /\ pending'.parts = Append(pending.parts, b)
<1>1. TypeOK /\ IInv /\ reports \in Nat BY DEF AInv, IInv, TypeOK
<1>2. Known(spec) BY DeclaredKnown DEF Declares
<1>3. vars[n] = NoSymbol
  <2>1. Report(SpecErrors(spec) \cup If(vars[n] # NoSymbol, 3)) BY DEF Member, Insert
  <2>2. If(vars[n] # NoSymbol, 3) = {} BY <1>1, <2>1, ReportAccepted
  <2> QED BY <2>2 DEF If
<1>4. vars'[n] # NoSymbol
  <2> DEFINE a == IF Shares(spec, dims) THEN structs[spec] ELSE Top(next, dims)
  <2>1. vars' = [vars EXCEPT ![n] = a] BY <1>2, <1>3 DEF Member, Insert, Inserts
  <2>2. a \in Addresses
    <3>1. CASE Shares(spec, dims)
      <4>1. structs[spec] \in Live BY <1>1, <1>2, <3>1, KnownStruct DEF IInv, Shares
      <4> QED BY <1>1, <3>1, <4>1 DEF TypeOK
    <3>2. CASE ~ Shares(spec, dims) BY <1>1, <3>2, NextIsNew DEF Top, Addresses
    <3> QED BY <3>1, <3>2
  <2> HIDE DEF a
  <2>3. vars'[n] = a BY <1>1, <2>1 DEF TypeOK
  <2> QED BY <2>2, <2>3, ConstantsAssumption
<1>5. \E b \in Live' : heap'[b].name = n /\ pending'.parts = Append(pending.parts, b)
  <2> DEFINE g == HeapWith(n, spec, dims)
             d == MemberNumber(n, spec, dims)
             b == Top(d, dims)
  <2>1. heap' = Allocated(g, n, spec, dims, d) /\ pending' = [pending EXCEPT !.parts = Append(@, b)]
    BY DEF Member
  <2>2. d \in Nat /\ next \in Nat /\ (d = next \/ d = next + 1)
        /\ (~ Allocates(n, spec, dims) => d = next) /\ (Allocates(n, spec, dims) => d = next + 1)
    BY <1>1 DEF MemberNumber, TypeOK
  <2>3. b \notin DOMAIN g
    <3>1. \A a \in Live : a[1] < next BY <1>1 DEF IInv, Fresh
    <3>2. CASE ~ Allocates(n, spec, dims)
      <4>1. g = heap BY <3>2 DEF HeapWith
      <4> QED BY <2>2, <3>1, <3>2, <4>1 DEF Live, Top
    <3>3. CASE Allocates(n, spec, dims)
      <4>1. DOMAIN g \subseteq Live \cup ({next} \X Levels(spec, dims))
        BY <3>3 DEF HeapWith, Allocated, Live
      <4> HIDE DEF g
      <4>2. b[1] = next + 1 BY <2>2, <3>3 DEF Top
      <4>3. ASSUME b \in Live PROVE FALSE BY <2>2, <3>1, <4>2, <4>3
      <4>4. ASSUME b \in {next} \X Levels(spec, dims) PROVE FALSE BY <2>2, <4>2, <4>4
      <4> QED BY <4>1, <4>3, <4>4
    <3> QED BY <3>2, <3>3
  <2>4. b \in DOMAIN heap'
    <3>1. Len(dims) \in Levels(spec, dims) BY DEF Levels
    <3> QED BY <2>1, <3>1 DEF Allocated, Top
  <2> HIDE DEF b, d, g
  <2>5. heap'[b].name = n BY <1>1, <1>2, <2>1, <2>3, <2>4, AllocatedTyped
  <2>6. pending'.parts = Append(pending.parts, b)
    <3>1. pending \in [name: StructNames \cup FunctionNames \cup {NoSymbol},
                       parts: Seq(Live), list: BOOLEAN] BY <1>1 DEF TypeOK
    <3> QED BY <2>1, <3>1
  <2> QED BY <2>4, <2>5, <2>6 DEF Live
<1> QED BY <1>3, <1>4, <1>5

LEMMA MembersStep ==
  ASSUME AInv, Next
  PROVE  MembersApart'
<1>1. TypeOK /\ IInv BY DEF AInv, IInv
<1>2. Same BY StepSame
<1>3. pending.parts \in Seq(Live) BY <1>1 DEF TypeOK
<1> SUFFICES ASSUME at' = "struct", pending'.list, Accepted'
             PROVE  /\ Apart(pending.parts)'
                    /\ \A i \in DOMAIN pending'.parts :
                         /\ heap'[pending'.parts[i]].name \in Names
                         /\ vars'[heap'[pending'.parts[i]].name] # NoSymbol
  BY DEF MembersApart
<1>4. CASE \E s \in StructNames : OpenStruct(s) BY <1>4 DEF OpenStruct, Apart
<1>5. ASSUME NEW n \in Names, NEW spec \in Specifiers, NEW dims \in Seq(Nat),
             Declares(n, spec, dims)
      PROVE  /\ Apart(pending.parts)'
             /\ \A i \in DOMAIN pending'.parts :
                  /\ heap'[pending'.parts[i]].name \in Names
                  /\ vars'[heap'[pending'.parts[i]].name] # NoSymbol
  <2>1. Member(n, spec, dims) /\ at = "struct"
    BY <1>5 DEF Declares, Declare, Member, Parameter
  <2>2. pending.list BY <2>1 DEF Member
  <2>3. PICK b \in Live' : heap'[b].name = n /\ pending'.parts = Append(pending.parts, b)
    BY <2>1, <2>2, MemberNew
  <2>4. vars[n] = NoSymbol /\ vars'[n] # NoSymbol BY <2>1, <2>2, MemberNew
  <2>5. ASSUME NEW i \in DOMAIN pending.parts
        PROVE  LET x == heap[pending.parts[i]].name
               IN /\ heap'[pending.parts[i]].name = x /\ x \in Names
                  /\ vars[x] # NoSymbol /\ vars'[x] # NoSymbol
    <3> DEFINE x == heap[pending.parts[i]].name
    <3>1. x \in Names /\ vars[x] # NoSymbol
      BY <2>1, <2>2, <2>5, StaysAccepted DEF AInv, MembersApart
    <3>2. pending.parts[i] \in Live BY <1>3, <2>5
    <3>3. heap'[pending.parts[i]].name = x BY <1>2, <3>2 DEF Same
    <3> HIDE DEF x
    <3>4. vars'[x] # NoSymbol BY <3>1, VariableStays
    <3> QED BY <3>1, <3>3, <3>4 DEF x
  <2>6. Apart(pending.parts) BY <2>1, <2>2, StaysAccepted DEF AInv, MembersApart
  <2>7. \A i \in DOMAIN pending'.parts :
          IF i \in DOMAIN pending.parts THEN pending'.parts[i] = pending.parts[i]
          ELSE pending'.parts[i] = b /\ i = Len(pending.parts) + 1
    BY <1>3, <2>3
  <2>8. \A i \in DOMAIN pending'.parts :
          /\ heap'[pending'.parts[i]].name \in Names
          /\ vars'[heap'[pending'.parts[i]].name] # NoSymbol
    BY <2>3, <2>4, <2>5, <2>7
  <2>9. ASSUME NEW i \in DOMAIN pending'.parts, NEW j \in DOMAIN pending'.parts,
               heap'[pending'.parts[i]].name = heap'[pending'.parts[j]].name
        PROVE  i = j
    <3>1. CASE i \in DOMAIN pending.parts /\ j \in DOMAIN pending.parts
      BY <2>5, <2>6, <2>7, <2>9, <3>1 DEF Apart
    <3>2. CASE i \in DOMAIN pending.parts /\ j \notin DOMAIN pending.parts
      BY <2>3, <2>4, <2>5, <2>7, <2>9, <3>2
    <3>3. CASE i \notin DOMAIN pending.parts /\ j \in DOMAIN pending.parts
      BY <2>3, <2>4, <2>5, <2>7, <2>9, <3>3
    <3>4. CASE i \notin DOMAIN pending.parts /\ j \notin DOMAIN pending.parts
      BY <2>7, <3>4
    <3> QED BY <3>1, <3>2, <3>3, <3>4
  <2>10. Apart(pending.parts)' BY <2>9 DEF Apart
  <2> QED BY <2>8, <2>10
<1>6. ~ Quiet /\ ~ Crashing /\ ~ Losing BY DEF Quiet, Crashing, Losing
<1>7. /\ ~ CloseStruct /\ ~ FunctionHeader /\ ~ (\E f \in FunctionNames : OpenHeader(f))
      /\ ~ (\E spec \in Specifiers : Definition(spec))
  BY DEF CloseStruct, FunctionHeader, OpenHeader, Definition
<1> QED BY <1>4, <1>5, <1>6, <1>7, Kinds

LEMMA StructsChange ==
  ASSUME AInv, Next
  PROVE  UNCHANGED structs \/ CloseStruct
<1>1. ASSUME NEW n, NEW spec, NEW dims, Declares(n, spec, dims) PROVE UNCHANGED structs
  BY <1>1 DEF Declares, Declare, Member, Parameter, tables
<1>2. Quiet \/ Crashing \/ Losing => UNCHANGED structs BY DEF Quiet, Crashing, Losing
<1>3. (\E s \in StructNames : OpenStruct(s)) \/ (\E f \in FunctionNames : OpenHeader(f))
        => UNCHANGED structs
  BY DEF OpenStruct, OpenHeader, tables
<1>4. FunctionHeader \/ (\E spec \in Specifiers : Definition(spec)) => UNCHANGED structs
  BY DEF FunctionHeader, Definition
<1> QED BY <1>1, <1>2, <1>3, <1>4, Kinds

LEMMA UnambiguousStep ==
  ASSUME AInv, Next
  PROVE  MembersAreUnambiguous'
<1>1. TypeOK /\ IInv BY DEF AInv, IInv
<1>2. Same BY StepSame
<1> SUFFICES ASSUME Accepted', NEW s \in StructNames, structs'[s] # NoSymbol
             PROVE  Apart(heap[structs[s]].parts)'
  BY DEF MembersAreUnambiguous, Apart
(* Names that are apart stay apart.                                        *)
<1>3. ASSUME NEW parts \in Seq(Live), Apart(parts), heap'[structs'[s]].parts = parts
      PROVE  Apart(heap[structs[s]].parts)'
  <2>1. \A i \in DOMAIN parts : heap'[parts[i]].name = heap[parts[i]].name
    BY <1>2, <1>3 DEF Same
  <2> QED BY <1>3, <2>1 DEF Apart
<1>4. CASE structs'[s] = structs[s]
  <2>1. structs[s] \in Live BY <1>1, <1>4 DEF TypeOK
  <2>2. heap[structs[s]].parts \in Seq(Live) BY <1>1, <2>1 DEF TypeOK, SymbolsOver
  <2>3. heap'[structs'[s]].parts = heap[structs[s]].parts BY <1>2, <1>4, <2>1 DEF Same
  <2>4. Apart(heap[structs[s]].parts)
    BY <1>4, StaysAccepted DEF AInv, MembersAreUnambiguous, Apart
  <2> HIDE DEF Apart
  <2> QED BY <1>3, <2>2, <2>3, <2>4
<1>5. CASE structs'[s] # structs[s]
  <2>1. CloseStruct BY <1>5, StructsChange
  <2>2. at = "struct" /\ pending.list /\ structs' = [structs EXCEPT ![pending.name] = <<next, 0>>]
    BY <1>5, <2>1 DEF CloseStruct
  <2> DEFINE a == <<next, 0>>
             o == Symbol(pending.name, "STRUCT", pending.parts, 0, 0, NoSymbol)
  <2>3. structs'[s] = a BY <1>1, <1>5, <2>2 DEF TypeOK
  <2>4. heap' = With(heap, a, o) BY <2>1, <2>2 DEF CloseStruct
  <2>5. o.parts = pending.parts BY DEF Symbol
  <2> HIDE DEF a, o
  <2>6. heap'[structs'[s]].parts = pending.parts BY <2>3, <2>4, <2>5 DEF With
  <2>7. Apart(pending.parts) BY <2>2, StaysAccepted DEF AInv, MembersApart
  <2>8. pending.parts \in Seq(Live) BY <1>1 DEF TypeOK
  <2> QED BY <1>3, <2>6, <2>7, <2>8
<1> QED BY <1>4, <1>5

-----------------------------------------------------------------------------
(* The theorems.                                                           *)

LEMMA AcceptedInit == Init => AInv
<1> SUFFICES ASSUME Init PROVE AInv OBVIOUS
<1>1. IInv BY InitEstablishes
<1>2. PICK wild \in Wilds :
        heap = [a \in Temps \cup {<<1, 0>>, <<2, 0>>, <<3, 0>>} |-> Builtin(a, wild)]
  BY DEF Init
<1>3. TempsKeep
  <2> SUFFICES ASSUME NEW t \in Scalars PROVE heap[Temp(t)].type = t BY DEF TempsKeep
  <2>1. t \in {"INT", "FLOAT", "CHAR"} BY ConstantsAssumption
  <2>2. TempType(Temp(t)) = t
    <3>1. \A u \in Scalars \cup {"UNKNOWN"} : Temp(u) = Temp(t) => u = t
      BY <2>1, ConstantsAssumption DEF Temp
    <3> QED BY <3>1 DEF TempType
  <2>3. Temp(t) \in Temps BY DEF Temps
  <2>4. Temp(t) \notin {<<1, 0>>, <<2, 0>>, <<3, 0>>} BY <2>1 DEF Temp
  <2>5. heap[Temp(t)] = Symbol("", t, <<>>, 0, 0, NoSymbol)
    BY <1>2, <2>2, <2>3, <2>4 DEF Builtin
  <2>6. Symbol("", t, <<>>, 0, 0, NoSymbol).type = t BY DEF Symbol
  <2> QED BY <2>5, <2>6
<1>4. StructsDeclared BY DEF Init, StructsDeclared
<1>5. AcceptedKeepsTypes
  <2> SUFFICES ASSUME NEW a \in Live, a[1] # 0 PROVE heap[a].type # "UNKNOWN"
    BY DEF AcceptedKeepsTypes
  <2>1. a \in {<<1, 0>>, <<2, 0>>, <<3, 0>>} BY <1>2, TempTypes DEF Live
  <2> QED BY <1>2, <2>1 DEF Builtin, Symbol
<1>6. CrashesExplained /\ ParametersNamed /\ HeaderResolves /\ MembersApart
  BY DEF Init, CrashesExplained, ParametersNamed, HeaderResolves, MembersApart
<1>7. DefinedNamed /\ ParametersResolve
  <2>1. \A f \in FunctionNames : f # "read" /\ f # "write" /\ f \in Callees
    BY ConstantsAssumption DEF Names, Callees
  <2>2. \A f \in FunctionNames : defs[f] = NoSymbol BY <2>1 DEF Init
  <2> QED BY <2>2 DEF DefinedNamed, ParametersResolve
<1>8. MembersAreUnambiguous BY DEF Init, MembersAreUnambiguous
<1> QED BY <1>1, <1>3, <1>4, <1>5, <1>6, <1>7, <1>8 DEF AInv

LEMMA AcceptedInductive == Spec => []AInv
<1>1. AInv /\ [Next]_state => AInv'
  <2> SUFFICES ASSUME AInv, [Next]_state PROVE AInv' OBVIOUS
  <2>1. CASE Next
    <3>1. IInv' BY <2>1, StepKeeps DEF AInv
    <3> QED BY <2>1, <3>1, TypesStep, StructsStep, CrashesStep, NamedStep, HeaderStep,
             ResolveStep, MembersStep, UnambiguousStep DEF AInv
  <2>2. CASE UNCHANGED state
    <3>1. /\ heap' = heap /\ vars' = vars /\ defs' = defs /\ decls' = decls
          /\ structs' = structs /\ stack' = stack /\ at' = at /\ pending' = pending
          /\ next' = next /\ reports' = reports
      BY <2>2 DEF state, tables
    <3>2. IInv'
      BY <3>1 DEF AInv, IInv, TypeOK, Fresh, UnknownStays, ParametersTyped, HeaderMade,
                  StructIsNew, Live
    <3>3. TempsKeep' /\ StructsDeclared' /\ AcceptedKeepsTypes' /\ CrashesExplained'
      BY <3>1 DEF AInv, TempsKeep, StructsDeclared, AcceptedKeepsTypes, CrashesExplained,
                  Accepted, Live, TypeOf
    <3>4. ParametersNamed' /\ HeaderResolves' /\ DefinedNamed' /\ ParametersResolve'
      BY <3>1 DEF AInv, ParametersNamed, HeaderResolves, DefinedNamed, ParametersResolve, Accepted
    <3>5. MembersApart' /\ MembersAreUnambiguous'
      BY <3>1 DEF AInv, MembersApart, MembersAreUnambiguous, Apart, Accepted
    <3> QED BY <3>2, <3>3, <3>4, <3>5 DEF AInv
  <2> QED BY <2>1, <2>2
<1> QED BY <1>1, AcceptedInit, PTL DEF Spec

(* As long as no error is reported, whatever the file declares has a type: *)
(* every variable, member, parameter and element of an array.              *)
THEOREM AcceptedIsTyped == Spec => []AcceptedKeepsTypes
<1>1. AInv => AcceptedKeepsTypes BY DEF AInv
<1> QED BY <1>1, AcceptedInductive, PTL

(* In a file without a report, the name of a parameter of a defined        *)
(* function finds that parameter in the one table of variables.            *)
THEOREM ParametersAreFound == Spec => []ParametersResolve
<1>1. AInv => ParametersResolve BY DEF AInv
<1> QED BY <1>1, AcceptedInductive, PTL

(* In a file without a report, the members of a struct have different      *)
(* names, so checkDotOperator has no choice.                               *)
THEOREM MembersAreApart == Spec => []MembersAreUnambiguous
<1>1. AInv => MembersAreUnambiguous BY DEF AInv
<1> QED BY <1>1, AcceptedInductive, PTL

(* On a file without a report, the checks meet a null pointer or a wrong   *)
(* std::get only where the value of a call is an operand or an argument;   *)
(* an array size or an index that is no int kills the compiler, too        *)
(* ("out_of_range"), and this theorem does not rule that out.              *)
THEOREM OnlyCallsCrash == Spec => []CrashesExplained
<1>1. AInv => CrashesExplained BY DEF AInv
<1> QED BY <1>1, AcceptedInductive, PTL

-----------------------------------------------------------------------------
(* Objects refer to older ones.                                            *)

(* The parts of the object at a have types and, unless it is a function,   *)
(* are of a lower rank; so is what a function returns.                     *)
Made(h, rk, a) ==
  LET s == h[a]
  IN /\ \A i \in DOMAIN s.parts : h[s.parts[i]].type \notin {"FUNCTION", "UNKNOWN"}
     /\ s.type # "FUNCTION" => \A i \in DOMAIN s.parts : rk[s.parts[i]] < rk[a]
     /\ s.type = "FUNCTION" /\ s.ret # NoSymbol =>
          h[s.ret].type # "FUNCTION" /\ rk[s.ret] < rk[a]
     /\ s.type = "ARRAY" /\ h[s.parts[1]].type \notin {"ARRAY", "STRUCT"} => s.depth = 1

Ranked(h, rk, m) ==
  /\ m \in Nat
  /\ rk \in [DOMAIN h -> 0..m]
  /\ \A a \in DOMAIN h : Made(h, rk, a)

LEMMA LeastNatural ==
  ASSUME NEW T, T \subseteq Nat, T # {}
  PROVE  \E n \in T : \A m \in T : n <= m
<1>. DEFINE R == {ss \in Nat \X Nat : ss[1] < ss[2]}
<1>1. IsWellFoundedOn(R, Nat)
  BY NatLessThanWellFounded DEF OpToRel
<1>2. \A m, n \in Nat : <<m, n>> \in R <=> m < n
  OBVIOUS
<1>. HIDE DEF R
<1>3. PICK n \in T : \A m \in T : ~ (<<m, n>> \in R)
  BY <1>1, WFMin
<1>4. ASSUME NEW m \in T PROVE n <= m
  <2>1. m \in Nat /\ n \in Nat
    OBVIOUS
  <2>2. ~ (m < n)
    BY <1>2, <1>3, <2>1
  <2>. QED
    BY <2>1, <2>2
<1>. QED
  BY <1>4

(* Induction: what holds of 0, and of n + 1 where it holds of n.           *)
LEMMA StepInduction ==
  ASSUME NEW n \in Nat, NEW S, 0 \in S, \A i \in 1..n : i - 1 \in S => i \in S
  PROVE  \A i \in 0..n : i \in S
<1>. DEFINE T == {k \in 0..n : k \notin S}
<1>. SUFFICES ASSUME T # {} PROVE FALSE
  OBVIOUS
<1>1. PICK k \in T : \A m \in T : k <= m
  <2>. T \subseteq Nat
    OBVIOUS
  <2>. HIDE DEF T
  <2>. QED
    BY LeastNatural
<1>2. k \in 1..n /\ k - 1 \in 0..n
  OBVIOUS
<1>3. k - 1 \notin T
  BY <1>1, <1>2
<1>. QED
  BY <1>2, <1>3

(* What an object of a good heap refers to is in it.                       *)
LEMMA PartsLive ==
  ASSUME NEW h, GoodHeap(h), NEW a \in DOMAIN h
  PROVE  /\ h[a].parts \in Seq(DOMAIN h)
         /\ \A i \in DOMAIN h[a].parts : h[a].parts[i] \in DOMAIN h
         /\ h[a].ret # NoSymbol => h[a].ret \in DOMAIN h
         /\ h[a].type \in SymbolTypes
         /\ h[a].type = "ARRAY" => 1 \in DOMAIN h[a].parts
         /\ h[a].depth \in Nat
<1>1. h[a] \in SymbolsOver(DOMAIN h) BY DEF GoodHeap
<1>2. h[a].type = "ARRAY" => h[a].parts # <<>> BY <1>1 DEF SymbolsOver
<1>3. h[a].parts \in Seq(DOMAIN h) BY <1>1 DEF SymbolsOver
<1>4. \A s \in Seq(DOMAIN h) : s # <<>> => 1 \in DOMAIN s
  <2>1. \A s \in Seq(DOMAIN h) : Len(s) \in Nat /\ DOMAIN s = 1..Len(s) OBVIOUS
  <2>2. \A s \in Seq(DOMAIN h) : s # <<>> => Len(s) # 0 OBVIOUS
  <2> QED BY <2>1, <2>2
<1>5. h[a].type = "ARRAY" => 1 \in DOMAIN h[a].parts BY <1>2, <1>3, <1>4
<1>6. \A i \in DOMAIN h[a].parts : h[a].parts[i] \in DOMAIN h BY <1>3
<1> QED BY <1>1, <1>3, <1>5, <1>6 DEF SymbolsOver

-----------------------------------------------------------------------------
(* Shapes: the recursive function is defined.                              *)

ShapeFrom(h, g, a) ==
  LET s == h[a]
  IN CASE s.type = "ARRAY" -> <<"ARRAY", g[s.parts[1]]>>
       [] s.type = "STRUCT" -> <<"STRUCT">> \o [i \in DOMAIN s.parts |-> g[s.parts[i]]]
       [] s.type = "FUNCTION" /\ s.ret # NoSymbol -> g[s.ret]
       [] OTHER -> <<s.type>>

LowerThan(h, rk, n) == {a \in DOMAIN h : rk[a] < n}

(* The objects an object's shape is made of.                               *)
Uses(h, a) ==
  CASE h[a].type = "ARRAY" -> {h[a].parts[1]}
    [] h[a].type = "STRUCT" -> {h[a].parts[i] : i \in DOMAIN h[a].parts}
    [] h[a].type = "FUNCTION" /\ h[a].ret # NoSymbol -> {h[a].ret}
    [] OTHER -> {}

LEMMA UsesLower ==
  ASSUME NEW h, GoodHeap(h), NEW rk, NEW m, Ranked(h, rk, m), NEW a \in DOMAIN h,
         NEW b \in Uses(h, a)
  PROVE  b \in DOMAIN h /\ rk[b] < rk[a] /\ h[b].type # "FUNCTION"
<1>1. Made(h, rk, a) BY DEF Ranked
<1> QED BY <1>1, PartsLive DEF Made, Uses

LEMMA ShapeFromUses ==
  ASSUME NEW h, NEW f, NEW g, NEW a, \A b \in Uses(h, a) : f[b] = g[b]
  PROVE  ShapeFrom(h, f, a) = ShapeFrom(h, g, a)
<1>1. CASE h[a].type = "ARRAY"
  <2>1. h[a].parts[1] \in Uses(h, a) BY <1>1 DEF Uses
  <2> QED BY <1>1, <2>1 DEF ShapeFrom
<1>2. CASE h[a].type = "STRUCT"
  <2>1. \A i \in DOMAIN h[a].parts : h[a].parts[i] \in Uses(h, a) BY <1>2 DEF Uses
  <2>2. [i \in DOMAIN h[a].parts |-> f[h[a].parts[i]]]
          = [i \in DOMAIN h[a].parts |-> g[h[a].parts[i]]]
    BY <2>1
  <2> QED BY <1>2, <2>2 DEF ShapeFrom
<1>3. CASE h[a].type = "FUNCTION" /\ h[a].ret # NoSymbol
  <2>1. h[a].ret \in Uses(h, a) BY <1>3 DEF Uses
  <2> QED BY <1>3, <2>1 DEF ShapeFrom
<1>4. CASE /\ h[a].type # "ARRAY" /\ h[a].type # "STRUCT"
           /\ ~ (h[a].type = "FUNCTION" /\ h[a].ret # NoSymbol)
  BY <1>4 DEF ShapeFrom
<1> QED BY <1>1, <1>2, <1>3, <1>4

IsShape(g, h, S) == g = [a \in S |-> ShapeFrom(h, g, a)]

LEMMA ShapesExist ==
  ASSUME NEW h, GoodHeap(h), NEW rk, NEW m, Ranked(h, rk, m), NEW k \in Nat
  PROVE  \A n \in 0..k : \E g : IsShape(g, h, LowerThan(h, rk, n))
<1>. DEFINE S == {n \in 0..k : \E g : IsShape(g, h, LowerThan(h, rk, n))}
<1>1. 0 \in S
  <2>1. LowerThan(h, rk, 0) = {} BY DEF LowerThan, Ranked
  <2>. DEFINE g == [a \in {} |-> 0]
  <2>2. IsShape(g, h, {}) BY DEF IsShape
  <2>. HIDE DEF g
  <2>. QED BY <2>1, <2>2
<1>2. ASSUME NEW n \in 1..k, n - 1 \in S PROVE n \in S
  <2>1. PICK g : IsShape(g, h, LowerThan(h, rk, n - 1)) BY <1>2
  <2>. DEFINE f == [a \in LowerThan(h, rk, n) |-> ShapeFrom(h, g, a)]
  <2>2. \A a \in LowerThan(h, rk, n - 1) : g[a] = ShapeFrom(h, g, a)
    BY <2>1 DEF IsShape
  <2>3. \A a \in DOMAIN h : rk[a] \in Nat BY DEF Ranked
  <2>4. LowerThan(h, rk, n - 1) \subseteq LowerThan(h, rk, n) BY <2>3 DEF LowerThan
  <2>5. \A a \in LowerThan(h, rk, n - 1) : f[a] = g[a] BY <2>2, <2>4
  <2>6. ASSUME NEW a \in LowerThan(h, rk, n)
        PROVE  ShapeFrom(h, g, a) = ShapeFrom(h, f, a)
    <3>1. a \in DOMAIN h /\ rk[a] < n BY DEF LowerThan
    <3>2. \A b \in Uses(h, a) : b \in LowerThan(h, rk, n - 1)
      BY <2>3, <3>1, UsesLower DEF LowerThan
    <3>3. \A b \in Uses(h, a) : f[b] = g[b] BY <2>5, <3>2
    <3>. HIDE DEF f
    <3>. QED BY <3>3, ShapeFromUses
  <2>7. f = [a \in LowerThan(h, rk, n) |-> ShapeFrom(h, f, a)]
    <3>1. f = [a \in LowerThan(h, rk, n) |-> f[a]] /\
          \A a \in LowerThan(h, rk, n) : f[a] = ShapeFrom(h, g, a)
      OBVIOUS
    <3>. HIDE DEF f
    <3>. QED BY <2>6, <3>1
  <2>. HIDE DEF f
  <2>8. IsShape(f, h, LowerThan(h, rk, n)) BY <2>7 DEF IsShape
  <2>. QED BY <2>8
<1>. HIDE DEF S
<1>3. \A i \in 0..k : i \in S BY <1>1, <1>2, StepInduction
<1>. QED BY <1>3 DEF S

LEMMA ShapeDefined ==
  ASSUME NEW h, GoodHeap(h), NEW rk, NEW m, Ranked(h, rk, m), NEW a \in DOMAIN h
  PROVE  Shape(h)[a] = ShapeFrom(h, Shape(h), a)
<1>1. LowerThan(h, rk, m + 1) = DOMAIN h BY DEF LowerThan, Ranked
<1>2. PICK g : IsShape(g, h, DOMAIN h)
  <2>1. m + 1 \in Nat /\ m + 1 \in 0..m + 1 BY DEF Ranked
  <2>2. \E s : IsShape(s, h, LowerThan(h, rk, m + 1)) BY <2>1, ShapesExist
  <2>. QED BY <1>1, <2>2
<1>3. Shape(h) = CHOOSE s : IsShape(s, h, DOMAIN h)
  BY DEF Shape, IsShape, ShapeFrom
<1>4. IsShape(Shape(h), h, DOMAIN h) BY <1>2, <1>3
<1>5. \A s : IsShape(s, h, DOMAIN h) => s[a] = ShapeFrom(h, s, a) BY DEF IsShape
<1>. QED BY <1>4, <1>5

-----------------------------------------------------------------------------
(* The comparison: the recursive function is defined.                      *)

SameFrom(h, g, p) ==
  LET l == h[p[1]] r == h[p[2]]
  IN IF r.type = "FUNCTION" THEN r.ret # NoSymbol /\ g[<<p[1], r.ret>>]
     ELSE IF l.type = "FUNCTION" THEN l.ret # NoSymbol /\ g[<<l.ret, p[2]>>]
     ELSE /\ l.type = r.type
          /\ \/ l.type \in Scalars
             \/ /\ l.type = "ARRAY"
                /\ h[l.parts[1]].type = h[r.parts[1]].type
                /\ IF h[l.parts[1]].type \in {"ARRAY", "STRUCT"}
                   THEN g[<<l.parts[1], r.parts[1]>>]
                   ELSE l.depth = r.depth
             \/ l.type = "STRUCT" /\ SameMembers(g, l.parts, r.parts)

PairsBelow(h, rk, n) == {p \in (DOMAIN h) \X (DOMAIN h) : rk[p[1]] + rk[p[2]] < n}

(* The pairs a comparison goes on with.                                    *)
Pairs(h, p) ==
  IF h[p[2]].type = "FUNCTION"
  THEN IF h[p[2]].ret # NoSymbol THEN {<<p[1], h[p[2]].ret>>} ELSE {}
  ELSE IF h[p[1]].type = "FUNCTION"
  THEN IF h[p[1]].ret # NoSymbol THEN {<<h[p[1]].ret, p[2]>>} ELSE {}
  ELSE IF h[p[1]].type = h[p[2]].type /\ h[p[1]].type = "ARRAY"
  THEN {<<h[p[1]].parts[1], h[p[2]].parts[1]>>}
  ELSE IF h[p[1]].type = h[p[2]].type /\ h[p[1]].type = "STRUCT"
          /\ Len(h[p[1]].parts) = Len(h[p[2]].parts)
  THEN {<<h[p[1]].parts[i], h[p[2]].parts[i]>> : i \in 1..Len(h[p[1]].parts)}
  ELSE {}

LEMMA PairsLower ==
  ASSUME NEW h, GoodHeap(h), NEW rk, NEW m, Ranked(h, rk, m),
         NEW a \in DOMAIN h, NEW b \in DOMAIN h, NEW q \in Pairs(h, <<a, b>>)
  PROVE  /\ q \in (DOMAIN h) \X (DOMAIN h)
         /\ rk[q[1]] + rk[q[2]] < rk[a] + rk[b]
<1>1. Made(h, rk, a) /\ Made(h, rk, b) BY DEF Ranked
<1>2. \A c \in DOMAIN h : rk[c] \in Nat BY DEF Ranked
<1>3. CASE h[b].type = "FUNCTION"
  <2>1. h[b].ret # NoSymbol /\ q = <<a, h[b].ret>> BY <1>3 DEF Pairs
  <2>2. h[b].ret \in DOMAIN h /\ rk[h[b].ret] < rk[b] BY <1>1, <1>3, <2>1, PartsLive DEF Made
  <2> QED BY <1>2, <2>1, <2>2
<1>4. CASE h[b].type # "FUNCTION" /\ h[a].type = "FUNCTION"
  <2>1. h[a].ret # NoSymbol /\ q = <<h[a].ret, b>> BY <1>4 DEF Pairs
  <2>2. h[a].ret \in DOMAIN h /\ rk[h[a].ret] < rk[a] BY <1>1, <1>4, <2>1, PartsLive DEF Made
  <2> QED BY <1>2, <2>1, <2>2
<1>5. CASE h[b].type # "FUNCTION" /\ h[a].type # "FUNCTION"
  <2>1. PICK i \in DOMAIN h[a].parts, j \in DOMAIN h[b].parts :
          q = <<h[a].parts[i], h[b].parts[j]>>
    <3>1. CASE h[a].type = h[b].type /\ h[a].type = "ARRAY"
      <4>1. q = <<h[a].parts[1], h[b].parts[1]>> BY <1>5, <3>1 DEF Pairs
      <4> QED BY <3>1, <4>1, PartsLive
    <3>2. CASE h[a].type = h[b].type /\ h[a].type = "STRUCT"
      <4>1. /\ Len(h[a].parts) = Len(h[b].parts)
            /\ \E i \in 1..Len(h[a].parts) : q = <<h[a].parts[i], h[b].parts[i]>>
        BY <1>5, <3>2 DEF Pairs
      <4>2. \A s \in Seq(DOMAIN h) : DOMAIN s = 1..Len(s) OBVIOUS
      <4>3. h[a].parts \in Seq(DOMAIN h) /\ h[b].parts \in Seq(DOMAIN h) BY PartsLive
      <4> QED BY <4>1, <4>2, <4>3
    <3> QED BY <1>5, <3>1, <3>2 DEF Pairs
  <2>2. /\ h[a].parts[i] \in DOMAIN h /\ h[b].parts[j] \in DOMAIN h
        /\ rk[h[a].parts[i]] < rk[a] /\ rk[h[b].parts[j]] < rk[b]
    BY <1>1, <1>5, PartsLive DEF Made
  <2> QED BY <1>2, <2>1, <2>2
<1> QED BY <1>3, <1>4, <1>5

LEMMA SameFromPairs ==
  ASSUME NEW h, NEW f, NEW g, NEW p, \A q \in Pairs(h, p) : f[q] = g[q]
  PROVE  SameFrom(h, f, p) = SameFrom(h, g, p)
<1>1. CASE h[p[2]].type = "FUNCTION"
  <2>1. h[p[2]].ret # NoSymbol => <<p[1], h[p[2]].ret>> \in Pairs(h, p) BY <1>1 DEF Pairs
  <2> QED BY <1>1, <2>1 DEF SameFrom
<1>2. CASE h[p[2]].type # "FUNCTION" /\ h[p[1]].type = "FUNCTION"
  <2>1. h[p[1]].ret # NoSymbol => <<h[p[1]].ret, p[2]>> \in Pairs(h, p) BY <1>2 DEF Pairs
  <2> QED BY <1>2, <2>1 DEF SameFrom
<1>3. CASE h[p[2]].type # "FUNCTION" /\ h[p[1]].type # "FUNCTION"
  <2>1. CASE h[p[1]].type = h[p[2]].type /\ h[p[1]].type = "ARRAY"
    <3>1. <<h[p[1]].parts[1], h[p[2]].parts[1]>> \in Pairs(h, p) BY <1>3, <2>1 DEF Pairs
    <3> QED BY <1>3, <2>1, <3>1 DEF SameFrom
  <2>2. CASE h[p[1]].type = h[p[2]].type /\ h[p[1]].type = "STRUCT"
    <3>1. Len(h[p[1]].parts) = Len(h[p[2]].parts) =>
            \A i \in 1..Len(h[p[1]].parts) :
              <<h[p[1]].parts[i], h[p[2]].parts[i]>> \in Pairs(h, p)
      BY <1>3, <2>2 DEF Pairs
    <3>2. SameMembers(f, h[p[1]].parts, h[p[2]].parts)
            = SameMembers(g, h[p[1]].parts, h[p[2]].parts)
      BY <3>1 DEF SameMembers
    <3> QED BY <1>3, <2>2, <3>2 DEF SameFrom
  <2>3. CASE \/ h[p[1]].type # h[p[2]].type
             \/ h[p[1]].type # "ARRAY" /\ h[p[1]].type # "STRUCT"
    BY <1>3, <2>3 DEF SameFrom
  <2> QED BY <2>1, <2>2, <2>3
<1> QED BY <1>1, <1>2, <1>3

IsSame(g, h, S) == g = [p \in S |-> SameFrom(h, g, p)]

LEMMA SamesExist ==
  ASSUME NEW h, GoodHeap(h), NEW rk, NEW m, Ranked(h, rk, m), NEW k \in Nat
  PROVE  \A n \in 0..k : \E g : IsSame(g, h, PairsBelow(h, rk, n))
<1>. DEFINE S == {n \in 0..k : \E g : IsSame(g, h, PairsBelow(h, rk, n))}
<1>0. \A a \in DOMAIN h : rk[a] \in Nat BY DEF Ranked
<1>1. 0 \in S
  <2>1. PairsBelow(h, rk, 0) = {} BY <1>0 DEF PairsBelow
  <2>. DEFINE g == [p \in {} |-> TRUE]
  <2>2. IsSame(g, h, {}) BY DEF IsSame
  <2>. HIDE DEF g
  <2>. QED BY <2>1, <2>2
<1>2. ASSUME NEW n \in 1..k, n - 1 \in S PROVE n \in S
  <2>1. PICK g : IsSame(g, h, PairsBelow(h, rk, n - 1)) BY <1>2
  <2>. DEFINE f == [p \in PairsBelow(h, rk, n) |-> SameFrom(h, g, p)]
  <2>2. \A p \in PairsBelow(h, rk, n - 1) : g[p] = SameFrom(h, g, p)
    BY <2>1 DEF IsSame
  <2>4. PairsBelow(h, rk, n - 1) \subseteq PairsBelow(h, rk, n) BY <1>0 DEF PairsBelow
  <2>5. \A p \in PairsBelow(h, rk, n - 1) : f[p] = g[p] BY <2>2, <2>4
  <2>6. ASSUME NEW p \in PairsBelow(h, rk, n)
        PROVE  SameFrom(h, g, p) = SameFrom(h, f, p)
    <3>1. PICK a \in DOMAIN h, b \in DOMAIN h : p = <<a, b>> /\ rk[a] + rk[b] < n
      BY DEF PairsBelow
    <3>2. ASSUME NEW q \in Pairs(h, p) PROVE q \in PairsBelow(h, rk, n - 1)
      <4>1. q \in (DOMAIN h) \X (DOMAIN h) /\ rk[q[1]] + rk[q[2]] < rk[a] + rk[b]
        BY <3>1, PairsLower
      <4> QED BY <1>0, <3>1, <4>1 DEF PairsBelow
    <3>3. \A q \in Pairs(h, p) : f[q] = g[q] BY <2>5, <3>2
    <3>. HIDE DEF f
    <3>. QED BY <3>3, SameFromPairs
  <2>7. f = [p \in PairsBelow(h, rk, n) |-> SameFrom(h, f, p)]
    <3>1. f = [p \in PairsBelow(h, rk, n) |-> f[p]] /\
          \A p \in PairsBelow(h, rk, n) : f[p] = SameFrom(h, g, p)
      OBVIOUS
    <3>. HIDE DEF f
    <3>. QED BY <2>6, <3>1
  <2>. HIDE DEF f
  <2>8. IsSame(f, h, PairsBelow(h, rk, n)) BY <2>7 DEF IsSame
  <2>. QED BY <2>8
<1>. HIDE DEF S
<1>3. \A i \in 0..k : i \in S BY <1>1, <1>2, StepInduction
<1>. QED BY <1>3 DEF S

LEMMA SameDefined ==
  ASSUME NEW h, GoodHeap(h), NEW rk, NEW m, Ranked(h, rk, m)
  PROVE  \E g : /\ \A a, b : Equivalent(h, a, b) = g[<<a, b>>]
                /\ \A a, b \in DOMAIN h : g[<<a, b>>] = SameFrom(h, g, <<a, b>>)
<1>1. PairsBelow(h, rk, 2 * m + 1) = (DOMAIN h) \X (DOMAIN h)
  <2>1. \A a \in DOMAIN h : rk[a] \in Nat /\ rk[a] <= m BY DEF Ranked
  <2>2. m \in Nat BY DEF Ranked
  <2> QED BY <2>1, <2>2 DEF PairsBelow
<1>2. PICK f : IsSame(f, h, (DOMAIN h) \X (DOMAIN h))
  <2>1. 2 * m + 1 \in Nat /\ 2 * m + 1 \in 0..2 * m + 1 BY DEF Ranked
  <2>2. \E g : IsSame(g, h, PairsBelow(h, rk, 2 * m + 1)) BY <2>1, SamesExist
  <2>. QED BY <1>1, <2>2
<1>. DEFINE g == CHOOSE same : IsSame(same, h, (DOMAIN h) \X (DOMAIN h))
<1>3. \A a, b : Equivalent(h, a, b) = g[<<a, b>>]
  BY DEF Equivalent, IsSame, SameFrom
<1>4. IsSame(g, h, (DOMAIN h) \X (DOMAIN h)) BY <1>2
<1>. HIDE DEF g
<1>5. \A a, b \in DOMAIN h : g[<<a, b>>] = SameFrom(h, g, <<a, b>>) BY <1>4 DEF IsSame
<1>. QED BY <1>3, <1>5

-----------------------------------------------------------------------------
(* The comparison is equality of shapes.                                   *)

LEMMA TypeNames == Scalars \cap {"ARRAY", "STRUCT", "FUNCTION", "UNKNOWN"} = {}
BY ConstantsAssumption

LEMMA Prefixed ==
  ASSUME NEW T, NEW x, NEW f \in Seq(T), NEW g \in Seq(T)
  PROVE  /\ (<<x>> \o f)[1] = x
         /\ <<x>> \o f = <<x>> \o g <=> Len(f) = Len(g) /\ \A i \in 1..Len(f) : f[i] = g[i]
<1>. DEFINE U == T \cup {x}
<1>1. f \in Seq(U) /\ g \in Seq(U) /\ <<x>> \in Seq(U) OBVIOUS
<1>2. Len(f) \in Nat /\ Len(g) \in Nat /\ Len(<<x>>) = 1 /\ <<x>>[1] = x OBVIOUS
<1>. HIDE DEF U
<1>3. /\ (<<x>> \o f)[1] = x /\ Len(<<x>> \o f) = Len(f) + 1
      /\ \A i \in 1..Len(f) : (<<x>> \o f)[i + 1] = f[i]
  BY <1>1, <1>2
<1>4. /\ Len(<<x>> \o g) = Len(g) + 1
      /\ \A i \in 1..Len(g) : (<<x>> \o g)[i + 1] = g[i]
  BY <1>1, <1>2
<1>5. ASSUME <<x>> \o f = <<x>> \o g
      PROVE  Len(f) = Len(g) /\ \A i \in 1..Len(f) : f[i] = g[i]
  <2>1. Len(f) = Len(g) BY <1>2, <1>3, <1>4, <1>5
  <2> QED BY <1>3, <1>4, <1>5, <2>1
<1>6. ASSUME Len(f) = Len(g), \A i \in 1..Len(f) : f[i] = g[i]
      PROVE  <<x>> \o f = <<x>> \o g
  <2>1. f = g BY <1>2, <1>6
  <2> QED BY <2>1
<1> QED BY <1>3, <1>5, <1>6

LEMMA MemberShapes ==
  ASSUME NEW h, GoodHeap(h), NEW a \in DOMAIN h
  PROVE  /\ [i \in DOMAIN h[a].parts |-> Shape(h)[h[a].parts[i]]]
              \in Seq({Shape(h)[b] : b \in DOMAIN h})
         /\ Len([i \in DOMAIN h[a].parts |-> Shape(h)[h[a].parts[i]]]) = Len(h[a].parts)
<1>1. h[a].parts \in Seq(DOMAIN h) BY PartsLive
<1>2. \A s \in Seq(DOMAIN h) :
        /\ [i \in DOMAIN s |-> Shape(h)[s[i]]] \in Seq({Shape(h)[b] : b \in DOMAIN h})
        /\ Len([i \in DOMAIN s |-> Shape(h)[s[i]]]) = Len(s)
  <2> SUFFICES ASSUME NEW s \in Seq(DOMAIN h)
               PROVE  /\ [i \in DOMAIN s |-> Shape(h)[s[i]]] \in Seq({Shape(h)[b] : b \in DOMAIN h})
                      /\ Len([i \in DOMAIN s |-> Shape(h)[s[i]]]) = Len(s)
    OBVIOUS
  <2>1. DOMAIN s = 1..Len(s) /\ Len(s) \in Nat OBVIOUS
  <2>2. \A i \in 1..Len(s) : Shape(h)[s[i]] \in {Shape(h)[b] : b \in DOMAIN h} OBVIOUS
  <2> QED BY <2>1, <2>2
<1> QED BY <1>1, <1>2

(* A shape begins with the type.                                           *)
LEMMA ShapeHead ==
  ASSUME NEW h, GoodHeap(h), NEW rk, NEW m, Ranked(h, rk, m), NEW a \in DOMAIN h,
         h[a].type # "FUNCTION"
  PROVE  Shape(h)[a][1] = h[a].type
<1>1. Shape(h)[a] = ShapeFrom(h, Shape(h), a) BY ShapeDefined
<1>2. CASE h[a].type = "ARRAY" BY <1>1, <1>2 DEF ShapeFrom
<1>3. CASE h[a].type = "STRUCT"
  <2>1. Shape(h)[a] = <<"STRUCT">> \o [i \in DOMAIN h[a].parts |-> Shape(h)[h[a].parts[i]]]
    BY <1>1, <1>3 DEF ShapeFrom
  <2> QED BY <1>3, <2>1, MemberShapes, Prefixed
<1>4. CASE h[a].type # "ARRAY" /\ h[a].type # "STRUCT" BY <1>1, <1>4 DEF ShapeFrom
<1> QED BY <1>2, <1>3, <1>4

(* What has a type.                                                        *)
Denotes(h, a) ==
  /\ a \in DOMAIN h
  /\ h[a].type # "UNKNOWN"
  /\ h[a].type = "FUNCTION" => h[a].ret # NoSymbol /\ h[h[a].ret].type # "UNKNOWN"

Structural(h, a, b) == Equivalent(h, a, b) <=> Shape(h)[a] = Shape(h)[b]

LEMMA CallStructural ==
  ASSUME NEW h, GoodHeap(h), NEW rk, NEW m, Ranked(h, rk, m),
         NEW a, NEW b, Denotes(h, a), Denotes(h, b),
         h[a].type = "FUNCTION" \/ h[b].type = "FUNCTION",
         \A c, d : Denotes(h, c) /\ Denotes(h, d) /\ rk[c] + rk[d] < rk[a] + rk[b]
                     => Structural(h, c, d)
  PROVE  Structural(h, a, b)
<1>1. a \in DOMAIN h /\ b \in DOMAIN h BY DEF Denotes
<1>2. Made(h, rk, a) /\ Made(h, rk, b) BY <1>1 DEF Ranked
<1>3. \A c \in DOMAIN h : rk[c] \in Nat BY DEF Ranked
<1>4. PICK g : /\ \A c, d : Equivalent(h, c, d) = g[<<c, d>>]
               /\ \A c, d \in DOMAIN h : g[<<c, d>>] = SameFrom(h, g, <<c, d>>)
  BY SameDefined
<1>5. g[<<a, b>>] = SameFrom(h, g, <<a, b>>) BY <1>1, <1>4
<1>6. CASE h[b].type = "FUNCTION"
  <2>1. h[b].ret # NoSymbol /\ h[b].ret \in DOMAIN h /\ Denotes(h, h[b].ret)
        /\ rk[h[b].ret] < rk[b]
    BY <1>1, <1>2, <1>6, PartsLive DEF Made, Denotes
  <2>2. Shape(h)[b] = Shape(h)[h[b].ret] BY <1>1, <1>6, <2>1, ShapeDefined DEF ShapeFrom
  <2>3. SameFrom(h, g, <<a, b>>) <=> g[<<a, h[b].ret>>] BY <1>6, <2>1 DEF SameFrom
  <2>4. rk[a] + rk[h[b].ret] < rk[a] + rk[b] BY <1>1, <1>3, <2>1
  <2>5. Structural(h, a, h[b].ret) BY <2>1, <2>4
  <2> QED BY <1>4, <1>5, <2>2, <2>3, <2>5 DEF Structural
<1>7. CASE h[b].type # "FUNCTION"
  <2>1. h[a].ret # NoSymbol /\ h[a].ret \in DOMAIN h /\ Denotes(h, h[a].ret)
        /\ rk[h[a].ret] < rk[a] /\ h[a].type = "FUNCTION"
    BY <1>1, <1>2, <1>7, PartsLive DEF Made, Denotes
  <2>2. Shape(h)[a] = Shape(h)[h[a].ret] BY <1>1, <2>1, ShapeDefined DEF ShapeFrom
  <2>3. SameFrom(h, g, <<a, b>>) <=> g[<<h[a].ret, b>>] BY <1>7, <2>1 DEF SameFrom
  <2>4. rk[h[a].ret] + rk[b] < rk[a] + rk[b] BY <1>1, <1>3, <2>1
  <2>5. Structural(h, h[a].ret, b) BY <2>1, <2>4
  <2> QED BY <1>4, <1>5, <2>2, <2>3, <2>5 DEF Structural
<1> QED BY <1>6, <1>7

LEMMA ObjectStructural ==
  ASSUME NEW h, GoodHeap(h), NEW rk, NEW m, Ranked(h, rk, m),
         NEW a, NEW b, Denotes(h, a), Denotes(h, b),
         h[a].type # "FUNCTION", h[b].type # "FUNCTION",
         \A c, d : Denotes(h, c) /\ Denotes(h, d) /\ rk[c] + rk[d] < rk[a] + rk[b]
                     => Structural(h, c, d)
  PROVE  Structural(h, a, b)
<1>1. a \in DOMAIN h /\ b \in DOMAIN h BY DEF Denotes
<1>2. Made(h, rk, a) /\ Made(h, rk, b) BY <1>1 DEF Ranked
<1>3. \A c \in DOMAIN h : rk[c] \in Nat BY DEF Ranked
<1>4. PICK g : /\ \A c, d : Equivalent(h, c, d) = g[<<c, d>>]
               /\ \A c, d \in DOMAIN h : g[<<c, d>>] = SameFrom(h, g, <<c, d>>)
  BY SameDefined
<1>5. g[<<a, b>>] = SameFrom(h, g, <<a, b>>) BY <1>1, <1>4
<1>6. Shape(h)[a] = ShapeFrom(h, Shape(h), a) /\ Shape(h)[b] = ShapeFrom(h, Shape(h), b)
  BY <1>1, ShapeDefined
<1>7. Shape(h)[a][1] = h[a].type /\ Shape(h)[b][1] = h[b].type BY <1>1, ShapeHead
<1>8. ASSUME NEW i \in DOMAIN h[a].parts, NEW j \in DOMAIN h[b].parts
      PROVE  /\ Denotes(h, h[a].parts[i]) /\ Denotes(h, h[b].parts[j])
             /\ Structural(h, h[a].parts[i], h[b].parts[j])
             /\ h[h[a].parts[i]].type # "FUNCTION" /\ h[h[b].parts[j]].type # "FUNCTION"
  <2>1. /\ h[a].parts[i] \in DOMAIN h /\ h[b].parts[j] \in DOMAIN h
        /\ rk[h[a].parts[i]] < rk[a] /\ rk[h[b].parts[j]] < rk[b]
    BY <1>1, <1>2, PartsLive DEF Made
  <2>2. /\ Denotes(h, h[a].parts[i]) /\ Denotes(h, h[b].parts[j])
        /\ h[h[a].parts[i]].type # "FUNCTION" /\ h[h[b].parts[j]].type # "FUNCTION"
    BY <1>2, <2>1 DEF Made, Denotes
  <2>3. rk[h[a].parts[i]] + rk[h[b].parts[j]] < rk[a] + rk[b] BY <1>1, <1>3, <2>1
  <2> QED BY <2>2, <2>3
<1>9. CASE h[a].type # h[b].type
  <2>1. ~ SameFrom(h, g, <<a, b>>) BY <1>9 DEF SameFrom
  <2>2. Shape(h)[a] # Shape(h)[b] BY <1>7, <1>9
  <2> QED BY <1>4, <1>5, <2>1, <2>2 DEF Structural
<1>10. CASE h[a].type = h[b].type /\ h[a].type \in Scalars
  <2>1. h[a].type # "ARRAY" /\ h[a].type # "STRUCT" BY <1>10, TypeNames
  <2>2. SameFrom(h, g, <<a, b>>) BY <1>10 DEF SameFrom
  <2>3. Shape(h)[a] = Shape(h)[b] BY <1>6, <1>10, <2>1 DEF ShapeFrom
  <2> QED BY <1>4, <1>5, <2>2, <2>3 DEF Structural
<1>11. CASE h[a].type = h[b].type /\ h[a].type = "ARRAY"
  <2>. DEFINE c == h[a].parts[1]
              d == h[b].parts[1]
  <2>1. Denotes(h, c) /\ Denotes(h, d) /\ Structural(h, c, d)
        /\ h[c].type # "FUNCTION" /\ h[d].type # "FUNCTION"
    BY <1>1, <1>8, <1>11, PartsLive
  <2>2. c \in DOMAIN h /\ d \in DOMAIN h BY <2>1 DEF Denotes
  <2>3. Shape(h)[a] = <<"ARRAY", Shape(h)[c]>> /\ Shape(h)[b] = <<"ARRAY", Shape(h)[d]>>
    BY <1>6, <1>11 DEF ShapeFrom
  <2>4. "ARRAY" \notin Scalars BY TypeNames
  <2>5. SameFrom(h, g, <<a, b>>)
          <=> /\ h[c].type = h[d].type
              /\ IF h[c].type \in {"ARRAY", "STRUCT"} THEN g[<<c, d>>]
                 ELSE h[a].depth = h[b].depth
    BY <1>11, <2>4 DEF SameFrom
  <2>6. Shape(h)[a] = Shape(h)[b] <=> Shape(h)[c] = Shape(h)[d] BY <2>3
  <2>7. Shape(h)[c][1] = h[c].type /\ Shape(h)[d][1] = h[d].type BY <2>1, <2>2, ShapeHead
  <2>8. h[c].type \notin {"ARRAY", "STRUCT"} => h[a].depth = 1 BY <1>2, <1>11 DEF Made
  <2>9. h[d].type \notin {"ARRAY", "STRUCT"} => h[b].depth = 1 BY <1>2, <1>11 DEF Made
  <2>10. h[c].type \in SymbolTypes \ {"UNKNOWN", "FUNCTION"} BY <2>1, <2>2, PartsLive DEF Denotes
  <2>11. Shape(h)[c] = ShapeFrom(h, Shape(h), c) /\ Shape(h)[d] = ShapeFrom(h, Shape(h), d)
    BY <2>2, ShapeDefined
  <2>. HIDE DEF c, d
  <2>12. CASE h[c].type # h[d].type
    BY <1>4, <1>5, <2>5, <2>6, <2>7, <2>12 DEF Structural
  <2>13. CASE h[c].type = h[d].type /\ h[c].type \in {"ARRAY", "STRUCT"}
    BY <1>4, <1>5, <2>1, <2>5, <2>6, <2>13 DEF Structural
  <2>14. CASE h[c].type = h[d].type /\ h[c].type \notin {"ARRAY", "STRUCT"}
    <3>1. Shape(h)[c] = Shape(h)[d] BY <2>1, <2>11, <2>14 DEF ShapeFrom
    <3>2. SameFrom(h, g, <<a, b>>) BY <2>5, <2>8, <2>9, <2>14
    <3>3. Equivalent(h, a, b) BY <1>4, <1>5, <3>2
    <3>. QED BY <2>6, <3>1, <3>3 DEF Structural
  <2>. QED BY <2>12, <2>13, <2>14
<1>12. CASE h[a].type = h[b].type /\ h[a].type = "STRUCT"
  <2>. DEFINE f == [i \in DOMAIN h[a].parts |-> Shape(h)[h[a].parts[i]]]
              e == [i \in DOMAIN h[b].parts |-> Shape(h)[h[b].parts[i]]]
              T == {Shape(h)[c] : c \in DOMAIN h}
  <2>1. Shape(h)[a] = <<"STRUCT">> \o f /\ Shape(h)[b] = <<"STRUCT">> \o e
    BY <1>6, <1>12 DEF ShapeFrom
  <2>2. f \in Seq(T) /\ e \in Seq(T) /\ Len(f) = Len(h[a].parts) /\ Len(e) = Len(h[b].parts)
    BY <1>1, MemberShapes
  <2>3. DOMAIN h[a].parts = 1..Len(h[a].parts) /\ DOMAIN h[b].parts = 1..Len(h[b].parts)
    <3>1. \A s \in Seq(DOMAIN h) : DOMAIN s = 1..Len(s) OBVIOUS
    <3> QED BY <1>1, <3>1, PartsLive
  <2>4. /\ \A i \in 1..Len(h[a].parts) : f[i] = Shape(h)[h[a].parts[i]]
        /\ \A i \in 1..Len(h[b].parts) : e[i] = Shape(h)[h[b].parts[i]]
    BY <2>3
  <2>. HIDE DEF f, e, T
  <2>5. Shape(h)[a] = Shape(h)[b] <=> Len(f) = Len(e) /\ \A i \in 1..Len(f) : f[i] = e[i]
    BY <2>1, <2>2, Prefixed
  <2>6. "STRUCT" \notin Scalars BY TypeNames
  <2>7. SameFrom(h, g, <<a, b>>) <=> SameMembers(g, h[a].parts, h[b].parts)
    BY <1>12, <2>6 DEF SameFrom
  <2>8. ASSUME Len(h[a].parts) = Len(h[b].parts), NEW i \in 1..Len(h[a].parts)
        PROVE  g[<<h[a].parts[i], h[b].parts[i]>>] <=> f[i] = e[i]
    <3>1. i \in DOMAIN h[a].parts /\ i \in DOMAIN h[b].parts BY <2>3, <2>8
    <3>2. Structural(h, h[a].parts[i], h[b].parts[i]) BY <1>8, <3>1
    <3>3. f[i] = Shape(h)[h[a].parts[i]] /\ e[i] = Shape(h)[h[b].parts[i]] BY <2>4, <2>8
    <3> QED BY <1>4, <3>2, <3>3 DEF Structural
  <2>9. SameMembers(g, h[a].parts, h[b].parts)
          <=> Len(f) = Len(e) /\ \A i \in 1..Len(f) : f[i] = e[i]
    BY <2>2, <2>8 DEF SameMembers
  <2> QED BY <1>4, <1>5, <2>5, <2>7, <2>9 DEF Structural
<1>13. h[a].type \in Scalars \cup {"ARRAY", "STRUCT"}
  <2>1. h[a].type \in SymbolTypes BY <1>1, PartsLive
  <2> QED BY <2>1 DEF SymbolTypes, Denotes
<1> QED BY <1>9, <1>10, <1>11, <1>12, <1>13

LEMMA EquivalentIsStructural ==
  ASSUME NEW h, GoodHeap(h), NEW rk, NEW m, Ranked(h, rk, m),
         NEW a, NEW b, Denotes(h, a), Denotes(h, b)
  PROVE  Structural(h, a, b)
<1>. DEFINE T == {n \in Nat : \E c, d : /\ Denotes(h, c) /\ Denotes(h, d)
                                        /\ rk[c] + rk[d] = n /\ ~ Structural(h, c, d)}
<1>1. \A c \in DOMAIN h : rk[c] \in Nat BY DEF Ranked
<1>2. \A c, d : Denotes(h, c) /\ Denotes(h, d) => rk[c] + rk[d] \in Nat BY <1>1 DEF Denotes
<1>. SUFFICES ASSUME T # {} PROVE FALSE BY <1>2
<1>3. PICK n \in T : \A k \in T : n <= k
  <2>. T \subseteq Nat OBVIOUS
  <2>. HIDE DEF T
  <2>. QED BY LeastNatural
<1>4. PICK c, d : /\ Denotes(h, c) /\ Denotes(h, d)
                  /\ rk[c] + rk[d] = n /\ ~ Structural(h, c, d)
  OBVIOUS
<1>5. ASSUME NEW x, NEW y, Denotes(h, x), Denotes(h, y), rk[x] + rk[y] < rk[c] + rk[d]
      PROVE  Structural(h, x, y)
  <2>1. rk[x] + rk[y] \in Nat BY <1>2, <1>5
  <2>2. rk[x] + rk[y] \notin T BY <1>3, <1>4, <1>5, <2>1
  <2> QED BY <1>5, <2>1, <2>2
<1>. QED BY <1>4, <1>5, CallStructural, ObjectStructural

(* A heap that is extended, or gets the type a function returns, leaves    *)
(* the shapes of what is no function as they were.                         *)
LEMMA ShapesStay ==
  ASSUME NEW h, GoodHeap(h), NEW rk, NEW m, Ranked(h, rk, m),
         NEW g, GoodHeap(g), NEW rg, NEW k, Ranked(g, rg, k),
         DOMAIN h \subseteq DOMAIN g,
         \A a \in DOMAIN h : g[a].type = h[a].type /\ g[a].parts = h[a].parts,
         NEW x \in DOMAIN h, h[x].type # "FUNCTION"
  PROVE  Shape(g)[x] = Shape(h)[x]
<1>. DEFINE T == {n \in Nat : \E a \in DOMAIN h : /\ h[a].type # "FUNCTION" /\ rk[a] = n
                                                /\ Shape(g)[a] # Shape(h)[a]}
<1>1. \A a \in DOMAIN h : rk[a] \in Nat BY DEF Ranked
<1>. SUFFICES ASSUME T # {} PROVE FALSE BY <1>1
<1>2. PICK n \in T : \A j \in T : n <= j
  <2>. T \subseteq Nat OBVIOUS
  <2>. HIDE DEF T
  <2>. QED BY LeastNatural
<1>3. PICK a \in DOMAIN h : /\ h[a].type # "FUNCTION" /\ rk[a] = n
                            /\ Shape(g)[a] # Shape(h)[a]
  OBVIOUS
<1>4. ASSUME NEW b \in Uses(h, a) PROVE Shape(g)[b] = Shape(h)[b]
  <2>1. b \in DOMAIN h /\ rk[b] < rk[a] /\ h[b].type # "FUNCTION" BY UsesLower
  <2>2. rk[b] \in Nat /\ rk[b] \notin T BY <1>1, <1>2, <1>3, <2>1
  <2> QED BY <2>1, <2>2
<1>5. Shape(h)[a] = ShapeFrom(h, Shape(h), a) BY ShapeDefined
<1>6. Shape(g)[a] = ShapeFrom(g, Shape(g), a)
  <2>1. a \in DOMAIN g OBVIOUS
  <2> QED BY <2>1, ShapeDefined
<1>7. ShapeFrom(g, Shape(g), a) = ShapeFrom(h, Shape(g), a) BY <1>3 DEF ShapeFrom
<1>8. ShapeFrom(h, Shape(g), a) = ShapeFrom(h, Shape(h), a) BY <1>4, ShapeFromUses
<1>. QED BY <1>3, <1>5, <1>6, <1>7, <1>8

-----------------------------------------------------------------------------
(* Every step keeps the heap well-founded.                                 *)

Founded ==
  Accepted =>
    /\ \E rk, m : Ranked(heap, rk, m)
    /\ at \in {"struct", "header", "declared"} =>
         \A i \in DOMAIN pending.parts :
           heap[pending.parts[i]].type \notin {"FUNCTION", "UNKNOWN"}
    /\ \A s \in StructNames : structs[s] # NoSymbol => heap[structs[s]].type = "STRUCT"

LEMMA MadeStays ==
  ASSUME NEW h, GoodHeap(h), NEW rk, NEW m, Ranked(h, rk, m), NEW g, Extends(h, g), NEW rg,
         \A b \in DOMAIN h : rg[b] = rk[b], NEW a \in DOMAIN h
  PROVE  Made(g, rg, a)
<1>1. g[a] = h[a] BY DEF Extends
<1>2. \A b \in DOMAIN h : g[b] = h[b] BY DEF Extends
<1>3. Made(h, rk, a) BY DEF Ranked
<1>4. /\ \A i \in DOMAIN h[a].parts : h[a].parts[i] \in DOMAIN h
      /\ h[a].ret # NoSymbol => h[a].ret \in DOMAIN h
      /\ h[a].type = "ARRAY" => h[a].parts[1] \in DOMAIN h
  BY PartsLive
<1>. QED BY <1>1, <1>2, <1>3, <1>4 DEF Made

LEMMA WithRanked ==
  ASSUME NEW h, GoodHeap(h), NEW rk, NEW m, Ranked(h, rk, m), NEW a, a \notin DOMAIN h,
         NEW s, s.parts \in Seq(DOMAIN h),
         \A i \in DOMAIN s.parts : h[s.parts[i]].type \notin {"FUNCTION", "UNKNOWN"},
         s.type \in {"STRUCT", "FUNCTION"}, s.ret = NoSymbol
  PROVE  \E rg, k : Ranked(With(h, a, s), rg, k)
<1>. DEFINE g == With(h, a, s)
            rg == [b \in DOMAIN h \cup {a} |-> IF b = a THEN m + 1 ELSE rk[b]]
<1>1. DOMAIN g = DOMAIN h \cup {a} /\ g[a] = s /\ Extends(h, g) BY DEF With, Extends
<1>2. m \in Nat /\ rk \in [DOMAIN h -> 0..m] BY DEF Ranked
<1>3. rg \in [DOMAIN g -> 0..m + 1]
  <2>1. \A b \in DOMAIN g : rg[b] \in 0..m + 1 BY <1>1, <1>2
  <2>. QED BY <1>1, <2>1
<1>4. rg[a] = m + 1 /\ \A b \in DOMAIN h : rg[b] = rk[b] OBVIOUS
<1>. HIDE DEF g, rg
<1>5. Made(g, rg, a)
  <2>1. \A i \in DOMAIN s.parts : s.parts[i] \in DOMAIN h OBVIOUS
  <2>2. \A i \in DOMAIN s.parts : g[s.parts[i]] = h[s.parts[i]] /\ rg[s.parts[i]] = rk[s.parts[i]]
    BY <1>1, <1>4, <2>1 DEF Extends
  <2>3. \A i \in DOMAIN s.parts : rk[s.parts[i]] \in 0..m BY <1>2, <2>1
  <2>4. \A i \in DOMAIN s.parts : rg[s.parts[i]] < rg[a] BY <1>2, <1>4, <2>2, <2>3
  <2>. QED BY <1>1, <2>2, <2>4 DEF Made
<1>6. \A b \in DOMAIN h : Made(g, rg, b) BY <1>1, <1>4, MadeStays
<1>7. Ranked(g, rg, m + 1) BY <1>1, <1>2, <1>3, <1>5, <1>6 DEF Ranked
<1>. QED BY <1>7 DEF g

(* What a specifier that is known stands for.                              *)
LEMMA SpecObject ==
  ASSUME AInv, Founded, Accepted, NEW spec \in Specifiers, Known(spec)
  PROVE  /\ SpecAddress(spec) \in Live
         /\ heap[SpecAddress(spec)].type \in Scalars \cup {"STRUCT"}
         /\ spec \in StructNames =>
              structs[spec] = SpecAddress(spec) /\ heap[SpecAddress(spec)].type = "STRUCT"
<1>1. TypeOK /\ UnknownStays BY DEF AInv, IInv
<1>2. SpecAddress(spec) \in Live BY <1>1, SpecLives
<1>3. CASE spec \in Scalars
  <2>1. heap[SpecAddress(spec)].type = spec BY <1>3 DEF AInv, TempsKeep, SpecAddress
  <2>2. spec \notin StructNames BY <1>3, ConstantsAssumption
  <2>. QED BY <1>2, <1>3, <2>1, <2>2
<1>4. CASE spec \in StructNames
  <2>1. structs[spec] \in Live /\ SpecAddress(spec) = structs[spec] BY <1>1, <1>4, KnownStruct
  <2>2. NoSymbol \notin Live BY <1>1, ConstantsAssumption DEF TypeOK
  <2>3. heap[structs[spec]].type = "STRUCT" BY <1>4, <2>1, <2>2 DEF Founded
  <2>. QED BY <1>2, <2>1, <2>3
<1>. QED BY <1>3, <1>4 DEF Specifiers

LEMMA AllocatedRanked ==
  ASSUME AInv, Founded, Accepted, NEW n \in Names, NEW spec \in Specifiers,
         NEW dims \in Seq(Nat), Known(spec), NEW d \in Nat,
         NEW h, GoodHeap(h), Extends(heap, h), \A k \in Nat : <<d, k>> \notin DOMAIN h,
         NEW rk, NEW m, Ranked(h, rk, m)
  PROVE  /\ \E rg, k : Ranked(Allocated(h, n, spec, dims, d), rg, k)
         /\ \A k \in Levels(spec, dims) :
              Allocated(h, n, spec, dims, d)[<<d, k>>].type \notin {"FUNCTION", "UNKNOWN"}
<1>. DEFINE g == Allocated(h, n, spec, dims, d)
            new == {d} \X Levels(spec, dims)
            rg == [b \in DOMAIN h \cup new |-> IF b \in DOMAIN h THEN rk[b] ELSE m + 1 + b[2]]
            sa == SpecAddress(spec)
<1>1. /\ sa \in Live /\ heap[sa].type \in Scalars \cup {"STRUCT"}
      /\ spec \in StructNames => structs[spec] = sa /\ heap[sa].type = "STRUCT"
  BY SpecObject
<1>2. sa \in DOMAIN h /\ h[sa] = heap[sa] BY <1>1 DEF Extends, Live
<1>3. Levels(spec, dims) \subseteq 0..Len(dims) /\ Len(dims) \in Nat
  <2>1. Len(dims) \in Nat OBVIOUS
  <2>. QED BY <2>1 DEF Levels
<1>4. m \in Nat /\ rk \in [DOMAIN h -> 0..m] BY DEF Ranked
<1>5. DOMAIN g = DOMAIN h \cup new /\ Extends(h, g) BY DEF Allocated, Extends
<1>6. \A b \in DOMAIN h : rg[b] = rk[b] OBVIOUS
<1>7. ASSUME NEW k \in Levels(spec, dims)
      PROVE  /\ <<d, k>> \in DOMAIN g /\ <<d, k>> \notin DOMAIN h
             /\ g[<<d, k>>] = NewSymbol(n, spec, dims, d, k)
             /\ rg[<<d, k>>] = m + 1 + k /\ k \in Nat /\ k <= Len(dims)
  <2>1. k \in Nat /\ k <= Len(dims) BY <1>3
  <2>2. <<d, k>> \in new /\ <<d, k>> \notin DOMAIN h BY <2>1
  <2>. QED BY <2>1, <2>2 DEF Allocated
<1>8. rg \in [DOMAIN g -> 0..(m + 1 + Len(dims))]
  <2>1. ASSUME NEW b \in DOMAIN h PROVE rg[b] \in 0..(m + 1 + Len(dims))
    <3>1. rk[b] \in 0..m BY <1>4
    <3>. QED BY <1>3, <1>4, <1>6, <3>1
  <2>2. ASSUME NEW b \in new PROVE rg[b] \in 0..(m + 1 + Len(dims))
    <3>1. PICK k \in Levels(spec, dims) : b = <<d, k>> OBVIOUS
    <3>. HIDE DEF rg
    <3>. QED BY <1>3, <1>4, <1>7, <3>1
  <2>. QED BY <1>5, <2>1, <2>2
<1>9. /\ [heap[sa] EXCEPT !.name = n].type = heap[sa].type
      /\ [heap[sa] EXCEPT !.name = n].parts = heap[sa].parts
  <2>1. heap[sa] \in SymbolsOver(Live) BY <1>1 DEF AInv, IInv, TypeOK
  <2>. HIDE DEF sa
  <2>. QED BY <2>1 DEF SymbolsOver
<1>10. ASSUME NEW k \in Levels(spec, dims)
       PROVE  g[<<d, k>>].type = IF k = 0 THEN heap[sa].type ELSE "ARRAY"
  <2>1. g[<<d, k>>] = NewSymbol(n, spec, dims, d, k) BY <1>7
  <2>. HIDE DEF g, rg
  <2>2. CASE k = 0
    <3>1. NewSymbol(n, spec, dims, d, k) = [heap[sa] EXCEPT !.name = n]
      BY <2>2 DEF NewSymbol
    <3>. QED BY <1>9, <2>1, <2>2, <3>1
  <2>3. CASE k # 0 BY <2>1, <2>3 DEF NewSymbol, Symbol
  <2>. QED BY <2>2, <2>3
<1>11. heap[sa].type \notin {"FUNCTION", "UNKNOWN", "ARRAY"} BY <1>1, TypeNames
<1>. HIDE DEF g, rg, sa, new
<1>12. ASSUME NEW k \in Levels(spec, dims) PROVE Made(g, rg, <<d, k>>)
  <2>1. CASE k = 0
    <3>1. g[<<d, k>>].parts = h[sa].parts /\ g[<<d, k>>].type = h[sa].type
      BY <1>2, <1>7, <1>9, <2>1 DEF NewSymbol, sa
    <3>2. Made(h, rk, sa) BY <1>2 DEF Ranked
    <3>3. \A i \in DOMAIN h[sa].parts : h[sa].parts[i] \in DOMAIN h BY <1>2, PartsLive
    <3>4. \A i \in DOMAIN h[sa].parts :
            g[h[sa].parts[i]] = h[h[sa].parts[i]] /\ rg[h[sa].parts[i]] \in 0..m
      BY <1>4, <1>5, <1>6, <3>3 DEF Extends
    <3>5. rg[<<d, k>>] = m + 1 /\ m \in Nat BY <1>4, <1>7, <2>1
    <3>6. \A i \in DOMAIN h[sa].parts : rg[h[sa].parts[i]] < rg[<<d, k>>] BY <3>4, <3>5
    <3>. QED BY <1>2, <1>11, <3>1, <3>2, <3>4, <3>6 DEF Made
  <2>2. CASE k # 0
    <3>. DEFINE e == IF k = 1 /\ spec \in StructNames THEN structs[spec] ELSE <<d, k - 1>>
    <3>1. /\ g[<<d, k>>].type = "ARRAY" /\ g[<<d, k>>].parts = <<e>>
          /\ g[<<d, k>>].depth = k
      <4>1. g[<<d, k>>] = Symbol(n, "ARRAY", <<e>>, dims[Len(dims) + 1 - k], k, NoSymbol)
        BY <1>7, <2>2 DEF NewSymbol
      <4>. HIDE DEF e
      <4>. QED BY <4>1 DEF Symbol
    <3>2. k \in Nat /\ k >= 1 /\ rg[<<d, k>>] = m + 1 + k BY <1>7, <2>2
    <3>3. CASE k = 1 /\ spec \in StructNames
      <4>1. e = sa BY <1>1, <3>3
      <4>2. g[e].type = "STRUCT" /\ rg[e] \in 0..m
        BY <1>1, <1>2, <1>4, <1>5, <1>6, <3>3, <4>1 DEF Extends
      <4>. HIDE DEF e
      <4>. QED BY <1>4, <3>1, <3>2, <4>2 DEF Made
    <3>4. CASE ~ (k = 1 /\ spec \in StructNames)
      <4>1. k - 1 \in Levels(spec, dims)
        <5>1. k \in Nat /\ k >= 1 /\ k <= Len(dims) /\ Len(dims) \in Nat BY <1>3, <1>7, <2>2
        <5>2. dims # <<>> BY <5>1
        <5>. QED BY <3>4, <5>1, <5>2 DEF Levels
      <4>2. rg[e] = m + k BY <1>4, <1>7, <3>2, <3>4, <4>1
      <4>3. g[e].type = IF k = 1 THEN heap[sa].type ELSE "ARRAY" BY <1>10, <3>2, <3>4, <4>1
      <4>. HIDE DEF e
      <4>. QED BY <1>4, <1>11, <3>1, <3>2, <4>2, <4>3 DEF Made
    <3>. QED BY <3>3, <3>4
  <2>. QED BY <2>1, <2>2
<1>13. \A b \in DOMAIN h : Made(g, rg, b) BY <1>5, <1>6, MadeStays
<1>14. \A b \in DOMAIN g : Made(g, rg, b)
  <2>1. \A b \in new : \E k \in Levels(spec, dims) : b = <<d, k>> BY DEF new
  <2>. QED BY <1>5, <1>12, <1>13, <2>1
<1>15. Ranked(g, rg, m + 1 + Len(dims)) BY <1>3, <1>4, <1>8, <1>14 DEF Ranked
<1>16. \A k \in Levels(spec, dims) : g[<<d, k>>].type \notin {"FUNCTION", "UNKNOWN"}
  BY <1>10, <1>11
<1>. QED BY <1>15, <1>16 DEF g

(* A declaration adds ranked objects, and its own object has a type.       *)
LEMMA DeclaresRanked ==
  ASSUME AInv, Founded, NEW n \in Names, NEW spec \in Specifiers, NEW dims \in Seq(Nat),
         Declares(n, spec, dims), Accepted'
  PROVE  /\ \E rg, k : Ranked(heap', rg, k)
         /\ \A i \in DOMAIN pending'.parts :
              \/ i \in DOMAIN pending.parts /\ pending'.parts[i] = pending.parts[i]
              \/ heap'[pending'.parts[i]].type \notin {"FUNCTION", "UNKNOWN"}
<1>1. Known(spec) /\ Accepted BY DeclaredKnown
<1>2. PICK rk, m : Ranked(heap, rk, m) BY <1>1 DEF Founded
<1>3. IInv /\ TypeOK /\ GoodHeap(heap) /\ Extends(heap, heap) BY GoodIsTyped DEF AInv, IInv
<1>4. next \in Nat /\ \A k \in Nat : <<next, k>> \notin DOMAIN heap
  BY <1>3 DEF IInv, Fresh, Live, TypeOK
<1>5. Len(dims) \in Levels(spec, dims)
  <2>1. Len(dims) \in Nat /\ (dims # <<>> => Len(dims) >= 1) OBVIOUS
  <2>. QED BY <2>1 DEF Levels
<1>6. ASSUME NEW p \in Seq(Live), NEW a
      PROVE  \A i \in DOMAIN Append(p, a) :
               \/ i \in DOMAIN p /\ Append(p, a)[i] = p[i]
               \/ Append(p, a)[i] = a
  OBVIOUS
<1>7. pending \in [name: StructNames \cup FunctionNames \cup {NoSymbol},
                   parts: Seq(Live), list: BOOLEAN] BY <1>3 DEF TypeOK
<1>. DEFINE g == HeapWith(n, spec, dims)
            d == MemberNumber(n, spec, dims)
<1>8. GoodHeap(g) /\ Extends(heap, g) /\ DOMAIN g \subseteq Live \cup ({next} \X Nat)
      /\ (~ Allocates(n, spec, dims) => g = heap)
  <2>1. vars[n] # NoSymbol \/ ~ ArrayFails(spec, dims)
    BY DEF Declares, Declare, Member, Parameter
  <2>. QED BY <1>3, <2>1, InsertGood
<1>9. \E rg, k : Ranked(g, rg, k)
  <2>1. CASE Allocates(n, spec, dims)
    <3>1. g = Allocated(heap, n, spec, dims, next) BY <2>1 DEF HeapWith
    <3>. HIDE DEF g
    <3>. QED BY <1>1, <1>2, <1>3, <1>4, <3>1, AllocatedRanked
  <2>2. CASE ~ Allocates(n, spec, dims) BY <1>2, <1>8, <2>2
  <2>. QED BY <2>1, <2>2
<1>10. CASE Declare(n, spec, dims)
  <2>1. heap' = g /\ pending' = pending BY <1>10 DEF Declare
  <2>. HIDE DEF g
  <2>. QED BY <1>9, <2>1
<1>11. CASE Member(n, spec, dims) /\ ~ pending.list
  <2>1. heap' = g /\ pending' = pending BY <1>11 DEF Member
  <2>. HIDE DEF g
  <2>. QED BY <1>9, <2>1
<1>12. CASE Member(n, spec, dims) /\ pending.list
  <2>1. /\ heap' = Allocated(g, n, spec, dims, d)
        /\ pending' = [pending EXCEPT !.parts = Append(@, Top(d, dims))]
    BY <1>12 DEF Member
  <2>2. d \in Nat /\ (Allocates(n, spec, dims) => d = next + 1)
        /\ (~ Allocates(n, spec, dims) => d = next)
    BY <1>4 DEF MemberNumber
  <2>3. \A k \in Nat : <<d, k>> \notin DOMAIN g
    <3>1. \A a \in Live : a[1] < next BY <1>3 DEF IInv, Fresh
    <3>2. CASE Allocates(n, spec, dims) BY <1>4, <1>8, <2>2, <3>1, <3>2
    <3>3. CASE ~ Allocates(n, spec, dims) BY <1>4, <1>8, <2>2, <3>3
    <3>. QED BY <3>2, <3>3
  <2>4. pending'.parts = Append(pending.parts, Top(d, dims)) BY <1>7, <2>1
  <2>. HIDE DEF g, d
  <2>5. PICK rg, k : Ranked(g, rg, k) BY <1>9
  <2>6. /\ \E rh, j : Ranked(heap', rh, j)
        /\ \A k1 \in Levels(spec, dims) :
             heap'[<<d, k1>>].type \notin {"FUNCTION", "UNKNOWN"}
    BY <1>1, <1>8, <2>1, <2>2, <2>3, <2>5, AllocatedRanked
  <2>7. heap'[Top(d, dims)].type \notin {"FUNCTION", "UNKNOWN"} BY <1>5, <2>6 DEF Top
  <2>8. \A i \in DOMAIN pending'.parts :
          \/ i \in DOMAIN pending.parts /\ pending'.parts[i] = pending.parts[i]
          \/ pending'.parts[i] = Top(d, dims)
    BY <1>6, <1>7, <2>4
  <2>. QED BY <2>6, <2>7, <2>8
<1>13. CASE Parameter(n, spec, dims)
  <2>1. heap' = Allocated(heap, n, spec, dims, next) BY <1>1, <1>13 DEF Parameter
  <2>2. pending'.parts = Append(pending.parts, Top(next, dims))
    BY <1>1, <1>7, <1>13 DEF Parameter
  <2>3. /\ \E rh, j : Ranked(heap', rh, j)
        /\ \A k1 \in Levels(spec, dims) :
             heap'[<<next, k1>>].type \notin {"FUNCTION", "UNKNOWN"}
    BY <1>1, <1>2, <1>3, <1>4, <2>1, AllocatedRanked
  <2>4. heap'[Top(next, dims)].type \notin {"FUNCTION", "UNKNOWN"} BY <1>5, <2>3 DEF Top
  <2>5. \A i \in DOMAIN pending'.parts :
          \/ i \in DOMAIN pending.parts /\ pending'.parts[i] = pending.parts[i]
          \/ pending'.parts[i] = Top(next, dims)
    BY <1>6, <1>7, <2>2
  <2>. QED BY <2>3, <2>4, <2>5
<1>. QED BY <1>10, <1>11, <1>12, <1>13 DEF Declares

LEMMA ClosingRanked ==
  ASSUME AInv, Founded, Accepted, NEW t \in {"STRUCT", "FUNCTION"}, NEW n,
         at \in {"struct", "header"}
  PROVE  \E rg, k : Ranked(With(heap, <<next, 0>>, Symbol(n, t, pending.parts, 0, 0, NoSymbol)),
                          rg, k)
<1>. DEFINE s == Symbol(n, t, pending.parts, 0, 0, NoSymbol)
            a == <<next, 0>>
<1>1. PICK rk, m : Ranked(heap, rk, m) BY DEF Founded
<1>2. GoodHeap(heap) BY GoodIsTyped DEF AInv, IInv
<1>3. a \notin DOMAIN heap BY NextIsNew DEF AInv, Live
<1>4. /\ s.parts = pending.parts /\ s.type = t /\ s.ret = NoSymbol BY DEF Symbol
<1>5. pending.parts \in Seq(DOMAIN heap) BY DEF AInv, IInv, TypeOK, Live
<1>6. \A i \in DOMAIN pending.parts :
        heap[pending.parts[i]].type \notin {"FUNCTION", "UNKNOWN"}
  BY DEF Founded
<1>. HIDE DEF s, a
<1>7. \E rg, k : Ranked(With(heap, a, s), rg, k)
  BY <1>1, <1>2, <1>3, <1>4, <1>5, <1>6, WithRanked
<1>. QED BY <1>7 DEF a, s

(* A definition gives the function the type it returns.                    *)
LEMMA DefinitionRanked ==
  ASSUME AInv, Founded, NEW spec \in Specifiers, Definition(spec), Accepted'
  PROVE  \E rg, k : Ranked(heap', rg, k)
<1>. DEFINE x == <<next - 1, 0>>
            r == SpecAddress(spec)
<1>1. reports \in Nat /\ TypeOK BY DEF AInv, IInv, TypeOK
<1>2. Accepted /\ SpecErrors(spec) = {}
  <2>. DEFINE kinds == SpecErrors(spec) \cup If(defs[pending.name] # NoSymbol, 4)
  <2>1. Report(kinds) BY DEF Definition
  <2>. HIDE DEF kinds
  <2>2. Accepted /\ kinds = {} BY <1>1, <2>1, ReportAccepted
  <2>. QED BY <2>2 DEF kinds
<1>3. Known(spec) BY <1>2, SpecKnown
<1>4. r \in Live /\ heap[r].type # "FUNCTION"
  BY <1>2, <1>3, SpecObject, TypeNames
<1>5. PICK rk, m : Ranked(heap, rk, m) BY <1>2 DEF Founded
<1>6. x \in Live /\ heap[x].type = "FUNCTION" BY DEF AInv, IInv, HeaderMade, Definition
<1>7. heap' = [heap EXCEPT ![x].ret = r] BY DEF Definition
<1>8. heap \in [Live -> SymbolsOver(Live)] /\ GoodHeap(heap) BY <1>1, GoodIsTyped DEF TypeOK
<1>. HIDE DEF x, r
<1>. DEFINE rg == [rk EXCEPT ![x] = m + 1]
<1>9. m \in Nat /\ rk \in [Live -> 0..m] BY <1>5 DEF Ranked, Live
<1>10. DOMAIN heap' = Live /\ rg \in [Live -> 0..m + 1]
  <2>1. 0..m \subseteq 0..m + 1 /\ m + 1 \in 0..m + 1 BY <1>9
  <2>2. rk \in [Live -> 0..m + 1] BY <1>9, <2>1
  <2>. QED BY <1>7, <1>8, <2>1, <2>2
<1>11. /\ rg[x] = m + 1
       /\ \A b \in Live : b # x => rg[b] = rk[b] /\ heap'[b] = heap[b]
  BY <1>6, <1>7, <1>8, <1>9
<1>12. \A b \in Live : heap'[b].type = heap[b].type /\ heap'[b].parts = heap[b].parts
  <2>1. \A s \in SymbolsOver(Live) : /\ [s EXCEPT !.ret = r].type = s.type
                                     /\ [s EXCEPT !.ret = r].parts = s.parts
    BY DEF SymbolsOver
  <2>2. heap'[x] = [heap[x] EXCEPT !.ret = r] BY <1>6, <1>7, <1>8
  <2>. QED BY <1>6, <1>8, <1>11, <2>1, <2>2
<1>13. heap'[x].ret = r BY <1>6, <1>7, <1>8 DEF SymbolsOver
<1>. HIDE DEF rg
<1>14. ASSUME NEW b \in Live PROVE Made(heap', rg, b)
  <2>1. Made(heap, rk, b) BY <1>5 DEF Ranked, Live
  <2>2. \A i \in DOMAIN heap[b].parts : heap[b].parts[i] \in Live /\ heap[b].parts[i] # x
    BY <1>6, <1>8, <2>1, PartsLive DEF Made, Live
  <2>3. CASE b = x
    <3>1. rg[r] < rg[x] BY <1>4, <1>6, <1>9, <1>11
    <3>. QED BY <1>4, <1>6, <1>11, <1>12, <1>13, <2>1, <2>2, <2>3, <3>1 DEF Made
  <2>4. CASE b # x
    <3>1. heap[b].type = "FUNCTION" /\ heap[b].ret # NoSymbol =>
            heap[b].ret \in Live /\ heap[b].ret # x
      BY <1>6, <1>8, <2>1, PartsLive DEF Made, Live
    <3>2. heap[b].type = "ARRAY" => heap[b].parts[1] \in Live
      BY <1>8, PartsLive DEF Live
    <3>. QED BY <1>11, <1>12, <2>1, <2>2, <2>4, <3>1, <3>2 DEF Made
  <2>. QED BY <2>3, <2>4
<1>15. Ranked(heap', rg, m + 1) BY <1>9, <1>10, <1>14 DEF Ranked
<1>. QED BY <1>15

LEMMA FoundedStep ==
  ASSUME AInv, Founded, Next
  PROVE  Founded'
<1>. SUFFICES ASSUME Accepted'
              PROVE  /\ \E rk, m : Ranked(heap', rk, m)
                     /\ at' \in {"struct", "header", "declared"} =>
                          \A i \in DOMAIN pending'.parts :
                            heap'[pending'.parts[i]].type \notin {"FUNCTION", "UNKNOWN"}
                     /\ \A s \in StructNames :
                          structs'[s] # NoSymbol => heap'[structs'[s]].type = "STRUCT"
  BY DEF Founded
<1>1. Accepted /\ Same BY StaysAccepted, StepSame
<1>2. TypeOK /\ IInv /\ pending.parts \in Seq(Live) BY DEF AInv, IInv, TypeOK
<1>3. \A a \in Live : heap'[a].type = heap[a].type BY <1>1 DEF Same
<1>4. structs \in [StructNames -> Live \cup {NoSymbol}] BY <1>2 DEF TypeOK
<1>5. structs' = structs => \A s \in StructNames :
                              structs'[s] # NoSymbol => heap'[structs'[s]].type = "STRUCT"
  BY <1>1, <1>3, <1>4 DEF Founded
<1>6. /\ at \in {"struct", "header", "declared"} /\ pending' = pending
      => \A i \in DOMAIN pending'.parts :
            heap'[pending'.parts[i]].type \notin {"FUNCTION", "UNKNOWN"}
  BY <1>1, <1>2, <1>3 DEF Founded
<1>7. heap' = heap => \E rk, m : Ranked(heap', rk, m) BY <1>1 DEF Founded
<1>8. CASE Quiet \/ Crashing BY <1>5, <1>7, <1>8 DEF Quiet, Crashing
<1>9. ~ Losing BY <1>2 DEF Losing, Accepted, TypeOK
<1>10. ASSUME NEW n \in Names, NEW spec \in Specifiers, NEW dims \in Seq(Nat),
              Declares(n, spec, dims)
       PROVE  Founded'
  <2>1. /\ \E rg, k : Ranked(heap', rg, k)
        /\ \A i \in DOMAIN pending'.parts :
             \/ i \in DOMAIN pending.parts /\ pending'.parts[i] = pending.parts[i]
             \/ heap'[pending'.parts[i]].type \notin {"FUNCTION", "UNKNOWN"}
    BY <1>10, DeclaresRanked
  <2>2. structs' = structs /\ at' = at BY <1>10 DEF Declares, Declare, Member, Parameter, tables
  <2>3. ASSUME at \in {"struct", "header", "declared"}, NEW i \in DOMAIN pending'.parts
        PROVE  heap'[pending'.parts[i]].type \notin {"FUNCTION", "UNKNOWN"}
    <3>1. CASE i \in DOMAIN pending.parts /\ pending'.parts[i] = pending.parts[i]
      <4>1. pending.parts[i] \in Live BY <1>2, <3>1
      <4>. QED BY <1>1, <1>3, <2>3, <3>1, <4>1 DEF Founded
    <3>. QED BY <2>1, <3>1
  <2>. QED BY <1>5, <2>1, <2>2, <2>3 DEF Founded
<1>11. CASE (\E s \in StructNames : OpenStruct(s)) \/ (\E f \in FunctionNames : OpenHeader(f))
  <2>1. heap' = heap /\ structs' = structs /\ pending'.parts = <<>>
    BY <1>11 DEF OpenStruct, OpenHeader, tables
  <2>. QED BY <1>5, <1>7, <2>1
<1>12. CASE CloseStruct
  <2>. DEFINE s == Symbol(pending.name, "STRUCT", pending.parts, 0, 0, NoSymbol)
              a == <<next, 0>>
  <2>1. at = "struct" /\ at' = "file" BY <1>12 DEF CloseStruct
  <2>2. CASE ~ pending.list BY <1>5, <1>7, <1>12, <2>1, <2>2 DEF CloseStruct
  <2>3. CASE pending.list
    <3>1. heap' = With(heap, a, s) /\ structs' = [structs EXCEPT ![pending.name] = a]
      BY <1>12, <2>3 DEF CloseStruct
    <3>2. \E rk, m : Ranked(heap', rk, m) BY <1>1, <2>1, <3>1, ClosingRanked
    <3>3. s.type = "STRUCT" BY DEF Symbol
    <3>. HIDE DEF s, a
    <3>4. heap'[a].type = "STRUCT" BY <3>1, <3>3 DEF With
    <3>5. ASSUME NEW t \in StructNames, structs'[t] # NoSymbol
          PROVE  heap'[structs'[t]].type = "STRUCT"
      <4>1. structs'[t] = a \/ structs'[t] = structs[t] BY <1>4, <3>1
      <4>. QED BY <1>1, <1>3, <1>4, <3>4, <3>5, <4>1 DEF Founded
    <3>. QED BY <2>1, <3>2, <3>5
  <2>. QED BY <2>2, <2>3
<1>13. CASE FunctionHeader
  <2>1. /\ at = "header" /\ pending' = pending /\ structs' = structs
        /\ heap' = With(heap, <<next, 0>>,
                        Symbol(pending.name, "FUNCTION", pending.parts, 0, 0, NoSymbol))
    BY <1>13 DEF FunctionHeader
  <2>2. \E rk, m : Ranked(heap', rk, m) BY <1>1, <2>1, ClosingRanked
  <2>. QED BY <1>5, <1>6, <2>1, <2>2
<1>14. CASE \E spec \in Specifiers : Definition(spec)
  <2>1. structs' = structs /\ at' = "body" BY <1>14 DEF Definition
  <2>2. \E rk, m : Ranked(heap', rk, m) BY <1>14, DefinitionRanked
  <2>. QED BY <1>5, <2>1, <2>2
<1>. QED BY <1>8, <1>9, <1>10, <1>11, <1>12, <1>13, <1>14, Kinds DEF Founded

-----------------------------------------------------------------------------
(* The types of a function's parameters.                                   *)

ArgsSame(h, p, q) == Len(p) = Len(q) /\ \A i \in 1..Len(p) : Equivalent(h, p[i], q[i])

TypedParts(h, p) ==
  p \in Seq(DOMAIN h) /\ \A i \in DOMAIN p : h[p[i]].type \notin {"FUNCTION", "UNKNOWN"}

LEMMA ArgsByShape ==
  ASSUME NEW h, GoodHeap(h), NEW rk, NEW m, Ranked(h, rk, m),
         NEW p, NEW q, TypedParts(h, p), TypedParts(h, q)
  PROVE  ArgsSame(h, p, q)
           <=> Len(p) = Len(q) /\ \A i \in 1..Len(p) : Shape(h)[p[i]] = Shape(h)[q[i]]
<1>1. DOMAIN p = 1..Len(p) /\ DOMAIN q = 1..Len(q) BY DEF TypedParts
<1>2. /\ \A i \in DOMAIN p : Denotes(h, p[i])
      /\ \A i \in DOMAIN q : Denotes(h, q[i])
  BY DEF TypedParts, Denotes
<1>3. \A i \in DOMAIN p, j \in DOMAIN q : Structural(h, p[i], q[j])
  BY <1>2, EquivalentIsStructural
<1>. QED BY <1>1, <1>3 DEF ArgsSame, Structural

LEMMA ArgsReflexive ==
  ASSUME NEW h, GoodHeap(h), NEW rk, NEW m, Ranked(h, rk, m), NEW p, TypedParts(h, p)
  PROVE  ArgsSame(h, p, p)
BY ArgsByShape

LEMMA ArgsSymmetric ==
  ASSUME NEW h, GoodHeap(h), NEW rk, NEW m, Ranked(h, rk, m),
         NEW p, NEW q, TypedParts(h, p), TypedParts(h, q), ArgsSame(h, p, q)
  PROVE  ArgsSame(h, q, p)
<1>1. Len(p) = Len(q) /\ \A i \in 1..Len(p) : Shape(h)[p[i]] = Shape(h)[q[i]]
  BY ArgsByShape
<1>2. Len(q) = Len(p) /\ \A i \in 1..Len(q) : Shape(h)[q[i]] = Shape(h)[p[i]]
  BY <1>1
<1>. QED BY <1>2, ArgsByShape

LEMMA ArgsStay ==
  ASSUME NEW h, GoodHeap(h), NEW rk, NEW m, Ranked(h, rk, m),
         NEW g, GoodHeap(g), NEW rg, NEW k, Ranked(g, rg, k),
         DOMAIN h \subseteq DOMAIN g,
         \A a \in DOMAIN h : g[a].type = h[a].type /\ g[a].parts = h[a].parts,
         NEW p, NEW q, TypedParts(h, p), TypedParts(h, q), ArgsSame(h, p, q)
  PROVE  TypedParts(g, p) /\ TypedParts(g, q) /\ ArgsSame(g, p, q)
<1>1. /\ p \in Seq(DOMAIN h) /\ q \in Seq(DOMAIN h)
      /\ \A i \in DOMAIN p : h[p[i]].type \notin {"FUNCTION", "UNKNOWN"}
      /\ \A i \in DOMAIN q : h[q[i]].type \notin {"FUNCTION", "UNKNOWN"}
  BY DEF TypedParts
<1>2. /\ DOMAIN p = 1..Len(p) /\ DOMAIN q = 1..Len(q)
      /\ \A i \in DOMAIN p : p[i] \in DOMAIN h
      /\ \A i \in DOMAIN q : q[i] \in DOMAIN h
  BY <1>1
<1>3. p \in Seq(DOMAIN g) /\ q \in Seq(DOMAIN g) BY <1>1
<1>4. TypedParts(g, p) /\ TypedParts(g, q) BY <1>1, <1>2, <1>3 DEF TypedParts
<1>5. ASSUME NEW x \in DOMAIN h, h[x].type # "FUNCTION"
      PROVE  Shape(g)[x] = Shape(h)[x]
  BY <1>5, ShapesStay
<1>6. Len(p) = Len(q) /\ \A i \in 1..Len(p) : Shape(h)[p[i]] = Shape(h)[q[i]]
  BY ArgsByShape
<1>7. Len(p) = Len(q) /\ \A i \in 1..Len(p) : Shape(g)[p[i]] = Shape(g)[q[i]]
  BY <1>1, <1>2, <1>5, <1>6
<1>. QED BY <1>4, <1>7, ArgsByShape

SameParts(f, e) ==
  f # NoSymbol /\ e # NoSymbol => ArgsSame(heap, heap[f].parts, heap[e].parts)

(* A header that was accepted agrees with the declaration before it.       *)
HeaderAgrees ==
  Accepted /\ at = "declared" /\ decls[pending.name] # NoSymbol
    => ArgsSame(heap, heap[decls[pending.name]].parts, pending.parts)

(* The parts of any object can be compared.                                *)
LEMMA PartsTyped ==
  ASSUME NEW h, GoodHeap(h), NEW rk, NEW m, Ranked(h, rk, m), NEW a \in DOMAIN h
  PROVE  TypedParts(h, h[a].parts)
<1>1. Made(h, rk, a) BY DEF Ranked
<1>. QED BY <1>1, PartsLive DEF TypedParts, Made

LEMMA AgreeFormulas ==
  /\ DeclarationsAgree <=>
       (Accepted => \A f \in FunctionNames : SameParts(decls[f], defs[f]))
  /\ \A p, q : SameArgs(p, q) <=> ArgsSame(heap, p, q)
BY DEF DeclarationsAgree, SameParts, SameArgs, ArgsSame

(* A step that binds no function.                                          *)
LEMMA AgreeFrame ==
  ASSUME AInv, Founded, Founded', IInv', Next, Accepted',
         NEW p, NEW q, TypedParts(heap, p), TypedParts(heap, q), ArgsSame(heap, p, q)
  PROVE  ArgsSame(heap', p, q)
<1>1. Accepted /\ Same BY StaysAccepted, StepSame
<1>2. PICK rk, m : Ranked(heap, rk, m) BY <1>1 DEF Founded
<1>3. PICK rg, k : Ranked(heap', rg, k) BY DEF Founded
<1>4. GoodHeap(heap) BY GoodIsTyped DEF AInv, IInv
<1>5. GoodHeap(heap') BY DEF IInv, TypeOK, GoodHeap, Live
<1>6. /\ DOMAIN heap \subseteq DOMAIN heap'
      /\ \A a \in DOMAIN heap : heap'[a].type = heap[a].type /\ heap'[a].parts = heap[a].parts
  BY <1>1 DEF Same, Live
<1>. QED BY <1>2, <1>3, <1>4, <1>5, <1>6, ArgsStay

LEMMA SamePartsStay ==
  ASSUME AInv, Founded, Founded', IInv', Next, Accepted', DeclarationsAgree,
         NEW f \in FunctionNames, decls[f] # NoSymbol, defs[f] # NoSymbol
  PROVE  ArgsSame(heap', heap'[decls[f]].parts, heap'[defs[f]].parts)
<1>1. Accepted /\ Same BY StaysAccepted, StepSame
<1>2. decls[f] \in Live /\ defs[f] \in Live BY DEF AInv, IInv, TypeOK, Callees, Names
<1>3. ArgsSame(heap, heap[decls[f]].parts, heap[defs[f]].parts)
  BY <1>1, AgreeFormulas DEF SameParts
<1>4. PICK rk, m : Ranked(heap, rk, m) BY <1>1 DEF Founded
<1>5. GoodHeap(heap) BY GoodIsTyped DEF AInv, IInv
<1>6. TypedParts(heap, heap[decls[f]].parts) /\ TypedParts(heap, heap[defs[f]].parts)
  BY <1>2, <1>4, <1>5, PartsTyped DEF Live
<1>7. ArgsSame(heap', heap[decls[f]].parts, heap[defs[f]].parts) BY <1>3, <1>6, AgreeFrame
<1>. QED BY <1>1, <1>2, <1>7 DEF Same

LEMMA HeaderAgreeStep ==
  ASSUME AInv, Founded, Founded', IInv', FunctionHeader, Next, Accepted', DeclarationsAgree
  PROVE  DeclarationsAgree' /\ HeaderAgrees'
<1>. DEFINE f == pending.name
            p == pending.parts
            a == <<next, 0>>
            s == Symbol(f, "FUNCTION", p, 0, 0, NoSymbol)
<1>1. Accepted /\ Same BY StaysAccepted, StepSame
<1>2. IInv /\ TypeOK /\ reports \in Nat BY DEF AInv, IInv, TypeOK
<1>3. /\ at = "header" /\ pending' = pending /\ defs' = defs
      /\ heap' = With(heap, a, s) /\ Report(HeaderErrors)
      /\ decls' = IF pending.list /\ decls[f] = NoSymbol
                  THEN [decls EXCEPT ![f] = a] ELSE decls
  BY DEF FunctionHeader
<1>4. f \in FunctionNames /\ FunctionNames \subseteq Callees
  BY <1>2, <1>3 DEF TypeOK, Callees, Names
<1>5. /\ \A g \in FunctionNames : decls[g] # NoSymbol => decls[g] \in Live
      /\ \A g \in FunctionNames : defs[g] # NoSymbol => defs[g] \in Live
      /\ decls \in [Callees -> Live \cup {NoSymbol}]
  BY <1>2, <1>4 DEF TypeOK
<1>6. HeaderErrors = {}
  <2>1. Report(HeaderErrors) BY <1>3
  <2>. QED BY <1>2, <2>1, ReportAccepted
<1>7. ~ Mismatch(decls, f) /\ ~ Mismatch(defs, f)
  <2>1. If(Mismatch(decls, f) \/ Mismatch(defs, f), 18) = {} BY <1>6 DEF HeaderErrors
  <2>. QED BY <2>1 DEF If
<1>8. /\ decls[f] # NoSymbol => ArgsSame(heap, heap[decls[f]].parts, p)
      /\ defs[f] # NoSymbol => ArgsSame(heap, heap[defs[f]].parts, p)
  BY <1>7, AgreeFormulas DEF Mismatch
<1>9. PICK rk, m : Ranked(heap, rk, m) BY <1>1 DEF Founded
<1>10. PICK rg, k : Ranked(heap', rg, k) BY DEF Founded
<1>11. GoodHeap(heap) BY <1>2, GoodIsTyped
<1>12. GoodHeap(heap') BY DEF IInv, TypeOK, GoodHeap, Live
<1>13. TypedParts(heap, p) BY <1>1, <1>2, <1>3 DEF Founded, TypedParts, TypeOK, Live
<1>14. \A b \in Live : TypedParts(heap, heap[b].parts) BY <1>9, <1>11, PartsTyped DEF Live
<1>15. \A b \in Live : heap'[b].parts = heap[b].parts BY <1>1 DEF Same
<1>16. a \in DOMAIN heap' /\ heap'[a].parts = p /\ a \notin Live
  <2>1. s.parts = p BY DEF Symbol
  <2>2. a \notin Live BY <1>2, NextIsNew
  <2>. HIDE DEF s, a
  <2>. QED BY <1>3, <2>1, <2>2 DEF With
<1>17. TypedParts(heap', p) BY <1>10, <1>12, <1>16, PartsTyped
<1>18. ArgsSame(heap', p, p) BY <1>10, <1>12, <1>17, ArgsReflexive
<1>. HIDE DEF f, p, a, s
<1>19. ASSUME NEW g \in FunctionNames, decls'[g] # NoSymbol, defs'[g] # NoSymbol
       PROVE  ArgsSame(heap', heap'[decls'[g]].parts, heap'[defs'[g]].parts)
  <2>1. defs'[g] = defs[g] BY <1>3
  <2>2. CASE decls'[g] = decls[g] BY <1>19, <2>1, <2>2, SamePartsStay
  <2>3. CASE decls'[g] # decls[g]
    <3>1. g = f /\ decls'[g] = a BY <1>3, <1>4, <1>5, <2>3
    <3>2. defs[f] \in Live /\ ArgsSame(heap, heap[defs[f]].parts, p)
      BY <1>5, <1>8, <1>19, <2>1, <3>1
    <3>3. TypedParts(heap, heap[defs[f]].parts) BY <1>14, <3>2
    <3>4. ArgsSame(heap, p, heap[defs[f]].parts)
      BY <1>9, <1>11, <1>13, <3>2, <3>3, ArgsSymmetric
    <3>5. ArgsSame(heap', p, heap[defs[f]].parts) BY <1>13, <3>3, <3>4, AgreeFrame
    <3>. QED BY <1>15, <1>16, <2>1, <3>1, <3>2, <3>5
  <2>. QED BY <2>2, <2>3
<1>20. ASSUME decls'[f] # NoSymbol
       PROVE  ArgsSame(heap', heap'[decls'[f]].parts, p)
  <2>1. CASE decls[f] # NoSymbol
    <3>1. decls'[f] = decls[f] /\ decls[f] \in Live BY <1>3, <1>4, <1>5, <2>1
    <3>2. TypedParts(heap, heap[decls[f]].parts) BY <1>14, <3>1
    <3>3. ArgsSame(heap', heap[decls[f]].parts, p) BY <1>8, <1>13, <2>1, <3>2, AgreeFrame
    <3>. QED BY <1>15, <3>1, <3>3
  <2>2. CASE decls[f] = NoSymbol
    <3>1. decls'[f] = a BY <1>3, <1>4, <1>5, <1>20, <2>2
    <3>. QED BY <1>16, <1>18, <3>1
  <2>. QED BY <2>1, <2>2
<1>21. DeclarationsAgree'
  BY <1>19 DEF DeclarationsAgree, SameArgs, ArgsSame
<1>22. HeaderAgrees' BY <1>3, <1>20 DEF HeaderAgrees, f, p
<1>. QED BY <1>21, <1>22

LEMMA DefinitionAgreeStep ==
  ASSUME AInv, Founded, Founded', IInv', NEW spec \in Specifiers, Definition(spec), Next,
         Accepted', DeclarationsAgree, HeaderAgrees
  PROVE  DeclarationsAgree' /\ HeaderAgrees'
<1>. DEFINE f == pending.name
            p == pending.parts
            a == <<next - 1, 0>>
<1>1. Accepted /\ Same BY StaysAccepted, StepSame
<1>2. IInv /\ TypeOK /\ reports \in Nat BY DEF AInv, IInv, TypeOK
<1>3. /\ at = "declared" /\ at' = "body" /\ decls' = decls
      /\ defs' = IF defs[f] = NoSymbol THEN [defs EXCEPT ![f] = a] ELSE defs
  BY DEF Definition
<1>4. f \in FunctionNames /\ FunctionNames \subseteq Callees
  BY <1>2, <1>3 DEF TypeOK, Callees, Names
<1>5. /\ \A g \in FunctionNames : decls[g] # NoSymbol => decls[g] \in Live
      /\ defs \in [Callees -> Live \cup {NoSymbol}]
  BY <1>2, <1>4 DEF TypeOK
<1>6. PICK rk, m : Ranked(heap, rk, m) BY <1>1 DEF Founded
<1>7. GoodHeap(heap) BY <1>2, GoodIsTyped
<1>8. TypedParts(heap, p) BY <1>1, <1>2, <1>3 DEF Founded, TypedParts, TypeOK, Live
<1>9. \A b \in Live : TypedParts(heap, heap[b].parts) BY <1>6, <1>7, PartsTyped DEF Live
<1>10. \A b \in Live : heap'[b].parts = heap[b].parts BY <1>1 DEF Same
<1>11. a \in Live /\ heap[a].parts = p BY <1>2, <1>3 DEF IInv, HeaderMade, AInv, HeaderResolves
<1>12. decls[f] # NoSymbol => ArgsSame(heap, heap[decls[f]].parts, p)
  BY <1>1, <1>3 DEF HeaderAgrees
<1>. HIDE DEF f, p, a
<1>13. ASSUME NEW g \in FunctionNames, decls'[g] # NoSymbol, defs'[g] # NoSymbol
       PROVE  ArgsSame(heap', heap'[decls'[g]].parts, heap'[defs'[g]].parts)
  <2>1. decls'[g] = decls[g] BY <1>3
  <2>2. CASE defs'[g] = defs[g] BY <1>13, <2>1, <2>2, SamePartsStay
  <2>3. CASE defs'[g] # defs[g]
    <3>1. g = f /\ defs'[g] = a BY <1>3, <1>4, <1>5, <2>3
    <3>2. decls[f] \in Live /\ ArgsSame(heap, heap[decls[f]].parts, p)
      BY <1>5, <1>12, <1>13, <2>1, <3>1
    <3>3. TypedParts(heap, heap[decls[f]].parts) BY <1>9, <3>2
    <3>4. ArgsSame(heap', heap[decls[f]].parts, p) BY <1>8, <3>2, <3>3, AgreeFrame
    <3>. QED BY <1>10, <1>11, <2>1, <3>1, <3>2, <3>4
  <2>. QED BY <2>2, <2>3
<1>14. DeclarationsAgree'
  BY <1>13 DEF DeclarationsAgree, SameArgs, ArgsSame
<1>15. HeaderAgrees' BY <1>3 DEF HeaderAgrees
<1>. QED BY <1>14, <1>15

LEMMA AgreeStep ==
  ASSUME AInv, Founded, Founded', IInv', Next, DeclarationsAgree, HeaderAgrees
  PROVE  DeclarationsAgree' /\ HeaderAgrees'
<1>1. CASE ~ Accepted' BY <1>1 DEF DeclarationsAgree, HeaderAgrees
<1>. SUFFICES ASSUME Accepted' PROVE DeclarationsAgree' /\ HeaderAgrees' BY <1>1
<1>2. CASE FunctionHeader BY <1>2, HeaderAgreeStep
<1>3. CASE \E spec \in Specifiers : Definition(spec) BY <1>3, DefinitionAgreeStep
<1>4. ASSUME decls' = decls, defs' = defs, at' # "declared"
      PROVE  DeclarationsAgree' /\ HeaderAgrees'
  <2>1. ASSUME NEW g \in FunctionNames, decls'[g] # NoSymbol, defs'[g] # NoSymbol
        PROVE  ArgsSame(heap', heap'[decls'[g]].parts, heap'[defs'[g]].parts)
    BY <1>4, <2>1, SamePartsStay
  <2>. QED BY <1>4, <2>1 DEF DeclarationsAgree, HeaderAgrees, SameArgs, ArgsSame
<1>5. CASE Quiet \/ Crashing \/ Losing
  <2>1. decls' = decls /\ defs' = defs /\ at' # "declared" BY <1>5 DEF Quiet, Crashing, Losing
  <2>. QED BY <1>4, <2>1
<1>6. CASE \E n \in Names, spec \in Specifiers, dims \in Seq(Nat) : Declares(n, spec, dims)
  <2>1. decls' = decls /\ defs' = defs /\ at' # "declared"
    BY <1>6 DEF Declares, Declare, Member, Parameter, tables
  <2>. QED BY <1>4, <2>1
<1>7. CASE \/ (\E s \in StructNames : OpenStruct(s)) \/ CloseStruct
           \/ (\E f \in FunctionNames : OpenHeader(f))
  <2>1. decls' = decls /\ defs' = defs /\ at' # "declared"
    BY <1>7 DEF OpenStruct, CloseStruct, OpenHeader, tables
  <2>. QED BY <1>4, <2>1
<1>. QED BY <1>2, <1>3, <1>5, <1>6, <1>7, Kinds

-----------------------------------------------------------------------------

LEMMA FoundedInit == Init => Founded /\ DeclarationsAgree /\ HeaderAgrees
<1>. SUFFICES ASSUME Init PROVE Founded /\ DeclarationsAgree /\ HeaderAgrees OBVIOUS
<1>. DEFINE live == Temps \cup {<<1, 0>>, <<2, 0>>, <<3, 0>>}
<1>1. PICK wild \in Wilds : heap = [a \in live |-> Builtin(a, wild)] BY DEF Init
<1>2. /\ at = "file" /\ decls = [f \in Callees |-> NoSymbol]
      /\ structs = [s \in StructNames |-> NoSymbol]
  BY DEF Init
<1>3. \A a \in Temps : a # <<1, 0>> /\ a # <<2, 0>> /\ a # <<3, 0>> BY TempTypes
<1>4. \A a \in DOMAIN heap : a \in Temps \/ a = <<1, 0>> \/ a = <<2, 0>> \/ a = <<3, 0>>
  BY <1>1
<1>5. ASSUME NEW a \in Temps
      PROVE  /\ heap[a].type \in Scalars \cup {"UNKNOWN"} /\ heap[a].parts = <<>>
             /\ a \in DOMAIN heap
  <2>1. Builtin(a, wild) = Symbol("", TempType(a), <<>>, 0, 0, NoSymbol) BY <1>3 DEF Builtin
  <2>2. heap[a] = Symbol("", TempType(a), <<>>, 0, 0, NoSymbol) BY <1>1, <2>1
  <2>3. TempType(a) \in Scalars \cup {"UNKNOWN"}
    <3>1. \E t \in Scalars \cup {"UNKNOWN"} : Temp(t) = a BY DEF Temps
    <3>. QED BY <3>1 DEF TempType
  <2>4. ASSUME NEW t PROVE LET o == Symbol("", t, <<>>, 0, 0, NoSymbol)
                           IN o.type = t /\ o.parts = <<>>
    BY DEF Symbol
  <2>5. heap[a].type = TempType(a) /\ heap[a].parts = <<>> BY <2>2, <2>4
  <2>. QED BY <1>1, <2>3, <2>5
<1>6. /\ heap[<<1, 0>>] = Symbol("read", "FUNCTION", <<>>, 0, 0, Temp("INT"))
      /\ heap[<<2, 0>>] = Symbol("write", "FUNCTION", << <<3, 0>> >>, 0, 0, wild)
      /\ heap[<<3, 0>>] = Symbol("$1", "INT", <<>>, 0, 0, NoSymbol)
      /\ <<1, 0>> \in DOMAIN heap /\ <<2, 0>> \in DOMAIN heap /\ <<3, 0>> \in DOMAIN heap
  <2>1. Builtin(<<1, 0>>, wild) = Symbol("read", "FUNCTION", <<>>, 0, 0, Temp("INT"))
    BY DEF Builtin
  <2>2. Builtin(<<2, 0>>, wild) = Symbol("write", "FUNCTION", << <<3, 0>> >>, 0, 0, wild)
    BY DEF Builtin
  <2>3. Builtin(<<3, 0>>, wild) = Symbol("$1", "INT", <<>>, 0, 0, NoSymbol) BY DEF Builtin
  <2>4. <<1, 0>> \in live /\ <<2, 0>> \in live /\ <<3, 0>> \in live OBVIOUS
  <2>. HIDE DEF live
  <2>. QED BY <1>1, <2>1, <2>2, <2>3, <2>4
<1>. DEFINE rk == [a \in DOMAIN heap |-> IF a = <<1, 0>> \/ a = <<2, 0>> THEN 1 ELSE 0]
<1>7. rk \in [DOMAIN heap -> 0..1] OBVIOUS
<1>8. Temp("INT") \in Temps /\ (wild \in Temps \/ wild = NoSymbol)
  BY WildsAssumption, ConstantsAssumption DEF Temps
<1>9. \A a \in Temps : rk[a] = 0 BY <1>3, <1>5
<1>10. rk[<<1, 0>>] = 1 /\ rk[<<2, 0>>] = 1 BY <1>6
<1>. HIDE DEF rk
<1>11. ASSUME NEW a \in DOMAIN heap PROVE Made(heap, rk, a)
  <2>1. CASE a \in Temps
    <3>1. heap[a].type \notin {"FUNCTION", "ARRAY"} BY <1>5, <2>1, TypeNames
    <3>. QED BY <1>5, <2>1, <3>1 DEF Made
  <2>2. CASE a = <<1, 0>>
    <3>1. heap[Temp("INT")].type # "FUNCTION" /\ rk[Temp("INT")] = 0 BY <1>5, <1>8, <1>9, TypeNames
    <3>. QED BY <1>6, <1>10, <2>2, <3>1 DEF Made, Symbol
  <2>3. CASE a = <<2, 0>>
    <3>1. wild # NoSymbol => heap[wild].type # "FUNCTION" /\ rk[wild] = 0
      BY <1>5, <1>8, <1>9, TypeNames
    <3>2. heap[<<3, 0>>].type = "INT" BY <1>6 DEF Symbol
    <3>. QED BY <1>6, <1>10, <2>3, <3>1, <3>2 DEF Made, Symbol
  <2>4. CASE a = <<3, 0>> BY <1>6, <2>4 DEF Made, Symbol
  <2>. QED BY <1>4, <2>1, <2>2, <2>3, <2>4
<1>12. Ranked(heap, rk, 1) BY <1>7, <1>11 DEF Ranked
<1>13. Founded BY <1>2, <1>12 DEF Founded
<1>14. DeclarationsAgree BY <1>2 DEF DeclarationsAgree, Callees, Names
<1>15. HeaderAgrees BY <1>2 DEF HeaderAgrees
<1>. QED BY <1>13, <1>14, <1>15

LEMMA FoundedInductive == Spec => [](AInv /\ Founded /\ DeclarationsAgree /\ HeaderAgrees)
<1>. DEFINE I == Founded /\ DeclarationsAgree /\ HeaderAgrees
<1>1. AInv /\ AInv' /\ I /\ [Next]_state => I'
  <2>. SUFFICES ASSUME AInv, AInv', I, [Next]_state PROVE I' OBVIOUS
  <2>1. CASE Next
    <3>1. Founded' BY <2>1, FoundedStep
    <3>2. IInv' BY DEF AInv
    <3>. QED BY <2>1, <3>1, <3>2, AgreeStep
  <2>2. CASE UNCHANGED state
    <3>1. /\ heap' = heap /\ defs' = defs /\ decls' = decls /\ structs' = structs
          /\ at' = at /\ pending' = pending /\ reports' = reports
      BY <2>2 DEF state, tables
    <3>. QED BY <3>1 DEF Founded, DeclarationsAgree, HeaderAgrees, Accepted, SameArgs
  <2>. QED BY <2>1, <2>2
<1>2. Init => I BY FoundedInit
<1>. QED BY <1>1, <1>2, AcceptedInductive, PTL DEF Spec

(* In a file without a report, the four functions that compare types find  *)
(* two objects of the tables the same exactly when their shapes are: the   *)
(* walk along shared objects ends and forgets no level and no member.      *)
THEOREM ComparisonIsStructural == Spec => []EquivalenceIsStructural
<1>1. AInv /\ Founded => EquivalenceIsStructural
  <2>. SUFFICES ASSUME AInv, Founded, Accepted, NEW a \in Denoted, NEW b \in Denoted
                PROVE  Equivalent(heap, a, b) <=> Shape(heap)[a] = Shape(heap)[b]
    BY DEF EquivalenceIsStructural
  <2>1. PICK rk, m : Ranked(heap, rk, m) BY DEF Founded
  <2>2. GoodHeap(heap) BY GoodIsTyped DEF AInv, IInv
  <2>3. Denotes(heap, a) /\ Denotes(heap, b)
    BY DEF Denoted, Denotes, Wild, ExpType, TypeOf, Live
  <2>. QED BY <2>1, <2>2, <2>3, EquivalentIsStructural DEF Structural
<1>. QED BY <1>1, FoundedInductive, PTL

(* In a file without a report, a function's declaration and its definition *)
(* have parameters of the same types, whichever comes first and however    *)
(* often the function is declared.                                         *)
THEOREM HeadersAgree == Spec => []DeclarationsAgree
BY FoundedInductive, PTL
=============================================================================
