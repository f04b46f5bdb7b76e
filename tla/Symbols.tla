------------------------------- MODULE Symbols -------------------------------
(***************************************************************************)
(* The symbol table and the semantic checks of the front end: SymbolTable  *)
(* (SymbolTable.cpp), the functions of SemanticAnalyzer.cpp that insert    *)
(* and check, and the reductions of parser.y that call them.               *)
(*                                                                         *)
(* The checks run while the file is parsed: an action is a reduction.  The *)
(* four tables are flat, one scope for the whole file, and their entries   *)
(* are Symbol objects that names and expressions share: heap maps an       *)
(* address to the object, the other variables hold addresses.  The         *)
(* declaration number d owns the addresses <<d, k>>.  An object that no    *)
(* table refers to differs from others only in its type, so one address    *)
(* <<0, k>> stands for all of a type.                                      *)
(*                                                                         *)
(* Left out: the text and line of a message, and how often it is printed;  *)
(* declarations of several names at once (each name is one Def); structs   *)
(* defined inside a body, a struct or a parameter list; initializers of    *)
(* members; an array size below zero, which a hexadecimal constant above   *)
(* the largest int turns into; syntax errors.                              *)
(***************************************************************************)
EXTENDS Integers, Sequences

CONSTANTS
  VariableNames, FunctionNames,  \* what may be declared as the one or the other
  StructNames,  \* struct tags
  Scalars,      \* those of INT, FLOAT and CHAR that are used
  Declarations, \* name, specifier, and array sizes (<<>> for a plain name)
  Indices,      \* decimal integer constants
  IntMax,       \* the largest int; a number in the file may be larger
  MaxNumber,    \* bound on the declaration numbers
  MaxStack,     \* bound on the expressions on the parser's stack
  MaxReports,   \* bound on the reductions that report an error
  NoSymbol,     \* nullptr
  Wilds         \* what a pointer that is never set may be

Names == VariableNames \cup FunctionNames
Callees == Names \cup {"read", "write"}
Specifiers == Scalars \cup StructNames
Addresses == Nat \X Nat
SymbolTypes == Scalars \cup {"ARRAY", "STRUCT", "FUNCTION", "UNKNOWN"}

ASSUME ConstantsAssumption ==
  /\ Scalars \subseteq {"INT", "FLOAT", "CHAR"} /\ "INT" \in Scalars
  /\ StructNames \cap Scalars = {}
  /\ Names \cap {"read", "write"} = {}
  /\ Declarations \subseteq VariableNames \X Specifiers \X Seq(Nat)
  /\ Indices \subseteq Nat /\ IntMax \in Nat
  /\ NoSymbol \notin Addresses

VARIABLES
  heap,     \* address -> Symbol
  vars,     \* currentVariableTable
  defs,     \* currentFunctionDefinitionTable
  decls,    \* currentFunctionDeclarationTable
  structs,  \* currentStructDefinitionTable
  stack,    \* the Exp nodes on the parser's stack
  at,       \* where in the file the parser is; "crashed" or "out_of_range"
            \* if the process died of a null pointer or a wrong std::get, or
            \* of a number that is no int
  pending,  \* the struct or the function header that is being read
  next,     \* the number of the next declaration
  reports   \* how many reductions have reported an error

tables == <<vars, defs, decls, structs>>
state == <<heap, tables, stack, at, pending, next, reports>>

-----------------------------------------------------------------------------
(* Symbol objects.  parts are the element type of an array, the members of *)
(* a struct, the parameters of a function.                                 *)

Symbol(n, t, parts, size, depth, ret) ==
  [name |-> n, type |-> t, parts |-> parts, size |-> size, depth |-> depth, ret |-> ret]

(* The object of a constant, or of an expression that failed its check.    *)
Temp(t) ==
  CASE t = "INT" -> <<0, 1>> [] t = "FLOAT" -> <<0, 2>>
    [] t = "CHAR" -> <<0, 3>> [] OTHER -> <<0, 0>>

Temps == {Temp(t) : t \in Scalars \cup {"UNKNOWN"}}

ASSUME WildsAssumption == Wilds \subseteq Temps \cup {NoSymbol}

(* The symbol of a Specifier.  For a struct that is not in the table it is *)
(* the one the constructor of the tree node made.                          *)
SpecAddress(spec) ==
  IF spec \in Scalars THEN Temp(spec)
  ELSE IF structs[spec] = NoSymbol THEN Temp("UNKNOWN")
  ELSE structs[spec]

Known(spec) == heap[SpecAddress(spec)].type # "UNKNOWN"

(* Mutant of SpecErrors: the lookup of a struct fails silently.            *)
SpecErrorsMissed(spec) == {}

SpecErrors(spec) ==
  IF spec \in StructNames /\ structs[spec] = NoSymbol THEN {16} ELSE {}

(* changeMultiDimArrSize reads the base type, which is nullptr for an      *)
(* array of what has no type.                                              *)
NullBase(spec, dims) == dims # <<>> /\ ~ Known(spec)

(* getMultiDimArrBaseSymbol and getArrSymbol put every size through        *)
(* std::stoi, which throws, before changeMultiDimArrSize comes to it.      *)
TooLarge(dims) == \E i \in 1..Len(dims) : dims[i] > IntMax

ArrayFails(spec, dims) == NullBase(spec, dims) \/ TooLarge(dims)
ArrayFailure(dims) == IF TooLarge(dims) THEN "out_of_range" ELSE "crashed"

(* Mutant of Levels: the innermost element type is not created.            *)
LevelsWithoutBase(spec, dims) == (IF dims # <<>> THEN 1 ELSE 0)..Len(dims)

(* The objects of declaration d, one for each level of an array from the   *)
(* innermost; level 0 is the element type, or the object of a plain name.  *)
(* The elements of an array of structs are the struct's own object.        *)
Levels(spec, dims) ==
  (IF dims # <<>> /\ spec \in StructNames THEN 1 ELSE 0)..Len(dims)

NewSymbol(n, spec, dims, d, k) ==
  IF k = 0 THEN [heap[SpecAddress(spec)] EXCEPT !.name = n]
  ELSE LET element == IF k = 1 /\ spec \in StructNames THEN structs[spec] ELSE <<d, k - 1>>
       IN Symbol(n, "ARRAY", <<element>>, dims[Len(dims) + 1 - k], k, NoSymbol)

(* h with them, and h with one object more.                                *)
Allocated(h, n, spec, dims, d) ==
  [a \in DOMAIN h \cup ({d} \X Levels(spec, dims)) |->
     IF a \in DOMAIN h THEN h[a] ELSE NewSymbol(n, spec, dims, d, a[2])]

With(h, a, s) == [b \in DOMAIN h \cup {a} |-> IF b = a THEN s ELSE h[b]]

Top(d, dims) == <<d, Len(dims)>>

-----------------------------------------------------------------------------
(* Mutant of SameMembers: members the other struct does not have are passed*)
(* over.                                                                   *)
SameMembersOfShorter(same, left, right) ==
  \A i \in DOMAIN left \cap DOMAIN right : same[<<left[i], right[i]>>]

(* checkStructEquivelence.                                                 *)
SameMembers(same, left, right) ==
  Len(left) = Len(right) /\ \A i \in 1..Len(left) : same[<<left[i], right[i]>>]

(* ifTypeEquiveLence, with checkArrayEquivelence; a function stands for    *)
(* what it returns.                                                        *)
Equivalent(h, left, right) ==
  LET same[p \in (DOMAIN h) \X (DOMAIN h)] ==
        LET l == h[p[1]] r == h[p[2]]
        IN IF r.type = "FUNCTION" THEN r.ret # NoSymbol /\ same[<<p[1], r.ret>>]
           ELSE IF l.type = "FUNCTION" THEN l.ret # NoSymbol /\ same[<<l.ret, p[2]>>]
           ELSE /\ l.type = r.type
                /\ \/ l.type \in Scalars
                   \/ /\ l.type = "ARRAY"
                      /\ h[l.parts[1]].type = h[r.parts[1]].type
                      /\ IF h[l.parts[1]].type \in {"ARRAY", "STRUCT"}
                         THEN same[<<l.parts[1], r.parts[1]>>]
                         ELSE l.depth = r.depth
                   \/ l.type = "STRUCT" /\ SameMembers(same, l.parts, r.parts)
  IN same[<<left, right>>]

(* checkFunctionArgsType, and checkArgsType once the numbers agree.        *)
SameArgs(expected, actual) ==
  /\ Len(expected) = Len(actual)
  /\ \A i \in 1..Len(expected) : Equivalent(heap, expected[i], actual[i])

-----------------------------------------------------------------------------
(* Declarations.                                                           *)

NothingPending == [name |-> NoSymbol, parts |-> <<>>, list |-> FALSE]

TempType(a) == CHOOSE t \in Scalars \cup {"UNKNOWN"} : Temp(t) = a

(* initFunction.  The returnType of write is never set.                    *)
Builtin(a, wild) ==
  CASE a = <<1, 0>> -> Symbol("read", "FUNCTION", <<>>, 0, 0, Temp("INT"))
    [] a = <<2, 0>> -> Symbol("write", "FUNCTION", << <<3, 0>> >>, 0, 0, wild)
    [] a = <<3, 0>> -> Symbol("$1", "INT", <<>>, 0, 0, NoSymbol)
    [] OTHER -> Symbol("", TempType(a), <<>>, 0, 0, NoSymbol)

Init ==
  /\ \E wild \in Wilds :
       heap = [a \in Temps \cup {<<1, 0>>, <<2, 0>>, <<3, 0>>} |-> Builtin(a, wild)]
  /\ vars = [n \in Names |-> NoSymbol]
  /\ defs = [f \in Callees |-> CASE f = "read" -> <<1, 0>> [] f = "write" -> <<2, 0>>
                                 [] OTHER -> NoSymbol]
  /\ decls = [f \in Callees |-> NoSymbol]
  /\ structs = [s \in StructNames |-> NoSymbol]
  /\ stack = <<>>
  /\ at = "file"
  /\ pending = NothingPending
  /\ next = 4
  /\ reports = 0

If(condition, kind) == IF condition THEN {kind} ELSE {}

(* A reduction reports these kinds of error.                               *)
Report(kinds) ==
  /\ reports' = IF kinds = {} THEN reports ELSE reports + 1
  /\ reports' <= MaxReports

(* The process dies, after it has reported these.                          *)
Crash(outcome, kinds) ==
  /\ at' = outcome
  /\ Report(kinds)
  /\ UNCHANGED <<heap, tables, stack, pending, next>>

(* k numbers are used up; they are bounded.                                *)
Take(k) == next' = next + k /\ next' <= MaxNumber

(* insertPrimarySymbol and insertExtPrimarySymbol for one name: nothing    *)
(* for an unknown type, and a plain struct variable is the struct's object.*)
Inserts(n, spec) == vars[n] = NoSymbol /\ Known(spec)

Shares(spec, dims) == dims = <<>> /\ spec \in StructNames

Allocates(n, spec, dims) == Inserts(n, spec) /\ ~ Shares(spec, dims)

HeapWith(n, spec, dims) ==
  IF Allocates(n, spec, dims) THEN Allocated(heap, n, spec, dims, next) ELSE heap

(* Mutant of Insert: a redefinition is ignored.                            *)
InsertQuietly(n, spec, dims) ==
  /\ vars' = IF ~ Inserts(n, spec) THEN vars
             ELSE [vars EXCEPT ![n] = IF Shares(spec, dims) THEN structs[spec]
                                      ELSE Top(next, dims)]
  /\ Report(SpecErrors(spec))

Insert(n, spec, dims) ==
  /\ vars' = IF ~ Inserts(n, spec) THEN vars
             ELSE [vars EXCEPT ![n] = IF Shares(spec, dims) THEN structs[spec]
                                      ELSE Top(next, dims)]
  /\ Report(SpecErrors(spec) \cup If(vars[n] # NoSymbol, 3))

(* ExtDef, and Def in a body.  An initializer is not looked at.            *)
Declare(n, spec, dims) ==
  /\ at \in {"file", "body"} /\ Len(stack) <= 1
  /\ vars[n] # NoSymbol \/ ~ ArrayFails(spec, dims)
  /\ Insert(n, spec, dims)
  /\ heap' = HeapWith(n, spec, dims)
  /\ stack' = <<>>
  /\ Take(IF Allocates(n, spec, dims) THEN 1 ELSE 0)
  /\ UNCHANGED <<defs, decls, structs, at, pending>>

DeclareCrashes(n, spec, dims) ==
  /\ at \in {"file", "body"} /\ Len(stack) <= 1
  /\ vars[n] = NoSymbol /\ ArrayFails(spec, dims)
  /\ Crash(ArrayFailure(dims), SpecErrors(spec))

(* STRUCT ID LC.  The members of a struct that is known are not collected. *)
OpenStruct(s) ==
  /\ at = "file"
  /\ at' = "struct"
  /\ pending' = [name |-> s, parts |-> <<>>, list |-> structs[s] = NoSymbol]
  /\ UNCHANGED <<heap, tables, stack, next, reports>>

MemberNumber(n, spec, dims) == IF Allocates(n, spec, dims) THEN next + 1 ELSE next

(* Def in a struct.  insertPrimarySymbol makes it a variable, and one turn *)
(* of the loops of insertStructDefinitionSymbol makes it a member.         *)
Member(n, spec, dims) ==
  /\ at = "struct"
  /\ ~ ArrayFails(spec, dims) \/ (vars[n] # NoSymbol /\ ~ pending.list)
  /\ Insert(n, spec, dims)
  /\ heap' = IF pending.list
             THEN Allocated(HeapWith(n, spec, dims), n, spec, dims, MemberNumber(n, spec, dims))
             ELSE HeapWith(n, spec, dims)
  /\ pending' = IF pending.list
                THEN [pending EXCEPT !.parts =
                        Append(@, Top(MemberNumber(n, spec, dims), dims))]
                ELSE pending
  /\ Take(MemberNumber(n, spec, dims) - next + IF pending.list THEN 1 ELSE 0)
  /\ UNCHANGED <<defs, decls, structs, stack, at>>

MemberCrashes(n, spec, dims) ==
  /\ at = "struct"
  /\ ArrayFails(spec, dims) /\ (vars[n] = NoSymbol \/ pending.list)
  /\ Crash(ArrayFailure(dims), SpecErrors(spec) \cup If(vars[n] # NoSymbol, 3))

(* StructSpecifier: insertStructDefinitionSymbol.                          *)
CloseStruct ==
  /\ at = "struct"
  /\ at' = "file"
  /\ heap' = IF pending.list
             THEN With(heap, <<next, 0>>,
                       Symbol(pending.name, "STRUCT", pending.parts, 0, 0, NoSymbol))
             ELSE heap
  /\ structs' = IF pending.list THEN [structs EXCEPT ![pending.name] = <<next, 0>>] ELSE structs
  /\ Report(If(~ pending.list, 15))
  /\ Take(IF pending.list THEN 1 ELSE 0)
  /\ pending' = NothingPending
  /\ UNCHANGED <<vars, defs, decls, stack>>

-----------------------------------------------------------------------------
(* Functions.                                                              *)

OpenHeader(f) ==
  /\ at = "file"
  /\ at' = "header"
  /\ pending' = [name |-> f, parts |-> <<>>, list |-> FALSE]
  /\ UNCHANGED <<heap, tables, stack, next, reports>>

(* One turn of insertVarListToFunctionType.                                *)
Parameter(n, spec, dims) ==
  /\ at = "header"
  /\ ~ ArrayFails(spec, dims)
  /\ pending' = [pending EXCEPT !.list = TRUE,
                   !.parts = IF Known(spec) THEN Append(@, Top(next, dims)) ELSE @]
  /\ heap' = IF Known(spec) THEN Allocated(heap, n, spec, dims, next) ELSE heap
  /\ Report(SpecErrors(spec) \cup If(~ Known(spec), 21))
  /\ Take(IF Known(spec) THEN 1 ELSE 0)
  /\ UNCHANGED <<tables, stack, at>>

ParameterCrashes(n, spec, dims) ==
  /\ at = "header"
  /\ ArrayFails(spec, dims)
  /\ Crash(ArrayFailure(dims), SpecErrors(spec))

ParameterNames == [i \in DOMAIN pending.parts |-> heap[pending.parts[i]].name]

IsFirst(i, n) == ParameterNames[i] = n /\ \A j \in 1..(i - 1) : ParameterNames[j] # n

FirstParameter(n) == CHOOSE i \in DOMAIN pending.parts : IsFirst(i, n)

(* Mutant of WithParameters: a parameter replaces a variable.              *)
WithParametersFirst ==
  [n \in Names |->
     IF \E i \in DOMAIN pending.parts : IsFirst(i, n)
     THEN pending.parts[FirstParameter(n)] ELSE vars[n]]

(* insertVarListToSymbolTable: parameters are variables like any other.    *)
WithParameters ==
  [n \in Names |->
     IF vars[n] = NoSymbol /\ \E i \in DOMAIN pending.parts : IsFirst(i, n)
     THEN pending.parts[FirstParameter(n)] ELSE vars[n]]

(* Mutant of RedefinesParameter: only the other parameters are looked at.  *)
RepeatsParameter ==
  \E i \in DOMAIN pending.parts :
    \E j \in 1..(i - 1) : ParameterNames[j] = ParameterNames[i]

RedefinesParameter ==
  \E i \in DOMAIN pending.parts :
    \/ vars[ParameterNames[i]] # NoSymbol
    \/ \E j \in 1..(i - 1) : ParameterNames[j] = ParameterNames[i]

(* Mutant of Mismatch: the numbers of parameters are compared, no types.   *)
MismatchOfLengths(table, f) ==
  table[f] # NoSymbol /\ Len(heap[table[f]].parts) # Len(pending.parts)

Mismatch(table, f) ==
  table[f] # NoSymbol /\ ~ SameArgs(heap[table[f]].parts, pending.parts)

HeaderErrors ==
  If(RedefinesParameter, 3) \cup
  If(Mismatch(decls, pending.name) \/ Mismatch(defs, pending.name), 18)

(* FunDec: insertFunctionSymbol(false), whether a declaration or a         *)
(* definition follows.  Without parameters nothing is entered.             *)
FunctionHeader ==
  /\ at = "header"
  /\ at' = "declared"
  /\ heap' = With(heap, <<next, 0>>,
                  Symbol(pending.name, "FUNCTION", pending.parts, 0, 0, NoSymbol))
  /\ vars' = WithParameters
  /\ decls' = IF pending.list /\ decls[pending.name] = NoSymbol
              THEN [decls EXCEPT ![pending.name] = <<next, 0>>] ELSE decls
  /\ Report(HeaderErrors)
  /\ Take(1)
  /\ UNCHANGED <<defs, structs, stack, pending>>

(* ExtDef: Specifier FunDec SEMI.                                          *)
Declaration(spec) ==
  /\ at = "declared"
  /\ at' = "file"
  /\ Report(SpecErrors(spec))
  /\ pending' = NothingPending
  /\ UNCHANGED <<heap, tables, stack, next>>

(* Specifier_FunDec: insertFunctionSymbol(true), assignFunctionReturnType. *)
Definition(spec) ==
  /\ at = "declared"
  /\ at' = "body"
  /\ defs' = IF defs[pending.name] = NoSymbol
             THEN [defs EXCEPT ![pending.name] = <<next - 1, 0>>] ELSE defs
  /\ heap' = [heap EXCEPT ![<<next - 1, 0>>].ret = SpecAddress(spec)]
  /\ Report(SpecErrors(spec) \cup If(defs[pending.name] # NoSymbol, 4))
  /\ pending' = NothingPending
  /\ UNCHANGED <<vars, decls, structs, stack, next>>

EndFunction ==
  /\ at = "body" /\ stack = <<>>
  /\ at' = "file"
  /\ UNCHANGED <<heap, tables, stack, pending, next, reports>>

-----------------------------------------------------------------------------
(* Expressions.  A node has the symbol, whether it is a constant alone     *)
(* (checkrValue), and the number it is if it is an integer constant alone. *)

NoIndex == -1
Exp(a) == [sym |-> a, constant |-> FALSE, index |-> NoIndex]
Failed == Exp(Temp("UNKNOWN"))

Nth(k) == stack[Len(stack) + 1 - k].sym
TypeOf(a) == heap[a].type

(* The reduction of k nodes to e.                                          *)
Reduce(k, e) ==
  /\ at = "body" /\ k <= Len(stack)
  /\ stack' = Append(SubSeq(stack, 1, Len(stack) - k), e)
  /\ Len(stack') <= MaxStack
  /\ UNCHANGED <<tables, at, pending, next>>

IntConstant(v) ==
  /\ Reduce(0, [sym |-> Temp("INT"), constant |-> TRUE, index |-> v])
  /\ UNCHANGED <<heap, reports>>

OtherConstant(t) ==
  /\ Reduce(0, [sym |-> Temp(t), constant |-> TRUE, index |-> NoIndex])
  /\ UNCHANGED <<heap, reports>>

(* Exp: ID, getVariableSymbol.                                             *)
Variable(n) ==
  /\ Reduce(0, IF vars[n] = NoSymbol THEN Failed ELSE Exp(vars[n]))
  /\ Report(If(vars[n] = NoSymbol, 1))
  /\ UNCHANGED heap

(* LP Exp RP, MINUS Exp and NOT Exp.                                       *)
Wrap ==
  /\ Len(stack) >= 1 /\ Reduce(1, Exp(Nth(1)))
  /\ UNCHANGED <<heap, reports>>

(* AND, OR, the comparisons, MINUS, MUL and DIV: no check.                 *)
Operator ==
  /\ Len(stack) >= 2 /\ Reduce(2, Exp(Nth(2)))
  /\ UNCHANGED <<heap, reports>>

(* The type of an expression; the one of a call is read through returnType.*)
ExpType(a) == IF TypeOf(a) = "FUNCTION" THEN TypeOf(heap[a].ret) ELSE TypeOf(a)

Wild(a) == TypeOf(a) = "FUNCTION" /\ heap[a].ret = NoSymbol

(* PLUS: checkBinaryOperator.  The symbol it changes is the left operand's.*)
Addable(l, r) == ExpType(l) = ExpType(r) /\ ExpType(l) \in {"INT", "FLOAT"}

(* Mutant of Plus: the type is taken away without a report.                *)
PlusUnreported ==
  /\ Len(stack) >= 2 /\ ~ Wild(Nth(1)) /\ ~ Wild(Nth(2))
  /\ UNCHANGED reports
  /\ IF Addable(Nth(2), Nth(1)) THEN Reduce(2, Exp(Nth(2))) /\ UNCHANGED heap
     ELSE IF Nth(2) \in Temps THEN Reduce(2, Failed) /\ UNCHANGED heap
          ELSE Reduce(2, Exp(Nth(2))) /\ heap' = [heap EXCEPT ![Nth(2)].type = "UNKNOWN"]

Plus ==
  /\ Len(stack) >= 2 /\ ~ Wild(Nth(1)) /\ ~ Wild(Nth(2))
  /\ IF Addable(Nth(2), Nth(1)) THEN Reduce(2, Exp(Nth(2))) /\ UNCHANGED <<heap, reports>>
     ELSE /\ Report({7})
          /\ IF Nth(2) \in Temps THEN Reduce(2, Failed) /\ UNCHANGED heap
             ELSE Reduce(2, Exp(Nth(2))) /\ heap' = [heap EXCEPT ![Nth(2)].type = "UNKNOWN"]

(* ASSIGN: checkAssignDataType and checkrValue.                            *)
Assignable(l, r) ==
  /\ ExpType(l) = ExpType(r)
  /\ TypeOf(l) \in {"STRUCT", "ARRAY"} => Equivalent(heap, l, r)

(* std::get on the symbol of a call throws.                                *)
BadGet(l, r) ==
  /\ TypeOf(l) \in {"STRUCT", "ARRAY"} /\ TypeOf(r) = "FUNCTION" /\ ~ Wild(r)
  /\ ExpType(l) = ExpType(r)

Assign ==
  /\ Len(stack) >= 2 /\ ~ Wild(Nth(1)) /\ ~ Wild(Nth(2)) /\ ~ BadGet(Nth(2), Nth(1))
  /\ Reduce(2, Exp(Nth(2)))
  /\ Report(If(~ Assignable(Nth(2), Nth(1)), 5) \cup If(stack[Len(stack) - 1].constant, 6))
  /\ UNCHANGED heap

OperandCrashes ==
  /\ at = "body" /\ Len(stack) >= 2
  /\ Wild(Nth(1)) \/ Wild(Nth(2)) \/ BadGet(Nth(2), Nth(1))
  /\ Crash("crashed", {})

(* An array's index that is a constant alone goes through std::stoi, too.  *)
IndexTooLarge ==
  /\ TypeOf(Nth(2)) = "ARRAY" /\ TypeOf(Nth(1)) = "INT"
  /\ stack[Len(stack)].index > IntMax

(* Exp LB Exp RB: checkAndUpdateExpArray and checkIndexTypeAndRange.       *)
Index ==
  /\ Len(stack) >= 2 /\ ~ IndexTooLarge
  /\ LET array == heap[Nth(2)]
         index == stack[Len(stack)].index
     IN IF array.type # "ARRAY" THEN Reduce(2, Failed) /\ Report({10})
        ELSE IF TypeOf(Nth(1)) # "INT" THEN Reduce(2, Failed) /\ Report({12})
        ELSE Reduce(2, Exp(array.parts[1])) /\ Report(If(index >= array.size, 17))
  /\ UNCHANGED heap

IndexCrashes ==
  /\ at = "body" /\ Len(stack) >= 2 /\ IndexTooLarge
  /\ Crash("out_of_range", {})

(* Exp DOT ID: checkDotOperator.                                           *)
Dot(n) ==
  /\ Len(stack) >= 1
  /\ LET members == heap[Nth(1)].parts
         named == {i \in DOMAIN members : heap[members[i]].name = n}
     IN IF TypeOf(Nth(1)) # "STRUCT" THEN Reduce(1, Failed) /\ Report({13})
        ELSE IF named = {} THEN Reduce(1, Failed) /\ Report({14})
        ELSE \E i \in named : /\ \A j \in named : i <= j
                              /\ Reduce(1, Exp(members[i])) /\ Report({})
  /\ UNCHANGED heap

(* The last k nodes, as arguments.                                         *)
Arguments(k) == [i \in 1..k |-> stack[Len(stack) - k + i].sym]

WildArgument(f, k) ==
  /\ defs[f] # NoSymbol /\ Len(heap[defs[f]].parts) = k
  /\ \E i \in 1..k : /\ Wild(Arguments(k)[i])
                     /\ \A j \in 1..(i - 1) :
                          Equivalent(heap, heap[defs[f]].parts[j], Arguments(k)[j])

(* ID LP Args RP and ID LP RP: getFunctionSymbol looks for a definition.   *)
Call(f, k) ==
  /\ k <= Len(stack) /\ ~ WildArgument(f, k)
  /\ IF defs[f] = NoSymbol
     THEN Reduce(k, Failed) /\ Report({IF f \in Names /\ vars[f] # NoSymbol THEN 11 ELSE 2})
     ELSE /\ Reduce(k, Exp(defs[f]))
          /\ Report(If(~ SameArgs(heap[defs[f]].parts, Arguments(k)), 9))
  /\ UNCHANGED heap

CallCrashes(f, k) ==
  /\ at = "body" /\ k <= Len(stack) /\ WildArgument(f, k)
  /\ Crash("crashed", {})

(* The expression is the whole of a statement, or its condition.           *)
EndStatement ==
  /\ at = "body" /\ Len(stack) = 1
  /\ stack' = <<>>
  /\ UNCHANGED <<heap, tables, at, pending, next, reports>>

Next ==
  \/ \E d \in Declarations :
       \/ Declare(d[1], d[2], d[3]) \/ DeclareCrashes(d[1], d[2], d[3])
       \/ Member(d[1], d[2], d[3]) \/ MemberCrashes(d[1], d[2], d[3])
       \/ Parameter(d[1], d[2], d[3]) \/ ParameterCrashes(d[1], d[2], d[3])
  \/ \E s \in StructNames : OpenStruct(s)
  \/ CloseStruct
  \/ \E f \in FunctionNames : OpenHeader(f)
  \/ FunctionHeader
  \/ \E spec \in Specifiers : Declaration(spec) \/ Definition(spec)
  \/ EndFunction
  \/ \E v \in Indices : IntConstant(v)
  \/ \E t \in Scalars \ {"INT"} : OtherConstant(t)
  \/ \E n \in VariableNames : Variable(n) \/ Dot(n)
  \/ Wrap \/ Operator \/ Plus \/ Assign \/ OperandCrashes \/ Index \/ IndexCrashes
  \/ \E f \in Callees, k \in 0..MaxStack : Call(f, k) \/ CallCrashes(f, k)
  \/ EndStatement

Spec == Init /\ [][Next]_state

-----------------------------------------------------------------------------
(* Every variable has its type, and no address dangles: what a table, an   *)
(* expression or another object refers to is in the heap.                  *)
Live == DOMAIN heap

SymbolsOver(live) ==
  {s \in [name: Names \cup StructNames \cup {"", "$1", "read", "write"}, type: SymbolTypes,
          parts: Seq(live), size: Nat, depth: Nat, ret: live \cup {NoSymbol}] :
     s.type = "ARRAY" => s.parts # <<>>}

Exps(live) == [sym: live, constant: BOOLEAN, index: Indices \cup {NoIndex}]

TypeOK ==
  /\ Temps \subseteq Live /\ Live \subseteq Addresses
  /\ heap \in [Live -> SymbolsOver(Live)]
  /\ vars \in [Names -> Live \cup {NoSymbol}]
  /\ defs \in [Callees -> Live \cup {NoSymbol}]
  /\ decls \in [Callees -> Live \cup {NoSymbol}]
  /\ structs \in [StructNames -> Live \cup {NoSymbol}]
  /\ stack \in Seq(Exps(Live))
  /\ at \in {"file", "struct", "header", "declared", "body", "crashed", "out_of_range"}
  /\ pending \in [name: StructNames \cup FunctionNames \cup {NoSymbol},
                 parts: Seq(Live), list: BOOLEAN]
  /\ at = "struct" => pending.name \in StructNames
  /\ at \in {"header", "declared"} => pending.name \in FunctionNames
  /\ next \in Nat
  /\ reports \in Nat

Accepted == reports = 0

(* ifTypeEquiveLence, over the tables' objects, is equality of the types   *)
(* they spell out: names and array sizes do not count, the number and the  *)
(* types of members and the nesting of arrays do, and a function counts as *)
(* what it returns.                                                        *)
Shape(h) ==
  LET shape[a \in DOMAIN h] ==
        LET s == h[a]
        IN CASE s.type = "ARRAY" -> <<"ARRAY", shape[s.parts[1]]>>
             [] s.type = "STRUCT" -> <<"STRUCT">> \o [i \in DOMAIN s.parts |-> shape[s.parts[i]]]
             [] s.type = "FUNCTION" /\ s.ret # NoSymbol -> shape[s.ret]
             [] OTHER -> <<s.type>>
  IN shape

(* What has a type, and so a shape; a call has the one of its value.       *)
Denoted == {a \in Live : ~ Wild(a) /\ ExpType(a) # "UNKNOWN"}

EquivalenceIsStructural ==
  Accepted => LET shape == Shape(heap)
              IN \A a, b \in Denoted : Equivalent(heap, a, b) <=> shape[a] = shape[b]

(* As long as nothing was reported, no object that a declaration made is   *)
(* without a type: not a variable, a member, a parameter or an element.    *)
AcceptedKeepsTypes ==
  Accepted => \A a \in Live : a[1] # 0 => heap[a].type # "UNKNOWN"

(* In a file without a report, a function that is declared and defined has *)
(* parameters of the same types in both, whichever comes first.            *)
DeclarationsAgree ==
  Accepted => \A f \in FunctionNames :
                decls[f] # NoSymbol /\ defs[f] # NoSymbol
                  => SameArgs(heap[decls[f]].parts, heap[defs[f]].parts)

(* In a file without a report, the name of a parameter finds that very     *)
(* parameter in the one table of variables, for every function defined so  *)
(* far: no other function's, no variable and no member has taken its place.*)
ParametersResolve ==
  Accepted => \A f \in FunctionNames :
                defs[f] # NoSymbol
                  => LET parts == heap[defs[f]].parts
                     IN \A i \in DOMAIN parts : vars[heap[parts[i]].name] = parts[i]

(* In a file without a report, the members of a struct have different      *)
(* names, so the one that checkDotOperator takes is the only one.          *)
MembersAreUnambiguous ==
  Accepted => \A s \in StructNames :
                structs[s] # NoSymbol
                  => LET parts == heap[structs[s]].parts
                     IN \A i, j \in DOMAIN parts :
                          heap[parts[i]].name = heap[parts[j]].name => i = j

(* On a file it has found no error in, the compiler meets a null pointer   *)
(* or a wrong std::get only where the value of a call is an operand or an  *)
(* argument.  The other death of such a file, of an array size or an index *)
(* that is no int, is the outcome "out_of_range".                          *)
CrashesExplained ==
  at = "crashed" /\ Accepted => \E i \in DOMAIN stack : TypeOf(stack[i].sym) = "FUNCTION"

(* The tables keep the promises of Environment: the first declaration of a *)
(* name counts to the end of the file, what is bound has a type, and a     *)
(* type is lost one at a time and with a report.                           *)
Keys ==
  ({"variable"} \X Names) \cup ({"definition", "declaration"} \X Callees)
    \cup ({"struct"} \X StructNames)

Binding(key) ==
  CASE key[1] = "variable" -> vars[key[2]]
    [] key[1] = "definition" -> defs[key[2]]
    [] key[1] = "declaration" -> decls[key[2]]
    [] key[1] = "struct" -> structs[key[2]]

Bindings == [key \in Keys |-> Binding(key)]
Typed == {a \in Live : heap[a].type # "UNKNOWN"}

Env == INSTANCE Environment WITH
         Things <- Addresses, Unbound <- NoSymbol,
         bound <- Bindings, typed <- Typed, accepted <- Accepted

KeepsPromises == Env!Spec

(* A definition may repeat the header of the declaration before it         *)
(* (report/project2/11811620-project2.md: int declare(int a); and then     *)
(* int declare(int a){ return a; }).                                       *)
Repeats ==
  /\ decls[pending.name] # NoSymbol
  /\ LET parts == heap[decls[pending.name]].parts
     IN /\ SameArgs(parts, pending.parts)
        /\ \A i \in DOMAIN parts : heap[parts[i]].name = ParameterNames[i]

RepeatedHeaderIsAccepted == at = "header" /\ Accepted /\ Repeats => HeaderErrors = {}
=============================================================================
