----------------------------- MODULE StraightLine -----------------------------
(***************************************************************************)
(* The meaning of a run of three-address code, written independently of    *)
(* the optimizer: what it computes, and what it prints, passes, tests and  *)
(* stores on the way.  The optimizer's passes are compared against it.     *)
(***************************************************************************)
EXTENDS Optimizer

CONSTANTS
  Shared,       \* the user's variables a called function may assign
  Starts,       \* values of all names when a run is entered
  Outside       \* the values that come from elsewhere: input, callee, memory

ASSUME StartsAssumption ==
  Starts \subseteq [Names -> IntW] /\ Outside \in [Names -> IntW]

Value(env, n) == IF n = ElementSize THEN Wrap(4) ELSE env[n]

(* A function is entered with values from its caller; a call may assign    *)
(* the shared variables.                                                   *)
After(env, ins) ==
  CASE ins.kind = "CONSTANT" -> [env EXCEPT ![ins.op1] = ins.value]
    [] ins.kind = "ASSIGN" -> [env EXCEPT ![ins.op1] = env[ins.op2]]
    [] ins.kind = "BINARY" ->
         [env EXCEPT ![ins.result] =
            Apply(ins.relation, Value(env, ins.op1), Value(env, ins.op2))]
    [] ins.kind = "MINUS" -> [env EXCEPT ![ins.result] = Wrap(-env[ins.op1])]
    [] ins.kind = "ARRAY_OFFSET" ->
         [env EXCEPT ![ins.result] = Wrap(env[ins.op1] + env[ins.op2])]
    [] ins.kind \in {"READ", "PARAM"} -> [env EXCEPT ![ins.op1] = Outside[ins.op1]]
    [] ins.kind = "GET_VALUE_IN_ADDRESS" ->
         [env EXCEPT ![ins.result] = Outside[ins.result]]
    [] ins.kind = "CALL" ->
         [n \in Names |-> IF n \in Shared \cup {ins.result}
                          THEN Outside[n] ELSE env[n]]
    [] ins.kind = "FUNCTION" -> Outside
    [] OTHER -> env

(* What an instruction shows to the rest of the world.                     *)
Event(env, ins) ==
  CASE ins.kind \in {"WRITE", "RETURN", "ARG"} -> << <<ins.kind, env[ins.op1]>> >>
    [] ins.kind = "IF_GOTO" ->
         << <<ins.kind, env[ins.op1], ins.relation, env[ins.op2], ins.result>> >>
    [] ins.kind = "GET_VALUE_IN_ADDRESS" -> << <<ins.kind, env[ins.op1]>> >>
    [] ins.kind = "ASSIGN_VALUE_IN_ADDRESS" ->
         << <<ins.kind, env[ins.result], env[ins.op1]>> >>
    [] ins.kind \in {"READ", "PARAM", "CALL", "LABEL", "GOTO", "FUNCTION", "DEC"} ->
         << <<ins.kind, ins.op1>> >>
    [] OTHER -> <<>>

Perform(st, ins) ==
  [env |-> After(st.env, ins), events |-> st.events \o Event(st.env, ins)]

(* Where the run of b is after each of its instructions.                   *)
Steps(b, env) ==
  LET st[i \in 0..Len(b)] ==
        IF i = 0 THEN [env |-> env, events |-> <<>>] ELSE Perform(st[i - 1], b[i])
  IN st

Run(b, env) == Steps(b, env)[Len(b)]

(* b and c show the same events and leave the same values in visible.      *)
Equivalent(b, c, visible) ==
  \A env \in Starts :
    LET x == Run(b, env) y == Run(c, env)
    IN x.events = y.events /\ \A n \in visible : x.env[n] = y.env[n]

(* The names an instruction changes without PropagateConstant noticing.    *)
Overwrites(ins) ==
  CASE ins.kind \in {"READ", "PARAM"} -> {ins.op1}
    [] ins.kind = "CALL" -> {ins.result} \cup Shared
    [] ins.kind \in {"BINARY", "MINUS", "ARRAY_OFFSET",
                     "GET_VALUE_IN_ADDRESS"} -> {ins.result}
    [] ins.kind = "FUNCTION" -> Names
    [] OTHER -> {}

(* No constant of the rewritten block is overwritten behind the pass's     *)
(* back while const_map still has it.                                      *)
KeepsConstants(b) ==
  \A i, j \in 1..Len(b) :
    (i < j /\ b[i].kind = "CONSTANT" /\ b[i].op1 \in Overwrites(b[j])) =>
      \E m \in i + 1..j - 1 : b[m].kind = "ASSIGN" /\ b[m].op1 = b[i].op1

Propagated == phase = "prop" /\ bi > Len(blocks)

(* Replacing names by their constants does not change what a block does,   *)
(* on the blocks that never overwrite a constant behind the pass's back:   *)
(* not by a READ, a PARAM, a call (its result and what the callee may      *)
(* assign), a MINUS, an array element or address, or an operation that     *)
(* does not fold, and not by going on into the next FUNCTION, where every  *)
(* name has another value.                                                 *)
PropagationPreservesWhenKept ==
  Propagated =>
    \A k \in 1..Len(blocks) :
      KeepsConstants(blocks[k]) => Equivalent(before[k], blocks[k], Names)

(* Project3-Report.md says it of every block: a folded operation is        *)
(* replaced by the value of the operation.                                 *)
PropagationPreserves ==
  Propagated =>
    \A k \in 1..Len(blocks) : Equivalent(before[k], blocks[k], Names)

(* Removing dead temporaries changes neither what a block shows nor what   *)
(* it leaves in the user's variables.                                      *)
EliminationPreserves ==
  phase = "concat" =>
    \A k \in 1..Len(blocks) : Equivalent(before[k], blocks[k], Vars)

(* The blocks bs, end to end.                                              *)
Joined(bs) ==
  LET upto[i \in 0..Len(bs)] == IF i = 0 THEN <<>> ELSE upto[i - 1] \o bs[i]
  IN upto[Len(bs)]

(* The blocks cut so far, end to end, are the program read so far: no      *)
(* instruction is lost, doubled or moved at a block boundary.              *)
BlocksCoverProgram ==
  /\ phase = "blocks" => Joined(blocks) \o block = SubSeq(ir, 1, pos - 1)
  /\ phase = "check" => Joined(blocks) = ir

=============================================================================
