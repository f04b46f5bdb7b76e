----------------------------- MODULE Environment -----------------------------
(***************************************************************************)
(* What the front end promises about declared names, without saying how:   *)
(* the first declaration of a name is the one that counts, and it counts   *)
(* for the rest of the file; whatever is declared has a type; a declared   *)
(* thing loses its type only at a reported error, one thing at a time; and *)
(* a report is never taken back.                                           *)
(***************************************************************************)
CONSTANTS
  Keys,    \* pairs of a table and a name
  Things,  \* what a name can stand for
  Unbound  \* no thing: the value of a name without a declaration

VARIABLES
  bound,    \* the thing every name stands for
  typed,    \* the things whose type is known
  accepted  \* nothing has been reported so far

vars == <<bound, typed, accepted>>

Bindings == [Keys -> Things \cup {Unbound}]

Init ==
  /\ bound \in Bindings
  /\ typed \in SUBSET Things
  /\ \A k \in Keys : bound[k] # Unbound => bound[k] \in typed
  /\ accepted = TRUE

(* Names that had no declaration get one; an error may be reported.        *)
Enter ==
  /\ bound' \in Bindings
  /\ typed' \in SUBSET Things
  /\ typed \subseteq typed'
  /\ \A k \in Keys :
       IF bound[k] # Unbound THEN bound'[k] = bound[k]
       ELSE bound'[k] # Unbound => bound'[k] \in typed'
  /\ accepted' \in {accepted, FALSE}

(* A thing loses its type, and that is reported.                           *)
Forget(t) ==
  /\ typed' = typed \ {t}
  /\ accepted' = FALSE
  /\ UNCHANGED bound

Next == Enter \/ \E t \in typed : Forget(t)

Spec == Init /\ [][Next]_vars

(* As long as nothing is reported, every declared name has a type.         *)
AcceptedIsTyped ==
  accepted => \A k \in Keys : bound[k] # Unbound => bound[k] \in typed
=============================================================================
