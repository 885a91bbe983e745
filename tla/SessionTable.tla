---------------------------- MODULE SessionTable ----------------------------
(***************************************************************************)
(* What routing relies on in the session affinity table, without clocks    *)
(* and entries: a session is bound to the account somebody bound it to     *)
(* last, or to none; a binding takes the place of at most one other; and   *)
(* there are never more than Capacity of them.                             *)
(***************************************************************************)
EXTENDS Naturals, FiniteSets

CONSTANTS Sessions, Accounts, Capacity, NoAccount

VARIABLE binding     \* session -> account, or NoAccount

Bindings(table) == {s \in Sessions : table[s] # NoAccount}

Init == binding = [s \in Sessions |-> NoAccount]

Forget(s) == binding' = [binding EXCEPT ![s] = NoAccount]

Bind(s, a) ==
  \/ binding' = [binding EXCEPT ![s] = a]
  \/ \E t \in Sessions \ {s} :
       binding' = [binding EXCEPT ![s] = a, ![t] = NoAccount]

Next ==
  \E s \in Sessions :
    \/ Forget(s)
    \/ \E a \in Accounts : Bind(s, a) /\ Cardinality(Bindings(binding')) <= Capacity

Spec == Init /\ [][Next]_binding
=============================================================================
