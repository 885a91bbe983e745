------------------------------ MODULE SlotPool ------------------------------
(***************************************************************************)
(* What the account pool promises about concurrency, without counters,     *)
(* scans or retries: a request holds a slot of an account only while fewer *)
(* requests than the account's limit held one when it came, holds at most  *)
(* two at a time, and the limit of an account is settled before the first  *)
(* request holds a slot of it.  A limit of 0 means no limit.               *)
(***************************************************************************)
EXTENDS Naturals, FiniteSets

CONSTANTS Requests, Objects

VARIABLES
  holders,   \* the requests holding a slot of each account object
  limit      \* the limit of each account object

slotVars == <<holders, limit>>

HeldBy(r) == {o \in Objects : r \in holders[o]}

Init ==
  /\ holders = [o \in Objects |-> {}]
  /\ limit \in [Objects -> Nat]

Acquire(r, o) ==
  /\ limit[o] = 0 \/ Cardinality(holders[o]) < limit[o]
  /\ r \notin holders[o]
  /\ Cardinality(HeldBy(r)) < 2
  /\ holders' = [holders EXCEPT ![o] = @ \cup {r}]
  /\ UNCHANGED limit

Release(r, o) ==
  /\ r \in holders[o]
  /\ holders' = [holders EXCEPT ![o] = @ \ {r}]
  /\ UNCHANGED limit

Configure(o) ==
  /\ holders[o] = {}
  /\ limit' \in [Objects -> Nat]
  /\ \A q \in Objects \ {o} : limit'[q] = limit[q]
  /\ UNCHANGED holders

Next ==
  \/ \E r \in Requests, o \in Objects : Acquire(r, o) \/ Release(r, o)
  \/ \E o \in Objects : Configure(o)

Spec == Init /\ [][Next]_slotVars
=============================================================================
