---------------------------- MODULE MCAccountPool ----------------------------
(* Small instances of AccountPool for TLC.                                 *)
EXTENDS AccountPool, TLC

CONSTANTS r1, r2, r3, o1, o2, o3, o4, a, b, op, s1, s2, m1, m2

Settings(limit, weight, models, enabled) ==
  [limit |-> limit, weight |-> weight, models |-> models, enabled |-> enabled]

One  == Settings(1, 0, {}, TRUE)
Two  == Settings(2, 1, {}, TRUE)
Free == Settings(0, 1, {}, TRUE)
Off  == Settings(1, 1, {}, FALSE)
Only(m) == Settings(1, 2, {m}, TRUE)

SingleConfigs == {One}
ModelConfigs == {Two, Only(m1)}
OperatorConfigs == {One, Off}

Account(id, c, m) == [id |-> id, config |-> c, managed |-> m]

\* A managed account the operator will edit, and a fixed one without a limit.
OneManaged == (o1 :> Account(a, One, TRUE)) @@ (o2 :> Account(b, Free, FALSE))

\* One managed account, alone.
AloneManaged == o1 :> Account(a, One, TRUE)

\* One fixed account for each of two models, and one slot on it.
ByModel == (o1 :> Account(a, Only(m1), FALSE)) @@ (o2 :> Account(b, Two, FALSE))

\* One session, one request without a session.
SessionOne == [r \in Requests |-> IF r = r1 THEN s1 ELSE NoSession]
NoSessions == [r \in Requests |-> NoSession]
SameModel == [r \in Requests |-> m1]
ModelEach == (r1 :> m1) @@ (r2 :> m2)
==============================================================================
