----------------------------- MODULE MCKeyQuota -----------------------------
(* Small instances of KeyQuota for TLC.                                    *)
EXTENDS KeyQuota, TLC

CONSTANTS r1, r2, r3, r4, kd, k1, s0, s1, s2, s3

Usage(tokens, cost) == [tokens |-> tokens, cost |-> cost]

\* Limits one request reaches, for each of the windows.
PerMinute == [Unlimited EXCEPT !.rpm = 1, !.tpm = 1]
PerDay    == [Unlimited EXCEPT !.concurrent = 1, !.dailyTokens = 1]
PerMonth  == [Unlimited EXCEPT !.monthlyCost = 1]
Pair      == [Unlimited EXCEPT !.concurrent = 2, !.dailyTokens = 1]

WindowQuotas == {PerMinute, PerDay, PerMonth}
PairQuotas == {Pair}

OneUsage == {Usage(2, 1)}

Symmetric == Permutations(Requests)
==============================================================================
