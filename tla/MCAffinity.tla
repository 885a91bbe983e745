----------------------------- MODULE MCAffinity -----------------------------
(* Small instances of Affinity for TLC.                                    *)
EXTENDS Affinity, TLC

CONSTANTS c1, c2, s1, s2, s3, a, b

Symmetric == Permutations(Callers) \cup Permutations(Sessions)
               \cup Permutations(Accounts)
=============================================================================
