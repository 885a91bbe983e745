---------------------------- MODULE MCMasterKey ----------------------------
(* Small instances of MasterKey for TLC.                                   *)
EXTENDS MasterKey, TLC

CONSTANTS a1, a2, v0, v1, m1, m2, m3, w1, w2

NoEnvironment == {{}}
ShadowingEnvironment == {{}, {a1}}

Symmetric == Permutations(Writers) \cup Permutations(MasterKeys)
=============================================================================
