------------------------- MODULE MCConsoleEditors -------------------------
(* Small instances of ConsoleEditors for TLC.                              *)
EXTENDS ConsoleEditors, TLC

CONSTANTS default, k1, u1, u2

Symmetric == Permutations(Accounts)
=============================================================================
