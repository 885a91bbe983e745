------------------------- MODULE MCConsoleSession -------------------------
(* Small instances of ConsoleSession for TLC.                              *)
EXTENDS ConsoleSession

CONSTANTS k1, k2, config
=============================================================================
