-------------------------- MODULE MCConsoleViews --------------------------
(* Small instances of ConsoleViews for TLC.                                *)
EXTENDS ConsoleViews

CONSTANTS a1, a2, r1, r2
=============================================================================
