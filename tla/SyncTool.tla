------------------------------ MODULE SyncTool ------------------------------
(***************************************************************************)
(* What the tools that print a sync file have in common: one thread, which *)
(* calls the library and writes what it gives to the standard output.      *)
(***************************************************************************)
VARIABLES
  tool,    \* where main is
  printed  \* what was written: events, or points

toolVars == <<tool, printed>>
=============================================================================
