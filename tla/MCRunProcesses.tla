--------------------------- MODULE MCRunProcesses ---------------------------
(***************************************************************************)
(* RunProcesses for TLC: browsers are interchangeable, but the runs check  *)
(* a liveness property, so no symmetry is declared.                        *)
(***************************************************************************)
EXTENDS RunProcesses, TLC
=============================================================================
