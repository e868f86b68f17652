---------------------------- MODULE MCMemoryTurns ----------------------------
(***************************************************************************)
(* Values of MemoryTurns' constants for TLC: the turns of one account.     *)
(***************************************************************************)
EXTENDS MemoryTurns, TLC

CONSTANTS t1, t2, t3, u1

ThreeUserOf == [t \in {t1, t2, t3} |-> u1]
=============================================================================
