--------------------------- MODULE MCRemoteSession ---------------------------
(***************************************************************************)
(* Instances of RemoteSession for TLC.                                     *)
(***************************************************************************)
EXTENDS RemoteSession, TLC

CONSTANTS o1, o2

(* All calls are the first account's; others only have sessions.           *)
OneOwner == [c \in Calls |-> o1]

(* Sessions, agents and the calls of one owner are interchangeable.        *)
Interchangeable ==
  Permutations(Sessions) \cup Permutations(Agents) \cup Permutations(Calls)
=============================================================================
