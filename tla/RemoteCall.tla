------------------------------ MODULE RemoteCall ------------------------------
(***************************************************************************)
(* What is_remote=true promises to the agent loop (mai/remote/routing.py): *)
(* a call is refused or asked once; what was asked is carried out on the   *)
(* remote PC at most once, perhaps after its caller has stopped waiting;   *)
(* and a caller that gets a result gets the one of its own command.        *)
(***************************************************************************)
EXTENDS Naturals

CONSTANT Calls

VARIABLES
  status,   \* of the caller of a call
  runs,     \* how often the command was carried out
  outcome   \* what the last time it was carried out gave

vars == <<status, runs, outcome>>

Statuses == {"idle", "asked", "refused", "returned", "failed", "abandoned"}

Init ==
  /\ status = [c \in Calls |-> "idle"]
  /\ runs = [c \in Calls |-> 0]
  /\ outcome = [c \in Calls |-> "none"]

Ask(c) ==
  /\ status[c] = "idle"
  /\ \E st \in {"asked", "refused"} : status' = [status EXCEPT ![c] = st]
  /\ UNCHANGED <<runs, outcome>>

Perform(c) ==
  /\ status[c] \notin {"idle", "refused"}
  /\ runs[c] = 0
  /\ runs' = [runs EXCEPT ![c] = 1]
  /\ \E o \in {"result", "error"} : outcome' = [outcome EXCEPT ![c] = o]
  /\ UNCHANGED status

Return(c) ==
  /\ status[c] = "asked"
  /\ outcome[c] = "result"
  /\ status' = [status EXCEPT ![c] = "returned"]
  /\ UNCHANGED <<runs, outcome>>

(* A failure: of the command, of the connection, or of the caller's        *)
(* patience. The PC may have carried out the command, or do so later.      *)
GiveUp(c) ==
  /\ status[c] = "asked"
  /\ \E st \in {"failed", "abandoned"} : status' = [status EXCEPT ![c] = st]
  /\ UNCHANGED <<runs, outcome>>

(* A server that dies takes all its callers with it.                       *)
AbandonAll ==
  /\ status' = [c \in Calls |-> IF status[c] = "asked" THEN "abandoned" ELSE status[c]]
  /\ UNCHANGED <<runs, outcome>>

Next ==
  \/ \E c \in Calls : Ask(c) \/ Perform(c) \/ Return(c) \/ GiveUp(c)
  \/ AbandonAll

Spec == Init /\ [][Next]_vars
=============================================================================
