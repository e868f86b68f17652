------------------------ MODULE RemoteSession_proofs ------------------------
(***************************************************************************)
(* Theorems about RemoteSession, for every set of sessions, agents, calls  *)
(* and accounts and every number of lost messages.                         *)
(***************************************************************************)
EXTENDS RemoteSession, TLAPS

-----------------------------------------------------------------------------
(* Types *)

\* The types of the variables are inductive.
LEMMA TypeStep == TypeOK /\ [Next]_vars => TypeOK'
<1>1. SUFFICES ASSUME TypeOK, [Next]_vars PROVE TypeOK'
  OBVIOUS
<1> USE DEF TypeOK, Active
<1>2. ASSUME NEW o \in Owners, NEW s \in Sessions, Create(o, s) PROVE TypeOK'
  BY <1>1, RemoteAssumption, <1>2 DEF Create, server, worker
<1>3. ASSUME NEW s \in Sessions, Revoke(s) PROVE TypeOK'
  BY <1>1, RemoteAssumption, <1>3 DEF Revoke, Close, Active, server, worker
<1>4. ASSUME NEW s \in Sessions, LeaseExpires(s) PROVE TypeOK'
  BY <1>1, RemoteAssumption, <1>4 DEF LeaseExpires, server, worker
<1>5. ASSUME Restart PROVE TypeOK'
  BY <1>1, RemoteAssumption, <1>5 DEF Restart, server, worker
<1>6. ASSUME NEW c \in Calls, Refuse(c) PROVE TypeOK'
  BY <1>1, RemoteAssumption, <1>6 DEF Refuse, server, worker
<1>7. ASSUME NEW c \in Calls, Dispatch(c) PROVE TypeOK'
  BY <1>1, RemoteAssumption, <1>7 DEF Dispatch, OwnerSessions, server, worker
<1>8. ASSUME NEW c \in Calls, Return(c) PROVE TypeOK'
  BY <1>1, RemoteAssumption, <1>8 DEF Return, EndWait, server, worker
<1>9. ASSUME NEW c \in Calls, Raise(c) PROVE TypeOK'
  BY <1>1, RemoteAssumption, <1>9 DEF Raise, EndWait, server, worker
<1>10. ASSUME NEW c \in Calls, Timeout(c) PROVE TypeOK'
  BY <1>1, RemoteAssumption, <1>10 DEF Timeout, EndWait, server, worker
<1>11. ASSUME NEW c \in Calls, Cancel(c) PROVE TypeOK'
  BY <1>1, RemoteAssumption, <1>11 DEF Cancel, EndWait, server, worker
<1>12. ASSUME NEW c \in Calls, WorkerEnds(c) PROVE TypeOK'
  BY <1>1, RemoteAssumption, <1>12 DEF WorkerEnds, server, worker
<1>13. ASSUME NEW a \in Agents, NEW s \in Sessions, Start(a, s) PROVE TypeOK'
  BY <1>1, RemoteAssumption, <1>13 DEF Start, server, worker
<1>14. ASSUME NEW a \in Agents, OpenPoll(a) PROVE TypeOK'
  <2>1. PICK s \in key[a] :
          \/ /\ session' = [session EXCEPT ![s] = "connected"]
             /\ poll' = poll \cup {a}
             /\ agent' = [agent EXCEPT ![a] = "polling"]
          \/ /\ agent' = [agent EXCEPT ![a] = "leaving"]
             /\ UNCHANGED <<session, poll>>
    BY <1>14 DEF OpenPoll
  <2>2. UNCHANGED <<account, queue, inFlight, future, call, target, key, held,
                    running, runs, outcome, quit, lost>>
    BY <1>14 DEF OpenPoll, worker
  <2>3. s \in Sessions /\ poll' \in SUBSET Agents
    BY <1>1, <2>1
  <2>4. session' \in [Sessions -> {"none", "pending", "connected", "expired", "closed"}]
    BY <1>1, <2>1, <2>3
  <2>5. agent' \in [Agents -> {"off", "ready", "polling", "executing", "posting",
                          "leaving", "stopped"}]
    BY <1>1, <2>1
  <2>6. \A b \in Agents : agent'[b] \in {"executing", "posting"} => held[b] \in Calls
    BY <1>1, <2>1
  <2> QED
    BY <1>1, <2>2, <2>3, <2>4, <2>5, <2>6
<1>15. ASSUME NEW a \in Agents, LosePoll(a) PROVE TypeOK'
  BY <1>1, RemoteAssumption, <1>15 DEF LosePoll, Lose, server, worker
<1>16. ASSUME NEW a \in Agents, TakeCommand(a) PROVE TypeOK'
  <2>1. PICK s \in key[a] :
          /\ queue[s] # <<>>
          /\ queue' = [queue EXCEPT ![s] = Tail(@)]
          /\ \/ /\ agent' = [agent EXCEPT ![a] = "executing"]
                /\ held' = [held EXCEPT ![a] = Head(queue[s])]
                /\ running' = running \cup {Head(queue[s])}
             \/ /\ agent' = [agent EXCEPT ![a] = "leaving"]
                /\ UNCHANGED <<held, running>>
             \/ UNCHANGED <<agent, held, running>>
    BY <1>16 DEF TakeCommand
  <2>2. /\ UNCHANGED <<session, account, inFlight, future, call, target, key, runs,
                       outcome, quit>>
        /\ poll' = poll \ {a}
    BY <1>16 DEF TakeCommand
  <2>3. lost' \in 0 .. MaxLost
    BY <1>1, <1>16, RemoteAssumption DEF TakeCommand, Lose, Deliver
  <2>4. s \in Sessions
    BY <1>1
  <2>5. queue' \in [Sessions -> Seq(Calls)] /\ Head(queue[s]) \in Calls
    BY <1>1, <2>1, <2>4
  <2>6. agent' \in [Agents -> {"off", "ready", "polling", "executing", "posting",
                          "leaving", "stopped"}]
    BY <1>1, <2>1
  <2>7. held' \in [Agents -> Calls \cup {NoCall}]
    BY <1>1, <2>1, <2>5
  <2>8. running' \in SUBSET Calls /\ poll' \in SUBSET Agents
    BY <1>1, <2>1, <2>2, <2>5
  <2>9. \A b \in Agents : agent'[b] \in {"executing", "posting"} => held'[b] \in Calls
    BY <1>1, <2>1, <2>5
  <2> QED
    BY <1>1, <2>2, <2>3, <2>5, <2>6, <2>7, <2>8, <2>9
<1>17. ASSUME NEW a \in Agents, PollEmpty(a) PROVE TypeOK'
  <2>1. /\ UNCHANGED <<session, account, queue, inFlight, future, call, target, key,
                       held, running, runs, outcome, quit, lost>>
        /\ poll' = poll \ {a}
    BY <1>17 DEF PollEmpty, worker
  <2>2. \/ agent' = [agent EXCEPT ![a] = "ready"]
        \/ agent' = [agent EXCEPT ![a] = "leaving"]
        \/ agent' = agent
    BY <1>17 DEF PollEmpty
  <2>3. /\ agent' \in [Agents -> {"off", "ready", "polling", "executing", "posting",
                             "leaving", "stopped"}]
        /\ \A b \in Agents : agent'[b] \in {"executing", "posting"} => agent'[b] = agent[b]
    BY <1>1, <2>2
  <2>4. \A b \in Agents : agent'[b] \in {"executing", "posting"} => held'[b] \in Calls
    BY <1>1, <2>1, <2>3
  <2>5. poll' \in SUBSET Agents
    BY <1>1, <2>1
  <2> QED
    BY <1>1, <2>1, <2>3, <2>4, <2>5
<1>18. ASSUME NEW a \in Agents, PostResult(a) PROVE TypeOK'
  <2>1. held[a] \in Calls /\ outcome[held[a]] \in {"none", "result", "error"}
    BY <1>1, <1>18 DEF PostResult
  <2>2. future' = future \/ future' = [future EXCEPT ![held[a]] = outcome[held[a]]]
    BY <1>18 DEF PostResult
  <2>3. future' \in [Calls -> {"none", "pending", "result", "error", "closed"}]
    BY <1>1, <2>1, <2>2
  <2>4. \/ /\ agent' = [agent EXCEPT ![a] = "ready"]
           /\ held' = [held EXCEPT ![a] = NoCall]
        \/ /\ agent' = [agent EXCEPT ![a] = "leaving"]
           /\ UNCHANGED held
    BY <1>18 DEF PostResult
  <2>5. lost' \in 0 .. MaxLost
    BY <1>1, <1>18, RemoteAssumption DEF PostResult, Lose, Deliver
  <2>6. UNCHANGED <<session, account, queue, inFlight, call, target, key, poll,
                    running, runs, outcome, quit>>
    BY <1>18 DEF PostResult, worker
  <2>7. agent' \in [Agents -> {"off", "ready", "polling", "executing", "posting",
                          "leaving", "stopped"}]
    BY <1>1, <2>4
  <2>8. held' \in [Agents -> Calls \cup {NoCall}]
    <3>1. held' = [held EXCEPT ![a] = NoCall] \/ held' = held
      BY <2>4
    <3> QED
      BY <1>1, <3>1
  <2>9. \A b \in Agents : agent'[b] \in {"executing", "posting"} => held'[b] \in Calls
    BY <1>1, <2>4
  <2> QED
    BY <1>1, <2>3, <2>5, <2>6, <2>7, <2>8, <2>9
<1>19. ASSUME NEW a \in Agents, LosePost(a) PROVE TypeOK'
  BY <1>1, RemoteAssumption, <1>19 DEF LosePost, Lose, server, worker
<1>20. ASSUME NEW a \in Agents, Quit(a) PROVE TypeOK'
  BY <1>1, RemoteAssumption, <1>20 DEF Quit, server, worker
<1>21. ASSUME NEW a \in Agents, Kill(a) PROVE TypeOK'
  BY <1>1, RemoteAssumption, <1>21 DEF Kill, server, worker
<1>22. ASSUME NEW a \in Agents, Leave(a) PROVE TypeOK'
  <2>1. PICK s \in key[a] :
          Close(s) \/ UNCHANGED <<session, account, queue, inFlight, future, call, target>>
    BY <1>22 DEF Leave
  <2>2. /\ agent' = [agent EXCEPT ![a] = "stopped"]
        /\ UNCHANGED <<key, held, poll, running, runs, outcome, quit>>
    BY <1>22 DEF Leave, worker
  <2>3. s \in Sessions
    BY <1>1
  <2>4. lost' \in 0 .. MaxLost
    BY <1>1, <1>22, RemoteAssumption DEF Leave, Lose, Deliver
  <2>5. CASE Close(s)
    BY <1>1, <2>2, <2>3, <2>5, <2>4 DEF Close
  <2>6. CASE UNCHANGED <<session, account, queue, inFlight, future, call, target>>
    BY <1>1, <2>2, <2>6, <2>4
  <2> QED
    BY <2>1, <2>5, <2>6
<1>23. CASE UNCHANGED vars
  BY <1>1, RemoteAssumption, <1>23 DEF vars, server, worker
<1>24. QED
  BY <1>1, RemoteAssumption, <1>2, <1>3, <1>4, <1>5, <1>6, <1>7, <1>8, <1>9,
     <1>10, <1>11, <1>12, <1>13, <1>14, <1>15, <1>16, <1>17, <1>18, <1>19,
     <1>20, <1>21, <1>22, <1>23 DEF Next, CallStep, AgentStep

\* The variables of a remote session keep their types: an agent that executes or
\* posts holds a command, and the network loses at most MaxLost messages.
THEOREM TypeCorrect == Spec => []TypeOK
<1>1. Init => TypeOK
  BY RemoteAssumption DEF Init, TypeOK
<1> QED
  BY <1>1, TypeStep, PTL DEF Spec

-----------------------------------------------------------------------------
(* Sessions of an account *)

\* Whatever is done to sessions, an account has one valid session at most.
LEMMA OneActiveStep == TypeOK /\ OneActiveSession /\ [Next]_vars => OneActiveSession'
<1>1. SUFFICES ASSUME TypeOK, OneActiveSession, [Next]_vars PROVE OneActiveSession'
  OBVIOUS
<1> USE DEF OneActiveSession, Active
<1>2. ASSUME NEW o \in Owners, NEW s \in Sessions, Create(o, s) PROVE OneActiveSession'
  BY <1>1, <1>2 DEF Create, server, worker, TypeOK
<1>3. ASSUME NEW s \in Sessions, Revoke(s) PROVE OneActiveSession'
  BY <1>1, <1>3 DEF Revoke, Close, Active, server, worker, TypeOK
<1>4. ASSUME NEW s \in Sessions, LeaseExpires(s) PROVE OneActiveSession'
  BY <1>1, <1>4 DEF LeaseExpires, server, worker, TypeOK
<1>5. ASSUME Restart PROVE OneActiveSession'
  BY <1>1, <1>5 DEF Restart, server, worker, TypeOK
<1>6. ASSUME NEW c \in Calls, Refuse(c) PROVE OneActiveSession'
  BY <1>1, <1>6 DEF Refuse, server, worker, TypeOK
<1>7. ASSUME NEW c \in Calls, Dispatch(c) PROVE OneActiveSession'
  BY <1>1, <1>7 DEF Dispatch, OwnerSessions, server, worker, TypeOK
<1>8. ASSUME NEW c \in Calls, Return(c) PROVE OneActiveSession'
  BY <1>1, <1>8 DEF Return, EndWait, server, worker, TypeOK
<1>9. ASSUME NEW c \in Calls, Raise(c) PROVE OneActiveSession'
  BY <1>1, <1>9 DEF Raise, EndWait, server, worker, TypeOK
<1>10. ASSUME NEW c \in Calls, Timeout(c) PROVE OneActiveSession'
  BY <1>1, <1>10 DEF Timeout, EndWait, server, worker, TypeOK
<1>11. ASSUME NEW c \in Calls, Cancel(c) PROVE OneActiveSession'
  BY <1>1, <1>11 DEF Cancel, EndWait, server, worker, TypeOK
<1>12. ASSUME NEW c \in Calls, WorkerEnds(c) PROVE OneActiveSession'
  BY <1>1, <1>12 DEF WorkerEnds, server, worker, TypeOK
<1>13. ASSUME NEW a \in Agents, NEW s \in Sessions, Start(a, s) PROVE OneActiveSession'
  BY <1>1, <1>13 DEF Start, server, worker, TypeOK
<1>14. ASSUME NEW a \in Agents, OpenPoll(a) PROVE OneActiveSession'
  BY <1>1, <1>14 DEF OpenPoll, server, worker, TypeOK
<1>15. ASSUME NEW a \in Agents, LosePoll(a) PROVE OneActiveSession'
  BY <1>1, <1>15 DEF LosePoll, Lose, server, worker, TypeOK
<1>16. ASSUME NEW a \in Agents, TakeCommand(a) PROVE OneActiveSession'
  BY <1>1, <1>16 DEF TakeCommand, Lose, Deliver, server, worker, TypeOK
<1>17. ASSUME NEW a \in Agents, PollEmpty(a) PROVE OneActiveSession'
  BY <1>1, <1>17 DEF PollEmpty, server, worker, TypeOK
<1>18. ASSUME NEW a \in Agents, PostResult(a) PROVE OneActiveSession'
  BY <1>1, <1>18 DEF PostResult, Accepts, Lose, Deliver, server, worker, TypeOK
<1>19. ASSUME NEW a \in Agents, LosePost(a) PROVE OneActiveSession'
  BY <1>1, <1>19 DEF LosePost, Lose, server, worker, TypeOK
<1>20. ASSUME NEW a \in Agents, Quit(a) PROVE OneActiveSession'
  BY <1>1, <1>20 DEF Quit, server, worker, TypeOK
<1>21. ASSUME NEW a \in Agents, Kill(a) PROVE OneActiveSession'
  BY <1>1, <1>21 DEF Kill, server, worker, TypeOK
<1>22. ASSUME NEW a \in Agents, Leave(a) PROVE OneActiveSession'
  BY <1>1, <1>22 DEF Leave, Close, Active, Lose, Deliver, server, worker, TypeOK
<1>23. CASE UNCHANGED vars
  BY <1>1, <1>23 DEF vars, server, worker, TypeOK
<1>24. QED
  BY <1>1, <1>2, <1>3, <1>4, <1>5, <1>6, <1>7, <1>8, <1>9, <1>10, <1>11, <1>12,
     <1>13, <1>14, <1>15, <1>16, <1>17, <1>18, <1>19, <1>20, <1>21, <1>22, <1>23
     DEF Next, CallStep, AgentStep

\* owner_session (session.py:81-91) never finds two sessions for one account: an
\* expired session is not revived by a late poll or result.
THEOREM OneActive == Spec => []OneActiveSession
<1>1. Init => OneActiveSession
  BY DEF Init, OneActiveSession, Active
<1> QED
  BY <1>1, TypeCorrect, OneActiveStep, PTL DEF Spec

-----------------------------------------------------------------------------
(* Callers of closed sessions *)

\* Calls that wait are registered with their session, and a closed session has
\* no registered calls.
FlightInv ==
  /\ \A s \in Sessions : session[s] = "closed" => inFlight[s] = {}
  /\ \A c \in Calls : \A s \in target[c] :
       call[c] = "waiting" /\ future[c] = "pending" => c \in inFlight[s]

\* Every step keeps the registration of the calls that wait.
LEMMA FlightStep == TypeOK /\ FlightInv /\ [Next]_vars => FlightInv'
<1>1. SUFFICES ASSUME TypeOK, FlightInv, [Next]_vars PROVE FlightInv'
  OBVIOUS
<1> USE DEF FlightInv, TypeOK, Active
<1>2. ASSUME NEW o \in Owners, NEW s \in Sessions, Create(o, s) PROVE FlightInv'
  BY <1>1, <1>2 DEF Create, server, worker
<1>3. ASSUME NEW s \in Sessions, Revoke(s) PROVE FlightInv'
  BY <1>1, <1>3 DEF Revoke, Close, Active, server, worker
<1>4. ASSUME NEW s \in Sessions, LeaseExpires(s) PROVE FlightInv'
  BY <1>1, <1>4 DEF LeaseExpires, server, worker
<1>5. ASSUME Restart PROVE FlightInv'
  BY <1>1, <1>5 DEF Restart, server, worker
<1>6. ASSUME NEW c \in Calls, Refuse(c) PROVE FlightInv'
  BY <1>1, <1>6 DEF Refuse, server, worker
<1>7. ASSUME NEW c \in Calls, Dispatch(c) PROVE FlightInv'
  BY <1>1, <1>7 DEF Dispatch, OwnerSessions, server, worker
<1>8. ASSUME NEW c \in Calls, Return(c) PROVE FlightInv'
  BY <1>1, <1>8 DEF Return, EndWait, server, worker
<1>9. ASSUME NEW c \in Calls, Raise(c) PROVE FlightInv'
  BY <1>1, <1>9 DEF Raise, EndWait, server, worker
<1>10. ASSUME NEW c \in Calls, Timeout(c) PROVE FlightInv'
  BY <1>1, <1>10 DEF Timeout, EndWait, server, worker
<1>11. ASSUME NEW c \in Calls, Cancel(c) PROVE FlightInv'
  BY <1>1, <1>11 DEF Cancel, EndWait, server, worker
<1>12. ASSUME NEW c \in Calls, WorkerEnds(c) PROVE FlightInv'
  BY <1>1, <1>12 DEF WorkerEnds, server, worker
<1>13. ASSUME NEW a \in Agents, NEW s \in Sessions, Start(a, s) PROVE FlightInv'
  BY <1>1, <1>13 DEF Start, server, worker
<1>14. ASSUME NEW a \in Agents, OpenPoll(a) PROVE FlightInv'
  <2>1. /\ session' = session \/ \E s \in key[a] : session' = [session EXCEPT ![s] = "connected"]
        /\ UNCHANGED <<inFlight, future, call, target>>
    BY <1>14 DEF OpenPoll
  <2>2. \A s \in Sessions : session'[s] = "closed" => session[s] = "closed"
    BY <1>1, <2>1
  <2> QED
    BY <1>1, <2>1, <2>2
<1>15. ASSUME NEW a \in Agents, LosePoll(a) PROVE FlightInv'
  BY <1>1, <1>15 DEF LosePoll, Lose, server, worker
<1>16. ASSUME NEW a \in Agents, TakeCommand(a) PROVE FlightInv'
  BY <1>1, <1>16 DEF TakeCommand, Lose, Deliver, server, worker
<1>17. ASSUME NEW a \in Agents, PollEmpty(a) PROVE FlightInv'
  BY <1>1, <1>17 DEF PollEmpty, server, worker
<1>18. ASSUME NEW a \in Agents, PostResult(a) PROVE FlightInv'
  BY <1>1, <1>18 DEF PostResult, Accepts, Lose, Deliver, server, worker
<1>19. ASSUME NEW a \in Agents, LosePost(a) PROVE FlightInv'
  BY <1>1, <1>19 DEF LosePost, Lose, server, worker
<1>20. ASSUME NEW a \in Agents, Quit(a) PROVE FlightInv'
  BY <1>1, <1>20 DEF Quit, server, worker
<1>21. ASSUME NEW a \in Agents, Kill(a) PROVE FlightInv'
  BY <1>1, <1>21 DEF Kill, server, worker
<1>22. ASSUME NEW a \in Agents, Leave(a) PROVE FlightInv'
  <2>1. PICK s \in key[a] :
          Close(s) \/ UNCHANGED <<session, account, queue, inFlight, future, call, target>>
    BY <1>22 DEF Leave
  <2>2. /\ agent' = [agent EXCEPT ![a] = "stopped"]
        /\ UNCHANGED <<key, held, poll, running, runs, outcome, quit>>
    BY <1>22 DEF Leave, worker
  <2>3. s \in Sessions
    BY <1>1
  <2>4. CASE Close(s)
    BY <1>1, <2>2, <2>3, <2>4 DEF Close
  <2>5. CASE UNCHANGED <<session, account, queue, inFlight, future, call, target>>
    BY <1>1, <2>2, <2>5
  <2> QED
    BY <2>1, <2>4, <2>5
<1>23. CASE UNCHANGED vars
  BY <1>1, <1>23 DEF vars, server, worker
<1>24. QED
  BY <1>1, <1>2, <1>3, <1>4, <1>5, <1>6, <1>7, <1>8, <1>9, <1>10, <1>11, <1>12,
     <1>13, <1>14, <1>15, <1>16, <1>17, <1>18, <1>19, <1>20, <1>21, <1>22, <1>23
     DEF Next, CallStep, AgentStep

\* close (session.py:105-115) releases everyone who waits for the session.
THEOREM ClosedReleases == Spec => []ClosedReleasesCallers
<1>1. Init => FlightInv
  BY DEF Init, FlightInv
<1>2. TypeOK /\ FlightInv => ClosedReleasesCallers
  BY DEF TypeOK, FlightInv, ClosedReleasesCallers
<1> QED
  BY <1>1, <1>2, TypeCorrect, FlightStep, PTL DEF Spec

-----------------------------------------------------------------------------
(* Commands *)

\* Where a command is and how often it was carried out: one that is queued or
\* running has not been carried out, a queue holds it once, and a settled future
\* holds what carrying it out gave.
CommandInv ==
  /\ \A s \in Sessions : \A i \in DOMAIN queue[s] :
       /\ runs[queue[s][i]] = 0
       /\ queue[s][i] \notin running
       /\ call[queue[s][i]] \notin {"idle", "refused"}
       /\ target[queue[s][i]] = {s}
  /\ \A s \in Sessions : \A i, j \in DOMAIN queue[s] : queue[s][i] = queue[s][j] => i = j
  /\ \A c \in running : runs[c] = 0 /\ call[c] \notin {"idle", "refused"}
  /\ \A c \in Calls :
       runs[c] # 0 => runs[c] = 1 /\ outcome[c] # "none" /\ call[c] \notin {"idle", "refused"}
  /\ \A c \in Calls :
       future[c] \in {"result", "error"} => runs[c] = 1 /\ outcome[c] = future[c]
  /\ \A a \in Agents : agent[a] = "posting" => runs[held[a]] = 1

\* Every step keeps CommandInv: a command leaves the queue when it is taken and
\* the worker when it is carried out.
LEMMA CommandStep == TypeOK /\ CommandInv /\ [Next]_vars => CommandInv'
<1>1. SUFFICES ASSUME TypeOK, CommandInv, [Next]_vars PROVE CommandInv'
  OBVIOUS
<1> USE DEF CommandInv, TypeOK, Active
<1>2. ASSUME NEW o \in Owners, NEW s \in Sessions, Create(o, s) PROVE CommandInv'
  BY <1>1, <1>2 DEF Create, server, worker
<1>3. ASSUME NEW s \in Sessions, Revoke(s) PROVE CommandInv'
  BY <1>1, <1>3 DEF Revoke, Close, Active, server, worker
<1>4. ASSUME NEW s \in Sessions, LeaseExpires(s) PROVE CommandInv'
  BY <1>1, <1>4 DEF LeaseExpires, server, worker
<1>5. ASSUME Restart PROVE CommandInv'
  BY <1>1, <1>5 DEF Restart, server, worker
<1>6. ASSUME NEW c \in Calls, Refuse(c) PROVE CommandInv'
  BY <1>1, <1>6 DEF Refuse, server, worker
<1>7. ASSUME NEW c \in Calls, Dispatch(c) PROVE CommandInv'
  BY <1>1, <1>7 DEF Dispatch, OwnerSessions, server, worker
<1>8. ASSUME NEW c \in Calls, Return(c) PROVE CommandInv'
  BY <1>1, <1>8 DEF Return, EndWait, server, worker
<1>9. ASSUME NEW c \in Calls, Raise(c) PROVE CommandInv'
  BY <1>1, <1>9 DEF Raise, EndWait, server, worker
<1>10. ASSUME NEW c \in Calls, Timeout(c) PROVE CommandInv'
  BY <1>1, <1>10 DEF Timeout, EndWait, server, worker
<1>11. ASSUME NEW c \in Calls, Cancel(c) PROVE CommandInv'
  BY <1>1, <1>11 DEF Cancel, EndWait, server, worker
<1>12. ASSUME NEW c \in Calls, WorkerEnds(c) PROVE CommandInv'
  BY <1>1, <1>12 DEF WorkerEnds, server, worker
<1>13. ASSUME NEW a \in Agents, NEW s \in Sessions, Start(a, s) PROVE CommandInv'
  BY <1>1, <1>13 DEF Start, server, worker
<1>14. ASSUME NEW a \in Agents, OpenPoll(a) PROVE CommandInv'
  BY <1>1, <1>14 DEF OpenPoll, server, worker
<1>15. ASSUME NEW a \in Agents, LosePoll(a) PROVE CommandInv'
  BY <1>1, <1>15 DEF LosePoll, Lose, server, worker
<1>16. ASSUME NEW a \in Agents, TakeCommand(a) PROVE CommandInv'
  <2>1. PICK s \in key[a] :
          /\ queue[s] # <<>>
          /\ queue' = [queue EXCEPT ![s] = Tail(@)]
          /\ \/ /\ agent' = [agent EXCEPT ![a] = "executing"]
                /\ held' = [held EXCEPT ![a] = Head(queue[s])]
                /\ running' = running \cup {Head(queue[s])}
             \/ /\ agent' = [agent EXCEPT ![a] = "leaving"]
                /\ UNCHANGED <<held, running>>
             \/ UNCHANGED <<agent, held, running>>
    BY <1>16 DEF TakeCommand
  <2>2. UNCHANGED <<future, call, target, runs, outcome>>
    BY <1>16 DEF TakeCommand
  <2>3. s \in Sessions /\ queue[s] \in Seq(Calls) /\ queue \in [Sessions -> Seq(Calls)]
    BY <1>1
  <2>4. 1 \in DOMAIN queue[s] /\ Head(queue[s]) = queue[s][1] /\ Head(queue[s]) \in Calls
    BY <2>1, <2>3
  <2>5. \A t \in Sessions : \A i \in DOMAIN queue'[t] :
          \E j \in DOMAIN queue[t] :
            queue'[t][i] = queue[t][j] /\ (t = s => j = i + 1) /\ (t # s => j = i)
    <3>1. DOMAIN Tail(queue[s]) = 1 .. (Len(queue[s]) - 1)
      BY <2>1, <2>3
    <3>2. \A i \in DOMAIN Tail(queue[s]) :
            i + 1 \in DOMAIN queue[s] /\ Tail(queue[s])[i] = queue[s][i + 1]
      BY <2>1, <2>3, <3>1
    <3> QED
      BY <2>1, <2>3, <3>2
  <2>6. \A t \in Sessions : \A i, j \in DOMAIN queue'[t] :
          i \in Nat /\ j \in Nat /\ (queue'[t][i] = queue'[t][j] => i = j)
    <3>1. \A t \in Sessions : queue'[t] \in Seq(Calls)
      BY <2>1, <2>3
    <3>2. \A t \in Sessions : \A i \in DOMAIN queue'[t] : i \in Nat
      BY <3>1
    <3> QED
      BY <1>1, <2>5, <3>2
  <2>7. \A t \in Sessions : \A i \in DOMAIN queue'[t] :
          queue'[t][i] = Head(queue[s]) => FALSE
    <3> SUFFICES ASSUME NEW t \in Sessions, NEW i \in DOMAIN queue'[t],
                        queue'[t][i] = Head(queue[s])
                 PROVE  FALSE
      OBVIOUS
    <3>1. PICK j \in DOMAIN queue[t] :
            queue'[t][i] = queue[t][j] /\ (t = s => j = i + 1) /\ (t # s => j = i)
      BY <2>5
    <3>2. target[queue[t][j]] = {t} /\ target[queue[s][1]] = {s}
      BY <1>1, <2>3, <2>4, <3>1
    <3>3. t = s
      BY <2>4, <3>1, <3>2
    <3>4. j = 1
      BY <1>1, <2>3, <2>4, <3>1, <3>3
    <3>5. i \in Nat /\ i >= 1
      <4>1. queue'[t] \in Seq(Calls)
        BY <2>1, <2>3
      <4> QED
        BY <4>1
    <3> QED
      BY <3>1, <3>3, <3>4, <3>5
  <2>8. \A t \in Sessions : \A i \in DOMAIN queue'[t] :
          /\ runs'[queue'[t][i]] = 0
          /\ queue'[t][i] \notin running'
          /\ call'[queue'[t][i]] \notin {"idle", "refused"}
          /\ target'[queue'[t][i]] = {t}
    BY <1>1, <2>1, <2>2, <2>5, <2>7
  <2>9. \A c \in running' : runs'[c] = 0 /\ call'[c] \notin {"idle", "refused"}
    BY <1>1, <2>1, <2>2, <2>3, <2>4
  <2>10. \A b \in Agents : agent'[b] = "posting" => runs'[held'[b]] = 1
    BY <1>1, <2>1, <2>2
  <2> QED
    BY <1>1, <2>2, <2>6, <2>8, <2>9, <2>10
<1>17. ASSUME NEW a \in Agents, PollEmpty(a) PROVE CommandInv'
  BY <1>1, <1>17 DEF PollEmpty, server, worker
<1>18. ASSUME NEW a \in Agents, PostResult(a) PROVE CommandInv'
  BY <1>1, <1>18 DEF PostResult, Accepts, Lose, Deliver, server, worker
<1>19. ASSUME NEW a \in Agents, LosePost(a) PROVE CommandInv'
  BY <1>1, <1>19 DEF LosePost, Lose, server, worker
<1>20. ASSUME NEW a \in Agents, Quit(a) PROVE CommandInv'
  BY <1>1, <1>20 DEF Quit, server, worker
<1>21. ASSUME NEW a \in Agents, Kill(a) PROVE CommandInv'
  BY <1>1, <1>21 DEF Kill, server, worker
<1>22. ASSUME NEW a \in Agents, Leave(a) PROVE CommandInv'
  BY <1>1, <1>22 DEF Leave, Close, Active, Lose, Deliver, server, worker
<1>23. CASE UNCHANGED vars
  BY <1>1, <1>23 DEF vars, server, worker
<1>24. QED
  BY <1>1, <1>2, <1>3, <1>4, <1>5, <1>6, <1>7, <1>8, <1>9, <1>10, <1>11, <1>12,
     <1>13, <1>14, <1>15, <1>16, <1>17, <1>18, <1>19, <1>20, <1>21, <1>22, <1>23
     DEF Next, CallStep, AgentStep

\* Carrying out, returning and giving up are steps of RemoteCall; sessions, agents
\* and the network are invisible to it.
LEMMA PromiseStep == TypeOK /\ CommandInv /\ [Next]_vars => [RC!Next]_(RC!vars)
<1>1. SUFFICES ASSUME TypeOK, CommandInv, [Next]_vars PROVE [RC!Next]_(RC!vars)
  OBVIOUS
<1> DEFINE asked == [c \in Calls |-> StatusOf(c)]
<1> DEFINE Step == [RC!Next]_(RC!vars)
<1>a. ASSUME UNCHANGED <<call, runs, outcome>> PROVE Step
  BY <1>a DEF RC!vars, StatusOf
<1>b. ASSUME NEW c \in Calls, RC!Ask(c) \/ RC!Perform(c) \/ RC!Return(c) \/ RC!GiveUp(c)
      PROVE  Step
  BY <1>b DEF RC!Next
<1>2. ASSUME NEW o \in Owners, NEW s \in Sessions, Create(o, s) PROVE Step
  BY <1>a, <1>2 DEF Create, server, worker
<1>3. ASSUME NEW s \in Sessions, Revoke(s) PROVE Step
  BY <1>a, <1>3 DEF Revoke, Close, server, worker
<1>4. ASSUME NEW s \in Sessions, LeaseExpires(s) PROVE Step
  BY <1>a, <1>4 DEF LeaseExpires, server, worker
<1>5. ASSUME Restart PROVE Step
  <2>1. asked' = [c \in Calls |-> IF asked[c] = "asked" THEN "abandoned" ELSE asked[c]]
    BY <1>1, <1>5 DEF Restart, StatusOf, TypeOK
  <2>2. RC!AbandonAll
    BY <1>5, <2>1 DEF Restart, worker, RC!AbandonAll
  <2> QED
    BY <2>2 DEF RC!Next
<1>6. ASSUME NEW c \in Calls, Refuse(c) PROVE Step
  <2>1. /\ call[c] = "idle" /\ call' = [call EXCEPT ![c] = "refused"]
        /\ UNCHANGED <<runs, outcome>>
    BY <1>6 DEF Refuse, worker
  <2>2. StatusOf(c) = "idle" /\ StatusOf(c)' = "refused"
    BY <1>1, <2>1 DEF StatusOf, TypeOK
  <2>3. asked' = [asked EXCEPT ![c] = "refused"]
    BY <1>1, <2>1 DEF StatusOf, TypeOK
  <2>4. RC!Ask(c)
    BY <2>1, <2>2, <2>3 DEF RC!Ask
  <2> QED
    BY <1>b, <2>4
<1>7. ASSUME NEW c \in Calls, Dispatch(c) PROVE Step
  <2>1. /\ call[c] = "idle" /\ call' = [call EXCEPT ![c] = "waiting"]
        /\ UNCHANGED <<runs, outcome>>
    BY <1>7 DEF Dispatch, worker
  <2>2. StatusOf(c) = "idle" /\ StatusOf(c)' = "asked"
    BY <1>1, <2>1 DEF StatusOf, TypeOK
  <2>3. asked' = [asked EXCEPT ![c] = "asked"]
    BY <1>1, <2>1 DEF StatusOf, TypeOK
  <2>4. RC!Ask(c)
    BY <2>1, <2>2, <2>3 DEF RC!Ask
  <2> QED
    BY <1>b, <2>4
<1>8. ASSUME NEW c \in Calls, Return(c) PROVE Step
  <2>1. /\ call[c] = "waiting" /\ call' = [call EXCEPT ![c] = "returned"]
        /\ UNCHANGED <<runs, outcome>>
    BY <1>8 DEF Return, EndWait, worker
  <2>2. StatusOf(c) = "asked" /\ StatusOf(c)' = "returned" /\ outcome[c] = "result"
    BY <1>1, <1>8, <2>1 DEF Return, StatusOf, TypeOK, CommandInv
  <2>3. asked' = [asked EXCEPT ![c] = "returned"]
    BY <1>1, <2>1 DEF StatusOf, TypeOK
  <2>4. RC!Return(c)
    BY <2>1, <2>2, <2>3 DEF RC!Return
  <2> QED
    BY <1>b, <2>4
<1>9. ASSUME NEW c \in Calls, Raise(c) PROVE Step
  <2>1. /\ call[c] = "waiting" /\ call' = [call EXCEPT ![c] = "failed"]
        /\ UNCHANGED <<runs, outcome>>
    BY <1>9 DEF Raise, EndWait, worker
  <2>2. StatusOf(c) = "asked" /\ StatusOf(c)' = "failed"
    BY <1>1, <1>9, <2>1 DEF Raise, StatusOf, TypeOK
  <2>3. asked' = [asked EXCEPT ![c] = "failed"]
    BY <1>1, <2>1 DEF StatusOf, TypeOK
  <2>4. RC!GiveUp(c)
    BY <2>1, <2>2, <2>3 DEF RC!GiveUp
  <2> QED
    BY <1>b, <2>4
<1>10. ASSUME NEW c \in Calls, Timeout(c) PROVE Step
  <2>1. /\ call[c] = "waiting" /\ call' = [call EXCEPT ![c] = "timedOut"]
        /\ UNCHANGED <<runs, outcome>>
    BY <1>10 DEF Timeout, EndWait, worker
  <2>2. StatusOf(c) = "asked" /\ StatusOf(c)' = "abandoned"
    BY <1>1, <1>10, <2>1 DEF Timeout, StatusOf, TypeOK
  <2>3. asked' = [asked EXCEPT ![c] = "abandoned"]
    BY <1>1, <2>1 DEF StatusOf, TypeOK
  <2>4. RC!GiveUp(c)
    BY <2>1, <2>2, <2>3 DEF RC!GiveUp
  <2> QED
    BY <1>b, <2>4
<1>11. ASSUME NEW c \in Calls, Cancel(c) PROVE Step
  <2>1. /\ call[c] = "waiting" /\ call' = [call EXCEPT ![c] = "cancelled"]
        /\ UNCHANGED <<runs, outcome>>
    BY <1>11 DEF Cancel, EndWait, worker
  <2>2. StatusOf(c) = "asked" /\ StatusOf(c)' = "abandoned"
    BY <1>1, <1>11, <2>1 DEF Cancel, StatusOf, TypeOK
  <2>3. asked' = [asked EXCEPT ![c] = "abandoned"]
    BY <1>1, <2>1 DEF StatusOf, TypeOK
  <2>4. RC!GiveUp(c)
    BY <2>1, <2>2, <2>3 DEF RC!GiveUp
  <2> QED
    BY <1>b, <2>4
<1>12. ASSUME NEW c \in Calls, WorkerEnds(c) PROVE Step
  <2>1. /\ runs[c] = 0 /\ call[c] \notin {"idle", "refused"}
        /\ runs' = [runs EXCEPT ![c] = 1]
    <3>1. c \in running /\ runs' = [runs EXCEPT ![c] = runs[c] + 1]
      BY <1>12 DEF WorkerEnds
    <3>2. runs[c] = 0 /\ call[c] \notin {"idle", "refused"}
      BY <1>1, <3>1 DEF CommandInv
    <3>3. runs[c] + 1 = 1
      BY <3>2
    <3> QED
      BY <3>1, <3>2, <3>3
  <2>2. StatusOf(c) \notin {"idle", "refused"}
    BY <1>1, <2>1 DEF StatusOf, TypeOK
  <2>3. UNCHANGED asked
    BY <1>12 DEF WorkerEnds, server, StatusOf
  <2>4. RC!Perform(c)
    BY <1>12, <2>1, <2>2, <2>3 DEF WorkerEnds, RC!Perform
  <2> QED
    BY <1>b, <2>4
<1>13. ASSUME NEW a \in Agents, NEW s \in Sessions, Start(a, s) PROVE Step
  BY <1>a, <1>13 DEF Start, server, worker
<1>14. ASSUME NEW a \in Agents, OpenPoll(a) PROVE Step
  BY <1>a, <1>14 DEF OpenPoll, server, worker
<1>15. ASSUME NEW a \in Agents, LosePoll(a) PROVE Step
  BY <1>a, <1>15 DEF LosePoll, server, worker
<1>16. ASSUME NEW a \in Agents, TakeCommand(a) PROVE Step
  BY <1>a, <1>16 DEF TakeCommand, server, worker
<1>17. ASSUME NEW a \in Agents, PollEmpty(a) PROVE Step
  BY <1>a, <1>17 DEF PollEmpty, server, worker
<1>18. ASSUME NEW a \in Agents, PostResult(a) PROVE Step
  BY <1>a, <1>18 DEF PostResult, server, worker
<1>19. ASSUME NEW a \in Agents, LosePost(a) PROVE Step
  BY <1>a, <1>19 DEF LosePost, server, worker
<1>20. ASSUME NEW a \in Agents, Quit(a) PROVE Step
  BY <1>a, <1>20 DEF Quit, server, worker
<1>21. ASSUME NEW a \in Agents, Kill(a) PROVE Step
  BY <1>a, <1>21 DEF Kill, server, worker
<1>22. ASSUME NEW a \in Agents, Leave(a) PROVE Step
  BY <1>a, <1>22 DEF Leave, Close, server, worker
<1>23. CASE UNCHANGED vars
  BY <1>a, <1>23 DEF vars, server, worker
<1>24. QED
  BY <1>1, <1>2, <1>3, <1>4, <1>5, <1>6, <1>7, <1>8, <1>9, <1>10, <1>11, <1>12,
     <1>13, <1>14, <1>15, <1>16, <1>17, <1>18, <1>19, <1>20, <1>21, <1>22, <1>23
     DEF Next, CallStep, AgentStep

\* What the agent loop may rely on for a call with is_remote=true: the command
\* is carried out at most once, and a result that is returned is its own.
THEOREM PromiseKept == Spec => KeepsPromise
<1>1. Init => RC!Init
  BY DEF Init, RC!Init, StatusOf
<1>2. Init => CommandInv
  BY DEF Init, CommandInv
<1> QED
  BY <1>1, <1>2, TypeCorrect, CommandStep, PromiseStep, PTL DEF Spec,
     KeepsPromise, RC!Spec

-----------------------------------------------------------------------------
(* Owners and revocation *)

\* A command stands in the queue, and is in the hands, of a session of its own
\* account. An agent is started for one session, which exists.
OwnerInv ==
  /\ \A s \in Sessions : session[s] = "none" => queue[s] = <<>>
  /\ \A a \in Agents : \A s \in key[a] : session[s] # "none"
  /\ \A a \in Agents : \A s, t \in key[a] : s = t
  /\ \A a \in Agents : agent[a] = "off" => held[a] = NoCall
  /\ \A s \in Sessions : \A i \in DOMAIN queue[s] : account[s] = OwnerOf[queue[s][i]]
  /\ CommandsStayWithOwner

\* Every step keeps commands with their accounts.
LEMMA OwnerStep == TypeOK /\ OwnerInv /\ [Next]_vars => OwnerInv'
<1>1. SUFFICES ASSUME TypeOK, OwnerInv, [Next]_vars PROVE OwnerInv'
  OBVIOUS
<1> USE DEF OwnerInv, CommandsStayWithOwner, TypeOK, Active
<1>2. ASSUME NEW o \in Owners, NEW s \in Sessions, Create(o, s) PROVE OwnerInv'
  BY <1>1, <1>2 DEF Create, server, worker
<1>3. ASSUME NEW s \in Sessions, Revoke(s) PROVE OwnerInv'
  BY <1>1, <1>3 DEF Revoke, Close, Active, server, worker
<1>4. ASSUME NEW s \in Sessions, LeaseExpires(s) PROVE OwnerInv'
  BY <1>1, <1>4 DEF LeaseExpires, server, worker
<1>5. ASSUME Restart PROVE OwnerInv'
  BY <1>1, <1>5 DEF Restart, server, worker
<1>6. ASSUME NEW c \in Calls, Refuse(c) PROVE OwnerInv'
  BY <1>1, <1>6 DEF Refuse, server, worker
<1>7. ASSUME NEW c \in Calls, Dispatch(c) PROVE OwnerInv'
  BY <1>1, <1>7 DEF Dispatch, OwnerSessions, server, worker
<1>8. ASSUME NEW c \in Calls, Return(c) PROVE OwnerInv'
  BY <1>1, <1>8 DEF Return, EndWait, server, worker
<1>9. ASSUME NEW c \in Calls, Raise(c) PROVE OwnerInv'
  BY <1>1, <1>9 DEF Raise, EndWait, server, worker
<1>10. ASSUME NEW c \in Calls, Timeout(c) PROVE OwnerInv'
  BY <1>1, <1>10 DEF Timeout, EndWait, server, worker
<1>11. ASSUME NEW c \in Calls, Cancel(c) PROVE OwnerInv'
  BY <1>1, <1>11 DEF Cancel, EndWait, server, worker
<1>12. ASSUME NEW c \in Calls, WorkerEnds(c) PROVE OwnerInv'
  BY <1>1, <1>12 DEF WorkerEnds, server, worker
<1>13. ASSUME NEW a \in Agents, NEW s \in Sessions, Start(a, s) PROVE OwnerInv'
  BY <1>1, <1>13 DEF Start, server, worker
<1>14. ASSUME NEW a \in Agents, OpenPoll(a) PROVE OwnerInv'
  BY <1>1, <1>14 DEF OpenPoll, server, worker
<1>15. ASSUME NEW a \in Agents, LosePoll(a) PROVE OwnerInv'
  BY <1>1, <1>15 DEF LosePoll, Lose, server, worker
<1>16. ASSUME NEW a \in Agents, TakeCommand(a) PROVE OwnerInv'
  <2>1. PICK s \in key[a] :
          /\ queue[s] # <<>>
          /\ queue' = [queue EXCEPT ![s] = Tail(@)]
          /\ \/ /\ agent' = [agent EXCEPT ![a] = "executing"]
                /\ held' = [held EXCEPT ![a] = Head(queue[s])]
             \/ /\ agent' = [agent EXCEPT ![a] = "leaving"]
                /\ UNCHANGED held
             \/ UNCHANGED <<agent, held>>
    BY <1>16 DEF TakeCommand
  <2>2. UNCHANGED <<session, account, key>>
    BY <1>16 DEF TakeCommand
  <2>3. s \in Sessions /\ queue[s] \in Seq(Calls)
    BY <1>1
  <2>4. 1 \in DOMAIN queue[s] /\ Head(queue[s]) = queue[s][1]
    BY <2>1, <2>3
  <2>5. \A t \in Sessions : \A i \in DOMAIN queue'[t] :
          \E j \in DOMAIN queue[t] : queue'[t][i] = queue[t][j]
    <3>1. \A i \in DOMAIN Tail(queue[s]) :
            i + 1 \in DOMAIN queue[s] /\ Tail(queue[s])[i] = queue[s][i + 1]
      BY <2>1, <2>3
    <3> QED
      BY <1>1, <2>1, <2>3, <3>1
  <2>6. session[s] # "none" /\ account[s] = OwnerOf[Head(queue[s])]
    BY <1>1, <2>3, <2>4
  <2>7. \A t \in Sessions : session'[t] = "none" => queue'[t] = <<>>
    BY <1>1, <2>1, <2>2, <2>6
  <2>8. \A t \in Sessions : \A i \in DOMAIN queue'[t] : account'[t] = OwnerOf[queue'[t][i]]
    BY <1>1, <2>2, <2>5
  <2>9. \A b \in Agents : agent'[b] = "off" => held'[b] = NoCall
    BY <1>1, <2>1
  <2>10. CommandsStayWithOwner'
    BY <1>1, <2>1, <2>2, <2>6
  <2> QED
    BY <1>1, <2>2, <2>7, <2>8, <2>9, <2>10
<1>17. ASSUME NEW a \in Agents, PollEmpty(a) PROVE OwnerInv'
  BY <1>1, <1>17 DEF PollEmpty, server, worker
<1>18. ASSUME NEW a \in Agents, PostResult(a) PROVE OwnerInv'
  <2>1. /\ UNCHANGED held \/ held' = [held EXCEPT ![a] = NoCall]
        /\ agent' = [agent EXCEPT ![a] = "ready"] \/ agent' = [agent EXCEPT ![a] = "leaving"]
        /\ UNCHANGED <<session, account, queue, key>>
    BY <1>18 DEF PostResult
  <2>2. CommandsStayWithOwner'
    BY <1>1, <2>1
  <2>3. \A b \in Agents : agent'[b] = "off" => held'[b] = NoCall
    BY <1>1, <2>1
  <2> QED
    BY <1>1, <2>1, <2>2, <2>3
<1>19. ASSUME NEW a \in Agents, LosePost(a) PROVE OwnerInv'
  BY <1>1, <1>19 DEF LosePost, Lose, server, worker
<1>20. ASSUME NEW a \in Agents, Quit(a) PROVE OwnerInv'
  BY <1>1, <1>20 DEF Quit, server, worker
<1>21. ASSUME NEW a \in Agents, Kill(a) PROVE OwnerInv'
  BY <1>1, <1>21 DEF Kill, server, worker
<1>22. ASSUME NEW a \in Agents, Leave(a) PROVE OwnerInv'
  BY <1>1, <1>22 DEF Leave, Close, Active, Lose, Deliver, server, worker
<1>23. CASE UNCHANGED vars
  BY <1>1, <1>23 DEF vars, server, worker
<1>24. QED
  BY <1>1, <1>2, <1>3, <1>4, <1>5, <1>6, <1>7, <1>8, <1>9, <1>10, <1>11, <1>12,
     <1>13, <1>14, <1>15, <1>16, <1>17, <1>18, <1>19, <1>20, <1>21, <1>22, <1>23
     DEF Next, CallStep, AgentStep

\* A PC carries out commands of the account that connected it only
\* (routing.py:29-33, session.py:124-126).
THEOREM CommandsStay == Spec => []CommandsStayWithOwner
<1>1. Init => OwnerInv
  BY DEF Init, OwnerInv, CommandsStayWithOwner
<1>2. OwnerInv => CommandsStayWithOwner
  BY DEF OwnerInv
<1> QED
  BY <1>1, <1>2, TypeCorrect, OwnerStep, PTL DEF Spec

\* An agent is given a command only by a poll that has looked at the session
\* again after its wait (session.py:149).
THEOREM RevocationHolds == Spec => NoDeliveryAfterRevocation
<1> DEFINE Delivered ==
      \A a \in Agents : held'[a] \notin {held[a], NoCall} => \A s \in key[a] : Active(s)
<1>1. ASSUME TypeOK, OwnerInv, [Next]_vars PROVE Delivered \/ UNCHANGED vars
  <2> USE DEF TypeOK, OwnerInv
  <2>2. ASSUME NEW o \in Owners, NEW s \in Sessions, Create(o, s) PROVE Delivered
    BY <1>1, <2>2 DEF Create, server, worker
  <2>3. ASSUME NEW s \in Sessions, Revoke(s) PROVE Delivered
    BY <1>1, <2>3 DEF Revoke, Close, Active, server, worker
  <2>4. ASSUME NEW s \in Sessions, LeaseExpires(s) PROVE Delivered
    BY <1>1, <2>4 DEF LeaseExpires, server, worker
  <2>5. ASSUME Restart PROVE Delivered
    BY <1>1, <2>5 DEF Restart, server, worker
  <2>6. ASSUME NEW c \in Calls, Refuse(c) PROVE Delivered
    BY <1>1, <2>6 DEF Refuse, server, worker
  <2>7. ASSUME NEW c \in Calls, Dispatch(c) PROVE Delivered
    BY <1>1, <2>7 DEF Dispatch, OwnerSessions, server, worker
  <2>8. ASSUME NEW c \in Calls, Return(c) PROVE Delivered
    BY <1>1, <2>8 DEF Return, EndWait, server, worker
  <2>9. ASSUME NEW c \in Calls, Raise(c) PROVE Delivered
    BY <1>1, <2>9 DEF Raise, EndWait, server, worker
  <2>10. ASSUME NEW c \in Calls, Timeout(c) PROVE Delivered
    BY <1>1, <2>10 DEF Timeout, EndWait, server, worker
  <2>11. ASSUME NEW c \in Calls, Cancel(c) PROVE Delivered
    BY <1>1, <2>11 DEF Cancel, EndWait, server, worker
  <2>12. ASSUME NEW c \in Calls, WorkerEnds(c) PROVE Delivered
    BY <1>1, <2>12 DEF WorkerEnds, server, worker
  <2>13. ASSUME NEW a \in Agents, NEW s \in Sessions, Start(a, s) PROVE Delivered
    BY <1>1, <2>13 DEF Start, server, worker
  <2>14. ASSUME NEW a \in Agents, OpenPoll(a) PROVE Delivered
    BY <1>1, <2>14 DEF OpenPoll, server, worker
  <2>15. ASSUME NEW a \in Agents, LosePoll(a) PROVE Delivered
    BY <1>1, <2>15 DEF LosePoll, Lose, server, worker
  <2>16. ASSUME NEW a \in Agents, TakeCommand(a) PROVE Delivered
    <3>1. \/ UNCHANGED held
          \/ /\ \E s \in key[a] : Active(s)
             /\ \E c : held' = [held EXCEPT ![a] = c]
      BY <2>16 DEF TakeCommand
    <3> QED
      BY <1>1, <3>1
  <2>17. ASSUME NEW a \in Agents, PollEmpty(a) PROVE Delivered
    BY <1>1, <2>17 DEF PollEmpty, server, worker
  <2>18. ASSUME NEW a \in Agents, PostResult(a) PROVE Delivered
    <3>1. UNCHANGED held \/ held' = [held EXCEPT ![a] = NoCall]
      BY <2>18 DEF PostResult
    <3> QED
      BY <1>1, <3>1
  <2>19. ASSUME NEW a \in Agents, LosePost(a) PROVE Delivered
    BY <1>1, <2>19 DEF LosePost, Lose, server, worker
  <2>20. ASSUME NEW a \in Agents, Quit(a) PROVE Delivered
    BY <1>1, <2>20 DEF Quit, server, worker
  <2>21. ASSUME NEW a \in Agents, Kill(a) PROVE Delivered
    BY <1>1, <2>21 DEF Kill, server, worker
  <2>22. ASSUME NEW a \in Agents, Leave(a) PROVE Delivered
    BY <1>1, <2>22 DEF Leave, Close, Active, Lose, Deliver, server, worker
  <2>23. CASE UNCHANGED vars
    BY <1>1, <2>23 DEF vars, server, worker
  <2>24. QED
    BY <1>1, <2>2, <2>3, <2>4, <2>5, <2>6, <2>7, <2>8, <2>9, <2>10, <2>11,
       <2>12, <2>13, <2>14, <2>15, <2>16, <2>17, <2>18, <2>19, <2>20, <2>21,
       <2>22, <2>23 DEF Next, CallStep, AgentStep
<1>2. Init => OwnerInv
  BY DEF Init, OwnerInv, CommandsStayWithOwner
<1>3. TypeOK /\ OwnerInv /\ [Next]_vars => [Delivered]_vars
  BY <1>1
<1> QED
  BY <1>2, <1>3, TypeCorrect, OwnerStep, PTL DEF Spec, NoDeliveryAfterRevocation
-----------------------------------------------------------------------------
(* Commands that somebody waits for *)

Busy(a) == agent[a] \in {"executing", "posting"}

\* While nothing is lost and nobody stops agents, every open poll has a listener.
\* An agent works on a command of its own session, which exists, and the call of
\* that command has been made.
HeldInv ==
  /\ lost = 0 /\ quit = {} => \A a \in poll : agent[a] = "polling"
  /\ \A c \in Calls : \A s \in target[c] : session[s] # "none"
  /\ \A a \in Agents : Busy(a) => target[held[a]] = key[a] /\ call[held[a]] # "idle"
  /\ CommandAccountedFor

\* A step that moves no command keeps all of this, if it revives no session, no
\* call and no request, and interrupts no agent without loss or stop.
LEMMA Calm ==
    ASSUME TypeOK, HeldInv, UNCHANGED <<queue, target, key>>,
           \A s \in Sessions : Active(s)' => Active(s) \/ session[s] = "none",
           \A s \in Sessions : session'[s] = "none" => session[s] = "none",
           \A c \in Calls : call'[c] \in {"idle", "waiting"} => call'[c] = call[c],
           \A c \in Calls : future'[c] = "pending" => future[c] = "pending",
           \A a \in Agents : Busy(a)' => Busy(a) /\ held'[a] = held[a],
           lost' = 0 /\ quit' = {} =>
             /\ lost = 0 /\ quit = {}
             /\ \A a \in poll' : agent'[a] = "polling"
             /\ \A a \in Agents : Busy(a) => Busy(a)' /\ held'[a] = held[a]
    PROVE  HeldInv'
<1> USE DEF HeldInv
<1>1. (lost = 0 /\ quit = {} => \A a \in poll : agent[a] = "polling")'
  OBVIOUS
<1>2. (\A c \in Calls : \A s \in target[c] : session[s] # "none")'
  BY DEF TypeOK
<1>3. (\A a \in Agents : Busy(a) => target[held[a]] = key[a] /\ call[held[a]] # "idle")'
  <2>1. \A a \in Agents : Busy(a) => held[a] \in Calls
    BY DEF TypeOK, Busy
  <2>2. QED
    BY <2>1
<1>4. CommandAccountedFor'
  <2>1. SUFFICES ASSUME NEW c \in Calls, NEW s \in target'[c], call'[c] = "waiting",
                        future'[c] = "pending", Active(s)', lost' = 0, quit' = {}
                 PROVE  \/ \E i \in DOMAIN queue'[s] : queue'[s][i] = c
                        \/ \E a \in Agents : Busy(a)' /\ held'[a] = c
    BY DEF CommandAccountedFor, Busy
  <2>2. s \in Sessions /\ s \in target[c] /\ session[s] # "none"
    BY <2>1 DEF TypeOK
  <2>3. /\ call[c] = "waiting" /\ future[c] = "pending" /\ Active(s)
        /\ lost = 0 /\ quit = {}
    BY <2>1, <2>2
  <2>4. \/ \E i \in DOMAIN queue[s] : queue[s][i] = c
        \/ \E a \in Agents : Busy(a) /\ held[a] = c
    BY <2>2, <2>3 DEF CommandAccountedFor, Busy
  <2>5. QED
    BY <2>1, <2>4
<1>5. QED
  BY <1>1, <1>2, <1>3, <1>4

\* A poll takes the first command of a queue.
LEMMA TakeHeld ==
    ASSUME TypeOK, CommandInv, OwnerInv, HeldInv, NEW a \in Agents, TakeCommand(a)
    PROVE  HeldInv'
<1>1. /\ a \in poll /\ poll' = poll \ {a}
      /\ UNCHANGED <<session, call, future, target, key, quit>>
  BY DEF TakeCommand
<1>2. PICK s \in key[a] :
        /\ queue[s] # <<>> /\ queue' = [queue EXCEPT ![s] = Tail(@)]
        /\ \/ /\ Active(s) /\ agent[a] = "polling" /\ lost' = lost
              /\ agent' = [agent EXCEPT ![a] = "executing"]
              /\ held' = [held EXCEPT ![a] = Head(queue[s])]
           \/ /\ agent[a] = "polling" /\ lost' = lost + 1 /\ held' = held
              /\ agent' = [agent EXCEPT ![a] = "leaving"]
           \/ /\ ~ Active(s) /\ agent[a] = "polling" /\ lost' = lost /\ held' = held
              /\ agent' = [agent EXCEPT ![a] = "leaving"]
           \/ agent[a] # "polling" /\ UNCHANGED <<agent, held, lost>>
  BY DEF TakeCommand, Lose, Deliver
<1>3. /\ s \in Sessions /\ key[a] = {s} /\ lost \in Nat
      /\ queue \in [Sessions -> Seq(Calls)] /\ queue[s] \in Seq(Calls)
  BY RemoteAssumption DEF TypeOK, OwnerInv
<1>4. /\ 1 \in DOMAIN queue[s] /\ Head(queue[s]) = queue[s][1]
      /\ \A i \in DOMAIN queue[s] : i = 1 \/ \E j \in DOMAIN Tail(queue[s]) : Tail(queue[s])[j] = queue[s][i]
  <2>1. Len(queue[s]) \in Nat /\ Len(queue[s]) > 0 /\ DOMAIN queue[s] = 1 .. Len(queue[s])
    BY <1>2, <1>3
  <2>2. DOMAIN Tail(queue[s]) = 1 .. Len(queue[s]) - 1
    BY <1>2, <1>3, <2>1
  <2>3. \A j \in 1 .. Len(queue[s]) - 1 : Tail(queue[s])[j] = queue[s][j + 1]
    BY <1>2, <1>3, <2>1
  <2>4. ASSUME NEW i \in DOMAIN queue[s], i # 1
        PROVE  \E j \in DOMAIN Tail(queue[s]) : Tail(queue[s])[j] = queue[s][i]
    <3>1. i - 1 \in 1 .. Len(queue[s]) - 1
      BY <2>1, <2>4
    <3>2. Tail(queue[s])[i - 1] = queue[s][i - 1 + 1] /\ i - 1 + 1 = i
      BY <2>1, <2>3, <2>4, <3>1
    <3>3. QED
      BY <2>2, <3>1, <3>2
  <2>5. QED
    BY <1>2, <1>3, <2>1, <2>4
<1> DEFINE first == Head(queue[s])
<1>5. first \in Calls /\ target[first] = {s} /\ call[first] # "idle"
  BY <1>3, <1>4 DEF CommandInv
<1> HIDE DEF first
<1>6. agent \in [Agents -> {"off", "ready", "polling", "executing", "posting", "leaving", "stopped"}]
      /\ held \in [Agents -> Calls \cup {NoCall}]
  BY DEF TypeOK
<1>7. \A b \in Agents \ {a} : agent'[b] = agent[b] /\ held'[b] = held[b]
  BY <1>2, <1>6
<1>8. (lost = 0 /\ quit = {} => \A b \in poll : agent[b] = "polling")'
  <2>1. lost' = 0 => lost = 0
    BY <1>2, <1>3
  <2>2. \A b \in poll' : b \in poll /\ agent'[b] = agent[b]
    BY <1>1, <1>7 DEF TypeOK
  <2>3. QED
    BY <1>1, <2>1, <2>2 DEF HeldInv
<1>9. (\A c \in Calls : \A t \in target[c] : session[t] # "none")'
  BY <1>1 DEF HeldInv
<1>10. (\A b \in Agents : Busy(b) => target[held[b]] = key[b] /\ call[held[b]] # "idle")'
  <2>1. Busy(a)' => held'[a] = first \/ (Busy(a) /\ held'[a] = held[a])
    BY <1>2, <1>6 DEF Busy, first
  <2>2. \A b \in Agents \ {a} : Busy(b)' <=> Busy(b)
    BY <1>7 DEF Busy
  <2>3. Busy(a)' => (target[held[a]] = key[a] /\ call[held[a]] # "idle")'
    <3>1. CASE held'[a] = first
      BY <1>1, <1>3, <1>5, <3>1
    <3>2. CASE Busy(a) /\ held'[a] = held[a]
      BY <1>1, <3>2 DEF HeldInv
    <3>3. QED
      BY <2>1, <3>1, <3>2
  <2>4. \A b \in Agents \ {a} : Busy(b)' => (target[held[b]] = key[b] /\ call[held[b]] # "idle")'
    BY <1>1, <1>7, <2>2 DEF HeldInv
  <2>5. QED
    BY <2>3, <2>4
<1>11. CommandAccountedFor'
  <2>1. SUFFICES ASSUME NEW c \in Calls, NEW t \in target'[c], call'[c] = "waiting",
                        future'[c] = "pending", Active(t)', lost' = 0, quit' = {}
                 PROVE  \/ \E i \in DOMAIN queue'[t] : queue'[t][i] = c
                        \/ \E b \in Agents : Busy(b)' /\ held'[b] = c
    BY DEF CommandAccountedFor, Busy
  <2>2. lost = 0 /\ quit = {} /\ lost' = lost /\ agent[a] = "polling"
    BY <1>1, <1>2, <1>3, <2>1 DEF HeldInv
  <2>3. /\ t \in target[c] /\ t \in Sessions /\ call[c] = "waiting" /\ future[c] = "pending"
        /\ Active(t) /\ quit = {}
    BY <1>1, <2>1 DEF Active, TypeOK
  <2>4. CASE \E b \in Agents : Busy(b) /\ held[b] = c
    BY <1>7, <2>2, <2>4 DEF Busy
  <2>5. CASE \E i \in DOMAIN queue[t] : queue[t][i] = c
    <3>1. CASE t # s
      BY <1>2, <1>3, <2>3, <2>5, <3>1
    <3>2. CASE t = s
      <4>1. agent' = [agent EXCEPT ![a] = "executing"] /\ held' = [held EXCEPT ![a] = first]
        BY <1>2, <1>3, <2>2, <2>3, <3>2 DEF first
      <4>2. Busy(a)' /\ held'[a] = first
        BY <1>6, <4>1 DEF Busy
      <4>3. queue'[s] = Tail(queue[s])
        BY <1>2, <1>3
      <4>4. PICK i \in DOMAIN queue[s] : queue[s][i] = c
        BY <2>5, <3>2
      <4>5. CASE i = 1
        BY <1>4, <4>2, <4>4, <4>5 DEF first
      <4>6. CASE \E j \in DOMAIN Tail(queue[s]) : Tail(queue[s])[j] = queue[s][i]
        BY <3>2, <4>3, <4>4, <4>6
      <4>7. QED
        BY <1>4, <4>5, <4>6
    <3>3. QED
      BY <3>1, <3>2
  <2>6. \/ \E i \in DOMAIN queue[t] : queue[t][i] = c
        \/ \E b \in Agents : Busy(b) /\ held[b] = c
    <3>1. CommandAccountedFor
      BY DEF HeldInv
    <3>2. QED
      BY <2>2, <2>3, <3>1 DEF CommandAccountedFor, Busy
  <2>7. QED
    BY <2>4, <2>5, <2>6
<1>12. QED
  BY <1>8, <1>9, <1>10, <1>11 DEF HeldInv

\* A result that is refused, or lost, is not one that somebody waits for.
LEMMA PostHeld ==
    ASSUME TypeOK, FlightInv, OwnerInv, HeldInv, NEW a \in Agents, PostResult(a)
    PROVE  HeldInv'
<1>1. agent[a] = "posting" /\ UNCHANGED <<session, queue, inFlight, call, target, key, poll, quit>>
  BY DEF PostResult
<1>2. PICK s \in key[a] :
        \/ Accepts(s, held[a]) /\ future' = [future EXCEPT ![held[a]] = outcome[held[a]]]
        \/ ~ Accepts(s, held[a]) /\ UNCHANGED future
  BY DEF PostResult
<1>3. /\ agent' = [agent EXCEPT ![a] = "ready"] \/ agent' = [agent EXCEPT ![a] = "leaving"]
      /\ held' = held \/ held' = [held EXCEPT ![a] = NoCall]
  BY DEF PostResult
<1>4. /\ agent \in [Agents -> {"off", "ready", "polling", "executing", "posting", "leaving", "stopped"}]
      /\ held \in [Agents -> Calls \cup {NoCall}]
      /\ held[a] \in Calls /\ outcome[held[a]] # "pending"
      /\ future \in [Calls -> {"none", "pending", "result", "error", "closed"}]
  BY <1>1 DEF TypeOK
<1>5. \A b \in Agents \ {a} : (Busy(b)' <=> Busy(b)) /\ held'[b] = held[b] /\ agent'[b] = agent[b]
  BY <1>3, <1>4 DEF Busy
<1>6. ~ Busy(a)' /\ Busy(a)
  BY <1>1, <1>3, <1>4 DEF Busy
<1>7. lost' = 0 => lost = 0
  <2>1. lost \in Nat
    BY RemoteAssumption DEF TypeOK
  <2>2. lost' = lost \/ lost' = lost + 1
    BY DEF PostResult, Lose, Deliver
  <2>3. QED
    BY <2>1, <2>2
<1>8. \A c \in Calls : future'[c] = "pending" => future[c] = "pending"
  BY <1>2, <1>4
<1>9. (lost = 0 /\ quit = {} => \A b \in poll : agent[b] = "polling")'
  <2>1. ASSUME lost' = 0, quit' = {} PROVE \A b \in poll' : agent'[b] = "polling"
    <3>1. \A b \in poll : b \in Agents /\ agent[b] = "polling"
      BY <1>1, <1>7, <2>1 DEF HeldInv, TypeOK
    <3>2. QED
      BY <1>1, <1>5, <3>1
  <2>2. QED
    BY <2>1
<1>10. (\A c \in Calls : \A t \in target[c] : session[t] # "none")'
  BY <1>1 DEF HeldInv
<1>11. (\A b \in Agents : Busy(b) => target[held[b]] = key[b] /\ call[held[b]] # "idle")'
  BY <1>1, <1>5, <1>6 DEF HeldInv
<1>12. CommandAccountedFor'
  <2>1. SUFFICES ASSUME NEW c \in Calls, NEW t \in target'[c], call'[c] = "waiting",
                        future'[c] = "pending", Active(t)', lost' = 0, quit' = {}
                 PROVE  \/ \E i \in DOMAIN queue'[t] : queue'[t][i] = c
                        \/ \E b \in Agents : Busy(b)' /\ held'[b] = c
    BY DEF CommandAccountedFor, Busy
  <2>2. /\ t \in target[c] /\ t \in Sessions /\ call[c] = "waiting" /\ future[c] = "pending"
        /\ Active(t) /\ lost = 0 /\ quit = {}
    BY <1>1, <1>7, <1>8, <2>1 DEF Active, TypeOK
  <2>3. CommandAccountedFor
    BY DEF HeldInv
  <2>4. \/ \E i \in DOMAIN queue[t] : queue[t][i] = c
        \/ \E b \in Agents : Busy(b) /\ held[b] = c
    BY <2>2, <2>3 DEF CommandAccountedFor, Busy
  <2>5. held[a] # c
    <3>1. SUFFICES ASSUME held[a] = c PROVE FALSE
      OBVIOUS
    <3>2. target[c] = key[a] /\ s = t
      <4>1. target[c] = key[a]
        BY <1>6, <3>1 DEF HeldInv
      <4>2. QED
        BY <2>2, <4>1 DEF OwnerInv
    <3>3. c \in inFlight[t]
      BY <2>2 DEF FlightInv
    <3>4. Accepts(s, held[a])
      BY <2>2, <3>1, <3>2, <3>3 DEF Accepts
    <3>5. future'[c] = outcome[c] /\ outcome[c] # "pending"
      BY <1>2, <1>4, <3>1, <3>4
    <3>6. QED
      BY <2>1, <3>5
  <2>6. QED
    BY <1>1, <1>5, <2>4, <2>5
<1>13. QED
  BY <1>9, <1>10, <1>11, <1>12 DEF HeldInv

\* A call is dispatched: its command is queued.
LEMMA DispatchHeld ==
    ASSUME TypeOK, HeldInv, NEW c \in Calls, Dispatch(c)
    PROVE  HeldInv'
<1>1. /\ call[c] = "idle" /\ call' = [call EXCEPT ![c] = "waiting"]
      /\ future' = [future EXCEPT ![c] = "pending"]
      /\ UNCHANGED <<session, agent, key, held, poll, quit, lost>>
  BY DEF Dispatch
<1>2. PICK s \in Sessions : /\ session[s] = "connected"
                            /\ queue' = [queue EXCEPT ![s] = Append(@, c)]
                            /\ target' = [target EXCEPT ![c] = {s}]
  BY DEF Dispatch, OwnerSessions
<1>3. /\ queue \in [Sessions -> Seq(Calls)] /\ target \in [Calls -> SUBSET Sessions]
      /\ \A a \in Agents : Busy(a) => held[a] \in Calls
      /\ DOMAIN call = Calls /\ DOMAIN future = Calls
  BY DEF TypeOK, Busy
<1>4. /\ Len(queue[s]) + 1 \in DOMAIN queue'[s] /\ queue'[s][Len(queue[s]) + 1] = c
      /\ \A i \in DOMAIN queue[s] : i \in DOMAIN queue'[s] /\ queue'[s][i] = queue[s][i]
      /\ \A t \in Sessions \ {s} : queue'[t] = queue[t]
  <2>1. queue'[s] = Append(queue[s], c) /\ queue[s] \in Seq(Calls)
    BY <1>2, <1>3
  <2>2. Len(queue[s]) \in Nat /\ DOMAIN queue[s] = 1 .. Len(queue[s])
        /\ DOMAIN queue'[s] = 1 .. Len(queue[s]) + 1
    BY <2>1
  <2>3. QED
    BY <1>2, <1>3, <2>1, <2>2
<1>5. \A d \in Calls \ {c} : call'[d] = call[d] /\ future'[d] = future[d] /\ target'[d] = target[d]
  BY <1>1, <1>2, <1>3
<1>6. \A a \in Agents : Busy(a)' <=> Busy(a)
  BY <1>1 DEF Busy
<1>7. (lost = 0 /\ quit = {} => \A b \in poll : agent[b] = "polling")'
  BY <1>1 DEF HeldInv
<1>8. (\A d \in Calls : \A t \in target[d] : session[t] # "none")'
  BY <1>1, <1>2, <1>3, <1>5 DEF HeldInv
<1>9. (\A b \in Agents : Busy(b) => target[held[b]] = key[b] /\ call[held[b]] # "idle")'
  <2>1. \A b \in Agents : Busy(b) => held[b] # c
    BY <1>1 DEF HeldInv
  <2>2. QED
    BY <1>1, <1>3, <1>5, <1>6, <2>1 DEF HeldInv
<1>10. CommandAccountedFor'
  <2>1. SUFFICES ASSUME NEW d \in Calls, NEW t \in target'[d], call'[d] = "waiting",
                        future'[d] = "pending", Active(t)', lost' = 0, quit' = {}
                 PROVE  \/ \E i \in DOMAIN queue'[t] : queue'[t][i] = d
                        \/ \E b \in Agents : Busy(b)' /\ held'[b] = d
    BY DEF CommandAccountedFor, Busy
  <2>2. CASE d = c
    <3>1. t = s
      BY <1>2, <1>3, <2>1, <2>2
    <3>2. QED
      BY <1>4, <2>2, <3>1
  <2>3. CASE d # c
    <3>1. /\ t \in target[d] /\ t \in Sessions /\ call[d] = "waiting" /\ future[d] = "pending"
          /\ Active(t) /\ lost = 0 /\ quit = {}
      BY <1>1, <1>3, <1>5, <2>1, <2>3 DEF Active
    <3>2. CommandAccountedFor
      BY DEF HeldInv
    <3>3. \/ \E i \in DOMAIN queue[t] : queue[t][i] = d
          \/ \E b \in Agents : Busy(b) /\ held[b] = d
      BY <3>1, <3>2 DEF CommandAccountedFor, Busy
    <3>4. CASE \E i \in DOMAIN queue[t] : queue[t][i] = d
      BY <1>4, <3>1, <3>4
    <3>5. CASE \E b \in Agents : Busy(b) /\ held[b] = d
      BY <1>1, <1>6, <3>5
    <3>6. QED
      BY <3>3, <3>4, <3>5
  <2>4. QED
    BY <2>2, <2>3
<1>11. QED
  BY <1>7, <1>8, <1>9, <1>10 DEF HeldInv

\* Every step accounts for the commands that somebody waits for.
LEMMA HeldStep ==
    TypeOK /\ FlightInv /\ CommandInv /\ OwnerInv /\ HeldInv /\ [Next]_vars => HeldInv'
<1>1. SUFFICES ASSUME TypeOK, FlightInv, CommandInv, OwnerInv, HeldInv, [Next]_vars
               PROVE  HeldInv'
  OBVIOUS
<1>a. /\ lost \in Nat
      /\ lost = 0 /\ quit = {} => \A b \in poll : b \in Agents /\ agent[b] = "polling"
  BY <1>1, RemoteAssumption DEF TypeOK, HeldInv
<1>b. /\ session \in [Sessions -> {"none", "pending", "connected", "expired", "closed"}]
      /\ call \in [Calls -> {"idle", "waiting", "refused", "returned", "failed",
                             "timedOut", "cancelled"}]
      /\ agent \in [Agents -> {"off", "ready", "polling", "executing", "posting",
                               "leaving", "stopped"}]
      /\ key \in [Agents -> SUBSET Sessions]
  BY <1>1 DEF TypeOK
<1>2. ASSUME NEW o \in Owners, NEW s \in Sessions, Create(o, s) PROVE HeldInv'
  BY <1>1, <1>a, <1>b, <1>2, Calm DEF Create, Active, Busy
<1>3. ASSUME NEW s \in Sessions, Revoke(s) PROVE HeldInv'
  BY <1>1, <1>a, <1>b, <1>3, Calm DEF Revoke, Close, Active, Busy
<1>4. ASSUME NEW s \in Sessions, LeaseExpires(s) PROVE HeldInv'
  BY <1>1, <1>a, <1>b, <1>4, Calm DEF LeaseExpires, Active, Busy
<1>5. ASSUME Restart PROVE HeldInv'
  <2>1. /\ \A c \in Calls : call'[c] # "waiting" /\ (call'[c] = "idle" <=> call[c] = "idle")
        /\ \A s \in Sessions : session'[s] = "none" <=> session[s] = "none"
        /\ poll' = {} /\ UNCHANGED <<target, key, held>>
        /\ \A a \in Agents : Busy(a)' <=> Busy(a)
    BY <1>b, <1>5 DEF Restart, Busy
  <2>2. CommandAccountedFor'
    BY <2>1 DEF CommandAccountedFor
  <2>3. \A a \in Agents : Busy(a) => held[a] \in Calls
    BY <1>1 DEF TypeOK, Busy
  <2>4. target \in [Calls -> SUBSET Sessions]
    BY <1>1 DEF TypeOK
  <2>5. QED
    BY <1>1, <2>1, <2>2, <2>3, <2>4 DEF HeldInv
<1>6. ASSUME NEW c \in Calls, Refuse(c) PROVE HeldInv'
  BY <1>1, <1>a, <1>b, <1>6, Calm DEF Refuse, Active, Busy
<1>7. ASSUME NEW c \in Calls, Dispatch(c) PROVE HeldInv'
  BY <1>1, <1>7, DispatchHeld
<1>8. ASSUME NEW c \in Calls, Return(c) \/ Raise(c) \/ Timeout(c) \/ Cancel(c) PROVE HeldInv'
  <2>1. PICK end \in {"returned", "failed", "timedOut", "cancelled"} : EndWait(c, end)
    BY <1>8 DEF Return, Raise, Timeout, Cancel
  <2>2. QED
    BY <1>1, <1>a, <1>b, <2>1, Calm DEF EndWait, Active, Busy
<1>9. ASSUME NEW c \in Calls, WorkerEnds(c) PROVE HeldInv'
  BY <1>1, <1>a, <1>b, <1>9, Calm DEF WorkerEnds, server, Active, Busy
<1>10. ASSUME NEW a \in Agents, NEW s \in Sessions, Start(a, s) PROVE HeldInv'
  <2>1. /\ agent[a] = "off" /\ agent' = [agent EXCEPT ![a] = "ready"]
        /\ UNCHANGED <<session, queue, future, call, target, poll, held, quit, lost>>
        /\ \A b \in Agents \ {a} : key'[b] = key[b]
    BY <1>b, <1>10 DEF Start, server
  <2>2. \A b \in Agents : (Busy(b)' <=> Busy(b)) /\ (Busy(b) => b # a)
    BY <1>b, <2>1 DEF Busy
  <2>3. (lost = 0 /\ quit = {} => \A b \in poll : agent[b] = "polling")'
    BY <1>a, <1>b, <2>1
  <2>4. (\A b \in Agents : Busy(b) => target[held[b]] = key[b] /\ call[held[b]] # "idle")'
    BY <1>1, <2>1, <2>2 DEF HeldInv
  <2>5. CommandAccountedFor'
    <3>1. CommandAccountedFor
      BY <1>1 DEF HeldInv
    <3>2. \A b \in Agents : agent'[b] \in {"executing", "posting"} <=> agent[b] \in {"executing", "posting"}
      BY <2>2 DEF Busy
    <3>3. QED
      BY <2>1, <3>1, <3>2 DEF CommandAccountedFor, Active
  <2>6. QED
    BY <1>1, <2>1, <2>3, <2>4, <2>5 DEF HeldInv
<1>11. ASSUME NEW a \in Agents, OpenPoll(a) PROVE HeldInv'
  <2>1. /\ agent[a] = "ready" /\ UNCHANGED <<queue, future, call, target, key, held, quit, lost>>
    BY <1>11 DEF OpenPoll
  <2>2. PICK s \in key[a] :
          \/ /\ Active(s) /\ session' = [session EXCEPT ![s] = "connected"]
             /\ poll' = poll \cup {a} /\ agent' = [agent EXCEPT ![a] = "polling"]
          \/ agent' = [agent EXCEPT ![a] = "leaving"] /\ UNCHANGED <<session, poll>>
    BY <1>11 DEF OpenPoll
  <2>3. s \in Sessions
    BY <1>b
  <2>4. \A b \in Agents : Busy(b)' <=> Busy(b)
    BY <1>b, <2>1, <2>2 DEF Busy
  <2>5. \A t \in Sessions : (Active(t)' <=> Active(t)) /\ (session'[t] = "none" <=> session[t] = "none")
    BY <1>b, <2>2, <2>3 DEF Active
  <2>6. lost' = 0 /\ quit' = {} => \A b \in poll' : agent'[b] = "polling"
    BY <1>a, <1>b, <2>1, <2>2
  <2>7. QED
    BY <1>1, <2>1, <2>4, <2>5, <2>6, Calm
<1>12. ASSUME NEW a \in Agents, LosePoll(a) \/ LosePost(a) PROVE HeldInv'
  BY <1>1, <1>a, <1>b, <1>12, Calm DEF LosePoll, LosePost, Lose, server, Active, Busy
<1>13. ASSUME NEW a \in Agents, TakeCommand(a) PROVE HeldInv'
  BY <1>1, <1>13, TakeHeld
<1>14. ASSUME NEW a \in Agents, PollEmpty(a) PROVE HeldInv'
  BY <1>1, <1>a, <1>b, <1>14, Calm DEF PollEmpty, Active, Busy
<1>15. ASSUME NEW a \in Agents, PostResult(a) PROVE HeldInv'
  BY <1>1, <1>15, PostHeld
<1>16. ASSUME NEW a \in Agents, Quit(a) \/ Kill(a) PROVE HeldInv'
  BY <1>1, <1>a, <1>b, <1>16, Calm DEF Quit, Kill, server, Active, Busy
<1>17. ASSUME NEW a \in Agents, Leave(a) PROVE HeldInv'
  <2>1. /\ agent[a] = "leaving" /\ agent' = [agent EXCEPT ![a] = "stopped"]
        /\ UNCHANGED <<queue, call, target, key, held, poll, quit>>
        /\ lost' = lost \/ lost' = lost + 1
    BY <1>17 DEF Leave, Close, Lose, Deliver
  <2>2. \/ UNCHANGED <<session, future>>
        \/ \E s \in key[a] : Close(s)
    BY <1>17 DEF Leave
  <2>3. /\ \A s \in Sessions : Active(s)' => Active(s)
        /\ \A s \in Sessions : session'[s] = "none" => session[s] = "none"
        /\ \A c \in Calls : future'[c] = "pending" => future[c] = "pending"
    <3>1. CASE UNCHANGED <<session, future>>
      BY <3>1 DEF Active
    <3>2. CASE \E s \in key[a] : Close(s)
      BY <1>b, <3>2 DEF Close, Active
    <3>3. QED
      BY <2>2, <3>1, <3>2
  <2>4. \A b \in Agents : Busy(b)' <=> Busy(b)
    BY <1>b, <2>1 DEF Busy
  <2>5. lost' = 0 /\ quit' = {} => lost = 0 /\ quit = {} /\ \A b \in poll' : agent'[b] = "polling"
    BY <1>a, <1>b, <2>1
  <2>6. QED
    BY <1>1, <2>1, <2>3, <2>4, <2>5, Calm
<1>18. CASE UNCHANGED vars
  BY <1>1, <1>a, <1>18, Calm DEF vars, server, worker, Active, Busy
<1>19. QED
  BY <1>1, <1>2, <1>3, <1>4, <1>5, <1>6, <1>7, <1>8, <1>9, <1>10, <1>11, <1>12,
     <1>13, <1>14, <1>15, <1>16, <1>17, <1>18 DEF Next, CallStep, AgentStep

\* Without losses and without stopped agents, a command whose caller waits at a
\* valid session is in its queue or with an agent: poll, resolve, close and the
\* end of leases drop no command that is still waited for, however many windows
\* use one key and however late results are (session.py:124-177).
THEOREM CommandsAreKept == Spec => []CommandAccountedFor
<1>1. Init => FlightInv /\ CommandInv /\ OwnerInv /\ HeldInv
  BY DEF Init, FlightInv, CommandInv, OwnerInv, CommandsStayWithOwner, HeldInv, Busy,
         CommandAccountedFor
<1>2. HeldInv => CommandAccountedFor
  BY DEF HeldInv
<1>3. QED
  BY <1>1, <1>2, TypeCorrect, FlightStep, CommandStep, OwnerStep, HeldStep, PTL DEF Spec
=============================================================================
