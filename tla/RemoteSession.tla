---------------------------- MODULE RemoteSession ----------------------------
(***************************************************************************)
(* Remote execution: the sessions of mai/remote/session.py, the tool calls *)
(* routed to them (routing.py, target.py), the /remote endpoints of        *)
(* app/server.py and the PowerShell agents that poll for commands          *)
(* (app/static/remote-agent.ps1).                                          *)
(*                                                                         *)
(* The methods of RemoteSessionManager run on one event loop and do not    *)
(* suspend but in poll, which waits for a command, and in execute, which   *)
(* waits for a result; each stretch between is one action here. The lock   *)
(* of create and close is never held across an await.                      *)
(***************************************************************************)
EXTENDS Naturals, Sequences

CONSTANTS
  Sessions,   \* ids create can draw
  Agents,     \* PowerShell processes, each started once
  Calls,      \* tool calls with is_remote=true
  Owners,     \* accounts
  OwnerOf,    \* the account a call is made for
  NoOwner,    \* the owner of a session that has not been created
  NoCall,     \* held by an agent without a command
  MaxLost     \* bound: requests and replies the network loses

ASSUME RemoteAssumption ==
  /\ OwnerOf \in [Calls -> Owners]
  /\ NoOwner \notin Owners
  /\ NoCall \notin Calls
  /\ MaxLost \in Nat

VARIABLES
  session,    \* none, pending (not polled yet), connected, expired or closed
  account,    \* owner_id of a session
  queue,      \* session.pending: commands nobody has taken
  inFlight,   \* the keys of session.in_flight
  future,     \* of a call in flight
  call,       \* what the caller of execute sees
  target,     \* the sessions a call was dispatched to: none or one
  agent,      \* program point of an agent
  key,        \* the sessions an agent was started for: none or one
  held,       \* the command an agent works on
  poll,       \* agents for whom a poll handler waits in the server
  running,    \* commands a worker process has been given on the remote PC
  runs,       \* history: how often a command was carried out
  outcome,    \* what that gave
  quit,       \* history: agents stopped by the person in front of the PC
  lost        \* how many messages the network has lost

server == <<session, account, queue, inFlight, future, call, target, poll>>
worker == <<running, runs, outcome>>
vars == <<session, account, queue, inFlight, future, call, target, agent, key,
          held, poll, running, runs, outcome, quit, lost>>

Active(s) == session[s] \in {"pending", "connected"}

Of(a, s) == s \in key[a]

-----------------------------------------------------------------------------

(* Every variable has its type; an agent that executes or posts holds a    *)
(* command.                                                                *)
TypeOK ==
  /\ session \in [Sessions -> {"none", "pending", "connected", "expired", "closed"}]
  /\ account \in [Sessions -> Owners \cup {NoOwner}]
  /\ queue \in [Sessions -> Seq(Calls)]
  /\ inFlight \in [Sessions -> SUBSET Calls]
  /\ future \in [Calls -> {"none", "pending", "result", "error", "closed"}]
  /\ call \in [Calls -> {"idle", "waiting", "refused", "returned", "failed",
                         "timedOut", "cancelled"}]
  /\ target \in [Calls -> SUBSET Sessions]
  /\ agent \in [Agents -> {"off", "ready", "polling", "executing", "posting",
                           "leaving", "stopped"}]
  /\ key \in [Agents -> SUBSET Sessions]
  /\ held \in [Agents -> Calls \cup {NoCall}]
  /\ poll \in SUBSET Agents
  /\ running \in SUBSET Calls
  /\ runs \in [Calls -> Nat]
  /\ outcome \in [Calls -> {"none", "result", "error"}]
  /\ quit \in SUBSET Agents
  /\ lost \in 0 .. MaxLost
  /\ \A a \in Agents : agent[a] \in {"executing", "posting"} => held[a] \in Calls

Init ==
  /\ session = [s \in Sessions |-> "none"]
  /\ account = [s \in Sessions |-> NoOwner]
  /\ queue = [s \in Sessions |-> <<>>]
  /\ inFlight = [s \in Sessions |-> {}]
  /\ future = [c \in Calls |-> "none"]
  /\ call = [c \in Calls |-> "idle"]
  /\ target = [c \in Calls |-> {}]
  /\ agent = [a \in Agents |-> "off"]
  /\ key = [a \in Agents |-> {}]
  /\ held = [a \in Agents |-> NoCall]
  /\ poll = {}
  /\ running = {}
  /\ runs = [c \in Calls |-> 0]
  /\ outcome = [c \in Calls |-> "none"]
  /\ quit = {}
  /\ lost = 0

-----------------------------------------------------------------------------
(* Sessions.                                                               *)

(* POST /remote/sessions. A session that is still pending is handed out    *)
(* again, which changes nothing; one in use makes the request fail.        *)
Create(o, s) ==
  /\ session[s] = "none"
  /\ \A t \in Sessions : account[t] = o => ~ Active(t)
  /\ session' = [session EXCEPT ![s] = "pending"]
  /\ account' = [account EXCEPT ![s] = o]
  /\ UNCHANGED <<queue, inFlight, future, call, target, agent, key, held,
                 poll, worker, quit, lost>>

(* A close that forgets the requests without telling their callers.        *)
CloseSilently(s) ==
  /\ session' = [session EXCEPT ![s] = "closed"]
  /\ inFlight' = [inFlight EXCEPT ![s] = {}]
  /\ UNCHANGED <<account, queue, future, call, target>>

(* close: the callers are told, what is queued stays in the queue.         *)
Close(s) ==
  /\ session' = [session EXCEPT ![s] = "closed"]
  /\ future' = [c \in Calls |->
                  IF c \in inFlight[s] /\ future[c] = "pending" THEN "closed" ELSE future[c]]
  /\ inFlight' = [inFlight EXCEPT ![s] = {}]
  /\ UNCHANGED <<account, queue, call, target>>

(* DELETE /remote/sessions/{session_id} by the owner.                      *)
Revoke(s) ==
  /\ Active(s)
  /\ Close(s)
  /\ UNCHANGED <<agent, key, held, poll, worker, quit, lost>>

(* No poll and no result for the length of the lease. Every refresh is     *)
(* longer than a poll handler waits. Nothing runs when a lease ends: the   *)
(* callers are not told and the session stays in the manager.              *)
LeaseExpires(s) ==
  /\ Active(s)
  /\ \A a \in poll : ~ Of(a, s)
  /\ session' = [session EXCEPT ![s] = "expired"]
  /\ UNCHANGED <<account, queue, inFlight, future, call, target, agent, key,
                 held, poll, worker, quit, lost>>

(* The server's process dies and comes back with no sessions, and takes    *)
(* its callers with it. The agents' open requests fail.                    *)
Restart ==
  /\ session' = [s \in Sessions |-> IF session[s] = "none" THEN "none" ELSE "closed"]
  /\ queue' = [s \in Sessions |-> <<>>]
  /\ inFlight' = [s \in Sessions |-> {}]
  /\ future' = [c \in Calls |-> "none"]
  /\ call' = [c \in Calls |-> IF call[c] = "waiting" THEN "cancelled" ELSE call[c]]
  /\ agent' = [a \in Agents |-> IF agent[a] = "polling" THEN "leaving" ELSE agent[a]]
  /\ poll' = {}
  /\ UNCHANGED <<account, target, key, held, worker, quit, lost>>

-----------------------------------------------------------------------------
(* Callers: RemoteSessionManager.execute, reached through routing.invoke.  *)

(* owner_session: the session of the account, if there is one.             *)
OwnerSessions(o) == {s \in Sessions : account[s] = o /\ Active(s)}

(* No session, or one no agent has polled yet.                             *)
Refuse(c) ==
  /\ call[c] = "idle"
  /\ \A s \in OwnerSessions(OwnerOf[c]) : session[s] # "connected"
  /\ call' = [call EXCEPT ![c] = "refused"]
  /\ UNCHANGED <<session, account, queue, inFlight, future, target, agent, key,
                 held, poll, worker, quit, lost>>

Dispatch(c) ==
  /\ call[c] = "idle"
  /\ \E s \in OwnerSessions(OwnerOf[c]) :
       /\ session[s] = "connected"
       /\ inFlight' = [inFlight EXCEPT ![s] = @ \cup {c}]
       /\ queue' = [queue EXCEPT ![s] = Append(@, c)]
       /\ target' = [target EXCEPT ![c] = {s}]
  /\ future' = [future EXCEPT ![c] = "pending"]
  /\ call' = [call EXCEPT ![c] = "waiting"]
  /\ UNCHANGED <<session, account, agent, key, held, poll, worker, quit, lost>>

(* The end of the wait, with the finally clause that drops the entry.      *)
EndWait(c, end) ==
  /\ call[c] = "waiting"
  /\ call' = [call EXCEPT ![c] = end]
  /\ inFlight' = [s \in Sessions |-> inFlight[s] \ {c}]
  /\ UNCHANGED <<session, account, queue, future, target, agent, key, held,
                 poll, worker, quit, lost>>

Return(c) == future[c] = "result" /\ EndWait(c, "returned")

Raise(c) == future[c] \in {"error", "closed"} /\ EndWait(c, "failed")

(* 120 seconds have passed. The result may have come in the same tick: in  *)
(* Python 3.12 the time limit then still wins.                             *)
Timeout(c) == EndWait(c, "timedOut")

(* The chat job is cancelled. Its command stays in the queue or with the   *)
(* agent.                                                                  *)
Cancel(c) == EndWait(c, "cancelled")

-----------------------------------------------------------------------------
(* Agents. A request of theirs is sent and handled in one action, except   *)
(* a poll, which waits in the server.                                      *)

Lose == lost < MaxLost /\ lost' = lost + 1

Deliver == UNCHANGED lost

(* The bootstrap, which needs a valid session. A key can be pasted into    *)
(* any number of windows.                                                  *)
Start(a, s) ==
  /\ agent[a] = "off"
  /\ Active(s)
  /\ agent' = [agent EXCEPT ![a] = "ready"]
  /\ key' = [key EXCEPT ![a] = {s}]
  /\ UNCHANGED <<server, held, worker, quit, lost>>

(* The first half of poll: a request for a session that is gone is         *)
(* answered with 403, on which the script leaves its loop.                 *)
OpenPoll(a) ==
  /\ agent[a] = "ready"
  /\ \E s \in key[a] :
       IF Active(s)
       THEN /\ session' = [session EXCEPT ![s] = "connected"]
            /\ poll' = poll \cup {a}
            /\ agent' = [agent EXCEPT ![a] = "polling"]
       ELSE /\ agent' = [agent EXCEPT ![a] = "leaving"]
            /\ UNCHANGED <<session, poll>>
  /\ UNCHANGED <<account, queue, inFlight, future, call, target, key, held,
                 worker, quit, lost>>

(* The poll does not arrive, or its connection breaks while the handler in *)
(* the server goes on waiting.                                             *)
LosePoll(a) ==
  /\ agent[a] \in {"ready", "polling"}
  /\ Lose
  /\ agent' = [agent EXCEPT ![a] = "leaving"]
  /\ UNCHANGED <<server, key, held, worker, quit>>

(* A poll that does not look at the session again after its wait.          *)
TakeUnchecked(a) ==
  /\ a \in poll
  /\ agent[a] = "polling"
  /\ poll' = poll \ {a}
  /\ \E s \in key[a] :
       /\ queue[s] # <<>>
       /\ queue' = [queue EXCEPT ![s] = Tail(@)]
       /\ held' = [held EXCEPT ![a] = Head(queue[s])]
       /\ running' = running \cup {Head(queue[s])}
  /\ agent' = [agent EXCEPT ![a] = "executing"]
  /\ UNCHANGED <<session, account, inFlight, future, call, target, key, runs,
                 outcome, quit, lost>>

(* A poll that leaves the command in the queue until its result arrives.   *)
TakeLeavingQueued(a) ==
  /\ a \in poll
  /\ agent[a] = "polling"
  /\ poll' = poll \ {a}
  /\ \E s \in key[a] :
       /\ Active(s)
       /\ queue[s] # <<>>
       /\ held' = [held EXCEPT ![a] = Head(queue[s])]
       /\ running' = running \cup {Head(queue[s])}
  /\ agent' = [agent EXCEPT ![a] = "executing"]
  /\ UNCHANGED <<session, account, queue, inFlight, future, call, target, key,
                 runs, outcome, quit, lost>>

(* The second half of poll. A command that is taken for a session that is  *)
(* gone by then, or for an agent that no longer listens, is dropped.       *)
TakeCommand(a) ==
  /\ a \in poll
  /\ poll' = poll \ {a}
  /\ \E s \in key[a] :
       /\ queue[s] # <<>>
       /\ queue' = [queue EXCEPT ![s] = Tail(@)]
       /\ \/ /\ Active(s)
             /\ agent[a] = "polling"
             /\ agent' = [agent EXCEPT ![a] = "executing"]
             /\ held' = [held EXCEPT ![a] = Head(queue[s])]
             /\ running' = running \cup {Head(queue[s])}
             /\ Deliver
          \/ /\ Active(s)
             /\ agent[a] = "polling"
             /\ agent' = [agent EXCEPT ![a] = "leaving"]
             /\ Lose
             /\ UNCHANGED <<held, running>>
          \/ /\ ~ Active(s)
             /\ agent[a] = "polling"
             /\ agent' = [agent EXCEPT ![a] = "leaving"]
             /\ Deliver
             /\ UNCHANGED <<held, running>>
          \/ /\ agent[a] # "polling"
             /\ Deliver
             /\ UNCHANGED <<agent, held, running>>
  /\ UNCHANGED <<session, account, inFlight, future, call, target, key, runs,
                 outcome, quit>>

(* A poll whose time limit swallows a command that came just before it.    *)
PollEmptyDropping(a) ==
  /\ a \in poll
  /\ agent[a] = "polling"
  /\ poll' = poll \ {a}
  /\ \E s \in key[a] :
       /\ Active(s)
       /\ queue' = [queue EXCEPT ![s] = IF @ = <<>> THEN <<>> ELSE Tail(@)]
  /\ agent' = [agent EXCEPT ![a] = "ready"]
  /\ UNCHANGED <<session, account, inFlight, future, call, target, key, held,
                 worker, quit, lost>>

(* Fifteen seconds without a command.                                      *)
PollEmpty(a) ==
  /\ a \in poll
  /\ \A s \in key[a] : queue[s] = <<>>
  /\ poll' = poll \ {a}
  /\ \/ /\ agent[a] = "polling"
        /\ \A s \in key[a] : Active(s)
        /\ agent' = [agent EXCEPT ![a] = "ready"]
     \/ /\ agent[a] = "polling"
        /\ \E s \in key[a] : ~ Active(s)
        /\ agent' = [agent EXCEPT ![a] = "leaving"]
     \/ agent[a] # "polling" /\ UNCHANGED agent
  /\ UNCHANGED <<session, account, queue, inFlight, future, call, target, key,
                 held, worker, quit, lost>>

(* The worker process has run the tool, or could not be started, or was    *)
(* killed after 110 seconds; or it outlives the agent that started it.     *)
WorkerEnds(c) ==
  /\ c \in running
  /\ running' = running \ {c}
  /\ runs' = [runs EXCEPT ![c] = @ + 1]
  /\ \E o \in {"result", "error"} : outcome' = [outcome EXCEPT ![c] = o]
  /\ agent' = [a \in Agents |->
                 IF agent[a] = "executing" /\ held[a] = c THEN "posting" ELSE agent[a]]
  /\ UNCHANGED <<server, key, held, quit, lost>>

(* resolve: the session is checked first, then the request.                *)
Accepts(s, c) == Active(s) /\ c \in inFlight[s] /\ future[c] = "pending"

(* A resolve that renews the lease before it looks at it.                  *)
PostResultRenewing(a) ==
  /\ agent[a] = "posting"
  /\ \E s \in key[a] :
       /\ session' = [session EXCEPT ![s] = IF @ = "expired" THEN "connected" ELSE @]
       /\ IF held[a] \in inFlight[s] /\ future[held[a]] = "pending"
          THEN /\ future' = [future EXCEPT ![held[a]] = outcome[held[a]]]
               /\ agent' = [agent EXCEPT ![a] = "ready"]
               /\ held' = [held EXCEPT ![a] = NoCall]
          ELSE /\ agent' = [agent EXCEPT ![a] = "leaving"]
               /\ UNCHANGED <<future, held>>
  /\ UNCHANGED <<account, queue, inFlight, call, target, key, poll, worker,
                 quit, lost>>

(* POST of the result. 409 makes Invoke-RestMethod throw outside the       *)
(* script's inner try, so the script leaves as after any failed request.   *)
PostResult(a) ==
  /\ agent[a] = "posting"
  /\ \E s \in key[a] :
       \/ /\ Accepts(s, held[a])
          /\ future' = [future EXCEPT ![held[a]] = outcome[held[a]]]
          /\ \/ /\ Deliver
                /\ agent' = [agent EXCEPT ![a] = "ready"]
                /\ held' = [held EXCEPT ![a] = NoCall]
             \/ /\ Lose
                /\ agent' = [agent EXCEPT ![a] = "leaving"]
                /\ UNCHANGED held
       \/ /\ ~ Accepts(s, held[a])
          /\ Deliver
          /\ agent' = [agent EXCEPT ![a] = "leaving"]
          /\ UNCHANGED <<future, held>>
  /\ UNCHANGED <<session, account, queue, inFlight, call, target, key, poll,
                 worker, quit>>

LosePost(a) ==
  /\ agent[a] = "posting"
  /\ Lose
  /\ agent' = [agent EXCEPT ![a] = "leaving"]
  /\ UNCHANGED <<server, key, held, worker, quit>>

(* Ctrl+C: the finally clause of the script still runs.                    *)
Quit(a) ==
  /\ agent[a] \in {"ready", "polling", "executing", "posting"}
  /\ agent' = [agent EXCEPT ![a] = "leaving"]
  /\ quit' = quit \cup {a}
  /\ UNCHANGED <<server, key, held, worker, lost>>

(* The window is closed or the PC dies: nothing more is sent.              *)
Kill(a) ==
  /\ agent[a] \notin {"off", "stopped"}
  /\ agent' = [agent EXCEPT ![a] = "stopped"]
  /\ quit' = quit \cup {a}
  /\ UNCHANGED <<server, key, held, worker, lost>>

(* The finally clause: DELETE /remote/agent/{session_id}, which closes a   *)
(* valid session for every agent that uses it.                             *)
Leave(a) ==
  /\ agent[a] = "leaving"
  /\ agent' = [agent EXCEPT ![a] = "stopped"]
  /\ \E s \in key[a] :
       \/ Active(s) /\ Close(s) /\ Deliver
       \/ ~ Active(s) /\ Deliver
            /\ UNCHANGED <<session, account, queue, inFlight, future, call, target>>
       \/ Lose /\ UNCHANGED <<session, account, queue, inFlight, future, call, target>>
  /\ UNCHANGED <<key, held, poll, worker, quit>>

-----------------------------------------------------------------------------

CallStep(c) ==
  \/ Refuse(c) \/ Dispatch(c) \/ Return(c) \/ Raise(c) \/ Timeout(c) \/ Cancel(c)
  \/ WorkerEnds(c)

AgentStep(a) ==
  \/ OpenPoll(a) \/ LosePoll(a) \/ TakeCommand(a) \/ PollEmpty(a)
  \/ PostResult(a) \/ LosePost(a) \/ Quit(a) \/ Kill(a) \/ Leave(a)

Next ==
  \/ \E s \in Sessions : \E o \in Owners : Create(o, s)
  \/ \E s \in Sessions : Revoke(s)
  \/ \E s \in Sessions : LeaseExpires(s)
  \/ Restart
  \/ \E c \in Calls : CallStep(c)
  \/ \E a \in Agents : \E s \in Sessions : Start(a, s)
  \/ \E a \in Agents : AgentStep(a)

Spec == Init /\ [][Next]_vars
-----------------------------------------------------------------------------
(* Properties.                                                             *)

(* owner_session finds at most one session, so that it never raises        *)
(* "multiple remote sessions for one owner" (session.py:90): an expired    *)
(* session is never revived behind the back of its successor.              *)
OneActiveSession ==
  \A s, t \in Sessions : Active(s) /\ Active(t) /\ account[s] = account[t] => s = t

(* A caller does not go on waiting for a session that has been closed      *)
(* (session.py:105-115).                                                   *)
ClosedReleasesCallers ==
  \A c \in Calls : \A s \in target[c] :
    call[c] = "waiting" /\ session[s] = "closed" => future[c] # "pending"

(* Without losses on the network and with nobody stopping agents, a        *)
(* command whose caller waits at a valid session is in its queue or with   *)
(* an agent: polls that end and sessions that are closed, expired and      *)
(* created again drop no command anyone still waits for.                   *)
CommandAccountedFor ==
  \A c \in Calls : \A s \in target[c] :
    call[c] = "waiting" /\ future[c] = "pending" /\ Active(s) /\ lost = 0 /\ quit = {} =>
      \/ \E i \in DOMAIN queue[s] : queue[s][i] = c
      \/ \E a \in Agents : agent[a] \in {"executing", "posting"} /\ held[a] = c

(* A command is only ever given to a PC that was connected by the account  *)
(* the call is made for, whatever sessions other accounts have.            *)
CommandsStayWithOwner ==
  \A a \in Agents : \A s \in key[a] :
    held[a] # NoCall => account[s] = OwnerOf[held[a]]

(* "Session expiry and disconnect revoke further requests"                 *)
(* (session.py:3-4): no agent receives a command once its session is gone, *)
(* its poll having been opened before notwithstanding.                     *)
NoDeliveryAfterRevocation ==
  [][\A a \in Agents : held'[a] \notin {held[a], NoCall} => \A s \in key[a] : Active(s)]_vars

(* Remote execution keeps the promise of RemoteCall: commands run at most  *)
(* once, and results go to the caller of their command, however late they  *)
(* are and however many sessions, agents and restarts come in between.     *)
StatusOf(c) ==
  CASE call[c] = "waiting" -> "asked"
    [] call[c] \in {"timedOut", "cancelled"} -> "abandoned"
    [] OTHER -> call[c]

RC == INSTANCE RemoteCall WITH status <- [c \in Calls |-> StatusOf(c)]

KeepsPromise == RC!Spec
=============================================================================
