----------------------------- MODULE MemoryTurns -----------------------------
(***************************************************************************)
(* Read-after-write of the long-term memory between the turns of one       *)
(* account (mai/app/runtime.py).  A turn starts by awaiting the memory task*)
(* the account's previous turn left behind, runs the agent, and on success *)
(* leaves a background task that extracts facts from the turn and writes   *)
(* them to the graph.  Turns arrive through POST /chat/jobs, which runs    *)
(* them under the account's lock, or through POST /chat, which does not.   *)
(*                                                                         *)
(* Program points of a turn (pc): idle; queued, before run_user_message;   *)
(* waiting, in _await_pending_memory_update; agent; over.                  *)
(* States of a turn's memory task (mem): none; extracting; stored, with all*)
(* its facts; partly, an exception stopped the admission; skipped; lost,   *)
(* cancelled by close.                                                     *)
(***************************************************************************)
EXTENDS Naturals, SequencesExt

CONSTANTS
    Turns,      \* chat requests
    Users,      \* memory_user_id of the accounts
    UserOf,     \* the account of a request
    None        \* "no memory task"

ASSUME TurnsAssumption ==
    /\ UserOf \in [Turns -> Users]
    /\ None \notin Turns

VARIABLES
    pc,
    jobs,       \* the turns that arrived through POST /chat/jobs
    holder,     \* the job inside `async with lock_for(user)`
    awaited,    \* the memory task a waiting turn holds a reference to
    mem,        \* state of the memory task of a turn
    slot,       \* _memory_tasks_by_user: the turn whose task it is
    background, \* _background_tasks
    facts,      \* turns in the order in which their facts reached the graph
    closed,     \* MAIRuntime.close has run
    answered,   \* history: the account's turns in the order of their answers
    seen        \* history: answered, when the turn entered run_user_message

turn == <<pc, jobs, holder, awaited>>
memory == <<mem, slot, background, facts>>
history == <<answered, seen>>
vars == <<turn, memory, closed, history>>

Finished == {"stored", "partly", "skipped", "lost"}

Pending(t) == mem[t] = "extracting"

Init ==
    /\ pc = [t \in Turns |-> "idle"]
    /\ jobs = {}
    /\ holder = [u \in Users |-> None]
    /\ awaited = [t \in Turns |-> None]
    /\ mem = [t \in Turns |-> "none"]
    /\ slot = [u \in Users |-> None]
    /\ background = {}
    /\ facts = [u \in Users |-> <<>>]
    /\ closed = FALSE
    /\ answered = [u \in Users |-> <<>>]
    /\ seen = [t \in Turns |-> <<>>]

-----------------------------------------------------------------------------
LeaveLocked(t) == pc' = [pc EXCEPT ![t] = "over"] /\ UNCHANGED <<jobs, holder>>

\* The turn is over; a job leaves `async with`.
Leave(t) ==
    /\ pc' = [pc EXCEPT ![t] = "over"]
    /\ holder' = [u \in Users |-> IF holder[u] = t THEN None ELSE holder[u]]
    /\ UNCHANGED jobs

-----------------------------------------------------------------------------
(* Actions with a mistake in them, which the properties must reject; like    *)
(* LeaveLocked, none is part of Next.                                        *)

\* run_user_message without its first await.
EnterUnawaited(t) ==
    /\ ~closed
    /\ pc[t] = "queued"
    /\ t \in jobs => holder[UserOf[t]] = None
    /\ holder' = IF t \in jobs THEN [holder EXCEPT ![UserOf[t]] = t] ELSE holder
    /\ seen' = [seen EXCEPT ![t] = answered[UserOf[t]]]
    /\ pc' = [pc EXCEPT ![t] = "agent"]
    /\ UNCHANGED <<jobs, awaited, memory, closed, answered>>

\* The await without asyncio.shield.
CancelWithMemory(t) ==
    /\ t \in jobs
    /\ pc[t] \in {"queued", "waiting", "agent"}
    /\ Leave(t)
    /\ mem' = [k \in Turns |->
                 IF pc[t] = "waiting" /\ k = awaited[t] /\ Pending(k) THEN "lost" ELSE mem[k]]
    /\ UNCHANGED <<awaited, slot, background, facts, closed, history>>

\* The callback without its test for a newer task.
ForgetAnyTask(t) ==
    /\ mem[t] \in Finished /\ t \in background
    /\ background' = background \ {t}
    /\ slot' = [slot EXCEPT ![UserOf[t]] = None]
    /\ UNCHANGED <<turn, mem, facts, closed, history>>

-----------------------------------------------------------------------------
(* The turn *)

\* The request arrives, at POST /chat/jobs or POST /chat; the runtime is there
\* until the server shuts down.
Arrive(t) ==
    /\ ~closed
    /\ pc[t] = "idle"
    /\ pc' = [pc EXCEPT ![t] = "queued"]
    /\ jobs' \in {jobs, jobs \cup {t}}
    /\ UNCHANGED <<holder, awaited, memory, closed, history>>

\* The account's lock for a job, then run_user_message up to the await of the
\* task in the account's slot.
Enter(t) ==
    /\ ~closed
    /\ pc[t] = "queued"
    /\ t \in jobs => holder[UserOf[t]] = None
    /\ holder' = IF t \in jobs THEN [holder EXCEPT ![UserOf[t]] = t] ELSE holder
    /\ seen' = [seen EXCEPT ![t] = answered[UserOf[t]]]
    /\ awaited' = [awaited EXCEPT ![t] = slot[UserOf[t]]]
    /\ pc' = [pc EXCEPT ![t] = IF slot[UserOf[t]] = None THEN "agent" ELSE "waiting"]
    /\ UNCHANGED <<jobs, memory, closed, answered>>

\* A job whose lock comes free after the shutdown finds no runtime.
EnterClosed(t) ==
    /\ closed
    /\ pc[t] = "queued"
    /\ t \in jobs => holder[UserOf[t]] = None
    /\ Leave(t)
    /\ UNCHANGED <<awaited, memory, closed, history>>

\* The awaited task is over.  If close cancelled it, so is the turn.
MemoryReady(t) ==
    /\ pc[t] = "waiting"
    /\ mem[awaited[t]] \in Finished
    /\ \/ /\ mem[awaited[t]] # "lost"
          /\ pc' = [pc EXCEPT ![t] = "agent"]
          /\ UNCHANGED <<jobs, holder>>
       \/ /\ mem[awaited[t]] = "lost"
          /\ Leave(t)
    /\ UNCHANGED <<awaited, memory, closed, history>>

\* DELETE /chat/jobs/{job_id}; asyncio.shield keeps the memory task alive.
Cancel(t) ==
    /\ t \in jobs
    /\ pc[t] \in {"queued", "waiting", "agent"}
    /\ Leave(t)
    /\ UNCHANGED <<awaited, memory, closed, history>>

\* The agent run fails: nothing is left to remember.
AgentFails(t) ==
    /\ pc[t] = "agent"
    /\ Leave(t)
    /\ UNCHANGED <<awaited, memory, closed, history>>

\* The agent run returns an answer and run_user_message starts the memory task.
AgentAnswers(t) ==
    /\ pc[t] = "agent"
    /\ Leave(t)
    /\ mem' = [mem EXCEPT ![t] = "extracting"]
    /\ slot' = [slot EXCEPT ![UserOf[t]] = t]
    /\ background' = background \cup {t}
    /\ answered' = [answered EXCEPT ![UserOf[t]] = Append(@, t)]
    /\ UNCHANGED <<awaited, facts, closed, seen>>

-----------------------------------------------------------------------------
(* The memory task: _postprocess_memory *)

\* Extraction is over, well or not, and the rest runs without an await: a turn
\* that only recalled is skipped, and an exception (every one, once the graph
\* is closed) ends the admission where it stands.
Admit(t) ==
    /\ Pending(t)
    /\ \/ /\ ~closed
          /\ mem' = [mem EXCEPT ![t] = "stored"]
          /\ facts' = [facts EXCEPT ![UserOf[t]] = Append(@, t)]
       \/ /\ mem' = [mem EXCEPT ![t] = "partly"]
          /\ \/ ~closed /\ facts' = [facts EXCEPT ![UserOf[t]] = Append(@, t)]
             \/ UNCHANGED facts
       \/ /\ mem' = [mem EXCEPT ![t] = "skipped"]
          /\ UNCHANGED facts
    /\ UNCHANGED <<turn, slot, background, closed, history>>

\* _forget_memory_task, the done callback: the loop calls it some time after
\* the task is over, when a newer task may already be in the slot.
Forget(t) ==
    /\ mem[t] \in Finished /\ t \in background
    /\ background' = background \ {t}
    /\ slot' = [slot EXCEPT ![UserOf[t]] = IF @ = t THEN None ELSE @]
    /\ UNCHANGED <<turn, mem, facts, closed, history>>

\* MAIRuntime.close: cancel every background task, clear both collections,
\* close the graph.  Turns that are running stay.
Close ==
    /\ ~closed /\ closed' = TRUE
    /\ mem' = [t \in Turns |-> IF t \in background /\ Pending(t) THEN "lost" ELSE mem[t]]
    /\ background' = {}
    /\ slot' = [u \in Users |-> None]
    /\ UNCHANGED <<turn, facts, history>>

-----------------------------------------------------------------------------
TurnStep(t) == Enter(t) \/ EnterClosed(t) \/ MemoryReady(t)

MemoryStep(t) == Admit(t) \/ Forget(t)

Next ==
    \/ \E t \in Turns :
          \/ Arrive(t) \/ TurnStep(t) \/ Cancel(t)
          \/ AgentFails(t) \/ AgentAnswers(t) \/ MemoryStep(t)
    \/ Close

\* The loop runs ready tasks and callbacks; the fact extractor's model call has
\* a time limit, and so have the agent's.
Fairness ==
    \A t \in Turns :
        /\ WF_vars(TurnStep(t))
        /\ WF_vars(Admit(t)) /\ WF_vars(Forget(t))
        /\ WF_vars(AgentFails(t) \/ AgentAnswers(t))

Spec == Init /\ [][Next]_vars
FairSpec == Spec /\ Fairness

-----------------------------------------------------------------------------
\* Every variable has its type.
TypeOK ==
    /\ pc \in [Turns -> {"idle", "queued", "waiting", "agent", "over"}]
    /\ jobs \subseteq Turns
    /\ holder \in [Users -> Turns \cup {None}]
    /\ awaited \in [Turns -> Turns \cup {None}]
    /\ mem \in [Turns -> {"none", "extracting"} \cup Finished]
    /\ slot \in [Users -> Turns \cup {None}]
    /\ background \subseteq Turns
    /\ facts \in [Users -> Seq(Turns)]
    /\ closed \in BOOLEAN
    /\ answered \in [Users -> Seq(Turns)]
    /\ seen \in [Turns -> Seq(Turns)]

Settled(t) == mem[t] \in Finished

SeesSettled(t) == pc[t] = "agent" => \A i \in DOMAIN seen[t] : Settled(seen[t][i])

\* docs/memory.md:37: the next request of an account waits for the previous
\* work.  Of requests that come through POST /chat this is not so.
EarlierMemorySettled == \A t \in Turns : SeesSettled(t)

\* No request of the account came through POST /chat.
OnlyJobs(u) == \A t \in Turns \ jobs : UserOf[t] = u => pc[t] = "idle"

\* While the agent works on a turn, the memory of every turn of the account that
\* had been answered when this one started is settled: recall sees all of it.
JobsSeeEarlierMemory == \A t \in Turns : OnlyJobs(UserOf[t]) => SeesSettled(t)

\* Whatever way the turns arrive, the memory of the one answered last before
\* this one started is settled: the slot is never lost to a late callback of
\* an older task, nor to a cancelled turn.
LatestMemorySettled ==
    \A t \in Turns : pc[t] = "agent" /\ seen[t] # <<>> => Settled(Last(seen[t]))

\* Facts reach the graph in the order in which the turns were answered, so the
\* newest created_at, which the model is told to prefer, is the newest word.
FactsInAnswerOrder ==
    \A u \in Users : \A i, j \in DOMAIN facts[u] :
        OnlyJobs(u) /\ i < j => \E p, q \in DOMAIN answered[u] :
                    p < q /\ answered[u][p] = facts[u][i] /\ answered[u][q] = facts[u][j]

\* As long as the account's requests come through POST /chat/jobs, memory keeps
\* the order of the turns: what one turn said is there for the next one, and
\* never overtaken by it.
MemoryInTurnOrder == JobsSeeEarlierMemory /\ FactsInAnswerOrder

\* Cancelling a turn never takes a memory task of an earlier turn with it: only
\* closing the runtime does.
OnlyCloseLosesMemory == ~closed => \A t \in Turns : mem[t] # "lost"

\* No turn waits for ever in run_user_message or for the account's lock.
TurnsEnd == \A t \in Turns : pc[t] = "queued" ~> pc[t] = "over"
=============================================================================
