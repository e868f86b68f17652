------------------------------ MODULE ChatJobs ------------------------------
(***************************************************************************)
(* The request-detached chat jobs of MAI: the in-memory job store          *)
(* (mai/app/chat_jobs.py), the task that runs one job                      *)
(* (mai/app/resumable_chat.py: _execute_chat and _run_job) and the         *)
(* endpoints that create, poll and cancel jobs, together with the two      *)
(* SQLite databases they write: the conversation (mai/app/chat_sessions.py)*)
(* and the audit log (mai/app/audit_log.py).                               *)
(*                                                                         *)
(* Everything runs on one asyncio event loop.  Between two awaits a task   *)
(* cannot be interrupted, so the variable loop names the task that has the *)
(* processor, and every other step waits until it is given back.  The      *)
(* synchronous stretches are nevertheless cut at every database write,     *)
(* because a write can fail and the process can die between two of them.   *)
(*                                                                         *)
(* Program points of a job's task (pc):                                    *)
(*   idle        no POST /chat/jobs yet     new         task created        *)
(*   lock        audit run opened           waiting     in the lock's queue *)
(*   execute     lock held, before the question is stored                  *)
(*   agent       awaiting runtime.run_user_message                         *)
(*   failing     an observer raised; the agent run is unwinding            *)
(*   save        answer returned, not yet stored                           *)
(*   accept      answer stored, lock released                              *)
(*   errorReply  status code # 200, lock released                          *)
(*   errorFinish the error bubble of that branch is stored                 *)
(*   except      handling an exception      bubble      its audit part done *)
(*   cancelled   handling CancelledError    done        task finished       *)
(***************************************************************************)
EXTENDS Naturals, FiniteSets, SequencesExt

CONSTANTS
    Jobs,       \* job ids; secrets.token_urlsafe never repeats one
    Users,      \* authenticated accounts (user_id and db_id are one to one)
    Sessions,   \* conversations, each of one account
    UserOf,     \* the account that posts a job
    SessionOf,  \* the conversation a job's request names
    Page,       \* the conversation whose page is looked at
    None,       \* "no job"
    MaxProgress,            \* bound: progress records; nobody publishes once a job has so many
    MaxCancels,             \* bound: DELETE requests that wait at a time
    MaxOld,                 \* bound: jobs past their retention that are still kept
    MaxFaults,              \* bound: database writes that raise, and crashes
    MaxCrashes,             \* bound: times the server process dies
    CancelCanBeLost         \* TRUE: something inside the agent run can eat a cancel

ASSUME JobsAssumption ==
    /\ UserOf \in [Jobs -> Users]
    /\ SessionOf \in [Jobs -> Sessions]
    /\ \A j, k \in Jobs : SessionOf[j] = SessionOf[k] => UserOf[j] = UserOf[k]
    /\ Page \in Sessions
    /\ None \notin Jobs

ASSUME BoundsAssumption ==
    /\ {MaxProgress, MaxCancels, MaxOld, MaxFaults, MaxCrashes} \subseteq Nat
    /\ CancelCanBeLost \in BOOLEAN

VARIABLES
    jobs,       \* ids present in ChatJobStore._jobs
    status,     \* ChatJob.status (response and error are a function of it)
    progress,   \* progress records published to the job's snapshot
    old,        \* jobs whose updated_at lies before the retention cutoff
    pc,         \* where the job's task stands
    cancelReq,  \* task.cancel() was called and has not been delivered
    cancellers, \* cancel_for calls awaiting the job's task
    owner,      \* the job inside `async with lock_for(user)`
    waiters,    \* the lock's FIFO queue
    audit,      \* runs.status of the job in the audit database
    audited,    \* progress records of the job in the audit database
    rows,       \* rows of each conversation in id order
    loop,       \* the task that has the event loop
    faults, crashes

store == <<jobs, status, progress, old>>
task == <<pc, cancelReq, cancellers>>
lock == <<owner, waiters>>
db == <<audit, audited, rows>>
vars == <<store, task, lock, db, loop, faults, crashes>>

ActiveStatuses == {"pending", "running", "cancelling"}
TerminalStatuses == {"completed", "failed", "cancelled"}
Status == {"none"} \cup ActiveStatuses \cup TerminalStatuses

\* Program points inside the body of `async with lock_for(user)`.
TurnPCs == {"execute", "agent", "failing", "save"}
\* Program points at which the task is suspended in an await.
AwaitPCs == {"new", "waiting", "agent", "failing"}
\* Program points of a stretch without an await, reached with the loop held.
SyncPCs == {"lock", "execute", "save", "accept", "errorReply", "errorFinish",
            "except", "bubble", "cancelled"}
PC == {"idle", "done"} \cup AwaitPCs \cup SyncPCs

Row == [job : Jobs, kind : {"question", "answer", "error"}]

Init ==
    /\ jobs = {} /\ old = {}
    /\ status = [j \in Jobs |-> "none"]
    /\ progress = [j \in Jobs |-> 0]
    /\ pc = [j \in Jobs |-> "idle"]
    /\ cancelReq = [j \in Jobs |-> FALSE]
    /\ cancellers = [j \in Jobs |-> 0]
    /\ owner = [u \in Users |-> None]
    /\ waiters = [u \in Users |-> <<>>]
    /\ audit = [j \in Jobs |-> "none"]
    /\ audited = [j \in Jobs |-> 0]
    /\ rows = [s \in Sessions |-> <<>>]
    /\ loop = None
    /\ faults = 0 /\ crashes = 0

-----------------------------------------------------------------------------
(* Helpers *)

Goto(j, point) == pc' = [pc EXCEPT ![j] = point]

SetStatus(j, new) ==
    /\ status' = [status EXCEPT ![j] = new]
    /\ old' = old \ {j}

\* A database write raises.
Fault == faults + crashes < MaxFaults /\ faults' = faults + 1

\* lock_for: one asyncio.Lock per account.
LockForEverybody(j) == CHOOSE u \in Users : TRUE
LockFor(j) == UserOf[j]

\* asyncio.Lock.acquire takes a free lock at once if all its waiters are being
\* cancelled.
NobodyAhead(j) == \A i \in DOMAIN waiters[LockFor(j)] : cancelReq[waiters[LockFor(j)][i]]
LockFree(j) == owner[LockFor(j)] = None /\ NobodyAhead(j)

Release(j) == owner' = [owner EXCEPT ![LockFor(j)] = None]

Insert(j, kind) ==
    rows' = [rows EXCEPT ![SessionOf[j]] = Append(@, [job |-> j, kind |-> kind])]

FinishAudit(j, outcome) == audit' = [audit EXCEPT ![j] = outcome]

\* What _cleanup leaves: it drops the terminal jobs past their retention.
Kept == {j \in jobs : ~(status[j] \in TerminalStatuses /\ j \in old)}

-----------------------------------------------------------------------------
(* Actions with a mistake in them, which the properties must reject; none is *)
(* part of Next.  The same goes for LockForEverybody above.                  *)

\* cancel_for without awaiting the task.
CancelForDoesNotWait(j) ==
    /\ loop = None
    /\ cancellers[j] > 0
    /\ SetStatus(j, "cancelled")
    /\ cancellers' = [cancellers EXCEPT ![j] = @ - 1]
    /\ UNCHANGED <<jobs, progress, pc, cancelReq, lock, db, loop, faults, crashes>>

\* cancel_for awaiting a terminal status instead of the task.
CancelForAwaitsStatus(j) == status[j] \in TerminalStatuses /\ CancelForDoesNotWait(j)

\* A failed audit append does not stop the agent run.
PublishBestEffort(j) ==
    /\ loop = None
    /\ pc[j] = "agent" /\ ~cancelReq[j]
    /\ \A k \in Jobs : progress[k] < MaxProgress
    /\ progress' = [progress EXCEPT ![j] = @ + 1]
    /\ old' = old \ {j}
    /\ \/ audited' = [audited EXCEPT ![j] = @ + 1] /\ UNCHANGED faults
       \/ Fault /\ UNCHANGED audited
    /\ UNCHANGED <<jobs, status, task, lock, audit, rows, loop, crashes>>

\* An error reply that cannot be stored is not treated as a failure.
ErrorReplyBestEffort(j) ==
    /\ loop = j /\ pc[j] = "errorReply"
    /\ Goto(j, "errorFinish")
    /\ \/ Insert(j, "error") /\ UNCHANGED faults
       \/ Fault /\ UNCHANGED rows
    /\ UNCHANGED <<store, cancelReq, cancellers, lock, audit, audited, loop, crashes>>

-----------------------------------------------------------------------------
(* The endpoints *)

\* POST /chat/jobs: create, asyncio.create_task, attach_task.
StartChatJob(j) ==
    /\ loop = None
    /\ pc[j] = "idle"
    /\ jobs' = Kept \cup {j}
    /\ old' = old \cap Kept
    /\ status' = [status EXCEPT ![j] = "pending"]
    /\ Goto(j, "new")
    /\ UNCHANGED <<progress, cancelReq, cancellers, lock, db, loop, faults, crashes>>

\* GET /chat/jobs/active and GET /chat/jobs/{job_id}; also a DELETE that
\* finds no job of the caller, or one that is terminal.
Poll ==
    /\ loop = None
    /\ jobs' = Kept
    /\ old' = old \cap Kept
    /\ UNCHANGED <<status, progress, task, lock, db, loop, faults, crashes>>

\* The DELETE requests whose cancel_for awaits a task, numbered by job.
WaitingDeletes == UNION {{j} \X (1 .. cancellers[j]) : j \in Jobs}

\* DELETE /chat/jobs/{job_id}, up to the await in cancel_for.
CancelFor(j) ==
    /\ loop = None
    /\ jobs' = Kept
    /\ j \in Kept
    /\ status[j] \notin TerminalStatuses
    /\ pc[j] # "done"
    /\ Cardinality(WaitingDeletes) < MaxCancels
    /\ status' = [status EXCEPT ![j] = "cancelling"]
    /\ old' = (old \cap Kept) \ {j}
    /\ cancelReq' = [cancelReq EXCEPT ![j] = TRUE]
    /\ cancellers' = [cancellers EXCEPT ![j] = @ + 1]
    /\ UNCHANGED <<progress, pc, lock, db, loop, faults, crashes>>

\* The same request when the task is already done: nothing to await.
CancelStranded(j) ==
    /\ loop = None
    /\ jobs' = Kept
    /\ j \in Kept
    /\ status[j] \notin TerminalStatuses
    /\ pc[j] = "done"
    /\ status' = [status EXCEPT ![j] = "cancelled"]
    /\ old' = (old \cap Kept) \ {j}
    /\ UNCHANGED <<progress, task, lock, db, loop, faults, crashes>>

\* cancel_for resumes: asyncio.gather returned because the task is done.
CancelForReturns(j) ==
    /\ loop = None
    /\ cancellers[j] > 0
    /\ pc[j] = "done"
    /\ SetStatus(j, "cancelled")
    /\ cancellers' = [cancellers EXCEPT ![j] = @ - 1]
    /\ UNCHANGED <<jobs, progress, pc, cancelReq, lock, db, loop, faults, crashes>>

-----------------------------------------------------------------------------
(* The task of a job: _run_job and _execute_chat *)

\* First step of the task: open the audit run.
AuditStart(j) ==
    /\ loop = None /\ loop' = j
    /\ pc[j] = "new" /\ ~cancelReq[j]
    /\ \/ /\ FinishAudit(j, "running")
          /\ Goto(j, "lock")
          /\ UNCHANGED faults
       \/ /\ Fault
          /\ Goto(j, "except")
          /\ UNCHANGED audit
    /\ UNCHANGED <<store, cancelReq, cancellers, lock, audited, rows, crashes>>

\* `async with lock_for(user)` on a free lock: mark_running follows in one breath.
AcquireLock(j) ==
    /\ loop = j /\ pc[j] = "lock"
    /\ LockFree(j)
    /\ owner' = [owner EXCEPT ![LockFor(j)] = j]
    /\ SetStatus(j, "running")
    /\ Goto(j, "execute")
    /\ UNCHANGED <<jobs, progress, cancelReq, cancellers, waiters, db, loop, faults, crashes>>

\* A waiter that was already woken when its cancellation came still counts.
JoinQueue(j) ==
    /\ loop = j /\ pc[j] = "lock"
    /\ owner[LockFor(j)] # None \/ waiters[LockFor(j)] # <<>>
    /\ waiters' = [waiters EXCEPT ![LockFor(j)] = Append(@, j)]
    /\ Goto(j, "waiting")
    /\ loop' = None
    /\ UNCHANGED <<store, cancelReq, cancellers, owner, db, faults, crashes>>

\* The released lock wakes the head of its queue.
WakeWithLock(j) ==
    /\ loop = None /\ loop' = j
    /\ pc[j] = "waiting" /\ ~cancelReq[j]
    /\ owner[LockFor(j)] = None
    /\ waiters[LockFor(j)] # <<>> /\ Head(waiters[LockFor(j)]) = j
    /\ owner' = [owner EXCEPT ![LockFor(j)] = j]
    /\ waiters' = [waiters EXCEPT ![LockFor(j)] = Tail(@)]
    /\ SetStatus(j, "running")
    /\ Goto(j, "execute")
    /\ UNCHANGED <<jobs, progress, cancelReq, cancellers, db, faults, crashes>>

\* _execute_chat refuses the requested model (403): nothing is stored.
RefuseModel(j) ==
    /\ loop = j /\ pc[j] = "execute"
    /\ Release(j)
    /\ Goto(j, "errorReply")
    /\ UNCHANGED <<store, cancelReq, cancellers, waiters, db, loop, faults, crashes>>

\* Read the prior messages, append the user's message, start the agent run.
\* A database error leaves _execute_chat and the lock.
SaveQuestion(j) ==
    /\ loop = j /\ pc[j] = "execute"
    /\ \/ /\ Insert(j, "question")
          /\ Goto(j, "agent")
          /\ loop' = None
          /\ UNCHANGED <<owner, faults>>
       \/ /\ Fault
          /\ Release(j)
          /\ Goto(j, "except")
          /\ UNCHANGED <<rows, loop>>
    /\ UNCHANGED <<store, cancelReq, cancellers, waiters, audit, audited, crashes>>

\* publish_tool, publish_model_turn, publish_verification_rejection: the job's
\* snapshot first, then the audit log, whose failure aborts the agent run.
Publish(j) ==
    /\ loop = None
    /\ pc[j] = "agent" /\ ~cancelReq[j]
    /\ \A k \in Jobs : progress[k] < MaxProgress
    /\ progress' = [progress EXCEPT ![j] = @ + 1]
    /\ old' = old \ {j}
    /\ \/ /\ audited' = [audited EXCEPT ![j] = @ + 1]
          /\ UNCHANGED <<pc, faults>>
       \/ /\ Fault
          /\ Goto(j, "failing")
          /\ UNCHANGED audited
    /\ UNCHANGED <<jobs, status, cancelReq, cancellers, lock, audit, rows, loop, crashes>>

\* run_user_message returns an answer.
AgentAnswers(j) ==
    /\ loop = None /\ loop' = j
    /\ pc[j] = "agent" /\ ~cancelReq[j]
    /\ Goto(j, "save")
    /\ UNCHANGED <<store, cancelReq, cancellers, lock, db, faults, crashes>>

\* run_user_message raises; _execute_chat turns it into a 500 and the lock is
\* released.
AgentFails(j) ==
    /\ loop = None /\ loop' = j
    /\ pc[j] \in {"agent", "failing"} /\ ~cancelReq[j]
    /\ Release(j)
    /\ Goto(j, "errorReply")
    /\ UNCHANGED <<store, cancelReq, cancellers, waiters, db, faults, crashes>>

\* The CancelledError does not leave the agent run: asyncio.wait_for of Python
\* 3.11 returns a result that is already there instead, or closing a browser
\* fails in the `finally` and its exception takes the place of the cancellation.
\* It counts as a fault.
LoseCancel(j) ==
    /\ CancelCanBeLost /\ Fault
    /\ loop = None
    /\ pc[j] \in {"agent", "failing"} /\ cancelReq[j]
    /\ cancelReq' = [cancelReq EXCEPT ![j] = FALSE]
    /\ UNCHANGED <<store, pc, cancellers, lock, db, loop, crashes>>

\* Append the assistant's message; either way `async with` ends.
SaveAnswer(j) ==
    /\ loop = j /\ pc[j] = "save"
    /\ Release(j)
    /\ \/ /\ Insert(j, "answer")
          /\ Goto(j, "accept")
          /\ UNCHANGED faults
       \/ /\ Fault
          /\ Goto(j, "except")
          /\ UNCHANGED rows
    /\ UNCHANGED <<store, cancelReq, cancellers, waiters, audit, audited, loop, crashes>>

\* status_code = 200: log the acceptance, finish the audit run, complete the job.
Accept(j) ==
    /\ loop = j /\ pc[j] = "accept"
    /\ \/ /\ FinishAudit(j, "completed")
          /\ SetStatus(j, "completed")
          /\ Goto(j, "done")
          /\ loop' = None
          /\ UNCHANGED faults
       \/ /\ Fault
          /\ Goto(j, "except")
          /\ UNCHANGED <<status, old, audit, loop>>
    /\ UNCHANGED <<jobs, progress, cancelReq, cancellers, lock, audited, rows, crashes>>

\* Any other status code: log the error and append an error bubble ...
SaveErrorReply(j) ==
    /\ loop = j /\ pc[j] = "errorReply"
    /\ \/ /\ Insert(j, "error")
          /\ Goto(j, "errorFinish")
          /\ UNCHANGED faults
       \/ /\ Fault
          /\ Goto(j, "except")
          /\ UNCHANGED rows
    /\ UNCHANGED <<store, cancelReq, cancellers, lock, audit, audited, loop, crashes>>

\* ... then finish the audit run and fail the job.
FailJob(j) ==
    /\ loop = j /\ pc[j] = "errorFinish"
    /\ \/ /\ FinishAudit(j, "failed")
          /\ SetStatus(j, "failed")
          /\ Goto(j, "done")
          /\ loop' = None
          /\ UNCHANGED faults
       \/ /\ Fault
          /\ Goto(j, "except")
          /\ UNCHANGED <<status, old, audit, loop>>
    /\ UNCHANGED <<jobs, progress, cancelReq, cancellers, lock, audited, rows, crashes>>

\* `except Exception`: close the audit run if it can be closed; a run that was
\* never opened, and a database error, are swallowed.
AuditException(j) ==
    /\ loop = j /\ pc[j] = "except"
    /\ Goto(j, "bubble")
    /\ \/ audit[j] = "running" /\ FinishAudit(j, "failed") /\ UNCHANGED faults
       \/ audit[j] = "running" /\ Fault /\ UNCHANGED audit
       \/ audit[j] # "running" /\ UNCHANGED <<audit, faults>>
    /\ UNCHANGED <<store, cancelReq, cancellers, lock, audited, rows, loop, crashes>>

\* The error bubble of that handler is not guarded: if it cannot be stored the
\* task dies before ChatJobStore.fail.
SaveExceptionBubble(j) ==
    /\ loop = j /\ loop' = None
    /\ pc[j] = "bubble"
    /\ Goto(j, "done")
    /\ \/ /\ Insert(j, "error")
          /\ SetStatus(j, "failed")
          /\ UNCHANGED faults
       \/ /\ Fault
          /\ UNCHANGED <<rows, status, old>>
    /\ UNCHANGED <<jobs, progress, cancelReq, cancellers, lock, audit, audited, crashes>>

-----------------------------------------------------------------------------
(* Delivery of a cancellation: CancelledError at the await *)

\* A task cancelled before its first step never enters the coroutine's body.
CancelBeforeStart(j) ==
    /\ loop = None
    /\ pc[j] = "new" /\ cancelReq[j]
    /\ cancelReq' = [cancelReq EXCEPT ![j] = FALSE]
    /\ Goto(j, "done")
    /\ UNCHANGED <<store, cancellers, lock, db, loop, faults, crashes>>

CancelInQueue(j) ==
    /\ loop = None /\ loop' = j
    /\ pc[j] = "waiting" /\ cancelReq[j]
    /\ \E i \in DOMAIN waiters[LockFor(j)] :
          /\ waiters[LockFor(j)][i] = j
          /\ waiters' = [waiters EXCEPT ![LockFor(j)] = RemoveAt(@, i)]
    /\ cancelReq' = [cancelReq EXCEPT ![j] = FALSE]
    /\ Goto(j, "cancelled")
    /\ UNCHANGED <<store, cancellers, owner, db, faults, crashes>>

\* The agent run unwinds (run_user_message closes its browsers) and the lock is
\* released.
CancelInAgent(j) ==
    /\ loop = None /\ loop' = j
    /\ pc[j] \in {"agent", "failing"} /\ cancelReq[j]
    /\ Release(j)
    /\ cancelReq' = [cancelReq EXCEPT ![j] = FALSE]
    /\ Goto(j, "cancelled")
    /\ UNCHANGED <<store, cancellers, waiters, db, faults, crashes>>

\* `except asyncio.CancelledError`: finish the audit run and re-raise.
AuditCancelled(j) ==
    /\ loop = j /\ loop' = None
    /\ pc[j] = "cancelled"
    /\ Goto(j, "done")
    /\ \/ FinishAudit(j, "cancelled") /\ UNCHANGED faults
       \/ Fault /\ UNCHANGED audit
    /\ UNCHANGED <<store, cancelReq, cancellers, lock, audited, rows, crashes>>

-----------------------------------------------------------------------------
(* Time and process failure *)

\* A job's updated_at falls behind the retention cutoff.
RetentionElapses(j) ==
    /\ loop = None
    /\ j \in jobs \ old
    /\ Cardinality(old) < MaxOld
    /\ old' = old \cup {j}
    /\ UNCHANGED <<jobs, status, progress, task, lock, db, loop, faults, crashes>>

\* The server process dies and is restarted: the store, the tasks and the
\* locks are gone, the databases stay as they are.
Crash ==
    /\ faults + crashes < MaxFaults
    /\ crashes < MaxCrashes /\ crashes' = crashes + 1
    /\ jobs' = {} /\ old' = {}
    /\ status' = [j \in Jobs |-> "none"]
    /\ progress' = [j \in Jobs |-> 0]
    /\ pc' = [j \in Jobs |-> IF pc[j] = "idle" THEN "idle" ELSE "done"]
    /\ cancelReq' = [j \in Jobs |-> FALSE]
    /\ cancellers' = [j \in Jobs |-> 0]
    /\ owner' = [u \in Users |-> None]
    /\ waiters' = [u \in Users |-> <<>>]
    /\ loop' = None
    /\ UNCHANGED <<db, faults>>

-----------------------------------------------------------------------------
Endpoints(j) ==
    StartChatJob(j) \/ CancelFor(j) \/ CancelStranded(j) \/ CancelForReturns(j)

\* Steps the event loop takes on its own once they are possible.
TaskStep(j) ==
    \/ AuditStart(j) \/ AcquireLock(j) \/ JoinQueue(j) \/ WakeWithLock(j)
    \/ RefuseModel(j) \/ SaveQuestion(j) \/ SaveAnswer(j) \/ Accept(j)
    \/ SaveErrorReply(j) \/ FailJob(j) \/ AuditException(j) \/ SaveExceptionBubble(j)
    \/ CancelBeforeStart(j) \/ CancelInQueue(j) \/ CancelInAgent(j) \/ AuditCancelled(j)

AgentReturns(j) == AgentAnswers(j) \/ AgentFails(j)

JobStep(j) == Endpoints(j) \/ TaskStep(j) \/ AgentReturns(j) \/ Publish(j) \/ LoseCancel(j)

Next ==
    \/ \E j \in Jobs : JobStep(j) \/ RetentionElapses(j)
    \/ Poll
    \/ Crash

\* The event loop runs every ready task.  For the given accounts, a cancel_for
\* whose task is done resumes, and the model and its tools answer (their
\* adapters have time limits).
FairnessFor(accounts) ==
    \A j \in Jobs :
        /\ WF_vars(TaskStep(j))
        /\ UserOf[j] \in accounts => WF_vars(CancelForReturns(j)) /\ WF_vars(AgentReturns(j))

Spec == Init /\ [][Next]_vars

-----------------------------------------------------------------------------
(* Properties *)

StoreTypeOK ==
    /\ jobs \subseteq Jobs /\ old \subseteq Jobs
    /\ status \in [Jobs -> Status]
    /\ progress \in [Jobs -> Nat]

TaskTypeOK ==
    /\ pc \in [Jobs -> PC]
    /\ cancelReq \in [Jobs -> BOOLEAN]
    /\ cancellers \in [Jobs -> Nat]
    /\ loop \in Jobs \cup {None}

LockTypeOK ==
    /\ owner \in [Users -> Jobs \cup {None}]
    /\ waiters \in [Users -> Seq(Jobs)]

DbTypeOK ==
    /\ audit \in [Jobs -> {"none", "running", "completed", "failed", "cancelled"}]
    /\ audited \in [Jobs -> Nat]
    /\ rows \in [Sessions -> Seq(Row)]
    /\ faults \in Nat /\ crashes \in Nat

\* Every variable has its type.
TypeOK == StoreTypeOK /\ TaskTypeOK /\ LockTypeOK /\ DbTypeOK

InTurn(j) == pc[j] \in TurnPCs

\* The per-user lock of _run_job is held by a job exactly while that job is
\* between acquiring it and leaving `async with`: two jobs of one account never
\* run their turn together, and no failure or cancellation leaks the lock.
LockHeldExactlyInTurn == \A j \in Jobs : InTurn(j) <=> owner[UserOf[j]] = j

\* The messages a job writes to its conversation are adjacent: no other job's
\* message comes between them, although the error bubbles of _run_job are
\* written after the lock is released.  The one exception is the error bubble of
\* a job whose audit run could not be opened: it never asked for the lock.
TurnsNotInterleaved ==
    \A s \in Sessions : \A a, b, c \in DOMAIN rows[s] :
        (a < b /\ b < c /\ rows[s][a].job = rows[s][c].job)
            => \/ rows[s][b].job = rows[s][a].job
               \/ rows[s][b].kind = "error" /\ audit[rows[s][b].job] = "none"

HasRow(j, kind) ==
    \E i \in DOMAIN rows[SessionOf[j]] :
        rows[SessionOf[j]][i] = [job |-> j, kind |-> kind]

\* A job reported completed has a completed audit run holding every progress
\* record its client was shown; a completed audit run, also one a crash left
\* behind, has its answer in the conversation.
AcceptedAnswersAreDurable ==
    \A j \in Jobs :
        /\ status[j] = "completed" => audit[j] = "completed" /\ audited[j] = progress[j]
        /\ audit[j] = "completed" => HasRow(j, "answer")

\* cancel_for reports cancelled only once the job's task is over, so nothing
\* is written to the conversation after the client was told so.
CancelledMeansStopped == \A j \in Jobs : status[j] = "cancelled" => pc[j] = "done"

Settled(j) == j \notin jobs \/ status[j] \in TerminalStatuses

\* A posted job reaches a terminal status (or is gone after a restart).
SettlesFor(accounts) ==
    \A j \in Jobs : UserOf[j] \in accounts => (pc[j] # "idle" ~> Settled(j))

\* A DELETE that waits for the job's task gets its response.
CancelsAnsweredFor(accounts) ==
    \A j \in Jobs : UserOf[j] \in accounts => (cancellers[j] > 0 ~> cancellers[j] = 0)

\* What the page of one conversation can tell of its jobs: how they ended or, as
\* long as they have not, what they wrote.
PageJobs == {j \in Jobs : SessionOf[j] = Page}

JobSeen ==
    [j \in PageJobs |->
        IF pc[j] = "idle" THEN "none"
        ELSE IF j \notin jobs THEN "gone"
        ELSE IF status[j] \in TerminalStatuses THEN status[j]
        ELSE IF HasRow(j, "error") THEN "apologised"
        ELSE IF HasRow(j, "answer") THEN "answered"
        ELSE IF HasRow(j, "question") THEN "asked"
        ELSE "new"]

Service == INSTANCE JobService WITH Jobs <- PageJobs, job <- JobSeen, rows <- rows[Page]

\* The job store, the task and the databases together are the job service that
\* the browser page is written against: no failed database write, cancellation
\* or restart shows a page more than its actions allow.
ImplementsJobService == Service!Spec
=============================================================================
