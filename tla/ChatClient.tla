----------------------------- MODULE ChatClient -----------------------------
(***************************************************************************)
(* The page of one conversation (mai/app/static/resumable-chat.js and the  *)
(* chat form of index.html) on top of the job service.  JavaScript runs one*)
(* callback at a time; what makes the page hard is that a submission, the  *)
(* recovery timer, the history synchronisation and the reset ("new chat")  *)
(* each wait for the server in between and share the page's state: what is *)
(* shown, which job is current, the job id in localStorage.  Replies come  *)
(* in any order, requests and replies can be lost, the user can reload the *)
(* page, log in on another device or find the server restarted.            *)
(*                                                                         *)
(* What a request reads and what its reply does are one step, except where *)
(* something stale can come of it: the history is read when it is asked    *)
(* for and rendered later, a job is posted before the page knows its id,   *)
(* the messages are deleted before the page hears of it.  GET /me and the  *)
(* listing of the active jobs are part of the steps they begin.  The       *)
(* conversation is shorter than the limit of GET /session/{session_id}.    *)
(***************************************************************************)
EXTENDS Naturals, Sequences, SequencesExt

CONSTANTS
    Jobs,           \* ids of the jobs; a submission is known by the id it will get
    Order,          \* the order in which the server gives the ids out
    None,           \* "no job"
    MaxFaults,      \* bound: requests or replies lost by the network
    MaxUpsets,      \* bound: restarts, reloads, logouts, logins elsewhere, jobs forgotten
    MaxResets       \* bound: resets of the conversation on this page

ASSUME ClientAssumption ==
    /\ None \notin Jobs
    /\ Order \in Seq(Jobs) /\ ToSet(Order) = Jobs
    /\ {MaxFaults, MaxUpsets, MaxResets} \subseteq Nat

VARIABLES
    job, rows,  \* the job service
    valid,      \* the account's token on the server is the one of this page
    token,      \* state.token is set: the page shows the conversation
    base,       \* the messages renderPersistentHistory rendered last
    signed,     \* renderedHistorySignature # null
    bubbles,    \* what was added to the page since: whose bubble, of which job, what it shows
    current,    \* currentSubmissionJobId
    active,     \* activeChat, by submission
    sub,        \* where each submission stands
    wire,       \* POST /chat/jobs requests on their way
    deletes,    \* DELETE /chat/jobs/{job_id} requests nobody waits for
    saved,      \* the job id in localStorage
    rec,        \* recoverPendingJob: where it stands, its job, whether its epoch is old
    sync,       \* syncPersistentHistory: likewise, and what the server read
    reset,      \* maiResetConversation: the jobs left to cancel, the messages deleted
    resets, faults, upsets,
    late,       \* history variable: jobs posted while a reset was past its listing
    failed,     \* history variable: a reset failed since the page was last wiped
    dropped,    \* history variable: messages that finished resets deleted
    resaved     \* history variable: their jobs whose id the page heard of only afterwards

service == <<job, rows>>
login == <<valid, token>>
view == <<base, signed, bubbles, failed>>
chat == <<current, active, sub, saved>>
requests == <<wire, deletes>>
history == <<late, dropped, resaved>>
counters == <<resets, faults, upsets>>
vars == <<service, login, view, chat, requests, rec, sync, reset, counters, history>>

Server == INSTANCE JobService

\* Forgetting an old job is a step of its own here: a request for one job leaves
\* the others alone.
Only(j) == \A k \in Jobs \ {j} : job'[k] = job[k]

NoRecovery == [at |-> "idle", job |-> None, stale |-> FALSE]
NoSync == [at |-> "idle", rows |-> <<>>, stale |-> FALSE]
NoReset == [at |-> "idle", todo |-> {}, deleted |-> {}]

Init ==
    /\ Server!Init
    /\ valid = TRUE /\ token = TRUE
    /\ base = <<>> /\ signed = FALSE /\ bubbles = {}
    /\ current = None /\ active = None /\ saved = None
    /\ sub = [j \in Jobs |-> "idle"]
    /\ wire = {} /\ deletes = {}
    /\ rec = NoRecovery /\ sync = NoSync /\ reset = NoReset
    /\ resets = 0 /\ faults = 0 /\ upsets = 0
    /\ late = {} /\ failed = FALSE /\ dropped = {} /\ resaved = {}

Authorised == token /\ valid
Fault == faults < MaxFaults /\ faults' = faults + 1
Upset == upsets < MaxUpsets /\ upsets' = upsets + 1
Resetting == reset.at # "idle"
Ended == {j \in Jobs : job[j] \in Server!Over \cup {"gone"}}

-----------------------------------------------------------------------------
(* What the page shows *)

\* A message that is sent adds two bubbles to the page, which come and go together:
\* its own and the one of its reply.  A recovery adds one for the answer.
Waiting(by, j) == [by |-> by, job |-> j, shows |-> "waiting"]

\* A bubble that waits becomes something else, if it is still on the page.
Marked(bubble, shows) == {IF b = bubble THEN [b EXCEPT !.shows = shows] ELSE b : b \in bubbles}

\* markInterrupted, for the active submission.
Interrupted == Marked(Waiting("form", active), "note")

\* AbortController.abort: of a submission, only its POST listens.
Abort == [j \in Jobs |-> IF j = active /\ sub[j] = "sent" THEN "done" ELSE sub[j]]

\* clearVisibleConversation.
Wipe == base' = <<>> /\ signed' = FALSE /\ bubbles' = {} /\ failed' = FALSE

\* renderPersistentHistory does nothing when the history is the one rendered last.
Render(messages) ==
    IF signed /\ messages = base THEN UNCHANGED view
    ELSE base' = messages /\ signed' = TRUE /\ bubbles' = {} /\ UNCHANGED failed

\* showExpiredLogin, showLogin: the login screen takes the place of the page, which
\* shows nothing until a login, and that wipes it before it is seen again.
Hide == token' = FALSE /\ Wipe
ShowLogin == Hide /\ active' = None /\ sub' = Abort

-----------------------------------------------------------------------------
(* The user *)

Unused(j) == sub[j] = "idle" /\ job[j] = "none"
JobsLeft == \E j \in Jobs : Unused(j)

\* The next id of the server.
NextJob ==
    LET i == CHOOSE i \in DOMAIN Order :
                /\ Unused(Order[i])
                /\ \A k \in 1 .. i - 1 : ~Unused(Order[k])
    IN  Order[i]

\* A message is sent: the form's handler in index.html interrupts the active
\* submission and posts the message, the one in resumable-chat.js cancels the
\* current job.
Submit ==
    /\ token /\ JobsLeft
    /\ LET j == NextJob IN
          /\ sub' = [Abort EXCEPT ![j] = "sent"]
          /\ bubbles' = Interrupted \cup {Waiting("form", j)}
          /\ active' = j
          /\ wire' = wire \cup {j}
    /\ deletes' = deletes \cup ({current} \ {None})
    /\ UNCHANGED <<service, login, base, signed, failed, current, saved, rec, sync, reset, counters, history>>

\* The stop button: the form is submitted without a message.
Stop ==
    /\ token
    /\ active # None \/ current # None
    /\ sub' = Abort
    /\ bubbles' = Interrupted
    /\ active' = None
    /\ deletes' = deletes \cup ({current} \ {None})
    /\ UNCHANGED <<service, login, base, signed, failed, current, saved, wire, rec, sync, reset, counters, history>>

\* POST /login, and clearVisibleConversation.
Login ==
    /\ ~token
    /\ token' = TRUE /\ valid' = TRUE
    /\ Wipe
    /\ UNCHANGED <<service, chat, requests, rec, sync, reset, counters, history>>

Logout ==
    /\ Upset
    /\ token
    /\ valid' = FALSE
    /\ ShowLogin
    /\ UNCHANGED <<service, current, saved, requests, rec, sync, reset, resets, faults, history>>

\* The page is loaded again; localStorage and sessionStorage survive.
Reload ==
    /\ Upset
    /\ Wipe
    /\ current' = None /\ active' = None
    /\ sub' = [j \in Jobs |-> IF sub[j] = "idle" THEN "idle" ELSE "done"]
    /\ rec' = NoRecovery /\ sync' = NoSync /\ reset' = NoReset
    /\ UNCHANGED <<service, login, saved, requests, resets, faults, history>>

-----------------------------------------------------------------------------
(* A submission: submitDetachedChat, pollJob and the form's handler *)

\* A job that arrives while the messages are being deleted is late.
Arrives(j) ==
    /\ Server!Post(j) /\ Only(j)
    /\ late' = IF reset.at = "cancel" THEN late \cup {j} ELSE late

\* POST /chat/jobs.
PostArrives(j) ==
    /\ j \in wire /\ wire' = wire \ {j}
    /\ valid
    /\ Arrives(j)
    /\ UNCHANGED <<login, view, chat, deletes, rec, sync, reset, counters, dropped, resaved>>

\* The token was replaced: 401.
PostRefused(j) ==
    /\ j \in wire /\ wire' = wire \ {j}
    /\ ~valid
    /\ sub' = [sub EXCEPT ![j] = "done"]
    /\ IF sub[j] = "sent" /\ active = j THEN Hide /\ active' = None
       ELSE UNCHANGED <<token, view, active>>
    /\ UNCHANGED <<service, valid, current, saved, deletes, rec, sync, reset, counters, history>>

\* The job's id comes back: the submission starts polling, and the id is saved,
\* whatever became of the job in the meantime.
PostAnswered(j) ==
    /\ sub[j] = "sent" /\ job[j] # "none"
    /\ sub' = [sub EXCEPT ![j] = "polling"]
    /\ current' = j /\ saved' = j
    /\ resaved' = resaved \cup {k \in {j} : \E m \in dropped : m.job = k}
    /\ UNCHANGED <<service, login, view, active, requests, rec, sync, reset, counters,
                   late, dropped>>

\* The request or its reply is lost: the message stays on the page, with an error
\* for its reply.
PostFails(j) ==
    /\ Fault
    /\ sub[j] = "sent"
    /\ wire' \in {wire, wire \ {j}}
    /\ sub' = [sub EXCEPT ![j] = "done"]
    /\ bubbles' = IF active = j THEN Marked(Waiting("form", j), "note") ELSE bubbles
    /\ active' = IF active = j THEN None ELSE active
    /\ UNCHANGED <<service, login, base, signed, failed, current, saved, deletes, rec, sync, reset,
                   resets, upsets, history>>

\* `if (currentSubmissionJobId === jobId) setCurrentJob(null)'; the mistaken one
\* lets go only of a job that answered.
LetGoIfCompleted(j) == IF current = j /\ job[j] = "completed" THEN None ELSE current
LetGo(j) == IF current = j THEN None ELSE current

\* How pollJob can end with a valid login, and what its caller then has to show: the
\* job is over or gone, which makes the page forget its saved id, or the network
\* fails.  A note is an error that is not a stored message.
Replies(j) ==
    \/ j \in Ended /\ saved' = None /\ UNCHANGED faults
    \/ Fault /\ UNCHANGED saved
ReplyTo(j) ==
    IF faults' # faults THEN "note"
    ELSE CASE job[j] = "completed" -> "answer" [] job[j] = "failed" -> "error" [] OTHER -> "note"

\* pollJob ends, also with a 401.
SubmissionEnds(j) ==
    /\ sub[j] = "polling"
    /\ current' = LetGo(j)
    /\ \/ /\ ~Authorised
          /\ IF active = j THEN Hide ELSE UNCHANGED <<token, view>>
          /\ UNCHANGED <<saved, faults>>
       \/ /\ Authorised
          /\ Replies(j)
          /\ bubbles' = IF active = j THEN Marked(Waiting("form", j), ReplyTo(j)) ELSE bubbles
          /\ UNCHANGED <<token, base, signed, failed>>
    /\ active' = IF active = j THEN None ELSE active
    /\ sub' = [sub EXCEPT ![j] = "done"]
    /\ UNCHANGED <<service, valid, requests, rec, sync, reset, resets, upsets, history>>

\* DELETE /chat/jobs/{job_id}, whose reply nobody reads.
CancelArrives(j) ==
    /\ j \in deletes /\ deletes' = deletes \ {j}
    /\ \/ valid /\ Server!Cancel(j) /\ Only(j)
       \/ (~valid \/ j \in Ended) /\ UNCHANGED service
    /\ UNCHANGED <<login, view, chat, wire, rec, sync, reset, counters, history>>

CancelLost(j) ==
    /\ Fault
    /\ j \in deletes /\ deletes' = deletes \ {j}
    /\ UNCHANGED <<service, login, view, chat, wire, rec, sync, reset, resets, upsets, history>>

-----------------------------------------------------------------------------
(* syncPersistentHistory *)

\* Called with this login and current job; it does nothing while it is running,
\* during a reset and while a job is current.
CanSync(tok, cur) == sync.at = "idle" /\ ~Resetting /\ tok /\ cur = None
Ask == sync' = [at |-> "asked", rows |-> rows, stale |-> FALSE]

\* The recovery that called it goes on with the saved job id, unless a reset is
\* running.
RecoveryAfterSync ==
    rec' = IF rec.at # "sync" THEN rec
           ELSE IF Resetting THEN NoRecovery
           ELSE [rec EXCEPT !.at = "resolve", !.job = saved]

\* A reply that a reset made stale is dropped.
HistoryArrives ==
    /\ sync.at = "asked" /\ sync' = NoSync
    /\ Authorised
    /\ IF sync.stale \/ Resetting THEN UNCHANGED view ELSE Render(sync.rows)
    /\ RecoveryAfterSync
    /\ UNCHANGED <<service, login, chat, requests, reset, counters, history>>

\* 401 shows the login screen.
HistoryRefused ==
    /\ sync.at = "asked" /\ sync' = NoSync
    /\ ~Authorised
    /\ ShowLogin
    /\ RecoveryAfterSync
    /\ UNCHANGED <<service, valid, current, saved, requests, reset, counters, history>>

\* A network error ends the recovery as well.
HistoryLost ==
    /\ Fault
    /\ sync.at = "asked" /\ sync' = NoSync
    /\ rec' = IF rec.at = "sync" THEN NoRecovery ELSE rec
    /\ UNCHANGED <<service, login, view, chat, requests, reset, resets, upsets, history>>

-----------------------------------------------------------------------------
(* recoverPendingJob, called every three seconds and on focus *)

\* It checks the login and calls syncPersistentHistory.
Recover ==
    /\ rec.at = "idle" /\ ~Resetting /\ current = None
    /\ Authorised
    /\ IF CanSync(token, current)
         THEN Ask /\ rec' = [NoRecovery EXCEPT !.at = "sync"]
         ELSE UNCHANGED sync /\ rec' = [NoRecovery EXCEPT !.at = "resolve", !.job = saved]
    /\ UNCHANGED <<service, login, view, chat, requests, reset, counters, history>>

\* The `finally' of recoverPendingJob.
EndRecovery(tok, cur) ==
    /\ rec' = NoRecovery
    /\ IF ~rec.stale /\ CanSync(tok, cur) THEN Ask ELSE UNCHANGED sync

\* A request of the recovery meets a token that was replaced.
RecoveryRefused ==
    /\ \/ rec.at = "idle" /\ ~Resetting /\ current = None /\ token
       \/ rec.at = "resolve"
    /\ ~Authorised
    /\ ShowLogin
    /\ EndRecovery(FALSE, current)
    /\ UNCHANGED <<service, valid, current, saved, requests, reset, counters, history>>

\* resolveRecoveryJobId: the saved job if the server still has it, else an
\* active job of the account (jobs[0]), which is saved then.
Adopt(j) ==
    /\ rec' = [rec EXCEPT !.at = "polling", !.job = j]
    /\ current' = j
    /\ bubbles' = bubbles \cup {Waiting("recovery", j)}
    /\ UNCHANGED sync

\* A request that is lost counts the saved job as known.
Resolve ==
    /\ rec.at = "resolve"
    /\ Authorised
    /\ LET known == rec.job # None /\ job[rec.job] # "gone"
           running == {j \in Jobs : job[j] \in Server!Active}
       IN  \/ known /\ Adopt(rec.job) /\ UNCHANGED saved
           \/ ~known /\ \E j \in running : Adopt(j) /\ saved' = j
           \/ /\ ~known /\ running = {}
              /\ saved' = IF rec.job # None THEN None ELSE saved
              /\ EndRecovery(token, current)
              /\ UNCHANGED <<bubbles, current>>
    /\ UNCHANGED <<service, login, base, signed, failed, active, sub, requests, reset, counters, history>>

ResolveFails ==
    /\ Fault
    /\ rec.at = "resolve"
    /\ IF rec.job # None THEN Adopt(rec.job)
       ELSE EndRecovery(token, current) /\ UNCHANGED <<bubbles, current>>
    /\ UNCHANGED <<service, login, base, signed, failed, active, sub, saved, requests, reset,
                   resets, upsets, history>>

\* Whether a reset came in between; the mistaken one only sees one that runs.
OutdatedWhileResetting == Resetting
Outdated == Resetting \/ rec.stale

\* An answer makes the page render the next history in any case; the mistaken one
\* does not.
SignedAsBefore(shows) == signed
SignedAfter(shows) == signed /\ shows # "answer"

\* pollJob ends, and what it brings takes the place of the recovery's bubble.  A
\* reset in the meantime leaves a bubble that waits, and nobody will replace.
RecoveryEnds ==
    /\ rec.at = "polling"
    /\ Authorised
    /\ Replies(rec.job)
    /\ current' = LetGo(rec.job)
    /\ LET shows == IF Outdated THEN "abandoned" ELSE ReplyTo(rec.job) IN
          /\ bubbles' = Marked(Waiting("recovery", rec.job), shows)
          /\ signed' = SignedAfter(shows)
    /\ EndRecovery(token, current')
    /\ UNCHANGED <<service, login, base, failed, active, sub, requests, reset, resets, upsets, history>>

RecoveryExpires ==
    /\ rec.at = "polling"
    /\ ~Authorised
    /\ current' = LetGo(rec.job)
    /\ ShowLogin
    /\ EndRecovery(FALSE, current')
    /\ UNCHANGED <<service, valid, saved, requests, reset, counters, history>>

-----------------------------------------------------------------------------
(* maiResetConversation *)

\* The active jobs are listed; what the page is waiting for becomes stale.
StartReset ==
    /\ resets < MaxResets /\ resets' = resets + 1
    /\ token /\ ~Resetting
    /\ reset' = [NoReset EXCEPT !.at = "cancel",
                                !.todo = {j \in Jobs : job[j] \in Server!Active}]
    /\ rec' = [rec EXCEPT !.stale = rec.at # "idle"]
    /\ sync' = [sync EXCEPT !.stale = sync.at # "idle"]
    /\ UNCHANGED <<service, login, view, chat, requests, faults, upsets, history>>

\* The jobs are cancelled one after the other, each when the reply to the one
\* before has come; the mistaken one does not wait for the replies.
CancelNextUnawaited ==
    /\ reset.at = "cancel" /\ reset.todo # {}
    /\ Authorised
    /\ reset' = [reset EXCEPT !.todo = {}]
    /\ deletes' = deletes \cup reset.todo
    /\ UNCHANGED <<service, login, view, chat, wire, rec, sync, counters, history>>
CancelNext ==
    /\ reset.at = "cancel"
    /\ Authorised
    /\ \E j \in reset.todo :
          /\ \/ Server!Cancel(j) /\ Only(j)
             \/ job[j] \in Server!Over /\ UNCHANGED service
          /\ reset' = [reset EXCEPT !.todo = @ \ {j}]
    /\ UNCHANGED <<login, view, chat, requests, rec, sync, counters, history>>

\* DELETE /session/{session_id}.
ClearSession ==
    /\ reset.at = "cancel" /\ reset.todo = {}
    /\ Authorised
    /\ reset' = [reset EXCEPT !.at = "cleared", !.deleted = ToSet(rows)]
    /\ rows' = <<>>
    /\ UNCHANGED <<job, login, view, chat, requests, rec, sync, counters, history>>

ResetDone ==
    /\ reset.at = "cleared"
    /\ reset' = NoReset
    /\ saved' = None
    /\ Wipe
    /\ dropped' = dropped \cup reset.deleted
    /\ UNCHANGED <<service, login, current, active, sub, requests, rec, sync, counters,
                   late, resaved>>

\* A 401, a 404 for a job to cancel or a network error ends the reset.
ResetFails ==
    /\ \/ reset.at = "cancel" /\ ~Authorised /\ UNCHANGED faults
       \/ (\E j \in reset.todo : job[j] = "gone") /\ UNCHANGED faults
       \/ Resetting /\ Fault
    /\ reset' = NoReset
    /\ failed' = TRUE
    /\ UNCHANGED <<service, login, base, signed, bubbles, chat, requests, rec, sync,
                   resets, upsets, history>>

-----------------------------------------------------------------------------
(* The server, and the account on another device *)

\* Answer and Complete, or Apologise and Fail: no await lies between them.
ServerWorks(j) ==
    /\ \/ Server!Ask(j)
       \/ /\ job[j] = "asked" /\ job' = [job EXCEPT ![j] = "completed"]
          /\ Server!Write(j, "answer")
       \/ Server!Fail(j)
    /\ UNCHANGED <<login, view, chat, requests, rec, sync, reset, counters, history>>

ServerForgets ==
    /\ Upset
    /\ Server!Forget
    /\ UNCHANGED <<login, view, chat, requests, rec, sync, reset, resets, faults, history>>

\* The jobs and the tokens live in the server's memory.
ServerRestarts ==
    /\ Upset
    /\ Server!Restart
    /\ valid' = FALSE
    /\ UNCHANGED <<token, view, chat, requests, rec, sync, reset, resets, faults, history>>

\* _store_login_session: one token per account.
LoginElsewhere ==
    /\ Upset
    /\ valid' = FALSE
    /\ UNCHANGED <<service, token, view, chat, requests, rec, sync, reset, resets, faults, history>>

PostElsewhere ==
    /\ ~valid /\ JobsLeft
    /\ Arrives(NextJob)
    /\ UNCHANGED <<login, view, chat, requests, rec, sync, reset, counters, dropped, resaved>>

\* The other device resets the conversation while no job is running.
ResetElsewhere ==
    /\ ~valid
    /\ \A j \in Jobs : job[j] \notin Server!Active
    /\ rows # <<>> /\ rows' = <<>>
    /\ UNCHANGED <<job, login, view, chat, requests, rec, sync, reset, counters, history>>

-----------------------------------------------------------------------------
User == Submit \/ Stop \/ Login \/ Logout \/ Reload \/ StartReset
Submission(j) == PostRefused(j) \/ PostArrives(j) \/ PostAnswered(j) \/ SubmissionEnds(j)
Sync == HistoryArrives \/ HistoryRefused
Recovering == Recover \/ RecoveryRefused \/ Resolve \/ RecoveryEnds \/ RecoveryExpires
ResetStep == CancelNext \/ ClearSession \/ ResetDone \/ ResetFails
Elsewhere == LoginElsewhere \/ PostElsewhere \/ ResetElsewhere

Next ==
    \/ User
    \/ \E j \in Jobs :
          Submission(j) \/ PostFails(j) \/ CancelArrives(j) \/ CancelLost(j) \/ ServerWorks(j)
    \/ Sync \/ HistoryLost
    \/ Recovering \/ ResolveFails
    \/ ResetStep
    \/ ServerForgets \/ ServerRestarts \/ Elsewhere

Spec == Init /\ [][Next]_vars

\* Requests are answered, the recovery timer keeps ringing, and the server gets
\* on with its jobs.  Every step of these actions changes what stands at its WF.
Fairness ==
    /\ \A j \in Jobs :
          WF_<<sub, wire>>(Submission(j)) /\ WF_deletes(CancelArrives(j)) /\ WF_job(ServerWorks(j))
    /\ WF_sync(Sync) /\ WF_<<rec, token>>(Recovering) /\ WF_reset(ResetStep)

FairSpec == Spec /\ Fairness

-----------------------------------------------------------------------------
(* Properties *)

\* Every variable has its type.
TypeOK ==
    /\ job \in [Jobs -> {"none", "gone"} \cup Server!Active \cup Server!Over]
    /\ {valid, token, signed} \subseteq BOOLEAN
    /\ bubbles \subseteq [by : {"form", "recovery"}, job : Jobs,
                          shows : {"waiting", "answer", "error", "note", "abandoned"}]
    /\ {current, active, saved} \subseteq Jobs \cup {None}
    /\ sub \in [Jobs -> {"idle", "sent", "polling", "done"}]
    /\ wire \subseteq Jobs /\ deletes \subseteq Jobs
    /\ rec \in [at : {"idle", "sync", "resolve", "polling"},
                job : Jobs \cup {None}, stale : BOOLEAN]
    /\ sync.at \in {"idle", "asked"} /\ sync.stale \in BOOLEAN
    /\ reset.at \in {"idle", "cancel", "cleared"} /\ reset.todo \subseteq Jobs
    /\ {resets, faults, upsets} \subseteq Nat
    /\ late \subseteq Jobs /\ failed \in BOOLEAN /\ resaved \subseteq Jobs

\* The stored messages a bubble repeats.
Says(b) ==
    {[job |-> b.job, kind |-> kind] : kind \in
        {k \in {"question"} : b.by = "form"} \cup {k \in {"answer", "error"} : b.shows = k}}

\* Once a reset came through, the page never shows a message it deleted again, in
\* the rendered history or in a bubble, although a history request may have read it
\* before (historyEpoch) and submissions and recoveries still poll.  The one way
\* around it: the id of a job comes back to the page, and is saved, only after a
\* reset deleted what the job wrote; a recovery that begins then has a new epoch.
ClearedStaysCleared ==
    /\ ToSet(base) \cap dropped = {}
    /\ \A b \in bubbles :
          Says(b) \cap dropped # {} => b.by = "recovery" /\ b.job \in resaved

\* A reset leaves no answer without its question in the conversation: whatever
\* was running has stopped before the messages are deleted.  Only a job that
\* was posted behind the reset's back, after it had listed the active ones,
\* loses its question.
AnswersKeepQuestions ==
    \A m \in ToSet(rows) :
        m.kind = "answer" /\ m.job \notin late => [job |-> m.job, kind |-> "question"] \in ToSet(rows)

\* What a page may go on showing beside the history: a message that was never
\* stored, with the reason below it, and what a recovery has to report of a job that
\* did not answer (an error that is stored is then shown twice: only an answer makes
\* the page render the history again).
Keeps(b) ==
    \/ b.by = "form" /\ b.shows = "note" /\ \A m \in ToSet(rows) : m.job # b.job
    \/ b.by = "recovery" /\ b.shows \in {"note", "error"}
Waits(b) == b.shows \in {"waiting", "abandoned"}

\* A page that stays logged in ends up showing the conversation as it is stored,
\* whatever was lost, cancelled, reset, reloaded or posted on another device, and
\* every message it shows besides was never stored.  A reset that failed may have
\* deleted the messages all the same: bubbles that hold them stay.
PageConverges ==
    <>[](token /\ valid) =>
        <>[](base = rows /\ (failed \/ \A b \in bubbles : Waits(b) \/ Keeps(b)))

\* ... and no bubble waits for ever for an answer that will not come, unless a
\* reset failed: it made the recovery stale, whose bubble is then left behind.
LoadersEnd == <>[](token /\ valid /\ ~failed) => <>[](\A b \in bubbles : ~Waits(b))
=============================================================================
