----------------------------- MODULE JobService -----------------------------
(***************************************************************************)
(* What the server promises the pages of one conversation: jobs that are   *)
(* posted, write their question and then an answer or an error to the      *)
(* conversation, end, and are forgotten.  ChatJobs implements it, and      *)
(* ChatClient is built on it.                                              *)
(***************************************************************************)
EXTENDS Sequences

CONSTANT Jobs

VARIABLES
    job,    \* "none", a state of Active or Over, or "gone"
    rows    \* the stored messages of the conversation

\* An active job has written nothing, its question, its answer, or an error.
Active == {"new", "asked", "answered", "apologised"}
Over == {"completed", "failed", "cancelled"}

Write(j, kind) == rows' = Append(rows, [job |-> j, kind |-> kind])

Init ==
    /\ job = [j \in Jobs |-> "none"]
    /\ rows = <<>>

\* A request of the account lets any of the jobs go that ended long ago.
Dropping(new) ==
    /\ job' \in [Jobs -> {"none", "gone"} \cup Active \cup Over]
    /\ \A j \in Jobs : job'[j] \in {new[j]} \cup {s \in {"gone"} : job[j] \in Over}

Forget == UNCHANGED rows /\ Dropping(job)

Post(j) ==
    /\ job[j] = "none"
    /\ Dropping([job EXCEPT ![j] = "new"])
    /\ UNCHANGED rows

\* Each message at most once, the question first, no answer without it.
Ask(j) ==
    /\ job[j] = "new" /\ job' = [job EXCEPT ![j] = "asked"]
    /\ Write(j, "question")
Answer(j) ==
    /\ job[j] = "asked" /\ job' = [job EXCEPT ![j] = "answered"]
    /\ Write(j, "answer")
Apologise(j) ==
    /\ job[j] \in {"new", "asked"} /\ job' = [job EXCEPT ![j] = "apologised"]
    /\ Write(j, "error")

\* A job ends with what it wrote.  The error is written in the same breath, which
\* makes it the second one if the first was followed by another failure.
Complete(j) ==
    /\ job[j] = "answered" /\ job' = [job EXCEPT ![j] = "completed"]
    /\ UNCHANGED rows
Fail(j) ==
    /\ job[j] \in Active /\ job' = [job EXCEPT ![j] = "failed"]
    /\ \/ job[j] = "apologised" /\ UNCHANGED rows
       \/ Write(j, "error")

\* DELETE /chat/jobs/{job_id} returns: the job is over by then, whatever it
\* wrote.  If the cancellation was lost on its way, the job may have ended by
\* itself, and been seen to; the DELETE has the last word.
Cancel(j) ==
    /\ job[j] \in Active \cup {"completed", "failed"}
    /\ Dropping([job EXCEPT ![j] = "cancelled"])
    /\ UNCHANGED rows

\* The server restarts: jobs live in its memory, messages do not.
Restart ==
    /\ job' = [j \in Jobs |-> IF job[j] = "none" THEN "none" ELSE "gone"]
    /\ UNCHANGED rows

Work(j) == Ask(j) \/ Answer(j) \/ Apologise(j) \/ Complete(j) \/ Fail(j)

Next ==
    \/ Forget
    \/ \E j \in Jobs : Post(j) \/ Work(j) \/ Cancel(j)
    \/ Restart

Spec == Init /\ [][Next]_<<job, rows>>
=============================================================================
