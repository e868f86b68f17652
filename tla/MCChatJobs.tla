----------------------------- MODULE MCChatJobs -----------------------------
(***************************************************************************)
(* Values of ChatJobs' constants for TLC.                                  *)
(***************************************************************************)
EXTENDS ChatJobs, TLC

CONSTANTS j1, j2, j3, u1, u2, s1, s2

\* Three jobs of one account in one conversation: the lock's queue.
OneUserOf == [j \in {j1, j2, j3} |-> u1]
OneSessionOf == [j \in {j1, j2, j3} |-> s1]

\* Two accounts with a conversation each; the second one posts two jobs.
TwoUserOf == (j1 :> u1) @@ (j2 :> u2) @@ (j3 :> u2)
TwoUserSessionOf == (j1 :> s1) @@ (j2 :> s2) @@ (j3 :> s2)

\* Job ids are interchangeable where all jobs have the same account and
\* conversation; used for safety properties only.
JobSymmetry == Permutations(Jobs)

\* The model and the tools of the first account may hang for ever.
FairSpec == Spec /\ FairnessFor({u2})

\* Every job of the second account settles: through a failed database write, a
\* restart and cancellations, lost ones included, and although a turn of the
\* first account may never end, as the lock of _run_job is one per account.
JobsSettle == SettlesFor({u2})

\* Every DELETE for a job of the second account gets its response.
CancelsAreAnswered == CancelsAnsweredFor({u2})
=============================================================================
