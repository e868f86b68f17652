-------------------------- MODULE ChatClient_proofs --------------------------
(***************************************************************************)
(* Theorems about ChatClient, for every set of jobs and every bound: what  *)
(* a finished reset deleted is never shown again, and no answer is left    *)
(* without its question.                                                   *)
(*                                                                         *)
(* Few of the steps concern the messages: each of them is shown to be of   *)
(* one of a few kinds first (Kinds), by what it may do to the messages     *)
(* stored, read, shown and deleted, and the invariant is proved for the    *)
(* kinds.                                                                  *)
(***************************************************************************)
EXTENDS ChatClient, SequenceTheorems, WellFoundedInduction, TLAPS

Active == Server!Active
OverOrGone == Server!Over \cup {"gone"}
States == {"none", "gone"} \cup Server!Active \cup Server!Over
Message == [job : Jobs, kind : {"question", "answer", "error"}]
Question(j) == [job |-> j, kind |-> "question"]

\* The shape of what the server keeps and of what the page is waiting for.
ShapeInv ==
    /\ job \in [Jobs -> States]
    /\ rows \in Seq(Message)
    /\ sync \in [at : {"idle", "asked"}, rows : Seq(Message), stale : BOOLEAN]
    /\ reset \in [at : {"idle", "cancel", "cleared"}, todo : SUBSET Jobs, deleted : SUBSET Message]

\* A job has asked its question, or is over with what else it wrote: it will not
\* write the message again.
Written(m) ==
    /\ job[m.job] \in States \ {"none", "new"}
    /\ m.kind # "question" => job[m.job] \in OverOrGone

\* What is stored has been written, and the question of a job that is yet to be
\* answered is stored, unless the job came behind a reset's back.
StoreInv ==
    /\ \A m \in ToSet(rows) : Written(m)
    /\ \A j \in Jobs : job[j] = "asked" /\ j \notin late => Question(j) \in ToSet(rows)

\* A reset that is still cancelling knows every job that runs, or it came late.
\* What it deleted is not stored again.
ResetInv ==
    /\ reset.at = "cancel" => \A j \in Jobs : job[j] \in Active => j \in reset.todo \cup late
    /\ reset.at = "cleared" => \A m \in reset.deleted : m \notin ToSet(rows) /\ Written(m)

\* What finished resets deleted is neither stored nor in the history that was
\* rendered, and no reply that still counts holds it: a reply that was asked for
\* before a reset is stale.
DroppedInv ==
    /\ dropped \subseteq Message
    /\ \A m \in dropped : m \notin ToSet(rows) /\ Written(m)
    /\ sync.at = "asked" =>
          /\ Resetting => sync.stale
          /\ ~sync.stale => ToSet(sync.rows) \cap dropped = {}
    /\ ToSet(base) \cap dropped = {}

IInv == ShapeInv /\ StoreInv /\ ResetInv /\ DroppedInv /\ AnswersKeepQuestions

-----------------------------------------------------------------------------
(* The server's jobs *)

\* The next id is one of the ids that are left.
LEMMA NextJobIsUnused ==
    ASSUME JobsLeft
    PROVE  NextJob \in Jobs /\ Unused(NextJob)
<1> DEFINE T == {i \in DOMAIN Order : Unused(Order[i])}
<1>1. DOMAIN Order = 1 .. Len(Order) /\ Len(Order) \in Nat /\ ToSet(Order) = Jobs
  BY ClientAssumption
<1>2. T # {}
  <2>1. PICK j \in Jobs : Unused(j)
    BY DEF JobsLeft
  <2>2. PICK i \in DOMAIN Order : Order[i] = j
    BY <1>1 DEF ToSet
  <2>3. QED
    BY <2>1, <2>2
<1>3. PICK i \in T : \A k \in T : ~(<<k, i>> \in OpToRel(<, Nat))
  <2>1. IsWellFoundedOn(OpToRel(<, Nat), Nat)
    BY NatLessThanWellFounded
  <2>2. T \subseteq Nat
    BY <1>1
  <2>3. QED
    BY <1>2, <2>1, <2>2, WFMin
<1>4. \A k \in 1 .. i - 1 : ~Unused(Order[k])
  <2>1. SUFFICES ASSUME NEW k \in 1 .. i - 1, Unused(Order[k]) PROVE FALSE
    OBVIOUS
  <2>2. i \in 1 .. Len(Order) /\ k \in Nat /\ i \in Nat /\ k < i /\ k \in DOMAIN Order
    BY <1>1
  <2>3. k \in T /\ <<k, i>> \in OpToRel(<, Nat)
    BY <2>1, <2>2 DEF OpToRel
  <2>4. QED
    BY <1>3, <2>3
<1> DEFINE First(n) == n \in DOMAIN Order /\ Unused(Order[n]) /\ \A k \in 1 .. n - 1 : ~Unused(Order[k])
<1>5. First(i)
  BY <1>4
<1>6. PICK n : NextJob = Order[n] /\ First(n)
  BY <1>5 DEF NextJob
<1>7. QED
  BY <1>1, <1>6 DEF ToSet

\* A job is posted.
LEMMA PostEffect ==
    ASSUME job \in [Jobs -> States], NEW j \in Jobs, Arrives(j)
    PROVE  /\ job[j] = "none" /\ job' = [job EXCEPT ![j] = "new"] /\ UNCHANGED rows
           /\ late' = IF reset.at = "cancel" THEN late \cup {j} ELSE late
<1>1. /\ job[j] = "none" /\ UNCHANGED rows
      /\ Server!Dropping([job EXCEPT ![j] = "new"]) /\ Only(j)
  BY DEF Arrives, Server!Post
<1>2. job' \in [Jobs -> States] /\ job'[j] = "new" /\ \A k \in Jobs \ {j} : job'[k] = job[k]
  BY <1>1 DEF Server!Dropping, Only, States, Server!Over, Server!Active
<1>3. job' = [job EXCEPT ![j] = "new"]
  BY <1>2
<1>4. QED
  BY <1>1, <1>3 DEF Arrives

\* Jobs that end, and are forgotten, and nothing else about them.
JobsEnd ==
    /\ job' \in [Jobs -> States]
    /\ \A j \in Jobs : job'[j] = job[j] \/ (job'[j] \in OverOrGone /\ job[j] # "none")

\* A message that is written stays written.
LEMMA StaysWritten ==
    ASSUME JobsEnd, NEW m \in Message, Written(m)
    PROVE  Written(m)'
<1>1. m.job \in Jobs
  BY DEF Message
<1>2. \/ job'[m.job] = job[m.job]
      \/ job'[m.job] \in OverOrGone /\ job[m.job] # "none"
  BY <1>1 DEF JobsEnd
<1>3. OverOrGone \subseteq States \ {"none", "new"}
  BY DEF OverOrGone, States, Server!Over
<1>4. QED
  BY <1>2, <1>3 DEF Written

\* A cancelled job is over.
LEMMA CancelEffect ==
    ASSUME job \in [Jobs -> States], NEW j \in Jobs, Server!Cancel(j), Only(j)
    PROVE  JobsEnd /\ UNCHANGED rows /\ job'[j] \in OverOrGone
BY DEF Server!Cancel, Server!Dropping, Only, JobsEnd, States, OverOrGone, Server!Over, Server!Active

\* Jobs that are left alone are a special case.
LEMMA NoJobEnds ==
    ASSUME job \in [Jobs -> States], UNCHANGED job
    PROVE  JobsEnd
BY DEF JobsEnd

\* The server forgets jobs, or restarts.
LEMMA ForgetEffect ==
    ASSUME job \in [Jobs -> States], Server!Forget \/ Server!Restart
    PROVE  JobsEnd /\ UNCHANGED rows
<1>1. CASE Server!Forget
  BY <1>1 DEF Server!Forget, Server!Dropping, JobsEnd, States, OverOrGone, Server!Over, Server!Active
<1>2. CASE Server!Restart
  BY <1>2 DEF Server!Restart, JobsEnd, States, OverOrGone
<1>3. QED
  BY <1>1, <1>2

\* What a job writes.
LEMMA WorkEffect ==
    ASSUME ShapeInv, NEW j \in Jobs, ServerWorks(j)
    PROVE  \E kind \in {"question", "answer", "error"}, s \in {"asked", "completed", "failed"} :
              /\ job[j] \in Active /\ job' = [job EXCEPT ![j] = s]
              /\ \/ rows' = Append(rows, [job |-> j, kind |-> kind])
                 \/ UNCHANGED rows /\ s = "failed"
              /\ IF s = "asked" THEN kind = "question" /\ job[j] = "new" ELSE kind # "question"
              /\ kind = "answer" => job[j] = "asked"
              /\ UNCHANGED <<base, sync, reset, late, dropped>>
<1>0. UNCHANGED <<base, sync, reset, late, dropped>>
  BY DEF ServerWorks, view, history
<1>1. CASE Server!Ask(j)
  BY <1>0, <1>1 DEF Server!Ask, Server!Write, Active, Server!Active
<1>2. CASE job[j] = "asked" /\ job' = [job EXCEPT ![j] = "completed"] /\ Server!Write(j, "answer")
  BY <1>0, <1>2 DEF Server!Write, Active, Server!Active
<1>3. CASE Server!Fail(j)
  BY <1>0, <1>3 DEF Server!Fail, Server!Write, Active
<1>4. QED
  BY <1>1, <1>2, <1>3 DEF ServerWorks

-----------------------------------------------------------------------------
(* What a step does to the messages *)

\* Jobs end, replies are dropped, the page is wiped, a reset goes on or fails:
\* no message is stored, read or shown.
Settling ==
    /\ JobsEnd
    /\ UNCHANGED <<rows, late, dropped>>
    /\ base' \in {base, <<>>} /\ sync' \in {sync, NoSync}
    /\ \/ reset' \in {reset, NoReset}
       \/ /\ reset.at = "cancel"
          /\ \E j \in Jobs : job'[j] \in OverOrGone /\ reset' = [reset EXCEPT !.todo = @ \ {j}]

\* The stored messages are read, and a reply that is not stale is shown.
Asking == Ask /\ ~Resetting /\ UNCHANGED <<service, base, reset, late, dropped>>
Rendering ==
    /\ sync.at = "asked" /\ ~sync.stale
    /\ base' = sync.rows /\ sync' = NoSync
    /\ UNCHANGED <<service, reset, late, dropped>>

Posting(j) == Arrives(j) /\ UNCHANGED <<base, sync, reset, dropped>>

Kinds ==
    \/ Settling \/ Asking \/ Rendering
    \/ \E j \in Jobs : Posting(j) \/ ServerWorks(j)
    \/ StartReset \/ ClearSession \/ ResetDone \/ ResetElsewhere

\* Steps that leave the jobs, the messages and the reset alone.
LEMMA Quiet ==
    ASSUME ShapeInv, UNCHANGED <<service, reset, late, dropped>>,
           base' \in {base, <<>>}, sync' \in {sync, NoSync}
    PROVE  Settling
BY NoJobEnds DEF Settling, ShapeInv, service

\* The end of a recovery asks for the messages, or does not.
LEMMA EndRecoveryKinds ==
    ASSUME ShapeInv, NEW tok, NEW cur, EndRecovery(tok, cur),
           UNCHANGED <<service, base, reset, late, dropped>>
    PROVE  Settling \/ Asking
<1>1. CASE CanSync(tok, cur) /\ Ask
  BY <1>1 DEF Asking, CanSync
<1>2. CASE UNCHANGED sync
  BY <1>2, Quiet
<1>3. QED
  BY <1>1, <1>2 DEF EndRecovery

\* What the user starts is a question, or a reset that has yet to ask the server.
LEMMA KindsUser == ShapeInv /\ User => Kinds
<1> SUFFICES ASSUME ShapeInv, User PROVE Kinds
  OBVIOUS
<1>1. CASE Submit
  BY <1>1, Quiet DEF Submit, Kinds, history
<1>2. CASE Stop
  BY <1>2, Quiet DEF Stop, Kinds, history
<1>3. CASE Login
  BY <1>3, Quiet DEF Login, Wipe, Kinds, history
<1>4. CASE Logout
  BY <1>4, Quiet DEF Logout, ShowLogin, Hide, Wipe, Kinds, history
<1>5. CASE Reload
  <2>1. /\ UNCHANGED <<service, late, dropped>> /\ base' = <<>> /\ sync' = NoSync /\ reset' = NoReset
    BY <1>5 DEF Reload, Wipe, history
  <2>2. QED
    BY <2>1, NoJobEnds DEF Settling, Kinds, ShapeInv, service
<1>6. CASE StartReset
  BY <1>6 DEF Kinds
<1>7. QED
  BY <1>1, <1>2, <1>3, <1>4, <1>5, <1>6 DEF User

\* A submission settles, renders, or posts its job.
LEMMA KindsSubmission ==
    ASSUME ShapeInv, NEW j \in Jobs,
           Submission(j) \/ PostFails(j) \/ CancelArrives(j) \/ CancelLost(j) \/ ServerWorks(j)
    PROVE  Kinds
<1>1. CASE PostRefused(j)
  <2>1. CASE Hide
    BY <1>1, <2>1, Quiet DEF PostRefused, Hide, Wipe, Kinds, history
  <2>2. CASE UNCHANGED view
    BY <1>1, <2>2, Quiet DEF PostRefused, Kinds, history, view
  <2>3. QED
    BY <1>1, <2>1, <2>2 DEF PostRefused
<1>2. CASE PostArrives(j)
  BY <1>2 DEF PostArrives, Posting, Kinds, view
<1>3. CASE PostAnswered(j)
  BY <1>3, Quiet DEF PostAnswered, Kinds, history, view
<1>4. CASE SubmissionEnds(j)
  <2>1. UNCHANGED base \/ base' = <<>>
    BY <1>4 DEF SubmissionEnds, Hide, Wipe, view
  <2>2. QED
    BY <1>4, <2>1, Quiet DEF SubmissionEnds, Kinds, history
<1>5. CASE PostFails(j)
  BY <1>5, Quiet DEF PostFails, Kinds, history
<1>6. CASE CancelArrives(j)
  <2>1. UNCHANGED <<base, sync, reset, late, dropped>>
    BY <1>6 DEF CancelArrives, history, view
  <2>2. CASE Server!Cancel(j) /\ Only(j)
    BY <2>1, <2>2, CancelEffect DEF Settling, Kinds, ShapeInv
  <2>3. CASE UNCHANGED service
    BY <2>1, <2>3, Quiet DEF Kinds
  <2>4. QED
    BY <1>6, <2>2, <2>3 DEF CancelArrives
<1>7. CASE CancelLost(j)
  BY <1>7, Quiet DEF CancelLost, Kinds, history, view
<1>8. CASE ServerWorks(j)
  BY <1>8 DEF Kinds
<1>9. QED
  BY <1>1, <1>2, <1>3, <1>4, <1>5, <1>6, <1>7, <1>8 DEF Submission

\* A reply to the page shows what it holds unless a reset made it stale.
LEMMA KindsSync == ShapeInv /\ (Sync \/ HistoryLost) => Kinds
<1> SUFFICES ASSUME ShapeInv, Sync \/ HistoryLost PROVE Kinds
  OBVIOUS
<1>1. CASE HistoryArrives
  <2>1. /\ sync.at = "asked" /\ sync' = NoSync /\ UNCHANGED <<service, reset, late, dropped>>
        /\ IF sync.stale \/ Resetting THEN UNCHANGED view ELSE Render(sync.rows)
    BY <1>1 DEF HistoryArrives, history
  <2>2. CASE UNCHANGED view
    BY <2>1, <2>2, Quiet DEF Kinds, view
  <2>3. CASE ~sync.stale /\ Render(sync.rows)
    <3>1. UNCHANGED view \/ base' = sync.rows
      BY <2>3 DEF Render
    <3>2. QED
      BY <2>1, <2>2, <2>3, <3>1 DEF Rendering, Kinds
  <2>4. QED
    BY <2>1, <2>2, <2>3
<1>2. CASE HistoryRefused
  BY <1>2, Quiet DEF HistoryRefused, ShowLogin, Hide, Wipe, Kinds, history
<1>3. CASE HistoryLost
  BY <1>3, Quiet DEF HistoryLost, Kinds, history, view
<1>4. QED
  BY <1>1, <1>2, <1>3 DEF Sync

\* A recovery renders or settles, and deletes nothing.
LEMMA KindsRecovering == ShapeInv /\ (Recovering \/ ResolveFails) => Kinds
<1> SUFFICES ASSUME ShapeInv, Recovering \/ ResolveFails PROVE Kinds
  OBVIOUS
<1>1. CASE Recover
  <2>1. UNCHANGED <<service, base, reset, late, dropped>>
    BY <1>1 DEF Recover, history, view
  <2>2. CASE CanSync(token, current) /\ Ask
    BY <2>1, <2>2 DEF Asking, CanSync, Kinds
  <2>3. CASE UNCHANGED sync
    BY <2>1, <2>3, Quiet DEF Kinds
  <2>4. QED
    BY <1>1, <2>2, <2>3 DEF Recover
<1>2. CASE RecoveryRefused
  <2>1. UNCHANGED <<service, reset, late, dropped, sync>> /\ base' = <<>>
    BY <1>2 DEF RecoveryRefused, ShowLogin, Hide, Wipe, EndRecovery, CanSync, history
  <2>2. QED
    BY <2>1, Quiet DEF Kinds
<1>3. ASSUME Resolve \/ ResolveFails PROVE Kinds
  <2>1. UNCHANGED <<service, base, reset, late, dropped>>
    BY <1>3 DEF Resolve, ResolveFails, history
  <2>2. UNCHANGED sync \/ EndRecovery(token, current)
    BY <1>3 DEF Resolve, ResolveFails, Adopt
  <2>3. QED
    BY <2>1, <2>2, Quiet, EndRecoveryKinds DEF Kinds
<1>4. CASE RecoveryEnds
  <2>1. UNCHANGED <<service, base, reset, late, dropped>> /\ EndRecovery(token, current')
    BY <1>4 DEF RecoveryEnds, history
  <2>2. QED
    BY <2>1, EndRecoveryKinds DEF Kinds
<1>5. CASE RecoveryExpires
  <2>1. UNCHANGED <<service, reset, late, dropped, sync>> /\ base' = <<>>
    BY <1>5 DEF RecoveryExpires, ShowLogin, Hide, Wipe, EndRecovery, CanSync, history
  <2>2. QED
    BY <2>1, Quiet DEF Kinds
<1>6. QED
  BY <1>1, <1>2, <1>3, <1>4, <1>5 DEF Recovering

\* A reset cancels its jobs one by one, deletes the session and then ends.
LEMMA KindsReset == ShapeInv /\ ResetStep => Kinds
<1> SUFFICES ASSUME ShapeInv, ResetStep PROVE Kinds
  OBVIOUS
<1>1. CASE CancelNext
  <2>1. reset.at = "cancel" /\ UNCHANGED <<base, sync, late, dropped>>
    BY <1>1 DEF CancelNext, history, view
  <2>2. PICK j \in reset.todo :
          /\ \/ Server!Cancel(j) /\ Only(j)
             \/ job[j] \in Server!Over /\ UNCHANGED service
          /\ reset' = [reset EXCEPT !.todo = @ \ {j}]
    BY <1>1 DEF CancelNext
  <2>3. j \in Jobs
    BY DEF ShapeInv
  <2>4. CASE Server!Cancel(j) /\ Only(j)
    <3>1. JobsEnd /\ UNCHANGED rows /\ job'[j] \in OverOrGone
      BY <2>3, <2>4, CancelEffect DEF ShapeInv
    <3>2. QED
      BY <2>1, <2>2, <2>3, <3>1 DEF Settling, Kinds
  <2>5. CASE job[j] \in Server!Over /\ UNCHANGED service
    <3>1. JobsEnd /\ UNCHANGED rows /\ job'[j] \in OverOrGone
      BY <2>5, NoJobEnds DEF ShapeInv, service, OverOrGone
    <3>2. QED
      BY <2>1, <2>2, <2>3, <3>1 DEF Settling, Kinds
  <2>6. QED
    BY <2>2, <2>4, <2>5
<1>2. CASE ResetFails
  <2>1. UNCHANGED <<service, base, sync, late, dropped>> /\ reset' = NoReset
    BY <1>2 DEF ResetFails, history
  <2>2. QED
    BY <2>1, NoJobEnds DEF Settling, Kinds, ShapeInv, service
<1>3. QED
  BY <1>1, <1>2 DEF ResetStep, Kinds

\* Every step is of one of the kinds.
LEMMA KindsOfSteps == ShapeInv /\ [Next]_vars => Kinds
<1> SUFFICES ASSUME ShapeInv, [Next]_vars PROVE Kinds
  OBVIOUS
<1>1. CASE ServerForgets \/ ServerRestarts
  <2>1. UNCHANGED <<base, sync, reset, late, dropped>> /\ (Server!Forget \/ Server!Restart)
    BY <1>1 DEF ServerForgets, ServerRestarts, history, view
  <2>2. QED
    BY <2>1, ForgetEffect DEF Settling, Kinds, ShapeInv
<1>2. CASE LoginElsewhere
  BY <1>2, Quiet DEF LoginElsewhere, Kinds, history, view
<1>3. CASE PostElsewhere
  <2>1. JobsLeft /\ Arrives(NextJob) /\ UNCHANGED <<base, sync, reset, dropped>>
    BY <1>3 DEF PostElsewhere, view
  <2>2. QED
    BY <2>1, NextJobIsUnused DEF Posting, Kinds
<1>4. CASE ResetElsewhere
  BY <1>4 DEF Kinds
<1>5. CASE UNCHANGED vars
  BY <1>5, Quiet DEF vars, history, view, Kinds
<1>6. QED
  BY <1>1, <1>2, <1>3, <1>4, <1>5, KindsUser, KindsSubmission, KindsSync, KindsRecovering, KindsReset
     DEF Next, Elsewhere

-----------------------------------------------------------------------------
(* The invariant *)

\* One more message stored.
LEMMA Stored ==
    ASSUME rows \in Seq(Message), NEW m \in Message, rows' = Append(rows, m)
    PROVE  rows' \in Seq(Message) /\ ToSet(rows)' = ToSet(rows) \cup {m}
<1>1. /\ DOMAIN rows = 1 .. Len(rows) /\ DOMAIN rows' = 1 .. Len(rows) + 1 /\ Len(rows) \in Nat
      /\ rows'[Len(rows) + 1] = m /\ \A i \in 1 .. Len(rows) : rows'[i] = rows[i]
  OBVIOUS
<1>2. QED
  BY <1>1 DEF ToSet

\* The messages of a sequence are messages.
LEMMA Elements ==
    ASSUME NEW s \in Seq(Message)
    PROVE  ToSet(s) \subseteq Message
BY DEF ToSet

\* Where nothing is stored, read or shown.
LEMMA SettlingKeeps ==
    ASSUME IInv, Settling
    PROVE  IInv'
<1> USE DEF IInv
<1>1. UNCHANGED <<rows, late, dropped>> /\ ToSet(rows)' = ToSet(rows)
  BY DEF Settling, ToSet
<1>2. \A j \in Jobs : /\ job'[j] \in States
                      /\ job'[j] = job[j] \/ (job'[j] \in OverOrGone /\ job[j] # "none")
  BY DEF Settling, JobsEnd
<1>3. OverOrGone \cap ({"none", "asked"} \cup Active) = {}
  BY DEF OverOrGone, Active, Server!Over, Server!Active
<1>4. \A m \in ToSet(rows) : m.job \in Jobs
  BY Elements DEF ShapeInv, Message
<1>5. ShapeInv'
  <2>1. NoReset \in [at : {"idle", "cancel", "cleared"}, todo : SUBSET Jobs, deleted : SUBSET Message]
    BY DEF NoReset
  <2>2. NoSync \in [at : {"idle", "asked"}, rows : Seq(Message), stale : BOOLEAN]
    BY DEF NoSync
  <2>3. \A j \in Jobs : [reset EXCEPT !.todo = @ \ {j}]
                          \in [at : {"idle", "cancel", "cleared"},
                              todo : SUBSET Jobs, deleted : SUBSET Message]
    BY DEF ShapeInv
  <2>4. QED
    BY <1>1, <2>1, <2>2, <2>3 DEF Settling, JobsEnd, ShapeInv
<1>6. StoreInv'
  <2>1. \A m \in ToSet(rows)' : Written(m)'
    BY <1>1, StaysWritten, Elements DEF Settling, StoreInv, ShapeInv
  <2>2. QED
    BY <1>1, <1>2, <1>3, <2>1 DEF StoreInv
<1>7. ResetInv'
  <2>1. reset.at = "cleared" => \A m \in reset.deleted : m \notin ToSet(rows) /\ Written(m)'
    BY StaysWritten DEF Settling, ResetInv, ShapeInv
  <2>2. CASE reset' = reset
    BY <1>1, <1>2, <1>3, <2>1, <2>2 DEF ResetInv
  <2>3. CASE reset' = NoReset
    BY <2>3 DEF ResetInv, NoReset
  <2>4. CASE /\ reset.at = "cancel"
             /\ \E j \in Jobs : job'[j] \in OverOrGone /\ reset' = [reset EXCEPT !.todo = @ \ {j}]
    <3>1. PICK j \in Jobs : job'[j] \in OverOrGone /\ reset' = [reset EXCEPT !.todo = @ \ {j}]
      BY <2>4
    <3>2. reset'.at = "cancel" /\ reset'.todo = reset.todo \ {j}
      BY <2>4, <3>1 DEF ShapeInv
    <3>3. ASSUME NEW k \in Jobs, job'[k] \in Active PROVE k \in reset'.todo \cup late'
      <4>1. k # j /\ job[k] \in Active
        BY <1>2, <1>3, <3>1, <3>3
      <4>2. QED
        BY <1>1, <2>4, <3>2, <4>1 DEF ResetInv
    <3>4. QED
      BY <3>2, <3>3 DEF ResetInv
  <2>5. QED
    BY <2>2, <2>3, <2>4 DEF Settling
<1>8. DroppedInv'
  <2>2. \A m \in dropped' : m \notin ToSet(rows)' /\ Written(m)'
    BY <1>1, StaysWritten DEF Settling, DroppedInv
  <2>3. sync'.at = "asked" => sync' = sync
    BY DEF Settling, NoSync
  <2>4. Resetting' => Resetting
    BY DEF Settling, Resetting, NoReset
  <2>5. (ToSet(base) \cap dropped = {})'
    <3>1. ToSet(<<>>) = {}
      BY DEF ToSet
    <3>2. ToSet(base)' \in {ToSet(base), {}}
      BY <3>1 DEF Settling, ToSet
    <3>3. QED
      BY <1>1, <3>2 DEF DroppedInv
  <2>6. QED
    BY <1>1, <2>2, <2>3, <2>4, <2>5 DEF DroppedInv
<1>9. AnswersKeepQuestions'
  BY <1>1 DEF AnswersKeepQuestions
<1>10. QED
  BY <1>5, <1>6, <1>7, <1>8, <1>9

\* Where the server's side stays, the first three parts and the last do.
LEMMA ServerStays ==
    ASSUME IInv, UNCHANGED <<service, reset, late, dropped>>
    PROVE  /\ StoreInv' /\ ResetInv' /\ AnswersKeepQuestions'
           /\ job' \in [Jobs -> States] /\ rows' \in Seq(Message)
           /\ ToSet(rows)' = ToSet(rows) /\ (Resetting' <=> Resetting)
           /\ \A m \in dropped' : m \notin ToSet(rows)' /\ Written(m)'
<1>1. job' = job /\ rows' = rows
  BY DEF service
<1>2. ToSet(rows)' = ToSet(rows) /\ (Resetting' <=> Resetting) /\ \A m : Written(m)' <=> Written(m)
  BY <1>1 DEF ToSet, Resetting, Written
<1>3. QED
  BY <1>1, <1>2 DEF IInv, ShapeInv, StoreInv, ResetInv, DroppedInv, AnswersKeepQuestions

\* What is read now holds nothing that was dropped.
LEMMA AskingKeeps ==
    ASSUME IInv, Asking
    PROVE  IInv'
<1> USE DEF IInv
<1>1. /\ sync' = [at |-> "asked", rows |-> rows, stale |-> FALSE] /\ ~Resetting
      /\ UNCHANGED <<service, base, reset, late, dropped>>
  BY DEF Asking, Ask
<1>2. sync'.rows = rows /\ sync'.at = "asked"
  BY <1>1
<1>3. ToSet(sync'.rows) \cap dropped' = {}
  BY <1>1, <1>2 DEF DroppedInv, ToSet
<1>4. ShapeInv'
  BY <1>1, ServerStays DEF ShapeInv
<1>5. (ToSet(base) \cap dropped = {})'
  <2>1. ToSet(base)' = ToSet(base)
    BY <1>1 DEF ToSet
  <2>2. QED
    BY <1>1, <2>1 DEF DroppedInv
<1>6. ToSet(sync.rows)' = ToSet(sync'.rows)
  BY DEF ToSet
<1>7. DroppedInv'
  BY <1>1, <1>3, <1>5, <1>6, ServerStays DEF DroppedInv
<1>8. QED
  BY <1>1, <1>4, <1>7, ServerStays

\* What is shown has been read, and is not stale.
LEMMA RenderingKeeps ==
    ASSUME IInv, Rendering
    PROVE  IInv'
<1> USE DEF IInv
<1>1. /\ sync.at = "asked" /\ ~sync.stale /\ base' = sync.rows /\ sync' = NoSync
      /\ UNCHANGED <<service, reset, late, dropped>>
  BY DEF Rendering
<1>2. (ToSet(base) \cap dropped = {})'
  <2>1. ToSet(base)' = ToSet(sync.rows)
    BY <1>1 DEF ToSet
  <2>2. QED
    BY <1>1, <2>1 DEF DroppedInv
<1>3. ShapeInv'
  BY <1>1, ServerStays DEF ShapeInv, NoSync
<1>4. DroppedInv'
  BY <1>1, <1>2, ServerStays DEF DroppedInv, NoSync
<1>5. QED
  BY <1>1, <1>3, <1>4, ServerStays

\* A job posted while a reset cancels is late.
LEMMA PostingKeeps ==
    ASSUME IInv, NEW j \in Jobs, Posting(j)
    PROVE  IInv'
<1> USE DEF IInv
<1>1. /\ job[j] = "none" /\ job' = [job EXCEPT ![j] = "new"]
      /\ UNCHANGED <<rows, base, sync, reset, dropped>>
      /\ late' = IF reset.at = "cancel" THEN late \cup {j} ELSE late
  BY PostEffect DEF Posting, ShapeInv
<1>2. /\ job' \in [Jobs -> States] /\ job'[j] = "new" /\ \A k \in Jobs : k # j => job'[k] = job[k]
      /\ ToSet(rows)' = ToSet(rows) /\ ToSet(sync.rows)' = ToSet(sync.rows) /\ ToSet(base)' = ToSet(base)
      /\ late \subseteq late' /\ (Resetting' <=> Resetting)
  BY <1>1 DEF ShapeInv, States, Server!Active, ToSet, Resetting
<1>3. ASSUME NEW m, Written(m) PROVE Written(m)'
  <2>1. m.job # j
    BY <1>1, <1>3 DEF Written
  <2>2. m.job \in Jobs \/ job'[m.job] = job[m.job]
    BY <1>1, <2>1 DEF ShapeInv
  <2>3. QED
    BY <1>2, <1>3, <2>1, <2>2 DEF Written
<1>4. "new" # "asked"
  OBVIOUS
<1>5. ShapeInv'
  BY <1>1, <1>2 DEF ShapeInv
<1>6. StoreInv'
  BY <1>1, <1>2, <1>3, <1>4 DEF StoreInv
<1>7. ResetInv'
  BY <1>1, <1>2, <1>3 DEF ResetInv
<1>8. DroppedInv'
  BY <1>1, <1>2, <1>3 DEF DroppedInv
<1>9. AnswersKeepQuestions'
  BY <1>1, <1>2 DEF AnswersKeepQuestions
<1>10. QED
  BY <1>5, <1>6, <1>7, <1>8, <1>9

\* A job that writes is active, and was asked before it is answered.
LEMMA WorkingKeeps ==
    ASSUME IInv, NEW j \in Jobs, ServerWorks(j)
    PROVE  IInv'
<1> USE DEF IInv
<1>1. PICK kind \in {"question", "answer", "error"}, s \in {"asked", "completed", "failed"} :
              /\ job[j] \in Active /\ job' = [job EXCEPT ![j] = s]
              /\ \/ rows' = Append(rows, [job |-> j, kind |-> kind])
                 \/ UNCHANGED rows /\ s = "failed"
              /\ IF s = "asked" THEN kind = "question" /\ job[j] = "new" ELSE kind # "question"
              /\ kind = "answer" => job[j] = "asked"
              /\ UNCHANGED <<base, sync, reset, late, dropped>>
  BY WorkEffect
<1> DEFINE m == [job |-> j, kind |-> kind]
<1>2. /\ job' \in [Jobs -> States] /\ job'[j] = s /\ \A k \in Jobs : k # j => job'[k] = job[k]
      /\ ToSet(sync.rows)' = ToSet(sync.rows) /\ ToSet(base)' = ToSet(base) /\ (Resetting' <=> Resetting)
  BY <1>1 DEF ShapeInv, States, Server!Active, Server!Over, ToSet, Resetting
<1>3. /\ rows' \in Seq(Message)
      /\ ToSet(rows) \subseteq ToSet(rows)' /\ ToSet(rows)' \subseteq ToSet(rows) \cup {m}
      /\ s # "failed" => m \in ToSet(rows)'
  <2>1. m \in Message
    BY DEF Message
  <2>2. CASE rows' = Append(rows, m)
    BY <2>1, <2>2, Stored DEF ShapeInv
  <2>3. CASE UNCHANGED rows /\ s = "failed"
    BY <2>3 DEF ShapeInv, ToSet
  <2>4. QED
    BY <1>1, <2>2, <2>3
<1>4. OverOrGone \cap Active = {} /\ "none" \notin Active /\ s \in Active \cup OverOrGone /\ s # "none"
      /\ (s \in Active => s = "asked")
  BY DEF OverOrGone, Active, Server!Over, Server!Active
<1>5. m.job = j /\ m.kind = kind
  OBVIOUS
<1> HIDE DEF m
<1>6. ASSUME NEW x \in Message, Written(x) PROVE Written(x)' /\ x # m
  <2>1. x.job \in Jobs
    BY DEF Message
  <2>2. CASE x.job # j
    BY <1>2, <1>5, <1>6, <2>1, <2>2 DEF Written
  <2>3. CASE x.job = j
    <3>1. x.kind = "question" /\ job[j] \in Active \ {"none", "new"}
      BY <1>1, <1>4, <1>6, <2>3 DEF Written
    <3>2. kind # "question" /\ s \in States \ {"none", "new"}
      BY <1>1, <3>1 DEF States, Server!Active, Server!Over
    <3>3. QED
      BY <1>2, <1>5, <2>3, <3>1, <3>2 DEF Written
  <2>4. QED
    BY <2>2, <2>3
<1>13. m \in Message /\ (rows' # rows => Written(m)')
  <2>1. m \in Message
    BY DEF m, Message
  <2>2. s \in States \ {"none", "new"} /\ (s # "asked" => s \in OverOrGone)
    BY DEF States, OverOrGone, Server!Active, Server!Over
  <2>3. QED
    BY <1>1, <1>2, <1>5, <2>1, <2>2 DEF Written
<1>7. ShapeInv'
  BY <1>1, <1>2, <1>3 DEF ShapeInv
<1>8. StoreInv'
  <2>1. \A x \in ToSet(rows)' : Written(x)'
    <3>1. \A x \in ToSet(rows) : Written(x)'
      BY <1>6, Elements DEF StoreInv, ShapeInv
    <3>2. rows' = rows => ToSet(rows)' = ToSet(rows)
      BY DEF ToSet
    <3>3. QED
      BY <1>3, <1>13, <3>1, <3>2
  <2>2. ASSUME NEW k \in Jobs, job'[k] = "asked", k \notin late' PROVE Question(k) \in ToSet(rows)'
    <3>1. CASE k = j
      <4>1. s = "asked" /\ m = Question(j)
        BY <1>1, <1>2, <2>2, <3>1 DEF Question, m
      <4>2. QED
        BY <1>3, <3>1, <4>1
    <3>2. CASE k # j
      BY <1>1, <1>2, <1>3, <2>2, <3>2 DEF StoreInv
    <3>3. QED
      BY <3>1, <3>2
  <2>3. QED
    BY <2>1, <2>2 DEF StoreInv, Question
<1>9. ResetInv'
  <2>2. reset.at = "cleared" => \A x \in reset.deleted : x \notin ToSet(rows)' /\ Written(x)'
    BY <1>3, <1>6 DEF ResetInv, ShapeInv
  <2>3. ASSUME reset.at = "cancel", NEW k \in Jobs, job'[k] \in Active PROVE k \in reset.todo \cup late
    <3>1. job[k] \in Active
      BY <1>1, <1>2, <2>3
    <3>2. QED
      BY <2>3, <3>1 DEF ResetInv
  <2>4. QED
    BY <1>1, <2>2, <2>3 DEF ResetInv
<1>10. DroppedInv'
  <2>3. \A x \in dropped' : x \notin ToSet(rows)' /\ Written(x)'
    BY <1>1, <1>3, <1>6 DEF DroppedInv
  <2>4. QED
    BY <1>1, <1>2, <2>3 DEF DroppedInv
<1>11. AnswersKeepQuestions'
  <2>1. SUFFICES ASSUME NEW x \in ToSet(rows)', x.kind = "answer", x.job \notin late
                 PROVE  Question(x.job) \in ToSet(rows)'
    BY <1>1 DEF AnswersKeepQuestions, Question
  <2>2. CASE x \in ToSet(rows)
    BY <1>3, <2>1, <2>2 DEF AnswersKeepQuestions, Question
  <2>3. CASE x = m
    <3>1. job[j] = "asked" /\ j \notin late
      BY <1>1, <1>5, <2>1, <2>3
    <3>2. QED
      BY <1>3, <1>5, <2>3, <3>1 DEF StoreInv
  <2>4. QED
    BY <1>3, <2>1, <2>2, <2>3
<1>12. QED
  BY <1>7, <1>8, <1>9, <1>10, <1>11

\* Everything the page waits for when a reset starts becomes stale.
LEMMA StartResetKeeps ==
    ASSUME IInv, StartReset
    PROVE  IInv'
<1> USE DEF IInv
<1>1. /\ ~Resetting /\ UNCHANGED <<job, rows, base, late, dropped>>
      /\ reset' = [NoReset EXCEPT !.at = "cancel", !.todo = {j \in Jobs : job[j] \in Server!Active}]
      /\ sync' = [sync EXCEPT !.stale = sync.at # "idle"]
  BY DEF StartReset, service, view, history
<1>2. /\ reset'.at = "cancel" /\ reset'.todo = {j \in Jobs : job[j] \in Active} /\ reset'.deleted = {}
      /\ reset' \in [at : {"idle", "cancel", "cleared"}, todo : SUBSET Jobs, deleted : SUBSET Message]
  BY <1>1 DEF NoReset, Active
<1>3. /\ sync' \in [at : {"idle", "asked"}, rows : Seq(Message), stale : BOOLEAN]
      /\ sync'.at = "asked" => sync'.stale
  BY <1>1 DEF ShapeInv
<1>4. ToSet(rows)' = ToSet(rows) /\ ToSet(base)' = ToSet(base) /\ \A m : Written(m)' <=> Written(m)
  BY <1>1 DEF ToSet, Written
<1>5. ShapeInv'
  BY <1>1, <1>2, <1>3 DEF ShapeInv
<1>6. StoreInv' /\ AnswersKeepQuestions'
  BY <1>1, <1>4 DEF StoreInv, AnswersKeepQuestions
<1>7. ResetInv'
  BY <1>1, <1>2 DEF ResetInv
<1>8. DroppedInv'
  BY <1>1, <1>3, <1>4 DEF DroppedInv
<1>9. QED
  BY <1>5, <1>6, <1>7, <1>8

\* No messages are left: what is deleted has been written.
LEMMA ClearSessionKeeps ==
    ASSUME IInv, ClearSession
    PROVE  IInv'
<1> USE DEF IInv
<1>1. /\ reset.at = "cancel" /\ reset.todo = {} /\ UNCHANGED <<job, base, sync, late, dropped>>
      /\ reset' = [reset EXCEPT !.at = "cleared", !.deleted = ToSet(rows)] /\ rows' = <<>>
  BY DEF ClearSession, view, history
<1>2. /\ ToSet(rows)' = {} /\ ToSet(base)' = ToSet(base) /\ ToSet(sync.rows)' = ToSet(sync.rows)
      /\ \A m : Written(m)' <=> Written(m)
  BY <1>1 DEF ToSet, Written
<1>3. ToSet(rows) \subseteq Message /\ \A m \in ToSet(rows) : m.job \in Jobs
  BY Elements DEF ShapeInv, Message
<1>4. /\ reset'.at = "cleared" /\ reset'.deleted = ToSet(rows)
      /\ reset' \in [at : {"idle", "cancel", "cleared"}, todo : SUBSET Jobs, deleted : SUBSET Message]
  BY <1>1, <1>3 DEF ShapeInv
<1>5. \A j \in Jobs : j \notin late => job[j] \notin Active
  BY <1>1 DEF ResetInv
<1>6. ShapeInv'
  BY <1>1, <1>4 DEF ShapeInv
<1>7. StoreInv'
  BY <1>1, <1>2, <1>5 DEF StoreInv, Active, Server!Active
<1>8. ResetInv'
  BY <1>1, <1>2, <1>4 DEF ResetInv, StoreInv
<1>9. DroppedInv'
  BY <1>1, <1>2, <1>4 DEF DroppedInv, Resetting
<1>10. AnswersKeepQuestions'
  BY <1>2 DEF AnswersKeepQuestions
<1>11. QED
  BY <1>6, <1>7, <1>8, <1>9, <1>10

\* The reset is over, and the page shows nothing.
LEMMA ResetDoneKeeps ==
    ASSUME IInv, ResetDone
    PROVE  IInv'
<1> USE DEF IInv
<1>1. /\ reset.at = "cleared" /\ reset' = NoReset /\ base' = <<>> /\ UNCHANGED <<job, rows, sync, late>>
      /\ dropped' = dropped \cup reset.deleted
  BY DEF ResetDone, Wipe, service
<1>2. /\ ToSet(rows)' = ToSet(rows) /\ ToSet(base)' = {} /\ ToSet(sync.rows)' = ToSet(sync.rows)
      /\ \A m : Written(m)' <=> Written(m)
  BY <1>1 DEF ToSet, Written
<1>3. ShapeInv'
  BY <1>1 DEF ShapeInv, NoReset
<1>4. StoreInv' /\ AnswersKeepQuestions'
  BY <1>1, <1>2 DEF StoreInv, AnswersKeepQuestions
<1>5. ResetInv'
  BY <1>1 DEF ResetInv, NoReset
<1>6. DroppedInv'
  <2>1. dropped' \subseteq Message
    BY <1>1 DEF ShapeInv, DroppedInv
  <2>2. \A m \in dropped' : m \notin ToSet(rows) /\ Written(m)
    BY <1>1 DEF DroppedInv, ResetInv
  <2>3. sync.at = "asked" => sync.stale
    BY <1>1 DEF DroppedInv, Resetting
  <2>4. ~Resetting'
    BY <1>1 DEF Resetting, NoReset
  <2>5. QED
    BY <1>1, <1>2, <2>1, <2>2, <2>3, <2>4 DEF DroppedInv
<1>7. QED
  BY <1>3, <1>4, <1>5, <1>6

\* Another device deletes the messages while no job runs.
LEMMA ResetElsewhereKeeps ==
    ASSUME IInv, ResetElsewhere
    PROVE  IInv'
<1> USE DEF IInv
<1>1. /\ \A j \in Jobs : job[j] \notin Server!Active
      /\ rows' = <<>> /\ UNCHANGED <<job, base, sync, reset, late, dropped>>
  BY DEF ResetElsewhere, view, history
<1>2. /\ ToSet(rows)' = {} /\ ToSet(base)' = ToSet(base) /\ ToSet(sync.rows)' = ToSet(sync.rows)
      /\ \A m : Written(m)' <=> Written(m)
  BY <1>1 DEF ToSet, Written
<1>3. ShapeInv'
  BY <1>1 DEF ShapeInv
<1>4. StoreInv' /\ AnswersKeepQuestions'
  BY <1>1, <1>2 DEF StoreInv, AnswersKeepQuestions, Server!Active
<1>5. ResetInv'
  BY <1>1, <1>2 DEF ResetInv
<1>6. DroppedInv'
  BY <1>1, <1>2 DEF DroppedInv, Resetting
<1>7. QED
  BY <1>3, <1>4, <1>5, <1>6

\* Every step keeps the invariant.
LEMMA IInvStep == IInv /\ [Next]_vars => IInv'
<1> SUFFICES ASSUME IInv, [Next]_vars PROVE IInv'
  OBVIOUS
<1>1. Kinds
  BY KindsOfSteps DEF IInv
<1>2. QED
  BY <1>1, SettlingKeeps, AskingKeeps, RenderingKeeps, PostingKeeps, WorkingKeeps, StartResetKeeps,
     ClearSessionKeeps, ResetDoneKeeps, ResetElsewhereKeeps DEF Kinds

\* A page is opened on an empty conversation.
LEMMA IInvInit == Init => IInv
<1> SUFFICES ASSUME Init PROVE IInv
  OBVIOUS
<1>1. /\ job = [j \in Jobs |-> "none"] /\ rows = <<>> /\ base = <<>> /\ sync = NoSync /\ reset = NoReset
      /\ dropped = {}
  BY DEF Init, Server!Init
<1>2. ToSet(rows) = {} /\ ToSet(base) = {}
  BY <1>1 DEF ToSet
<1>3. ShapeInv
  BY <1>1 DEF ShapeInv, States, NoSync, NoReset
<1>4. StoreInv /\ AnswersKeepQuestions
  BY <1>1, <1>2 DEF StoreInv, AnswersKeepQuestions
<1>5. ResetInv
  BY <1>1 DEF ResetInv, NoReset
<1>6. DroppedInv
  BY <1>1, <1>2 DEF DroppedInv, NoSync
<1>7. QED
  BY <1>3, <1>4, <1>5, <1>6 DEF IInv

\* No reset, on this page or on another device, and no restart of the server
\* leaves an answer without its question in the conversation, unless the job was
\* posted while a reset was cancelling the jobs it knew.
THEOREM AnswersAreKeptWithQuestions == Spec => []AnswersKeepQuestions
<1>1. IInv => AnswersKeepQuestions
  BY DEF IInv
<1>2. QED
  BY <1>1, IInvInit, IInvStep, PTL DEF Spec

-----------------------------------------------------------------------------
(* The types of the page *)

\* Where the recovery and the submissions stand.
RecType == [at : {"idle", "sync", "resolve", "polling"}, job : Jobs \cup {None}, stale : BOOLEAN]
SubType == [Jobs -> {"idle", "sent", "polling", "done"}]
BubbleType == [by : {"form", "recovery"}, job : Jobs,
               shows : {"waiting", "answer", "error", "note", "abandoned"}]

\* What TypeOK says beyond ShapeInv.
PageTyped ==
    /\ valid \in BOOLEAN /\ token \in BOOLEAN /\ signed \in BOOLEAN /\ failed \in BOOLEAN
    /\ bubbles \subseteq BubbleType
    /\ current \in Jobs \cup {None} /\ active \in Jobs \cup {None} /\ saved \in Jobs \cup {None}
    /\ sub \in SubType
    /\ wire \subseteq Jobs /\ deletes \subseteq Jobs /\ late \subseteq Jobs /\ resaved \subseteq Jobs
    /\ rec \in RecType
    /\ resets \in Nat /\ faults \in Nat /\ upsets \in Nat

\* Aborting a submission, and showing the login screen.
LEMMA AbortTyped ==
    ASSUME PageTyped
    PROVE  /\ Abort \in SubType
           /\ ShowLogin => /\ token' = FALSE /\ signed' = FALSE /\ failed' = FALSE
                           /\ active' = None /\ bubbles' = {} /\ sub' \in SubType
BY DEF PageTyped, Abort, ShowLogin, Hide, Wipe, SubType

\* What becomes of the bubbles.
LEMMA MarkedTyped ==
    ASSUME PageTyped, NEW w, NEW shows \in {"answer", "error", "note", "abandoned"}
    PROVE  Marked(w, shows) \subseteq BubbleType
BY DEF PageTyped, Marked, BubbleType

\* What pollJob brings is shown in one of three ways.
LEMMA RepliesTyped == \A j \in Jobs : ReplyTo(j) \in {"answer", "error", "note"}
BY DEF ReplyTo

\* The end of a recovery leaves it idle.
LEMMA RecTyped ==
    /\ NoRecovery \in RecType
    /\ \A tok, cur : EndRecovery(tok, cur) => rec' = NoRecovery
BY DEF NoRecovery, EndRecovery, RecType

\* Where the user acts.
LEMMA UserTyped == PageTyped /\ User => PageTyped'
<1> SUFFICES ASSUME PageTyped, User PROVE PageTyped'
  OBVIOUS
<1>1. CASE Submit
  <2>1. NextJob \in Jobs
    BY <1>1, NextJobIsUnused DEF Submit
  <2>2. sub' \in SubType
    BY <1>1, <2>1, AbortTyped DEF Submit, SubType
  <2>3. bubbles' \subseteq BubbleType
    BY <1>1, <2>1, MarkedTyped DEF Submit, Interrupted, Waiting, BubbleType
  <2>4. valid' \in BOOLEAN /\ token' \in BOOLEAN /\ signed' \in BOOLEAN /\ failed' \in BOOLEAN
    BY <1>1, Zenon DEF Submit, PageTyped, login
  <2>5. QED
    BY <1>1, <2>1, <2>2, <2>3, <2>4 DEF Submit, PageTyped, counters, history
<1>2. CASE Stop
  <2>1. bubbles' \subseteq BubbleType
    BY <1>2, MarkedTyped DEF Stop, Interrupted
  <2>2. valid' \in BOOLEAN /\ token' \in BOOLEAN /\ signed' \in BOOLEAN /\ failed' \in BOOLEAN
    BY <1>2, Zenon DEF Stop, PageTyped, login
  <2>3. QED
    BY <1>2, <2>1, <2>2, AbortTyped DEF Stop, PageTyped, counters, history
<1>3. CASE Login
  BY <1>3 DEF Login, Wipe, PageTyped, chat, requests, counters, history
<1>4. CASE Logout
  <2>1. valid' \in BOOLEAN /\ token' \in BOOLEAN /\ signed' \in BOOLEAN /\ failed' \in BOOLEAN
    BY <1>4, AbortTyped DEF Logout
  <2>2. active' = None /\ sub' \in SubType /\ bubbles' = {}
    BY <1>4, AbortTyped DEF Logout
  <2>3. /\ upsets' = upsets + 1
        /\ UNCHANGED <<current, saved, wire, deletes, late, resaved, rec, resets, faults>>
    BY <1>4 DEF Logout, Upset, requests, history
  <2>4. QED
    BY <2>1, <2>2, <2>3 DEF PageTyped
<1>5. CASE Reload
  <2>1. sub' \in SubType
    BY <1>5 DEF Reload, SubType
  <2>2. valid' \in BOOLEAN /\ token' \in BOOLEAN /\ signed' \in BOOLEAN /\ failed' \in BOOLEAN
    BY <1>5, Zenon DEF Reload, Wipe, PageTyped, login
  <2>3. QED
    BY <1>5, <2>1, <2>2, RecTyped DEF Reload, Wipe, Upset, PageTyped, login, requests, history
<1>6. CASE StartReset
  <2>1. rec' \in RecType
    BY <1>6 DEF StartReset, PageTyped, RecType
  <2>2. QED
    BY <1>6, <2>1 DEF StartReset, PageTyped, login, view, chat, requests, history
<1>7. QED
  BY <1>1, <1>2, <1>3, <1>4, <1>5, <1>6 DEF User

\* Where a submission goes on, or the server works on its job.
LEMMA SubmissionTyped ==
    ASSUME PageTyped, NEW j \in Jobs,
           Submission(j) \/ PostFails(j) \/ CancelArrives(j) \/ CancelLost(j) \/ ServerWorks(j)
    PROVE  PageTyped'
<1>1. CASE PostRefused(j)
  <2>1. /\ active' \in {active, None} /\ bubbles' \subseteq BubbleType
        /\ valid' \in BOOLEAN /\ token' \in BOOLEAN /\ signed' \in BOOLEAN /\ failed' \in BOOLEAN
    <3>1. CASE Hide /\ active' = None
      BY <1>1, <3>1 DEF PostRefused, Hide, Wipe, PageTyped
    <3>2. CASE UNCHANGED <<token, view, active>>
      BY <1>1, <3>2 DEF PostRefused, PageTyped, view
    <3>3. QED
      BY <1>1, <3>1, <3>2 DEF PostRefused
  <2>2. QED
    BY <1>1, <2>1 DEF PostRefused, PageTyped, SubType, counters, history
<1>2. CASE PostArrives(j)
  BY <1>2 DEF PostArrives, Arrives, PageTyped, login, view, chat, counters
<1>3. CASE PostAnswered(j)
  BY <1>3 DEF PostAnswered, PageTyped, SubType, login, view, requests, counters
<1>4. CASE SubmissionEnds(j)
  <2>1. valid' \in BOOLEAN /\ token' \in BOOLEAN /\ signed' \in BOOLEAN /\ failed' \in BOOLEAN
    <3>1. \/ UNCHANGED <<token, signed, failed>>
          \/ token' = FALSE /\ signed' = FALSE /\ failed' = FALSE
      BY <1>4 DEF SubmissionEnds, Hide, Wipe, view
    <3>2. valid' = valid
      BY <1>4 DEF SubmissionEnds
    <3>3. QED
      BY <3>1, <3>2, Zenon DEF PageTyped
  <2>2. bubbles' \subseteq BubbleType
    BY <1>4, MarkedTyped, RepliesTyped DEF SubmissionEnds, Hide, Wipe, PageTyped, view
  <2>3. sub' \in SubType /\ saved' \in {saved, None} /\ faults' \in {faults, faults + 1}
    BY <1>4 DEF SubmissionEnds, Replies, Fault, PageTyped, SubType
  <2>4. QED
    BY <1>4, <2>1, <2>2, <2>3 DEF SubmissionEnds, LetGo, PageTyped, requests, history
<1>5. CASE PostFails(j)
  <2>1. bubbles' \subseteq BubbleType
    BY <1>5, MarkedTyped DEF PostFails, PageTyped
  <2>2. QED
    BY <1>5, <2>1 DEF PostFails, Fault, PageTyped, SubType, login, history
<1>6. CASE CancelArrives(j)
  BY <1>6 DEF CancelArrives, PageTyped, login, view, chat, counters, history
<1>7. CASE CancelLost(j)
  BY <1>7 DEF CancelLost, Fault, PageTyped, login, view, chat, history
<1>8. CASE ServerWorks(j)
  BY <1>8 DEF ServerWorks, PageTyped, login, view, chat, requests, counters, history
<1>9. QED
  BY <1>1, <1>2, <1>3, <1>4, <1>5, <1>6, <1>7, <1>8 DEF Submission

\* Where the history is read.
LEMMA SyncTyped == PageTyped /\ (Sync \/ HistoryLost) => PageTyped'
<1> SUFFICES ASSUME PageTyped, Sync \/ HistoryLost PROVE PageTyped'
  OBVIOUS
<1>1. RecoveryAfterSync => rec' \in RecType
  BY RecTyped DEF RecoveryAfterSync, PageTyped, RecType
<1>2. CASE HistoryArrives
  <2>1. signed' \in BOOLEAN /\ failed' \in BOOLEAN /\ bubbles' \subseteq BubbleType
    BY <1>2 DEF HistoryArrives, Render, PageTyped, view
  <2>2. QED
    BY <1>1, <1>2, <2>1 DEF HistoryArrives, PageTyped, login, chat, requests, counters, history
<1>3. CASE HistoryRefused
  BY <1>1, <1>3, AbortTyped DEF HistoryRefused, PageTyped, requests, counters, history
<1>4. CASE HistoryLost
  BY <1>4, RecTyped DEF HistoryLost, Fault, PageTyped, login, view, chat, requests, history
<1>5. QED
  BY <1>2, <1>3, <1>4 DEF Sync

\* Where the recovery goes on.
LEMMA RecoveringTyped == PageTyped /\ (Recovering \/ ResolveFails) => PageTyped'
<1> SUFFICES ASSUME PageTyped, Recovering \/ ResolveFails PROVE PageTyped'
  OBVIOUS
<1>1. CASE Recover
  <2>1. rec' \in RecType
    BY <1>1, RecTyped DEF Recover, PageTyped, RecType
  <2>2. QED
    BY <1>1, <2>1 DEF Recover, PageTyped, login, view, chat, requests, counters, history
<1>2. CASE RecoveryRefused
  BY <1>2, RecTyped, AbortTyped DEF RecoveryRefused, PageTyped, requests, counters, history
<1>3. ASSUME NEW j \in Jobs, Adopt(j)
      PROVE  rec' \in RecType /\ current' = j /\ bubbles' \subseteq BubbleType
  <2>1. rec' \in RecType /\ current' = j
    BY <1>3 DEF Adopt, PageTyped, RecType
  <2>2. Waiting("recovery", j) \in BubbleType
    BY <1>3 DEF Waiting, BubbleType
  <2>3. QED
    BY <1>3, <2>1, <2>2 DEF Adopt, PageTyped
<1>4. CASE Resolve
  <2>1. /\ UNCHANGED <<service, login, base, signed, failed, active, sub, requests, reset, counters, history>>
        /\ \/ rec.job # None /\ Adopt(rec.job) /\ UNCHANGED saved
           \/ \E j \in Jobs : Adopt(j) /\ saved' = j
           \/ /\ saved' \in {saved, None}
              /\ EndRecovery(token, current) /\ UNCHANGED <<bubbles, current>>
    BY <1>4 DEF Resolve
  <2>2. rec.job \in Jobs \cup {None}
    BY DEF PageTyped, RecType
  <2>3. rec' \in RecType /\ current' \in Jobs \cup {None} /\ saved' \in Jobs \cup {None}
        /\ bubbles' \subseteq BubbleType
    BY <1>3, <2>1, <2>2, RecTyped DEF PageTyped
  <2>4. QED
    BY <2>1, <2>3 DEF PageTyped, login, requests, counters, history
<1>5. CASE ResolveFails
  <2>1. rec' \in RecType /\ current' \in Jobs \cup {None} /\ bubbles' \subseteq BubbleType
    BY <1>3, <1>5, RecTyped DEF ResolveFails, PageTyped, RecType
  <2>2. QED
    BY <1>5, <2>1 DEF ResolveFails, Fault, PageTyped, login, requests, history
<1>6. CASE RecoveryEnds
  <2>1. rec.job \in Jobs \cup {None} /\ rec' \in RecType
    BY <1>6, RecTyped DEF RecoveryEnds, PageTyped, RecType
  <2>2. bubbles' \subseteq BubbleType
    <3>1. ReplyTo(rec.job) \in {"answer", "error", "note"}
      BY DEF ReplyTo
    <3>2. QED
      BY <1>6, <3>1, MarkedTyped DEF RecoveryEnds
  <2>3. valid' \in BOOLEAN /\ token' \in BOOLEAN /\ signed' \in BOOLEAN /\ failed' \in BOOLEAN
    BY <1>6, Zenon DEF RecoveryEnds, SignedAfter, PageTyped, login
  <2>4. saved' \in {saved, None} /\ faults' \in {faults, faults + 1}
    BY <1>6 DEF RecoveryEnds, Replies, Fault
  <2>5. QED
    BY <1>6, <2>1, <2>2, <2>3, <2>4 DEF RecoveryEnds, LetGo, PageTyped, requests, history
<1>7. CASE RecoveryExpires
  BY <1>7, RecTyped, AbortTyped
     DEF RecoveryExpires, LetGo, PageTyped, RecType, requests, counters, history
<1>8. QED
  BY <1>1, <1>2, <1>4, <1>5, <1>6, <1>7 DEF Recovering

\* Where a reset goes on.
LEMMA ResetTyped == ShapeInv /\ PageTyped /\ ResetStep => PageTyped'
<1> SUFFICES ASSUME ShapeInv, PageTyped, ResetStep PROVE PageTyped'
  OBVIOUS
<1>1. CASE CancelNext
  BY <1>1 DEF CancelNext, PageTyped, login, view, chat, requests, counters, history
<1>2. CASE ClearSession
  BY <1>2 DEF ClearSession, PageTyped, login, view, chat, requests, counters, history
<1>3. CASE ResetDone
  BY <1>3 DEF ResetDone, Wipe, PageTyped, login, requests, counters
<1>4. CASE ResetFails
  BY <1>4 DEF ResetFails, Fault, PageTyped, login, chat, requests, history
<1>5. QED
  BY <1>1, <1>2, <1>3, <1>4 DEF ResetStep

\* Every step keeps the types of the page.
LEMMA PageStep == ShapeInv /\ PageTyped /\ [Next]_vars => PageTyped'
<1> SUFFICES ASSUME ShapeInv, PageTyped, [Next]_vars PROVE PageTyped'
  OBVIOUS
<1>1. CASE ServerForgets \/ ServerRestarts
  <2>1. valid' \in BOOLEAN /\ token' \in BOOLEAN /\ signed' \in BOOLEAN /\ failed' \in BOOLEAN
    BY <1>1, Zenon DEF ServerForgets, ServerRestarts, PageTyped, login, view, history
  <2>2. QED
    BY <1>1, <2>1 DEF ServerForgets, ServerRestarts, Upset, PageTyped, view, chat, requests, history
<1>2. CASE LoginElsewhere
  <2>1. valid' \in BOOLEAN /\ token' \in BOOLEAN /\ signed' \in BOOLEAN /\ failed' \in BOOLEAN
    BY <1>2, Zenon DEF LoginElsewhere, PageTyped, view, history
  <2>2. QED
    BY <1>2, <2>1 DEF LoginElsewhere, Upset, PageTyped, view, chat, requests, history
<1>3. CASE PostElsewhere
  BY <1>3, NextJobIsUnused DEF PostElsewhere, Arrives, PageTyped, login, view, chat, requests, counters
<1>4. CASE ResetElsewhere
  BY <1>4 DEF ResetElsewhere, PageTyped, login, view, chat, requests, counters, history
<1>5. CASE UNCHANGED vars
  BY <1>5 DEF vars, PageTyped, login, view, chat, requests, counters, history
<1>6. QED
  BY <1>1, <1>2, <1>3, <1>4, <1>5, UserTyped, SubmissionTyped, SyncTyped, RecoveringTyped, ResetTyped
     DEF Next, Elsewhere

\* A page is opened with its variables in their types.
LEMMA InitTyped == Init => PageTyped
<1> SUFFICES ASSUME Init PROVE PageTyped
  OBVIOUS
<1>1. valid \in BOOLEAN /\ token \in BOOLEAN /\ signed \in BOOLEAN /\ failed \in BOOLEAN
  BY Zenon DEF Init
<1>2. QED
  BY <1>1, RecTyped DEF Init, PageTyped, SubType

\* Every step of the invariant keeps them in their types.
LEMMA PageStepInv == IInv /\ PageTyped /\ [Next]_vars => PageTyped'
BY PageStep DEF IInv

\* The variables of the page and of the service keep their types, for every set of
\* jobs and every bound.
THEOREM TypeCorrect == Spec => []TypeOK
<1>1. IInv /\ PageTyped => TypeOK
  <2> SUFFICES ASSUME ShapeInv, PageTyped PROVE TypeOK
    BY DEF IInv
  <2>1. /\ job \in [Jobs -> {"none", "gone"} \cup Server!Active \cup Server!Over]
        /\ sync.at \in {"idle", "asked"} /\ sync.stale \in BOOLEAN
        /\ reset.at \in {"idle", "cancel", "cleared"} /\ reset.todo \subseteq Jobs
    BY DEF ShapeInv, States
  <2>2. /\ {valid, token, signed} \subseteq BOOLEAN
        /\ {current, active, saved} \subseteq Jobs \cup {None} /\ {resets, faults, upsets} \subseteq Nat
    BY DEF PageTyped
  <2>3. QED
    BY <2>1, <2>2 DEF PageTyped, TypeOK, RecType, SubType, BubbleType
<1>2. QED
  BY <1>1, IInvInit, IInvStep, InitTyped, PageStepInv, PTL DEF Spec
-----------------------------------------------------------------------------
(* What the bubbles show *)

\* A bubble repeats no message that a reset deleted, or it is a recovery's, of a
\* job whose id the page heard of only afterwards.
Fine(b) ==
    \A m \in dropped :
        /\ b.by = "form" => b.job # m.job
        /\ b.job = m.job /\ b.shows = m.kind => b.job \in resaved

\* Nor will one: a reset makes the recovery stale and forgets the saved job, and what
\* another job wrote before the reset is known to no recovery that counts.
ShownInv ==
    /\ Resetting /\ rec.at # "idle" => rec.stale
    /\ \A b \in bubbles : Fine(b)
    /\ \A m \in dropped : m.kind # "question" /\ m.job \notin resaved =>
          /\ saved # m.job
          /\ rec.at \in {"resolve", "polling"} /\ rec.job = m.job => rec.stale

\* A message is a question, an answer or an error of a job.
LEMMA DroppedMessages ==
    ASSUME DroppedInv, NEW m \in dropped
    PROVE  m.job \in Jobs /\ m.job # None /\ m.kind \in {"question", "answer", "error"}
BY ClientAssumption DEF DroppedInv, Message

\* The bubble of a submission stays fine, whatever it comes to show.
LEMMA MarkedFine ==
    ASSUME DroppedInv, ShownInv, NEW j \in Jobs \cup {None}, NEW shows,
           NEW c \in Marked(Waiting("form", j), shows)
    PROVE  Fine(c)
<1>1. PICK b \in bubbles : c = IF b = Waiting("form", j) THEN [b EXCEPT !.shows = shows] ELSE b
  BY DEF Marked
<1>2. CASE b # Waiting("form", j)
  BY <1>1, <1>2 DEF ShownInv
<1>3. CASE b = Waiting("form", j)
  <2>1. c.by = "form" /\ c.job = j
    BY <1>1, <1>3 DEF Waiting
  <2>2. \A m \in dropped : j # m.job
    BY <1>3 DEF ShownInv, Fine, Waiting
  <2>3. QED
    BY <2>1, <2>2 DEF Fine
<1>4. QED
  BY <1>2, <1>3

\* Most steps add no bubble that repeats a deleted message and leave the recovery and
\* the saved job as they are, or end the one and forget the other.
LEMMA PageKeeps ==
    ASSUME DroppedInv, ShownInv,
           UNCHANGED dropped, resaved \subseteq resaved',
           \A b \in bubbles' : b \in bubbles \/ Fine(b),
           saved' \in {saved, None}, rec' \in {rec, NoRecovery},
           Resetting' => Resetting
    PROVE  ShownInv'
<1>1. Resetting' /\ rec'.at # "idle" => rec'.stale
  BY DEF ShownInv, NoRecovery
<1>2. \A b \in bubbles' : Fine(b)'
  <2>1. \A b : Fine(b) => Fine(b)'
    BY DEF Fine
  <2>2. QED
    BY <2>1 DEF ShownInv
<1>3. ASSUME NEW m \in dropped', m.kind # "question", m.job \notin resaved'
      PROVE  /\ saved' # m.job
             /\ rec'.at \in {"resolve", "polling"} /\ rec'.job = m.job => rec'.stale
  BY <1>3, DroppedMessages DEF ShownInv, NoRecovery
<1>4. QED
  BY <1>1, <1>2, <1>3 DEF ShownInv

\* The login screen shows no bubble.
LEMMA HiddenIsEmpty == (ShowLogin \/ Hide) => bubbles' = {}
BY DEF ShowLogin, Hide, Wipe

\* Where the user acts.
LEMMA UserShows == IInv /\ PageTyped /\ ShownInv /\ User => ShownInv'
<1> SUFFICES ASSUME IInv, PageTyped, ShownInv, User PROVE ShownInv'
  OBVIOUS
<1>1. DroppedInv
  BY DEF IInv
<1>2. \A b \in Interrupted : Fine(b)
  BY <1>1, MarkedFine DEF Interrupted, PageTyped
<1>3. CASE Submit
  <2>1. NextJob \in Jobs /\ job[NextJob] = "none"
    BY <1>3, NextJobIsUnused DEF Submit, Unused
  <2>2. Fine(Waiting("form", NextJob))
    BY <1>1, <2>1, DroppedMessages DEF Fine, Waiting, DroppedInv, Written
  <2>3. \A b \in bubbles' : Fine(b)
    BY <1>2, <1>3, <2>2 DEF Submit
  <2>4. UNCHANGED <<saved, rec, reset, dropped, resaved>>
    BY <1>3 DEF Submit, history
  <2>5. QED
    BY <1>1, <2>3, <2>4, PageKeeps DEF Resetting
<1>4. CASE Stop
  <2>1. UNCHANGED <<saved, rec, reset, dropped, resaved>> /\ bubbles' = Interrupted
    BY <1>4 DEF Stop, history
  <2>2. QED
    BY <1>1, <1>2, <2>1, PageKeeps DEF Resetting
<1>5. CASE Login
  <2>1. UNCHANGED <<saved, rec, reset, dropped, resaved>> /\ bubbles' = {}
    BY <1>5 DEF Login, Wipe, chat, history
  <2>2. QED
    BY <1>1, <2>1, PageKeeps DEF Resetting
<1>6. CASE Logout
  <2>1. UNCHANGED <<saved, rec, reset, dropped, resaved>> /\ bubbles' = {}
    BY <1>6, HiddenIsEmpty DEF Logout, history
  <2>2. QED
    BY <1>1, <2>1, PageKeeps DEF Resetting
<1>7. CASE Reload
  <2>1. UNCHANGED <<saved, dropped, resaved>> /\ bubbles' = {} /\ rec' = NoRecovery /\ reset' = NoReset
    BY <1>7 DEF Reload, Wipe, history
  <2>2. QED
    BY <1>1, <2>1, PageKeeps DEF Resetting, NoReset
<1>8. CASE StartReset
  <2>1. UNCHANGED <<saved, bubbles, dropped, resaved>> /\ rec' = [rec EXCEPT !.stale = rec.at # "idle"]
    BY <1>8 DEF StartReset, view, chat, history
  <2>2. rec'.at = rec.at /\ rec'.job = rec.job /\ rec'.stale = (rec.at # "idle")
    BY <2>1 DEF PageTyped, RecType
  <2>3. QED
    BY <2>1, <2>2 DEF ShownInv, Fine
<1>9. QED
  BY <1>3, <1>4, <1>5, <1>6, <1>7, <1>8 DEF User

\* Where a submission goes on.  Its job's id may come back after a reset deleted what
\* the job wrote.
LEMMA SubmissionShows ==
    ASSUME IInv, PageTyped, ShownInv, NEW j \in Jobs,
           Submission(j) \/ PostFails(j) \/ CancelArrives(j) \/ CancelLost(j) \/ ServerWorks(j)
    PROVE  ShownInv'
<1>1. DroppedInv
  BY DEF IInv
<1>2. \A shows : \A b \in Marked(Waiting("form", j), shows) : Fine(b)
  BY <1>1, MarkedFine
<1>3. CASE PostAnswered(j)
  <2>1. UNCHANGED <<bubbles, rec, reset, dropped>> /\ saved' = j
        /\ resaved' = resaved \cup {k \in {j} : \E m \in dropped : m.job = k}
    BY <1>3 DEF PostAnswered, view
  <2>2. \A b \in bubbles' : Fine(b)'
    BY <2>1 DEF ShownInv, Fine
  <2>3. QED
    BY <2>1, <2>2 DEF ShownInv, Resetting
<1>4. CASE PostFails(j)
  <2>1. UNCHANGED <<saved, rec, reset, dropped, resaved>>
        /\ bubbles' \in {bubbles, Marked(Waiting("form", j), "note")}
    BY <1>4 DEF PostFails, history
  <2>2. QED
    BY <1>1, <1>2, <2>1, PageKeeps DEF Resetting
<1>5. CASE SubmissionEnds(j)
  <2>1. UNCHANGED <<rec, reset, dropped, resaved>> /\ saved' \in {saved, None}
    BY <1>5 DEF SubmissionEnds, Replies, history
  <2>2. bubbles' \in {bubbles, {}, Marked(Waiting("form", j), ReplyTo(j))}
    BY <1>5, HiddenIsEmpty DEF SubmissionEnds, view
  <2>3. QED
    BY <1>1, <1>2, <2>1, <2>2, PageKeeps DEF Resetting
<1>6. CASE PostRefused(j)
  <2>1. UNCHANGED <<saved, rec, reset, dropped, resaved>> /\ bubbles' \in {bubbles, {}}
    BY <1>6, HiddenIsEmpty DEF PostRefused, view, history
  <2>2. QED
    BY <1>1, <2>1, PageKeeps DEF Resetting
<1>7. CASE PostArrives(j) \/ CancelArrives(j) \/ CancelLost(j) \/ ServerWorks(j)
  <2>1. UNCHANGED <<bubbles, saved, rec, reset, dropped, resaved>>
    BY <1>7 DEF PostArrives, CancelArrives, CancelLost, ServerWorks, view, chat, history
  <2>2. QED
    BY <1>1, <2>1, PageKeeps DEF Resetting
<1>8. QED
  BY <1>3, <1>4, <1>5, <1>6, <1>7 DEF Submission

\* Where the history is read: a recovery that waited for it goes on with the saved
\* job.
LEMMA SyncShows == IInv /\ PageTyped /\ ShownInv /\ (Sync \/ HistoryLost) => ShownInv'
<1> SUFFICES ASSUME IInv, PageTyped, ShownInv, Sync \/ HistoryLost PROVE ShownInv'
  OBVIOUS
<1>1. UNCHANGED <<saved, reset, dropped, resaved>> /\ bubbles' \in {bubbles, {}}
  BY HiddenIsEmpty DEF Sync, HistoryArrives, HistoryRefused, HistoryLost, Render, view, chat, history
<1>2. CASE rec' \in {rec, NoRecovery}
  BY <1>1, <1>2, PageKeeps DEF Resetting, IInv
<1>3. CASE rec.at = "sync" /\ ~Resetting /\ rec' = [rec EXCEPT !.at = "resolve", !.job = saved]
  <2>1. rec'.at = "resolve" /\ rec'.job = saved
    BY <1>3 DEF PageTyped, RecType
  <2>2. QED
    BY <1>1, <1>3, <2>1 DEF ShownInv, Resetting, Fine
<1>4. QED
  BY <1>2, <1>3 DEF Sync, HistoryArrives, HistoryRefused, HistoryLost, RecoveryAfterSync

\* Where the recovery goes on: it shows what its job wrote only if no reset came in
\* between, and an active job has not written it.
LEMMA RecoveringShows == IInv /\ PageTyped /\ ShownInv /\ (Recovering \/ ResolveFails) => ShownInv'
<1> SUFFICES ASSUME IInv, PageTyped, ShownInv, Recovering \/ ResolveFails PROVE ShownInv'
  OBVIOUS
<1>1. DroppedInv
  BY DEF IInv
<1>2. CASE Recover
  <2>1. UNCHANGED <<bubbles, saved, reset, dropped, resaved>> /\ ~Resetting
        /\ rec' \in {[NoRecovery EXCEPT !.at = "sync"], [NoRecovery EXCEPT !.at = "resolve", !.job = saved]}
    BY <1>2 DEF Recover, view, chat, history
  <2>2. rec'.at = "sync" \/ rec'.job = saved
    BY <2>1 DEF NoRecovery
  <2>3. QED
    BY <2>1, <2>2 DEF ShownInv, Resetting, Fine
<1>3. CASE RecoveryRefused \/ RecoveryExpires
  <2>1. UNCHANGED <<saved, reset, dropped, resaved>> /\ bubbles' = {} /\ rec' = NoRecovery
    BY <1>3, HiddenIsEmpty DEF RecoveryRefused, RecoveryExpires, EndRecovery, history
  <2>2. QED
    BY <1>1, <2>1, PageKeeps DEF Resetting
<1>4. ASSUME NEW j \in Jobs, Adopt(j), rec.at = "resolve", UNCHANGED <<reset, dropped, resaved>>,
             \/ j = rec.job /\ UNCHANGED saved
             \/ job[j] \in Active /\ saved' = j
      PROVE  ShownInv'
  <2>1. rec'.at = "polling" /\ rec'.job = j /\ rec'.stale = rec.stale
    BY <1>4 DEF Adopt, PageTyped, RecType
  <2>2. Fine(Waiting("recovery", j))
    BY <1>1, DroppedMessages DEF Fine, Waiting
  <2>3. \A b \in bubbles' : Fine(b)'
    BY <1>4, <2>2 DEF Adopt, ShownInv, Fine
  <2>4. ASSUME NEW m \in dropped', m.kind # "question", m.job \notin resaved'
        PROVE  saved' # m.job /\ (rec'.job = m.job => rec'.stale)
    <3>1. saved # m.job /\ (rec.job = m.job => rec.stale) /\ job[m.job] \in OverOrGone
      BY <1>1, <1>4, <2>4 DEF ShownInv, DroppedInv, Written
    <3>2. job[m.job] \notin Active
      BY <3>1 DEF OverOrGone, Active, Server!Over, Server!Active
    <3>3. QED
      BY <1>4, <2>1, <3>1, <3>2
  <2>5. QED
    BY <1>4, <2>1, <2>3, <2>4 DEF ShownInv, Resetting
<1>5. rec.job \in Jobs \cup {None}
  BY DEF PageTyped, RecType
<1>6. CASE Resolve
  <2>1. rec.at = "resolve" /\ UNCHANGED <<reset, dropped, resaved>>
        /\ \/ rec.job # None /\ Adopt(rec.job) /\ UNCHANGED saved
           \/ \E j \in Jobs : job[j] \in Active /\ Adopt(j) /\ saved' = j
           \/ saved' \in {saved, None} /\ EndRecovery(token, current) /\ UNCHANGED bubbles
    BY <1>6 DEF Resolve, Active, history
  <2>2. CASE saved' \in {saved, None} /\ EndRecovery(token, current) /\ UNCHANGED bubbles
    BY <1>1, <2>1, <2>2, PageKeeps DEF EndRecovery, Resetting
  <2>3. QED
    BY <1>4, <1>5, <2>1, <2>2
<1>7. CASE ResolveFails
  <2>1. rec.at = "resolve" /\ UNCHANGED <<saved, reset, dropped, resaved>>
        /\ \/ rec.job # None /\ Adopt(rec.job)
           \/ EndRecovery(token, current) /\ UNCHANGED bubbles
    BY <1>7 DEF ResolveFails, history
  <2>2. CASE EndRecovery(token, current) /\ UNCHANGED bubbles
    BY <1>1, <2>1, <2>2, PageKeeps DEF EndRecovery, Resetting
  <2>3. QED
    BY <1>4, <1>5, <2>1, <2>2
<1>8. CASE RecoveryEnds
  <2> DEFINE shows == IF Outdated THEN "abandoned" ELSE ReplyTo(rec.job)
             w == Waiting("recovery", rec.job)
  <2>1. /\ rec.at = "polling" /\ UNCHANGED <<reset, dropped, resaved>>
        /\ saved' \in {saved, None} /\ rec' = NoRecovery /\ bubbles' = Marked(w, shows)
    BY <1>8 DEF RecoveryEnds, Replies, EndRecovery, history
  <2>2. ASSUME NEW c \in bubbles' PROVE c \in bubbles \/ Fine(c)
    <3>1. PICK b \in bubbles : c = IF b = w THEN [b EXCEPT !.shows = shows] ELSE b
      BY <2>1, <2>2 DEF Marked
    <3>2. ASSUME b = w, NEW m \in dropped, rec.job = m.job, shows = m.kind
          PROVE  m.job \in resaved
      <4>1. m.kind \in {"question", "answer", "error"}
        BY <1>1, DroppedMessages
      <4>2. ~rec.stale /\ m.kind # "question"
        BY <3>2, <4>1 DEF Outdated, ReplyTo
      <4>3. QED
        BY <2>1, <3>2, <4>2 DEF ShownInv
    <3>3. CASE b = w
      <4>1. c.by = "recovery" /\ c.job = rec.job /\ c.shows = shows
        BY <3>1, <3>3 DEF Waiting
      <4>2. QED
        BY <3>2, <3>3, <4>1 DEF Fine
    <3>4. QED
      BY <3>1, <3>3
  <2>3. QED
    BY <1>1, <2>1, <2>2, PageKeeps DEF Resetting
<1>9. QED
  BY <1>2, <1>3, <1>6, <1>7, <1>8 DEF Recovering

\* Where a reset goes on: when it is done, the page is empty, the saved job is
\* forgotten and a recovery that waits is stale.
LEMMA ResetShows == IInv /\ PageTyped /\ ShownInv /\ ResetStep => ShownInv'
<1> SUFFICES ASSUME IInv, PageTyped, ShownInv, ResetStep PROVE ShownInv'
  OBVIOUS
<1>1. DroppedInv
  BY DEF IInv
<1>2. CASE CancelNext \/ ClearSession
  <2>1. UNCHANGED <<bubbles, saved, rec, dropped, resaved>> /\ Resetting
    BY <1>2 DEF CancelNext, ClearSession, Resetting, view, chat, history
  <2>2. QED
    BY <1>1, <2>1, PageKeeps
<1>3. CASE ResetFails
  <2>1. UNCHANGED <<bubbles, saved, rec, dropped, resaved>> /\ reset' = NoReset
    BY <1>3 DEF ResetFails, chat, history
  <2>2. QED
    BY <1>1, <2>1, PageKeeps DEF Resetting, NoReset
<1>4. CASE ResetDone
  <2>1. /\ Resetting /\ reset' = NoReset /\ saved' = None /\ bubbles' = {} /\ UNCHANGED rec
        /\ dropped' = dropped \cup reset.deleted
    BY <1>4 DEF ResetDone, Resetting, Wipe
  <2>2. \A m \in dropped' : m.job # None
    BY <1>1, <2>1, ClientAssumption DEF DroppedInv, Message, IInv, ShapeInv
  <2>3. QED
    BY <2>1, <2>2 DEF ShownInv, Resetting, NoReset
<1>5. QED
  BY <1>2, <1>3, <1>4 DEF ResetStep

\* Every step keeps what the bubbles show.
LEMMA ShownStep == IInv /\ PageTyped /\ ShownInv /\ [Next]_vars => ShownInv'
<1> SUFFICES ASSUME IInv, PageTyped, ShownInv, [Next]_vars PROVE ShownInv'
  OBVIOUS
<1>1. CASE ServerForgets \/ ServerRestarts \/ Elsewhere \/ UNCHANGED vars
  <2>1. UNCHANGED <<bubbles, saved, rec, reset, dropped, resaved>>
    BY <1>1 DEF ServerForgets, ServerRestarts, Elsewhere, LoginElsewhere, PostElsewhere, ResetElsewhere,
                vars, view, chat, history
  <2>2. QED
    BY <2>1, PageKeeps DEF IInv, Resetting
<1>2. QED
  BY <1>1, UserShows, SubmissionShows, SyncShows, RecoveringShows, ResetShows DEF Next

\* Nothing a finished reset deleted is ever on the page again, for every set of jobs,
\* however they overlap, and every bound: not in the history, which may have been read
\* before the reset, and not in a bubble, whose submission or recovery may still poll.
\* The one exception, which the code allows, is in the statement: the answer of a job
\* whose id came back to the page only after the reset (resaved), in the bubble of a
\* recovery.
THEOREM ClearedMessagesStayCleared == Spec => []ClearedStaysCleared
<1>1. IInv /\ PageTyped /\ ShownInv => ClearedStaysCleared
  <2> SUFFICES ASSUME IInv, PageTyped, ShownInv PROVE ClearedStaysCleared
    OBVIOUS
  <2>1. ToSet(base) \cap dropped = {}
    BY DEF IInv, DroppedInv
  <2>2. ASSUME NEW b \in bubbles, NEW m \in Says(b), m \in dropped
        PROVE  b.by = "recovery" /\ b.job \in resaved
    <3>1. m.job = b.job /\ ((m.kind = "question" /\ b.by = "form") \/ m.kind = b.shows)
      BY <2>2 DEF Says
    <3>2. b.by \in {"form", "recovery"}
      BY DEF PageTyped, BubbleType
    <3>3. Fine(b)
      BY DEF ShownInv
    <3>4. QED
      BY <2>2, <3>1, <3>2, <3>3 DEF Fine
  <2>3. QED
    BY <2>1, <2>2 DEF ClearedStaysCleared
<1>2. Init => PageTyped /\ ShownInv
  BY InitTyped DEF Init, ShownInv, NoRecovery
<1>3. QED
  BY <1>1, <1>2, IInvInit, IInvStep, PageStepInv, ShownStep, PTL DEF Spec
=============================================================================
