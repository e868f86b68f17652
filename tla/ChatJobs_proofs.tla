-------------------------- MODULE ChatJobs_proofs --------------------------
(***************************************************************************)
(* Theorems about ChatJobs, for every set of jobs, accounts and            *)
(* conversations and every value of the bounds.                            *)
(***************************************************************************)
EXTENDS ChatJobs, TLAPS

-----------------------------------------------------------------------------
(* Types *)

\* RemoveAt keeps the type of a sequence; it is how a cancelled waiter leaves the queue.
LEMMA RemoveAtType ==
    ASSUME NEW S, NEW q \in Seq(S), NEW i \in DOMAIN q
    PROVE  RemoveAt(q, i) \in Seq(S)
BY DEF RemoveAt

\* Storing a message keeps the type of the conversations.
LEMMA InsertType ==
    ASSUME DbTypeOK, NEW j \in Jobs, NEW k \in {"question", "answer", "error"},
           Insert(j, k)
    PROVE  rows' \in [Sessions -> Seq(Row)]
<1> DEFINE r == [job |-> j, kind |-> k]
<1>1. r \in Row
  BY DEF Row
<1>2. rows \in [Sessions -> Seq(Row)] /\ SessionOf[j] \in Sessions
  BY JobsAssumption DEF DbTypeOK
<1>3. rows' = [rows EXCEPT ![SessionOf[j]] = Append(@, r)]
  BY DEF Insert
<1> HIDE DEF r
<1> QED
  BY <1>1, <1>2, <1>3

\* The types of the variables are inductive.
LEMMA TypeStep == TypeOK /\ [Next]_vars => TypeOK'
<1> SUFFICES ASSUME TypeOK, [Next]_vars PROVE TypeOK'
  OBVIOUS
<1> USE DEF TypeOK
<1>1. ASSUME NEW j \in Jobs, StartChatJob(j) PROVE TypeOK'
  BY <1>1 DEF StartChatJob, Goto, Kept, lock, db,
     StoreTypeOK, TaskTypeOK, LockTypeOK, DbTypeOK, Status, ActiveStatuses, TerminalStatuses,
     PC, AwaitPCs, SyncPCs
<1>2. ASSUME NEW j \in Jobs, CancelFor(j) PROVE TypeOK'
  BY <1>2 DEF CancelFor, Kept, lock, db,
     StoreTypeOK, TaskTypeOK, LockTypeOK, DbTypeOK, Status, ActiveStatuses, TerminalStatuses,
     PC, AwaitPCs, SyncPCs
<1>3. ASSUME NEW j \in Jobs, CancelStranded(j) PROVE TypeOK'
  BY <1>3 DEF CancelStranded, Kept, task, lock, db,
     StoreTypeOK, TaskTypeOK, LockTypeOK, DbTypeOK, Status, ActiveStatuses, TerminalStatuses,
     PC, AwaitPCs, SyncPCs
<1>4. ASSUME NEW j \in Jobs, CancelForReturns(j) PROVE TypeOK'
  BY <1>4 DEF CancelForReturns, SetStatus, lock, db,
     StoreTypeOK, TaskTypeOK, LockTypeOK, DbTypeOK, Status, ActiveStatuses, TerminalStatuses,
     PC, AwaitPCs, SyncPCs
<1>5. ASSUME NEW j \in Jobs, AuditStart(j) PROVE TypeOK'
  <2>1. StoreTypeOK'
    BY <1>5 DEF AuditStart, store, lock, StoreTypeOK, Status, ActiveStatuses, TerminalStatuses
  <2>2. TaskTypeOK'
    BY <1>5 DEF AuditStart, Goto, store, lock, TaskTypeOK, PC, AwaitPCs, SyncPCs
  <2>3. LockTypeOK'
    BY <1>5 DEF AuditStart, store, lock, LockTypeOK
  <2>4. DbTypeOK'
    BY <1>5 DEF AuditStart, Fault, FinishAudit, DbTypeOK
  <2>5. QED
    BY <2>1, <2>2, <2>3, <2>4
<1>6. ASSUME NEW j \in Jobs, AcquireLock(j) PROVE TypeOK'
  BY <1>6 DEF AcquireLock, LockFree, Goto, SetStatus, LockFor, db,
     StoreTypeOK, TaskTypeOK, LockTypeOK, DbTypeOK, Status, ActiveStatuses, TerminalStatuses,
     PC, AwaitPCs, SyncPCs
<1>7. ASSUME NEW j \in Jobs, JoinQueue(j) PROVE TypeOK'
  <2>1. StoreTypeOK'
    BY <1>7 DEF JoinQueue, store, db, StoreTypeOK, Status, ActiveStatuses, TerminalStatuses
  <2>2. TaskTypeOK'
    BY <1>7 DEF JoinQueue, Goto, store, db, TaskTypeOK, PC, AwaitPCs, SyncPCs
  <2>3. LockTypeOK'
    BY <1>7, JobsAssumption DEF JoinQueue, LockFor, store, db, LockTypeOK
  <2>4. DbTypeOK'
    BY <1>7 DEF JoinQueue, db, DbTypeOK
  <2>5. QED
    BY <2>1, <2>2, <2>3, <2>4
<1>8. ASSUME NEW j \in Jobs, WakeWithLock(j) PROVE TypeOK'
  <2>1. StoreTypeOK'
    BY <1>8 DEF WakeWithLock, SetStatus, db, StoreTypeOK, Status, ActiveStatuses, TerminalStatuses
  <2>2. TaskTypeOK'
    BY <1>8 DEF WakeWithLock, Goto, db, TaskTypeOK, PC, AwaitPCs, SyncPCs
  <2>3. LockTypeOK'
    BY <1>8, JobsAssumption DEF WakeWithLock, LockFor, db, LockTypeOK
  <2>4. DbTypeOK'
    BY <1>8 DEF WakeWithLock, db, DbTypeOK
  <2>5. QED
    BY <2>1, <2>2, <2>3, <2>4
<1>9. ASSUME NEW j \in Jobs, RefuseModel(j) PROVE TypeOK'
  BY <1>9 DEF RefuseModel, Goto, Release, LockFor, store, db,
     StoreTypeOK, TaskTypeOK, LockTypeOK, DbTypeOK, Status, ActiveStatuses, TerminalStatuses,
     PC, AwaitPCs, SyncPCs
<1>10. ASSUME NEW j \in Jobs, SaveQuestion(j) PROVE TypeOK'
  <2>1. StoreTypeOK'
    BY <1>10 DEF SaveQuestion, store, StoreTypeOK, Status, ActiveStatuses, TerminalStatuses
  <2>2. TaskTypeOK'
    BY <1>10 DEF SaveQuestion, Goto, store, TaskTypeOK, PC, AwaitPCs, SyncPCs
  <2>3. LockTypeOK'
    BY <1>10 DEF SaveQuestion, Release, LockFor, store, LockTypeOK
  <2>4. DbTypeOK'
    BY <1>10, InsertType DEF SaveQuestion, Fault, DbTypeOK
  <2>5. QED
    BY <2>1, <2>2, <2>3, <2>4
<1>11. ASSUME NEW j \in Jobs, SaveAnswer(j) PROVE TypeOK'
  <2>1. StoreTypeOK'
    BY <1>11 DEF SaveAnswer, store, StoreTypeOK, Status, ActiveStatuses, TerminalStatuses
  <2>2. TaskTypeOK'
    BY <1>11 DEF SaveAnswer, Goto, store, TaskTypeOK, PC, AwaitPCs, SyncPCs
  <2>3. LockTypeOK'
    BY <1>11 DEF SaveAnswer, Release, LockFor, store, LockTypeOK
  <2>4. DbTypeOK'
    BY <1>11, InsertType DEF SaveAnswer, Fault, DbTypeOK
  <2>5. QED
    BY <2>1, <2>2, <2>3, <2>4
<1>12. ASSUME NEW j \in Jobs, Accept(j) PROVE TypeOK'
  <2>1. StoreTypeOK'
    BY <1>12 DEF Accept, SetStatus, lock, StoreTypeOK, Status, ActiveStatuses, TerminalStatuses
  <2>2. TaskTypeOK'
    BY <1>12 DEF Accept, Goto, lock, TaskTypeOK, PC, AwaitPCs, SyncPCs
  <2>3. LockTypeOK'
    BY <1>12 DEF Accept, lock, LockTypeOK
  <2>4. DbTypeOK'
    BY <1>12 DEF Accept, Fault, FinishAudit, DbTypeOK
  <2>5. QED
    BY <2>1, <2>2, <2>3, <2>4
<1>13. ASSUME NEW j \in Jobs, SaveErrorReply(j) PROVE TypeOK'
  <2>1. StoreTypeOK'
    BY <1>13 DEF SaveErrorReply, store, lock, StoreTypeOK, Status, ActiveStatuses, TerminalStatuses
  <2>2. TaskTypeOK'
    BY <1>13 DEF SaveErrorReply, Goto, store, lock, TaskTypeOK, PC, AwaitPCs, SyncPCs
  <2>3. LockTypeOK'
    BY <1>13 DEF SaveErrorReply, store, lock, LockTypeOK
  <2>4. DbTypeOK'
    BY <1>13, InsertType DEF SaveErrorReply, Fault, DbTypeOK
  <2>5. QED
    BY <2>1, <2>2, <2>3, <2>4
<1>14. ASSUME NEW j \in Jobs, FailJob(j) PROVE TypeOK'
  <2>1. StoreTypeOK'
    BY <1>14 DEF FailJob, SetStatus, lock, StoreTypeOK, Status, ActiveStatuses, TerminalStatuses
  <2>2. TaskTypeOK'
    BY <1>14 DEF FailJob, Goto, lock, TaskTypeOK, PC, AwaitPCs, SyncPCs
  <2>3. LockTypeOK'
    BY <1>14 DEF FailJob, lock, LockTypeOK
  <2>4. DbTypeOK'
    BY <1>14 DEF FailJob, Fault, FinishAudit, DbTypeOK
  <2>5. QED
    BY <2>1, <2>2, <2>3, <2>4
<1>15. ASSUME NEW j \in Jobs, AuditException(j) PROVE TypeOK'
  <2>1. StoreTypeOK'
    BY <1>15 DEF AuditException, store, lock, StoreTypeOK, Status, ActiveStatuses, TerminalStatuses
  <2>2. TaskTypeOK'
    BY <1>15 DEF AuditException, Goto, store, lock, TaskTypeOK, PC, AwaitPCs, SyncPCs
  <2>3. LockTypeOK'
    BY <1>15 DEF AuditException, store, lock, LockTypeOK
  <2>4. DbTypeOK'
    <3>1. audit' \in [Jobs -> {"none", "running", "completed", "failed", "cancelled"}]
      BY <1>15 DEF AuditException, FinishAudit, DbTypeOK
    <3>2. faults' \in Nat
      BY <1>15 DEF AuditException, Fault, DbTypeOK
    <3>3. UNCHANGED <<audited, rows, crashes>>
      BY <1>15 DEF AuditException
    <3>4. QED
      BY <3>1, <3>2, <3>3 DEF DbTypeOK
  <2>5. QED
    BY <2>1, <2>2, <2>3, <2>4
<1>16. ASSUME NEW j \in Jobs, SaveExceptionBubble(j) PROVE TypeOK'
  <2>1. StoreTypeOK'
    BY <1>16 DEF SaveExceptionBubble, SetStatus, lock, StoreTypeOK, Status, ActiveStatuses, TerminalStatuses
  <2>2. TaskTypeOK'
    BY <1>16 DEF SaveExceptionBubble, Goto, lock, TaskTypeOK, PC, AwaitPCs, SyncPCs
  <2>3. LockTypeOK'
    BY <1>16 DEF SaveExceptionBubble, lock, LockTypeOK
  <2>4. DbTypeOK'
    BY <1>16, InsertType DEF SaveExceptionBubble, Fault, DbTypeOK
  <2>5. QED
    BY <2>1, <2>2, <2>3, <2>4
<1>17. ASSUME NEW j \in Jobs, CancelBeforeStart(j) PROVE TypeOK'
  BY <1>17 DEF CancelBeforeStart, Goto, store, lock, db,
     StoreTypeOK, TaskTypeOK, LockTypeOK, DbTypeOK, Status, ActiveStatuses, TerminalStatuses,
     PC, AwaitPCs, SyncPCs
<1>18. ASSUME NEW j \in Jobs, CancelInQueue(j) PROVE TypeOK'
  <2>1. StoreTypeOK'
    BY <1>18 DEF CancelInQueue, store, db, StoreTypeOK, Status, ActiveStatuses, TerminalStatuses
  <2>2. TaskTypeOK'
    BY <1>18 DEF CancelInQueue, Goto, store, db, TaskTypeOK, PC, AwaitPCs, SyncPCs
  <2>3. LockTypeOK'
    BY <1>18, JobsAssumption, RemoveAtType DEF CancelInQueue, LockFor, store, db, LockTypeOK
  <2>4. DbTypeOK'
    BY <1>18 DEF CancelInQueue, db, DbTypeOK
  <2>5. QED
    BY <2>1, <2>2, <2>3, <2>4
<1>19. ASSUME NEW j \in Jobs, CancelInAgent(j) PROVE TypeOK'
  BY <1>19 DEF CancelInAgent, Goto, Release, LockFor, store, db,
     StoreTypeOK, TaskTypeOK, LockTypeOK, DbTypeOK, Status, ActiveStatuses, TerminalStatuses,
     PC, AwaitPCs, SyncPCs
<1>20. ASSUME NEW j \in Jobs, AuditCancelled(j) PROVE TypeOK'
  <2>1. StoreTypeOK'
    BY <1>20 DEF AuditCancelled, store, lock, StoreTypeOK, Status, ActiveStatuses, TerminalStatuses
  <2>2. TaskTypeOK'
    BY <1>20 DEF AuditCancelled, Goto, store, lock, TaskTypeOK, PC, AwaitPCs, SyncPCs
  <2>3. LockTypeOK'
    BY <1>20 DEF AuditCancelled, store, lock, LockTypeOK
  <2>4. DbTypeOK'
    <3>1. faults' \in Nat /\ UNCHANGED <<audited, rows, crashes>>
      BY <1>20 DEF AuditCancelled, Fault, DbTypeOK
    <3>2. audit' \in [Jobs -> {"none", "running", "completed", "failed", "cancelled"}]
      BY <1>20 DEF AuditCancelled, FinishAudit, DbTypeOK
    <3>3. QED
      BY <3>1, <3>2 DEF DbTypeOK
  <2>5. QED
    BY <2>1, <2>2, <2>3, <2>4
<1>21. ASSUME NEW j \in Jobs, AgentAnswers(j) PROVE TypeOK'
  BY <1>21 DEF AgentAnswers, Goto, store, lock, db,
     StoreTypeOK, TaskTypeOK, LockTypeOK, DbTypeOK, Status, ActiveStatuses, TerminalStatuses,
     PC, AwaitPCs, SyncPCs
<1>22. ASSUME NEW j \in Jobs, AgentFails(j) PROVE TypeOK'
  BY <1>22 DEF AgentFails, Goto, Release, LockFor, store, db,
     StoreTypeOK, TaskTypeOK, LockTypeOK, DbTypeOK, Status, ActiveStatuses, TerminalStatuses,
     PC, AwaitPCs, SyncPCs
<1>23. ASSUME NEW j \in Jobs, Publish(j) PROVE TypeOK'
  <2>1. StoreTypeOK'
    BY <1>23 DEF Publish, lock, StoreTypeOK, Status, ActiveStatuses, TerminalStatuses
  <2>2. TaskTypeOK'
    BY <1>23 DEF Publish, Goto, lock, TaskTypeOK, PC, AwaitPCs, SyncPCs
  <2>3. LockTypeOK'
    BY <1>23 DEF Publish, lock, LockTypeOK
  <2>4. DbTypeOK'
    <3>1. audited' \in [Jobs -> Nat]
      BY <1>23 DEF Publish, DbTypeOK
    <3>2. faults' \in Nat
      BY <1>23 DEF Publish, Fault, DbTypeOK
    <3>3. UNCHANGED <<audit, rows, crashes>>
      BY <1>23 DEF Publish
    <3>4. QED
      BY <3>1, <3>2, <3>3 DEF DbTypeOK
  <2>5. QED
    BY <2>1, <2>2, <2>3, <2>4
<1>24. ASSUME NEW j \in Jobs, LoseCancel(j) PROVE TypeOK'
  BY <1>24 DEF LoseCancel, Fault, store, lock, db,
     StoreTypeOK, TaskTypeOK, LockTypeOK, DbTypeOK, Status, ActiveStatuses, TerminalStatuses,
     PC, AwaitPCs, SyncPCs
<1>25. ASSUME NEW j \in Jobs, RetentionElapses(j) PROVE TypeOK'
  BY <1>25 DEF RetentionElapses, task, lock, db,
     StoreTypeOK, TaskTypeOK, LockTypeOK, DbTypeOK, Status, ActiveStatuses, TerminalStatuses,
     PC, AwaitPCs, SyncPCs
<1>26. CASE Poll
  BY <1>26 DEF Poll, Kept, task, lock, db, StoreTypeOK, TaskTypeOK, LockTypeOK, DbTypeOK
<1>27. CASE Crash
  BY <1>27 DEF Crash, db, StoreTypeOK, TaskTypeOK, LockTypeOK, DbTypeOK, Status, PC
<1>28. CASE UNCHANGED vars
  BY <1>28 DEF vars, store, task, lock, db, StoreTypeOK, TaskTypeOK, LockTypeOK, DbTypeOK
<1>29. QED
  BY <1>1, <1>2, <1>3, <1>4, <1>5, <1>6, <1>7, <1>8, <1>9, <1>10, <1>11, <1>12, <1>13, <1>14, <1>15, <1>16, <1>17, <1>18, <1>19, <1>20, <1>21, <1>22, <1>23, <1>24, <1>25, <1>26, <1>27, <1>28
     DEF Next, JobStep, Endpoints, TaskStep, AgentReturns

\* Every variable keeps its type.
THEOREM TypeCorrect == Spec => []TypeOK
<1>1. Init => TypeOK
  BY JobsAssumption DEF Init, TypeOK, StoreTypeOK, TaskTypeOK, LockTypeOK, DbTypeOK, Status, PC
<1>2. QED
  BY <1>1, TypeStep, PTL DEF Spec

-----------------------------------------------------------------------------
(* The lock *)

\* Every step keeps the lock with exactly the job that is in its turn.
LEMMA LockStep ==
    TypeOK /\ LockHeldExactlyInTurn /\ [Next]_vars => LockHeldExactlyInTurn'
<1> SUFFICES ASSUME TypeOK, LockHeldExactlyInTurn, [Next]_vars
             PROVE  LockHeldExactlyInTurn'
  OBVIOUS
<1> USE JobsAssumption DEF TypeOK, TaskTypeOK, LockTypeOK, LockHeldExactlyInTurn, InTurn, TurnPCs
<1>1. ASSUME NEW j \in Jobs, StartChatJob(j) PROVE LockHeldExactlyInTurn'
  BY <1>1 DEF StartChatJob, Goto, lock, db
<1>2. ASSUME NEW j \in Jobs, CancelFor(j) PROVE LockHeldExactlyInTurn'
  BY <1>2 DEF CancelFor, lock, db
<1>3. ASSUME NEW j \in Jobs, CancelStranded(j) PROVE LockHeldExactlyInTurn'
  BY <1>3 DEF CancelStranded, task, lock, db
<1>4. ASSUME NEW j \in Jobs, CancelForReturns(j) PROVE LockHeldExactlyInTurn'
  BY <1>4 DEF CancelForReturns, lock, db
<1>5. ASSUME NEW j \in Jobs, AuditStart(j) PROVE LockHeldExactlyInTurn'
  BY <1>5 DEF AuditStart, Goto, store, lock
<1>6. ASSUME NEW j \in Jobs, AcquireLock(j) PROVE LockHeldExactlyInTurn'
  BY <1>6 DEF AcquireLock, LockFree, Goto, LockFor, db
<1>7. ASSUME NEW j \in Jobs, JoinQueue(j) PROVE LockHeldExactlyInTurn'
  BY <1>7 DEF JoinQueue, Goto, store, db
<1>8. ASSUME NEW j \in Jobs, WakeWithLock(j) PROVE LockHeldExactlyInTurn'
  BY <1>8 DEF WakeWithLock, Goto, LockFor, db
<1>9. ASSUME NEW j \in Jobs, RefuseModel(j) PROVE LockHeldExactlyInTurn'
  BY <1>9 DEF RefuseModel, Goto, Release, LockFor, store, db
<1>10. ASSUME NEW j \in Jobs, SaveQuestion(j) PROVE LockHeldExactlyInTurn'
  BY <1>10 DEF SaveQuestion, Goto, Release, LockFor, store
<1>11. ASSUME NEW j \in Jobs, SaveAnswer(j) PROVE LockHeldExactlyInTurn'
  BY <1>11 DEF SaveAnswer, Goto, Release, LockFor, store
<1>12. ASSUME NEW j \in Jobs, Accept(j) PROVE LockHeldExactlyInTurn'
  BY <1>12 DEF Accept, Goto, lock
<1>13. ASSUME NEW j \in Jobs, SaveErrorReply(j) PROVE LockHeldExactlyInTurn'
  BY <1>13 DEF SaveErrorReply, Goto, store, lock
<1>14. ASSUME NEW j \in Jobs, FailJob(j) PROVE LockHeldExactlyInTurn'
  BY <1>14 DEF FailJob, Goto, lock
<1>15. ASSUME NEW j \in Jobs, AuditException(j) PROVE LockHeldExactlyInTurn'
  BY <1>15 DEF AuditException, Goto, store, lock
<1>16. ASSUME NEW j \in Jobs, SaveExceptionBubble(j) PROVE LockHeldExactlyInTurn'
  BY <1>16 DEF SaveExceptionBubble, Goto, lock
<1>17. ASSUME NEW j \in Jobs, CancelBeforeStart(j) PROVE LockHeldExactlyInTurn'
  BY <1>17 DEF CancelBeforeStart, Goto, store, lock, db
<1>18. ASSUME NEW j \in Jobs, CancelInQueue(j) PROVE LockHeldExactlyInTurn'
  BY <1>18 DEF CancelInQueue, Goto, store, db
<1>19. ASSUME NEW j \in Jobs, CancelInAgent(j) PROVE LockHeldExactlyInTurn'
  BY <1>19 DEF CancelInAgent, Goto, Release, LockFor, store, db
<1>20. ASSUME NEW j \in Jobs, AuditCancelled(j) PROVE LockHeldExactlyInTurn'
  BY <1>20 DEF AuditCancelled, Goto, store, lock
<1>21. ASSUME NEW j \in Jobs, AgentAnswers(j) PROVE LockHeldExactlyInTurn'
  BY <1>21 DEF AgentAnswers, Goto, store, lock, db
<1>22. ASSUME NEW j \in Jobs, AgentFails(j) PROVE LockHeldExactlyInTurn'
  BY <1>22 DEF AgentFails, Goto, Release, LockFor, store, db
<1>23. ASSUME NEW j \in Jobs, Publish(j) PROVE LockHeldExactlyInTurn'
  BY <1>23 DEF Publish, Goto, lock
<1>24. ASSUME NEW j \in Jobs, LoseCancel(j) PROVE LockHeldExactlyInTurn'
  BY <1>24 DEF LoseCancel, Fault, store, lock, db
<1>25. ASSUME NEW j \in Jobs, RetentionElapses(j) PROVE LockHeldExactlyInTurn'
  BY <1>25 DEF RetentionElapses, task, lock, db
<1>26. CASE Poll
  BY <1>26 DEF Poll, task, lock
<1>27. CASE Crash
  BY <1>27 DEF Crash
<1>28. CASE UNCHANGED vars
  BY <1>28 DEF vars, task, lock
<1>29. QED
  BY <1>1, <1>2, <1>3, <1>4, <1>5, <1>6, <1>7, <1>8, <1>9, <1>10, <1>11, <1>12, <1>13, <1>14, <1>15, <1>16, <1>17, <1>18, <1>19, <1>20, <1>21, <1>22, <1>23, <1>24, <1>25, <1>26, <1>27, <1>28
     DEF Next, JobStep, Endpoints, TaskStep, AgentReturns

\* The per-user lock is held by a job exactly while it is in its turn.
THEOREM LockSafe == Spec => []LockHeldExactlyInTurn
<1>1. Init => LockHeldExactlyInTurn
  BY JobsAssumption DEF Init, LockHeldExactlyInTurn, InTurn, TurnPCs
<1>2. QED
  BY <1>1, TypeCorrect, LockStep, PTL DEF Spec

\* Two jobs of one account are never in their turn together.
THEOREM MutualExclusion ==
    Spec => [](\A j, k \in Jobs :
                   InTurn(j) /\ InTurn(k) /\ UserOf[j] = UserOf[k] => j = k)
<1>1. LockHeldExactlyInTurn =>
        \A j, k \in Jobs : InTurn(j) /\ InTurn(k) /\ UserOf[j] = UserOf[k] => j = k
  BY DEF LockHeldExactlyInTurn
<1>2. QED
  BY <1>1, LockSafe, PTL

-----------------------------------------------------------------------------
(* What a step of one job leaves alone *)

\* A step of one job changes no other job's task, status, audit run or records.
LEMMA OtherJobs ==
    ASSUME NEW j \in Jobs, JobStep(j), TypeOK, NEW k \in Jobs, k # j
    PROVE  /\ pc'[k] = pc[k] /\ status'[k] = status[k] /\ audit'[k] = audit[k]
           /\ audited'[k] = audited[k] /\ progress'[k] = progress[k]
<1> USE DEF TypeOK, StoreTypeOK, TaskTypeOK, DbTypeOK, Goto, SetStatus, FinishAudit, store, task, lock, db
<1>1. CASE Endpoints(j)
  BY <1>1 DEF Endpoints, StartChatJob, CancelFor, CancelStranded, CancelForReturns
<1>2. CASE AuditStart(j) \/ AcquireLock(j) \/ JoinQueue(j) \/ WakeWithLock(j)
  BY <1>2 DEF AuditStart, AcquireLock, JoinQueue, WakeWithLock
<1>3. CASE RefuseModel(j) \/ SaveQuestion(j) \/ SaveAnswer(j) \/ Accept(j)
  BY <1>3 DEF RefuseModel, SaveQuestion, SaveAnswer, Accept
<1>4. CASE SaveErrorReply(j) \/ FailJob(j) \/ AuditException(j) \/ SaveExceptionBubble(j)
  BY <1>4 DEF SaveErrorReply, FailJob, AuditException, SaveExceptionBubble
<1>5. CASE CancelBeforeStart(j) \/ CancelInQueue(j) \/ CancelInAgent(j) \/ AuditCancelled(j)
  BY <1>5 DEF CancelBeforeStart, CancelInQueue, CancelInAgent, AuditCancelled
<1>6. CASE AgentReturns(j) \/ Publish(j) \/ LoseCancel(j)
  BY <1>6 DEF AgentReturns, AgentAnswers, AgentFails, Publish, LoseCancel
<1>7. QED
  BY <1>1, <1>2, <1>3, <1>4, <1>5, <1>6 DEF JobStep, TaskStep

\* The steps that are not a job's, except a crash, move no job.
LEMMA NoJobs ==
    ASSUME Poll \/ (\E j \in Jobs : RetentionElapses(j)) \/ UNCHANGED vars
    PROVE  UNCHANGED <<status, progress, task, lock, db, loop>>
<1>1. CASE Poll
  BY <1>1 DEF Poll
<1>2. CASE \E j \in Jobs : RetentionElapses(j)
  BY <1>2 DEF RetentionElapses
<1>3. CASE UNCHANGED vars
  BY <1>3 DEF vars, store
<1>4. QED
  BY <1>1, <1>2, <1>3

\* The task that has the event loop is the one in a stretch without an await.
LoopInv == \A j \in Jobs : pc[j] \in SyncPCs <=> loop = j

\* A task takes the event loop and gives it back with its stretches.
LEMMA LoopStep == TypeOK /\ LoopInv /\ [Next]_vars => LoopInv'
<1> SUFFICES ASSUME TypeOK, LoopInv, [Next]_vars PROVE LoopInv'
  OBVIOUS
<1> USE JobsAssumption DEF LoopInv
<1>1. ASSUME NEW j \in Jobs, JobStep(j)
      PROVE  /\ loop \in {None, j} /\ loop' \in {None, j}
             /\ pc'[j] \in SyncPCs <=> loop' = j
  <2> USE DEF TypeOK, TaskTypeOK, Goto, store, task, lock, db, SyncPCs, AwaitPCs
  <2>1. CASE Endpoints(j)
    BY <2>1 DEF Endpoints, StartChatJob, CancelFor, CancelStranded, CancelForReturns
  <2>2. CASE AuditStart(j) \/ AcquireLock(j) \/ JoinQueue(j) \/ WakeWithLock(j)
    BY <2>2 DEF AuditStart, AcquireLock, JoinQueue, WakeWithLock
  <2>3. CASE RefuseModel(j) \/ SaveQuestion(j) \/ SaveAnswer(j) \/ Accept(j)
    BY <2>3 DEF RefuseModel, SaveQuestion, SaveAnswer, Accept
  <2>4. CASE SaveErrorReply(j) \/ FailJob(j) \/ AuditException(j) \/ SaveExceptionBubble(j)
    BY <2>4 DEF SaveErrorReply, FailJob, AuditException, SaveExceptionBubble
  <2>5. CASE CancelBeforeStart(j) \/ CancelInQueue(j) \/ CancelInAgent(j) \/ AuditCancelled(j)
    BY <2>5 DEF CancelBeforeStart, CancelInQueue, CancelInAgent, AuditCancelled
  <2>6. CASE AgentReturns(j) \/ Publish(j) \/ LoseCancel(j)
    BY <2>6 DEF AgentReturns, AgentAnswers, AgentFails, Publish, LoseCancel
  <2>7. QED
    BY <1>1, <2>1, <2>2, <2>3, <2>4, <2>5, <2>6 DEF JobStep, TaskStep
<1>2. ASSUME NEW j \in Jobs, JobStep(j) PROVE LoopInv'
  BY <1>1, <1>2, OtherJobs
<1>3. CASE Crash
  BY <1>3 DEF Crash, SyncPCs, TypeOK, TaskTypeOK
<1>4. CASE Poll \/ (\E j \in Jobs : RetentionElapses(j)) \/ UNCHANGED vars
  BY <1>4, NoJobs DEF task
<1>5. QED
  BY <1>2, <1>3, <1>4 DEF Next

-----------------------------------------------------------------------------
(* Cancellation *)

\* Every step keeps a cancelled job stopped.
LEMMA CancelStep == TypeOK /\ CancelledMeansStopped /\ [Next]_vars => CancelledMeansStopped'
<1> SUFFICES ASSUME TypeOK, CancelledMeansStopped, [Next]_vars PROVE CancelledMeansStopped'
  OBVIOUS
<1> USE DEF CancelledMeansStopped
<1>1. ASSUME NEW j \in Jobs, JobStep(j), status'[j] = "cancelled" PROVE pc'[j] = "done"
  <2> USE <1>1 DEF TypeOK, StoreTypeOK, TaskTypeOK, Goto, SetStatus, store, task, lock, db
  <2>1. CASE Endpoints(j)
    BY <2>1 DEF Endpoints, StartChatJob, CancelFor, CancelStranded, CancelForReturns
  <2>2. CASE AuditStart(j) \/ AcquireLock(j) \/ JoinQueue(j) \/ WakeWithLock(j)
    BY <2>2 DEF AuditStart, AcquireLock, JoinQueue, WakeWithLock
  <2>3. CASE RefuseModel(j) \/ SaveQuestion(j) \/ SaveAnswer(j) \/ Accept(j)
    BY <2>3 DEF RefuseModel, SaveQuestion, SaveAnswer, Accept
  <2>4. CASE SaveErrorReply(j) \/ FailJob(j) \/ AuditException(j) \/ SaveExceptionBubble(j)
    BY <2>4 DEF SaveErrorReply, FailJob, AuditException, SaveExceptionBubble
  <2>5. CASE CancelBeforeStart(j) \/ CancelInQueue(j) \/ CancelInAgent(j) \/ AuditCancelled(j)
    BY <2>5 DEF CancelBeforeStart, CancelInQueue, CancelInAgent, AuditCancelled
  <2>6. CASE AgentReturns(j) \/ Publish(j) \/ LoseCancel(j)
    BY <2>6 DEF AgentReturns, AgentAnswers, AgentFails, Publish, LoseCancel
  <2>7. QED
    BY <1>1, <2>1, <2>2, <2>3, <2>4, <2>5, <2>6 DEF JobStep, TaskStep
<1>2. ASSUME NEW j \in Jobs, JobStep(j) PROVE CancelledMeansStopped'
  BY <1>1, <1>2, OtherJobs
<1>3. CASE Crash
  BY <1>3 DEF Crash
<1>4. CASE Poll \/ (\E j \in Jobs : RetentionElapses(j)) \/ UNCHANGED vars
  BY <1>4, NoJobs DEF task
<1>5. QED
  BY <1>2, <1>3, <1>4 DEF Next

\* A job that a DELETE reported cancelled has no task that still runs: neither a
\* failing write, nor a lost cancellation, nor a second DELETE makes the response
\* come before the end of the task.
THEOREM CancelledJobsAreOver == Spec => []CancelledMeansStopped
<1>1. Init => CancelledMeansStopped
  BY DEF Init, CancelledMeansStopped
<1>2. QED
  BY <1>1, TypeCorrect, CancelStep, PTL DEF Spec

-----------------------------------------------------------------------------
(* The conversation and the audit log *)

\* A job's step adds a message to a conversation.
Writes(j, kind, s) ==
    /\ SessionOf[j] = s /\ loop = j /\ JobStep(j)
    /\ rows'[s] = Append(rows[s], [job |-> j, kind |-> kind])
    /\ audit' = audit
    /\ \/ kind = "question" /\ pc[j] = "execute" /\ pc'[j] = "agent"
       \/ kind = "answer" /\ pc[j] = "save" /\ pc'[j] = "accept"
       \/ kind = "error" /\ pc[j] = "errorReply" /\ pc'[j] = "errorFinish"
       \/ kind = "error" /\ pc[j] = "bubble" /\ pc'[j] = "done"

\* Nothing else does.
LEMMA WhoWrites ==
    ASSUME TypeOK, [Next]_vars, NEW s \in Sessions, rows'[s] # rows[s]
    PROVE  \E j \in Jobs, kind \in {"question", "answer", "error"} : Writes(j, kind, s)
<1> USE DEF Writes, TypeOK, DbTypeOK, TaskTypeOK, Goto, Insert, store, task, lock, db
<1>1. ASSUME NEW j \in Jobs, JobStep(j)
      PROVE  \E kind \in {"question", "answer", "error"} : Writes(j, kind, s)
  <2>1. CASE SaveQuestion(j)
    BY <1>1, <2>1 DEF SaveQuestion
  <2>2. CASE SaveAnswer(j)
    BY <1>1, <2>2 DEF SaveAnswer
  <2>3. CASE SaveErrorReply(j)
    BY <1>1, <2>3 DEF SaveErrorReply
  <2>4. CASE SaveExceptionBubble(j)
    BY <1>1, <2>4 DEF SaveExceptionBubble
  <2>5. CASE Endpoints(j) \/ AgentReturns(j) \/ Publish(j) \/ LoseCancel(j)
    BY <2>5 DEF Endpoints, StartChatJob, CancelFor, CancelStranded, CancelForReturns, AgentReturns,
       AgentAnswers, AgentFails, Publish, LoseCancel
  <2>6. CASE AuditStart(j) \/ AcquireLock(j) \/ JoinQueue(j) \/ WakeWithLock(j) \/ RefuseModel(j)
             \/ Accept(j) \/ FailJob(j) \/ AuditException(j)
    BY <2>6 DEF AuditStart, AcquireLock, JoinQueue, WakeWithLock, RefuseModel, Accept, FailJob,
       AuditException
  <2>7. CASE CancelBeforeStart(j) \/ CancelInQueue(j) \/ CancelInAgent(j) \/ AuditCancelled(j)
    BY <2>7 DEF CancelBeforeStart, CancelInQueue, CancelInAgent, AuditCancelled
  <2>8. QED
    BY <1>1, <2>1, <2>2, <2>3, <2>4, <2>5, <2>6, <2>7 DEF JobStep, TaskStep
<1>2. CASE Crash
  BY <1>2 DEF Crash
<1>3. CASE Poll \/ (\E j \in Jobs : RetentionElapses(j)) \/ UNCHANGED vars
  BY <1>3, NoJobs
<1>4. QED
  BY <1>1, <1>2, <1>3 DEF Next

\* Messages are only ever added, one at a time and at the end.
LEMMA RowsGrow ==
    ASSUME TypeOK, [Next]_vars, NEW s \in Sessions
    PROVE  /\ DOMAIN rows[s] = 1 .. Len(rows[s]) /\ Len(rows[s]) \in Nat
           /\ DOMAIN rows[s] \subseteq DOMAIN rows'[s]
           /\ \A i \in DOMAIN rows[s] : rows'[s][i] = rows[s][i]
<1>1. rows[s] \in Seq(Row)
  BY DEF TypeOK, DbTypeOK
<1>2. CASE rows'[s] = rows[s]
  BY <1>1, <1>2
<1>3. CASE rows'[s] # rows[s]
  <2>1. PICK j \in Jobs, kind \in {"question", "answer", "error"} :
          Writes(j, kind, s)
    BY <1>3, WhoWrites
  <2>2. [job |-> j, kind |-> kind] \in Row
    BY DEF Row
  <2>3. rows'[s] = Append(rows[s], [job |-> j, kind |-> kind])
    BY <2>1 DEF Writes
  <2>4. QED
    BY <1>1, <2>2, <2>3
<1>4. QED
  BY <1>2, <1>3

\* The message that a step adds.
LEMMA NewRow ==
    ASSUME TypeOK, NEW s \in Sessions, NEW row, rows'[s] = Append(rows[s], row)
    PROVE  /\ DOMAIN rows'[s] = 1 .. Len(rows[s]) + 1
           /\ rows'[s][Len(rows[s]) + 1] = row
           /\ \A i \in 1 .. Len(rows[s]) : rows'[s][i] = rows[s][i]
<1>1. rows[s] \in Seq(Row)
  BY DEF TypeOK, DbTypeOK
<1>2. QED
  BY <1>1

\* The program points between the opening and the end of a job's audit run.
InRun == {"lock", "waiting"} \cup TurnPCs \cup {"accept", "errorReply", "errorFinish", "cancelled"}

AuditInv ==
    \A j \in Jobs :
        /\ pc[j] \in {"idle", "new"} => audit[j] = "none"
        /\ pc[j] \in InRun => audit[j] = "running"
        /\ pc[j] = "except" => audit[j] \in {"none", "running"}
        /\ pc[j] = "bubble" => audit[j] # "completed"

\* Every step keeps the audit run with the task that opened it.
LEMMA AuditStep == TypeOK /\ AuditInv /\ [Next]_vars => AuditInv'
<1> SUFFICES ASSUME TypeOK, AuditInv, [Next]_vars PROVE AuditInv'
  OBVIOUS
<1> DEFINE Good(p, a) ==
        /\ p \in {"idle", "new"} => a = "none"
        /\ p \in InRun => a = "running"
        /\ p = "except" => a \in {"none", "running"}
        /\ p = "bubble" => a # "completed"
<1>0. (\A j \in Jobs : Good(pc[j], audit[j])) /\ (AuditInv' <=> \A j \in Jobs : Good(pc'[j], audit'[j]))
  BY DEF AuditInv
<1>1. ASSUME NEW j \in Jobs, JobStep(j) PROVE Good(pc'[j], audit'[j])
  <2> USE <1>0 DEF TypeOK, TaskTypeOK, DbTypeOK, Goto, FinishAudit, store, task, lock, db, InRun, TurnPCs
  <2>1. CASE Endpoints(j)
    BY <2>1 DEF Endpoints, StartChatJob, CancelFor, CancelStranded, CancelForReturns
  <2>2. CASE AuditStart(j) \/ AcquireLock(j) \/ JoinQueue(j) \/ WakeWithLock(j)
    BY <2>2 DEF AuditStart, AcquireLock, JoinQueue, WakeWithLock
  <2>3. CASE RefuseModel(j) \/ SaveQuestion(j) \/ SaveAnswer(j) \/ Accept(j)
    BY <2>3 DEF RefuseModel, SaveQuestion, SaveAnswer, Accept
  <2>4. CASE SaveErrorReply(j) \/ FailJob(j) \/ AuditException(j) \/ SaveExceptionBubble(j)
    BY <2>4 DEF SaveErrorReply, FailJob, AuditException, SaveExceptionBubble
  <2>5. CASE CancelBeforeStart(j) \/ CancelInQueue(j) \/ CancelInAgent(j) \/ AuditCancelled(j)
    BY <2>5 DEF CancelBeforeStart, CancelInQueue, CancelInAgent, AuditCancelled
  <2>6. CASE AgentReturns(j) \/ Publish(j) \/ LoseCancel(j)
    BY <2>6 DEF AgentReturns, AgentAnswers, AgentFails, Publish, LoseCancel
  <2>7. QED
    BY <1>1, <2>1, <2>2, <2>3, <2>4, <2>5, <2>6 DEF JobStep, TaskStep
<1>2. CASE \E j \in Jobs : JobStep(j)
  <2>1. PICK j \in Jobs : JobStep(j)
    BY <1>2
  <2>2. \A k \in Jobs : k # j => pc'[k] = pc[k] /\ audit'[k] = audit[k]
    BY <2>1, OtherJobs
  <2> HIDE DEF Good
  <2>3. QED
    BY <1>0, <1>1, <2>1, <2>2
<1>3. CASE Crash
  <2>1. \A j \in Jobs : pc'[j] = (IF pc[j] = "idle" THEN "idle" ELSE "done") /\ audit' = audit
    BY <1>3 DEF Crash, db
  <2>2. QED
    BY <1>0, <2>1 DEF InRun, TurnPCs
<1>4. CASE Poll \/ (\E j \in Jobs : RetentionElapses(j)) \/ UNCHANGED vars
  BY <1>0, <1>4, NoJobs DEF task, db
<1>5. QED
  BY <1>2, <1>3, <1>4 DEF Next

\* A job's progress records are in the audit database as long as it can still be
\* accepted, and only a job that is over is completed.
RecordInv ==
    \A j \in Jobs :
        /\ pc[j] \in {"idle", "new", "lock", "waiting", "execute", "agent", "save", "accept"}
              => audited[j] = progress[j]
        /\ pc[j] # "done" => status[j] # "completed" /\ audit[j] # "completed"
        /\ status[j] = "completed" => audit[j] = "completed" /\ audited[j] = progress[j]
        /\ pc[j] = "idle" => progress[j] = 0

AnswerInv == \A j \in Jobs : pc[j] = "accept" \/ audit[j] = "completed" => HasRow(j, "answer")

\* Every step keeps the records and the completion of a job in agreement.
LEMMA RecordStep == TypeOK /\ RecordInv /\ [Next]_vars => RecordInv'
<1> SUFFICES ASSUME TypeOK, RecordInv, [Next]_vars PROVE RecordInv'
  OBVIOUS
<1> DEFINE Good(p, st, au, ad, pr) ==
        /\ p \in {"idle", "new", "lock", "waiting", "execute", "agent", "save", "accept"} => ad = pr
        /\ p # "done" => st # "completed" /\ au # "completed"
        /\ st = "completed" => au = "completed" /\ ad = pr
        /\ p = "idle" => pr = 0
<1>0. /\ \A j \in Jobs : Good(pc[j], status[j], audit[j], audited[j], progress[j])
      /\ RecordInv' <=> \A j \in Jobs : Good(pc'[j], status'[j], audit'[j], audited'[j], progress'[j])
  BY DEF RecordInv
<1>1. ASSUME NEW j \in Jobs, JobStep(j)
      PROVE  Good(pc'[j], status'[j], audit'[j], audited'[j], progress'[j])
  <2> USE <1>0 DEF TypeOK, StoreTypeOK, TaskTypeOK, DbTypeOK, Goto, SetStatus, FinishAudit,
                   store, task, lock, db
  <2>1. CASE StartChatJob(j) \/ CancelFor(j)
    BY <2>1 DEF StartChatJob, CancelFor
  <2>2. CASE CancelStranded(j) \/ CancelForReturns(j)
    BY <2>2 DEF CancelStranded, CancelForReturns
  <2>3. CASE AuditStart(j) \/ AcquireLock(j)
    BY <2>3 DEF AuditStart, AcquireLock
  <2>4. CASE JoinQueue(j) \/ WakeWithLock(j)
    BY <2>4 DEF JoinQueue, WakeWithLock
  <2>5. CASE RefuseModel(j) \/ SaveQuestion(j) \/ SaveAnswer(j)
    BY <2>5 DEF RefuseModel, SaveQuestion, SaveAnswer
  <2>6. CASE Accept(j)
    BY <2>6 DEF Accept
  <2>7. CASE SaveErrorReply(j) \/ FailJob(j)
    BY <2>7 DEF SaveErrorReply, FailJob
  <2>8. CASE AuditException(j) \/ SaveExceptionBubble(j)
    BY <2>8 DEF AuditException, SaveExceptionBubble
  <2>9. CASE CancelBeforeStart(j) \/ CancelInQueue(j) \/ CancelInAgent(j) \/ AuditCancelled(j)
    BY <2>9 DEF CancelBeforeStart, CancelInQueue, CancelInAgent, AuditCancelled
  <2>10. CASE AgentReturns(j) \/ LoseCancel(j)
    BY <2>10 DEF AgentReturns, AgentAnswers, AgentFails, LoseCancel
  <2>11. CASE Publish(j)
    BY <2>11 DEF Publish
  <2>12. QED
    BY <1>1, <2>1, <2>2, <2>3, <2>4, <2>5, <2>6, <2>7, <2>8, <2>9, <2>10, <2>11
    DEF JobStep, Endpoints, TaskStep
<1>2. CASE \E j \in Jobs : JobStep(j)
  <2>1. PICK j \in Jobs : JobStep(j)
    BY <1>2
  <2>2. \A k \in Jobs : k # j => /\ pc'[k] = pc[k] /\ status'[k] = status[k] /\ audit'[k] = audit[k]
                                 /\ audited'[k] = audited[k] /\ progress'[k] = progress[k]
    BY <2>1, OtherJobs
  <2> HIDE DEF Good
  <2>3. QED
    BY <1>0, <1>1, <2>1, <2>2
<1>3. CASE Crash
  <2>1. \A j \in Jobs : /\ pc'[j] = (IF pc[j] = "idle" THEN "idle" ELSE "done")
                        /\ status'[j] = "none" /\ progress'[j] = 0
                        /\ audit'[j] = audit[j] /\ audited'[j] = audited[j]
    BY <1>3 DEF Crash, db
  <2>2. QED
    BY <1>0, <2>1
<1>4. CASE Poll \/ (\E j \in Jobs : RetentionElapses(j)) \/ UNCHANGED vars
  BY <1>0, <1>4, NoJobs DEF task, db
<1>5. QED
  BY <1>2, <1>3, <1>4 DEF Next

\* Every step keeps the answer before the acceptance.
LEMMA AnswerStep == TypeOK /\ AnswerInv /\ [Next]_vars => AnswerInv'
<1> SUFFICES ASSUME TypeOK, AnswerInv, [Next]_vars, NEW k \in Jobs,
                    pc'[k] = "accept" \/ audit'[k] = "completed"
             PROVE  HasRow(k, "answer")'
  BY DEF AnswerInv
<1>0. SessionOf[k] \in Sessions
  BY JobsAssumption
<1>1. CASE pc[k] = "accept" \/ audit[k] = "completed"
  <2>1. PICK i \in DOMAIN rows[SessionOf[k]] : rows[SessionOf[k]][i] = [job |-> k, kind |-> "answer"]
    BY <1>1 DEF AnswerInv, HasRow
  <2>2. i \in DOMAIN rows'[SessionOf[k]] /\ rows'[SessionOf[k]][i] = [job |-> k, kind |-> "answer"]
    BY <1>0, <2>1, RowsGrow
  <2>3. QED
    BY <2>2 DEF HasRow
<1>2. CASE ~(pc[k] = "accept" \/ audit[k] = "completed")
  <2>1. ASSUME NEW j \in Jobs, JobStep(j)
        PROVE  rows'[SessionOf[k]] = Append(rows[SessionOf[k]], [job |-> k, kind |-> "answer"])
    <3>1. j = k
      BY <1>2, <2>1, OtherJobs
    <3> USE <1>2, <3>1 DEF TypeOK, TaskTypeOK, DbTypeOK, Goto, FinishAudit, store, task, lock, db
    <3>2. CASE SaveAnswer(k)
      BY <1>0, <3>2 DEF SaveAnswer, Insert
    <3>3. CASE Endpoints(k) \/ AgentReturns(k) \/ Publish(k) \/ LoseCancel(k)
      BY <3>3 DEF Endpoints, StartChatJob, CancelFor, CancelStranded, CancelForReturns, AgentReturns,
         AgentAnswers, AgentFails, Publish, LoseCancel
    <3>4. CASE AuditStart(k) \/ AcquireLock(k) \/ JoinQueue(k) \/ WakeWithLock(k)
      BY <3>4 DEF AuditStart, AcquireLock, JoinQueue, WakeWithLock
    <3>5. CASE RefuseModel(k) \/ SaveQuestion(k) \/ Accept(k) \/ SaveErrorReply(k)
      BY <3>5 DEF RefuseModel, SaveQuestion, Accept, SaveErrorReply
    <3>6. CASE FailJob(k) \/ AuditException(k) \/ SaveExceptionBubble(k)
      BY <3>6 DEF FailJob, AuditException, SaveExceptionBubble
    <3>7. CASE CancelBeforeStart(k) \/ CancelInQueue(k) \/ CancelInAgent(k) \/ AuditCancelled(k)
      BY <3>7 DEF CancelBeforeStart, CancelInQueue, CancelInAgent, AuditCancelled
    <3>8. QED
      BY <2>1, <3>2, <3>3, <3>4, <3>5, <3>6, <3>7 DEF JobStep, TaskStep
  <2>2. ~Crash
    BY <1>2 DEF Crash, db, TypeOK, TaskTypeOK
  <2>3. ~(Poll \/ (\E j \in Jobs : RetentionElapses(j)) \/ UNCHANGED vars)
    BY <1>2, NoJobs DEF task, db
  <2>4. rows'[SessionOf[k]] = Append(rows[SessionOf[k]], [job |-> k, kind |-> "answer"])
    BY <2>1, <2>2, <2>3 DEF Next
  <2>5. /\ Len(rows[SessionOf[k]]) + 1 \in DOMAIN rows'[SessionOf[k]]
        /\ rows'[SessionOf[k]][Len(rows[SessionOf[k]]) + 1] = [job |-> k, kind |-> "answer"]
    BY <1>0, <2>4, NewRow, RowsGrow
  <2>6. QED
    BY <2>5 DEF HasRow
<1>3. QED
  BY <1>1, <1>2

\* Whatever write fails and whenever the process dies, a job that is reported
\* completed has a completed audit run with every progress record its client was
\* shown, and a completed audit run has its answer in the conversation.
THEOREM AnswersAreDurable == Spec => []AcceptedAnswersAreDurable
<1>1. Init => RecordInv /\ AnswerInv
  BY DEF Init, RecordInv, AnswerInv
<1>2. RecordInv /\ AnswerInv => AcceptedAnswersAreDurable
  BY DEF RecordInv, AnswerInv, AcceptedAnswersAreDurable
<1>3. QED
  BY <1>1, <1>2, TypeCorrect, RecordStep, AnswerStep, PTL DEF Spec

-----------------------------------------------------------------------------
(* Turns *)

\* A job that has left its turn has left the lock, and nobody takes it before the
\* job's task gives the event loop back.
AfterTurn ==
    \A j \in Jobs :
        \/ pc[j] \in {"accept", "errorReply", "errorFinish"}
        \/ pc[j] \in {"except", "bubble"} /\ audit[j] # "none"
        => owner[UserOf[j]] = None

\* Nobody takes a lock that was released before the task gives the event loop back.
LEMMA AfterTurnStep == TypeOK /\ LoopInv /\ AuditInv /\ AfterTurn /\ [Next]_vars => AfterTurn'
<1> SUFFICES ASSUME TypeOK, LoopInv, AuditInv, AfterTurn, [Next]_vars, NEW k \in Jobs,
                    \/ pc'[k] \in {"accept", "errorReply", "errorFinish"}
                    \/ pc'[k] \in {"except", "bubble"} /\ audit'[k] # "none"
             PROVE  owner'[UserOf[k]] = None
  BY DEF AfterTurn
<1>0. UserOf[k] \in Users
  BY JobsAssumption
<1>1. ASSUME JobStep(k) PROVE owner'[UserOf[k]] = None
  <2> USE <1>0 DEF TypeOK, TaskTypeOK, LockTypeOK, DbTypeOK, AfterTurn, AuditInv, Goto, Release, LockFor,
                   FinishAudit, store, task, lock, db
  <2>1. CASE Endpoints(k) \/ Publish(k) \/ LoseCancel(k)
    BY <2>1 DEF Endpoints, StartChatJob, CancelFor, CancelStranded, CancelForReturns, Publish, LoseCancel
  <2>2. CASE AuditStart(k) \/ AcquireLock(k) \/ JoinQueue(k) \/ WakeWithLock(k)
    BY <2>2 DEF AuditStart, AcquireLock, JoinQueue, WakeWithLock
  <2>3. CASE RefuseModel(k) \/ SaveQuestion(k) \/ SaveAnswer(k) \/ AgentReturns(k)
    BY <2>3 DEF RefuseModel, SaveQuestion, SaveAnswer, AgentReturns, AgentAnswers, AgentFails
  <2>4. CASE Accept(k) \/ SaveErrorReply(k) \/ FailJob(k)
    BY <2>4 DEF Accept, SaveErrorReply, FailJob
  <2>5. CASE AuditException(k) \/ SaveExceptionBubble(k)
    BY <2>5 DEF AuditException, SaveExceptionBubble
  <2>6. CASE CancelBeforeStart(k) \/ CancelInQueue(k) \/ CancelInAgent(k) \/ AuditCancelled(k)
    BY <2>6 DEF CancelBeforeStart, CancelInQueue, CancelInAgent, AuditCancelled
  <2>7. QED
    BY <1>1, <2>1, <2>2, <2>3, <2>4, <2>5, <2>6 DEF JobStep, TaskStep
<1>2. ASSUME NEW j \in Jobs, JobStep(j), j # k PROVE FALSE
  <2>1. pc[k] \in SyncPCs
    BY <1>2, OtherJobs DEF SyncPCs
  <2>2. loop = k
    BY <2>1 DEF LoopInv
  <2>3. loop \in {None, j}
    BY <1>2 DEF JobStep, Endpoints, TaskStep, AgentReturns, StartChatJob, CancelFor, CancelStranded,
       CancelForReturns, AuditStart, AcquireLock, JoinQueue, WakeWithLock, RefuseModel, SaveQuestion,
       SaveAnswer, Accept, SaveErrorReply, FailJob, AuditException, SaveExceptionBubble,
       CancelBeforeStart, CancelInQueue, CancelInAgent, AuditCancelled, AgentAnswers, AgentFails,
       Publish, LoseCancel
  <2>4. QED
    BY <1>2, <2>2, <2>3, JobsAssumption
<1>3. CASE Crash
  BY <1>0, <1>3 DEF Crash
<1>4. CASE Poll \/ (\E j \in Jobs : RetentionElapses(j)) \/ UNCHANGED vars
  BY <1>4, NoJobs DEF task, lock, db, AfterTurn
<1>5. QED
  BY <1>1, <1>2, <1>3, <1>4 DEF Next

\* The program points before a job has written anything.
Early == {"idle", "new", "lock", "waiting", "execute"}

\* A job does not go back, and whether its audit run was opened is settled by then.
LEMMA NoWayBack ==
    ASSUME TypeOK, AuditInv, [Next]_vars, NEW k \in Jobs, pc[k] \notin Early
    PROVE  /\ pc'[k] \notin Early
           /\ pc[k] \in {"done", "cancelled"} => pc'[k] \in {"done", "cancelled"}
           /\ audit[k] = "none" => audit'[k] = "none"
<1>1. ASSUME JobStep(k)
      PROVE  /\ pc'[k] \notin Early
             /\ pc[k] \in {"done", "cancelled"} => pc'[k] \in {"done", "cancelled"}
             /\ audit[k] = "none" => audit'[k] = "none"
  <2> USE DEF TypeOK, TaskTypeOK, DbTypeOK, AuditInv, InRun, TurnPCs, Early, Goto, FinishAudit,
              store, task, lock, db
  <2>1. CASE Endpoints(k) \/ Publish(k) \/ LoseCancel(k)
    BY <2>1 DEF Endpoints, StartChatJob, CancelFor, CancelStranded, CancelForReturns, Publish, LoseCancel
  <2>2. CASE AuditStart(k) \/ AcquireLock(k) \/ JoinQueue(k) \/ WakeWithLock(k)
    BY <2>2 DEF AuditStart, AcquireLock, JoinQueue, WakeWithLock
  <2>3. CASE RefuseModel(k) \/ SaveQuestion(k) \/ SaveAnswer(k) \/ AgentReturns(k)
    BY <2>3 DEF RefuseModel, SaveQuestion, SaveAnswer, AgentReturns, AgentAnswers, AgentFails
  <2>4. CASE Accept(k) \/ SaveErrorReply(k) \/ FailJob(k)
    BY <2>4 DEF Accept, SaveErrorReply, FailJob
  <2>5. CASE AuditException(k) \/ SaveExceptionBubble(k)
    BY <2>5 DEF AuditException, SaveExceptionBubble
  <2>6. CASE CancelBeforeStart(k) \/ CancelInQueue(k) \/ CancelInAgent(k) \/ AuditCancelled(k)
    BY <2>6 DEF CancelBeforeStart, CancelInQueue, CancelInAgent, AuditCancelled
  <2>7. QED
    BY <1>1, <2>1, <2>2, <2>3, <2>4, <2>5, <2>6 DEF JobStep, TaskStep
<1>2. ASSUME NEW j \in Jobs, JobStep(j), j # k PROVE pc'[k] = pc[k] /\ audit'[k] = audit[k]
  BY <1>2, OtherJobs
<1>3. CASE Crash
  BY <1>3 DEF Crash, db, Early
<1>4. CASE Poll \/ (\E j \in Jobs : RetentionElapses(j)) \/ UNCHANGED vars
  BY <1>4, NoJobs DEF task, db
<1>5. QED
  BY <1>1, <1>2, <1>3, <1>4 DEF Next

\* The error of a job whose audit run could not be opened.
Stray(row) == row.kind = "error" /\ audit[row.job] = "none"

\* Messages are in the conversation of their job, which has got that far.
RowInv ==
    \A s \in Sessions : \A i \in DOMAIN rows[s] :
        SessionOf[rows[s][i].job] = s /\ pc[rows[s][i].job] \notin Early

\* As long as a job may write, its messages are the last ones of its conversation.
OpenInv ==
    \A s \in Sessions : \A a, b \in DOMAIN rows[s] :
        a < b => \/ pc[rows[s][a].job] \in {"done", "cancelled"}
                 \/ rows[s][b].job = rows[s][a].job
                 \/ Stray(rows[s][b])

TurnInv ==
    /\ TypeOK /\ LockHeldExactlyInTurn /\ LoopInv /\ AuditInv /\ AfterTurn
    /\ RowInv /\ OpenInv /\ TurnsNotInterleaved

\* The job of a stored message.
LEMMA RowJob ==
    ASSUME TypeOK, NEW s \in Sessions, NEW i \in DOMAIN rows[s]
    PROVE  rows[s][i] \in Row /\ rows[s][i].job \in Jobs /\ i \in 1 .. Len(rows[s])
<1>1. rows[s] \in Seq(Row)
  BY DEF TypeOK, DbTypeOK
<1>2. rows[s][i] \in Row
  BY <1>1
<1>3. QED
  BY <1>1, <1>2 DEF Row

\* A message that was stored before keeps what it says.
LEMMA OldRow ==
    ASSUME TypeOK, AuditInv, RowInv, [Next]_vars, NEW s \in Sessions, NEW i \in DOMAIN rows[s]
    PROVE  /\ rows'[s][i] = rows[s][i] /\ rows[s][i].job \in Jobs
           /\ pc'[rows[s][i].job] \notin Early
           /\ pc[rows[s][i].job] \in {"done", "cancelled"} => pc'[rows[s][i].job] \in {"done", "cancelled"}
           /\ Stray(rows[s][i]) => rows[s][i].kind = "error" /\ audit'[rows[s][i].job] = "none"
<1>1. PICK k \in Jobs : k = rows[s][i].job
  BY RowJob
<1>2. pc[k] \notin Early
  BY <1>1 DEF RowInv
<1>3. /\ pc'[k] \notin Early
      /\ pc[k] \in {"done", "cancelled"} => pc'[k] \in {"done", "cancelled"}
      /\ audit[k] = "none" => audit'[k] = "none"
  BY <1>2, NoWayBack
<1>4. rows'[s][i] = rows[s][i]
  BY RowsGrow
<1>5. QED
  BY <1>1, <1>3, <1>4 DEF Stray

\* A job that writes finds no unfinished turn of another job in its conversation,
\* unless what it writes is a stray error.
LEMMA WriterIsAlone ==
    ASSUME TurnInv, NEW j \in Jobs, NEW kind, NEW s \in Sessions, Writes(j, kind, s),
           NEW k \in Jobs, k # j, SessionOf[k] = s, pc[k] \notin Early, pc[k] \notin {"done", "cancelled"}
    PROVE  kind = "error" /\ audit[j] = "none"
<1> USE DEF TurnInv
<1>1. loop = j /\ SessionOf[j] = s
      /\ pc[j] \in {"execute", "save", "errorReply", "bubble"}
      /\ (pc[j] = "bubble" => kind = "error")
  BY DEF Writes
<1>2. pc[k] \in {"agent", "failing"}
  <2>1. pc[k] \notin SyncPCs
    BY <1>1, JobsAssumption DEF LoopInv
  <2>2. pc[k] \in PC
    BY DEF TypeOK, TaskTypeOK
  <2>3. QED
    BY <2>1, <2>2 DEF PC, AwaitPCs, Early
<1>3. owner[UserOf[k]] = k /\ UserOf[k] = UserOf[j]
  BY <1>1, <1>2, JobsAssumption DEF LockHeldExactlyInTurn, InTurn, TurnPCs
<1>4. pc[j] \notin {"execute", "save"}
  BY <1>3 DEF LockHeldExactlyInTurn, InTurn, TurnPCs
<1>5. owner[UserOf[j]] # None
  BY <1>3, JobsAssumption
<1>6. QED
  BY <1>1, <1>4, <1>5 DEF AfterTurn

\* Every step keeps the messages of a job together.
LEMMA TurnStep == TurnInv /\ [Next]_vars => TurnInv'
<1> SUFFICES ASSUME TurnInv, [Next]_vars PROVE TurnInv'
  OBVIOUS
<1> USE DEF TurnInv
<1>1. TypeOK' /\ LockHeldExactlyInTurn' /\ LoopInv' /\ AuditInv' /\ AfterTurn'
  BY TypeStep, LockStep, LoopStep, AuditStep, AfterTurnStep
<1>2. ASSUME NEW s \in Sessions
      PROVE  /\ \A i \in DOMAIN rows'[s] :
                    SessionOf[rows'[s][i].job] = s /\ pc'[rows'[s][i].job] \notin Early
             /\ \A a, b \in DOMAIN rows'[s] :
                    a < b => \/ pc'[rows'[s][a].job] \in {"done", "cancelled"}
                             \/ rows'[s][b].job = rows'[s][a].job
                             \/ rows'[s][b].kind = "error" /\ audit'[rows'[s][b].job] = "none"
             /\ \A a, b, c \in DOMAIN rows'[s] :
                    (a < b /\ b < c /\ rows'[s][a].job = rows'[s][c].job)
                      => \/ rows'[s][b].job = rows'[s][a].job
                         \/ rows'[s][b].kind = "error" /\ audit'[rows'[s][b].job] = "none"
  <2>0. DOMAIN rows[s] = 1 .. Len(rows[s]) /\ Len(rows[s]) \in Nat
    BY RowsGrow
  <2>1. \A i \in DOMAIN rows[s] : SessionOf[rows[s][i].job] = s /\ pc'[rows[s][i].job] \notin Early
    BY OldRow DEF RowInv
  <2>2. \A a, b \in DOMAIN rows[s] :
            a < b => \/ pc'[rows[s][a].job] \in {"done", "cancelled"}
                     \/ rows[s][b].job = rows[s][a].job
                     \/ rows[s][b].kind = "error" /\ audit'[rows[s][b].job] = "none"
    BY OldRow DEF OpenInv
  <2>3. \A a, b, c \in DOMAIN rows[s] :
            (a < b /\ b < c /\ rows[s][a].job = rows[s][c].job)
              => \/ rows[s][b].job = rows[s][a].job
                 \/ rows[s][b].kind = "error" /\ audit'[rows[s][b].job] = "none"
    BY OldRow DEF TurnsNotInterleaved, Stray
  <2>4. CASE rows'[s] = rows[s]
    BY <2>1, <2>2, <2>3, <2>4
  <2>5. CASE rows'[s] # rows[s]
    <3>1. PICK j \in Jobs, kind \in {"question", "answer", "error"} : Writes(j, kind, s)
      BY <2>5, WhoWrites
    <3> DEFINE n == Len(rows[s]) + 1
    <3>2. /\ DOMAIN rows'[s] = 1 .. n
          /\ rows'[s][n].job = j /\ rows'[s][n].kind = kind
          /\ \A i \in DOMAIN rows[s] : rows'[s][i] = rows[s][i]
      BY <2>0, <3>1, NewRow DEF Writes
    <3>3. SessionOf[j] = s /\ pc'[j] \notin Early /\ audit'[j] = audit[j] /\ JobStep(j)
          /\ pc[j] \notin {"done", "cancelled"}
      BY <3>1 DEF Writes, Early
    <3>4. \A i \in DOMAIN rows'[s] : i # n => i \in DOMAIN rows[s]
      BY <2>0, <3>2
    <3>5. ASSUME NEW a \in DOMAIN rows[s]
          PROVE  \/ pc'[rows[s][a].job] \in {"done", "cancelled"}
                 \/ rows[s][a].job = j
                 \/ kind = "error" /\ audit'[j] = "none"
      <4>1. PICK k \in Jobs : k = rows[s][a].job
        BY OldRow
      <4>2. SessionOf[k] = s /\ pc[k] \notin Early
        BY <4>1 DEF RowInv
      <4>3. k # j => pc'[k] = pc[k]
        BY <3>3, OtherJobs
      <4>4. QED
        BY <3>1, <3>3, <4>1, <4>2, <4>3, WriterIsAlone
    <3>6. ASSUME NEW a \in DOMAIN rows[s], NEW b \in DOMAIN rows[s], a < b, rows[s][a].job = j
          PROVE  \/ rows[s][b].job = j
                 \/ rows[s][b].kind = "error" /\ audit'[rows[s][b].job] = "none"
      BY <3>3, <3>6, OldRow DEF OpenInv
    <3>7. \A i \in DOMAIN rows'[s] : i \in 1 .. n
      BY <3>2
    <3> HIDE DEF n
    <3>8. \A i \in DOMAIN rows'[s] :
              SessionOf[rows'[s][i].job] = s /\ pc'[rows'[s][i].job] \notin Early
      BY <2>1, <3>2, <3>3, <3>4
    <3>9. n \in Nat /\ \A a, b \in DOMAIN rows'[s] : a < b => a # n
      BY <2>0, <3>7 DEF n
    <3>10. \A a, b \in DOMAIN rows'[s] :
              a < b => \/ pc'[rows'[s][a].job] \in {"done", "cancelled"}
                       \/ rows'[s][b].job = rows'[s][a].job
                       \/ rows'[s][b].kind = "error" /\ audit'[rows'[s][b].job] = "none"
      BY <2>2, <3>2, <3>4, <3>5, <3>9
    <3>11. \A a, b, c \in DOMAIN rows'[s] :
              (a < b /\ b < c /\ rows'[s][a].job = rows'[s][c].job)
                => \/ rows'[s][b].job = rows'[s][a].job
                   \/ rows'[s][b].kind = "error" /\ audit'[rows'[s][b].job] = "none"
      BY <2>3, <3>2, <3>4, <3>6, <3>9
    <3>12. QED
      BY <3>8, <3>10, <3>11
  <2>6. QED
    BY <2>4, <2>5
<1>3. RowInv'
  BY <1>2 DEF RowInv
<1>4. OpenInv'
  BY <1>2 DEF OpenInv, Stray
<1>5. TurnsNotInterleaved'
  BY <1>2 DEF TurnsNotInterleaved
<1>6. QED
  BY <1>1, <1>3, <1>4, <1>5

\* The messages of a job are adjacent in its conversation, although its error is
\* written after it has released the lock; the one exception is the error of a
\* job whose audit run could not be opened.
THEOREM TurnsStayTogether == Spec => []TurnsNotInterleaved
<1>1. Init => TurnInv
  <2> SUFFICES ASSUME Init PROVE TurnInv
    OBVIOUS
  <2>1. TypeOK
    BY JobsAssumption DEF Init, TypeOK, StoreTypeOK, TaskTypeOK, LockTypeOK, DbTypeOK, Status, PC
  <2>2. LockHeldExactlyInTurn /\ LoopInv /\ AuditInv /\ AfterTurn
    BY JobsAssumption DEF Init, LockHeldExactlyInTurn, InTurn, TurnPCs, LoopInv, SyncPCs, AuditInv,
       InRun, AfterTurn
  <2>3. RowInv /\ OpenInv /\ TurnsNotInterleaved
    BY DEF Init, RowInv, OpenInv, TurnsNotInterleaved
  <2>4. QED
    BY <2>1, <2>2, <2>3 DEF TurnInv
<1>2. TurnInv => TurnsNotInterleaved
  BY DEF TurnInv
<1>3. QED
  BY <1>1, <1>2, TurnStep, PTL DEF Spec

-----------------------------------------------------------------------------
(* The service that the page of a conversation relies on *)

\* A job that has ended has no task any more, and the store forgets no other.
StoreInv ==
    /\ \A j \in Jobs : status[j] \in TerminalStatuses => pc[j] = "done"
    /\ \A j \in Jobs : pc[j] \notin {"idle", "done"} => j \in jobs
    /\ \A j \in jobs : pc[j] # "idle"

\* What happens to the store in a step that is not a crash.
LEMMA StoreShape ==
    ASSUME [Next]_vars, ~Crash
    PROVE  \/ jobs' = jobs
           \/ jobs' = Kept /\ UNCHANGED rows
           \/ \E j \in Jobs : StartChatJob(j) /\ jobs' = Kept \cup {j} /\ UNCHANGED rows
<1>1. ASSUME NEW j \in Jobs, JobStep(j)
      PROVE  \/ jobs' = jobs
             \/ jobs' = Kept /\ UNCHANGED rows
             \/ StartChatJob(j) /\ jobs' = Kept \cup {j} /\ UNCHANGED rows
  <2> USE DEF store, db
  <2>1. CASE Endpoints(j)
    BY <2>1 DEF Endpoints, StartChatJob, CancelFor, CancelStranded, CancelForReturns
  <2>2. TaskStep(j) => jobs' = jobs
    <3>1. AuditStart(j) \/ AcquireLock(j) \/ JoinQueue(j) \/ WakeWithLock(j) => jobs' = jobs
      BY DEF AuditStart, AcquireLock, JoinQueue, WakeWithLock
    <3>2. SaveQuestion(j) \/ SaveAnswer(j) => jobs' = jobs
      BY DEF SaveQuestion, SaveAnswer
    <3>3. RefuseModel(j) \/ Accept(j) => jobs' = jobs
      BY DEF RefuseModel, Accept
    <3>4. SaveErrorReply(j) \/ FailJob(j) => jobs' = jobs
      BY DEF SaveErrorReply, FailJob
    <3>5. AuditException(j) \/ SaveExceptionBubble(j) => jobs' = jobs
      BY DEF AuditException, SaveExceptionBubble
    <3>6. CancelBeforeStart(j) \/ CancelInQueue(j) \/ CancelInAgent(j) \/ AuditCancelled(j)
          => jobs' = jobs
      BY DEF CancelBeforeStart, CancelInQueue, CancelInAgent, AuditCancelled
    <3>7. QED
      BY <3>1, <3>2, <3>3, <3>4, <3>5, <3>6 DEF TaskStep
  <2>3. CASE AgentReturns(j) \/ Publish(j) \/ LoseCancel(j)
    BY <2>3 DEF AgentReturns, AgentAnswers, AgentFails, Publish, LoseCancel
  <2>4. QED
    BY <1>1, <2>1, <2>2, <2>3 DEF JobStep
<1>2. CASE Poll
  BY <1>2 DEF Poll, db
<1>3. CASE (\E j \in Jobs : RetentionElapses(j)) \/ UNCHANGED vars
  BY <1>3 DEF RetentionElapses, vars, store
<1>4. QED
  BY <1>1, <1>2, <1>3 DEF Next

\* How a job's status and program point change together.
LEMMA StatusMoves ==
    ASSUME TypeOK, StoreInv, NEW j \in Jobs, JobStep(j)
    PROVE  /\ status'[j] \in TerminalStatuses => pc'[j] = "done"
           /\ pc'[j] # "idle"
           /\ pc[j] = "idle" => StartChatJob(j)
<1> USE DEF TypeOK, StoreTypeOK, TaskTypeOK, StoreInv, TerminalStatuses, Goto, SetStatus, store, task, lock, db
<1>1. CASE StartChatJob(j)
  BY <1>1 DEF StartChatJob
<1>0. CASE CancelFor(j)
  <2>1. pc[j] # "idle" /\ pc'[j] = pc[j]
    BY <1>0 DEF CancelFor, Kept
  <2>2. status'[j] = "cancelling"
    BY <1>0 DEF CancelFor
  <2>3. QED
    BY <2>1, <2>2
<1>2. CASE CancelStranded(j) \/ CancelForReturns(j)
  BY <1>2 DEF CancelStranded, CancelForReturns
<1>3. CASE AuditStart(j) \/ AcquireLock(j) \/ JoinQueue(j) \/ WakeWithLock(j)
  BY <1>3 DEF AuditStart, AcquireLock, JoinQueue, WakeWithLock
<1>4. CASE RefuseModel(j) \/ SaveQuestion(j) \/ SaveAnswer(j) \/ Accept(j)
  BY <1>4 DEF RefuseModel, SaveQuestion, SaveAnswer, Accept
<1>5. CASE SaveErrorReply(j) \/ FailJob(j) \/ AuditException(j) \/ SaveExceptionBubble(j)
  BY <1>5 DEF SaveErrorReply, FailJob, AuditException, SaveExceptionBubble
<1>6. CASE CancelBeforeStart(j) \/ CancelInQueue(j) \/ CancelInAgent(j) \/ AuditCancelled(j)
  BY <1>6 DEF CancelBeforeStart, CancelInQueue, CancelInAgent, AuditCancelled
<1>7. CASE AgentReturns(j) \/ Publish(j) \/ LoseCancel(j)
  BY <1>7 DEF AgentReturns, AgentAnswers, AgentFails, Publish, LoseCancel
<1>8. QED
  BY <1>0, <1>1, <1>2, <1>3, <1>4, <1>5, <1>6, <1>7 DEF JobStep, Endpoints, TaskStep

\* Every step keeps a job in the store as long as it has a task.
LEMMA StoreStep == TypeOK /\ StoreInv /\ [Next]_vars => StoreInv'
<1> SUFFICES ASSUME TypeOK, StoreInv, [Next]_vars PROVE StoreInv'
  OBVIOUS
<1>1. TypeOK'
  BY TypeStep
<1>2. CASE Crash
  BY <1>2 DEF Crash, StoreInv, TerminalStatuses, TypeOK, TaskTypeOK
<1>3. ASSUME ~Crash, NEW k \in Jobs
      PROVE  /\ status'[k] \in TerminalStatuses => pc'[k] = "done"
             /\ pc'[k] \notin {"idle", "done"} => k \in jobs'
             /\ k \in jobs' => pc'[k] # "idle"
  <2>1. CASE JobStep(k)
    <3>1. /\ status'[k] \in TerminalStatuses => pc'[k] = "done"
          /\ pc'[k] # "idle"
          /\ pc[k] = "idle" => StartChatJob(k)
      BY <2>1, StatusMoves
    <3>2. StartChatJob(k) => k \in jobs'
      BY DEF StartChatJob
    <3>3. pc[k] = "done" => pc'[k] = "done"
      BY <2>1 DEF JobStep, Endpoints, TaskStep, AgentReturns, StartChatJob, CancelFor, CancelStranded,
         CancelForReturns, AuditStart, AcquireLock, JoinQueue, WakeWithLock, RefuseModel, SaveQuestion,
         SaveAnswer, Accept, SaveErrorReply, FailJob, AuditException, SaveExceptionBubble,
         CancelBeforeStart, CancelInQueue, CancelInAgent, AuditCancelled, AgentAnswers, AgentFails,
         Publish, LoseCancel, task
    <3>4. pc[k] \notin {"idle", "done"} => k \in Kept
      BY DEF StoreInv, Kept
    <3>5. pc[k] \notin {"idle", "done"} => k \in jobs'
      BY <1>3, <3>4, StoreShape DEF StoreInv
    <3>6. QED
      BY <3>1, <3>2, <3>3, <3>5
  <2>2. CASE ~JobStep(k)
    <3>1. pc'[k] = pc[k] /\ status'[k] = status[k]
      <4>1. ASSUME NEW j \in Jobs, JobStep(j) PROVE pc'[k] = pc[k] /\ status'[k] = status[k]
        BY <2>2, <4>1, OtherJobs
      <4>2. CASE Poll \/ (\E j \in Jobs : RetentionElapses(j)) \/ UNCHANGED vars
        BY <4>2, NoJobs DEF task
      <4>3. QED
        BY <1>3, <4>1, <4>2 DEF Next
    <3>2. k \in jobs' => k \in jobs
      BY <1>3, <2>2, StoreShape DEF Kept, JobStep, Endpoints
    <3>3. pc[k] \notin {"idle", "done"} => k \in jobs'
      BY <1>3, StoreShape DEF StoreInv, Kept
    <3>4. QED
      BY <3>1, <3>2, <3>3 DEF StoreInv
  <2>3. QED
    BY <2>1, <2>2
<1>4. ~Crash => jobs' \subseteq Jobs
  BY <1>1 DEF TypeOK, StoreTypeOK
<1>5. QED
  BY <1>2, <1>3, <1>4 DEF StoreInv

\* What a job has said changes only when it writes.
LEMMA SaidAfter ==
    ASSUME TypeOK, [Next]_vars, NEW k \in Jobs, NEW kind
    PROVE  HasRow(k, kind)' <=> HasRow(k, kind) \/ Writes(k, kind, SessionOf[k])
<1> DEFINE s == SessionOf[k]
<1>0. s \in Sessions
  BY JobsAssumption
<1>1. DOMAIN rows[s] = 1 .. Len(rows[s]) /\ Len(rows[s]) \in Nat
  BY <1>0, RowsGrow
<1>2. HasRow(k, kind) => HasRow(k, kind)'
  BY <1>0, RowsGrow DEF HasRow
<1>3. Writes(k, kind, s) => HasRow(k, kind)'
  <2>1. SUFFICES ASSUME Writes(k, kind, s) PROVE HasRow(k, kind)'
    OBVIOUS
  <2>2. rows'[s] = Append(rows[s], [job |-> k, kind |-> kind])
    BY <2>1 DEF Writes
  <2>3. /\ Len(rows[s]) + 1 \in DOMAIN rows'[s]
        /\ rows'[s][Len(rows[s]) + 1] = [job |-> k, kind |-> kind]
    BY <1>0, <1>1, <2>2, NewRow
  <2>4. QED
    BY <2>3 DEF HasRow
<1>4. ASSUME HasRow(k, kind)', ~HasRow(k, kind) PROVE Writes(k, kind, s)
  <2>1. rows'[s] # rows[s]
    BY <1>4 DEF HasRow
  <2>2. PICK j \in Jobs, kd \in {"question", "answer", "error"} : Writes(j, kd, s)
    BY <1>0, <2>1, WhoWrites
  <2>3. rows'[s] = Append(rows[s], [job |-> j, kind |-> kd])
    BY <2>2 DEF Writes
  <2>4. PICK i \in DOMAIN rows'[s] : rows'[s][i] = [job |-> k, kind |-> kind]
    BY <1>4 DEF HasRow
  <2>5. i \notin DOMAIN rows[s]
    BY <1>0, <1>4, <2>4, RowsGrow DEF HasRow
  <2>6. [job |-> k, kind |-> kind] = [job |-> j, kind |-> kd]
    BY <1>0, <1>1, <2>3, <2>4, <2>5, NewRow
  <2>7. k = [job |-> k, kind |-> kind].job /\ kind = [job |-> k, kind |-> kind].kind
    OBVIOUS
  <2>8. k = j /\ kind = kd
    BY <2>6, <2>7
  <2>9. QED
    BY <2>2, <2>8
<1>5. QED
  BY <1>2, <1>3, <1>4

\* What a job has said at a program point.
Said(p, q, a, e) ==
    /\ p \in Early => ~q /\ ~a /\ ~e
    /\ p \in {"agent", "failing", "save"} => q /\ ~a /\ ~e
    /\ p = "accept" => a /\ ~e
    /\ p = "errorReply" => ~a /\ ~e
    /\ p = "errorFinish" => e

SaidInv ==
    \A j \in Jobs : Said(pc[j], HasRow(j, "question"), HasRow(j, "answer"), HasRow(j, "error"))

\* A job gets to the points of SaidInv by writing, or from where it has said as much.
LEMMA Moves ==
    ASSUME TypeOK, NEW j \in Jobs, JobStep(j), pc'[j] # pc[j]
    PROVE  /\ pc'[j] \in Early => pc[j] \in Early
           /\ pc'[j] \in {"agent", "failing", "save"}
                 => pc[j] \in {"agent", "failing"} \/ Writes(j, "question", SessionOf[j])
           /\ pc'[j] = "accept" => Writes(j, "answer", SessionOf[j])
           /\ pc'[j] = "errorReply" => pc[j] \in {"execute", "agent", "failing"}
           /\ pc'[j] = "errorFinish" => Writes(j, "error", SessionOf[j])
<1> USE DEF TypeOK, TaskTypeOK, Early, Goto, store, task, lock, db
<1>1. CASE Endpoints(j) \/ Publish(j) \/ LoseCancel(j)
  BY <1>1 DEF Endpoints, StartChatJob, CancelFor, CancelStranded, CancelForReturns, Publish, LoseCancel
<1>2. CASE AuditStart(j) \/ AcquireLock(j) \/ JoinQueue(j) \/ WakeWithLock(j)
  BY <1>2 DEF AuditStart, AcquireLock, JoinQueue, WakeWithLock
<1>3. CASE SaveQuestion(j) \/ SaveAnswer(j) \/ SaveErrorReply(j)
  BY <1>3, JobsAssumption DEF SaveQuestion, SaveAnswer, SaveErrorReply, Writes, Insert, DbTypeOK
<1>4. CASE RefuseModel(j) \/ Accept(j) \/ FailJob(j) \/ AgentReturns(j)
  BY <1>4 DEF RefuseModel, Accept, FailJob, AgentReturns, AgentAnswers, AgentFails
<1>5. CASE AuditException(j) \/ SaveExceptionBubble(j)
  BY <1>5 DEF AuditException, SaveExceptionBubble
<1>6. CASE CancelBeforeStart(j) \/ CancelInQueue(j) \/ CancelInAgent(j) \/ AuditCancelled(j)
  BY <1>6 DEF CancelBeforeStart, CancelInQueue, CancelInAgent, AuditCancelled
<1>7. QED
  BY <1>1, <1>2, <1>3, <1>4, <1>5, <1>6 DEF JobStep, TaskStep

\* Every step keeps what a job has written in agreement with where its task stands.
LEMMA SaidStep == TypeOK /\ SaidInv /\ [Next]_vars => SaidInv'
<1> SUFFICES ASSUME TypeOK, SaidInv, [Next]_vars, NEW k \in Jobs
             PROVE  Said(pc'[k], HasRow(k, "question")', HasRow(k, "answer")', HasRow(k, "error")')
  BY DEF SaidInv
<1> DEFINE W(kind) == Writes(k, kind, SessionOf[k])
<1>1. /\ HasRow(k, "question")' <=> HasRow(k, "question") \/ W("question")
      /\ HasRow(k, "answer")' <=> HasRow(k, "answer") \/ W("answer")
      /\ HasRow(k, "error")' <=> HasRow(k, "error") \/ W("error")
  BY SaidAfter
<1>2. Said(pc[k], HasRow(k, "question"), HasRow(k, "answer"), HasRow(k, "error"))
  BY DEF SaidInv
<1>3. /\ W("question") => pc[k] = "execute" /\ pc'[k] = "agent"
      /\ W("answer") => pc[k] = "save" /\ pc'[k] = "accept"
      /\ W("error") => \/ pc[k] = "errorReply" /\ pc'[k] = "errorFinish"
                       \/ pc[k] = "bubble" /\ pc'[k] = "done"
  BY DEF Writes
<1> HIDE DEF W
<1>4. CASE pc'[k] = pc[k]
  BY <1>1, <1>2, <1>3, <1>4 DEF Said
<1>5. CASE JobStep(k) /\ pc'[k] # pc[k]
  <2>1. /\ pc'[k] \in Early => pc[k] \in Early
        /\ pc'[k] \in {"agent", "failing", "save"} => pc[k] \in {"agent", "failing"} \/ W("question")
        /\ pc'[k] = "accept" => W("answer")
        /\ pc'[k] = "errorReply" => pc[k] \in {"execute", "agent", "failing"}
        /\ pc'[k] = "errorFinish" => W("error")
    BY <1>5, Moves DEF W
  <2>2. QED
    BY <1>1, <1>2, <1>3, <2>1 DEF Said, Early
<1>6. CASE Crash
  <2>1. pc'[k] = IF pc[k] = "idle" THEN "idle" ELSE "done"
    BY <1>6 DEF Crash
  <2>2. QED
    BY <1>1, <1>2, <1>3, <2>1 DEF Said, Early
<1>7. ASSUME NEW j \in Jobs, JobStep(j), j # k PROVE pc'[k] = pc[k]
  BY <1>7, OtherJobs
<1>8. CASE Poll \/ (\E j \in Jobs : RetentionElapses(j)) \/ UNCHANGED vars
  BY <1>4, <1>8, NoJobs DEF task
<1>9. QED
  BY <1>4, <1>5, <1>6, <1>7, <1>8 DEF Next

\* What the page can tell of a job, from what it is told.
Seen(p, stored, st, e, a, q) ==
    IF p = "idle" THEN "none"
    ELSE IF ~stored THEN "gone"
    ELSE IF st \in TerminalStatuses THEN st
    ELSE IF e THEN "apologised"
    ELSE IF a THEN "answered"
    ELSE IF q THEN "asked"
    ELSE "new"

SeenBy(j) ==
    Seen(pc[j], j \in jobs, status[j], HasRow(j, "error"), HasRow(j, "answer"), HasRow(j, "question"))

\* What the page sees of its jobs, before and after a step.
LEMMA SeenIs ==
    /\ JobSeen = [j \in PageJobs |-> SeenBy(j)]
    /\ JobSeen' = [j \in PageJobs |-> SeenBy(j)']
    /\ \A j \in PageJobs : j \in Jobs /\ SessionOf[j] = Page
BY DEF JobSeen, SeenBy, Seen, PageJobs

\* The values that the promise gives a job.
Values == {"none", "gone"} \cup Service!Active \cup Service!Over

\* The page sees a job in one of the ways of the promise.
LEMMA SeenType ==
    /\ \A j : SeenBy(j) \in Values /\ SeenBy(j)' \in Values
    /\ JobSeen \in [PageJobs -> Values] /\ JobSeen' \in [PageJobs -> Values]
<1>1. \A j : SeenBy(j) \in Values /\ SeenBy(j)' \in Values
  BY DEF SeenBy, Seen, Values, Service!Active, Service!Over, TerminalStatuses
<1>2. QED
  BY <1>1, SeenIs

\* A conversation that stays as it is has not been written to.
LEMMA Silent ==
    ASSUME TypeOK, NEW s \in Sessions, rows'[s] = rows[s], NEW k, NEW kind
    PROVE  ~Writes(k, kind, s)
<1>1. DOMAIN rows[s] = 1 .. Len(rows[s]) /\ Len(rows[s]) \in Nat
  BY DEF TypeOK, DbTypeOK
<1>2. QED
  BY <1>1, NewRow DEF Writes

\* A job that is neither posted nor ends nor writes is seen as before, or is one
\* that ended and is let go.
Quiet(k) ==
    /\ pc[k] = "idle" <=> pc'[k] = "idle"
    /\ status'[k] = status[k] \/ {status[k], status'[k]} \cap TerminalStatuses = {}
    /\ \A kind \in {"question", "answer", "error"} : ~Writes(k, kind, SessionOf[k])

\* A quiet job is seen as before, or is let go after it has ended.
LEMMA SeenElse ==
    ASSUME TypeOK, StoreInv, [Next]_vars, ~Crash, NEW k \in Jobs, Quiet(k)
    PROVE  /\ SeenBy(k)' \in {SeenBy(k)} \cup {s \in {"gone"} : SeenBy(k) \in Service!Over}
           /\ jobs' = jobs => SeenBy(k)' = SeenBy(k)
<1>1. \A kind \in {"question", "answer", "error"} : HasRow(k, kind)' <=> HasRow(k, kind)
  BY SaidAfter DEF Quiet
<1>2. (k \in jobs' <=> k \in jobs)
        => SeenBy(k)' = SeenBy(k)
  BY <1>1 DEF SeenBy, Seen, Quiet
<1>3. k \in jobs' => k \in jobs
  BY StoreShape DEF Kept, StartChatJob, Goto, TypeOK, TaskTypeOK, Quiet
<1>4. ASSUME k \in jobs, k \notin jobs'
      PROVE  SeenBy(k)' = "gone" /\ SeenBy(k) \in Service!Over
  <2>1. status[k] \in TerminalStatuses /\ pc[k] # "idle"
    BY <1>4, StoreShape DEF Kept, StoreInv
  <2>2. QED
    BY <1>4, <2>1 DEF SeenBy, Seen, Service!Over, TerminalStatuses, Quiet
<1>5. QED
  BY <1>2, <1>3, <1>4

\* The other jobs of a step.
LEMMA SeenOthers ==
    ASSUME TypeOK, StoreInv, [Next]_vars, ~Crash, NEW j \in Jobs, JobStep(j), NEW k \in Jobs, k # j
    PROVE  /\ SeenBy(k)' \in {SeenBy(k)} \cup {s \in {"gone"} : SeenBy(k) \in Service!Over}
           /\ jobs' = jobs => SeenBy(k)' = SeenBy(k)
<1>1. pc'[k] = pc[k] /\ status'[k] = status[k]
  BY OtherJobs
<1>2. Quiet(k)
  BY <1>1 DEF Quiet, Writes
<1>3. QED
  BY <1>2, SeenElse

\* A job of another conversation writes nothing here.
LEMMA RowsElsewhere ==
    ASSUME TypeOK, [Next]_vars, NEW j \in Jobs, JobStep(j), j \notin PageJobs \/ pc'[j] = pc[j]
    PROVE  rows'[Page] = rows[Page]
<1>1. SUFFICES ASSUME rows'[Page] # rows[Page] PROVE FALSE
  OBVIOUS
<1>2. PICK k \in Jobs, kind \in {"question", "answer", "error"} : Writes(k, kind, Page)
  BY <1>1, JobsAssumption, WhoWrites
<1>3. k \in PageJobs /\ pc'[k] # pc[k]
  BY <1>2 DEF Writes, PageJobs
<1>4. k = j
  BY <1>3, OtherJobs
<1>5. QED
  BY <1>3, <1>4

\* A step in which no job of the page moves is a stutter, or lets jobs go.
LEMMA ServiceForgets ==
    ASSUME rows'[Page] = rows[Page],
           \A k \in PageJobs :
              SeenBy(k)' \in {SeenBy(k)} \cup {s \in {"gone"} : SeenBy(k) \in Service!Over}
    PROVE  Service!Next
BY SeenIs, SeenType DEF Service!Next, Service!Forget, Service!Dropping, Values

\* A step of one of the page's jobs, in which the others are seen as before.
LEMMA OneSeen ==
    ASSUME NEW j \in PageJobs, NEW v, SeenBy(j)' = v,
           \A k \in PageJobs : k # j => SeenBy(k)' = SeenBy(k)
    PROVE  JobSeen' = [JobSeen EXCEPT ![j] = v] /\ JobSeen[j] = SeenBy(j)
BY SeenIs

\* A step of one of the page's jobs, in which others may be let go.
LEMMA OneSeenDropping ==
    ASSUME NEW j \in PageJobs, NEW v, SeenBy(j)' = v,
           \A k \in PageJobs :
              k # j => SeenBy(k)' \in {SeenBy(k)} \cup {s \in {"gone"} : SeenBy(k) \in Service!Over}
    PROVE  Service!Dropping([JobSeen EXCEPT ![j] = v]) /\ JobSeen[j] = SeenBy(j)
<1>1. JobSeen[j] = SeenBy(j)
  BY SeenIs
<1>2. \A k \in PageJobs : JobSeen'[k] \in {[JobSeen EXCEPT ![j] = v][k]}
                               \cup {s \in {"gone"} : JobSeen[k] \in Service!Over}
  BY SeenIs
<1>3. QED
  BY <1>1, <1>2, SeenType DEF Service!Dropping, Values

\* The steps of a job that its page is told of.
Speaks(j, kind) ==
    /\ Writes(j, kind, SessionOf[j])
    /\ pc[j] # "bubble"
    /\ jobs' = jobs /\ status'[j] = status[j]
Ends(j, outcome) ==
    /\ pc[j] # "idle" /\ pc'[j] = "done"
    /\ jobs' = jobs /\ status'[j] = outcome
Tells(j) ==
    \/ StartChatJob(j) \/ CancelStranded(j) \/ CancelForReturns(j)
    \/ \E kind \in {"question", "answer", "error"} : Speaks(j, kind)
    \/ pc[j] = "accept" /\ Ends(j, "completed") /\ rows' = rows
    \/ pc[j] = "errorFinish" /\ Ends(j, "failed") /\ rows' = rows
    \/ pc[j] = "bubble" /\ Ends(j, "failed") /\ Writes(j, "error", SessionOf[j])

\* A step of a job is quiet or one of those the promise names.
LEMMA QuietOrTold ==
    ASSUME TypeOK, StoreInv, NEW j \in Jobs, JobStep(j)
    PROVE  Quiet(j) \/ Tells(j)
<1>0. SessionOf[j] \in Sessions
  BY JobsAssumption
<1>1. ASSUME rows' = rows, pc[j] = "idle" <=> pc'[j] = "idle",
             status'[j] = status[j] \/ {status[j], status'[j]} \cap TerminalStatuses = {}
      PROVE  Quiet(j)
  BY <1>0, <1>1, Silent DEF Quiet
<1>2. CASE CancelFor(j)
  BY <1>1, <1>2 DEF CancelFor, TypeOK, StoreTypeOK, TerminalStatuses, db
<1> USE DEF TypeOK, StoreTypeOK, TaskTypeOK, Goto, SetStatus, store, task, lock, db
<1>3. CASE Publish(j) \/ LoseCancel(j) \/ AgentReturns(j)
  BY <1>1, <1>3 DEF Publish, LoseCancel, AgentReturns, AgentAnswers, AgentFails
<1>4. CASE AuditStart(j) \/ JoinQueue(j) \/ RefuseModel(j) \/ AuditException(j)
  BY <1>1, <1>4 DEF AuditStart, JoinQueue, RefuseModel, AuditException
<1>5. CASE AcquireLock(j) \/ WakeWithLock(j)
  BY <1>1, <1>5 DEF AcquireLock, WakeWithLock, StoreInv, TerminalStatuses
<1>6. CASE CancelBeforeStart(j) \/ CancelInQueue(j) \/ CancelInAgent(j) \/ AuditCancelled(j)
  BY <1>1, <1>6 DEF CancelBeforeStart, CancelInQueue, CancelInAgent, AuditCancelled
<1>7. CASE SaveQuestion(j) \/ SaveAnswer(j) \/ SaveErrorReply(j)
  <2>1. CASE rows' = rows
    BY <1>1, <1>7, <2>1 DEF SaveQuestion, SaveAnswer, SaveErrorReply
  <2>2. CASE rows' # rows
    <3>1. \E kind \in {"question", "answer", "error"} : Insert(j, kind)
            /\ \/ kind = "question" /\ pc[j] = "execute" /\ pc'[j] = "agent"
               \/ kind = "answer" /\ pc[j] = "save" /\ pc'[j] = "accept"
               \/ kind = "error" /\ pc[j] = "errorReply" /\ pc'[j] = "errorFinish"
      BY <1>7, <2>2 DEF SaveQuestion, SaveAnswer, SaveErrorReply
    <3>2. loop = j /\ audit' = audit /\ jobs' = jobs /\ status' = status
      BY <1>7 DEF SaveQuestion, SaveAnswer, SaveErrorReply
    <3>3. \E kind \in {"question", "answer", "error"} : Speaks(j, kind)
      BY <1>0, <3>1, <3>2 DEF Speaks, Writes, Insert, DbTypeOK
    <3>4. QED
      BY <3>3 DEF Tells
  <2>3. QED
    BY <2>1, <2>2
<1>8. CASE Accept(j)
  BY <1>1, <1>8 DEF Accept, Tells, Ends
<1>9. CASE FailJob(j)
  BY <1>1, <1>9 DEF FailJob, Tells, Ends
<1>10. CASE SaveExceptionBubble(j)
  BY <1>0, <1>1, <1>10 DEF SaveExceptionBubble, Tells, Ends, Writes, Insert, DbTypeOK
<1>11. CASE StartChatJob(j) \/ CancelStranded(j) \/ CancelForReturns(j)
  BY <1>11 DEF Tells
<1>12. QED
  BY <1>2, <1>3, <1>4, <1>5, <1>6, <1>7, <1>8, <1>9, <1>10, <1>11 DEF JobStep, Endpoints, TaskStep

\* What a job tells the page is a step that the promise allows.
LEMMA TellsService ==
    ASSUME TypeOK, StoreInv, SaidInv, [Next]_vars, ~Crash, NEW j \in PageJobs, JobStep(j), Tells(j)
    PROVE  Service!Next \/ UNCHANGED <<JobSeen, rows[Page]>>
<1> DEFINE Goal == Service!Next \/ UNCHANGED <<JobSeen, rows[Page]>>
<1>1. j \in Jobs /\ SessionOf[j] = Page /\ Page \in Sessions
  BY SeenIs, JobsAssumption
<1>2. \A k \in PageJobs :
         k # j => /\ SeenBy(k)' \in {SeenBy(k)} \cup {s \in {"gone"} : SeenBy(k) \in Service!Over}
                  /\ jobs' = jobs => SeenBy(k)' = SeenBy(k)
  BY <1>1, SeenIs, SeenOthers
<1>3. Said(pc[j], HasRow(j, "question"), HasRow(j, "answer"), HasRow(j, "error"))
  BY <1>1 DEF SaidInv
<1>4. pc[j] \notin {"idle", "done"} => j \in jobs /\ status[j] \notin TerminalStatuses
  BY <1>1 DEF StoreInv
<1>5. ASSUME NEW v, SeenBy(j)' = v, jobs' = jobs
      PROVE  JobSeen' = [JobSeen EXCEPT ![j] = v] /\ JobSeen[j] = SeenBy(j)
  BY <1>2, <1>5, OneSeen
<1>6. ASSUME NEW v, SeenBy(j)' = v
      PROVE  Service!Dropping([JobSeen EXCEPT ![j] = v]) /\ JobSeen[j] = SeenBy(j)
  BY <1>2, <1>6, OneSeenDropping
<1>7. CASE StartChatJob(j)
  <2>1. /\ pc[j] = "idle" /\ pc'[j] = "new" /\ j \in jobs' /\ status'[j] = "pending" /\ rows' = rows
    BY <1>1, <1>7 DEF StartChatJob, Goto, TypeOK, StoreTypeOK, TaskTypeOK, db
  <2>2. ~HasRow(j, "question")' /\ ~HasRow(j, "answer")' /\ ~HasRow(j, "error")'
    BY <1>1, <1>3, <2>1, SaidAfter, Silent DEF Said, Early
  <2>3. SeenBy(j) = "none" /\ SeenBy(j)' = "new"
    BY <2>1, <2>2 DEF SeenBy, Seen, TerminalStatuses
  <2>4. Service!Post(j)
    BY <1>6, <2>1, <2>3 DEF Service!Post
  <2>5. QED
    BY <2>4 DEF Service!Next
<1>8. CASE CancelStranded(j)
  <2>1. /\ pc[j] = "done" /\ pc'[j] = "done" /\ j \in jobs /\ j \in jobs'
        /\ status[j] \notin TerminalStatuses /\ status'[j] = "cancelled" /\ rows' = rows
    BY <1>1, <1>8 DEF CancelStranded, Kept, TypeOK, StoreTypeOK, task, db
  <2>2. SeenBy(j) \in Service!Active /\ SeenBy(j)' = "cancelled"
    BY <2>1 DEF SeenBy, Seen, TerminalStatuses, Service!Active
  <2>3. Service!Cancel(j)
    BY <1>6, <2>1, <2>2 DEF Service!Cancel
  <2>4. QED
    BY <2>3 DEF Service!Next
<1>9. CASE CancelForReturns(j)
  <2>1. /\ pc[j] = "done" /\ pc'[j] = "done" /\ jobs' = jobs
        /\ status'[j] = "cancelled" /\ rows' = rows
    BY <1>1, <1>9 DEF CancelForReturns, SetStatus, TypeOK, StoreTypeOK, db
  <2>2. CASE j \notin jobs
    <3>1. SeenBy(j) = "gone" /\ SeenBy(j)' = "gone"
      BY <2>1, <2>2 DEF SeenBy, Seen
    <3>2. QED
      BY <1>2, <2>1, <3>1, ServiceForgets
  <2>3. CASE j \in jobs
    <3>1. SeenBy(j) \in Service!Active \cup TerminalStatuses /\ SeenBy(j)' = "cancelled"
      BY <2>1, <2>3 DEF SeenBy, Seen, TerminalStatuses, Service!Active
    <3>2. CASE SeenBy(j) = "cancelled"
      BY <1>2, <2>1, <3>1, <3>2, ServiceForgets
    <3>3. CASE SeenBy(j) # "cancelled"
      <4>1. Service!Cancel(j)
        BY <1>6, <2>1, <3>1, <3>3 DEF Service!Cancel, TerminalStatuses
      <4>2. QED
        BY <4>1 DEF Service!Next
    <3>4. QED
      BY <3>2, <3>3
  <2>4. QED
    BY <2>2, <2>3
<1>10. ASSUME NEW kind \in {"question", "answer", "error"}, Speaks(j, kind) PROVE Goal
  <2>1. /\ rows'[Page] = Append(rows[Page], [job |-> j, kind |-> kind])
        /\ jobs' = jobs /\ status'[j] = status[j] /\ pc[j] # "bubble"
        /\ \/ kind = "question" /\ pc[j] = "execute" /\ pc'[j] = "agent"
           \/ kind = "answer" /\ pc[j] = "save" /\ pc'[j] = "accept"
           \/ kind = "error" /\ pc[j] = "errorReply" /\ pc'[j] = "errorFinish"
    BY <1>1, <1>10 DEF Speaks, Writes
  <2>2. \A kd \in {"question", "answer", "error"} :
           HasRow(j, kd)' <=> HasRow(j, kd) \/ Writes(j, kd, Page)
    BY <1>1, SaidAfter
  <2>3. Writes(j, kind, Page)
    BY <1>1, <1>10 DEF Speaks
  <2>4. \A kd \in {"question", "answer", "error"} : Writes(j, kd, Page) => kd = kind
    BY <2>1 DEF Writes
  <2>5. j \in jobs /\ status[j] \notin TerminalStatuses /\ pc[j] # "idle" /\ pc'[j] # "idle"
    BY <1>4, <2>1
  <2>6. Service!Write(j, kind)
    BY <2>1 DEF Service!Write
  <2>7. CASE kind = "question"
    <3>1. SeenBy(j) = "new" /\ SeenBy(j)' = "asked"
      BY <1>3, <2>1, <2>2, <2>3, <2>4, <2>5, <2>7 DEF SeenBy, Seen, Said, Early
    <3>2. Service!Ask(j)
      BY <1>5, <2>1, <2>6, <2>7, <3>1 DEF Service!Ask
    <3>3. QED
      BY <3>2 DEF Service!Next, Service!Work
  <2>8. CASE kind = "answer"
    <3>1. SeenBy(j) = "asked" /\ SeenBy(j)' = "answered"
      BY <1>3, <2>1, <2>2, <2>3, <2>4, <2>5, <2>8 DEF SeenBy, Seen, Said
    <3>2. Service!Answer(j)
      BY <1>5, <2>1, <2>6, <2>8, <3>1 DEF Service!Answer
    <3>3. QED
      BY <3>2 DEF Service!Next, Service!Work
  <2>9. CASE kind = "error"
    <3>1. SeenBy(j) \in {"new", "asked"} /\ SeenBy(j)' = "apologised"
      BY <1>3, <2>1, <2>2, <2>3, <2>5, <2>9 DEF SeenBy, Seen, Said
    <3>2. Service!Apologise(j)
      BY <1>5, <2>1, <2>6, <2>9, <3>1 DEF Service!Apologise
    <3>3. QED
      BY <3>2 DEF Service!Next, Service!Work
  <2>10. QED
    BY <2>7, <2>8, <2>9
<1>11. CASE pc[j] = "accept" /\ Ends(j, "completed") /\ rows' = rows
  <2>1. SeenBy(j) = "answered" /\ SeenBy(j)' = "completed"
    BY <1>3, <1>4, <1>11 DEF SeenBy, Seen, Said, Ends, TerminalStatuses
  <2>2. Service!Complete(j)
    BY <1>5, <1>11, <2>1 DEF Service!Complete, Ends
  <2>3. QED
    BY <2>2 DEF Service!Next, Service!Work
<1>12. CASE pc[j] = "errorFinish" /\ Ends(j, "failed") /\ rows' = rows
  <2>1. SeenBy(j) = "apologised" /\ SeenBy(j)' = "failed"
    BY <1>3, <1>4, <1>12 DEF SeenBy, Seen, Said, Ends, TerminalStatuses
  <2>2. Service!Fail(j)
    BY <1>5, <1>12, <2>1 DEF Service!Fail, Service!Active, Ends
  <2>3. QED
    BY <2>2 DEF Service!Next, Service!Work
<1>13. CASE pc[j] = "bubble" /\ Ends(j, "failed") /\ Writes(j, "error", SessionOf[j])
  <2>1. SeenBy(j) \in Service!Active /\ SeenBy(j)' = "failed"
    BY <1>4, <1>13 DEF SeenBy, Seen, Service!Active, Ends, TerminalStatuses
  <2>2. Service!Write(j, "error")
    BY <1>1, <1>13 DEF Service!Write, Writes
  <2>3. Service!Fail(j)
    BY <1>5, <1>13, <2>1, <2>2 DEF Service!Fail, Ends
  <2>4. QED
    BY <2>3 DEF Service!Next, Service!Work
<1>14. QED
  BY <1>7, <1>8, <1>9, <1>10, <1>11, <1>12, <1>13 DEF Tells

\* A restart of the server is one of the service.
LEMMA CrashService ==
    ASSUME Crash PROVE Service!Next
<1>1. rows' = rows /\ jobs' = {} /\ \A j \in Jobs : pc'[j] = IF pc[j] = "idle" THEN "idle" ELSE "done"
  BY DEF Crash, db
<1>2. \A j \in PageJobs : SeenBy(j)' = IF pc[j] = "idle" THEN "none" ELSE "gone"
  BY <1>1, SeenIs DEF SeenBy, Seen
<1>3. \A j \in PageJobs : SeenBy(j) = "none" <=> pc[j] = "idle"
  BY DEF SeenBy, Seen, TerminalStatuses
<1>4. Service!Restart
  BY <1>1, <1>2, <1>3, SeenIs DEF Service!Restart
<1>5. QED
  BY <1>4 DEF Service!Next

\* Every step is a step of the service or none.
LEMMA ServiceStep ==
    TypeOK /\ StoreInv /\ SaidInv /\ [Next]_vars => [Service!Next]_<<JobSeen, rows[Page]>>
<1> SUFFICES ASSUME TypeOK, StoreInv, SaidInv, [Next]_vars
             PROVE  Service!Next \/ UNCHANGED <<JobSeen, rows[Page]>>
  OBVIOUS
<1>1. CASE Crash
  BY <1>1, CrashService
<1>2. ASSUME ~Crash, NEW j \in Jobs, JobStep(j)
      PROVE  Service!Next \/ UNCHANGED <<JobSeen, rows[Page]>>
  <2>1. \A k \in PageJobs : k # j =>
           SeenBy(k)' \in {SeenBy(k)} \cup {s \in {"gone"} : SeenBy(k) \in Service!Over}
    BY <1>2, SeenIs, SeenOthers
  <2>2. CASE j \notin PageJobs
    BY <1>2, <2>1, <2>2, RowsElsewhere, ServiceForgets
  <2>3. CASE j \in PageJobs /\ Tells(j)
    BY <1>2, <2>3, TellsService
  <2>4. CASE j \in PageJobs /\ Quiet(j)
    <3>1. SeenBy(j)' \in {SeenBy(j)} \cup {s \in {"gone"} : SeenBy(j) \in Service!Over}
      BY <1>2, <2>4, SeenElse
    <3>2. rows'[Page] = rows[Page]
      <4>1. SUFFICES ASSUME rows'[Page] # rows[Page] PROVE FALSE
        OBVIOUS
      <4>2. PICK k \in Jobs, kind \in {"question", "answer", "error"} : Writes(k, kind, Page)
        BY <4>1, JobsAssumption, WhoWrites
      <4>3. k = j
        BY <1>2, <4>2, OtherJobs DEF Writes
      <4>4. QED
        BY <2>4, <4>2, <4>3 DEF Quiet, Writes
    <3>3. QED
      BY <2>1, <3>1, <3>2, ServiceForgets
  <2>5. QED
    BY <1>2, <2>2, <2>3, <2>4, QuietOrTold
<1>3. CASE ~Crash /\ (Poll \/ (\E j \in Jobs : RetentionElapses(j)) \/ UNCHANGED vars)
  <2>1. UNCHANGED <<status, pc, rows>>
    BY <1>3, NoJobs DEF task, db
  <2>2. \A k \in PageJobs : Quiet(k)
    BY <2>1 DEF Quiet, Writes
  <2>3. \A k \in PageJobs :
           SeenBy(k)' \in {SeenBy(k)} \cup {s \in {"gone"} : SeenBy(k) \in Service!Over}
    BY <1>3, <2>2, SeenIs, SeenElse
  <2>4. QED
    BY <2>1, <2>3, ServiceForgets
<1>4. QED
  BY <1>1, <1>2, <1>3 DEF Next

\* The job store, the tasks and the databases implement the job service that the
\* page of any one conversation relies on: whatever fails, is cancelled, expires
\* or restarts, the page is told and shown nothing that JobService does not allow.
THEOREM ServiceKept == Spec => ImplementsJobService
<1>1. Init => TypeOK /\ StoreInv /\ SaidInv
  <2>1. Init => TypeOK
    BY JobsAssumption DEF Init, TypeOK, StoreTypeOK, TaskTypeOK, LockTypeOK, DbTypeOK, Status, PC
  <2>2. Init => StoreInv
    BY DEF Init, StoreInv, TerminalStatuses
  <2>3. Init => SaidInv
    BY JobsAssumption DEF Init, SaidInv, Said, HasRow
  <2>4. QED
    BY <2>1, <2>2, <2>3
<1>2. Init => Service!Init
  BY JobsAssumption DEF Init, Service!Init, JobSeen, PageJobs
<1>3. QED
  BY <1>1, <1>2, TypeStep, StoreStep, SaidStep, ServiceStep, PTL
     DEF Spec, ImplementsJobService, Service!Spec

=============================================================================
