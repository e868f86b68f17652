------------------------- MODULE MemoryTurns_proofs -------------------------
(***************************************************************************)
(* Theorems about MemoryTurns, for any number of turns and accounts.       *)
(***************************************************************************)
EXTENDS MemoryTurns, SequenceTheorems, TLAPS

\* Types are inductive.
LEMMA TypeStep == TypeOK /\ [Next]_vars => TypeOK'
<1> SUFFICES ASSUME TypeOK, [Next]_vars PROVE TypeOK'
  OBVIOUS
<1> USE TurnsAssumption DEF turn, memory, history, Finished
<1>1. ASSUME NEW t \in Turns, Leave(t)
      PROVE  /\ pc' \in [Turns -> {"idle", "queued", "waiting", "agent", "over"}]
             /\ jobs' \subseteq Turns
             /\ holder' \in [Users -> Turns \cup {None}]
  BY <1>1 DEF Leave, TypeOK
<1>2. ASSUME NEW t \in Turns, Arrive(t) PROVE TypeOK'
  BY <1>2 DEF Arrive, TypeOK
<1>3. ASSUME NEW t \in Turns, Enter(t) PROVE TypeOK'
  <2>1. UserOf[t] \in Users /\ slot[UserOf[t]] \in Turns \cup {None}
        /\ answered[UserOf[t]] \in Seq(Turns)
    BY DEF TypeOK
  <2>2. pc' \in [Turns -> {"idle", "queued", "waiting", "agent", "over"}]
        /\ holder' \in [Users -> Turns \cup {None}]
        /\ awaited' \in [Turns -> Turns \cup {None}]
        /\ seen' \in [Turns -> Seq(Turns)]
    BY <1>3, <2>1 DEF Enter, TypeOK
  <2>3. QED
    BY <1>3, <2>2 DEF Enter, TypeOK
<1>4. ASSUME NEW t \in Turns, EnterClosed(t) \/ MemoryReady(t) \/ Cancel(t) \/ AgentFails(t)
      PROVE  TypeOK'
  <2>1. UNCHANGED <<awaited, memory, closed, history>>
    BY <1>4 DEF EnterClosed, MemoryReady, Cancel, AgentFails
  <2>2. Leave(t) \/ (pc' = [pc EXCEPT ![t] = "agent"] /\ UNCHANGED <<jobs, holder>>)
    BY <1>4 DEF EnterClosed, MemoryReady, Cancel, AgentFails
  <2>3. /\ pc' \in [Turns -> {"idle", "queued", "waiting", "agent", "over"}]
        /\ jobs' \subseteq Turns
        /\ holder' \in [Users -> Turns \cup {None}]
    <3>1. CASE Leave(t)
      BY <1>1, <3>1 DEF TypeOK
    <3>2. CASE pc' = [pc EXCEPT ![t] = "agent"] /\ UNCHANGED <<jobs, holder>>
      BY <3>2 DEF TypeOK
    <3>3. QED
      BY <2>2, <3>1, <3>2
  <2>4. QED
    BY <2>1, <2>3 DEF TypeOK, memory, history
<1>5. ASSUME NEW t \in Turns, AgentAnswers(t) PROVE TypeOK'
  <2>1. UserOf[t] \in Users /\ answered[UserOf[t]] \in Seq(Turns)
    BY DEF TypeOK
  <2>2. answered' \in [Users -> Seq(Turns)]
    BY <1>5, <2>1 DEF AgentAnswers, TypeOK
  <2>3. mem' \in [Turns -> {"none", "extracting"} \cup Finished]
        /\ slot' \in [Users -> Turns \cup {None}] /\ background' \subseteq Turns
    BY <1>5 DEF AgentAnswers, TypeOK
  <2>4. QED
    BY <1>1, <1>5, <2>2, <2>3 DEF AgentAnswers, TypeOK
<1>6. ASSUME NEW t \in Turns, Admit(t) PROVE TypeOK'
  <2>1. UserOf[t] \in Users /\ facts[UserOf[t]] \in Seq(Turns)
    BY DEF TypeOK
  <2>2. facts' \in [Users -> Seq(Turns)]
    <3>1. CASE facts' = facts
      BY <3>1 DEF TypeOK
    <3>2. CASE facts' = [facts EXCEPT ![UserOf[t]] = Append(@, t)]
      BY <2>1, <3>2 DEF TypeOK
    <3>3. QED
      BY <1>6, <3>1, <3>2 DEF Admit
  <2>3. mem' \in [Turns -> {"none", "extracting"} \cup Finished]
    BY <1>6 DEF Admit, TypeOK
  <2>4. QED
    BY <1>6, <2>2, <2>3 DEF Admit, TypeOK
<1>7. ASSUME NEW t \in Turns, Forget(t) PROVE TypeOK'
  BY <1>7 DEF Forget, TypeOK
<1>8. CASE Close
  BY <1>8 DEF Close, TypeOK
<1>9. CASE UNCHANGED vars
  BY <1>9 DEF vars, TypeOK
<1>10. QED
  BY <1>2, <1>3, <1>4, <1>5, <1>6, <1>7, <1>8, <1>9 DEF Next, TurnStep, MemoryStep

\* Types hold at the start.
LEMMA TypeInit == Init => TypeOK
<1> SUFFICES ASSUME Init PROVE TypeOK
  OBVIOUS
<1>1. facts \in [Users -> Seq(Turns)] /\ answered \in [Users -> Seq(Turns)] /\ seen \in [Turns -> Seq(Turns)]
  BY DEF Init
<1>2. QED
  BY <1>1 DEF Init, TypeOK

\* Every variable keeps its type.
THEOREM TypeCorrect == Spec => []TypeOK
BY TypeInit, TypeStep, PTL DEF Spec

-----------------------------------------------------------------------------
\* Cancelling a turn, whatever it is waiting for, loses no memory task: until
\* the runtime is closed, none has been lost.
THEOREM CancelKeepsMemory == Spec => []OnlyCloseLosesMemory
<1>1. Init => OnlyCloseLosesMemory
  BY DEF Init, OnlyCloseLosesMemory
<1>2. TypeOK /\ OnlyCloseLosesMemory /\ [Next]_vars => OnlyCloseLosesMemory'
  <2> SUFFICES ASSUME TypeOK, OnlyCloseLosesMemory, [Next]_vars, ~closed'
               PROVE  \A t \in Turns : mem'[t] # "lost"
    BY DEF OnlyCloseLosesMemory
  <2>1. ~closed
    BY DEF Next, TurnStep, MemoryStep, Arrive, Enter, EnterClosed, MemoryReady, Cancel, AgentFails,
       AgentAnswers, Admit, Forget, Close, vars
  <2>2. CASE \E t \in Turns : AgentAnswers(t)
    BY <2>1, <2>2 DEF AgentAnswers, OnlyCloseLosesMemory, TypeOK
  <2>3. CASE \E t \in Turns : Admit(t)
    BY <2>1, <2>3 DEF Admit, OnlyCloseLosesMemory, TypeOK
  <2>4. CASE mem' = mem
    BY <2>1, <2>4 DEF OnlyCloseLosesMemory
  <2>5. ~Close
    BY DEF Close
  <2>6. QED
    BY <2>2, <2>3, <2>4, <2>5 DEF Next, TurnStep, MemoryStep, Arrive, Enter, EnterClosed,
       MemoryReady, Cancel, AgentFails, Forget, vars, memory
<1>3. QED
  BY <1>1, <1>2, TypeCorrect, PTL DEF Spec

-----------------------------------------------------------------------------
(* Memory tasks and the account's slot *)

Starting == {"waiting", "agent"}

\* Only a turn that has answered has a memory task, and a task that has not
\* ended is still held in _background_tasks.
MemoryInv ==
    /\ \A t \in Turns : pc[t] # "over" => mem[t] = "none"
    /\ \A t \in Turns : Pending(t) => t \in background

\* The slot names the turn answered last, whose memory task has been started, or
\* nothing when that one is settled.
SlotInv ==
    \A u \in Users :
        IF slot[u] = None THEN answered[u] # <<>> => Settled(Last(answered[u]))
        ELSE answered[u] # <<>> /\ slot[u] = Last(answered[u]) /\ mem[slot[u]] # "none"

\* A waiting turn waits for the turn answered last before it started.
WaitInv ==
    \A t \in Turns : pc[t] = "waiting" => seen[t] # <<>> /\ awaited[t] = Last(seen[t])

SettledInv == MemoryInv /\ SlotInv /\ WaitInv /\ LatestMemorySettled

\* A memory task that was started stays started, one that has ended stays so.
LEMMA SettledStays ==
    ASSUME TypeOK, MemoryInv, [Next]_vars, NEW k \in Turns
    PROVE  (Settled(k) => Settled(k)') /\ (mem[k] # "none" => mem'[k] # "none")
<1> USE DEF Settled, Finished
<1>1. ASSUME NEW t \in Turns, AgentAnswers(t)
      PROVE  (Settled(k) => Settled(k)') /\ (mem[k] # "none" => mem'[k] # "none")
  BY <1>1 DEF AgentAnswers, MemoryInv, TypeOK
<1>2. ASSUME NEW t \in Turns, Admit(t)
      PROVE  (Settled(k) => Settled(k)') /\ (mem[k] # "none" => mem'[k] # "none")
  BY <1>2 DEF Admit, Pending, TypeOK
<1>3. CASE Close
  BY <1>3 DEF Close, Pending, TypeOK
<1>4. CASE mem' = mem
  BY <1>4
<1>5. QED
  BY <1>1, <1>2, <1>3, <1>4 DEF Next, TurnStep, MemoryStep, Arrive, Enter, EnterClosed,
     MemoryReady, Cancel, AgentFails, Forget, vars, memory

\* The last turn of a sequence that has been appended to.
LEMMA LastOfAppend ==
    ASSUME NEW S, NEW s \in Seq(S), NEW e \in S
    PROVE  Append(s, e) # <<>> /\ Last(Append(s, e)) = e
BY AppendProperties DEF Last

\* The last turn of a sequence of turns is a turn.
LEMMA LastIsTurn ==
    ASSUME TypeOK
    PROVE  /\ \A u \in Users : answered[u] # <<>> => Last(answered[u]) \in Turns
           /\ \A t \in Turns : seen[t] # <<>> => Last(seen[t]) \in Turns
<1>1. \A s \in Seq(Turns) : s # <<>> => Last(s) \in Turns
  BY DEF Last
<1>2. QED
  BY <1>1 DEF TypeOK

\* Every step keeps the slot with the turn answered last.
LEMMA SettledStep ==
    ASSUME TypeOK, TypeOK', SettledInv, [Next]_vars
    PROVE  SettledInv'
<1> USE TurnsAssumption DEF SettledInv, turn, memory, history
<1>1. \A k \in Turns : (Settled(k) => Settled(k)') /\ (mem[k] # "none" => mem'[k] # "none")
  BY SettledStays
\* A turn that neither enters nor answers leaves three of the four parts alone.
<1>2. ASSUME NEW t \in Turns, UNCHANGED <<awaited, memory, closed, history>>,
             \A s \in Turns \ {t} : pc'[s] = pc[s],
             pc'[t] = "over" \/ (pc'[t] \in {"queued", "agent"} /\ pc[t] # "over"),
             pc'[t] = "agent" => (seen[t] # <<>> => Settled(Last(seen[t])))
      PROVE  SettledInv'
  <2>1. MemoryInv'
    BY <1>2 DEF MemoryInv, Pending
  <2>2. SlotInv'
    BY <1>2 DEF SlotInv, Settled
  <2>3. WaitInv'
    BY <1>2 DEF WaitInv
  <2>4. LatestMemorySettled'
    BY <1>2 DEF LatestMemorySettled, Settled
  <2>5. QED
    BY <2>1, <2>2, <2>3, <2>4
<1>3. ASSUME NEW t \in Turns, Arrive(t) PROVE SettledInv'
  BY <1>2, <1>3 DEF Arrive, TypeOK
<1>4. ASSUME NEW t \in Turns, EnterClosed(t) \/ Cancel(t) \/ AgentFails(t) PROVE SettledInv'
  BY <1>2, <1>4 DEF EnterClosed, Cancel, AgentFails, Leave, TypeOK
<1>5. ASSUME NEW t \in Turns, MemoryReady(t) PROVE SettledInv'
  <2>1. CASE Leave(t)
    BY <1>2, <1>5, <2>1 DEF MemoryReady, Leave, TypeOK
  <2>2. CASE pc' = [pc EXCEPT ![t] = "agent"]
    <3>1. Settled(Last(seen[t]))
      BY <1>5 DEF MemoryReady, WaitInv, Settled
    <3>2. QED
      BY <1>2, <1>5, <2>2, <3>1 DEF MemoryReady, TypeOK
  <2>3. QED
    BY <1>5, <2>1, <2>2 DEF MemoryReady
<1>6. ASSUME NEW t \in Turns, Enter(t) PROVE SettledInv'
  <2> DEFINE u == UserOf[t]
  <2>1. UNCHANGED <<memory, answered>> /\ pc[t] = "queued"
        /\ seen' = [seen EXCEPT ![t] = answered[u]]
        /\ awaited' = [awaited EXCEPT ![t] = slot[u]]
        /\ pc' = [pc EXCEPT ![t] = IF slot[u] = None THEN "agent" ELSE "waiting"]
    BY <1>6 DEF Enter
  <2>2. u \in Users
    OBVIOUS
  <2>3. MemoryInv'
    BY <2>1 DEF MemoryInv, Pending, TypeOK
  <2>4. SlotInv'
    BY <2>1 DEF SlotInv, Settled
  <2>5. \A s \in Turns \ {t} : pc'[s] = pc[s] /\ seen'[s] = seen[s] /\ awaited'[s] = awaited[s]
    BY <2>1 DEF TypeOK
  <2>6. seen'[t] = answered[u] /\ awaited'[t] = slot[u]
        /\ pc'[t] = (IF slot[u] = None THEN "agent" ELSE "waiting")
    BY <2>1 DEF TypeOK
  <2>7. WaitInv'
    BY <2>2, <2>5, <2>6 DEF WaitInv, SlotInv
  <2>8. LatestMemorySettled'
    BY <2>1, <2>2, <2>5, <2>6 DEF LatestMemorySettled, SlotInv, Settled
  <2>9. QED
    BY <2>3, <2>4, <2>7, <2>8
<1>7. ASSUME NEW t \in Turns, AgentAnswers(t) PROVE SettledInv'
  <2> DEFINE u == UserOf[t]
  <2>1. /\ pc[t] = "agent" /\ pc' = [pc EXCEPT ![t] = "over"]
        /\ mem' = [mem EXCEPT ![t] = "extracting"]
        /\ slot' = [slot EXCEPT ![u] = t]
        /\ background' = background \cup {t}
        /\ answered' = [answered EXCEPT ![u] = Append(answered[u], t)]
        /\ UNCHANGED <<awaited, seen>>
    BY <1>7 DEF AgentAnswers, Leave
  <2>2. u \in Users /\ answered[u] \in Seq(Turns)
    BY DEF TypeOK
  <2>3. MemoryInv'
    BY <2>1 DEF MemoryInv, Pending, TypeOK
  <2>4. SlotInv'
    <3>1. answered'[u] # <<>> /\ Last(answered'[u]) = t /\ slot'[u] = t /\ t # None
      <4>1. answered'[u] = Append(answered[u], t) /\ slot'[u] = t
        BY <2>1, <2>2 DEF TypeOK
      <4>2. QED
        BY <2>2, <4>1, LastOfAppend, TurnsAssumption
    <3>2. \A v \in Users \ {u} : answered'[v] = answered[v] /\ slot'[v] = slot[v]
      BY <2>1 DEF TypeOK
    <3>3. mem'[t] # "none" /\ \A v \in Users \ {u} : slot[v] # None => slot[v] \in Turns
      BY <2>1 DEF TypeOK
    <3>4. QED
      BY <1>1, <3>1, <3>2, <3>3, LastIsTurn DEF SlotInv
  <2>5. WaitInv'
    BY <2>1 DEF WaitInv, TypeOK
  <2>6. LatestMemorySettled'
    BY <1>1, <2>1, LastIsTurn DEF LatestMemorySettled, TypeOK
  <2>7. QED
    BY <2>3, <2>4, <2>5, <2>6
\* The memory tasks alone move on.
<1>8. ASSUME UNCHANGED <<pc, awaited, seen, answered>>, MemoryInv', SlotInv'
      PROVE  SettledInv'
  BY <1>1, <1>8, LastIsTurn DEF WaitInv, LatestMemorySettled
<1>9. ASSUME NEW t \in Turns, Admit(t) PROVE SettledInv'
  <2>1. MemoryInv'
    <3>1. mem[t] = "extracting" /\ pc' = pc /\ background' = background
      BY <1>9 DEF Admit, Pending
    <3>2. mem'[t] \in {"stored", "partly", "skipped"} /\ \A s \in Turns \ {t} : mem'[s] = mem[s]
      BY <1>9 DEF Admit, TypeOK
    <3>3. MemoryInv /\ pc[t] = "over"
      BY <3>1 DEF MemoryInv
    <3>4. \A s \in Turns : pc'[s] # "over" => mem'[s] = "none"
      BY <3>1, <3>2, <3>3 DEF MemoryInv
    <3>5. \A s \in Turns : mem'[s] = "extracting" => s \in background'
      BY <3>1, <3>2, <3>3 DEF MemoryInv, Pending
    <3>6. QED
      BY <3>4, <3>5 DEF MemoryInv, Pending
  <2>2. SlotInv'
    BY <1>1, <1>9, LastIsTurn DEF Admit, SlotInv
  <2>3. QED
    BY <1>8, <1>9, <2>1, <2>2 DEF Admit
<1>10. ASSUME NEW t \in Turns, Forget(t) PROVE SettledInv'
  <2>1. MemoryInv'
    BY <1>10 DEF Forget, MemoryInv, Pending, Finished
  <2>2. Settled(t)
    BY <1>10 DEF Forget, Settled
  <2>3. SlotInv'
    BY <1>1, <1>10, <2>2, LastIsTurn DEF Forget, SlotInv, TypeOK
  <2>4. QED
    BY <1>8, <1>10, <2>1, <2>3 DEF Forget
<1>11. CASE Close
  <2>1. \A t \in Turns : ~Pending(t)'
    BY <1>11 DEF Close, MemoryInv, Pending
  <2>2. MemoryInv'
    BY <1>11, <2>1 DEF Close, MemoryInv, Pending, TypeOK
  <2>3. \A u \in Users : answered[u] # <<>> => Settled(Last(answered[u]))'
    <3> SUFFICES ASSUME NEW u \in Users, answered[u] # <<>>
                 PROVE  Settled(Last(answered[u]))'
      OBVIOUS
    <3>1. CASE slot[u] = None
      BY <1>1, <1>11, <3>1, LastIsTurn DEF SlotInv, Close
    <3>2. CASE slot[u] # None
      <4>1. Last(answered[u]) \in Turns
        BY LastIsTurn
      <4>2. mem[Last(answered[u])] # "none"
        BY <3>2 DEF SlotInv
      <4>3. mem'[Last(answered[u])] \notin {"none", "extracting"}
        BY <1>1, <2>1, <4>1, <4>2 DEF Pending
      <4>4. mem'[Last(answered[u])] \in {"none", "extracting"} \cup Finished
        BY <4>1 DEF TypeOK
      <4>5. Last(answered[u])' = Last(answered[u])
        BY <1>11 DEF Close
      <4>6. QED
        BY <4>3, <4>4, <4>5 DEF Settled
    <3>3. QED
      BY <3>1, <3>2
  <2>4. SlotInv'
    BY <1>11, <2>3 DEF Close, SlotInv
  <2>5. QED
    BY <1>8, <1>11, <2>2, <2>4 DEF Close
<1>12. CASE UNCHANGED vars
  BY <1>8, <1>12 DEF vars, MemoryInv, Pending, SlotInv, Settled
<1>13. QED
  BY <1>3, <1>4, <1>5, <1>6, <1>7, <1>9, <1>10, <1>11, <1>12 DEF Next, TurnStep, MemoryStep

\* Without turns there is nothing to settle.
LEMMA SettledInit == Init => SettledInv
BY DEF Init, SettledInv, MemoryInv, SlotInv, WaitInv, LatestMemorySettled, Pending

\* However the turns arrive and whatever is cancelled, the memory of the turn
\* that was answered last before a turn started is settled before its agent works
\* (_await_pending_memory_update, _forget_memory_task).
THEOREM LatestIsSettled == Spec => []LatestMemorySettled
<1>1. Init => TypeOK /\ SettledInv
  BY TypeInit, SettledInit
<1>2. TypeOK /\ SettledInv /\ [Next]_vars => TypeOK' /\ SettledInv'
  BY TypeStep, SettledStep
<1>3. SettledInv => LatestMemorySettled
  BY DEF SettledInv
<1>4. QED
  BY <1>1, <1>2, <1>3, PTL DEF Spec

-----------------------------------------------------------------------------
(* The order of an account's turns, as long as they come through the jobs *)

\* The account's lock is held by the job that has started.
LockInv == \A t \in jobs : pc[t] \in Starting => holder[UserOf[t]] = t

\* No turn of the account is answered while another one is at work.
SeenInv ==
    \A t \in Turns : OnlyJobs(UserOf[t]) /\ pc[t] \in Starting => seen[t] = answered[UserOf[t]]

\* Only the turn answered last may still have its memory task at work.
EarlierSettled ==
    \A u \in Users : OnlyJobs(u) =>
        \A i \in DOMAIN answered[u] : i < Len(answered[u]) => Settled(answered[u][i])

Answered(t, u) == \E p \in DOMAIN answered[u] : answered[u][p] = t

\* Facts come from answered turns of the account.
FactsInv ==
    /\ \A t \in Turns : Pending(t) => Answered(t, UserOf[t])
    /\ \A u \in Users : \A i \in DOMAIN facts[u] :
          Settled(facts[u][i]) /\ Answered(facts[u][i], u)

OrderInv == LockInv /\ SeenInv /\ EarlierSettled /\ FactsInv /\ FactsInAnswerOrder

\* A turn that came through POST /chat never becomes a job.
LEMMA OnlyJobsBefore ==
    ASSUME TypeOK, [Next]_vars, NEW u \in Users, OnlyJobs(u)'
    PROVE  OnlyJobs(u)
<1> SUFFICES ASSUME NEW t \in Turns \ jobs, UserOf[t] = u PROVE pc[t] = "idle"
  BY DEF OnlyJobs
<1>1. pc'[t] = "idle" => pc[t] = "idle"
  BY DEF Next, TurnStep, MemoryStep, Arrive, Enter, EnterClosed, MemoryReady, Cancel, AgentFails,
     AgentAnswers, Leave, Admit, Forget, Close, vars, turn, TypeOK
<1>2. t \in jobs' => pc[t] = "idle"
  BY DEF Next, TurnStep, MemoryStep, Arrive, Enter, EnterClosed, MemoryReady, Cancel, AgentFails,
     AgentAnswers, Leave, Admit, Forget, Close, vars, turn, TypeOK
<1>3. QED
  BY <1>1, <1>2 DEF OnlyJobs

\* Two turns of the account are never at work together.
LEMMA OneAtWork ==
    ASSUME LockInv, NEW s \in Turns, NEW t \in Turns, UserOf[s] = UserOf[t], OnlyJobs(UserOf[t]),
           pc[s] \in Starting, pc[t] \in Starting
    PROVE  s = t
BY DEF LockInv, OnlyJobs, Starting

\* Every step keeps the memory of jobs in order.
LEMMA OrderStep ==
    ASSUME TypeOK, TypeOK', SettledInv, OrderInv, [Next]_vars
    PROVE  OrderInv'
<1> USE TurnsAssumption DEF OrderInv, turn, memory, history
<1>1. \A u \in Users : OnlyJobs(u)' => OnlyJobs(u)
  BY OnlyJobsBefore
<1>2. \A k \in Turns : Settled(k) => Settled(k)'
  BY SettledStays DEF SettledInv
<1>3. \A u \in Users : \A i \in DOMAIN answered[u] : answered[u][i] \in Turns
  BY DEF TypeOK
<1>4. \A u \in Users : \A i \in DOMAIN facts[u] : facts[u][i] \in Turns
  BY DEF TypeOK
\* Only program points and the lock change.
<1>5. ASSUME UNCHANGED <<mem, facts, answered, seen>>,
             \A s \in Turns : pc'[s] \in Starting =>
                /\ pc[s] \in Starting
                /\ s \in jobs' => s \in jobs
                /\ holder[UserOf[s]] = s => holder'[UserOf[s]] = s
      PROVE  OrderInv'
  <2>1. LockInv' /\ SeenInv'
    BY <1>1, <1>5 DEF LockInv, SeenInv, TypeOK
  <2>2. EarlierSettled'
    BY <1>1, <1>5 DEF EarlierSettled, Settled
  <2>3. FactsInv'
    BY <1>5 DEF FactsInv, Settled, Pending, Answered
  <2>4. FactsInAnswerOrder'
    BY <1>1, <1>5 DEF FactsInAnswerOrder
  <2>5. QED
    BY <2>1, <2>2, <2>3, <2>4
<1>6. ASSUME NEW t \in Turns, Arrive(t) PROVE OrderInv'
  BY <1>5, <1>6 DEF Arrive, TypeOK, Starting
<1>7. ASSUME NEW t \in Turns, EnterClosed(t) \/ Cancel(t) \/ AgentFails(t) PROVE OrderInv'
  BY <1>5, <1>7 DEF EnterClosed, Cancel, AgentFails, Leave, TypeOK, Starting
<1>8. ASSUME NEW t \in Turns, MemoryReady(t) PROVE OrderInv'
  <2>1. CASE Leave(t)
    BY <1>5, <1>8, <2>1 DEF MemoryReady, Leave, TypeOK, Starting
  <2>2. CASE ~Leave(t)
    BY <1>5, <1>8, <2>2 DEF MemoryReady, TypeOK, Starting
  <2>3. QED
    BY <2>1, <2>2
<1>9. ASSUME NEW t \in Turns, Enter(t) PROVE OrderInv'
  <2> DEFINE u == UserOf[t]
  <2>1. /\ UNCHANGED <<mem, facts, answered, jobs>>
        /\ t \in jobs => holder[u] = None
        /\ holder' = IF t \in jobs THEN [holder EXCEPT ![u] = t] ELSE holder
        /\ seen' = [seen EXCEPT ![t] = answered[u]]
        /\ \E p \in Starting : pc' = [pc EXCEPT ![t] = p]
    BY <1>9 DEF Enter, Starting
  <2>2. u \in Users /\ \A s \in Turns \ {t} : pc'[s] = pc[s] /\ seen'[s] = seen[s]
    BY <2>1 DEF TypeOK
  <2>3. LockInv'
    BY <2>1, <2>2 DEF LockInv, TypeOK
  <2>4. SeenInv'
    BY <1>1, <2>1, <2>2 DEF SeenInv, TypeOK
  <2>5. EarlierSettled' /\ FactsInAnswerOrder'
    BY <1>1, <2>1 DEF EarlierSettled, FactsInAnswerOrder, Settled
  <2>6. FactsInv'
    BY <2>1 DEF FactsInv, Settled, Pending, Answered
  <2>7. QED
    BY <2>3, <2>4, <2>5, <2>6
<1>10. ASSUME NEW t \in Turns, AgentAnswers(t) PROVE OrderInv'
  <2> DEFINE u == UserOf[t]
  <2>1. /\ pc[t] = "agent" /\ pc' = [pc EXCEPT ![t] = "over"]
        /\ holder' = [v \in Users |-> IF holder[v] = t THEN None ELSE holder[v]]
        /\ mem' = [mem EXCEPT ![t] = "extracting"]
        /\ answered' = [answered EXCEPT ![u] = Append(answered[u], t)]
        /\ UNCHANGED <<jobs, facts, seen>>
    BY <1>10 DEF AgentAnswers, Leave
  <2>2. u \in Users /\ answered[u] \in Seq(Turns) /\ answered'[u] = Append(answered[u], t)
        /\ \A v \in Users \ {u} : answered'[v] = answered[v]
    BY <2>1 DEF TypeOK
  <2>3. /\ Len(answered'[u]) = Len(answered[u]) + 1 /\ Len(answered[u]) \in Nat
        /\ DOMAIN answered[u] = 1 .. Len(answered[u]) /\ DOMAIN answered'[u] = 1 .. Len(answered'[u])
        /\ answered'[u][Len(answered[u]) + 1] = t
        /\ \A i \in DOMAIN answered[u] : answered'[u][i] = answered[u][i]
    BY <2>2, AppendProperties
  <2>4. \A v \in Users : \A i \in DOMAIN answered[v] :
            i \in DOMAIN answered'[v] /\ answered'[v][i] = answered[v][i]
    BY <2>2, <2>3
  <2>5. \A s \in Turns : pc'[s] \in Starting => s # t /\ pc[s] \in Starting
    BY <2>1 DEF Starting, TypeOK
  <2>6. LockInv'
    BY <2>1, <2>5 DEF LockInv, TypeOK
  <2>7. SeenInv'
    <3> SUFFICES ASSUME NEW s \in Turns, OnlyJobs(UserOf[s])', pc'[s] \in Starting
                 PROVE  seen'[s] = answered'[UserOf[s]]
      BY DEF SeenInv
    <3>1. UserOf[s] \in Users /\ OnlyJobs(UserOf[s]) /\ s # t /\ pc[s] \in Starting
      BY <1>1, <2>5
    <3>2. UserOf[s] # u
      BY <2>1, <3>1, OneAtWork DEF Starting
    <3>3. QED
      BY <2>1, <2>2, <3>1, <3>2 DEF SeenInv
  <2>8. EarlierSettled'
    <3> SUFFICES ASSUME NEW v \in Users, OnlyJobs(v)', NEW i \in DOMAIN answered'[v],
                        i < Len(answered'[v])
                 PROVE  mem'[answered'[v][i]] \in Finished
      BY DEF EarlierSettled, Settled
    <3>1. OnlyJobs(v)
      BY <1>1
    <3>2. CASE v # u
      <4>1. i \in DOMAIN answered[v] /\ i < Len(answered[v]) /\ answered'[v][i] = answered[v][i]
        BY <2>2, <3>2
      <4>2. Settled(answered[v][i]) /\ answered[v][i] \in Turns
        BY <1>3, <3>1, <4>1 DEF EarlierSettled
      <4>3. QED
        BY <1>2, <4>1, <4>2 DEF Settled
    <3>3. CASE v = u
      <4>1. i \in DOMAIN answered[u] /\ answered'[u][i] = answered[u][i] /\ i \in Nat
        BY <2>3, <3>3
      <4>2. CASE i < Len(answered[u])
        BY <1>2, <1>3, <2>2, <3>1, <3>3, <4>1, <4>2 DEF EarlierSettled, Settled
      <4>3. CASE i = Len(answered[u])
        <5>1. seen[t] = answered[u]
          BY <2>1, <3>1, <3>3 DEF SeenInv, Starting
        <5>2. seen[t] # <<>>
          BY <2>2, <2>3, <4>1, <5>1
        <5>3. Settled(Last(seen[t]))
          BY <2>1, <5>2 DEF SettledInv, LatestMemorySettled
        <5>4. Last(seen[t]) = answered[u][i]
          BY <4>3, <5>1 DEF Last
        <5>5. QED
          BY <1>2, <1>3, <2>2, <3>3, <4>1, <5>3, <5>4 DEF Settled
      <4>4. QED
        BY <2>3, <4>1, <4>2, <4>3
    <3>4. QED
      BY <3>2, <3>3
  <2>9. FactsInv'
    <3>1. \A v \in Users, k \in Turns : Answered(k, v) => Answered(k, v)'
      BY <2>4 DEF Answered
    <3>2. Answered(t, u)'
      BY <2>3 DEF Answered
    <3>3. \A s \in Turns : Pending(s)' => Answered(s, UserOf[s])'
      BY <2>1, <3>1, <3>2 DEF FactsInv, Pending, TypeOK
    <3>4. \A v \in Users : \A i \in DOMAIN facts[v] : Settled(facts[v][i])' /\ Answered(facts[v][i], v)'
      BY <1>2, <1>4, <2>1, <3>1 DEF FactsInv
    <3>5. QED
      BY <2>1, <3>3, <3>4 DEF FactsInv
  <2>10. FactsInAnswerOrder'
    BY <1>1, <2>1, <2>4 DEF FactsInAnswerOrder
  <2>11. QED
    BY <2>6, <2>7, <2>8, <2>9, <2>10
\* The memory tasks alone move on.
<1>11. ASSUME UNCHANGED <<pc, jobs, holder, answered, seen>>
       PROVE  LockInv' /\ SeenInv' /\ EarlierSettled'
  <2>1. LockInv' /\ SeenInv'
    BY <1>1, <1>11 DEF LockInv, SeenInv
  <2>2. EarlierSettled'
    BY <1>1, <1>2, <1>3, <1>11 DEF EarlierSettled
  <2>3. QED
    BY <2>1, <2>2
<1>12. ASSUME UNCHANGED <<answered, facts>>, \A t \in Turns : Pending(t)' => Pending(t)
       PROVE  FactsInv' /\ FactsInAnswerOrder'
  <2>1. FactsInv'
    BY <1>2, <1>4, <1>12 DEF FactsInv, Answered
  <2>2. FactsInAnswerOrder'
    BY <1>1, <1>12 DEF FactsInAnswerOrder
  <2>3. QED
    BY <2>1, <2>2
<1>13. ASSUME NEW t \in Turns, Admit(t) PROVE OrderInv'
  <2> DEFINE u == UserOf[t]
  <2>1. LockInv' /\ SeenInv' /\ EarlierSettled'
    BY <1>11, <1>13 DEF Admit
  <2>2. Pending(t) /\ Settled(t)' /\ answered' = answered /\ \A s \in Turns : Pending(s)' => Pending(s)
    BY <1>13 DEF Admit, Pending, Settled, Finished, TypeOK
  <2>3. CASE facts' = facts
    BY <1>12, <2>1, <2>2, <2>3
  <2>4. CASE facts' = [facts EXCEPT ![u] = Append(facts[u], t)]
    <3>1. u \in Users /\ facts[u] \in Seq(Turns) /\ facts'[u] = Append(facts[u], t)
          /\ \A v \in Users \ {u} : facts'[v] = facts[v]
      BY <2>4 DEF TypeOK
    <3>2. /\ Len(facts'[u]) = Len(facts[u]) + 1 /\ Len(facts[u]) \in Nat
          /\ DOMAIN facts[u] = 1 .. Len(facts[u]) /\ DOMAIN facts'[u] = 1 .. Len(facts'[u])
          /\ facts'[u][Len(facts[u]) + 1] = t
          /\ \A i \in DOMAIN facts[u] : facts'[u][i] = facts[u][i]
      BY <3>1, AppendProperties
    <3>3. Answered(t, u)
      BY <2>2 DEF FactsInv
    <3>4. FactsInv'
      <4>1. \A s \in Turns : Pending(s)' => Answered(s, UserOf[s])'
        BY <2>2 DEF FactsInv, Answered
      <4>2. \A v \in Users : \A i \in DOMAIN facts[v] :
                mem'[facts[v][i]] \in Finished /\ Answered(facts[v][i], v)
        BY <1>2, <1>4 DEF FactsInv, Settled
      <4>3. \A i \in DOMAIN facts'[u] : mem'[facts'[u][i]] \in Finished /\ Answered(facts'[u][i], u)
        <5> SUFFICES ASSUME NEW i \in DOMAIN facts'[u]
                     PROVE  mem'[facts'[u][i]] \in Finished /\ Answered(facts'[u][i], u)
          OBVIOUS
        <5>1. CASE i \in DOMAIN facts[u]
          BY <3>1, <3>2, <4>2, <5>1
        <5>2. CASE i = Len(facts[u]) + 1
          BY <2>2, <3>2, <3>3, <5>2 DEF Settled
        <5>3. QED
          BY <3>2, <5>1, <5>2
      <4>4. QED
        BY <2>2, <3>1, <4>1, <4>2, <4>3 DEF FactsInv, Answered, Settled
    <3>5. FactsInAnswerOrder'
      <4> SUFFICES ASSUME NEW v \in Users, NEW i \in DOMAIN facts'[v], NEW j \in DOMAIN facts'[v],
                          OnlyJobs(v)', i < j
                   PROVE  \E p, q \in DOMAIN answered[v] :
                             p < q /\ answered[v][p] = facts'[v][i] /\ answered[v][q] = facts'[v][j]
        BY <2>2 DEF FactsInAnswerOrder
      <4>1. OnlyJobs(v)
        BY <1>1
      <4>2. CASE v # u
        BY <3>1, <4>1, <4>2 DEF FactsInAnswerOrder
      <4>3. CASE v = u /\ j \in DOMAIN facts[u]
        <5>1. i \in DOMAIN facts[u] /\ facts'[u][i] = facts[u][i] /\ facts'[u][j] = facts[u][j]
          BY <3>2, <4>3
        <5>2. OnlyJobs(u) /\ j \in DOMAIN facts[u]
          BY <4>1, <4>3
        <5>3. \E p, q \in DOMAIN answered[u] :
                 p < q /\ answered[u][p] = facts[u][i] /\ answered[u][q] = facts[u][j]
          BY <3>1, <5>1, <5>2 DEF FactsInAnswerOrder
        <5>4. QED
          BY <4>3, <5>1, <5>3
      <4>4. CASE v = u /\ j = Len(facts[u]) + 1
        <5>1. i \in DOMAIN facts[u] /\ facts'[u][i] = facts[u][i] /\ facts'[u][j] = t
          BY <3>2, <4>4
        <5>2. PICK p \in DOMAIN answered[u] : answered[u][p] = facts[u][i]
          BY <3>1, <5>1 DEF FactsInv, Answered
        <5>3. PICK q \in DOMAIN answered[u] : answered[u][q] = t
          BY <3>3 DEF Answered
        <5>4. ~Settled(t)
          BY <2>2 DEF Settled, Pending, Finished
        <5>5. Settled(answered[u][p])
          BY <3>1, <5>1, <5>2 DEF FactsInv
        <5>6. DOMAIN answered[u] = 1 .. Len(answered[u]) /\ Len(answered[u]) \in Nat
          BY <3>1 DEF TypeOK
        <5>7. q = Len(answered[u])
          BY <3>1, <4>1, <4>4, <5>3, <5>4, <5>6 DEF EarlierSettled
        <5>8. p < q
          BY <5>2, <5>3, <5>4, <5>5, <5>6, <5>7
        <5>9. QED
          BY <4>4, <5>1, <5>2, <5>3, <5>8
      <4>5. QED
        BY <3>2, <4>2, <4>3, <4>4
    <3>6. QED
      BY <2>1, <3>4, <3>5
  <2>5. QED
    BY <1>13, <2>3, <2>4 DEF Admit
<1>14. ASSUME NEW t \in Turns, Forget(t) PROVE OrderInv'
  BY <1>11, <1>12, <1>14 DEF Forget, Pending
<1>15. CASE Close
  <2>1. \A t \in Turns : Pending(t)' => Pending(t)
    BY <1>15 DEF Close, Pending, TypeOK
  <2>2. QED
    BY <1>11, <1>12, <1>15, <2>1 DEF Close
<1>16. CASE UNCHANGED vars
  BY <1>11, <1>12, <1>16 DEF vars, Pending
<1>17. QED
  BY <1>6, <1>7, <1>8, <1>9, <1>10, <1>13, <1>14, <1>15, <1>16 DEF Next, TurnStep, MemoryStep

\* Without turns there is nothing to order.
LEMMA OrderInit == Init => OrderInv
BY DEF Init, OrderInv, LockInv, SeenInv, Starting, EarlierSettled, FactsInv, Pending, FactsInAnswerOrder

\* As long as an account's turns come through POST /chat/jobs, memory keeps
\* their order: when the agent works on a turn, the memory of every turn answered
\* before is settled, and facts reach the graph in the order of the answers
\* (run_user_message under the account's lock).
THEOREM MemoryKeepsOrder == Spec => []MemoryInTurnOrder
<1>1. Init => TypeOK /\ SettledInv /\ OrderInv
  BY TypeInit, SettledInit, OrderInit
<1>2. TypeOK /\ SettledInv /\ OrderInv /\ [Next]_vars => TypeOK' /\ SettledInv' /\ OrderInv'
  BY TypeStep, SettledStep, OrderStep
<1>3. TypeOK /\ SettledInv /\ OrderInv => MemoryInTurnOrder
  <2> SUFFICES ASSUME TypeOK, SettledInv, OrderInv, NEW t \in Turns, OnlyJobs(UserOf[t]),
                      pc[t] = "agent", NEW i \in DOMAIN seen[t]
               PROVE  Settled(seen[t][i])
    BY DEF MemoryInTurnOrder, JobsSeeEarlierMemory, SeesSettled, OrderInv
  <2>1. UserOf[t] \in Users /\ seen[t] = answered[UserOf[t]]
    BY TurnsAssumption DEF OrderInv, SeenInv, Starting
  <2>2. DOMAIN seen[t] = 1 .. Len(seen[t]) /\ Len(seen[t]) \in Nat
    BY DEF TypeOK
  <2>3. CASE i < Len(seen[t])
    BY <2>1, <2>3 DEF OrderInv, EarlierSettled
  <2>4. CASE i = Len(seen[t])
    <3>1. seen[t] # <<>>
      BY <2>2
    <3>2. QED
      BY <2>4, <3>1 DEF SettledInv, LatestMemorySettled, Last
  <2>5. QED
    BY <2>2, <2>3, <2>4
<1>4. QED
  BY <1>1, <1>2, <1>3, PTL DEF Spec

=============================================================================
