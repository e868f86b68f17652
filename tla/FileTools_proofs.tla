-------------------------- MODULE FileTools_proofs --------------------------
(***************************************************************************)
(* Theorems about FileTools, for any runs, calls, paths and requests and   *)
(* any number of failing system calls.                                     *)
(***************************************************************************)
EXTENDS FileTools, TLAPS

-----------------------------------------------------------------------------
(* Types *)

UnderWay == {"start", "open", "fill", "note", "save", "replace"}

\* What a call that has been made asks for.
LEMMA Asked ==
    ASSUME CallsTypeOK, NEW c \in Calls, pc[c] # "none"
    PROVE  /\ RunOf[c] \in Runs
           /\ call[c] \in Requests[RunOf[c]]
           /\ Op(c) \in {"write", "code_edit", "document_edit", "delete", "move", "copy", "terminal"}
           /\ Path(c) \in Paths /\ call[c].to \in Paths /\ Target(c) \in Paths
           /\ Op(c) \notin {"copy", "move"} => Target(c) = Path(c)
<1>1. RunOf[c] \in Runs
  BY FileAssumption
<1>2. call[c] \in Requests[RunOf[c]]
  BY DEF CallsTypeOK
<1>3. QED
  BY <1>1, <1>2, FileAssumption DEF Op, Path, Target

\* A call that has not been made is nobody's move and nobody's edit.
LEMMA NotAsked ==
    ASSUME CallsTypeOK, NEW c \in Calls, pc[c] = "none"
    PROVE  Op(c) = "none"
  BY DEF CallsTypeOK, NoCall, Op

\* A thread's step takes its call from one program point to the next; only its
\* last one lets the run go on.
LEMMA ThreadShape ==
    ASSUME NEW c \in Calls, ThreadStep(c)
    PROVE  /\ pc[c] \in UnderWay
           /\ \E point \in (UnderWay \cup {"done", "failed"}) \ {"start"} :
                 /\ pc' = [pc EXCEPT ![c] = point]
                 /\ point \in UnderWay => UNCHANGED current
                 /\ point \in Over =>
                       current' = [r \in Runs |-> IF current[r] = c THEN 0 ELSE current[r]]
           /\ UNCHANGED <<run, call, abandoned, todo>>
<1> USE DEF Goto, Finish, Over, UnderWay, ThreadOnly
<1>1. CASE Look(c)
  BY <1>1 DEF Look
<1>2. CASE Open(c) \/ Fill(c) \/ Note(c)
  <2>1. CASE Open(c)
    BY <2>1 DEF Open
  <2>2. CASE Fill(c)
    BY <2>2 DEF Fill
  <2>3. CASE Note(c)
    BY <2>3 DEF Note
  <2>4. QED
    BY <1>2, <2>1, <2>2, <2>3
<1>3. CASE MakeSibling(c) \/ Save(c) \/ Replace(c)
  BY <1>3 DEF MakeSibling, Save, Replace
<1>4. CASE Unlink(c) \/ Discard(c) \/ Rename(c) \/ Follow(c) \/ Command(c)
  BY <1>4 DEF Unlink, Discard, Rename, Follow, Command
<1>5. QED
  BY <1>1, <1>2, <1>3, <1>4 DEF ThreadStep

\* Calls keep their types.
LEMMA CallsStep == CallsTypeOK /\ [Next]_vars => CallsTypeOK'
<1> SUFFICES ASSUME CallsTypeOK, [Next]_vars PROVE CallsTypeOK'
  OBVIOUS
<1>1. ASSUME NEW c \in Calls, ThreadStep(c) PROVE CallsTypeOK'
  <2>1. PICK point \in (UnderWay \cup {"done", "failed"}) \ {"start"} : pc' = [pc EXCEPT ![c] = point]
    BY <1>1, ThreadShape
  <2>2. pc[c] # "none" /\ point # "none" /\ call' = call
    BY <1>1, <2>1, ThreadShape DEF UnderWay
  <2>3. sibling' \subseteq Calls
    BY <1>1 DEF ThreadStep, Look, Open, Fill, Note, MakeSibling, Save, Replace, Unlink, Discard,
       Rename, Follow, Command, CallsTypeOK
  <2>4. pc' \in [Calls -> Over \cup UnderWay]
    BY <2>1 DEF CallsTypeOK, Over, UnderWay
  <2>5. \A k \in Calls : pc'[k] = "none" <=> pc[k] = "none"
    BY <2>1, <2>2 DEF CallsTypeOK
  <2>6. QED
    BY <2>2, <2>3, <2>4, <2>5 DEF CallsTypeOK, UnderWay
<1>2. ASSUME NEW r \in Runs, NEW c \in Calls, NEW q \in Requests[r], Invoke(r, c, q)
      PROVE  CallsTypeOK'
  <2>1. /\ call' = [call EXCEPT ![c] = q]
        /\ pc' = [pc EXCEPT ![c] = "start"]
        /\ sibling' = sibling /\ RunOf[c] = r
    BY <1>2 DEF Invoke
  <2>2. pc' \in [Calls -> Over \cup UnderWay] /\ DOMAIN call' = Calls
    BY <2>1 DEF CallsTypeOK, UnderWay
  <2>3. ASSUME NEW k \in Calls
        PROVE  call'[k] \in IF pc'[k] = "none" THEN {NoCall} ELSE Requests[RunOf[k]]
    BY <2>1 DEF CallsTypeOK
  <2>4. QED
    BY <2>1, <2>2, <2>3 DEF CallsTypeOK, UnderWay
<1>3. ASSUME NEW r \in Runs,
             TimeOut(r) \/ RunFails(r) \/ Answer(r) \/ CleanedUp(r) \/ \E p \in Paths : CleanOne(r, p)
      PROVE  CallsTypeOK'
  BY <1>3 DEF TimeOut, RunFails, Answer, CleanedUp, CleanOne, threads, CallsTypeOK
<1>4. CASE UNCHANGED vars
  BY <1>4 DEF vars, threads, CallsTypeOK
<1>5. QED
  BY <1>1, <1>2, <1>3, <1>4 DEF Next

\* Ledgers keep their types.
LEMMA RunsStep == CallsTypeOK /\ RunsTypeOK /\ [Next]_vars => RunsTypeOK'
<1> SUFFICES ASSUME CallsTypeOK, RunsTypeOK, [Next]_vars PROVE RunsTypeOK'
  OBVIOUS
<1>1. ASSUME NEW c \in Calls, ThreadStep(c) PROVE RunsTypeOK'
  <2>1. current' \in [Runs -> Calls \cup {0}]
    BY <1>1, ThreadShape DEF RunsTypeOK, UnderWay, Over
  <2>2. run' = run /\ abandoned' = abandoned /\ todo' = todo
    BY <1>1, ThreadShape
  <2>3. faults' \in 0 .. MaxFaults
    BY <1>1, FileAssumption DEF ThreadStep, Look, Open, Fill, Note, MakeSibling, Save, Replace, Unlink,
       Discard, Rename, Follow, Command, Fault, RunsTypeOK
  <2>4. paths' \in [Runs -> SUBSET Paths]
    <3>1. Path(c) \in Paths /\ Target(c) \in Paths
      BY <1>1, ThreadShape, Asked DEF UnderWay
    <3>2. paths' = paths \/ Register(c) \/ MoveArtifact(c)
          \/ paths' = [paths EXCEPT ![RunOf[c]] = @ \ {Path(c)}]
      BY <1>1 DEF ThreadStep, Look, Open, Fill, Note, MakeSibling, Save, Replace, Unlink, Discard,
         Rename, Follow, Command
    <3>3. QED
      BY <3>1, <3>2 DEF Register, MoveArtifact, RunsTypeOK
  <2>5. QED
    BY <2>1, <2>2, <2>3, <2>4 DEF RunsTypeOK
<1>2. ASSUME NEW r \in Runs, NEW c \in Calls, NEW q \in Requests[r], Invoke(r, c, q)
      PROVE  RunsTypeOK'
  BY <1>2 DEF Invoke, RunsTypeOK
<1>3. ASSUME NEW r \in Runs, TimeOut(r) \/ RunFails(r) PROVE RunsTypeOK'
  BY <1>3 DEF TimeOut, RunFails, RunsTypeOK
<1>4. ASSUME NEW r \in Runs, Answer(r) \/ CleanedUp(r) PROVE RunsTypeOK'
  BY <1>4 DEF Answer, CleanedUp, RunsTypeOK
<1>5. ASSUME NEW r \in Runs, NEW p \in Paths, CleanOne(r, p) PROVE RunsTypeOK'
  <2>1. faults' \in 0 .. MaxFaults
    BY <1>5, FileAssumption DEF CleanOne, Fault, RunsTypeOK
  <2>2. run' \in [Runs -> {"working", "cleaning", "answered", "failed"}] /\ todo' \subseteq Paths
    BY <1>5 DEF CleanOne, RunsTypeOK
  <2>3. QED
    BY <1>5, <2>1, <2>2 DEF CleanOne, RunsTypeOK
<1>6. CASE UNCHANGED vars
  BY <1>6 DEF vars, RunsTypeOK
<1>7. QED
  BY <1>1, <1>2, <1>3, <1>4, <1>5, <1>6 DEF Next

\* Files keep their types.
LEMMA FilesStep == TypeOK /\ [Next]_vars => FilesTypeOK'
<1> SUFFICES ASSUME TypeOK, [Next]_vars PROVE FilesTypeOK'
  OBVIOUS
<1> USE DEF TypeOK
<1>1. Absent \in File /\ Kept(0) \in File /\ \A c \in Calls : Kept(c) \in File
  BY DEF Absent, Kept, File
<1>2. ASSUME NEW c \in Calls, ThreadStep(c) PROVE FilesTypeOK'
  <2>1. /\ RunOf[c] \in Runs
        /\ Path(c) \in Paths /\ Target(c) \in Paths /\ call[c].to \in Paths
    BY <1>2, ThreadShape, Asked DEF UnderWay
  <2>2. fs[Path(c)] \in File /\ got[c] \in File
    BY <2>1 DEF FilesTypeOK
  <2>3. Opened(c) \in File
    BY <2>1, <2>2, <1>1 DEF Opened, Scratch, Kept, File
  <2>4. CASE Look(c)
    BY <2>2, <2>4 DEF Look, FilesTypeOK
  <2>5. CASE Open(c)
    <3>1. Opened(c).scratchOf \in SUBSET Runs
      BY <2>3 DEF File
    <3>2. stood' \in [Paths -> SUBSET Runs]
      BY <2>1, <2>5, <3>1 DEF Open, Stands, FilesTypeOK
    <3>3. fs' \in [Paths -> File]
      BY <2>1, <2>3, <2>5 DEF Open, FilesTypeOK
    <3>4. QED
      BY <2>5, <3>2, <3>3 DEF Open, FilesTypeOK
  <2>6. CASE Fill(c)
    <3>1. fs' \in [Paths -> File]
      <4>1. \A p \in Paths : [fs[p] EXCEPT !.broken = 0] \in File
        BY DEF FilesTypeOK, File
      <4>2. QED
        BY <2>6, <4>1 DEF Fill, FilesTypeOK
    <3>2. QED
      BY <2>6, <3>1 DEF Fill, FilesTypeOK
  <2>7. CASE Note(c) \/ MakeSibling(c) \/ Save(c) \/ Discard(c) \/ Follow(c)
    BY <2>7 DEF Note, MakeSibling, Save, Discard, Follow, FilesTypeOK
  <2>8. CASE Replace(c)
    <3>1. got[c].scratchOf \in SUBSET Runs
      BY <2>2 DEF File
    <3>2. [there |-> TRUE,
           scratchOf |-> IF call[c].to = Path(c) THEN got[c].scratchOf ELSE {},
           broken |-> IF Spoilt(c) THEN c ELSE 0] \in File
      BY <3>1 DEF File
    <3>3. QED
      BY <2>1, <2>8, <3>2 DEF Replace, FilesTypeOK
  <2>9. CASE Unlink(c)
    BY <1>1, <2>1, <2>9 DEF Unlink, FilesTypeOK
  <2>10. CASE Rename(c)
    <3>1. fs' \in [Paths -> File]
      BY <1>1, <2>1, <2>2, <2>10 DEF Rename, FilesTypeOK
    <3>2. stood' \in [Paths -> SUBSET Runs]
      <4>1. fs[Path(c)].scratchOf \cup (stood[Path(c)] \cap {RunOf[c]}) \in SUBSET Runs
        BY <2>1, <2>2 DEF FilesTypeOK, File
      <4>2. stood' = stood \/ Stands(Target(c), fs[Path(c)].scratchOf \cup (stood[Path(c)] \cap {RunOf[c]}))
        BY <2>10 DEF Rename
      <4>3. QED
        BY <2>1, <4>1, <4>2 DEF Stands, FilesTypeOK
    <3>3. QED
      BY <2>10, <3>1, <3>2 DEF Rename, FilesTypeOK
  <2>11. CASE Command(c)
    BY <1>1, <2>1, <2>11 DEF Command, FilesTypeOK
  <2>12. QED
    BY <1>2, <2>4, <2>5, <2>6, <2>7, <2>8, <2>9, <2>10, <2>11 DEF ThreadStep
<1>3. ASSUME NEW r \in Runs, NEW p \in Paths, CleanOne(r, p) PROVE FilesTypeOK'
  BY <1>1, <1>3 DEF CleanOne, threads, FilesTypeOK
<1>4. ASSUME NEW r \in Runs,
             \/ \E c \in Calls, q \in Requests[r] : Invoke(r, c, q)
             \/ TimeOut(r) \/ RunFails(r) \/ Answer(r) \/ CleanedUp(r)
      PROVE  FilesTypeOK'
  BY <1>4 DEF Invoke, TimeOut, RunFails, Answer, CleanedUp, threads, FilesTypeOK
<1>5. CASE UNCHANGED vars
  BY <1>5 DEF vars, threads, FilesTypeOK
<1>6. QED
  BY <1>2, <1>3, <1>4, <1>5 DEF Next

\* Types hold at the start.
LEMMA TypeInit == Init => TypeOK
<1> SUFFICES ASSUME Init PROVE TypeOK
  OBVIOUS
<1>1. FilesTypeOK
  BY DEF Init, FilesTypeOK, Absent, Kept, File
<1>2. CallsTypeOK
  BY DEF Init, CallsTypeOK, Over
<1>3. RunsTypeOK
  BY FileAssumption DEF Init, RunsTypeOK
<1>4. QED
  BY <1>1, <1>2, <1>3 DEF TypeOK

\* Files, calls and ledgers keep their types: in particular a call that has been
\* made asks for something its run may ask for, and only calls write files.
THEOREM TypeCorrect == Spec => []TypeOK
<1>1. TypeOK /\ [Next]_vars => TypeOK'
  BY CallsStep, RunsStep, FilesStep DEF TypeOK
<1>2. QED
  BY TypeInit, <1>1, PTL DEF Spec

-----------------------------------------------------------------------------
(* Calls under way *)

\* What a call asked for does not change any more, nor what it saw once it has
\* looked.
LEMMA CallsStay ==
    ASSUME TypeOK, [Next]_vars, NEW k \in Calls, pc[k] # "none"
    PROVE  /\ call'[k] = call[k] /\ pc'[k] # "none"
           /\ pc[k] # "start" => got'[k] = got[k] /\ pc'[k] # "start"
<1> USE DEF TypeOK, CallsTypeOK, FilesTypeOK
<1>1. ASSUME NEW c \in Calls, ThreadStep(c)
      PROVE  /\ call'[k] = call[k] /\ pc'[k] # "none"
             /\ pc[k] # "start" => got'[k] = got[k] /\ pc'[k] # "start"
  <2>1. call' = call
    BY <1>1, ThreadShape
  <2>2. pc'[k] # "none" /\ (pc[k] # "start" => pc'[k] # "start")
    BY <1>1, ThreadShape DEF UnderWay
  <2>3. pc[k] # "start" => got'[k] = got[k]
    BY <1>1 DEF ThreadStep, Look, Open, Fill, Note, MakeSibling, Save, Replace, Unlink, Discard,
       Rename, Follow, Command
  <2>4. QED
    BY <2>1, <2>2, <2>3
<1>2. ASSUME NEW r \in Runs, NEW c \in Calls, NEW q \in Requests[r], Invoke(r, c, q)
      PROVE  call'[k] = call[k] /\ pc'[k] = pc[k] /\ got'[k] = got[k]
  BY <1>2 DEF Invoke
<1>3. ASSUME NEW r \in Runs,
             TimeOut(r) \/ RunFails(r) \/ Answer(r) \/ CleanedUp(r) \/ \E p \in Paths : CleanOne(r, p)
      PROVE  UNCHANGED threads
  BY <1>3 DEF TimeOut, RunFails, Answer, CleanedUp, CleanOne, threads
<1>4. CASE UNCHANGED threads
  BY <1>4 DEF threads
<1>5. QED
  BY <1>1, <1>2, <1>3, <1>4 DEF Next, vars

\* Which tools pass through which program point.
PointsInv ==
    \A c \in Calls :
        /\ pc[c] = "open" => Op(c) \in {"write", "code_edit", "copy", "document_edit"}
        /\ pc[c] = "fill" => Op(c) \in {"write", "code_edit", "copy"}
        /\ pc[c] = "note" => Op(c) \in {"write", "delete", "move"}
        /\ pc[c] \in {"save", "replace"} => Op(c) = "document_edit"

\* Every step leads to a program point of its tool.
LEMMA PointsStep == TypeOK /\ PointsInv /\ [Next]_vars => PointsInv'
<1> SUFFICES ASSUME TypeOK, PointsInv, [Next]_vars, NEW k \in Calls
             PROVE  /\ pc'[k] = "open" => Op(k)' \in {"write", "code_edit", "copy", "document_edit"}
                    /\ pc'[k] = "fill" => Op(k)' \in {"write", "code_edit", "copy"}
                    /\ pc'[k] = "note" => Op(k)' \in {"write", "delete", "move"}
                    /\ pc'[k] \in {"save", "replace"} => Op(k)' = "document_edit"
  BY DEF PointsInv
<1> USE DEF TypeOK, CallsTypeOK
<1>0. pc[k] # "none" => Op(k)' = Op(k)
  BY CallsStay DEF Op
<1>1. CASE pc'[k] = pc[k]
  BY <1>0, <1>1 DEF PointsInv
<1>2. ASSUME NEW c \in Calls, ThreadStep(c), pc'[k] # pc[k]
      PROVE  /\ pc'[k] = "open" => Op(k) \in {"write", "code_edit", "copy", "document_edit"}
             /\ pc'[k] = "fill" => Op(k) \in {"write", "code_edit", "copy"}
             /\ pc'[k] = "note" => Op(k) \in {"write", "delete", "move"}
             /\ pc'[k] \in {"save", "replace"} => Op(k) = "document_edit"
             /\ pc[k] # "none"
  <2>1. k = c
    BY <1>2, ThreadShape
  <2>2. pc[k] # "none"
    BY <1>2, <2>1, ThreadShape DEF UnderWay
  <2> USE <2>1 DEF Goto, Finish
  <2>3. CASE Look(c)
    BY <2>2, <2>3 DEF Look
  <2>4. CASE Open(c) \/ Fill(c)
    BY <2>2, <2>4 DEF Open, Fill
  <2>5. CASE Note(c) \/ MakeSibling(c) \/ Save(c) \/ Replace(c)
    BY <2>2, <2>5 DEF Note, MakeSibling, Save, Replace, PointsInv
  <2>6. CASE Unlink(c) \/ Discard(c) \/ Rename(c) \/ Follow(c) \/ Command(c)
    BY <2>2, <2>6 DEF Unlink, Discard, Rename, Follow, Command
  <2>7. QED
    BY <1>2, <2>3, <2>4, <2>5, <2>6 DEF ThreadStep
<1>3. ASSUME NEW r \in Runs, NEW c \in Calls, NEW q \in Requests[r], Invoke(r, c, q)
      PROVE  pc'[k] = pc[k] \/ pc'[k] = "start"
  BY <1>3 DEF Invoke
<1>4. ASSUME NEW r \in Runs,
             TimeOut(r) \/ RunFails(r) \/ Answer(r) \/ CleanedUp(r) \/ \E p \in Paths : CleanOne(r, p)
      PROVE  pc' = pc
  BY <1>4 DEF TimeOut, RunFails, Answer, CleanedUp, CleanOne, threads
<1>5. CASE UNCHANGED vars
  BY <1>1, <1>5 DEF vars, threads
<1>6. CASE pc'[k] = "start"
  BY <1>6
<1>7. QED
  BY <1>0, <1>1, <1>2, <1>3, <1>4, <1>5, <1>6 DEF Next

\* A call that somebody awaits is its run's current one, and a run that is
\* cleaning up or has answered awaits none; one run cleans up at a time.
AwaitInv ==
    /\ \A c \in Calls \ abandoned : pc[c] \notin Over => current[RunOf[c]] = c
    /\ \A r \in Runs : run[r] \in {"cleaning", "answered"} => current[r] = 0
    /\ \A r, s \in Runs : run[r] = "cleaning" /\ run[s] = "cleaning" => r = s

\* Every step keeps what a run waits for in agreement with the call.
LEMMA AwaitStep == TypeOK /\ AwaitInv /\ [Next]_vars => AwaitInv'
<1> SUFFICES ASSUME TypeOK, AwaitInv, [Next]_vars PROVE AwaitInv'
  OBVIOUS
<1> USE DEF TypeOK, RunsTypeOK, CallsTypeOK
<1>0. \A c \in Calls : RunOf[c] \in Runs /\ c # 0
  BY FileAssumption
<1>1. ASSUME NEW c \in Calls, ThreadStep(c) PROVE AwaitInv'
  <2>1. PICK point \in (UnderWay \cup {"done", "failed"}) \ {"start"} :
          /\ pc' = [pc EXCEPT ![c] = point]
          /\ point \in UnderWay => UNCHANGED current
          /\ point \in Over => current' = [r \in Runs |-> IF current[r] = c THEN 0 ELSE current[r]]
    BY <1>1, ThreadShape
  <2>2. pc[c] \notin Over /\ run' = run /\ abandoned' = abandoned
    BY <1>1, ThreadShape DEF UnderWay, Over
  <2>3. CASE point \in UnderWay
    <3>1. \A k \in Calls : pc'[k] \notin Over => pc[k] \notin Over
      BY <2>1, <2>2
    <3>2. QED
      BY <2>1, <2>2, <2>3, <3>1 DEF AwaitInv
  <2>4. CASE point \in Over
    <3>1. \A k \in Calls : pc'[k] \notin Over => pc[k] \notin Over /\ k # c
      BY <2>1, <2>2, <2>4
    <3>2. current' = [r \in Runs |-> IF current[r] = c THEN 0 ELSE current[r]]
      BY <2>1, <2>4
    <3>3. QED
      BY <1>0, <2>2, <3>1, <3>2 DEF AwaitInv
  <2>5. QED
    BY <2>1, <2>3, <2>4 DEF Over
<1>2. ASSUME NEW r \in Runs, NEW c \in Calls, NEW q \in Requests[r], Invoke(r, c, q)
      PROVE  AwaitInv'
  <2>1. /\ run[r] = "working" /\ current[r] = 0 /\ RunOf[c] = r
        /\ pc' = [pc EXCEPT ![c] = "start"] /\ current' = [current EXCEPT ![r] = c]
        /\ UNCHANGED <<run, abandoned>>
    BY <1>2 DEF Invoke
  <2>2. ASSUME NEW k \in Calls \ abandoned, pc'[k] \notin Over PROVE current'[RunOf[k]] = k
    BY <1>0, <2>1, <2>2 DEF AwaitInv
  <2>3. QED
    BY <2>1, <2>2 DEF AwaitInv
<1>3. ASSUME NEW r \in Runs, TimeOut(r) \/ RunFails(r) PROVE AwaitInv'
  <2>1. /\ run[r] = "working"
        /\ abandoned' = abandoned \cup ({current[r]} \ {0})
        /\ current' = [current EXCEPT ![r] = 0]
        /\ run' = run \/ run' = [run EXCEPT ![r] = "failed"]
        /\ pc' = pc
    BY <1>3 DEF TimeOut, RunFails, threads
  <2>2. ASSUME NEW k \in Calls \ abandoned', pc'[k] \notin Over PROVE current'[RunOf[k]] = k
    BY <1>0, <2>1, <2>2 DEF AwaitInv
  <2>3. \A s \in Runs : run'[s] \in {"cleaning", "answered"} => run'[s] = run[s] /\ current'[s] = 0
    BY <2>1 DEF AwaitInv
  <2>4. QED
    BY <2>2, <2>3 DEF AwaitInv
<1>4. ASSUME NEW r \in Runs, Answer(r) \/ CleanedUp(r) \/ \E p \in Paths : CleanOne(r, p) PROVE AwaitInv'
  <2>1. UNCHANGED <<current, pc, abandoned>>
    BY <1>4 DEF Answer, CleanedUp, CleanOne, threads
  <2>2. CASE Answer(r)
    BY <2>1, <2>2 DEF Answer, LoopFree, AwaitInv
  <2>3. CASE CleanedUp(r) \/ \E p \in Paths : CleanOne(r, p)
    BY <2>1, <2>3 DEF CleanedUp, CleanOne, AwaitInv
  <2>4. QED
    BY <1>4, <2>2, <2>3
<1>5. CASE UNCHANGED vars
  BY <1>5 DEF vars, threads, AwaitInv
<1>6. QED
  BY <1>1, <1>2, <1>3, <1>4, <1>5 DEF Next

-----------------------------------------------------------------------------
(* Documents *)

\* Whatever is not whole is the work of a call that has opened or replaced it.
BrokenInv == \A p \in Paths : fs[p].broken # 0 => pc[fs[p].broken] \notin {"none", "start"}

EditInv == TypeOK /\ PointsInv /\ BrokenInv /\ DocumentEditIsAtomic

\* Only opening a file, or putting a copy of a broken one in its place, breaks it.
LEMMA WhoBreaks ==
    ASSUME TypeOK, [Next]_vars, NEW p \in Paths, fs'[p].broken # 0
    PROVE  \/ \E o \in Paths : fs'[p].broken = fs[o].broken
           \/ \E c \in Calls : /\ fs'[p].broken = c
                               /\ Open(c) \/ (Replace(c) /\ Spoilt(c))
<1> DEFINE Old == \E o \in Paths : fs'[p].broken = fs[o].broken
<1> USE DEF TypeOK, FilesTypeOK
<1>0. Absent.broken = 0 /\ Kept(0).broken = 0
  BY DEF Absent, Kept
<1>1. ASSUME NEW c \in Calls, ThreadStep(c)
      PROVE  Old \/ (fs'[p].broken = c /\ (Open(c) \/ (Replace(c) /\ Spoilt(c))))
  <2>1. Path(c) \in Paths /\ Target(c) \in Paths /\ call[c].to \in Paths
    BY <1>1, ThreadShape, Asked DEF UnderWay
  <2>2. CASE Open(c)
    <3>1. fs' = fs \/ fs' = [fs EXCEPT ![Target(c)] = Opened(c)]
      BY <2>2 DEF Open
    <3>2. Opened(c).broken = c
      BY <2>1 DEF Opened, Scratch, Kept, File
    <3>3. QED
      BY <2>1, <2>2, <3>1, <3>2
  <2>3. CASE Fill(c)
    <3>1. fs'[p] = fs[p] \/ fs'[p] = [fs[p] EXCEPT !.broken = 0]
      BY <2>3 DEF Fill
    <3>2. [fs[p] EXCEPT !.broken = 0].broken = 0
      BY DEF File
    <3>3. QED
      BY <3>1, <3>2
  <2>4. CASE Replace(c)
    <3> DEFINE saved == [there |-> TRUE,
                         scratchOf |-> IF call[c].to = Path(c) THEN got[c].scratchOf ELSE {},
                         broken |-> IF Spoilt(c) THEN c ELSE 0]
    <3>1. fs' = fs \/ fs' = [fs EXCEPT ![call[c].to] = saved]
      BY <2>4 DEF Replace
    <3>2. saved.broken = IF Spoilt(c) THEN c ELSE 0
      OBVIOUS
    <3> HIDE DEF saved
    <3>3. QED
      BY <2>1, <2>4, <3>1, <3>2
  <2>5. CASE Unlink(c) \/ Rename(c) \/ Command(c)
    BY <1>0, <2>1, <2>5 DEF Unlink, Rename, Command
  <2>6. CASE fs' = fs
    BY <2>6
  <2>7. QED
    BY <1>1, <2>2, <2>3, <2>4, <2>5, <2>6
    DEF ThreadStep, Look, Note, MakeSibling, Save, Discard, Follow
<1>2. ASSUME NEW r \in Runs, NEW q \in Paths, CleanOne(r, q) PROVE Old
  BY <1>0, <1>2 DEF CleanOne
<1>3. CASE fs' = fs
  BY <1>3
<1>4. ASSUME NEW r \in Runs,
             \/ \E c \in Calls, q \in Requests[r] : Invoke(r, c, q)
             \/ TimeOut(r) \/ RunFails(r) \/ Answer(r) \/ CleanedUp(r)
      PROVE  fs' = fs
  BY <1>4 DEF Invoke, TimeOut, RunFails, Answer, CleanedUp
<1>5. QED
  BY <1>1, <1>2, <1>3, <1>4 DEF Next, vars

\* Every step keeps documents whole, but those that were broken when they were read.
LEMMA EditStep == EditInv /\ [Next]_vars => EditInv'
<1> SUFFICES ASSUME EditInv, [Next]_vars PROVE EditInv'
  OBVIOUS
<1> USE DEF EditInv
<1>1. TypeOK' /\ PointsInv'
  BY CallsStep, RunsStep, FilesStep, PointsStep DEF TypeOK
<1>2. ASSUME NEW p \in Paths, fs'[p].broken # 0
      PROVE  /\ pc'[fs'[p].broken] \notin {"none", "start"}
             /\ call'[fs'[p].broken].op # "document_edit"
                \/ (call'[fs'[p].broken].op # "write" /\ got'[fs'[p].broken].broken # 0)
  <2> DEFINE b == fs'[p].broken
  <2>1. b \in Calls
    BY <1>1, <1>2 DEF TypeOK, FilesTypeOK, File
  <2>2. pc[b] # "none" /\ pc[b] # "start" /\ (Op(b) # "document_edit" \/ Spoilt(b))
    <3>1. CASE \E o \in Paths : b = fs[o].broken
      BY <1>2, <3>1 DEF BrokenInv, DocumentEditIsAtomic
    <3>2. ASSUME NEW c \in Calls, b = c, Open(c) \/ (Replace(c) /\ Spoilt(c))
          PROVE  pc[b] # "none" /\ pc[b] # "start" /\ (Op(b) # "document_edit" \/ Spoilt(b))
      <4> HIDE DEF b
      <4>1. QED
        BY <3>2 DEF Open, Replace
    <3>3. QED
      BY <1>2, <3>1, <3>2, WhoBreaks
  <2>3. call'[b] = call[b] /\ got'[b] = got[b] /\ pc'[b] # "none" /\ pc'[b] # "start"
    <3> HIDE DEF b
    <3>1. QED
      BY <2>1, <2>2, CallsStay
  <2>4. QED
    BY <2>2, <2>3 DEF Op, Spoilt
<1>3. ASSUME NEW k \in Calls, k \in sibling' PROVE pc'[k] \in {"save", "replace"}
  <2> USE DEF TypeOK, CallsTypeOK
  <2>1. k \in sibling => pc[k] \in {"save", "replace"}
    BY DEF DocumentEditIsAtomic
  <2>2. ASSUME NEW c \in Calls, ThreadStep(c) PROVE pc'[k] \in {"save", "replace"}
    <3>1. CASE k # c
      <4>1. k \in sibling /\ pc'[k] = pc[k]
        <5>1. pc'[k] = pc[k]
          BY <2>2, <3>1, ThreadShape
        <5>2. k \in sibling
          BY <1>3, <2>2, <3>1 DEF ThreadStep, Look, Open, Fill, Note, MakeSibling, Save, Replace, Unlink,
             Discard, Rename, Follow, Command
        <5>3. QED
          BY <5>1, <5>2
      <4>2. QED
        BY <2>1, <4>1
    <3>2. CASE k = c
      <4>1. CASE MakeSibling(c) \/ Save(c) \/ Replace(c)
        BY <1>3, <2>1, <3>2, <4>1 DEF MakeSibling, Save, Replace, Goto, Finish
      <4>2. CASE pc[c] \notin {"save", "replace"} /\ sibling' = sibling
        BY <1>3, <2>1, <3>2, <4>2
      <4>3. CASE ~(MakeSibling(c) \/ Save(c) \/ Replace(c))
        <5>1. pc[c] \notin {"save", "replace"} /\ sibling' = sibling
          BY <2>2, <4>3 DEF ThreadStep, Look, Open, Fill, Note, Unlink, Discard, Rename, Follow, Command
        <5>2. QED
          BY <4>2, <5>1
      <4>4. QED
        BY <4>1, <4>3
    <3>3. QED
      BY <3>1, <3>2
  <2>3. ASSUME NEW r \in Runs, NEW c \in Calls, NEW q \in Requests[r], Invoke(r, c, q)
        PROVE  pc'[k] \in {"save", "replace"}
    BY <1>3, <2>1, <2>3 DEF Invoke
  <2>4. ASSUME NEW r \in Runs,
               TimeOut(r) \/ RunFails(r) \/ Answer(r) \/ CleanedUp(r) \/ \E p \in Paths : CleanOne(r, p)
        PROVE  pc' = pc /\ sibling' = sibling
    BY <2>4 DEF TimeOut, RunFails, Answer, CleanedUp, CleanOne, threads
  <2>5. CASE pc' = pc /\ sibling' = sibling
    BY <1>3, <2>1, <2>5
  <2>6. QED
    BY <2>2, <2>3, <2>4, <2>5 DEF Next, vars, threads
<1>4. BrokenInv' /\ DocumentEditIsAtomic'
  <2>1. sibling' \subseteq Calls
    BY <1>1 DEF TypeOK, CallsTypeOK
  <2>2. QED
    BY <1>2, <1>3, <2>1 DEF BrokenInv, DocumentEditIsAtomic, Op, Spoilt
<1>5. QED
  BY <1>1, <1>4

\* A document that document_edit writes is whole at every moment: whatever system
\* call fails, whoever stops waiting and whatever other calls do to its path, only
\* what was already broken when it was read is broken afterwards; and no sibling
\* file outlives the call that made it.
THEOREM EditsAreAtomic == Spec => []DocumentEditIsAtomic
<1>1. Init => EditInv
  <2> SUFFICES ASSUME Init PROVE EditInv
    OBVIOUS
  <2>1. PointsInv
    BY DEF Init, PointsInv
  <2>2. BrokenInv /\ DocumentEditIsAtomic
    BY DEF Init, BrokenInv, DocumentEditIsAtomic, Kept, Absent
  <2>3. QED
    BY TypeInit, <2>1, <2>2 DEF EditInv
<1>2. EditInv => DocumentEditIsAtomic
  BY DEF EditInv
<1>3. QED
  BY <1>1, <1>2, EditStep, PTL DEF Spec

-----------------------------------------------------------------------------
(* The ledger *)

\* A call that has created a temporary file and not registered it yet.
Written(c) == pc[c] \in {"fill", "note"} /\ Created(c)

\* A call that has moved a file of its run's ledger, which does not know it yet.
Moved(c) == pc[c] = "note" /\ Op(c) = "move" /\ Path(c) \in paths[RunOf[c]]

HomeInv ==
    /\ TypeOK /\ PointsInv /\ AwaitInv
    /\ \A c \in Calls : Written(c) => RunOf[c] \in stood[Path(c)]
    /\ \A c \in Calls : Moved(c) /\ ~Abandoned(RunOf[c]) => RunOf[c] \in stood[Target(c)]
    /\ LedgerStaysAtHome

\* A path at which a run's temporary file has stood is remembered.
LEMMA StoodGrows ==
    ASSUME TypeOK, [Next]_vars, NEW p \in Paths
    PROVE  stood[p] \subseteq stood'[p]
<1> USE DEF TypeOK, FilesTypeOK
<1>1. ASSUME NEW c \in Calls, ThreadStep(c) PROVE stood[p] \subseteq stood'[p]
  <2>1. CASE Open(c) \/ Rename(c)
    BY <2>1 DEF Open, Rename, Stands
  <2>2. CASE ~(Open(c) \/ Rename(c))
    BY <1>1, <2>2 DEF ThreadStep, Look, Fill, Note, MakeSibling, Save, Replace, Unlink, Discard,
       Follow, Command
  <2>3. QED
    BY <2>1, <2>2
<1>2. ASSUME NEW r \in Runs,
             \/ \E c \in Calls, q \in Requests[r] : Invoke(r, c, q)
             \/ TimeOut(r) \/ RunFails(r) \/ Answer(r) \/ CleanedUp(r) \/ \E q \in Paths : CleanOne(r, q)
      PROVE  stood' = stood
  BY <1>2 DEF Invoke, TimeOut, RunFails, Answer, CleanedUp, CleanOne
<1>3. QED
  BY <1>1, <1>2 DEF Next, vars

\* Nobody waits again for a call that was given up.
LEMMA AbandonedStays ==
    ASSUME [Next]_vars
    PROVE  abandoned \subseteq abandoned'
<1>1. ASSUME NEW c \in Calls, ThreadStep(c) PROVE abandoned' = abandoned
  BY <1>1, ThreadShape
<1>2. ASSUME NEW r \in Runs,
             \/ \E c \in Calls, q \in Requests[r] : Invoke(r, c, q)
             \/ TimeOut(r) \/ RunFails(r) \/ Answer(r) \/ CleanedUp(r) \/ \E q \in Paths : CleanOne(r, q)
      PROVE  abandoned \subseteq abandoned'
  BY <1>2 DEF Invoke, TimeOut, RunFails, Answer, CleanedUp, CleanOne
<1>3. QED
  BY <1>1, <1>2 DEF Next, vars

\* How a path gets into a ledger.
LEMMA WhoRegisters ==
    ASSUME TypeOK, [Next]_vars, NEW r \in Runs, NEW p \in paths'[r], p \notin paths[r]
    PROVE  \E c \in Calls :
             /\ RunOf[c] = r
             /\ \/ Note(c) /\ Created(c) /\ p = Path(c)
                \/ Follow(c) /\ Path(c) \in paths[r] /\ p = Target(c)
<1> USE DEF TypeOK, RunsTypeOK
<1>1. ASSUME NEW c \in Calls, ThreadStep(c)
      PROVE  /\ RunOf[c] = r
             /\ \/ Note(c) /\ Created(c) /\ p = Path(c)
                \/ Follow(c) /\ Path(c) \in paths[r] /\ p = Target(c)
  <2>0. RunOf[c] \in Runs
    BY FileAssumption
  <2>1. CASE Note(c)
    BY <2>0, <2>1 DEF Note, Register
  <2>2. CASE Follow(c)
    BY <2>0, <2>2 DEF Follow, MoveArtifact
  <2>3. CASE Discard(c)
    BY <2>0, <2>3 DEF Discard
  <2>4. CASE paths' = paths
    BY <2>4
  <2>5. QED
    BY <1>1, <2>1, <2>2, <2>3, <2>4
    DEF ThreadStep, Look, Open, Fill, MakeSibling, Save, Replace, Unlink, Rename, Command
<1>2. ASSUME NEW s \in Runs,
             \/ \E c \in Calls, q \in Requests[s] : Invoke(s, c, q)
             \/ TimeOut(s) \/ RunFails(s) \/ Answer(s) \/ CleanedUp(s) \/ \E q \in Paths : CleanOne(s, q)
      PROVE  paths'[r] \subseteq paths[r]
  BY <1>2 DEF Invoke, TimeOut, RunFails, Answer, CleanedUp, CleanOne
<1>3. QED
  BY <1>1, <1>2 DEF Next, vars

\* How a call gets to writing its file, and to its last step.
LEMMA WhoWrites ==
    ASSUME TypeOK, PointsInv, [Next]_vars, NEW k \in Calls, pc'[k] # pc[k],
           pc'[k] \in {"fill", "note"}
    PROVE  \/ Open(k) /\ pc'[k] = "fill"
           \/ Fill(k) /\ pc[k] = "fill" /\ Op(k) = "write"
           \/ (Unlink(k) \/ Rename(k)) /\ pc'[k] = "note"
<1> USE DEF TypeOK, CallsTypeOK
<1>1. ASSUME NEW c \in Calls, ThreadStep(c)
      PROVE  \/ Open(k) /\ pc'[k] = "fill"
             \/ Fill(k) /\ pc[k] = "fill" /\ Op(k) = "write"
             \/ (Unlink(k) \/ Rename(k)) /\ pc'[k] = "note"
  <2>1. k = c
    BY <1>1, ThreadShape
  <2> USE DEF Goto, Finish
  <2>2. CASE Open(c)
    BY <2>1, <2>2 DEF Open
  <2>3. CASE Fill(c)
    BY <2>1, <2>3 DEF Fill
  <2>4. CASE Unlink(c) \/ Rename(c)
    BY <2>1, <2>4 DEF Unlink, Rename
  <2>5. CASE Look(c) \/ Note(c) \/ MakeSibling(c)
    BY <2>1, <2>5 DEF Look, Note, MakeSibling
  <2>6. CASE Save(c) \/ Replace(c) \/ Discard(c) \/ Follow(c) \/ Command(c)
    BY <2>1, <2>6 DEF Save, Replace, Discard, Follow, Command
  <2>7. QED
    BY <1>1, <2>2, <2>3, <2>4, <2>5, <2>6 DEF ThreadStep
<1>2. ASSUME NEW r \in Runs, NEW c \in Calls, NEW q \in Requests[r], Invoke(r, c, q)
      PROVE  FALSE
  BY <1>2 DEF Invoke
<1>3. ASSUME NEW r \in Runs,
             TimeOut(r) \/ RunFails(r) \/ Answer(r) \/ CleanedUp(r) \/ \E p \in Paths : CleanOne(r, p)
      PROVE  FALSE
  BY <1>3 DEF TimeOut, RunFails, Answer, CleanedUp, CleanOne, threads
<1>4. QED
  BY <1>1, <1>2, <1>3 DEF Next, vars, threads

\* Every step keeps the ledger at home.
LEMMA HomeStep == HomeInv /\ [Next]_vars => HomeInv'
<1> SUFFICES ASSUME HomeInv, [Next]_vars PROVE HomeInv'
  OBVIOUS
<1> USE DEF HomeInv
<1>0. \A c \in Calls : RunOf[c] \in Runs
  BY FileAssumption
<1>1. TypeOK' /\ PointsInv' /\ AwaitInv'
  BY CallsStep, RunsStep, FilesStep, PointsStep, AwaitStep DEF TypeOK
<1>2. \A r \in Runs : ~Abandoned(r)' => ~Abandoned(r)
  BY AbandonedStays DEF Abandoned
<1>3. ASSUME NEW k \in Calls, Written(k)' PROVE RunOf[k] \in stood'[Path(k)']
  <2>1. pc[k] # "none" => Created(k)' = IF pc[k] = "start" THEN Created(k)' ELSE Created(k)
    BY CallsStay DEF Created, Op
  <2>2. CASE pc[k] \in {"fill", "note"}
    <3>1. Created(k) /\ Path(k)' = Path(k)
      BY <1>3, <2>2, CallsStay DEF Created, Op, Path, Written
    <3>2. Path(k) \in Paths /\ RunOf[k] \in stood[Path(k)]
      BY <2>2, <3>1, Asked DEF TypeOK, Written
    <3>3. QED
      BY <3>1, <3>2, StoodGrows
  <2>3. CASE pc[k] \notin {"fill", "note"}
    <3>1. Open(k) \/ Unlink(k) \/ Rename(k)
      BY <1>3, <2>3, WhoWrites DEF Written
    <3>2. Op(k)' = Op(k) /\ pc[k] # "none"
      BY <3>1, CallsStay DEF Op, Open, Unlink, Rename
    <3>3. Op(k) = "write" /\ Open(k)
      BY <1>3, <3>1, <3>2 DEF Written, Created, Unlink, Rename
    <3>4. Created(k) /\ Path(k)' = Path(k)
      BY <1>3, <3>2, <3>3, CallsStay DEF Written, Created, Op, Path, Open
    <3>5. Target(k) = Path(k) /\ Path(k) \in Paths
      BY <3>2, <3>3, Asked DEF TypeOK
    <3>6. stood' = [stood EXCEPT ![Path(k)] = @ \cup {RunOf[k]}]
      <4>1. Opened(k).scratchOf = {RunOf[k]}
        <5>1. Opened(k) = Scratch(RunOf[k], k)
          BY <3>4 DEF Opened, Created
        <5>2. QED
          BY <5>1 DEF Scratch
      <4>2. pc'[k] = "fill"
        BY <1>3, <3>3 DEF Written, Open, Finish, Goto, TypeOK, CallsTypeOK
      <4>3. stood' = [stood EXCEPT ![Target(k)] = @ \cup Opened(k).scratchOf]
        BY <3>3, <4>2 DEF Open, Stands, Finish, TypeOK, CallsTypeOK
      <4>4. QED
        BY <3>5, <4>1, <4>3
    <3>7. QED
      BY <3>4, <3>5, <3>6 DEF TypeOK, FilesTypeOK
  <2>4. QED
    BY <2>2, <2>3
<1>4. ASSUME NEW k \in Calls, Moved(k)', ~Abandoned(RunOf[k])' PROVE RunOf[k] \in stood'[Target(k)']
  <2> DEFINE r == RunOf[k]
  <2>1. r \in Runs /\ ~Abandoned(r)
    BY <1>0, <1>2, <1>4
  <2>2. CASE pc[k] = "note"
    <3>1. Op(k)' = Op(k) /\ Path(k)' = Path(k) /\ Target(k)' = Target(k)
      BY <2>2, CallsStay DEF Op, Path, Target
    <3>2. Path(k) \in paths[r]
      <4>1. SUFFICES ASSUME Path(k) \notin paths[r] PROVE FALSE
        OBVIOUS
      <4>2. PICK c \in Calls : RunOf[c] = r /\ (Note(c) \/ Follow(c))
        BY <1>4, <2>1, <3>1, <4>1, WhoRegisters DEF Moved
      <4>3. c \notin abandoned /\ k \notin abandoned /\ pc[c] = "note" /\ pc'[c] = "done"
        BY <2>1, <4>2 DEF Abandoned, Note, Follow, Finish, TypeOK, CallsTypeOK
      <4>4. c = k
        BY <2>2, <4>2, <4>3 DEF AwaitInv, Over
      <4>5. QED
        BY <1>4, <4>3, <4>4 DEF Moved
    <3>3. Target(k) \in Paths /\ r \in stood[Target(k)]
      BY <1>4, <2>1, <2>2, <3>1, <3>2, Asked DEF Moved, TypeOK
    <3>4. QED
      BY <3>1, <3>3, StoodGrows
  <2>3. CASE pc[k] # "note"
    <3>1. Rename(k) \/ Unlink(k) \/ (Fill(k) /\ Op(k) = "write")
      BY <1>4, <2>3, WhoWrites DEF Moved
    <3>2. Op(k)' = Op(k) /\ Path(k)' = Path(k) /\ Target(k)' = Target(k) /\ pc[k] # "none"
      BY <3>1, CallsStay DEF Op, Path, Target, Rename, Unlink, Fill
    <3>3. Rename(k)
      BY <1>4, <3>1, <3>2 DEF Moved, Unlink
    <3>4. Path(k) \in Paths /\ Target(k) \in Paths
      BY <3>2, Asked DEF TypeOK
    <3>5. r \in stood[Path(k)]
      BY <1>4, <2>1, <3>2, <3>3 DEF Moved, Rename, LedgerStaysAtHome
    <3>6. stood' = [stood EXCEPT ![Target(k)] =
                       @ \cup (fs[Path(k)].scratchOf \cup (stood[Path(k)] \cap {r}))]
      BY <1>4, <3>3 DEF Moved, Rename, Stands, Finish, TypeOK, CallsTypeOK
    <3>7. QED
      BY <3>2, <3>4, <3>5, <3>6 DEF TypeOK, FilesTypeOK
  <2>4. QED
    BY <2>2, <2>3
<1>5. ASSUME NEW r \in Runs, ~Abandoned(r)', NEW p \in paths'[r] PROVE r \in stood'[p]
  <2>1. p \in Paths /\ ~Abandoned(r)
    BY <1>1, <1>2, <1>5 DEF TypeOK, RunsTypeOK
  <2>2. r \in stood[p]
    <3>1. CASE p \in paths[r]
      BY <2>1, <3>1 DEF LedgerStaysAtHome
    <3>2. CASE p \notin paths[r]
      <4>1. PICK c \in Calls :
              /\ RunOf[c] = r
              /\ \/ Note(c) /\ Created(c) /\ p = Path(c)
                 \/ Follow(c) /\ Path(c) \in paths[r] /\ p = Target(c)
        BY <3>2, WhoRegisters
      <4>2. CASE Note(c) /\ Created(c) /\ p = Path(c)
        BY <4>1, <4>2 DEF Note, Written
      <4>3. CASE Follow(c) /\ Path(c) \in paths[r] /\ p = Target(c)
        BY <2>1, <4>1, <4>3 DEF Follow, Moved
      <4>4. QED
        BY <4>1, <4>2, <4>3
    <3>3. QED
      BY <3>1, <3>2
  <2>3. QED
    BY <2>1, <2>2, StoodGrows
<1>6. LedgerStaysAtHome'
  BY <1>5 DEF LedgerStaysAtHome
<1>7. QED
  BY <1>1, <1>3, <1>4, <1>6

\* The ledger of a run none of whose calls was given up names only paths at which
\* a temporary file of the run has stood, or to which the run moved what was at
\* such a path: whatever other runs move, replace or delete meanwhile, the
\* clean-up leaves the rest of the disk alone.
THEOREM LedgerIsTheRunsOwn == Spec => []LedgerStaysAtHome
<1>1. Init => HomeInv
  <2> SUFFICES ASSUME Init PROVE HomeInv
    OBVIOUS
  <2>1. PointsInv /\ AwaitInv
    BY FileAssumption DEF Init, PointsInv, AwaitInv, Over
  <2>2. LedgerStaysAtHome /\ \A c \in Calls : ~Written(c) /\ ~Moved(c)
    BY FileAssumption DEF Init, LedgerStaysAtHome, Written, Moved
  <2>3. QED
    BY TypeInit, <2>1, <2>2 DEF HomeInv
<1>2. HomeInv => LedgerStaysAtHome
  BY DEF HomeInv
<1>3. QED
  BY <1>1, <1>2, HomeStep, PTL DEF Spec

-----------------------------------------------------------------------------
(* Temporary files *)

\* A run nothing went wrong in.
Sound(r) == run[r] # "failed" /\ ~Abandoned(r) /\ ~Botched(r)

\* The paths that the run will still clean up.
Known(r) == IF run[r] = "working" THEN paths[r] ELSE IF run[r] = "cleaning" THEN todo ELSE {}

\* The paths that the run's call under way is about to tell the ledger of.
Pending(r, p) ==
    \E c \in Calls : RunOf[c] = r /\ Target(c) = p /\ (Written(c) \/ Moved(c))

Covered(r, p) == p \in Known(r) \/ CarriedByOther(r, p) \/ Pending(r, p)

\* A path that is about to leave the ledger has no temporary file any more.
Left(c) ==
    /\ pc[c] = "note"
    /\ Op(c) = "delete" \/ (Op(c) = "move" /\ Path(c) # Target(c))
    /\ RunOf[c] \in fs[Path(c)].scratchOf
    => CarriedByOther(RunOf[c], Path(c))

\* A document that was read as a temporary file is still in the ledger.
ReadScratch(c) ==
    /\ pc[c] \in {"open", "save", "replace"} /\ Op(c) = "document_edit"
    /\ RunOf[c] \in got[c].scratchOf
    => Path(c) \in paths[RunOf[c]] \/ CarriedByOther(RunOf[c], Path(c))

ScratchInv ==
    /\ TypeOK /\ PointsInv /\ AwaitInv
    /\ \A r \in Runs : Sound(r) =>
          /\ \A p \in Paths : r \in fs[p].scratchOf => Covered(r, p)
          /\ \A c \in Calls : RunOf[c] = r => Left(c) /\ ReadScratch(c)

\* A path to which something was carried stays one ...
LEMMA CarriedStays ==
    ASSUME TypeOK, [Next]_vars, NEW r \in Runs, NEW p \in Paths, CarriedByOther(r, p)
    PROVE  CarriedByOther(r, p)'
<1>1. \A c \in Calls : pc[c] = "none" => Op(c) = "none"
  BY NotAsked DEF TypeOK
<1>2. \A c \in Calls : pc[c] # "none" => call'[c] = call[c]
  BY CallsStay
<1>3. ASSUME NEW c \in Calls, Op(c) \in {"move", "document_edit"}
      PROVE  Op(c)' = Op(c) /\ Path(c)' = Path(c) /\ Target(c)' = Target(c)
  BY <1>1, <1>2, <1>3 DEF Op, Path, Target
<1>4. ASSUME NEW S \in SUBSET Paths,
             \A c \in Calls : RunOf[c] # r /\ Op(c)' \in {"move", "document_edit"} => Target(c)' \in S,
             \A c \in Calls : Op(c)' = "move" /\ Path(c)' \in S => Target(c)' \in S
      PROVE  p \in S
  <2>1. \A c \in Calls : RunOf[c] # r /\ Op(c) \in {"move", "document_edit"} => Target(c) \in S
    BY <1>3, <1>4
  <2>2. \A c \in Calls : Op(c) = "move" /\ Path(c) \in S => Target(c) \in S
    BY <1>3, <1>4
  <2>3. QED
    BY <2>1, <2>2 DEF CarriedByOther
<1>5. QED
  BY <1>4 DEF CarriedByOther

\* ... the targets of other runs are such paths, and moving on leads to them.
LEMMA CarriedThere ==
    ASSUME NEW r \in Runs, NEW c \in Calls
    PROVE  /\ RunOf[c] # r /\ Op(c) \in {"move", "document_edit"} => CarriedByOther(r, Target(c))
           /\ Op(c) = "move" /\ CarriedByOther(r, Path(c)) => CarriedByOther(r, Target(c))
  BY DEF CarriedByOther

\* A call that is over stays as it ended.
LEMMA OverStays ==
    ASSUME TypeOK, [Next]_vars, NEW k \in Calls, pc[k] \in {"done", "failed"}
    PROVE  pc'[k] = pc[k]
<1> USE DEF TypeOK, CallsTypeOK
<1>1. ASSUME NEW c \in Calls, ThreadStep(c) PROVE pc'[k] = pc[k]
  BY <1>1, ThreadShape DEF UnderWay
<1>2. ASSUME NEW r \in Runs, NEW c \in Calls, NEW q \in Requests[r], Invoke(r, c, q)
      PROVE  pc'[k] = pc[k]
  BY <1>2 DEF Invoke
<1>3. ASSUME NEW r \in Runs,
             TimeOut(r) \/ RunFails(r) \/ Answer(r) \/ CleanedUp(r) \/ \E p \in Paths : CleanOne(r, p)
      PROVE  pc' = pc
  BY <1>3 DEF TimeOut, RunFails, Answer, CleanedUp, CleanOne, threads
<1>4. QED
  BY <1>1, <1>2, <1>3 DEF Next, vars, threads

\* What went wrong in a run cannot be undone.
LEMMA SoundBefore ==
    ASSUME TypeOK, [Next]_vars, NEW r \in Runs, Sound(r)'
    PROVE  Sound(r)
<1>1. ~Abandoned(r)
  BY AbandonedStays DEF Sound, Abandoned
<1>2. run[r] # "failed"
  <2>1. ASSUME NEW c \in Calls, ThreadStep(c) PROVE run' = run
    BY <2>1, ThreadShape
  <2>2. ASSUME NEW s \in Runs,
               \/ \E c \in Calls, q \in Requests[s] : Invoke(s, c, q)
               \/ TimeOut(s) \/ RunFails(s) \/ Answer(s) \/ CleanedUp(s)
               \/ \E q \in Paths : CleanOne(s, q)
        PROVE  run[r] = "failed" => run'[r] = "failed"
    BY <2>2 DEF Invoke, TimeOut, RunFails, Answer, CleanedUp, CleanOne, TypeOK, RunsTypeOK
  <2>3. run[r] = "failed" => run'[r] = "failed"
    BY <2>1, <2>2 DEF Next, vars
  <2>4. QED
    BY <2>3 DEF Sound
<1>3. ~Botched(r)
  <2>1. ASSUME NEW c \in Calls, pc[c] = "failed", Created(c), RunOf[c] = r PROVE FALSE
    <3>1. call'[c] = call[c] /\ got'[c] = got[c] /\ pc'[c] = "failed"
      BY <2>1, CallsStay, OverStays
    <3>2. QED
      BY <2>1, <3>1 DEF Sound, Botched, Created, Op
  <2>2. QED
    BY <2>1 DEF Botched
<1>4. QED
  BY <1>1, <1>2, <1>3 DEF Sound

\* A sound run has at most one call under way, and only while it works.
LEMMA OneAtATime ==
    ASSUME TypeOK, AwaitInv, NEW r \in Runs, Sound(r), NEW c \in Calls, RunOf[c] = r, pc[c] \in UnderWay
    PROVE  /\ run[r] = "working" /\ current[r] = c
           /\ \A k \in Calls : RunOf[k] = r /\ pc[k] \in UnderWay => k = c
<1>1. \A k \in Calls : RunOf[k] = r /\ pc[k] \in UnderWay => current[r] = k
  BY DEF AwaitInv, Sound, Abandoned, UnderWay, Over
<1>2. c # 0
  BY FileAssumption
<1>3. run[r] = "working"
  BY <1>1, <1>2 DEF AwaitInv, Sound, TypeOK, RunsTypeOK
<1>4. QED
  BY <1>1, <1>3

\* How a run's temporary file comes to be at a path.
LEMMA WhereScratch ==
    ASSUME TypeOK, [Next]_vars, NEW r \in Runs, NEW p \in Paths, r \in fs'[p].scratchOf
    PROVE  \/ r \in fs[p].scratchOf
           \/ \E c \in Calls :
                 \/ Open(c) /\ Created(c) /\ RunOf[c] = r /\ p = Target(c) /\ pc'[c] = "fill"
                 \/ Rename(c) /\ p = Target(c) /\ r \in fs[Path(c)].scratchOf /\ pc'[c] = "note"
                 \/ Replace(c) /\ p = Path(c) /\ r \in got[c].scratchOf
<1> USE DEF TypeOK, FilesTypeOK, CallsTypeOK
<1>0. Absent.scratchOf = {} /\ \A c \in Calls \cup {0} : Kept(c).scratchOf = {}
  BY DEF Absent, Kept
<1>1. ASSUME NEW c \in Calls, ThreadStep(c), r \notin fs[p].scratchOf
      PROVE  \/ Open(c) /\ Created(c) /\ RunOf[c] = r /\ p = Target(c) /\ pc'[c] = "fill"
             \/ Rename(c) /\ p = Target(c) /\ r \in fs[Path(c)].scratchOf /\ pc'[c] = "note"
             \/ Replace(c) /\ p = Path(c) /\ r \in got[c].scratchOf
  <2>1. Path(c) \in Paths /\ Target(c) \in Paths /\ call[c].to \in Paths
        /\ (Op(c) \notin {"copy", "move"} => Target(c) = Path(c))
    BY <1>1, ThreadShape, Asked DEF UnderWay
  <2>2. CASE Open(c)
    <3>1. p = Target(c) /\ fs'[p] = Opened(c) /\ pc'[c] = "fill"
      BY <1>1, <2>1, <2>2 DEF Open, Goto
    <3>2. CASE Created(c)
      <4>1. Opened(c) = Scratch(RunOf[c], c)
        BY <3>2 DEF Opened, Created
      <4>2. RunOf[c] = r
        BY <3>1, <4>1 DEF Scratch
      <4>3. QED
        BY <2>2, <3>1, <3>2, <4>2
    <3>3. CASE ~Created(c) /\ Op(c) = "code_edit"
      <4>1. Opened(c) = [fs[Path(c)] EXCEPT !.there = TRUE, !.broken = c]
        BY <3>3 DEF Opened
      <4>2. Opened(c).scratchOf = fs[Path(c)].scratchOf /\ Path(c) = p
        BY <2>1, <3>1, <3>3, <4>1 DEF File
      <4>3. QED
        BY <1>1, <3>1, <4>2
    <3>4. CASE ~Created(c) /\ Op(c) # "code_edit"
      <4>1. Opened(c) = Kept(c)
        BY <3>4 DEF Opened
      <4>2. QED
        BY <1>0, <3>1, <4>1
    <3>5. QED
      BY <3>2, <3>3, <3>4
  <2>3. CASE Fill(c)
    <3>1. fs'[p] = fs[p] \/ fs'[p] = [fs[p] EXCEPT !.broken = 0]
      BY <2>3 DEF Fill
    <3>2. [fs[p] EXCEPT !.broken = 0].scratchOf = fs[p].scratchOf
      BY DEF File
    <3>3. QED
      BY <1>1, <3>1, <3>2
  <2>4. CASE Replace(c)
    <3> DEFINE saved == [there |-> TRUE,
                         scratchOf |-> IF call[c].to = Path(c) THEN got[c].scratchOf ELSE {},
                         broken |-> IF Spoilt(c) THEN c ELSE 0]
    <3>1. fs' = fs \/ fs' = [fs EXCEPT ![call[c].to] = saved]
      BY <2>4 DEF Replace
    <3>2. saved.scratchOf = IF call[c].to = Path(c) THEN got[c].scratchOf ELSE {}
      OBVIOUS
    <3> HIDE DEF saved
    <3>3. QED
      BY <1>1, <2>1, <2>4, <3>1, <3>2
  <2>5. CASE Rename(c)
    BY <1>0, <1>1, <2>1, <2>5 DEF Rename, Goto
  <2>6. CASE Unlink(c) \/ Command(c)
    BY <1>0, <1>1, <2>1, <2>6 DEF Unlink, Command
  <2>7. CASE fs' = fs
    BY <1>1, <2>7
  <2>8. QED
    BY <1>1, <2>2, <2>3, <2>4, <2>5, <2>6, <2>7
    DEF ThreadStep, Look, Note, MakeSibling, Save, Discard, Follow
<1>2. ASSUME NEW s \in Runs, NEW q \in Paths, CleanOne(s, q) PROVE r \in fs[p].scratchOf
  BY <1>0, <1>2 DEF CleanOne
<1>3. CASE fs' = fs
  BY <1>3
<1>4. ASSUME NEW s \in Runs,
             \/ \E c \in Calls, q \in Requests[s] : Invoke(s, c, q)
             \/ TimeOut(s) \/ RunFails(s) \/ Answer(s) \/ CleanedUp(s)
      PROVE  fs' = fs
  BY <1>4 DEF Invoke, TimeOut, RunFails, Answer, CleanedUp
<1>5. QED
  BY <1>1, <1>2, <1>3, <1>4 DEF Next, vars

\* Only its own thread moves a call on.
LEMMA OnlyItsThread ==
    ASSUME TypeOK, [Next]_vars, NEW k \in Calls, pc[k] # "none", pc'[k] # pc[k]
    PROVE  ThreadStep(k)
<1> USE DEF TypeOK, CallsTypeOK
<1>1. ASSUME NEW c \in Calls, ThreadStep(c) PROVE c = k
  BY <1>1, ThreadShape
<1>2. ASSUME NEW r \in Runs, NEW c \in Calls, NEW q \in Requests[r], Invoke(r, c, q)
      PROVE  FALSE
  BY <1>2 DEF Invoke
<1>3. ASSUME NEW r \in Runs,
             TimeOut(r) \/ RunFails(r) \/ Answer(r) \/ CleanedUp(r) \/ \E p \in Paths : CleanOne(r, p)
      PROVE  FALSE
  BY <1>3 DEF TimeOut, RunFails, Answer, CleanedUp, CleanOne, threads
<1>4. QED
  BY <1>1, <1>2, <1>3 DEF Next, vars, threads

\* How a path gets out of a ledger.
LEMMA WhoForgets ==
    ASSUME TypeOK, [Next]_vars, NEW r \in Runs, NEW p \in paths[r], p \notin paths'[r]
    PROVE  \/ CleanedUp(r)
           \/ \E c \in Calls :
                 /\ RunOf[c] = r /\ p = Path(c)
                 /\ Discard(c) \/ (Follow(c) /\ Path(c) # Target(c))
<1> USE DEF TypeOK, RunsTypeOK
<1>1. ASSUME NEW c \in Calls, ThreadStep(c)
      PROVE  /\ RunOf[c] = r /\ p = Path(c)
             /\ Discard(c) \/ (Follow(c) /\ Path(c) # Target(c))
  <2>0. RunOf[c] \in Runs
    BY FileAssumption
  <2>1. CASE Note(c)
    BY <2>0, <2>1 DEF Note, Register
  <2>2. CASE Follow(c)
    BY <2>0, <2>2 DEF Follow, MoveArtifact
  <2>3. CASE Discard(c)
    BY <2>0, <2>3 DEF Discard
  <2>4. CASE paths' = paths
    BY <2>4
  <2>5. QED
    BY <1>1, <2>1, <2>2, <2>3, <2>4
    DEF ThreadStep, Look, Open, Fill, MakeSibling, Save, Replace, Unlink, Rename, Command
<1>2. ASSUME NEW s \in Runs,
             \/ \E c \in Calls, q \in Requests[s] : Invoke(s, c, q)
             \/ TimeOut(s) \/ RunFails(s) \/ Answer(s) \/ \E q \in Paths : CleanOne(s, q)
      PROVE  paths' = paths
  BY <1>2 DEF Invoke, TimeOut, RunFails, Answer, CleanOne
<1>3. ASSUME NEW s \in Runs, CleanedUp(s) PROVE s = r
  BY <1>3 DEF CleanedUp
<1>4. QED
  BY <1>1, <1>2, <1>3 DEF Next, vars

\* While a call of a sound run is under way and is not at its last step, the ledger
\* loses nothing.
LEMMA LedgerKeeps ==
    ASSUME TypeOK, AwaitInv, [Next]_vars, NEW r \in Runs, Sound(r),
           NEW c \in Calls, RunOf[c] = r, pc[c] \in UnderWay, pc'[c] \in UnderWay
    PROVE  paths[r] \subseteq paths'[r]
<1>1. SUFFICES ASSUME NEW p \in paths[r], p \notin paths'[r] PROVE FALSE
  OBVIOUS
<1>2. run[r] = "working" /\ \A k \in Calls : RunOf[k] = r /\ pc[k] \in UnderWay => k = c
  BY OneAtATime
<1>3. ~CleanedUp(r)
  BY <1>2 DEF CleanedUp
<1>4. PICK k \in Calls : RunOf[k] = r /\ (Discard(k) \/ Follow(k))
  BY <1>1, <1>3, WhoForgets
<1>5. pc[k] = "note" /\ pc'[k] = "done"
  BY <1>4 DEF Discard, Follow, Finish, TypeOK, CallsTypeOK
<1>6. QED
  BY <1>2, <1>4, <1>5 DEF UnderWay

\* What the call under way is about to tell the ledger of stays covered.
LEMMA PendingStays ==
    ASSUME ScratchInv, [Next]_vars, NEW r \in Runs, Sound(r)', NEW c \in Calls, RunOf[c] = r,
           Written(c) \/ Moved(c)
    PROVE  Covered(r, Target(c))'
<1> USE DEF ScratchInv
<1>1. Sound(r) /\ pc[c] \in UnderWay /\ pc[c] # "none" /\ pc[c] # "start"
  BY SoundBefore DEF Written, Moved, UnderWay
<1>2. /\ call'[c] = call[c] /\ got'[c] = got[c]
      /\ Op(c)' = Op(c) /\ Path(c)' = Path(c) /\ Target(c)' = Target(c)
  BY <1>1, CallsStay DEF Op, Path, Target
<1>3. run[r] = "working" /\ Target(c) \in Paths /\ RunOf[c] \in Runs
      /\ (Op(c) = "write" => Target(c) = Path(c))
  BY <1>1, OneAtATime, Asked DEF TypeOK
<1>4. CASE Written(c)
  <2>1. Created(c)' = Created(c) /\ Created(c) /\ Op(c) = "write"
    BY <1>2, <1>4 DEF Created, Op, Written
  <2>2. CASE pc'[c] \in {"fill", "note"}
    BY <1>2, <2>1, <2>2 DEF Covered, Pending, Written
  <2>3. CASE pc'[c] \notin {"fill", "note"}
    <3>1. ThreadStep(c)
      BY <1>1, <1>4, <2>3, OnlyItsThread DEF Written
    <3>2. Fill(c) \/ Note(c)
      BY <1>4, <2>1, <3>1 DEF Written, ThreadStep, Look, Open, MakeSibling, Save, Replace, Unlink,
         Discard, Rename, Follow, Command
    <3>3. ~Fill(c)
      <4>1. SUFFICES ASSUME Fill(c) PROVE FALSE
        OBVIOUS
      <4>2. pc'[c] = "failed"
        BY <2>1, <2>3, <4>1 DEF Fill, Goto, Finish, TypeOK, CallsTypeOK
      <4>3. Botched(r)'
        BY <2>1, <4>2 DEF Botched
      <4>4. QED
        BY <4>3 DEF Sound
    <3>4. Path(c) \in paths'[r] /\ run'[r] = "working"
      BY <1>3, <2>1, <3>1, <3>2, <3>3, ThreadShape DEF Note, Register, TypeOK, RunsTypeOK
    <3>5. QED
      BY <1>2, <1>3, <2>1, <3>4 DEF Covered, Known
  <2>4. QED
    BY <2>2, <2>3
<1>5. CASE Moved(c)
  <2>1. pc[c] = "note" /\ Op(c) = "move" /\ Path(c) \in paths[r]
    BY <1>5 DEF Moved
  <2>2. CASE pc'[c] = "note"
    <3>1. paths[r] \subseteq paths'[r]
      BY <1>1, <2>2, LedgerKeeps DEF UnderWay
    <3>2. QED
      BY <1>2, <2>1, <2>2, <3>1 DEF Covered, Pending, Moved
  <2>3. CASE pc'[c] # "note"
    <3>1. ThreadStep(c)
      BY <1>1, <2>1, <2>3, OnlyItsThread
    <3>2. Follow(c)
      BY <2>1, <3>1 DEF ThreadStep, Look, Open, Fill, Note, MakeSibling, Save, Replace, Unlink,
         Discard, Rename, Command
    <3>3. Target(c) \in paths'[r] /\ run'[r] = "working"
      BY <1>3, <2>1, <3>1, <3>2, ThreadShape DEF Follow, MoveArtifact, TypeOK, RunsTypeOK
    <3>4. QED
      BY <1>2, <3>3 DEF Covered, Known
  <2>4. QED
    BY <2>2, <2>3
<1>6. QED
  BY <1>4, <1>5

\* What the run will clean up stays covered, until it is cleaned up.
LEMMA KnownStays ==
    ASSUME ScratchInv, [Next]_vars, NEW r \in Runs, Sound(r)', NEW p \in Known(r), p \in Paths,
           r \in fs[p].scratchOf, r \in fs'[p].scratchOf
    PROVE  Covered(r, p)'
<1> USE DEF ScratchInv
<1>1. Sound(r)
  BY SoundBefore
<1>2. CASE run[r] = "working"
  <2>1. p \in paths[r]
    BY <1>2 DEF Known
  <2>2. run'[r] = "working" \/ (run'[r] = "cleaning" /\ todo' = paths[r])
    <3>1. ASSUME NEW c \in Calls, ThreadStep(c) PROVE run' = run
      BY <3>1, ThreadShape
    <3>2. ASSUME NEW s \in Runs,
                 \/ \E c \in Calls, q \in Requests[s] : Invoke(s, c, q)
                 \/ TimeOut(s) \/ CleanedUp(s) \/ \E q \in Paths : CleanOne(s, q)
          PROVE  run'[r] = "working"
      BY <1>2, <3>2 DEF Invoke, TimeOut, CleanedUp, CleanOne, TypeOK, RunsTypeOK
    <3>3. ASSUME NEW s \in Runs, RunFails(s) \/ Answer(s)
          PROVE  run'[r] = "working" \/ (run'[r] = "cleaning" /\ todo' = paths[r])
      BY <1>2, <3>3 DEF RunFails, Answer, TypeOK, RunsTypeOK, Sound
    <3>4. QED
      BY <1>2, <3>1, <3>2, <3>3 DEF Next, vars
  <2>3. CASE p \notin paths'[r]
    <3>1. PICK c \in Calls :
            /\ RunOf[c] = r /\ p = Path(c)
            /\ Discard(c) \/ (Follow(c) /\ Path(c) # Target(c))
      BY <1>2, <2>1, <2>3, WhoForgets DEF CleanedUp
    <3>2. CarriedByOther(r, p)
      BY <1>1, <3>1 DEF Left, Discard, Follow
    <3>3. QED
      BY <3>2, CarriedStays DEF Covered
  <2>4. CASE p \in paths'[r]
    BY <2>1, <2>2, <2>4 DEF Covered, Known
  <2>5. QED
    BY <2>3, <2>4
<1>3. CASE run[r] = "cleaning"
  <2>1. p \in todo
    BY <1>3 DEF Known
  <2>2. run'[r] = "cleaning" /\ p \in todo'
    <3>1. ASSUME NEW c \in Calls, ThreadStep(c) PROVE UNCHANGED <<run, todo>>
      BY <3>1, ThreadShape
    <3>2. ASSUME NEW s \in Runs,
                 \/ \E c \in Calls, q \in Requests[s] : Invoke(s, c, q)
                 \/ TimeOut(s) \/ RunFails(s) \/ Answer(s)
          PROVE  FALSE
      BY <1>3, <3>2 DEF Invoke, TimeOut, RunFails, Answer, LoopFree
    <3>3. ASSUME NEW s \in Runs, CleanedUp(s) PROVE FALSE
      BY <2>1, <3>3 DEF CleanedUp
    <3>4. ASSUME NEW s \in Runs, NEW q \in Paths, CleanOne(s, q)
          PROVE  run'[r] = "cleaning" /\ p \in todo'
      <4>1. s = r
        BY <1>3, <3>4 DEF CleanOne, AwaitInv
      <4>2. /\ fs' = [fs EXCEPT ![q] = Absent]
            /\ todo' = todo \ {q} /\ run' = run
        BY <3>4, <4>1 DEF CleanOne, Sound, TypeOK, RunsTypeOK
      <4>3. q # p
        BY <4>2 DEF Absent, TypeOK, FilesTypeOK
      <4>4. QED
        BY <1>3, <2>1, <4>2, <4>3
    <3>5. QED
      BY <1>3, <2>1, <3>1, <3>2, <3>3, <3>4 DEF Next, vars
  <2>3. QED
    BY <2>2 DEF Covered, Known
<1>4. QED
  BY <1>2, <1>3 DEF Known

\* A sound run covers its temporary files after every step.
LEMMA CoveredStep ==
    ASSUME ScratchInv, [Next]_vars, NEW r \in Runs, Sound(r)', NEW p \in Paths, r \in fs'[p].scratchOf
    PROVE  Covered(r, p)'
<1> USE DEF ScratchInv
<1>1. Sound(r)
  BY SoundBefore
<1>2. ASSUME Covered(r, p), r \in fs[p].scratchOf PROVE Covered(r, p)'
  <2>1. CASE p \in Known(r)
    BY <1>2, <2>1, KnownStays
  <2>2. CASE CarriedByOther(r, p)
    BY <2>2, CarriedStays DEF Covered
  <2>3. ASSUME NEW c \in Calls, RunOf[c] = r, Target(c) = p, Written(c) \/ Moved(c)
        PROVE  Covered(r, p)'
    <3>1. Target(c)' = Target(c)
      BY <2>3, CallsStay DEF Written, Moved, Op, Path, Target
    <3>2. Covered(r, Target(c))'
      BY <2>3, PendingStays
    <3>3. QED
      BY <2>3, <3>1, <3>2 DEF Covered, CarriedByOther, Pending
  <2>4. QED
    BY <1>2, <2>1, <2>2, <2>3 DEF Covered, Pending
<1>3. CASE r \in fs[p].scratchOf
  BY <1>1, <1>2, <1>3
<1>4. ASSUME NEW c \in Calls, Open(c), Created(c), RunOf[c] = r, p = Target(c), pc'[c] = "fill"
      PROVE  Covered(r, p)'
  <2>1. call'[c] = call[c] /\ got'[c] = got[c]
    BY <1>4, CallsStay DEF Open
  <2>2. Written(c)' /\ Target(c)' = p
    BY <1>4, <2>1 DEF Written, Created, Op, Path, Target
  <2>3. QED
    BY <1>4, <2>2 DEF Covered, Pending
<1>5. ASSUME NEW c \in Calls, Rename(c), p = Target(c), r \in fs[Path(c)].scratchOf, pc'[c] = "note"
      PROVE  Covered(r, p)'
  <2>1. pc[c] = "start" /\ Op(c) = "move" /\ paths' = paths
    BY <1>5 DEF Rename
  <2>2. call'[c] = call[c] /\ Path(c) \in Paths
    BY <2>1, CallsStay, Asked DEF TypeOK
  <2>3. CASE RunOf[c] # r \/ CarriedByOther(r, Path(c))
    BY <1>5, <2>1, <2>3, CarriedThere, CarriedStays DEF Covered
  <2>4. CASE RunOf[c] = r /\ ~CarriedByOther(r, Path(c))
    <3>1. run[r] = "working" /\ \A k \in Calls : RunOf[k] = r /\ pc[k] \in UnderWay => k = c
      BY <1>1, <2>1, <2>4, OneAtATime DEF UnderWay
    <3>2. ~Pending(r, Path(c))
      BY <2>1, <3>1 DEF Pending, Written, Moved, UnderWay
    <3>3. Path(c) \in paths[r]
      BY <1>1, <1>5, <2>2, <2>4, <3>1, <3>2 DEF Covered, Known
    <3>4. Moved(c)' /\ Target(c)' = p
      BY <1>5, <2>1, <2>2, <2>4, <3>3 DEF Moved, Op, Path, Target
    <3>5. QED
      BY <2>4, <3>4 DEF Covered, Pending
  <2>5. QED
    BY <2>3, <2>4
<1>6. ASSUME NEW c \in Calls, Replace(c), p = Path(c), r \in got[c].scratchOf PROVE Covered(r, p)'
  <2>1. pc[c] = "replace" /\ Op(c) = "document_edit" /\ Target(c) = Path(c) /\ paths' = paths
    BY <1>6, Asked DEF Replace, PointsInv, TypeOK
  <2>2. CASE RunOf[c] # r
    BY <1>6, <2>1, <2>2, CarriedThere, CarriedStays DEF Covered
  <2>3. CASE RunOf[c] = r
    <3>1. run[r] = "working"
      BY <1>1, <2>1, <2>3, OneAtATime DEF UnderWay
    <3>2. run' = run
      BY <1>6, ThreadShape DEF ThreadStep
    <3>3. p \in paths[r] \/ CarriedByOther(r, p)
      BY <1>1, <1>6, <2>1, <2>3 DEF ReadScratch
    <3>4. QED
      BY <2>1, <3>1, <3>2, <3>3, CarriedStays DEF Covered, Known
  <2>4. QED
    BY <2>2, <2>3
<1>7. QED
  BY <1>3, <1>4, <1>5, <1>6, WhereScratch

\* Where a call of a sound run has deleted or moved a file, it leaves no scratch
\* file of the run but one that another run carried there.
LEMMA LeftStep ==
    ASSUME ScratchInv, [Next]_vars, NEW c \in Calls, Sound(RunOf[c])'
    PROVE  Left(c)'
<1> USE DEF ScratchInv
<1> DEFINE r == RunOf[c]
<1>1. r \in Runs /\ Sound(r)
  BY SoundBefore, FileAssumption
<1>2. SUFFICES ASSUME pc'[c] = "note",
                      Op(c)' = "delete" \/ (Op(c)' = "move" /\ Path(c)' # Target(c)'),
                      r \in fs'[Path(c)'].scratchOf
               PROVE  CarriedByOther(r, Path(c))'
  BY DEF Left
<1>3. pc[c] # "none"
  <2>1. CASE pc'[c] = pc[c]
    BY <1>2, <2>1
  <2>2. CASE pc'[c] # pc[c]
    BY <1>2, <2>2, WhoWrites DEF Open, Unlink, Rename
  <2>3. QED
    BY <2>1, <2>2
<1>4. Op(c)' = Op(c) /\ Path(c)' = Path(c) /\ Target(c)' = Target(c)
  BY <1>3, CallsStay DEF Op, Path, Target
<1>5. Path(c) \in Paths /\ Target(c) \in Paths
  BY <1>3, Asked DEF TypeOK
<1>6. pc[c] = "note"
  <2>1. SUFFICES ASSUME pc[c] # "note" PROVE FALSE
    OBVIOUS
  <2>2. Unlink(c) \/ Rename(c)
    BY <1>2, <1>4, <2>1, WhoWrites
  <2>3. fs'[Path(c)] = Absent
    BY <1>2, <1>4, <1>5, <2>2 DEF Unlink, Rename, Finish, TypeOK, CallsTypeOK, FilesTypeOK
  <2>4. QED
    BY <1>2, <1>4, <2>3 DEF Absent
<1>7. \A k \in Calls : RunOf[k] = r /\ pc[k] \in UnderWay => k = c
  BY <1>1, <1>6, OneAtATime DEF UnderWay
<1>8. CarriedByOther(r, Path(c))
  <2>1. CASE r \in fs[Path(c)].scratchOf
    BY <1>1, <1>2, <1>4, <1>6, <2>1 DEF Left
  <2>2. ASSUME NEW k \in Calls,
               \/ Open(k) /\ Created(k) /\ RunOf[k] = r /\ Path(c) = Target(k)
               \/ Rename(k) /\ Path(c) = Target(k)
               \/ Replace(k) /\ Path(c) = Path(k)
        PROVE  CarriedByOther(r, Path(c))
    <3>1. pc[k] \in {"open", "start", "replace"}
      BY <2>2 DEF Open, Rename, Replace
    <3>2. RunOf[k] # r
      BY <1>6, <1>7, <3>1 DEF UnderWay
    <3>3. (Rename(k) /\ Op(k) = "move") \/ (Replace(k) /\ Op(k) = "document_edit" /\ Target(k) = Path(k))
      BY <2>2, <3>1, <3>2, Asked DEF Rename, Replace, PointsInv, TypeOK
    <3>4. Path(c) = Target(k)
      BY <2>2, <3>2, <3>3 DEF Rename, Replace
    <3>5. QED
      BY <1>1, <3>2, <3>3, <3>4, CarriedThere
  <2>3. QED
    BY <1>1, <1>2, <1>4, <1>5, <2>1, <2>2, WhereScratch
<1>9. QED
  BY <1>1, <1>4, <1>5, <1>8, CarriedStays

\* A document edit of a sound run has read a scratch file only where the ledger
\* knows it, or where another run carried it.
LEMMA ReadStep ==
    ASSUME ScratchInv, [Next]_vars, NEW c \in Calls, Sound(RunOf[c])'
    PROVE  ReadScratch(c)'
<1> USE DEF ScratchInv
<1> DEFINE r == RunOf[c]
<1>1. r \in Runs /\ Sound(r)
  BY SoundBefore, FileAssumption
<1>2. SUFFICES ASSUME pc'[c] \in {"open", "save", "replace"}, Op(c)' = "document_edit",
                      r \in got'[c].scratchOf
               PROVE  Path(c)' \in paths'[r] \/ CarriedByOther(r, Path(c))'
  BY DEF ReadScratch
<1>3. pc[c] \in UnderWay
  <2>1. CASE pc'[c] = pc[c]
    BY <1>2, <2>1 DEF UnderWay
  <2>2. CASE pc'[c] # pc[c] /\ pc[c] # "none"
    BY <2>2, OnlyItsThread, ThreadShape
  <2>3. CASE pc[c] = "none"
    <3>1. ASSUME NEW k \in Calls, ThreadStep(k) PROVE pc'[c] = "none"
      BY <2>3, <3>1, ThreadShape DEF UnderWay, TypeOK, CallsTypeOK
    <3>2. ASSUME NEW s \in Runs, NEW k \in Calls, NEW q \in Requests[s], Invoke(s, k, q)
          PROVE  pc'[c] \in {"none", "start"}
      BY <2>3, <3>2 DEF Invoke, TypeOK, CallsTypeOK
    <3>3. ASSUME NEW s \in Runs,
                 TimeOut(s) \/ RunFails(s) \/ Answer(s) \/ CleanedUp(s) \/ \E p \in Paths : CleanOne(s, p)
          PROVE  pc' = pc
      BY <3>3 DEF TimeOut, RunFails, Answer, CleanedUp, CleanOne, threads
    <3>4. QED
      BY <1>2, <2>3, <3>1, <3>2, <3>3 DEF Next, vars, threads
  <2>4. QED
    BY <2>1, <2>2, <2>3
<1>4. Op(c)' = Op(c) /\ Path(c)' = Path(c) /\ Target(c)' = Target(c)
  BY <1>3, CallsStay DEF Op, Path, Target, UnderWay
<1>5. Path(c) \in Paths
  BY <1>3, Asked DEF TypeOK, UnderWay
<1>6. run[r] = "working" /\ \A k \in Calls : RunOf[k] = r /\ pc[k] \in UnderWay => k = c
  BY <1>1, <1>3, OneAtATime
<1>7. paths[r] \subseteq paths'[r]
  BY <1>1, <1>2, <1>3, LedgerKeeps DEF UnderWay
<1>8. Path(c) \in paths[r] \/ CarriedByOther(r, Path(c))
  <2>1. CASE pc[c] # "start"
    <3>1. pc[c] \in {"open", "save", "replace"}
      <4>1. CASE pc'[c] = pc[c]
        BY <1>2, <4>1
      <4>2. CASE pc'[c] # pc[c]
        <5>1. ThreadStep(c)
          BY <1>3, <4>2, OnlyItsThread DEF UnderWay
        <5>2. pc[c] \notin {"fill", "note"}
          BY <1>2, <1>4, <5>1 DEF PointsInv
        <5>3. QED
          BY <1>3, <2>1, <5>2 DEF UnderWay
      <4>3. QED
        BY <4>1, <4>2
    <3>2. got'[c] = got[c]
      BY <1>3, <2>1, CallsStay DEF UnderWay
    <3>3. QED
      BY <1>1, <1>2, <1>4, <3>1, <3>2 DEF ReadScratch
  <2>2. CASE pc[c] = "start"
    <3>1. ThreadStep(c)
      BY <1>2, <2>2, OnlyItsThread
    <3>2. Look(c)
      BY <1>4, <1>2, <2>2, <3>1 DEF ThreadStep, Open, Fill, Note, MakeSibling, Save, Replace, Unlink,
         Discard, Rename, Follow, Command
    <3>3. got'[c] = fs[Path(c)]
      BY <3>2 DEF Look, TypeOK, FilesTypeOK
    <3>4. Covered(r, Path(c))
      BY <1>1, <1>2, <1>5, <3>3
    <3>5. ~Pending(r, Path(c))
      BY <1>6, <2>2 DEF Pending, Written, Moved, UnderWay
    <3>6. QED
      BY <1>6, <3>4, <3>5 DEF Covered, Known
  <2>3. QED
    BY <2>1, <2>2
<1>9. QED
  BY <1>1, <1>4, <1>5, <1>7, <1>8, CarriedStays

\* A run that hands out its answer leaves none of its temporary files behind,
\* wherever its own calls had written, moved or edited them, unless another run had
\* a hand in it, one of its calls was given up, or one failed half-way through the
\* file it had created.
THEOREM AnswersLeaveNoScratch == Spec => []AnswerLeavesNoScratch
<1>1. Init => ScratchInv
  <2> SUFFICES ASSUME Init PROVE ScratchInv
    OBVIOUS
  <2>1. PointsInv /\ AwaitInv
    BY FileAssumption DEF Init, PointsInv, AwaitInv, Over
  <2>2. \A p \in Paths : fs[p].scratchOf = {}
    BY DEF Init, Absent, Kept
  <2>3. \A c \in Calls : Left(c) /\ ReadScratch(c)
    BY DEF Init, Left, ReadScratch
  <2>4. QED
    BY TypeInit, <2>1, <2>2, <2>3 DEF ScratchInv
<1>2. ScratchInv /\ [Next]_vars => ScratchInv'
  <2> SUFFICES ASSUME ScratchInv, [Next]_vars PROVE ScratchInv'
    OBVIOUS
  <2>1. TypeOK' /\ PointsInv' /\ AwaitInv'
    BY CallsStep, RunsStep, FilesStep, PointsStep, AwaitStep DEF ScratchInv, TypeOK
  <2>2. ASSUME NEW r \in Runs, Sound(r)', NEW p \in Paths, r \in fs'[p].scratchOf PROVE Covered(r, p)'
    BY <2>2, CoveredStep
  <2>3. ASSUME NEW r \in Runs, Sound(r)', NEW c \in Calls, RunOf[c] = r PROVE Left(c)' /\ ReadScratch(c)'
    BY <2>3, LeftStep, ReadStep
  <2>4. QED
    BY <2>1, <2>2, <2>3 DEF ScratchInv
<1>3. ScratchInv => AnswerLeavesNoScratch
  <2>1. SUFFICES ASSUME ScratchInv, NEW r \in Runs, run[r] = "answered", ~Abandoned(r), ~Botched(r),
                        NEW p \in Paths, r \in fs[p].scratchOf
                 PROVE  CarriedByOther(r, p)
    BY DEF AnswerLeavesNoScratch
  <2>2. Covered(r, p) /\ Sound(r)
    BY <2>1 DEF ScratchInv, Sound
  <2>3. \A c \in Calls : RunOf[c] = r => pc[c] \notin UnderWay
    BY <2>1, <2>2, OneAtATime DEF ScratchInv
  <2>4. ~Pending(r, p)
    BY <2>3 DEF Pending, Written, Moved, UnderWay
  <2>5. p \notin Known(r)
    BY <2>1 DEF Known
  <2>6. QED
    BY <2>2, <2>4, <2>5 DEF Covered
<1>4. QED
  BY <1>1, <1>2, <1>3, PTL DEF Spec

=============================================================================
