------------------------ MODULE RunProcesses_proofs ------------------------
(***************************************************************************)
(* Theorems about RunProcesses, for any number of browsers and elements    *)
(* and any bounds.                                                         *)
(***************************************************************************)
EXTENDS RunProcesses, FiniteSetTheorems, TLAPS

-----------------------------------------------------------------------------
(* Types *)

AtBrowser == {"start", "launch", "goto", "undo", "count", "press", "shut", "shoot"}

\* A browser call under way names a browser.
CallInv == pc \in AtBrowser => call.b \in Browsers

\* A driver that the manager knows is alive until the run is over.
Counted == known /\ pc # "over" => drivers # 0

Typed == TypeOK /\ CallInv /\ Counted

\* There is an order of all the elements.
LEMMA WholeIsAnOrder == Whole \in Orders
<1> DEFINE n == Cardinality(Elements)
<1>1. n \in Nat \ {0} /\ ExistsBijection(1 .. n, Elements)
  BY ProcessAssumption, FS_CardinalityType, FS_EmptySet
<1>2. PICK s \in [1 .. n -> Elements] : IsInjective(s)
  BY <1>1 DEF ExistsBijection, Bijection, Injection
<1>3. \A i, j \in DOMAIN s : s[i] = s[j] => i = j
  BY <1>2 DEF IsInjective
<1>4. n \in 1 .. n /\ s \in UNION {[1 .. m -> Elements] : m \in 1 .. n}
  BY <1>1, <1>2
<1>5. s \in Orders
  BY <1>3, <1>4 DEF Orders
<1>6. Len(s) = n
  <2>1. s \in Seq(Elements)
    BY <1>1, <1>2
  <2>2. DOMAIN s = 1 .. n
    BY <1>2
  <2>3. QED
    BY <1>1, <2>1, <2>2
<1>7. QED
  BY <1>5, <1>6 DEF Whole

\* The marks that the script of a snapshot puts on a page.
LEMMA MarksType ==
    ASSUME PagesTypeOK, NEW b \in Browsers, NEW g \in Nat
    PROVE  MarksOf(b, g) \in [Elements -> Nat \X Nat]
<1>1. DOMAIN page[b] \subseteq Nat
  <2>1. page[b] \in Orders
    BY DEF PagesTypeOK
  <2>2. PICK n \in 1 .. Cardinality(Elements) : page[b] \in [1 .. n -> Elements]
    BY <2>1 DEF Orders
  <2>3. QED
    BY <2>2
<1>2. \A e \in Elements : (\E i \in DOMAIN page[b] : page[b][i] = e) =>
          (CHOOSE i \in DOMAIN page[b] : page[b][i] = e) \in Nat
  BY <1>1
<1>3. QED
  BY <1>2 DEF MarksOf, NoRef

\* Closed browsers have pages of the right types.
LEMMA ClosedPages == CloseAll => PagesTypeOK'
<1>1. 0 \in 0 .. MaxShots
  BY ProcessAssumption
<1>2. QED
  BY <1>1, WholeIsAnOrder DEF CloseAll, Each, NoMarks, NoRef, PagesTypeOK

\* A snapshot's generation stays within the bound.
LEMMA GenerationType ==
    ASSUME PagesTypeOK, NEW b \in Browsers, TakeGeneration(b), UNCHANGED <<page, mark, late, refs>>
    PROVE  PagesTypeOK'
<1>1. gen[b] + 1 \in 0 .. MaxShots
  BY ProcessAssumption DEF PagesTypeOK, TakeGeneration
<1>2. gen' = [gen EXCEPT ![b] = gen[b] + 1]
  BY DEF TakeGeneration
<1>3. gen' \in [Browsers -> 0 .. MaxShots]
  BY <1>1, <1>2 DEF PagesTypeOK
<1>4. QED
  BY <1>3 DEF PagesTypeOK

\* Pages keep their types.
LEMMA PagesStep == Typed /\ [Next]_vars => PagesTypeOK'
<1> SUFFICES ASSUME Typed, [Next]_vars PROVE PagesTypeOK'
  OBVIOUS
<1> USE DEF Typed, TypeOK
<1>1. CASE UNCHANGED pages
  BY <1>1 DEF pages, PagesTypeOK
<1>2. CASE CloseAll
  BY <1>2, ClosedPages
<1>3. CASE Navigate
  BY <1>1, <1>3, GenerationType DEF Navigate, CallInv, AtBrowser, pages
<1>4. ASSUME NEW b \in Browsers, Snapshot(b) PROVE PagesTypeOK'
  BY <1>4, GenerationType DEF Snapshot
<1>5. CASE Press
  BY <1>1, <1>5, GenerationType DEF Press, CallInv, AtBrowser, pages
<1>6. CASE Shoot
  <2> DEFINE b == call.b
             marks == MarksOf(b, gen[b])
  <2>1. b \in Browsers /\ gen[b] \in Nat
    BY <1>6, ProcessAssumption DEF Shoot, CallInv, AtBrowser, PagesTypeOK
  <2>2. marks \in [Elements -> Nat \X Nat]
    BY <2>1, MarksType
  <2>3. mark' = [mark EXCEPT ![b] = marks]
        /\ refs' = [refs EXCEPT ![b] = {<<marks[e], e>> : e \in {x \in Elements : marks[x] # NoRef}}]
        /\ UNCHANGED <<page, late, gen>>
    BY <1>6 DEF Shoot
  <2>4. {<<marks[e], e>> : e \in {x \in Elements : marks[x] # NoRef}} \subseteq (Nat \X Nat) \X Elements
    BY <2>2
  <2> HIDE DEF marks
  <2>5. QED
    BY <2>1, <2>2, <2>3, <2>4 DEF PagesTypeOK
<1>7. CASE ShootFails
  <2>1. call.b \in Browsers
    BY <1>7 DEF ShootFails, CallInv, AtBrowser
  <2>2. QED
    BY <1>7, <2>1 DEF ShootFails, PagesTypeOK
<1>8. ASSUME NEW b \in Browsers, Close(b) PROVE PagesTypeOK'
  BY <1>8 DEF Close, PagesTypeOK
<1>9. ASSUME NEW b \in Browsers, Rerender(b) PROVE PagesTypeOK'
  <2>1. page' \in [Browsers -> Orders]
    BY <1>9 DEF Rerender, PagesTypeOK
  <2>2. mark' \in [Browsers -> [Elements -> Nat \X Nat]]
    BY <1>9 DEF Rerender, PagesTypeOK, NoRef
  <2>3. QED
    BY <1>9, <2>1, <2>2 DEF Rerender, PageOnly, PagesTypeOK
<1>10. ASSUME NEW b \in Browsers, LateScript(b) PROVE PagesTypeOK'
  <2>1. late[b] \in Nat /\ 0 \in 0 .. MaxShots
    BY ProcessAssumption DEF PagesTypeOK
  <2>2. MarksOf(b, late[b]) \in [Elements -> Nat \X Nat]
    BY <2>1, MarksType
  <2>3. QED
    BY <1>10, <2>1, <2>2 DEF LateScript, PageOnly, PagesTypeOK
<1>11. CASE Browse
  <2>1. ASSUME NEW b \in Browsers, Open(b) \/ \E r \in refs[b] : Click(b, r[1]) PROVE UNCHANGED pages
    BY <2>1 DEF Open, Click
  <2>2. ASSUME StartDriver \/ Launch \/ Count \/ Shut PROVE UNCHANGED pages
    BY <2>2 DEF StartDriver, Launch, Count, Shut
  <2>3. ASSUME Undo PROVE UNCHANGED pages \/ CloseAll
    BY <2>3 DEF Undo
  <2>4. QED
    BY <1>1, <1>2, <1>3, <1>4, <1>5, <1>6, <1>7, <1>8, <1>11, <2>1, <2>2, <2>3 DEF Browse
<1>12. CASE Terminal \/ Answer \/ ShutNext \/ Stop
  BY <1>1, <1>2, <1>12 DEF Terminal, Run, Collect, TimeOut, Kill, Recollect, Flood, Reap, Answer,
     ShutNext, Stop, ShellOnly, pages
<1>13. CASE Cancel
  BY <1>1, <1>2, <1>13 DEF Cancel, CancelCall, CancelShoot, CancelOpen, CancelCommand, CancelClosing
<1>14. CASE Fork \/ ShellExits \/ ChildExits
  BY <1>1, <1>14 DEF Fork, ShellExits, ChildExits, OutsideShell
<1>15. QED
  BY <1>1, <1>9, <1>10, <1>11, <1>12, <1>13, <1>14 DEF Next, Outside, vars

\* Processes keep their types.
LEMMA ShellStep == ShellTypeOK /\ [Next]_vars => ShellTypeOK'
<1> SUFFICES ASSUME ShellTypeOK, [Next]_vars PROVE ShellTypeOK'
  OBVIOUS
<1>1. CASE UNCHANGED shell
  BY <1>1 DEF shell, ShellTypeOK
<1>2. CASE Terminal
  BY <1>2 DEF Terminal, Run, Collect, TimeOut, Kill, Recollect, Flood, Reap, TerminateTree, Outcome,
     ShellOnly, Elsewhere, ShellTypeOK
<1>3. CASE CancelCall
  BY <1>3 DEF CancelCall, ShellTypeOK
<1>4. CASE CancelCommand
  BY <1>4 DEF CancelCommand, TerminateTree, Outcome, ShellTypeOK
<1>5. CASE Fork \/ ShellExits \/ ChildExits
  BY <1>5 DEF Fork, ShellExits, ChildExits, OutsideShell, ShellTypeOK
<1>6. CASE Browse \/ Answer \/ ShutNext \/ Stop \/ CancelShoot \/ CancelOpen \/ CancelClosing
  BY <1>1, <1>6 DEF Browse, Open, Snapshot, Close, Click, StartDriver, Launch, Navigate, Shoot, ShootFails,
     Count, Press, Shut, Undo, Answer, ShutNext, Stop, CancelShoot, CancelOpen, CancelClosing, BrowserOnly
<1>7. CASE (\E b \in Browsers : Rerender(b) \/ LateScript(b)) \/ UNCHANGED vars
  BY <1>1, <1>7 DEF Rerender, LateScript, PageOnly, vars
<1>8. QED
  BY <1>2, <1>3, <1>4, <1>5, <1>6, <1>7 DEF Next, Cancel, Outside

\* What the run's task has in hand: its program point, its call, the processes.
RunTypeOK ==
    /\ pc \in {"idle", "start", "launch", "goto", "undo", "count", "press", "shut", "shoot",
               "collect", "kill", "recollect", "reap", "shutall", "stop", "over"}
    /\ cancelled \in BOOLEAN /\ known \in BOOLEAN
    /\ drivers \in Nat
    /\ used \subseteq Browsers /\ alive \subseteq Browsers
    /\ sessions \subseteq Browsers /\ todo \subseteq Browsers
    /\ cut \subseteq {"start", "kill", "stop"}
    /\ faults \in Nat /\ cancels \in Nat
    /\ CallInv
    /\ Counted

\* The run keeps its types.
LEMMA RunStep == RunTypeOK /\ [Next]_vars => RunTypeOK'
<1> SUFFICES ASSUME RunTypeOK, [Next]_vars PROVE RunTypeOK'
  OBVIOUS
<1> USE DEF RunTypeOK, CallInv, AtBrowser, Counted, drive, Goto, Return, CloseAll, Fault, BrowserOnly,
        TakeGeneration, CancelTask
<1>1. ASSUME NEW b \in Browsers, Open(b) PROVE RunTypeOK'
  BY <1>1 DEF Open
<1>2. ASSUME NEW b \in Browsers, Snapshot(b) PROVE RunTypeOK'
  BY <1>2 DEF Snapshot
<1>3. ASSUME NEW b \in Browsers, Close(b) PROVE RunTypeOK'
  BY <1>3 DEF Close
<1>4. ASSUME NEW b \in Browsers, NEW ref, Click(b, ref) PROVE RunTypeOK'
  BY <1>4 DEF Click
<1>5. CASE StartDriver
  <2>1. drivers' \in Nat \ {0}
    BY <1>5 DEF StartDriver
  <2>2. cut' \subseteq {"start", "kill", "stop"} /\ faults' \in Nat /\ cancels' \in Nat
    <3>1. cancels' = cancels
      BY <1>5 DEF StartDriver
    <3>2. cut' = cut \/ cut' = cut \cup {"start"}
      BY <1>5 DEF StartDriver
    <3>3. faults' = faults \/ faults' = faults + 1
      BY <1>5 DEF StartDriver
    <3>4. cut' \subseteq {"start", "kill", "stop"}
      BY <3>2
    <3>5. faults' \in Nat /\ cancels' \in Nat
      BY <3>1, <3>3
    <3>6. QED
      BY <3>4, <3>5
  <2>3. UNCHANGED <<used, alive, sessions, todo, cancelled>> /\ known' \in BOOLEAN
    BY <1>5 DEF StartDriver
  <2>4. pc' \in {"launch", "idle"} /\ (pc' = "launch" => call'.b \in Browsers)
    BY <1>5 DEF StartDriver
  <2>5. QED
    BY <2>1, <2>2, <2>3, <2>4
<1>6. CASE Launch
  BY <1>6 DEF Launch
<1>7. CASE Navigate
  BY <1>7 DEF Navigate
<1>8. CASE Shoot
  BY <1>8 DEF Shoot
<1>9. CASE ShootFails
  BY <1>9 DEF ShootFails
<1>10. CASE Count
  BY <1>10 DEF Count
<1>11. CASE Press
  BY <1>11 DEF Press
<1>12. CASE Shut
  BY <1>12 DEF Shut
<1>13. CASE Undo
  BY <1>13 DEF Undo
<1>14. CASE Terminal
  <2>1. UNCHANGED <<drivers, known, used, alive, sessions, faults, cancels>> /\ cut' = cut
    BY <1>14 DEF Terminal, Run, Collect, TimeOut, Kill, Recollect, Flood, Reap, ShellOnly, Elsewhere
  <2>2. pc' \in {"idle", "collect", "kill", "recollect", "reap", "shutall"} /\ cancelled' = cancelled
    BY <1>14 DEF Terminal, Run, Collect, TimeOut, Kill, Recollect, Flood, Reap
  <2>3. todo' = todo \/ todo' = sessions
    BY <1>14 DEF Terminal, Run, Collect, TimeOut, Kill, Recollect, Flood, Reap
  <2>4. pc # "over"
    BY <1>14 DEF Terminal, Run, Collect, TimeOut, Kill, Recollect, Flood, Reap
  <2>5. QED
    BY <2>1, <2>2, <2>3, <2>4
<1>15. CASE Answer
  BY <1>15 DEF Answer
<1>16. CASE ShutNext
  BY <1>16 DEF ShutNext, CloseOne
<1>17. CASE Stop
  <2>1. drivers' \in Nat
    BY <1>17 DEF Stop
  <2>2. QED
    BY <1>17, <2>1 DEF Stop
<1>18. CASE CancelCall
  BY <1>18 DEF CancelCall
<1>19. CASE CancelShoot
  BY <1>19 DEF CancelShoot
<1>20. CASE CancelOpen
  BY <1>20 DEF CancelOpen
<1>21. CASE CancelCommand
  <2>1. UNCHANGED <<drivers, known, used, alive, sessions, faults>> /\ pc # "over"
    BY <1>21 DEF CancelCommand
  <2>2. pc' \in {"reap", "shutall"} /\ cancelled' = TRUE /\ cancels' = cancels + 1
    BY <1>21 DEF CancelCommand
  <2>3. todo' \in {todo, sessions} /\ cut' \subseteq cut \cup {"kill"}
    BY <1>21 DEF CancelCommand
  <2>4. QED
    BY <2>1, <2>2, <2>3
<1>22. CASE CancelClosing
  <2>1. used' = used /\ known' = known /\ faults' = faults /\ cancelled' = TRUE /\ cancels' = cancels + 1
    BY <1>22 DEF CancelClosing
  <2>2. CASE pc = "shutall"
    <3>1. pc' = "stop" /\ drivers' = drivers /\ cut' = cut /\ todo' = {}
      BY <1>22, <2>2 DEF CancelClosing
    <3>2. sessions' \subseteq sessions /\ alive' \subseteq alive
      BY <1>22, <2>2 DEF CancelClosing
    <3>3. QED
      BY <2>1, <2>2, <3>1, <3>2
  <2>3. CASE pc = "stop"
    <3>1. pc' = "over" /\ cut' = cut \cup {"stop"} /\ UNCHANGED <<sessions, todo>>
      BY <1>22, <2>3 DEF CancelClosing
    <3>2. drivers' \in Nat /\ alive' \subseteq Browsers
      BY <1>22, <2>3 DEF CancelClosing
    <3>3. QED
      BY <2>1, <3>1, <3>2
  <2>4. QED
    BY <1>22, <2>2, <2>3 DEF CancelClosing
<1>23. CASE Outside
  BY <1>23 DEF Outside, Rerender, LateScript, Fork, ShellExits, ChildExits, PageOnly, OutsideShell
<1>24. CASE UNCHANGED vars
  BY <1>24 DEF vars
<1>25. QED
  BY <1>1, <1>2, <1>3, <1>4, <1>5, <1>6, <1>7, <1>8, <1>9, <1>10, <1>11, <1>12, <1>13, <1>14, <1>15,
     <1>16, <1>17, <1>18, <1>19, <1>20, <1>21, <1>22, <1>23, <1>24 DEF Next, Browse, Cancel

\* Types are inductive together with what the calls under way name.
LEMMA TypedStep == Typed /\ [Next]_vars => Typed'
<1>1. Typed <=> RunTypeOK /\ PagesTypeOK /\ ShellTypeOK
  BY DEF Typed, TypeOK, RunTypeOK
<1>2. Typed' <=> RunTypeOK' /\ PagesTypeOK' /\ ShellTypeOK'
  BY DEF Typed, TypeOK, RunTypeOK
<1>3. QED
  BY <1>1, <1>2, PagesStep, ShellStep, RunStep

\* Types hold at the start.
LEMMA TypedInit == Init => Typed
<1> SUFFICES ASSUME Init PROVE Typed
  OBVIOUS
<1>1. PagesTypeOK
  <2>1. 0 \in 0 .. MaxShots
    BY ProcessAssumption
  <2>2. QED
    BY <2>1, WholeIsAnOrder DEF Init, Each, NoMarks, NoRef, PagesTypeOK
<1>2. QED
  BY <1>1 DEF Init, Typed, TypeOK, ShellTypeOK, CallInv, AtBrowser, Counted

\* Every variable keeps its type.
THEOREM TypeCorrect == Spec => []TypeOK
<1>1. Typed => TypeOK
  BY DEF Typed
<1>2. QED
  BY <1>1, TypedInit, TypedStep, PTL DEF Spec

-----------------------------------------------------------------------------
(* The command *)

\* Once the tree has been killed, nothing of the group is alive, and a shell that
\* is gone starts nothing more.
ShellInv ==
    /\ pc = "recollect" => leader = "gone" /\ ~GroupAlive
    /\ outcome \in {"timeout", "limit", "cancelled"} /\ "kill" \notin cut => leader = "gone" /\ ~GroupAlive

\* On POSIX, a command that was timed out, cut off at the output limit or
\* cancelled leaves nothing of its process group, unless the killing itself was
\* cancelled before its thread began (_terminate_process_tree).
THEOREM CommandsAreStopped ==
    ASSUME ~Windows
    PROVE  Spec => []FailedCommandsAreStopped
<1>1. Init => ShellInv
  BY DEF Init, ShellInv
<1>2. ShellInv /\ [Next]_vars => ShellInv'
  <2> SUFFICES ASSUME ShellInv, [Next]_vars PROVE ShellInv'
    OBVIOUS
  <2> USE DEF ShellInv, GroupAlive
  <2>1. CASE UNCHANGED <<leader, child, outcome>> /\ pc' # "recollect" /\ cut \subseteq cut'
    BY <2>1
  <2>2. TerminateTree => leader' = "gone" /\ ~GroupAlive'
    BY DEF TerminateTree, Reached
  <2>3. CASE Run
    BY <2>3 DEF Run, Goto, Outcome
  <2>4. CASE Collect \/ TimeOut
    BY <2>4 DEF Collect, TimeOut, Goto, Outcome
  <2>5. CASE Kill \/ Reap
    BY <2>2, <2>5 DEF Kill, Reap, Goto, Outcome, CloseAll
  <2>6. CASE Recollect \/ Flood
    BY <2>6 DEF Recollect, Flood, Goto, Outcome
  <2>7. CASE CancelCall
    BY <2>7 DEF CancelCall, CloseAll
  <2>8. CASE CancelCommand
    BY <2>8 DEF CancelCommand, CloseAll, Outcome
  <2>9. CASE Fork \/ ShellExits \/ ChildExits
    BY <2>9 DEF Fork, ShellExits, ChildExits, OutsideShell
  <2>10. CASE Browse
    BY <2>1, <2>10 DEF Browse, Open, Snapshot, Close, Click, StartDriver, Launch, Navigate, Shoot, ShootFails,
       Count, Press, Shut, Undo, BrowserOnly, shell, Goto, Return, CloseAll, TakeGeneration
  <2>11. CASE Answer \/ ShutNext \/ Stop \/ CancelShoot \/ CancelOpen \/ CancelClosing
    BY <2>1, <2>11 DEF Answer, ShutNext, CloseOne, Stop, CancelShoot, CancelOpen, CancelClosing,
       BrowserOnly, shell, Goto, CloseAll
  <2>12. CASE (\E b \in Browsers : Rerender(b) \/ LateScript(b)) \/ UNCHANGED vars
    BY <2>12 DEF Rerender, LateScript, PageOnly, shell, vars
  <2>13. QED
    BY <2>3, <2>4, <2>5, <2>6, <2>7, <2>8, <2>9, <2>10, <2>11, <2>12 DEF Next, Terminal, Cancel, Outside
<1>3. ShellInv => FailedCommandsAreStopped
  BY DEF ShellInv, FailedCommandsAreStopped
<1>4. QED
  BY <1>1, <1>2, <1>3, PTL DEF Spec

-----------------------------------------------------------------------------
(* The browsers *)

\* The driver that the manager knows is the only one, unless a start or the stop
\* was given up, and without it no browser is alive.
DriverInv ==
    /\ pc = "start" => ~known
    /\ pc = "launch" => known
    /\ ~known => alive = {}
    /\ {"start", "stop"} \cap cut = {} => drivers = IF known THEN 1 ELSE 0
    /\ pc = "over" /\ "stop" \notin cut => ~known

\* Once a run is over, none of its browsers is left and no driver but one whose
\* start was given up, whatever failed and however often the run was cancelled,
\* unless the stop of the driver itself was cancelled
\* (BrowserSessionManager.close_all, MAIRuntime.run_user_message).
THEOREM RunLeavesNothing == Spec => []NothingOutlivesTheRun
<1>1. Init => DriverInv
  BY DEF Init, DriverInv
<1>2. RunTypeOK /\ DriverInv /\ [Next]_vars => DriverInv'
  <2> SUFFICES ASSUME RunTypeOK, DriverInv, [Next]_vars PROVE DriverInv'
    OBVIOUS
  <2> USE DEF DriverInv, drive, Goto, Return, CloseAll, Fault, BrowserOnly, TakeGeneration
  <2>1. CASE UNCHANGED <<drivers, known, alive, cut>> /\ pc' \notin {"start", "launch", "over"}
    BY <2>1
  <2>2. ASSUME NEW b \in Browsers, Open(b) PROVE DriverInv'
    BY <2>2 DEF Open
  <2>3. CASE StartDriver
    BY <2>3 DEF StartDriver, RunTypeOK
  <2>4. CASE Launch
    BY <2>4 DEF Launch
  <2>5. CASE Shut \/ Undo
    BY <2>5 DEF Shut, Undo
  <2>6. CASE Navigate \/ Shoot \/ ShootFails \/ Count \/ Press
    BY <2>1, <2>6 DEF Navigate, Shoot, ShootFails, Count, Press
  <2>7. ASSUME NEW b \in Browsers, Snapshot(b) \/ Close(b) \/ \E ref : Click(b, ref) PROVE DriverInv'
    BY <2>1, <2>7 DEF Snapshot, Close, Click
  <2>8. CASE Terminal \/ Answer
    BY <2>1, <2>8 DEF Terminal, Run, Collect, TimeOut, Kill, Recollect, Flood, Reap, ShellOnly, Elsewhere, Answer
  <2>9. CASE ShutNext
    BY <2>9 DEF ShutNext, CloseOne
  <2>10. CASE Stop
    BY <2>10 DEF Stop, RunTypeOK
  <2>11. CASE CancelCall
    BY <2>11 DEF CancelCall
  <2>12. CASE CancelShoot
    BY <2>12 DEF CancelShoot
  <2>13. CASE CancelOpen
    BY <2>13 DEF CancelOpen
  <2>14. CASE CancelCommand
    BY <2>14 DEF CancelCommand
  <2>15. CASE CancelClosing
    BY <2>15 DEF CancelClosing
  <2>16. CASE Outside \/ UNCHANGED vars
    BY <2>16 DEF Outside, Rerender, LateScript, Fork, ShellExits, ChildExits, PageOnly, OutsideShell, vars
  <2>17. QED
    BY <2>2, <2>3, <2>4, <2>5, <2>6, <2>7, <2>8, <2>9, <2>10, <2>11, <2>12, <2>13, <2>14, <2>15, <2>16
       DEF Next, Browse, Cancel
<1>3. DriverInv => NothingOutlivesTheRun
  BY DEF DriverInv, NothingOutlivesTheRun
<1>4. Init => RunTypeOK
  BY TypedInit DEF Typed, TypeOK, RunTypeOK
<1>5. QED
  BY <1>1, <1>2, <1>3, <1>4, RunStep, PTL DEF Spec

-----------------------------------------------------------------------------
(* Clicks *)

\* What the references of a browser's latest snapshot are worth: each is of a
\* generation that no snapshot still to be taken, and no script still to be run,
\* will use again, so that an element which carries it is the one it was reported
\* for.
RefsOK(b) == \A r \in refs[b] :
    /\ r[1] # NoRef
    /\ r[1][1] <= gen[b]
    /\ late[b] # 0 => r[1][1] < late[b]
    /\ pc = "shoot" /\ call.b = b => r[1][1] < gen[b]
    /\ \A e \in Elements : mark[b][e] = r[1] => <<r[1], e>> \in refs[b]

\* The reference of a click under way is one of the latest snapshot.
ClickInv == pc \in {"count", "press"} => \E x \in Elements : <<call.ref, x>> \in refs[call.b]

MarkInv == (\A b \in Browsers : RefsOK(b)) /\ ClickInv

\* The next snapshot of a browser is of a new generation.
LEMMA NewGeneration ==
    ASSUME PagesTypeOK, \A d \in Browsers : RefsOK(d),
           NEW b \in Browsers, TakeGeneration(b), call'.b = b, UNCHANGED <<page, mark, late, refs>>
    PROVE  MarkInv'
<1>1. ASSUME NEW d \in Browsers PROVE RefsOK(d)'
  <2>1. gen' = [gen EXCEPT ![b] = gen[b] + 1] /\ pc' = "shoot"
    BY DEF TakeGeneration
  <2>2. \A r \in refs[d] : r[1][1] \in Nat
    BY DEF PagesTypeOK
  <2>3. gen[d] \in Nat
    BY ProcessAssumption DEF PagesTypeOK
  <2>4. CASE d = b
    <3>1. gen'[b] = gen[b] + 1
      BY <2>1 DEF PagesTypeOK
    <3>2. QED
      BY <2>2, <2>3, <2>4, <3>1 DEF RefsOK
  <2>5. CASE d # b
    <3>1. gen'[d] = gen[d]
      BY <2>1, <2>5 DEF PagesTypeOK
    <3>2. QED
      BY <2>5, <3>1 DEF RefsOK
  <2>6. QED
    BY <2>4, <2>5
<1>2. QED
  BY <1>1 DEF MarkInv, ClickInv, TakeGeneration

\* Closing forgets every reference.
LEMMA NothingToClick == CloseAll => MarkInv'
BY DEF CloseAll, Each, MarkInv, RefsOK, ClickInv

\* Every step keeps the references that were given out on their elements.
LEMMA MarkStep ==
    ASSUME PagesTypeOK, RunTypeOK, MarkInv, [Next]_vars
    PROVE  MarkInv'
<1> USE DEF MarkInv
\* Away from the snapshots and the clicks the pages are as they were.
<1>1. ASSUME UNCHANGED pages, pc' \notin {"shoot", "count", "press"} PROVE MarkInv'
  BY <1>1 DEF pages, RefsOK, ClickInv
<1>2. ASSUME UNCHANGED <<pages, pc, call>> PROVE MarkInv'
  BY <1>2 DEF pages, RefsOK, ClickInv
<1>3. CASE CloseAll
  BY <1>3, NothingToClick
<1>4. ASSUME NEW b \in Browsers, Open(b) PROVE MarkInv'
  BY <1>1, <1>4 DEF Open
<1>5. CASE StartDriver \/ Launch \/ Shut
  BY <1>1, <1>5 DEF StartDriver, Launch, Shut, Goto, Return
<1>6. CASE Undo
  BY <1>1, <1>3, <1>6 DEF Undo, Return
<1>7. CASE Navigate
  <2>1. call.b \in Browsers
    BY <1>7 DEF Navigate, RunTypeOK, CallInv, AtBrowser
  <2>2. CASE TakeGeneration(call.b) /\ UNCHANGED call
    BY <1>7, <2>1, <2>2, NewGeneration DEF Navigate
  <2>3. CASE Goto("undo") /\ UNCHANGED gen
    BY <1>1, <1>7, <2>3 DEF Navigate, Goto, pages
  <2>4. QED
    BY <1>7, <2>2, <2>3 DEF Navigate
<1>8. ASSUME NEW b \in Browsers, Snapshot(b) PROVE MarkInv'
  BY <1>8, NewGeneration DEF Snapshot
<1>9. CASE Press
  <2>1. call.b \in Browsers
    BY <1>9 DEF Press, RunTypeOK, CallInv, AtBrowser
  <2>2. CASE TakeGeneration(call.b) /\ UNCHANGED call
    BY <1>9, <2>1, <2>2, NewGeneration DEF Press
  <2>3. CASE Return /\ UNCHANGED gen
    BY <1>1, <1>9, <2>3 DEF Press, Return, pages
  <2>4. QED
    BY <1>9, <2>2, <2>3 DEF Press
<1>10. CASE Shoot
  <2>0. PICK b \in Browsers : b = call.b
    BY <1>10 DEF Shoot, RunTypeOK, CallInv, AtBrowser
  <2> DEFINE marks == MarksOf(b, gen[b])
             found == {<<marks[e], e>> : e \in {x \in Elements : marks[x] # NoRef}}
  <2>1. late[b] = 0 /\ pc' = "idle" /\ gen[b] \in Nat
    BY <1>10, <2>0, ProcessAssumption DEF Shoot, Return, PagesTypeOK
  <2>2. mark' = [mark EXCEPT ![b] = marks] /\ refs' = [refs EXCEPT ![b] = found] /\ UNCHANGED <<late, gen>>
    BY <1>10, <2>0 DEF Shoot
  <2>3. \A e \in Elements : marks[e] # NoRef => marks[e][1] = gen[b]
    BY DEF MarksOf
  <2>4. ASSUME NEW d \in Browsers, d # b PROVE RefsOK(d)'
    <3>1. mark'[d] = mark[d] /\ refs'[d] = refs[d]
      BY <2>2, <2>4 DEF PagesTypeOK
    <3>2. QED
      BY <2>1, <2>2, <3>1 DEF RefsOK
  <2>5. RefsOK(b)'
    <3>1. mark'[b] = marks /\ refs'[b] = found
      BY <2>1, <2>2 DEF PagesTypeOK
    <3> HIDE DEF marks
    <3>2. \A r \in found : r[1] # NoRef /\ r[1][1] = gen[b]
      BY <2>3
    <3>3. \A r \in found, e \in Elements : marks[e] = r[1] => <<r[1], e>> \in found
      OBVIOUS
    <3> HIDE DEF found
    <3>4. QED
      BY <2>1, <2>2, <3>1, <3>2, <3>3 DEF RefsOK
  <2>6. QED
    BY <2>1, <2>4, <2>5 DEF ClickInv
<1>11. CASE ShootFails
  <2>1. call.b \in Browsers /\ pc = "shoot"
    BY <1>11 DEF ShootFails, RunTypeOK, CallInv, AtBrowser
  <2>2. UNCHANGED <<page, mark, gen, refs>> /\ pc' \notin {"shoot", "count", "press"}
    BY <1>11 DEF ShootFails, Goto, Return
  <2>3. \A d \in Browsers : late'[d] = late[d] \/ (d = call.b /\ late'[d] = gen[d])
    BY <1>11, <2>1 DEF ShootFails, PagesTypeOK
  <2>4. QED
    BY <2>1, <2>2, <2>3 DEF RefsOK, ClickInv
<1>12. ASSUME NEW b \in Browsers, NEW ref, Click(b, ref) PROVE MarkInv'
  <2>1. UNCHANGED pages /\ pc' = "count" /\ call'.b = b /\ call'.ref = ref
        /\ \E e \in Elements : <<ref, e>> \in refs[b]
    BY <1>12 DEF Click
  <2>2. QED
    BY <2>1 DEF pages, RefsOK, ClickInv
<1>13. CASE Count
  <2>1. CASE Goto("press")
    BY <1>13, <2>1 DEF Count, Goto, pages, RefsOK, ClickInv
  <2>2. CASE Return
    BY <1>1, <1>13, <2>2 DEF Count, Return
  <2>3. QED
    BY <1>13, <2>1, <2>2 DEF Count
<1>14. ASSUME NEW b \in Browsers, Close(b) PROVE MarkInv'
  <2>1. UNCHANGED <<mark, late, gen>> /\ pc' = "shut" /\ refs' = [refs EXCEPT ![b] = {}]
    BY <1>14 DEF Close
  <2>2. \A d \in Browsers : refs'[d] = refs[d] \/ refs'[d] = {}
    BY <2>1 DEF PagesTypeOK
  <2>3. QED
    BY <2>1, <2>2 DEF RefsOK, ClickInv
<1>15. CASE Terminal
  <2>1. CloseAll \/ (UNCHANGED pages /\ pc' \notin {"shoot", "count", "press"})
    BY <1>15 DEF Terminal, Run, Collect, TimeOut, Kill, Recollect, Flood, Reap, ShellOnly, Goto
  <2>2. QED
    BY <1>1, <1>3, <2>1
<1>16. CASE Answer \/ ShutNext \/ Stop
  BY <1>1, <1>3, <1>16 DEF Answer, ShutNext, CloseOne, Stop, Goto
<1>17. CASE Cancel
  <2>1. CloseAll \/ (UNCHANGED pages /\ pc' \notin {"shoot", "count", "press"})
    BY <1>17 DEF Cancel, CancelCall, CancelShoot, CancelOpen, CancelCommand, CancelClosing
  <2>2. QED
    BY <1>1, <1>3, <2>1
<1>18. ASSUME NEW b \in Browsers, Rerender(b) PROVE MarkInv'
  <2>1. UNCHANGED <<late, gen, refs, pc, call>>
    BY <1>18 DEF Rerender, PageOnly
  <2>2. \A d \in Browsers, e \in Elements : mark'[d][e] = mark[d][e] \/ mark'[d][e] = NoRef
    BY <1>18 DEF Rerender, PagesTypeOK
  <2>3. QED
    BY <2>1, <2>2 DEF RefsOK, ClickInv
<1>19. ASSUME NEW b \in Browsers, LateScript(b) PROVE MarkInv'
  <2>1. UNCHANGED <<gen, refs, pc, call>> /\ late[b] # 0 /\ late[b] \in Nat
    BY <1>19, ProcessAssumption DEF LateScript, PageOnly, PagesTypeOK
  <2>2. mark' = [mark EXCEPT ![b] = MarksOf(b, late[b])] /\ late' = [late EXCEPT ![b] = 0]
    BY <1>19 DEF LateScript
  <2>3. ASSUME NEW d \in Browsers, d # b PROVE RefsOK(d)'
    <3>1. mark'[d] = mark[d] /\ late'[d] = late[d]
      BY <2>2, <2>3 DEF PagesTypeOK
    <3>2. QED
      BY <2>1, <3>1 DEF RefsOK
  <2>4. RefsOK(b)'
    <3>1. mark'[b] = MarksOf(b, late[b]) /\ late'[b] = 0
      BY <2>2 DEF PagesTypeOK
    <3>2. \A e \in Elements : MarksOf(b, late[b])[e] = NoRef \/ MarksOf(b, late[b])[e][1] = late[b]
      BY DEF MarksOf
    <3>3. \A r \in refs[b] : r[1] # NoRef /\ r[1][1] \in Nat /\ r[1][1] < late[b]
      BY <2>1 DEF RefsOK, PagesTypeOK
    <3>4. \A r \in refs[b], e \in Elements : mark'[b][e] # r[1]
      BY <2>1, <3>1, <3>2, <3>3
    <3>5. QED
      BY <2>1, <3>1, <3>4 DEF RefsOK
  <2>5. QED
    BY <2>1, <2>3, <2>4 DEF ClickInv
<1>20. CASE Fork \/ ShellExits \/ ChildExits \/ UNCHANGED vars
  BY <1>2, <1>20 DEF Fork, ShellExits, ChildExits, OutsideShell, vars
<1>21. QED
  BY <1>4, <1>5, <1>6, <1>7, <1>8, <1>9, <1>10, <1>11, <1>12, <1>13, <1>14, <1>15, <1>16, <1>17,
     <1>18, <1>19, <1>20 DEF Next, Browse, Outside

\* A click about to be made lands on the element that the model was shown under
\* its reference, even if the page was rendered anew or the script of a snapshot
\* that was given up ran afterwards (_snapshot, browser_click).
THEOREM ClicksLand == Spec => []ClicksHitWhatWasShown
<1>1. Init => MarkInv
  BY DEF Init, Each, MarkInv, RefsOK, ClickInv
<1>2. Typed <=> RunTypeOK /\ PagesTypeOK /\ ShellTypeOK
  BY DEF Typed, TypeOK, RunTypeOK
<1>3. Typed /\ MarkInv /\ [Next]_vars => MarkInv'
  BY <1>2, MarkStep
<1>4. Typed /\ MarkInv => ClicksHitWhatWasShown
  <2> SUFFICES ASSUME Typed, MarkInv, pc = "press", NEW e \in Elements, mark[call.b][e] = call.ref
               PROVE  <<call.ref, e>> \in refs[call.b]
    BY DEF ClicksHitWhatWasShown, Marked
  <2>1. call.b \in Browsers
    BY DEF Typed, CallInv, AtBrowser
  <2>2. PICK x \in Elements : <<call.ref, x>> \in refs[call.b]
    BY DEF MarkInv, ClickInv
  <2>3. QED
    BY <2>1, <2>2 DEF MarkInv, RefsOK
<1>5. QED
  BY <1>1, <1>3, <1>4, TypedInit, TypedStep, PTL DEF Spec

=============================================================================
