---------------------------- MODULE RunProcesses ----------------------------
(***************************************************************************)
(* What one agent run starts outside its own process and has to end again: *)
(* the Playwright driver and its browsers (mai/tools/browser.py), closed   *)
(* in the `finally` of MAIRuntime.run_user_message (mai/app/runtime.py),   *)
(* and the process group of a shell command (mai/tools/terminal.py).       *)
(*                                                                         *)
(* The run makes its calls one after another, so BrowserSessionManager's   *)
(* lock is never contended.  pc is the await the run's task stands at:     *)
(*   idle     with the model                                               *)
(*   start, launch, goto      browser_open       undo     its except block *)
(*   count, press             browser_click      shut     browser_close    *)
(*   shoot    page.evaluate of a snapshot, last step of the calls above    *)
(*   collect  the command's output and exit      kill     after a time-out *)
(*   recollect  output after that                reap     after a failure  *)
(*   shutall, stop            close_all          over     the run is over  *)
(* Playwright, Chromium and the command are external.                      *)
(***************************************************************************)
EXTENDS Naturals, FiniteSets, Sequences

CONSTANTS
    Browsers,       \* browsers the run may launch
    Elements,       \* what a page holds
    Changing,       \* browsers whose page changes by itself
    Windows,        \* os.name == "nt"
    MaxShots,       \* bound: snapshots of a session
    MaxFaults,      \* bound: Playwright calls that fail or time out
    MaxCancels      \* bound: cancellations of the run's task

ASSUME ProcessAssumption ==
    /\ IsFiniteSet(Elements) /\ Elements # {}
    /\ Windows \in BOOLEAN
    /\ {MaxShots, MaxFaults, MaxCancels} \subseteq Nat

VARIABLES
    pc,
    call,       \* the call awaited: [op, b, ref]
    cancelled,  \* the exception under way is a CancelledError
    drivers,    \* driver processes alive
    known,      \* self._playwright is not None
    used,       \* browsers launched, or about to be
    alive,      \* those whose process is alive
    sessions,   \* _sessions
    todo,       \* what is left of close_all's list
    page,       \* the interactive elements of each page, in document order
    mark,       \* the data-mai-ref of each element
    late,       \* a snapshot given up before its script ran, 0 for none
    gen,        \* snapshot_generation
    refs,       \* element_refs, each with the element it was reported for
    limitOk,    \* TERMINAL_MAX_OUTPUT_BYTES is positive
    leader,     \* the shell: "none", "running" or "gone"
    child,      \* what it left running: "none", "piped", "quiet", "escaped" or "gone"
    outcome,    \* how the command's call ended
    cut,        \* history: awaits of the clean-up that were cancelled themselves
    faults,
    cancels

drive == <<drivers, known, used, alive>>
pages == <<page, mark, late, gen, refs>>
shell == <<limitOk, leader, child, outcome>>
vars == <<pc, call, cancelled, drive, sessions, todo, pages, shell, cut, faults, cancels>>

NoRef == <<0, 0>>
NoCall == [op |-> "none"]

\* A page shows some of its elements, in some order.
Orders == {s \in UNION {[1..n -> Elements] : n \in 1..Cardinality(Elements)} :
              \A i, j \in DOMAIN s : s[i] = s[j] => i = j}

Whole == CHOOSE s \in Orders : Len(s) = Cardinality(Elements)
NoMarks == [e \in Elements |-> NoRef]

Each(x) == [b \in Browsers |-> x]

Init ==
    /\ pc = "idle" /\ call = NoCall /\ cancelled = FALSE
    /\ drivers = 0 /\ known = FALSE /\ used = {} /\ alive = {} /\ sessions = {} /\ todo = {}
    /\ page = Each(Whole) /\ mark = Each(NoMarks) /\ late = Each(0) /\ gen = Each(0) /\ refs = Each({})
    /\ limitOk \in BOOLEAN
    /\ leader = "none" /\ child = "none" /\ outcome = "none"
    /\ cut = {} /\ faults = 0 /\ cancels = 0

-----------------------------------------------------------------------------
(* Helpers *)

Goto(point) == pc' = point /\ UNCHANGED <<call, cancelled>>
Return == pc' = "idle" /\ call' = NoCall /\ UNCHANGED cancelled

\* The run's exception, or its answer, leaves through `finally`; what the pages
\* hold matters no more.
CloseAll ==
    /\ pc' = "shutall" /\ todo' = sessions /\ call' = NoCall
    /\ page' = Each(Whole) /\ mark' = Each(NoMarks) /\ late' = Each(0) /\ gen' = Each(0) /\ refs' = Each({})

Fault == faults < MaxFaults /\ faults' = faults + 1
BrowserOnly == UNCHANGED <<shell, cut, cancels>>

\* _snapshot takes a new generation before it asks the page ...
TakeOldGeneration(b) == pc' = "shoot" /\ gen' = [gen EXCEPT ![b] = 1]
TakeGeneration(b) ==
    /\ gen[b] < MaxShots
    /\ gen' = [gen EXCEPT ![b] = @ + 1]
    /\ pc' = "shoot"

\* ... whose script drops every mark and marks what is visible now.
MarksOf(b, g) == [e \in Elements |->
    IF \E i \in DOMAIN page[b] : page[b][i] = e
    THEN <<g, CHOOSE i \in DOMAIN page[b] : page[b][i] = e>> ELSE NoRef]

-----------------------------------------------------------------------------
(* Browser calls *)

Open(b) ==
    /\ pc = "idle" /\ b \notin used
    /\ call' = [op |-> "open", b |-> b]
    /\ used' = used \cup {b}
    /\ pc' = IF known THEN "launch" ELSE "start"
    /\ UNCHANGED <<cancelled, drivers, known, alive, sessions, todo, pages, faults>> /\ BrowserOnly

\* async_playwright().start(); one that is given up leaves a driver nobody knows.
StartDriver ==
    /\ pc = "start"
    /\ drivers' = drivers + 1
    /\ \/ known' = TRUE /\ Goto("launch") /\ UNCHANGED <<faults, cut>>
       \/ Fault /\ Return /\ cut' = cut \cup {"start"} /\ UNCHANGED known
    /\ UNCHANGED <<used, alive, sessions, todo, pages, shell, cancels>>

\* chromium.launch; one that is given up may still start the browser.
Launch ==
    /\ pc = "launch"
    /\ \/ alive' = alive \cup {call.b} /\ Goto("goto") /\ UNCHANGED faults
       \/ Fault /\ Return /\ alive' \in {alive, alive \cup {call.b}}
    /\ UNCHANGED <<drivers, known, used, sessions, todo, pages>> /\ BrowserOnly

\* The session is entered before its first snapshot.
Navigate ==
    /\ pc = "goto"
    /\ \/ /\ sessions' = sessions \cup {call.b}
          /\ TakeGeneration(call.b) /\ UNCHANGED <<call, cancelled, faults>>
       \/ Fault /\ Goto("undo") /\ UNCHANGED <<sessions, gen>>
    /\ UNCHANGED <<drive, todo, page, mark, late, refs>> /\ BrowserOnly

Snapshot(b) ==
    /\ pc = "idle" /\ b \in sessions /\ b \in alive
    /\ call' = [op |-> "snapshot", b |-> b]
    /\ TakeGeneration(b)
    /\ UNCHANGED <<cancelled, drive, sessions, todo, page, mark, late, refs, faults>>
    /\ BrowserOnly

\* The script runs and its result arrives.
Shoot ==
    /\ pc = "shoot" /\ late[call.b] = 0
    /\ LET b == call.b
           marks == MarksOf(b, gen[b])
           seen == {e \in Elements : marks[e] # NoRef} IN
       /\ mark' = [mark EXCEPT ![b] = marks]
       /\ refs' = [refs EXCEPT ![b] = {<<marks[e], e>> : e \in seen}]
    /\ Return
    /\ UNCHANGED <<drive, sessions, todo, page, late, gen, faults>> /\ BrowserOnly

\* It fails or is given up; the script may run later.
ShootFails ==
    /\ pc = "shoot" /\ Fault
    /\ late' \in {late, [late EXCEPT ![call.b] = gen[call.b]]}
    /\ IF call.op = "open" THEN Goto("undo") ELSE Return
    /\ UNCHANGED <<drive, sessions, todo, page, mark, gen, refs>> /\ BrowserOnly

\* A ref that is not of the latest snapshot is refused at once.
Click(b, ref) ==
    /\ pc = "idle" /\ b \in sessions /\ b \in alive
    /\ \E e \in Elements : <<ref, e>> \in refs[b]
    /\ call' = [op |-> "click", b |-> b, ref |-> ref]
    /\ pc' = "count"
    /\ UNCHANGED <<cancelled, drive, sessions, todo, pages, faults>> /\ BrowserOnly

Marked == {e \in Elements : mark[call.b][e] = call.ref}

Count ==
    /\ pc = "count" /\ late[call.b] = 0
    /\ IF Cardinality(Marked) = 1 THEN Goto("press") ELSE Return
    /\ UNCHANGED <<drive, sessions, todo, pages, faults>> /\ BrowserOnly

\* The locator is resolved again; then follows a snapshot.
Press ==
    /\ pc = "press"
    /\ \/ Marked # {} /\ TakeGeneration(call.b) /\ UNCHANGED <<call, cancelled>>
       \/ Marked = {} /\ Return /\ UNCHANGED gen
    /\ UNCHANGED <<drive, sessions, todo, page, mark, late, refs, faults>> /\ BrowserOnly

\* close takes the session out before it closes the browser.
Close(b) ==
    /\ pc = "idle" /\ b \in sessions
    /\ sessions' = sessions \ {b}
    /\ call' = [op |-> "close", b |-> b]
    /\ pc' = "shut"
    /\ refs' = [refs EXCEPT ![b] = {}]
    /\ UNCHANGED <<cancelled, drive, todo, page, mark, late, gen, faults>> /\ BrowserOnly

Shut ==
    /\ pc = "shut"
    /\ \/ alive' = alive \ {call.b} /\ UNCHANGED faults
       \/ Fault /\ UNCHANGED alive
    /\ Return
    /\ UNCHANGED <<drivers, known, used, sessions, todo, pages>> /\ BrowserOnly

\* open's `except BaseException` closes the browser and raises again; the
\* session, if there is one, stays in the table.
Undo ==
    /\ pc = "undo"
    /\ \/ alive' = alive \ {call.b} /\ UNCHANGED faults
       \/ Fault /\ UNCHANGED alive
    /\ IF cancelled THEN CloseAll /\ UNCHANGED cancelled ELSE Return /\ UNCHANGED <<todo, pages>>
    /\ UNCHANGED <<drivers, known, used, sessions>> /\ BrowserOnly

-----------------------------------------------------------------------------
(* terminal_run *)

GroupAlive == leader = "running" \/ child \in {"piped", "quiet"}
PipeOpen == leader = "running" \/ child \in {"piped", "escaped"}

\* killpg reaches the group; taskkill /T the tree of a shell that still runs.
Reached == IF Windows THEN IF leader = "running" THEN {"piped", "quiet", "escaped"} ELSE {}
                      ELSE {"piped", "quiet"}
TerminateShellOnly == leader' = "gone" /\ UNCHANGED child
TerminateTree == leader' = "gone" /\ child' = IF child \in Reached THEN "gone" ELSE child

Elsewhere == UNCHANGED <<drive, sessions, limitOk, faults, cancels>>
ShellOnly == Elsewhere /\ UNCHANGED pages
Outcome(how) == outcome' = how

\* The limit is read after the process was created.
Run ==
    /\ pc = "idle" /\ leader = "none"
    /\ leader' = "running"
    /\ IF limitOk THEN Goto("collect") /\ UNCHANGED outcome
                  ELSE Goto("idle") /\ Outcome("refused")
    /\ UNCHANGED <<child, todo, cut>> /\ ShellOnly

\* Both pipes at their end and the shell reaped.
Collect ==
    /\ pc = "collect" /\ leader = "gone" /\ ~PipeOpen
    /\ Goto("idle") /\ Outcome("ended")
    /\ UNCHANGED <<leader, child, todo, cut>> /\ ShellOnly

TimeOut ==
    /\ pc = "collect" /\ Goto("kill")
    /\ UNCHANGED <<leader, child, outcome, todo, cut>> /\ ShellOnly

Kill ==
    /\ pc = "kill" /\ TerminateTree /\ Goto("recollect")
    /\ UNCHANGED <<outcome, todo, cut>> /\ ShellOnly

\* The output is collected again, without a time limit.
Recollect ==
    /\ pc = "recollect" /\ leader = "gone" /\ ~PipeOpen
    /\ Goto("idle") /\ Outcome("timeout")
    /\ UNCHANGED <<leader, child, todo, cut>> /\ ShellOnly

\* More output than the limit, in the first or in the second collection.
Flood ==
    /\ PipeOpen
    /\ \/ pc = "collect" /\ Goto("reap") /\ UNCHANGED outcome
       \/ pc = "recollect" /\ Goto("idle") /\ Outcome("limit")
    /\ UNCHANGED <<leader, child, todo, cut>> /\ ShellOnly

\* `except BaseException`: end the tree, wait for the shell, raise again.
Reap ==
    /\ pc = "reap" /\ TerminateTree
    /\ IF cancelled THEN CloseAll /\ UNCHANGED cancelled /\ Outcome("cancelled")
                    ELSE Goto("idle") /\ UNCHANGED <<todo, pages>> /\ Outcome("limit")
    /\ UNCHANGED cut /\ Elsewhere

-----------------------------------------------------------------------------
(* The end of the run *)

Answer ==
    /\ pc = "idle"
    /\ CloseAll
    /\ UNCHANGED <<cancelled, drive, sessions, shell, cut, faults, cancels>>

\* A browser that fails to close ends the loop, but not `finally`.
CloseUntilOneFails(b) ==
    \/ alive' = alive \ {b} /\ todo' = todo \ {b} /\ Goto("shutall") /\ UNCHANGED <<faults, drivers, known>>
    \/ Fault /\ todo' = {} /\ Goto("over") /\ UNCHANGED <<alive, drivers, known>>
CloseOne(b) ==
    \/ alive' = alive \ {b} /\ todo' = todo \ {b} /\ Goto("shutall") /\ UNCHANGED <<faults, drivers, known>>
    \/ Fault /\ todo' = {} /\ Goto("stop") /\ UNCHANGED <<alive, drivers, known>>

ShutNext ==
    /\ pc = "shutall"
    /\ \/ \E b \in todo : sessions' = sessions \ {b} /\ CloseOne(b)
       \/ todo = {} /\ Goto("stop") /\ UNCHANGED <<sessions, todo, alive, drivers, known, faults>>
    /\ UNCHANGED <<used, pages>> /\ BrowserOnly

\* The driver ends and takes every browser it launched with it.
Stop ==
    /\ pc = "stop" /\ Goto("over")
    /\ IF known THEN drivers' = drivers - 1 /\ alive' = {} /\ known' = FALSE
                ELSE UNCHANGED <<drivers, alive, known>>
    /\ UNCHANGED <<used, sessions, todo, pages, faults>> /\ BrowserOnly

-----------------------------------------------------------------------------
(* task.cancel() of the run's task, which another request calls *)

CancelTask == cancels < MaxCancels /\ cancels' = cancels + 1 /\ cancelled' = TRUE

\* With the model, or where nothing is under way that needs an end.
CancelCall ==
    /\ pc \in {"idle", "count", "press", "recollect", "shut"} /\ CancelTask
    /\ CloseAll
    /\ alive' \in IF pc = "shut" THEN {alive, alive \ {call.b}} ELSE {alive}
    /\ outcome' = IF pc = "recollect" THEN "cancelled" ELSE outcome
    /\ UNCHANGED <<drivers, known, used, sessions, limitOk, leader, child, cut, faults>>

\* During a snapshot.
CancelShoot ==
    /\ pc = "shoot" /\ CancelTask
    /\ IF call.op = "open" THEN pc' = "undo" /\ UNCHANGED <<call, todo, pages>> ELSE CloseAll
    /\ UNCHANGED <<drive, sessions, shell, cut, faults>>

\* During browser_open.
CancelOpen ==
    /\ pc \in {"start", "launch", "goto", "undo"} /\ CancelTask
    /\ IF pc = "goto" THEN pc' = "undo" /\ UNCHANGED <<call, todo, pages>> ELSE CloseAll
    /\ drivers' = IF pc = "start" THEN drivers + 1 ELSE drivers
    /\ cut' = IF pc = "start" THEN cut \cup {"start"} ELSE cut
    /\ alive' \in CASE pc = "launch" -> {alive, alive \cup {call.b}}
                    [] pc = "undo" -> {alive, alive \ {call.b}}
                    [] OTHER -> {alive}
    /\ UNCHANGED <<known, used, sessions, shell, faults>>

\* While the command runs; the handlers of one `try` do not guard each other,
\* and a thread that has not begun never does.
CancelCommand ==
    /\ pc \in {"collect", "kill", "reap"} /\ CancelTask
    /\ IF pc = "collect"
       THEN pc' = "reap" /\ UNCHANGED <<call, todo, pages, leader, child, outcome, cut>>
       ELSE /\ CloseAll /\ Outcome("cancelled")
            /\ cut' = cut \cup {"kill"}
            /\ TerminateTree \/ UNCHANGED <<leader, child>>
    /\ UNCHANGED <<drive, sessions, limitOk, faults>>

\* During close_all.
CancelClosing ==
    /\ pc \in {"shutall", "stop"} /\ CancelTask
    /\ IF pc = "shutall"
       THEN /\ pc' = "stop" /\ todo' = {}
            /\ \/ \E b \in todo : sessions' = sessions \ {b} /\ alive' \in {alive, alive \ {b}}
               \/ todo = {} /\ UNCHANGED <<sessions, alive>>
            /\ UNCHANGED <<drivers, cut>>
       ELSE /\ pc' = "over" /\ UNCHANGED <<sessions, todo>>
            /\ cut' = cut \cup {"stop"}
            /\ \/ known /\ drivers' = drivers - 1 /\ alive' = {}
               \/ UNCHANGED <<drivers, alive>>
    /\ UNCHANGED <<call, known, used, pages, shell, faults>>

-----------------------------------------------------------------------------
(* Outside *)

PageOnly == UNCHANGED <<pc, call, cancelled, drive, sessions, todo, gen, refs, shell,
                        cut, faults, cancels>>

\* The page changes under the run; what leaves it loses its mark.
Rerender(b) ==
    /\ b \in alive \cap Changing /\ gen[b] > 0
    /\ page' \in {[page EXCEPT ![b] = s] : s \in Orders}
    /\ mark' = [mark EXCEPT ![b] = [e \in Elements |->
                   IF \E i \in DOMAIN page'[b] : page'[b][i] = e THEN @[e] ELSE NoRef]]
    /\ UNCHANGED late /\ PageOnly

\* The script of a snapshot nobody waits for any more.
LateScript(b) ==
    /\ late[b] > 0 /\ b \in alive
    /\ mark' = [mark EXCEPT ![b] = MarksOf(b, late[b])]
    /\ late' = [late EXCEPT ![b] = 0]
    /\ UNCHANGED page /\ PageOnly

OutsideShell == UNCHANGED <<pc, call, cancelled, drive, sessions, todo, pages, limitOk, outcome, cut, faults, cancels>>

\* The shell leaves something running: with its pipes, without, or in a session
\* of its own with them.
Fork ==
    /\ leader = "running" /\ child = "none"
    /\ child' \in {"piped", "quiet", "escaped"}
    /\ UNCHANGED leader /\ OutsideShell

ShellExits == leader = "running" /\ leader' = "gone" /\ UNCHANGED child /\ OutsideShell
ChildExits == child \in {"piped", "quiet", "escaped"} /\ child' = "gone" /\ UNCHANGED leader /\ OutsideShell

-----------------------------------------------------------------------------
Browse ==
    \/ \E b \in Browsers : Open(b) \/ Snapshot(b) \/ Close(b) \/ \E r \in refs[b] : Click(b, r[1])
    \/ StartDriver \/ Launch \/ Navigate \/ Shoot \/ ShootFails \/ Count \/ Press \/ Shut \/ Undo
Terminal == Run \/ Collect \/ TimeOut \/ Kill \/ Recollect \/ Flood \/ Reap
Cancel == CancelCall \/ CancelShoot \/ CancelOpen \/ CancelCommand \/ CancelClosing
Outside == (\E b \in Browsers : Rerender(b) \/ LateScript(b)) \/ Fork \/ ShellExits \/ ChildExits

Next == Browse \/ Terminal \/ Answer \/ ShutNext \/ Stop \/ Cancel \/ Outside

\* The time limit passes, and the event loop goes on; the command may do nothing.
Fairness == WF_vars(Collect) /\ WF_vars(TimeOut) /\ WF_vars(Kill) /\ WF_vars(Recollect) /\ WF_vars(Reap)

Spec == Init /\ [][Next]_vars /\ Fairness

-----------------------------------------------------------------------------
(* Properties *)

PagesTypeOK ==
    /\ page \in [Browsers -> Orders]
    /\ mark \in [Browsers -> [Elements -> Nat \X Nat]]
    /\ late \in [Browsers -> 0..MaxShots] /\ gen \in [Browsers -> 0..MaxShots]
    /\ refs \in [Browsers -> SUBSET ((Nat \X Nat) \X Elements)]

ShellTypeOK ==
    /\ limitOk \in BOOLEAN
    /\ leader \in {"none", "running", "gone"}
    /\ child \in {"none", "piped", "quiet", "escaped", "gone"}
    /\ outcome \in {"none", "refused", "ended", "timeout", "limit", "cancelled"}

\* Every variable has its type.
TypeOK ==
    /\ pc \in {"idle", "start", "launch", "goto", "undo", "count", "press", "shut", "shoot",
               "collect", "kill", "recollect", "reap", "shutall", "stop", "over"}
    /\ cancelled \in BOOLEAN /\ known \in BOOLEAN
    /\ drivers \in Nat
    /\ used \subseteq Browsers /\ alive \subseteq Browsers
    /\ sessions \subseteq Browsers /\ todo \subseteq Browsers
    /\ PagesTypeOK
    /\ ShellTypeOK
    /\ cut \subseteq {"start", "kill", "stop"}
    /\ faults \in Nat /\ cancels \in Nat

\* Once a run is over, none of its browsers is left and no driver but one whose
\* start was given up, whatever failed to open, to load or to close and however
\* often the run was cancelled, unless the stop of the driver itself was
\* cancelled (browser.py:204-212, app/runtime.py:328-329).
NothingOutlivesTheRun ==
    pc = "over" /\ "stop" \notin cut =>
        alive = {} /\ ("start" \notin cut => drivers = 0)

\* A click about to be made lands on the element the model was shown under that
\* reference, even if the page was rendered anew, or a snapshot was given up and its script ran
\* afterwards (browser.py:153-174).
ClicksHitWhatWasShown ==
    pc = "press" => \A e \in Marked : <<call.ref, e>> \in refs[call.b]

\* On POSIX, a command that was timed out, cut off at the output limit or
\* cancelled leaves nothing of its process group, unless the killing itself was
\* cancelled before its thread began (terminal.py:85-97, 176-188).
FailedCommandsAreStopped ==
    outcome \in {"timeout", "limit", "cancelled"} /\ "kill" \notin cut => ~GroupAlive

InCommand == pc \in {"collect", "kill", "recollect", "reap"}

\* A command's call ends, by the time limit if nothing else ends it, unless the
\* command left a process outside its group that holds the output open
\* (terminal.py:169-183).
CommandsAreAnswered == pc = "collect" ~> ~InCommand \/ child = "escaped"

\* The tool's description: "timeouts ... fail visibly" (terminal.py:309).
TimeoutsFailVisibly == pc = "kill" ~> ~InCommand
=============================================================================
