----------------------------- MODULE FileTools -----------------------------
(***************************************************************************)
(* The file tools of agent runs: file_write, file_delete, file_move,       *)
(* file_copy (mai/tools/filesystem.py), code_edit (mai/tools/code.py) and  *)
(* document_edit (mai/tools/document_edit.py), the registry that runs them *)
(* in worker threads under a time limit (mai/tools/registry.py), and the   *)
(* ledger of temporary files a run removes before it hands out its answer  *)
(* (mai/tools/artifacts.py, mai/agent/runtime.py).                         *)
(*                                                                         *)
(* A run makes its calls one after another, but a call that exceeds its    *)
(* limit, or is cancelled, leaves its thread behind.  The threads are cut  *)
(* at their system calls.  Program points of a call's thread (pc):         *)
(*   none     not made yet          start    before the first look         *)
(*   open     looked; opens next    fill     opened and truncated          *)
(*   note     the ledger is next    save     sibling file made             *)
(*   replace  sibling file saved    done, failed    over                   *)
(***************************************************************************)
EXTENDS Naturals, FiniteSets

CONSTANTS
    Runs,       \* agent runs, each with its own ledger
    Calls,      \* tool calls, a set of positive numbers in the order they are made
    RunOf,      \* the run that makes each
    Paths,      \* files the calls name
    UserFiles,  \* those there before the runs
    Requests,   \* what the model may ask in each run: [op, path, to, life]
    MaxFaults   \* bound: system calls that fail

ASSUME FileAssumption ==
    /\ Calls \subseteq Nat \ {0}
    /\ RunOf \in [Calls -> Runs]
    /\ UserFiles \subseteq Paths
    /\ \A r \in Runs : \A q \in Requests[r] :
          /\ q.op \in {"write", "code_edit", "document_edit", "delete", "move", "copy", "terminal"}
          /\ q.path \in Paths /\ q.to \in Paths
          /\ q.life \in {"persistent", "temporary"}
    /\ MaxFaults \in Nat

VARIABLES
    fs,         \* what is at each path
    run,        \* "working", "cleaning", "answered" or "failed"
    current,    \* the call a run awaits, 0 for none
    call,       \* the request and the run of each call
    pc,
    got,        \* what a call saw at its path when it looked
    sibling,    \* calls whose .mai-document- file exists
    abandoned,  \* calls nobody awaits any more
    paths,      \* TemporaryArtifactLedger.paths
    stood,      \* history: whose temporary files have stood at each path
    todo,       \* what is left of cleanup's sorted list
    faults

threads == <<call, pc, got, sibling>>
vars == <<fs, run, current, threads, abandoned, paths, stood, todo, faults>>

\* A file is scratch of a run or kept; broken names the call whose writing has
\* not made it whole.
Absent == [there |-> FALSE, scratchOf |-> {}, broken |-> 0]
Kept(broken) == [there |-> TRUE, scratchOf |-> {}, broken |-> broken]
Scratch(r, broken) == [there |-> TRUE, scratchOf |-> {r}, broken |-> broken]

Over == {"none", "done", "failed"}
NoCall == [op |-> "none"]

Init ==
    /\ fs = [p \in Paths |-> IF p \in UserFiles THEN Kept(0) ELSE Absent]
    /\ run = [r \in Runs |-> "working"]
    /\ current = [r \in Runs |-> 0]
    /\ call = [c \in Calls |-> NoCall]
    /\ pc = [c \in Calls |-> "none"]
    /\ got = [c \in Calls |-> Absent]
    /\ sibling = {} /\ abandoned = {}
    /\ paths = [r \in Runs |-> {}]
    /\ stood = [p \in Paths |-> {}]
    /\ todo = {}
    /\ faults = 0

-----------------------------------------------------------------------------
(* Helpers *)

\* cleanup runs on the event loop without an await.
LoopFree == \A r \in Runs : run[r] # "cleaning"

Op(c) == call[c].op
Path(c) == call[c].path
Target(c) == IF Op(c) \in {"copy", "move"} THEN call[c].to ELSE call[c].path

Fault == faults < MaxFaults /\ faults' = faults + 1

Goto(c, point) == pc' = [pc EXCEPT ![c] = point] /\ UNCHANGED current

\* The thread is over; the run that awaits it goes on.
Finish(c, outcome) ==
    /\ pc' = [pc EXCEPT ![c] = outcome]
    /\ current' = [r \in Runs |-> IF current[r] = c THEN 0 ELSE current[r]]

\* What a thread leaves alone between its look and its last step.
ThreadOnly == UNCHANGED <<run, call, abandoned, todo>>
Stands(p, who) == stood' = [stood EXCEPT ![p] = @ \cup who]

\* file_write registers only what it created.
Created(c) == Op(c) = "write" /\ call[c].life = "temporary" /\ ~got[c].there

RegisterAny(c) == paths' = [paths EXCEPT ![RunOf[c]] = @ \cup {Path(c)}]
Register(c) ==
    paths' = [paths EXCEPT ![RunOf[c]] = IF Created(c) THEN @ \cup {Path(c)} ELSE @]

MoveUntracked(c) == UNCHANGED paths
MoveArtifact(c) ==
    paths' = [paths EXCEPT ![RunOf[c]] =
                  IF Path(c) \in @ THEN (@ \ {Path(c)}) \cup {Target(c)} ELSE @]

\* The text a call puts into its target, before it is all there.
Opened(c) ==
    CASE Created(c) -> Scratch(RunOf[c], c)
      [] Op(c) = "code_edit" -> [fs[Path(c)] EXCEPT !.there = TRUE, !.broken = c]
      [] OTHER -> Kept(c)

\* What was read broken is written broken.
Spoilt(c) == Op(c) # "write" /\ got[c].broken # 0

-----------------------------------------------------------------------------
(* The threads *)

\* target.exists(), is_file(), and reading the source of an edit or a copy; an
\* edit that finds nothing to do, or a copy without a source, fails here.
Look(c) ==
    /\ pc[c] = "start" /\ Op(c) \in {"write", "code_edit", "document_edit", "copy"}
    /\ got' = [got EXCEPT ![c] = fs[Path(c)]]
    /\ IF Op(c) = "write" \/ fs[Path(c)].there
       THEN \/ Goto(c, "open")
            \/ Op(c) # "write" /\ Finish(c, "failed")
       ELSE Finish(c, "failed")
    /\ UNCHANGED <<fs, sibling, paths, faults, stood>> /\ ThreadOnly

\* open("w") truncates.
Open(c) ==
    /\ pc[c] = "open" /\ Op(c) \in {"write", "code_edit", "copy"}
    /\ \/ /\ fs' = [fs EXCEPT ![Target(c)] = Opened(c)]
          /\ Stands(Target(c), Opened(c).scratchOf)
          /\ Goto(c, "fill") /\ UNCHANGED faults
       \/ Fault /\ Finish(c, "failed") /\ UNCHANGED <<fs, stood>>
    /\ UNCHANGED <<got, sibling, paths>> /\ ThreadOnly

\* The text is all there, under whatever name the file has by now.
Fill(c) ==
    /\ pc[c] = "fill"
    /\ \/ /\ fs' = [p \in Paths |-> IF fs[p].broken = c /\ ~Spoilt(c)
                                    THEN [fs[p] EXCEPT !.broken = 0] ELSE fs[p]]
          /\ IF Op(c) = "write" THEN Goto(c, "note") ELSE Finish(c, "done")
          /\ UNCHANGED faults
       \/ Fault /\ Finish(c, "failed") /\ UNCHANGED fs
    /\ UNCHANGED <<got, sibling, paths, stood>> /\ ThreadOnly

\* register_temporary_artifact
Note(c) ==
    /\ pc[c] = "note" /\ Op(c) = "write"
    /\ Register(c)
    /\ Finish(c, "done")
    /\ UNCHANGED <<fs, got, sibling, faults, stood>> /\ ThreadOnly

\* document_edit makes a file beside its destination ...
MakeSibling(c) ==
    /\ pc[c] = "open" /\ Op(c) = "document_edit"
    /\ \/ sibling' = sibling \cup {c} /\ Goto(c, "save") /\ UNCHANGED faults
       \/ Fault /\ Finish(c, "failed") /\ UNCHANGED sibling
    /\ UNCHANGED <<fs, got, paths, stood>> /\ ThreadOnly

\* ... saves the document to it (`finally` removes it again) ...
SaveInPlace(c) ==
    /\ pc[c] = "save"
    /\ fs' = [fs EXCEPT ![call[c].to] = Kept(c)]
    /\ \/ Goto(c, "replace") /\ UNCHANGED <<sibling, faults>>
       \/ Fault /\ Finish(c, "failed") /\ sibling' = sibling \ {c}
    /\ UNCHANGED <<got, paths, stood>> /\ ThreadOnly
Save(c) ==
    /\ pc[c] = "save"
    /\ \/ Goto(c, "replace") /\ UNCHANGED <<sibling, faults>>
       \/ Fault /\ Finish(c, "failed") /\ sibling' = sibling \ {c}
    /\ UNCHANGED <<fs, got, paths, stood>> /\ ThreadOnly

\* ... and renames it over its destination.
Replace(c) ==
    /\ pc[c] = "replace"
    /\ sibling' = sibling \ {c}
    /\ \/ /\ fs' = [fs EXCEPT ![call[c].to] =
                       [there |-> TRUE,
                        scratchOf |-> IF call[c].to = Path(c) THEN got[c].scratchOf ELSE {},
                        broken |-> IF Spoilt(c) THEN c ELSE 0]]
          /\ Finish(c, "done") /\ UNCHANGED faults
       \/ Fault /\ Finish(c, "failed") /\ UNCHANGED fs
    /\ UNCHANGED <<got, paths, stood>> /\ ThreadOnly

\* file_delete and file_move: the file first, the ledger after it.
Unlink(c) ==
    /\ pc[c] = "start" /\ Op(c) = "delete"
    /\ \/ /\ fs[Path(c)].there
          /\ fs' = [fs EXCEPT ![Path(c)] = Absent]
          /\ Goto(c, "note")
       \/ ~fs[Path(c)].there /\ Finish(c, "failed") /\ UNCHANGED fs
    /\ UNCHANGED <<got, sibling, paths, faults, stood>> /\ ThreadOnly

Discard(c) ==
    /\ pc[c] = "note" /\ Op(c) = "delete"
    /\ paths' = [paths EXCEPT ![RunOf[c]] = @ \ {Path(c)}]
    /\ Finish(c, "done")
    /\ UNCHANGED <<fs, got, sibling, faults, stood>> /\ ThreadOnly

Rename(c) ==
    /\ pc[c] = "start" /\ Op(c) = "move"
    /\ \/ /\ fs[Path(c)].there
          /\ fs' = [fs EXCEPT ![Path(c)] = Absent, ![Target(c)] = fs[Path(c)]]
          /\ Stands(Target(c), fs[Path(c)].scratchOf \cup (stood[Path(c)] \cap {RunOf[c]}))
          /\ Goto(c, "note")
       \/ ~fs[Path(c)].there /\ Finish(c, "failed") /\ UNCHANGED <<fs, stood>>
    /\ UNCHANGED <<got, sibling, paths, faults>> /\ ThreadOnly

Follow(c) ==
    /\ pc[c] = "note" /\ Op(c) = "move"
    /\ MoveArtifact(c)
    /\ Finish(c, "done")
    /\ UNCHANGED <<fs, got, sibling, faults, stood>> /\ ThreadOnly

\* terminal_run: a command writes or removes the file; nothing is registered.
Command(c) ==
    /\ pc[c] = "start" /\ Op(c) = "terminal"
    /\ \E content \in {Absent, Kept(0)} : fs' = [fs EXCEPT ![Path(c)] = content]
    /\ Finish(c, "done")
    /\ UNCHANGED <<got, sibling, paths, faults, stood>> /\ ThreadOnly

ThreadStep(c) ==
    \/ Look(c) \/ Open(c) \/ Fill(c) \/ Note(c) \/ MakeSibling(c) \/ Save(c) \/ Replace(c)
    \/ Unlink(c) \/ Discard(c) \/ Rename(c) \/ Follow(c) \/ Command(c)

-----------------------------------------------------------------------------
(* The run *)

\* ToolRegistry.invoke on what the model asked: execute() in a worker thread.
Invoke(r, c, q) ==
    /\ LoopFree /\ run[r] = "working" /\ current[r] = 0
    /\ pc[c] = "none" /\ RunOf[c] = r
    /\ \A k \in Calls : k < c /\ RunOf[k] = r => pc[k] # "none"
    /\ call' = [call EXCEPT ![c] = q]
    /\ pc' = [pc EXCEPT ![c] = "start"]
    /\ current' = [current EXCEPT ![r] = c]
    /\ UNCHANGED <<fs, run, got, sibling, abandoned, paths, todo, stood, faults>>

\* asyncio.wait_for gives up; the model reads of a failure and goes on.
TimeOut(r) ==
    /\ LoopFree /\ run[r] = "working"
    /\ current[r] # 0 /\ Op(current[r]) # "terminal"
    /\ abandoned' = abandoned \cup {current[r]}
    /\ current' = [current EXCEPT ![r] = 0]
    /\ UNCHANGED <<fs, run, threads, paths, todo, stood, faults>>

\* The run fails or is cancelled: the scope ends, and nothing is cleaned up.
RunFails(r) ==
    /\ LoopFree /\ run[r] = "working"
    /\ run' = [run EXCEPT ![r] = "failed"]
    /\ abandoned' = abandoned \cup ({current[r]} \ {0})
    /\ current' = [current EXCEPT ![r] = 0]
    /\ UNCHANGED <<fs, threads, paths, todo, stood, faults>>

\* loop.run returned an answer: sorted(self.paths) is taken once.
Answer(r) ==
    /\ LoopFree /\ run[r] = "working" /\ current[r] = 0
    /\ run' = [run EXCEPT ![r] = "cleaning"]
    /\ todo' = paths[r]
    /\ UNCHANGED <<fs, current, threads, abandoned, paths, stood, faults>>

\* One path of TemporaryArtifactLedger.cleanup; a failure is the run's failure.
CleanOne(r, p) ==
    /\ run[r] = "cleaning" /\ p \in todo
    /\ \/ /\ fs' = [fs EXCEPT ![p] = Absent]
          /\ todo' = todo \ {p}
          /\ UNCHANGED <<run, faults>>
       \/ /\ fs[p].there /\ Fault
          /\ run' = [run EXCEPT ![r] = "failed"]
          /\ todo' = {}
          /\ UNCHANGED fs
    /\ UNCHANGED <<current, threads, abandoned, paths, stood>>

CleanedUp(r) ==
    /\ run[r] = "cleaning" /\ todo = {}
    /\ paths' = [paths EXCEPT ![r] = {}]
    /\ run' = [run EXCEPT ![r] = "answered"]
    /\ UNCHANGED <<fs, current, threads, abandoned, todo, stood, faults>>

Next ==
    \/ \E c \in Calls : ThreadStep(c)
    \/ \E r \in Runs :
          \/ \E c \in Calls, q \in Requests[r] : Invoke(r, c, q)
          \/ TimeOut(r) \/ RunFails(r) \/ Answer(r) \/ CleanedUp(r)
          \/ \E p \in Paths : CleanOne(r, p)

Spec == Init /\ [][Next]_vars

-----------------------------------------------------------------------------
(* Properties *)

\* Every variable has its type, and a call that has been made asks for
\* something its run may ask for.
File == [there : BOOLEAN, scratchOf : SUBSET Runs, broken : Calls \cup {0}]

FilesTypeOK ==
    /\ fs \in [Paths -> File]
    /\ got \in [Calls -> File]
    /\ stood \in [Paths -> SUBSET Runs]

CallsTypeOK ==
    /\ pc \in [Calls -> Over \cup {"start", "open", "fill", "note", "save", "replace"}]
    /\ DOMAIN call = Calls
    /\ \A c \in Calls : call[c] \in IF pc[c] = "none" THEN {NoCall} ELSE Requests[RunOf[c]]
    /\ sibling \subseteq Calls

RunsTypeOK ==
    /\ run \in [Runs -> {"working", "cleaning", "answered", "failed"}]
    /\ current \in [Runs -> Calls \cup {0}]
    /\ abandoned \subseteq Calls
    /\ paths \in [Runs -> SUBSET Paths] /\ todo \subseteq Paths
    /\ faults \in 0 .. MaxFaults

TypeOK == FilesTypeOK /\ CallsTypeOK /\ RunsTypeOK

Abandoned(r) == \E c \in abandoned : RunOf[c] = r

\* Another run moved something to the path or edited the document there, or the
\* run itself moved on what such a step had brought: the least set of paths that
\* is closed under both.
CarriedByOther(r, p) ==
    \A S \in SUBSET Paths :
        /\ \A c \in Calls : /\ RunOf[c] # r
                           /\ Op(c) \in {"move", "document_edit"}
                          => Target(c) \in S
        /\ \A c \in Calls : Op(c) = "move" /\ Path(c) \in S => Target(c) \in S
        => p \in S

Botched(r) == \E c \in Calls : pc[c] = "failed" /\ Created(c) /\ RunOf[c] = r

\* Once a run has handed out its answer none of its temporary files is left,
\* however often they were moved, rewritten and removed: what can stay is the
\* work of a call that outlived its time limit or failed after it had opened its
\* file, or what another run moved away or, as an edited document, put back.
AnswerLeavesNoScratch ==
    \A r \in Runs : run[r] = "answered" /\ ~Abandoned(r) /\ ~Botched(r) =>
        \A p \in Paths : r \in fs[p].scratchOf => CarriedByOther(r, p)

\* The ledger names paths, not files.  It names only paths at which a temporary
\* file of the run has stood, or to which the run moved what was at such a path,
\* so that the cleanup leaves the rest of the disk alone, as long as no call of
\* the run outlived its time limit.
LedgerStaysAtHome ==
    \A r \in Runs : ~Abandoned(r) => \A p \in paths[r] : r \in stood[p]

\* A document that document_edit writes is whole at every moment, whatever
\* fails and whenever the process dies, unless what it read was not; and its
\* sibling file is gone when the call is over.
DocumentEditIsAtomic ==
    /\ \A p \in Paths : \/ fs[p].broken = 0
                       \/ Op(fs[p].broken) # "document_edit"
                       \/ Spoilt(fs[p].broken)
    /\ \A c \in sibling : pc[c] \in {"save", "replace"}

\* A file that is meant to stay is never removed by the cleanup.
KeptFilesSurvive ==
    [][\A r \in Runs, p \in Paths :
          (CleanOne(r, p) /\ fs[p].there /\ ~fs'[p].there) => fs[p].scratchOf # {}]_vars
=============================================================================
