# A TLA+ model of MAI

MAI is a local AI assistant: a FastAPI server (`mai/app`) that runs an agent
loop (`mai/agent`) over a local model server (`mai/llm`), gives the agent tools
(`mai/tools`), long-term memory (`mai/memory`) and, for administrators, a remote
Windows PC (`mai/remote`). This directory specifies the parts whose correctness
depends on order, failure or concurrency, checks them with TLC on small
instances, and proves their safety properties with TLAPS for all instances.

## 1. Inventory

| Component | State it keeps | Operations | What is hard | What makes it correct |
|---|---|---|---|---|
| Chat jobs (`app/chat_jobs.py`, `app/resumable_chat.py`) | job records in memory, one asyncio task per job, one lock per account | create, run, publish progress, poll, cancel, clean up | cancellation at every await, the lock's queue, a failed write between two writes, restart | turns of an account do not overlap or interleave; accepted answers are stored; every job settles; a job ends with what it wrote |
| Conversation store (`app/chat_sessions.py`) | SQLite rows per account and session | append, list, clear | writes of several jobs, clearing during a job | the messages of a turn stay together; no answer without its question |
| Audit log (`app/audit_log.py`) | SQLite runs and events | start, append, finish | failure in the middle of a run | a completed run is complete and has its answer |
| Runtime memory turns (`app/runtime.py`) | the latest memory task per account, the set of background tasks | await the previous task, run the agent, start the next task, done callback, close | late callbacks, cancelled waiters, shutdown, POST /chat without a lock | read-after-write of the memory, facts in the order of the answers |
| Memory graph and index (`memory/**`) | nodes and edges, full-text index, the index's copy in memory | extract, admit, recall, synchronise | a commit per node and edge, a process that dies between two, sharing of concepts | everything admitted can be recalled, by its account alone |
| Server, access, login limiter (`app/server.py`, `app/access.py`, `app/login_rate_limit.py`) | login tokens, failed attempts | login, logout, chat, delete session | one token per account | a revoked token stays revoked |
| Agent loop and guards (`agent/loop.py`, `agent/guards.py`) | message history, activated tools, failure streak, correction budgets | model round, tool call, verification, correction | many counters over one loop without a round cap; compaction by index | only verified answers leave; rejected drafts stay out of prompts; calls run when warranted; the run ends |
| Final verification (`agent/verification.py`) | none between calls | factual review, quality review, request retries | malformed reviews, time-outs | no approval without a valid factual verdict |
| Tool results (`agent/tool_results.py`) | full results of a run | page, read | pages under a size limit | the pages cover the content |
| Tool registry, artifacts, file tools (`tools/registry.py`, `tools/artifacts.py`, `tools/filesystem.py`, `tools/code.py`, `tools/document_edit.py`) | tool definitions, the paths of temporary files | invoke with a time limit, write, move, copy, delete, edit, clean up | threads that outlive their time limit; a ledger of paths, not files | temporary files do not stay behind, nothing else is removed, documents are whole |
| Browser tool (`tools/browser.py`) | Playwright driver, open sessions, element references | open, snapshot, click, close, close all | a close that fails, a cancelled clean-up, pages that change | no browser outlives its run; clicks hit what was shown |
| Terminal (`tools/terminal.py`) | process group of a command | run, time out, kill | children that outlive their shell and hold its pipes | commands end, failed ones leave nothing |
| Other tools (`tools/*.py`) | none | one function each | none | none that needs a state machine |
| LLM adapters (`llm/*.py`) | none | chat | protocol errors | none that needs a state machine |
| Remote execution (`remote/*.py`, `static/remote-agent.ps1`) | sessions, leases, command queues, requests in flight | create, poll, execute, resolve, close; the agent's loop | lost polls, late results, time-outs, leases, several agents on one key | a command runs at most once and its result reaches its caller; nothing is delivered after a revocation; one valid session per account |
| Browser client (`static/resumable-chat.js`, `static/index.html`) | current job, rendered history, saved job id | submit, poll, recover, synchronise, reset | replies out of order, several owners of one job, reloads, other devices | the page shows what the server stores; bubbles end |
| Trial reset (`scripts/reset_trial.py`) | two databases and the files of an account | delete memory, conversation, uploads | ending half way, sharing concepts with other accounts | after "complete" nothing of the account is used again, others keep everything |
| Other scripts and portable distribution (`scripts/*`, `portable/*`) | files | install, back up, verify | none: one sequential pass | checked by their own verification script |

How they interact: an endpoint of `server.py` or `resumable_chat.py` calls
`MAIRuntime.run_user_message`, which builds an `AgentRuntime` and runs its
`AgentLoop`; the loop awaits the model adapter, the tools and the verifier, and
calls back into the job (`publish_tool`, `publish_model_turn`,
`publish_verification_rejection`). All of it runs on one asyncio event loop;
synchronous tools run in worker threads. Jobs share the account's lock, the
runtime's memory slot and the two databases; the page sees the jobs through
polling alone.

The hazards each component is exposed to are listed, with the lines where they
bite and the properties that watch them, in `PROJECT.json`.

## 2. Modules

| Module | Models | Checked by |
|---|---|---|
| `ChatJobs` | `chat_jobs.py`, `resumable_chat.py`, and the writes they make through `audit_log.py` and `chat_sessions.py` | `MCChatJobs`: runs `jobs`, `live` |
| `ChatJobs_proofs` | theorems about `ChatJobs`, its refinement of `JobService` among them | `tlapm` |
| `JobService` | abstract: what the server promises the pages of one conversation | refined by `ChatJobs` (`jobs`), used by `ChatClient` |
| `ChatClient` | `static/resumable-chat.js` with the chat form and the login of `index.html`, over `JobService` | `MCChatClient`: run `chat_client` |
| `ChatClient_proofs` | theorems about `ChatClient` | `tlapm` |
| `MemoryTurns` | the memory task per account of `app/runtime.py` | `MCMemoryTurns`: runs `memory_turns`, `memory_chat` |
| `MemoryTurns_proofs` | theorems about `MemoryTurns` | `tlapm` |
| `MemoryGraph` | `memory/**` as `app/runtime.py` uses it, `scripts/reset_trial.py` | `MCMemoryGraph`: run `memory_graph` |
| `MemoryGraph_proofs` | theorems about `MemoryGraph` | `tlapm` |
| `AgentLoop` | `AgentLoop.run` and `_execute_tool` (`agent/loop.py`), `AgentGuard` (`agent/guards.py`) | `MCAgentLoop`: run `agent` |
| `AgentLoop_proofs` | theorems about `AgentLoop`, and about `FinalVerifier`, its refinement of `Verdict` among them | `tlapm` |
| `VerificationIssues` | the issue codes of `agent/verification.py` and the sets of them a draft can be rejected with | through its users |
| `Verdict` | abstract: what a verification promises to the agent loop | refined by `FinalVerifier` |
| `FinalVerifier` | `verify`, `_review_final`, `_request_structured_review` (`agent/verification.py`) | `FinalVerifier.cfg`: run `final_verifier` |
| `FileTools` | `tools/registry.py`, `tools/artifacts.py`, the clean-up of `agent/runtime.py`, `tools/filesystem.py`, `tools/code.py`, `tools/document_edit.py` | `MCFileTools`: run `file_tools` |
| `FileTools_proofs` | theorems about `FileTools` | `tlapm` |
| `RunProcesses` | `tools/browser.py`, `tools/terminal.py` and the `finally` of `run_user_message` | `MCRunProcesses`: runs `run_processes`, `run_timeout` |
| `RunProcesses_proofs` | theorems about `RunProcesses` | `tlapm` |
| `RemoteCall` | abstract: what a call with `is_remote=true` promises to the agent loop | refined by `RemoteSession` |
| `RemoteSession` | `remote/session.py`, `remote/routing.py`, the `/remote` endpoints of `app/server.py`, the loop of `static/remote-agent.ps1` | `MCRemoteSession`: run `remote_calls` |
| `RemoteSession_proofs` | theorems about `RemoteSession`, its refinement of `RemoteCall` among them | `tlapm` |

The modules compose along the calls.

- The page talks to the server through the jobs. `ChatClient` takes the server
  from `JobService` (by `INSTANCE`, so that its actions are conjunctions of a
  step of the page and a step of the service), and `ChatJobs` is shown to
  implement `JobService` (`ImplementsJobService`) under faults, cancellations and
  a crash. `JobSeen` is the refinement mapping, for the page of one conversation
  (`Page`): a job the store has dropped or a restart has forgotten is "gone", an
  active one is known by what it wrote. Jobs of other conversations and accounts
  are stutters of the service.
- `ChatJobs` sees an agent run as an await that answers, fails, publishes
  progress or is cancelled (`AgentAnswers`, `AgentFails`, `Publish`,
  `CancelInAgent`). `MemoryTurns` sees the same run from `run_user_message`, and
  the admission of its facts as one step, `Admit`; `MemoryGraph` is the inside of
  that step.
- `AgentLoop` is the inside of the await. It sees a verification as one step,
  `VerifierApproves`, `VerifierRejects` with a set of `Rejections`, or an
  exception (`RunFails`); `FinalVerifier` is the inside of that step and
  implements `Verdict`, which says just this. `Rejections` is shared through
  `VerificationIssues`, so that what `FinalVerifier` is shown to deliver is what
  `AgentLoop` counts on.
- A tool call is an `ExecuteTool` of `AgentLoop`. `FileTools` is its inside for
  synchronous tools, `RunProcesses` for the browser and the shell; a remote one
  is `RemoteSessionManager.execute`, of which the loop may assume `RemoteCall`,
  and `RemoteSession` is the inside of that.

Mistaken versions of definitions (their comments say so) stand beside the right
ones. They are never used by `Next`; each was put in place of the definition it
imitates, and the run of the property it is meant to break reported the
violation.

### ChatJobs

| Code | Model |
|---|---|
| `ChatJobStore._jobs`, `ChatJob.status`, snapshots | `jobs`, `status`, `progress`; `response` and `error` are functions of the status |
| `updated_at` and the retention of `_cleanup` | the set `old`; `RetentionElapses` puts a job there, every update takes it out |
| the task of `start_chat_job` | `pc[j]`; the program points are explained in the module |
| `task.cancel()` / its delivery | `cancelReq` / `CancelBeforeStart`, `CancelInQueue`, `CancelInAgent` |
| `cancel_for` suspended in `gather` | `cancellers` |
| `asyncio.Lock` of `lock_for` | `owner`, `waiters`; a released lock is handed over by `WakeWithLock`, a free lock whose waiters are all being cancelled can be overtaken |
| audit database | `audit`, `audited` |
| conversation database | `rows` |
| the single-threaded event loop | `loop`: the task inside a stretch without `await`; every endpoint and every other task needs `loop = None` |

A stretch without `await` is cut at each database write, since a write may raise
(`Fault`) and the process may die there (`Crash`); nothing else may come in
between. A crash empties the store, the tasks and the locks and keeps both
databases. A job is never posted twice, since its id is random; job texts,
titles and the payload of progress records are left out, their numbers are kept.

### JobService and ChatClient

A job of `JobService` is `new`, then known by the messages it has written
(`asked`, `answered`, `apologised`), then over or `gone`; any request of the
account may let old jobs go (`Dropping`), a restart lets all go.

`ChatClient` has one submission per job, whose id it learns when the reply to its
POST comes (`sub`, `wire`), the recovery timer (`rec`), the synchronisation of
the history (`sync`) and the reset (`reset`), each an asynchronous function of
the page cut where it awaits the server and something stale can come of it. The
page's state is the current job of the page (`currentSubmissionJobId` is
`current`, `activeChat` is `active`), the id in `localStorage` (`saved`) and all that
is shown: the history rendered last (`base`, `signed`) and the `bubbles` added to it
since. A message that is sent adds its own bubble and one for the reply
(index.html:465), which come and go together and are one record; a recovery adds one
(resumable-chat.js:425). A record says whose bubble it is, of which job, and what it
shows: it waits, or holds the stored answer or error of its job, or a note that is no
stored message, or it waits and has been abandoned. `Says` gives the stored messages
it repeats, so that the properties are about everything on the page. Rendering an
unchanged history does nothing (resumable-chat.js:198), and an answer in a recovery's
bubble makes the page render the next one in any case (`SignedAfter`). `historyEpoch`
is a counter that is only compared for equality: the flag `stale` of a recovery or a
synchronisation says that it has moved on. `valid` is the account's one token on the
server, `token` the page's. `late`, `failed`, `dropped` and `resaved` are history
variables. What the network loses, a reload, a
login or a post on another device, a logout and a server restart are actions of
their own, bounded by `MaxFaults` and `MaxUpsets`.

### MemoryTurns

One turn of an account is a `POST /chat/jobs` (in `jobs`, under the account's
lock) or a `POST /chat` (not); which of the two is chosen when it is made.
`slot` is `_memory_tasks_by_user`, `background` is `_background_tasks`, `mem` the
life of a turn's `_postprocess_memory` task; its done callback (`Forget`) runs
any time after the task is over. `awaited` is the reference a turn took before it
awaited the task under `asyncio.shield`; cancelling the turn leaves the task
alone, while `close` cancels every task and with it the turns that await one.

### MemoryGraph

An admission runs without an await but makes a commit for every node, edge and
index row; there is one action per commit, at the program points of `turn.pc`,
and after each of them the rest can fail (`AdmissionFails`) or the server die
(`Stop`). `anchor`, `fact`, `conceptId` and `mentions` are the graph, `indexId`
the two index tables, `table` the copy of the index in the server's memory, which
recall reads. What the extraction returns is one of `TurnFacts`, what the
segmenter makes of a text one of `Segmentations`, which it changes as it learns.
`Start` is `_sync_existing_graph_concepts` followed by the loading of the table.
Reading changes nothing and is a set of operators: `Recall` is `recall_query`, each
hit with the facts on its shortest path to the anchor (`PathToAnchor`), `Expand`
the expansion of a fact that was found, `Overview` the anchor's own facts. Ranking
and its limits are left out, and of several shortest paths all count.
The reset script is `ResetMemory` (one transaction), `ResetChat`, `ResetUploads`,
and can end between them.

### AgentLoop

`history` holds the messages by kind, and whether a message is still in full;
the code's index lists (`rejected_final_indices`, `rejection_feedback_indices`,
the keys of `pending_history_compactions`) are the variables `rejected`,
`feedback` and `compactions`, with the indices TLA+ counts from 1. One action is
one stretch of a round: the model's answer with calls (`ModelCallsTools`), with a
draft (`ModelDrafts`) or with nothing (`ModelFinishesEmpty`), each including the
compaction that precedes it; one tool call (`BlockTool`, `ExecuteTool`) with the
guard before and after it; the end of the round with the notices (`EndRound`);
the verdict (`VerifierApproves`, `VerifierRejects`) with the four budgets; and an
exception out of the adapter, an observer or the verifier (`RunFails`). The guard
is `streak` and `sameRounds`. `prompt`, `shown` and `toolRounds` are history
variables: they record what the model was sent, and no action reads them but the
bound on tool rounds. `executions` is the list the verifier is given, to which
the round of each call is added.

A tool result is its content, one of `Results` or `Faults`, of which `Large` are
the ones the result store pages and later replaces by a reference; what a
registered handler returns is arbitrary. The text of prompts and notices is left
out. Left out as well are the counter `consecutive_grounding_rejections`, which
only chooses a sentence of the prompt, `AgentGuard.after_verification_rejection`,
which nothing calls, and the cancellation of a run, which ends it without a
result (`ChatJobs` has it).

### FinalVerifier

One call of `verify` as `MAIRuntime` makes it: with a reviewer, with all reviews
allowed. A candidate is `flagged` when it holds numbers that no evidence
contains. `stage` and `attempt` are the label and the counter of
`_request_structured_review`. A review is a record of the fields the verdict
depends on; every combination the payload models accept can arrive, those in
which the verdict on the evidence contradicts the claims included. A request can
fail in a way that is retried (`Retry`) or not (`GiveUp`), and the observer, which
writes the audit log, can raise at any call (`ObserverFails`). `VerifierInit`,
`VerifierNext` and `VerifierSpec` carry the component's name since
`AgentLoop_proofs` extends this module and `AgentLoop`.

### FileTools

A call of a run is a request (`op`, `path`, `to`, `life`) handled by a worker
thread, cut at its system calls (`pc`), since several threads work on one disk.
A run awaits one call at a time, but `TimeOut` (`asyncio.wait_for`) and
`RunFails` abandon the thread, which goes on. `fs` is what is at each path:
whether there is a file, the runs whose temporary file it is, and the call that
has opened it for writing and not filled it. `paths` is the ledger of each run,
`stood` a history variable, `todo` the list that `cleanup` sorted. The handlers'
checks of arguments and the access policy are left out, their early returns on
missing files are kept.

### RunProcesses

A run makes its calls one after another, so one `pc` is enough: the await at
which its task stands. The browsers, the driver and the processes of a command
change by themselves (`Rerender`, `LateScript`, `Fork`, `ShellExits`,
`ChildExits`). A Playwright call can fail, a cancellation can arrive at any
await, the ones in an `except` or `finally` block included; `cut` records which
parts of the clean-up were cancelled themselves. A page is the sequence of its
interactive elements, `mark` what the snapshot script has written on them,
`refs` what the model was told.

### RemoteSession

| Code | Model |
|---|---|
| `_sessions`, `connected`, `closed`, `expires_at` | `session[s]`: none, pending, connected, expired, closed; `account[s]` |
| `pending`, `in_flight` and its futures | `queue`, `inFlight`, `future` |
| a call of `execute` | `call[c]`, and `target[c]`, the session it went to |
| a poll handler waiting in the server | membership in `poll`, opened by `OpenPoll`, ended by `TakeCommand` or `PollEmpty` |
| the script's loop, its key and its command | `agent[a]`, `key[a]`, `held[a]` |
| worker processes on the PC | `running`; `WorkerEnds` counts in `runs` how often a command was carried out |
| requests and replies the network loses | `Lose`, at most `MaxLost` |

The manager's methods suspend in two places only, so `poll` is two actions,
`execute` a dispatch and an end, and everything else one action. Time is the
choice of `LeaseExpires`, `Timeout` and `PollEmpty`; the one relation between the
limits that matters, a lease that is longer than a poll, is a guard of
`LeaseExpires`. The waiting pollers of a session are served in any order. A worker
can go on after its agent has been stopped, as the document says. A server restart
loses every session, and ends every caller with the process.

## 3. Runs

| Run | Instance | States | What it shows |
|---|---|---|---|
| `jobs` | 3 jobs of 1 account in 1 conversation, 1 progress record, 2 DELETEs at a time, a failing write or a crash | 840,261 | rows of turns do not interleave, "cancelled" means stopped, accepted answers are durable, the whole implements `JobService` |
| `live` | 3 jobs of 2 accounts, 1 progress record, 2 DELETEs at a time, one of a lost cancel, a failing write and a crash; the agent runs of one account may hang | 368,582 | the other account's jobs settle, its DELETEs are answered |
| `memory_turns` | 3 turns of 1 account, each a job or a `POST /chat` | 555,000 | jobs see the memory of all earlier turns and facts are written in the order of the answers; whatever the mix, the latest memory is settled, only `close` loses memory, and turns end |
| `memory_chat` | the same without the restriction to jobs | violation | finding 1 |
| `final_verifier` | 3 attempts (the code's number), quality review on | 4,854 | approvals rest on reviews, verdicts are not re-rolled, the refinement of `Verdict` with its liveness |
| `agent` | 4 calls, 2 tool rounds of up to 2 calls, guard limits 1, 2 and 1, budgets 1, 0, 1 and 0, a small and a large result | 588,669 | calls run exactly when warranted, results are shown before they are compacted, rejected drafts stay out of prompts, an accepted run returns the approved draft and everything else in its place, rounds are bounded, the newest draft is reported |
| `remote_calls` | 2 sessions, 2 agents, 2 calls, 2 accounts, 1 lost message | 1,478,051 | one valid session per account, closing releases callers, no command dropped, nothing delivered after a revocation, the refinement of `RemoteCall` |
| `memory_graph` | an owner and a trial account, 2 texts over 2 concepts, 3 turns, 1 failing commit, 2 stops, 2 resets, paths of up to 4 edges | 790,775 | what was admitted is recalled, index and graph agree, recall stays with its account, a completed reset leaves at most two named things of the account and spares the other one |
| `file_tools` | 2 calls of one run and 1 of another, 3 paths, 1 failing system call | 2,231,173 | answers leave no temporary file, the ledger stays with the run's files, documents are whole |
| `run_processes` | 2 browsers, 1 command, 2 snapshots per page, 1 failing Playwright call, 2 cancellations, POSIX | 656,809 | nothing outlives a run, clicks hit what was shown, failed commands leave nothing, commands end |
| `run_timeout` | the same on Windows | violation | finding 2 |
| `chat_client` | 1 job, 1 reset, 1 lost message, 1 of restart, reload, logout, login or post elsewhere | 1,077,556 | deleted messages stay off the page, one named case apart, answers keep their questions, history and bubbles converge, no bubble waits for ever |

Why the bounds are enough.

- `jobs`, `live`. Three jobs give a lock a holder, a waiter and a job that finds
  both; a cancelled middle waiter and an overtaking newcomer need no more. Two
  DELETEs are those of two waiters, or of one job, of which the second finds what
  the first left. One failing write reaches every error path; that of an error
  path too is described below, as a fact about the code. A second crash would find
  what the first left behind, as jobs are not resumed. `MaxFaults` bounds failing
  writes, lost cancels and crashes together. In `live` the account with two jobs
  has a queue of its own while the first account's turn hangs; no job is dropped
  there for its age (`MaxOld = 0`), which could only make it count as settled.
- `memory_turns`. With three turns a memory task can be overwritten in the slot
  and missed by a third turn, and a late callback finds a newer task.
- `agent`. Failure limits of 1 and 2 put the warning and the refusal in different
  places and need three calls that are the same, which two calls a turn spread
  over rounds in every way; `overreach` asks for a tool that does not exist
  beside one that does, `guess` calls it. The evidence budget of 1 next to two of
  0 makes a mixed rejection hit a full budget beside one with retries left. The
  code's own numbers are 2, 2, 5, 2 for the budgets and 3, 5, 2 for the guard
  (environment defaults); the theorems of `AgentLoop_proofs` hold for all of
  them.
- `remote_calls`. Two sessions are an expired or revoked one and its successor,
  or the sessions of two accounts; the calls are all of one account, so that the
  other one's PC must stay without commands; two agents on one key take turns at
  one queue, and one of them closes the other's session; of two calls, one can be
  late while the other waits.
- `memory_graph`. A shared concept needs two accounts, a phrase that finds
  another concept two concepts, a text that is cut in two ways a second turn of
  it. Three turns give one that fails, one that meets what it left, and one of
  the other account; the second stop comes after the start that repaired the
  first, the second reset finds what the first left half done. An intact path has
  one edge from a fact and two from a concept; one that goes wrong has three.
- `file_tools`. A second call of the run meets what the first one left at a path
  (moved, rewritten, removed, abandoned); the other run's call comes in between.
  Of the three paths one holds the user's document, one is where files are moved,
  written and deleted, and the third is where a file goes that was moved there and
  carried back in between: two moves in a row need it.
- `run_processes`. Two browsers are what `close_all` needs to lose one; two
  cancellations are one that ends the run and one that meets its clean-up; two
  snapshots are a given-up one and its successor.
- `chat_client`. Of one job every request can be delayed past every other step of
  the page, and the loss, the reset and the upset can meet in one behaviour.
  Submissions that overlap are outside these bounds (two jobs have millions of states
  even without a loss, a reset or an upset): no run meets the end of an older poll
  beside a newer job, and `PageConverges` and `LoadersEnd` are not shown for it. What
  is shown about overlapping submissions is what is proved, for any number of jobs:
  `ClearedStaysCleared` and `AnswersKeepQuestions`.

`CHECK_DEADLOCK FALSE` stands where a run ends: an agent run, a verification, a
closed runtime, a run whose calls are used up, a page whose bounds are used up.
`SYMMETRY` is used over interchangeable job ids, sessions, agents and calls, in
runs without liveness only.

### Fairness

- `ChatJobs`, `FairnessFor`: the event loop runs every ready task (`TaskStep`),
  a `cancel_for` whose task is done resumes, and an agent run comes back
  (`AgentReturns`), since the adapters and tools have time limits and
  `RoundsBounded` limits what follows the last tool call. The last two are assumed
  only for the accounts the run names; `live` leaves them out for one account.
  Requests, cancellations, faults, crashes and time are not fair.
- `MemoryTurns`, `Fairness`: ready turns, agent runs, extraction (a model call
  with a time limit) and callbacks.
- `FinalVerifier`: the call goes on; a request ends by the adapter's
  `request_timeout_seconds` (the verifier sets no limit of its own).
- `RunProcesses`: the event loop collects output that is complete, the time limit
  passes, the kill and what follows it are carried out. What the command does is
  not fair.
- `ChatClient`: the page's functions go on when a reply comes, and one comes
  unless it is lost (the subscripts of the `WF`s name the variables that every step of
  the action changes, which makes the same formula cheaper to check); the recovery timer keeps ringing (`setInterval`); the server
  gets on with its jobs (`JobsSettle`). Users, upsets and losses are not fair.
- `RemoteSession` has none: agents, people and the network are not fair, and that
  every caller is answered is the time limit of `execute` (`asyncio.wait_for`) and
  nothing else.
- `AgentLoop` has none: nothing in the code limits the number of tool rounds, so
  a run need not end. `RoundsBounded` says what is true instead.
- `MemoryGraph` and `FileTools` have none: what they are about is what is left
  when something does not go on.

## 4. What the checks found

1. `memory_chat`. docs/memory.md:37 and docs/architecture.md:9 say that a request
   waits for the memory of the previous ones. The slot holds only the latest
   task. Jobs are serialised by the lock and keep the promise
   (`MemoryInTurnOrder`); `POST /chat` (server.py:531) takes no lock: of two
   overlapping requests the memory of the one answered first is no longer in the
   slot, and a third starts while it is being extracted.
2. `run_timeout`. The description of `terminal_run` (terminal.py:309) says that
   time-outs fail visibly. After the time limit the process tree is killed and
   the output collected once more without a limit (terminal.py:181), and the tool
   is registered without one (terminal.py:314). On Windows `taskkill /PID <shell> /T`
   finds no tree any more once the shell has exited; a background process that it
   left with the pipes survives, and the call waits for it. On POSIX the group is
   killed whether or not the shell is alive, and only a process that left the
   group can do this (`CommandsAreAnswered` names it).

Facts about the code that are not divergences from a document of it, or that no
run counts as one, but that a reader should know.

Jobs:

- The error bubble of a job whose audit run could not be opened is written
  without the lock, and can come between another job's question and answer;
  `TurnsNotInterleaved` names the exception.
- The error bubble in the exception handler of `_run_job` is not guarded. One
  failing write never strands a job; two in a row (say the answer and the bubble)
  leave it "running" until a DELETE or a restart. `JobsSettle` holds with
  `MaxFaults = 1` and not with 2.
- If the agent run swallows a cancellation, the job completes or fails and
  `cancel_for` then overwrites that status with "cancelled": DELETE has the last
  word. `JobService` allows it (`Cancel` of a job that is over).
- The lifespan of the server closes the runtime but never calls
  `ChatJobStore.shutdown`: running jobs meet closed databases and fail.
- After `close`, running turns still start memory tasks, whose writes all fail.

Agent loop, guard and verification:

- guards.py:62-64 says that a streak of failures is surfaced to the model before
  it is stopped. The streak also counts within one turn, so a turn with more than
  `max_identical_failures` copies of one call has the last ones refused before
  the model has seen a failure or the warning (guards.py:82, 102-106,
  loop.py:471). `RefusedExactlyWhenHopeless` says exactly which calls are refused.
- The comment loop.py:244-246 says that the latest rejected draft is kept together
  with its feedback. The loop below it leaves out every rejected draft, as
  docs/architecture.md:46 and tests/test_final_grounding_verifier.py:199 want it
  and `RejectedDraftsStayOut` states it; the comment is out of date.
- A candidate whose evidence is "uncertain" is approved without a quality review
  (tests name this as intended: `test_uncertain_review_does_not_block_release`).

Remote execution:

- A result that comes after its caller has timed out or was cancelled is answered
  with 409 (session.py:137, 159-160, server.py:786-787); the script treats that
  like any failed request, leaves its loop and deletes its session
  (remote-agent.ps1:137). Cancelling one chat job thus disconnects the PC and
  fails every other call on it, which docs/remote-powershell-connection.md:9
  does not name among the ends of a connection.
- A remote command whose caller has gone stays in the queue and is carried out
  later; `RemoteCall` allows it (`Perform` after `GiveUp`).
- When a lease ends nothing runs: callers wait for their own time limit, and the
  session record stays in the manager for good, as `close` is reached only for
  valid sessions.
- A pending session that is handed out again is announced with a full ten minutes
  (server.py:710), whatever is left of them.

Memory:

- The reset script probes the server's port before it asks for confirmation
  (reset_trial.py:249) and not again. With `StartsDuringReset = TRUE`, a server
  started while the prompt waits, `IndexFollowsGraph` and `ResetLeavesAtMost`
  are violated; the run checks the use the documentation asks for.
- A concept whose indexing failed is hidden from recall until the next start:
  every later turn finds it created. `AdmittedIsRecalled` names the exception.
- Two things of an account survive a reset that says it is complete, although
  setup.md:164 has it reset the account's memory: the `evidence` rows of its turns,
  which hold what was said (docs/memory.md:20) but carry no account, so that the
  script does not find them (reset_trial.py:75-93, 143-144), and an anchor node whose
  `user_anchors` row was never committed. `ResetLeavesAtMost` names both and says that
  nothing else is left.

Files and processes:

- A `file_write` of a temporary file that fails after it has opened its file, or
  is abandoned by the time limit, leaves a file no ledger knows
  (filesystem.py:192-194), against docs/architecture.md:67; a thread that was
  abandoned registers its file late, when the run has been cleaned up.
  `AnswerLeavesNoScratch` names both exceptions, and that another run which moves
  such a file, or edits it as a document while it is removed, puts it where the
  ledger does not look: there, or wherever the file is moved on to
  (`CarriedByOther`). A run that fails or is cancelled cleans nothing up.
- The ledger knows paths. A file that is meant to stay and is moved or written to
  a path that the ledger names is deleted with the answer: `KeptFilesSurvive`
  states that it is not, and does not hold. What does hold is
  `LedgerStaysAtHome`.
- `close_all` closes every browser even if one fails, but the failure turns an
  answered run into a failed one (runtime.py:329). A second cancellation that
  hits the stop of the driver leaves it running; so does one that hits its start.
- A quiet background child of a command that succeeded outlives the run. With
  `Windows = TRUE`, `FailedCommandsAreStopped` fails as well, for the reason of
  finding 2. An output limit below 1 is refused only after the process has been
  created, and the output limit exceeded in the second collection replaces the
  time-out as the reported error.

Page:

- A job that is posted while a reset is past its listing of the active jobs
  keeps running when its question is deleted, and its answer comes without it
  (server.py:667); `AnswersKeepQuestions` names the exception. A POST that is
  aborted before its id is known leaves a job that runs on.
- An answer that a reset deleted can come back on the page. The reply to a POST is
  delayed past the end of its job and a reset; the page saves the id
  (resumable-chat.js:329), its own poll is lost or the page reloaded, and the next
  recovery, which begins after the reset and so has the new epoch, takes the saved id
  up and puts the answer into its bubble (resumable-chat.js:436-445). It stays until
  the next history is rendered. `ClearedStaysCleared` names this case (`resaved`) and
  shows that there is no other.
- A message whose POST is lost stays on the page with the error below it: the stored
  history has not changed, and is not rendered again (resumable-chat.js:198). An error
  that was stored is shown twice if a recovery reports it, in the history and in its
  bubble, for the same reason: only an answer resets the signature
  (resumable-chat.js:445). `Keeps` is the list of what may stay, and `PageConverges`
  says that nothing else does.
- A reset that fails after it has made the recovery stale leaves the recovery's
  bubble behind, and one whose last reply is lost has deleted the messages that are
  still on the page, where an unchanged history does not replace bubbles; the exception
  `failed` of `LoadersEnd` and of the second half of `PageConverges` is for these.
- A submission and the recovery may poll one job twice, and a synchronisation in
  flight renders over a message that was just submitted. In both cases a later
  synchronisation repairs the page, which is what `PageConverges` says. The end of an
  older poll can also remove the saved id of a newer job (resumable-chat.js:304, 308,
  313); that needs two jobs, and no run shows what becomes of it.

## 5. Proofs

All theorems hold for every value of the constants that satisfies the named
assumptions (`JobsAssumption`, `BoundsAssumption`, `ToolsAssumption`,
`LimitsAssumption`, `FinalVerifierAssumption`, `ClientAssumption`,
`RemoteAssumption`, `MemoryAssumption`, `TurnsAssumption`, `ProcessAssumption`,
`FileAssumption`); TLC evaluates them in the runs of these modules. Two assumptions
more stand in the theorems themselves, since the code is only right under them:
`~StartsDuringReset` (the server stays down while the reset script runs, as the
script's documentation asks) in the theorems about index, recall, admission and a
completed reset, and `~Windows` in `CommandsAreStopped` (section 4 says what happens
otherwise). Neither is needed for `ResetTakesOnlyItsOwn`, or for the other theorems
about a run's processes. Each inductive invariant was checked by TLC before it was
proved.

### ChatJobs_proofs

- `TypeCorrect` (`TypeOK`). `LockSafe` (`LockHeldExactlyInTurn`) is inductive
  together with `TypeOK`: a job is between the acquisition and the end of `async
  with` exactly if it is the owner, and each exit (an answer, three failures, a
  refusal, a cancellation) releases what its own job holds. `MutualExclusion`
  follows. No run lists it: a lock taken twice shows in `TurnsNotInterleaved`, a
  leaked one in `JobsSettle`. `CancelledJobsAreOver` (`CancelledMeansStopped`) is
  inductive as well.
- `AnswersAreDurable` (`AcceptedAnswersAreDurable`) rests on `AuditInv` (the state of
  an audit run is that of the task that opened it), `RecordInv` (every record the
  client was shown is in the audit database as long as the job can be accepted) and
  `AnswerInv` (the answer is stored before the run and the job are completed).
- `TurnsStayTogether` (`TurnsNotInterleaved`). The error of a job is written after
  its lock was released, so that the lock alone does not keep messages together.
  `AfterTurn` says that nobody has taken the lock before the task gives the event
  loop back (`LoopInv`: the loop belongs to the task in a stretch without `await`);
  `OpenInv` says that as long as a job may write, its messages are the last ones.
- `ServiceKept` (`ImplementsJobService`), the refinement of `JobService` for the page
  of any one conversation. `StoreInv` says that the store holds every job that has a
  task, `SaidInv` what a job has written at each program point. A step of a job is
  either quiet for the page (`Quiet`: nothing written, not posted, not ended) or one
  of nine that the service names (`Tells`, `TellsService`); `Dropping` is what the
  clean-up does to jobs that are over, and `CrashService` is the restart.

### AgentLoop_proofs

- `CorrectionsAreBounded` (`CorrectionsBounded`, which no run checks apart, since the
  bound on rounds rests on it) and `RoundsAreBounded`. The bound on corrections is not
  inductive by itself. `BudgetInv` adds that no budget is overdrawn and that
  corrections are at most the retries spent; the step rests on `EveryIssueIsPaid`:
  every set in `Rejections` hits some budget. That is where a budget that forgets an
  issue code would break the proof. `RoundInv` adds that every round but the current
  one was a tool round, a correction or the empty answer.
- `DraftsStayOut` (`RejectedDraftsStayOut`: no rejected draft is in a prompt, and the one
  correction in it is the newest, except that the prompt recorded last was built
  before the feedback of a rejection that has just come), `ResultsAreShown`
  (`ShownBeforeCompacted`)
  and `FailuresReportDrafts` (`FailureReportsLatestDraft`) through `ConvInv`: the
  drafts of the history are exactly the rejected ones (and the one under
  verification), its feedback messages exactly those of `feedback`, the pending
  compactions are tool results. The code keeps these index lists beside the
  history; `Extends` says what every append and compaction leaves in its place.
- `WarrantedCallsRunOnly` (`WarrantedCallsRun`). `SchemaInv` ties the activated and the
  exposed tools to the executions that activated them, and to their rounds.
  `StreakInv` says that the guard's streak counts the last executions that ran, as
  far back as they are one failure and no farther; from it both halves of "refused
  exactly when hopeless" follow.
- `ApprovedDraftsStandAlone` (`ApprovedDraftStandsAlone`). `DropInv` says that the list
  of rejected drafts increases, that the draft under verification is behind all of
  them, and that feedback and tool results are counted right. The rest is about the
  loop that deletes the drafts, the last one first: `FoldRemoves` unrolls the fold of
  `DropRejected` into its intermediate results, and `Dropping` carries `LeftToDrop`
  along them (the drafts left are the ones the list still names, at the places it
  names, and the last message), by `DropOne` for one deletion. Deleting in ascending
  order fails exactly there: the places behind a deletion move. The library's
  induction theorems take an operator and cannot be used; `NatBySet` is induction for
  a set, from the well-foundedness of `<`.
- `TypeCorrect` (`TypeOK`), which for an accepted run rests on `Dropping` as well.
- About `FinalVerifier`: `VerifierTypeCorrect`, `ApprovalsRestOnReviews`,
  `VerdictsAreNotReRolled`, and `VerifierKeepsPromiseSafely`, the refinement of
  `Verdict` without its fairness. `StageInv` says which reviews are there when a stage
  is reached, `EventInv` that a validated review puts its stage behind the call.
  `RejectionsArePaid` puts the two components together: whatever the reviews say, a
  rejection by `FinalVerifier` is paid from a budget of `AgentLoop`.

### ChatClient_proofs

Its 32 actions touch the messages in few ways. `KindsOfSteps` shows each of them
to be of one of nine kinds (`Kinds`): something settles, the history is asked for or
rendered, a job is posted or writes, and four steps of resets. The invariants are
proved for the kinds.

- `ClearedMessagesStayCleared` (`ClearedStaysCleared`), for the history that was rendered
  and for the bubbles. For the history, `DroppedInv` says why its epoch is enough: a reply that was asked for before a reset is stale as long
  as that reset runs and after it, and one that is not stale holds nothing a finished
  reset deleted. It needs that what was deleted is never stored again, so that its
  jobs are over: `ResetInv` says that a reset that is still cancelling knows every
  running job, or the job came behind its back (`late`). That is where a reset that
  does not wait for its cancellations breaks the proof. For the bubbles, `ShownInv` says
  that none repeats a deleted message and that none will: a running reset makes the
  recovery stale, its end empties the page and forgets the saved job, and of a job
  whose answer was deleted neither the saved id nor a recovery that counts knows,
  unless the id came later (`resaved`). A form's bubbles are of jobs that had written
  nothing when they were added, which is after every reset that has finished.
- `AnswersAreKeptWithQuestions` (`AnswersKeepQuestions`) through `StoreInv`: a job that is
  yet to be answered has its question stored, or is late.
- `TypeCorrect` (`TypeOK`).

### RemoteSession_proofs

`TypeCorrect`; `OneActive`, inductive as it stands; `ClosedReleases` through `FlightInv`
(who waits is registered, a closed session registers nobody); `PromiseKept`, the
refinement of `RemoteCall`, through `CommandInv`: a queued or running command has not
been carried out, a queue holds a command once, a settled future holds the
command's outcome; `CommandsStay` (`CommandsStayWithOwner`, which no run checks) and
`RevocationHolds` through `OwnerInv`, which ties queues and agents to the account of
their one session; `CommandsAreKept` (`CommandAccountedFor`) through `HeldInv`: without
losses every open poll has a listener, so that no command goes to nobody, and an
agent works on a command of its own session, so that only a result nobody waits for
is refused.

### MemoryGraph_proofs

- `TypeCorrect`, together with `HandOK`: a program point that works on a fact or a
  concept has one in hand.
- `IndexAgrees` (`IndexFollowsGraph`) and `AdmissionIsRecalled` (`AdmittedIsRecalled`)
  through `GraphInv`: both ends of every mention are there, a concept outside the
  index table is one whose indexing is under way or failed since the start, and the
  ids the turn holds (`AtWork`) are still those of the graph. That last part needs
  that nothing else writes while a turn is at work (`Quiet`), which is where
  `~StartsDuringReset` enters.
- `RecallStaysOwn` (`RecalledIsAsserted`) follows from `GraphInv` by the shape of
  shortest paths: a concept that mentions connect to the anchor is two edges away,
  and every fact on such a path is the account's own.
- `ResetLeavesNoMore` (`ResetLeavesAtMost`) through `ResetInv`, and
  `ResetTakesOnlyItsOwn` (`ResetSparesOthers`), an action property, from types alone.

### MemoryTurns_proofs

`TypeCorrect`; `CancelKeepsMemory` (`OnlyCloseLosesMemory`), inductive as it stands;
`LatestIsSettled` (`LatestMemorySettled`) through `SlotInv` (the slot names the turn
answered last, or that one is settled; this is what a late callback that clears the
slot would break) and `WaitInv`; `MemoryKeepsOrder` (`MemoryInTurnOrder`) through
`LockInv`, `SeenInv` and `EarlierSettled`: as long as turns come as jobs, only the turn
answered last may still have its task at work.

### RunProcesses_proofs

`TypeCorrect`; `CommandsAreStopped` (`FailedCommandsAreStopped`) through `ShellInv`;
`RunLeavesNothing` (`NothingOutlivesTheRun`) through `DriverInv` (without the driver no
browser is alive, and there is one driver at most unless a start or stop was given
up); `ClicksLand` (`ClicksHitWhatWasShown`) through `RefsOK`: the generation of a
reference that was given out is used by no snapshot still to come and no script
still to run.

### FileTools_proofs

- `TypeCorrect`. `EditsAreAtomic` (`DocumentEditIsAtomic`) through `BrokenInv`: what is
  not whole is the work of a call that has opened or replaced it.
- `LedgerIsTheRunsOwn` (`LedgerStaysAtHome`) through `HomeInv`: what a call is about to
  register is where the run's file has stood.
- `AnswersLeaveNoScratch` (`AnswerLeavesNoScratch`) through `ScratchInv`: of a run none
  of whose calls was given up or failed half-way, every temporary file is known to
  the ledger (or, while it cleans up, to the list it works off), about to be, or
  carried there by another run. The attempt at this proof showed that an earlier
  `CarriedByOther`, which looked one move far, was too weak with three paths; TLC
  confirmed it (a file that another run had moved was moved on by the run itself).
  It is now the least set of paths closed under moves, and the run has a third path.

### What stays with TLC

- Liveness (`JobsSettle`, `CancelsAreAnswered`, `TurnsEnd`, `CommandsAreAnswered`,
  `PageConverges`, `LoadersEnd`, the fairness part of `FinalVerifier`'s
  `KeepsPromise`), which is beyond these provers.

All other properties of the passing runs, and the type invariants of all components,
are theorems.

## 6. What is not modelled

- Text: prompts, notices, wording, numbers in candidate answers (their extraction
  is the choice of `flagged`). The model server and HTTP itself.
- The pages of a tool result (`agent/tool_results.py`): a page's metadata is
  shorter than the reserve it is given, so the loop that shrinks a page never
  goes round, and what is left is a slice of a string.
- The login limiter: its handler has no `await` between the check and the count
  (server.py:330-358), so attempts cannot pass the check together.
- In the modelled components: ranking and the limit of twelve concepts of recall,
  the working graph of a turn; directories, interleaved bytes of two writers and
  the copying fallback of `shutil.move`; `input_text`, `press_key` and `scroll` of
  the browser, which are a click or a snapshot with another Playwright call, and
  its check of URLs; voice, attachments and layout of the page, several
  conversations of one page, a conversation longer than the history's limit and
  a change of the account on one page; `close_owner_sessions` and
  `remote/tools.py`, which nothing calls.
- Uploads, downloads, voice, Tailscale, the model adapters, tools without state
  and the scripts but the reset: single steps whose state does not outlive a
  request, or one sequential pass beside which nothing runs.

## 7. Plan

Every safety property that a passing run checks is proved. What is left to do:

1. Shorter proofs: the steps that leave a component alone are treated one action at
   a time in `RemoteSession_proofs`, where kinds of steps as in `ChatClient_proofs`
   would do.
2. The parts of the code that section 6 leaves out, where a hazard turns up.

The runs are kept few and dense: a question that comes with a new module is asked
in a run that already explores its component, and an older, shallower property
gives way to a deeper one.
