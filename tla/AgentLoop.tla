------------------------------ MODULE AgentLoop ------------------------------
(***************************************************************************)
(* One agent run: AgentLoop.run (mai/agent/loop.py) with its AgentGuard    *)
(* (mai/agent/guards.py).  A round sends the model a prompt built from the *)
(* message history; the model calls tools, or finishes with a draft that   *)
(* the verifier approves or rejects, or with nothing.  A run is one        *)
(* coroutine; what makes it hard is the state carried from round to round: *)
(* which messages the prompt leaves out, which tool results are to be      *)
(* compacted (by their index in the history), which tools are activated,   *)
(* the guard's streaks and five retry budgets, while nothing limits the    *)
(* number of rounds.                                                       *)
(*                                                                         *)
(* Messages are kept by kind; contents only of tool results.  The counter  *)
(* consecutive_grounding_rejections, which chooses a sentence of the prompt*)
(* in the way `unchanged` does, is left out.                               *)
(***************************************************************************)
EXTENDS Naturals, FiniteSets, SequencesExt, VerificationIssues

CONSTANTS
    Tools,          \* the registered tools; tool_manual is not one of them
    Calls,          \* a tool name with arguments
    ToolOf,         \* the tool a call names: registered, tool_manual or unknown
    Requested,      \* what a call to tool_manual asks for; {}: bad arguments
    Results,        \* contents of successful tool results
    Faults,         \* contents of the results of handlers that raise
    Large,          \* the contents ToolResultStore pages and compacts
    WarnFailures, MaxFailures, MaxSameRounds,   \* GuardConfig
    NumericRetries, SemanticRetries, EvidenceRetries, CoverageRetries,
    MaxToolRounds,  \* bound: rounds in which the model calls tools
    MaxCalls        \* bound: tool calls of one model turn

Manual == "tool_manual"
Errors == {"unavailable", "unknown", "arguments", "blocked"}

ASSUME ToolsAssumption ==
    /\ Manual \notin Tools
    /\ Large \subseteq Results \cup Faults
    /\ (Results \cup Faults) \cap (Errors \cup {"activated"}) = {}
    /\ Results \cap Faults = {}

ASSUME LimitsAssumption ==
    /\ {WarnFailures, MaxFailures, MaxSameRounds} \subseteq Nat \ {0}
    /\ WarnFailures <= MaxFailures
    /\ {NumericRetries, SemanticRetries, EvidenceRetries, CoverageRetries} \subseteq Nat
    /\ {MaxToolRounds, MaxCalls} \subseteq Nat

VARIABLES
    pc,             \* ask, tools, verify, accepted or failed
    round,          \* round_number
    history,        \* the messages of the run
    rejected,       \* rejected_final_indices, in order
    feedback,       \* rejection_feedback_indices, in order
    compactions,    \* keys of pending_history_compactions
    activated,      \* activated_tool_names
    exposed,        \* active_tool_names but tool_manual, fixed for a round
    calls,          \* tool calls of the turn still to be made
    observed,       \* observations of the round
    notices,        \* round_notices, without repetitions
    streak,         \* the guard's failure streak
    sameRounds,     \* the guard's last round and how often it came in a row
    executions,     \* every tool execution
    retries,        \* verification retries made, by budget
    emptyRetries,
    unchanged,      \* rejections in a row on the same successful evidence
    rejectedOn,     \* the evidence of the last of them, if any
    reported,       \* the draft a failed run reports, by index, or 0
    prompt,         \* history variable: what the model was sent last
    shown,          \* history variable: messages the model has seen in full
    toolRounds      \* history variable: rounds with tool calls

conversation == <<history, rejected, feedback, compactions, prompt, shown>>
tooling == <<activated, exposed, calls, observed, notices, executions, toolRounds>>
guard == <<streak, sameRounds>>
verification == <<retries, unchanged, rejectedOn>>
vars == <<pc, round, conversation, tooling, guard, verification, emptyRetries, reported>>

\* The budget that pays for the correction of an issue.  BudgetOfClaims, and
\* further down PromptWithOldest, RespondCompactedFirst, StreakKeptBySuccess,
\* DropRejectedAscending and RunFailsForgettingDraft, are mistakes that the
\* properties must reject; no action uses them.
BudgetOfClaims ==
    [numeric |-> {"numeric"}, semantic |-> {"alignment"},
     evidence |-> {"evidence", "claim", "scope"}, coverage |-> {"coverage"}]
BudgetOf ==
    [numeric |-> {"numeric"}, semantic |-> {"alignment"},
     evidence |-> {"evidence", "claim", "scope", "action"}, coverage |-> {"coverage"}]
Budgets == {"numeric", "semantic", "evidence", "coverage"}
Limit ==
    [numeric |-> NumericRetries, semantic |-> SemanticRetries,
     evidence |-> EvidenceRetries, coverage |-> CoverageRetries]

Message(kind) == [kind |-> kind, full |-> TRUE]
NoStreak == [call |-> "none", content |-> "none", count |-> 0]

Init ==
    /\ pc = "ask" /\ round = 1
    /\ history = <<Message("request")>>
    /\ rejected = <<>> /\ feedback = <<>> /\ compactions = {}
    /\ prompt = [messages |-> {}, correction |-> 0] /\ shown = {}
    /\ activated = {} /\ exposed = {}
    /\ calls = <<>> /\ observed = <<>> /\ notices = {} /\ executions = <<>>
    /\ toolRounds = 0
    /\ streak = NoStreak /\ sameRounds = [observed |-> <<>>, count |-> 0]
    /\ retries = [b \in Budgets |-> 0] /\ emptyRetries = 0
    /\ unchanged = 0 /\ rejectedOn = {}
    /\ reported = 0

-----------------------------------------------------------------------------
(* The prompt *)

\* The feedback of the latest rejection, by its place in the history.
NewestFeedback == IF feedback = <<>> THEN 0 ELSE Last(feedback)

\* A mistaken Prompt that keeps to the first correction.
PromptWithOldest ==
    [messages |-> DOMAIN history \ (ToSet(rejected) \cup ToSet(feedback)),
     correction |-> IF feedback = <<>> THEN 0 ELSE Head(feedback)]

\* Rejected drafts and verifier feedback stay out; the latest feedback comes
\* back as the correction the model is asked for.
Prompt ==
    [messages |-> DOMAIN history \ (ToSet(rejected) \cup ToSet(feedback)),
     correction |-> NewestFeedback]

\* The model has seen the pending results in full: the references replace them.
Compacted ==
    [i \in DOMAIN history |->
        IF i \in compactions THEN [history[i] EXCEPT !.full = FALSE] ELSE history[i]]

\* A mistaken Respond that compacts before it asks the model.
RespondCompactedFirst(messages) ==
    /\ prompt' = Prompt
    /\ shown' = shown \cup {i \in Prompt.messages : Compacted[i].full}
    /\ exposed' = activated
    /\ history' = Compacted \o messages
    /\ compactions' = {}

\* adapter.chat returns: the prompt it was sent, the schemas exposed with it,
\* and the messages appended to the history.
Respond(messages) ==
    /\ prompt' = Prompt
    /\ shown' = shown \cup {i \in Prompt.messages : history[i].full}
    /\ exposed' = activated
    /\ history' = Compacted \o messages
    /\ compactions' = {}

ModelCallsTools ==
    /\ pc = "ask" /\ pc' = "tools"
    /\ toolRounds < MaxToolRounds /\ toolRounds' = toolRounds + 1
    /\ calls' \in UNION {[1 .. n -> Calls] : n \in 1 .. MaxCalls}
    /\ Respond(<<Message("turn")>>)
    /\ observed' = <<>> /\ notices' = {}
    /\ UNCHANGED <<round, rejected, feedback, activated, executions, guard,
                   verification, emptyRetries, reported>>

ModelDrafts ==
    /\ pc = "ask" /\ pc' = "verify"
    /\ Respond(<<Message("draft")>>)
    /\ UNCHANGED <<round, rejected, feedback, activated, calls, observed, notices,
                   executions, toolRounds, guard, verification, emptyRetries, reported>>

LastRejected == IF rejected = <<>> THEN 0 ELSE Last(rejected)

\* An empty final answer is sent back once; the second one fails the run.
ModelFinishesEmpty ==
    /\ pc = "ask"
    /\ \/ /\ emptyRetries < 1
          /\ emptyRetries' = emptyRetries + 1
          /\ Respond(<<Message("empty"), Message("notice")>>)
          /\ round' = round + 1
          /\ UNCHANGED <<pc, reported>>
       \/ /\ emptyRetries >= 1
          /\ Respond(<<Message("empty")>>)
          /\ pc' = "failed"
          /\ reported' = LastRejected
          /\ UNCHANGED <<round, emptyRetries>>
    /\ UNCHANGED <<rejected, feedback, activated, calls, observed, notices,
                   executions, toolRounds, guard, verification>>

-----------------------------------------------------------------------------
(* Tool calls *)

Execution(c, ok, content, started) ==
    [call |-> c, ok |-> ok, content |-> content, started |-> started, round |-> round]

Failure(c, error, started) == Execution(c, FALSE, error, started)

\* What _execute_tool can return: available are the tools whose schemas this
\* round's prompt exposed.
Outcomes(c) ==
    CASE ToolOf[c] \in Tools \ exposed -> {Failure(c, "unavailable", FALSE)}
      [] ToolOf[c] = Manual /\ Requested[c] = {} -> {Failure(c, "arguments", FALSE)}
      [] ToolOf[c] = Manual /\ Requested[c] # {} ->
            {IF Requested[c] \subseteq Tools
               THEN Execution(c, TRUE, "activated", TRUE)
               ELSE Failure(c, "unknown", FALSE)}
      [] ToolOf[c] \notin Tools \cup {Manual} -> {Failure(c, "unknown", FALSE)}
      [] OTHER ->
            {Execution(c, TRUE, r, TRUE) : r \in Results}
            \cup {Failure(c, e, TRUE) : e \in Faults}
            \cup {Failure(c, "arguments", FALSE)}

\* AgentGuard.before_tool_call.
Blocked(c) == streak.call = c /\ streak.count >= MaxFailures

\* AgentGuard.after_tool_execution.
StreakKeptBySuccess(x) ==
    IF x.ok THEN streak
    ELSE [call |-> x.call, content |-> x.content,
          count |-> IF streak.call = x.call /\ streak.content = x.content
                      THEN streak.count + 1 ELSE 1]
NextStreak(x) ==
    IF x.ok THEN NoStreak
    ELSE [call |-> x.call, content |-> x.content,
          count |-> IF streak.call = x.call /\ streak.content = x.content
                      THEN streak.count + 1 ELSE 1]

\* What every execution leaves behind.
Record(x) ==
    /\ calls' = Tail(calls)
    /\ executions' = Append(executions, x)
    /\ history' = Append(history, Message("tool"))
    /\ compactions' =
          IF x.content \in Large THEN compactions \cup {Len(history) + 1} ELSE compactions
    /\ observed' = Append(observed, [call |-> x.call, ok |-> x.ok, content |-> x.content])
    /\ UNCHANGED <<pc, round, rejected, feedback, prompt, shown, exposed, toolRounds,
                   sameRounds, verification, emptyRetries, reported>>

\* The guard refuses the call: a failed execution that leaves the streak alone.
BlockTool ==
    /\ pc = "tools" /\ calls # <<>>
    /\ Blocked(Head(calls))
    /\ Record(Failure(Head(calls), "blocked", FALSE))
    /\ notices' = notices \cup {"blocked"}
    /\ UNCHANGED <<activated, streak>>

ExecuteTool ==
    /\ pc = "tools" /\ calls # <<>>
    /\ ~Blocked(Head(calls))
    /\ \E x \in Outcomes(Head(calls)) :
          /\ Record(x)
          /\ streak' = NextStreak(x)
          /\ notices' = IF ~x.ok /\ NextStreak(x).count = WarnFailures
                          THEN notices \cup {"warning"} ELSE notices
          /\ activated' = IF ToolOf[x.call] = Manual /\ x.ok
                            THEN activated \cup Requested[x.call] ELSE activated

\* AgentGuard.after_tool_round.
NextSameRounds ==
    [observed |-> observed,
     count |-> IF observed = sameRounds.observed THEN sameRounds.count + 1 ELSE 1]

\* The round ends with its notices as system messages.
EndRound ==
    /\ pc = "tools" /\ calls = <<>>
    /\ pc' = "ask" /\ round' = round + 1
    /\ sameRounds' = NextSameRounds
    /\ LET all == notices \cup {n \in {"noProgress"} : sameRounds'.count > MaxSameRounds}
       IN  history' = history \o [i \in 1 .. Cardinality(all) |-> Message("notice")]
    /\ notices' = {} /\ observed' = <<>>
    /\ UNCHANGED <<rejected, feedback, compactions, prompt, shown, activated, exposed, calls,
                   executions, toolRounds, streak, verification, emptyRetries, reported>>

-----------------------------------------------------------------------------
(* Verification of a draft *)

\* Accepted: the rejected drafts leave the history, the last one first.
DropRejectedAscending ==
    history' = FoldLeft(LAMBDA h, i : RemoveAt(h, i), history, rejected)
DropRejected ==
    history' = FoldLeft(LAMBDA h, i : RemoveAt(h, i), history, Reverse(rejected))

VerifierApproves ==
    /\ pc = "verify" /\ pc' = "accepted"
    /\ DropRejected
    /\ UNCHANGED <<round, rejected, feedback, compactions, prompt, shown, tooling, guard,
                   verification, emptyRetries, reported>>

\* The successful results a draft could rest on.
Evidence ==
    {<<ToolOf[executions[i].call], executions[i].content>> :
        i \in {k \in DOMAIN executions :
                 executions[k].ok /\ ToolOf[executions[k].call] # Manual}}

\* How often in a row factual rejections met the same evidence.
CountEvidence(factual) ==
    IF factual
         THEN /\ unchanged' = IF rejectedOn = {Evidence} THEN unchanged + 1 ELSE 1
              /\ rejectedOn' = {Evidence}
         ELSE unchanged' = 0 /\ rejectedOn' = {}

\* The draft is rejected, and the run goes on while every budget that is hit
\* has a retry left.
VerifierRejects ==
    /\ pc = "verify"
    /\ \E I \in Rejections :
          LET hit == {b \in Budgets : BudgetOf[b] \cap I # {}} IN
          /\ CountEvidence(hit \cap {"numeric", "evidence"} # {})
          /\ rejected' = Append(rejected, Len(history))
          /\ \/ /\ \A b \in hit : retries[b] < Limit[b]
                /\ retries' = [b \in Budgets |-> IF b \in hit THEN retries[b] + 1 ELSE retries[b]]
                /\ history' = Append(history, Message("feedback"))
                /\ feedback' = Append(feedback, Len(history) + 1)
                /\ pc' = "ask" /\ round' = round + 1
                /\ UNCHANGED reported
             \/ /\ \E b \in hit : retries[b] >= Limit[b]
                /\ pc' = "failed"
                /\ reported' = Len(history)
                /\ UNCHANGED <<retries, history, feedback, round>>
    /\ UNCHANGED <<compactions, prompt, shown, tooling, guard, emptyRetries>>

\* The adapter, the verifier, an observer or the serialisation of a result
\* raises: AgentRunFailure with the draft under verification, or the last one
\* that was rejected.
RunFailsForgettingDraft ==
    /\ pc \in {"ask", "tools", "verify"}
    /\ pc' = "failed"
    /\ reported' = LastRejected
    /\ UNCHANGED <<round, conversation, tooling, guard, verification, emptyRetries>>
RunFails ==
    /\ pc \in {"ask", "tools", "verify"}
    /\ pc' = "failed"
    /\ reported' = IF pc = "verify" THEN Len(history) ELSE LastRejected
    /\ UNCHANGED <<round, conversation, tooling, guard, verification, emptyRetries>>

-----------------------------------------------------------------------------
Next ==
    \/ ModelCallsTools \/ ModelDrafts \/ ModelFinishesEmpty
    \/ BlockTool \/ ExecuteTool \/ EndRound
    \/ VerifierApproves \/ VerifierRejects
    \/ RunFails

Spec == Init /\ [][Next]_vars

-----------------------------------------------------------------------------
(* Properties *)

Contents == Results \cup Faults \cup Errors \cup {"activated"}
Messages == [kind : {"request", "turn", "draft", "empty", "tool", "notice", "feedback"}, full : BOOLEAN]
Executions == [call : Calls, ok : BOOLEAN, content : Contents, started : BOOLEAN, round : Nat]

\* Every variable has its type.
TypeOK ==
    /\ pc \in {"ask", "tools", "verify", "accepted", "failed"}
    /\ round \in Nat
    /\ history \in Seq(Messages)
    /\ rejected \in Seq(Nat) /\ feedback \in Seq(Nat)
    /\ compactions \subseteq Nat /\ shown \subseteq Nat
    /\ prompt \in [messages : SUBSET Nat, correction : Nat]
    /\ activated \subseteq Tools /\ exposed \subseteq Tools
    /\ calls \in Seq(Calls)
    /\ observed \in Seq([call : Calls, ok : BOOLEAN, content : Contents])
    /\ notices \subseteq {"blocked", "warning"}
    /\ executions \in Seq(Executions)
    /\ streak \in [call : Calls \cup {"none"}, content : Contents \cup {"none"}, count : Nat]
    /\ sameRounds.count \in Nat
    /\ retries \in [Budgets -> Nat] /\ emptyRetries \in Nat
    /\ unchanged \in Nat /\ toolRounds \in Nat /\ reported \in Nat

\* No rejected draft and no older feedback ever reaches the model again: the
\* prompt holds no draft, and of all feedback the newest one, which is the one
\* correction the model is asked for (docs/architecture.md: rejected drafts are no
\* evidence for what follows and only the latest correction is given).  The newest
\* feedback of all is not in the last prompt only when it came after it: it is the
\* last message then, the model has yet to be asked again, and the last prompt had
\* the feedback before it.
RejectedDraftsStayOut ==
    /\ \A i \in prompt.messages : pc # "accepted" => history[i].kind \notin {"draft", "feedback"}
    /\ \/ prompt.correction = NewestFeedback
       \/ /\ pc \in {"ask", "failed"} /\ NewestFeedback = Len(history)
          /\ prompt.correction = IF Len(feedback) = 1 THEN 0 ELSE feedback[Len(feedback) - 1]

\* An accepted run returns the approved draft alone, and everything else in its
\* place: taking the rejected ones out of the history costs no other message.
ApprovedDraftStandsAlone ==
    pc = "accepted" =>
        /\ {i \in DOMAIN history : history[i].kind = "draft"} = {Len(history)}
        /\ Cardinality({i \in DOMAIN history : history[i].kind = "feedback"}) = Len(feedback)
        /\ Cardinality({i \in DOMAIN history : history[i].kind = "tool"}) = Len(executions)

\* Every tool result is shown to the model in full before a reference takes its
\* place, and nothing but a large tool result is ever replaced.
ShownBeforeCompacted ==
    pc # "accepted" =>
        \A i \in DOMAIN history : ~history[i].full => i \in shown /\ history[i].kind = "tool"

\* A tool's handler runs only when a tool_manual call of an earlier round
\* activated the tool, so that the model has been sent its schema.
SchemaBeforeUse ==
    \A i \in DOMAIN executions :
        executions[i].started /\ ToolOf[executions[i].call] # Manual =>
            \E k \in 1 .. i - 1 :
                /\ executions[k].ok /\ executions[k].round < executions[i].round
                /\ ToolOf[executions[k].call] = Manual
                /\ ToolOf[executions[i].call] \in Requested[executions[k].call]

\* The executions before position i, from m on, that were not refused.
RanSince(m, i) == {k \in m .. i - 1 : executions[k].content # "blocked"}

\* Nothing but failures of c with the content e.
OnlyFailures(K, c, e) ==
    \A k \in K : ~executions[k].ok /\ executions[k].call = c /\ executions[k].content = e

\* A call is refused exactly when the last MaxFailures calls that ran, in this
\* round or in earlier ones, were this call with the same failure: a changed
\* call, a changed outcome and a success are progress.
RefusedExactlyWhenHopeless ==
    \A i \in DOMAIN executions :
        executions[i].content = "blocked" <=>
            \E m \in 1 .. i - 1 :
                /\ Cardinality(RanSince(m, i)) >= MaxFailures
                /\ \E e \in Contents : OnlyFailures(RanSince(m, i), executions[i].call, e)

\* A call of the model is carried out exactly when it is warranted: with its
\* schema shown, and not behind a failure it would only repeat.
WarrantedCallsRun == SchemaBeforeUse /\ RefusedExactlyWhenHopeless

\* Rejections cannot go on for ever: every issue is paid from a budget, and the
\* corrections a run makes never exceed what the four budgets add up to, however
\* the issues are mixed and whatever tools are called in between.
CorrectionsBounded ==
    Len(feedback) <= NumericRetries + SemanticRetries + EvidenceRetries + CoverageRetries

\* A run that stops calling tools is over after so many rounds: nothing but tool
\* rounds, corrections and one empty answer makes the loop go round.
RoundsBounded ==
    round <= 2 + toolRounds
               + NumericRetries + SemanticRetries + EvidenceRetries + CoverageRetries

Drafts == {i \in DOMAIN history : history[i].kind = "draft"}

\* A failed run reports the newest draft, which nobody approved, and only a
\* draft (docs/architecture.md: the last draft is shown as a diagnostic).
FailureReportsLatestDraft ==
    pc = "failed" =>
        IF Drafts = {} THEN reported = 0
        ELSE reported \in Drafts /\ \A i \in Drafts : i <= reported

=============================================================================
