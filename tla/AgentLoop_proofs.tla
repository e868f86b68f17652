--------------------------- MODULE AgentLoop_proofs ---------------------------
(***************************************************************************)
(* Theorems about AgentLoop, for every set of tools and every limit: an    *)
(* agent run corrects its answer only as often as its budgets allow, and   *)
(* goes round only for tools, corrections and one empty answer; its        *)
(* history keeps rejected drafts out of sight of the model, shows every    *)
(* tool result before compacting it, and is left with the approved draft   *)
(* alone; a tool call is executed if and only if the guard had no reason   *)
(* to refuse it.                                                           *)
(*                                                                         *)
(* The last section is about FinalVerifier, for every number of attempts   *)
(* and with or without the quality review: an approval rests on its        *)
(* reviews, no verdict is asked for twice, and the caller gets the verdict *)
(* that Verdict promises, whose issues the budgets of the loop pay for.    *)
(***************************************************************************)
EXTENDS AgentLoop, FinalVerifier,
        FiniteSetTheorems, SequenceTheorems, WellFoundedInduction, TLAPS

Spent == retries["numeric"] + retries["semantic"] + retries["evidence"] + retries["coverage"]

\* The budgets: every correction has spent at least one retry, and no budget is
\* overdrawn.
BudgetInv ==
    /\ retries \in [Budgets -> Nat]
    /\ \A b \in Budgets : retries[b] <= Limit[b]
    /\ feedback \in Seq(Nat)
    /\ Len(feedback) <= Spent

\* The history is a sequence until the accepted run drops its rejected drafts.
HistoryInv ==
    /\ notices \subseteq {"blocked", "warning"}
    /\ pc # "accepted" => history \in Seq(Messages)

\* The rounds: all but the current one were spent on tools, on corrections or on
\* the empty answer.
RoundInv ==
    /\ round \in Nat /\ toolRounds \in Nat /\ emptyRetries \in {0, 1}
    /\ round <= 1 + toolRounds + Len(feedback) + emptyRetries
    /\ pc = "tools" => round <= toolRounds + Len(feedback) + emptyRetries

IInv == BudgetInv /\ HistoryInv /\ RoundInv

-----------------------------------------------------------------------------
\* Every issue a draft can be rejected with is paid from a budget.
LEMMA EveryIssueIsPaid ==
    ASSUME NEW I \in Rejections
    PROVE  \E b \in Budgets : BudgetOf[b] \cap I # {}
<1>0. I # {} /\ I \subseteq FactualIssues \cup QualityIssues
  <2>1. CASE I \in {J \in SUBSET FactualIssues :
                     J # {} /\ ("evidence" \in J => J \cap {"scope", "claim"} = {})}
    BY <2>1, Zenon
  <2>2. CASE I \in {J \in SUBSET QualityIssues : J # {}}
    BY <2>2, Zenon
  <2>3. QED
    BY <2>1, <2>2, Zenon DEF Rejections
<1>1. PICK x \in I : x \in FactualIssues \cup QualityIssues
  BY <1>0
<1>2. CASE x = "numeric"
  BY <1>2 DEF Budgets, BudgetOf
<1>3. CASE x = "alignment"
  BY <1>3 DEF Budgets, BudgetOf
<1>4. CASE x \in {"evidence", "claim", "scope", "action"}
  BY <1>4 DEF Budgets, BudgetOf
<1>5. CASE x = "coverage"
  BY <1>5 DEF Budgets, BudgetOf
<1>6. QED
  BY <1>1, <1>2, <1>3, <1>4, <1>5 DEF FactualIssues, QualityIssues

\* The response of the model leaves the history a sequence of messages.
LEMMA RespondType ==
    ASSUME history \in Seq(Messages), NEW messages \in Seq(Messages), Respond(messages)
    PROVE  history' \in Seq(Messages)
<1>1. DOMAIN history = 1 .. Len(history) /\ Len(history) \in Nat
  OBVIOUS
<1>2. \A i \in 1 .. Len(history) :
          (IF i \in compactions THEN [history[i] EXCEPT !.full = FALSE] ELSE history[i])
              \in Messages
  <2>1. ASSUME NEW m \in Messages PROVE [m EXCEPT !.full = FALSE] \in Messages
    BY DEF Messages
  <2>2. \A i \in 1 .. Len(history) : history[i] \in Messages
    OBVIOUS
  <2>3. QED
    BY <2>1, <2>2
<1>3. Compacted \in Seq(Messages)
  BY <1>1, <1>2 DEF Compacted
<1>4. QED
  BY <1>3 DEF Respond

\* The messages the loop itself appends.
LEMMA MessageType ==
    ASSUME NEW kind \in {"request", "turn", "draft", "empty", "tool", "notice", "feedback"}
    PROVE  Message(kind) \in Messages
BY DEF Message, Messages

\* A rejection within budget: one more correction, at least one more retry.
LEMMA RejectStep == IInv /\ VerifierRejects => IInv'
<1> SUFFICES ASSUME IInv, VerifierRejects PROVE IInv'
  OBVIOUS
<1> USE DEF IInv
<1>1. PICK I \in Rejections :
          LET hit == {b \in Budgets : BudgetOf[b] \cap I # {}} IN
          \/ /\ \A b \in hit : retries[b] < Limit[b]
             /\ retries' = [b \in Budgets |-> IF b \in hit THEN retries[b] + 1 ELSE retries[b]]
             /\ history' = Append(history, Message("feedback"))
             /\ feedback' = Append(feedback, Len(history) + 1)
             /\ pc' = "ask" /\ round' = round + 1
          \/ /\ pc' = "failed"
             /\ UNCHANGED <<retries, history, feedback, round>>
  BY DEF VerifierRejects
<1> DEFINE hit == {b \in Budgets : BudgetOf[b] \cap I # {}}
<1>2. pc = "verify" /\ history \in Seq(Messages) /\ UNCHANGED <<toolRounds, emptyRetries, notices>>
  BY DEF VerifierRejects, HistoryInv, tooling
<1>3. CASE pc' = "failed" /\ UNCHANGED <<retries, history, feedback, round>>
  <2>1. BudgetInv'
    BY <1>3 DEF BudgetInv, Spent, Limit
  <2>2. HistoryInv'
    BY <1>2, <1>3 DEF HistoryInv
  <2>3. RoundInv'
    BY <1>2, <1>3 DEF RoundInv
  <2>4. QED
    BY <2>1, <2>2, <2>3
<1>4. CASE /\ \A b \in hit : retries[b] < Limit[b]
           /\ retries' = [b \in Budgets |-> IF b \in hit THEN retries[b] + 1 ELSE retries[b]]
           /\ history' = Append(history, Message("feedback"))
           /\ feedback' = Append(feedback, Len(history) + 1)
           /\ pc' = "ask" /\ round' = round + 1
  <2>1. Limit \in [Budgets -> Nat]
    BY LimitsAssumption DEF Limit, Budgets
  <2>2. retries' \in [Budgets -> Nat] /\ \A b \in Budgets : retries'[b] <= Limit[b]
    <3>1. \A b \in Budgets : retries[b] \in Nat /\ retries[b] <= Limit[b] /\ Limit[b] \in Nat
      BY <2>1 DEF BudgetInv
    <3>2. \A b \in Budgets : retries'[b] = IF b \in hit THEN retries[b] + 1 ELSE retries[b]
      BY <1>4
    <3>3. \A b \in Budgets : retries'[b] \in Nat /\ retries'[b] <= Limit[b]
      <4>1. TAKE b \in Budgets
      <4>2. CASE b \in hit
        <5>1. retries[b] < Limit[b] /\ retries'[b] = retries[b] + 1
          BY <1>4, <3>2, <4>2
        <5>2. QED
          BY <5>1, <3>1
      <4>3. CASE b \notin hit
        BY <3>1, <3>2, <4>3
      <4>4. QED
        BY <4>2, <4>3
    <3>4. retries' = [b \in Budgets |-> retries'[b]]
      BY <1>4
    <3>5. QED
      BY <3>3, <3>4
  <2>3. feedback' \in Seq(Nat) /\ Len(feedback') = Len(feedback) + 1
    BY <1>2, <1>4 DEF BudgetInv
  <2>4. Spent' >= Spent + 1
    <3>1. PICK b \in Budgets : b \in hit
      BY EveryIssueIsPaid
    <3>2. \A c \in Budgets : retries[c] \in Nat /\ retries'[c] \in Nat /\ retries'[c] >= retries[c]
      BY <1>4 DEF BudgetInv
    <3>3. retries'[b] = retries[b] + 1
      BY <1>4, <3>1
    <3>4. QED
      BY <3>1, <3>2, <3>3 DEF Budgets, Spent
  <2>5. Spent \in Nat /\ Spent' \in Nat
    BY <2>2 DEF BudgetInv, Budgets, Spent
  <2>6. BudgetInv'
    BY <2>2, <2>3, <2>4, <2>5 DEF BudgetInv, Limit
  <2>7. HistoryInv'
    <3>1. Message("feedback") \in Messages
      BY MessageType
    <3>2. QED
      BY <1>2, <1>4, <3>1 DEF HistoryInv
  <2>8. RoundInv'
    BY <1>2, <1>4, <2>3 DEF RoundInv, BudgetInv
  <2>9. QED
    BY <2>6, <2>7, <2>8
<1>5. QED
  BY <1>1, <1>3, <1>4

-----------------------------------------------------------------------------
\* Every step keeps the invariant.
LEMMA IInvStep == IInv /\ [Next]_vars => IInv'
<1> SUFFICES ASSUME IInv, [Next]_vars PROVE IInv'
  OBVIOUS
<1> USE DEF IInv
<1>b. ASSUME UNCHANGED <<retries, feedback>> PROVE BudgetInv'
  BY <1>b DEF BudgetInv, Spent, Limit
<1>m. Message("turn") \in Messages /\ Message("draft") \in Messages /\ Message("empty") \in Messages
      /\ Message("notice") \in Messages /\ Message("tool") \in Messages
  BY MessageType
<1>1. CASE ModelCallsTools
  <2>1. UNCHANGED <<retries, feedback, round, emptyRetries>> /\ toolRounds' = toolRounds + 1
    BY <1>1 DEF ModelCallsTools, verification
  <2>2. pc = "ask" /\ pc' = "tools" /\ Respond(<<Message("turn")>>)
    BY <1>1 DEF ModelCallsTools
  <2>3. HistoryInv'
    <3>1. <<Message("turn")>> \in Seq(Messages)
      BY <1>m
    <3>2. history' \in Seq(Messages)
      BY <2>2, <3>1, RespondType DEF HistoryInv
    <3>3. QED
      BY <1>1, <3>2 DEF HistoryInv, ModelCallsTools
  <2>4. RoundInv'
    BY <2>1, <2>2 DEF RoundInv, BudgetInv
  <2>5. QED
    BY <1>b, <2>1, <2>3, <2>4
<1>2. CASE ModelDrafts
  <2>1. UNCHANGED <<retries, feedback, round, emptyRetries, toolRounds>>
    BY <1>2 DEF ModelDrafts, verification
  <2>2. pc = "ask" /\ pc' = "verify" /\ Respond(<<Message("draft")>>)
    BY <1>2 DEF ModelDrafts
  <2>3. HistoryInv'
    <3>1. <<Message("draft")>> \in Seq(Messages)
      BY <1>m
    <3>2. history' \in Seq(Messages)
      BY <2>2, <3>1, RespondType DEF HistoryInv
    <3>3. QED
      BY <1>2, <3>2 DEF HistoryInv, ModelDrafts
  <2>4. RoundInv'
    BY <2>1, <2>2 DEF RoundInv, BudgetInv
  <2>5. QED
    BY <1>b, <2>1, <2>3, <2>4
<1>3. CASE ModelFinishesEmpty
  <2>1. UNCHANGED <<retries, feedback, toolRounds>> /\ pc = "ask"
    BY <1>3 DEF ModelFinishesEmpty, verification
  <2>2. \/ Respond(<<Message("empty"), Message("notice")>>)
        \/ Respond(<<Message("empty")>>)
    BY <1>3 DEF ModelFinishesEmpty
  <2>3. HistoryInv'
    <3>1. /\ <<Message("empty"), Message("notice")>> \in Seq(Messages)
          /\ <<Message("empty")>> \in Seq(Messages)
      BY <1>m
    <3>2. history \in Seq(Messages)
      BY <2>1 DEF HistoryInv
    <3>3. history' \in Seq(Messages)
      BY <2>2, <3>1, <3>2, RespondType
    <3>4. QED
      BY <1>3, <3>3 DEF HistoryInv, ModelFinishesEmpty
  <2>4. ASSUME emptyRetries < 1, emptyRetries' = emptyRetries + 1,
               round' = round + 1, UNCHANGED pc
        PROVE  RoundInv'
    <3>1. emptyRetries = 0 /\ emptyRetries' = 1 /\ Len(feedback) \in Nat
      BY <2>4 DEF RoundInv, BudgetInv
    <3>2. round' \in Nat /\ round' <= 1 + toolRounds + Len(feedback) + 1
      BY <2>4, <3>1 DEF RoundInv
    <3>3. QED
      BY <2>1, <2>4, <3>1, <3>2 DEF RoundInv
  <2>5. ASSUME pc' = "failed", UNCHANGED <<round, emptyRetries>>
        PROVE  RoundInv'
    BY <2>1, <2>5 DEF RoundInv, BudgetInv
  <2>6. RoundInv'
    BY <1>3, <2>4, <2>5 DEF ModelFinishesEmpty
  <2>7. QED
    BY <1>b, <2>1, <2>3, <2>6
<1>4. ASSUME NEW x, Record(x), pc = "tools", notices' \subseteq {"blocked", "warning"} PROVE IInv'
  <2>1. UNCHANGED <<retries, feedback, toolRounds, round, emptyRetries, pc>>
    BY <1>4 DEF Record, verification
  <2>2. HistoryInv'
    <3>1. history' = Append(history, Message("tool")) /\ history \in Seq(Messages)
      BY <1>4 DEF HistoryInv, Record
    <3>2. QED
      BY <1>4, <1>m, <3>1 DEF HistoryInv
  <2>3. RoundInv'
    BY <2>1 DEF RoundInv, BudgetInv
  <2>4. QED
    BY <1>b, <2>1, <2>2, <2>3
<1>5. CASE BlockTool
  <2>1. pc = "tools" /\ Record(Failure(Head(calls), "blocked", FALSE))
    BY <1>5 DEF BlockTool
  <2>2. notices' \subseteq {"blocked", "warning"}
    BY <1>5 DEF BlockTool, HistoryInv
  <2>3. QED
    BY <1>4, <2>1, <2>2
<1>6. CASE ExecuteTool
  <2>1. PICK x \in Outcomes(Head(calls)) :
            /\ Record(x)
            /\ notices' = IF ~x.ok /\ NextStreak(x).count = WarnFailures
                            THEN notices \cup {"warning"} ELSE notices
    BY <1>6 DEF ExecuteTool
  <2>2. notices' \subseteq {"blocked", "warning"}
    BY <2>1 DEF HistoryInv
  <2>3. pc = "tools"
    BY <1>6 DEF ExecuteTool
  <2>4. QED
    BY <1>4, <2>1, <2>2, <2>3
<1>7. CASE EndRound
  <2>1. UNCHANGED <<retries, feedback, toolRounds, emptyRetries>>
    BY <1>7 DEF EndRound, verification
  <2>2. pc = "tools" /\ pc' = "ask" /\ round' = round + 1
    BY <1>7 DEF EndRound
  <2> DEFINE all == notices \cup {n \in {"noProgress"} : sameRounds'.count > MaxSameRounds}
  <2>3. Cardinality(all) \in Nat
    <3>1. IsFiniteSet({"blocked", "warning", "noProgress"})
      <4>1. IsFiniteSet({}) /\ IsFiniteSet({} \cup {"blocked"})
        BY FS_EmptySet, FS_AddElement
      <4>2. IsFiniteSet(({} \cup {"blocked"}) \cup {"warning"})
        BY <4>1, FS_AddElement
      <4>3. IsFiniteSet((({} \cup {"blocked"}) \cup {"warning"}) \cup {"noProgress"})
        BY <4>2, FS_AddElement
      <4>4. (({} \cup {"blocked"}) \cup {"warning"}) \cup {"noProgress"}
              = {"blocked", "warning", "noProgress"}
        OBVIOUS
      <4>5. QED
        BY <4>3, <4>4
    <3>2. all \subseteq {"blocked", "warning", "noProgress"}
      BY DEF HistoryInv
    <3>3. QED
      BY <3>1, <3>2, FS_Subset, FS_CardinalityType
  <2>4. HistoryInv'
    <3>1. history' = history \o [i \in 1 .. Cardinality(all) |-> Message("notice")]
      BY <1>7 DEF EndRound
    <3>2. [i \in 1 .. Cardinality(all) |-> Message("notice")] \in Seq(Messages)
      <4> DEFINE n == Cardinality(all)
      <4> HIDE DEF n
      <4>1. n \in Nat
        BY <2>3 DEF n
      <4>2. [i \in 1 .. n |-> Message("notice")] \in [1 .. n -> Messages]
        BY <1>m
      <4>3. [i \in 1 .. n |-> Message("notice")] \in Seq(Messages)
        BY <4>1, <4>2, SeqDef
      <4>4. QED
        BY <4>3 DEF n
    <3>3. QED
      BY <1>7, <2>2, <3>1, <3>2 DEF HistoryInv, EndRound
  <2>5. RoundInv'
    BY <2>1, <2>2 DEF RoundInv, BudgetInv
  <2>6. QED
    BY <1>b, <2>1, <2>4, <2>5
<1>8. CASE VerifierApproves
  BY <1>8, <1>b DEF VerifierApproves, HistoryInv, RoundInv, BudgetInv, verification, tooling
<1>9. CASE VerifierRejects
  BY <1>9, RejectStep
<1>10. CASE RunFails
  BY <1>10, <1>b DEF RunFails, HistoryInv, RoundInv, BudgetInv, verification, tooling, conversation
<1>11. CASE UNCHANGED vars
  BY <1>11, <1>b DEF vars, HistoryInv, RoundInv, BudgetInv, verification, tooling, conversation
<1>12. QED
  BY <1>1, <1>2, <1>3, <1>5, <1>6, <1>7, <1>8, <1>9, <1>10, <1>11 DEF Next

\* A fresh run has spent nothing.
LEMMA IInvInit == Init => IInv
<1> SUFFICES ASSUME Init PROVE IInv
  OBVIOUS
<1>1. BudgetInv
  <2>1. retries = [b \in Budgets |-> 0] /\ feedback = <<>>
    BY DEF Init
  <2>2. Spent = 0
    BY <2>1 DEF Spent, Budgets
  <2>3. \A b \in Budgets : Limit[b] \in Nat
    BY LimitsAssumption DEF Limit, Budgets
  <2>4. QED
    BY <2>1, <2>2, <2>3 DEF BudgetInv
<1>2. HistoryInv
  <2>1. <<Message("request")>> \in Seq(Messages)
    BY MessageType
  <2>2. QED
    BY <2>1 DEF Init, HistoryInv
<1>3. RoundInv
  BY DEF Init, RoundInv
<1>4. QED
  BY <1>1, <1>2, <1>3 DEF IInv

\* What was spent is within the four budgets.
LEMMA WithinBudgets ==
    ASSUME BudgetInv
    PROVE  Spent <= NumericRetries + SemanticRetries + EvidenceRetries + CoverageRetries
<1>1. /\ retries["numeric"] <= NumericRetries /\ retries["semantic"] <= SemanticRetries
      /\ retries["evidence"] <= EvidenceRetries /\ retries["coverage"] <= CoverageRetries
  BY DEF BudgetInv, Budgets, Limit
<1>2. \A b \in Budgets : retries[b] \in Nat
  BY DEF BudgetInv
<1>3. QED
  BY <1>1, <1>2, LimitsAssumption DEF Spent, Budgets

\* A run never makes more corrections than its four budgets allow together: the
\* verification of a draft cannot keep an agent run going for ever.
THEOREM CorrectionsAreBounded == Spec => []CorrectionsBounded
<1>1. IInv => CorrectionsBounded
  <2> SUFFICES ASSUME IInv PROVE CorrectionsBounded
    OBVIOUS
  <2>1. Len(feedback) \in Nat /\ Spent \in Nat /\ Len(feedback) <= Spent
    BY DEF IInv, BudgetInv, Spent, Budgets
  <2>2. Spent <= NumericRetries + SemanticRetries + EvidenceRetries + CoverageRetries
    BY WithinBudgets DEF IInv
  <2>3. QED
    BY <2>1, <2>2, LimitsAssumption DEF CorrectionsBounded
<1>2. QED
  BY <1>1, IInvInit, IInvStep, PTL DEF Spec

\* A run goes round only for tools, for corrections and for one empty answer:
\* when the model calls no more tools, the run ends.
THEOREM RoundsAreBounded == Spec => []RoundsBounded
<1>1. IInv => RoundsBounded
  <2> SUFFICES ASSUME IInv PROVE RoundsBounded
    OBVIOUS
  <2>1. Len(feedback) \in Nat /\ Spent \in Nat /\ Len(feedback) <= Spent
    BY DEF IInv, BudgetInv, Spent, Budgets
  <2>2. Spent <= NumericRetries + SemanticRetries + EvidenceRetries + CoverageRetries
    BY WithinBudgets DEF IInv
  <2>3. /\ round \in Nat /\ toolRounds \in Nat /\ emptyRetries \in {0, 1}
        /\ round <= 1 + toolRounds + Len(feedback) + emptyRetries
    BY DEF IInv, RoundInv
  <2>4. QED
    <3> DEFINE L == NumericRetries + SemanticRetries + EvidenceRetries + CoverageRetries
    <3>1. L \in Nat
      BY LimitsAssumption
    <3>2. Len(feedback) <= L
      <4> HIDE DEF L, Spent
      <4>1. Spent <= L
        BY <2>2 DEF L
      <4>2. QED
        BY <2>1, <3>1, <4>1
    <3>3. RoundsBounded <=> round <= (2 + toolRounds) + L
      <4>1. \A a, b, c, d, e \in Nat : a + b + c + d + e = a + (b + c + d + e)
        OBVIOUS
      <4>2. 2 + toolRounds \in Nat
        BY <2>3
      <4>3. QED
        BY <4>1, <4>2, LimitsAssumption DEF RoundsBounded
    <3> HIDE DEF L
    <3>4. round <= (2 + toolRounds) + L
      BY <2>1, <2>3, <3>1, <3>2
    <3>5. QED
      BY <3>3, <3>4
<1>2. QED
  BY <1>1, IInvInit, IInvStep, PTL DEF Spec

-----------------------------------------------------------------------------
(* The conversation *)

OfKind(k) == {i \in DOMAIN history : history[i].kind = k}
NotFull == {i \in DOMAIN history : ~history[i].full}

\* How a step adds to the history: at the places of drafts, feedback and tool
\* results, everything else stays where it is, and contents go only in R.
Adds(draft, fb, tool, R) ==
    /\ OfKind("draft")' = OfKind("draft") \cup draft
    /\ OfKind("feedback")' = OfKind("feedback") \cup fb
    /\ OfKind("tool")' = OfKind("tool") \cup tool
    /\ DOMAIN history \subseteq DOMAIN history'
    /\ NotFull' = NotFull \cup R

\* The messages ms follow what was there, which has lost its contents in R.
Extends(ms, R) ==
    /\ history' \in Seq(Messages)
    /\ Len(history') = Len(history) + Len(ms)
    /\ \A i \in 1 .. Len(history) :
          /\ history'[i].kind = history[i].kind
          /\ history'[i].full <=> history[i].full /\ i \notin R
    /\ \A i \in 1 .. Len(ms) : history'[Len(history) + i] = ms[i]

\* A response replaces the pending results by references and appends its messages.
LEMMA RespondExtends ==
    ASSUME history \in Seq(Messages), NEW ms \in Seq(Messages), Respond(ms)
    PROVE  Extends(ms, compactions)
<1>1. history' \in Seq(Messages)
  BY RespondType
<1>2. DOMAIN history = 1 .. Len(history) /\ Len(history) \in Nat
  OBVIOUS
<1>3. \A i \in 1 .. Len(history) : history[i] \in Messages
  OBVIOUS
<1>4. \A m \in Messages : LET c == [m EXCEPT !.full = FALSE]
                          IN  c \in Messages /\ c.kind = m.kind /\ ~c.full
  BY DEF Messages
<1>5. \A i \in 1 .. Len(history) : Compacted[i] =
         IF i \in compactions THEN [history[i] EXCEPT !.full = FALSE] ELSE history[i]
  BY <1>2 DEF Compacted
<1>6. \A i \in 1 .. Len(history) :
         /\ Compacted[i] \in Messages /\ Compacted[i].kind = history[i].kind
         /\ Compacted[i].full <=> history[i].full /\ i \notin compactions
  <2> SUFFICES ASSUME NEW i \in 1 .. Len(history)
               PROVE  /\ Compacted[i] \in Messages /\ Compacted[i].kind = history[i].kind
                      /\ Compacted[i].full <=> history[i].full /\ i \notin compactions
    OBVIOUS
  <2>1. history[i] \in Messages
    BY <1>3
  <2>2. CASE i \in compactions
    <3>1. Compacted[i] = [history[i] EXCEPT !.full = FALSE]
      BY <1>5, <2>2
    <3>2. QED
      BY <1>4, <2>1, <2>2, <3>1
  <2>3. CASE i \notin compactions
    <3>1. Compacted[i] = history[i]
      BY <1>5, <2>3
    <3>2. QED
      BY <2>1, <2>3, <3>1
  <2>4. QED
    BY <2>2, <2>3
<1>7. Compacted \in Seq(Messages) /\ Len(Compacted) = Len(history)
  <2>1. DOMAIN Compacted = 1 .. Len(history)
    BY <1>2 DEF Compacted
  <2>2. Compacted \in [1 .. Len(history) -> Messages]
    BY <1>2, <1>6, <2>1 DEF Compacted
  <2>3. QED
    BY <1>2, <2>2
<1>8. history' = Compacted \o ms
  BY DEF Respond
<1> HIDE DEF Compacted
<1>9. Len(history') = Len(history) + Len(ms)
  <2>1. Len(Compacted \o ms) = Len(Compacted) + Len(ms)
    BY <1>7
  <2>2. QED
    BY <1>7, <1>8, <2>1
<1>10. \A i \in 1 .. Len(history) : history'[i] = Compacted[i]
  BY <1>7, <1>8
<1>11. \A i \in 1 .. Len(ms) : history'[Len(history) + i] = ms[i]
  BY <1>2, <1>7, <1>8
<1>12. QED
  BY <1>1, <1>6, <1>9, <1>10, <1>11 DEF Extends

\* Appending messages to the history replaces none.
LEMMA AppendExtends ==
    ASSUME history \in Seq(Messages), NEW ms \in Seq(Messages), history' = history \o ms
    PROVE  Extends(ms, {})
BY DEF Extends

\* One message more.
LEMMA OneMore ==
    ASSUME history \in Seq(Messages), NEW m \in Messages, NEW R, R \subseteq DOMAIN history,
           Extends(<<m>>, R), m.full, NEW k
    PROVE  /\ Len(history') = Len(history) + 1
           /\ OfKind(k)' = OfKind(k) \cup {i \in {Len(history) + 1} : m.kind = k}
           /\ NotFull' = NotFull \cup R
           /\ DOMAIN history \subseteq DOMAIN history'
<1> DEFINE n == Len(history)
<1>1. /\ DOMAIN history = 1 .. n /\ n \in Nat
      /\ Len(history') = n + 1 /\ DOMAIN history' = 1 .. n + 1
      /\ history'[n + 1] = m
      /\ \A i \in 1 .. n : /\ history'[i].kind = history[i].kind
                           /\ history'[i].full <=> history[i].full /\ i \notin R
  <2>1. Len(<<m>>) = 1 /\ <<m>>[1] = m
    OBVIOUS
  <2>2. QED
    BY <2>1 DEF Extends
<1> HIDE DEF n
<1>2. OfKind(k)' = OfKind(k) \cup {i \in {n + 1} : m.kind = k}
  BY <1>1 DEF OfKind
<1>3. NotFull' = NotFull \cup R
  BY <1>1 DEF NotFull
<1>4. QED
  BY <1>1, <1>2, <1>3 DEF n

\* One message of the loop's own more.
LEMMA OneMoreOf ==
    ASSUME history \in Seq(Messages), NEW R, R \subseteq DOMAIN history,
           NEW kind \in {"request", "turn", "draft", "empty", "tool", "notice", "feedback"},
           Extends(<<Message(kind)>>, R)
    PROVE  /\ Len(history') = Len(history) + 1
           /\ Adds(IF kind = "draft" THEN {Len(history) + 1} ELSE {},
                   IF kind = "feedback" THEN {Len(history) + 1} ELSE {},
                   IF kind = "tool" THEN {Len(history) + 1} ELSE {}, R)
<1>1. Message(kind) \in Messages /\ Message(kind).full /\ Message(kind).kind = kind
  BY MessageType DEF Message
<1>2. \A k : OfKind(k)' = OfKind(k) \cup {i \in {Len(history) + 1} : Message(kind).kind = k}
  BY <1>1, OneMore
<1>3. /\ Len(history') = Len(history) + 1 /\ NotFull' = NotFull \cup R
      /\ DOMAIN history \subseteq DOMAIN history'
  BY <1>1, OneMore
<1>4. \A k : {i \in {Len(history) + 1} : Message(kind).kind = k}
                = IF kind = k THEN {Len(history) + 1} ELSE {}
  BY <1>1
<1>5. \A k : OfKind(k)' = OfKind(k) \cup IF kind = k THEN {Len(history) + 1} ELSE {}
  BY <1>2, <1>4
<1>6. QED
  BY <1>3, <1>5 DEF Adds

\* Messages that are none of the three kinds.
LEMMA NothingOfNote ==
    ASSUME history \in Seq(Messages), NEW ms \in Seq(Messages), NEW R, R \subseteq DOMAIN history,
           Extends(ms, R),
           \A i \in 1 .. Len(ms) : ms[i].full /\ ms[i].kind \notin {"draft", "feedback", "tool"}
    PROVE  Adds({}, {}, {}, R)
<1> DEFINE n == Len(history)
<1> DEFINE p == Len(ms)
<1>1. /\ DOMAIN history = 1 .. n /\ n \in Nat /\ p \in Nat
      /\ DOMAIN history' = 1 .. n + p
      /\ \A i \in 1 .. n : /\ history'[i].kind = history[i].kind
                           /\ history'[i].full <=> history[i].full /\ i \notin R
  BY DEF Extends
<1>2. \A i \in 1 .. p : history'[n + i] = ms[i]
  BY DEF Extends
<1>3. ASSUME NEW i \in 1 .. n + p, i \notin 1 .. n
      PROVE  history'[i].full /\ history'[i].kind \notin {"draft", "feedback", "tool"}
  <2> HIDE DEF n, p
  <2>1. i - n \in 1 .. p /\ n + (i - n) = i
    BY <1>1, <1>3
  <2>2. history'[i] = ms[i - n]
    BY <1>2, <2>1
  <2>3. QED
    BY <2>1, <2>2 DEF p
<1> HIDE DEF n, p
<1>4. 1 .. n \subseteq 1 .. n + p
  BY <1>1
<1>5. ASSUME NEW k \in {"draft", "feedback", "tool"} PROVE OfKind(k)' = OfKind(k)
  BY <1>1, <1>3, <1>4, <1>5 DEF OfKind
<1>6. NotFull' = NotFull \cup R
  BY <1>1, <1>3, <1>4 DEF NotFull
<1>7. QED
  BY <1>1, <1>4, <1>5, <1>6 DEF Adds

\* The program points of a run that goes on.
Running == {"ask", "tools", "verify"}

\* The last prompt holds the newest feedback, unless that is an answer to it.
CorrectionInv ==
    \/ prompt.correction = NewestFeedback
    \/ /\ pc \in {"ask", "failed"} /\ NewestFeedback = Len(history)
       /\ prompt.correction = IF Len(feedback) = 1 THEN 0 ELSE feedback[Len(feedback) - 1]

\* The index lists kept beside the history name its drafts, feedback and tool
\* results by their kind, and the prompt and the references agree with them.
ConvInv ==
    /\ rejected \in Seq(Nat)
    /\ CorrectionInv
    /\ pc # "accepted" =>
          /\ prompt.messages \subseteq DOMAIN history \ (OfKind("draft") \cup OfKind("feedback"))
          /\ NotFull \subseteq shown \cap OfKind("tool")
    /\ pc \in Running =>
          /\ OfKind("draft") = ToSet(rejected) \cup IF pc = "verify" THEN {Len(history)} ELSE {}
          /\ OfKind("feedback") = ToSet(feedback)
          /\ compactions \subseteq OfKind("tool")
          /\ \A i \in ToSet(rejected) : i <= LastRejected

\* The list of rejected drafts, and the last of them.
LEMMA AppendedTo ==
    ASSUME NEW s \in Seq(Nat), NEW n \in Nat
    PROVE  /\ Append(s, n) \in Seq(Nat) /\ Append(s, n) # <<>>
           /\ ToSet(Append(s, n)) = ToSet(s) \cup {n}
           /\ Last(Append(s, n)) = n
<1>1. Len(Append(s, n)) = Len(s) + 1 /\ Append(s, n)[Len(s) + 1] = n
  OBVIOUS
<1>2. ToSet(Append(s, n)) = ToSet(s) \cup {n}
  <2>1. DOMAIN Append(s, n) = 1 .. Len(s) + 1 /\ DOMAIN s = 1 .. Len(s) /\ Len(s) \in Nat
    OBVIOUS
  <2>2. \A i \in 1 .. Len(s) : Append(s, n)[i] = s[i]
    OBVIOUS
  <2>3. QED
    BY <1>1, <2>1, <2>2 DEF ToSet
<1>3. QED
  BY <1>1, <1>2 DEF Last

\* A response of the model: the prompt it was sent holds neither drafts nor
\* feedback, and everything that loses its contents has been shown.
LEMMA RespondStep ==
    ASSUME IInv, ConvInv, pc = "ask", NEW ms \in Seq(Messages), Respond(ms),
           UNCHANGED <<rejected, feedback>>, NEW draft, draft \cap DOMAIN history = {},
           Adds(draft, {}, {}, compactions)
    PROVE  /\ CorrectionInv'
           /\ prompt'.messages \subseteq DOMAIN history' \ (OfKind("draft")' \cup OfKind("feedback")')
           /\ NotFull' \subseteq shown' \cap OfKind("tool")'
           /\ OfKind("draft")' = ToSet(rejected)' \cup draft
           /\ OfKind("feedback")' = ToSet(feedback)'
           /\ compactions' = {}
           /\ LastRejected' = LastRejected /\ ToSet(rejected)' = ToSet(rejected)
<1>1. /\ OfKind("draft") = ToSet(rejected) /\ OfKind("feedback") = ToSet(feedback)
      /\ compactions \subseteq OfKind("tool") /\ NotFull \subseteq shown \cap OfKind("tool")
  BY DEF ConvInv, Running
<1>2. /\ prompt' = Prompt /\ compactions' = {}
      /\ shown' = shown \cup {i \in Prompt.messages : history[i].full}
  BY DEF Respond
<1>3. Prompt.messages = DOMAIN history \ (ToSet(rejected) \cup ToSet(feedback))
  BY DEF Prompt
<1>4. CorrectionInv'
  BY <1>2 DEF Prompt, CorrectionInv, NewestFeedback
<1>5. compactions \subseteq shown'
  <2>1. ASSUME NEW i \in compactions PROVE i \in shown'
    <3>1. i \in DOMAIN history /\ history[i].kind = "tool"
      BY <1>1, <2>1 DEF OfKind
    <3>2. i \in Prompt.messages
      BY <1>1, <1>3, <3>1 DEF OfKind
    <3>3. CASE history[i].full
      BY <1>2, <3>2, <3>3
    <3>4. CASE ~history[i].full
      BY <1>1, <1>2, <3>1, <3>4 DEF NotFull
    <3>5. QED
      BY <3>3, <3>4
  <2>2. QED
    BY <2>1
<1>6. ToSet(rejected)' = ToSet(rejected) /\ ToSet(feedback)' = ToSet(feedback) /\ LastRejected' = LastRejected
  BY DEF ToSet, LastRejected
<1>7. prompt'.messages \subseteq DOMAIN history' \ (OfKind("draft")' \cup OfKind("feedback")')
  BY <1>1, <1>2, <1>3 DEF Adds
<1>8. NotFull' \subseteq shown' \cap OfKind("tool")'
  BY <1>1, <1>2, <1>5 DEF Adds
<1>9. QED
  BY <1>1, <1>2, <1>4, <1>6, <1>7, <1>8 DEF Adds

\* What the notices of a round add.
LEMMA NoticesType ==
    ASSUME NEW all, all \subseteq {"blocked", "warning", "noProgress"}
    PROVE  /\ [i \in 1 .. Cardinality(all) |-> Message("notice")] \in Seq(Messages)
           /\ \A i \in 1 .. Len([i \in 1 .. Cardinality(all) |-> Message("notice")]) :
                 [j \in 1 .. Cardinality(all) |-> Message("notice")][i] = Message("notice")
<1> DEFINE n == Cardinality(all)
<1>1. n \in Nat
  <2>1. IsFiniteSet({}) /\ IsFiniteSet({} \cup {"blocked"})
    BY FS_EmptySet, FS_AddElement
  <2>2. IsFiniteSet(({} \cup {"blocked"}) \cup {"warning"})
    BY <2>1, FS_AddElement
  <2>3. IsFiniteSet((({} \cup {"blocked"}) \cup {"warning"}) \cup {"noProgress"})
    BY <2>2, FS_AddElement
  <2>4. all \subseteq (({} \cup {"blocked"}) \cup {"warning"}) \cup {"noProgress"}
    OBVIOUS
  <2>5. QED
    BY <2>3, <2>4, FS_Subset, FS_CardinalityType
<1> HIDE DEF n
<1>2. [i \in 1 .. n |-> Message("notice")] \in [1 .. n -> Messages]
  BY MessageType
<1>3. [i \in 1 .. n |-> Message("notice")] \in Seq(Messages)
  BY <1>1, <1>2, SeqDef
<1>4. Len([i \in 1 .. n |-> Message("notice")]) = n
  BY <1>1, <1>3
<1>5. QED
  BY <1>3, <1>4 DEF n

\* A run that fails reports the newest draft: the one under verification, or the
\* last one that was rejected.
LEMMA ReportStep ==
    ASSUME ConvInv, pc \in Running, pc' = "failed",
           OfKind("draft")' = OfKind("draft"), history \in Seq(Messages),
           reported' = IF pc = "verify" THEN Len(history) ELSE LastRejected
    PROVE  FailureReportsLatestDraft'
<1>1. Drafts' = OfKind("draft")
  BY DEF Drafts, OfKind
<1>2. CASE pc = "verify"
  <2>1. Len(history) \in OfKind("draft") /\ \A i \in OfKind("draft") : i <= Len(history)
    BY <1>2 DEF ConvInv, OfKind
  <2>2. QED
    BY <1>1, <1>2, <2>1 DEF FailureReportsLatestDraft
<1>3. CASE pc # "verify"
  <2>1. OfKind("draft") = ToSet(rejected) /\ \A i \in ToSet(rejected) : i <= LastRejected
    BY <1>3 DEF ConvInv
  <2>2. CASE rejected = <<>>
    <3>1. ToSet(rejected) = {} /\ LastRejected = 0
      BY <2>2 DEF ToSet, LastRejected
    <3>2. QED
      BY <1>1, <1>3, <2>1, <3>1 DEF FailureReportsLatestDraft
  <2>3. CASE rejected # <<>>
    <3>1. LastRejected \in ToSet(rejected)
      <4>1. rejected \in Seq(Nat)
        BY DEF ConvInv
      <4>2. Len(rejected) \in DOMAIN rejected
        BY <2>3, <4>1
      <4>3. QED
        BY <2>3, <4>2 DEF LastRejected, Last, ToSet
    <3>2. QED
      BY <1>1, <1>3, <2>1, <3>1 DEF FailureReportsLatestDraft
  <2>4. QED
    BY <2>2, <2>3
<1>4. QED
  BY <1>2, <1>3

\* What each kind of step adds to the history of a run that goes on: the turn of
\* the model, ...
LEMMA TurnAdds ==
    ASSUME IInv, ConvInv, ModelCallsTools
    PROVE  Adds({}, {}, {}, compactions)
<1>1. pc = "ask" /\ Respond(<<Message("turn")>>) /\ <<Message("turn")>> \in Seq(Messages)
  BY MessageType DEF ModelCallsTools
<1>2. history \in Seq(Messages) /\ compactions \subseteq DOMAIN history
  BY <1>1 DEF IInv, HistoryInv, ConvInv, Running, OfKind
<1>3. QED
  BY <1>1, <1>2, RespondExtends, OneMoreOf

\* ... its draft, ...
LEMMA DraftAdds ==
    ASSUME IInv, ConvInv, ModelDrafts
    PROVE  Len(history') = Len(history) + 1 /\ Adds({Len(history) + 1}, {}, {}, compactions)
<1>1. pc = "ask" /\ Respond(<<Message("draft")>>) /\ <<Message("draft")>> \in Seq(Messages)
  BY MessageType DEF ModelDrafts
<1>2. history \in Seq(Messages) /\ compactions \subseteq DOMAIN history
  BY <1>1 DEF IInv, HistoryInv, ConvInv, Running, OfKind
<1>3. Extends(<<Message("draft")>>, compactions)
  BY <1>1, <1>2, RespondExtends
<1>4. QED
  BY <1>2, <1>3, OneMoreOf

\* ... its empty answer, ...
LEMMA EmptyAdds ==
    ASSUME IInv, ConvInv, ModelFinishesEmpty
    PROVE  \E ms \in Seq(Messages) : Respond(ms) /\ Adds({}, {}, {}, compactions)
<1>1. pc = "ask"
  BY DEF ModelFinishesEmpty
<1>2. PICK ms \in {<<Message("empty"), Message("notice")>>, <<Message("empty")>>} : Respond(ms)
  BY DEF ModelFinishesEmpty
<1>3. ms \in Seq(Messages)
  <2>1. Message("empty") \in Messages /\ Message("notice") \in Messages
    BY MessageType
  <2>2. <<Message("empty"), Message("notice")>> \in Seq(Messages) /\ <<Message("empty")>> \in Seq(Messages)
    BY <2>1
  <2>3. QED
    BY <2>2
<1>4. \A i \in 1 .. Len(ms) : ms[i].full /\ ms[i].kind \notin {"draft", "feedback", "tool"}
  BY <1>2 DEF Message
<1>5. history \in Seq(Messages) /\ compactions \subseteq DOMAIN history
  BY <1>1 DEF IInv, HistoryInv, ConvInv, Running, OfKind
<1>6. QED
  BY <1>2, <1>3, <1>4, <1>5, RespondExtends, NothingOfNote

\* ... a tool result, ...
LEMMA CallAdds ==
    ASSUME IInv, ConvInv, BlockTool \/ ExecuteTool
    PROVE  Adds({}, {}, {Len(history) + 1}, {})
<1>1. pc = "tools" /\ history' = Append(history, Message("tool"))
  BY DEF BlockTool, ExecuteTool, Record
<1>2. history \in Seq(Messages) /\ Message("tool") \in Messages
  BY <1>1, MessageType DEF IInv, HistoryInv
<1>3. <<Message("tool")>> \in Seq(Messages) /\ history' = history \o <<Message("tool")>>
  BY <1>1, <1>2
<1>4. Extends(<<Message("tool")>>, {})
  BY <1>2, <1>3, AppendExtends
<1>5. QED
  BY <1>2, <1>4, OneMoreOf

\* ... the notices of a round, ...
LEMMA NoticesAdd ==
    ASSUME IInv, ConvInv, EndRound
    PROVE  Adds({}, {}, {}, {})
<1> DEFINE all == notices \cup {n \in {"noProgress"} : sameRounds'.count > MaxSameRounds}
<1>1. pc = "tools" /\ history' = history \o [i \in 1 .. Cardinality(all) |-> Message("notice")]
  BY DEF EndRound
<1>2. all \subseteq {"blocked", "warning", "noProgress"} /\ history \in Seq(Messages)
  BY <1>1 DEF IInv, HistoryInv
<1> HIDE DEF all
<1> DEFINE ms == [i \in 1 .. Cardinality(all) |-> Message("notice")]
<1>3. ms \in Seq(Messages) /\ \A i \in 1 .. Len(ms) : ms[i] = Message("notice")
  BY <1>2, NoticesType
<1>4. history' = history \o ms
  BY <1>1
<1> HIDE DEF ms
<1>5. Extends(ms, {})
  BY <1>2, <1>3, <1>4, AppendExtends
<1>6. \A i \in 1 .. Len(ms) : ms[i].full /\ ms[i].kind \notin {"draft", "feedback", "tool"}
  BY <1>3 DEF Message
<1>7. QED
  BY <1>2, <1>3, <1>5, <1>6, NothingOfNote

\* ... and the feedback on a draft.
LEMMA FeedbackAdds ==
    ASSUME IInv, pc = "verify", history' = Append(history, Message("feedback"))
    PROVE  Adds({}, {Len(history) + 1}, {}, {})
<1>1. history \in Seq(Messages) /\ Message("feedback") \in Messages
  BY MessageType DEF IInv, HistoryInv
<1>2. <<Message("feedback")>> \in Seq(Messages) /\ history' = history \o <<Message("feedback")>>
  BY <1>1
<1>3. Extends(<<Message("feedback")>>, {})
  BY <1>1, <1>2, AppendExtends
<1>4. QED
  BY <1>1, <1>3, OneMoreOf

\* A rejection: the draft joins the rejected ones, and its feedback the corrections.
LEMMA RejectConv ==
    ASSUME IInv, ConvInv, VerifierRejects
    PROVE  ConvInv' /\ FailureReportsLatestDraft'
<1>1. /\ pc = "verify" /\ rejected' = Append(rejected, Len(history))
      /\ UNCHANGED <<compactions, prompt, shown>>
      /\ \/ /\ history' = Append(history, Message("feedback"))
            /\ feedback' = Append(feedback, Len(history) + 1)
            /\ pc' = "ask"
         \/ /\ pc' = "failed" /\ reported' = Len(history)
            /\ UNCHANGED <<history, feedback>>
  BY DEF VerifierRejects
<1>2. /\ history \in Seq(Messages) /\ Len(history) \in Nat /\ DOMAIN history = 1 .. Len(history)
      /\ rejected \in Seq(Nat) /\ feedback \in Seq(Nat)
  BY <1>1 DEF IInv, HistoryInv, BudgetInv, ConvInv
<1>3. /\ rejected' \in Seq(Nat) /\ rejected' # <<>>
      /\ ToSet(rejected)' = ToSet(rejected) \cup {Len(history)}
      /\ LastRejected' = Len(history)
  <2>1. ToSet(rejected)' = ToSet(rejected') /\ LastRejected' = IF rejected' = <<>> THEN 0 ELSE Last(rejected')
    BY DEF LastRejected
  <2>2. QED
    BY <1>1, <1>2, <2>1, AppendedTo
<1>4. /\ OfKind("draft") = ToSet(rejected) \cup {Len(history)}
      /\ OfKind("feedback") = ToSet(feedback) /\ compactions \subseteq OfKind("tool")
      /\ prompt.correction = NewestFeedback
      /\ prompt.messages \subseteq DOMAIN history \ (OfKind("draft") \cup OfKind("feedback"))
      /\ NotFull \subseteq shown \cap OfKind("tool")
  BY <1>1 DEF ConvInv, Running, CorrectionInv
<1>5. CASE /\ history' = Append(history, Message("feedback"))
           /\ feedback' = Append(feedback, Len(history) + 1)
           /\ pc' = "ask"
  <2>4. Adds({}, {Len(history) + 1}, {}, {})
    BY <1>1, <1>5, FeedbackAdds
  <2>5. ToSet(feedback)' = ToSet(feedback) \cup {Len(history) + 1}
    BY <1>2, <1>5, AppendedTo
  <2>6. \A i \in ToSet(rejected)' : i <= LastRejected'
    BY <1>2, <1>3, <1>4 DEF OfKind
  <2>7. prompt'.messages \subseteq DOMAIN history' \ (OfKind("draft")' \cup OfKind("feedback")')
    BY <1>1, <1>2, <1>4, <2>4 DEF Adds
  <2>8. NotFull' \subseteq shown' \cap OfKind("tool")'
    BY <1>1, <1>4, <2>4 DEF Adds
  <2>9. OfKind("draft")' = ToSet(rejected)' /\ OfKind("feedback")' = ToSet(feedback)'
        /\ compactions' \subseteq OfKind("tool")'
    BY <1>1, <1>3, <1>4, <2>4, <2>5 DEF Adds
  <2>10. CorrectionInv'
    <3>1. /\ feedback' # <<>> /\ Last(feedback') = Len(history) + 1
          /\ Len(history') = Len(history) + 1
      BY <1>2, <1>5, AppendedTo
    <3>2. IF Len(feedback') = 1 THEN NewestFeedback = 0
          ELSE NewestFeedback = feedback'[Len(feedback') - 1]
      BY <1>2, <1>5 DEF NewestFeedback, Last
    <3>3. QED
      BY <1>1, <1>4, <1>5, <3>1, <3>2 DEF CorrectionInv, NewestFeedback
  <2>11. QED
    BY <1>3, <1>5, <2>6, <2>7, <2>8, <2>9, <2>10 DEF ConvInv, FailureReportsLatestDraft
<1>6. CASE pc' = "failed" /\ reported' = Len(history) /\ UNCHANGED <<history, feedback>>
  <2>1. /\ OfKind("draft")' = OfKind("draft") /\ OfKind("feedback")' = OfKind("feedback")
        /\ OfKind("tool")' = OfKind("tool") /\ NotFull' = NotFull /\ ToSet(feedback)' = ToSet(feedback)
    BY <1>6 DEF OfKind, NotFull, ToSet
  <2>2. FailureReportsLatestDraft'
    BY <1>1, <1>2, <1>6, <2>1, ReportStep DEF Running
  <2>3. ConvInv'
    BY <1>1, <1>3, <1>4, <1>6, <2>1 DEF ConvInv, Running, CorrectionInv, NewestFeedback
  <2>4. QED
    BY <2>2, <2>3
<1>7. QED
  BY <1>1, <1>5, <1>6

\* Every step keeps drafts, feedback and tool results apart.
LEMMA ConvStep ==
    IInv /\ ConvInv /\ FailureReportsLatestDraft /\ [Next]_vars
        => ConvInv' /\ FailureReportsLatestDraft'
<1> SUFFICES ASSUME IInv, ConvInv, FailureReportsLatestDraft, [Next]_vars
             PROVE  ConvInv' /\ FailureReportsLatestDraft'
  OBVIOUS
<1>1. pc \in Running => history \in Seq(Messages) /\ Len(history) \in Nat /\ DOMAIN history = 1 .. Len(history)
  BY DEF IInv, HistoryInv, Running
<1>3. CASE ModelCallsTools
  <2>1. pc = "ask" /\ pc' = "tools" /\ Respond(<<Message("turn")>>) /\ UNCHANGED <<rejected, feedback>>
    BY <1>3 DEF ModelCallsTools
  <2>2. <<Message("turn")>> \in Seq(Messages)
    BY MessageType
  <2>3. Adds({}, {}, {}, compactions)
    BY <1>3, TurnAdds
  <2>4. /\ CorrectionInv'
        /\ prompt'.messages \subseteq DOMAIN history' \ (OfKind("draft")' \cup OfKind("feedback")')
        /\ NotFull' \subseteq shown' \cap OfKind("tool")'
        /\ OfKind("draft")' = ToSet(rejected)' \cup {}
        /\ OfKind("feedback")' = ToSet(feedback)' /\ compactions' = {}
        /\ LastRejected' = LastRejected /\ ToSet(rejected)' = ToSet(rejected)
    <3>1. {} \cap DOMAIN history = {}
      OBVIOUS
    <3>2. QED
      BY <2>1, <2>2, <2>3, <3>1, RespondStep
  <2>5. QED
    BY <2>1, <2>4 DEF ConvInv, Running, FailureReportsLatestDraft
<1>4. CASE ModelDrafts
  <2>1. pc = "ask" /\ pc' = "verify" /\ Respond(<<Message("draft")>>) /\ UNCHANGED <<rejected, feedback>>
    BY <1>4 DEF ModelDrafts
  <2>2. <<Message("draft")>> \in Seq(Messages)
    BY MessageType
  <2>4. Len(history') = Len(history) + 1 /\ Adds({Len(history) + 1}, {}, {}, compactions)
    BY <1>4, DraftAdds
  <2>5. {Len(history) + 1} \cap DOMAIN history = {}
    BY <1>1, <2>1 DEF Running
  <2>6. /\ CorrectionInv'
        /\ prompt'.messages \subseteq DOMAIN history' \ (OfKind("draft")' \cup OfKind("feedback")')
        /\ NotFull' \subseteq shown' \cap OfKind("tool")'
        /\ OfKind("draft")' = ToSet(rejected)' \cup {Len(history) + 1}
        /\ OfKind("feedback")' = ToSet(feedback)' /\ compactions' = {}
        /\ LastRejected' = LastRejected /\ ToSet(rejected)' = ToSet(rejected)
    BY <2>1, <2>2, <2>4, <2>5, RespondStep
  <2>7. QED
    BY <2>1, <2>4, <2>6 DEF ConvInv, Running, FailureReportsLatestDraft
<1>5. CASE ModelFinishesEmpty
  <2>1. pc = "ask" /\ UNCHANGED <<rejected, feedback>>
    BY <1>5 DEF ModelFinishesEmpty
  <2>2. PICK ms \in Seq(Messages) : Respond(ms)
    BY <1>5, EmptyAdds
  <2>5. Adds({}, {}, {}, compactions)
    BY <1>5, EmptyAdds
  <2>6. /\ CorrectionInv'
        /\ prompt'.messages \subseteq DOMAIN history' \ (OfKind("draft")' \cup OfKind("feedback")')
        /\ NotFull' \subseteq shown' \cap OfKind("tool")'
        /\ OfKind("draft")' = ToSet(rejected)' \cup {}
        /\ OfKind("feedback")' = ToSet(feedback)' /\ compactions' = {}
        /\ LastRejected' = LastRejected /\ ToSet(rejected)' = ToSet(rejected)
    <3>1. {} \cap DOMAIN history = {}
      OBVIOUS
    <3>2. QED
      BY <2>1, <2>2, <2>5, <3>1, RespondStep
  <2>7. pc' \in {"ask", "failed"} /\ (pc' = "failed" => reported' = LastRejected)
    BY <1>5 DEF ModelFinishesEmpty
  <2>8. ConvInv'
    BY <2>1, <2>6, <2>7 DEF ConvInv, Running
  <2>9. FailureReportsLatestDraft'
    <3>1. CASE pc' = "failed"
      <4>1. OfKind("draft")' = OfKind("draft")
        BY <2>5 DEF Adds
      <4>2. QED
        BY <1>1, <2>1, <2>7, <3>1, <4>1, ReportStep DEF Running
    <3>2. CASE pc' = "ask"
      BY <3>2 DEF FailureReportsLatestDraft
    <3>3. QED
      BY <2>7, <3>1, <3>2
  <2>10. QED
    BY <2>8, <2>9
<1>6. CASE BlockTool \/ ExecuteTool
  <2>1. PICK big \in BOOLEAN :
          /\ pc = "tools" /\ pc' = "tools"
          /\ compactions' = IF big THEN compactions \cup {Len(history) + 1} ELSE compactions
          /\ UNCHANGED <<rejected, feedback, prompt, shown>>
    BY <1>6 DEF BlockTool, ExecuteTool, Record
  <2>5. Adds({}, {}, {Len(history) + 1}, {})
    BY <1>6, CallAdds
  <2>6. ToSet(rejected)' = ToSet(rejected) /\ ToSet(feedback)' = ToSet(feedback) /\ LastRejected' = LastRejected
    BY <2>1 DEF ToSet, LastRejected
  <2>7. ConvInv'
    BY <2>1, <2>5, <2>6 DEF ConvInv, Running, Adds, CorrectionInv, NewestFeedback
  <2>8. QED
    BY <2>1, <2>7 DEF FailureReportsLatestDraft
<1>7. CASE EndRound
  <2>1. pc = "tools" /\ pc' = "ask" /\ UNCHANGED <<rejected, feedback, compactions, prompt, shown>>
    BY <1>7 DEF EndRound
  <2>6. Adds({}, {}, {}, {})
    BY <1>7, NoticesAdd
  <2>7. ToSet(rejected)' = ToSet(rejected) /\ ToSet(feedback)' = ToSet(feedback) /\ LastRejected' = LastRejected
    BY <2>1 DEF ToSet, LastRejected
  <2>8. ConvInv'
    BY <2>1, <2>6, <2>7 DEF ConvInv, Running, Adds, CorrectionInv, NewestFeedback
  <2>9. QED
    BY <2>1, <2>8 DEF FailureReportsLatestDraft
<1>8. CASE VerifierApproves
  <2>1. pc = "verify" /\ pc' = "accepted" /\ UNCHANGED <<rejected, feedback, prompt>>
    BY <1>8 DEF VerifierApproves
  <2>2. ToSet(feedback)' = ToSet(feedback)
    BY <2>1 DEF ToSet
  <2>3. QED
    BY <2>1, <2>2 DEF ConvInv, Running, FailureReportsLatestDraft, CorrectionInv, NewestFeedback
<1>9. CASE VerifierRejects
  BY <1>9, RejectConv
<1>10. CASE RunFails
  <2>1. /\ pc \in Running /\ pc' = "failed" /\ UNCHANGED <<history, rejected, feedback, prompt, shown, compactions>>
        /\ reported' = IF pc = "verify" THEN Len(history) ELSE LastRejected
    BY <1>10 DEF RunFails, Running, conversation
  <2>2. /\ OfKind("draft")' = OfKind("draft") /\ OfKind("feedback")' = OfKind("feedback")
        /\ OfKind("tool")' = OfKind("tool") /\ NotFull' = NotFull /\ ToSet(feedback)' = ToSet(feedback)
    BY <2>1 DEF OfKind, NotFull, ToSet
  <2>3. FailureReportsLatestDraft'
    BY <1>1, <2>1, <2>2, ReportStep
  <2>4. ConvInv'
    BY <2>1, <2>2 DEF ConvInv, Running, CorrectionInv, NewestFeedback
  <2>5. QED
    BY <2>3, <2>4
<1>11. CASE UNCHANGED vars
  <2>1. UNCHANGED <<pc, history, rejected, feedback, prompt, shown, compactions, reported>>
    BY <1>11 DEF vars, conversation
  <2>2. /\ OfKind("draft")' = OfKind("draft") /\ OfKind("feedback")' = OfKind("feedback")
        /\ OfKind("tool")' = OfKind("tool") /\ NotFull' = NotFull /\ ToSet(feedback)' = ToSet(feedback)
        /\ ToSet(rejected)' = ToSet(rejected) /\ LastRejected' = LastRejected /\ Drafts' = Drafts
    BY <2>1 DEF OfKind, NotFull, ToSet, LastRejected, Drafts
  <2>3. QED
    BY <2>1, <2>2 DEF ConvInv, Running, FailureReportsLatestDraft, CorrectionInv, NewestFeedback
<1>12. QED
  BY <1>3, <1>4, <1>5, <1>6, <1>7, <1>8, <1>9, <1>10, <1>11 DEF Next

\* A fresh run holds its request and nothing else.
LEMMA ConvInit == Init => ConvInv /\ FailureReportsLatestDraft
<1> SUFFICES ASSUME Init PROVE ConvInv /\ FailureReportsLatestDraft
  OBVIOUS
<1>1. /\ pc = "ask" /\ history = <<Message("request")>> /\ rejected = <<>> /\ feedback = <<>>
      /\ compactions = {} /\ prompt.messages = {} /\ prompt.correction = 0
  BY DEF Init
<1>2. OfKind("draft") = {} /\ OfKind("feedback") = {} /\ NotFull = {}
  BY <1>1 DEF OfKind, NotFull, Message
<1>3. ToSet(rejected) = {} /\ ToSet(feedback) = {}
  BY <1>1 DEF ToSet
<1>4. rejected \in Seq(Nat)
  BY <1>1
<1>5. prompt.messages \subseteq DOMAIN history \ (OfKind("draft") \cup OfKind("feedback"))
  BY <1>1
<1>6. FailureReportsLatestDraft
  BY <1>1 DEF FailureReportsLatestDraft
<1>7. ConvInv
  <2>1. CorrectionInv
    BY <1>1 DEF CorrectionInv, NewestFeedback
  <2>2. QED
    BY <1>1, <1>2, <1>3, <1>4, <1>5, <2>1, Zenon DEF ConvInv
<1>8. QED
  BY <1>6, <1>7

\* However often drafts are rejected, in whatever order tools are called, errors
\* raised and empty answers given: the model is never sent a draft or feedback
\* again, except for the newest feedback as the one correction.
THEOREM DraftsStayOut == Spec => []RejectedDraftsStayOut
<1>1. ConvInv => RejectedDraftsStayOut
  BY DEF ConvInv, CorrectionInv, RejectedDraftsStayOut, OfKind
<1>2. QED
  BY <1>1, IInvInit, IInvStep, ConvInit, ConvStep, PTL DEF Spec

\* No tool result is replaced by a reference before the model has seen it, and
\* nothing else is ever replaced, although results are remembered by their index.
THEOREM ResultsAreShown == Spec => []ShownBeforeCompacted
<1>1. ConvInv => ShownBeforeCompacted
  BY DEF ConvInv, ShownBeforeCompacted, NotFull, OfKind
<1>2. QED
  BY <1>1, IInvInit, IInvStep, ConvInit, ConvStep, PTL DEF Spec

\* Wherever a run fails, it reports its newest draft, or none if it has none.
THEOREM FailuresReportDrafts == Spec => []FailureReportsLatestDraft
BY IInvInit, IInvStep, ConvInit, ConvStep, PTL DEF Spec

-----------------------------------------------------------------------------
(* Tool calls *)

Streaks == [call : Calls \cup {"none"}, content : Contents \cup {"none"}, count : Nat]

ExecInv ==
    /\ executions \in Seq(Executions)
    /\ calls \in Seq(Calls)
    /\ streak \in Streaks

\* Execution k is the tool_manual call that activated tool t.
Activates(k, t) ==
    executions[k].ok /\ ToolOf[executions[k].call] = Manual /\ t \in Requested[executions[k].call]

\* Tools are activated by executions, and exposed by executions of earlier rounds.
SchemaInv ==
    /\ pc \in {"ask", "verify"} => \A k \in DOMAIN executions : executions[k].round < round
    /\ pc = "tools" => \A k \in DOMAIN executions : executions[k].round <= round
    /\ pc \in Running =>
          /\ \A t \in activated : \E k \in DOMAIN executions : Activates(k, t)
          /\ \A t \in exposed : \E k \in DOMAIN executions : Activates(k, t) /\ executions[k].round < round
    /\ SchemaBeforeUse

\* The position of the next execution.
Here == Len(executions) + 1

\* The streak counts the last executions that ran, as far back as they are one
\* failure, and no farther.
StreakInv ==
    /\ streak.count > 0 =>
          \E m \in DOMAIN executions :
             /\ Cardinality(RanSince(m, Here)) = streak.count
             /\ OnlyFailures(RanSince(m, Here), streak.call, streak.content)
    /\ \A m \in DOMAIN executions : \A c \in Calls, e \in Contents :
          OnlyFailures(RanSince(m, Here), c, e) /\ RanSince(m, Here) # {} =>
             /\ c = streak.call /\ e = streak.content
             /\ Cardinality(RanSince(m, Here)) <= streak.count

WarrantInv == ExecInv /\ SchemaInv /\ StreakInv /\ RefusedExactlyWhenHopeless

\* What a tool call can come to.
LEMMA OutcomeShape ==
    ASSUME NEW c \in Calls, round \in Nat, NEW x \in Outcomes(c)
    PROVE  /\ x \in Executions /\ x.call = c /\ x.round = round /\ x.content # "blocked"
           /\ x.started /\ ToolOf[c] # Manual => ToolOf[c] \in exposed
<1>1. \A ok \in BOOLEAN, content \in Contents, started \in BOOLEAN :
         LET y == Execution(c, ok, content, started) IN
         /\ y \in Executions /\ y.call = c /\ y.round = round /\ y.content = content
         /\ y.started = started
  BY DEF Execution, Executions
<1>2. /\ Results \cup Faults \subseteq Contents \ {"blocked"} /\ "activated" \in Contents
      /\ {"unavailable", "arguments", "unknown"} \subseteq Contents
  BY ToolsAssumption DEF Contents, Errors
<1>3. x \in {Execution(c, FALSE, e, FALSE) : e \in {"unavailable", "arguments", "unknown"}}
           \cup {Execution(c, TRUE, "activated", TRUE)}
           \cup {Execution(c, TRUE, r, TRUE) : r \in Results}
           \cup {Execution(c, FALSE, e, TRUE) : e \in Faults}
  BY DEF Outcomes, Failure
<1>4. \E ok \in BOOLEAN, content \in Contents \ {"blocked"}, started \in BOOLEAN :
         x = Execution(c, ok, content, started)
  <2>1. CASE x \in {Execution(c, FALSE, e, FALSE) : e \in {"unavailable", "arguments", "unknown"}}
    <3>1. PICK e \in {"unavailable", "arguments", "unknown"} : x = Execution(c, FALSE, e, FALSE)
      BY <2>1
    <3>2. e \in Contents \ {"blocked"}
      BY <1>2, <3>1
    <3>3. QED
      BY <3>1, <3>2
  <2>2. CASE x = Execution(c, TRUE, "activated", TRUE)
    BY <1>2, <2>2
  <2>3. CASE x \in {Execution(c, TRUE, r, TRUE) : r \in Results}
    BY <1>2, <2>3
  <2>4. CASE x \in {Execution(c, FALSE, e, TRUE) : e \in Faults}
    BY <1>2, <2>4
  <2>5. QED
    BY <1>3, <2>1, <2>2, <2>3, <2>4
<1>5. /\ x \in Executions /\ x.call = c /\ x.round = round /\ x.content # "blocked"
  BY <1>1, <1>4
<1>6. ASSUME ToolOf[c] # Manual, ToolOf[c] \notin exposed PROVE ~x.started
  <2>1. PICK e \in {"unavailable", "arguments", "unknown"} : x = Execution(c, FALSE, e, FALSE)
    BY <1>6 DEF Outcomes, Failure
  <2>2. QED
    BY <2>1 DEF Execution
<1>7. QED
  BY <1>5, <1>6

\* What one execution more does to the list of executions.
LEMMA ExecutionsGrow ==
    ASSUME executions \in Seq(Executions), NEW x \in Executions, executions' = Append(executions, x)
    PROVE  /\ DOMAIN executions = 1 .. Len(executions) /\ Len(executions) \in Nat
           /\ DOMAIN executions' = 1 .. Here /\ Here' = Here + 1 /\ Here = Len(executions) + 1
           /\ executions'[Here] = x
           /\ \A i \in 1 .. Len(executions) : executions'[i] = executions[i]
           /\ executions' \in Seq(Executions)
<1>1. Len(executions') = Len(executions) + 1 /\ Len(executions) \in Nat
  OBVIOUS
<1>2. Here' = Here + 1
  BY <1>1 DEF Here
<1>3. QED
  BY <1>1, <1>2 DEF Here

\* An execution leaves the order of schemas and uses as it should be.
LEMMA RecordSchema ==
    ASSUME IInv, ExecInv, SchemaInv, pc = "tools", UNCHANGED <<pc, round, exposed>>,
           NEW x \in Executions, executions' = Append(executions, x), x.round = round,
           activated' = IF ToolOf[x.call] = Manual /\ x.ok THEN activated \cup Requested[x.call]
                                                          ELSE activated,
           x.started /\ ToolOf[x.call] # Manual => ToolOf[x.call] \in exposed
    PROVE  SchemaInv'
<1>1. /\ DOMAIN executions = 1 .. Len(executions) /\ Len(executions) \in Nat
      /\ DOMAIN executions' = 1 .. Here /\ Here = Len(executions) + 1
      /\ executions'[Here] = x
      /\ \A i \in 1 .. Len(executions) : executions'[i] = executions[i]
  BY ExecutionsGrow DEF ExecInv
<1>2. round \in Nat
  BY DEF IInv, RoundInv
<1>3. \A k \in DOMAIN executions : executions[k].round <= round
  BY DEF SchemaInv
<1>4. \A k \in DOMAIN executions : \A t : Activates(k, t)' <=> Activates(k, t)
  BY <1>1 DEF Activates
<1>5. \A k \in DOMAIN executions' : executions'[k].round <= round'
  BY <1>1, <1>2, <1>3
<1>6. \A t \in activated' : \E k \in DOMAIN executions' : Activates(k, t)'
  <2>1. ASSUME NEW t \in activated PROVE \E k \in DOMAIN executions' : Activates(k, t)'
    <3>1. PICK k \in DOMAIN executions : Activates(k, t)
      BY <2>1 DEF SchemaInv, Running
    <3>2. k \in DOMAIN executions'
      BY <1>1
    <3>3. QED
      BY <1>4, <3>1, <3>2
  <2>2. ASSUME ToolOf[x.call] = Manual, x.ok, NEW t \in Requested[x.call]
        PROVE  \E k \in DOMAIN executions' : Activates(k, t)'
    <3>1. PICK n \in DOMAIN executions' : n = Here
      BY <1>1
    <3>2. Activates(n, t)'
      BY <1>1, <2>2, <3>1 DEF Activates
    <3>3. QED
      BY <3>2
  <2>3. QED
    BY <2>1, <2>2
<1>7. \A t \in exposed' : \E k \in DOMAIN executions' : Activates(k, t)' /\ executions'[k].round < round'
  <2>1. SUFFICES ASSUME NEW t \in exposed
                 PROVE  \E k \in DOMAIN executions' : Activates(k, t)' /\ executions'[k].round < round
    OBVIOUS
  <2>2. PICK k \in DOMAIN executions : Activates(k, t) /\ executions[k].round < round
    BY <2>1 DEF SchemaInv, Running
  <2>3. k \in DOMAIN executions' /\ executions'[k] = executions[k]
    BY <1>1
  <2>4. QED
    BY <1>4, <2>2, <2>3
<1>8. SchemaBeforeUse'
  <2>1. SUFFICES ASSUME NEW i \in DOMAIN executions', executions'[i].started,
                        ToolOf[executions'[i].call] # Manual
                 PROVE  \E k \in 1 .. i - 1 :
                           /\ executions'[k].ok /\ executions'[k].round < executions'[i].round
                           /\ ToolOf[executions'[k].call] = Manual
                           /\ ToolOf[executions'[i].call] \in Requested[executions'[k].call]
    BY DEF SchemaBeforeUse
  <2>2. CASE i \in 1 .. Len(executions)
    <3>1. executions'[i] = executions[i]
      BY <1>1, <2>2
    <3>2. PICK k \in 1 .. i - 1 :
             /\ executions[k].ok /\ executions[k].round < executions[i].round
             /\ ToolOf[executions[k].call] = Manual
             /\ ToolOf[executions[i].call] \in Requested[executions[k].call]
      BY <1>1, <2>1, <2>2, <3>1 DEF SchemaInv, SchemaBeforeUse
    <3>3. executions'[k] = executions[k]
      BY <1>1, <2>2, <3>2
    <3>4. QED
      BY <3>1, <3>2, <3>3
  <2>3. CASE i = Len(executions) + 1
    <3>1. executions'[i] = x
      BY <1>1, <2>3
    <3>2. PICK k \in DOMAIN executions : Activates(k, ToolOf[x.call]) /\ executions[k].round < round
      BY <2>1, <3>1 DEF SchemaInv, Running
    <3>3. k \in 1 .. i - 1 /\ executions'[k] = executions[k]
      BY <1>1, <2>3
    <3>4. QED
      BY <3>1, <3>2, <3>3 DEF Activates
  <2>4. QED
    BY <1>1, <2>2, <2>3
<1>9. QED
  BY <1>5, <1>6, <1>7, <1>8 DEF SchemaInv, Running

\* The executions since m are finitely many, and none since the next one.
LEMMA SinceFinite ==
    ASSUME NEW m \in Nat, NEW i \in Nat
    PROVE  /\ IsFiniteSet(RanSince(m, i)) /\ Cardinality(RanSince(m, i)) \in Nat
           /\ RanSince(i, i) = {} /\ Cardinality(RanSince(i, i)) = 0
<1>1. IsFiniteSet(m .. i - 1)
  BY FS_Interval
<1>2. RanSince(m, i) \subseteq m .. i - 1
  BY DEF RanSince
<1>3. RanSince(i, i) = {}
  BY DEF RanSince
<1>4. QED
  BY <1>1, <1>2, <1>3, FS_Subset, FS_CardinalityType, FS_EmptySet

\* One execution more leaves what came before it ...
LEMMA SinceBefore ==
    ASSUME executions \in Seq(Executions), NEW x \in Executions, executions' = Append(executions, x),
           NEW m \in 1 .. Here, NEW i \in 1 .. Here
    PROVE  /\ RanSince(m, i)' = RanSince(m, i)
           /\ \A c, e : OnlyFailures(RanSince(m, i), c, e)' <=> OnlyFailures(RanSince(m, i), c, e)
<1>1. /\ Len(executions) \in Nat /\ Here = Len(executions) + 1
      /\ \A k \in 1 .. Len(executions) : executions'[k] = executions[k]
  BY ExecutionsGrow
<1>2. \A k \in m .. i - 1 : executions'[k] = executions[k]
  BY <1>1
<1>3. RanSince(m, i)' = RanSince(m, i)
  BY <1>2 DEF RanSince
<1>4. \A k \in RanSince(m, i) : executions'[k] = executions[k]
  BY <1>2 DEF RanSince
<1>5. QED
  BY <1>3, <1>4 DEF OnlyFailures

\* ... and counts itself, unless it was refused.
LEMMA SinceAfter ==
    ASSUME executions \in Seq(Executions), NEW x \in Executions, executions' = Append(executions, x),
           NEW m \in 1 .. Here
    PROVE  /\ RanSince(m, Here)' = RanSince(m, Here) \cup IF x.content = "blocked" THEN {} ELSE {Here}
           /\ Cardinality(RanSince(m, Here))' =
                 Cardinality(RanSince(m, Here)) + IF x.content = "blocked" THEN 0 ELSE 1
           /\ \A c, e : OnlyFailures(RanSince(m, Here), c, e)' <=>
                 /\ OnlyFailures(RanSince(m, Here), c, e)
                 /\ x.content # "blocked" => ~x.ok /\ x.call = c /\ x.content = e
<1>1. /\ Len(executions) \in Nat /\ Here = Len(executions) + 1 /\ Here' = Here + 1
      /\ executions'[Here] = x
      /\ \A k \in 1 .. Len(executions) : executions'[k] = executions[k]
  BY ExecutionsGrow
<1>2. \A k \in m .. Here - 1 : executions'[k] = executions[k]
  BY <1>1
<1>3. m .. Here' - 1 = (m .. Here - 1) \cup {Here} /\ Here \notin m .. Here - 1
  BY <1>1
<1>4. RanSince(m, Here)' = RanSince(m, Here) \cup IF x.content = "blocked" THEN {} ELSE {Here}
  BY <1>1, <1>2, <1>3 DEF RanSince
<1>5. Here \notin RanSince(m, Here)
  BY <1>3 DEF RanSince
<1>6. Cardinality(RanSince(m, Here))' =
         Cardinality(RanSince(m, Here)) + IF x.content = "blocked" THEN 0 ELSE 1
  <2>1. IsFiniteSet(RanSince(m, Here)) /\ Cardinality(RanSince(m, Here)) \in Nat
    BY <1>1, SinceFinite
  <2>2. Cardinality(RanSince(m, Here) \cup {Here}) = Cardinality(RanSince(m, Here)) + 1
    BY <1>5, <2>1, FS_AddElement
  <2>3. CASE x.content = "blocked"
    BY <1>4, <2>1, <2>3
  <2>4. CASE x.content # "blocked"
    BY <1>4, <2>2, <2>4
  <2>5. QED
    BY <2>3, <2>4
<1>7. \A k \in RanSince(m, Here) : executions'[k] = executions[k]
  BY <1>2 DEF RanSince
<1>9. ASSUME NEW c, NEW e
      PROVE  OnlyFailures(RanSince(m, Here), c, e)' <=>
                 /\ OnlyFailures(RanSince(m, Here), c, e)
                 /\ x.content # "blocked" => ~x.ok /\ x.call = c /\ x.content = e
  <2> DEFINE F(k) == ~executions'[k].ok /\ executions'[k].call = c /\ executions'[k].content = e
  <2>1. OnlyFailures(RanSince(m, Here), c, e) <=> \A k \in RanSince(m, Here) : F(k)
    BY <1>7 DEF OnlyFailures
  <2>2. OnlyFailures(RanSince(m, Here), c, e)' <=> \A k \in RanSince(m, Here)' : F(k)
    BY DEF OnlyFailures
  <2>3. F(Here) <=> ~x.ok /\ x.call = c /\ x.content = e
    BY <1>1
  <2> HIDE DEF F
  <2>4. CASE x.content = "blocked"
    <3>1. RanSince(m, Here)' = RanSince(m, Here)
      BY <1>4, <2>4
    <3>2. QED
      BY <2>1, <2>2, <2>4, <3>1
  <2>5. CASE x.content # "blocked"
    <3>1. RanSince(m, Here)' = RanSince(m, Here) \cup {Here}
      BY <1>4, <2>5
    <3>2. (\A k \in RanSince(m, Here)' : F(k)) <=> (\A k \in RanSince(m, Here) : F(k)) /\ F(Here)
      BY <3>1
    <3>3. QED
      BY <2>1, <2>2, <2>3, <2>5, <3>2
  <2>6. QED
    BY <2>4, <2>5
<1>10. QED
  BY <1>4, <1>6, <1>9

\* The guard's streak keeps pace with the executions.
LEMMA RecordStreak ==
    ASSUME ExecInv, StreakInv, NEW x \in Executions, executions' = Append(executions, x),
           streak' = IF x.content = "blocked" THEN streak ELSE NextStreak(x)
    PROVE  StreakInv'
<1> USE DEF ExecInv
<1>1. /\ DOMAIN executions = 1 .. Len(executions) /\ Len(executions) \in Nat
      /\ DOMAIN executions' = 1 .. Here /\ Here = Len(executions) + 1
  BY ExecutionsGrow
<1>2. PICK n \in Nat : n = Here
  BY <1>1
<1>3. /\ streak \in Streaks /\ streak.count \in Nat
      /\ x.call \in Calls /\ x.content \in Contents /\ x.ok \in BOOLEAN
  BY DEF Streaks, Executions
<1>4. ASSUME NEW m \in 1 .. n
      PROVE  /\ Cardinality(RanSince(m, Here)) \in Nat
             /\ RanSince(m, Here)' = RanSince(m, Here) \cup IF x.content = "blocked" THEN {} ELSE {n}
             /\ Cardinality(RanSince(m, Here))' =
                   Cardinality(RanSince(m, Here)) + IF x.content = "blocked" THEN 0 ELSE 1
             /\ \A c, e : OnlyFailures(RanSince(m, Here), c, e)' <=>
                   /\ OnlyFailures(RanSince(m, Here), c, e)
                   /\ x.content # "blocked" => ~x.ok /\ x.call = c /\ x.content = e
  <2>1. m \in Nat /\ m \in 1 .. Here
    BY <1>2
  <2>2. Cardinality(RanSince(m, n)) \in Nat
    BY <2>1, SinceFinite
  <2>3. QED
    BY <1>2, <2>1, <2>2, SinceAfter
<1>5. RanSince(n, Here) = {} /\ Cardinality(RanSince(n, Here)) = 0
  BY <1>2, SinceFinite
<1>6. \A c, e : OnlyFailures({}, c, e)
  BY DEF OnlyFailures
<1> DEFINE C(m) == Cardinality(RanSince(m, Here))
<1> DEFINE Goal ==
      /\ streak'.count > 0 =>
            \E m \in 1 .. n : /\ C(m)' = streak'.count
                             /\ OnlyFailures(RanSince(m, Here), streak.call, streak.content)'
      /\ \A m \in 1 .. n : \A c \in Calls, e \in Contents :
            OnlyFailures(RanSince(m, Here), c, e)' /\ RanSince(m, Here)' # {} =>
               c = streak'.call /\ e = streak'.content /\ C(m)' <= streak'.count
<1>7. Goal => StreakInv'
  BY <1>1, <1>2 DEF StreakInv
<1>8. /\ streak.count > 0 =>
            \E m \in 1 .. n : m # n /\ C(m) = streak.count
                             /\ OnlyFailures(RanSince(m, Here), streak.call, streak.content)
      /\ \A m \in 1 .. n : \A c \in Calls, e \in Contents :
            OnlyFailures(RanSince(m, Here), c, e) /\ RanSince(m, Here) # {} =>
               c = streak.call /\ e = streak.content /\ C(m) <= streak.count
  BY <1>1, <1>2, <1>5 DEF StreakInv
<1>9. CASE x.content = "blocked"
  BY <1>4, <1>7, <1>8, <1>9
<1>10. CASE x.content # "blocked" /\ x.ok
  <2>1. streak' = NoStreak /\ streak'.count = 0
    BY <1>10 DEF NextStreak, NoStreak
  <2>2. QED
    BY <1>4, <1>7, <1>10, <2>1
<1>11. CASE x.content # "blocked" /\ ~x.ok
  <2> DEFINE again == streak.call = x.call /\ streak.content = x.content
  <2>1. /\ streak'.call = x.call /\ streak'.content = x.content
        /\ streak'.count = IF again THEN streak.count + 1 ELSE 1
    BY <1>11 DEF NextStreak
  <2>2. \E m \in 1 .. n : /\ C(m)' = streak'.count
                          /\ OnlyFailures(RanSince(m, Here), streak.call, streak.content)'
    <3>1. CASE again /\ streak.count > 0
      <4>1. PICK m \in 1 .. n : C(m) = streak.count
                                /\ OnlyFailures(RanSince(m, Here), streak.call, streak.content)
        BY <1>8, <3>1
      <4>2. C(m)' = streak'.count
        BY <1>4, <1>11, <2>1, <3>1, <4>1
      <4>3. OnlyFailures(RanSince(m, Here), streak.call, streak.content)'
        BY <1>4, <1>11, <2>1, <3>1, <4>1
      <4>4. QED
        BY <4>2, <4>3
    <3>2. CASE ~(again /\ streak.count > 0)
      <4>1. n \in 1 .. n
        BY <1>1, <1>2
      <4>2. C(n)' = 1 /\ streak'.count = 1
        <5>1. C(n)' = C(n) + 1 /\ C(n) = 0
          BY <1>4, <1>5, <1>11, <4>1
        <5>2. streak'.count = 1
          BY <1>3, <2>1, <3>2
        <5>3. QED
          BY <5>1, <5>2
      <4>3. OnlyFailures(RanSince(n, Here), streak.call, streak.content)'
        <5>1. OnlyFailures(RanSince(n, Here), x.call, x.content)
          BY <1>5, <1>6
        <5>2. OnlyFailures(RanSince(n, Here), x.call, x.content)'
          BY <1>4, <1>11, <4>1, <5>1
        <5>3. QED
          BY <2>1, <5>2
      <4>4. QED
        BY <4>1, <4>2, <4>3
    <3>3. QED
      BY <3>1, <3>2
  <2>3. ASSUME NEW m \in 1 .. n, NEW c \in Calls, NEW e \in Contents,
               OnlyFailures(RanSince(m, Here), c, e)'
        PROVE  c = streak'.call /\ e = streak'.content /\ C(m)' <= streak'.count
    <3>1. c = x.call /\ e = x.content /\ OnlyFailures(RanSince(m, Here), c, e) /\ C(m)' = C(m) + 1
      BY <1>4, <1>11, <2>3
    <3>2. CASE RanSince(m, Here) = {}
      <4>1. C(m) = 0
        BY <1>5, <3>2
      <4>2. QED
        BY <1>3, <2>1, <3>1, <4>1
    <3>3. CASE RanSince(m, Here) # {}
      <4>1. again /\ C(m) <= streak.count
        BY <1>8, <3>1, <3>3
      <4>2. QED
        BY <1>3, <1>4, <2>1, <3>1, <4>1
    <3>4. QED
      BY <3>2, <3>3
  <2>4. QED
    BY <1>7, <2>2, <2>3
<1>12. QED
  BY <1>3, <1>9, <1>10, <1>11

\* The refusals of the guard are the hopeless calls.
LEMMA RecordRefusals ==
    ASSUME ExecInv, StreakInv, RefusedExactlyWhenHopeless,
           NEW x \in Executions, executions' = Append(executions, x),
           x.content = "blocked" <=> Blocked(x.call)
    PROVE  RefusedExactlyWhenHopeless'
<1> USE DEF ExecInv
<1>1. /\ DOMAIN executions = 1 .. Len(executions) /\ Len(executions) \in Nat
      /\ DOMAIN executions' = 1 .. Here /\ Here = Len(executions) + 1
      /\ executions'[Here] = x
      /\ \A i \in 1 .. Len(executions) : executions'[i] = executions[i]
  BY ExecutionsGrow
<1> DEFINE Hopeless(i, c) ==
      \E m \in 1 .. i - 1 : /\ Cardinality(RanSince(m, i)) >= MaxFailures
                            /\ \E e \in Contents : OnlyFailures(RanSince(m, i), c, e)
<1>2. SUFFICES ASSUME NEW i \in DOMAIN executions'
               PROVE  executions'[i].content = "blocked" <=> Hopeless(i, executions[i].call)'
  BY DEF RefusedExactlyWhenHopeless
<1>3. ASSUME NEW c PROVE Hopeless(i, c)' <=> Hopeless(i, c)
  <2>1. \A m \in 1 .. i - 1 : /\ RanSince(m, i)' = RanSince(m, i)
                              /\ \A e : OnlyFailures(RanSince(m, i), c, e)' <=> OnlyFailures(RanSince(m, i), c, e)
    BY <1>1, SinceBefore
  <2>2. QED
    BY <2>1
<1>4. CASE i \in 1 .. Len(executions)
  <2>1. executions'[i] = executions[i]
    BY <1>1, <1>4
  <2>2. executions[i].content = "blocked" <=> Hopeless(i, executions[i].call)
    BY <1>1, <1>4 DEF RefusedExactlyWhenHopeless
  <2>3. Hopeless(i, executions[i].call)' <=> Hopeless(i, executions[i].call)
    BY <1>3, <2>1
  <2>4. QED
    BY <2>1, <2>2, <2>3
<1>5. CASE i = Here
  <2>1. executions'[i] = x /\ x.call \in Calls
    BY <1>1, <1>5 DEF Executions
  <2>2. MaxFailures \in Nat /\ MaxFailures > 0 /\ streak.count \in Nat
    BY LimitsAssumption DEF Streaks
  <2>3. Blocked(x.call) => Hopeless(i, x.call)
    <3>1. SUFFICES ASSUME Blocked(x.call) PROVE Hopeless(i, x.call)
      OBVIOUS
    <3>2. PICK m \in DOMAIN executions :
             /\ Cardinality(RanSince(m, Here)) = streak.count
             /\ OnlyFailures(RanSince(m, Here), streak.call, streak.content)
      BY <2>2, <3>1 DEF StreakInv, Blocked
    <3>3. streak.call = x.call /\ streak.count >= MaxFailures
      BY <3>1 DEF Blocked
    <3>4. streak.content \in Contents
      <4>1. RanSince(m, Here) # {}
        <5>1. SUFFICES ASSUME RanSince(m, Here) = {} PROVE FALSE
          OBVIOUS
        <5>2. Cardinality(RanSince(m, Here)) = 0
          BY <5>1, FS_EmptySet
        <5>3. QED
          BY <2>2, <3>2, <3>3, <5>2
      <4>2. PICK k \in RanSince(m, Here) : executions[k].content = streak.content
        BY <3>2, <4>1 DEF OnlyFailures
      <4>3. k \in DOMAIN executions
        BY <1>1, <3>2, <4>2 DEF RanSince
      <4>4. executions[k] \in Executions
        BY <4>3
      <4>5. QED
        BY <4>2, <4>4 DEF Executions
    <3>5. m \in 1 .. i - 1
      BY <1>1, <1>5
    <3>6. QED
      BY <1>5, <3>2, <3>3, <3>4, <3>5
  <2>4. Hopeless(i, x.call) => Blocked(x.call)
    <3>1. SUFFICES ASSUME Hopeless(i, x.call) PROVE Blocked(x.call)
      OBVIOUS
    <3>2. PICK m \in 1 .. i - 1 : /\ Cardinality(RanSince(m, i)) >= MaxFailures
                                 /\ \E e \in Contents : OnlyFailures(RanSince(m, i), x.call, e)
      BY <3>1
    <3>3. PICK e \in Contents : OnlyFailures(RanSince(m, i), x.call, e)
      BY <3>2
    <3>4. m \in DOMAIN executions /\ Cardinality(RanSince(m, Here)) \in Nat
      BY <1>1, <1>5, SinceFinite
    <3>5. RanSince(m, Here) # {}
      <4>1. SUFFICES ASSUME RanSince(m, Here) = {} PROVE FALSE
        OBVIOUS
      <4>2. Cardinality(RanSince(m, i)) = 0
        BY <1>5, <4>1, FS_EmptySet
      <4>3. QED
        BY <2>2, <3>2, <4>2
    <3>6. x.call = streak.call /\ Cardinality(RanSince(m, Here)) <= streak.count
      BY <1>5, <2>1, <3>3, <3>4, <3>5 DEF StreakInv
    <3>7. QED
      BY <1>5, <2>2, <3>2, <3>4, <3>6 DEF Blocked
  <2>5. Hopeless(i, executions[i].call)' <=> Hopeless(i, x.call)
    BY <1>3, <2>1
  <2>6. QED
    BY <2>1, <2>3, <2>4, <2>5
<1>6. QED
  BY <1>1, <1>4, <1>5

\* A step without an execution keeps what the executions say.
LEMMA NoExecution ==
    ASSUME WarrantInv, UNCHANGED <<executions, streak>>
    PROVE  /\ executions' \in Seq(Executions) /\ streak' \in Streaks
           /\ SchemaBeforeUse' /\ StreakInv' /\ RefusedExactlyWhenHopeless'
<1> USE DEF WarrantInv
<1>1. SchemaBeforeUse'
  BY DEF SchemaInv, SchemaBeforeUse
<1>2. executions' = executions /\ streak' = streak
  OBVIOUS
<1>3. Here' = Here /\ \A m, i : RanSince(m, i)' = RanSince(m, i)
  BY <1>2 DEF Here, RanSince
<1>4. \A K, c, e : OnlyFailures(K, c, e)' <=> OnlyFailures(K, c, e)
  BY <1>2 DEF OnlyFailures
<1>5. StreakInv'
  <2>1. StreakInv
    OBVIOUS
  <2>2. QED
    BY <1>2, <1>3, <1>4, <2>1 DEF StreakInv
<1>6. RefusedExactlyWhenHopeless'
  <2>1. RefusedExactlyWhenHopeless
    OBVIOUS
  <2>2. ASSUME NEW i \in DOMAIN executions, NEW m \in 1 .. i - 1
        PROVE  /\ RanSince(m, i)' = RanSince(m, i)
               /\ (\E e \in Contents : OnlyFailures(RanSince(m, i), executions[i].call, e))'
                     <=> \E e \in Contents : OnlyFailures(RanSince(m, i), executions[i].call, e)
    BY <1>2, <1>3, <1>4
  <2>3. QED
    BY <1>2, <2>1, <2>2 DEF RefusedExactlyWhenHopeless
<1>7. QED
  BY <1>1, <1>5, <1>6 DEF ExecInv

\* A response of the model exposes what earlier rounds activated.
LEMMA RespondWarrant ==
    ASSUME IInv, WarrantInv, pc = "ask", UNCHANGED <<executions, streak, activated>>,
           exposed' = activated, calls' \in Seq(Calls), round' \in {round, round + 1}
    PROVE  WarrantInv'
<1>1. round \in Nat
  BY DEF IInv, RoundInv
<1>2. \A k \in DOMAIN executions : executions[k].round \in Nat
  <2>1. executions \in Seq(Executions)
    BY DEF WarrantInv, ExecInv
  <2>2. \A k \in DOMAIN executions : executions[k] \in Executions
    BY <2>1
  <2>3. QED
    BY <2>2 DEF Executions
<1>3. \A k \in DOMAIN executions : executions[k].round < round
  BY DEF WarrantInv, SchemaInv
<1>4. \A k \in DOMAIN executions : executions'[k].round < round' /\ executions'[k].round <= round'
  BY <1>1, <1>2, <1>3
<1>5. \A k, t : Activates(k, t)' <=> Activates(k, t)
  BY DEF Activates
<1>6. \A t \in activated : \E k \in DOMAIN executions : Activates(k, t)
  BY DEF WarrantInv, SchemaInv, Running
<1>7. \A t \in exposed' : \E k \in DOMAIN executions' : Activates(k, t)' /\ executions'[k].round < round'
  BY <1>4, <1>5, <1>6
<1>8. \A t \in activated' : \E k \in DOMAIN executions' : Activates(k, t)'
  BY <1>5, <1>6
<1>9. SchemaInv'
  BY <1>4, <1>7, <1>8, NoExecution DEF SchemaInv
<1>10. QED
  BY <1>9, NoExecution DEF WarrantInv, ExecInv

\* The other steps without an execution come closer to the next round, or end.
LEMMA RestWarrant ==
    ASSUME IInv, WarrantInv, UNCHANGED <<executions, streak, activated, exposed, calls>>,
           round' \in {round, round + 1},
           \/ pc' \notin Running
           \/ pc' = "ask" /\ pc \in Running /\ round' = round + 1
           \/ pc' = pc /\ round' = round
    PROVE  WarrantInv'
<1>1. round \in Nat
  BY DEF IInv, RoundInv
<1>2. \A k \in DOMAIN executions : executions[k].round \in Nat
  <2>1. executions \in Seq(Executions)
    BY DEF WarrantInv, ExecInv
  <2>2. \A k \in DOMAIN executions : executions[k] \in Executions
    BY <2>1
  <2>3. QED
    BY <2>2 DEF Executions
<1>3. \A k, t : Activates(k, t)' <=> Activates(k, t)
  BY DEF Activates
<1>4. SchemaInv'
  <2>1. CASE pc' \notin Running
    BY <2>1, NoExecution DEF SchemaInv, Running
  <2>2. CASE pc' = "ask" /\ pc \in Running /\ round' = round + 1
    <3>1. /\ \A t \in activated : \E k \in DOMAIN executions : Activates(k, t)
          /\ \A t \in exposed : \E k \in DOMAIN executions : Activates(k, t) /\ executions[k].round < round
      BY <2>2 DEF WarrantInv, SchemaInv
    <3>2. \A k \in DOMAIN executions : executions[k].round <= round
      BY <1>1, <1>2, <2>2 DEF WarrantInv, SchemaInv, Running
    <3>3. \A k \in DOMAIN executions : executions'[k].round < round'
      BY <1>1, <1>2, <2>2, <3>2
    <3>4. /\ \A t \in activated' : \E k \in DOMAIN executions' : Activates(k, t)'
          /\ \A t \in exposed' : \E k \in DOMAIN executions' : Activates(k, t)' /\ executions'[k].round < round'
      BY <1>3, <3>1, <3>3
    <3>5. QED
      BY <2>2, <3>3, <3>4, NoExecution DEF SchemaInv
  <2>3. CASE pc' = pc /\ round' = round
    BY <1>3, <2>3, NoExecution DEF WarrantInv, SchemaInv
  <2>4. QED
    BY <2>1, <2>2, <2>3
<1>5. QED
  BY <1>4, NoExecution DEF WarrantInv, ExecInv

\* An execution.
LEMMA RecordWarrant ==
    ASSUME IInv, WarrantInv, pc = "tools", calls # <<>>, NEW x \in Executions, Record(x),
           x.call = Head(calls), x.round = round, x.content = "blocked" <=> Blocked(x.call),
           streak' = IF x.content = "blocked" THEN streak ELSE NextStreak(x),
           activated' = IF ToolOf[x.call] = Manual /\ x.ok THEN activated \cup Requested[x.call]
                                                          ELSE activated,
           x.started /\ ToolOf[x.call] # Manual => ToolOf[x.call] \in exposed
    PROVE  WarrantInv'
<1> USE DEF WarrantInv
<1>1. /\ executions' = Append(executions, x) /\ calls' = Tail(calls)
      /\ UNCHANGED <<pc, round, exposed>>
  BY DEF Record
<1>2. SchemaInv'
  BY <1>1, RecordSchema
<1>3. StreakInv'
  BY <1>1, RecordStreak
<1>4. RefusedExactlyWhenHopeless'
  BY <1>1, RecordRefusals
<1>5. ExecInv'
  <2>1. executions' \in Seq(Executions) /\ calls' \in Seq(Calls)
    BY <1>1 DEF ExecInv
  <2>2. streak' \in Streaks
    <3>1. streak \in Streaks /\ streak.count \in Nat
      BY DEF ExecInv, Streaks
    <3>2. x.call \in Calls /\ x.content \in Contents
      BY DEF Executions
    <3>3. NextStreak(x) \in Streaks
      BY <3>1, <3>2 DEF NextStreak, NoStreak, Streaks
    <3>4. QED
      BY <3>1, <3>3
  <2>3. QED
    BY <2>1, <2>2 DEF ExecInv
<1>6. QED
  BY <1>2, <1>3, <1>4, <1>5

\* Every step carries out exactly the calls that are warranted.
LEMMA WarrantStep == IInv /\ WarrantInv /\ [Next]_vars => WarrantInv'
<1> SUFFICES ASSUME IInv, WarrantInv, [Next]_vars PROVE WarrantInv'
  OBVIOUS
<1>1. calls \in Seq(Calls) /\ round \in Nat
  BY DEF WarrantInv, ExecInv, IInv, RoundInv
<1>2. CASE ModelCallsTools
  <2>1. /\ pc = "ask" /\ UNCHANGED <<executions, streak, activated, round>> /\ exposed' = activated
        /\ calls' \in UNION {[1 .. n -> Calls] : n \in 1 .. MaxCalls}
    BY <1>2 DEF ModelCallsTools, Respond, guard
  <2>2. calls' \in Seq(Calls)
    <3>1. PICK n \in 1 .. MaxCalls : calls' \in [1 .. n -> Calls]
      BY <2>1
    <3>2. n \in Nat
      BY <3>1, LimitsAssumption
    <3>3. QED
      BY <3>1, <3>2, SeqDef
  <2>3. QED
    BY <2>1, <2>2, RespondWarrant
<1>3. CASE ModelDrafts
  <2>1. /\ pc = "ask" /\ UNCHANGED <<executions, streak, activated, round, calls>> /\ exposed' = activated
    BY <1>3 DEF ModelDrafts, Respond, guard
  <2>2. QED
    BY <1>1, <2>1, RespondWarrant
<1>4. CASE ModelFinishesEmpty
  <2>1. /\ pc = "ask" /\ UNCHANGED <<executions, streak, activated, calls>> /\ exposed' = activated
        /\ round' \in {round, round + 1}
    BY <1>4 DEF ModelFinishesEmpty, Respond, guard
  <2>2. QED
    BY <1>1, <2>1, RespondWarrant
<1>5. CASE BlockTool
  <2> DEFINE x == Failure(Head(calls), "blocked", FALSE)
  <2>1. /\ pc = "tools" /\ calls # <<>> /\ Blocked(Head(calls)) /\ Record(x)
        /\ UNCHANGED <<activated, streak>>
    BY <1>5 DEF BlockTool
  <2>2. Head(calls) \in Calls
    BY <1>1, <2>1
  <2>3. /\ x \in Executions /\ x.call = Head(calls) /\ x.round = round
        /\ x.content = "blocked" /\ ~x.ok /\ ~x.started
    BY <1>1, <2>2 DEF Failure, Execution, Executions, Contents, Errors
  <2> HIDE DEF x
  <2>4. QED
    BY <2>1, <2>3, RecordWarrant
<1>6. CASE ExecuteTool
  <2>1. pc = "tools" /\ calls # <<>> /\ ~Blocked(Head(calls))
    BY <1>6 DEF ExecuteTool
  <2>2. PICK x \in Outcomes(Head(calls)) :
           /\ Record(x) /\ streak' = NextStreak(x)
           /\ activated' = IF ToolOf[x.call] = Manual /\ x.ok
                             THEN activated \cup Requested[x.call] ELSE activated
    BY <1>6 DEF ExecuteTool
  <2>3. Head(calls) \in Calls
    BY <1>1, <2>1
  <2>4. /\ x \in Executions /\ x.call = Head(calls) /\ x.round = round /\ x.content # "blocked"
        /\ x.started /\ ToolOf[Head(calls)] # Manual => ToolOf[Head(calls)] \in exposed
    BY <1>1, <2>2, <2>3, OutcomeShape
  <2>5. QED
    BY <2>1, <2>2, <2>4, RecordWarrant
<1>7. CASE EndRound
  BY <1>1, <1>7, RestWarrant DEF EndRound, Running
<1>8. CASE VerifierApproves
  BY <1>1, <1>8, RestWarrant DEF VerifierApproves, Running, tooling, guard
<1>9. CASE VerifierRejects
  <2>1. /\ pc = "verify" /\ UNCHANGED <<executions, streak, activated, exposed, calls>>
        /\ \/ pc' = "ask" /\ round' = round + 1
           \/ pc' = "failed" /\ round' = round
    BY <1>9 DEF VerifierRejects, tooling, guard
  <2>2. QED
    BY <1>1, <2>1, RestWarrant DEF Running
<1>10. CASE RunFails
  BY <1>1, <1>10, RestWarrant DEF RunFails, Running, tooling, guard
<1>11. CASE UNCHANGED vars
  BY <1>1, <1>11, RestWarrant DEF vars, tooling, guard
<1>12. QED
  BY <1>2, <1>3, <1>4, <1>5, <1>6, <1>7, <1>8, <1>9, <1>10, <1>11 DEF Next

\* A fresh run has executed, activated and counted nothing.
LEMMA WarrantInit == Init => WarrantInv
<1> SUFFICES ASSUME Init PROVE WarrantInv
  OBVIOUS
<1>1. /\ executions = <<>> /\ calls = <<>> /\ streak = NoStreak /\ activated = {} /\ exposed = {}
  BY DEF Init
<1>2. ExecInv
  BY <1>1 DEF ExecInv, Streaks, NoStreak
<1>3. SchemaInv
  BY <1>1 DEF SchemaInv, SchemaBeforeUse
<1>4. StreakInv
  BY <1>1 DEF StreakInv, NoStreak
<1>5. RefusedExactlyWhenHopeless
  BY <1>1 DEF RefusedExactlyWhenHopeless
<1>6. QED
  BY <1>2, <1>3, <1>4, <1>5 DEF WarrantInv

\* A tool's handler runs only after a tool_manual call of an earlier round has
\* activated it, and the guard refuses exactly the calls that would repeat the
\* failure of the last MaxFailures: for every set of tools, however the model
\* mixes calls in a turn, and whatever the guard's limits are.
THEOREM WarrantedCallsRunOnly == Spec => []WarrantedCallsRun
<1>1. WarrantInv => WarrantedCallsRun
  BY DEF WarrantInv, SchemaInv, WarrantedCallsRun
<1>2. QED
  BY <1>1, IInvInit, IInvStep, WarrantInit, WarrantStep, PTL DEF Spec

-----------------------------------------------------------------------------
(* The accepted draft *)

\* Induction on the natural numbers, over a set instead of a predicate: what is
\* not in the set would have a least element.
LEMMA NatBySet ==
    ASSUME NEW S, 0 \in S, \A n \in Nat : n \in S => n + 1 \in S
    PROVE  Nat \subseteq S
<1> DEFINE T == Nat \ S
<1> SUFFICES ASSUME T # {} PROVE FALSE
  OBVIOUS
<1>1. IsWellFoundedOn(OpToRel(<, Nat), Nat)
  BY NatLessThanWellFounded
<1>2. PICK x \in T : \A y \in T : ~(<<y, x>> \in OpToRel(<, Nat))
  <2>1. T \subseteq Nat
    OBVIOUS
  <2>2. QED
    BY <1>1, <2>1, WFMin
<1>3. x - 1 \in Nat /\ x - 1 < x
  OBVIOUS
<1>4. x - 1 \in T
  BY <1>3
<1>5. <<x - 1, x>> \in OpToRel(<, Nat)
  BY <1>3 DEF OpToRel
<1>6. QED
  BY <1>2, <1>4, <1>5

\* The largest of the first k numbers, and of a part of them that holds k.
LEMMA MaxOfFirst ==
    ASSUME NEW k \in Nat, NEW s, s \subseteq 1 .. k, k \in s
    PROVE  Max(s) = k
<1>1. \A y \in s : k >= y
  OBVIOUS
<1>2. \A x \in s : (\A y \in s : x >= y) => x = k
  <2>1. \A x \in s : x \in Nat /\ x <= k
    OBVIOUS
  <2>2. QED
    BY <2>1
<1>3. QED
  BY <1>1, <1>2 DEF Max

\* What is left of s when the elements at the indices in seq are taken out, one
\* after the other.
Without(s, seq) == FoldLeft(LAMBDA h, i : RemoveAt(h, i), s, seq)

\* The fold goes through the results h[0], h[1], ... of taking out one more.
LEMMA FoldRemoves ==
    ASSUME NEW T, NEW seq \in Seq(T), NEW base
    PROVE  \E h : /\ h[0] = base
                  /\ \A k \in 1 .. Len(seq) : h[k] = RemoveAt(h[k - 1], seq[k])
                  /\ Without(base, seq) = h[Len(seq)]
<1> DEFINE Step(g, s) == IF s = {} THEN base ELSE RemoveAt(g[s \ {Max(s)}], seq[Max(s)])
<1> DEFINE Folds(g, k) == g = [s \in SUBSET (1 .. k) |-> Step(g, s)]
<1> DEFINE S == {k \in Nat : \E g : Folds(g, k)}
<1>1. 0 \in S
  <2> DEFINE g == [s \in SUBSET (1 .. 0) |-> base]
  <2>1. \A s \in SUBSET (1 .. 0) : s = {}
    OBVIOUS
  <2>2. \A s \in SUBSET (1 .. 0) : Step(g, s) = base
    BY <2>1
  <2> HIDE DEF Step
  <2>3. Folds(g, 0)
    BY <2>2
  <2>4. QED
    BY <2>3
<1>2. ASSUME NEW k \in Nat, k \in S PROVE k + 1 \in S
  <2>1. PICK g : Folds(g, k)
    BY <1>2
  <2> DEFINE f == [s \in SUBSET (1 .. k + 1) |->
                      IF k + 1 \notin s THEN g[s] ELSE RemoveAt(g[s \ {k + 1}], seq[k + 1])]
  <2>2. \A s \in SUBSET (1 .. k + 1) : k + 1 \notin s => s \in SUBSET (1 .. k)
    OBVIOUS
  <2>3. \A s \in SUBSET (1 .. k) : f[s] = g[s]
    <3>1. \A s \in SUBSET (1 .. k) : s \in SUBSET (1 .. k + 1) /\ k + 1 \notin s
      OBVIOUS
    <3>2. QED
      BY <3>1
  <2>4. ASSUME NEW s \in SUBSET (1 .. k + 1)
        PROVE  (IF k + 1 \notin s THEN g[s] ELSE RemoveAt(g[s \ {k + 1}], seq[k + 1])) = Step(f, s)
    <3>1. CASE k + 1 \notin s
      <4>1. s \in SUBSET (1 .. k) /\ s \ {Max(s)} \in SUBSET (1 .. k)
        BY <2>2, <2>4, <3>1
      <4>2. g[s] = Step(g, s)
        BY <2>1, <4>1
      <4>3. f[s \ {Max(s)}] = g[s \ {Max(s)}]
        BY <2>3, <4>1
      <4>4. QED
        BY <3>1, <4>2, <4>3
    <3>2. CASE k + 1 \in s
      <4>1. Max(s) = k + 1
        <5>1. s \subseteq 1 .. k + 1 /\ k + 1 \in Nat
          BY <2>4
        <5>2. QED
          BY <3>2, <5>1, MaxOfFirst
      <4>2. s \ {k + 1} \in SUBSET (1 .. k)
        BY <2>4
      <4>3. f[s \ {k + 1}] = g[s \ {k + 1}]
        BY <2>3, <4>2
      <4>4. QED
        BY <3>2, <4>1, <4>3
    <3>3. QED
      BY <3>1, <3>2
  <2> DEFINE F(s) == IF k + 1 \notin s THEN g[s] ELSE RemoveAt(g[s \ {k + 1}], seq[k + 1])
  <2>5. f = [s \in SUBSET (1 .. k + 1) |-> F(s)] /\ \A s \in SUBSET (1 .. k + 1) : F(s) = Step(f, s)
    BY <2>4
  <2> HIDE DEF f, Step, F
  <2>6. Folds(f, k + 1)
    BY <2>5
  <2>7. QED
    BY <2>6
<1>3. Len(seq) \in S
  <2> HIDE DEF S
  <2>1. Nat \subseteq S
    BY <1>1, <1>2, NatBySet
  <2>2. QED
    BY <2>1
<1>4. DOMAIN seq = 1 .. Len(seq) /\ Len(seq) \in Nat
  OBVIOUS
<1>5. \E g : g = [s \in SUBSET DOMAIN seq |-> Step(g, s)]
  BY <1>3, <1>4
<1>6. PICK g : /\ g = [s \in SUBSET DOMAIN seq |-> Step(g, s)]
               /\ Without(base, seq) = g[DOMAIN seq]
  BY <1>5 DEF Without, FoldLeft, MapThenFoldSet
<1> DEFINE h == [k \in 0 .. Len(seq) |-> g[1 .. k]]
<1>7. h[0] = base
  <2>1. {} \in SUBSET DOMAIN seq /\ 1 .. 0 = {}
    OBVIOUS
  <2>2. g[{}] = base
    BY <1>6, <2>1
  <2>3. QED
    BY <1>4, <2>1, <2>2
<1>8. ASSUME NEW k \in 1 .. Len(seq) PROVE h[k] = RemoveAt(h[k - 1], seq[k])
  <2>1. /\ k \in Nat /\ k \in 1 .. k /\ 1 .. k \in SUBSET DOMAIN seq
        /\ (1 .. k) \ {k} = 1 .. k - 1 /\ k \in 0 .. Len(seq) /\ k - 1 \in 0 .. Len(seq)
    BY <1>4
  <2>2. Max(1 .. k) = k
    BY <2>1, MaxOfFirst
  <2>3. g[1 .. k] = RemoveAt(g[(1 .. k) \ {k}], seq[k])
    BY <1>6, <2>1, <2>2
  <2>4. QED
    BY <2>1, <2>3
<1>9. Without(base, seq) = h[Len(seq)]
  <2>1. h[Len(seq)] = g[DOMAIN seq]
    BY <1>4
  <2> HIDE DEF h
  <2>2. QED
    BY <1>6, <2>1
<1>10. QED
  BY <1>7, <1>8, <1>9

\* The places of the messages of one kind.
KindIn(s, k) == {i \in DOMAIN s : s[i].kind = k}

\* Taking one message out moves the messages behind it.
LEMMA RemovedAt ==
    ASSUME NEW s \in Seq(Messages), NEW r \in 1 .. Len(s)
    PROVE  /\ RemoveAt(s, r) \in Seq(Messages) /\ Len(RemoveAt(s, r)) = Len(s) - 1
           /\ \A i \in 1 .. Len(s) - 1 : RemoveAt(s, r)[i] = s[IF i < r THEN i ELSE i + 1]
<1> DEFINE a == SubSeq(s, 1, r - 1)
<1> DEFINE b == SubSeq(s, r + 1, Len(s))
<1>1. Len(s) \in Nat /\ r \in Nat /\ 1 <= r /\ r <= Len(s)
  OBVIOUS
<1>2. a \in Seq(Messages) /\ Len(a) = r - 1 /\ \A i \in 1 .. r - 1 : a[i] = s[i]
  BY <1>1
<1>3. /\ b \in Seq(Messages) /\ Len(b) = Len(s) - r
      /\ \A i \in 1 .. Len(s) - r : b[i] = s[r + i]
  BY <1>1
<1> HIDE DEF a, b
<1>4. a \o b \in Seq(Messages) /\ Len(a \o b) = Len(s) - 1
  <2>1. a \o b \in Seq(Messages) /\ Len(a \o b) = Len(a) + Len(b)
    <3>1. a \in Seq(Messages) /\ b \in Seq(Messages)
      BY <1>2, <1>3
    <3>2. QED
      BY <3>1
  <2>2. (r - 1) + (Len(s) - r) = Len(s) - 1
    BY <1>1
  <2>3. QED
    BY <1>2, <1>3, <2>1, <2>2
<1>5. ASSUME NEW i \in 1 .. Len(s) - 1 PROVE (a \o b)[i] = s[IF i < r THEN i ELSE i + 1]
  <2>1. CASE i < r
    <3>1. (a \o b)[i] = a[i]
      BY <1>1, <1>2, <1>3, <2>1
    <3>2. QED
      BY <1>1, <1>2, <2>1, <3>1
  <2>2. CASE ~(i < r)
    <3>1. i - (r - 1) \in 1 .. Len(s) - r /\ r + (i - (r - 1)) = i + 1
      BY <1>1, <2>2
    <3>2. (a \o b)[i] = b[i - (r - 1)]
      BY <1>1, <1>2, <1>3, <2>2
    <3>3. QED
      BY <1>3, <2>2, <3>1, <3>2
  <2>3. QED
    BY <2>1, <2>2
<1>6. RemoveAt(s, r) = a \o b
  BY DEF RemoveAt, a, b
<1>7. QED
  BY <1>4, <1>5, <1>6

\* The messages of other kinds than the one taken out are all kept.
LEMMA OthersKept ==
    ASSUME NEW s \in Seq(Messages), NEW r \in 1 .. Len(s), NEW k, s[r].kind # k
    PROVE  Cardinality(KindIn(RemoveAt(s, r), k)) = Cardinality(KindIn(s, k))
<1> DEFINE t == RemoveAt(s, r)
<1>1. /\ t \in Seq(Messages) /\ Len(t) = Len(s) - 1
      /\ \A i \in 1 .. Len(s) - 1 : t[i] = s[IF i < r THEN i ELSE i + 1]
  BY RemovedAt
<1> HIDE DEF t
<1>2. /\ DOMAIN s = 1 .. Len(s) /\ DOMAIN t = 1 .. Len(s) - 1
      /\ Len(s) \in Nat /\ r \in Nat /\ 1 <= r /\ r <= Len(s)
  BY <1>1
<1> DEFINE S == KindIn(t, k)
<1> DEFINE U == KindIn(s, k)
<1> DEFINE f == [i \in S |-> IF i < r THEN i ELSE i + 1]
<1>3. ASSUME NEW i \in S PROVE f[i] \in U /\ f[i] # r /\ i \in Nat
  <2>1. i \in 1 .. Len(s) - 1 /\ t[i].kind = k
    BY <1>2, <1>3 DEF KindIn
  <2>2. s[IF i < r THEN i ELSE i + 1].kind = k
    BY <1>1, <2>1
  <2>3. (IF i < r THEN i ELSE i + 1) \in 1 .. Len(s) /\ (IF i < r THEN i ELSE i + 1) # r
    BY <1>2, <2>1
  <2>4. f[i] = IF i < r THEN i ELSE i + 1
    OBVIOUS
  <2>5. QED
    BY <1>2, <2>1, <2>2, <2>3, <2>4 DEF KindIn
<1>4. \A i, j \in S : f[i] = f[j] => i = j
  BY <1>2, <1>3
<1>5. ASSUME NEW j \in U PROVE \E i \in S : f[i] = j
  <2>1. j \in 1 .. Len(s) /\ s[j].kind = k /\ j # r
    BY <1>2, <1>5 DEF KindIn
  <2> DEFINE i == IF j < r THEN j ELSE j - 1
  <2>2. i \in 1 .. Len(s) - 1 /\ (IF i < r THEN i ELSE i + 1) = j
    BY <1>2, <2>1
  <2> HIDE DEF i
  <2>3. i \in S
    BY <1>1, <1>2, <2>1, <2>2 DEF KindIn
  <2>4. f[i] = j
    BY <2>2, <2>3
  <2>5. QED
    BY <2>3, <2>4
<1>6. ExistsBijection(S, U)
  <2>1. f \in [S -> U]
    BY <1>3
  <2> HIDE DEF S, U, f
  <2>2. f \in Injection(S, U)
    BY <1>4, <2>1 DEF Injection, IsInjective
  <2>3. f \in Surjection(S, U)
    BY <1>5, <2>1 DEF Surjection
  <2>4. QED
    BY <2>2, <2>3 DEF ExistsBijection, Bijection
<1>7. IsFiniteSet(S)
  <2>1. IsFiniteSet(1 .. Len(s) - 1)
    BY <1>2, FS_Interval
  <2>2. QED
    BY <1>2, <2>1, FS_Subset DEF KindIn
<1>8. Cardinality(U) = Cardinality(S)
  <2> HIDE DEF S, U
  <2>1. QED
    BY <1>6, <1>7, FS_Bijection
<1>9. QED
  BY <1>8 DEF t

\* What is left of the places of one kind when one of them is taken out.
LEMMA KindWithout ==
    ASSUME NEW s \in Seq(Messages), NEW r \in 1 .. Len(s), NEW k, s[r].kind = k
    PROVE  KindIn(RemoveAt(s, r), k) =
              {i \in KindIn(s, k) : i < r} \cup {i - 1 : i \in {j \in KindIn(s, k) : j > r}}
<1> DEFINE t == RemoveAt(s, r)
<1> DEFINE U == KindIn(s, k)
<1> DEFINE W == {i \in U : i < r} \cup {i - 1 : i \in {j \in U : j > r}}
<1>1. /\ t \in Seq(Messages) /\ Len(t) = Len(s) - 1
      /\ \A i \in 1 .. Len(s) - 1 : t[i] = s[IF i < r THEN i ELSE i + 1]
  BY RemovedAt
<1> HIDE DEF t
<1>2. /\ DOMAIN s = 1 .. Len(s) /\ DOMAIN t = 1 .. Len(s) - 1
      /\ Len(s) \in Nat /\ r \in Nat /\ 1 <= r /\ r <= Len(s)
  BY <1>1
<1>3. ASSUME NEW i \in KindIn(t, k) PROVE i \in W
  <2>1. i \in 1 .. Len(s) - 1 /\ s[IF i < r THEN i ELSE i + 1].kind = k
    BY <1>1, <1>2, <1>3 DEF KindIn
  <2>2. CASE i < r
    BY <1>2, <2>1, <2>2 DEF KindIn
  <2>3. CASE ~(i < r)
    <3>1. i + 1 \in U /\ i + 1 > r /\ (i + 1) - 1 = i
      BY <1>2, <2>1, <2>3 DEF KindIn
    <3>2. QED
      BY <3>1
  <2>4. QED
    BY <2>2, <2>3
<1>4. ASSUME NEW i \in W PROVE i \in KindIn(t, k)
  <2>1. CASE i \in {j \in U : j < r}
    BY <1>1, <1>2, <2>1 DEF KindIn
  <2>2. CASE i \in {j - 1 : j \in {j \in U : j > r}}
    <3>1. PICK j \in U : j > r /\ i = j - 1
      BY <2>2
    <3>2. j \in 1 .. Len(s) /\ s[j].kind = k
      BY <1>2 DEF KindIn
    <3>3. i \in 1 .. Len(s) - 1 /\ ~(i < r) /\ i + 1 = j
      BY <1>2, <3>1, <3>2
    <3>4. QED
      BY <1>1, <1>2, <3>2, <3>3 DEF KindIn
  <2>3. QED
    BY <1>4, <2>1, <2>2
<1>5. QED
  BY <1>3, <1>4 DEF t

Increasing(s) == \A i, j \in DOMAIN s : i < j => s[i] < s[j]

\* The drafts of t are the first m of the list and the last message.
Upto(list, m) == {list[j] : j \in 1 .. m}
LeftToDrop(t, list, m) ==
    /\ t \in Seq(Messages)
    /\ KindIn(t, "draft") = Upto(list, m) \cup {Len(t)}
    /\ \A r \in Upto(list, m) : r < Len(t)

\* Taking out the last of them leaves the others, and every other kind.
LEMMA DropOne ==
    ASSUME NEW list \in Seq(Nat), Increasing(list), NEW m \in 1 .. Len(list),
           NEW t, LeftToDrop(t, list, m)
    PROVE  /\ LeftToDrop(RemoveAt(t, list[m]), list, m - 1)
           /\ \A k : k # "draft" =>
                 Cardinality(KindIn(RemoveAt(t, list[m]), k)) = Cardinality(KindIn(t, k))
<1> DEFINE r == list[m]
<1> DEFINE u == RemoveAt(t, r)
<1>1. /\ t \in Seq(Messages) /\ Len(t) \in Nat /\ DOMAIN t = 1 .. Len(t)
      /\ KindIn(t, "draft") = Upto(list, m) \cup {Len(t)}
      /\ \A q \in Upto(list, m) : q < Len(t)
  BY DEF LeftToDrop
<1>2. /\ DOMAIN list = 1 .. Len(list) /\ Len(list) \in Nat /\ m \in Nat /\ m \in 1 .. m
      /\ r \in Nat /\ \A j \in 1 .. Len(list) : list[j] \in Nat
  OBVIOUS
<1>3. /\ Upto(list, m) = Upto(list, m - 1) \cup {r}
      /\ \A q \in Upto(list, m - 1) : q < r /\ q \in Nat
  <2>1. 1 .. m = (1 .. m - 1) \cup {m} /\ \A j \in 1 .. m - 1 : j \in 1 .. Len(list) /\ j < m
    BY <1>2
  <2>2. \A j \in 1 .. m - 1 : list[j] < r /\ list[j] \in Nat
    BY <1>2, <2>1 DEF Increasing
  <2>3. QED
    BY <2>1, <2>2 DEF Upto
<1>4. r < Len(t) /\ r \in KindIn(t, "draft")
  BY <1>1, <1>3
<1>5. r \in 1 .. Len(t) /\ t[r].kind = "draft"
  BY <1>1, <1>4 DEF KindIn
<1> HIDE DEF r
<1>6. u \in Seq(Messages) /\ Len(u) = Len(t) - 1
  BY <1>1, <1>5, RemovedAt
<1>7. \A q \in Upto(list, m - 1) : q < Len(t) - 1
  BY <1>1, <1>2, <1>3, <1>4
<1>8. KindIn(u, "draft") = Upto(list, m - 1) \cup {Len(t) - 1}
  <2> DEFINE U == KindIn(t, "draft")
  <2>1. KindIn(u, "draft") = {i \in U : i < r} \cup {i - 1 : i \in {j \in U : j > r}}
    BY <1>1, <1>5, KindWithout
  <2>2. U = Upto(list, m - 1) \cup {r} \cup {Len(t)}
    BY <1>1, <1>3
  <2> HIDE DEF U
  <2>3. {i \in U : i < r} = Upto(list, m - 1)
    <3>1. \A i \in Upto(list, m - 1) : i < r
      BY <1>3
    <3>2. ~(r < r) /\ ~(Len(t) < r)
      BY <1>1, <1>2, <1>4
    <3>3. QED
      BY <2>2, <3>1, <3>2
  <2>4. {j \in U : j > r} = {Len(t)}
    <3>1. \A i \in Upto(list, m - 1) : ~(i > r)
      BY <1>2, <1>3
    <3>2. ~(r > r) /\ Len(t) > r
      BY <1>1, <1>2, <1>4
    <3>3. QED
      BY <2>2, <3>1, <3>2
  <2>5. QED
    BY <2>1, <2>3, <2>4
<1>9. ASSUME NEW k, k # "draft" PROVE Cardinality(KindIn(u, k)) = Cardinality(KindIn(t, k))
  BY <1>1, <1>5, <1>9, OthersKept
<1>10. LeftToDrop(u, list, m - 1)
  BY <1>6, <1>7, <1>8 DEF LeftToDrop
<1>11. QED
  BY <1>9, <1>10 DEF r

\* The indices, the last one first.
LEMMA Reversed ==
    ASSUME NEW list \in Seq(Nat)
    PROVE  /\ Reverse(list) \in Seq(Nat) /\ Len(Reverse(list)) = Len(list)
           /\ \A k \in 1 .. Len(list) : Reverse(list)[k] = list[(Len(list) - k) + 1]
<1> DEFINE n == Len(list)
<1>1. n \in Nat /\ \A k \in 1 .. n : list[k] \in Nat
  OBVIOUS
<1> HIDE DEF n
<1>2. \A k \in 1 .. n : (n - k) + 1 \in 1 .. n
  BY <1>1
<1>3. Reverse(list) = [k \in 1 .. n |-> list[(n - k) + 1]]
  BY DEF Reverse, n
<1>4. Reverse(list) \in [1 .. n -> Nat]
  BY <1>1, <1>2, <1>3
<1>5. Reverse(list) \in Seq(Nat) /\ Len(Reverse(list)) = n
  BY <1>1, <1>4
<1>6. QED
  BY <1>3, <1>5 DEF n

\* Taking the rejected drafts out, the last one first, leaves the draft behind
\* them, now the last message, and every message of another kind.
LEMMA Dropping ==
    ASSUME NEW s, NEW list \in Seq(Nat), Increasing(list), LeftToDrop(s, list, Len(list)),
           NEW t, t = Without(s, Reverse(list))
    PROVE  /\ t \in Seq(Messages) /\ KindIn(t, "draft") = {Len(t)}
           /\ \A k : k # "draft" => Cardinality(KindIn(t, k)) = Cardinality(KindIn(s, k))
<1> DEFINE n == Len(list)
<1>1. n \in Nat
  OBVIOUS
<1>2. /\ Reverse(list) \in Seq(Nat) /\ Len(Reverse(list)) = n
      /\ \A k \in 1 .. n : Reverse(list)[k] = list[(n - k) + 1]
  BY Reversed
<1> HIDE DEF n
<1>3. PICK h : /\ h[0] = s
               /\ \A k \in 1 .. n : h[k] = RemoveAt(h[k - 1], Reverse(list)[k])
               /\ t = h[n]
  <2>1. PICK h : /\ h[0] = s
                 /\ \A k \in 1 .. Len(Reverse(list)) : h[k] = RemoveAt(h[k - 1], Reverse(list)[k])
                 /\ Without(s, Reverse(list)) = h[Len(Reverse(list))]
    BY <1>2, FoldRemoves
  <2>2. QED
    BY <1>2, <2>1
<1> DEFINE Good(k) ==
       /\ LeftToDrop(h[k], list, n - k)
       /\ \A kind : kind # "draft" => Cardinality(KindIn(h[k], kind)) = Cardinality(KindIn(s, kind))
<1> DEFINE S == {k \in Nat : k <= n => Good(k)}
<1>4. 0 \in S
  <2>1. n - 0 = n
    BY <1>1
  <2>2. QED
    BY <1>3, <2>1 DEF n
<1>5. ASSUME NEW k \in Nat, k \in S PROVE k + 1 \in S
  <2>1. SUFFICES ASSUME k + 1 <= n PROVE Good(k + 1)
    OBVIOUS
  <2>2. /\ n - k \in 1 .. n /\ (n - (k + 1)) + 1 = n - k /\ (k + 1) - 1 = k
        /\ k + 1 \in 1 .. n /\ (n - k) - 1 = n - (k + 1) /\ k <= n
    BY <1>1, <2>1
  <2>3. Good(k)
    BY <1>5, <2>2
  <2>4. h[k + 1] = RemoveAt(h[k], list[n - k])
    BY <1>2, <1>3, <2>2
  <2>5. /\ LeftToDrop(RemoveAt(h[k], list[n - k]), list, (n - k) - 1)
        /\ \A kind : kind # "draft" =>
              Cardinality(KindIn(RemoveAt(h[k], list[n - k]), kind)) = Cardinality(KindIn(h[k], kind))
    <3>1. n - k \in 1 .. Len(list)
      BY <2>2 DEF n
    <3>2. QED
      BY <2>3, <3>1, DropOne
  <2>6. QED
    BY <2>2, <2>3, <2>4, <2>5
<1>6. Good(n)
  <2> HIDE DEF Good
  <2>1. Nat \subseteq S
    <3>1. 0 \in S /\ \A k \in Nat : k \in S => k + 1 \in S
      BY <1>4, <1>5
    <3> HIDE DEF S
    <3>2. QED
      BY <3>1, NatBySet
  <2>2. QED
    BY <1>1, <2>1
<1>7. Upto(list, n - n) = {}
  BY <1>1 DEF Upto
<1>8. QED
  BY <1>3, <1>6, <1>7 DEF LeftToDrop

\* The rejected drafts are listed in the order of their places, before the one
\* that waits for its verdict, and nothing else was ever taken for feedback or for
\* a tool result.
DropInv ==
    /\ Increasing(rejected)
    /\ pc = "verify" => \A i \in ToSet(rejected) : i < Len(history)
    /\ pc \in Running =>
          /\ Cardinality(OfKind("feedback")) = Len(feedback)
          /\ Cardinality(OfKind("tool")) = Len(executions)

\* A message more is one of its kind more.
LEMMA CountOne ==
    ASSUME history \in Seq(Messages), NEW k, OfKind(k)' = OfKind(k) \cup {Len(history) + 1}
    PROVE  Cardinality(OfKind(k))' = Cardinality(OfKind(k)) + 1
<1>1. DOMAIN history = 1 .. Len(history) /\ Len(history) \in Nat
  OBVIOUS
<1>2. OfKind(k) \subseteq 1 .. Len(history) /\ Len(history) + 1 \notin OfKind(k)
  BY <1>1 DEF OfKind
<1>3. IsFiniteSet(OfKind(k))
  <2>1. IsFiniteSet(1 .. Len(history))
    BY <1>1, FS_Interval
  <2>2. QED
    BY <1>2, <2>1, FS_Subset
<1>4. QED
  BY <1>2, <1>3, FS_AddElement

\* A draft is accepted: it is the only one left, and feedback and tool results
\* are as many as before.
LEMMA ApproveDrops ==
    ASSUME IInv, ConvInv, DropInv, VerifierApproves
    PROVE  ApprovedDraftStandsAlone' /\ history' \in Seq(Messages)
<1>1. pc = "verify" /\ UNCHANGED <<feedback, executions>> /\ history' = Without(history, Reverse(rejected))
  BY DEF VerifierApproves, DropRejected, Without, tooling
<1>2. history \in Seq(Messages) /\ rejected \in Seq(Nat)
  BY <1>1 DEF IInv, HistoryInv, ConvInv
<1>3. \A k : KindIn(history, k) = OfKind(k) /\ KindIn(history', k) = OfKind(k)'
  BY DEF KindIn, OfKind
<1>4. LeftToDrop(history, rejected, Len(rejected))
  <2>1. Upto(rejected, Len(rejected)) = ToSet(rejected)
    <3>1. DOMAIN rejected = 1 .. Len(rejected)
      BY <1>2
    <3>2. QED
      BY <3>1 DEF Upto, ToSet
  <2>2. OfKind("draft") = ToSet(rejected) \cup {Len(history)}
    BY <1>1 DEF ConvInv, Running
  <2>3. \A i \in ToSet(rejected) : i < Len(history)
    BY <1>1 DEF DropInv
  <2>4. QED
    BY <1>2, <1>3, <2>1, <2>2, <2>3 DEF LeftToDrop
<1>5. /\ history' \in Seq(Messages) /\ KindIn(history', "draft") = {Len(history')}
      /\ \A k : k # "draft" => Cardinality(KindIn(history', k)) = Cardinality(KindIn(history, k))
  BY <1>1, <1>2, <1>4, Dropping DEF DropInv
<1>6. /\ Cardinality(KindIn(history', "feedback")) = Len(feedback')
      /\ Cardinality(KindIn(history', "tool")) = Len(executions')
  BY <1>1, <1>3, <1>5 DEF DropInv, Running
<1>7. QED
  BY <1>5, <1>6 DEF ApprovedDraftStandsAlone, KindIn

\* Every step keeps the places in order and the messages counted.
LEMMA DropStep ==
    IInv /\ ConvInv /\ DropInv /\ ApprovedDraftStandsAlone /\ [Next]_vars
        => DropInv' /\ ApprovedDraftStandsAlone'
<1> SUFFICES ASSUME IInv, ConvInv, DropInv, ApprovedDraftStandsAlone, [Next]_vars
             PROVE  DropInv' /\ ApprovedDraftStandsAlone'
  OBVIOUS
<1>1. /\ pc \in Running => history \in Seq(Messages) /\ Len(history) \in Nat /\ DOMAIN history = 1 .. Len(history)
      /\ rejected \in Seq(Nat) /\ feedback \in Seq(Nat)
  BY DEF IInv, HistoryInv, BudgetInv, ConvInv, Running
<1>2. ASSUME pc \in Running, pc' \in Running, pc' # "verify", UNCHANGED <<rejected, feedback, executions>>,
             NEW R, Adds({}, {}, {}, R)
      PROVE  DropInv' /\ ApprovedDraftStandsAlone'
  BY <1>2 DEF DropInv, ApprovedDraftStandsAlone, Adds, Increasing, Running
<1>3. CASE ModelCallsTools
  <2>1. pc = "ask" /\ pc' = "tools" /\ UNCHANGED <<rejected, feedback, executions>>
    BY <1>3 DEF ModelCallsTools
  <2>2. QED
    BY <1>2, <1>3, <2>1, TurnAdds DEF Running
<1>4. CASE ModelDrafts
  <2>1. pc = "ask" /\ pc' = "verify" /\ UNCHANGED <<rejected, feedback, executions>>
    BY <1>4 DEF ModelDrafts
  <2>2. Len(history') = Len(history) + 1 /\ Adds({Len(history) + 1}, {}, {}, compactions)
    BY <1>4, DraftAdds
  <2>3. \A i \in ToSet(rejected) : i \in DOMAIN history
    BY <2>1 DEF ConvInv, Running, OfKind
  <2>4. \A i \in ToSet(rejected)' : i < Len(history')
    <3>1. ToSet(rejected)' = ToSet(rejected)
      BY <2>1 DEF ToSet
    <3>2. QED
      BY <1>1, <2>1, <2>2, <2>3, <3>1 DEF Running
  <2>5. QED
    BY <2>1, <2>2, <2>4 DEF DropInv, ApprovedDraftStandsAlone, Adds, Increasing, Running
<1>5. CASE ModelFinishesEmpty
  <2>1. pc = "ask" /\ pc' \in {"ask", "failed"} /\ UNCHANGED <<rejected, feedback, executions>>
    BY <1>5 DEF ModelFinishesEmpty
  <2>2. CASE pc' = "ask"
    BY <1>2, <1>5, <2>1, <2>2, EmptyAdds DEF Running
  <2>3. CASE pc' = "failed"
    BY <2>1, <2>3 DEF DropInv, ApprovedDraftStandsAlone, Increasing, Running
  <2>4. QED
    BY <2>1, <2>2, <2>3
<1>6. CASE BlockTool \/ ExecuteTool
  <2>1. /\ pc = "tools" /\ pc' = "tools" /\ UNCHANGED <<rejected, feedback>>
        /\ \E x : executions' = Append(executions, x)
    BY <1>6 DEF BlockTool, ExecuteTool, Record
  <2>2. Len(executions') = Len(executions) + 1
    BY <2>1
  <2>3. OfKind("feedback")' = OfKind("feedback") /\ OfKind("tool")' = OfKind("tool") \cup {Len(history) + 1}
    BY <1>6, CallAdds DEF Adds
  <2>4. Cardinality(OfKind("tool"))' = Cardinality(OfKind("tool")) + 1
    BY <1>1, <2>1, <2>3, CountOne DEF Running
  <2>5. QED
    BY <2>1, <2>2, <2>3, <2>4 DEF DropInv, ApprovedDraftStandsAlone, Increasing, Running
<1>7. CASE EndRound
  <2>1. pc = "tools" /\ pc' = "ask" /\ UNCHANGED <<rejected, feedback, executions>>
    BY <1>7 DEF EndRound
  <2>2. QED
    BY <1>2, <1>7, <2>1, NoticesAdd DEF Running
<1>8. CASE VerifierApproves
  <2>1. pc' = "accepted" /\ UNCHANGED rejected
    BY <1>8 DEF VerifierApproves
  <2>2. DropInv'
    BY <2>1 DEF DropInv, Increasing, Running
  <2>3. QED
    BY <1>8, <2>2, ApproveDrops
<1>9. CASE VerifierRejects
  <2>1. /\ pc = "verify" /\ rejected' = Append(rejected, Len(history)) /\ UNCHANGED executions
        /\ \/ /\ history' = Append(history, Message("feedback"))
              /\ feedback' = Append(feedback, Len(history) + 1) /\ pc' = "ask"
           \/ pc' = "failed"
    BY <1>9 DEF VerifierRejects, tooling
  <2>2. Increasing(rejected')
    <3>1. /\ Len(rejected) \in Nat /\ DOMAIN rejected = 1 .. Len(rejected) /\ Len(history) \in Nat
          /\ DOMAIN rejected' = 1 .. Len(rejected) + 1 /\ rejected'[Len(rejected) + 1] = Len(history)
          /\ \A i \in 1 .. Len(rejected) : rejected'[i] = rejected[i]
      BY <1>1, <2>1 DEF Running
    <3>2. \A i \in 1 .. Len(rejected) : rejected[i] < Len(history)
      BY <2>1, <3>1 DEF DropInv, ToSet
    <3>3. \A i, j \in 1 .. Len(rejected) : i < j => rejected[i] < rejected[j]
      BY <3>1 DEF DropInv, Increasing
    <3>4. QED
      BY <3>1, <3>2, <3>3 DEF Increasing
  <2>3. CASE pc' = "failed"
    BY <2>2, <2>3 DEF DropInv, ApprovedDraftStandsAlone, Running, Increasing
  <2>4. CASE /\ history' = Append(history, Message("feedback"))
             /\ feedback' = Append(feedback, Len(history) + 1) /\ pc' = "ask"
    <3>1. OfKind("tool")' = OfKind("tool") /\ OfKind("feedback")' = OfKind("feedback") \cup {Len(history) + 1}
      BY <2>1, <2>4, FeedbackAdds DEF Adds
    <3>2. Cardinality(OfKind("feedback"))' = Cardinality(OfKind("feedback")) + 1
      BY <1>1, <2>1, <3>1, CountOne DEF Running
    <3>3. Len(feedback') = Len(feedback) + 1
      BY <1>1, <2>4
    <3>4. QED
      BY <2>1, <2>2, <2>4, <3>1, <3>2, <3>3 DEF DropInv, ApprovedDraftStandsAlone, Running, Increasing
  <2>5. QED
    BY <2>1, <2>3, <2>4
<1>10. CASE RunFails
  BY <1>10 DEF RunFails, DropInv, ApprovedDraftStandsAlone, Running, conversation, Increasing
<1>11. CASE UNCHANGED vars
  <2>1. UNCHANGED <<pc, history, rejected, feedback, executions>>
    BY <1>11 DEF vars, conversation, tooling
  <2>2. QED
    BY <2>1 DEF DropInv, ApprovedDraftStandsAlone, OfKind, ToSet, Increasing
<1>12. QED
  BY <1>3, <1>4, <1>5, <1>6, <1>7, <1>8, <1>9, <1>10, <1>11 DEF Next

\* A fresh run holds neither feedback nor tool results.
LEMMA DropInit == Init => DropInv /\ ApprovedDraftStandsAlone
<1> SUFFICES ASSUME Init PROVE DropInv /\ ApprovedDraftStandsAlone
  OBVIOUS
<1>1. /\ pc = "ask" /\ history = <<Message("request")>> /\ rejected = <<>> /\ feedback = <<>>
      /\ executions = <<>>
  BY DEF Init
<1>2. OfKind("feedback") = {} /\ OfKind("tool") = {}
  BY <1>1 DEF OfKind, Message
<1>3. Cardinality(OfKind("feedback")) = Len(feedback) /\ Cardinality(OfKind("tool")) = Len(executions)
  <2>1. Len(feedback) = 0 /\ Len(executions) = 0
    BY <1>1
  <2>2. QED
    BY <1>2, <2>1, FS_EmptySet
<1>4. Increasing(rejected)
  BY <1>1 DEF Increasing
<1>5. QED
  BY <1>1, <1>3, <1>4 DEF DropInv, ApprovedDraftStandsAlone

\* However many drafts were rejected, with whatever tool results, feedback and
\* notices between them: an accepted run returns the approved draft alone, as its
\* last message, and no other message is lost when the rejected ones are taken out.
THEOREM ApprovedDraftsStandAlone == Spec => []ApprovedDraftStandsAlone
BY IInvInit, IInvStep, ConvInit, ConvStep, DropInit, DropStep, PTL DEF Spec

-----------------------------------------------------------------------------
(* Types *)

\* What TypeOK says beyond the invariants so far.
RestTyped ==
    /\ pc \in {"ask", "tools", "verify", "accepted", "failed"}
    /\ pc = "accepted" => history \in Seq(Messages)
    /\ rejected \in Seq(Nat)
    /\ compactions \subseteq Nat /\ shown \subseteq Nat
    /\ prompt \in [messages : SUBSET Nat, correction : Nat]
    /\ activated \subseteq Tools /\ exposed \subseteq Tools
    /\ observed \in Seq([call : Calls, ok : BOOLEAN, content : Contents])
    /\ sameRounds.count \in Nat /\ unchanged \in Nat /\ reported \in Nat

\* The last of a list of indices, if any.
LEMMA LastIndex ==
    ASSUME NEW s \in Seq(Nat)
    PROVE  (IF s = <<>> THEN 0 ELSE Last(s)) \in Nat
<1> SUFFICES ASSUME s # <<>> PROVE s[Len(s)] \in Nat
  BY DEF Last
<1>1. Len(s) \in 1 .. Len(s)
  OBVIOUS
<1>2. QED
  BY <1>1

\* The prompt, and what its answer adds to the messages shown.
LEMMA RespondTyped ==
    ASSUME history \in Seq(Messages), feedback \in Seq(Nat), shown \subseteq Nat,
           activated \subseteq Tools, NEW ms, Respond(ms)
    PROVE  /\ prompt' \in [messages : SUBSET Nat, correction : Nat]
           /\ shown' \subseteq Nat /\ exposed' \subseteq Tools /\ compactions' = {}
<1>1. DOMAIN history \subseteq Nat
  OBVIOUS
<1>2. Prompt \in [messages : SUBSET Nat, correction : Nat] /\ Prompt.messages \subseteq Nat
  BY <1>1, LastIndex DEF Prompt, NewestFeedback
<1>3. QED
  BY <1>2 DEF Respond

\* A tool call, refused or made.
LEMMA CallTyped ==
    ASSUME IInv, ExecInv, RestTyped, BlockTool \/ ExecuteTool
    PROVE  RestTyped'
<1>0. pc = "tools" /\ calls # <<>> /\ calls \in Seq(Calls)
  BY DEF BlockTool, ExecuteTool, ExecInv
<1>1. /\ pc = "tools" /\ round \in Nat /\ history \in Seq(Messages) /\ Len(history) + 1 \in Nat
      /\ Head(calls) \in Calls
  <2>1. Head(calls) \in Calls
    BY <1>0
  <2>2. round \in Nat /\ history \in Seq(Messages)
    BY <1>0 DEF IInv, HistoryInv, RoundInv
  <2>3. QED
    BY <1>0, <2>1, <2>2
<1>2. PICK x \in Executions :
          Record(x) /\ (activated' = activated \/ (ToolOf[x.call] = Manual /\ x.ok
                                                   /\ x \in Outcomes(Head(calls)) /\ x.call = Head(calls)
                                                   /\ activated' = activated \cup Requested[x.call]))
  <2>1. CASE BlockTool
    <3>1. Failure(Head(calls), "blocked", FALSE) \in Executions
      BY <1>1 DEF Failure, Execution, Executions, Contents, Errors
    <3>2. QED
      BY <2>1, <3>1 DEF BlockTool
  <2>2. CASE ExecuteTool
    <3>1. PICK x \in Outcomes(Head(calls)) :
             /\ Record(x)
             /\ activated' = IF ToolOf[x.call] = Manual /\ x.ok
                               THEN activated \cup Requested[x.call] ELSE activated
      BY <2>2 DEF ExecuteTool
    <3>2. x \in Executions /\ x.call = Head(calls)
      BY <1>1, OutcomeShape
    <3>3. QED
      BY <3>1, <3>2
  <2>3. QED
    BY <2>1, <2>2
<1>3. activated' \subseteq Tools
  <2>1. CASE activated' = activated
    BY <2>1 DEF RestTyped
  <2>2. CASE /\ ToolOf[x.call] = Manual /\ x.ok
             /\ x \in Outcomes(Head(calls)) /\ x.call = Head(calls)
             /\ activated' = activated \cup Requested[x.call]
    <3>1. Manual \notin Tools
      BY ToolsAssumption
    <3>2. Requested[x.call] \subseteq Tools
      BY <2>2, <3>1 DEF Outcomes, Failure, Execution
    <3>3. QED
      BY <2>2, <3>2 DEF RestTyped
  <2>3. QED
    BY <1>2, <2>1, <2>2
<1>4. observed' \in Seq([call : Calls, ok : BOOLEAN, content : Contents])
  <2>1. [call |-> x.call, ok |-> x.ok, content |-> x.content]
            \in [call : Calls, ok : BOOLEAN, content : Contents]
    BY DEF Executions
  <2>2. QED
    BY <1>2, <2>1 DEF Record, RestTyped
<1>5. compactions' \subseteq Nat
  <2>1. compactions' \in {compactions, compactions \cup {Len(history) + 1}}
    BY <1>2 DEF Record
  <2>2. QED
    BY <1>1, <2>1 DEF RestTyped
<1>6. UNCHANGED <<pc, rejected, shown, prompt, exposed, sameRounds, unchanged, reported>>
  BY <1>2 DEF Record, verification
<1>7. QED
  BY <1>1, <1>3, <1>4, <1>5, <1>6 DEF RestTyped

\* Every step keeps these types.
LEMMA RestTypedStep ==
    IInv /\ ConvInv /\ DropInv /\ ExecInv /\ RestTyped /\ [Next]_vars => RestTyped'
<1> SUFFICES ASSUME IInv, ConvInv, DropInv, ExecInv, RestTyped, [Next]_vars
             PROVE  RestTyped'
  OBVIOUS
<1>1. feedback \in Seq(Nat) /\ (pc # "accepted" => history \in Seq(Messages) /\ Len(history) \in Nat)
  BY DEF IInv, HistoryInv, BudgetInv
<1>2. LastRejected \in Nat
  BY LastIndex DEF LastRejected, RestTyped
<1>3. CASE ModelCallsTools
  <2>1. /\ pc = "ask" /\ pc' = "tools" /\ Respond(<<Message("turn")>>) /\ observed' = <<>>
        /\ UNCHANGED <<rejected, activated, sameRounds, unchanged, reported>>
    BY <1>3 DEF ModelCallsTools, guard, verification
  <2>2. QED
    BY <1>1, <2>1, RespondTyped DEF RestTyped
<1>4. CASE ModelDrafts
  <2>1. /\ pc = "ask" /\ pc' = "verify" /\ Respond(<<Message("draft")>>)
        /\ UNCHANGED <<rejected, activated, observed, sameRounds, unchanged, reported>>
    BY <1>4 DEF ModelDrafts, guard, verification
  <2>2. QED
    BY <1>1, <2>1, RespondTyped DEF RestTyped
<1>5. CASE ModelFinishesEmpty
  <2>1. /\ pc = "ask" /\ pc' \in {"ask", "failed"} /\ reported' \in Nat
        /\ \E ms : Respond(ms)
        /\ UNCHANGED <<rejected, activated, observed, sameRounds, unchanged>>
    BY <1>2, <1>5 DEF ModelFinishesEmpty, guard, verification, RestTyped
  <2>2. QED
    BY <1>1, <2>1, RespondTyped DEF RestTyped
<1>6. CASE BlockTool \/ ExecuteTool
  BY <1>6, CallTyped
<1>7. CASE EndRound
  <2>1. /\ pc' = "ask" /\ observed' = <<>> /\ sameRounds' = NextSameRounds
        /\ UNCHANGED <<rejected, compactions, prompt, shown, activated, exposed, unchanged, reported>>
    BY <1>7 DEF EndRound, verification
  <2>2. sameRounds'.count \in Nat
    BY <2>1 DEF NextSameRounds, RestTyped
  <2>3. QED
    BY <2>1, <2>2 DEF RestTyped
<1>8. CASE VerifierApproves
  <2>1. /\ pc' = "accepted"
        /\ UNCHANGED <<rejected, compactions, prompt, shown, activated, exposed, observed,
                       sameRounds, unchanged, reported>>
    BY <1>8 DEF VerifierApproves, tooling, guard, verification
  <2>2. history' \in Seq(Messages)
    BY <1>8, ApproveDrops
  <2>3. QED
    BY <2>1, <2>2 DEF RestTyped
<1>9. CASE VerifierRejects
  <2>1. /\ pc = "verify" /\ pc' \in {"ask", "failed"} /\ rejected' = Append(rejected, Len(history))
        /\ reported' \in {reported, Len(history)} /\ unchanged' \in {unchanged + 1, 1, 0}
        /\ UNCHANGED <<compactions, prompt, shown, activated, exposed, observed, sameRounds>>
    BY <1>9 DEF VerifierRejects, CountEvidence, tooling, guard
  <2>2. rejected' \in Seq(Nat)
    BY <1>1, <2>1 DEF RestTyped
  <2>3. QED
    BY <1>1, <2>1, <2>2 DEF RestTyped
<1>10. CASE RunFails
  <2>1. /\ pc \in {"ask", "tools", "verify"} /\ pc' = "failed" /\ reported' \in {Len(history), LastRejected}
        /\ UNCHANGED <<rejected, compactions, prompt, shown, activated, exposed, observed,
                       sameRounds, unchanged>>
    BY <1>10 DEF RunFails, conversation, tooling, guard, verification
  <2>2. QED
    BY <1>1, <1>2, <2>1 DEF RestTyped
<1>11. CASE UNCHANGED vars
  BY <1>11 DEF vars, conversation, tooling, guard, verification, RestTyped
<1>12. QED
  BY <1>3, <1>4, <1>5, <1>6, <1>7, <1>8, <1>9, <1>10, <1>11 DEF Next

\* The variables of a run keep their types, for any tools and limits, also when the
\* rejected drafts have left the history of an accepted one.
THEOREM TypeCorrect == Spec => []TypeOK
<1>1. Init => RestTyped
  BY DEF Init, RestTyped
<1>2. IInv /\ ExecInv /\ RestTyped => TypeOK
  <2> SUFFICES ASSUME IInv, ExecInv, RestTyped PROVE TypeOK
    OBVIOUS
  <2>1. history \in Seq(Messages)
    BY DEF IInv, HistoryInv, RestTyped
  <2>2. /\ round \in Nat /\ feedback \in Seq(Nat) /\ notices \subseteq {"blocked", "warning"}
        /\ retries \in [Budgets -> Nat] /\ emptyRetries \in Nat /\ toolRounds \in Nat
    BY DEF IInv, HistoryInv, BudgetInv, RoundInv
  <2>3. QED
    BY <2>1, <2>2 DEF TypeOK, RestTyped, ExecInv, Streaks
<1>3. WarrantInv => ExecInv
  BY DEF WarrantInv
<1>4. QED
  BY <1>1, <1>2, <1>3, IInvInit, IInvStep, ConvInit, ConvStep, WarrantInit, WarrantStep,
     DropInit, DropStep, RestTypedStep, PTL DEF Spec

-----------------------------------------------------------------------------
(* The verifier whose verdicts the loop acts on *)

Validated(s) == \E i \in DOMAIN events : events[i][1] = "validated" /\ events[i][2] = s

\* The reviews that have been received when a stage is reached; a call that is
\* over takes no further step.
StageInv ==
    /\ stage # "over" => outcome = "open" /\ issues = {}
    /\ awaiting => stage \in {"factual", "quality"}
    /\ stage \in {"quality", "decision"} => factual \in FactualReviews /\ Validated("factual")
    /\ stage \in {"factual", "quality"} => quality = NoReview
    /\ stage = "quality" => QualityEnabled /\ FactualPass(factual)
    /\ stage = "decision" =>
          IF QualityEnabled /\ FactualPass(factual)
            THEN quality \in QualityReviews /\ Validated("quality")
            ELSE quality = NoReview

\* A validated review puts its stage behind the call, and requests are made for
\* the present stage only.
EventInv ==
    /\ VerdictNotReRolled
    /\ stage = "factual" => ~Validated("factual") /\ ~Validated("quality")
    /\ stage = "quality" => ~Validated("quality")

VerdictInv == VerifierTypeOK /\ StageInv /\ EventInv /\ ApprovalRestsOnReviews

-----------------------------------------------------------------------------
\* One more event in the audit log.
LEMMA AppendEvent ==
    ASSUME VerifierTypeOK, NEW e \in Events, events' = Append(events, e)
    PROVE  /\ events' \in Seq(Events)
           /\ Len(events') = Len(events) + 1
           /\ DOMAIN events' = 1 .. Len(events) + 1
           /\ DOMAIN events = 1 .. Len(events)
           /\ Len(events) \in Nat
           /\ \A i \in 1 .. Len(events) : events'[i] = events[i]
           /\ events'[Len(events) + 1] = e
BY DEF VerifierTypeOK

\* What has been validated stays validated, and e may add to it.
LEMMA ValidatedStep ==
    ASSUME VerifierTypeOK, NEW e \in Events, events' = Append(events, e), NEW s
    PROVE  Validated(s)' <=> Validated(s) \/ (e[1] = "validated" /\ e[2] = s)
<1>1. /\ DOMAIN events' = 1 .. Len(events) + 1
      /\ DOMAIN events = 1 .. Len(events)
      /\ Len(events) \in Nat
      /\ \A i \in 1 .. Len(events) : events'[i] = events[i]
      /\ events'[Len(events) + 1] = e
  BY AppendEvent
<1>2. ASSUME Validated(s)' PROVE Validated(s) \/ (e[1] = "validated" /\ e[2] = s)
  <2>1. PICK i \in DOMAIN events' : events'[i][1] = "validated" /\ events'[i][2] = s
    BY <1>2 DEF Validated
  <2>2. CASE i = Len(events) + 1
    BY <1>1, <2>1, <2>2
  <2>3. CASE i \in 1 .. Len(events)
    BY <1>1, <2>1, <2>3 DEF Validated
  <2>4. QED
    BY <1>1, <2>1, <2>2, <2>3
<1>3. ASSUME Validated(s) PROVE Validated(s)'
  <2>1. PICK i \in DOMAIN events : events[i][1] = "validated" /\ events[i][2] = s
    BY <1>3 DEF Validated
  <2>2. QED
    BY <1>1, <2>1 DEF Validated
<1>4. ASSUME e[1] = "validated", e[2] = s PROVE Validated(s)'
  <2>1. Len(events) + 1 \in DOMAIN events'
    BY <1>1
  <2>2. QED
    BY <1>1, <1>4, <2>1 DEF Validated
<1>5. QED
  BY <1>2, <1>3, <1>4

\* No verdict is re-rolled by an event that is no request, or that is one for a
\* stage which nothing has validated.
LEMMA NotReRolledKept ==
    ASSUME VerifierTypeOK, VerdictNotReRolled,
           NEW e \in Events, events' = Append(events, e),
           e[1] # "request" \/ ~Validated(e[2])
    PROVE  VerdictNotReRolled'
<1>1. /\ DOMAIN events' = 1 .. Len(events) + 1
      /\ DOMAIN events = 1 .. Len(events)
      /\ Len(events) \in Nat
      /\ \A i \in 1 .. Len(events) : events'[i] = events[i]
      /\ events'[Len(events) + 1] = e
  BY AppendEvent
<1> SUFFICES ASSUME NEW i \in DOMAIN events', NEW k \in DOMAIN events',
                    i < k, events'[i][1] = "validated", events'[k][1] = "request"
             PROVE  events'[i][2] # events'[k][2]
  BY DEF VerdictNotReRolled
<1>2. i \in 1 .. Len(events) /\ events'[i] = events[i]
  BY <1>1
<1>3. CASE k \in 1 .. Len(events)
  BY <1>1, <1>2, <1>3 DEF VerdictNotReRolled
<1>4. CASE k = Len(events) + 1
  <2>1. e[1] = "request" /\ ~Validated(e[2])
    BY <1>1, <1>4
  <2>2. events[i][2] # e[2]
    BY <1>1, <1>2, <2>1 DEF Validated
  <2>3. QED
    BY <1>1, <1>2, <1>4, <2>2
<1>5. QED
  BY <1>1, <1>3, <1>4

-----------------------------------------------------------------------------
\* A call that raises is over, with no verdict.
LEMMA RaiseKeeps ==
    ASSUME VerdictInv, Raise, VerdictNotReRolled', events' \in Seq(Events)
    PROVE  VerdictInv'
<1>1. VerifierTypeOK'
  BY DEF VerdictInv, VerifierTypeOK, Raise
<1>2. StageInv'
  BY DEF Raise, StageInv
<1>3. EventInv'
  BY DEF Raise, EventInv
<1>4. ApprovalRestsOnReviews'
  BY DEF Raise, ApprovalRestsOnReviews
<1>5. QED
  BY <1>1, <1>2, <1>3, <1>4 DEF VerdictInv

\* A fresh verification has no review and no event.
LEMMA VerdictInvInit == VerifierInit => VerdictInv
<1> SUFFICES ASSUME VerifierInit PROVE VerdictInv
  OBVIOUS
<1>1. VerifierTypeOK
  <2>1. attempt \in 1 .. MaxAttempts
    BY FinalVerifierAssumption DEF VerifierInit
  <2>2. events \in Seq(Events)
    BY DEF VerifierInit
  <2>3. QED
    BY <2>1, <2>2 DEF VerifierInit, VerifierTypeOK
<1>2. events = <<>> /\ DOMAIN events = {} /\ \A s : ~Validated(s)
  BY DEF VerifierInit, Validated
<1>3. StageInv
  BY DEF VerifierInit, StageInv
<1>4. EventInv
  BY <1>2 DEF VerifierInit, EventInv, VerdictNotReRolled
<1>5. ApprovalRestsOnReviews
  BY DEF VerifierInit, ApprovalRestsOnReviews
<1>6. QED
  BY <1>1, <1>3, <1>4, <1>5 DEF VerdictInv

-----------------------------------------------------------------------------
\* Sending a request, and failing to get an answer.
LEMMA RequestKeeps == VerdictInv /\ Request => VerdictInv'
<1> SUFFICES ASSUME VerdictInv, Request PROVE VerdictInv'
  OBVIOUS
<1> DEFINE e == <<"request", stage, attempt>>
<1>1. e \in Events /\ events' = Append(events, e) /\ VerifierTypeOK
  BY DEF Request, VerdictInv, VerifierTypeOK, Events
<1>2. VerifierTypeOK'
  <2>1. events' \in Seq(Events)
    BY <1>1, AppendEvent
  <2>2. QED
    BY <1>1, <2>1 DEF Request, VerifierTypeOK
<1>3. \A s : Validated(s)' <=> Validated(s)
  BY <1>1, ValidatedStep
<1>4. StageInv'
  BY <1>3 DEF Request, StageInv, VerdictInv, FactualPass, EvidenceVerdict
<1>5. EventInv'
  <2>1. ~Validated(e[2])
    BY DEF Request, VerdictInv, EventInv
  <2>2. VerdictNotReRolled'
    BY <1>1, <2>1, NotReRolledKept DEF VerdictInv, EventInv
  <2>3. QED
    BY <1>3, <2>2 DEF Request, VerdictInv, EventInv
<1>6. ApprovalRestsOnReviews'
  BY DEF Request, VerdictInv, StageInv, ApprovalRestsOnReviews
<1>7. QED
  BY <1>2, <1>4, <1>5, <1>6 DEF VerdictInv

\* A request that fails, to be repeated or not, delivers no review.
LEMMA RetryKeeps == VerdictInv /\ (Retry \/ GiveUp) => VerdictInv'
<1> SUFFICES ASSUME VerdictInv, Retry \/ GiveUp PROVE VerdictInv'
  OBVIOUS
<1> DEFINE e == <<"error", stage, attempt>>
<1>1. e \in Events /\ events' = Append(events, e) /\ VerifierTypeOK
  BY DEF Retry, GiveUp, VerdictInv, StageInv, VerifierTypeOK, Events
<1>2. events' \in Seq(Events)
  BY <1>1, AppendEvent
<1>3. \A s : Validated(s)' <=> Validated(s)
  BY <1>1, ValidatedStep
<1>4. VerdictNotReRolled'
  BY <1>1, NotReRolledKept DEF VerdictInv, EventInv
<1>5. CASE Raise
  BY <1>2, <1>4, <1>5, RaiseKeeps
<1>6. CASE /\ attempt < MaxAttempts /\ attempt' = attempt + 1 /\ awaiting /\ awaiting' = FALSE
           /\ UNCHANGED <<flagged, stage, factual, quality, outcome, issues>>
  <2>1. VerifierTypeOK'
    <3>1. attempt' \in 1 .. MaxAttempts
      BY <1>1, <1>6, FinalVerifierAssumption DEF VerifierTypeOK
    <3>2. QED
      BY <1>1, <1>2, <1>6, <3>1 DEF VerifierTypeOK
  <2>2. StageInv'
    BY <1>3, <1>6 DEF StageInv, VerdictInv, FactualPass, EvidenceVerdict
  <2>3. EventInv'
    BY <1>3, <1>4, <1>6 DEF VerdictInv, EventInv
  <2>4. ApprovalRestsOnReviews'
    BY <1>6 DEF VerdictInv, StageInv, ApprovalRestsOnReviews
  <2>5. QED
    BY <2>1, <2>2, <2>3, <2>4 DEF VerdictInv
<1>7. QED
  BY <1>5, <1>6 DEF Retry, GiveUp

\* A valid factual review.
LEMMA FactualKeeps == VerdictInv /\ FactualReview => VerdictInv'
<1> SUFFICES ASSUME VerdictInv, FactualReview PROVE VerdictInv'
  OBVIOUS
<1> DEFINE e == <<"validated", stage, attempt>>
<1>1. e \in Events /\ events' = Append(events, e) /\ VerifierTypeOK /\ e[1] = "validated" /\ e[2] = "factual"
  BY DEF FactualReview, VerdictInv, VerifierTypeOK, Events
<1>2. VerifierTypeOK'
  <2>1. events' \in Seq(Events)
    BY <1>1, AppendEvent
  <2>2. attempt' \in 1 .. MaxAttempts /\ stage' \in {"quality", "decision"}
    BY <1>1, FinalVerifierAssumption DEF FactualReview, VerifierTypeOK
  <2>3. QED
    BY <1>1, <2>1, <2>2 DEF FactualReview, VerifierTypeOK
<1>3. Validated("factual")' /\ (Validated("quality")' <=> Validated("quality"))
  BY <1>1, ValidatedStep
<1>4. StageInv'
  BY <1>3 DEF FactualReview, StageInv, VerdictInv, FactualPass, EvidenceVerdict
<1>5. EventInv'
  <2>1. VerdictNotReRolled'
    BY <1>1, NotReRolledKept DEF VerdictInv, EventInv
  <2>2. QED
    BY <1>3, <2>1 DEF FactualReview, VerdictInv, EventInv
<1>6. ApprovalRestsOnReviews'
  BY DEF FactualReview, VerdictInv, StageInv, ApprovalRestsOnReviews
<1>7. QED
  BY <1>2, <1>4, <1>5, <1>6 DEF VerdictInv

\* A valid quality review.
LEMMA QualityKeeps == VerdictInv /\ QualityReview => VerdictInv'
<1> SUFFICES ASSUME VerdictInv, QualityReview PROVE VerdictInv'
  OBVIOUS
<1> DEFINE e == <<"validated", stage, attempt>>
<1>1. e \in Events /\ events' = Append(events, e) /\ VerifierTypeOK /\ e[1] = "validated" /\ e[2] = "quality"
  BY DEF QualityReview, VerdictInv, VerifierTypeOK, Events
<1>2. VerifierTypeOK'
  <2>1. events' \in Seq(Events)
    BY <1>1, AppendEvent
  <2>2. QED
    BY <1>1, <2>1 DEF QualityReview, VerifierTypeOK
<1>3. Validated("quality")' /\ (Validated("factual")' <=> Validated("factual"))
  BY <1>1, ValidatedStep
<1>4. StageInv'
  BY <1>3 DEF QualityReview, StageInv, VerdictInv, FactualPass, EvidenceVerdict
<1>5. EventInv'
  <2>1. VerdictNotReRolled'
    BY <1>1, NotReRolledKept DEF VerdictInv, EventInv
  <2>2. QED
    BY <2>1 DEF QualityReview, EventInv
<1>6. ApprovalRestsOnReviews'
  BY DEF QualityReview, VerdictInv, StageInv, ApprovalRestsOnReviews
<1>7. QED
  BY <1>2, <1>4, <1>5, <1>6 DEF VerdictInv

\* The decision.
LEMMA DecideKeeps == VerdictInv /\ Decide => VerdictInv'
<1> SUFFICES ASSUME VerdictInv, Decide PROVE VerdictInv'
  OBVIOUS
<1> DEFINE e == <<"decision", "over", attempt>>
<1>1. e \in Events /\ events' = Append(events, e) /\ VerifierTypeOK /\ e[1] = "decision"
  BY DEF Decide, VerdictInv, VerifierTypeOK, Events
<1>2. events' \in Seq(Events) /\ Len(events') \in DOMAIN events' /\ events'[Len(events')] = e
  BY <1>1, AppendEvent
<1>3. VerifierTypeOK'
  <2>1. issues' \subseteq {"numeric", "scope", "claim", "evidence", "action", "alignment", "coverage"}
    <3>1. factual \in FactualReviews
      BY DEF Decide, VerdictInv, StageInv
    <3>2. QED
      BY <3>1 DEF Decide, Defects, FactualDefects, QualityDefects, FactualReviews
  <2>2. QED
    BY <1>1, <1>2, <2>1 DEF Decide, VerifierTypeOK
<1>4. StageInv'
  BY DEF Decide, StageInv, VerdictInv
<1>5. EventInv'
  <2>1. VerdictNotReRolled'
    BY <1>1, NotReRolledKept DEF VerdictInv, EventInv
  <2>2. QED
    BY <2>1 DEF Decide, EventInv
<1>6. ApprovalRestsOnReviews'
  <2> SUFFICES ASSUME issues' = {} PROVE ApprovalRestsOnReviews'
    BY DEF Decide, ApprovalRestsOnReviews
  <2>1. factual \in FactualReviews /\ Validated("factual")'
    BY <1>1, ValidatedStep DEF Decide, VerdictInv, StageInv
  <2>2. FactualDefects(factual) = {} /\ QualityDefects(quality) = {}
    BY DEF Decide, Defects
  <2>3. /\ factual.received /\ factual.unsupported = {} /\ factual.evidence # "unsupported"
        /\ factual.action \notin {"unverified", "contradicted"}
        /\ flagged => factual.numeric = "supported"
    <3>1. factual.received
      BY <2>1 DEF FactualReviews
    <3>2. factual.unsupported = {} /\ (flagged => factual.numeric = "supported")
      BY <2>2 DEF FactualDefects
    <3>3. factual.evidence # "unsupported"
      BY <2>2, <3>2 DEF FactualDefects
    <3>4. factual.action \notin {"unverified", "contradicted"}
      BY <2>2 DEF FactualDefects
    <3>5. QED
      BY <3>1, <3>2, <3>3, <3>4
  <2>4. QualityEnabled /\ factual.evidence = "supported" => FactualPass(factual)
    <3>1. factual.action \in {"not_applicable", "verified", "unverified", "contradicted"}
      BY <2>1 DEF FactualReviews
    <3>2. QED
      BY <2>3, <3>1 DEF FactualPass, EvidenceVerdict
  <2>5. QualityEnabled /\ FactualPass(factual) =>
            /\ quality.received /\ quality.alignment # "misaligned" /\ quality.coverage # "insufficient"
    <3> SUFFICES ASSUME QualityEnabled, FactualPass(factual)
                 PROVE  /\ quality.received
                        /\ quality.alignment # "misaligned" /\ quality.coverage # "insufficient"
      OBVIOUS
    <3>1. quality \in QualityReviews
      BY DEF Decide, VerdictInv, StageInv
    <3>2. quality.received
      BY <3>1 DEF QualityReviews
    <3>3. QED
      BY <2>2, <3>2 DEF QualityDefects
  <2>6. quality.received => Validated("quality")'
    <3>1. ~NoReview.received
      BY DEF NoReview
    <3>2. quality.received => Validated("quality")
      BY <3>1 DEF Decide, VerdictInv, StageInv
    <3>3. QED
      BY <1>1, <3>2, ValidatedStep
  <2>7. events'[Len(events')][1] = "decision"
    BY <1>1, <1>2
  <2>8. UNCHANGED <<factual, quality, flagged>>
    BY DEF Decide
  <2>9. \A s \in {"factual"} \cup {q \in {"quality"} : quality'.received} : Validated(s)'
    BY <2>1, <2>6, <2>8
  <2>10. QED
    BY <2>3, <2>4, <2>5, <2>7, <2>8, <2>9 DEF ApprovalRestsOnReviews, Validated
<1>7. QED
  BY <1>3, <1>4, <1>5, <1>6 DEF VerdictInv

\* Every step of a verification keeps the reviews with their stages.
LEMMA VerdictInvStep == VerdictInv /\ [VerifierNext]_verifierVars => VerdictInv'
<1> SUFFICES ASSUME VerdictInv, [VerifierNext]_verifierVars PROVE VerdictInv'
  OBVIOUS
<1>1. CASE ObserverFails
  <2>1. VerdictNotReRolled' /\ events' \in Seq(Events)
    BY <1>1 DEF ObserverFails, VerdictInv, EventInv, VerifierTypeOK, VerdictNotReRolled
  <2>2. QED
    BY <1>1, <2>1, RaiseKeeps DEF ObserverFails
<1>2. CASE UNCHANGED verifierVars
  BY <1>2 DEF verifierVars, VerdictInv, VerifierTypeOK, StageInv, EventInv, ApprovalRestsOnReviews,
              VerdictNotReRolled, Validated, FactualPass, EvidenceVerdict
<1>3. QED
  BY <1>1, <1>2, RequestKeeps, RetryKeeps, FactualKeeps, QualityKeeps, DecideKeeps DEF VerifierNext

\* The variables keep their types.
THEOREM VerifierTypeCorrect == VerifierSpec => []VerifierTypeOK
<1>1. VerdictInv => VerifierTypeOK
  BY DEF VerdictInv
<1>2. QED
  BY <1>1, VerdictInvInit, VerdictInvStep, PTL DEF VerifierSpec

\* No candidate is approved past a failed request, a defect or a lost log entry.
THEOREM ApprovalsRestOnReviews == VerifierSpec => []ApprovalRestsOnReviews
<1>1. VerdictInv => ApprovalRestsOnReviews
  BY DEF VerdictInv
<1>2. QED
  BY <1>1, VerdictInvInit, VerdictInvStep, PTL DEF VerifierSpec

\* A verdict that was received is never asked for again.
THEOREM VerdictsAreNotReRolled == VerifierSpec => []VerdictNotReRolled
<1>1. VerdictInv => VerdictNotReRolled
  BY DEF VerdictInv, EventInv
<1>2. QED
  BY <1>1, VerdictInvInit, VerdictInvStep, PTL DEF VerifierSpec

-----------------------------------------------------------------------------
\* The issues of a rejection are those the promise allows.
LEMMA DefectsAreRejections ==
    ASSUME VerdictInv, Decide, issues' # {}
    PROVE  issues' \in Promise!Rejections
<1>1. factual \in FactualReviews /\ issues' = FactualDefects(factual) \cup QualityDefects(quality)
  BY DEF Decide, Defects, VerdictInv, StageInv
<1>2. /\ FactualDefects(factual) \subseteq Promise!FactualIssues
      /\ QualityDefects(quality) \subseteq Promise!QualityIssues
  BY <1>1 DEF FactualDefects, QualityDefects, FactualReviews,
              Promise!FactualIssues, Promise!QualityIssues
<1>3. CASE quality.received
  <2>1. FactualPass(factual)
    BY <1>3 DEF Decide, VerdictInv, StageInv, NoReview
  <2>2. FactualDefects(factual) = {}
    BY <1>1, <2>1 DEF FactualDefects, FactualPass, EvidenceVerdict, FactualReviews
  <2>3. QED
    BY <1>1, <1>2, <2>2 DEF Promise!Rejections
<1>4. CASE ~quality.received
  <2>1. QualityDefects(quality) = {}
    BY <1>4 DEF QualityDefects
  <2>2. "evidence" \in FactualDefects(factual) => FactualDefects(factual) \cap {"scope", "claim"} = {}
    <3>1. factual.unsupported \subseteq {"scope", "claim"}
      BY <1>1 DEF FactualReviews
    <3>2. "evidence" \in FactualDefects(factual) => factual.unsupported = {}
      BY <3>1 DEF FactualDefects
    <3>3. FactualDefects(factual) \cap {"scope", "claim"} = factual.unsupported
      BY <3>1 DEF FactualDefects
    <3>4. QED
      BY <3>2, <3>3
  <2>3. issues' = FactualDefects(factual)
    BY <1>1, <2>1
  <2>4. QED
    BY <1>2, <2>2, <2>3 DEF Promise!Rejections
<1>5. QED
  BY <1>3, <1>4

\* Every step towards a verdict is one the promise allows, or none of its
\* concern.
LEMMA PromiseStep == VerdictInv /\ [VerifierNext]_verifierVars => [Promise!Next]_<<outcome, issues>>
<1> SUFFICES ASSUME VerdictInv, [VerifierNext]_verifierVars, ~UNCHANGED <<outcome, issues>> PROVE Promise!Next
  OBVIOUS
<1>1. CASE Raise /\ stage # "over"
  BY <1>1 DEF Raise, VerdictInv, StageInv, Promise!Next, Promise!Raise
<1>2. CASE Decide
  <2>1. outcome = "open"
    BY <1>2 DEF Decide, VerdictInv, StageInv
  <2>2. CASE issues' = {}
    BY <1>2, <2>1, <2>2 DEF Decide, Promise!Next, Promise!Approve
  <2>3. CASE issues' # {}
    BY <1>2, <2>1, <2>3, DefectsAreRejections DEF Decide, Promise!Next, Promise!Reject
  <2>4. QED
    BY <2>2, <2>3
<1>3. CASE Retry \/ GiveUp
  <2>1. stage # "over"
    BY <1>3 DEF Retry, GiveUp, VerdictInv, StageInv
  <2>2. Raise
    BY <1>3 DEF Retry, GiveUp
  <2>3. QED
    BY <1>1, <2>1, <2>2
<1>4. CASE ObserverFails
  BY <1>1, <1>4 DEF ObserverFails
<1>5. QED
  BY <1>2, <1>3, <1>4 DEF VerifierNext, Request, FactualReview, QualityReview, verifierVars

\* FinalVerifier implements the promise of Verdict, its fairness excepted: one
\* verdict, never withdrawn, with the issues AgentLoop counts on.
THEOREM VerifierKeepsPromiseSafely ==
    VerifierSpec => Promise!Init /\ [][Promise!Next]_<<outcome, issues>>
<1>1. VerifierInit => Promise!Init
  BY DEF VerifierInit, Promise!Init
<1>2. QED
  BY <1>1, VerdictInvInit, VerdictInvStep, PromiseStep, PTL DEF VerifierSpec

\* A rejection carries issues the promise allows.
LEMMA RejectionStep ==
    ASSUME outcome = "rejected" => issues \in Promise!Rejections,
           [Promise!Next]_<<outcome, issues>>
    PROVE  (outcome = "rejected" => issues \in Promise!Rejections)'
BY DEF Promise!Next, Promise!Approve, Promise!Reject, Promise!Raise, Promise!Rejections

\* Whatever the reviews say: when the verifier rejects a draft, there is a budget of
\* the agent loop which the correction is paid from, so no rejection is free.
THEOREM RejectionsArePaid ==
    VerifierSpec => [](outcome = "rejected" => \E b \in Budgets : BudgetOf[b] \cap issues # {})
<1> DEFINE Allowed == outcome = "rejected" => issues \in Promise!Rejections
<1>1. Promise!Init => Allowed
  BY DEF Promise!Init
<1>2. Allowed /\ [Promise!Next]_<<outcome, issues>> => Allowed'
  BY RejectionStep
<1>3. Allowed => (outcome = "rejected" => \E b \in Budgets : BudgetOf[b] \cap issues # {})
  <2>1. Promise!Rejections = Rejections
    BY DEF Promise!Rejections, Rejections, Promise!FactualIssues, FactualIssues,
           Promise!QualityIssues, QualityIssues
  <2>2. QED
    BY <2>1, EveryIssueIsPaid
<1> HIDE DEF Allowed
<1>4. QED
  BY <1>1, <1>2, <1>3, VerifierKeepsPromiseSafely, PTL
=============================================================================
