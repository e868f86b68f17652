---------------------------- MODULE FinalVerifier ----------------------------
(***************************************************************************)
(* One call of FinalGroundingVerifier.verify (mai/agent/verification.py):  *)
(* numbers of the candidate that no evidence contains are flagged without a*)
(* model, a factual review is requested from the reviewing model, an       *)
(* optional quality review after it, and the reviews are turned into       *)
(* issues.  A request can time out, lose its connection or return something*)
(* the schema refuses; the agent loop passes an observer, which writes each*)
(* event to the audit log and can raise.                                   *)
(*                                                                         *)
(* Both reviews are requested in the same way: stage names the one that is *)
(* being requested, and then the decision.  Names that AgentLoop has too   *)
(* begin with Verifier: AgentLoop_proofs is about both modules.            *)
(***************************************************************************)
EXTENDS Naturals, Sequences

CONSTANTS
    MaxAttempts,    \* requests for one review; 3 in the code
    QualityEnabled  \* MAI_ANSWER_QUALITY_REVIEW

ASSUME FinalVerifierAssumption == MaxAttempts \in Nat \ {0} /\ QualityEnabled \in BOOLEAN

VARIABLES
    flagged,    \* the candidate has numbers that occur in no evidence
    stage,      \* factual, quality, decision or over
    attempt,    \* number of the request, 1 .. MaxAttempts
    awaiting,   \* the request has been sent and not answered
    factual,    \* the validated factual review
    quality,    \* the validated quality review
    outcome,    \* open, approved, rejected or raised
    issues,
    events      \* what reached the audit log

verifierVars == <<flagged, stage, attempt, awaiting, factual, quality, outcome, issues, events>>

\* A review that has not been received.
NoReview == [received |-> FALSE]

\* A factual review by what the verdict depends on: the kinds of unsupported
\* claims it lists (scope expansions and others), and three verdicts.  The
\* schema lets the verdict on the evidence disagree with the claims.
FactualReviews ==
    [received : {TRUE},
     unsupported : SUBSET {"scope", "claim"},
     evidence : {"supported", "unsupported", "uncertain"},
     action : {"not_applicable", "verified", "unverified", "contradicted"},
     numeric : {"supported", "unsupported", "uncertain"}]

QualityReviews ==
    [received : {TRUE},
     alignment : {"aligned", "misaligned", "uncertain"},
     coverage : {"sufficient", "insufficient", "uncertain"}]

VerifierInit ==
    /\ flagged \in BOOLEAN
    /\ stage = "factual" /\ attempt = 1 /\ awaiting = FALSE
    /\ factual = NoReview /\ quality = NoReview
    /\ outcome = "open" /\ issues = {}
    /\ events = <<>>

-----------------------------------------------------------------------------
(* From reviews to issues *)

EvidenceVerdict(f) == IF f.unsupported # {} THEN "unsupported" ELSE f.evidence

\* Whether the quality review may follow.  Evidence that is merely uncertain
\* does not pass, though it is no issue either.
FactualPass(f) ==
    /\ flagged => f.numeric = "supported"
    /\ EvidenceVerdict(f) = "supported"
    /\ f.action \in {"not_applicable", "verified"}

FactualDefects(f) ==
    {i \in {"numeric"} : flagged /\ f.numeric # "supported"}
    \cup f.unsupported
    \cup {i \in {"evidence"} : f.evidence = "unsupported" /\ f.unsupported = {}}
    \cup {i \in {"action"} : f.action \in {"unverified", "contradicted"}}

\* Without a quality review the candidate counts as aligned and sufficient.
QualityDefects(q) ==
    {i \in {"alignment"} : q.received /\ q.alignment = "misaligned"}
    \cup {i \in {"coverage"} : q.received /\ q.coverage = "insufficient"}

\* A mistaken Defects that trusts evidence which is supported as a whole.
DefectsUnlessSupported(f, q) ==
    (IF f.evidence = "supported" THEN {} ELSE FactualDefects(f)) \cup QualityDefects(q)
Defects(f, q) == FactualDefects(f) \cup QualityDefects(q)

-----------------------------------------------------------------------------
(* _request_structured_review *)

Raise ==
    /\ stage' = "over"
    /\ awaiting' = FALSE
    /\ outcome' = "raised"
    /\ UNCHANGED <<flagged, attempt, factual, quality, issues>>

\* The event "request" is logged before the request is sent; an observer that
\* raises here is not caught.
Request ==
    /\ stage \in {"factual", "quality"} /\ ~awaiting
    /\ awaiting' = TRUE
    /\ events' = Append(events, <<"request", stage, attempt>>)
    /\ UNCHANGED <<flagged, stage, attempt, factual, quality, outcome, issues>>

\* A failing observer ends the call wherever it fails, and so does the
\* cancellation of the run.
ObserverFails ==
    /\ stage # "over"
    /\ Raise
    /\ UNCHANGED events

\* A time-out, a lost connection, an overloaded server or a malformed review:
\* the request is repeated, unless it was the last.
Retry ==
    /\ awaiting
    /\ events' = Append(events, <<"error", stage, attempt>>)
    /\ \/ /\ attempt < MaxAttempts
          /\ attempt' = attempt + 1
          /\ awaiting' = FALSE
          /\ UNCHANGED <<flagged, stage, factual, quality, outcome, issues>>
       \/ /\ attempt = MaxAttempts
          /\ Raise

\* Any other exception, a failing observer's included, is logged and re-raised.
GiveUp ==
    /\ awaiting
    /\ events' = Append(events, <<"error", stage, attempt>>)
    /\ Raise

-----------------------------------------------------------------------------
(* _review_final and the decision of verify *)

\* A mistaken FactualReview that asks once more for a review that rejects.
FactualReviewReRolled ==
    /\ awaiting /\ stage = "factual"
    /\ awaiting' = FALSE
    /\ factual' \in FactualReviews
    /\ events' = Append(events, <<"validated", stage, attempt>>)
    /\ IF FactualDefects(factual') # {} /\ attempt < MaxAttempts
         THEN attempt' = attempt + 1 /\ UNCHANGED stage
         ELSE stage' = "decision" /\ UNCHANGED attempt
    /\ UNCHANGED <<flagged, quality, outcome, issues>>

\* A factual review arrives that the schema accepts.
FactualReview ==
    /\ awaiting /\ stage = "factual"
    /\ awaiting' = FALSE
    /\ factual' \in FactualReviews
    /\ events' = Append(events, <<"validated", stage, attempt>>)
    /\ \/ /\ QualityEnabled /\ FactualPass(factual')
          /\ stage' = "quality" /\ attempt' = 1
       \/ /\ ~(QualityEnabled /\ FactualPass(factual'))
          /\ stage' = "decision"
          /\ UNCHANGED attempt
    /\ UNCHANGED <<flagged, quality, outcome, issues>>

QualityReview ==
    /\ awaiting /\ stage = "quality"
    /\ awaiting' = FALSE
    /\ quality' \in QualityReviews
    /\ stage' = "decision"
    /\ events' = Append(events, <<"validated", stage, attempt>>)
    /\ UNCHANGED <<flagged, attempt, factual, outcome, issues>>

\* A mistaken Decide that forgets the quality review.
DecideOnFacts ==
    /\ stage = "decision"
    /\ stage' = "over"
    /\ issues' = Defects(factual, quality)
    /\ outcome' = IF FactualDefects(factual) = {} THEN "approved" ELSE "rejected"
    /\ events' = Append(events, <<"decision", "over", attempt>>)
    /\ UNCHANGED <<flagged, attempt, awaiting, factual, quality>>
Decide ==
    /\ stage = "decision"
    /\ stage' = "over"
    /\ issues' = Defects(factual, quality)
    /\ outcome' = IF issues' = {} THEN "approved" ELSE "rejected"
    /\ events' = Append(events, <<"decision", "over", attempt>>)
    /\ UNCHANGED <<flagged, attempt, awaiting, factual, quality>>

-----------------------------------------------------------------------------
VerifierNext ==
    Request \/ ObserverFails \/ Retry \/ GiveUp \/ FactualReview \/ QualityReview \/ Decide

\* The reviewing model answers, or the adapter's time limit
\* (request_timeout_seconds, mai/llm/ollama.py) ends the request.
VerifierSpec == VerifierInit /\ [][VerifierNext]_verifierVars /\ WF_verifierVars(VerifierNext)

-----------------------------------------------------------------------------
(* Properties *)

Events ==
    {"request", "error", "validated", "decision"} \X {"factual", "quality", "over"}
        \X (1 .. MaxAttempts)

\* Every variable has its type.
VerifierTypeOK ==
    /\ flagged \in BOOLEAN /\ awaiting \in BOOLEAN
    /\ stage \in {"factual", "quality", "decision", "over"}
    /\ attempt \in 1 .. MaxAttempts
    /\ factual \in {NoReview} \cup FactualReviews
    /\ quality \in {NoReview} \cup QualityReviews
    /\ outcome \in {"open", "approved", "rejected", "raised"}
    /\ issues \subseteq {"numeric", "scope", "claim", "evidence", "action", "alignment", "coverage"}
    /\ events \in Seq(Events)

\* An approved candidate has a valid factual review that found no unsupported
\* claim, no failed action and no unsupported number, and, where the quality
\* review is enabled and the evidence was not merely uncertain, a valid quality
\* review that found no defect; and the audit log holds every review it rests on
\* and the decision: no failure to log is passed over.
ApprovalRestsOnReviews ==
    outcome = "approved" =>
        /\ factual.received
        /\ factual.unsupported = {} /\ factual.evidence # "unsupported"
        /\ factual.action \notin {"unverified", "contradicted"}
        /\ flagged => factual.numeric = "supported"
        /\ QualityEnabled /\ factual.evidence = "supported" =>
              /\ quality.received
              /\ quality.alignment # "misaligned" /\ quality.coverage # "insufficient"
        /\ \A s \in {"factual"} \cup {q \in {"quality"} : quality.received} :
              \E i \in DOMAIN events : events[i][1] = "validated" /\ events[i][2] = s
        /\ events[Len(events)][1] = "decision"

\* A valid verdict is never asked for again: retries only repair infrastructure
\* and formatting, they do not re-roll a verdict.
VerdictNotReRolled ==
    \A i, k \in DOMAIN events :
        (i < k /\ events[i][1] = "validated" /\ events[k][1] = "request")
            => events[i][2] # events[k][2]

\* The caller gets one verdict, of the shape it counts on, and always gets it
\* (mai/agent/loop.py sorts the issues into its correction budgets).
Promise == INSTANCE Verdict
KeepsPromise == Promise!Spec
=============================================================================
