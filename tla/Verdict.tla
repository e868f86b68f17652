------------------------------- MODULE Verdict -------------------------------
(***************************************************************************)
(* What FinalGroundingVerifier.verify (mai/agent/verification.py) promises *)
(* its caller: one verdict on the candidate, which is an approval, a       *)
(* rejection with at least one issue, or an exception.  AgentLoop builds on*)
(* this promise; FinalVerifier shows how it is kept.                       *)
(***************************************************************************)
EXTENDS VerificationIssues

VARIABLES
    outcome,    \* open, approved, rejected or raised
    issues

Init == outcome = "open" /\ issues = {}

Approve == outcome' = "approved" /\ issues' = {}
Reject == outcome' = "rejected" /\ issues' \in Rejections
Raise == outcome' = "raised" /\ issues' = {}

Next == outcome = "open" /\ (Approve \/ Reject \/ Raise)

Spec == Init /\ [][Next]_<<outcome, issues>> /\ WF_<<outcome, issues>>(Next)
=============================================================================
