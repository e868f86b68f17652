-------------------------- MODULE VerificationIssues --------------------------
(***************************************************************************)
(* The issues a candidate answer can be rejected with                      *)
(* (mai/agent/verification.py), by their codes in the source:              *)
(* numeric (numeric_grounding_failed), scope (evidence_scope_expansion),   *)
(* claim (claim_grounding_failed), evidence (evidence_grounding_failed),   *)
(* action (action_outcome_unverified or action_outcome_contradicted),      *)
(* alignment (task_alignment_failed), coverage                             *)
(* (evidence_coverage_insufficient).                                       *)
(***************************************************************************)
FactualIssues == {"numeric", "scope", "claim", "evidence", "action"}
QualityIssues == {"alignment", "coverage"}

\* The verdict "unsupported" without an unsupported claim is an issue of its
\* own; with one, the claims are.  The quality of a candidate is looked at only
\* when nothing factual is wrong with it.
Rejections ==
    {I \in SUBSET FactualIssues :
        I # {} /\ ("evidence" \in I => I \cap {"scope", "claim"} = {})}
    \cup {I \in SUBSET QualityIssues : I # {}}
=============================================================================
