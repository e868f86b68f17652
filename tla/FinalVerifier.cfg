SPECIFICATION VerifierSpec
CONSTANTS
    MaxAttempts = 3
    QualityEnabled = TRUE
INVARIANTS
    ApprovalRestsOnReviews
    VerdictNotReRolled
PROPERTIES KeepsPromise
CHECK_DEADLOCK FALSE
