SPECIFICATION Spec
CONSTANTS
    Tools = {"web_search"}
    Calls = {"activate", "overreach", "search", "guess"}
    ToolOf <- AllToolOf
    Requested <- AllRequested
    Results = {"page", "long"}
    Faults = {"error"}
    Large = {"long"}
    WarnFailures = 1
    MaxFailures = 2
    MaxSameRounds = 1
    NumericRetries = 1
    SemanticRetries = 0
    EvidenceRetries = 1
    CoverageRetries = 0
    MaxToolRounds = 2
    MaxCalls = 2
INVARIANTS
    WarrantedCallsRun
    ShownBeforeCompacted
    RejectedDraftsStayOut
    ApprovedDraftStandsAlone
    RoundsBounded
    FailureReportsLatestDraft
CHECK_DEADLOCK FALSE
