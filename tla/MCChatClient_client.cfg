SPECIFICATION FairSpec
CONSTANTS
    j1 = j1
    None = None
    Jobs = {j1}
    Order <- OneJob
    MaxFaults = 1
    MaxUpsets = 1
    MaxResets = 1
INVARIANTS
    ClearedStaysCleared
    AnswersKeepQuestions
PROPERTIES
    PageConverges
    LoadersEnd
CHECK_DEADLOCK FALSE
