SPECIFICATION Spec
CONSTANTS
    notes = notes
    probe = probe
    spare = spare
    mine = mine
    theirs = theirs
    Runs = {mine, theirs}
    Calls = {1, 2, 3}
    RunOf <- TheRunOf
    Paths <- ThePaths
    UserFiles = {notes}
    Requests <- TheRequests
    MaxFaults = 1
INVARIANTS
    AnswerLeavesNoScratch
    LedgerStaysAtHome
    DocumentEditIsAtomic
CHECK_DEADLOCK FALSE
