SPECIFICATION Spec
CONSTANTS
    owner = owner
    trial = trial
    plain = plain
    long = long
    tea = tea
    greenTea = greenTea
    None = None
    Users = {owner, trial}
    Trials = {trial}
    Texts = {plain, long}
    Concepts = {tea, greenTea}
    Segmentations <- TheSegmentations
    TurnFacts <- TheTurnFacts
    Phrases <- ThePhrases
    StartsDuringReset = FALSE
    MaxTurns = 3
    MaxFaults = 1
    MaxStops = 2
    MaxResets = 2
    MaxPath = 4
INVARIANTS
    AdmittedIsRecalled
    IndexFollowsGraph
    RecalledIsAsserted
    ResetLeavesAtMost
PROPERTIES
    ResetSparesOthers
CHECK_DEADLOCK FALSE
