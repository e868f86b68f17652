SPECIFICATION Spec
CONSTANTS
    Browsers = {b1, b2}
    Elements = {login, delete}
    Changing = {b1}
    Windows = FALSE
    MaxShots = 2
    MaxFaults = 1
    MaxCancels = 2
INVARIANTS
    NothingOutlivesTheRun
    ClicksHitWhatWasShown
    FailedCommandsAreStopped
PROPERTIES
    CommandsAreAnswered
CHECK_DEADLOCK FALSE
