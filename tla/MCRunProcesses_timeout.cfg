SPECIFICATION Spec
CONSTANTS
    Browsers = {b1, b2}
    Elements = {login, delete}
    Changing = {b1}
    Windows = TRUE
    MaxShots = 2
    MaxFaults = 1
    MaxCancels = 2
PROPERTY TimeoutsFailVisibly
CHECK_DEADLOCK FALSE
