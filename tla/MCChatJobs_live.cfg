SPECIFICATION FairSpec
CONSTANTS
    j1 = j1
    j2 = j2
    j3 = j3
    u1 = u1
    u2 = u2
    s1 = s1
    s2 = s2
    None = None
    Page = s1
    Jobs = {j1, j2, j3}
    Users = {u1, u2}
    Sessions = {s1, s2}
    UserOf <- TwoUserOf
    SessionOf <- TwoUserSessionOf
    MaxProgress = 1
    MaxCancels = 2
    MaxOld = 0
    MaxFaults = 1
    MaxCrashes = 1
    CancelCanBeLost = TRUE
PROPERTIES
    JobsSettle
    CancelsAreAnswered
