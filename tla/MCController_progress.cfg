\* Progress in spite of a suspension, a failing call, a replaced pod and a
\* controller restart at any point.
CONSTANTS
    Refs = {"v1"}
    Lanes = {"general"}
    Pods = {p1, p2}
    Sandboxes = {s1}
    Templates = {"ok"}
    None = None
    MaxUid = 1
    MaxGen = 2
    MaxFaults = 1
    MaxCrashes = 1
    ReplaceAnytime = FALSE
SPECIFICATION FairSpec
PROPERTIES EventuallySettles EventuallyRepoints EventuallyParks
CHECK_DEADLOCK FALSE
