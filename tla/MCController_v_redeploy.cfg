\* A Ready app is redeployed.
CONSTANTS
    Refs = {"v1", "v2"}
    Lanes = {"general"}
    Pods = {p1}
    Sandboxes = {s1}
    Templates = {"ok"}
    None = None
    MaxUid = 1
    MaxGen = 2
    MaxFaults = 0
    MaxCrashes = 0
    ReplaceAnytime = FALSE
SPECIFICATION FairSpec
PROPERTIES RedeployTakesEffect
CHECK_DEADLOCK FALSE
