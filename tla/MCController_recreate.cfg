\* The app is deleted and created again under its name, and suspended once.
CONSTANTS
    Refs = {"v1"}
    Lanes = {"general"}
    Pods = {p1, p2}
    Sandboxes = {s1, s2}
    Templates = {"ok"}
    None = None
    MaxUid = 2
    MaxGen = 2
    MaxFaults = 0
    MaxCrashes = 0
    ReplaceAnytime = FALSE
SPECIFICATION Spec
INVARIANTS ServiceFollowsClaim MeterBalanced
PROPERTIES ReadyOnlyAfterDelivery
SYMMETRY PodSymmetry
CHECK_DEADLOCK FALSE
