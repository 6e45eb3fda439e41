\* Both lanes, every failure branch: invalid specs, git sources, bad template
\* slots, a failing call, pods replaced at any time.
CONSTANTS
    Refs = {"v1", "git", "bad"}
    Lanes = {"general", "fast"}
    Pods = {p1, p2}
    Sandboxes = {s1}
    Templates = {"ok", "invalid", "missing"}
    None = None
    MaxUid = 1
    MaxGen = 2
    MaxFaults = 1
    MaxCrashes = 0
    ReplaceAnytime = TRUE
SPECIFICATION Spec
INVARIANTS TypeOK StatusConsistent
SYMMETRY PodSymmetry
CHECK_DEADLOCK FALSE
