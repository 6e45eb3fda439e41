\* Two spec edits (redeploy, rollback, suspend, resume) race the reconciler; pods are replaced at any time.
CONSTANTS
    Refs = {"v1", "v2"}
    Lanes = {"general"}
    Pods = {p1, p2}
    Sandboxes = {s1, s2}
    Templates = {"ok"}
    None = None
    MaxUid = 1
    MaxGen = 3
    MaxFaults = 0
    MaxCrashes = 0
    ReplaceAnytime = TRUE
SPECIFICATION Spec
INVARIANTS SuspendedIsInert ServiceFollowsClaim
PROPERTIES ReadyOnlyAfterDelivery ImplementsLifecycle
SYMMETRY PodSymmetry
CHECK_DEADLOCK FALSE
