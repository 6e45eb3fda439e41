\* Collector: two names, three incarnations.  API: two users and calls, one
\* phase change.
CONSTANTS
    None = None
    GcNames = {g1, g2}
    MaxUid = 3
    MaxErrors = 2
    Calls = {c1, c2}
    Users = {u1, u2}
    Admins = {}
    Names = {a}
    Label <- MCLabel
    Authorizers <- MCAuthorizers
    PerUser = 1
    Global = 2
    MaxCalls = 2
    MaxMoves = 1
SPECIFICATION Spec
INVARIANTS SlotsExact NoTransitionMissed
PROPERTIES LiveClaimsKept OrphansReaped ExistenceHidden WaitsReturn
CHECK_DEADLOCK FALSE
