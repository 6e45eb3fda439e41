\* Two requests at a time; arrivals, store failures and restarts three in all.
CONSTANTS
    key = key
    sub = sub
    local = local
    eng = eng
    slug = slug
    engNs = engNs
    Requests = {r1, r2}
    KeyIds = {key}
    Subjects = {key, sub}
    LocalIds = {local}
    NameOf <- MCNameOf
    KeyRole <- MCKeyRole
    DeptOf <- MCDeptOf
    DeptNames = {eng}
    FreshDepts = {f1, f2}
    SlugDept <- MCSlugDept
    NsOf <- MCNsOf
    Edits = {"user", "active", "suspended"}
    Modes = {"apikey", "oidc", "oauth"}
    TTL = 1
    None = None
    MaxEvents = 3
SPECIFICATION Spec
INVARIANTS SuspensionUnlessOvertaken LatchMeansRecord BindKeepsProvider NamespaceIsOwn
SYMMETRY AccountsSymmetry
CHECK_DEADLOCK FALSE
