\* Quotas: two owners, three names, two deploys at the ceilings.  Fast lane: two
\* apps, three edits, two faults.  Router: one app, any number of writes and faults.
\* Stream: one name, two incarnations, two browsers, one slot in each buffer.
\* Stores: three backends, two clients.
CONSTANTS
    Requests = {r1, r2}
    Names = {n1, n2, n3}
    alice = alice
    bob = bob
    dev = dev
    Owners = {alice, bob}
    Department <- MCDepartment
    Limits <- MCLimits
    None = None
    MaxExpiries = 1
    EdgeNames = {e1, e2}
    Shard <- MCShard
    MaxEdits = 3
    MaxFaults = 2
    RouteNames = {a1}
    RouteTargets = {t1}
    Pods = {p1}
    Domains = {w1, w2}
    StreamNames = {s1}
    StreamPhases = {"Starting", "Ready"}
    StreamOwners = {o1, o2}
    Clients = {c1, c2}
    Caller <- MCCaller
    c1 = c1
    c2 = c2
    o1 = o1
    Admin = Admin
    Buffer = 1
    MaxConns = 1
    MaxUid = 2
    MaxWrites = 1
    MaxBreaks = 1
    MaxVisits = 2
    Backends = {"memory", "sqlite", "configmap"}
    StoreClients = {d1, d2}
    Ids = {i1, i2, i3}
    NameOf <- MCNameOf
    OwnerOf <- MCOwnerOf
    StoreOwners = {u1, u2}
    i1 = i1
    i2 = i2
    i3 = i3
    u1 = u1
    MaxTries = 2
    MaxRows = 2
    MaxCalls = 3
SPECIFICATION EdgeSpec
INVARIANTS ReservationsDrain CeilingUnlessOvertaken RoutesSettle PortIsOwn NoSendOnClosed ViewAgrees
PROPERTIES StoreIsAtomic
CHECK_DEADLOCK FALSE
