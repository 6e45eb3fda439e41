--------------------------- MODULE QuotaEnforcer ---------------------------
(***************************************************************************)
(* The quota enforcer (src/internal/quota) as Service.Deploy uses it, in   *)
(* one tenant's namespace: ceilings per tenant, owner and department, each *)
(* checked against a listing of the live apps taken outside the lock plus  *)
(* the reservations of deploys under way.                                  *)
(*                                                                         *)
(* Each call to the API server or the blob store is an action of its own,  *)
(* and each may fail; tryReserve and the release are atomic (e.mu).        *)
(***************************************************************************)
EXTENDS Integers, FiniteSets

CONSTANTS
    Requests,    \* concurrent calls of Service.Deploy
    Names,       \* app names
    Owners,
    Department,  \* an owner's department in the user store, or None
    Limits,      \* by scope: MaxApps, MaxAppsPerOwner, deptCeiling; 0: no ceiling
    None,
    MaxExpiries  \* bound: reservations that outlive reservationTTL

Scopes == {"tenant", "owner", "department"}
Departments == {Department[o] : o \in Owners} \cup {None}

ASSUME QuotaAssumption ==
    /\ IsFiniteSet(Names)
    /\ Limits \in [Scopes -> Nat]
    /\ None \notin Owners \cup Names
    /\ MaxExpiries \in Nat

VARIABLES
    apps,         \* by name: the live VibedApp's owner and department label, or None
    reservations, \* e.reservations: which request holds one under which key
    req,          \* the requests
    expiries,     \* how many reservations have expired
    excused       \* history: an admission used an overtaken listing, or a
                  \* reservation expired under its deploy

vars == <<apps, reservations, req, expiries, excused>>

-----------------------------------------------------------------------------
Apps == [owner: Owners, dept: Departments]

\* resKey: the namespace is the tenant's.
Keys == {<<"tenant", None>>} \cup ({"owner"} \X Owners) \cup ({"department"} \X Departments)

Reservations == [key: Keys, by: Requests]

\* seen: the app that Get returned, None for a new name.  created: the app is
\* durably created.  overtaken (history): since the count was listed, a
\* deploy under the same key was created and gave its reservation back.
Calls == [pc: {"idle", "count", "reserve", "put", "create", "update", "release"},
          name: Names \cup {None}, owner: Owners \cup {None}, dept: Departments,
          seen: Apps \cup {None}, scope: Scopes, listed: Nat,
          created: BOOLEAN, overtaken: BOOLEAN]

Idle == [pc |-> "idle", name |-> None, owner |-> None, dept |-> None, seen |-> None,
         scope |-> "tenant", listed |-> 0, created |-> FALSE, overtaken |-> FALSE]

Init ==
    /\ apps = [n \in Names |-> None]
    /\ reservations = {}
    /\ req = [r \in Requests |-> Idle]
    /\ expiries = 0
    /\ excused = FALSE

-----------------------------------------------------------------------------
Key(c) == CASE c.scope = "tenant" -> <<"tenant", None>>
            [] c.scope = "owner" -> <<"owner", c.owner>>
            [] c.scope = "department" -> <<"department", c.dept>>

\* What a listing of the namespace counts under a key.
Count(key) ==
    Cardinality({n \in Names : /\ apps[n] # None
                               /\ key[1] = "owner" => apps[n].owner = key[2]
                               /\ key[1] = "department" => apps[n].dept = key[2]})

\* Faulty variant: deploys under way are not counted.
ReservedNone(key) == 0

reservedCount(key) == Cardinality({x \in reservations : x.key = key})

Ceiling(c) == IF c.scope = "department" /\ c.dept = None THEN 0 ELSE Limits[c.scope]

\* The scopes are checked in this order; then the source is stored.
NextScope == [tenant |-> "owner", owner |-> "department", department |-> "department"]

Advance(c) == [c EXCEPT !.pc = IF c.scope = "department" THEN "put" ELSE "count",
                        !.scope = NextScope[c.scope],
                        !.listed = 0, !.overtaken = FALSE]

Held(r) == {x \in reservations : x.by = r}

\* Faulty variant: an early return keeps what the request had reserved.
EndLeaking(r) ==
    /\ reservations' = IF req[r].created THEN reservations \ Held(r) ELSE reservations
    /\ req' = [req EXCEPT ![r] = Idle]

\* The request returns; its release runs, if not before then by defer.
End(r) ==
    /\ reservations' = reservations \ Held(r)
    /\ req' = [q \in Requests |->
                  IF q = r THEN Idle
                  ELSE IF req[r].created /\ req[q].pc = "reserve"
                          /\ Key(req[q]) \in {x.key : x \in Held(r)}
                       THEN [req[q] EXCEPT !.overtaken = TRUE]
                       ELSE req[q]]

-----------------------------------------------------------------------------
\* Deploy up to Authorize: Get decides between a new app and a redeploy, a
\* redeploy of someone else's app is denied (no caller here has the admin role,
\* which lifts that gate), and departmentFor resolves the
\* department, or nothing when the user store does not answer.
Opened(n, o, d) ==
    [Idle EXCEPT !.pc = IF apps[n] = None THEN "count" ELSE "update",
                 !.name = n, !.owner = o, !.dept = d, !.seen = apps[n]]

Deploy(r) ==
    /\ req[r].pc = "idle"
    /\ \E n \in Names, o \in Owners : \E d \in {Department[o], None} :
           /\ apps[n] # None => apps[n].owner = o
           /\ req' = [req EXCEPT ![r] = Opened(n, o, d)]
    /\ UNCHANGED <<apps, reservations, expiries, excused>>

\* countAll, countByOwner, count: a listing, outside the lock.
ListApps(r) ==
    LET c == req[r] IN
    /\ c.pc = "count"
    /\ \/ /\ Ceiling(c) = 0
          /\ req' = [req EXCEPT ![r] = Advance(c)]
          /\ UNCHANGED reservations
       \/ /\ Ceiling(c) > 0
          /\ req' = [req EXCEPT ![r].pc = "reserve", ![r].listed = Count(Key(c))]
          /\ UNCHANGED reservations
       \/ /\ Ceiling(c) > 0
          /\ End(r)
    /\ UNCHANGED <<apps, expiries, excused>>

HasRoom(c) == c.listed + reservedCount(Key(c)) < Ceiling(c)

\* tryReserve, under e.mu: reserve, or reject and give back the other scopes'.
TryReserve(r) ==
    LET c == req[r] IN
    /\ c.pc = "reserve"
    /\ \/ /\ HasRoom(c)
          /\ reservations' = reservations \cup {[key |-> Key(c), by |-> r]}
          /\ req' = [req EXCEPT ![r] = Advance(c)]
          /\ excused' = (excused \/ c.overtaken)
       \/ /\ ~HasRoom(c)
          /\ End(r)
          /\ UNCHANGED excused
    /\ UNCHANGED <<apps, expiries>>

\* The version key is minted and the tarball stored.
StoreSource(r) ==
    /\ req[r].pc = "put"
    /\ \/ req' = [req EXCEPT ![r].pc = "create"] /\ UNCHANGED reservations
       \/ End(r)
    /\ UNCHANGED <<apps, expiries, excused>>

\* Create: it takes effect, or it fails or finds the name taken.  A call that
\* fails after it took effect is the first case: the deferred release follows.
CreateApp(r) ==
    LET c == req[r] IN
    /\ c.pc = "create"
    /\ \/ /\ apps[c.name] = None
          /\ apps' = [apps EXCEPT ![c.name] = [owner |-> c.owner, dept |-> c.dept]]
          /\ req' = [req EXCEPT ![r].pc = "release", ![r].created = TRUE]
          /\ UNCHANGED reservations
       \/ UNCHANGED apps /\ End(r)
    /\ UNCHANGED <<expiries, excused>>

\* Update of an existing app, under the resourceVersion that Get returned.
UpdateApp(r) ==
    LET c == req[r] IN
    /\ c.pc = "update"
    /\ \/ /\ apps[c.name] = c.seen
          /\ apps' = [apps EXCEPT ![c.name].dept = IF c.dept = None THEN @ ELSE c.dept]
       \/ UNCHANGED apps
    /\ End(r)
    /\ UNCHANGED <<expiries, excused>>

\* releaseQuota after the app is visible to listings.
Release(r) ==
    /\ req[r].pc = "release"
    /\ End(r)
    /\ UNCHANGED <<apps, expiries, excused>>

\* Service.Delete.
DeleteApp ==
    /\ \E n \in Names : apps[n] # None /\ apps' = [apps EXCEPT ![n] = None]
    /\ UNCHANGED <<reservations, req, expiries, excused>>

\* reservedCountLocked prunes a reservation older than reservationTTL; its
\* deploy is still under way.
Expire ==
    /\ expiries < MaxExpiries
    /\ expiries' = expiries + 1
    /\ \E x \in reservations : reservations' = reservations \ {x}
    /\ excused' = TRUE
    /\ UNCHANGED <<apps, req>>

Next ==
    \/ \E r \in Requests : \/ Deploy(r) \/ ListApps(r) \/ TryReserve(r) \/ StoreSource(r)
                           \/ CreateApp(r) \/ UpdateApp(r) \/ Release(r)
    \/ DeleteApp \/ Expire

Spec == Init /\ [][Next]_vars

-----------------------------------------------------------------------------
TypeOK ==
    /\ apps \in [Names -> Apps \cup {None}]
    /\ reservations \subseteq Reservations
    /\ req \in [Requests -> Calls]
    /\ expiries \in 0..MaxExpiries
    /\ excused \in BOOLEAN

\* Nothing leaks: a request that has returned, whichever error path it took and
\* however many scopes it had passed by then, holds no reservation, and a
\* request holds only what its own owner and department are charged for.
ReservationsDrain ==
    \A x \in reservations :
        LET c == req[x.by] IN
        /\ c.pc \in {"count", "reserve", "put", "create", "release"}
        /\ x.key[1] = "owner" => x.key[2] = c.owner
        /\ x.key[1] = "department" => x.key[2] = c.dept

\* The ceiling that is never passed without an excuse: the reservation spans
\* the window between the listing and the visible app, so tenant and owner
\* counts stay within their ceilings unless a listing was overtaken by a deploy
\* that was created and released before the count was used, or a reservation
\* expired under its deploy.
CeilingUnlessOvertaken ==
    ~excused =>
        \A k \in {<<"tenant", None>>} \cup ({"owner"} \X Owners) :
            Limits[k[1]] > 0 => Count(k) <= Limits[k[1]]

\* "concurrent deploys can't all read a below-ceiling count and overshoot the
\* ceiling": an owner's apps stay within the owner's ceiling.
CeilingHeld ==
    \A o \in Owners : Limits["owner"] > 0 => Count(<<"owner", o>>) <= Limits["owner"]
=============================================================================
