---------------------------- MODULE QuotaProofs ----------------------------
(***************************************************************************)
(* Proofs about QuotaEnforcer, for any number of requests, names, owners   *)
(* and ceilings.                                                           *)
(***************************************************************************)
EXTENDS QuotaEnforcer, FiniteSetTheorems, TLAPS

\* A request that is under way knows its name and its owner, and a redeploy
\* found an app.
Underway ==
    \A r \in Requests :
        /\ req[r].pc # "idle" => req[r].name \in Names /\ req[r].owner \in Owners
        /\ req[r].pc = "update" => req[r].seen # None

\* The inductive invariant.
QuotaInv == TypeOK /\ Underway /\ ReservationsDrain

\* The idle request has its type.
LEMMA IdleTyped == Idle \in Calls /\ Idle.pc = "idle"
BY DEF Idle, Calls, Scopes, Departments

\* A listing counts a natural number of apps.
LEMMA CountNat == \A key : Count(key) \in Nat
<1> TAKE key
<1> DEFINE S == {n \in Names : /\ apps[n] # None
                               /\ key[1] = "owner" => apps[n].owner = key[2]
                               /\ key[1] = "department" => apps[n].dept = key[2]}
<1>1. S \subseteq Names
  OBVIOUS
<1> HIDE DEF S
<1>2. Cardinality(S) \in Nat
  BY <1>1, QuotaAssumption, FS_Subset, FS_CardinalityType
<1> QED BY <1>2 DEF Count, S

\* The invariant holds at the start.
LEMMA QuotaInit == Init => QuotaInv
<1> SUFFICES ASSUME Init PROVE QuotaInv
  OBVIOUS
<1>1. TypeOK
  <2>1. apps \in [Names -> Apps \cup {None}] /\ reservations \subseteq Reservations
    BY DEF Init
  <2>2. req \in [Requests -> Calls]
    BY IdleTyped DEF Init
  <2>3. excused \in BOOLEAN /\ expiries = 0
    BY DEF Init
  <2>4. MaxExpiries \in Nat
    BY QuotaAssumption
  <2>5. expiries \in 0..MaxExpiries
    BY <2>3, <2>4
  <2> QED BY <2>1, <2>2, <2>3, <2>5 DEF TypeOK
<1>2. Underway
  BY IdleTyped DEF Init, Underway
<1>3. ReservationsDrain
  BY DEF Init, ReservationsDrain
<1> QED BY <1>1, <1>2, <1>3 DEF QuotaInv

\* The call of a request under way, and the key it is charged under.
LEMMA KeyTyped ==
    ASSUME QuotaInv, NEW r \in Requests, req[r].pc # "idle"
    PROVE /\ Key(req[r]) \in Keys
          /\ Key(req[r])[1] = "owner" => Key(req[r])[2] = req[r].owner
          /\ Key(req[r])[1] = "department" => Key(req[r])[2] = req[r].dept
<1>1. req[r].scope \in Scopes /\ req[r].owner \in Owners /\ req[r].dept \in Departments
  BY DEF QuotaInv, TypeOK, Underway, Calls
<1> DEFINE c == req[r]
<1>2. CASE c.scope = "tenant"
  BY <1>2 DEF Key, Keys
<1>3. CASE c.scope = "owner"
  BY <1>1, <1>3 DEF Key, Keys
<1>4. CASE c.scope = "department"
  BY <1>1, <1>4 DEF Key, Keys
<1> QED BY <1>1, <1>2, <1>3, <1>4 DEF Scopes

\* Advance moves on with the same owner, department and name.
LEMMA AdvanceTyped ==
    ASSUME NEW c \in Calls
    PROVE /\ Advance(c) \in Calls
          /\ Advance(c).pc \in {"count", "put"}
          /\ Advance(c).owner = c.owner /\ Advance(c).dept = c.dept
          /\ Advance(c).name = c.name
<1>1. NextScope[c.scope] \in Scopes
  BY DEF NextScope, Calls, Scopes
<1> QED BY <1>1 DEF Advance, Calls

\* A step that only moves one request on, within its window, keeps the
\* invariant; it may add reservations the request is charged for.
LEMMA MoveOn ==
    ASSUME QuotaInv, NEW r \in Requests, NEW c \in Calls,
           req[r].pc \in {"count", "reserve", "put", "create"},
           c.pc \in {"count", "reserve", "put", "create", "release"},
           c.name = req[r].name, c.owner = req[r].owner, c.dept = req[r].dept,
           req' = [req EXCEPT ![r] = c],
           NEW N, N \subseteq {[key |-> Key(req[r]), by |-> r]},
           reservations' = reservations \cup N,
           apps' \in [Names -> Apps \cup {None}],
           expiries' = expiries, excused' \in BOOLEAN
    PROVE QuotaInv'
<1>1. req' \in [Requests -> Calls]
  BY DEF QuotaInv, TypeOK
<1>2. TypeOK'
  <2>1. N \subseteq Reservations
    BY KeyTyped DEF Reservations
  <2> QED BY <1>1, <2>1 DEF QuotaInv, TypeOK
<1>3. Underway'
  BY DEF QuotaInv, TypeOK, Underway
<1>4. ReservationsDrain'
  <2> SUFFICES ASSUME NEW x \in reservations'
               PROVE /\ req'[x.by].pc \in {"count", "reserve", "put", "create", "release"}
                     /\ x.key[1] = "owner" => x.key[2] = req'[x.by].owner
                     /\ x.key[1] = "department" => x.key[2] = req'[x.by].dept
    BY DEF ReservationsDrain
  <2>1. CASE x \in reservations
    <3>1. x.by \in Requests
      BY <2>1 DEF QuotaInv, TypeOK, Reservations
    <3> QED BY <2>1, <3>1 DEF QuotaInv, TypeOK, ReservationsDrain
  <2>2. CASE x \in N
    BY <2>2, KeyTyped DEF QuotaInv, TypeOK
  <2> QED BY <2>1, <2>2
<1> QED BY <1>2, <1>3, <1>4 DEF QuotaInv

\* A request that returns gives everything back.
LEMMA EndStep ==
    ASSUME QuotaInv, NEW r \in Requests, End(r),
           apps' \in [Names -> Apps \cup {None}],
           expiries' = expiries, excused' = excused
    PROVE QuotaInv'
<1>1. ASSUME NEW q \in Requests
      PROVE /\ req'[q] \in Calls
            /\ q = r => req'[q] = Idle
            /\ q # r => /\ req'[q].pc = req[q].pc /\ req'[q].owner = req[q].owner
                        /\ req'[q].dept = req[q].dept /\ req'[q].name = req[q].name
                        /\ req'[q].seen = req[q].seen
  <2>1. req[q] \in Calls
    BY DEF QuotaInv, TypeOK
  <2>2. req'[q] = Idle \/ req'[q] = req[q] \/ req'[q] = [req[q] EXCEPT !.overtaken = TRUE]
    BY DEF End
  <2>3. q = r => req'[q] = Idle
    BY DEF End
  <2>4. q # r => req'[q] = req[q] \/ req'[q] = [req[q] EXCEPT !.overtaken = TRUE]
    BY DEF End
  <2> QED BY <2>1, <2>2, <2>3, <2>4, IdleTyped DEF Calls
<1>2. TypeOK'
  <2>1. req' \in [Requests -> Calls]
    BY <1>1 DEF End
  <2> QED BY <2>1 DEF End, QuotaInv, TypeOK
<1>3. Underway'
  BY <1>1, IdleTyped DEF QuotaInv, Underway
<1>4. ReservationsDrain'
  <2> SUFFICES ASSUME NEW x \in reservations'
               PROVE /\ req'[x.by].pc \in {"count", "reserve", "put", "create", "release"}
                     /\ x.key[1] = "owner" => x.key[2] = req'[x.by].owner
                     /\ x.key[1] = "department" => x.key[2] = req'[x.by].dept
    BY DEF ReservationsDrain
  <2>1. x \in reservations /\ x.by # r
    BY DEF End, Held
  <2>2. x.by \in Requests
    BY <2>1 DEF QuotaInv, TypeOK, Reservations
  <2> QED BY <1>1, <2>1, <2>2 DEF QuotaInv, ReservationsDrain
<1> QED BY <1>2, <1>3, <1>4 DEF QuotaInv

\* Every step keeps the invariant.
LEMMA QuotaStep == QuotaInv /\ [Next]_vars => QuotaInv'
<1> SUFFICES ASSUME QuotaInv, [Next]_vars PROVE QuotaInv'
  OBVIOUS
<1>t. /\ apps \in [Names -> Apps \cup {None}] /\ req \in [Requests -> Calls]
      /\ excused \in BOOLEAN
  BY DEF QuotaInv, TypeOK
<1>n. reservations = reservations \cup {}
  OBVIOUS
<1>1. ASSUME NEW r \in Requests, Deploy(r) PROVE QuotaInv'
  <2>0. PICK n \in Names, o \in Owners : \E d \in {Department[o], None} :
           req' = [req EXCEPT ![r] = Opened(n, o, d)]
    BY <1>1 DEF Deploy
  <2>1. PICK d \in {Department[o], None} : req' = [req EXCEPT ![r] = Opened(n, o, d)]
    BY <2>0
  <2> DEFINE c == Opened(n, o, d)
  <2>2. d \in Departments /\ apps[n] \in Apps \cup {None}
    BY <1>t DEF Departments
  <2>3. /\ c \in Calls /\ c.name \in Names /\ c.owner \in Owners
        /\ c.pc = "update" => c.seen # None
    BY <2>2, IdleTyped DEF Opened, Calls
  <2> HIDE DEF c
  <2>4. req' \in [Requests -> Calls] /\ \A q \in Requests : req'[q] = IF q = r THEN c ELSE req[q]
    BY <1>t, <2>1, <2>3 DEF c
  <2>5. \A x \in reservations : x.by \in Requests /\ x.by # r
    BY <1>1 DEF QuotaInv, TypeOK, Reservations, ReservationsDrain, Deploy
  <2>6. UNCHANGED <<apps, reservations, expiries, excused>>
    BY <1>1 DEF Deploy
  <2>7. ReservationsDrain'
    BY <2>4, <2>5, <2>6 DEF QuotaInv, ReservationsDrain
  <2>8. Underway'
    BY <2>3, <2>4 DEF QuotaInv, Underway
  <2> QED BY <2>4, <2>6, <2>7, <2>8 DEF QuotaInv, TypeOK
<1>2. ASSUME NEW r \in Requests, ListApps(r) PROVE QuotaInv'
  <2>1. CASE End(r)
    BY <1>2, <1>t, <2>1, EndStep DEF ListApps
  <2>2. CASE req' = [req EXCEPT ![r] = Advance(req[r])] /\ UNCHANGED reservations
    <3>1. req[r] \in Calls
      BY <1>t
    <3> QED BY <1>2, <1>t, <1>n, <2>2, <3>1, AdvanceTyped, MoveOn DEF ListApps
  <2>3. CASE /\ req' = [req EXCEPT ![r].pc = "reserve", ![r].listed = Count(Key(req[r]))]
             /\ UNCHANGED reservations
    <3> DEFINE c == [req[r] EXCEPT !.pc = "reserve", !.listed = Count(Key(req[r]))]
    <3>1. /\ c \in Calls /\ c.pc = "reserve" /\ c.name = req[r].name
          /\ c.owner = req[r].owner /\ c.dept = req[r].dept
      BY <1>t, CountNat DEF Calls
    <3>2. req' = [req EXCEPT ![r] = c]
      BY <1>t, <2>3
    <3> HIDE DEF c
    <3> QED BY <1>2, <1>t, <1>n, <2>3, <3>1, <3>2, MoveOn DEF ListApps
  <2> QED BY <1>2, <2>1, <2>2, <2>3 DEF ListApps
<1>3. ASSUME NEW r \in Requests, TryReserve(r) PROVE QuotaInv'
  <2>1. CASE End(r) /\ UNCHANGED excused
    BY <1>3, <1>t, <2>1, EndStep DEF TryReserve
  <2>2. CASE /\ req' = [req EXCEPT ![r] = Advance(req[r])]
             /\ reservations' = reservations \cup {[key |-> Key(req[r]), by |-> r]}
             /\ excused' = (excused \/ req[r].overtaken)
    <3>1. req[r] \in Calls /\ excused' \in BOOLEAN
      BY <1>t, <2>2
    <3> QED BY <1>3, <1>t, <2>2, <3>1, AdvanceTyped, MoveOn DEF TryReserve
  <2> QED BY <1>3, <2>1, <2>2 DEF TryReserve
<1>4. ASSUME NEW r \in Requests, StoreSource(r) PROVE QuotaInv'
  <2>1. CASE End(r)
    BY <1>4, <1>t, <2>1, EndStep DEF StoreSource
  <2>2. CASE req' = [req EXCEPT ![r].pc = "create"] /\ UNCHANGED reservations
    <3> DEFINE c == [req[r] EXCEPT !.pc = "create"]
    <3>1. /\ c \in Calls /\ c.pc = "create" /\ c.name = req[r].name
          /\ c.owner = req[r].owner /\ c.dept = req[r].dept
      BY <1>t DEF Calls
    <3>2. req' = [req EXCEPT ![r] = c]
      BY <2>2
    <3> HIDE DEF c
    <3> QED BY <1>4, <1>t, <1>n, <2>2, <3>1, <3>2, MoveOn DEF StoreSource
  <2> QED BY <1>4, <2>1, <2>2 DEF StoreSource
<1>5. ASSUME NEW r \in Requests, CreateApp(r) PROVE QuotaInv'
  <2>1. CASE UNCHANGED apps /\ End(r)
    BY <1>5, <1>t, <2>1, EndStep DEF CreateApp
  <2>2. CASE /\ apps' = [apps EXCEPT ![req[r].name] = [owner |-> req[r].owner, dept |-> req[r].dept]]
             /\ req' = [req EXCEPT ![r].pc = "release", ![r].created = TRUE]
             /\ UNCHANGED reservations
    <3> DEFINE c == [req[r] EXCEPT !.pc = "release", !.created = TRUE]
    <3>1. /\ c \in Calls /\ c.pc = "release" /\ c.name = req[r].name
          /\ c.owner = req[r].owner /\ c.dept = req[r].dept
      BY <1>t DEF Calls
    <3>2. req' = [req EXCEPT ![r] = c]
      BY <1>t, <2>2
    <3>3. [owner |-> req[r].owner, dept |-> req[r].dept] \in Apps
      BY <1>5, <1>t DEF CreateApp, QuotaInv, Underway, Apps, Calls
    <3>4. apps' \in [Names -> Apps \cup {None}]
      BY <1>t, <2>2, <3>3
    <3> HIDE DEF c
    <3> QED BY ZenonT(40), <1>5, <1>t, <1>n, <2>2, <3>1, <3>2, <3>4, MoveOn DEF CreateApp
  <2> QED BY <1>5, <2>1, <2>2 DEF CreateApp
<1>6. ASSUME NEW r \in Requests, UpdateApp(r) PROVE QuotaInv'
  <2> DEFINE a == [apps[req[r].name] EXCEPT !.dept = IF req[r].dept = None THEN @ ELSE req[r].dept]
  <2>1. CASE apps[req[r].name] = req[r].seen /\ apps' = [apps EXCEPT ![req[r].name] = a]
    <3>1. apps[req[r].name] \in Apps /\ req[r].dept \in Departments
      BY <1>6, <1>t, <2>1 DEF UpdateApp, QuotaInv, Underway, Calls
    <3>2. a \in Apps
      BY <3>1 DEF Apps
    <3> HIDE DEF a
    <3>3. apps' \in [Names -> Apps \cup {None}]
      BY <1>t, <2>1, <3>2
    <3> QED BY <1>6, <3>3, EndStep DEF UpdateApp
  <2>2. CASE UNCHANGED apps
    BY <1>6, <1>t, <2>2, EndStep DEF UpdateApp
  <2> QED BY <1>6, <2>1, <2>2 DEF UpdateApp
<1>7. ASSUME NEW r \in Requests, Release(r) PROVE QuotaInv'
  BY <1>7, <1>t, EndStep DEF Release
<1>8. CASE DeleteApp
  BY <1>8 DEF DeleteApp, QuotaInv, TypeOK, Underway, ReservationsDrain
<1>9. CASE Expire
  <2>1. expiries' \in 0..MaxExpiries
    BY <1>9, QuotaAssumption DEF Expire, QuotaInv, TypeOK
  <2>2. reservations' \subseteq reservations /\ UNCHANGED <<apps, req>> /\ excused' = TRUE
    BY <1>9 DEF Expire
  <2> QED BY <2>1, <2>2 DEF QuotaInv, TypeOK, Underway, ReservationsDrain
<1>10. CASE UNCHANGED vars
  BY <1>10 DEF vars, QuotaInv, TypeOK, Underway, ReservationsDrain
<1> QED BY <1>1, <1>2, <1>3, <1>4, <1>5, <1>6, <1>7, <1>8, <1>9, <1>10 DEF Next

\* No request leaves a reservation behind, on any path out of Service.Deploy
\* and Authorize (releaseAll, the deferred releaseQuota, sync.Once), and none is
\* charged to someone else; for any ceilings and any number of requests.
THEOREM NoReservationLeaks == Spec => []ReservationsDrain
<1>1. Init => QuotaInv
  BY QuotaInit
<1>2. QuotaInv /\ [Next]_vars => QuotaInv'
  BY QuotaStep
<1>3. QuotaInv => ReservationsDrain
  BY DEF QuotaInv
<1> QED BY <1>1, <1>2, <1>3, PTL DEF Spec
-----------------------------------------------------------------------------
(* The ceilings.                                                           *)

\* The keys whose ceilings CeilingUnlessOvertaken is about.
CeilingKeys == {<<"tenant", None>>} \cup ({"owner"} \X Owners)

\* What Count counts, and the reservations under a key: of deploys whose app is
\* not created yet, and of those whose app is.
Listed(k) == {n \in Names : /\ apps[n] # None
                            /\ k[1] = "owner" => apps[n].owner = k[2]
                            /\ k[1] = "department" => apps[n].dept = k[2]}
Pending(k) == {x \in reservations : x.key = k /\ ~req[x.by].created}
Visible(k) == {x \in reservations : x.key = k /\ req[x.by].created}

\* The scopes are passed in their order; the app is created last.
Ordered ==
    \A r \in Requests :
        /\ req[r].pc \in {"put", "create", "release"} => req[r].scope = "department"
        /\ req[r].created => req[r].pc = "release"

\* A request past a scope with a ceiling holds its reservation.
Passed(c, scope) ==
    /\ c.pc \notin {"idle", "update"}
    /\ \/ scope = "tenant" /\ c.scope # "tenant"
       \/ scope = "owner" /\ c.scope = "department"

Charged ==
    \A r \in Requests :
        /\ Passed(req[r], "tenant") /\ Limits["tenant"] > 0
              => [key |-> <<"tenant", None>>, by |-> r] \in reservations
        /\ Passed(req[r], "owner") /\ Limits["owner"] > 0
              => [key |-> <<"owner", req[r].owner>>, by |-> r] \in reservations

\* A count that was not overtaken misses at most the apps of the deploys that
\* still hold their reservation.
CountsHold ==
    \A r \in Requests, k \in CeilingKeys :
        (req[r].pc = "reserve" /\ ~req[r].overtaken /\ Key(req[r]) = k /\ Limits[k[1]] > 0)
           => Count(k) <= req[r].listed + Cardinality(Visible(k))

\* Apps and deploys that have yet to create theirs fit under the ceiling.
Admitted ==
    \A k \in CeilingKeys :
        Limits[k[1]] > 0 => Count(k) + Cardinality(Pending(k)) <= Limits[k[1]]

\* The inductive invariant for the ceilings.
CeilingInv == /\ IsFiniteSet(reservations) /\ Ordered
              /\ ~excused => Charged /\ CountsHold /\ Admitted

\* What is counted is finite, and a key's reservations are of the two kinds.
LEMMA CountsFinite ==
    ASSUME IsFiniteSet(reservations), NEW k
    PROVE /\ IsFiniteSet(Listed(k)) /\ Count(k) = Cardinality(Listed(k)) /\ Count(k) \in Nat
          /\ IsFiniteSet(Pending(k)) /\ Cardinality(Pending(k)) \in Nat
          /\ IsFiniteSet(Visible(k)) /\ Cardinality(Visible(k)) \in Nat
          /\ reservedCount(k) = Cardinality(Pending(k)) + Cardinality(Visible(k))
<1>1. Listed(k) \in SUBSET Names
  BY DEF Listed
<1>2. IsFiniteSet(Listed(k)) /\ Cardinality(Listed(k)) \in Nat
  BY <1>1, QuotaAssumption, FS_Subset, FS_CardinalityType
<1>3. Count(k) = Cardinality(Listed(k))
  BY DEF Count, Listed
<1>4. Pending(k) \in SUBSET reservations /\ Visible(k) \in SUBSET reservations
  BY DEF Pending, Visible
<1>5. /\ IsFiniteSet(Pending(k)) /\ Cardinality(Pending(k)) \in Nat
      /\ IsFiniteSet(Visible(k)) /\ Cardinality(Visible(k)) \in Nat
  BY <1>4, FS_Subset, FS_CardinalityType
<1>6. Pending(k) \cap Visible(k) = {}
  BY DEF Pending, Visible
<1>7. Pending(k) \cup Visible(k) = {x \in reservations : x.key = k}
  BY DEF Pending, Visible
<1>8. Cardinality(Pending(k) \cup Visible(k)) = Cardinality(Pending(k)) + Cardinality(Visible(k))
  <2>1. Cardinality(Pending(k) \cap Visible(k)) = 0
    BY <1>6, FS_EmptySet
  <2>2. Cardinality(Pending(k) \cup Visible(k))
           = Cardinality(Pending(k)) + Cardinality(Visible(k)) - Cardinality(Pending(k) \cap Visible(k))
    BY <1>5, FS_Union
  <2> QED BY <1>5, <2>1, <2>2
<1> QED BY <1>2, <1>3, <1>5, <1>7, <1>8 DEF reservedCount

\* The ceilings hold at the start.
LEMMA CeilingInit == Init => CeilingInv
<1> SUFFICES ASSUME Init PROVE CeilingInv
  OBVIOUS
<1>1. IsFiniteSet(reservations)
  BY FS_EmptySet DEF Init
<1>2. \A r \in Requests : req[r] = Idle
  BY DEF Init
<1>3. Ordered /\ Charged /\ CountsHold
  BY <1>2 DEF Ordered, Charged, Passed, CountsHold, Idle
<1>4. Admitted
  <2> SUFFICES ASSUME NEW k \in CeilingKeys
               PROVE Count(k) = 0 /\ Cardinality(Pending(k)) = 0 /\ Limits[k[1]] \in Nat
    BY DEF Admitted
  <2>1. Listed(k) = {} /\ Pending(k) = {}
    BY DEF Init, Listed, Pending
  <2>2. k[1] \in Scopes
    BY DEF CeilingKeys, Scopes
  <2> QED BY <1>1, <2>1, <2>2, CountsFinite, FS_EmptySet, QuotaAssumption
<1> QED BY <1>1, <1>3, <1>4 DEF CeilingInv

\* A step that moves one request on and changes neither apps nor reservations.
LEMMA StayUnder ==
    ASSUME QuotaInv, CeilingInv, NEW r \in Requests, NEW c \in Calls,
           req' = [req EXCEPT ![r] = c], c.created = req[r].created,
           UNCHANGED <<apps, reservations, excused>>,
           c.pc \in {"put", "create", "release"} => c.scope = "department",
           c.created => c.pc = "release",
           ~excused /\ Passed(c, "tenant") /\ Limits["tenant"] > 0
              => [key |-> <<"tenant", None>>, by |-> r] \in reservations,
           ~excused /\ Passed(c, "owner") /\ Limits["owner"] > 0
              => [key |-> <<"owner", c.owner>>, by |-> r] \in reservations,
           c.pc = "reserve" /\ ~c.overtaken /\ Key(c) \in CeilingKeys
              => Count(Key(c)) <= c.listed + Cardinality(Visible(Key(c)))
    PROVE CeilingInv'
<1>1. \A q \in Requests : req'[q] = IF q = r THEN c ELSE req[q]
  BY DEF QuotaInv, TypeOK
<1>2. \A x \in reservations : x.by \in Requests
  BY DEF QuotaInv, TypeOK, Reservations
<1>3. \A k : /\ Count(k)' = Count(k) /\ Pending(k)' = Pending(k)
             /\ Visible(k)' = Visible(k)
  <2>1. \A x \in reservations : req'[x.by].created = req[x.by].created
    BY <1>1, <1>2
  <2> QED BY <2>1 DEF Count, Pending, Visible
<1>4. IsFiniteSet(reservations') /\ Ordered'
  BY <1>1 DEF CeilingInv, Ordered
<1>5. ASSUME ~excused PROVE Charged' /\ CountsHold' /\ Admitted'
  <2>1. Charged'
    BY <1>1, <1>5 DEF CeilingInv, Charged, Passed
  <2>2. Admitted'
    BY <1>3, <1>5 DEF CeilingInv, Admitted
  <2>3. ASSUME NEW q \in Requests, NEW k \in CeilingKeys,
               req'[q].pc = "reserve", ~req'[q].overtaken, Key(req'[q]) = k, Limits[k[1]] > 0
        PROVE Count(k) <= req'[q].listed + Cardinality(Visible(k))
    BY <1>1, <1>5, <2>3 DEF CeilingInv, CountsHold
  <2>4. CountsHold'
    BY <1>3, <2>3 DEF CountsHold
  <2> QED BY <2>1, <2>2, <2>4
<1> QED BY <1>4, <1>5 DEF CeilingInv

\* A request that returns: its reservations go, and whoever counted beside a
\* created app of its keys is marked.
LEMMA EndUnder ==
    ASSUME QuotaInv, CeilingInv, NEW r \in Requests, End(r), excused' = excused,
           \A k \in CeilingKeys : Listed(k)' \subseteq Listed(k)
    PROVE CeilingInv'
<1>r. reservations' = {x \in reservations : x.by # r}
  BY DEF End, Held
<1>1. ASSUME NEW q \in Requests
      PROVE /\ q = r => req'[q] = Idle
            /\ q # r => req'[q] = req[q] \/ req'[q] = [req[q] EXCEPT !.overtaken = TRUE]
  BY DEF End
<1>2. ASSUME NEW q \in Requests, q # r
      PROVE /\ req'[q].pc = req[q].pc /\ req'[q].scope = req[q].scope
            /\ req'[q].created = req[q].created /\ req'[q].owner = req[q].owner
            /\ req'[q].dept = req[q].dept /\ req'[q].listed = req[q].listed
            /\ req[q].overtaken => req'[q].overtaken
            /\ Key(req'[q]) = Key(req[q])
  <2>1. req[q] \in Calls
    BY DEF QuotaInv, TypeOK
  <2>2. /\ req'[q].pc = req[q].pc /\ req'[q].scope = req[q].scope
        /\ req'[q].created = req[q].created /\ req'[q].owner = req[q].owner
        /\ req'[q].dept = req[q].dept /\ req'[q].listed = req[q].listed
        /\ req[q].overtaken => req'[q].overtaken
    BY <1>1, <1>2, <2>1 DEF Calls
  <2> QED BY <2>2 DEF Key
<1>i. req'[r].pc = "idle" /\ ~req'[r].created
  <2>1. req'[r] = Idle
    BY DEF End
  <2> QED BY <2>1 DEF Idle
<1>3. \A x \in reservations : x.by \in Requests
  BY DEF QuotaInv, TypeOK, Reservations
<1>4. IsFiniteSet(reservations) /\ IsFiniteSet(reservations')
  <2>1. reservations' \in SUBSET reservations
    BY <1>r
  <2> QED BY <2>1, FS_Subset DEF CeilingInv
<1>5. Ordered'
  BY <1>i, <1>2 DEF CeilingInv, Ordered
<1>6. ASSUME ~excused PROVE Charged' /\ CountsHold' /\ Admitted'
  <2>1. Charged'
    <3> SUFFICES ASSUME NEW q \in Requests
                 PROVE /\ Passed(req'[q], "tenant") /\ Limits["tenant"] > 0
                             => [key |-> <<"tenant", None>>, by |-> q] \in reservations'
                       /\ Passed(req'[q], "owner") /\ Limits["owner"] > 0
                             => [key |-> <<"owner", req'[q].owner>>, by |-> q] \in reservations'
      BY DEF Charged
    <3>1. CASE q = r
      BY <1>i, <3>1 DEF Passed
    <3>2. CASE q # r
      BY <1>r, <1>2, <1>6, <3>2 DEF CeilingInv, Charged, Passed
    <3> QED BY <3>1, <3>2
  <2>2. ASSUME NEW k \in CeilingKeys PROVE Count(k)' <= Count(k)
    <3>1. Listed(k)' \in SUBSET Listed(k)
      OBVIOUS
    <3>2. IsFiniteSet(Listed(k)) /\ Count(k) = Cardinality(Listed(k))
      BY <1>4, CountsFinite
    <3>3. Count(k)' = Cardinality(Listed(k)')
      BY DEF Count, Listed
    <3> QED BY <3>1, <3>2, <3>3, FS_Subset
  <2>3. ASSUME NEW k \in CeilingKeys
        PROVE Count(k) \in Nat /\ Count(k)' \in Nat
    <3>1. Listed(k)' \in SUBSET Listed(k)
      OBVIOUS
    <3>2. IsFiniteSet(Listed(k)) /\ Count(k) \in Nat
      BY <1>4, CountsFinite
    <3>3. Count(k)' = Cardinality(Listed(k)')
      BY DEF Count, Listed
    <3> QED BY <3>1, <3>2, <3>3, FS_Subset, FS_CardinalityType
  <2>4. ASSUME NEW k \in CeilingKeys
        PROVE /\ Cardinality(Pending(k)') <= Cardinality(Pending(k))
              /\ Cardinality(Pending(k)') \in Nat /\ Cardinality(Pending(k)) \in Nat
    <3>1. Pending(k)' \in SUBSET Pending(k)
      BY <1>r, <1>2, <1>3 DEF Pending
    <3> QED BY <1>4, <3>1, CountsFinite, FS_Subset, FS_CardinalityType
  <2>5. Admitted'
    <3> SUFFICES ASSUME NEW k \in CeilingKeys, Limits[k[1]] > 0
                 PROVE Count(k)' + Cardinality(Pending(k)') <= Limits[k[1]]
      BY DEF Admitted
    <3>1. Count(k) + Cardinality(Pending(k)) <= Limits[k[1]]
      BY <1>6 DEF CeilingInv, Admitted
    <3>2. Limits[k[1]] \in Nat
      BY QuotaAssumption DEF CeilingKeys, Scopes
    <3> QED BY <2>2, <2>3, <2>4, <3>1, <3>2
  <2>6. CountsHold'
    <3> SUFFICES ASSUME NEW q \in Requests, NEW k \in CeilingKeys,
                        req'[q].pc = "reserve", ~req'[q].overtaken, Key(req'[q]) = k, Limits[k[1]] > 0
                 PROVE Count(k)' <= req'[q].listed + Cardinality(Visible(k)')
      BY DEF CountsHold
    <3>1. q # r
      BY <1>i
    <3>2. /\ req[q].pc = "reserve" /\ ~req[q].overtaken /\ Key(req[q]) = k
          /\ req'[q].listed = req[q].listed /\ req[q].listed \in Nat
      <4>1. req[q] \in Calls
        BY DEF QuotaInv, TypeOK
      <4> QED BY <1>2, <3>1, <4>1 DEF Calls
    <3>3. Count(k) <= req[q].listed + Cardinality(Visible(k))
      BY <1>6, <3>2 DEF CeilingInv, CountsHold
    <3>4. ~(req[r].created /\ k \in {x.key : x \in Held(r)})
      <4> SUFFICES ASSUME req[r].created, k \in {x.key : x \in Held(r)} PROVE FALSE
        OBVIOUS
      <4>1. req'[q] = [req[q] EXCEPT !.overtaken = TRUE]
        BY <3>1, <3>2 DEF End
      <4>2. req[q] \in Calls
        BY DEF QuotaInv, TypeOK
      <4> QED BY <4>1, <4>2 DEF Calls
    <3>5. Visible(k)' = Visible(k)
      <4>1. \A x \in Visible(k) : x.by # r
        BY <3>4 DEF Visible, Held
      <4> QED BY <1>r, <1>2, <1>3, <4>1 DEF Visible
    <3>6. Cardinality(Visible(k)) \in Nat
      BY <1>4, CountsFinite
    <3> QED BY <2>2, <2>3, <3>2, <3>3, <3>5, <3>6
  <2> QED BY <2>1, <2>5, <2>6
<1> QED BY <1>4, <1>5, <1>6 DEF CeilingInv

\* An admission: the count, which nothing overtook, and the reservations leave
\* room for one more.
LEMMA ReserveUnder ==
    ASSUME QuotaInv, CeilingInv, NEW r \in Requests,
           req[r].pc = "reserve", HasRoom(req[r]),
           reservations' = reservations \cup {[key |-> Key(req[r]), by |-> r]},
           req' = [req EXCEPT ![r] = Advance(req[r])],
           excused' = (excused \/ req[r].overtaken), UNCHANGED apps
    PROVE CeilingInv'
<1> DEFINE new == [key |-> Key(req[r]), by |-> r]
           c == Advance(req[r])
<1>c. /\ req[r] \in Calls /\ c \in Calls /\ c.pc \in {"count", "put"}
      /\ c.owner = req[r].owner /\ c.created = req[r].created
      /\ c.scope = NextScope[req[r].scope]
      /\ c.pc = "put" <=> req[r].scope = "department"
  <2>1. req[r] \in Calls
    BY DEF QuotaInv, TypeOK
  <2> QED BY <2>1, AdvanceTyped DEF Advance, Calls
<1>k. /\ req[r].scope \in Scopes /\ ~req[r].created
      /\ c.scope = CASE req[r].scope = "tenant" -> "owner" [] OTHER -> "department"
      /\ Key(req[r]) = CASE req[r].scope = "tenant" -> <<"tenant", None>>
                         [] req[r].scope = "owner" -> <<"owner", req[r].owner>>
                         [] OTHER -> <<"department", req[r].dept>>
  <2>1. req[r].scope \in Scopes
    BY <1>c DEF Calls
  <2>2. ~req[r].created
    BY DEF CeilingInv, Ordered
  <2>3. /\ NextScope["tenant"] = "owner" /\ NextScope["owner"] = "department"
        /\ NextScope["department"] = "department"
    BY DEF NextScope
  <2> QED BY <1>c, <2>1, <2>2, <2>3 DEF Scopes, Key
<1> HIDE DEF c
<1>1. \A q \in Requests : req'[q] = IF q = r THEN c ELSE req[q]
  BY DEF QuotaInv, TypeOK, c
<1>2. \A x \in reservations : x.by \in Requests
  BY DEF QuotaInv, TypeOK, Reservations
<1>3. IsFiniteSet(reservations) /\ IsFiniteSet(reservations')
  BY FS_AddElement DEF CeilingInv
<1>4. Ordered'
  BY <1>1, <1>c, <1>k DEF CeilingInv, Ordered
<1>5. \A x \in reservations' : req'[x.by].created = req[x.by].created
  BY <1>1, <1>2, <1>c
<1>6. \A k : Count(k)' = Count(k) /\ Visible(k)' = Visible(k)
  BY <1>5, <1>k DEF Count, Visible
<1>7. \A k : Pending(k)' = IF k = Key(req[r]) THEN Pending(k) \cup {new} ELSE Pending(k)
  BY <1>5, <1>k DEF Pending
<1>8. ASSUME ~excused, ~req[r].overtaken PROVE Charged' /\ CountsHold' /\ Admitted'
  <2>1. Charged'
    <3> SUFFICES ASSUME NEW q \in Requests
                 PROVE /\ Passed(req'[q], "tenant") /\ Limits["tenant"] > 0
                             => [key |-> <<"tenant", None>>, by |-> q] \in reservations'
                       /\ Passed(req'[q], "owner") /\ Limits["owner"] > 0
                             => [key |-> <<"owner", req'[q].owner>>, by |-> q] \in reservations'
      BY DEF Charged
    <3>0. Charged
      BY <1>8 DEF CeilingInv
    <3>1. CASE q # r
      BY <1>1, <3>0, <3>1 DEF Charged, Passed
    <3>2. CASE q = r
      <4>1. Passed(req[r], "tenant") \/ req[r].scope = "tenant"
        BY DEF Passed
      <4>2. Passed(c, "owner") => Passed(req[r], "owner") \/ req[r].scope = "owner"
        BY <1>k DEF Passed, Scopes
      <4> QED BY <1>1, <1>c, <1>k, <3>0, <3>2, <4>1, <4>2 DEF Charged
    <3> QED BY <3>1, <3>2
  <2>2. CountsHold'
    <3> SUFFICES ASSUME NEW q \in Requests, NEW k \in CeilingKeys,
                        req'[q].pc = "reserve", ~req'[q].overtaken, Key(req'[q]) = k, Limits[k[1]] > 0
                 PROVE Count(k) <= req'[q].listed + Cardinality(Visible(k))
      BY <1>6 DEF CountsHold
    <3>1. q # r
      BY <1>1, <1>c
    <3> QED BY <1>1, <1>8, <3>1 DEF CeilingInv, CountsHold
  <2>3. Admitted'
    <3> SUFFICES ASSUME NEW k \in CeilingKeys, Limits[k[1]] > 0
                 PROVE Count(k) + Cardinality(Pending(k)') <= Limits[k[1]]
      BY <1>6 DEF Admitted
    <3>0. Count(k) + Cardinality(Pending(k)) <= Limits[k[1]]
      BY <1>8 DEF CeilingInv, Admitted
    <3>1. CASE k # Key(req[r])
      BY <1>7, <3>0, <3>1
    <3>2. CASE k = Key(req[r])
      <4>1. Ceiling(req[r]) = Limits[k[1]]
        BY <1>k, <3>2 DEF CeilingKeys, Ceiling, Scopes
      <4>2. Count(k) <= req[r].listed + Cardinality(Visible(k))
        BY <1>8, <3>2 DEF CeilingInv, CountsHold
      <4>3. req[r].listed + reservedCount(k) < Limits[k[1]]
        BY <3>2, <4>1 DEF HasRoom
      <4>4. /\ Count(k) \in Nat /\ Cardinality(Visible(k)) \in Nat
            /\ IsFiniteSet(Pending(k)) /\ Cardinality(Pending(k)) \in Nat
            /\ reservedCount(k) = Cardinality(Pending(k)) + Cardinality(Visible(k))
        BY <1>3, CountsFinite
      <4>5. Cardinality(Pending(k)') <= Cardinality(Pending(k)) + 1
            /\ Cardinality(Pending(k)') \in Nat
        <5>1. Pending(k)' = Pending(k) \cup {new}
          BY <1>7, <3>2
        <5>2. Cardinality(Pending(k) \cup {new})
                 = IF new \in Pending(k) THEN Cardinality(Pending(k)) ELSE Cardinality(Pending(k)) + 1
          BY <4>4, FS_AddElement
        <5> QED BY <4>4, <5>1, <5>2
      <4>6. req[r].listed \in Nat /\ Limits[k[1]] \in Nat
        BY <1>c, QuotaAssumption DEF Calls, CeilingKeys, Scopes
      <4> QED BY <4>2, <4>3, <4>4, <4>5, <4>6
    <3> QED BY <3>1, <3>2
  <2> QED BY <2>1, <2>2, <2>3
<1> QED BY <1>3, <1>4, <1>8 DEF CeilingInv

\* A creation turns the deploy's pending reservation into a visible app.
LEMMA CreateUnder ==
    ASSUME QuotaInv, CeilingInv, NEW r \in Requests,
           req[r].pc = "create", apps[req[r].name] = None,
           apps' = [apps EXCEPT ![req[r].name] = [owner |-> req[r].owner, dept |-> req[r].dept]],
           req' = [req EXCEPT ![r].pc = "release", ![r].created = TRUE],
           UNCHANGED <<reservations, excused>>
    PROVE CeilingInv'
<1> DEFINE c == [req[r] EXCEPT !.pc = "release", !.created = TRUE]
           n == req[r].name
<1>t. /\ req \in [Requests -> Calls] /\ apps \in [Names -> Apps \cup {None}]
      /\ n \in Names /\ req[r].owner \in Owners /\ req[r].scope = "department"
      /\ ~req[r].created
  BY DEF QuotaInv, TypeOK, Underway, CeilingInv, Ordered
<1>c. /\ c.pc = "release" /\ c.created /\ c.scope = "department" /\ c.owner = req[r].owner
  BY <1>t DEF Calls
<1>1. \A q \in Requests : req'[q] = IF q = r THEN c ELSE req[q]
  BY <1>t
<1> HIDE DEF c
<1>2. \A x \in reservations : x.by \in Requests
  BY DEF QuotaInv, TypeOK, Reservations
<1>3. IsFiniteSet(reservations) /\ IsFiniteSet(reservations')
  BY DEF CeilingInv
<1>4. Ordered'
  BY <1>1, <1>c DEF CeilingInv, Ordered
<1>5. ASSUME NEW k \in CeilingKeys
      PROVE Listed(k)' \subseteq IF k = <<"tenant", None>> \/ k = <<"owner", req[r].owner>>
                                 THEN Listed(k) \cup {n} ELSE Listed(k)
  <2>1. \A m \in Names : apps'[m] = IF m = n THEN [owner |-> req[r].owner, dept |-> req[r].dept]
                                    ELSE apps[m]
    BY <1>t
  <2>2. CASE k = <<"tenant", None>>
    BY <2>1, <2>2 DEF Listed
  <2>3. ASSUME NEW o \in Owners, k = <<"owner", o>>, o = req[r].owner
        PROVE Listed(k)' \subseteq Listed(k) \cup {n}
    BY <2>1, <2>3 DEF Listed
  <2>4. ASSUME NEW o \in Owners, k = <<"owner", o>>, o # req[r].owner
        PROVE Listed(k)' \subseteq Listed(k)
    BY <2>1, <2>4 DEF Listed
  <2> QED BY <2>2, <2>3, <2>4 DEF CeilingKeys
<1>6. \A k : /\ Pending(k)' = Pending(k) \ {[key |-> k, by |-> r]}
             /\ Visible(k)' = Visible(k) \cup ({[key |-> k, by |-> r]} \cap reservations)
  <2>1. \A x \in reservations : x = [key |-> x.key, by |-> x.by]
    BY DEF QuotaInv, TypeOK, Reservations
  <2> QED BY <1>1, <1>2, <1>c, <1>t, <2>1 DEF Pending, Visible
<1>7. ASSUME ~excused PROVE Charged' /\ CountsHold' /\ Admitted'
  <2>1. Charged'
    BY <1>1, <1>7, <1>c, <1>t DEF CeilingInv, Charged, Passed
  <2>2. ASSUME NEW k \in CeilingKeys
        PROVE /\ Count(k) \in Nat /\ Count(k)' \in Nat
              /\ Cardinality(Pending(k)) \in Nat /\ Cardinality(Pending(k)') \in Nat
              /\ Cardinality(Visible(k)) \in Nat /\ Cardinality(Visible(k)') \in Nat
              /\ Limits[k[1]] > 0 =>
                    /\ Count(k)' + Cardinality(Pending(k)') <= Count(k) + Cardinality(Pending(k))
                    /\ Count(k)' + Cardinality(Visible(k)) <= Count(k) + Cardinality(Visible(k)')
    <3> DEFINE x == [key |-> k, by |-> r]
               mine == k = <<"tenant", None>> \/ k = <<"owner", req[r].owner>>
    <3>1. /\ IsFiniteSet(Listed(k)) /\ Count(k) = Cardinality(Listed(k)) /\ Count(k) \in Nat
          /\ IsFiniteSet(Pending(k)) /\ Cardinality(Pending(k)) \in Nat
          /\ IsFiniteSet(Visible(k)) /\ Cardinality(Visible(k)) \in Nat
      BY <1>3, CountsFinite
    <3>2. Count(k)' = Cardinality(Listed(k)')
      BY DEF Count, Listed
    <3>3. Limits[k[1]] > 0 /\ mine => x \in reservations
      <4>1. Passed(req[r], "tenant") /\ Passed(req[r], "owner") /\ Charged
        BY <1>7, <1>t DEF CeilingInv, Passed
      <4>2. CASE k = <<"tenant", None>>
        BY <4>1, <4>2 DEF Charged
      <4>3. CASE k = <<"owner", req[r].owner>>
        BY <4>1, <4>3 DEF Charged
      <4> QED BY <4>2, <4>3
    <3>4. x \in reservations => x \in Pending(k) /\ x \notin Visible(k)
      BY <1>t DEF Pending, Visible
    <3>5. x \in Pending(k) => x \in reservations
      BY DEF Pending
    <3>6. Count(k)' \in Nat /\ Count(k)' <= IF mine THEN Count(k) + 1 ELSE Count(k)
      <4>1. CASE mine
        <5>1. Listed(k)' \in SUBSET (Listed(k) \cup {n})
          BY <1>5, <4>1
        <5>2. /\ IsFiniteSet(Listed(k) \cup {n})
              /\ Cardinality(Listed(k) \cup {n})
                    = IF n \in Listed(k) THEN Cardinality(Listed(k)) ELSE Cardinality(Listed(k)) + 1
          BY <3>1, FS_AddElement
        <5>3. /\ Cardinality(Listed(k)') <= Cardinality(Listed(k) \cup {n})
              /\ Cardinality(Listed(k)') \in Nat
          BY <5>1, <5>2, FS_Subset, FS_CardinalityType
        <5> QED BY <3>1, <3>2, <4>1, <5>2, <5>3
      <4>2. CASE ~mine
        <5>1. Listed(k)' \in SUBSET Listed(k)
          BY <1>5, <4>2
        <5>2. /\ Cardinality(Listed(k)') <= Cardinality(Listed(k))
              /\ Cardinality(Listed(k)') \in Nat
          BY <3>1, <5>1, FS_Subset, FS_CardinalityType
        <5> QED BY <3>1, <3>2, <4>2, <5>2
      <4> QED BY <4>1, <4>2
    <3>7. /\ Cardinality(Pending(k)') = IF x \in Pending(k) THEN Cardinality(Pending(k)) - 1
                                        ELSE Cardinality(Pending(k))
          /\ Cardinality(Pending(k)') \in Nat
      <4>1. Pending(k)' = Pending(k) \ {x}
        BY <1>6
      <4> QED BY ZenonT(40), <3>1, <4>1, FS_RemoveElement, FS_CardinalityType
    <3>8. Cardinality(Visible(k)') = IF x \in reservations THEN Cardinality(Visible(k)) + 1
                                     ELSE Cardinality(Visible(k))
      <4>1. CASE x \in reservations
        <5>1. Visible(k)' = Visible(k) \cup {x}
          BY <1>6, <4>1
        <5> QED BY <3>1, <3>4, <4>1, <5>1, FS_AddElement
      <4>2. CASE x \notin reservations
        <5>1. Visible(k)' = Visible(k)
          BY <1>6, <4>2
        <5> QED BY <4>2, <5>1
      <4> QED BY <4>1, <4>2
    <3> HIDE DEF x, mine
    <3> QED BY <3>1, <3>3, <3>4, <3>5, <3>6, <3>7, <3>8
  <2>3. Admitted'
    <3> SUFFICES ASSUME NEW k \in CeilingKeys, Limits[k[1]] > 0
                 PROVE Count(k)' + Cardinality(Pending(k)') <= Limits[k[1]]
      BY DEF Admitted
    <3>1. Count(k) + Cardinality(Pending(k)) <= Limits[k[1]]
      BY <1>7 DEF CeilingInv, Admitted
    <3>2. Limits[k[1]] \in Nat
      BY QuotaAssumption DEF CeilingKeys, Scopes
    <3> QED BY <2>2, <3>1, <3>2
  <2>4. CountsHold'
    <3> SUFFICES ASSUME NEW q \in Requests, NEW k \in CeilingKeys, req'[q].pc = "reserve",
                        ~req'[q].overtaken, Key(req'[q]) = k, Limits[k[1]] > 0
                 PROVE Count(k)' <= req'[q].listed + Cardinality(Visible(k)')
      BY DEF CountsHold
    <3>1. req'[q] = req[q]
      BY <1>1, <1>c
    <3>2. Count(k) <= req[q].listed + Cardinality(Visible(k))
      BY <1>7, <3>1 DEF CeilingInv, CountsHold
    <3>3. req[q].listed \in Nat
      BY <1>t DEF Calls
    <3> QED BY <2>2, <3>1, <3>2, <3>3
  <2> QED BY <2>1, <2>3, <2>4
<1> QED BY <1>3, <1>4, <1>7 DEF CeilingInv

\* A deletion only makes room.
LEMMA DeleteUnder ==
    ASSUME QuotaInv, CeilingInv, UNCHANGED <<reservations, req, excused>>,
           \A k \in CeilingKeys : Listed(k)' \subseteq Listed(k)
    PROVE CeilingInv'
<1>1. IsFiniteSet(reservations)
  BY DEF CeilingInv
<1>2. \A k : Pending(k)' = Pending(k) /\ Visible(k)' = Visible(k)
  BY DEF Pending, Visible
<1>3. ASSUME NEW k \in CeilingKeys
      PROVE Count(k) \in Nat /\ Count(k)' \in Nat /\ Count(k)' <= Count(k)
  <2>1. Listed(k)' \in SUBSET Listed(k)
    OBVIOUS
  <2>2. IsFiniteSet(Listed(k)) /\ Count(k) = Cardinality(Listed(k)) /\ Count(k) \in Nat
    BY <1>1, CountsFinite
  <2>3. Count(k)' = Cardinality(Listed(k)')
    BY DEF Count, Listed
  <2> QED BY <2>1, <2>2, <2>3, FS_Subset, FS_CardinalityType
<1>4. IsFiniteSet(reservations)' /\ Ordered' /\ (Charged => Charged')
  BY DEF CeilingInv, Ordered, Charged
<1>5. ASSUME ~excused PROVE CountsHold'
  <2> SUFFICES ASSUME NEW q \in Requests, NEW k \in CeilingKeys,
                      req'[q].pc = "reserve", ~req'[q].overtaken, Key(req'[q]) = k, Limits[k[1]] > 0
               PROVE Count(k)' <= req'[q].listed + Cardinality(Visible(k)')
    BY DEF CountsHold
  <2>1. Count(k) <= req[q].listed + Cardinality(Visible(k))
    BY <1>5 DEF CeilingInv, CountsHold
  <2>2. req[q].listed \in Nat /\ Cardinality(Visible(k)) \in Nat
    BY <1>1, CountsFinite DEF QuotaInv, TypeOK, Calls
  <2> QED BY <1>2, <1>3, <2>1, <2>2
<1>6. ASSUME ~excused PROVE Admitted'
  <2> SUFFICES ASSUME NEW k \in CeilingKeys, Limits[k[1]] > 0
               PROVE Count(k)' + Cardinality(Pending(k)') <= Limits[k[1]]
    BY DEF Admitted
  <2>1. Count(k) + Cardinality(Pending(k)) <= Limits[k[1]]
    BY <1>6 DEF CeilingInv, Admitted
  <2>2. Limits[k[1]] \in Nat /\ Cardinality(Pending(k)) \in Nat
    BY <1>1, CountsFinite, QuotaAssumption DEF CeilingKeys, Scopes
  <2> QED BY <1>2, <1>3, <2>1, <2>2
<1> QED BY <1>4, <1>5, <1>6 DEF CeilingInv

\* A scope without a ceiling is passed without a reservation.
LEMMA AdvanceUnder ==
    ASSUME QuotaInv, CeilingInv, NEW r \in Requests, req[r].pc = "count",
           Ceiling(req[r]) = 0, req' = [req EXCEPT ![r] = Advance(req[r])],
           UNCHANGED <<apps, reservations, excused>>
    PROVE CeilingInv'
<1> DEFINE c == Advance(req[r])
<1>1. req[r] \in Calls /\ ~req[r].created
  BY DEF QuotaInv, TypeOK, CeilingInv, Ordered
<1>2. /\ c \in Calls /\ c.pc \in {"count", "put"} /\ c.owner = req[r].owner
      /\ c.created = req[r].created /\ c.scope = NextScope[req[r].scope]
      /\ c.pc = "put" => req[r].scope = "department"
  BY <1>1, AdvanceTyped DEF Advance, Calls
<1>3. /\ req[r].scope \in Scopes /\ NextScope["tenant"] = "owner"
      /\ NextScope["owner"] = "department" /\ NextScope["department"] = "department"
  BY <1>1 DEF Calls, NextScope
<1>4. /\ req[r].scope = "tenant" => Limits["tenant"] = 0
      /\ req[r].scope = "owner" => Limits["owner"] = 0
  BY DEF Ceiling
<1>5. Passed(c, "tenant") /\ Limits["tenant"] > 0 => Passed(req[r], "tenant")
  BY <1>4 DEF Passed
<1>6. Passed(c, "owner") /\ Limits["owner"] > 0 => Passed(req[r], "owner")
  BY <1>2, <1>3, <1>4 DEF Passed, Scopes
<1>7. ~excused => Charged
  BY DEF CeilingInv
<1> HIDE DEF c
<1>8. req' = [req EXCEPT ![r] = c]
  BY DEF c
<1>9. /\ c.pc \in {"put", "create", "release"} => c.scope = "department"
      /\ ~c.created /\ c.pc # "reserve"
  BY <1>1, <1>2, <1>3
<1>10. /\ ~excused /\ Passed(c, "tenant") /\ Limits["tenant"] > 0
             => [key |-> <<"tenant", None>>, by |-> r] \in reservations
       /\ ~excused /\ Passed(c, "owner") /\ Limits["owner"] > 0
             => [key |-> <<"owner", c.owner>>, by |-> r] \in reservations
  BY <1>2, <1>5, <1>6, <1>7 DEF Charged
<1> QED BY <1>2, <1>8, <1>9, <1>10, StayUnder

\* The listing itself: nothing is missing from it yet.
LEMMA ListUnder ==
    ASSUME QuotaInv, CeilingInv, NEW r \in Requests, req[r].pc = "count",
           req' = [req EXCEPT ![r].pc = "reserve", ![r].listed = Count(Key(req[r]))],
           UNCHANGED <<apps, reservations, excused>>
    PROVE CeilingInv'
<1> DEFINE c == [req[r] EXCEPT !.pc = "reserve", !.listed = Count(Key(req[r]))]
<1>1. req[r] \in Calls /\ ~req[r].created
  BY DEF QuotaInv, TypeOK, CeilingInv, Ordered
<1>2. /\ c \in Calls /\ c.pc = "reserve" /\ c.owner = req[r].owner /\ c.dept = req[r].dept
      /\ c.created = req[r].created /\ c.scope = req[r].scope
      /\ c.listed = Count(Key(req[r]))
  BY <1>1, CountNat DEF Calls
<1>3. req' = [req EXCEPT ![r] = c]
  BY <1>1 DEF QuotaInv, TypeOK
<1> HIDE DEF c
<1>4. Key(c) = Key(req[r])
  BY <1>2 DEF Key
<1>5. \A k : Count(k) \in Nat /\ Cardinality(Visible(k)) \in Nat
  BY CountsFinite DEF CeilingInv
<1>6. Count(Key(c)) <= c.listed + Cardinality(Visible(Key(c)))
  BY <1>2, <1>4, <1>5
<1>7. /\ Passed(c, "tenant") => Passed(req[r], "tenant")
      /\ Passed(c, "owner") => Passed(req[r], "owner")
  BY <1>2 DEF Passed
<1>8. ~excused => Charged
  BY DEF CeilingInv
<1> QED BY <1>1, <1>2, <1>3, <1>6, <1>7, <1>8, StayUnder DEF Charged

\* Every step keeps the ceilings.
LEMMA CeilingStep == QuotaInv /\ CeilingInv /\ [Next]_vars => CeilingInv'
<1> SUFFICES ASSUME QuotaInv, CeilingInv, [Next]_vars PROVE CeilingInv'
  OBVIOUS
<1>t. req \in [Requests -> Calls] /\ apps \in [Names -> Apps \cup {None}]
  BY DEF QuotaInv, TypeOK
<1>u. UNCHANGED apps => \A k \in CeilingKeys : Listed(k)' \subseteq Listed(k)
  BY DEF Listed
<1>o. \A q \in Requests : req[q].created => req[q].pc = "release"
  BY DEF CeilingInv, Ordered
<1>1. ASSUME NEW r \in Requests, Deploy(r) PROVE CeilingInv'
  <2>0. PICK n \in Names, o \in Owners : \E d \in {Department[o], None} :
           req' = [req EXCEPT ![r] = Opened(n, o, d)]
    BY <1>1 DEF Deploy
  <2>1. PICK d \in {Department[o], None} : req' = [req EXCEPT ![r] = Opened(n, o, d)]
    BY <2>0
  <2> DEFINE c == Opened(n, o, d)
  <2>2. d \in Departments /\ apps[n] \in Apps \cup {None}
    BY <1>t DEF Departments
  <2>3. c \in Calls /\ c.scope = "tenant" /\ ~c.created /\ c.pc \in {"count", "update"}
    BY <2>2, IdleTyped DEF Opened, Calls, Idle
  <2>4. req' = [req EXCEPT ![r] = c]
    BY <2>1
  <2> HIDE DEF c
  <2>5. ~Passed(c, "tenant") /\ ~Passed(c, "owner")
    BY <2>3 DEF Passed
  <2>6. ~req[r].created /\ c.created = req[r].created
    <3>1. req[r].created \in BOOLEAN /\ c.created \in BOOLEAN
      BY <1>t, <2>3 DEF Calls
    <3> QED BY <1>1, <1>o, <2>3, <3>1 DEF Deploy
  <2> QED BY <1>1, <2>3, <2>4, <2>5, <2>6, StayUnder DEF Deploy
<1>2. ASSUME NEW r \in Requests, ListApps(r) PROVE CeilingInv'
  <2>1. CASE End(r)
    BY <1>2, <1>u, <2>1, EndUnder DEF ListApps
  <2>2. CASE /\ Ceiling(req[r]) = 0 /\ req' = [req EXCEPT ![r] = Advance(req[r])]
             /\ UNCHANGED reservations
    BY <1>2, <2>2, AdvanceUnder DEF ListApps
  <2>3. CASE /\ req' = [req EXCEPT ![r].pc = "reserve", ![r].listed = Count(Key(req[r]))]
             /\ UNCHANGED reservations
    BY <1>2, <2>3, ListUnder DEF ListApps
  <2> QED BY <1>2, <2>1, <2>2, <2>3 DEF ListApps
<1>3. ASSUME NEW r \in Requests, TryReserve(r) PROVE CeilingInv'
  <2>1. CASE End(r) /\ UNCHANGED excused
    BY <1>3, <1>u, <2>1, EndUnder DEF TryReserve
  <2>2. CASE /\ HasRoom(req[r]) /\ req' = [req EXCEPT ![r] = Advance(req[r])]
             /\ reservations' = reservations \cup {[key |-> Key(req[r]), by |-> r]}
             /\ excused' = (excused \/ req[r].overtaken)
    BY <1>3, <2>2, ReserveUnder DEF TryReserve
  <2> QED BY <1>3, <2>1, <2>2 DEF TryReserve
<1>4. ASSUME NEW r \in Requests, StoreSource(r) PROVE CeilingInv'
  <2>1. CASE End(r)
    BY <1>4, <1>u, <2>1, EndUnder DEF StoreSource
  <2>2. CASE req' = [req EXCEPT ![r].pc = "create"] /\ UNCHANGED reservations
    <3> DEFINE c == [req[r] EXCEPT !.pc = "create"]
    <3>1. /\ c \in Calls /\ c.pc = "create" /\ c.owner = req[r].owner
          /\ c.created = req[r].created /\ c.scope = req[r].scope
      BY <1>t DEF Calls
    <3>2. req' = [req EXCEPT ![r] = c]
      BY <2>2
    <3> HIDE DEF c
    <3>3. req[r].scope = "department" /\ ~req[r].created /\ (~excused => Charged)
      BY <1>4, <1>o DEF StoreSource, CeilingInv, Ordered
    <3>4. Passed(req[r], "tenant") /\ Passed(req[r], "owner")
      BY <1>4, <3>3 DEF StoreSource, Passed
    <3> QED BY <1>4, <2>2, <3>1, <3>2, <3>3, <3>4, StayUnder DEF StoreSource, Charged
  <2> QED BY <1>4, <2>1, <2>2 DEF StoreSource
<1>5. ASSUME NEW r \in Requests, CreateApp(r) PROVE CeilingInv'
  <2>1. CASE UNCHANGED apps /\ End(r)
    BY <1>5, <1>u, <2>1, EndUnder DEF CreateApp
  <2>2. CASE /\ apps[req[r].name] = None
             /\ apps' = [apps EXCEPT ![req[r].name] = [owner |-> req[r].owner, dept |-> req[r].dept]]
             /\ req' = [req EXCEPT ![r].pc = "release", ![r].created = TRUE]
             /\ UNCHANGED reservations
    BY <1>5, <2>2, CreateUnder DEF CreateApp
  <2> QED BY <1>5, <2>1, <2>2 DEF CreateApp
<1>6. ASSUME NEW r \in Requests, UpdateApp(r) PROVE CeilingInv'
  <2> DEFINE a == [apps[req[r].name] EXCEPT !.dept = IF req[r].dept = None THEN @ ELSE req[r].dept]
  <2>1. CASE apps[req[r].name] = req[r].seen /\ apps' = [apps EXCEPT ![req[r].name] = a]
    <3>1. apps[req[r].name] \in Apps
      BY <1>6, <1>t, <2>1 DEF UpdateApp, QuotaInv, Underway
    <3>2. a.owner = apps[req[r].name].owner
      BY <3>1 DEF Apps
    <3> HIDE DEF a
    <3>3. \A n \in Names : /\ apps'[n] # None => apps[n] # None
                           /\ apps[n] # None => apps'[n].owner = apps[n].owner
      <4> SUFFICES ASSUME NEW n \in Names
                   PROVE /\ apps'[n] # None => apps[n] # None
                         /\ apps[n] # None => apps'[n].owner = apps[n].owner
        OBVIOUS
      <4>1. CASE n = req[r].name
        <5>1. apps'[n] = a /\ apps[n] = req[r].seen /\ req[r].seen # None
          BY <1>6, <1>t, <2>1, <4>1 DEF UpdateApp, QuotaInv, Underway
        <5> QED BY <3>2, <4>1, <5>1
      <4>2. CASE n # req[r].name
        BY <1>t, <2>1, <4>2
      <4> QED BY <4>1, <4>2
    <3>4. \A k \in CeilingKeys : Listed(k)' \subseteq Listed(k)
      BY <3>3 DEF Listed, CeilingKeys
    <3> QED BY <1>6, <3>4, EndUnder DEF UpdateApp
  <2>2. CASE UNCHANGED apps
    BY <1>6, <1>u, <2>2, EndUnder DEF UpdateApp
  <2> QED BY <1>6, <2>1, <2>2 DEF UpdateApp
<1>7. ASSUME NEW r \in Requests, Release(r) PROVE CeilingInv'
  BY <1>7, <1>u, EndUnder DEF Release
<1>8. CASE DeleteApp
  <2>1. PICK n \in Names : apps' = [apps EXCEPT ![n] = None]
    BY <1>8 DEF DeleteApp
  <2>2. \A m \in Names : apps'[m] = IF m = n THEN None ELSE apps[m]
    BY <1>t, <2>1
  <2>3. \A k \in CeilingKeys : Listed(k)' \subseteq Listed(k)
    BY <2>2 DEF Listed
  <2> QED BY <1>8, <2>3, DeleteUnder DEF DeleteApp
<1>9. CASE Expire
  <2>1. reservations' \in SUBSET reservations /\ UNCHANGED req /\ excused' = TRUE
    BY <1>9 DEF Expire
  <2>2. IsFiniteSet(reservations')
    BY <2>1, FS_Subset DEF CeilingInv
  <2> QED BY <2>1, <2>2 DEF CeilingInv, Ordered
<1>10. CASE UNCHANGED vars
  BY <1>10, <1>u, DeleteUnder DEF vars
<1> QED BY <1>1, <1>2, <1>3, <1>4, <1>5, <1>6, <1>7, <1>8, <1>9, <1>10 DEF Next

\* Without an excuse no ceiling is passed: however Authorize's listings,
\* tryReserve, Create and the releases of any number of deploys interleave, the
\* live apps of the tenant and of each owner stay within MaxApps and
\* MaxAppsPerOwner unless a count was used after a deploy it had missed was
\* created and released, or a reservation outlived reservationTTL.
THEOREM CeilingsHold == Spec => []CeilingUnlessOvertaken
<1>1. Init => QuotaInv /\ CeilingInv
  BY QuotaInit, CeilingInit
<1>2. QuotaInv /\ CeilingInv /\ [Next]_vars => QuotaInv' /\ CeilingInv'
  BY QuotaStep, CeilingStep
<1>3. CeilingInv => CeilingUnlessOvertaken
  <2> SUFFICES ASSUME CeilingInv, ~excused, NEW k \in CeilingKeys, Limits[k[1]] > 0
               PROVE Count(k) <= Limits[k[1]]
    BY DEF CeilingUnlessOvertaken, CeilingKeys
  <2>1. Count(k) + Cardinality(Pending(k)) <= Limits[k[1]]
    BY DEF CeilingInv, Admitted
  <2>2. Count(k) \in Nat /\ Cardinality(Pending(k)) \in Nat
    BY CountsFinite DEF CeilingInv
  <2>3. Limits[k[1]] \in Nat
    BY QuotaAssumption DEF CeilingKeys, Scopes
  <2> QED BY <2>1, <2>2, <2>3
<1> QED BY <1>1, <1>2, <1>3, PTL DEF Spec
=============================================================================
