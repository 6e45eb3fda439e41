--------------------------- MODULE PlatformProofs ---------------------------
(***************************************************************************)
(* The garbage collector and the request handlers, for every set of names, *)
(* users and calls.  Each part has an inductive invariant of its own; a    *)
(* step of one leaves the variables of the other alone.                    *)
(***************************************************************************)
EXTENDS MCPlatform, FiniteSetTheorems, SequenceTheorems, TLAPS

-----------------------------------------------------------------------------
(* The collector.                                                          *)

\* Uids are given out in order, and an app that was there when the cycle listed
\* the apps is in its active set; a claim to be reaped is of a name that is not,
\* and was made for no app that is there now.  Before the claims are listed
\* this is so of every old claim of a name that is not active.
CollectorInv ==
    /\ GC!TypeOK
    /\ gc.pc = "idle" => gc.active = {}
    /\ gc.since <= uids
    /\ \A n \in GcNames :
          /\ live[n] # None => live[n] <= uids
          /\ gc.pc # "idle" /\ live[n] # None /\ n \notin gc.active => live[n] > gc.since
          /\ claims[n] # None => claims[n].app <= uids
          /\ gc.todo[n] # None
                => /\ gc.pc = "sweep" /\ n \notin gc.active
                   /\ gc.todo[n].app <= uids /\ gc.todo[n].app # live[n]
          /\ gc.pc = "listed" /\ n \notin gc.active /\ claims[n] # None /\ claims[n].old
                => claims[n].app # live[n]

\* The collector starts idle, with nothing listed.
LEMMA CollectorInit == Init => CollectorInv
<1> SUFFICES ASSUME GC!Init PROVE CollectorInv
    BY DEF Init
<1> USE PlatformAssumption DEF GC!Init, GC!Idle, GC!NoTodo
<1>1. gc \in GC!Cycles
    <2>1. GC!NoTodo \in [GcNames -> GC!Claims \cup {None}]
        OBVIOUS
    <2> QED
        BY <2>1 DEF GC!Cycles
<1>2. GC!TypeOK
    BY <1>1 DEF GC!TypeOK
<1> QED
    BY <1>2 DEF CollectorInv

\* No step of the rest of the cluster makes a listed claim live: a uid is not
\* given out twice.
LEMMA EnvironmentKeeps == CollectorInv /\ GC!Environment => CollectorInv'
<1> SUFFICES ASSUME CollectorInv, NEW n \in GcNames,
                    \/ GC!CreateApp(n) \/ GC!DeleteApp(n) \/ GC!EnsureClaim(n)
                    \/ GC!ReleaseClaim(n) \/ GC!Cascade(n) \/ GC!Ripen(n)
             PROVE  CollectorInv'
    BY DEF GC!Environment
<1> USE PlatformAssumption DEF CollectorInv, GC!TypeOK, GC!Cycles, GC!Claims
<1>1. CASE GC!CreateApp(n)
    BY <1>1 DEF GC!CreateApp
<1>2. CASE GC!DeleteApp(n)
    BY <1>2 DEF GC!DeleteApp
<1>3. CASE GC!EnsureClaim(n)
    BY <1>3 DEF GC!EnsureClaim
<1>4. CASE GC!ReleaseClaim(n) \/ GC!Cascade(n)
    BY <1>4 DEF GC!ReleaseClaim, GC!Cascade
<1>5. CASE GC!Ripen(n)
    <2>1. claims' = [claims EXCEPT ![n] = [claims[n] EXCEPT !.old = TRUE]]
        BY <1>5 DEF GC!Ripen
    <2>2. [claims[n] EXCEPT !.old = TRUE] \in GC!Claims
        BY <1>5 DEF GC!Ripen
    <2>3. claims' \in [GcNames -> GC!Claims \cup {None}]
        BY <2>1, <2>2
    <2>4. /\ claims'[n] # None => claims'[n].app = claims[n].app
          /\ \A m \in GcNames \ {n} : claims'[m] = claims[m]
        BY <2>1, <1>5 DEF GC!Ripen
    <2> QED
        BY <1>5, <2>3, <2>4 DEF GC!Ripen
<1> QED
    BY <1>1, <1>2, <1>3, <1>4, <1>5

\* A cycle lists apps before claims, so that what it hands on for reaping is
\* not live.
LEMMA CollectKeeps == CollectorInv /\ GC!Collect => CollectorInv'
<1> SUFFICES ASSUME CollectorInv, GC!Collect PROVE CollectorInv'
    OBVIOUS
<1> USE PlatformAssumption DEF CollectorInv, GC!TypeOK, GC!Cycles, GC!Claims
<1>1. CASE GC!ListActiveApps
    <2>1. CASE UNCHANGED gc
        BY <1>1, <2>1 DEF GC!ListActiveApps, GC!Fails
    <2>2. ASSUME gc' = [gc EXCEPT !.pc = "listed",
                                  !.active = @ \cup GC!Present,
                                  !.since = uids],
                 UNCHANGED errors
          PROVE  CollectorInv'
        <3>1. /\ gc'.pc = "listed" /\ gc'.todo = gc.todo
              /\ gc'.active = gc.active \cup GC!Present
              /\ gc'.since = uids
            BY <2>2
        <3>2. gc' \in GC!Cycles
            <4>1. gc.active \cup GC!Present \in SUBSET GcNames
                BY DEF GC!Present
            <4>2. gc \in GC!Cycles /\ uids \in 0..MaxUid
                OBVIOUS
            <4> QED
                BY <2>2, <4>1, <4>2
        <3>3. ASSUME NEW n \in GcNames, n \notin gc'.active
              PROVE  live[n] = None
            BY <3>1, <3>3 DEF GC!Present
        <3> QED
            BY <1>1, <2>2, <3>1, <3>2, <3>3 DEF GC!ListActiveApps
    <2> QED
        BY <1>1, <2>1, <2>2 DEF GC!ListActiveApps
<1>2. CASE GC!ListClaims
    <2>1. PICK listed \in SUBSET GcNames :
             /\ gc' = [gc EXCEPT !.pc = "sweep", !.todo = GC!Orphans(listed)]
             /\ \/ listed = GcNames /\ UNCHANGED errors
                \/ listed # GcNames /\ GC!Fails
        BY <1>2, Zenon DEF GC!ListClaims
    <2>2. /\ gc'.pc = "sweep" /\ gc'.active = gc.active /\ gc'.since = gc.since
          /\ gc'.todo = GC!Orphans(listed)
        BY <2>1
    <2>3. gc'.todo \in [GcNames -> GC!Claims \cup {None}]
        BY <2>2 DEF GC!Orphans
    <2>4. gc' \in GC!Cycles
        BY <2>1, <2>2, <2>3
    <2>5. ASSUME NEW n \in GcNames, gc'.todo[n] # None
          PROVE  gc'.todo[n].app <= uids /\ gc'.todo[n].app # live[n] /\ n \notin gc.active
        BY <1>2, <2>2, <2>5 DEF GC!ListClaims, GC!Orphans, GC!Orphan
    <2>6. errors' \in 0..MaxErrors
        BY <2>1 DEF GC!Fails
    <2> QED
        BY <1>2, <2>2, <2>4, <2>5, <2>6 DEF GC!ListClaims
<1>3. ASSUME NEW n \in GcNames, GC!Reap(n) PROVE CollectorInv'
    <2>1. gc' = [gc EXCEPT !.todo = [gc.todo EXCEPT ![n] = None]]
        BY <1>3 DEF GC!Reap
    <2>2. [gc.todo EXCEPT ![n] = None] \in [GcNames -> GC!Claims \cup {None}]
        OBVIOUS
    <2>3. gc' \in GC!Cycles
        BY <2>1, <2>2
    <2>4. /\ gc'.pc = gc.pc /\ gc'.active = gc.active /\ gc'.since = gc.since
          /\ \A m \in GcNames : gc'.todo[m] # None => gc'.todo[m] = gc.todo[m]
        BY <2>1
    <2>5. /\ claims' \in [GcNames -> GC!Claims \cup {None}]
          /\ \A m \in GcNames : claims'[m] # None => claims'[m] = claims[m]
        BY <1>3 DEF GC!Reap
    <2>6. errors' \in 0..MaxErrors
        BY <1>3 DEF GC!Reap, GC!Fails
    <2> QED
        BY <1>3, <2>3, <2>4, <2>5, <2>6 DEF GC!Reap
<1>4. CASE GC!EndCycle
    BY <1>4 DEF GC!EndCycle, GC!Idle, GC!NoTodo
<1> QED
    BY <1>1, <1>2, <1>3, <1>4 DEF GC!Collect

\* The collector's invariant holds in every state of either part.
LEMMA CollectorStep == CollectorInv /\ [Next]_vars => CollectorInv'
<1> SUFFICES ASSUME CollectorInv, [Next]_vars PROVE CollectorInv'
    OBVIOUS
<1>1. CASE UNCHANGED gcVars
    BY <1>1 DEF gcVars, CollectorInv, GC!TypeOK
<1>2. CASE GC!Next
    BY <1>2, EnvironmentKeeps, CollectKeeps DEF GC!Next
<1> QED
    BY <1>1, <1>2 DEF Next, vars

\* "never touches a claim whose VibedApp is live" (collector.go): a delete of
\* the sweep that takes the claim of a live app takes that of an app created
\* since the cycle listed the apps, for a claim that an earlier one had made.
THEOREM LiveAppsKeepClaims == Spec => LiveClaimsKept
<1>1. CollectorInv => \A n \in GcNames : GC!Reap(n) /\ live[n] # None
                                           => live[n] > gc.since /\ gc.todo[n].app # live[n]
    BY DEF CollectorInv, GC!Reap
<1>2. CollectorInv /\ [Next]_vars
        => [\A n \in GcNames : GC!Reap(n) /\ live[n] # None /\ claims[n] # claims'[n]
                                  => live[n] > gc.since /\ gc.todo[n].app # live[n]]_GC!vars
    BY <1>1
<1> QED
    BY <1>2, CollectorInit, CollectorStep, PTL DEF Spec, LiveClaimsKept, GC!LiveClaimsKept

-----------------------------------------------------------------------------
(* The request handlers.                                                   *)

\* The operations that look their app up first.
LookOps == {"get", "delete", "suspend", "resume", "rollback", "redeploy", "logs", "tail",
            "share", "revoke"}

\* What a call r is about at each stage, and, past the look-up, that its caller
\* was a reader of its app: one of the pairs in e.
RecOk(r, e) ==
    /\ r \in Api!CallStates
    /\ r.pc \in {"idle", "done"} => r.op = None
    /\ r.pc = "list" => r.op = "list" /\ r.user \in Users
    /\ r.pc \in {"resolve", "target"} => r.op = "resolve" /\ r.name \in Names
    /\ r.pc = "look" => r.op \in LookOps
    /\ r.pc \notin {"idle", "done", "list", "resolve", "target"}
          => r.user \in Users /\ r.name \in Names
    /\ r.pc = "act" => r.seen \in Api!Apps
    /\ r.pc = "slot" => r.op = "logs"
    /\ r.pc \notin {"idle", "done", "look", "list", "resolve", "target"}
       /\ r.op \notin {"deploy", "update"}
          => <<r.user, r.name>> \in e

\* A waiting call has word of what the app under its name has become.
Informed(r, app) ==
    r.pc = "events" /\ (app = None \/ Api!Terminal(app.phase))
       => \E i \in DOMAIN r.events : r.events[i] = "Deleted" \/ Api!Terminal(r.events[i])

\* Whoever may read an app is among its readers so far.
Recorded == \A u \in Users, n \in Names : Api!Readable(u, n) => <<u, n>> \in ever

ApiInv ==
    /\ site \in [Names -> Api!Apps \cup {None}]
    /\ call \in [Calls -> Api!CallStates]
    /\ \A c \in Calls : RecOk(call[c], ever) /\ Informed(call[c], site[call[c].name])
    /\ Recorded

\* Call r holds a stream slot of user u.
Uses(r, u) == r.user = u /\ r.op = "logs" /\ r.pc \in {"open", "tail"}

Held(u) == {c \in Calls : Uses(call[c], u)}
AllHeld == {c \in Calls : \E u \in Users : Uses(call[c], u)}

SlotsInv ==
    /\ slots \in [Users -> Nat] /\ total \in Nat
    /\ \A u \in Users : slots[u] = Cardinality(Held(u))
    /\ total = Cardinality(AllHeld)

\* What ExistenceHidden asks of a call that goes from r to s.
Hidden(r, s) ==
    r.op # None /\ s.pc = "done" =>
       /\ s.shown \cap {n \in Names : <<r.user, n>> \notin ever} = {}
       /\ (/\ r.op \notin {"deploy", "update", "list", "resolve"}
           /\ r.name \in {n \in Names : <<r.user, n>> \notin ever}
           /\ ~Api!BadExpiry(r))
             => s.answer = "missing"

\* The slots are left alone by a call that holds as before, taken by one that
\* held none, or returned by one that held one.
Accounted(c, s) ==
    \/ /\ UNCHANGED <<slots, total>>
       /\ \A u \in Users : Uses(s, u) <=> Uses(call[c], u)
    \/ \E u \in Users :
          /\ Uses(s, u) /\ \A v \in Users : ~Uses(call[c], v)
          /\ slots' = [slots EXCEPT ![u] = @ + 1] /\ total' = total + 1
    \/ \E u \in Users :
          /\ Uses(call[c], u) /\ \A v \in Users : ~Uses(s, v)
          /\ Api!Release(u)

\* Every step of call c takes it to some s, alone or with a change of one app
\* that the other calls are told of.
Steps(c, s) ==
    /\ RecOk(s, ever')
    /\ Hidden(call[c], s)
    /\ Accounted(c, s)
    /\ UNCHANGED authorizer
    /\ \/ /\ Api!Go(c, s) /\ UNCHANGED <<site, ever>>
          /\ Informed(s, site[s.name])
       \/ /\ s.pc # "events"
          /\ \E n \in Names, app \in Api!Apps \cup {None} : Api!ChangeBy(c, s, n, app)

\* An event appended to a call's channel leaves the rest of it as it was.
LEMMA ToldKeeps ==
    ASSUME NEW r, NEW e, RecOk(r, e), NEW n \in Names, NEW app \in Api!Apps \cup {None}
    PROVE  LET s == Api!Told(r, n, app) IN
           /\ RecOk(s, e)
           /\ s.pc = r.pc /\ s.op = r.op /\ s.user = r.user /\ s.name = r.name
<1> PICK x : x = IF app = None THEN "Deleted" ELSE app.phase
    OBVIOUS
<1>1. x \in Api!Phases \cup {"Deleted"}
    BY DEF Api!Apps
<1>2. r \in Api!CallStates
    BY DEF RecOk
<1>3. r.events \in Seq(Api!Phases \cup {"Deleted"})
    BY <1>2 DEF Api!CallStates
<1>4. Append(r.events, x) \in Seq(Api!Phases \cup {"Deleted"})
    BY <1>1, <1>3
<1> PICK s : s = [r EXCEPT !.events = Append(@, x)]
    OBVIOUS
<1>5. /\ s.pc = r.pc /\ s.op = r.op /\ s.user = r.user /\ s.name = r.name
      /\ s.seen = r.seen
    BY <1>2 DEF Api!CallStates
<1>6. s \in Api!CallStates
    BY <1>2, <1>4 DEF Api!CallStates
<1>7. RecOk(s, e)
    BY <1>5, <1>6 DEF RecOk
<1>8. Api!Told(r, n, app) \in {r, s}
    BY DEF Api!Told
<1> QED
    BY <1>5, <1>7, <1>8

\* A call that waits is told of every change of its app.
LEMMA ToldInforms ==
    ASSUME NEW r, NEW e, RecOk(r, e), NEW n \in Names, NEW app \in Api!Apps \cup {None},
           r.name = n
    PROVE  Informed(Api!Told(r, n, app), app)
<1> SUFFICES ASSUME r.pc = "events", app = None \/ Api!Terminal(app.phase)
             PROVE  Informed(Api!Told(r, n, app), app)
    BY ToldKeeps DEF Informed
<1> PICK x : x = IF app = None THEN "Deleted" ELSE app.phase
    OBVIOUS
<1> PICK es : es = r.events
    OBVIOUS
<1>1. r \in Api!CallStates /\ es \in Seq(Api!Phases \cup {"Deleted"})
    BY DEF RecOk, Api!CallStates
<1>2. x = "Deleted" \/ Api!Terminal(x)
    OBVIOUS
<1>3. Api!Told(r, n, app) = [r EXCEPT !.events = Append(es, x)]
    BY DEF Api!Told, Api!Watching
<1>4. Api!Told(r, n, app).events = Append(es, x)
    BY <1>1, <1>3 DEF Api!CallStates
<1>5. x \in Api!Phases \cup {"Deleted"}
    BY DEF Api!Apps
<1>6. Len(es) + 1 \in DOMAIN Append(es, x) /\ Append(es, x)[Len(es) + 1] = x
    BY <1>1, <1>5
<1> QED
    BY <1>2, <1>4, <1>6 DEF Informed

\* A call that goes on as before is as before for a larger set of readers.
LEMMA ReadersGrow ==
    ASSUME NEW r, NEW e, NEW f, e \subseteq f, RecOk(r, e)
    PROVE  RecOk(r, f)
    BY DEF RecOk

\* Changing one app, telling the calls of it: the invariant survives if each
\* call is told or else is in order by itself.
LEMMA ChangeKeeps ==
    ASSUME ApiInv, NEW n \in Names, NEW app \in Api!Apps \cup {None},
           Api!Change(n, app), UNCHANGED authorizer,
           call' = [d \in Calls |-> call'[d]],
           \A d \in Calls : \/ call'[d] = Api!Told(call[d], n, app)
                            \/ RecOk(call'[d], ever') /\ call'[d].pc # "events"
    PROVE  ApiInv'
<1>1. ever \subseteq ever'
    BY DEF Api!Change
<1>2. site' \in [Names -> Api!Apps \cup {None}]
    BY DEF ApiInv, Api!Change
<1>3. ASSUME NEW d \in Calls
      PROVE  RecOk(call'[d], ever') /\ Informed(call'[d], site'[call'[d].name])
    <2>1. CASE RecOk(call'[d], ever') /\ call'[d].pc # "events"
        BY <2>1 DEF Informed
    <2>2. CASE call'[d] = Api!Told(call[d], n, app)
        <3> PICK r : r = call[d]
            OBVIOUS
        <3> PICK s : s = call'[d]
            OBVIOUS
        <3>1. RecOk(r, ever) /\ Informed(r, site[r.name])
            BY DEF ApiInv
        <3>2. /\ RecOk(s, ever)
              /\ s.pc = r.pc /\ s.op = r.op /\ s.user = r.user /\ s.name = r.name
            BY <2>2, <3>1, ToldKeeps
        <3>3. RecOk(s, ever')
            BY <1>1, <3>2, ReadersGrow
        <3>4. CASE r.name = n
            <4>1. Informed(s, app)
                BY <2>2, <3>1, <3>4, ToldInforms
            <4>2. site'[s.name] = app
                BY <3>2, <3>4 DEF ApiInv, Api!Change
            <4> QED
                BY <3>3, <4>1, <4>2
        <3>5. CASE r.name # n
            <4>1. s = r
                BY <2>2, <3>5 DEF Api!Told, Api!Watching
            <4>2. r.pc = "events" => r.name \in Names
                BY <3>1 DEF RecOk
            <4>3. r.pc = "events" => site'[r.name] = site[r.name]
                BY <3>5, <4>2 DEF ApiInv, Api!Change
            <4> QED
                BY <3>1, <3>3, <4>1, <4>3 DEF Informed
        <3> QED
            BY <3>3, <3>4, <3>5
    <2> QED
        BY <2>1, <2>2
<1>4. call' \in [Calls -> Api!CallStates]
    BY <1>3 DEF RecOk
<1>5. Recorded'
    <2> SUFFICES ASSUME NEW u \in Users, NEW m \in Names, Api!Readable(u, m)'
                 PROVE  <<u, m>> \in ever'
        BY DEF Recorded
    <2>1. CASE m = n
        <3>1. site'[m] = app
            BY <2>1 DEF ApiInv, Api!Change
        <3>2. app # None /\ Api!MayRead(u, n, app)
            BY <2>1, <3>1 DEF Api!Readable, Api!MayRead
        <3> QED
            BY <2>1, <3>2 DEF Api!Change
    <2>2. CASE m # n
        <3>1. site'[m] = site[m]
            BY <2>2 DEF ApiInv, Api!Change
        <3>2. Api!Readable(u, m)
            BY <3>1 DEF Api!Readable, Api!MayRead
        <3> QED
            BY <1>1, <3>2 DEF ApiInv, Recorded
    <2> QED
        BY <2>1, <2>2
<1> QED
    BY <1>2, <1>3, <1>4, <1>5 DEF ApiInv

\* A step of one call keeps the invariant, and hides what is to be hidden from
\* every call.
LEMMA StepsKeep ==
    ASSUME ApiInv, NEW c \in Calls, NEW s, Steps(c, s)
    PROVE  ApiInv' /\ \A d \in Calls : Hidden(call[d], call'[d])
<1>1. CASE Api!Go(c, s) /\ UNCHANGED <<site, ever>> /\ Informed(s, site[s.name])
    <2>1. call' = [call EXCEPT ![c] = s]
        BY <1>1 DEF Api!Go
    <2>2. \A d \in Calls : call'[d] = IF d = c THEN s ELSE call[d]
        BY <2>1 DEF ApiInv
    <2>3. s \in Api!CallStates /\ RecOk(s, ever)
        BY <1>1 DEF Steps, RecOk
    <2>4. call' \in [Calls -> Api!CallStates]
        BY <2>1, <2>3 DEF ApiInv
    <2>5. \A d \in Calls : RecOk(call'[d], ever') /\ Informed(call'[d], site'[call'[d].name])
        BY <1>1, <2>2, <2>3 DEF ApiInv
    <2>6. Recorded'
        BY <1>1 DEF ApiInv, Recorded, Steps, Api!Readable, Api!MayRead
    <2>7. ApiInv'
        BY <1>1, <2>4, <2>5, <2>6 DEF ApiInv
    <2>8. \A d \in Calls : Hidden(call[d], call'[d])
        BY <2>2 DEF Steps, Hidden, ApiInv, RecOk
    <2> QED
        BY <2>7, <2>8
<1>2. ASSUME s.pc # "events", NEW n \in Names, NEW app \in Api!Apps \cup {None},
             Api!ChangeBy(c, s, n, app)
      PROVE  ApiInv' /\ \A d \in Calls : Hidden(call[d], call'[d])
    <2>1. \A d \in Calls : call'[d] = IF d = c THEN s ELSE Api!Told(call[d], n, app)
        BY <1>2 DEF Api!ChangeBy
    <2>2. ApiInv'
        BY <1>2, <2>1, ChangeKeeps DEF Api!ChangeBy, Steps
    <2>3. ASSUME NEW d \in Calls PROVE Hidden(call[d], call'[d])
        <3>1. CASE d = c
            BY <2>1, <3>1 DEF Steps
        <3>2. CASE d # c
            <4>1. RecOk(call[d], ever)
                BY DEF ApiInv
            <4>2. call'[d].pc = call[d].pc
                BY <2>1, <3>2, <4>1, ToldKeeps
            <4> QED
                BY <4>1, <4>2 DEF Hidden, RecOk
        <3> QED
            BY <3>1, <3>2
    <2> QED
        BY <2>2, <2>3
<1> QED
    BY <1>1, <1>2 DEF Steps

\* One more element, one less: what the counters count.
LEMMA CountOne ==
    ASSUME NEW S, NEW T, NEW x, S \subseteq Calls, T \subseteq Calls
    PROVE  /\ x \notin S /\ T = S \cup {x} => Cardinality(T) = Cardinality(S) + 1
           /\ x \in S /\ T = S \ {x} => /\ Cardinality(T) = Cardinality(S) - 1
                                        /\ Cardinality(S) > 0
           /\ Cardinality(S) \in Nat
<1>1. IsFiniteSet(S) /\ IsFiniteSet(T)
    BY PlatformAssumption, FS_Subset
<1>2. Cardinality(S) \in Nat /\ Cardinality(T) \in Nat
    BY <1>1, FS_CardinalityType
<1>3. x \notin S /\ T = S \cup {x} => Cardinality(T) = Cardinality(S) + 1
    BY <1>1, FS_AddElement
<1>4. x \in S /\ T = S \ {x} => Cardinality(T) = Cardinality(S) - 1
    BY <1>1, FS_RemoveElement
<1> QED
    BY <1>2, <1>3, <1>4

\* A step of one call moves the counters with the streams.
LEMMA StepsCount ==
    ASSUME ApiInv, SlotsInv, NEW c \in Calls, NEW s, Steps(c, s)
    PROVE  SlotsInv'
<1>1. /\ call'[c] = s
      /\ \A d \in Calls \ {c}, u \in Users : Uses(call'[d], u) <=> Uses(call[d], u)
    <2>1. CASE Api!Go(c, s)
        BY <2>1 DEF Api!Go, ApiInv
    <2>2. ASSUME NEW n \in Names, NEW app \in Api!Apps \cup {None}, Api!ChangeBy(c, s, n, app)
          PROVE  /\ call'[c] = s
                 /\ \A d \in Calls \ {c}, u \in Users : Uses(call'[d], u) <=> Uses(call[d], u)
        <3>1. \A d \in Calls : call'[d] = IF d = c THEN s ELSE Api!Told(call[d], n, app)
            BY <2>2 DEF Api!ChangeBy
        <3>2. ASSUME NEW d \in Calls \ {c}
              PROVE  /\ call'[d].pc = call[d].pc /\ call'[d].op = call[d].op
                     /\ call'[d].user = call[d].user
            <4>1. RecOk(call[d], ever)
                BY DEF ApiInv
            <4> QED
                BY <3>1, <4>1, ToldKeeps
        <3> QED
            BY <3>1, <3>2 DEF Uses
    <2> QED
        BY <2>1, <2>2 DEF Steps
<1>2. CASE /\ UNCHANGED <<slots, total>>
           /\ \A u \in Users : Uses(s, u) <=> Uses(call[c], u)
    <2>1. \A d \in Calls, u \in Users : Uses(call'[d], u) <=> Uses(call[d], u)
        BY <1>1, <1>2
    <2>2. \A u \in Users : Held(u)' = Held(u)
        BY <2>1 DEF Held
    <2>3. AllHeld' = AllHeld
        BY <2>1 DEF AllHeld
    <2> QED
        BY <1>2, <2>2, <2>3 DEF SlotsInv
<1>3. ASSUME NEW u \in Users,
             Uses(s, u), \A v \in Users : ~Uses(call[c], v),
             slots' = [slots EXCEPT ![u] = @ + 1], total' = total + 1
      PROVE  SlotsInv'
    <2>1. \A v \in Users : Uses(s, v) <=> v = u
        BY <1>3 DEF Uses
    <2>2. \A v \in Users : Held(v)' = IF v = u THEN Held(v) \cup {c} ELSE Held(v)
        BY <1>1, <1>3, <2>1 DEF Held
    <2>3. AllHeld' = AllHeld \cup {c}
        BY <1>1, <1>3 DEF AllHeld
    <2>4. c \notin Held(u) /\ c \notin AllHeld
        BY <1>3 DEF Held, AllHeld
    <2>5. Cardinality(Held(u)') = Cardinality(Held(u)) + 1
        BY <2>2, <2>4, CountOne DEF Held
    <2>6. Cardinality(AllHeld') = Cardinality(AllHeld) + 1
        BY <2>3, <2>4, CountOne DEF AllHeld
    <2>7. slots' \in [Users -> Nat] /\ total' \in Nat
        BY <1>3 DEF SlotsInv
    <2> QED
        BY <1>3, <2>2, <2>5, <2>6, <2>7 DEF SlotsInv
<1>4. ASSUME NEW u \in Users,
             Uses(call[c], u), \A v \in Users : ~Uses(s, v), Api!Release(u)
      PROVE  SlotsInv'
    <2>1. \A v \in Users : Uses(call[c], v) <=> v = u
        BY <1>4 DEF Uses
    <2>2. \A v \in Users : Held(v)' = IF v = u THEN Held(v) \ {c} ELSE Held(v)
        BY <1>1, <1>4, <2>1 DEF Held
    <2>3. AllHeld' = AllHeld \ {c}
        BY <1>1, <1>4 DEF AllHeld
    <2>4. c \in Held(u) /\ c \in AllHeld
        BY <1>4 DEF Held, AllHeld
    <2>5. Cardinality(Held(u)') = Cardinality(Held(u)) - 1 /\ Cardinality(Held(u)) > 0
        BY <2>2, <2>4, CountOne DEF Held
    <2>6. Cardinality(AllHeld') = Cardinality(AllHeld) - 1 /\ Cardinality(AllHeld) > 0
        BY <2>3, <2>4, CountOne DEF AllHeld
    <2>7. slots' = [slots EXCEPT ![u] = @ - 1] /\ total' = total - 1
        BY <1>4, <2>5 DEF SlotsInv, Api!Release
    <2>8. slots' \in [Users -> Nat] /\ total' \in Nat
        BY <2>5, <2>6, <2>7 DEF SlotsInv
    <2> QED
        BY <2>2, <2>5, <2>6, <2>7, <2>8 DEF SlotsInv
<1> QED
    BY <1>2, <1>3, <1>4 DEF Steps, Accounted

\* A call that is over: it shows nothing, and holds nothing.
LEMMA DoneOver ==
    ASSUME NEW x \in Api!Answers, NEW e
    PROVE  LET s == Api!Done(x) IN
           /\ RecOk(s, e) /\ s.pc = "done" /\ s.shown = {} /\ s.answer = x
           /\ \A u \in Users : ~Uses(s, u)
<1> PICK s : s = Api!Done(x)
    OBVIOUS
<1>1. s = [pc |-> "done", op |-> None, user |-> None, name |-> None,
           seen |-> None, expiry |-> "absent", expired |-> FALSE, events |-> <<>>,
           shown |-> {}, answer |-> x]
    BY DEF Api!Done, Api!Idle
<1>2. s \in Api!CallStates
    BY <1>1 DEF Api!CallStates, Api!Pcs, Api!Expiries, Api!Written
<1>3. RecOk(s, e)
    BY <1>1, <1>2 DEF RecOk
<1> QED
    BY <1>1, <1>3 DEF Uses

\* Past the look-up there is nothing left to hide from the caller.
LEMMA NothingToHide ==
    ASSUME NEW r, RecOk(r, ever), r.pc # "look", NEW s, s.shown = {}
    PROVE  Hidden(r, s)
<1>1. \/ r.op = None \/ r.op \in {"deploy", "update", "list", "resolve"} \/ <<r.user, r.name>> \in ever
    BY DEF RecOk
<1>2. CASE r.op = None
    BY <1>2 DEF Hidden
<1>3. CASE r.op \in {"deploy", "update", "list", "resolve"} \/ <<r.user, r.name>> \in ever
    <2>1. \/ r.op \in {"deploy", "update", "list", "resolve"}
          \/ r.name \notin {n \in Names : <<r.user, n>> \notin ever}
        BY <1>3
    <2> QED
        BY <2>1 DEF Hidden
<1> QED
    BY <1>1, <1>2, <1>3

\* A call that ends without touching app or slots.
LEMMA Ends ==
    ASSUME ApiInv, NEW c \in Calls, NEW x \in Api!Answers, Api!Answer(c, x),
           UNCHANGED <<site, ever, authorizer, slots, total>>,
           call[c].pc \notin {"open", "tail"},
           Hidden(call[c], Api!Done(x))
    PROVE  \E s : Steps(c, s)
<1> PICK s : s = Api!Done(x)
    OBVIOUS
<1>1. /\ RecOk(s, ever') /\ s.pc = "done" /\ \A u \in Users : ~Uses(s, u)
    BY DoneOver
<1>2. Accounted(c, s)
    BY <1>1 DEF Accounted, Uses
<1>3. Informed(s, site[s.name])
    BY <1>1 DEF Informed
<1> QED
    BY <1>1, <1>2, <1>3 DEF Steps, Api!Answer

\* ... in particular one that is past the look-up.
LEMMA EndsLate ==
    ASSUME ApiInv, NEW c \in Calls, NEW x \in Api!Answers, Api!Answer(c, x),
           UNCHANGED <<site, ever, authorizer, slots, total>>,
           call[c].pc \notin {"look", "open", "tail"}
    PROVE  \E s : Steps(c, s)
<1>1. RecOk(call[c], ever)
    BY DEF ApiInv
<1>2. Hidden(call[c], Api!Done(x))
    BY <1>1, DoneOver, NothingToHide
<1> QED
    BY <1>2, Ends

\* A call that goes on by itself, holding what it held.
LEMMA GoesOn ==
    ASSUME ApiInv, NEW c \in Calls, NEW s, Api!Go(c, s), RecOk(s, ever), s.pc # "done",
           UNCHANGED <<site, ever, authorizer, slots, total>>,
           \A u \in Users : Uses(s, u) <=> Uses(call[c], u),
           Informed(s, site[s.name])
    PROVE  \E t : Steps(c, t)
    BY DEF Steps, Hidden, Accounted

\* A request that has just come in is a call.
LEMMA RequestTyped ==
    ASSUME NEW pc \in Api!Pcs, NEW op \in Api!Ops \cup {None}, NEW u \in Users \cup {None},
           NEW n \in Names \cup {None}, NEW x \in Api!Expiries, NEW s,
           s = [pc |-> pc, op |-> op, user |-> u, name |-> n,
                seen |-> None, expiry |-> x, expired |-> FALSE, events |-> <<>>,
                shown |-> {}, answer |-> None]
    PROVE  s \in Api!CallStates
    BY DEF Api!CallStates, Api!Answers

\* A new request, with the stage it starts at.
LEMMA BeginSteps ==
    ASSUME ApiInv, NEW c \in Calls, NEW u, NEW op, NEW n, NEW pc, NEW x \in Api!Expiries,
           \/ pc = "list" /\ op = "list" /\ u \in Users /\ n = None
           \/ pc = "look" /\ op \in LookOps /\ u \in Users /\ n \in Names
           \/ pc = "deploy" /\ op \in {"deploy", "update"} /\ u \in Users /\ n \in Names
           \/ pc = "resolve" /\ op = "resolve" /\ u = None /\ n \in Names,
           Api!Begin(c, u, op, n, pc, x)
    PROVE  \E s : Steps(c, s)
<1> PICK s : s = [Api!Idle EXCEPT !.pc = pc, !.op = op, !.user = u, !.name = n, !.expiry = x]
    OBVIOUS
<1>1. s = [pc |-> pc, op |-> op, user |-> u, name |-> n,
           seen |-> None, expiry |-> x, expired |-> FALSE, events |-> <<>>,
           shown |-> {}, answer |-> None]
    BY DEF Api!Idle
<1>2. s \in Api!CallStates
    <2>1. pc \in Api!Pcs
        BY DEF Api!Pcs
    <2>2. op \in Api!Ops \cup {None}
        BY DEF Api!Ops, LookOps
    <2>3. u \in Users \cup {None} /\ n \in Names \cup {None}
        OBVIOUS
    <2> QED
        BY <1>1, <2>1, <2>2, <2>3, RequestTyped
<1>3. RecOk(s, ever)
    BY <1>1, <1>2 DEF RecOk
<1>4. \A v \in Users : ~Uses(s, v) /\ ~Uses(call[c], v)
    BY <1>1 DEF Uses, Api!Begin
<1>5. Informed(s, site[s.name])
    BY <1>1 DEF Informed
<1>6. Api!Go(c, s) /\ UNCHANGED <<site, ever, authorizer, slots, total>>
    BY DEF Api!Begin, Api!streamVars
<1>7. s.pc # "done"
    BY <1>1
<1> QED
    BY <1>3, <1>4, <1>5, <1>6, <1>7, GoesOn

\* Every request of the /v1 API, of the MCP tools and of the public endpoints.
LEMMA RequestSteps ==
    ASSUME ApiInv, NEW c \in Calls,
           \/ \E u \in Users : Api!Http(c, u) \/ Api!Mcp(c, u)
           \/ \E n \in Names : Api!PublicShareLink(c, n)
           \/ Api!Unauthenticated(c)
    PROVE  \E s : Steps(c, s)
<1> USE DEF LookOps, Api!Expiries, Api!Written
<1>1. ASSUME NEW u \in Users, Api!Http(c, u) PROVE \E s : Steps(c, s)
    BY <1>1, BeginSteps DEF Api!Http, Api!ListApps, Api!GetApp, Api!GetAppVersions,
          Api!ListShareLinks, Api!DeleteApp, Api!SetSuspended, Api!RollbackApp, Api!DeployApp,
          Api!RedeployApp, Api!StreamAppLogs, Api!CreateShareLink, Api!RevokeShareLink
<1>2. ASSUME NEW u \in Users, Api!Mcp(c, u) PROVE \E s : Steps(c, s)
    BY <1>2, BeginSteps DEF Api!Mcp, Api!ListTool, Api!StatusTool, Api!ListVersionsTool,
          Api!DeleteTool, Api!RollbackTool, Api!DeployTool, Api!UpdateTool, Api!LogsTool,
          Api!CreateShareLinkTool, Api!ListShareLinksTool, Api!RevokeShareLinkTool
<1>3. ASSUME NEW n \in Names, Api!PublicShareLink(c, n) PROVE \E s : Steps(c, s)
    BY <1>3, BeginSteps DEF Api!PublicShareLink
<1>4. CASE Api!Unauthenticated(c)
    BY <1>4, EndsLate DEF Api!Unauthenticated, Api!Answers, Api!streamVars
<1> QED
    BY <1>1, <1>2, <1>3, <1>4

\* A call with a new stage.
LEMMA Advanced ==
    ASSUME NEW r \in Api!CallStates, NEW p \in Api!Pcs, NEW s, s = [r EXCEPT !.pc = p]
    PROVE  /\ s \in Api!CallStates
           /\ s.pc = p /\ s.seen = r.seen /\ s.op = r.op /\ s.user = r.user
           /\ s.name = r.name /\ s.events = r.events
    BY DEF Api!CallStates

\* The look-up: it is where a caller becomes known as a reader.
LEMMA LookSteps ==
    ASSUME ApiInv, NEW c \in Calls, Api!Look(c)
    PROVE  \E s : Steps(c, s)
<1> PICK r : r = call[c]
    OBVIOUS
<1>1. /\ RecOk(r, ever) /\ r.pc = "look" /\ r \in Api!CallStates
      /\ r.op \in LookOps /\ r.user \in Users /\ r.name \in Names
    BY DEF ApiInv, RecOk, Api!Look
<1>2. UNCHANGED <<site, ever, authorizer, slots, total>>
    BY DEF Api!Look, Api!streamVars
<1>3. ASSUME Api!BadExpiry(r), Api!Answer(c, "bad") PROVE \E s : Steps(c, s)
    <2>1. "bad" \in Api!Answers
        BY DEF Api!Answers
    <2>2. Api!Done("bad").shown = {}
        BY <2>1, DoneOver
    <2>3. Hidden(r, Api!Done("bad"))
        BY <1>3, <2>2 DEF Hidden
    <2> QED
        BY <1>1, <1>2, <1>3, <2>1, <2>3, Ends
<1>4. ASSUME Api!Answer(c, "missing") PROVE \E s : Steps(c, s)
    <2>1. "missing" \in Api!Answers
        BY DEF Api!Answers
    <2>2. Api!Done("missing").shown = {} /\ Api!Done("missing").answer = "missing"
        BY <2>1, DoneOver
    <2>3. Hidden(r, Api!Done("missing"))
        BY <1>4, <2>2 DEF Hidden
    <2> QED
        BY <1>1, <1>2, <1>4, <2>1, <2>3, Ends
<1>5. ASSUME Api!Readable(r.user, r.name),
             IF r.op = "get" THEN Api!Answer(c, "ok")
             ELSE Api!Go(c, [r EXCEPT !.pc = Api!NextPc(r), !.seen = site[r.name]])
      PROVE  \E s : Steps(c, s)
    <2>1. <<r.user, r.name>> \in ever
        BY <1>1, <1>5 DEF ApiInv, Recorded
    <2>2. site[r.name] \in Api!Apps
        BY <1>1, <1>5 DEF ApiInv, Api!Readable
    <2>3. CASE r.op = "get"
        <3>1. "ok" \in Api!Answers
            BY DEF Api!Answers
        <3>2. Api!Done("ok").shown = {}
            BY <3>1, DoneOver
        <3>3. Hidden(r, Api!Done("ok"))
            BY <2>1, <3>2 DEF Hidden
        <3> QED
            BY <1>1, <1>2, <1>5, <2>3, <3>1, <3>3, Ends
    <2>4. CASE r.op # "get"
        <3> PICK p : p = Api!NextPc(r)
            OBVIOUS
        <3> PICK y : y = site[r.name]
            OBVIOUS
        <3> PICK s : s = [r EXCEPT !.pc = p, !.seen = y]
            OBVIOUS
        <3>1. p \in {"deploy", "slot", "open", "insert", "act"} /\ (p = "slot" => r.op = "logs")
              /\ (p = "open" => r.op = "tail")
            BY <1>1, <2>4 DEF Api!NextPc, LookOps
        <3>2. p \in Api!Pcs
            BY <3>1 DEF Api!Pcs
        <3>3. /\ s \in Api!CallStates
              /\ s.pc = p /\ s.seen = y /\ s.op = r.op /\ s.user = r.user
              /\ s.name = r.name
            <4>1. y \in Api!Apps \cup {None}
                BY <2>2
            <4> QED
                BY <1>1, <3>2, <4>1 DEF Api!CallStates
        <3>4. RecOk(s, ever)
            BY <1>1, <2>1, <2>2, <3>1, <3>3 DEF RecOk
        <3>5. \A u \in Users : ~Uses(s, u) /\ ~Uses(call[c], u)
            BY <1>1, <3>1, <3>3 DEF Uses
        <3>6. Informed(s, site[s.name])
            BY <3>1, <3>3 DEF Informed
        <3> QED
            BY <1>2, <1>5, <2>4, <3>1, <3>3, <3>4, <3>5, <3>6, GoesOn
    <2> QED
        BY <2>3, <2>4
<1> QED
    BY <1>3, <1>4, <1>5 DEF Api!Look

\* A list shows apps that its caller may read now.
LEMMA ListSteps ==
    ASSUME ApiInv, NEW c \in Calls, Api!List(c)
    PROVE  \E s : Steps(c, s)
<1> PICK r : r = call[c]
    OBVIOUS
<1>1. RecOk(r, ever) /\ r.pc = "list" /\ r.op = "list" /\ r.user \in Users
    BY DEF ApiInv, RecOk, Api!List
<1> PICK t : t = Api!Done("ok")
    OBVIOUS
<1> PICK s : s = [t EXCEPT !.shown = Api!Visible(r.user)]
    OBVIOUS
<1>2. RecOk(t, ever) /\ t.pc = "done"
    BY DoneOver DEF Api!Answers
<1>3. Api!Visible(r.user) \subseteq Names
    BY DEF Api!Visible
<1>4. t \in Api!CallStates
    BY <1>2 DEF RecOk
<1>5. s.pc = "done" /\ s.op = t.op /\ s.shown = Api!Visible(r.user)
    BY <1>2, <1>4 DEF Api!CallStates
<1>6. s \in Api!CallStates
    BY <1>3, <1>4 DEF Api!CallStates
<1>7. RecOk(s, ever)
    BY <1>2, <1>5, <1>6 DEF RecOk
<1>8. \A n \in Api!Visible(r.user) : <<r.user, n>> \in ever
    BY <1>1 DEF Api!Visible, ApiInv, Recorded
<1>9. Hidden(r, s)
    BY <1>1, <1>5, <1>8 DEF Hidden
<1>10. Accounted(c, s)
    BY <1>1, <1>5 DEF Accounted, Uses, Api!List, Api!streamVars
<1>11. Informed(s, site[s.name])
    BY <1>5 DEF Informed
<1>12. Api!Go(c, s) /\ UNCHANGED <<site, ever, authorizer>>
    BY DEF Api!List
<1> QED
    BY <1>7, <1>9, <1>10, <1>11, <1>12 DEF Steps

\* A call that changes an app, holding no stream.
LEMMA ChangesApp ==
    ASSUME ApiInv, NEW c \in Calls, NEW s, RecOk(s, ever), Hidden(call[c], s),
           s.pc \notin {"events", "open", "tail"}, call[c].pc \notin {"open", "tail"},
           NEW n \in Names, NEW app \in Api!Apps \cup {None}, Api!ChangeBy(c, s, n, app),
           UNCHANGED <<authorizer, slots, total>>
    PROVE  \E t : Steps(c, t)
<1>1. ever \subseteq ever'
    BY DEF Api!ChangeBy, Api!Change
<1>2. RecOk(s, ever')
    BY <1>1, ReadersGrow
<1>3. Accounted(c, s)
    BY DEF Accounted, Uses
<1> QED
    BY <1>2, <1>3 DEF Steps

\* A delete, a suspension and a rollback of an app that was looked up, and a
\* deploy; each writes an app or removes one.
LEMMA ActSteps ==
    ASSUME ApiInv, NEW c \in Calls,
           \/ Api!ActDelete(c) \/ Api!ActSuspend(c) \/ Api!ActRollback(c) \/ Api!RunDeploy(c)
    PROVE  \E s : Steps(c, s)
<1> PICK r : r = call[c]
    OBVIOUS
<1>1. /\ RecOk(r, ever) /\ r.pc \in {"act", "deploy"} /\ r \in Api!CallStates
      /\ r.user \in Users /\ r.name \in Names /\ (r.pc = "act" => r.seen \in Api!Apps)
    BY DEF ApiInv, RecOk, Api!ActDelete, Api!ActSuspend, Api!ActRollback, Api!RunDeploy
<1>2. UNCHANGED <<authorizer, slots, total>>
    BY DEF Api!ActDelete, Api!ActSuspend, Api!ActRollback, Api!RunDeploy, Api!streamVars
<1>3. ASSUME NEW x \in Api!Answers, Api!Answer(c, x), UNCHANGED <<site, ever>>
      PROVE  \E s : Steps(c, s)
    BY <1>1, <1>2, <1>3, EndsLate
<1>4. ASSUME NEW x \in Api!Answers, NEW app \in Api!Apps \cup {None},
             Api!ChangeBy(c, Api!Done(x), r.name, app)
      PROVE  \E s : Steps(c, s)
    <2>1. RecOk(Api!Done(x), ever) /\ Api!Done(x).pc = "done" /\ Api!Done(x).shown = {}
        BY DoneOver
    <2>2. Hidden(r, Api!Done(x))
        BY <1>1, <2>1, NothingToHide
    <2> QED
        BY <1>1, <1>2, <1>4, <2>1, <2>2, ChangesApp
<1>5. ASSUME NEW app \in Api!Apps,
             Api!ChangeBy(c, [r EXCEPT !.pc = "watch", !.seen = None], r.name, app)
      PROVE  \E s : Steps(c, s)
    <2> PICK s : s = [r EXCEPT !.pc = "watch", !.seen = None]
        OBVIOUS
    <2>1. /\ s \in Api!CallStates
          /\ s.pc = "watch" /\ s.op = r.op /\ s.user = r.user /\ s.name = r.name
        BY <1>1 DEF Api!CallStates, Api!Pcs
    <2>2. RecOk(s, ever)
        BY <1>1, <2>1 DEF RecOk
    <2>3. Hidden(r, s)
        BY <2>1 DEF Hidden
    <2> QED
        BY <1>1, <1>2, <1>5, <2>1, <2>2, <2>3, ChangesApp
<1> USE DEF Api!Answers
<1>6. CASE Api!ActDelete(c)
    <2> PICK s : s = [r EXCEPT !.pc = "unlink"]
        OBVIOUS
    <2>1. /\ s \in Api!CallStates /\ s.pc = "unlink"
          /\ s.op = r.op /\ s.user = r.user /\ s.name = r.name
        BY <1>1, Advanced DEF Api!Pcs
    <2>2. RecOk(s, ever)
        BY <1>1, <1>6, <2>1 DEF RecOk, Api!ActDelete
    <2>3. Hidden(r, s)
        BY <2>1 DEF Hidden
    <2>4. ASSUME Api!ChangeBy(c, s, r.name, None) PROVE \E t : Steps(c, t)
        BY <1>1, <1>2, <2>1, <2>2, <2>3, <2>4, ChangesApp
    <2> QED
        BY <1>3, <1>6, <2>4 DEF Api!ActDelete
<1>7. CASE Api!ActSuspend(c)
    <2>1. [r.seen EXCEPT !.suspended = (r.op = "suspend")] \in Api!Apps
        BY <1>1, <1>7 DEF Api!Apps, Api!ActSuspend
    <2> QED
        BY <1>3, <1>4, <1>7, <2>1 DEF Api!ActSuspend
<1>8. CASE Api!ActRollback(c)
    BY <1>1, <1>3, <1>5, <1>8 DEF Api!ActRollback
<1>9. CASE Api!RunDeploy(c)
    <2> PICK app : app = [owner |-> r.user, suspended |-> FALSE,
                          phase |-> IF site[r.name] = None THEN "Pending" ELSE site[r.name].phase]
        OBVIOUS
    <2>1. app \in Api!Apps
        BY <1>1 DEF ApiInv, Api!Apps, Api!Phases
    <2> QED
        BY <1>3, <1>5, <1>9, <2>1 DEF Api!RunDeploy
<1> QED
    BY <1>6, <1>7, <1>8, <1>9

\* Share links, and the public way to an app behind one.
LEMMA LinkSteps ==
    ASSUME ApiInv, NEW c \in Calls,
           \/ Api!Unlink(c) \/ Api!Insert(c) \/ Api!ActRevoke(c) \/ Api!ResolveLink(c)
           \/ Api!ResolveTarget(c)
    PROVE  \E s : Steps(c, s)
<1> PICK r : r = call[c]
    OBVIOUS
<1>1. /\ RecOk(r, ever) /\ r.pc \in {"unlink", "insert", "act", "resolve", "target"}
      /\ r \in Api!CallStates
    BY DEF ApiInv, RecOk, Api!Unlink, Api!Insert, Api!ActRevoke, Api!ResolveLink, Api!ResolveTarget
<1>2. UNCHANGED <<site, ever, authorizer, slots, total>>
    BY DEF Api!Unlink, Api!Insert, Api!ActRevoke, Api!ResolveLink, Api!ResolveTarget,
           Api!streamVars
<1>3. ASSUME NEW x \in Api!Answers, Api!Answer(c, x) PROVE \E s : Steps(c, s)
    BY <1>1, <1>2, <1>3, EndsLate
<1>4. ASSUME r.pc = "resolve", Api!Go(c, [r EXCEPT !.pc = "target"]) PROVE \E s : Steps(c, s)
    <2> PICK s : s = [r EXCEPT !.pc = "target"]
        OBVIOUS
    <2>1. /\ s \in Api!CallStates
          /\ s.pc = "target" /\ s.op = r.op /\ s.user = r.user /\ s.name = r.name
        BY <1>1 DEF Api!CallStates, Api!Pcs
    <2>2. RecOk(s, ever)
        BY <1>1, <1>4, <2>1 DEF RecOk
    <2>3. \A u \in Users : ~Uses(s, u) /\ ~Uses(r, u)
        BY <1>1, <2>1 DEF Uses
    <2>4. Informed(s, site[s.name])
        BY <2>1 DEF Informed
    <2> QED
        BY <1>2, <1>4, <2>1, <2>2, <2>3, <2>4, GoesOn
<1> QED
    BY <1>3, <1>4 DEF Api!Answers, Api!Unlink, Api!Insert, Api!ActRevoke, Api!ResolveLink,
                      Api!ResolveTarget

\* An event that is not terminal leaves the terminal ones in the channel.
LEMMA EventConsumed ==
    ASSUME NEW r \in Api!CallStates, r.events # <<>>,
           Head(r.events) # "Deleted", ~Api!Terminal(Head(r.events)),
           NEW app, Informed(r, app), NEW s, s = [r EXCEPT !.events = Tail(@)]
    PROVE  Informed(s, app)
<1> PICK es : es = r.events
    OBVIOUS
<1>1. es \in Seq(Api!Phases \cup {"Deleted"}) /\ es # <<>>
    BY DEF Api!CallStates
<1>2. s.pc = r.pc /\ s.events = Tail(es)
    BY DEF Api!CallStates
<1>3. ASSUME NEW i \in DOMAIN es, es[i] = "Deleted" \/ Api!Terminal(es[i])
      PROVE  \E j \in DOMAIN Tail(es) : Tail(es)[j] = "Deleted" \/ Api!Terminal(Tail(es)[j])
    <2>1. i # 1
        BY <1>1, <1>3
    <2>2. i - 1 \in DOMAIN Tail(es) /\ Tail(es)[i - 1] = es[i]
        BY <1>1, <2>1
    <2> QED
        BY <1>3, <2>2
<1> QED
    BY <1>2, <1>3 DEF Informed

\* Waiting for an app to become Ready.
LEMMA WaitSteps ==
    ASSUME ApiInv, NEW c \in Calls,
           Api!Wait(c) \/ Api!WatchCloses(c) \/ Api!Expire(c) \/ Api!Cancel(c)
    PROVE  \E s : Steps(c, s)
<1> PICK r : r = call[c]
    OBVIOUS
<1> USE DEF Api!Wait, Api!OpenWatch, Api!FirstGet, Api!Event, Api!Poll, Api!TimerFires,
            Api!WatchCloses, Api!Expire, Api!Cancel
<1>1. /\ RecOk(r, ever) /\ Informed(r, site[r.name])
      /\ r.pc \in {"watch", "get", "events", "poll"} /\ r \in Api!CallStates
    BY DEF ApiInv, RecOk
<1>2. UNCHANGED <<site, ever, authorizer, slots, total>>
    BY DEF Api!streamVars
<1>3. ASSUME NEW x \in Api!Answers, Api!Answer(c, x) PROVE \E s : Steps(c, s)
    BY <1>1, <1>2, <1>3, EndsLate
<1>4. ASSUME NEW s \in Api!CallStates, s.pc \in {"get", "events", "poll", "watch"},
             s.op = r.op, s.user = r.user, s.name = r.name, Api!Go(c, s),
             Informed(s, site[s.name])
      PROVE  \E t : Steps(c, t)
    <2>1. RecOk(s, ever)
        BY <1>1, <1>4 DEF RecOk
    <2>2. \A u \in Users : ~Uses(s, u) /\ ~Uses(r, u)
        BY <1>1, <1>4 DEF Uses
    <2> QED
        BY <1>2, <1>4, <2>1, <2>2, GoesOn
<1>5. \A p : Api!PhaseAnswer(p) \in Api!Answers
    BY DEF Api!PhaseAnswer, Api!Answers
<1>6. {"bad", "accepted", "gone"} \subseteq Api!Answers
    BY DEF Api!Answers
<1>7. CASE Api!OpenWatch(c)
    <2> PICK p \in {"get", "poll"} : Api!Go(c, [r EXCEPT !.pc = p])
        BY <1>7
    <2> PICK s : s = [r EXCEPT !.pc = p]
        OBVIOUS
    <2>1. s \in Api!CallStates /\ s.pc = p /\ s.op = r.op /\ s.user = r.user /\ s.name = r.name
        BY <1>1 DEF Api!CallStates, Api!Pcs
    <2>2. Informed(s, site[s.name])
        BY <2>1 DEF Informed
    <2> QED
        BY <1>4, <2>1, <2>2
<1>8. CASE Api!FirstGet(c)
    <2>1. ASSUME site[r.name] # None, ~Api!Terminal(site[r.name].phase),
                 Api!Go(c, [r EXCEPT !.pc = "events"])
          PROVE  \E s : Steps(c, s)
        <3> PICK s : s = [r EXCEPT !.pc = "events"]
            OBVIOUS
        <3>1. /\ s \in Api!CallStates /\ s.pc = "events"
              /\ s.op = r.op /\ s.user = r.user /\ s.name = r.name
            BY <1>1 DEF Api!CallStates, Api!Pcs
        <3>2. Informed(s, site[s.name])
            BY <2>1, <3>1 DEF Informed
        <3> QED
            BY <1>4, <2>1, <3>1, <3>2
    <2> QED
        BY <1>3, <1>5, <1>6, <1>8, <2>1 DEF Api!Answer
<1>9. CASE Api!Event(c)
    <2>1. ASSUME Head(r.events) # "Deleted", ~Api!Terminal(Head(r.events)),
                 Api!Go(c, [r EXCEPT !.events = Tail(@)])
          PROVE  \E s : Steps(c, s)
        <3> PICK s : s = [r EXCEPT !.events = Tail(@)]
            OBVIOUS
        <3>1. r.events \in Seq(Api!Phases \cup {"Deleted"}) /\ r.events # <<>>
            BY <1>1, <1>9 DEF Api!CallStates
        <3>2. Tail(r.events) \in Seq(Api!Phases \cup {"Deleted"})
            BY <3>1
        <3>3. s \in Api!CallStates
            BY <1>1, <3>2 DEF Api!CallStates
        <3>4. s.pc = r.pc /\ s.op = r.op /\ s.user = r.user /\ s.name = r.name
            BY <1>1 DEF Api!CallStates
        <3>5. Informed(s, site[s.name])
            BY <1>1, <2>1, <3>1, <3>4, EventConsumed
        <3> QED
            BY <1>1, <1>4, <2>1, <3>3, <3>4, <3>5
    <2> QED
        BY <1>3, <1>5, <1>6, <1>9, <2>1 DEF Api!Answer
<1>10. CASE Api!Poll(c) \/ Api!TimerFires(c) \/ Api!Cancel(c)
    BY <1>3, <1>5, <1>6, <1>10
<1>11. CASE Api!WatchCloses(c)
    <2> PICK s : s = [r EXCEPT !.pc = "poll", !.events = <<>>]
        OBVIOUS
    <2>1. s.pc = "poll" /\ s.op = r.op /\ s.user = r.user /\ s.name = r.name
        BY <1>1 DEF Api!CallStates
    <2>2. Informed(s, site[s.name])
        BY <2>1 DEF Informed
    <2>3. s \in Api!CallStates
        <3> PICK t : t = [r EXCEPT !.pc = "poll"]
            OBVIOUS
        <3>1. t \in Api!CallStates /\ s = [t EXCEPT !.events = <<>>]
            BY <1>1 DEF Api!CallStates, Api!Pcs
        <3>2. <<>> \in Seq(Api!Phases \cup {"Deleted"})
            OBVIOUS
        <3> QED
            BY <3>1, <3>2 DEF Api!CallStates
    <2> QED
        BY <1>4, <1>11, <2>1, <2>2, <2>3
<1>12. CASE Api!Expire(c)
    <2> PICK s : s = [r EXCEPT !.expired = TRUE]
        OBVIOUS
    <2>1. /\ s \in Api!CallStates /\ s.pc = r.pc /\ s.op = r.op /\ s.user = r.user
          /\ s.name = r.name /\ s.events = r.events
        BY <1>1 DEF Api!CallStates
    <2>2. Informed(s, site[s.name])
        BY <1>1, <2>1 DEF Informed
    <2> QED
        BY <1>1, <1>4, <1>12, <2>1, <2>2
<1> QED
    BY <1>7, <1>8, <1>9, <1>10, <1>11, <1>12

\* Log streams: the slot is taken once and returned once.
LEMMA StreamSteps ==
    ASSUME ApiInv, NEW c \in Calls, Api!Stream(c)
    PROVE  \E s : Steps(c, s)
<1> PICK r : r = call[c]
    OBVIOUS
<1>1. /\ RecOk(r, ever) /\ r.pc \in {"slot", "open", "tail"} /\ r \in Api!CallStates
      /\ r.user \in Users
    BY DEF ApiInv, RecOk, Api!Stream, Api!Acquire, Api!Open, Api!EndStream
<1>2. UNCHANGED <<site, ever, authorizer>>
    BY DEF Api!Stream, Api!Acquire, Api!Open, Api!EndStream
<1>3. ASSUME NEW p \in {"open", "tail"}, NEW s, s = [r EXCEPT !.pc = p]
      PROVE  /\ RecOk(s, ever) /\ s.pc = p /\ s.op = r.op /\ s.user = r.user
             /\ Informed(s, site[s.name]) /\ Hidden(r, s)
    <2>1. s \in Api!CallStates /\ s.pc = p /\ s.op = r.op /\ s.user = r.user /\ s.name = r.name
        BY <1>1, <1>3 DEF Api!CallStates, Api!Pcs
    <2> QED
        BY <1>1, <2>1 DEF RecOk, Informed, Hidden
<1>4. CASE Api!Acquire(c)
    <2>1. CASE Api!AtCap(r.user)
        BY <1>2, <1>4, <2>1, EndsLate DEF Api!Acquire, Api!Answers, Api!streamVars
    <2>2. CASE ~Api!AtCap(r.user)
        <3> PICK s : s = [r EXCEPT !.pc = "open"]
            OBVIOUS
        <3>1. /\ RecOk(s, ever) /\ s.pc = "open" /\ s.op = r.op /\ s.user = r.user
              /\ Informed(s, site[s.name]) /\ Hidden(r, s)
            BY <1>3
        <3>2. r.pc = "slot" /\ r.op = "logs"
            BY <1>1, <1>4 DEF Api!Acquire, RecOk
        <3>3. Uses(s, r.user) /\ \A v \in Users : ~Uses(r, v)
            BY <3>1, <3>2 DEF Uses
        <3>4. /\ slots' = [slots EXCEPT ![r.user] = @ + 1] /\ total' = total + 1
              /\ Api!Go(c, s)
            BY <1>4, <2>2 DEF Api!Acquire
        <3>5. Accounted(c, s)
            BY <1>1, <3>3, <3>4 DEF Accounted
        <3> QED
            BY <1>2, <3>1, <3>4, <3>5 DEF Steps
    <2> QED
        BY <2>1, <2>2
<1>5. CASE Api!Open(c)
    <2> PICK s : s = [r EXCEPT !.pc = "tail"]
        OBVIOUS
    <2>1. /\ RecOk(s, ever) /\ s.pc = "tail" /\ s.op = r.op /\ s.user = r.user
          /\ Informed(s, site[s.name]) /\ Hidden(r, s)
        BY <1>3
    <2>2. \A u \in Users : Uses(s, u) <=> Uses(r, u)
        BY <1>5, <2>1 DEF Uses, Api!Open
    <2>3. Api!Go(c, s) /\ UNCHANGED <<slots, total>>
        BY <1>5 DEF Api!Open, Api!streamVars
    <2> QED
        BY <1>2, <2>1, <2>2, <2>3, GoesOn
<1>6. CASE Api!EndStream(c)
    <2> PICK s : s = Api!Done("ok")
        OBVIOUS
    <2>1. RecOk(s, ever) /\ s.pc = "done" /\ s.shown = {} /\ \A u \in Users : ~Uses(s, u)
        BY DoneOver DEF Api!Answers
    <2>2. Hidden(r, s)
        BY <1>1, <2>1, NothingToHide
    <2>3. Informed(s, site[s.name])
        BY <2>1 DEF Informed
    <2>4. Accounted(c, s)
        <3>1. CASE r.op = "logs"
            <4>1. Uses(r, r.user) /\ Api!Release(r.user)
                BY <1>6, <3>1 DEF Uses, Api!EndStream
            <4> QED
                BY <1>1, <2>1, <4>1 DEF Accounted
        <3>2. CASE r.op # "logs"
            BY <1>6, <2>1, <3>2 DEF Accounted, Uses, Api!EndStream, Api!streamVars
        <3> QED
            BY <3>1, <3>2
    <2>5. Api!Go(c, s)
        BY <1>6 DEF Api!EndStream, Api!Answer
    <2> QED
        BY <1>2, <2>1, <2>2, <2>3, <2>4, <2>5 DEF Steps
<1> QED
    BY <1>4, <1>5, <1>6 DEF Api!Stream

\* Every step of the request handlers is a step of one call, or of the
\* controller, which all calls are told of.
LEMMA ApiStep ==
    ASSUME ApiInv, SlotsInv, Api!Next
    PROVE  ApiInv' /\ SlotsInv' /\ \A d \in Calls : Hidden(call[d], call'[d])
<1>1. ASSUME NEW c \in Calls, \E s : Steps(c, s)
      PROVE  ApiInv' /\ SlotsInv' /\ \A d \in Calls : Hidden(call[d], call'[d])
    BY <1>1, StepsKeep, StepsCount
<1>2. ASSUME NEW c \in Calls,
             \/ \E u \in Users : Api!Http(c, u) \/ Api!Mcp(c, u)
             \/ \E n \in Names : Api!PublicShareLink(c, n)
             \/ Api!Unauthenticated(c) \/ Api!Serve(c) \/ Api!Wait(c) \/ Api!Stream(c)
             \/ Api!WatchCloses(c) \/ Api!Expire(c) \/ Api!Cancel(c)
      PROVE  ApiInv' /\ SlotsInv' /\ \A d \in Calls : Hidden(call[d], call'[d])
    BY <1>1, <1>2, RequestSteps, LookSteps, ListSteps, ActSteps, LinkSteps, WaitSteps,
       StreamSteps DEF Api!Serve
<1>3. ASSUME NEW n \in Names, Api!Move(n)
      PROVE  ApiInv' /\ SlotsInv' /\ \A d \in Calls : Hidden(call[d], call'[d])
    <2> PICK p : /\ p \in IF site[n].suspended THEN {"Suspended"} ELSE {"Pending", "Ready", "Failed"}
                 /\ Api!Change(n, [site[n] EXCEPT !.phase = p])
                 /\ call' = [d \in Calls |-> Api!Told(call[d], n, [site[n] EXCEPT !.phase = p])]
        BY <1>3 DEF Api!Move
    <2> PICK app : app = [site[n] EXCEPT !.phase = p]
        OBVIOUS
    <2>1. site[n] \in Api!Apps /\ p \in Api!Phases
        BY <1>3 DEF ApiInv, Api!Move, Api!Phases
    <2>2. app \in Api!Apps
        BY <2>1 DEF Api!Apps
    <2>3. UNCHANGED <<authorizer, slots, total>>
        BY <1>3 DEF Api!Move, Api!streamVars
    <2>4. \A d \in Calls : call'[d] = Api!Told(call[d], n, app)
        OBVIOUS
    <2>5. ApiInv'
        BY <2>2, <2>3, <2>4, ChangeKeeps
    <2>6. ASSUME NEW d \in Calls
          PROVE  /\ call'[d].pc = call[d].pc /\ call'[d].op = call[d].op
                 /\ call'[d].user = call[d].user
                 /\ Hidden(call[d], call'[d])
        <3>1. RecOk(call[d], ever)
            BY DEF ApiInv
        <3>2. /\ call'[d].pc = call[d].pc /\ call'[d].op = call[d].op
              /\ call'[d].user = call[d].user
            BY <2>2, <2>4, <3>1, ToldKeeps
        <3> QED
            BY <3>1, <3>2 DEF RecOk, Hidden
    <2>7. \A u \in Users : Held(u)' = Held(u)
        BY <2>6 DEF Held, Uses
    <2>8. AllHeld' = AllHeld
        BY <2>6 DEF AllHeld, Uses
    <2> QED
        BY <2>3, <2>5, <2>6, <2>7, <2>8 DEF SlotsInv
<1> QED
    BY <1>2, <1>3 DEF Api!Next

\* No call is under way at the start, and who may read an app is recorded.
LEMMA ApiInit == Init => ApiInv /\ SlotsInv
<1> SUFFICES ASSUME Api!Init PROVE ApiInv /\ SlotsInv
    BY DEF Init
<1>1. site \in [Names -> Api!Apps \cup {None}]
    BY DEF Api!Init, Api!Initial, Api!Apps, Api!Phases
<1>2. ASSUME NEW c \in Calls
      PROVE  /\ call[c] \in Api!CallStates /\ call[c].pc = "idle"
             /\ RecOk(call[c], ever)
    <2>1. call[c] = [pc |-> "idle", op |-> None, user |-> None, name |-> None,
                     seen |-> None, expiry |-> "absent", expired |-> FALSE, events |-> <<>>,
                     shown |-> {}, answer |-> None]
        BY DEF Api!Init, Api!Idle
    <2>2. call[c] \in Api!CallStates
        BY <2>1, RequestTyped DEF Api!Pcs, Api!Expiries, Api!Written
    <2> QED
        BY <2>1, <2>2 DEF RecOk
<1>3. Recorded
    BY DEF Recorded, Api!Init
<1>4. ApiInv
    BY <1>1, <1>2, <1>3 DEF ApiInv, Informed, Api!Init
<1>5. AllHeld = {} /\ \A u \in Users : Held(u) = {}
    BY <1>2 DEF AllHeld, Held, Uses
<1>6. SlotsInv
    BY <1>5, FS_EmptySet DEF SlotsInv, Api!Init
<1> QED
    BY <1>4, <1>6

\* Both invariants hold in every state of either part.
LEMMA ApiAlways == Spec => [](ApiInv /\ SlotsInv)
<1>1. ApiInv /\ SlotsInv /\ [Next]_vars => (ApiInv /\ SlotsInv)'
    <2> SUFFICES ASSUME ApiInv, SlotsInv, [Next]_vars PROVE (ApiInv /\ SlotsInv)'
        OBVIOUS
    <2>1. CASE UNCHANGED apiVars
        <3>1. ApiInv'
            BY <2>1 DEF apiVars, ApiInv, Recorded, Api!Readable, Api!MayRead
        <3>2. SlotsInv'
            BY <2>1 DEF apiVars, SlotsInv, Held, AllHeld
        <3> QED
            BY <3>1, <3>2
    <2>2. CASE Api!Next
        BY <2>2, ApiStep
    <2> QED
        BY <2>1, <2>2 DEF Next, vars
<1> QED
    BY <1>1, ApiInit, PTL DEF Spec

\* The per-user and global stream counters (server.go, acquireLogStream and
\* releaseLogStream) are the streams that are open, whichever calls are refused,
\* fail, are abandoned or end in whatever order: no slot leaks, none is returned
\* twice.
THEOREM SlotsAreExact == Spec => []SlotsExact
<1>1. \A u \in Users : Api!Held(u) = Held(u)
    BY DEF Api!Held, Held, Uses
<1>2. UNION {Api!Held(u) : u \in Users} = AllHeld
    BY DEF Api!Held, AllHeld, Uses
<1>3. ASSUME SlotsInv PROVE SlotsExact
    <2>1. \A u \in Users : slots[u] = Cardinality(Api!Held(u))
        BY <1>1, <1>3 DEF SlotsInv
    <2>2. total = Cardinality(UNION {Api!Held(u) : u \in Users})
        BY <1>2, <1>3 DEF SlotsInv
    <2>3. \A S : Api!Cardinality(S) = Cardinality(S)
        BY DEF Cardinality, Api!Cardinality
    <2> QED
        BY <2>1, <2>2, <2>3 DEF SlotsExact, Api!SlotsExact
<1> QED
    BY <1>3, ApiAlways, PTL

\* "The watch starts before the initial Get so no transition can fall between
\* them" (service.go): a call that waits for an event has one coming whenever
\* its app is Ready, Failed or gone.
THEOREM TransitionsAreSeen == Spec => []NoTransitionMissed
<1>1. ApiInv => NoTransitionMissed
    BY DEF ApiInv, Informed, NoTransitionMissed, Api!NoTransitionMissed
<1> QED
    BY <1>1, ApiAlways, PTL

\* "we deliberately don't distinguish, to avoid leaking the existence of other
\* users' apps" (query.go): on every endpoint that looks its app up for the
\* caller (all but deploy, update_artifact and the public share links), whoever
\* could never read an app is answered as if there were none, and no list shows
\* it.
THEOREM AppsStayHidden == Spec => ExistenceHidden
<1>1. ASSUME ApiInv, SlotsInv, [Next]_vars
      PROVE  [\A c \in Calls :
                LET r == call[c]
                    unseen == {n \in Names : <<r.user, n>> \notin ever}
                IN r.op # None /\ call'[c].pc = "done" =>
                      /\ call'[c].shown \cap unseen = {}
                      /\ r.op \notin {"deploy", "update", "list", "resolve"} /\ r.name \in unseen
                         /\ ~Api!BadExpiry(r)
                            => call'[c].answer = "missing"]_Api!vars
    <2>1. CASE UNCHANGED apiVars
        BY <2>1 DEF apiVars, Api!vars
    <2>2. CASE Api!Next
        BY <1>1, <2>2, ApiStep DEF Hidden
    <2> QED
        BY <1>1, <2>1, <2>2 DEF Next, vars
<1> QED
    BY <1>1, ApiAlways, PTL DEF Spec, ExistenceHidden, Api!ExistenceHidden
=============================================================================
