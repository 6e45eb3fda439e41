------------------------------- MODULE Router -------------------------------
(***************************************************************************)
(* vibed-router (src/internal/router): it watches the VibedApps and keeps  *)
(* a Caddy route for each app that is Ready.                               *)
(*                                                                         *)
(* The apps are written by the deploy service and by the controller, whose *)
(* status writes the apiserver accepts only when they are made from the    *)
(* current app; so each is one step here.  Nothing is bounded but the sets *)
(* of names and addresses.                                                 *)
(***************************************************************************)
EXTENDS FiniteSets

CONSTANTS
    Names,
    None,
    RouteTargets, \* status.routeTarget: a Service's DNS name, a workerd replica and port
    Pods,         \* status.podIP
    Domains       \* status.url: the app's label in one of these, and no other part matters

VARIABLES
    apps,         \* by name: the VibedApp, or None
    cache,        \* the router's copy
    synced,       \* by name: whether the last write has been delivered to it
    queue, pass,  \* the workqueue and the reconcile under way
    routes,       \* Caddy: by name, the route that has its id and serves, or None
    missed,       \* history: apps whose deletion the router could not observe
    doubled       \* history: apps with two routes of one id

vars == <<apps, cache, synced, queue, pass, routes, missed, doubled>>

-----------------------------------------------------------------------------
\* Phase "Waiting" stands for Pending, Claiming, Starting and Failed.  Conditions,
\* times, the source and whatever else the router does not read are left out.
Apps == [phase: {"Waiting", "Ready", "Suspended"}, target: RouteTargets \cup {None},
         pod: Pods \cup {None}, url: Domains \cup {None}, suspended: BOOLEAN,
         deleting: BOOLEAN]
NewApp ==
    [phase |-> "Waiting", target |-> None, pod |-> None, url |-> None,
     suspended |-> FALSE, deleting |-> FALSE]
\* A Ready app of before there was a routeTarget.
LegacyApp(pod, url) == [NewApp EXCEPT !.phase = "Ready", !.pod = pod, !.url = url]

Routes == [host: Domains, upstream: RouteTargets \cup Pods]
\* route: the one the app is to have, or None for no route.
Passes == [name: Names, route: Routes \cup {None}]

TypeOK ==
    /\ apps \in [Names -> Apps \cup {None}] /\ cache \in [Names -> Apps \cup {None}]
    /\ synced \in [Names -> BOOLEAN]
    /\ queue \subseteq Names /\ pass \in Passes \cup {None}
    /\ routes \in [Names -> Routes \cup {None}]
    /\ missed \subseteq Names /\ doubled \subseteq Names

\* The router starts, with the apps of an earlier release or none.
Init ==
    /\ apps \in [Names -> {LegacyApp(p, d) : p \in Pods, d \in Domains} \cup {None}]
    /\ cache = [n \in Names |-> None] /\ synced = [n \in Names |-> apps[n] = None]
    /\ queue = {} /\ pass = None
    /\ routes = [n \in Names |-> None]
    /\ missed = {} /\ doubled = {}

-----------------------------------------------------------------------------
(* The apps.                                                               *)

Store(n, app) ==
    /\ apps' = [apps EXCEPT ![n] = app]
    /\ synced' = [synced EXCEPT ![n] = FALSE]
    /\ UNCHANGED <<cache, queue, pass, routes, missed, doubled>>

Create(n) == apps[n] = None /\ Store(n, NewApp)

\* SetSuspended.
ToggleSuspended(n) ==
    apps[n] # None /\ Store(n, [apps[n] EXCEPT !.suspended = ~@])

\* A deploy over an app writes a new spec, which is not suspended.
Redeploy(n) ==
    apps[n] # None /\ Store(n, [apps[n] EXCEPT !.suspended = FALSE])

\* A deletion that waits for the app's dependents.
DeleteForeground(n) ==
    apps[n] # None /\ Store(n, [apps[n] EXCEPT !.deleting = TRUE])

\* A router that never had the app is told nothing of its end.
Delete(n) ==
    /\ apps[n] # None
    /\ apps' = [apps EXCEPT ![n] = None]
    /\ synced' = [synced EXCEPT ![n] = cache[n] = None]
    /\ missed' = IF cache[n] = None THEN missed \cup {n} ELSE missed
    /\ UNCHANGED <<cache, queue, pass, routes, doubled>>

\* The controller leaves an app alone that is being deleted.
Reconciled(n) == apps[n] # None /\ ~apps[n].deleting
Running(n) == Reconciled(n) /\ ~apps[n].suspended

\* A pass that comes to nothing: only a condition is written.
WriteCondition(n) == Reconciled(n) /\ Store(n, apps[n])

\* The spec is invalid, or there is no pool for it.
Fail(n) == Reconciled(n) /\ Store(n, [apps[n] EXCEPT !.phase = "Waiting"])

\* The claim is bound, to a first pod or to another.
Bind(n) ==
    /\ Running(n) /\ apps[n].phase # "Suspended"
    /\ \E p \in Pods : Store(n, [apps[n] EXCEPT !.phase = "Waiting", !.pod = p])

\* EnsureService or Deploy, and Publish, in whichever domain this controller has.
Serve(n) ==
    /\ Running(n) /\ apps[n].phase = "Waiting"
    /\ \E t \in RouteTargets, d \in Domains :
          Store(n, [apps[n] EXCEPT !.phase = "Ready", !.target = t, !.url = d])

\* reconcileSuspension: the URL stays.
Park(n) ==
    /\ Reconciled(n) /\ apps[n].suspended /\ apps[n].phase # "Suspended"
    /\ Store(n, [apps[n] EXCEPT !.phase = "Suspended", !.target = None, !.pod = None])

Restore(n) ==
    /\ Running(n) /\ apps[n].phase = "Suspended"
    /\ Store(n, [apps[n] EXCEPT !.phase = "Waiting"])

-----------------------------------------------------------------------------
(* The router, and Caddy's admin API.                                      *)

\* Faulty variant: an app's URL is taken to stay what it is.
ChangedButForUrl(old, new) ==
    \/ old.phase # new.phase
    \/ old.target # new.target
    \/ old.pod # new.pod
    \/ old.deleting # new.deleting
    \/ old.suspended # new.suspended

routingFieldsChanged(old, new) ==
    \/ old.phase # new.phase
    \/ old.url # new.url
    \/ old.target # new.target
    \/ old.pod # new.pod
    \/ old.deleting # new.deleting
    \/ old.suspended # new.suspended

\* The informer delivers the latest app, whatever was written since the last time;
\* the predicate filters updates.
Sync(n) ==
    /\ ~synced[n]
    /\ synced' = [synced EXCEPT ![n] = TRUE]
    /\ cache' = [cache EXCEPT ![n] = apps[n]]
    /\ queue' = IF None \in {cache[n], apps[n]} \/ routingFieldsChanged(cache[n], apps[n])
                THEN queue \cup {n} ELSE queue
    /\ missed' = missed \ {n}
    /\ UNCHANGED <<apps, pass, routes, doubled>>

\* upstream: the target, or the pod of an app of before there were targets.
Upstream(app) == IF app.target # None THEN app.target ELSE app.pod

\* The route an app is to have: only a Ready one with a URL and an upstream.
Wanted(app) ==
    IF app # None /\ app.phase = "Ready" /\ app.url # None /\ Upstream(app) # None
    THEN [host |-> app.url, upstream |-> Upstream(app)] ELSE None

\* Reconcile: the read of the cache decides between DeleteRoute and EnsureRoute.
Reconcile(n) ==
    /\ pass = None /\ n \in queue
    /\ queue' = queue \ {n}
    /\ pass' = [name |-> n, route |-> Wanted(cache[n])]
    /\ UNCHANGED <<apps, cache, synced, routes, missed, doubled>>

\* Of two routes with one id a call reaches either.
Route(n, route) ==
    \/ routes' = [routes EXCEPT ![n] = route]
    \/ n \in doubled /\ UNCHANGED routes

\* DeleteRoute, for which a 404 is success, or EnsureRoute: a PATCH, and a POST
\* after one that was answered 404.  Nobody else writes the route in between.
CallSucceeds ==
    /\ pass # None
    /\ Route(pass.name, pass.route)
    /\ pass' = None
    /\ UNCHANGED <<apps, cache, synced, queue, missed, doubled>>

\* A call errors, with its effect or without: the app is queued again.
CallFails ==
    /\ pass # None
    /\ Route(pass.name, pass.route) \/ UNCHANGED routes
    /\ queue' = queue \cup {pass.name} /\ pass' = None
    /\ UNCHANGED <<apps, cache, synced, missed, doubled>>

\* EnsureRoute takes any other answer to the PATCH for a 404 too: the POST then
\* adds a second route behind the one that is there.
PatchRefused ==
    /\ pass # None /\ pass.route # None /\ routes[pass.name] # None
    /\ doubled' = doubled \cup {pass.name}
    /\ pass' = None
    /\ UNCHANGED <<apps, cache, synced, queue, routes, missed>>

\* A new process lists every app as created; what was deleted before its list
\* is unknown to it.
Restart ==
    /\ cache' = [n \in Names |-> None] /\ synced' = [n \in Names |-> apps[n] = None]
    /\ queue' = {} /\ pass' = None
    /\ missed' = missed \cup {n \in Names : apps[n] = None}
    /\ UNCHANGED <<apps, routes, doubled>>

-----------------------------------------------------------------------------
Edit(n) == Create(n) \/ ToggleSuspended(n) \/ Redeploy(n) \/ DeleteForeground(n)

WriteStatus(n) ==
    WriteCondition(n) \/ Fail(n) \/ Bind(n) \/ Serve(n) \/ Park(n) \/ Restore(n)

Call == CallSucceeds \/ CallFails \/ PatchRefused

Next ==
    \/ \E n \in Names : Edit(n) \/ Delete(n) \/ WriteStatus(n) \/ Sync(n) \/ Reconcile(n)
    \/ Call \/ Restart

Spec == Init /\ [][Next]_vars

-----------------------------------------------------------------------------
\* routingFieldsChanged leaves out no field the route depends on: when the
\* router is at rest and nothing waits to be delivered to it, Caddy has the route
\* each app wants, whatever was filtered, coalesced, failed or restarted, except for
\* an app deleted where the router could not see it and one that a refused PATCH
\* gave two routes.
RoutesSettle ==
    queue = {} /\ pass = None /\ (\A n \in Names : synced[n])
       => \A n \in Names \ (missed \cup doubled) : routes[n] = Wanted(apps[n])
=============================================================================
