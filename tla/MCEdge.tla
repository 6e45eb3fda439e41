------------------------------- MODULE MCEdge -------------------------------
(***************************************************************************)
(* Five parts that share no state, side by side for TLC: a behaviour is    *)
(* one of the quota enforcer, of the fast lane with its loader, of the     *)
(* router, of the event stream or of an artifact store, as `part' says,    *)
(* and the others stand still.                                             *)
(***************************************************************************)
EXTENDS QuotaEnforcer, TLC

CONSTANTS
    alice, bob, dev,                                      \* quotas
    EdgeNames, Shard, MaxEdits, MaxFaults,                \* fast lane
    RouteNames, RouteTargets, Pods, Domains,              \* router
    StreamNames, StreamPhases, StreamOwners, Clients,     \* event stream
    Caller, Admin, Buffer, MaxConns, MaxUid, MaxWrites, MaxBreaks, MaxVisits,
    Backends, StoreClients, Ids, NameOf, OwnerOf,         \* stores
    StoreOwners, MaxTries, MaxRows, MaxCalls,
    o1, c1, c2, i1, i2, i3, u1                            \* what the values below are made of

VARIABLES
    part,
    fleet, seen, fresh, ctl, ports, config, late, unbacked, used,
    served, cache, synced, queue, pass, routes, missed, doubled,
    cluster, bridge, last, pub, subs, chan, closed, sse, conns, view, dropped, handed, count,
    backend, arts, vers, byName, shares, revs, call, made

-----------------------------------------------------------------------------
MCDepartment == alice :> dev @@ bob :> None

\* Two apps in the tenant, one for each owner; one in each department.
MCLimits == [tenant |-> 2, owner |-> 1, department |-> 1]

\* All apps on one loader replica.
MCShard == [n \in EdgeNames |-> 0]

FastLane == INSTANCE Workerd WITH Names <- EdgeNames

Routing == INSTANCE Router WITH Names <- RouteNames, apps <- served

\* One browser of an owner, one of an administrator.
MCCaller == c1 :> o1 @@ c2 :> Admin

Stream == INSTANCE EventStream WITH
    Names <- StreamNames, Phases <- StreamPhases, Owners <- StreamOwners, apps <- cluster

\* Two of the three artifacts have one name; all have one owner.
MCNameOf == i1 :> i1 @@ i2 :> i1 @@ i3 :> i3
MCOwnerOf == [i \in Ids |-> u1]

Stores == INSTANCE ArtifactStores WITH Clients <- StoreClients, Owners <- StoreOwners

\* Apps have names and artifacts ids; no record is the absence of one.
ASSUME EdgeAssumption ==
    /\ IsFiniteSet(EdgeNames) /\ None \notin EdgeNames \cup Ids
    /\ None \notin FastLane!Apps \cup FastLane!Writes
    /\ None \notin Routing!Apps \cup Routing!Routes \cup Routing!Passes

\* There is a phase for a new app to be in, and so many names and incarnations.
ASSUME StreamAssumption ==
    /\ IsFiniteSet(StreamNames) /\ MaxUid \in Nat /\ StreamPhases # {}
    /\ None \notin Stream!Apps \cup Stream!States
    /\ None \notin [event: Stream!Events, todo: SUBSET Clients]

laneVars == <<fleet, seen, fresh, ctl, ports, config, late, unbacked, used>>
routerVars == <<served, cache, synced, queue, pass, routes, missed, doubled>>
streamVars == <<cluster, bridge, last, pub, subs, chan, closed, sse, conns, view, dropped,
                handed, count>>
storeVars == <<backend, arts, vers, byName, shares, revs, call, made>>
allVars == <<part, vars, laneVars, routerVars, streamVars, storeVars>>

EdgeInit ==
    /\ part \in {"quota", "lane", "router", "stream", "stores"}
    /\ Init /\ FastLane!Init /\ Routing!Init /\ Stream!Init /\ Stores!Init
    /\ part # "stores" => backend = CHOOSE b \in Backends : TRUE
    /\ part # "router" => served = [n \in RouteNames |-> None]

QuotaNext == Next /\ UNCHANGED <<laneVars, routerVars, streamVars, storeVars>>
LaneNext == FastLane!Next /\ UNCHANGED <<vars, routerVars, streamVars, storeVars>>
RouterNext == Routing!Next /\ UNCHANGED <<vars, laneVars, streamVars, storeVars>>
StreamNext == Stream!Next /\ UNCHANGED <<vars, laneVars, routerVars, storeVars>>
StoresNext == Stores!Next /\ UNCHANGED <<vars, laneVars, routerVars, streamVars>>

EdgeNext ==
    /\ UNCHANGED part
    /\ \/ part = "quota" /\ QuotaNext
       \/ part = "lane" /\ LaneNext
       \/ part = "router" /\ RouterNext
       \/ part = "stream" /\ StreamNext
       \/ part = "stores" /\ StoresNext

EdgeSpec == EdgeInit /\ [][EdgeNext]_allVars

-----------------------------------------------------------------------------
(* The properties of the parts, ReservationsDrain and                      *)
(* CeilingUnlessOvertaken of QuotaEnforcer besides.                        *)

\* Workerd: the port a Ready app is routed to serves its own worker.
PortIsOwn == FastLane!PortIsOwn

\* Router: with nothing to do, it has left the routes that the statuses ask for.
RoutesSettle == Routing!RoutesSettle

\* EventStream: nothing is sent on a closed channel.
NoSendOnClosed == Stream!NoSendOnClosed

\* EventStream: a client for which nothing was dropped knows the last phases.
ViewAgrees == Stream!ViewAgrees

\* ArtifactStores: each step of a backend is a step of an atomic store.
StoreIsAtomic == Stores!StoreIsAtomic
=============================================================================
