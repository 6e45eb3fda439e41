------------------------------ MODULE Workerd ------------------------------
(***************************************************************************)
(* The fast lane: the controller has the worker of an app deployed to a    *)
(* workerd loader (src/internal/workerd) and publishes the loader's port   *)
(* as status.routeTarget.                                                  *)
(*                                                                         *)
(* Apps and workers are keyed by the app's name.  The controller works     *)
(* from a cached copy of the app; the apiserver rejects a status write     *)
(* made from a copy that is no longer current.                             *)
(***************************************************************************)
EXTENDS Naturals, FiniteSets, FiniteSetsExt

CONSTANTS
    Names,
    None,
    Shard,        \* Client.shard: by name, the loader replica it is pinned to
    MaxEdits,     \* bound: user edits
    MaxFaults     \* bound: calls that fail and processes that restart

VARIABLES
    fleet,        \* by name: the VibedApp, or None
    seen, fresh,  \* the controller's cached copy, and whether it is current
    ctl,          \* by name: the status write a controller pass has yet to make
    ports,        \* Loader.apps and Loader.ports: by replica and port, its app
    config,       \* config.capnp as last rendered: the sockets workerd serves
    late,         \* deploys the controller gave up on and a loader still runs
    unbacked,     \* history: apps whose worker a loader dropped unrecorded
    used          \* how much of the bounds is spent

loaderVars == <<ports, config, late>>
appVars == <<fleet, seen, fresh, ctl, unbacked>>
vars == <<appVars, loaderVars, used>>

-----------------------------------------------------------------------------
Shards == {Shard[n] : n \in Names}
\* Slots above portBase; every name holds at most one.
Ports == 0..(Cardinality(Names) - 1)
Targets == Shards \X Ports
Phases == {"Claiming", "Ready", "Suspended"}

\* phase "Claiming" stands for every phase before Ready: they are one to the
\* fast lane.
Apps == [phase: Phases, target: Targets \cup {None}, suspended: BOOLEAN]
NewApp == [phase |-> "Claiming", target |-> None, suspended |-> FALSE]

\* phase and target: what is written.  valid: the copy it was made from is
\* still current.  dropped: the loader lost the worker meanwhile.
Writes == [phase: Phases, target: Targets \cup {None}, valid: BOOLEAN, dropped: BOOLEAN]
Empty == [s \in Shards |-> [p \in Ports |-> None]]

\* Apps, copies and loaders have their shape.
TypeOK ==
    /\ fleet \in [Names -> Apps \cup {None}]
    /\ seen \in [Names -> Apps \cup {None}] /\ fresh \in [Names -> BOOLEAN]
    /\ ctl \in [Names -> Writes \cup {None}]
    /\ ports \in [Shards -> [Ports -> Names \cup {None}]]
    /\ config \in [Shards -> [Ports -> Names \cup {None}]]
    /\ late \subseteq Names
    /\ unbacked \subseteq Names
    /\ used \in [edits: 0..MaxEdits, faults: 0..MaxFaults]

Init ==
    /\ fleet = [n \in Names |-> None]
    /\ seen = fleet /\ fresh = [n \in Names |-> TRUE]
    /\ ctl = [n \in Names |-> None]
    /\ ports = Empty /\ config = Empty
    /\ late = {}
    /\ unbacked = {}
    /\ used = [edits |-> 0, faults |-> 0]

\* A call fails or a process restarts.
Fault == used.faults < MaxFaults /\ used' = [used EXCEPT !.faults = @ + 1]

-----------------------------------------------------------------------------
(* The apiserver: a write makes every copy taken before it outdated.       *)

Store(n, app) ==
    /\ fleet' = [fleet EXCEPT ![n] = app]
    /\ fresh' = [fresh EXCEPT ![n] = FALSE]

Edit == used.edits < MaxEdits /\ used' = [used EXCEPT !.edits = @ + 1]

Outdate(n) ==
    ctl' = IF ctl[n] = None THEN ctl ELSE [ctl EXCEPT ![n].valid = FALSE]

Create(n) ==
    /\ Edit /\ fleet[n] = None
    /\ Store(n, NewApp) /\ Outdate(n)
    /\ UNCHANGED <<seen, unbacked, loaderVars>>

ToggleSuspended(n) ==
    /\ Edit /\ fleet[n] # None
    /\ Store(n, [fleet[n] EXCEPT !.suspended = ~@]) /\ Outdate(n)
    /\ UNCHANGED <<seen, unbacked, loaderVars>>

\* There is no finalizer: nobody removes the worker of a deleted app.
Delete(n) ==
    /\ Edit /\ fleet[n] # None
    /\ Store(n, None) /\ Outdate(n)
    /\ unbacked' = unbacked \ {n}
    /\ UNCHANGED <<seen, loaderVars>>

-----------------------------------------------------------------------------
(* Loader.                                                                 *)

FreePorts(s) == {p \in Ports : ports[s][p] = None}
PortOf(n) == {p \in Ports : ports[Shard[n]][p] = n}

\* Faulty variant: the slot after as many as there are apps.
AssignPortByCount(s) == Cardinality(Ports \ FreePorts(s)) % Cardinality(Ports)

\* assignPortLocked: the lowest free slot.
AssignPort(s) == Min(FreePorts(s))

PutPort(n) == IF PortOf(n) # {} THEN CHOOSE p \in PortOf(n) : TRUE ELSE AssignPort(Shard[n])

\* Put: an app keeps its port.
Put(n) == ports' = [ports EXCEPT ![Shard[n]][PutPort(n)] = n]

\* Remove: a missing app is no error.
Free(n) == ports' = [ports EXCEPT ![Shard[n]] = [p \in Ports |-> IF @[p] = n THEN None ELSE @[p]]]

\* renderLocked: the whole config again, from the current map; then reload.
Render(s) == config' = [config EXCEPT ![s] = ports'[s]]

\* renderLocked or the reload hook fails: the map has changed all the same.
RenderFails(s) == config' = config \/ Render(s)

\* The loader finishes a deploy its client timed out on.
LatePut(n) ==
    /\ n \in late
    /\ late' = late \ {n}
    /\ Put(n) /\ Render(Shard[n])
    /\ UNCHANGED <<appVars, used>>

\* New: the map starts empty, and so does the config.
RestartLoader(s) ==
    /\ Fault
    /\ ports' = [ports EXCEPT ![s] = Empty[s]]
    /\ Render(s)
    /\ late' = {n \in late : Shard[n] # s}
    /\ unbacked' = unbacked \cup {n \in Names : Shard[n] = s /\ PortOf(n) # {}}
    /\ ctl' = [n \in Names |-> IF ctl[n] # None /\ Shard[n] = s
                               THEN [ctl[n] EXCEPT !.dropped = TRUE] ELSE ctl[n]]
    /\ UNCHANGED <<fleet, seen, fresh>>

-----------------------------------------------------------------------------
(* The controller: one pass at a time per app, from its cached copy.       *)

Sync(n) ==
    /\ ~fresh[n]
    /\ fresh' = [fresh EXCEPT ![n] = TRUE]
    /\ seen' = [seen EXCEPT ![n] = fleet[n]]
    /\ UNCHANGED <<fleet, ctl, unbacked, loaderVars, used>>

Idle(n) == ctl[n] = None /\ seen[n] # None

ToWrite(n, phase, target) ==
    ctl' = [ctl EXCEPT ![n] = [phase |-> phase, target |-> target,
                               valid |-> fresh[n], dropped |-> FALSE]]

\* Client.Deploy fails: it may have assigned the port, or may still be running.
DeployFails(n) ==
    /\ Fault
    /\ \/ late' \in {late, late \cup {n}} /\ UNCHANGED <<ports, config>>
       \/ Put(n) /\ RenderFails(Shard[n]) /\ UNCHANGED late

\* Client.Remove fails, with its effect or without.
RemoveFails(n) ==
    /\ Fault
    /\ \/ Free(n) /\ RenderFails(Shard[n]) /\ unbacked' = unbacked \cup {n}
       \/ UNCHANGED <<ports, config, unbacked>>

\* reconcileFastLane: Deploy, and the status that follows.
ReconcileFastLane(n) ==
    /\ Idle(n) /\ ~seen[n].suspended /\ seen[n].phase = "Claiming"
    /\ \/ /\ Put(n) /\ Render(Shard[n])
          /\ ToWrite(n, "Ready", <<Shard[n], PutPort(n)>>)
          /\ UNCHANGED <<late, used>>
       \/ DeployFails(n) /\ ToWrite(n, "Claiming", seen[n].target)
    /\ UNCHANGED <<fleet, seen, fresh, unbacked>>

\* reconcileSuspension: Remove, and the status that follows; after a failure
\* only a condition is written.
ReconcileSuspend(n) ==
    /\ Idle(n) /\ seen[n].suspended /\ seen[n].phase # "Suspended"
    /\ \/ /\ Free(n) /\ Render(Shard[n])
          /\ ToWrite(n, "Suspended", None)
          /\ unbacked' = unbacked \cup {n}
          /\ UNCHANGED used
       \/ RemoveFails(n) /\ ToWrite(n, seen[n].phase, seen[n].target)
    /\ UNCHANGED <<fleet, seen, fresh, late>>

ReconcileRestore(n) ==
    /\ Idle(n) /\ ~seen[n].suspended /\ seen[n].phase = "Suspended"
    /\ ToWrite(n, "Claiming", seen[n].target)
    /\ UNCHANGED <<fleet, seen, fresh, unbacked, loaderVars, used>>

\* patchStatusIfChanged: nothing for an unchanged status; a conflict or a
\* missing app fails the pass.
WriteStatus(n) ==
    /\ ctl[n] # None
    /\ LET w == ctl[n]
           app == [seen[n] EXCEPT !.phase = w.phase, !.target = w.target]
       IN IF w.valid /\ app # fleet[n]
          THEN /\ Store(n, app)
               /\ unbacked' = IF w.dropped THEN unbacked \cup {n} ELSE unbacked \ {n}
          ELSE UNCHANGED <<fleet, fresh, unbacked>>
    /\ ctl' = [ctl EXCEPT ![n] = None]
    /\ UNCHANGED <<seen, loaderVars, used>>

\* A new process lists the apps; a status it had yet to write is lost.
RestartController ==
    /\ Fault
    /\ seen' = fleet /\ fresh' = [n \in Names |-> TRUE]
    /\ ctl' = [n \in Names |-> None]
    /\ UNCHANGED <<fleet, unbacked, loaderVars>>

-----------------------------------------------------------------------------
Reconcile(n) ==
    ReconcileFastLane(n) \/ ReconcileSuspend(n) \/ ReconcileRestore(n) \/ WriteStatus(n)

Next ==
    \/ \E n \in Names : \/ Create(n) \/ ToggleSuspended(n) \/ Delete(n)
                        \/ Sync(n) \/ Reconcile(n) \/ LatePut(n)
    \/ RestartController
    \/ \E s \in Shards : RestartLoader(s)

Spec == Init /\ [][Next]_vars

-----------------------------------------------------------------------------
\* The upstream an app publishes is served by its own worker, whoever deployed,
\* suspended or was deleted in the meantime and whichever call failed half-way,
\* as long as no loader has dropped the worker without the app's status saying so.
PortIsOwn ==
    \A n \in Names \ unbacked :
       fleet[n] # None /\ fleet[n].target # None
          => config[fleet[n].target[1]][fleet[n].target[2]] = n
=============================================================================
