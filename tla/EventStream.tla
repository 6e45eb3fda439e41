---------------------------- MODULE EventStream ----------------------------
(***************************************************************************)
(* How a status change of a VibedApp reaches a dashboard: the event bridge *)
(* of src/pkg/server (one goroutine that lists, then watches, and publishes*)
(* what changed), the event bus of src/internal/events (one bounded        *)
(* channel per subscriber) and the SSE handler of src/internal/frontend.   *)
(*                                                                         *)
(* A write of the API server is seen by the bridge in its next list or,    *)
(* once it has listed, as a watch event anchored at that list.             *)
(***************************************************************************)
EXTENDS Naturals, Sequences, SequencesExt

CONSTANTS
    Names,        \* VibedApp names
    Owners,
    Phases,       \* a phase with its URL
    Clients,      \* browsers
    Caller,       \* by client: its owner, or Admin
    Admin,
    None,
    Buffer,       \* subscriberBufferSize
    MaxConns,     \* maxSSEConnections
    MaxUid,       \* bound: apps created
    MaxWrites,    \* bound: status writes and changes of owner
    MaxBreaks,    \* bound: lists, watch calls and watches that fail
    MaxVisits     \* bound: connections

VARIABLES
    apps,         \* the API server's VibedApps by name
    bridge,       \* pc, the watch events under way, what is still to publish
    last,         \* eventBridge.last, by uid
    pub,          \* the Publish under way: its event and who is still to get it
    subs,         \* EventBus.subscribers
    chan,         \* by client: its channel
    closed,       \* the clients whose channel is closed
    sse,          \* by client: where its handler is
    conns,        \* activeConns
    view,         \* by client: what it was told of each name
    dropped,      \* history: the clients an event was dropped for
    handed,       \* history: names with the owners an app was taken from
    count         \* uids, writes, breaks and visits so far

vars == <<apps, bridge, last, pub, subs, chan, closed, sse, conns, view, dropped, handed, count>>

busVars == <<pub, subs, chan, closed>>
clientVars == <<sse, conns, view>>

-----------------------------------------------------------------------------
Apps == [uid: 1..MaxUid, owner: Owners, phase: Phases]
States == [name: Names, owner: Owners, phase: Phases]
\* phase None: ArtifactDeleted.
Events == [name: Names, owner: Owners, phase: Phases \cup {None}]
WatchEvents == [type: {"modified", "deleted"}, name: Names, app: Apps]
Uids == 1..MaxUid

\* The bridge, the bus and the handlers have their shape.
TypeOK ==
    /\ apps \in [Names -> Apps \cup {None}]
    /\ bridge.pc \in {"list", "open", "watch"}
    /\ bridge.pending \in Seq(WatchEvents) /\ bridge.outbox \in Seq(Events)
    /\ last \in [Uids -> States \cup {None}]
    /\ pub = None \/ pub \in [event: Events, todo: SUBSET Clients]
    /\ subs \in SUBSET Clients /\ closed \in SUBSET Clients /\ dropped \in SUBSET Clients
    /\ \A c \in Clients : chan[c] \in Seq(Events) /\ Len(chan[c]) <= Buffer
    /\ sse \in [Clients -> {"away", "admitted", "open", "leaving", "closing"}]
    /\ view \in [Clients -> [Names -> Phases \cup {"unknown", None}]]
    /\ conns \in 0..MaxVisits
    /\ handed \subseteq Names \X Owners

Blank == [n \in Names |-> "unknown"]

Init ==
    /\ apps = [n \in Names |-> None]
    /\ bridge = [pc |-> "list", pending |-> <<>>, outbox |-> <<>>]
    /\ last = [u \in Uids |-> None]
    /\ pub = None
    /\ subs = {} /\ chan = [c \in Clients |-> <<>>] /\ closed = {}
    /\ sse = [c \in Clients |-> "away"] /\ conns = 0
    /\ view = [c \in Clients |-> Blank]
    /\ dropped = {} /\ handed = {}
    /\ count = [uid |-> 0, write |-> 0, break |-> 0, visit |-> 0]

Counted(what, max) == count[what] < max /\ count' = [count EXCEPT ![what] = @ + 1]

-----------------------------------------------------------------------------
(* The API server: a write, and its event for a bridge that has listed.    *)

Notify(type, n, app) ==
    bridge' = IF bridge.pc = "list" THEN bridge
              ELSE [bridge EXCEPT !.pending =
                      Append(@, [type |-> type, name |-> n, app |-> app])]

CreateApp(n, o) ==
    LET app == [uid |-> count.uid + 1, owner |-> o, phase |-> CHOOSE p \in Phases : TRUE] IN
    /\ apps[n] = None /\ Counted("uid", MaxUid)
    /\ apps' = [apps EXCEPT ![n] = app] /\ Notify("modified", n, app)
    /\ UNCHANGED <<last, busVars, clientVars, dropped, handed>>

\* Most writes leave the phase as it is.
WriteStatus(n, p) ==
    /\ apps[n] # None /\ Counted("write", MaxWrites)
    /\ apps' = [apps EXCEPT ![n].phase = p] /\ Notify("modified", n, apps'[n])
    /\ UNCHANGED <<last, busVars, clientVars, dropped, handed>>

\* The update of runDeploy: an administrator's redeploy makes the app its own.
TakeOver(n, o) ==
    /\ apps[n] # None /\ apps[n].owner # o /\ Counted("write", MaxWrites)
    /\ apps' = [apps EXCEPT ![n].owner = o] /\ Notify("modified", n, apps'[n])
    /\ handed' = handed \cup {<<n, apps[n].owner>>}
    /\ UNCHANGED <<last, busVars, clientVars, dropped>>

DeleteApp(n) ==
    /\ apps[n] # None
    /\ apps' = [apps EXCEPT ![n] = None] /\ Notify("deleted", n, apps[n])
    /\ UNCHANGED <<last, busVars, clientVars, dropped, handed, count>>

-----------------------------------------------------------------------------
(* eventBridge.                                                            *)

State(n, app) == [name |-> n, owner |-> app.owner, phase |-> app.phase]
DeletedEvent(state) == [state EXCEPT !.phase = None]

\* publishStatus: only a state that differs from the last one published.
Changed(n) == apps[n] # None /\ last[apps[n].uid] # State(n, apps[n])

\* Faulty variant: an app that vanished while a new one took its name is
\* forgotten without an event.
GoneNames == {u \in Uids : last[u] # None /\ apps[last[u].name] = None}

\* The apps in last that the list does not have, by uid.
Gone == {u \in Uids : last[u] # None /\ \A n \in Names : apps[n] # None => apps[n].uid # u}

\* The apps listed, by uid.
Known ==
    LET there == {n \in Names : apps[n] # None}
        Listed(u) == CHOOSE n \in there : apps[n].uid = u
    IN [u \in Uids |-> IF \E n \in there : apps[n].uid = u
                       THEN State(Listed(u), apps[Listed(u)]) ELSE None]

\* The events for the uids ds that are gone, and for the apps ms that changed.
Ends(ds) == [i \in DOMAIN ds |-> DeletedEvent(last[ds[i]])]
Statuses(ms) == [i \in DOMAIN ms |-> State(ms[i], apps[ms[i]])]
Report(events) == bridge' = [bridge EXCEPT !.pc = "open", !.outbox = events]

\* sync: first an ArtifactDeleted for each of these, in any order, then the
\* listed apps that changed.
Sync ==
    /\ last' = Known
    /\ \E ds \in SetToSeqs(Gone), ms \in SetToSeqs({n \in Names : Changed(n)}) :
          Report(Ends(ds) \o Statuses(ms))

\* watchOnce: the list, with its reconcile.
List ==
    /\ bridge.pc = "list" /\ bridge.outbox = <<>> /\ pub = None
    /\ \/ Sync /\ UNCHANGED count
       \/ Counted("break", MaxBreaks) /\ UNCHANGED <<last, bridge>>
    /\ UNCHANGED <<apps, busVars, clientVars, dropped, handed>>

\* ... the watch, once all that is published,
OpenWatch ==
    /\ bridge.pc = "open" /\ bridge.outbox = <<>> /\ pub = None
    /\ \/ bridge' = [bridge EXCEPT !.pc = "watch"] /\ UNCHANGED count
       \/ /\ Counted("break", MaxBreaks)
          /\ bridge' = [bridge EXCEPT !.pc = "list", !.pending = <<>>]
    /\ UNCHANGED <<apps, last, busVars, clientVars, dropped, handed>>

\* ... and handle, for each of its events.
Handle ==
    LET ev == Head(bridge.pending)
        st == State(ev.name, ev.app)
        Out(events) == bridge' = [bridge EXCEPT !.pending = Tail(@), !.outbox = events] IN
    /\ bridge.pc = "watch" /\ bridge.outbox = <<>> /\ pub = None
    /\ bridge.pending # <<>>
    /\ \/ /\ ev.type = "deleted"
          /\ last' = [last EXCEPT ![ev.app.uid] = None]
          /\ Out(<<DeletedEvent(st)>>)
       \/ /\ ev.type = "modified"
          /\ last' = [last EXCEPT ![ev.app.uid] = st]
          /\ Out(IF last[ev.app.uid] = st THEN <<>> ELSE <<st>>)
    /\ UNCHANGED <<apps, busVars, clientVars, dropped, handed, count>>

\* The server closes the watch; Run starts over after its backoff.
WatchCloses ==
    /\ bridge.pc = "watch" /\ bridge.outbox = <<>> /\ pub = None
    /\ Counted("break", MaxBreaks)
    /\ bridge' = [bridge EXCEPT !.pc = "list", !.pending = <<>>]
    /\ UNCHANGED <<apps, last, busVars, clientVars, dropped, handed>>

-----------------------------------------------------------------------------
(* EventBus.                                                               *)

\* Publish takes the read lock, which it holds while pub is there.
Publish ==
    /\ bridge.outbox # <<>> /\ pub = None
    /\ pub' = [event |-> Head(bridge.outbox), todo |-> subs]
    /\ bridge' = [bridge EXCEPT !.outbox = Tail(@)]
    /\ UNCHANGED <<apps, last, subs, chan, closed, clientVars, dropped, handed, count>>

\* One send, which never blocks: a full channel drops the event.
Send(c) ==
    /\ pub # None /\ c \in pub.todo
    /\ pub' = [pub EXCEPT !.todo = @ \ {c}]
    /\ IF Len(chan[c]) < Buffer
       THEN chan' = [chan EXCEPT ![c] = Append(@, pub.event)] /\ UNCHANGED dropped
       ELSE dropped' = dropped \cup {c} /\ UNCHANGED chan
    /\ UNCHANGED <<apps, bridge, last, subs, closed, clientVars, handed, count>>

Published ==
    /\ pub # None /\ pub.todo = {}
    /\ pub' = None
    /\ UNCHANGED <<apps, bridge, last, subs, chan, closed, clientVars, dropped, handed, count>>

Unlocked == pub = None

-----------------------------------------------------------------------------
(* handleSSE.                                                              *)

\* The check against the cap, apart from the increment.
Connect(c) ==
    /\ sse[c] = "away" /\ Counted("visit", MaxVisits)
    /\ sse' = [sse EXCEPT ![c] = IF conns >= MaxConns THEN "away" ELSE "admitted"]
    /\ UNCHANGED <<apps, bridge, last, busVars, conns, view, dropped, handed>>

\* activeConns.Add, a step of its own in the code, and Subscribe under the
\* write lock.
Subscribe(c) ==
    /\ sse[c] = "admitted" /\ Unlocked
    /\ sse' = [sse EXCEPT ![c] = "open"] /\ conns' = conns + 1
    /\ subs' = subs \cup {c}
    /\ chan' = [chan EXCEPT ![c] = <<>>] /\ closed' = closed \ {c}
    /\ view' = [view EXCEPT ![c] = Blank] /\ dropped' = dropped \ {c}
    /\ UNCHANGED <<apps, bridge, last, pub, handed, count>>

Visible(c, owner) == Caller[c] \in {Admin, owner}

\* An event for the caller is written out.
Deliver(c) ==
    /\ sse[c] \in {"open", "leaving"} /\ chan[c] # <<>>
    /\ chan' = [chan EXCEPT ![c] = Tail(@)]
    /\ view' = IF Visible(c, Head(chan[c]).owner)
               THEN [view EXCEPT ![c][Head(chan[c]).name] = Head(chan[c]).phase]
               ELSE view
    /\ UNCHANGED <<apps, bridge, last, pub, subs, closed, sse, conns, dropped, handed, count>>

\* The request's context is cancelled.
Disconnect(c) ==
    /\ sse[c] = "open"
    /\ sse' = [sse EXCEPT ![c] = "leaving"]
    /\ UNCHANGED <<apps, bridge, last, busVars, conns, view, dropped, handed, count>>

\* Faulty variant: the map is left alone, or changed without the lock.
UnsubscribeUnlocked(c) ==
    /\ sse[c] = "leaving"
    /\ sse' = [sse EXCEPT ![c] = "closing"]
    /\ subs' = subs \ {c}
    /\ UNCHANGED <<apps, bridge, last, pub, chan, closed, conns, view, dropped, handed, count>>

\* unsub, once: out of the map under the write lock,
Unsubscribe(c) ==
    /\ sse[c] = "leaving" /\ Unlocked
    /\ sse' = [sse EXCEPT ![c] = "closing"]
    /\ subs' = subs \ {c}
    /\ UNCHANGED <<apps, bridge, last, pub, chan, closed, conns, view, dropped, handed, count>>

\* ... then closed without it; the handler returns.
Close(c) ==
    /\ sse[c] = "closing"
    /\ closed' = closed \cup {c} /\ chan' = [chan EXCEPT ![c] = <<>>]
    /\ sse' = [sse EXCEPT ![c] = "away"] /\ conns' = conns - 1
    /\ view' = [view EXCEPT ![c] = Blank]
    /\ UNCHANGED <<apps, bridge, last, pub, subs, dropped, handed, count>>

Next ==
    \/ \E n \in Names, o \in Owners : CreateApp(n, o) \/ TakeOver(n, o)
    \/ \E n \in Names, p \in Phases : WriteStatus(n, p)
    \/ \E n \in Names : DeleteApp(n)
    \/ List \/ OpenWatch \/ Handle \/ WatchCloses
    \/ Publish \/ Published
    \/ \E c \in Clients : \/ Send(c) \/ Connect(c) \/ Subscribe(c) \/ Deliver(c)
                          \/ Disconnect(c) \/ Unsubscribe(c) \/ Close(c)

Spec == Init /\ [][Next]_vars

-----------------------------------------------------------------------------
\* A channel is never closed while Publish has it still to send to: the send
\* would panic.
NoSendOnClosed == pub # None => pub.todo \cap closed = {}

Quiet == /\ bridge.pc = "watch" /\ bridge.pending = <<>> /\ bridge.outbox = <<>>
         /\ pub = None

\* Once the bridge has caught up and a client has read its channel, what it
\* was told of a name is so, for every order of writes, re-created names,
\* broken watches and late subscriptions, unless an event was dropped for it or
\* an administrator took an app of that name from its owner, who is not told;
\* and it was told nothing of the apps of others.
ViewAgrees ==
    Quiet => \A c \in Clients, n \in Names :
                sse[c] = "open" /\ chan[c] = <<>> /\ c \notin dropped
                /\ <<n, Caller[c]>> \notin handed
                /\ view[c][n] # "unknown"
                   => view[c][n] = IF apps[n] # None /\ Caller[c] \in {Admin, apps[n].owner}
                                   THEN apps[n].phase ELSE None
=============================================================================
