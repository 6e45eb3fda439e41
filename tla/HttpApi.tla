------------------------------ MODULE HttpApi ------------------------------
(***************************************************************************)
(* The request handlers over the deploy service: the /v1 API               *)
(* (src/pkg/vibedapi/http), the MCP tools (src/internal/mcp) and the       *)
(* dashboard's share-link endpoints, as concurrent calls on the apps of    *)
(* one namespace.                                                          *)
(*                                                                         *)
(* A call looks its app up for its caller (deploy.Service.Get), acts on it *)
(* in a later step, and answers; a deploy and a rollback then wait for the *)
(* app to become Ready, a log request holds a stream slot.                 *)
(***************************************************************************)
EXTENDS Naturals, Sequences, FiniteSets

CONSTANTS
    Calls,         \* concurrent calls
    Users,
    Admins,        \* the users with the admin role
    Names,         \* app names
    None,
    Label,         \* SanitizeLabel: by user, the owner label, which may collide
    Authorizers,   \* the Authorizers to consider; None: the built-in owner check
    PerUser,       \* log streams per user
    Global,        \* log streams in all
    MaxCalls,      \* bound: calls made
    MaxMoves       \* bound: phase changes by the controller

VARIABLES
    site,          \* by name: the VibedApp, or None
    authorizer,    \* the Authorizer registered at start, or None
    call,          \* the calls
    slots, total,  \* Server.logStreams and logStreamTotal
    links,         \* the share links
    ever,          \* history: who could ever read which app
    made, moves

vars == <<site, authorizer, call, slots, total, links, ever, made, moves>>

-----------------------------------------------------------------------------
\* "Pending" is every phase before Ready.
Phases == {"Pending", "Ready", "Failed", "Suspended"}
Apps == [owner: Users, phase: Phases, suspended: BOOLEAN]

\* get_artifact_logs, "tail", reads the log without a stream slot.
Ops == {"get", "list", "delete", "suspend", "resume", "rollback", "deploy", "update",
        "redeploy", "logs", "tail", "share", "revoke", "resolve"}
Pcs == {"idle", "look", "list", "act", "unlink", "insert", "deploy", "slot", "open", "tail",
        "watch", "get", "events", "poll", "resolve", "target", "done"}
Answers == {"ok", "accepted", "missing", "forbidden", "bad", "busy",
            "unauthenticated", "error", "gone", None}

\* expires_in as the caller wrote it; the MCP tool ignores one it cannot read.
Written == {"absent", "positive", "zero", "unreadable"}
Expiries == Written \cup {"ignored"}

\* expires: the link has an ExpiresAt.
Links == [name: Names, expires: BOOLEAN]

\* seen: the copy that Get returned.  events: the watch's channel.  expired: the
\* deploy timeout has passed.  shown: the apps in the answer.
CallStates ==
    [pc: Pcs, op: Ops \cup {None}, user: Users \cup {None},
     name: Names \cup {None}, seen: Apps \cup {None}, expiry: Expiries, expired: BOOLEAN,
     events: Seq(Phases \cup {"Deleted"}), shown: SUBSET Names, answer: Answers]

Idle == [pc |-> "idle", op |-> None, user |-> None, name |-> None,
         seen |-> None, expiry |-> "absent", expired |-> FALSE, events |-> <<>>,
         shown |-> {}, answer |-> None]

\* Apps, calls, slots and links have their shape.
TypeOK ==
    /\ site \in [Names -> Apps \cup {None}]
    /\ call \in [Calls -> CallStates]
    /\ slots \in [Users -> 0..PerUser] /\ total \in 0..Global
    /\ links \subseteq Links
    /\ ever \subseteq Users \X Names
    /\ made \in 0..MaxCalls /\ moves \in 0..MaxMoves

-----------------------------------------------------------------------------
(* Authorisation in the deploy service.                                    *)

\* Get's check: an Authorizer replaces the comparison of owners.
MayRead(u, n, app) ==
    IF authorizer = None THEN app.owner = u ELSE <<u, n>> \in authorizer.read

Readable(u, n) == IF site[n] = None THEN FALSE ELSE MayRead(u, n, site[n])

\* authorize: only an Authorizer has more to say than Get's check.
MayWrite(u, n) == IF authorizer = None THEN TRUE ELSE <<u, n>> \in authorizer.write

\* Deploy's ownership gate, which an Authorizer adds to.
MayDeploy(u, n) ==
    /\ IF site[n] = None THEN TRUE ELSE site[n].owner = u \/ u \in Admins
    /\ MayWrite(u, n)

\* Faulty variant: the owner label decides.
VisibleByLabel(u) == {n \in Names : site[n] # None /\ Label[site[n].owner] = Label[u]}

\* List: the label or the Authorizer's selector narrows the fetch, and every
\* app fetched is checked.
Visible(u) ==
    {n \in Names : /\ Readable(u, n)
                   /\ authorizer = None => Label[site[n].owner] = Label[u]}

\* The apps that are there when the server starts.
Initial == [owner: Users, phase: {"Pending"}, suspended: {FALSE}]

Init ==
    /\ site \in [Names -> Initial \cup {None}]
    /\ authorizer \in Authorizers
    /\ call = [c \in Calls |-> Idle]
    /\ slots = [u \in Users |-> 0] /\ total = 0
    /\ links = {}
    /\ ever = {p \in Users \X Names : Readable(p[1], p[2])}
    /\ made = 0 /\ moves = 0

-----------------------------------------------------------------------------
\* An app changes, is created or deleted (app = None): the watches on its name
\* are told, and call c goes on as rec.
Watching(r, n) == r.pc \in {"get", "events"} /\ r.name = n

Told(r, n, app) ==
    IF ~Watching(r, n) THEN r
    ELSE [r EXCEPT !.events = Append(@, IF app = None THEN "Deleted" ELSE app.phase)]

Change(n, app) ==
    /\ site' = [site EXCEPT ![n] = app]
    /\ ever' = IF app = None THEN ever
               ELSE ever \cup {<<u, n>> : u \in {u \in Users : MayRead(u, n, app)}}

ChangeBy(c, rec, n, app) ==
    /\ Change(n, app)
    /\ call' = [d \in Calls |-> IF d = c THEN rec ELSE Told(call[d], n, app)]

Go(c, rec) == call' = [call EXCEPT ![c] = rec]

\* The call is over.
Done(answer) == [Idle EXCEPT !.pc = "done", !.answer = answer]

Answer(c, answer) == Go(c, Done(answer))

streamVars == <<slots, total>>

-----------------------------------------------------------------------------
(* The handlers up to their first call of the service.                     *)

Begin(c, u, op, n, pc, expiry) ==
    /\ call[c].pc \in {"idle", "done"} /\ made < MaxCalls
    /\ made' = made + 1
    /\ Go(c, [Idle EXCEPT !.pc = pc, !.op = op, !.user = u, !.name = n, !.expiry = expiry])
    /\ UNCHANGED <<site, authorizer, streamVars, links, ever, moves>>

\* The first lines of every /v1 handler: a request without a user is refused.
Unauthenticated(c) ==
    /\ call[c].pc \in {"idle", "done"} /\ made < MaxCalls
    /\ made' = made + 1
    /\ Answer(c, "unauthenticated")
    /\ UNCHANGED <<site, authorizer, streamVars, links, ever, moves>>

ListApps(c, u) == Begin(c, u, "list", None, "list", "absent")
GetApp(c, u, n) == Begin(c, u, "get", n, "look", "absent")
GetAppVersions(c, u, n) == Begin(c, u, "get", n, "look", "absent")
ListShareLinks(c, u, n) == Begin(c, u, "get", n, "look", "absent")
DeleteApp(c, u, n) == Begin(c, u, "delete", n, "look", "absent")
SetSuspended(c, u, n) == \E op \in {"suspend", "resume"} : Begin(c, u, op, n, "look", "absent")
RollbackApp(c, u, n) == Begin(c, u, "rollback", n, "look", "absent")
DeployApp(c, u, n) == Begin(c, u, "deploy", n, "deploy", "absent")
RedeployApp(c, u, n) == Begin(c, u, "redeploy", n, "look", "absent")
StreamAppLogs(c, u, n) == Begin(c, u, "logs", n, "look", "absent")
CreateShareLink(c, u, n) == \E x \in Written : Begin(c, u, "share", n, "look", x)
RevokeShareLink(c, u, n) == Begin(c, u, "revoke", n, "look", "absent")

\* The MCP tools: update_artifact deploys without looking the app up first, and
\* get_artifact_logs takes no stream slot.
ListTool(c, u) == Begin(c, u, "list", None, "list", "absent")
StatusTool(c, u, n) == Begin(c, u, "get", n, "look", "absent")
ListVersionsTool(c, u, n) == Begin(c, u, "get", n, "look", "absent")
DeleteTool(c, u, n) == Begin(c, u, "delete", n, "look", "absent")
RollbackTool(c, u, n) == Begin(c, u, "rollback", n, "look", "absent")
DeployTool(c, u, n) == Begin(c, u, "deploy", n, "deploy", "absent")
UpdateTool(c, u, n) == Begin(c, u, "update", n, "deploy", "absent")
LogsTool(c, u, n) == Begin(c, u, "tail", n, "look", "absent")
CreateShareLinkTool(c, u, n) ==
    \E x \in Written : Begin(c, u, "share", n, "look", IF x = "unreadable" THEN "ignored" ELSE x)
ListShareLinksTool(c, u, n) == Begin(c, u, "get", n, "look", "absent")
RevokeShareLinkTool(c, u, n) == Begin(c, u, "revoke", n, "look", "absent")

\* GET or POST /api/share/{token}, by anyone, with the token of a link to n.
PublicShareLink(c, n) == Begin(c, None, "resolve", n, "resolve", "absent")

Http(c, u) ==
    \/ ListApps(c, u)
    \/ \E n \in Names :
          \/ GetApp(c, u, n) \/ GetAppVersions(c, u, n) \/ ListShareLinks(c, u, n)
          \/ DeleteApp(c, u, n) \/ SetSuspended(c, u, n) \/ RollbackApp(c, u, n)
          \/ DeployApp(c, u, n) \/ RedeployApp(c, u, n) \/ StreamAppLogs(c, u, n)
          \/ CreateShareLink(c, u, n) \/ RevokeShareLink(c, u, n)

Mcp(c, u) ==
    \/ ListTool(c, u)
    \/ \E n \in Names :
          \/ StatusTool(c, u, n) \/ ListVersionsTool(c, u, n) \/ DeleteTool(c, u, n)
          \/ RollbackTool(c, u, n) \/ DeployTool(c, u, n) \/ UpdateTool(c, u, n)
          \/ LogsTool(c, u, n) \/ CreateShareLinkTool(c, u, n)
          \/ ListShareLinksTool(c, u, n) \/ RevokeShareLinkTool(c, u, n)

-----------------------------------------------------------------------------
(* The service.                                                            *)

\* parseExpiresIn, for the API: what cannot be read is refused, before the app
\* is looked up.
BadExpiry(r) == r.expiry = "unreadable"

\* Where a call that may read its app goes on.
NextPc(r) == CASE r.op = "redeploy" -> "deploy"
               [] r.op = "logs" -> "slot"
               [] r.op = "tail" -> "open"
               [] r.op = "share" -> "insert"
               [] r.op \in {"delete", "suspend", "resume", "rollback", "revoke"} -> "act"

\* Service.Get: an app the caller may not read is reported as missing.
Look(c) ==
    LET r == call[c]
        app == site[r.name]
    IN
    /\ r.pc = "look"
    /\ CASE BadExpiry(r) -> Answer(c, "bad")
         [] ~BadExpiry(r) /\ ~Readable(r.user, r.name) -> Answer(c, "missing")
         [] OTHER -> IF r.op = "get" THEN Answer(c, "ok")
                     ELSE Go(c, [r EXCEPT !.pc = NextPc(r), !.seen = app])
    /\ UNCHANGED <<site, authorizer, streamVars, links, ever, made, moves>>

List(c) ==
    /\ call[c].pc = "list"
    /\ Go(c, [Done("ok") EXCEPT !.shown = Visible(call[c].user)])
    /\ UNCHANGED <<site, authorizer, streamVars, links, ever, made, moves>>

\* Delete, by name: whatever app has it now.
ActDelete(c) ==
    LET r == call[c] IN
    /\ r.pc = "act" /\ r.op = "delete"
    /\ \/ /\ MayWrite(r.user, r.name)
          /\ \/ ChangeBy(c, [r EXCEPT !.pc = "unlink"], r.name, None)
             \/ Answer(c, "error") /\ UNCHANGED <<site, ever>>
       \/ ~MayWrite(r.user, r.name) /\ Answer(c, "forbidden") /\ UNCHANGED <<site, ever>>
    /\ UNCHANGED <<authorizer, streamVars, links, made, moves>>

\* ... and then the links of that name, each at best effort; the answer is an
\* error when the audit record fails.
Unlink(c) ==
    LET r == call[c] IN
    /\ r.pc = "unlink"
    /\ \E kept \in SUBSET {l \in links : l.name = r.name} :
          links' = {l \in links : l.name # r.name} \cup kept
    /\ \E a \in {"ok", "error"} : Answer(c, a)
    /\ UNCHANGED <<site, authorizer, streamVars, ever, made, moves>>

\* SetSuspended: nothing to do in the desired state; an Update of a copy that
\* is no longer current is refused.
ActSuspend(c) ==
    LET r == call[c]
        want == [r.seen EXCEPT !.suspended = (r.op = "suspend")]
    IN
    /\ r.pc = "act" /\ r.op \in {"suspend", "resume"}
    /\ \/ /\ ~MayWrite(r.user, r.name)
          /\ Answer(c, "forbidden") /\ UNCHANGED <<site, ever>>
       \/ /\ MayWrite(r.user, r.name)
          /\ \/ want = r.seen /\ Answer(c, "accepted") /\ UNCHANGED <<site, ever>>
             \/ want # r.seen /\ site[r.name] = r.seen
                /\ ChangeBy(c, Done("accepted"), r.name, want)
             \/ want # r.seen /\ Answer(c, "error") /\ UNCHANGED <<site, ever>>
    /\ UNCHANGED <<authorizer, streamVars, links, made, moves>>

\* Rollback: no Authorizer is asked beyond the read.  A version that is not
\* retained, or an Update refused, is an error.
ActRollback(c) ==
    LET r == call[c] IN
    /\ r.pc = "act" /\ r.op = "rollback"
    /\ \/ site[r.name] = r.seen
          /\ ChangeBy(c, [r EXCEPT !.pc = "watch", !.seen = None], r.name, r.seen)
       \/ Answer(c, "bad") /\ UNCHANGED <<site, ever>>
    /\ UNCHANGED <<authorizer, streamVars, links, made, moves>>

\* CreateShareLink: only a positive lifetime gives the link an expiry.
Insert(c) ==
    LET r == call[c] IN
    /\ r.pc = "insert"
    /\ links' = links \cup {[name |-> r.name, expires |-> r.expiry = "positive"]}
    /\ Answer(c, "ok")
    /\ UNCHANGED <<site, authorizer, streamVars, ever, made, moves>>

\* RevokeShareLink, of some link of the app that was looked up.
ActRevoke(c) ==
    LET r == call[c] IN
    /\ r.pc = "act" /\ r.op = "revoke"
    /\ \/ \E l \in {l \in links : l.name = r.name} : links' = links \ {l} /\ Answer(c, "ok")
       \/ links' = links /\ Answer(c, "missing")
    /\ UNCHANGED <<site, authorizer, streamVars, ever, made, moves>>

\* ResolveShareLink: an unknown, revoked or expired token, or a wrong password.
ResolveLink(c) ==
    LET r == call[c] IN
    /\ r.pc = "resolve"
    /\ \/ (\E l \in links : l.name = r.name) /\ Go(c, [r EXCEPT !.pc = "target"])
       \/ \E a \in {"missing", "unauthenticated"} : Answer(c, a)
    /\ UNCHANGED <<site, authorizer, streamVars, links, ever, made, moves>>

\* ... and then the app of that name, whoever owns it by now.
ResolveTarget(c) ==
    /\ call[c].pc = "target"
    /\ Answer(c, IF site[call[c].name] = None THEN "missing" ELSE "ok")
    /\ UNCHANGED <<site, authorizer, streamVars, links, ever, made, moves>>

\* Deploy: the gate, then the app as the request has it; body, classifier,
\* policy, store and apiserver may refuse, and the quota a new app.  The app's
\* phase, if it has one, stays.
RunDeploy(c) ==
    LET r == call[c]
        app == site[r.name]
    IN
    /\ r.pc = "deploy"
    /\ \/ /\ ~MayDeploy(r.user, r.name)
          /\ Answer(c, "forbidden") /\ UNCHANGED <<site, ever>>
       \/ /\ MayDeploy(r.user, r.name)
          /\ ChangeBy(c, [r EXCEPT !.pc = "watch", !.seen = None], r.name,
                      [owner |-> r.user, suspended |-> FALSE,
                       phase |-> IF app = None THEN "Pending" ELSE app.phase])
       \/ /\ \E a \in {"bad", "forbidden"} \cup (IF app = None THEN {"busy"} ELSE {}) : Answer(c, a)
          /\ UNCHANGED <<site, ever>>
    /\ UNCHANGED <<authorizer, streamVars, links, made, moves>>

-----------------------------------------------------------------------------
(* waitReady.                                                              *)

Terminal(phase) == phase \in {"Ready", "Failed"}

\* phaseResult, and the status code made of it.
PhaseAnswer(phase) == IF phase = "Ready" THEN "ok" ELSE "accepted"

\* Faulty variant: the watch is opened after the Get.
WatchAfterGet(c) ==
    LET r == call[c]
        app == site[r.name]
    IN
    /\ \/ r.pc = "watch" /\ Go(c, IF app = None THEN Done("bad")
                                  ELSE IF Terminal(app.phase) THEN Done(PhaseAnswer(app.phase))
                                  ELSE [r EXCEPT !.pc = "act"])
       \/ r.pc = "act" /\ r.op \in {"deploy", "update", "redeploy"} /\ Go(c, [r EXCEPT !.pc = "events"])
    /\ UNCHANGED <<site, authorizer, streamVars, links, ever, made, moves>>

\* The watch is opened; if that fails the app is polled.
OpenWatch(c) ==
    /\ call[c].pc = "watch"
    /\ \E pc \in {"get", "poll"} : Go(c, [call[c] EXCEPT !.pc = pc])
    /\ UNCHANGED <<site, authorizer, streamVars, links, ever, made, moves>>

\* watchReady's first Get.
FirstGet(c) ==
    LET r == call[c]
        app == site[r.name]
    IN
    /\ r.pc = "get"
    /\ Go(c, IF app = None THEN Done("bad")
             ELSE IF Terminal(app.phase) THEN Done(PhaseAnswer(app.phase))
             ELSE [r EXCEPT !.pc = "events"])
    /\ UNCHANGED <<site, authorizer, streamVars, links, ever, made, moves>>

\* One event of the watch.
Event(c) ==
    LET r == call[c] IN
    /\ r.pc = "events" /\ r.events # <<>>
    /\ Go(c, IF Head(r.events) = "Deleted" THEN Done("bad")
             ELSE IF Terminal(Head(r.events)) THEN Done(PhaseAnswer(Head(r.events)))
             ELSE [r EXCEPT !.events = Tail(@)])
    /\ UNCHANGED <<site, authorizer, streamVars, links, ever, made, moves>>

\* The apiserver closes the watch.
WatchCloses(c) ==
    /\ call[c].pc = "events"
    /\ Go(c, [call[c] EXCEPT !.pc = "poll", !.events = <<>>])
    /\ UNCHANGED <<site, authorizer, streamVars, links, ever, made, moves>>

\* Faulty variant: the deadline ends the watch only.
PollUntilTerminal(c) ==
    LET r == call[c]
        app == site[r.name]
    IN
    /\ r.pc = "poll"
    /\ IF app = None THEN TRUE ELSE Terminal(app.phase)
    /\ Answer(c, IF app = None THEN "bad" ELSE PhaseAnswer(app.phase))
    /\ UNCHANGED <<site, authorizer, streamVars, links, ever, made, moves>>

\* pollReady: one more Get, until the deadline.
Poll(c) ==
    LET r == call[c]
        app == site[r.name]
    IN
    /\ r.pc = "poll"
    /\ IF app = None THEN TRUE ELSE Terminal(app.phase) \/ r.expired
    /\ Answer(c, IF app = None THEN "bad" ELSE PhaseAnswer(app.phase))
    /\ UNCHANGED <<site, authorizer, streamVars, links, ever, made, moves>>

\* DeployTimeout passes.
Expire(c) ==
    /\ call[c].pc \in {"watch", "get", "events", "poll"} /\ ~call[c].expired
    /\ Go(c, [call[c] EXCEPT !.expired = TRUE])
    /\ UNCHANGED <<site, authorizer, streamVars, links, ever, made, moves>>

\* watchReady's timer, which may win over an event that has arrived.
TimerFires(c) ==
    /\ call[c].pc = "events" /\ call[c].expired
    /\ Answer(c, "accepted")
    /\ UNCHANGED <<site, authorizer, streamVars, links, ever, made, moves>>

-----------------------------------------------------------------------------
(* Log streams.                                                            *)

AtCap(u) == total >= Global \/ slots[u] >= PerUser

\* releaseLogStream.
Release(u) ==
    IF slots[u] > 0 THEN slots' = [slots EXCEPT ![u] = @ - 1] /\ total' = total - 1
    ELSE UNCHANGED streamVars

\* Faulty variant: the release is deferred before the slot is asked for.
AcquireDeferringFirst(c) ==
    LET u == call[c].user IN
    /\ call[c].pc = "slot"
    /\ IF AtCap(u) THEN Answer(c, "busy") /\ Release(u)
       ELSE /\ slots' = [slots EXCEPT ![u] = @ + 1] /\ total' = total + 1
            /\ Go(c, [call[c] EXCEPT !.pc = "open"])
    /\ UNCHANGED <<site, authorizer, links, ever, made, moves>>

\* acquireLogStream, under its lock.
Acquire(c) ==
    LET u == call[c].user IN
    /\ call[c].pc = "slot"
    /\ IF AtCap(u) THEN Answer(c, "busy") /\ UNCHANGED streamVars
       ELSE /\ slots' = [slots EXCEPT ![u] = @ + 1] /\ total' = total + 1
            /\ Go(c, [call[c] EXCEPT !.pc = "open"])
    /\ UNCHANGED <<site, authorizer, links, ever, made, moves>>

\* StreamLogs looks the app and its pod up again; a suspended app has none.
Open(c) ==
    LET r == call[c] IN
    /\ r.pc = "open"
    /\ Readable(r.user, r.name) /\ site[r.name].phase # "Suspended"
    /\ Go(c, [r EXCEPT !.pc = "tail"])
    /\ UNCHANGED <<site, authorizer, streamVars, links, ever, made, moves>>

\* The stream ends: no app or no pod, the last line, an error, or the client is
\* gone; the slot, which only the API takes, is returned in every case.
EndStream(c) ==
    /\ call[c].pc \in {"open", "tail"}
    /\ Answer(c, "ok")
    /\ IF call[c].op = "logs" THEN Release(call[c].user) ELSE UNCHANGED streamVars
    /\ UNCHANGED <<site, authorizer, links, ever, made, moves>>

\* Any other call ends when its client leaves.
Cancel(c) ==
    /\ call[c].pc \in {"get", "events", "poll"}
    /\ Answer(c, "gone")
    /\ UNCHANGED <<site, authorizer, streamVars, links, ever, made, moves>>

-----------------------------------------------------------------------------
\* The controller moves an app through its phases.
Move(n) ==
    /\ site[n] # None /\ moves < MaxMoves
    /\ moves' = moves + 1
    /\ \E p \in IF site[n].suspended THEN {"Suspended"} ELSE {"Pending", "Ready", "Failed"} :
          /\ p # site[n].phase
          /\ Change(n, [site[n] EXCEPT !.phase = p])
          /\ call' = [d \in Calls |-> Told(call[d], n, [site[n] EXCEPT !.phase = p])]
    /\ UNCHANGED <<authorizer, streamVars, links, made>>

Serve(c) ==
    \/ Look(c) \/ List(c) \/ ActDelete(c) \/ Unlink(c) \/ ActSuspend(c) \/ ActRollback(c)
    \/ Insert(c) \/ ActRevoke(c) \/ RunDeploy(c) \/ ResolveLink(c) \/ ResolveTarget(c)

Wait(c) == OpenWatch(c) \/ FirstGet(c) \/ Event(c) \/ Poll(c) \/ TimerFires(c)

Stream(c) == Acquire(c) \/ Open(c) \/ EndStream(c)

Next ==
    \/ \E c \in Calls : \/ \E u \in Users : Http(c, u) \/ Mcp(c, u)
                        \/ \E n \in Names : PublicShareLink(c, n)
                        \/ Unauthenticated(c) \/ Serve(c) \/ Wait(c) \/ Stream(c)
                        \/ WatchCloses(c) \/ Expire(c) \/ Cancel(c)
    \/ \E n \in Names : Move(n)

\* Calls of the service return and timers fire; the controller need not move.
Fairness == \A c \in Calls : WF_vars(Wait(c)) /\ WF_vars(Expire(c))

Spec == Init /\ [][Next]_vars

-----------------------------------------------------------------------------
\* "we deliberately don't distinguish, to avoid leaking the existence of other
\* users' apps" (query.go): on every endpoint that looks its app up for the
\* caller (all but deploy, update_artifact and the public share links), a caller
\* who could never read an app gets the answer for an app that does not exist,
\* and no list shows it, whichever labels collide.
ExistenceHidden ==
    [][\A c \in Calls :
         LET r == call[c]
             unseen == {n \in Names : <<r.user, n>> \notin ever}
             looked == r.op \notin {"deploy", "update", "list", "resolve"}
         IN r.op # None /\ call'[c].pc = "done" =>
               /\ call'[c].shown \cap unseen = {}
               /\ looked /\ r.name \in unseen /\ ~BadExpiry(r)
                     => call'[c].answer = "missing"]_vars

\* The calls that stream a log of user u.
Held(u) == {c \in Calls : /\ call[c].user = u /\ call[c].op = "logs"
                          /\ call[c].pc \in {"open", "tail"}}

\* The counters are the streams that are open, per user and in all, and no
\* refused, failed or abandoned call gives back or keeps a slot of another.
SlotsExact ==
    /\ \A u \in Users : slots[u] = Cardinality(Held(u))
    /\ total = Cardinality(UNION {Held(u) : u \in Users})

\* "The watch starts before the initial Get so no transition can fall between
\* them" (service.go): while a call waits for an event, an app that is Ready,
\* Failed or deleted has an event under way that says so.
NoTransitionMissed ==
    \A c \in Calls :
       LET r == call[c]
           app == site[r.name]
       IN r.pc = "events" /\ (app = None \/ Terminal(app.phase))
             => \E i \in DOMAIN r.events : r.events[i] = "Deleted" \/ Terminal(r.events[i])

\* A deploy or rollback that waits is answered, on the watch or on the poll loop
\* and whether or not the app ever gets anywhere.
WaitsReturn ==
    \A c \in Calls : call[c].pc \in {"watch", "get", "events", "poll"} ~> call[c].pc = "done"
=============================================================================
