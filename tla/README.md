# A TLA+ verification project for vibeD

vibeD turns a source tarball into a running app on Kubernetes. The deploy
service stores the tarball and writes a `VibedApp` object; the controller
claims a warm sandbox pod for it, has the runner agent in that pod fetch and
start the source, points a per-app Service at the sandbox and publishes a
route. Source lines below are relative to `src/`.

Run a check with `tlc -config <cfg> <module>`, a proof with `tlapm <module>.tla`.
`PROJECT.json` lists every run, the mutants that show each property can fail,
the source lines each definition models, the hazards and the theorems.

## 1. Inventory

### Core components

| Component | State it keeps | Operations | Hard behaviours | What makes it correct |
|---|---|---|---|---|
| Deploy service `internal/deploy` | none in memory; the `VibedApp` (spec, version history in an annotation), source blobs, share links | Deploy, Rollback, SetSuspended, Delete, CreateShareLink, RevokeShareLink | several stores, no transaction; stale copies; lost answers; a name deleted and taken again | retained versions have their sources; versions ascend; no takeover; links follow their app |
| Quota enforcer `internal/quota` | reservations per scope | Authorize, release, pruning | listing outside the lock; three scopes reserved one after the other; TTL | nothing leaks; ceilings hold |
| Reconciler `internal/controller` | `status`, SandboxClaim, Service, workqueue, informer cache | one `Reconcile` with six phases, two lanes, suspension | stale reads, conflicts, missed or repeated events, re-created names, restarts | Ready only after delivery; suspended means inert; routes follow sandboxes; metering balances; progress |
| Inject tracker `internal/controller/asyncinject.go` | one entry per UID: token, result | step (launch, grace window, peek), record, forget, expiry | results that arrive late, for another pod, generation or incarnation | a result is used only for the delivery it belongs to |
| Runner agent `internal/runneragent` | current process, generation, work directory, staging directories, log buffer | inject, stop, status, logs; one supervisor per process | concurrent injects; supervisors reporting late; processes that cannot be reaped; crash residue | the tracked process is the last one started, in exactly its tree; no call hangs |
| workerd loader `internal/workerd` | apps by port, the rendered config | put, remove, render and reload; its client shards by name and gives up after a timeout | a request that outlives its client; a freed port given to the next app; a restart with an empty map | a port serves the app that publishes it |
| Router `internal/router` | Caddy's routes, by app | per-app reconcile from a filtered watch: PATCH, then POST, or DELETE | coalesced and filtered updates, failed calls, lost answers, restarts | at rest, Caddy has the routes the statuses ask for |
| Garbage collector `internal/gc` | none; lists apps, then claims | one cycle: two lists, an age test, concurrent deletes | apps and claims that appear between the lists; failing calls | no claim of a live app is taken for an orphan; orphans go |
| Event bus, bridge, SSE `internal/events`, `pkg/server/eventbridge.go` | what was last published, subscribers, bounded channels, connections | list and watch, publish, subscribe, unsubscribe, stream | broken watches, re-created names, slow clients, close against send | no send on a closed channel; a client that lost nothing knows the last phases |
| Accounts `internal/auth`, `internal/frontend`, `internal/store` | users, departments and their namespaces; identity and sync caches, provisioning latches | verifiers, OIDC sync, suspended-user check, user and department administration | whole-row writes from earlier reads; caches with a TTL; restarts in another mode; a namespace and a row in two stores | a suspension bites within a TTL; a latch means a row; a subject is no other provider's account; a namespace is its department's own |
| HTTP and MCP handlers `pkg/vibedapi/http`, `internal/mcp`, `internal/deploy` | log-stream counters; calls under way | every `/v1` handler and MCP tool; the wait for Ready; log streams; share links | owner labels that collide, an Authorizer or none; watch, poll and deadline; every way a stream ends | no answer gives away an app the caller may not read; counters exact; no transition missed; every wait is answered |
| Artifact stores `internal/store` | artifacts, versions, indexes | create, update, delete, reads, in memory, SQLite and ConfigMap | read-modify-write of a whole ConfigMap by several replicas | each is one atomic store |
| Rate limiter `internal/middleware` | token buckets per caller | allow, sweep | eviction of active buckets | bursts bounded |
| Egress authoriser, classifier, archive checks, network guard | none | pure decisions | precedence and edge cases | agree with their reference definitions |
| Template validator `internal/templatevalidate` | verdict per slot | probe claim, probe, verdict | probe claims left behind | verdicts reach the gate; claims released |

The remaining parts (configuration, metrics, audit, meter, tenants, tarball
stores, Helm chart, dashboard, generated types) keep no protocol state of their
own; `PROJECT.json` gives the reason for each.

### Interactions

* Deploy service → quota enforcer: `Authorize` before the source is stored, the
  release after the `VibedApp` is visible, and by `defer` on every other path.
* Deploy service → API server → reconciler: only through the `VibedApp`. The
  reconciler sees it through an informer that lags; its status writes carry the
  resourceVersion of what it read.
* Reconciler → tracker → runner agent: `POST /inject` in a goroutine with its
  own timeout. Cancelling the request does not undo what the agent began.
* agent-sandbox → reconciler: the claim's pod and sandbox, by watch event.
* Reconciler → router, meter: route in the status, usage events at the crossing
  of the Ready boundary.
* Runner agent → deploy service's blob store: the tarball, by URL.
* Controller → workerd loader: deploy and remove a worker; the port comes back
  and becomes `status.routeTarget`. Router → Caddy: only from that status.
* API server → event bridge → bus → SSE clients: the status, by watch.
* Every request → verifier → identity cache → user store, then the handler →
  deploy service, which asks an Authorizer where one is registered.
* Garbage collector → API server: deletes by name, beside the controller.

## 2. Plan

Modelled and checked: the reconciler with its tracker (`VibedAppController`,
implementing `AppLifecycle`), the runner agent with its log buffer, the deploy
service, the quota enforcer, accounts and authentication, the request handlers
with the wait for Ready and the log streams, the garbage collector, the fast
lane with its loader, the router, the event stream, and the artifact stores.

Proved: every safety property of the passing runs, and that the reconciler
implements `AppLifecycle` (section 6).

Next, in this order:

1. *Controller and agent composed*: the agent of `VibedAppController` is an
   abstraction of `RunnerAgent`; state it as a specification of its own and
   check that `RunnerAgent` implements it, so that an older inject overtaking a
   newer one is part of the controller's environment.
2. *Deploy service, further*: the ownership of Delete (it removes whatever app
   has the name), as a run that states what the documentation says.
3. *Template validator*'s probe claims beside the garbage collector; *rate
   limiter* with its eviction.
4. Pure functions against reference definitions over bounded inputs: egress
   matching, classifier precedence.
5. Proofs with wider hypotheses: what remains of `SuspendedIsInert` for an app
   that changes lanes, and of `MeterBalanced` after a fault.

Modules that are proved about declare no RECURSIVE operator; parameters are
CONSTANTS with a named assumption. Theorems live in modules of their own, which extend
the module they are about: `VibedAppControllerProofs` and, on top of it,
`ControllerLifecycleProofs`; `RunnerAgentProofs`, `DeployProofs`, `QuotaProofs`,
`AccountsProofs`; `PlatformProofs` over `MCPlatform` and `EdgeProofs` over
`MCEdge`, whose parts are INSTANCEs.

## 3. The modules

### VibedAppController

One `VibedApp` name. `api` is the object in the API server, `cache` the
informer's copy, `queued` the workqueue's entry, `rec` the worker's pass: at most
one, because the workqueue never hands a key to two workers. A pass
reads `cache`, makes its calls (one `Reconcile*` action per branch of the
switch in `vibedapp_controller.go`) and then writes the status
(`WriteStatus`, `SkipStatus`, `FailStatus`), so users, pods and watches act
between the read and the write. `Starting` may wait in the grace window of
`asyncInjector.step` (`GraceDone`, `GraceElapsed`). `tracker` is the tracker's map;
`zombies` are requests the controller gave up on and an agent may still execute.
`agent` is what a pod's agent runs and which injects it has executed. `claim`,
`svc` and `worker` are the owned compute and route. Any call may fail (`Fault`),
with or without having taken effect. `meter` counts, per incarnation, the usage
interval that `emitLifecycle` opens and closes; `leftReady` is history, the
incarnations that were Ready when they were deleted (`Vanish`).

External, from how the code uses them: agent-sandbox (`BindClaim`, `PodUp`,
`ReplacePod`), Kubernetes' garbage collection (`CollectClaim`,
`CollectService`, `FinishDelete`), the template slot's verdict.

`AppLifecycle` is the abstract specification: the phase graph, an app is parked only
when suspension is wanted and its sandbox is gone, and no sandbox is claimed for a
parked app.

Modelling assumptions: a pod's IP is not reused while the controller still
refers to it (`Unused`); a claim's informer resyncs (`ClaimEvent` repeats); the
`DeterministicRouter` that `vibed-controller` uses never fails to publish; the HTTP probe never answers "not
ready" without an error, so that branch is dead; backoff durations and the
semaphore on concurrent injects only delay.

### QuotaEnforcer

Requests of `Service.Deploy` in one tenant's namespace: `Deploy` (Get, ownership,
department), then per scope `ListApps` (outside the lock) and `TryReserve` (under
`e.mu`), `StoreSource`, `CreateApp` or `UpdateApp`, `Release`. `End` is every way
out with its release. `Expire` is the pruning of a reservation past its TTL. No
caller has the admin role, and a department is its own label (collisions after
sanitising are left out).

### RunnerAgent and RingBuffer

Handlers serving `/inject` (by URL through a staging directory, or inline
files) and `/stop`, each a sequence of actions split where the code releases
`a.mu`, waits, or does file operations that may stop half way. `mu` is held
across actions only by the handler that waits for a process to end or works on
the work directory. A process is `up`, then `drained` (exited, log pipe at end of
file) or `orphan` (exited, a descendant holds the pipe), then `reported` by its
supervisor. `Restart` loses memory and processes but not the work directory, in
which staging directories become `residue`. `RingBuffer` gives the log buffer's
methods as operators: circular slots, the eviction, the partial line, the
snapshot arithmetic. A source tree has two entries, so a move can stop half way, and
an entry of the work directory tells whose it is, so what one source has left behind is
not taken for another's; `Urls` are the sources injected by reference and `Uploads`
those sent as files. A fetched tarball is taken to have at least one entry.

### DeployService

Requests on one name: Deploy (`Deploy`, `PutSource`, `CreateApp` or `UpdateApp`,
`DropSources`), `Rollback`, `SetSuspended`, Delete (`Delete`, `DeleteApp`,
`RevokeLinks`, `DropSources`), `CreateShareLink`, `InsertLink`,
`RevokeShareLink`, and a `Crash` of the server that drops what its requests had
left. A source's key is a fresh number (the code mints 128 random bits). An
update succeeds only on the app it read; comparing the value instead of the
resourceVersion admits a few more writes, never fewer, and a write that fails although
nothing changed stands for the conflicts with the controller's status writes.
Classification, policy, authoriser and quota only refuse a request; waiting
for readiness, audit and metrics follow the writes.

### Accounts

A request presents a key, a token or a forwarded user (`PresentKey`,
`PresentToken`, `PresentForwarded`, by `auth.mode`), is provisioned or synced,
resolved through the identity cache and checked for suspension, and in "serve"
may administer users and departments. Each call of the store or of the API
server is one action, with the in-memory work that follows it. `latched` are the
provisioning latches, `cache` and `synced` the two TTL caches; `Tick` is time.
`Restart` keeps the tables and may change the mode. `suspended`, `overtaken` and
`failed` are history for the properties. The tables are those of the SQLite
store; user rows keep the columns the properties tell apart. A token that reaches
a verifier is taken to be valid. `NsOf` gives the namespace of a department's name
(lower case, hyphens for blanks): two names may share one.

### HttpApi

A call is begun by one handler or tool (`GetApp`, `DeployTool`, ...), looks its app
up (`Look`, `Service.Get`), acts in a later step (`ActDelete` and then `Unlink`, the
share links; `ActSuspend`, `ActRollback`, `Insert`, `ActRevoke`), and answers. Deploy,
redeploy and `update_artifact` share `RunDeploy` with all its refusals, but are
operations of their own: a redeploy looks its app up, the other two go by the name. `authorizer` is
`None` or any table of allowed reads and writes. A deploy or rollback then waits:
`OpenWatch`, `FirstGet`, `Event`, `Poll`, with the deadline (`Expire`,
`TimerFires`) at any point. `slots` and `total` are the log-stream counters.
`Move` is the controller, as far as a handler sees it. Versions, quota and
classification only refuse here; `DeployService` and `QuotaEnforcer` model them.

### Collector

One cycle of `collect`: `ListActiveApps`, `ListClaims` with the age test, a
`Reap` per orphan by the delete pool, `EndCycle`. Apps and claims of the namespace
come and go between the calls, and so does the controller: `EnsureClaim` takes a claim
that has the app's name as it is, whichever incarnation it was made for (its owner
reference, `app`), and `ReleaseClaim` deletes by name. The owner-reference cascade
(`Cascade`) goes by uid and may never happen. A page of either list may fail. `MaxAge` (24 h by default) is taken to be longer than what lies between the two lists.

### Workerd

The controller's fast lane (`ReconcileFastLane`, `ReconcileSuspend`,
`ReconcileRestore`, `WriteStatus`, each from a cached copy, and `RestartController`)
and the loader (`Put`, `Free`, `Render` as parts of the controller's calls; `LatePut`
for a request whose client gave up; `RestartLoader`). `unbacked` is history for the
property. The phases before Ready are one: `VibedAppController` has them apart, this
module has the ports it leaves out. An app stays in the fast lane; a redeploy that
moves it to the other one is in `VibedAppController`.

### Router

`apps` are the VibedApps with every field that the router reads: phase, URL,
routeTarget, pod IP, `suspended` and the deletion timestamp. They are written by the
deploy service (`Create`, `ToggleSuspended`, `Redeploy`, `DeleteForeground`, `Delete`)
and by the controller (`Bind`, `Serve`, `Fail`, `Park`, `Restore`, `WriteCondition`),
whose writes count only when made from the current app and so are one step each; an
app of before there was a routeTarget (`LegacyApp`) may be there at the start. The
router is `Sync` (the informer's delivery, with `routingFieldsChanged` over the six
fields), `Reconcile` (which computes `Wanted`, the host and the upstream with its
fallback to the pod) and the calls to Caddy: `CallSucceeds`, `CallFails`, and
`PatchRefused`, where `EnsureRoute` POSTs a second route because it takes every
answer that is not a success for a 404. `Restart` forgets all but Caddy's routes. One
replica of the router. `synced` says whether the last write has been delivered, so an
update that changes no field, a condition or a timestamp, is delivered and filtered
too. `missed` and `doubled` are history for the property.

### EventStream

The API server's writes, the bridge (`List` with its reconcile `Sync`, which reports
the apps gone, `Ends`, before those that changed, `Statuses`; `OpenWatch`,
`Handle`, `WatchCloses`), the bus (`Publish` under the read lock, one `Send` per
subscriber, which drops on a full channel) and the SSE handlers (`Connect`,
`Subscribe`, `Deliver`, `Disconnect`, `Unsubscribe`, `Close`). `TakeOver` is an
administrator's redeploy, which gives the app its new owner. `view` is what a
client was last told; `handed` is history, the owners from whom an app was taken.

### ArtifactStores

The artifact methods of the three backends. Memory (mutex) and SQLite
(transactions) take one step per call; ConfigMap reads, changes its copy and
writes it in a later step, which the resourceVersion may refuse and
`RetryOnConflict` repeats.

### MCEdge and MCPlatform

These two put parts that share no state into one specification: `part` says
which one a behaviour is of, the others stand still, and in `MCPlatform`
fairness is asked of that part only. Every behaviour of the sum is a behaviour of
one part, so a run checks each part alone, and they can be run in one go. The type
invariants of parts that are only INSTANCEd there document their state.

## 4. Runs

Deadlock checking is off everywhere: every system here may come to rest (an
app that is settled, no calls arriving, or the bounds used up).

Times are for two workers on a small machine; each run has five minutes.

| Run | Time | Checks | Bounds, and why they are enough |
|---|---|---|---|
| `edits` | 50 s | `SuspendedIsInert`, `ServiceFollowsClaim`, `ReadyOnlyAfterDelivery`, `ImplementsLifecycle` | two edits after the create (suspend and resume, redeploy and suspend, redeploy and rollback), two pods and sandboxes: an old and a new one, pods replaced at any time |
| `faults` | 100 s | `TypeOK`, `StatusConsistent` | both lanes, valid, git and invalid sources, all slot states, one edit, one fault: every failure branch fires |
| `recreate` | 80 s | `ServiceFollowsClaim`, `MeterBalanced`, `ReadyOnlyAfterDelivery` | two incarnations, deleted in the background or foreground, Ready or not, one edit each |
| `progress` | 110 s | `EventuallySettles`, `EventuallyRepoints`, `EventuallyParks` | one edit, one fault, one restart, one replaced pod at a time |
| `v_redeploy` | 4 s | `RedeployTakesEffect` (violated) | one redeploy of a Ready app |
| `agent` | 110 s | `TracksLastProcess`, `RunsItsSource`, `FetchedSourceKept`, `LogsOfLastProcess`, `SnapshotIsTail`, `CallsReturn`, `ExitsAreReported` | two handlers and two calls (an inject beside another, or a stop), one source by URL and that or another as files, so an inject meets the leftovers of its own source and of a foreign one, one restart, a buffer of two lines and three pieces written: it evicts and holds a partial line |
| `deploy` | 90 s | `RetainedSourcesStored`, `LinksFollowApp`, `VersionsGrow`, `NoTakeover` | two requests, an owner and an admin, two incarnations, a history of two records (20 in the code) and three versions: the cap is reached with a rolled-back record |
| `v_ceiling` | 2 s | `CeilingHeld` (violated) | two deploys, no expiry |
| `accounts` | 210 s | `SuspensionUnlessOvertaken`, `LatchMeansRecord`, `BindKeepsProvider`, `NamespaceIsOwn` | two requests at a time; a static key whose id is also a subject, a subject and a local user; a TTL of one unit; arrivals, store failures and restarts three in all: an administrator's edit, the user's request before or after it, and a fault; all three modes |
| `v_suspension` | 17 s | `SuspensionTakesEffect` (violated) | mode oidc, three requests, no restart needed |
| `edge` | 240 s | `ReservationsDrain`, `CeilingUnlessOvertaken`; `RoutesSettle`, `PortIsOwn`; `NoSendOnClosed`, `ViewAgrees`; `StoreIsAtomic` | quotas: two requests, two owners (one in a department), three names, ceilings 2/1/1, one expiry, so each ceiling is reached by one app and one deploy under way. Fast lane: two apps on one loader, three edits, two faults: a port is freed and given away while a late request or a restart is about. Router: one app (each has its own key, and only the single worker is shared), one target, one pod and two domains, without a bound on writes, failures and restarts: every state it can reach. Events: one name, two incarnations, two owners and an administrator, two browsers, channels of one slot, one broken watch, one takeover. Stores: three backends, two clients, three artifacts two of which share a name, two rows before the size guard |
| `platform` | 125 s | `LiveClaimsKept`, `OrphansReaped`; `ExistenceHidden`, `SlotsExact`, `NoTransitionMissed`, `WaitsReturn` | collector: two names, three incarnations, two failing calls. API: two users with one owner label, with and without an Authorizer, two concurrent calls, one phase change, caps 1 and 2 |

### What the violated properties show

* `v_redeploy`: the Ready case compares only the pod IP, so a redeploy or rollback
  of a Ready app changes the spec and nothing else; the documentation says the
  source is re-injected.
* `v_ceiling`: a count listed before another deploy was created and released, and
  used after it, counts that app neither in the listing nor among the
  reservations; the enforcer's comment says concurrent deploys cannot overshoot.
* `v_suspension`: `syncOIDCUser` writes the whole row back, status included, so
  a suspension written between its read and its write is undone; the resolver's
  comment says a suspension takes effect within one TTL.

### Conditions that are part of the properties

A few properties name the behaviours of the code that they do not cover, so that
everything else is covered:

* `MeterBalanced` is checked without faults and restarts: a restart, or a lost answer, between
  the status write and `emitLifecycle` does lose a usage event. It says of a deleted
  app what the code does: the interval of one deleted while Ready stays open.
* `SuspendedIsInert` is checked for apps that stay in the general lane: one that was
  redeployed into the other lane keeps the first lane's compute when suspended.
* `RetainedSourcesStored` excludes an app whose create took effect and reported an
  error (`unsourced`): the error path deletes that app's source.
* `LinksFollowApp` excludes links whose revocation failed or was cut off by a
  failed delete or a crash, and links inserted after the delete (`stale`).
* `CeilingUnlessOvertaken` excludes the race of `v_ceiling` and expired
  reservations (`excused`), and speaks of tenant and owner: a redeploy may change an
  app's department label without a quota check.
* `EventuallySettles` and `EventuallyRepoints` are checked with pods replaced only
  under a Ready app, and with one incarnation: the Starting case probes the pod in
  the status and never reads the claim again, so an app whose pod is recreated
  in that phase (or that adopted the old incarnation's claim and lost it there)
  stays in Starting, where `docs/docs/concepts/app-lifecycle.md:125` has the app
  heal itself.
* `SuspensionUnlessOvertaken` excludes users for whom a copy of the row, read
  before the suspension, was cached or written after it (`overtaken`; the cached
  copy extends the delay to a second TTL, the written one undoes it), and, like
  `BindKeepsProvider`, users for whom a store call failed (`failed`): the
  verifiers let an unknown identity through.
* `RoutesSettle` excludes apps deleted while no router ran (`missed`), and apps with
  two routes of one id, after a PATCH that was refused (`doubled`).
* `PortIsOwn` excludes Ready apps whose worker a loader dropped without the status
  saying so (`unbacked`): a restart, or a suspension whose status write was
  overtaken by a resume.
* `ViewAgrees` excludes clients for which a full channel dropped an event, and
  those from whom an administrator took an app of that name (`handed`), and
  says nothing of a name a client has not heard of: the stream has no snapshot.
* `ExistenceHidden` is about the endpoints that look their app up for the caller. It
  leaves out deploy and `update_artifact`, which go by the name and are refused for one
  that another owner has, and the public share links; readable means readable
  at any time up to the answer.
* `LiveClaimsKept` allows the delete of a live app's claim in one case: the app was
  created after the cycle listed the apps, and the claim that was listed was made for
  an earlier incarnation. The app may have taken that claim over, or have made one
  since under the same name: the delete has no precondition.
* `StoreIsAtomic` lets the answer of a write be lost, and takes artifacts to keep
  their names.

### Other behaviours met while modelling

* Deleting a Ready app records no `app.stopped`: the reconciler returns early for a
  deleted app (`internal/controller/vibedapp_controller.go:318-333`) and the deploy
  service records a delete only (`internal/deploy/query.go:274`), so the interval stays
  open where `docs/docs/extending/policy-and-metering.md:174-176` and
  `internal/meter/meter.go:21-22` have the two events bound it.
* A re-created app runs on the claim of its predecessor when it finds one
  (`internal/controller/claim.go:82-84` checks no owner). A collector's cycle that
  listed the apps before the re-create takes that claim for an orphan and deletes it
  under the live app, where `internal/gc/collector.go:218` says it never does.
* `deploy` and `update_artifact` of a name that another user has answer "app is owned
  by another user" (`internal/mcp/tools_update.go:48`,
  `internal/deploy/service.go:321-327`), where
  `docs/docs/configuration/authentication.md:289` has "not found".
* After an administrator's redeploy of somebody's app (`internal/deploy/service.go:420,448`)
  the bridge publishes under the new owner (`pkg/server/eventbridge.go:183-198`) and the
  SSE handler filters that from the old one, whose browser shows the last phase it was
  told until it reloads.
* `EnsureRoute` is to POST "on 404" (`internal/router/caddy.go:68-70`) and does so after
  every PATCH that is not a success (`caddy.go:83-91`): a PATCH refused for another
  reason leaves a second route with the same id behind the first, and the update has no
  effect while the first is there.
* A Failed general-lane app stays Failed after its spec is corrected; only suspending it, or
  deleting it, leaves that phase.
* A re-created app that adopts the previous incarnation's Service keeps that
  owner reference; the garbage collector removes the Service and the app
  stays Ready without one.
* Deleting a fast-lane app never unloads its worker.
* The agent reports `running` while a descendant holds the log pipe although the
  main process has exited; an abandoned process keeps writing into the log
  buffer of its successor.
* An inject that fetched slowly replaces a newer one: requests carry no
  generation. The controller's token protects the status, not the process.
* Delete carries no precondition: it removes whatever app has the name when it
  arrives. A delete that failed after it took effect is not completed by a retry:
  links and sources stay.
* A redeploy clears `spec.suspended`; a redeploy by an admin moves the app to the
  admin without a quota check; an update that fails leaves its blob behind.
* A restarted loader has an empty map: Ready apps are not put again, and their
  ports go to other apps. A deleted app's worker keeps its port. A restarted Caddy
  has no routes, and the router's predicate filters the resyncs that would restore
  them. `ListRouteIDs` is never called, so a route whose app went away while the
  router was down stays. With several routers
  (`cmd/vibed-router/main.go:10`), each PATCHes and POSTs from its own cache.
* Rollback and the share-link operations consult an Authorizer for the read
  only. `waitReady` of a redeploy or a rollback returns at once, with the old
  Ready phase. The MCP tool `update_artifact` creates a missing app and passes no
  allowed hosts; `get_artifact_logs` takes no stream slot; the MCP list reports a
  limit it does not apply.
* `expires_in` of zero or below makes a link without an expiry; the API refuses
  one it cannot read, the MCP tool ignores it.
* Rows seeded for static keys at start-up have no department, and later
  provisioning finds the row and does not add it. The rate limiter is wrapped
  around the authentication, so it sees no user to key by
  (`pkg/server/server.go:469`).
* In the ConfigMap store, the loser of two first creates gets an error that is not
  retried, and Delete drops the versions of every id that begins with its own id
  and "-v". In memory and ConfigMap, Create with a taken id replaces the
  artifact; SQLite refuses it. The cap on SSE connections is checked before it is
  counted and can be exceeded by clients that connect together.

## 5. Fairness

* Controller (`Fairness`): controller-runtime serves a queued name and finishes a
  pass (`Worker`); an attempt ends by its timeout; watches deliver; agent-sandbox
  binds claims and boots pods; Kubernetes collects garbage; an abandoned request
  ends. All are weak. Users, operators, replaced pods, faults and restarts owe nothing.
* Agent (`FairSpec`): a handler goes on (the HTTP client's timeout ends a fetch, the
  two timers of `stopProcessLocked` fire, Go's mutex is starvation-free), and so does a
  supervisor whose `cmd.Wait` has returned. Nothing makes a process or a
  descendant exit: that `CallsReturn` holds regardless is the point of
  `hardKillGrace`.
* Collector: the ticker keeps firing and calls return (weak, on `Collect`); a claim
  reaches `MaxAge` in some pause between two cycles (strong, on `Ripen`, which a
  cycle under way disables: cycles are short beside the age).
* HttpApi: the service's calls return and the deadline of a wait passes (weak, on
  `Wait` and `Expire` of each call). The controller, the watch and the apps' owners
  owe nothing: `WaitsReturn` does not depend on an app becoming Ready.

## 6. Proofs

Every safety property of a passing run, invariant or action property, and the
refinement of `AppLifecycle`, is also a theorem, for every value of the constants:
any number of pods, apps, users, requests, clients, faults, restarts and edits.
The proofs stand on the named assumptions only: `ConstantsAssumption`,
`QuotaAssumption`, `AgentAssumption`, `RingAssumption`, `DeployAssumption`,
`NoneIsNoApp`, `AccountsAssumption`, `NoneIsNoRow`, `PlatformAssumption`,
`EdgeAssumption`, `StreamAssumption` give the bounds their types, say that `None` is no
member of the sets it stands beside, and that the sets that are counted or put in an order
are finite. `GeneratedIds` says a little more: an id the server makes from the
clock (`user-…`, `dept-…` and nanoseconds) is nobody's subject and no department's
slug.

| Theorem | Module | Inductive invariant, and why it is needed |
|---|---|---|
| `TypeCorrect` | `VibedAppControllerProofs` | `TypeInv`: types, and every object that exists or is being worked on has a real spec; without the latter a pass over a missing object would write it back |
| `StatusAlwaysConsistent` | `VibedAppControllerProofs` | `StatusInv`: consistency of all four copies of the status (API, cache, the pass's input and output), because a pass writes what it derived from a stale copy |
| `ReadyIsDelivered` | `VibedAppControllerProofs` | `InjectInv`: a tracked attempt past its execution was executed by the agent of its token's pod, and a pass about to write Ready consumed such a result; the pods referred to are not reused; the resourceVersion check makes the object written the object read |
| `ParkedIsInert` | `ControllerLifecycleProofs` | `ParkInv`, with `CopyOrder` (pass's copy ≤ cache ≤ API server in generation), `PlanInv` (what phases a pass may be about to write) and `LaneInv`: a parked app has nothing, and its cached copy is parked too or asks to be, so no pass can start from an older copy and claim; a pass about to write Suspended has already released everything |
| `RoutesFollowClaims` | `ControllerLifecycleProofs` | `ServiceInv`: each of the four copies of the status that says Ready is one whose pod's sandbox the Service selects, as far as the claim still holds that pod |
| `MeterStaysBalanced` | `ControllerLifecycleProofs` | `MeterInv`: between the write and its `emitLifecycle` the meter of the incarnation written lags by exactly the crossing that the pass is about to record, whether or not that incarnation is still there; the others agree with their phase, or with the one they were deleted in |
| `RefinesLifecycle` | `ControllerLifecycleProofs` | step simulation, one step or stutter per action, from `ParkInv` (no claim is made for a parked app), `PlanInv` and `AbsentInv` (an absent object has no phase left) |
| `AgentTracksLastProcess`, `AgentIsolatesInjects`, `AgentRunsOneProcess`, `AgentKeepsFetchedSource` | `RunnerAgentProofs` | `AgentInv`: no process has a generation above the current one, and only the tracked process can have the current one unreported, so a late supervisor never matches; a stage is registered while its source is needed; while the lock is held nothing is tracked, and the work directory is empty between reset and fill |
| `LogsAreTail` | `RunnerAgentProofs` | `Ring`: slot `start + i` modulo the capacity holds the i-th of the last `count` lines, and the buffer has not turned round before it is full; each of `appendLine`, `Write` and `snapshot` is a lemma about it |
| `LogsShowLastProcess` | `RunnerAgentProofs` | `LogsInv`: `Ring`, every line kept is of the last process or of one given up on, and a process being stopped is the last one |
| `SourcesRetained`, `NobodyTakesOver`, `VersionsAscend`, `LinksKeepTheirApp` | `DeployProofs` | `DeployInv`, about who may still delete a key: a key is private to the request that stored it until the app refers to it; what a request is about to delete the app has stopped referring to, and no write can bring it back, because a write succeeds only on its own copy and the newest version of a copy tells which history it is a copy of |
| `NoReservationLeaks` | `QuotaProofs` | `QuotaInv`: types, every request under way has its name and owner, and the property itself |
| `CeilingsHold` | `QuotaProofs` | `CeilingInv`: the apps of a key and the deploys that have yet to create theirs fit under the ceiling; an app that a listing missed is one whose reservation is still there when the count is used; counted with the cardinality theorems |
| `LatchesAreDurable` | `AccountsProofs` | the property itself is inductive given the types: rows are never removed, and a latch is set only with its row |
| `SubjectsKeepProvider` | `AccountsProofs` | `ProviderInv`: a request past the provider check, the copy it holds and the sync cache are all of an `oidc` row; nothing changes the provider of a row |
| `NamespacesAreOwned` | `AccountsProofs` | `DepartmentInv`: a department being made has a fresh id and the namespace it made, no two requests are making or dropping the same, and a copy that a request will write back has the row's namespace |
| `SuspensionsTakeEffect` | `AccountsProofs` | `SuspensionInv`: the age of the suspension and what is left of a cached active copy add up to at most one TTL; every other copy of the row that a request holds says suspended, or is the edit that lifts it |
| `LiveAppsKeepClaims` | `PlatformProofs` | `CollectorInv`: an app that is not in the active set has a uid given out after the list, and an old claim of its name was made for another incarnation, because a claim of `MaxAge` is older than the lists |
| `SlotsAreExact` | `PlatformProofs` | `SlotsInv`: each counter is the cardinality of the calls that hold a slot |
| `TransitionsAreSeen`, `AppsStayHidden` | `PlatformProofs` | `ApiInv`: a waiting call whose app is terminal or gone has an event that says so; what a call carries at each stage it was allowed to read; whoever may read an app now is recorded as having been able to |
| `PortsAreOwn` | `EdgeProofs` | `LaneInv`: a worker's port is its own in the loader's map and in the rendered config, no app has two, and a status write that will be accepted names such a port, changes nothing, or takes the port away |
| `RoutesAreSettled` | `EdgeProofs` | `RouterInv`: what was delivered is in the cache, and an app whose route is not the one its cached copy asks for is queued, in the pass under way with that route, yet to be listed, deleted unseen or doubled; an update that the predicate drops asks for the same route |
| `SendsAreSafe`, `ViewsAgree` | `EdgeProofs` | `StreamInv`: a channel is closed only when no publish has it left to send to; and there is a history of the apps, from those the bridge has published to those there are, along which the pending watch events lead, each client is told what was published up to what its channel holds, and an owner who differs along that history is one an app was taken from |
| `StoresAreAtomic` | `EdgeProofs` | `StoreInv`: the second copies (index by name, shares) agree with the artifacts, and a ConfigMap copy whose revision is still current is what the call was to make of the current contents |

Hypotheses of theorems, beyond the assumptions on constants:

* `ParkedIsInert` is for deployments whose apps all have one lane. With two, a
  rollback moves an app to the lane of the version restored, and suspending it
  releases the new lane only: TLC violates `SuspendedIsInert` there, so the
  hypothesis is needed.
* `RoutesFollowClaims` has no fast lane and `RefinesLifecycle` the general one only: a
  fast-lane app becomes Ready without Service, pod and claim, which are what the
  two are about. `Workerd` has that lane's ports, `Router` the routes of both.
* `MeterStaysBalanced` speaks of states before the first fault and restart: either
  may part a write from its event (see above).

Only model-checked, and why:

* `EventuallySettles`, `EventuallyParks`, `EventuallyRepoints`, `CallsReturn`,
  `ExitsAreReported`, `OrphansReaped`, `WaitsReturn`: liveness under fairness,
  outside this prover.
* `ReadyOnlyAfterDelivery` is about the general lane by its own statement; nothing is said of the
  content of a fast-lane worker.
* What the three violated properties say is refuted by TLC's counterexamples.

`OneProcess` of `RunnerAgent` is proved and has no run of its own. The proofs use no
RECURSIVE operator, and no step is left without a proof.

## 7. Not modelled

`PROJECT.json` lists the components without a module: start-up code (configuration,
registries, wiring), output nobody reads back (metrics, audit, meter), generated
parameter parsing and presentation, predicates on one value without state (archive
headers, addresses), and, planned, the rate limiter, the template validator's
probe claims, the egress authoriser and the classifier. Besides those: durations
(backoff, TTLs, timeouts are events that may happen at any time), the wording of
conditions and logs, metrics and audit records, several names at once
(the reconciler's, tracker's and service's state is per name or UID; the quota
enforcer, whose state is shared, has several), several replicas of the controller
(the chart enables leader election, which admits one).
