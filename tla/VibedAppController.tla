------------------------- MODULE VibedAppController -------------------------
(***************************************************************************)
(* The VibedApp reconciler of vibed-controller (src/internal/controller)   *)
(* for one VibedApp name: the API object and the informer's copy of it,    *)
(* the single worker that may hold the name's workqueue key, the           *)
(* asynchronous inject tracker, and the objects the reconciler owns (the   *)
(* SandboxClaim, the per-app Service, the workerd worker).                 *)
(*                                                                         *)
(* Around it, modelled from how the code uses them: users editing the spec *)
(* through the deploy service, agent-sandbox binding and replacing pods,   *)
(* the runner agent inside a pod, and Kubernetes' owner-reference garbage  *)
(* collector.                                                              *)
(*                                                                         *)
(* Atomicity.  A reconcile pass reads the informer cache, makes its calls  *)
(* and then writes the status.  The cached copy may lag, so reading it and *)
(* making the calls is one action; the write is another, because spec      *)
(* edits may land in between and turn it into a conflict.  A write         *)
(* succeeds iff the object is still the one that was read (resourceVersion *)
(* equality; an object that changed and came back to the very same value   *)
(* is the same state of the model).                                        *)
(***************************************************************************)
EXTENDS Integers

CONSTANTS
    Refs,          \* what spec.source may name: tarball refs, "git", "bad"
    Lanes,         \* the lanes the classifier may choose, of LaneNames
    Pods,          \* pod IPs of the warm pool
    Sandboxes,     \* names of the Sandboxes a claim may adopt
    None,          \* no pod, no sandbox, no source, no tracked attempt
    Templates,     \* states the template slot may be in, of SlotStates
    MaxUid,        \* bound: incarnations of the name; the last one is not deleted
    MaxGen,        \* bound: spec edits of one incarnation
    MaxFaults,     \* bound: transient errors of calls the controller makes
    MaxCrashes,    \* bound: controller restarts
    ReplaceAnytime \* may agent-sandbox replace a pod before the app is Ready

LaneNames == {"general", "fast"}
SlotStates == {"ok", "invalid", "missing"}

ASSUME ConstantsAssumption ==
    /\ Lanes \subseteq LaneNames
    /\ "ok" \in Templates /\ Templates \subseteq SlotStates
    /\ None \notin Pods \cup Sandboxes \cup Refs
    /\ MaxUid \in Nat /\ MaxGen \in Nat \ {0} /\ MaxFaults \in Nat /\ MaxCrashes \in Nat
    /\ ReplaceAnytime \in BOOLEAN

VARIABLES
    api,       \* the VibedApp in the API server (uid 0: there is none)
    cache,     \* the controller's informer copy of it
    queued,    \* the workqueue holds the name
    rec,       \* the worker's pass over the name
    tracker,   \* asyncInjector.entries, by UID
    zombies,   \* injects the controller gave up on that may still reach an agent
    agent,     \* per pod: its life, the source it runs, the injects it executed
    claim,     \* the SandboxClaim named after the app (owner 0: none)
    claimGone, \* the watch event of a deleted SandboxClaim is on its way
    svc,       \* the per-app Service (owner 0: none)
    worker,    \* the workerd worker loaded under the app's name
    tmpl,      \* the template slot: validated, found invalid, or without a pool
    meter,     \* app.ready less app.stopped events recorded, by UID
    leftReady, \* history: the incarnations that were Ready when they were deleted
    lastUid, faults, crashes

vars == <<api, cache, queued, rec, tracker, zombies, agent, claim, claimGone,
          svc, worker, tmpl, meter, leftReady, lastUid, faults, crashes>>

-----------------------------------------------------------------------------
Uids == 1..MaxUid
Gens == 0..MaxGen

Phases == {"Pending", "Claiming", "Starting", "Ready", "Suspended", "Failed"}

\* Reasons of the Ready condition; the condition is True exactly for "Running".
Reasons == {"", "SpecInvalid", "Claiming", "ClaimFailed", "TemplateInvalid",
            "TemplateMissing", "Starting", "AgentUnreachable", "Injecting",
            "InjectFailed", "ServiceFailed", "Running", "Suspended"}

\* VibedAppStatus.  SandboxRef is always assigned together with PodIP and is
\* folded into pod; LastDeployedAt moves only with phase and is left out.
Statuses == [phase: Phases, pod: Pods \cup {None}, route: BOOLEAN, url: BOOLEAN,
             reason: Reasons, srcValid: {"unknown", "true", "false"}]

Specs == [ref: Refs, suspended: BOOLEAN, lane: Lanes]

NewStatus == [phase |-> "Pending", pod |-> None, route |-> FALSE, url |-> FALSE,
              reason |-> "", srcValid |-> "unknown"]

NoSpec == [ref |-> None, suspended |-> FALSE, lane |-> "general"]

Absent == [uid |-> 0, gen |-> 0, deleting |-> FALSE, spec |-> NoSpec, status |-> NewStatus]

Objects == [uid: 0..MaxUid, gen: Gens, deleting: BOOLEAN,
            spec: Specs \cup {NoSpec}, status: Statuses]

\* An inject token: what is delivered where (target pod, generation, ref).
Tokens == [pod: Pods, gen: Gens, ref: Refs]

injectToken(obj) == [pod |-> obj.status.pod, gen |-> obj.gen, ref |-> obj.spec.ref]

\* run: in flight; applied: the agent has executed it and the answer is on its
\* way; the others are recorded results.
AttemptStates == {"run", "applied", "ok", "notRunning", "err"}
ResultStates == {"ok", "notRunning", "err"}
Entries == [tok: Tokens, st: AttemptStates]

Claims == [owner: 0..MaxUid, sb: Sandboxes \cup {None}, pod: Pods \cup {None}]
Services == [owner: 0..MaxUid, sb: Sandboxes \cup {None}]

\* got: the injects (UID, generation, ref) of tracked attempts it executed.
Agents == [life: {"free", "booting", "up"}, src: Refs \cup {None},
           got: SUBSET (Uids \X Gens \X Refs)]

NoClaim == [owner |-> 0, sb |-> None, pod |-> None]
NoSvc == [owner |-> 0, sb |-> None]

\* Faulty variant: a claim counts as bound before its pod has an IP.
BoundWithoutIP == claim.owner # 0

Bound == claim.owner # 0 /\ claim.pod # None

\* A pass of the worker: the object it read, the status it will write.
Passes == [pc: {"idle", "wait", "write", "emit"}, snap: Objects, st: Statuses,
           requeue: BOOLEAN]

Idle == [pc |-> "idle", snap |-> Absent, st |-> NewStatus, requeue |-> FALSE]

-----------------------------------------------------------------------------
Init ==
    /\ api = Absent /\ cache = Absent
    /\ queued = FALSE
    /\ rec = Idle
    /\ tracker = [u \in Uids |-> None]
    /\ zombies = {}
    /\ agent = [p \in Pods |-> [life |-> "free", src |-> None, got |-> {}]]
    /\ claim = NoClaim /\ claimGone = FALSE
    /\ svc = NoSvc
    /\ worker = None
    /\ tmpl = "ok"
    /\ meter = [u \in Uids |-> 0] /\ leftReady = {}
    /\ lastUid = 0 /\ faults = 0 /\ crashes = 0

-----------------------------------------------------------------------------
(* Users, through the deploy service or kubectl.                           *)

UserVars == <<cache, queued, rec, tracker, zombies, agent, claim, claimGone,
              svc, worker, tmpl, meter, faults, crashes>>

\* Deploy of a name that does not exist: create the VibedApp.
CreateApp ==
    /\ api.uid = 0 /\ lastUid < MaxUid
    /\ lastUid' = lastUid + 1
    /\ \E r \in Refs, l \in Lanes :
           api' = [uid |-> lastUid + 1, gen |-> 1, deleting |-> FALSE,
                   spec |-> [ref |-> r, suspended |-> FALSE, lane |-> l],
                   status |-> NewStatus]
    /\ UNCHANGED <<leftReady, UserVars>>

Edit(spec) ==
    /\ api.uid # 0 /\ ~api.deleting /\ api.gen < MaxGen
    /\ spec # api.spec
    /\ api' = [api EXCEPT !.spec = spec, !.gen = @ + 1]
    /\ UNCHANGED <<lastUid, leftReady, UserVars>>

\* Deploy of an existing name replaces the whole spec; the new source has a key
\* of its own, its lane is classified afresh, and suspended falls back to false.
Redeploy ==
    \E r \in Refs \ {api.spec.ref}, l \in Lanes :
        Edit([ref |-> r, suspended |-> FALSE, lane |-> l])

\* Rollback points spec.source at a retained version's tarball and restores the
\* lane it was deployed to; suspended stays.
Rollback ==
    \E r \in Refs \ {api.spec.ref}, l \in Lanes :
        Edit([api.spec EXCEPT !.ref = r, !.lane = l])

SetSuspended == Edit([api.spec EXCEPT !.suspended = ~@])

\* The object leaves the API server; nothing records a usage event for it.
Vanish ==
    /\ api' = Absent
    /\ leftReady' = IF api.status.phase = "Ready" THEN leftReady \cup {api.uid} ELSE leftReady

\* Service.Delete: background deletion, the object is gone at once.
DeleteApp ==
    /\ api.uid # 0 /\ lastUid < MaxUid
    /\ Vanish
    /\ UNCHANGED <<lastUid, UserVars>>

\* kubectl delete --cascade=foreground: the object lingers with a
\* deletionTimestamp (and a bumped generation) until its dependents are gone.
DeleteAppForeground ==
    /\ api.uid # 0 /\ lastUid < MaxUid /\ ~api.deleting /\ api.gen < MaxGen
    /\ api' = [api EXCEPT !.deleting = TRUE, !.gen = @ + 1]
    /\ UNCHANGED <<lastUid, leftReady, UserVars>>

Users == CreateApp \/ Redeploy \/ Rollback \/ SetSuspended \/ DeleteApp \/ DeleteAppForeground

-----------------------------------------------------------------------------
(* The informers feeding the workqueue.                                    *)

\* The VibedApp watch.  GenerationChangedPredicate drops updates that leave the
\* generation alone (the controller's own status writes); creations and
\* deletions always enqueue.
SyncApp ==
    /\ cache # api
    /\ cache' = api
    /\ queued' = (queued \/ cache.uid # api.uid \/ cache.gen # api.gen)
    /\ UNCHANGED <<api, rec, tracker, zombies, agent, claim, claimGone, svc, worker,
                   tmpl, meter, leftReady, lastUid, faults, crashes>>

\* Faulty variant: only deletions of claims enqueue.
ClaimEventOnDeleteOnly ==
    /\ claimGone
    /\ claimGone' = FALSE
    /\ queued' = TRUE
    /\ UNCHANGED <<api, cache, rec, tracker, zombies, agent, claim, svc, worker,
                   tmpl, meter, leftReady, lastUid, faults, crashes>>

\* The SandboxClaim watch (claimToVibedApp): every event enqueues the name, and
\* the periodic resync repeats the events of a claim that exists.
ClaimEvent ==
    /\ claim.owner # 0 \/ claimGone
    /\ claimGone' = FALSE
    /\ queued' = TRUE
    /\ UNCHANGED <<api, cache, rec, tracker, zombies, agent, claim, svc, worker,
                   tmpl, meter, leftReady, lastUid, faults, crashes>>

-----------------------------------------------------------------------------
(* The worker.  Each Reconcile* action is one pass up to its status write. *)

\* A call fails.  Its answer may be all that was lost: where the call changes
\* something, a failing one may have taken effect.
Fault == faults < MaxFaults /\ faults' = faults + 1
NoFault == UNCHANGED faults

validateSpec(spec) == spec.ref # "bad"
isWorkerdFastLane(spec) == spec.lane = "fast"

\* The pass takes the name off the queue and reads the cached object.
Begin ==
    /\ rec.pc = "idle" /\ queued
    /\ queued' = FALSE
    /\ UNCHANGED <<api, cache, tmpl, meter, leftReady, lastUid, crashes>>

Return == rec' = Idle

\* finish / patchStatusIfChanged is still to come, with this status.
Patch(obj, st, requeue) ==
    rec' = [pc |-> "write", snap |-> obj, st |-> st, requeue |-> requeue]

\* An attempt whose request the agent has not executed yet.
Queued(u) == tracker[u] # None /\ tracker[u].st = "run"

\* Faulty variant: the attempt stays tracked.
forgetNothing(u) == UNCHANGED <<tracker, zombies>>

\* asyncInjector.forget: cancel and drop.  The agent may already be past the
\* point where it notices the cancellation.
forget(u) ==
    /\ tracker' = [tracker EXCEPT ![u] = None]
    /\ zombies' = IF Queued(u)
                  THEN zombies \cup {tracker[u].tok} ELSE zombies

FreePod(p) == [agent EXCEPT ![p].life = "free", ![p].src = None]

ReleasedAgents == IF claim.pod = None THEN agent ELSE FreePod(claim.pod)

Live == cache.uid # 0 /\ ~cache.deleting
Valid == Live /\ validateSpec(cache.spec)
Awake == Valid /\ ~cache.spec.suspended /\ cache.status.phase # "Suspended"
GeneralLane(phase) == /\ Awake /\ ~isWorkerdFastLane(cache.spec)
                      /\ cache.status.phase = phase

\* setCondition(SourceValid, True) precedes everything below validation.
Checked == [cache.status EXCEPT !.srcValid = "true"]

\* The passes that change nothing: no object, an already parked app, a Ready
\* worker, a Failed app.
ReconcileNothing ==
    /\ Begin /\ NoFault /\ Return
    /\ \/ cache.uid = 0
       \/ Valid /\ cache.spec.suspended /\ cache.status.phase = "Suspended"
       \/ Awake /\ isWorkerdFastLane(cache.spec) /\ cache.status.phase = "Ready"
       \/ GeneralLane("Failed")
    /\ UNCHANGED <<tracker, zombies, agent, claim, claimGone, svc, worker>>

ReconcileDeleting ==
    /\ Begin /\ NoFault /\ Return
    /\ cache.uid # 0 /\ cache.deleting
    /\ forget(cache.uid)
    /\ UNCHANGED <<agent, claim, claimGone, svc, worker>>

ReconcileInvalid ==
    /\ Begin /\ NoFault
    /\ Live /\ ~validateSpec(cache.spec)
    /\ Patch(cache, [cache.status EXCEPT !.srcValid = "false", !.phase = "Failed",
                                           !.reason = "SpecInvalid"], FALSE)
    /\ UNCHANGED <<tracker, zombies, agent, claim, claimGone, svc, worker>>

\* ReleaseClaim: delete by name, whoever owns it; a missing claim is fine.
ReleaseClaim ==
    /\ claim' = NoClaim
    /\ agent' = ReleasedAgents
    /\ claimGone' = (claimGone \/ claim.owner # 0)
    /\ UNCHANGED worker

\* Faulty variant: the worker stays loaded.
FastLaneKeep == UNCHANGED <<worker, claim, agent, claimGone>>

FastLaneRemove == worker' = None /\ UNCHANGED <<claim, agent, claimGone>>

\* Either lane's release, of the lane the spec names now.
ReleaseCompute == IF isWorkerdFastLane(cache.spec) THEN FastLaneRemove ELSE ReleaseClaim

\* reconcileSuspension, spec.suspended set and not yet parked.
ReconcileSuspend ==
    /\ Begin
    /\ Valid /\ cache.spec.suspended /\ cache.status.phase # "Suspended"
    /\ UNCHANGED svc
    /\ \/ /\ Fault
          /\ ReleaseCompute \/ UNCHANGED <<agent, claim, claimGone, worker>>
          /\ Patch(cache, [Checked EXCEPT !.reason = "Suspended"], TRUE)
          /\ UNCHANGED <<tracker, zombies>>
       \/ /\ NoFault
          /\ ReleaseCompute
          /\ forget(cache.uid)
          /\ Patch(cache, [Checked EXCEPT !.pod = None, !.route = FALSE,
                               !.phase = "Suspended", !.reason = "Suspended"], FALSE)

\* reconcileSuspension, spec.suspended cleared while parked.
ReconcileRestore ==
    /\ Begin /\ NoFault
    /\ Valid /\ ~cache.spec.suspended /\ cache.status.phase = "Suspended"
    /\ Patch(cache, [Checked EXCEPT !.phase = "Claiming", !.reason = "Claiming"], TRUE)
    /\ UNCHANGED <<tracker, zombies, agent, claim, claimGone, svc, worker>>

\* The loader fetches the tarball; a source without one is refused.
LoadWorker == cache.spec.ref # "git" /\ worker' = cache.spec.ref

\* reconcileFastLane.
ReconcileFastLane ==
    /\ Begin
    /\ Awake /\ isWorkerdFastLane(cache.spec) /\ cache.status.phase # "Ready"
    /\ \/ /\ \/ Fault /\ (LoadWorker \/ UNCHANGED worker)
             \/ cache.spec.ref = "git" /\ NoFault /\ UNCHANGED worker
          /\ Patch(cache, [Checked EXCEPT !.phase = "Claiming", !.reason = "ClaimFailed"], TRUE)
       \/ /\ NoFault /\ LoadWorker
          /\ Patch(cache, [Checked EXCEPT !.route = TRUE, !.url = TRUE,
                               !.phase = "Ready", !.reason = "Running"], FALSE)
    /\ UNCHANGED <<tracker, zombies, agent, claim, claimGone, svc>>

ReconcilePending ==
    /\ Begin /\ NoFault
    /\ GeneralLane("Pending")
    /\ Patch(cache, [Checked EXCEPT !.phase = "Claiming", !.reason = "Claiming"], TRUE)
    /\ UNCHANGED <<tracker, zombies, agent, claim, claimGone, svc, worker>>

\* EnsureClaim past the template check: create the missing claim, owned by the
\* object this pass read; an existing one is used as it is.
CreateMissingClaim ==
    claim' = IF claim.owner = 0 THEN [NoClaim EXCEPT !.owner = cache.uid] ELSE claim

\* The Claiming case: the image gate, then EnsureClaim.
ReconcileClaiming ==
    /\ Begin
    /\ GeneralLane("Claiming")
    /\ \/ /\ tmpl = "invalid" /\ NoFault
          /\ Patch(cache, [Checked EXCEPT !.phase = "Failed", !.reason = "TemplateInvalid"], FALSE)
          /\ UNCHANGED claim
       \/ /\ tmpl = "missing" /\ NoFault
          /\ Patch(cache, [Checked EXCEPT !.phase = "Failed", !.reason = "TemplateMissing"], FALSE)
          /\ UNCHANGED claim
       \/ /\ tmpl = "ok" /\ Fault
          /\ CreateMissingClaim \/ UNCHANGED claim
          /\ Patch(cache, [Checked EXCEPT !.reason = "ClaimFailed"], TRUE)
       \/ /\ tmpl = "ok" /\ NoFault /\ ~Bound
          /\ CreateMissingClaim
          /\ Patch(cache, [Checked EXCEPT !.reason = "Claiming"], TRUE)
       \/ /\ tmpl = "ok" /\ NoFault /\ Bound
          /\ Patch(cache, [Checked EXCEPT !.pod = claim.pod, !.phase = "Starting",
                                          !.reason = "Starting"], TRUE)
          /\ UNCHANGED claim
    /\ UNCHANGED <<tracker, zombies, agent, claimGone, svc, worker>>

\* Faulty variants: an existing Service is left as it is; the selector names the
\* pod instead of its Sandbox.
EnsureServiceOnce(u) == svc' = IF svc.owner = 0 THEN [owner |-> u, sb |-> claim.sb] ELSE svc
EnsureServiceByPod(u) ==
    svc' = [owner |-> IF svc.owner = 0 THEN u ELSE svc.owner, sb |-> claim.pod]

\* EnsureService: the selector follows the sandbox the claim reports now.  An
\* existing Service keeps its owner and has its selector updated.
EnsureService(u) ==
    svc' = [owner |-> IF svc.owner = 0 THEN u ELSE svc.owner, sb |-> claim.sb]

\* peek consumes a recorded result and Starting acts on it; obj is the object
\* the pass read.
Consume(obj) ==
    LET res == tracker[obj.uid].st
        st == [obj.status EXCEPT !.srcValid = "true"]
    IN
    /\ res \in ResultStates
    /\ tracker' = [tracker EXCEPT ![obj.uid] = None]
    /\ \/ /\ res = "err" /\ NoFault
          /\ Patch(obj, [st EXCEPT !.reason = "InjectFailed"], TRUE)
          /\ UNCHANGED svc
       \/ /\ res = "notRunning" /\ NoFault
          /\ Patch(obj, [st EXCEPT !.reason = "Starting"], TRUE)
          /\ UNCHANGED svc
       \/ /\ res = "ok"
          /\ \/ Fault /\ ((Bound /\ EnsureService(obj.uid)) \/ UNCHANGED svc)
             \/ ~Bound /\ NoFault /\ UNCHANGED svc
          /\ Patch(obj, [st EXCEPT !.reason = "ServiceFailed"], TRUE)
       \/ /\ res = "ok" /\ Bound /\ NoFault
          /\ EnsureService(obj.uid)
          /\ Patch(obj, [st EXCEPT !.route = TRUE, !.url = TRUE, !.phase = "Ready",
                                   !.reason = "Running"], FALSE)

\* Faulty variant: any tracked attempt of the app will do.
TrackedAnyToken(obj) == tracker[obj.uid] # None

Tracked(obj) == /\ tracker[obj.uid] # None
                /\ tracker[obj.uid].tok = injectToken(obj)

\* launch: a tracked attempt under another token is cancelled and overwritten.
launch ==
    /\ tracker' = [tracker EXCEPT ![cache.uid] = [tok |-> injectToken(cache), st |-> "run"]]
    /\ zombies' = IF Queued(cache.uid)
                  THEN zombies \cup {tracker[cache.uid].tok} ELSE zombies

\* The Starting case up to asyncInjector.step, which launches an attempt and
\* waits out the grace window, reports the one in flight, or consumes a result.
ReconcileStarting ==
    LET p == cache.status.pod IN
    /\ Begin
    /\ GeneralLane("Starting")
    /\ IF p = None
       THEN /\ NoFault
            /\ forget(cache.uid)
            /\ Patch(cache, [Checked EXCEPT !.phase = "Claiming"], TRUE)
            /\ UNCHANGED svc
       ELSE \/ /\ Fault \/ (agent[p].life # "up" /\ NoFault)
               /\ Patch(cache, [Checked EXCEPT !.reason = "AgentUnreachable"], TRUE)
               /\ UNCHANGED <<tracker, zombies, svc>>
            \/ /\ agent[p].life = "up" /\ ~Tracked(cache) /\ NoFault
               /\ launch
               /\ rec' = [Idle EXCEPT !.pc = "wait", !.snap = cache]
               /\ UNCHANGED svc
            \/ /\ agent[p].life = "up" /\ Tracked(cache) /\ NoFault
               /\ tracker[cache.uid].st \notin ResultStates
               /\ Patch(cache, [Checked EXCEPT !.reason = "Injecting"], TRUE)
               /\ UNCHANGED <<tracker, zombies, svc>>
            \/ /\ agent[p].life = "up" /\ Tracked(cache)
               /\ Consume(cache)
               /\ UNCHANGED zombies
    /\ UNCHANGED <<agent, claim, claimGone, worker>>

\* step's grace window: the attempt finishes in it, or the pass goes on without.
GraceDone ==
    /\ rec.pc = "wait"
    /\ Tracked(rec.snap)
    /\ Consume(rec.snap)
    /\ UNCHANGED <<api, cache, queued, zombies, agent, claim, claimGone, worker,
                   tmpl, meter, leftReady, lastUid, crashes>>

\* The window ends first: the pass goes on without an answer and asks to be
\* called again.
GraceElapsed ==
    /\ rec.pc = "wait"
    /\ Patch(rec.snap, [rec.snap.status EXCEPT !.srcValid = "true", !.reason = "Injecting"], TRUE)
    /\ UNCHANGED <<api, cache, queued, tracker, zombies, agent, claim, claimGone, svc,
                   worker, tmpl, meter, leftReady, lastUid, faults, crashes>>

\* The Ready case looks for a replaced pod only; every error is swallowed and
\* nothing is requeued.
ReconcileReady ==
    /\ Begin
    /\ GeneralLane("Ready")
    /\ \/ /\ \/ tmpl # "missing" /\ Fault /\ (CreateMissingClaim \/ UNCHANGED claim)
             \/ tmpl = "missing" /\ NoFault /\ UNCHANGED claim
          /\ Return
       \/ /\ tmpl # "missing" /\ NoFault
          /\ CreateMissingClaim
          /\ IF Bound /\ claim.pod # cache.status.pod
             THEN Patch(cache, [Checked EXCEPT !.pod = claim.pod, !.phase = "Starting",
                                               !.reason = "Starting"], TRUE)
             ELSE Return
    /\ UNCHANGED <<tracker, zombies, agent, claimGone, svc, worker>>

-----------------------------------------------------------------------------
(* patchStatusIfChanged: Status().Update under optimistic concurrency.     *)

\* Faulty variant: only the way into Ready is observed.
CrossesIn(old, new) == old # "Ready" /\ new = "Ready"

\* Crossing the Ready boundary leaves a usage event to record.
Crosses(old, new) == (old = "Ready") # (new = "Ready")

WriteVars == <<tracker, zombies, agent, claim, claimGone, svc, worker, tmpl, meter,
               leftReady, lastUid, crashes>>

\* Faulty variant: the write does not check the resourceVersion.
WriteStatusForced ==
    /\ rec.pc = "write" /\ rec.st # rec.snap.status
    /\ api.uid # 0
    /\ api' = [api EXCEPT !.status = rec.st]
    /\ queued' = (queued \/ rec.requeue)
    /\ rec' = IF Crosses(rec.snap.status.phase, rec.st.phase)
              THEN [rec EXCEPT !.pc = "emit"] ELSE Idle
    /\ UNCHANGED <<cache, faults, WriteVars>>

WriteStatus ==
    /\ rec.pc = "write" /\ rec.st # rec.snap.status
    /\ rec.snap = api
    /\ api' = [api EXCEPT !.status = rec.st]
    /\ queued' = (queued \/ rec.requeue)
    /\ rec' = IF Crosses(rec.snap.status.phase, rec.st.phase)
              THEN [rec EXCEPT !.pc = "emit"] ELSE Idle
    /\ UNCHANGED <<cache, faults, WriteVars>>

\* statusEqual: nothing to write.
SkipStatus ==
    /\ rec.pc = "write" /\ rec.st = rec.snap.status
    /\ queued' = (queued \/ rec.requeue)
    /\ rec' = Idle
    /\ UNCHANGED <<api, cache, faults, WriteVars>>

\* The write fails: the object changed or is gone, or the call fails, perhaps
\* after it took effect.
RejectedWrite ==
    /\ rec.pc = "write" /\ rec.st # rec.snap.status
    /\ \/ rec.snap # api /\ NoFault /\ UNCHANGED api
       \/ Fault /\ UNCHANGED api
       \/ Fault /\ rec.snap = api /\ api' = [api EXCEPT !.status = rec.st]

\* Faulty variant: the error is logged and not returned.
FailStatusSwallowed ==
    /\ RejectedWrite
    /\ rec' = Idle
    /\ UNCHANGED <<cache, queued, WriteVars>>

\* The pass returns the error and controller-runtime queues the name again.
FailStatus ==
    /\ RejectedWrite
    /\ queued' = TRUE
    /\ rec' = Idle
    /\ UNCHANGED <<cache, WriteVars>>

\* emitLifecycle, after the write.
EmitLifecycle ==
    /\ rec.pc = "emit"
    /\ meter' = [meter EXCEPT ![rec.snap.uid] =
                    IF rec.st.phase = "Ready" THEN @ + 1 ELSE @ - 1]
    /\ rec' = Idle
    /\ UNCHANGED <<api, cache, queued, tracker, zombies, agent, claim, claimGone, svc,
                   worker, tmpl, leftReady, lastUid, faults, crashes>>

Worker ==
    \/ ReconcileNothing \/ ReconcileDeleting \/ ReconcileInvalid
    \/ ReconcileSuspend \/ ReconcileRestore \/ ReconcileFastLane
    \/ ReconcilePending \/ ReconcileClaiming \/ ReconcileStarting
    \/ GraceDone \/ GraceElapsed \/ ReconcileReady
    \/ WriteStatus \/ SkipStatus \/ FailStatus \/ EmitLifecycle

-----------------------------------------------------------------------------
(* The inject goroutines (doInject) and the agents they talk to.           *)

AttemptVars == <<api, cache, queued, rec, claim, claimGone, svc, worker, tmpl, meter, leftReady,
                 lastUid, crashes>>

InFlight(u) == tracker[u] # None /\ tracker[u].st \notin ResultStates

Apply(u, tok) ==
    agent' = [agent EXCEPT ![tok.pod].src = tok.ref,
                           ![tok.pod].got = @ \cup {<<u, tok.gen, tok.ref>>}]

\* The agent fetches the tarball, replaces its process and answers.
AttemptApply(u) ==
    /\ Queued(u)
    /\ tracker[u].tok.ref # "git" /\ agent[tracker[u].tok.pod].life = "up"
    /\ Apply(u, tracker[u].tok)
    /\ tracker' = [tracker EXCEPT ![u].st = "applied"]
    /\ UNCHANGED <<zombies, faults, AttemptVars>>

\* record: the answer is stored on the entry.
AttemptRecord(u) ==
    /\ InFlight(u) /\ tracker[u].st = "applied"
    /\ \/ NoFault /\ tracker' = [tracker EXCEPT ![u].st = "ok"]
       \/ Fault /\ tracker' = [tracker EXCEPT ![u].st = "notRunning"]
    /\ UNCHANGED <<zombies, agent, AttemptVars>>

\* record of an error: the call failed, timed out or its pod is gone, or the
\* source is not a tarball.  A request that timed out may still be executed.
AttemptFail(u) ==
    /\ InFlight(u)
    /\ \/ Fault
       \/ /\ tracker[u].tok.ref = "git" \/ agent[tracker[u].tok.pod].life # "up"
          /\ NoFault
    /\ tracker' = [tracker EXCEPT ![u].st = "err"]
    /\ zombies' = IF Queued(u) /\ tracker[u].tok.ref # "git"
                  THEN zombies \cup {tracker[u].tok} ELSE zombies
    /\ UNCHANGED <<agent, AttemptVars>>

\* evictExpiredLocked: a result nobody consumed for injectResultTTL is dropped.
\* A queued name is served long before that (maxRequeueDelay is a fifth of it).
EvictExpired(u) ==
    /\ tracker[u] # None /\ ~InFlight(u)
    /\ u # api.uid \/ (rec.pc = "idle" /\ ~queued)
    /\ tracker' = [tracker EXCEPT ![u] = None]
    /\ UNCHANGED <<zombies, agent, faults, AttemptVars>>

\* An abandoned request is executed by the agent all the same, or is dropped
\* when its handler notices the closed connection.
ZombieEnds(tok) ==
    /\ zombies' = zombies \ {tok}
    /\ \/ /\ agent[tok.pod].life = "up"
          /\ agent' = [agent EXCEPT ![tok.pod].src = tok.ref]
       \/ UNCHANGED agent
    /\ UNCHANGED <<tracker, faults, AttemptVars>>

Attempts == \E u \in Uids : AttemptApply(u) \/ AttemptRecord(u) \/ AttemptFail(u)

-----------------------------------------------------------------------------
(* agent-sandbox, Kubernetes, the operator, and controller restarts.       *)

EnvVars == <<cache, queued, rec, tracker, zombies, worker, meter, lastUid, faults, crashes>>

\* A pod whose IP nothing refers to any more: IPs are not reused at once.
Unused(p) ==
    /\ agent[p].life = "free"
    /\ p \notin {api.status.pod, cache.status.pod, rec.snap.status.pod, rec.st.pod}
    /\ \A tok \in zombies : tok.pod # p
    /\ \A u \in Uids : tracker[u] # None => tracker[u].tok.pod # p

Boot == [life |-> "booting", src |-> None, got |-> {}]

BindClaim ==
    /\ claim.owner # 0 /\ claim.pod = None
    /\ \E p \in Pods, s \in Sandboxes \ {svc.sb} :
           /\ Unused(p)
           /\ claim' = [claim EXCEPT !.pod = p, !.sb = s]
           /\ agent' = [agent EXCEPT ![p] = Boot]
    /\ UNCHANGED <<api, leftReady, claimGone, svc, tmpl, EnvVars>>

PodUp ==
    /\ \E p \in Pods : agent[p].life = "booting" /\ agent' = [agent EXCEPT ![p].life = "up"]
    /\ UNCHANGED <<api, leftReady, claim, claimGone, svc, tmpl, EnvVars>>

\* The Sandbox's pod is recreated: same Sandbox, new IP, empty workspace.
ReplacePod ==
    /\ Bound
    /\ ReplaceAnytime \/ (api.status.phase = "Ready" /\ cache = api /\ rec.pc = "idle")
    /\ \E p \in Pods :
           /\ Unused(p)
           /\ claim' = [claim EXCEPT !.pod = p]
           /\ agent' = [FreePod(claim.pod) EXCEPT ![p] = Boot]
    /\ UNCHANGED <<api, leftReady, claimGone, svc, tmpl, EnvVars>>

Orphan(owner) == owner # 0 /\ (owner # api.uid \/ api.deleting)

\* Owner references: dependents of a deleted object are collected.
CollectClaim ==
    /\ Orphan(claim.owner)
    /\ claim' = NoClaim
    /\ agent' = ReleasedAgents
    /\ claimGone' = TRUE
    /\ UNCHANGED <<api, leftReady, svc, tmpl, EnvVars>>

CollectService ==
    /\ Orphan(svc.owner)
    /\ svc' = NoSvc
    /\ UNCHANGED <<api, leftReady, agent, claim, claimGone, tmpl, EnvVars>>

\* Foreground deletion ends once the dependents are gone.
FinishDelete ==
    /\ api.uid # 0 /\ api.deleting /\ claim.owner # api.uid /\ svc.owner # api.uid
    /\ Vanish
    /\ UNCHANGED <<agent, claim, claimGone, svc, tmpl, EnvVars>>

\* The image validator and the operator: a verdict changes, a pool is
\* installed or removed.
ChangeTemplate ==
    /\ tmpl' \in Templates \ {tmpl}
    /\ UNCHANGED <<api, leftReady, agent, claim, claimGone, svc, EnvVars>>

\* Faulty variant: the initial listing does not enqueue.
CrashLosesQueue ==
    /\ crashes < MaxCrashes
    /\ crashes' = crashes + 1
    /\ cache' = api
    /\ queued' = FALSE
    /\ rec' = Idle
    /\ tracker' = [u \in Uids |-> None]
    /\ zombies' = zombies \cup {tracker[u].tok : u \in {v \in Uids : Queued(v)}}
    /\ claimGone' = FALSE
    /\ UNCHANGED <<api, agent, claim, svc, worker, tmpl, meter, leftReady, lastUid, faults>>

\* The controller restarts: queue, pass and tracker are lost, every object is
\* listed and queued again.
Crash ==
    /\ crashes < MaxCrashes
    /\ crashes' = crashes + 1
    /\ cache' = api
    /\ queued' = TRUE
    /\ rec' = Idle
    /\ tracker' = [u \in Uids |-> None]
    /\ zombies' = zombies \cup {tracker[u].tok : u \in {v \in Uids : Queued(v)}}
    /\ claimGone' = FALSE
    /\ UNCHANGED <<api, agent, claim, svc, worker, tmpl, meter, leftReady, lastUid, faults>>

Informers == SyncApp \/ ClaimEvent
Cluster == BindClaim \/ PodUp \/ CollectClaim \/ CollectService \/ FinishDelete
Environment == ReplacePod \/ ChangeTemplate \/ Crash

Next ==
    \/ Users \/ Informers \/ Worker \/ Attempts \/ Cluster \/ Environment
    \/ \E u \in Uids : EvictExpired(u)
    \/ \E tok \in zombies : ZombieEnds(tok)

Spec == Init /\ [][Next]_vars

-----------------------------------------------------------------------------
(* Fairness.  The worker pool always serves a queued name and finishes a   *)
(* pass; a goroutine ends (the attempt timeout); watches deliver;          *)
(* agent-sandbox binds claims and boots pods; Kubernetes collects garbage. *)
(* Users, operators, pod replacements and crashes owe nothing.             *)
Fairness ==
    /\ WF_vars(Worker)
    /\ WF_vars(Attempts)
    /\ WF_vars(SyncApp) /\ WF_vars(ClaimEvent)
    /\ WF_vars(BindClaim) /\ WF_vars(PodUp)
    /\ WF_vars(CollectClaim) /\ WF_vars(CollectService) /\ WF_vars(FinishDelete)
    /\ WF_vars(\E tok \in zombies : ZombieEnds(tok))

FairSpec == Spec /\ Fairness

-----------------------------------------------------------------------------
(* Safety.                                                                 *)

TypeOK ==
    /\ api \in Objects /\ cache \in Objects
    /\ queued \in BOOLEAN
    /\ rec \in Passes
    /\ tracker \in [Uids -> Entries \cup {None}]
    /\ zombies \subseteq Tokens
    /\ agent \in [Pods -> Agents]
    /\ claim \in Claims
    /\ claimGone \in BOOLEAN
    /\ svc \in Services
    /\ worker \in Refs \cup {None}
    /\ tmpl \in Templates
    /\ meter \in [Uids -> Int]
    /\ leftReady \subseteq Uids
    /\ lastUid \in 0..MaxUid /\ faults \in 0..MaxFaults /\ crashes \in 0..MaxCrashes

\* The status never lies about what it carries: a Starting app knows its pod
\* (the "should not happen" branch of the Starting case is dead), a Ready app
\* has a route and a URL, a Suspended app has neither pod nor route.
StatusConsistent ==
    LET st == api.status IN
    /\ st.phase = "Starting" => st.pod # None
    /\ st.phase = "Ready" => st.route /\ st.url
    /\ st.phase = "Suspended" => st.pod = None /\ ~st.route
    /\ st.reason = "Running" => st.phase = "Ready"

\* An app turns Ready only when the agent of the pod in its status has executed
\* an inject of exactly its current generation and source: stale results, late
\* results of another incarnation and spec edits between the read and the
\* write never make it Ready (the purpose of injectToken and of the
\* resourceVersion check in Status().Update).
ReadyOnlyAfterDelivery ==
    [][(api.status.phase # "Ready" /\ api'.status.phase = "Ready" /\ api.spec.lane = "general")
       => /\ api.status.pod # None
          /\ <<api.uid, api.gen, api.spec.ref>> \in agent[api.status.pod].got]_vars

\* A Suspended app holds no compute and has no inject under way, whatever the
\* interleaving of suspend, resume, claims and stale reads: neither a claim nor
\* a worker outlives the suspension, and no attempt can resurface after it.
SuspendedIsInert ==
    api.uid # 0 /\ api.status.phase = "Suspended" =>
        claim.owner = 0 /\ worker = None /\ tracker[api.uid] = None

\* While a Ready app's claim still holds the pod in its status, the per-app
\* Service, if there is one, selects that pod's Sandbox: the route never
\* reaches a sandbox the app has left.
ServiceFollowsClaim ==
    /\ api.uid # 0 /\ api.status.phase = "Ready" /\ api.spec.lane = "general"
    /\ claim.owner # 0 /\ claim.pod = api.status.pod /\ svc.owner # 0
    => svc.sb = claim.sb

\* emitLifecycle records every crossing of the Ready boundary exactly once,
\* although passes work from stale copies and are retried after conflicts, and
\* an app may be deleted between a status write and its event.  So the interval
\* that app.ready and app.stopped bound is open for an incarnation exactly while
\* it is Ready, once its pending event is recorded; a deletion records neither
\* event, so the interval of an incarnation deleted while it was Ready, and of
\* no other deleted one, stays open for good.
MeterBalanced ==
    \A u \in Uids : ~(rec.pc = "emit" /\ rec.snap.uid = u) =>
        meter[u] = IF u \in leftReady \/ (u = api.uid /\ api.status.phase = "Ready")
                   THEN 1 ELSE 0

-----------------------------------------------------------------------------
(* Liveness.                                                               *)

Wanted == api.uid # 0 /\ ~api.deleting /\ ~api.spec.suspended

\* A wanted app is eventually Ready or Failed, unless it is deleted or
\* suspended first: no queue entry, claim event or inject result is lost.
EventuallySettles ==
    Wanted ~> (~Wanted \/ api.status.phase \in {"Ready", "Failed"})

\* A suspended app with a valid spec eventually gives its compute back.
EventuallyParks ==
    (api.uid # 0 /\ ~api.deleting /\ api.spec.suspended)
    ~> (\/ api.uid = 0 \/ api.deleting \/ ~api.spec.suspended
        \/ api.status.phase = "Suspended" /\ claim.owner = 0)

\* A Ready app whose pod was replaced does not keep pointing at the lost pod,
\* even when the pass that was woken for it hits an error.
EventuallyRepoints ==
    (api.status.phase = "Ready" /\ Bound /\ claim.pod # api.status.pod)
    ~> ~(api.status.phase = "Ready" /\ Bound /\ claim.pod # api.status.pod)

-----------------------------------------------------------------------------
(* What the documentation promises and the code does not keep.             *)

\* "re-injects it into the app's warm sandbox": after a redeploy or a rollback
\* of a Ready app the agent eventually runs the new source.
RedeployTakesEffect ==
    LET Runs == Bound /\ agent[claim.pod].src = api.spec.ref
    IN (Wanted /\ api.status.phase = "Ready" /\ ~Runs) ~> (~Wanted \/ Runs)

-----------------------------------------------------------------------------
\* The reconciler keeps the lifecycle's promise.
Lifecycle == INSTANCE AppLifecycle WITH
    phase <- IF api.uid = 0 THEN "Absent" ELSE api.status.phase,
    asleep <- api.spec.suspended,
    compute <- claim.owner # 0

\* Every step of a general-lane app's reconciler, its users and the cluster is a
\* step of AppLifecycle or leaves its state alone: the phase graph of
\* vibedapp_controller.go's switch, and no claim for a parked app.
ImplementsLifecycle == Lifecycle!Spec
=============================================================================
