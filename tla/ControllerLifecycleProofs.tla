---------------------- MODULE ControllerLifecycleProofs ----------------------
(***************************************************************************)
(* Suspension, the per-app Service, the usage meter and the lifecycle: the *)
(* properties that relate what a pass read to what has become of it by the *)
(* time it writes.                                                         *)
(***************************************************************************)
EXTENDS VibedAppControllerProofs

\* The copies are ordered in time: the pass's is no newer than the cached one,
\* and that no newer than the API server's; equal generations mean equal specs.
CopyOrder ==
    /\ api.uid <= lastUid /\ cache.uid <= lastUid /\ rec.snap.uid <= lastUid
    /\ api.uid # 0 /\ cache.uid = api.uid =>
           cache.gen <= api.gen /\ (cache.gen = api.gen => cache.spec = api.spec)
    /\ rec.pc # "idle" /\ rec.snap.uid = api.uid =>
           cache.uid = api.uid /\ rec.snap.gen <= cache.gen

\* The phase that a pass plans for the object it read.
Moves(o, st) ==
    \/ st.phase = o.status.phase /\ st.phase # "Suspended"
    \/ st.phase = "Failed"
    \/ /\ ~o.spec.suspended
       /\ \/ o.status.phase = "Pending" /\ st.phase = "Claiming"
          \/ o.status.phase = "Claiming" /\ st.phase = "Starting"
          \/ o.status.phase = "Starting" /\ st.phase = "Ready"
          \/ o.status.phase = "Ready" /\ st.phase = "Starting"
          \/ o.status.phase = "Suspended" /\ st.phase = "Claiming"
          \/ o.spec.lane = "fast" /\ st.phase \in {"Claiming", "Ready"}
    \/ o.spec.suspended /\ st.phase = "Suspended" /\ o.status.phase # "Suspended"

PlanInv ==
    /\ rec.pc = "wait" => rec.snap.status.phase = "Starting" /\ ~rec.snap.spec.suspended
    /\ rec.pc = "write" => Moves(rec.snap, rec.st)

\* No compute of the app's name, no inject of the incarnation.
Parked(u) == claim.owner = 0 /\ worker = None /\ tracker[u] = None

\* What a lane the app cannot be in leaves unused.
LaneInv ==
    /\ "fast" \notin Lanes => worker = None
    /\ "general" \notin Lanes => claim.owner = 0 /\ \A u \in Uids : tracker[u] = None

ParkInv ==
    /\ api.uid # 0 /\ api.status.phase = "Suspended" =>
           /\ Parked(api.uid)
           /\ cache.uid = api.uid
           /\ cache.spec.suspended \/ cache.status.phase = "Suspended"
    /\ rec.pc = "write" /\ rec.st.phase = "Suspended" =>
           Parked(rec.snap.uid) /\ rec.snap.spec.suspended

\* The Service selects the sandbox of the claim that holds the status's pod.
Follows(st) ==
    st.phase = "Ready" =>
        /\ st.pod # None
        /\ claim.owner # 0 /\ claim.pod = st.pod /\ svc.owner # 0 => svc.sb = claim.sb

ServiceInv ==
    /\ Follows(api.status) /\ Follows(cache.status)
    /\ Follows(rec.snap.status) /\ Follows(rec.st)

ReadyCount(st) == IF st.phase = "Ready" THEN 1 ELSE 0

\* What the meter should show of an incarnation.
OpenCount(u) ==
    IF u \in leftReady \/ (u = api.uid /\ api.status.phase = "Ready") THEN 1 ELSE 0

\* Of an incarnation whose event is pending the meter still shows the phase
\* that was left.
Balanced(u) ==
    IF rec.pc = "emit" /\ rec.snap.uid = u
    THEN OpenCount(u) = ReadyCount(rec.st) /\ meter[u] = ReadyCount(rec.snap.status)
    ELSE meter[u] = OpenCount(u)

MeterInv ==
    /\ \A u \in Uids : u > lastUid => meter[u] = 0
    /\ \A u \in leftReady : u <= lastUid /\ u # api.uid
    /\ rec.pc = "emit" => Crosses(rec.snap.status.phase, rec.st.phase)
    /\ faults = 0 /\ crashes = 0 => \A u \in Uids : Balanced(u)

-----------------------------------------------------------------------------
(* The steps, sorted by what they do to the copies.                        *)

\* The passes up to their status write.
Pass ==
    \/ ReconcileNothing \/ ReconcileDeleting \/ ReconcileInvalid
    \/ ReconcileSuspend \/ ReconcileRestore \/ ReconcileFastLane
    \/ ReconcilePending \/ ReconcileClaiming \/ ReconcileStarting \/ ReconcileReady

Grace == GraceDone \/ GraceElapsed

Outcome == WriteStatus \/ SkipStatus \/ FailStatus \/ EmitLifecycle

\* The steps that leave the app, its copies and the meter alone.
Aside ==
    \/ ClaimEvent \/ Attempts \/ (\E u \in Uids : EvictExpired(u))
    \/ (\E tok \in zombies : ZombieEnds(tok))
    \/ BindClaim \/ PodUp \/ CollectClaim \/ CollectService \/ ReplacePod \/ ChangeTemplate
    \/ UNCHANGED vars

\* Every step is one of these.
LEMMA StepKinds ==
    [Next]_vars => Users \/ SyncApp \/ Pass \/ Grace \/ Outcome \/ FinishDelete \/ Crash \/ Aside
BY DEF Next, Informers, Worker, Cluster, Environment, Pass, Grace, Outcome, Aside

\* Steps aside change nothing the copies are compared with.
LEMMA AsideFrame ==
    Aside => UNCHANGED <<api, cache, rec, meter, leftReady, lastUid, crashes>> /\ UNCHANGED worker
BY DEF Aside, ClaimEvent, Attempts, AttemptApply, AttemptRecord, AttemptFail, EvictExpired,
       ZombieEnds, AttemptVars, BindClaim, PodUp, CollectClaim, CollectService, ReplacePod,
       ChangeTemplate, EnvVars, vars

\* Users change the app alone: a new incarnation, a newer generation, or none.
LEMMA UserSteps ==
    ASSUME TypeInv, Users
    PROVE /\ UNCHANGED UserVars
          /\ \/ api'.uid = lastUid + 1 /\ api'.status = NewStatus /\ lastUid' = lastUid + 1
                /\ api.uid = 0 /\ ~api'.spec.suspended /\ UNCHANGED leftReady
             \/ api' = Absent /\ UNCHANGED lastUid /\ api.uid # 0 /\ Vanish
             \/ /\ api'.uid = api.uid /\ api'.status = api.status /\ UNCHANGED <<lastUid, leftReady>>
                /\ api'.gen = api.gen + 1 /\ api.uid # 0
<1>1. api \in Objects
  BY DEF TypeInv, TypeOK
<1>2. ASSUME NEW spec, Edit(spec)
      PROVE /\ api'.uid = api.uid /\ api'.status = api.status /\ UNCHANGED <<lastUid, leftReady, UserVars>>
            /\ api'.gen = api.gen + 1 /\ api.uid # 0
  BY <1>1, <1>2 DEF Edit, Objects
<1>3. CASE CreateApp
  BY <1>3 DEF CreateApp
<1>4. CASE DeleteApp
  BY <1>4 DEF DeleteApp, Vanish
<1>5. CASE DeleteAppForeground
  BY <1>1, <1>5 DEF DeleteAppForeground, Objects
<1>6. CASE Redeploy \/ Rollback \/ SetSuspended
  BY <1>2, <1>6 DEF Redeploy, Rollback, SetSuspended
<1> QED BY <1>3, <1>4, <1>5, <1>6 DEF Users

\* The end of a pass writes the planned status over the very object it read, or
\* leaves the app alone.
LEMMA OutcomeSteps ==
    ASSUME TypeInv, Outcome
    PROVE /\ UNCHANGED <<cache, tracker, zombies, agent, claim, claimGone, svc, worker, tmpl,
                         lastUid, crashes>>
          /\ \/ UNCHANGED api
             \/ /\ rec.pc = "write" /\ rec.snap = api /\ rec.st # api.status
                /\ api' = [api EXCEPT !.status = rec.st]
                /\ api'.uid = api.uid /\ api'.gen = api.gen /\ api'.spec = api.spec
                /\ api'.status = rec.st
          /\ rec' = Idle \/ (rec.pc = "write" /\ rec' = [rec EXCEPT !.pc = "emit"])
<1>1. api \in Objects /\ rec.st \in Statuses
  BY DEF TypeInv, TypeOK, Passes
<1>2. ASSUME api' = [api EXCEPT !.status = rec.st]
      PROVE /\ api'.uid = api.uid /\ api'.gen = api.gen /\ api'.spec = api.spec
            /\ api'.status = rec.st
  BY <1>1, <1>2 DEF Objects
<1>3. CASE WriteStatus
  BY <1>2, <1>3 DEF WriteStatus, WriteVars
<1>4. CASE FailStatus
  BY <1>2, <1>4 DEF FailStatus, RejectedWrite, WriteVars
<1>5. CASE SkipStatus \/ EmitLifecycle
  BY <1>5 DEF SkipStatus, EmitLifecycle, WriteVars
<1> QED BY <1>3, <1>4, <1>5 DEF Outcome

\* What a pass that begins may go on to write.
LEMMA PassPlans ==
    ASSUME TypeInv, StatusInv, Pass
    PROVE /\ rec.pc = "idle" /\ UNCHANGED <<api, cache, tmpl, meter, leftReady, lastUid, crashes>>
          /\ \/ rec' = Idle
             \/ /\ rec'.pc = "wait" /\ rec'.snap = cache /\ rec'.st = NewStatus /\ cache.uid # 0
                /\ cache.status.phase = "Starting" /\ ~cache.spec.suspended
             \/ /\ rec'.pc = "write" /\ rec'.snap = cache /\ cache.uid # 0
                /\ Moves(cache, rec'.st)
<1>1. Begin
  BY DEF Pass, ReconcileNothing, ReconcileDeleting, ReconcileInvalid, ReconcileSuspend,
         ReconcileRestore, ReconcileFastLane, ReconcilePending, ReconcileClaiming,
         ReconcileStarting, ReconcileReady
<1>2. cache \in Objects /\ cache.status \in Statuses /\ Checked \in Statuses
      /\ Checked.phase = cache.status.phase
  BY CheckedTyped DEF TypeInv, Checked, Statuses
<1>3. ASSUME NEW s, NEW b, Patch(cache, s, b), cache.uid # 0, Moves(cache, s)
      PROVE rec'.pc = "write" /\ rec'.snap = cache /\ cache.uid # 0 /\ Moves(cache, rec'.st)
  BY <1>3 DEF Patch
<1>4. ASSUME NEW re, NEW ph, NEW q
      PROVE /\ [Checked EXCEPT !.reason = re].phase = cache.status.phase
            /\ [Checked EXCEPT !.phase = ph, !.reason = re].phase = ph
            /\ [Checked EXCEPT !.pod = q, !.phase = ph, !.reason = re].phase = ph
            /\ [Checked EXCEPT !.pod = q, !.route = FALSE, !.phase = ph, !.reason = re].phase = ph
            /\ [Checked EXCEPT !.route = TRUE, !.url = TRUE, !.phase = ph, !.reason = re].phase = ph
  BY <1>2 DEF Statuses
<1>5. [Checked EXCEPT !.pod = claim.pod, !.phase = "Starting", !.reason = "Starting"].phase = "Starting"
  BY <1>4
<1>6. CASE ReconcileNothing \/ ReconcileDeleting
  BY <1>6, <1>1 DEF ReconcileNothing, ReconcileDeleting, Return, Begin
<1>7. CASE ReconcileInvalid
  <2>1. [cache.status EXCEPT !.srcValid = "false", !.phase = "Failed", !.reason = "SpecInvalid"].phase = "Failed"
    BY <1>2 DEF Statuses
  <2>2. Moves(cache, [cache.status EXCEPT !.srcValid = "false", !.phase = "Failed", !.reason = "SpecInvalid"])
    BY <2>1 DEF Moves
  <2> QED BY <1>7, <1>1, <1>3, <2>2 DEF ReconcileInvalid, Live, Begin
<1>8. CASE ReconcileSuspend
  <2>1. /\ cache.uid # 0 /\ cache.spec.suspended /\ cache.status.phase # "Suspended"
        /\ \/ Patch(cache, [Checked EXCEPT !.reason = "Suspended"], TRUE)
           \/ Patch(cache, [Checked EXCEPT !.pod = None, !.route = FALSE,
                                !.phase = "Suspended", !.reason = "Suspended"], FALSE)
    BY <1>8 DEF ReconcileSuspend, Valid, Live
  <2>2. /\ Moves(cache, [Checked EXCEPT !.reason = "Suspended"])
        /\ Moves(cache, [Checked EXCEPT !.pod = None, !.route = FALSE,
                                !.phase = "Suspended", !.reason = "Suspended"])
    BY <1>4, <2>1 DEF Moves
  <2> QED BY <1>1, <1>3, <2>1, <2>2 DEF Begin
<1>9. CASE ReconcileRestore \/ ReconcilePending
  <2>1. /\ cache.uid # 0 /\ ~cache.spec.suspended
        /\ cache.status.phase \in {"Suspended", "Pending"}
        /\ Patch(cache, [Checked EXCEPT !.phase = "Claiming", !.reason = "Claiming"], TRUE)
    BY <1>9 DEF ReconcileRestore, ReconcilePending, GeneralLane, Awake, Valid, Live
  <2>2. Moves(cache, [Checked EXCEPT !.phase = "Claiming", !.reason = "Claiming"])
    BY <1>4, <2>1 DEF Moves
  <2> QED BY <1>1, <1>3, <2>1, <2>2 DEF Begin
<1>10. CASE ReconcileFastLane
  <2>1. /\ cache.uid # 0 /\ ~cache.spec.suspended /\ cache.spec.lane = "fast"
        /\ \/ Patch(cache, [Checked EXCEPT !.phase = "Claiming", !.reason = "ClaimFailed"], TRUE)
           \/ Patch(cache, [Checked EXCEPT !.route = TRUE, !.url = TRUE, !.phase = "Ready",
                                           !.reason = "Running"], FALSE)
    BY <1>10 DEF ReconcileFastLane, Awake, Valid, Live, isWorkerdFastLane
  <2>2. /\ Moves(cache, [Checked EXCEPT !.phase = "Claiming", !.reason = "ClaimFailed"])
        /\ Moves(cache, [Checked EXCEPT !.route = TRUE, !.url = TRUE, !.phase = "Ready",
                                        !.reason = "Running"])
    BY <1>4, <2>1 DEF Moves
  <2> QED BY <1>1, <1>3, <2>1, <2>2 DEF Begin
<1>11. CASE ReconcileClaiming
  <2>1. /\ cache.uid # 0 /\ ~cache.spec.suspended /\ cache.status.phase = "Claiming"
        /\ \/ Patch(cache, [Checked EXCEPT !.phase = "Failed", !.reason = "TemplateInvalid"], FALSE)
           \/ Patch(cache, [Checked EXCEPT !.phase = "Failed", !.reason = "TemplateMissing"], FALSE)
           \/ Patch(cache, [Checked EXCEPT !.reason = "ClaimFailed"], TRUE)
           \/ Patch(cache, [Checked EXCEPT !.reason = "Claiming"], TRUE)
           \/ Patch(cache, [Checked EXCEPT !.pod = claim.pod, !.phase = "Starting",
                                           !.reason = "Starting"], TRUE)
    BY <1>11 DEF ReconcileClaiming, GeneralLane, Awake, Valid, Live
  <2>2. /\ Moves(cache, [Checked EXCEPT !.phase = "Failed", !.reason = "TemplateInvalid"])
        /\ Moves(cache, [Checked EXCEPT !.phase = "Failed", !.reason = "TemplateMissing"])
        /\ Moves(cache, [Checked EXCEPT !.reason = "ClaimFailed"])
        /\ Moves(cache, [Checked EXCEPT !.reason = "Claiming"])
    BY <1>4, <2>1 DEF Moves
  <2>3. Moves(cache, [Checked EXCEPT !.pod = claim.pod, !.phase = "Starting", !.reason = "Starting"])
    BY <1>5, <2>1 DEF Moves
  <2> QED BY <1>1, <1>3, <2>1, <2>2, <2>3 DEF Begin
<1>12. CASE ReconcileReady
  <2>1. /\ cache.uid # 0 /\ ~cache.spec.suspended /\ cache.status.phase = "Ready"
        /\ \/ rec' = Idle
           \/ Patch(cache, [Checked EXCEPT !.pod = claim.pod, !.phase = "Starting",
                                           !.reason = "Starting"], TRUE)
    BY <1>12 DEF ReconcileReady, Return, GeneralLane, Awake, Valid, Live
  <2>2. Moves(cache, [Checked EXCEPT !.pod = claim.pod, !.phase = "Starting", !.reason = "Starting"])
    BY <1>5, <2>1 DEF Moves
  <2> QED BY <1>1, <1>3, <2>1, <2>2 DEF Begin
<1>13. CASE ReconcileStarting
  <2>1. /\ cache.uid # 0 /\ ~cache.spec.suspended /\ cache.status.phase = "Starting"
        /\ cache.status.pod # None
    BY <1>13 DEF ReconcileStarting, GeneralLane, Awake, Valid, Live, StatusInv, Consistent
  <2>2. \/ Patch(cache, [Checked EXCEPT !.reason = "AgentUnreachable"], TRUE)
        \/ Patch(cache, [Checked EXCEPT !.reason = "Injecting"], TRUE)
        \/ rec' = [Idle EXCEPT !.pc = "wait", !.snap = cache]
        \/ Consume(cache)
    BY <1>13, <2>1 DEF ReconcileStarting
  <2>3. /\ Moves(cache, [Checked EXCEPT !.reason = "AgentUnreachable"])
        /\ Moves(cache, [Checked EXCEPT !.reason = "Injecting"])
        /\ Moves(cache, [Checked EXCEPT !.reason = "InjectFailed"])
        /\ Moves(cache, [Checked EXCEPT !.reason = "Starting"])
        /\ Moves(cache, [Checked EXCEPT !.reason = "ServiceFailed"])
    BY <1>4, <2>1 DEF Moves
  <2>4. Moves(cache, [Checked EXCEPT !.route = TRUE, !.url = TRUE, !.phase = "Ready", !.reason = "Running"])
    BY <1>4, <2>1 DEF Moves
  <2>5. CASE rec' = [Idle EXCEPT !.pc = "wait", !.snap = cache]
    <3>1. rec'.pc = "wait" /\ rec'.snap = cache /\ rec'.st = NewStatus
      BY <2>5 DEF Idle
    <3> QED BY <1>1, <2>1, <3>1 DEF Begin
  <2>6. CASE Consume(cache)
    <3>1. \/ Patch(cache, [Checked EXCEPT !.reason = "InjectFailed"], TRUE)
          \/ Patch(cache, [Checked EXCEPT !.reason = "Starting"], TRUE)
          \/ Patch(cache, [Checked EXCEPT !.reason = "ServiceFailed"], TRUE)
          \/ Patch(cache, [Checked EXCEPT !.route = TRUE, !.url = TRUE, !.phase = "Ready",
                                          !.reason = "Running"], FALSE)
      BY <2>6 DEF Consume, Checked
    <3> QED BY <1>1, <1>3, <2>1, <2>3, <2>4, <3>1 DEF Begin
  <2> QED BY <1>1, <1>3, <2>1, <2>2, <2>3, <2>5, <2>6 DEF Begin
<1> QED BY <1>6, <1>7, <1>8, <1>9, <1>10, <1>11, <1>12, <1>13 DEF Pass

\* The grace window ends in a plan for the object the pass read.
LEMMA GracePlans ==
    ASSUME TypeInv, PlanInv, Grace
    PROVE /\ rec.pc = "wait" /\ UNCHANGED <<api, cache, claim, worker, meter, leftReady, lastUid, crashes>>
          /\ rec'.pc = "write" /\ rec'.snap = rec.snap /\ Moves(rec.snap, rec'.st)
          /\ rec'.st.phase \in {"Starting", "Ready"}
<1> DEFINE st == [rec.snap.status EXCEPT !.srcValid = "true"]
<1>1. /\ rec.pc = "wait" /\ UNCHANGED <<api, cache, claim, worker, meter, leftReady, lastUid, crashes>>
      /\ rec.snap.status.phase = "Starting" /\ ~rec.snap.spec.suspended
  BY DEF Grace, GraceDone, GraceElapsed, PlanInv
<1>2. rec.snap.status \in Statuses
  BY DEF TypeInv, TypeOK, Passes, Objects
<1>3. st \in Statuses /\ st.phase = "Starting"
  BY <1>1, <1>2 DEF Statuses
<1>4. /\ [st EXCEPT !.reason = "InjectFailed"].phase = "Starting"
      /\ [st EXCEPT !.reason = "Starting"].phase = "Starting"
      /\ [st EXCEPT !.reason = "ServiceFailed"].phase = "Starting"
      /\ [st EXCEPT !.route = TRUE, !.url = TRUE, !.phase = "Ready", !.reason = "Running"].phase = "Ready"
  BY <1>3 DEF Statuses
<1>5. [rec.snap.status EXCEPT !.srcValid = "true", !.reason = "Injecting"].phase = "Starting"
  BY <1>1, <1>2 DEF Statuses
<1>6. rec'.pc = "write" /\ rec'.snap = rec.snap /\ rec'.st.phase \in {"Starting", "Ready"}
  <2>1. CASE GraceElapsed
    BY <1>5, <2>1 DEF GraceElapsed, Patch
  <2>2. CASE GraceDone
    <3>1. \/ Patch(rec.snap, [st EXCEPT !.reason = "InjectFailed"], TRUE)
          \/ Patch(rec.snap, [st EXCEPT !.reason = "Starting"], TRUE)
          \/ Patch(rec.snap, [st EXCEPT !.reason = "ServiceFailed"], TRUE)
          \/ Patch(rec.snap, [st EXCEPT !.route = TRUE, !.url = TRUE, !.phase = "Ready",
                                        !.reason = "Running"], FALSE)
      BY <2>2 DEF GraceDone, Consume
    <3>2. ASSUME NEW s, NEW b, Patch(rec.snap, s, b), s.phase \in {"Starting", "Ready"}
          PROVE rec'.pc = "write" /\ rec'.snap = rec.snap /\ rec'.st.phase \in {"Starting", "Ready"}
      BY <3>2 DEF Patch
    <3> HIDE DEF st
    <3> QED BY <1>4, <3>1, <3>2
  <2> QED BY <2>1, <2>2 DEF Grace
<1> QED BY <1>1, <1>6 DEF Moves

-----------------------------------------------------------------------------
(* The copies stay in order and the plans stay sound.                      *)

\* PlanInv is inductive.
LEMMA PlanStep == TypeInv /\ StatusInv /\ PlanInv /\ [Next]_vars => PlanInv'
<1> SUFFICES ASSUME TypeInv, StatusInv, PlanInv, [Next]_vars PROVE PlanInv'
  OBVIOUS
<1>1. rec \in Passes /\ Idle.pc = "idle"
  BY IdleTyped DEF TypeInv, TypeOK
<1>2. CASE Users \/ SyncApp \/ FinishDelete \/ Aside
  <2>1. UNCHANGED rec
    BY <1>2, UserSteps, AsideFrame DEF UserVars, SyncApp, FinishDelete, Vanish, EnvVars
  <2> QED BY <2>1 DEF PlanInv, Moves
<1>3. CASE Pass
  BY <1>1, <1>3, PassPlans DEF PlanInv
<1>4. CASE Grace
  BY <1>4, GracePlans DEF PlanInv
<1>5. CASE Outcome \/ Crash
  <2>1. rec'.pc \in {"idle", "emit"}
    BY <1>1, <1>5, OutcomeSteps DEF Crash, Passes
  <2> QED BY <2>1 DEF PlanInv
<1> QED BY <1>2, <1>3, <1>4, <1>5, StepKinds

\* CopyOrder is inductive.
LEMMA CopyOrderStep ==
    TypeInv /\ StatusInv /\ PlanInv /\ CopyOrder /\ [Next]_vars => CopyOrder'
<1> SUFFICES ASSUME TypeInv, StatusInv, PlanInv, CopyOrder, [Next]_vars PROVE CopyOrder'
  OBVIOUS
<1>1. /\ rec \in Passes /\ Idle.pc = "idle" /\ Idle.snap.uid = 0 /\ Absent.uid = 0
      /\ rec.pc # "idle" => rec.snap.uid # 0
      /\ api.uid \in Nat /\ cache.uid \in Nat /\ rec.snap.uid \in Nat /\ lastUid \in Nat
      /\ api.gen \in Nat /\ cache.gen \in Nat /\ rec.snap.gen \in Nat
  BY IdleTyped, AbsentTyped, ConstantsAssumption
     DEF Idle, TypeInv, TypeOK, SpecsPresent, Passes, Objects, Gens
<1>2. CASE Users
  <2>1. UNCHANGED <<cache, rec>>
    BY <1>2, UserSteps DEF UserVars
  <2>2. CASE api'.uid = lastUid + 1 /\ lastUid' = lastUid + 1
    BY <1>1, <2>1, <2>2 DEF CopyOrder
  <2>3. CASE api' = Absent /\ UNCHANGED lastUid
    BY <1>1, <2>1, <2>3 DEF CopyOrder
  <2>4. CASE api'.uid = api.uid /\ UNCHANGED lastUid /\ api'.gen = api.gen + 1
    BY <1>1, <2>1, <2>4 DEF CopyOrder
  <2> QED BY <1>2, <2>2, <2>3, <2>4, UserSteps
<1>3. CASE SyncApp
  <2>1. UNCHANGED <<api, rec, lastUid>> /\ cache' = api
    BY <1>3 DEF SyncApp
  <2> QED BY <1>1, <2>1 DEF CopyOrder
<1>4. CASE Pass
  BY <1>1, <1>4, PassPlans DEF CopyOrder
<1>5. CASE Grace
  BY <1>1, <1>5, GracePlans DEF CopyOrder
<1>6. CASE Outcome
  <2>1. UNCHANGED <<cache, lastUid>> /\ api'.uid = api.uid /\ api'.gen = api.gen /\ api'.spec = api.spec
    BY <1>6, OutcomeSteps
  <2>2. rec' = Idle \/ (rec'.snap = rec.snap /\ rec'.pc # "idle" /\ rec.pc # "idle")
    BY <1>1, <1>6, OutcomeSteps DEF Passes
  <2> QED BY <1>1, <2>1, <2>2 DEF CopyOrder
<1>7. CASE FinishDelete
  BY <1>1, <1>7 DEF FinishDelete, Vanish, EnvVars, CopyOrder
<1>8. CASE Crash
  BY <1>1, <1>8 DEF Crash, CopyOrder
<1>9. CASE Aside
  BY <1>9, AsideFrame DEF CopyOrder
<1> QED BY <1>2, <1>3, <1>4, <1>5, <1>6, <1>7, <1>8, <1>9, StepKinds

-----------------------------------------------------------------------------
(* Compute appears only for an app that the pass found awake.              *)

\* A pass that begins, over an awake app of this lane.
Wakes(lane) == rec.pc = "idle" /\ Awake /\ cache.spec.lane = lane

\* A claim, a worker or a tracked attempt appears only in such a pass.
LEMMA ComputeAppears ==
    ASSUME TypeInv, [Next]_vars
    PROVE /\ claim.owner = 0 /\ claim'.owner # 0 => Wakes("general")
          /\ worker = None /\ worker' # None => Wakes("fast")
          /\ \A u \in Uids : tracker[u] = None /\ tracker'[u] # None => Wakes("general")
<1>1. tracker \in [Uids -> Entries \cup {None}] /\ claim \in Claims /\ NoClaim.owner = 0
  BY DEF TypeInv, TypeOK, NoClaim
<1>2. ASSUME Begin, NEW ph, GeneralLane(ph) PROVE Wakes("general")
  <2>1. cache.spec \in Specs
    BY <1>2, CacheUid DEF GeneralLane, Awake, Valid, Live
  <2> QED BY <1>2, <2>1, ConstantsAssumption
          DEF GeneralLane, Begin, Wakes, isWorkerdFastLane, Specs, LaneNames
<1>3. ASSUME claim.owner = 0, claim'.owner # 0 PROVE Wakes("general")
  <2>1. CASE Users \/ SyncApp \/ Outcome \/ Crash \/ FinishDelete
    BY <1>3, <2>1, UserSteps, OutcomeSteps DEF UserVars, SyncApp, Crash, FinishDelete, Vanish
  <2>2. CASE Aside
    BY <1>1, <1>3, <2>2 DEF Aside, ClaimEvent, Attempts, AttemptApply, AttemptRecord, AttemptFail,
         EvictExpired, ZombieEnds, AttemptVars, BindClaim, PodUp, CollectClaim, CollectService,
         ReplacePod, Bound, ChangeTemplate, EnvVars, vars
  <2>3. CASE Grace
    BY <1>3, <2>3 DEF Grace, GraceDone, GraceElapsed
  <2>4. CASE Pass
    BY <1>1, <1>3, <1>2, <2>4 DEF Pass, ReconcileNothing, ReconcileDeleting, ReconcileInvalid,
         ReconcileSuspend, ReconcileRestore, ReconcileFastLane, ReconcilePending,
         ReconcileClaiming, ReconcileStarting, ReconcileReady, ReleaseCompute, ReleaseClaim,
         FastLaneRemove
  <2> QED BY <2>1, <2>2, <2>3, <2>4, StepKinds
<1>4. ASSUME worker = None, worker' # None PROVE Wakes("fast")
  <2>1. CASE Users \/ SyncApp \/ Outcome \/ Crash \/ FinishDelete
    BY <1>4, <2>1, UserSteps, OutcomeSteps DEF UserVars, SyncApp, Crash, FinishDelete, Vanish, EnvVars
  <2>2. CASE Aside
    BY <1>4, <2>2, AsideFrame
  <2>3. CASE Grace
    BY <1>4, <2>3 DEF Grace, GraceDone, GraceElapsed
  <2>4. CASE Pass
    BY <1>4, <2>4 DEF Pass, ReconcileNothing, ReconcileDeleting, ReconcileInvalid,
         ReconcileSuspend, ReconcileRestore, ReconcileFastLane, ReconcilePending,
         ReconcileClaiming, ReconcileStarting, ReconcileReady, ReleaseCompute, ReleaseClaim,
         FastLaneRemove, isWorkerdFastLane, Begin, Wakes
  <2> QED BY <2>1, <2>2, <2>3, <2>4, StepKinds
<1>5. ASSUME NEW u \in Uids, tracker[u] = None, tracker'[u] # None PROVE Wakes("general")
  <2>1. CASE Users \/ SyncApp \/ Outcome \/ FinishDelete
    BY <1>5, <2>1, UserSteps, OutcomeSteps DEF UserVars, SyncApp, FinishDelete, Vanish, EnvVars
  <2>2. CASE Crash
    BY <1>5, <2>2 DEF Crash
  <2>3. CASE Aside
    <3>1. UNCHANGED tracker \/ (\E v \in Uids : tracker' = [tracker EXCEPT ![v] = None])
          \/ (\E v \in Uids : \E x : tracker[v] # None /\ tracker' = [tracker EXCEPT ![v].st = x])
      BY <2>3 DEF Aside, ClaimEvent, Attempts, AttemptApply, AttemptRecord, AttemptFail, Queued,
         InFlight, EvictExpired, ZombieEnds, BindClaim, PodUp, CollectClaim, CollectService,
         ReplacePod, ChangeTemplate, EnvVars, vars
    <3> QED BY <1>1, <1>5, <3>1
  <2>4. CASE Grace
    <3>1. UNCHANGED tracker \/ (\E v : tracker' = [tracker EXCEPT ![v] = None])
      BY <2>4 DEF Grace, GraceDone, GraceElapsed, Consume
    <3> QED BY <1>1, <1>5, <3>1
  <2>5. CASE Pass
    <3>1. UNCHANGED tracker \/ (\E v : tracker' = [tracker EXCEPT ![v] = None]) \/ ReconcileStarting
      BY <2>5 DEF Pass, ReconcileNothing, ReconcileDeleting, ReconcileInvalid,
         ReconcileSuspend, ReconcileRestore, ReconcileFastLane, ReconcilePending,
         ReconcileClaiming, ReconcileReady, forget
    <3>2. ASSUME ReconcileStarting PROVE Wakes("general")
      BY <1>2, <3>2 DEF ReconcileStarting
    <3> QED BY <1>1, <1>5, <3>1, <3>2
  <2> QED BY <2>1, <2>2, <2>3, <2>4, <2>5, StepKinds
<1> QED BY <1>3, <1>4, <1>5

\* LaneInv is inductive.
LEMMA LaneStep == TypeInv /\ LaneInv /\ [Next]_vars => LaneInv'
<1> SUFFICES ASSUME TypeInv, LaneInv, [Next]_vars PROVE LaneInv'
  OBVIOUS
<1>1. ASSUME NEW l, Wakes(l) PROVE l \in Lanes
  BY <1>1, CacheUid DEF Wakes, Awake, Valid, Live, Specs
<1> QED BY <1>1, ComputeAppears DEF LaneInv

-----------------------------------------------------------------------------
(* Suspension.                                                             *)

\* A pass that plans to park the app has just released all there was.
LEMMA ParkPlanned ==
    ASSUME TypeInv, StatusInv, LaneInv, \A k, l \in Lanes : k = l,
           Pass, rec'.pc = "write", rec'.st.phase = "Suspended"
    PROVE (Parked(rec.snap.uid) /\ rec.snap.spec.suspended)'
<1>1. rec'.snap = cache /\ cache.uid # 0 /\ Moves(cache, rec'.st) /\ Idle.pc = "idle"
  BY PassPlans, IdleTyped
<1>2. cache.spec.suspended /\ cache.status.phase # "Suspended"
  BY <1>1 DEF Moves
<1>3. ReconcileSuspend
  <2>1. CASE ReconcileInvalid
    <3>1. cache.status \in Statuses
      BY CheckedTyped DEF TypeInv
    <3>2. [cache.status EXCEPT !.srcValid = "false", !.phase = "Failed", !.reason = "SpecInvalid"].phase = "Failed"
      BY <3>1 DEF Statuses
    <3>3. rec'.st.phase = "Failed"
      BY <2>1, <3>2 DEF ReconcileInvalid, Patch
    <3> QED BY <3>3
  <2>2. CASE ReconcileNothing \/ ReconcileDeleting
    BY <1>1, <2>2 DEF ReconcileNothing, ReconcileDeleting, Return
  <2> QED BY <1>2, <2>1, <2>2 DEF Pass, ReconcileRestore, ReconcileFastLane, ReconcilePending,
             ReconcileClaiming, ReconcileStarting, ReconcileReady, GeneralLane, Awake
<1>4. ReleaseCompute /\ forget(cache.uid)
  <2>1. Checked \in Statuses /\ Checked.phase = cache.status.phase
    BY CheckedTyped DEF TypeInv, Checked, Statuses
  <2>2. [Checked EXCEPT !.reason = "Suspended"].phase # "Suspended"
    BY <1>2, <2>1 DEF Statuses
  <2>3. ASSUME NEW s, NEW b, Patch(cache, s, b), s.phase # "Suspended" PROVE FALSE
    BY <2>3 DEF Patch
  <2>4. ~Patch(cache, [Checked EXCEPT !.reason = "Suspended"], TRUE)
    BY <2>2, <2>3
  <2> QED BY <1>3, <2>4 DEF ReconcileSuspend
<1>5. cache.uid \in Uids /\ cache.spec.lane \in Lanes /\ tracker \in [Uids -> Entries \cup {None}]
  BY <1>1, CacheUid DEF TypeInv, TypeOK, Specs
<1>6. tracker'[cache.uid] = None
  BY <1>4, <1>5 DEF forget
<1>7. claim'.owner = 0 /\ worker' = None
  <2>1. CASE isWorkerdFastLane(cache.spec)
    BY <1>4, <1>5, <2>1 DEF LaneInv, isWorkerdFastLane, ReleaseCompute, FastLaneRemove
  <2>2. CASE ~isWorkerdFastLane(cache.spec)
    BY <1>4, <1>5, <2>2 DEF LaneInv, isWorkerdFastLane, ReleaseCompute, ReleaseClaim, NoClaim
  <2> QED BY <2>1, <2>2
<1> QED BY <1>1, <1>2, <1>6, <1>7 DEF Parked

\* Nothing starts for an incarnation unless a pass finds it awake.
LEMMA ParkedStays ==
    ASSUME TypeInv, [Next]_vars, NEW u \in Uids, Parked(u), \A l : ~Wakes(l)
    PROVE Parked(u)'
BY ComputeAppears DEF Parked

\* ParkInv is inductive when every app is in the same lane.
LEMMA ParkStep ==
    ASSUME TypeInv, StatusInv, PlanInv, CopyOrder, LaneInv, ParkInv,
           \A k, l \in Lanes : k = l, [Next]_vars
    PROVE ParkInv'
<1>1. /\ Idle.pc = "idle" /\ rec \in Passes /\ Absent.uid = 0 /\ NewStatus.phase = "Pending"
      /\ (rec.pc # "idle" => rec.snap.uid \in Uids) /\ (api.uid # 0 => api.uid \in Uids)
      /\ api.gen \in Nat /\ cache.gen \in Nat /\ rec.snap.gen \in Nat
  <2>1. rec \in Passes /\ rec.snap \in Objects /\ api \in Objects /\ cache \in Objects
        /\ (rec.pc # "idle" => rec.snap.uid # 0)
    BY DEF TypeInv, TypeOK, SpecsPresent, Passes
  <2>2. \A o \in Objects : o.gen \in Nat /\ (o.uid # 0 => o.uid \in Uids)
    BY ConstantsAssumption DEF Objects, Gens, Uids
  <2>3. Idle.pc = "idle" /\ Absent.uid = 0 /\ NewStatus.phase = "Pending"
    BY IdleTyped, AbsentTyped DEF NewStatus
  <2> QED BY <2>1, <2>2, <2>3
<1>2. ASSUME rec.pc = "write", rec.st.phase = "Suspended", UNCHANGED rec
      PROVE (Parked(rec.snap.uid) /\ rec.snap.spec.suspended)'
  <2>1. PICK u \in Uids : u = rec.snap.uid
    BY <1>1, <1>2
  <2>2. Parked(u)'
    BY <1>2, <2>1, ParkedStays DEF ParkInv, Wakes
  <2> QED BY <1>2, <2>1, <2>2 DEF ParkInv, Parked
<1>3. ASSUME rec'.pc = "write", rec'.st.phase = "Suspended"
      PROVE (Parked(rec.snap.uid) /\ rec.snap.spec.suspended)'
  <2>1. CASE Users \/ SyncApp \/ FinishDelete \/ Aside
    <3>1. UNCHANGED rec
      BY <2>1, UserSteps, AsideFrame DEF UserVars, SyncApp, FinishDelete, Vanish, EnvVars
    <3> QED BY <1>2, <1>3, <3>1
  <2>2. CASE Pass
    BY <1>3, <2>2, ParkPlanned
  <2>3. CASE Grace
    BY <1>3, <2>3, GracePlans
  <2>4. CASE Outcome \/ Crash
    BY <1>1, <1>3, <2>4, OutcomeSteps DEF Crash, Passes
  <2> QED BY <2>1, <2>2, <2>3, <2>4, StepKinds
<1>4. ASSUME api'.uid # 0, api'.status.phase = "Suspended"
      PROVE (/\ Parked(api.uid)
             /\ cache.uid = api.uid
             /\ cache.spec.suspended \/ cache.status.phase = "Suspended")'
  <2>1. ASSUME api'.uid = api.uid, api'.status = api.status
        PROVE Parked(api.uid)'
    <3>1. /\ Parked(api.uid) /\ cache.uid = api.uid
          /\ cache.spec.suspended \/ cache.status.phase = "Suspended"
      BY <1>4, <2>1 DEF ParkInv
    <3>2. \A l : ~Wakes(l)
      BY <3>1 DEF Wakes, Awake
    <3>3. PICK u \in Uids : u = api.uid
      BY <1>1, <1>4, <2>1
    <3>4. Parked(u)'
      BY <3>1, <3>2, <3>3, ParkedStays
    <3> QED BY <2>1, <3>3, <3>4 DEF Parked
  <2>2. CASE Users
    <3>1. api'.uid = api.uid /\ api'.status = api.status /\ UNCHANGED cache
      BY <1>1, <1>4, <2>2, UserSteps DEF UserVars
    <3> QED BY <1>4, <2>1, <3>1 DEF ParkInv
  <2>3. CASE SyncApp \/ Crash
    <3>1. UNCHANGED api /\ cache' = api
      BY <2>3 DEF SyncApp, Crash
    <3> QED BY <1>4, <2>1, <3>1
  <2>4. CASE Pass \/ Grace \/ Aside
    <3>1. UNCHANGED <<api, cache>>
      BY <2>4, PassPlans, GracePlans, AsideFrame
    <3> QED BY <1>4, <2>1, <3>1 DEF ParkInv
  <2>5. CASE FinishDelete
    BY <1>1, <1>4, <2>5 DEF FinishDelete, Vanish
  <2>6. CASE Outcome /\ UNCHANGED api
    <3>1. UNCHANGED cache
      BY <2>6, OutcomeSteps
    <3> QED BY <1>4, <2>1, <2>6, <3>1 DEF ParkInv
  <2>7. CASE /\ rec.pc = "write" /\ rec.snap = api /\ api'.uid = api.uid
             /\ api'.status = rec.st /\ UNCHANGED <<cache, claim, worker, tracker>>
    <3>1. Parked(api.uid) /\ api.spec.suspended
      BY <1>4, <2>7 DEF ParkInv
    <3>2. cache.uid = api.uid /\ cache.gen = api.gen
      BY <1>1, <1>4, <2>7 DEF CopyOrder
    <3>3. cache.spec = api.spec
      BY <1>4, <2>7, <3>2 DEF CopyOrder
    <3> QED BY <2>7, <3>1, <3>2, <3>3 DEF Parked
  <2> QED BY <2>2, <2>3, <2>4, <2>5, <2>6, <2>7, StepKinds, OutcomeSteps
<1> QED BY <1>3, <1>4 DEF ParkInv

\* Nothing has happened yet.
LEMMA LifeInit == Init => StatusInv /\ PlanInv /\ CopyOrder /\ LaneInv /\ ParkInv /\ MeterInv /\ ServiceInv
<1> SUFFICES ASSUME Init PROVE StatusInv /\ PlanInv /\ CopyOrder /\ LaneInv /\ ParkInv /\ MeterInv /\ ServiceInv
  OBVIOUS
<1>1. /\ Idle.pc = "idle" /\ Idle.snap = Absent /\ Idle.st = NewStatus /\ Absent.uid = 0
      /\ Absent.status = NewStatus /\ NewStatus.phase = "Pending" /\ NoClaim.owner = 0
  BY DEF Idle, Absent, NewStatus, NoClaim
<1>2. StatusInv
  BY <1>1, FreshConsistent DEF Init, StatusInv
<1>3. PlanInv /\ LaneInv /\ ParkInv
  BY <1>1 DEF Init, PlanInv, LaneInv, ParkInv
<1>4. CopyOrder /\ MeterInv
  BY <1>1 DEF Init, CopyOrder, MeterInv, Balanced, OpenCount
<1>5. ServiceInv
  BY <1>1 DEF Init, ServiceInv, Follows
<1> QED BY <1>2, <1>3, <1>4, <1>5

\* What the copies, the plans and the lanes promise holds in every behaviour.
LEMMA CopiesAlways == Spec => [](TypeInv /\ StatusInv /\ PlanInv /\ CopyOrder /\ LaneInv)
<1>1. Init => StatusInv /\ PlanInv /\ CopyOrder /\ LaneInv
  BY LifeInit
<1>2. TypeInv /\ (StatusInv /\ PlanInv /\ CopyOrder /\ LaneInv) /\ [Next]_vars
      => (StatusInv /\ PlanInv /\ CopyOrder /\ LaneInv)'
  BY StatusStep, PlanStep, CopyOrderStep, LaneStep
<1> QED BY <1>1, <1>2, TypeAlways, PTL DEF Spec

\* A Suspended app of a single-lane deployment holds no compute and has no
\* inject under way, with any number of edits, re-creations, failing calls,
\* restarts and stale reads.  (A rollback may move an app between lanes, and
\* reconcileSuspension releases the lane of the moment: hence the hypothesis.)
THEOREM ParkedIsInert ==
    ASSUME \A k, l \in Lanes : k = l
    PROVE Spec => []SuspendedIsInert
<1>1. Init => ParkInv
  BY LifeInit
<1>2. (TypeInv /\ StatusInv /\ PlanInv /\ CopyOrder /\ LaneInv) /\ ParkInv /\ [Next]_vars => ParkInv'
  BY ParkStep
<1>3. ParkInv => SuspendedIsInert
  BY DEF ParkInv, Parked, SuspendedIsInert
<1> QED BY <1>1, <1>2, <1>3, CopiesAlways, PTL DEF Spec

-----------------------------------------------------------------------------
(* The per-app Service.                                                    *)

\* A plan for a Ready app keeps the pod of the object that was read: it was
\* Ready already, or its Service has just been pointed at the claim's sandbox.
ReadyPlan ==
    /\ rec'.st.pod = rec'.snap.status.pod
    /\ \/ rec'.snap.status.phase = "Ready"
       \/ rec'.snap.status.pod # None /\ svc'.sb = claim'.sb

\* Consume plans Ready only after EnsureService.
LEMMA ConsumeService ==
    ASSUME NEW o \in Objects, o.status.phase = "Starting", o.status.pod # None, Consume(o),
           UNCHANGED claim, rec'.st.phase = "Ready"
    PROVE ReadyPlan /\ rec'.snap = o
<1> DEFINE st == [o.status EXCEPT !.srcValid = "true"]
<1>1. st \in Statuses /\ st.phase = "Starting" /\ st.pod = o.status.pod
  BY DEF Objects, Statuses
<1>2. /\ [st EXCEPT !.reason = "InjectFailed"].phase = "Starting"
      /\ [st EXCEPT !.reason = "Starting"].phase = "Starting"
      /\ [st EXCEPT !.reason = "ServiceFailed"].phase = "Starting"
      /\ [st EXCEPT !.route = TRUE, !.url = TRUE, !.phase = "Ready", !.reason = "Running"].pod = o.status.pod
  BY <1>1 DEF Statuses
<1>3. \/ Patch(o, [st EXCEPT !.reason = "InjectFailed"], TRUE)
      \/ Patch(o, [st EXCEPT !.reason = "Starting"], TRUE)
      \/ Patch(o, [st EXCEPT !.reason = "ServiceFailed"], TRUE)
      \/ /\ EnsureService(o.uid)
         /\ Patch(o, [st EXCEPT !.route = TRUE, !.url = TRUE, !.phase = "Ready",
                               !.reason = "Running"], FALSE)
  BY DEF Consume
<1> HIDE DEF st
<1>4. ASSUME NEW s, NEW b, Patch(o, s, b), s.phase = "Starting" PROVE FALSE
  BY <1>4 DEF Patch
<1>5. ASSUME NEW s, Patch(o, s, FALSE), s.pod = o.status.pod
      PROVE rec'.snap = o /\ rec'.st.pod = o.status.pod
  BY <1>5 DEF Patch
<1>6. /\ EnsureService(o.uid)
      /\ Patch(o, [st EXCEPT !.route = TRUE, !.url = TRUE, !.phase = "Ready",
                             !.reason = "Running"], FALSE)
  BY <1>2, <1>3, <1>4
<1>7. rec'.snap = o /\ rec'.st.pod = o.status.pod
  BY <1>2, <1>5, <1>6
<1>8. svc'.sb = claim'.sb
  BY <1>6 DEF EnsureService
<1> QED BY <1>7, <1>8 DEF ReadyPlan

\* A general-lane pass plans Ready only so.
LEMMA PassService ==
    ASSUME TypeInv, StatusInv, "fast" \notin Lanes, Pass, rec'.pc = "write", rec'.st.phase = "Ready"
    PROVE ReadyPlan /\ rec'.snap = cache
<1>1. cache \in Objects /\ cache.status \in Statuses /\ Checked \in Statuses
      /\ Checked.phase = cache.status.phase /\ Checked.pod = cache.status.pod
  BY CheckedTyped DEF TypeInv, Checked, Statuses
<1>2. ASSUME NEW s, NEW b, Patch(cache, s, b), s.phase # "Ready" PROVE FALSE
  BY <1>2 DEF Patch
<1>3. ASSUME NEW s, NEW b, Patch(cache, s, b), s.phase = cache.status.phase, s.pod = cache.status.pod
      PROVE ReadyPlan /\ rec'.snap = cache
  BY <1>3 DEF Patch, ReadyPlan
<1>4. ASSUME rec' = Idle PROVE FALSE
  BY <1>4, IdleTyped
<1>5. ASSUME NEW re, NEW ph, NEW q
      PROVE /\ [Checked EXCEPT !.reason = re].phase = cache.status.phase
            /\ [Checked EXCEPT !.reason = re].pod = cache.status.pod
            /\ [Checked EXCEPT !.phase = ph].phase = ph
            /\ [Checked EXCEPT !.phase = ph, !.reason = re].phase = ph
            /\ [Checked EXCEPT !.pod = q, !.phase = ph, !.reason = re].phase = ph
            /\ [Checked EXCEPT !.pod = q, !.route = FALSE, !.phase = ph, !.reason = re].phase = ph
  BY <1>1 DEF Statuses
<1>6. [Checked EXCEPT !.pod = claim.pod, !.phase = "Starting", !.reason = "Starting"].phase = "Starting"
  BY <1>5
<1>7. CASE ReconcileNothing \/ ReconcileDeleting
  BY <1>7, <1>4 DEF ReconcileNothing, ReconcileDeleting, Return
<1>8. CASE ReconcileInvalid
  <2>1. [cache.status EXCEPT !.srcValid = "false", !.phase = "Failed", !.reason = "SpecInvalid"].phase = "Failed"
    BY <1>1 DEF Statuses
  <2> QED BY <1>8, <2>1, <1>2 DEF ReconcileInvalid
<1>9. CASE ReconcileSuspend
  <2>1. \/ Patch(cache, [Checked EXCEPT !.reason = "Suspended"], TRUE)
        \/ Patch(cache, [Checked EXCEPT !.pod = None, !.route = FALSE,
                             !.phase = "Suspended", !.reason = "Suspended"], FALSE)
    BY <1>9 DEF ReconcileSuspend
  <2>2. [Checked EXCEPT !.pod = None, !.route = FALSE, !.phase = "Suspended",
                        !.reason = "Suspended"].phase = "Suspended"
    BY <1>5
  <2> QED BY <2>1, <2>2, <1>2, <1>3, <1>5
<1>10. CASE ReconcileRestore \/ ReconcilePending
  <2>1. Patch(cache, [Checked EXCEPT !.phase = "Claiming", !.reason = "Claiming"], TRUE)
    BY <1>10 DEF ReconcileRestore, ReconcilePending
  <2>2. [Checked EXCEPT !.phase = "Claiming", !.reason = "Claiming"].phase = "Claiming"
    BY <1>5
  <2> QED BY <2>1, <2>2, <1>2
<1>11. CASE ReconcileFastLane
  BY <1>11, CacheUid DEF ReconcileFastLane, isWorkerdFastLane, Awake, Valid, Live, Specs
<1>12. CASE ReconcileClaiming
  <2>1. \/ Patch(cache, [Checked EXCEPT !.phase = "Failed", !.reason = "TemplateInvalid"], FALSE)
        \/ Patch(cache, [Checked EXCEPT !.phase = "Failed", !.reason = "TemplateMissing"], FALSE)
        \/ Patch(cache, [Checked EXCEPT !.reason = "ClaimFailed"], TRUE)
        \/ Patch(cache, [Checked EXCEPT !.reason = "Claiming"], TRUE)
        \/ Patch(cache, [Checked EXCEPT !.pod = claim.pod, !.phase = "Starting",
                                        !.reason = "Starting"], TRUE)
    BY <1>12 DEF ReconcileClaiming
  <2>2. ~Patch(cache, [Checked EXCEPT !.pod = claim.pod, !.phase = "Starting", !.reason = "Starting"], TRUE)
    BY <1>2, <1>6
  <2>3. /\ [Checked EXCEPT !.phase = "Failed", !.reason = "TemplateInvalid"].phase = "Failed"
        /\ [Checked EXCEPT !.phase = "Failed", !.reason = "TemplateMissing"].phase = "Failed"
    BY <1>5
  <2>4. CASE \/ Patch(cache, [Checked EXCEPT !.reason = "ClaimFailed"], TRUE)
             \/ Patch(cache, [Checked EXCEPT !.reason = "Claiming"], TRUE)
    BY ZenonT(40), <2>4, <1>3, <1>5
  <2> QED BY <2>1, <2>2, <2>3, <2>4, <1>2
<1>13. CASE ReconcileReady
  <2>1. \/ rec' = Idle
        \/ Patch(cache, [Checked EXCEPT !.pod = claim.pod, !.phase = "Starting",
                                        !.reason = "Starting"], TRUE)
    BY <1>13 DEF ReconcileReady, Return
  <2> QED BY <2>1, <1>4, <1>2, <1>6
<1>14. CASE ReconcileStarting
  <2>1. cache.status.phase = "Starting" /\ cache.status.pod # None /\ UNCHANGED claim
    BY <1>14 DEF ReconcileStarting, GeneralLane, StatusInv, Consistent
  <2>2. \/ Patch(cache, [Checked EXCEPT !.reason = "AgentUnreachable"], TRUE)
        \/ Patch(cache, [Checked EXCEPT !.reason = "Injecting"], TRUE)
        \/ rec' = [Idle EXCEPT !.pc = "wait", !.snap = cache]
        \/ Consume(cache)
    BY <1>14, <2>1 DEF ReconcileStarting
  <2>3. rec' # [Idle EXCEPT !.pc = "wait", !.snap = cache]
    BY DEF Idle
  <2> QED BY <2>1, <2>2, <2>3, <1>1, <1>2, <1>3, <1>5, ConsumeService
<1> QED BY <1>7, <1>8, <1>9, <1>10, <1>11, <1>12, <1>13, <1>14 DEF Pass

\* What a step may do to the claim and the Service while statuses refer to pods.
LEMMA ServiceMoves ==
    ASSUME TypeInv, [Next]_vars, NEW st \in {api.status, cache.status, rec.snap.status, rec.st},
           Follows(st)
    PROVE Follows(st)'
<1>1. SUFFICES ASSUME st.phase = "Ready"
               PROVE st.pod # None /\ (claim'.owner # 0 /\ claim'.pod = st.pod /\ svc'.owner # 0
                                        => svc'.sb = claim'.sb)
  BY DEF Follows
<1>2. st.pod # None /\ (claim.owner # 0 /\ claim.pod = st.pod /\ svc.owner # 0 => svc.sb = claim.sb)
  BY <1>1 DEF Follows
<1>3. ASSUME NEW p, Unused(p) PROVE st.pod # p
  BY <1>3 DEF Unused
<1>4. claim \in Claims /\ NoClaim.owner = 0 /\ NoClaim.pod = None
  BY DEF TypeInv, TypeOK, NoClaim
<1>5. ASSUME claim' = NoClaim \/ UNCHANGED claim, UNCHANGED svc
      PROVE claim'.owner # 0 /\ claim'.pod = st.pod /\ svc'.owner # 0 => svc'.sb = claim'.sb
  BY <1>2, <1>4, <1>5
<1>6. CASE Users \/ SyncApp \/ Outcome \/ FinishDelete \/ Crash
  <2>1. UNCHANGED <<claim, svc>>
    BY <1>6, UserSteps, OutcomeSteps DEF UserVars, SyncApp, FinishDelete, Vanish, Crash
  <2> QED BY <1>2, <1>5, <2>1
<1>7. CASE Grace \/ ReconcileStarting
  <2>1. UNCHANGED claim /\ (UNCHANGED svc \/ svc'.sb = claim.sb)
    <3>1. ASSUME NEW o, Consume(o) PROVE UNCHANGED svc \/ svc'.sb = claim.sb
      <4>1. UNCHANGED svc \/ EnsureService(o.uid)
        BY <3>1 DEF Consume
      <4> QED BY <4>1 DEF EnsureService
    <3>2. CASE Grace
      BY <3>1, <3>2 DEF Grace, GraceDone, GraceElapsed
    <3>3. CASE ReconcileStarting
      BY <3>1, <3>3 DEF ReconcileStarting
    <3> QED BY <1>7, <3>2, <3>3
  <2> QED BY <1>2, <2>1
<1>8. CASE Pass /\ ~ReconcileStarting
  <2>1. /\ UNCHANGED svc
        /\ UNCHANGED claim \/ claim' = NoClaim \/ CreateMissingClaim
    BY <1>8 DEF Pass, ReconcileNothing, ReconcileDeleting, ReconcileInvalid, ReconcileSuspend,
         ReconcileRestore, ReconcileFastLane, ReconcilePending, ReconcileClaiming,
         ReconcileReady, ReleaseCompute, ReleaseClaim, FastLaneRemove
  <2>2. ASSUME CreateMissingClaim PROVE UNCHANGED claim \/ claim'.pod = None
    BY <2>2 DEF CreateMissingClaim, NoClaim
  <2> QED BY <1>2, <1>5, <2>1, <2>2
<1>9. CASE BindClaim \/ ReplacePod
  <2>1. PICK p \in Pods : Unused(p) /\ claim'.pod = p
    BY <1>9, <1>4 DEF BindClaim, ReplacePod, Claims
  <2> QED BY <1>2, <1>3, <2>1
<1>10. CASE Aside /\ ~BindClaim /\ ~ReplacePod
  <2>1. CASE CollectService
    BY <1>2, <2>1 DEF CollectService, NoSvc
  <2>2. CASE ~CollectService
    <3>1. UNCHANGED svc /\ (UNCHANGED claim \/ claim' = NoClaim)
      BY <1>10, <2>2 DEF Aside, ClaimEvent, Attempts, AttemptApply, AttemptRecord, AttemptFail,
         EvictExpired, ZombieEnds, AttemptVars, PodUp, CollectClaim, ChangeTemplate, EnvVars, vars
    <3> QED BY <1>2, <1>5, <3>1
  <2> QED BY <2>1, <2>2
<1> QED BY <1>2, <1>6, <1>7, <1>8, <1>9, <1>10, StepKinds

\* ServiceInv is inductive when there is no fast lane.
LEMMA ServiceStep ==
    ASSUME TypeInv, StatusInv, PlanInv, ServiceInv, "fast" \notin Lanes, [Next]_vars
    PROVE ServiceInv'
<1> DEFINE old == {api.status, cache.status, rec.snap.status, rec.st}
<1>1. ASSUME NEW st \in old PROVE Follows(st)'
  BY <1>1, ServiceMoves DEF ServiceInv
<1>2. /\ NewStatus.phase = "Pending" /\ Absent.status = NewStatus
      /\ Idle.snap.status = NewStatus /\ Idle.st = NewStatus /\ rec \in Passes
  BY DEF NewStatus, Absent, Idle, TypeInv, TypeOK
<1>3. ASSUME NEW st, st \in old \/ st = NewStatus PROVE Follows(st)'
  BY <1>1, <1>3, <1>2 DEF Follows
<1>4. CASE Users
  <2>1. UNCHANGED <<cache, rec>> /\ (api'.status \in old \/ api'.status = NewStatus)
    BY <1>4, <1>2, UserSteps DEF UserVars
  <2> QED BY <1>3, <2>1 DEF ServiceInv, Follows
<1>5. CASE SyncApp \/ Crash \/ FinishDelete \/ Aside
  <2>1. /\ api'.status \in old \/ api'.status = NewStatus
        /\ cache'.status \in old
        /\ UNCHANGED rec \/ rec' = Idle
    BY <1>5, <1>2, AsideFrame DEF SyncApp, Crash, FinishDelete, Vanish, EnvVars
  <2> QED BY <1>3, <1>2, <2>1 DEF ServiceInv, Follows
<1>6. CASE Outcome
  <2>1. /\ api'.status \in old /\ UNCHANGED cache
        /\ rec' = Idle \/ (rec'.snap = rec.snap /\ rec'.st = rec.st)
    BY <1>6, <1>2, OutcomeSteps DEF Passes
  <2> QED BY <1>3, <1>2, <2>1 DEF ServiceInv, Follows
<1>7. CASE Pass \/ Grace
  <2>1. UNCHANGED <<api, cache>>
    BY <1>7, PassPlans, GracePlans
  <2>2. rec' = Idle \/ rec'.snap.status \in old
    BY <1>7, PassPlans, GracePlans
  <2>3. Follows(rec.snap.status)'
    BY <1>3, <1>2, <2>2 DEF Follows
  <2>4. ASSUME rec'.st.phase = "Ready" PROVE ReadyPlan
    <3>1. CASE Pass
      <4>1. rec'.pc = "write"
        BY <1>2, <2>4, <3>1, PassPlans
      <4> QED BY <2>4, <3>1, <4>1, PassService
    <3>2. CASE Grace
      <4>1. rec.pc = "wait" /\ UNCHANGED claim
        BY <3>2 DEF Grace, GraceDone, GraceElapsed
      <4>2. rec.snap \in Objects /\ rec.snap.status.phase = "Starting" /\ rec.snap.status.pod # None
            /\ rec.snap.status \in Statuses
        BY <1>2, <4>1 DEF PlanInv, StatusInv, Consistent, Passes, Objects
      <4>3. ~GraceElapsed
        <5>1. [rec.snap.status EXCEPT !.srcValid = "true", !.reason = "Injecting"].phase = "Starting"
          BY <4>2 DEF Statuses
        <5>2. ASSUME NEW s, NEW b, Patch(rec.snap, s, b), s.phase = "Starting" PROVE FALSE
          BY <2>4, <5>2 DEF Patch
        <5> QED BY <5>1, <5>2 DEF GraceElapsed
      <4> QED BY <2>4, <3>2, <4>1, <4>2, <4>3, ConsumeService DEF Grace, GraceDone
    <3> QED BY <1>7, <3>1, <3>2
  <2>5. Follows(rec.st)'
    <3>1. CASE rec'.st.phase # "Ready"
      BY <3>1 DEF Follows
    <3>2. CASE rec'.st.phase = "Ready"
      BY <2>3, <2>4, <3>2 DEF Follows, ReadyPlan
    <3> QED BY <3>1, <3>2
  <2> QED BY <1>3, <2>1, <2>3, <2>5 DEF ServiceInv, Follows
<1> QED BY <1>4, <1>5, <1>6, <1>7, StepKinds

\* While a Ready app's claim holds the pod of its status, its Service selects
\* that pod's Sandbox, across redeploys, re-creations under the same name,
\* replaced pods, failing calls and restarts, where there is no fast lane.
THEOREM RoutesFollowClaims ==
    ASSUME "fast" \notin Lanes
    PROVE Spec => []ServiceFollowsClaim
<1>1. Init => ServiceInv
  BY LifeInit
<1>2. (TypeInv /\ StatusInv /\ PlanInv /\ CopyOrder /\ LaneInv) /\ ServiceInv /\ [Next]_vars => ServiceInv'
  BY ServiceStep
<1>3. ServiceInv => ServiceFollowsClaim
  BY DEF ServiceInv, Follows, ServiceFollowsClaim
<1> QED BY <1>1, <1>2, <1>3, CopiesAlways, PTL DEF Spec

-----------------------------------------------------------------------------
(* The usage meter.                                                        *)

\* Failures and restarts are counted and never forgotten.
LEMMA CountsGrow ==
    ASSUME TypeInv, [Next]_vars, faults' = 0, crashes' = 0
    PROVE faults = 0 /\ crashes = 0
<1>1. faults \in Nat /\ crashes \in Nat
  BY ConstantsAssumption DEF TypeInv, TypeOK
<1>2. faults' = faults \/ faults' = faults + 1
  <2>1. ASSUME Fault \/ NoFault PROVE faults' = faults \/ faults' = faults + 1
    BY <2>1 DEF Fault, NoFault
  <2>2. ASSUME NEW o, Consume(o) PROVE Fault \/ NoFault
    BY <2>2 DEF Consume
  <2>3. CASE Users \/ SyncApp \/ FinishDelete \/ Crash
    BY <2>3, UserSteps DEF UserVars, SyncApp, FinishDelete, Vanish, Crash, EnvVars
  <2>4. CASE Pass
    BY <2>1, <2>2, <2>4 DEF Pass, ReconcileNothing, ReconcileDeleting, ReconcileInvalid,
         ReconcileSuspend, ReconcileRestore, ReconcileFastLane, ReconcilePending,
         ReconcileClaiming, ReconcileStarting, ReconcileReady
  <2>5. CASE Grace
    BY <2>1, <2>2, <2>5 DEF Grace, GraceDone, GraceElapsed
  <2>6. CASE Outcome
    BY <2>1, <2>6 DEF Outcome, WriteStatus, SkipStatus, FailStatus, RejectedWrite, EmitLifecycle
  <2>7. CASE Aside
    BY <2>1, <2>7 DEF Aside, ClaimEvent, Attempts, AttemptApply, AttemptRecord, AttemptFail,
         EvictExpired, ZombieEnds, BindClaim, PodUp, CollectClaim, CollectService, ReplacePod,
         ChangeTemplate, EnvVars, vars
  <2> QED BY <2>3, <2>4, <2>5, <2>6, <2>7, StepKinds
<1>3. crashes' = crashes \/ crashes' = crashes + 1
  BY StepKinds, UserSteps, OutcomeSteps, AsideFrame
     DEF UserVars, SyncApp, Pass, Begin, Grace, GraceDone, GraceElapsed, FinishDelete, Vanish, EnvVars,
         Crash, ReconcileNothing, ReconcileDeleting, ReconcileInvalid, ReconcileSuspend,
         ReconcileRestore, ReconcileFastLane, ReconcilePending, ReconcileClaiming,
         ReconcileStarting, ReconcileReady
<1> QED BY <1>1, <1>2, <1>3

\* MeterInv is inductive.
LEMMA MeterStep ==
    TypeInv /\ StatusInv /\ PlanInv /\ CopyOrder /\ MeterInv /\ [Next]_vars => MeterInv'
<1> SUFFICES ASSUME TypeInv, StatusInv, PlanInv, CopyOrder, MeterInv, [Next]_vars PROVE MeterInv'
  OBVIOUS
<1>1. /\ rec \in Passes /\ Idle.pc = "idle" /\ meter \in [Uids -> Int] /\ Absent.uid = 0
      /\ api.uid \in Nat /\ rec.snap.uid \in Nat /\ lastUid \in Nat
      /\ api.uid # 0 => api.uid \in Uids
      /\ rec.pc # "idle" => rec.snap.uid # 0 /\ rec.snap.uid \in Uids
  <2>1. rec \in Passes /\ rec.snap \in Objects /\ api \in Objects /\ lastUid \in Nat
        /\ meter \in [Uids -> Int] /\ (rec.pc # "idle" => rec.snap.uid # 0)
    BY ConstantsAssumption DEF TypeInv, TypeOK, SpecsPresent, Passes
  <2>2. \A o \in Objects : o.uid \in Nat /\ (o.uid # 0 => o.uid \in Uids)
    BY ConstantsAssumption DEF Objects, Uids
  <2> QED BY <2>1, <2>2, IdleTyped, AbsentTyped
<1>2. faults' = 0 /\ crashes' = 0 => faults = 0 /\ crashes = 0
  BY CountsGrow
<1>3. ASSUME Vanish, api.uid # 0, UNCHANGED <<rec, meter, lastUid, faults, crashes>> PROVE MeterInv'
  <2>0. /\ api'.uid = 0 /\ api.uid <= lastUid /\ leftReady \subseteq Uids /\ 0 \notin Uids
        /\ leftReady' = IF api.status.phase = "Ready" THEN leftReady \cup {api.uid} ELSE leftReady
    BY <1>1, <1>3 DEF Vanish, CopyOrder, TypeInv, TypeOK, Uids
  <2>1. \A u \in Uids : OpenCount(u)' = OpenCount(u)
    <3> SUFFICES ASSUME NEW u \in Uids PROVE OpenCount(u)' = OpenCount(u)
      OBVIOUS
    <3>1. u # api'.uid /\ (u \in leftReady' <=> u \in leftReady \/ (u = api.uid /\ api.status.phase = "Ready"))
      BY <2>0
    <3> QED BY <3>1 DEF OpenCount
  <2>2. \A u \in leftReady' : u <= lastUid' /\ u # api'.uid
    <3>1. \A u \in leftReady' : u <= lastUid /\ u \in Uids
      BY <1>1, <1>3, <2>0 DEF MeterInv
    <3> QED BY <1>3, <2>0, <3>1
  <2> QED BY <1>3, <2>1, <2>2 DEF MeterInv, Balanced
<1>4. CASE Users
  <2>1. UNCHANGED <<rec, meter, faults, crashes>>
    BY <1>4, UserSteps DEF UserVars
  <2>2. CASE /\ api'.uid = lastUid + 1 /\ api'.status = NewStatus /\ lastUid' = lastUid + 1
             /\ api.uid = 0 /\ UNCHANGED leftReady
    <3>1. /\ api'.uid > lastUid /\ rec.snap.uid <= lastUid /\ rec.snap.uid # api'.uid
          /\ api'.uid \notin leftReady
      BY <1>1, <2>2 DEF CopyOrder, MeterInv
    <3>2. \A u \in Uids : OpenCount(u)' = OpenCount(u)
      <4>1. 0 \notin Uids /\ NewStatus.phase # "Ready"
        BY DEF Uids, NewStatus
      <4> QED BY <2>2, <4>1 DEF OpenCount
    <3>3. \A u \in Uids : u > lastUid' => meter[u] = 0
      BY <1>1, <2>2 DEF MeterInv, Uids
    <3>4. \A u \in leftReady : u <= lastUid' /\ u # api'.uid
      <4>1. leftReady \subseteq Nat /\ \A u \in leftReady : u <= lastUid
        BY DEF MeterInv, TypeInv, TypeOK, Uids
      <4> QED BY <1>1, <2>2, <3>1, <4>1
    <3> QED BY <2>1, <2>2, <3>2, <3>3, <3>4 DEF MeterInv, Balanced
  <2>3. CASE api.uid # 0 /\ Vanish /\ UNCHANGED lastUid
    BY <1>3, <2>1, <2>3
  <2>4. CASE api'.uid = api.uid /\ api'.status = api.status /\ UNCHANGED <<lastUid, leftReady>>
    BY <2>1, <2>4 DEF MeterInv, Balanced, OpenCount
  <2> QED BY <1>4, <2>2, <2>3, <2>4, UserSteps
<1>5. CASE SyncApp \/ Aside
  <2>1. UNCHANGED <<api, rec, meter, leftReady, lastUid>>
    BY <1>5, AsideFrame DEF SyncApp
  <2> QED BY <1>2, <2>1 DEF MeterInv, Balanced, OpenCount
<1>6. CASE FinishDelete
  BY <1>3, <1>6 DEF FinishDelete, EnvVars
<1>7. CASE Crash
  <2>1. crashes' # 0 /\ rec' = Idle /\ UNCHANGED <<api, meter, leftReady, lastUid>>
    BY <1>7, ConstantsAssumption DEF Crash, TypeInv, TypeOK
  <2> QED BY <1>1, <2>1 DEF MeterInv
<1>8. CASE Pass \/ Grace
  <2>1. UNCHANGED <<api, meter, leftReady, lastUid>> /\ rec.pc # "emit" /\ rec'.pc # "emit"
    BY <1>1, <1>8, PassPlans, GracePlans
  <2> QED BY <1>2, <2>1 DEF MeterInv, Balanced, OpenCount
<1>9. CASE SkipStatus \/ FailStatus
  <2>1. UNCHANGED <<meter, leftReady, lastUid>> /\ rec.pc = "write" /\ rec' = Idle
    BY <1>9 DEF SkipStatus, FailStatus, RejectedWrite, WriteVars
  <2>2. faults' = 0 => UNCHANGED api
    BY <1>9, ConstantsAssumption DEF SkipStatus, FailStatus, RejectedWrite, Fault, TypeInv, TypeOK
  <2>3. api'.uid = api.uid
    BY <1>9 DEF SkipStatus, FailStatus, RejectedWrite, TypeInv, TypeOK, Objects
  <2> QED BY <1>1, <1>2, <2>1, <2>2, <2>3 DEF MeterInv, Balanced, OpenCount
<1>10. CASE WriteStatus
  <2>1. /\ UNCHANGED <<meter, leftReady, lastUid>> /\ rec.pc = "write" /\ rec.snap = api
        /\ rec' = IF Crosses(rec.snap.status.phase, rec.st.phase)
                  THEN [rec EXCEPT !.pc = "emit"] ELSE Idle
    BY <1>10 DEF WriteStatus, WriteVars
  <2>2. api'.uid = api.uid /\ api'.status = rec.st /\ api.uid \notin leftReady
    BY <1>10, <2>1 DEF WriteStatus, TypeInv, TypeOK, Objects, MeterInv
  <2>3. /\ \A u \in Uids : u # api.uid => OpenCount(u)' = OpenCount(u)
        /\ OpenCount(api.uid)' = ReadyCount(rec.st) /\ OpenCount(api.uid) = ReadyCount(api.status)
    BY <2>1, <2>2 DEF OpenCount, ReadyCount
  <2>4. CASE Crosses(rec.snap.status.phase, rec.st.phase)
    <3>1. rec'.pc = "emit" /\ rec'.snap = rec.snap /\ rec'.st = rec.st
      BY <1>1, <2>1, <2>4 DEF Passes
    <3>2. ASSUME faults' = 0, crashes' = 0, NEW u \in Uids PROVE Balanced(u)'
      <4>1. meter[u] = OpenCount(u)
        BY <1>2, <2>1, <3>2 DEF MeterInv, Balanced
      <4>2. CASE u = api.uid
        BY <2>1, <2>2, <2>3, <3>1, <4>1, <4>2 DEF Balanced
      <4>3. CASE u # api.uid
        BY <2>1, <2>3, <3>1, <4>1, <4>3 DEF Balanced
      <4> QED BY <4>2, <4>3
    <3> QED BY <2>1, <2>2, <2>4, <3>1, <3>2 DEF MeterInv
  <2>5. CASE ~Crosses(rec.snap.status.phase, rec.st.phase)
    <3>1. ReadyCount(rec.st) = ReadyCount(api.status) /\ rec'.pc = "idle"
      BY <1>1, <2>1, <2>5 DEF Crosses, ReadyCount
    <3>2. ASSUME faults' = 0, crashes' = 0, NEW u \in Uids PROVE Balanced(u)'
      <4>1. meter[u] = OpenCount(u)
        BY <1>2, <2>1, <3>2 DEF MeterInv, Balanced
      <4>2. OpenCount(u)' = OpenCount(u)
        <5>1. CASE u = api.uid
          <6>1. OpenCount(u)' = OpenCount(api.uid)'
            BY <2>2, <5>1 DEF OpenCount
          <6> QED BY <2>3, <3>1, <5>1, <6>1
        <5>2. CASE u # api.uid
          BY <2>3, <5>2
        <5> QED BY <5>1, <5>2
      <4> QED BY <2>1, <3>1, <4>1, <4>2 DEF Balanced
    <3> QED BY <2>1, <2>2, <3>1, <3>2 DEF MeterInv
  <2> QED BY <2>4, <2>5
<1>11. CASE EmitLifecycle
  <2>1. /\ UNCHANGED <<api, leftReady, lastUid>> /\ rec.pc = "emit" /\ rec' = Idle
        /\ meter' = [meter EXCEPT ![rec.snap.uid] = IF rec.st.phase = "Ready" THEN @ + 1 ELSE @ - 1]
    BY <1>11 DEF EmitLifecycle
  <2>2. \A u \in Uids : u # rec.snap.uid => meter'[u] = meter[u]
    BY <1>1, <2>1
  <2>3. \A u \in Uids : u > lastUid' => meter'[u] = 0
    BY <1>1, <2>1, <2>2 DEF MeterInv, CopyOrder, Uids
  <2>4. ASSUME faults' = 0, crashes' = 0, NEW u \in Uids PROVE Balanced(u)'
    <3>1. OpenCount(u)' = OpenCount(u) /\ Balanced(u)
      BY <1>2, <2>1, <2>4 DEF OpenCount, MeterInv
    <3>2. CASE u # rec.snap.uid
      BY <1>1, <2>1, <2>2, <3>1, <3>2 DEF Balanced
    <3>3. CASE u = rec.snap.uid
      <4>1. /\ OpenCount(u) = ReadyCount(rec.st) /\ meter[u] = ReadyCount(rec.snap.status)
            /\ Crosses(rec.snap.status.phase, rec.st.phase)
        BY <2>1, <3>1, <3>3 DEF Balanced, MeterInv
      <4>2. meter'[u] = IF rec.st.phase = "Ready" THEN meter[u] + 1 ELSE meter[u] - 1
        BY <1>1, <2>1, <2>4, <3>3
      <4>3. meter'[u] = ReadyCount(rec.st)
        <5>1. CASE rec.st.phase = "Ready"
          BY <4>1, <4>2, <5>1 DEF Crosses, ReadyCount
        <5>2. CASE rec.st.phase # "Ready"
          BY <4>1, <4>2, <5>2 DEF Crosses, ReadyCount
        <5> QED BY <5>1, <5>2
      <4> QED BY <1>1, <2>1, <3>1, <4>1, <4>3 DEF Balanced
    <3> QED BY <3>2, <3>3
  <2> QED BY <1>1, <2>1, <2>3, <2>4 DEF MeterInv
<1> QED BY <1>4, <1>5, <1>6, <1>7, <1>8, <1>9, <1>10, <1>11, StepKinds DEF Outcome

\* As long as no call failed and the controller did not restart (either may
\* part a write from its emitLifecycle), every crossing of the Ready boundary
\* is recorded exactly once, in both lanes, over stale reads, conflicts,
\* deletions and re-creations; what a deletion leaves is an open interval for
\* each incarnation deleted while Ready, and a closed one for every other.
THEOREM MeterStaysBalanced == Spec => [](faults = 0 /\ crashes = 0 => MeterBalanced)
<1>1. Init => MeterInv
  BY LifeInit
<1>2. (TypeInv /\ StatusInv /\ PlanInv /\ CopyOrder /\ LaneInv) /\ MeterInv /\ [Next]_vars => MeterInv'
  BY MeterStep
<1>3. MeterInv => (faults = 0 /\ crashes = 0 => MeterBalanced)
  BY DEF MeterInv, MeterBalanced, Balanced, OpenCount
<1> QED BY <1>1, <1>2, <1>3, CopiesAlways, PTL DEF Spec

-----------------------------------------------------------------------------
(* The lifecycle.                                                          *)

\* The mapping's view of the app, and what a step may do to it.
PhaseOf == IF api.uid = 0 THEN "Absent" ELSE api.status.phase

AbsentInv == api.uid = 0 => api = Absent

\* AbsentInv is inductive.
LEMMA AbsentStep == TypeInv /\ AbsentInv /\ [Next]_vars => AbsentInv'
<1> SUFFICES ASSUME TypeInv, AbsentInv, [Next]_vars, api'.uid = 0 PROVE api' = Absent
  BY DEF AbsentInv
<1>1. lastUid \in Nat /\ (rec.pc # "idle" => rec.snap.uid # 0)
  BY ConstantsAssumption DEF TypeInv, TypeOK, SpecsPresent
<1>2. CASE Users
  BY <1>1, <1>2, UserSteps
<1>3. CASE Outcome
  BY <1>1, <1>3, OutcomeSteps DEF AbsentInv
<1>4. CASE SyncApp \/ Pass \/ Grace \/ Crash \/ Aside
  <2>1. UNCHANGED api
    BY <1>4, AsideFrame DEF SyncApp, Crash, Grace, GraceDone, GraceElapsed, Pass, Begin,
         ReconcileNothing, ReconcileDeleting, ReconcileInvalid, ReconcileSuspend,
         ReconcileRestore, ReconcileFastLane, ReconcilePending, ReconcileClaiming,
         ReconcileStarting, ReconcileReady
  <2> QED BY <2>1 DEF AbsentInv
<1>5. CASE FinishDelete
  BY <1>5 DEF FinishDelete, Vanish
<1> QED BY <1>2, <1>3, <1>4, <1>5, StepKinds

\* A step that leaves the app alone takes or gives back its sandbox, or neither.
LEMMA ComputeMapped ==
    ASSUME TypeInv, ParkInv, [Next]_vars, UNCHANGED api, AbsentInv
    PROVE [Lifecycle!Next]_(Lifecycle!vars)
<1>1. CASE (claim'.owner # 0) = (claim.owner # 0)
  BY <1>1 DEF Lifecycle!vars
<1>2. CASE claim.owner # 0 /\ claim'.owner = 0
  BY <1>2 DEF Lifecycle!Next, Lifecycle!Release
<1>3. CASE claim.owner = 0 /\ claim'.owner # 0
  <2>1. PhaseOf # "Suspended"
    <3>1. Wakes("general")
      BY <1>3, ComputeAppears
    <3> QED BY <3>1 DEF PhaseOf, Wakes, Awake, ParkInv
  <2> QED BY <1>3, <2>1 DEF PhaseOf, Lifecycle!Next, Lifecycle!Acquire
<1> QED BY <1>1, <1>2, <1>3

\* A status write is a move of the phase graph.
LEMMA WriteMapped ==
    ASSUME TypeInv, ParkInv, Lanes = {"general"}, UNCHANGED claim,
           rec.pc = "write", rec.snap = api, Moves(api, rec.st), api.uid # 0,
           api'.uid = api.uid, api'.spec = api.spec, api'.status = rec.st
    PROVE [Lifecycle!Next]_(Lifecycle!vars)
<1>1. /\ api.status.phase \in Phases /\ rec.st.phase \in Phases /\ api.spec.lane = "general"
  BY DEF TypeInv, TypeOK, SpecsPresent, Passes, Objects, Statuses, Specs
<1>2. ASSUME NEW from, api.status.phase \in from
      PROVE Lifecycle!Move(from, rec.st.phase)
  BY <1>2 DEF Lifecycle!Move
<1>3. CASE rec.st.phase = api.status.phase
  BY <1>3 DEF Lifecycle!vars
<1>4. CASE rec.st.phase = "Failed" /\ api.status.phase # "Failed"
  BY <1>1, <1>2, <1>4 DEF Phases, Lifecycle!Phases, Lifecycle!Next, Lifecycle!Fail
<1>5. CASE api.spec.suspended /\ rec.st.phase = "Suspended" /\ api.status.phase # "Suspended"
  <2>1. claim.owner = 0
    BY <1>5 DEF ParkInv, Parked
  <2> QED BY <1>1, <1>2, <1>5, <2>1 DEF Phases, Lifecycle!Phases, Lifecycle!Next, Lifecycle!Suspend
<1>6. CASE /\ ~api.spec.suspended
           /\ \/ api.status.phase = "Pending" /\ rec.st.phase = "Claiming"
              \/ api.status.phase = "Claiming" /\ rec.st.phase = "Starting"
              \/ api.status.phase = "Starting" /\ rec.st.phase = "Ready"
              \/ api.status.phase = "Ready" /\ rec.st.phase = "Starting"
              \/ api.status.phase = "Suspended" /\ rec.st.phase = "Claiming"
  <2>1. CASE api.status.phase = "Pending" /\ rec.st.phase = "Claiming"
    BY <1>2, <1>6, <2>1 DEF Lifecycle!Next, Lifecycle!Claim
  <2>2. CASE api.status.phase = "Claiming" /\ rec.st.phase = "Starting"
    BY <1>2, <1>6, <2>2 DEF Lifecycle!Next, Lifecycle!Bind
  <2>3. CASE api.status.phase = "Starting" /\ rec.st.phase = "Ready"
    BY <1>2, <1>6, <2>3 DEF Lifecycle!Next, Lifecycle!Serve
  <2>4. CASE api.status.phase = "Ready" /\ rec.st.phase = "Starting"
    BY <1>2, <1>6, <2>4 DEF Lifecycle!Next, Lifecycle!Rebind
  <2>5. CASE api.status.phase = "Suspended" /\ rec.st.phase = "Claiming"
    BY <1>2, <1>6, <2>5 DEF Lifecycle!Next, Lifecycle!Restore
  <2> QED BY <1>6, <2>1, <2>2, <2>3, <2>4, <2>5
<1> QED BY <1>1, <1>3, <1>4, <1>5, <1>6 DEF Moves

\* Every step maps to a step of the lifecycle or to none.
LEMMA StepMapped ==
    ASSUME TypeInv, StatusInv, PlanInv, ParkInv, AbsentInv, Lanes = {"general"}, [Next]_vars
    PROVE [Lifecycle!Next]_(Lifecycle!vars)
<1>1. /\ Absent.uid = 0 /\ Absent.spec.suspended = FALSE /\ NewStatus.phase = "Pending"
      /\ api.status.phase \in Phases /\ api.spec.suspended \in BOOLEAN /\ lastUid \in Nat
      /\ rec.pc # "idle" => rec.snap.uid # 0
  <2>1. api \in Objects /\ lastUid \in Nat /\ (rec.pc # "idle" => rec.snap.uid # 0)
    BY ConstantsAssumption DEF TypeInv, TypeOK, SpecsPresent
  <2>2. api.status.phase \in Phases /\ api.spec.suspended \in BOOLEAN
    <3>1. api.status \in Statuses /\ (api.spec \in Specs \/ api.spec = NoSpec)
      BY <2>1 DEF Objects
    <3>2. api.spec \in Specs => api.spec.suspended \in BOOLEAN
      BY DEF Specs
    <3>3. NoSpec.suspended = FALSE
      BY DEF NoSpec
    <3>4. api.status.phase \in Phases
      BY <3>1 DEF Statuses
    <3> QED BY <3>1, <3>2, <3>3, <3>4
  <2> QED BY <2>1, <2>2 DEF Absent, NoSpec, NewStatus
<1>2. CASE SyncApp \/ Pass \/ Grace \/ Crash \/ Aside
  <2>1. UNCHANGED api
    BY <1>2, AsideFrame, PassPlans, GracePlans DEF SyncApp, Crash
  <2> QED BY <2>1, ComputeMapped
<1>3. CASE Outcome
  <2>1. UNCHANGED claim
    BY <1>3, OutcomeSteps
  <2>2. CASE UNCHANGED api
    BY <2>2, ComputeMapped
  <2>3. CASE /\ rec.pc = "write" /\ rec.snap = api /\ api'.uid = api.uid
             /\ api'.spec = api.spec /\ api'.status = rec.st
    BY <1>1, <2>1, <2>3, WriteMapped DEF PlanInv
  <2> QED BY <1>3, <2>2, <2>3, OutcomeSteps
<1>4. CASE DeleteApp \/ FinishDelete
  <2>1. api' = Absent /\ UNCHANGED claim
    BY <1>4 DEF DeleteApp, FinishDelete, Vanish, UserVars
  <2>2. CASE api.uid # 0
    BY <1>1, <2>1, <2>2 DEF Phases, Lifecycle!Phases, Lifecycle!Next, Lifecycle!Delete
  <2>3. CASE api.uid = 0
    BY <2>1, <2>3 DEF AbsentInv, Lifecycle!vars
  <2> QED BY <2>2, <2>3
<1>5. CASE CreateApp
  <2>1. /\ api.uid = 0 /\ api'.uid # 0 /\ api'.status.phase = "Pending"
        /\ api'.spec.suspended = FALSE /\ UNCHANGED claim
    BY <1>1, <1>5 DEF CreateApp, UserVars
  <2> QED BY <2>1 DEF Lifecycle!Next, Lifecycle!Create
<1>6. ASSUME NEW spec, Edit(spec), spec.suspended \in BOOLEAN PROVE [Lifecycle!Next]_(Lifecycle!vars)
  <2>1. /\ api.uid # 0 /\ api'.uid = api.uid /\ api'.status = api.status
        /\ api'.spec.suspended = spec.suspended /\ UNCHANGED claim
    BY <1>6 DEF Edit, UserVars, TypeInv, TypeOK, Objects
  <2>2. CASE spec.suspended = api.spec.suspended
    BY <2>1, <2>2 DEF Lifecycle!vars
  <2>3. CASE spec.suspended # api.spec.suspended
    <3>1. spec.suspended = ~api.spec.suspended
      BY <1>1, <1>6, <2>3
    <3> QED BY <1>1, <2>1, <3>1 DEF Phases, Lifecycle!Phases, Lifecycle!Next, Lifecycle!Toggle
  <2> QED BY <2>2, <2>3
<1>7. CASE Redeploy \/ Rollback \/ SetSuspended
  <2>1. \E spec : Edit(spec) /\ spec.suspended \in BOOLEAN
    <3>1. CASE Redeploy
      <4>1. PICK s : Edit(s) /\ \E r, l : s = [ref |-> r, suspended |-> FALSE, lane |-> l]
        BY <3>1 DEF Redeploy
      <4>2. s.suspended = FALSE
        BY <4>1
      <4> QED BY <4>1, <4>2
    <3>2. CASE Rollback \/ SetSuspended
      <4>1. api.spec \in Specs
        BY <3>2 DEF Rollback, SetSuspended, Edit, TypeInv, SpecsPresent
      <4>2. \A r, l : [api.spec EXCEPT !.ref = r, !.lane = l].suspended = api.spec.suspended
        BY <4>1 DEF Specs
      <4>3. [api.spec EXCEPT !.suspended = ~@].suspended \in BOOLEAN
        BY <4>1 DEF Specs
      <4> QED BY <1>1, <3>2, <4>2, <4>3 DEF Rollback, SetSuspended
    <3> QED BY <1>7, <3>1, <3>2
  <2> QED BY <1>6, <2>1
<1>8. CASE DeleteAppForeground
  <2>1. api'.uid = api.uid /\ api'.status = api.status /\ api'.spec = api.spec /\ UNCHANGED claim
    BY <1>8 DEF DeleteAppForeground, UserVars, TypeInv, TypeOK, Objects
  <2> QED BY <2>1 DEF Lifecycle!vars
<1> QED BY <1>2, <1>3, <1>4, <1>5, <1>7, <1>8, StepKinds DEF Users

\* The reconciler of a general-lane app, its users, the cluster, failing calls
\* and restarts together implement AppLifecycle: only its phase moves happen,
\* and no sandbox is claimed for a parked app.
THEOREM RefinesLifecycle ==
    ASSUME Lanes = {"general"}
    PROVE Spec => ImplementsLifecycle
<1>1. Init => Lifecycle!Init
  BY DEF Init, Lifecycle!Init, Absent, NoSpec, NoClaim
<1>2. Init => ParkInv /\ AbsentInv
  BY LifeInit DEF Init, AbsentInv
<1>3. (TypeInv /\ StatusInv /\ PlanInv /\ CopyOrder /\ LaneInv) /\ (ParkInv /\ AbsentInv) /\ [Next]_vars
      => (ParkInv /\ AbsentInv)'
  BY ParkStep, AbsentStep
<1>4. (TypeInv /\ StatusInv /\ PlanInv /\ CopyOrder /\ LaneInv) /\ (ParkInv /\ AbsentInv) /\ [Next]_vars
      => [Lifecycle!Next]_(Lifecycle!vars)
  BY StepMapped
<1> QED BY <1>1, <1>2, <1>3, <1>4, CopiesAlways, PTL DEF Spec, ImplementsLifecycle, Lifecycle!Spec
=============================================================================
