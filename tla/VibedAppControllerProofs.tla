---------------------- MODULE VibedAppControllerProofs ----------------------
(***************************************************************************)
(* Proofs about VibedAppController, for every number of pods, sandboxes,   *)
(* sources, incarnations, generations, errors and restarts.                *)
(***************************************************************************)
EXTENDS VibedAppController, TLAPS

\* Every object that exists carries a real spec.
SpecsPresent ==
    /\ api.uid # 0 => api.spec \in Specs
    /\ cache.uid # 0 => cache.spec \in Specs
    /\ rec.pc # "idle" => rec.snap.uid # 0 /\ rec.snap.spec \in Specs

\* The inductive form of TypeOK.
TypeInv == TypeOK /\ SpecsPresent

\* The placeholder for a missing object, and a fresh status, have their types.
LEMMA AbsentTyped == Absent \in Objects /\ NewStatus \in Statuses /\ Absent.uid = 0
BY ConstantsAssumption DEF Absent, Objects, NewStatus, Statuses, NoSpec, Gens, Phases, Reasons

\* The idle worker has its type.
LEMMA IdleTyped == Idle \in Passes /\ Idle.pc = "idle"
BY AbsentTyped DEF Idle, Passes

\* The types hold in the initial state.
LEMMA TypeInit == Init => TypeInv
<1> SUFFICES ASSUME Init PROVE TypeInv
  OBVIOUS
<1> USE DEF Init
<1>1. TypeOK
  <2>1. api \in Objects /\ cache \in Objects /\ queued \in BOOLEAN
    BY AbsentTyped
  <2>2. rec \in Passes
    BY IdleTyped
  <2>3. tracker \in [Uids -> Entries \cup {None}] /\ zombies \subseteq Tokens
    OBVIOUS
  <2>4. agent \in [Pods -> Agents]
    BY DEF Agents
  <2>5. claim \in Claims
    BY ConstantsAssumption DEF NoClaim, Claims
  <2>7. claimGone \in BOOLEAN
    OBVIOUS
  <2>8. svc \in Services
    BY ConstantsAssumption DEF NoSvc, Services
  <2>9. worker \in Refs \cup {None} /\ tmpl \in Templates
    BY ConstantsAssumption
  <2>6. /\ meter \in [Uids -> Int] /\ leftReady \subseteq Uids
        /\ lastUid \in 0..MaxUid /\ faults \in 0..MaxFaults /\ crashes \in 0..MaxCrashes
    BY ConstantsAssumption
  <2> QED BY <2>1, <2>2, <2>3, <2>4, <2>5, <2>6, <2>7, <2>8, <2>9 DEF TypeOK
<1>2. SpecsPresent
  BY AbsentTyped, IdleTyped DEF Init, SpecsPresent
<1> QED BY <1>1, <1>2 DEF TypeInv

\* A spec edit within its bound stays within the generations.
LEMMA NextGen == ASSUME TypeOK, api.gen < MaxGen PROVE api.gen + 1 \in Gens
BY ConstantsAssumption DEF TypeOK, Objects, Gens

\* The updates the actions make to an object keep its type.
LEMMA ObjectUpdate ==
    ASSUME NEW o \in Objects, NEW s \in Specs, NEW g \in Gens, NEW d \in BOOLEAN, NEW st \in Statuses
    PROVE /\ [o EXCEPT !.spec = s, !.gen = g] \in Objects
          /\ [o EXCEPT !.deleting = d, !.gen = g] \in Objects
          /\ [o EXCEPT !.status = st] \in Objects
BY DEF Objects

\* A deleted app is one of the incarnations.
LEMMA VanishTyped == TypeOK /\ api.uid # 0 /\ Vanish => leftReady' \subseteq Uids /\ api' = Absent
<1>1. ASSUME TypeOK, api.uid # 0 PROVE api.uid \in Uids
  BY <1>1, ConstantsAssumption DEF TypeOK, Objects, Uids
<1> QED BY <1>1 DEF TypeOK, Vanish

\* Users keep the types.
LEMMA TypeUsers == TypeInv /\ Users => TypeInv'
<1> SUFFICES ASSUME TypeInv, Users PROVE TypeInv'
  OBVIOUS
<1> USE DEF TypeInv
<1>e. ASSUME NEW spec \in Specs, Edit(spec) PROVE TypeInv'
  <2> DEFINE g == api.gen + 1
  <2>0. g \in Gens
    BY <1>e, NextGen DEF Edit
  <2>1. api' = [api EXCEPT !.spec = spec, !.gen = g]
    BY <1>e DEF Edit
  <2> HIDE DEF g
  <2>2. api' \in Objects /\ api'.spec \in Specs
    BY <2>0, <2>1, ObjectUpdate DEF TypeOK, Objects
  <2> QED BY <2>2, <1>e DEF TypeOK, SpecsPresent, Edit, UserVars
<1>1. CASE CreateApp
  <2> DEFINE u == lastUid + 1
  <2>1. PICK r \in Refs, l \in Lanes :
          api' = [uid |-> u, gen |-> 1, deleting |-> FALSE,
                  spec |-> [ref |-> r, suspended |-> FALSE, lane |-> l], status |-> NewStatus]
    BY <1>1 DEF CreateApp
  <2>2. u \in 0..MaxUid
    BY <1>1, ConstantsAssumption DEF CreateApp, TypeOK
  <2>3. 1 \in Gens
    BY ConstantsAssumption DEF Gens
  <2> HIDE DEF u
  <2>4. api' \in Objects /\ api'.spec \in Specs
    BY <2>1, <2>2, <2>3, AbsentTyped DEF Objects, Specs
  <2>5. lastUid' \in 0..MaxUid
    BY <1>1, <2>2 DEF CreateApp, u
  <2> QED BY <2>4, <2>5, <1>1 DEF TypeOK, SpecsPresent, CreateApp, UserVars
<1>2. CASE Redeploy
  BY <1>2, <1>e DEF Redeploy, Specs
<1>3. CASE Rollback
  <2>1. PICK r \in Refs \ {api.spec.ref}, l \in Lanes : Edit([api.spec EXCEPT !.ref = r, !.lane = l])
    BY <1>3 DEF Rollback
  <2>2. [api.spec EXCEPT !.ref = r, !.lane = l] \in Specs
    BY <2>1 DEF Edit, SpecsPresent, Specs
  <2> QED BY <2>1, <2>2, <1>e
<1>4. CASE SetSuspended
  <2>1. [api.spec EXCEPT !.suspended = ~@] \in Specs
    BY <1>4 DEF SetSuspended, Edit, SpecsPresent, Specs
  <2> QED BY <2>1, <1>4, <1>e DEF SetSuspended
<1>5. CASE DeleteApp
  <2>1. leftReady' \subseteq Uids /\ api' = Absent
    BY <1>5, VanishTyped DEF DeleteApp
  <2> QED BY <1>5, <2>1, AbsentTyped DEF TypeOK, SpecsPresent, DeleteApp, UserVars
<1>6. CASE DeleteAppForeground
  <2> DEFINE g == api.gen + 1
  <2>0. g \in Gens
    BY <1>6, NextGen DEF DeleteAppForeground
  <2>1. api' = [api EXCEPT !.deleting = TRUE, !.gen = g]
    BY <1>6 DEF DeleteAppForeground
  <2> HIDE DEF g
  <2>2. api' \in Objects /\ api'.spec = api.spec /\ api'.uid = api.uid
    BY <2>0, <2>1 DEF TypeOK, Objects
  <2> QED BY <2>2, <1>6 DEF TypeOK, SpecsPresent, DeleteAppForeground, UserVars
<1> QED BY <1>1, <1>2, <1>3, <1>4, <1>5, <1>6 DEF Users

\* The informers keep the types.
LEMMA TypeInformers == TypeInv /\ Informers => TypeInv'
<1> SUFFICES ASSUME TypeInv, Informers PROVE TypeInv'
  OBVIOUS
<1> USE DEF TypeInv
<1>1. CASE SyncApp
  BY <1>1 DEF TypeOK, SpecsPresent, SyncApp
<1>2. CASE ClaimEvent
  BY <1>2 DEF TypeOK, SpecsPresent, ClaimEvent
<1> QED BY <1>1, <1>2 DEF Informers

\* What Patch leaves behind is a pass over a real object.
LEMMA PatchTyped ==
    ASSUME NEW obj \in Objects, obj.uid # 0, obj.spec \in Specs,
           NEW st \in Statuses, NEW b \in BOOLEAN, Patch(obj, st, b)
    PROVE rec' \in Passes /\ rec'.snap.uid # 0 /\ rec'.snap.spec \in Specs
BY DEF Patch, Passes

\* The updates Reconcile makes to a status keep its type.
LEMMA StatusUpdates ==
    ASSUME NEW st \in Statuses, NEW ph \in Phases, NEW re \in Reasons,
           NEW p \in Pods \cup {None}, NEW v \in {"true", "false"}
    PROVE /\ [st EXCEPT !.srcValid = v] \in Statuses
          /\ [st EXCEPT !.reason = re] \in Statuses
          /\ [st EXCEPT !.phase = ph] \in Statuses
          /\ [st EXCEPT !.phase = ph, !.reason = re] \in Statuses
          /\ [st EXCEPT !.srcValid = v, !.reason = re] \in Statuses
          /\ [st EXCEPT !.srcValid = v, !.phase = ph, !.reason = re] \in Statuses
          /\ [st EXCEPT !.pod = p, !.phase = ph, !.reason = re] \in Statuses
          /\ [st EXCEPT !.pod = p, !.route = FALSE, !.phase = ph, !.reason = re] \in Statuses
          /\ [st EXCEPT !.route = TRUE, !.url = TRUE, !.phase = ph, !.reason = re] \in Statuses
BY DEF Statuses

\* The phase and reason names the actions use are declared ones.
LEMMA NamesTyped ==
    /\ {"Claiming", "Starting", "Ready", "Suspended", "Failed"} \subseteq Phases
    /\ {"SpecInvalid", "Claiming", "ClaimFailed", "TemplateInvalid", "TemplateMissing",
        "Starting", "AgentUnreachable", "Injecting", "InjectFailed", "ServiceFailed",
        "Running", "Suspended"} \subseteq Reasons
BY DEF Phases, Reasons

\* The count of errors stays within its bound.
LEMMA FaultTyped == TypeOK /\ (Fault \/ NoFault) => faults' \in 0..MaxFaults
BY ConstantsAssumption DEF TypeOK, Fault, NoFault

\* forget keeps the tracker and the abandoned requests typed.
LEMMA ForgetTyped == ASSUME TypeOK, NEW u \in Uids, forget(u)
                     PROVE tracker' \in [Uids -> Entries \cup {None}] /\ zombies' \subseteq Tokens
BY ConstantsAssumption DEF TypeOK, forget, Queued, Entries

\* Freeing a pod keeps the agents typed.
LEMMA FreeTyped == ASSUME TypeOK, NEW q PROVE FreePod(q) \in [Pods -> Agents]
<1>1. agent \in [Pods -> Agents]
  BY DEF TypeOK
<1>2. ASSUME NEW a \in Agents PROVE [a EXCEPT !.life = "free", !.src = None] \in Agents
  BY DEF Agents
<1>3. FreePod(q) = [p \in Pods |-> IF p = q THEN [agent[p] EXCEPT !.life = "free", !.src = None]
                                           ELSE agent[p]]
  BY <1>1 DEF FreePod
<1> QED BY <1>1, <1>2, <1>3

\* Freeing the pod of a released claim keeps the agents typed.
LEMMA ReleasedTyped == TypeOK => ReleasedAgents \in [Pods -> Agents]
BY FreeTyped DEF ReleasedAgents, TypeOK

\* Releasing either lane's compute keeps the types.
LEMMA ReleaseTyped ==
    TypeOK /\ (ReleaseClaim \/ FastLaneRemove) =>
        /\ claim' \in Claims /\ agent' \in [Pods -> Agents]
        /\ claimGone' \in BOOLEAN /\ worker' \in Refs \cup {None}
<1> SUFFICES ASSUME TypeOK, ReleaseClaim \/ FastLaneRemove
             PROVE /\ claim' \in Claims /\ agent' \in [Pods -> Agents]
                   /\ claimGone' \in BOOLEAN /\ worker' \in Refs \cup {None}
  OBVIOUS
<1>0. NoClaim \in Claims
  BY ConstantsAssumption DEF NoClaim, Claims
<1>1. CASE ReleaseClaim
  BY <1>1, <1>0, ReleasedTyped DEF TypeOK, ReleaseClaim
<1>2. CASE FastLaneRemove
  BY <1>2 DEF TypeOK, FastLaneRemove
<1> QED BY <1>1, <1>2

\* A cached object that exists has a real UID and spec.
LEMMA CacheUid == TypeInv /\ cache.uid # 0 => cache.uid \in Uids /\ cache.spec \in Specs
BY ConstantsAssumption DEF TypeInv, TypeOK, SpecsPresent, Objects, Uids

\* EnsureClaim keeps the claim typed.
LEMMA CreateTyped == TypeInv /\ cache.uid # 0 /\ CreateMissingClaim => claim' \in Claims
BY ConstantsAssumption, CacheUid DEF TypeInv, TypeOK, CreateMissingClaim, NoClaim, Claims, Objects

\* The status Reconcile starts from has its type.
LEMMA CheckedTyped == TypeOK => Checked \in Statuses /\ cache.status \in Statuses /\ cache \in Objects
BY DEF TypeOK, Checked, Objects, Statuses

\* A pass that begins leaves the variables of the other actors alone.
LEMMA BeginTyped ==
    ASSUME TypeInv, Begin,
           rec' \in Passes, rec'.pc # "idle" => rec'.snap.uid # 0 /\ rec'.snap.spec \in Specs,
           tracker' \in [Uids -> Entries \cup {None}], zombies' \subseteq Tokens,
           agent' \in [Pods -> Agents], claim' \in Claims, claimGone' \in BOOLEAN,
           svc' \in Services, worker' \in Refs \cup {None}, faults' \in 0..MaxFaults
    PROVE TypeInv'
BY DEF TypeInv, TypeOK, SpecsPresent, Begin

\* The passes that change no object but the app's status keep the types.
LEMMA TypeReconcileSteady ==
    ASSUME TypeInv, ReconcileNothing \/ ReconcileDeleting \/ ReconcileInvalid
                    \/ ReconcileRestore \/ ReconcilePending
    PROVE TypeInv'
<1> USE NamesTyped
<1>1. CASE ReconcileNothing
  <2>1. rec' \in Passes /\ rec'.pc = "idle"
    BY <1>1, IdleTyped DEF ReconcileNothing, Return
  <2> QED BY <2>1, <1>1, BeginTyped, FaultTyped DEF ReconcileNothing, TypeInv, TypeOK
<1>2. CASE ReconcileDeleting
  <2>1. rec' \in Passes /\ rec'.pc = "idle"
    BY <1>2, IdleTyped DEF ReconcileDeleting, Return
  <2>2. tracker' \in [Uids -> Entries \cup {None}] /\ zombies' \subseteq Tokens
    BY <1>2, ForgetTyped, CacheUid DEF ReconcileDeleting, TypeInv
  <2> QED BY <2>1, <2>2, <1>2, BeginTyped, FaultTyped DEF ReconcileDeleting, TypeInv, TypeOK
<1>3. CASE ReconcileInvalid
  <2> DEFINE st == [cache.status EXCEPT !.srcValid = "false", !.phase = "Failed", !.reason = "SpecInvalid"]
  <2>1. st \in Statuses
    BY CheckedTyped, StatusUpdates DEF TypeInv
  <2>2. Patch(cache, st, FALSE) /\ cache.uid # 0
    BY <1>3 DEF ReconcileInvalid, Live
  <2> HIDE DEF st
  <2>3. rec' \in Passes /\ rec'.snap.uid # 0 /\ rec'.snap.spec \in Specs
    BY <2>1, <2>2, PatchTyped, CacheUid, CheckedTyped DEF TypeInv
  <2> QED BY <2>3, <1>3, BeginTyped, FaultTyped DEF ReconcileInvalid, TypeInv, TypeOK
<1>4. CASE ReconcileRestore
  <2> DEFINE st == [Checked EXCEPT !.phase = "Claiming", !.reason = "Claiming"]
  <2>1. st \in Statuses
    BY CheckedTyped, StatusUpdates DEF TypeInv
  <2>2. Patch(cache, st, TRUE) /\ cache.uid # 0
    BY <1>4 DEF ReconcileRestore, Valid, Live
  <2> HIDE DEF st
  <2>3. rec' \in Passes /\ rec'.snap.uid # 0 /\ rec'.snap.spec \in Specs
    BY <2>1, <2>2, PatchTyped, CacheUid, CheckedTyped DEF TypeInv
  <2> QED BY <2>3, <1>4, BeginTyped, FaultTyped DEF ReconcileRestore, TypeInv, TypeOK
<1>5. CASE ReconcilePending
  <2> DEFINE st == [Checked EXCEPT !.phase = "Claiming", !.reason = "Claiming"]
  <2>1. st \in Statuses
    BY CheckedTyped, StatusUpdates DEF TypeInv
  <2>2. Patch(cache, st, TRUE) /\ cache.uid # 0
    BY <1>5 DEF ReconcilePending, GeneralLane, Awake, Valid, Live
  <2> HIDE DEF st
  <2>3. rec' \in Passes /\ rec'.snap.uid # 0 /\ rec'.snap.spec \in Specs
    BY <2>1, <2>2, PatchTyped, CacheUid, CheckedTyped DEF TypeInv
  <2> QED BY <2>3, <1>5, BeginTyped, FaultTyped DEF ReconcilePending, TypeInv, TypeOK
<1> QED BY <1>1, <1>2, <1>3, <1>4, <1>5

\* What the pass read has a token of its own once it knows its pod.
LEMMA TokenTyped ==
    ASSUME NEW obj \in Objects, obj.spec \in Specs, obj.status.pod # None
    PROVE injectToken(obj) \in Tokens
BY DEF injectToken, Tokens, Objects, Specs, Statuses

\* A launched attempt is a well-formed entry; what it displaces is a token.
LEMMA LaunchTyped ==
    ASSUME TypeInv, cache.uid # 0, cache.status.pod # None, launch
    PROVE tracker' \in [Uids -> Entries \cup {None}] /\ zombies' \subseteq Tokens
<1> DEFINE e == [tok |-> injectToken(cache), st |-> "run"]
<1>1. e \in Entries
  BY TokenTyped, CacheUid DEF TypeInv, TypeOK, Entries, AttemptStates
<1>2. cache.uid \in Uids
  BY CacheUid
<1>3. tracker' = [tracker EXCEPT ![cache.uid] = e]
  BY DEF launch
<1> HIDE DEF e
<1>4. tracker' \in [Uids -> Entries \cup {None}]
  BY <1>1, <1>2, <1>3 DEF TypeInv, TypeOK
<1>5. zombies' \subseteq Tokens
  BY <1>2 DEF launch, TypeInv, TypeOK, Queued, Entries
<1> QED BY <1>4, <1>5

\* Consuming a result leaves a typed pass, tracker, Service and fault count.
LEMMA ConsumeTyped ==
    ASSUME TypeInv, NEW obj \in Objects, obj.uid # 0, obj.spec \in Specs, Consume(obj)
    PROVE /\ rec' \in Passes /\ rec'.snap.uid # 0 /\ rec'.snap.spec \in Specs
          /\ tracker' \in [Uids -> Entries \cup {None}]
          /\ svc' \in Services /\ faults' \in 0..MaxFaults
<1> USE NamesTyped
<1> DEFINE st == [obj.status EXCEPT !.srcValid = "true"]
<1>1. st \in Statuses
  BY StatusUpdates DEF Objects
<1>2. PICK s \in Statuses, b \in BOOLEAN : Patch(obj, s, b)
  <2>1. /\ [st EXCEPT !.reason = "InjectFailed"] \in Statuses
        /\ [st EXCEPT !.reason = "Starting"] \in Statuses
        /\ [st EXCEPT !.reason = "ServiceFailed"] \in Statuses
        /\ [st EXCEPT !.route = TRUE, !.url = TRUE, !.phase = "Ready", !.reason = "Running"] \in Statuses
    BY <1>1, StatusUpdates
  <2> QED BY <2>1 DEF Consume
<1>3. tracker' \in [Uids -> Entries \cup {None}]
  BY DEF Consume, TypeInv, TypeOK
<1>4. obj.uid \in 0..MaxUid
  BY DEF Objects
<1>5. svc' \in Services
  <2>1. UNCHANGED svc \/ EnsureService(obj.uid)
    BY DEF Consume
  <2>2. ASSUME EnsureService(obj.uid) PROVE svc' \in Services
    BY <1>4, <2>2 DEF EnsureService, TypeInv, TypeOK, Services, Claims
  <2> QED BY <2>1, <2>2 DEF TypeInv, TypeOK
<1>6. faults' \in 0..MaxFaults
  BY FaultTyped DEF Consume, TypeInv
<1> QED BY <1>2, <1>3, <1>5, <1>6, PatchTyped

\* The passes that touch claims, workers or the tracker keep the types.
LEMMA TypeReconcileActive ==
    ASSUME TypeInv, ReconcileSuspend \/ ReconcileFastLane \/ ReconcileClaiming
                    \/ ReconcileStarting \/ ReconcileReady
    PROVE TypeInv'
<1> USE NamesTyped
<1>0. /\ Checked \in Statuses /\ cache \in Objects
      /\ cache.uid # 0 => cache.uid \in Uids /\ cache.spec \in Specs
  BY CheckedTyped, CacheUid DEF TypeInv
<1>p. ASSUME NEW s \in Statuses, NEW b \in BOOLEAN, Patch(cache, s, b), cache.uid # 0
      PROVE rec' \in Passes /\ rec'.snap.uid # 0 /\ rec'.snap.spec \in Specs
  BY <1>0, <1>p, PatchTyped
<1>s. ASSUME NEW ph \in Phases, NEW re \in Reasons, NEW p \in Pods \cup {None}
      PROVE /\ [Checked EXCEPT !.reason = re] \in Statuses
            /\ [Checked EXCEPT !.phase = ph] \in Statuses
            /\ [Checked EXCEPT !.phase = ph, !.reason = re] \in Statuses
            /\ [Checked EXCEPT !.pod = p, !.phase = ph, !.reason = re] \in Statuses
            /\ [Checked EXCEPT !.pod = p, !.route = FALSE, !.phase = ph, !.reason = re] \in Statuses
            /\ [Checked EXCEPT !.route = TRUE, !.url = TRUE, !.phase = ph, !.reason = re] \in Statuses
  BY <1>0, StatusUpdates
<1>1. CASE ReconcileSuspend
  <2>1. cache.uid # 0
    BY <1>1 DEF ReconcileSuspend, Valid, Live
  <2>2. PICK s \in Statuses, b \in BOOLEAN : Patch(cache, s, b)
    BY <1>1, <1>s DEF ReconcileSuspend
  <2>3. rec' \in Passes /\ rec'.snap.uid # 0 /\ rec'.snap.spec \in Specs
    BY <2>1, <2>2, <1>p
  <2>4. tracker' \in [Uids -> Entries \cup {None}] /\ zombies' \subseteq Tokens
    <3>1. forget(cache.uid) \/ UNCHANGED <<tracker, zombies>>
      BY <1>1 DEF ReconcileSuspend
    <3> QED BY <3>1, <1>0, <2>1, ForgetTyped DEF TypeInv, TypeOK
  <2>5. /\ claim' \in Claims /\ agent' \in [Pods -> Agents]
        /\ claimGone' \in BOOLEAN /\ worker' \in Refs \cup {None}
    <3>1. \/ UNCHANGED <<claim, agent, claimGone, worker>>
          \/ ReleaseClaim \/ FastLaneRemove
      BY <1>1 DEF ReconcileSuspend, ReleaseCompute
    <3>2. CASE UNCHANGED <<claim, agent, claimGone, worker>>
      BY <3>2 DEF TypeInv, TypeOK
    <3>3. CASE ReleaseClaim \/ FastLaneRemove
      BY <3>3, ReleaseTyped DEF TypeInv
    <3> QED BY <3>1, <3>2, <3>3
  <2>6. faults' \in 0..MaxFaults
    BY <1>1, FaultTyped DEF ReconcileSuspend, TypeInv
  <2>7. svc' \in Services /\ Begin
    BY <1>1 DEF ReconcileSuspend, TypeInv, TypeOK
  <2> QED BY <2>3, <2>4, <2>5, <2>6, <2>7, BeginTyped
<1>2. CASE ReconcileFastLane
  <2>1. cache.uid # 0
    BY <1>2 DEF ReconcileFastLane, Awake, Valid, Live
  <2>2. PICK s \in Statuses, b \in BOOLEAN : Patch(cache, s, b)
    BY <1>2, <1>s DEF ReconcileFastLane
  <2>3. rec' \in Passes /\ rec'.snap.uid # 0 /\ rec'.snap.spec \in Specs
    BY <2>1, <2>2, <1>p
  <2>4. worker' \in Refs \cup {None}
    BY <1>2, <1>0, <2>1 DEF ReconcileFastLane, LoadWorker, TypeInv, TypeOK, Specs
  <2>5. faults' \in 0..MaxFaults
    BY <1>2, FaultTyped DEF ReconcileFastLane, TypeInv
  <2> QED BY <2>3, <2>4, <2>5, <1>2, BeginTyped DEF ReconcileFastLane, TypeInv, TypeOK
<1>3. CASE ReconcileClaiming
  <2>1. cache.uid # 0
    BY <1>3 DEF ReconcileClaiming, GeneralLane, Awake, Valid, Live
  <2>2. PICK s \in Statuses, b \in BOOLEAN : Patch(cache, s, b)
    <3>1. claim.pod \in Pods \cup {None}
      BY DEF TypeInv, TypeOK, Claims
    <3> QED BY <1>3, <1>s, <3>1 DEF ReconcileClaiming
  <2>3. rec' \in Passes /\ rec'.snap.uid # 0 /\ rec'.snap.spec \in Specs
    BY <2>1, <2>2, <1>p
  <2>4. claim' \in Claims
    BY <1>3, <2>1, CreateTyped DEF ReconcileClaiming, TypeInv, TypeOK
  <2>5. faults' \in 0..MaxFaults
    BY <1>3, FaultTyped DEF ReconcileClaiming, TypeInv
  <2> QED BY <2>3, <2>4, <2>5, <1>3, BeginTyped DEF ReconcileClaiming, TypeInv, TypeOK
<1>5. CASE ReconcileReady
  <2>1. cache.uid # 0
    BY <1>5 DEF ReconcileReady, GeneralLane, Awake, Valid, Live
  <2>2. rec' = Idle \/ \E s \in Statuses, b \in BOOLEAN : Patch(cache, s, b)
    <3>1. claim.pod \in Pods \cup {None}
      BY DEF TypeInv, TypeOK, Claims
    <3> QED BY <1>5, <1>s, <3>1 DEF ReconcileReady, Return
  <2>3. rec' \in Passes /\ (rec'.pc # "idle" => rec'.snap.uid # 0 /\ rec'.snap.spec \in Specs)
    BY <2>1, <2>2, <1>p, IdleTyped
  <2>4. claim' \in Claims
    BY <1>5, <2>1, CreateTyped DEF ReconcileReady, TypeInv, TypeOK
  <2>5. faults' \in 0..MaxFaults
    BY <1>5, FaultTyped DEF ReconcileReady, TypeInv
  <2> QED BY <2>3, <2>4, <2>5, <1>5, BeginTyped DEF ReconcileReady, TypeInv, TypeOK
<1>4. CASE ReconcileStarting
  <2>1. cache.uid # 0 /\ Begin
    BY <1>4 DEF ReconcileStarting, GeneralLane, Awake, Valid, Live
  <2>u. /\ agent' \in [Pods -> Agents] /\ claim' \in Claims /\ claimGone' \in BOOLEAN
        /\ worker' \in Refs \cup {None}
    BY <1>4 DEF ReconcileStarting, TypeInv, TypeOK
  <2>2. CASE \* no pod in the status
             /\ NoFault /\ forget(cache.uid) /\ UNCHANGED svc
             /\ Patch(cache, [Checked EXCEPT !.phase = "Claiming"], TRUE)
    <3>1. rec' \in Passes /\ rec'.snap.uid # 0 /\ rec'.snap.spec \in Specs
      BY <2>1, <2>2, <1>p, <1>s
    <3>2. tracker' \in [Uids -> Entries \cup {None}] /\ zombies' \subseteq Tokens
      BY <1>0, <2>1, <2>2, ForgetTyped DEF TypeInv
    <3> QED BY <3>1, <3>2, <2>1, <2>u, <2>2, FaultTyped, BeginTyped DEF TypeInv, TypeOK
  <2>3. CASE \* unreachable, or still injecting
             /\ Fault \/ NoFault
             /\ UNCHANGED <<tracker, zombies, svc>>
             /\ \/ Patch(cache, [Checked EXCEPT !.reason = "AgentUnreachable"], TRUE)
                \/ Patch(cache, [Checked EXCEPT !.reason = "Injecting"], TRUE)
    <3>1. rec' \in Passes /\ rec'.snap.uid # 0 /\ rec'.snap.spec \in Specs
      BY <2>1, <2>3, <1>p, <1>s
    <3> QED BY <3>1, <2>1, <2>u, <2>3, FaultTyped, BeginTyped DEF TypeInv, TypeOK
  <2>4. CASE \* launched
             /\ cache.status.pod # None /\ NoFault /\ launch
             /\ rec' = [Idle EXCEPT !.pc = "wait", !.snap = cache] /\ UNCHANGED svc
    <3>1. rec' \in Passes /\ rec'.snap.uid # 0 /\ rec'.snap.spec \in Specs
      BY <2>1, <2>4, <1>0, IdleTyped DEF Passes
    <3>2. tracker' \in [Uids -> Entries \cup {None}] /\ zombies' \subseteq Tokens
      BY <2>1, <2>4, LaunchTyped
    <3> QED BY <3>1, <3>2, <2>1, <2>u, <2>4, FaultTyped, BeginTyped DEF TypeInv, TypeOK
  <2>5. CASE Consume(cache) /\ UNCHANGED zombies
    <3>1. /\ rec' \in Passes /\ rec'.snap.uid # 0 /\ rec'.snap.spec \in Specs
          /\ tracker' \in [Uids -> Entries \cup {None}]
          /\ svc' \in Services /\ faults' \in 0..MaxFaults
      BY <2>1, <2>5, <1>0, ConsumeTyped
    <3> QED BY <3>1, <2>1, <2>u, <2>5, BeginTyped DEF TypeInv, TypeOK
  <2> QED BY <1>4, <2>2, <2>3, <2>4, <2>5 DEF ReconcileStarting
<1> QED BY <1>1, <1>2, <1>3, <1>4, <1>5

\* The grace window and the status write keep the types.
LEMMA TypeWrite ==
    ASSUME TypeInv, GraceDone \/ GraceElapsed \/ WriteStatus \/ SkipStatus
                    \/ FailStatus \/ EmitLifecycle
    PROVE TypeInv'
<1> USE NamesTyped
<1>0. rec.snap \in Objects /\ rec.st \in Statuses
  BY DEF TypeInv, TypeOK, Passes
<1>1. CASE GraceDone
  <2>1. rec.snap.uid # 0 /\ rec.snap.spec \in Specs /\ Consume(rec.snap)
    BY <1>1 DEF GraceDone, TypeInv, SpecsPresent
  <2>2. /\ rec' \in Passes /\ rec'.snap.uid # 0 /\ rec'.snap.spec \in Specs
        /\ tracker' \in [Uids -> Entries \cup {None}]
        /\ svc' \in Services /\ faults' \in 0..MaxFaults
    BY <1>0, <2>1, ConsumeTyped
  <2> QED BY <2>2, <1>1 DEF GraceDone, TypeInv, TypeOK, SpecsPresent
<1>2. CASE GraceElapsed
  <2> DEFINE st == [rec.snap.status EXCEPT !.srcValid = "true", !.reason = "Injecting"]
  <2>1. st \in Statuses
    BY <1>0, StatusUpdates DEF Objects
  <2>2. rec.snap.uid # 0 /\ rec.snap.spec \in Specs /\ Patch(rec.snap, st, TRUE)
    BY <1>2 DEF GraceElapsed, TypeInv, SpecsPresent
  <2> HIDE DEF st
  <2>3. rec' \in Passes /\ rec'.snap.uid # 0 /\ rec'.snap.spec \in Specs
    BY <1>0, <2>1, <2>2, PatchTyped
  <2> QED BY <2>3, <1>2 DEF GraceElapsed, TypeInv, TypeOK, SpecsPresent
<1>3. CASE WriteStatus
  <2>1. api' \in Objects /\ api'.spec = api.spec /\ api'.uid = api.uid
    BY <1>0, <1>3 DEF WriteStatus, TypeInv, TypeOK, Objects
  <2>2. rec' \in Passes /\ (rec'.pc # "idle" => rec'.snap = rec.snap /\ rec.pc # "idle")
    BY <1>3, IdleTyped DEF WriteStatus, TypeInv, TypeOK, Passes
  <2>3. queued' \in BOOLEAN
    BY <1>3 DEF WriteStatus, TypeInv, TypeOK, Passes
  <2> QED BY <2>1, <2>2, <2>3, <1>3 DEF WriteStatus, WriteVars, TypeInv, TypeOK, SpecsPresent
<1>4. CASE SkipStatus
  BY <1>4, IdleTyped DEF SkipStatus, WriteVars, TypeInv, TypeOK, SpecsPresent
<1>5. CASE FailStatus
  <2>1. faults' \in 0..MaxFaults
    BY <1>5, FaultTyped DEF FailStatus, RejectedWrite, TypeInv
  <2>2. api' \in Objects /\ api'.spec = api.spec /\ api'.uid = api.uid
    BY <1>0, <1>5 DEF FailStatus, RejectedWrite, TypeInv, TypeOK, Objects
  <2> QED BY <2>1, <2>2, <1>5, IdleTyped DEF FailStatus, WriteVars, TypeInv, TypeOK, SpecsPresent
<1>6. CASE EmitLifecycle
  <2>1. meter' \in [Uids -> Int]
    <3> DEFINE m == IF rec.st.phase = "Ready" THEN meter[rec.snap.uid] + 1 ELSE meter[rec.snap.uid] - 1
    <3>1. rec.snap.uid \in Uids
      BY <1>0, <1>6, ConstantsAssumption DEF EmitLifecycle, TypeInv, SpecsPresent, Objects, Uids
    <3>2. m \in Int
      BY <3>1 DEF TypeInv, TypeOK
    <3>3. meter' = [meter EXCEPT ![rec.snap.uid] = m]
      BY <1>6 DEF EmitLifecycle
    <3> HIDE DEF m
    <3> QED BY <3>2, <3>3 DEF TypeInv, TypeOK
  <2> QED BY <2>1, <1>6, IdleTyped DEF EmitLifecycle, TypeInv, TypeOK, SpecsPresent
<1> QED BY <1>1, <1>2, <1>3, <1>4, <1>5, <1>6

\* Attempts, evictions and abandoned injects keep the types.
LEMMA TypeAttempts ==
    ASSUME TypeInv, \/ Attempts
                    \/ \E u \in Uids : EvictExpired(u)
                    \/ \E tok \in zombies : ZombieEnds(tok)
    PROVE TypeInv'
<1>e. ASSUME NEW u \in Uids, tracker[u] # None
      PROVE /\ tracker[u] \in Entries /\ tracker[u].tok \in Tokens
            /\ \A st \in AttemptStates : [tracker EXCEPT ![u].st = st] \in [Uids -> Entries \cup {None}]
  <2>1. tracker[u] \in Entries
    BY <1>e DEF TypeInv, TypeOK
  <2>2. \A st \in AttemptStates : [tracker[u] EXCEPT !.st = st] \in Entries
    BY <2>1 DEF Entries
  <2>3. \A st \in AttemptStates : [tracker EXCEPT ![u].st = st] \in [Uids -> Entries \cup {None}]
    BY <2>2 DEF TypeInv, TypeOK
  <2> QED BY <2>1, <2>3 DEF Entries
<1>1. ASSUME NEW u \in Uids, AttemptApply(u) PROVE TypeInv'
  <2>1. tracker[u] # None /\ tracker[u].tok \in Tokens
    BY <1>1, <1>e DEF AttemptApply, Queued
  <2> DEFINE t == tracker[u].tok
  <2>2. <<u, t.gen, t.ref>> \in Uids \X Gens \X Refs /\ t.ref \in Refs
    BY <2>1 DEF Tokens
  <2>3. agent' \in [Pods -> Agents]
    BY ZenonT(40), <1>1, <2>2 DEF AttemptApply, Apply, TypeInv, TypeOK, Agents
  <2>4. tracker' \in [Uids -> Entries \cup {None}]
    BY <1>1, <2>1, <1>e DEF AttemptApply, AttemptStates
  <2> QED BY <1>1, <2>3, <2>4 DEF AttemptApply, AttemptVars, TypeInv, TypeOK, SpecsPresent
<1>2. ASSUME NEW u \in Uids, AttemptRecord(u) PROVE TypeInv'
  <2>1. tracker' \in [Uids -> Entries \cup {None}]
    BY <1>2, <1>e DEF AttemptRecord, InFlight, AttemptStates
  <2>2. faults' \in 0..MaxFaults
    BY <1>2, FaultTyped DEF AttemptRecord, TypeInv
  <2> QED BY <1>2, <2>1, <2>2 DEF AttemptRecord, AttemptVars, TypeInv, TypeOK, SpecsPresent
<1>3. ASSUME NEW u \in Uids, AttemptFail(u) PROVE TypeInv'
  <2>1. tracker' \in [Uids -> Entries \cup {None}]
    BY <1>3, <1>e DEF AttemptFail, InFlight, AttemptStates
  <2>2. faults' \in 0..MaxFaults
    BY <1>3, FaultTyped DEF AttemptFail, TypeInv
  <2>3. zombies' \subseteq Tokens
    BY <1>3, <1>e DEF AttemptFail, InFlight, TypeInv, TypeOK
  <2> QED BY <1>3, <2>1, <2>2, <2>3 DEF AttemptFail, AttemptVars, TypeInv, TypeOK, SpecsPresent
<1>4. ASSUME NEW u \in Uids, EvictExpired(u) PROVE TypeInv'
  BY <1>4 DEF EvictExpired, AttemptVars, TypeInv, TypeOK, SpecsPresent
<1>5. ASSUME NEW tok \in zombies, ZombieEnds(tok) PROVE TypeInv'
  <2>1. tok \in Tokens /\ zombies' \subseteq Tokens
    BY <1>5 DEF ZombieEnds, TypeInv, TypeOK
  <2>2. agent' \in [Pods -> Agents]
    BY <1>5, <2>1 DEF ZombieEnds, TypeInv, TypeOK, Agents, Tokens
  <2> QED BY <1>5, <2>1, <2>2 DEF ZombieEnds, AttemptVars, TypeInv, TypeOK, SpecsPresent
<1> QED BY <1>1, <1>2, <1>3, <1>4, <1>5 DEF Attempts

\* agent-sandbox, Kubernetes, operators and restarts keep the types.
LEMMA TypeWorld == ASSUME TypeInv, Cluster \/ Environment PROVE TypeInv'
<1>b. Boot \in Agents
  BY DEF Boot, Agents
<1>n. NoClaim \in Claims /\ NoSvc \in Services
  BY ConstantsAssumption DEF NoClaim, Claims, NoSvc, Services
<1>1. CASE BindClaim
  <2>1. PICK p \in Pods, s \in Sandboxes \ {svc.sb} :
            /\ claim' = [claim EXCEPT !.pod = p, !.sb = s]
            /\ agent' = [agent EXCEPT ![p] = Boot]
    BY <1>1 DEF BindClaim
  <2>2. claim' \in Claims
    BY <2>1 DEF TypeInv, TypeOK, Claims
  <2>3. agent' \in [Pods -> Agents]
    BY <2>1, <1>b DEF TypeInv, TypeOK
  <2> QED BY <1>1, <2>2, <2>3 DEF BindClaim, EnvVars, TypeInv, TypeOK, SpecsPresent
<1>2. CASE PodUp
  <2>1. agent' \in [Pods -> Agents]
    BY <1>2 DEF PodUp, TypeInv, TypeOK, Agents
  <2> QED BY <1>2, <2>1 DEF PodUp, EnvVars, TypeInv, TypeOK, SpecsPresent
<1>3. CASE CollectClaim
  <2>1. agent' \in [Pods -> Agents]
    BY <1>3, ReleasedTyped DEF CollectClaim, TypeInv
  <2> QED BY <1>3, <1>n, <2>1 DEF CollectClaim, EnvVars, TypeInv, TypeOK, SpecsPresent
<1>4. CASE CollectService
  BY <1>4, <1>n DEF CollectService, EnvVars, TypeInv, TypeOK, SpecsPresent
<1>5. CASE FinishDelete
  <2>1. leftReady' \subseteq Uids /\ api' = Absent
    BY <1>5, VanishTyped DEF FinishDelete, TypeInv
  <2> QED BY <1>5, <2>1, AbsentTyped DEF FinishDelete, EnvVars, TypeInv, TypeOK, SpecsPresent
<1>6. CASE ReplacePod
  <2>1. PICK p \in Pods : /\ claim' = [claim EXCEPT !.pod = p]
                          /\ agent' = [FreePod(claim.pod) EXCEPT ![p] = Boot]
    BY <1>6 DEF ReplacePod
  <2>2. claim' \in Claims
    BY <2>1 DEF TypeInv, TypeOK, Claims
  <2>3. FreePod(claim.pod) \in [Pods -> Agents]
    BY FreeTyped DEF TypeInv
  <2>4. agent' \in [Pods -> Agents]
    BY <2>1, <2>3, <1>b
  <2> QED BY <1>6, <2>2, <2>4 DEF ReplacePod, EnvVars, TypeInv, TypeOK, SpecsPresent
<1>7. CASE ChangeTemplate
  BY <1>7 DEF ChangeTemplate, EnvVars, TypeInv, TypeOK, SpecsPresent
<1>8. CASE Crash
  <2>1. crashes' \in 0..MaxCrashes
    BY <1>8, ConstantsAssumption DEF Crash, TypeInv, TypeOK
  <2>2. zombies' \subseteq Tokens
    <3>1. \A u \in Uids : Queued(u) => tracker[u].tok \in Tokens
      BY DEF Queued, TypeInv, TypeOK, Entries
    <3> QED BY <1>8, <3>1 DEF Crash, TypeInv, TypeOK
  <2>3. tracker' \in [Uids -> Entries \cup {None}]
    BY <1>8 DEF Crash
  <2> QED BY <1>8, <2>1, <2>2, <2>3, IdleTyped DEF Crash, TypeInv, TypeOK, SpecsPresent
<1> QED BY <1>1, <1>2, <1>3, <1>4, <1>5, <1>6, <1>7, <1>8 DEF Cluster, Environment

\* TypeInv is inductive.
LEMMA TypeStep == TypeInv /\ [Next]_vars => TypeInv'
<1> SUFFICES ASSUME TypeInv, [Next]_vars PROVE TypeInv'
  OBVIOUS
<1>1. CASE Users
  BY <1>1, TypeUsers
<1>2. CASE Informers
  BY <1>2, TypeInformers
<1>3. CASE Worker
  BY <1>3, TypeReconcileSteady, TypeReconcileActive, TypeWrite DEF Worker
<1>4. CASE Attempts \/ (\E u \in Uids : EvictExpired(u)) \/ (\E tok \in zombies : ZombieEnds(tok))
  BY <1>4, TypeAttempts
<1>5. CASE Cluster \/ Environment
  BY <1>5, TypeWorld
<1>6. CASE UNCHANGED vars
  BY <1>6 DEF vars, TypeInv, TypeOK, SpecsPresent
<1> QED BY <1>1, <1>2, <1>3, <1>4, <1>5, <1>6 DEF Next

\* The variables of the reconciler keep their types for every number of pods,
\* sources, incarnations, edits, faults and restarts.
THEOREM TypeCorrect == Spec => []TypeOK
<1>1. Init => TypeInv
  BY TypeInit
<1>2. TypeInv /\ [Next]_vars => TypeInv'
  BY TypeStep
<1>3. TypeInv => TypeOK
  BY DEF TypeInv
<1> QED BY <1>1, <1>2, <1>3, PTL DEF Spec

\* Every object a pass works on carries a real spec.
LEMMA TypeAlways == Spec => []TypeInv
BY TypeInit, TypeStep, PTL DEF Spec

-----------------------------------------------------------------------------
(* StatusConsistent: the status the API server holds was computed by some  *)
(* pass from a cached copy, so the claim has to hold of every copy.        *)

Consistent(st) ==
    /\ st.phase = "Starting" => st.pod # None
    /\ st.phase = "Ready" => st.route /\ st.url
    /\ st.phase = "Suspended" => st.pod = None /\ ~st.route
    /\ st.reason = "Running" => st.phase = "Ready"

StatusInv ==
    /\ Consistent(api.status) /\ Consistent(cache.status)
    /\ Consistent(rec.snap.status) /\ Consistent(rec.st)

\* The statuses of objects nobody has reconciled.
LEMMA FreshConsistent ==
    /\ Consistent(NewStatus) /\ Consistent(Absent.status)
    /\ Consistent(Idle.snap.status) /\ Consistent(Idle.st)
BY DEF Consistent, NewStatus, Absent, Idle

\* The updates passes make to a consistent status.
LEMMA ConsistentUpdates ==
    ASSUME NEW st \in Statuses, Consistent(st),
           NEW p \in Pods, NEW re \in Reasons \ {"Running"},
           NEW ph \in {"Claiming", "Failed"}, NEW v \in {"true", "false"}
    PROVE /\ Consistent([st EXCEPT !.srcValid = v])
          /\ Consistent([st EXCEPT !.reason = re])
          /\ Consistent([st EXCEPT !.phase = ph, !.reason = re])
          /\ Consistent([st EXCEPT !.srcValid = v, !.reason = re])
          /\ Consistent([st EXCEPT !.srcValid = v, !.phase = ph, !.reason = re])
          /\ Consistent([st EXCEPT !.pod = p, !.phase = "Starting", !.reason = re])
          /\ Consistent([st EXCEPT !.pod = None, !.route = FALSE, !.phase = "Suspended", !.reason = re])
          /\ Consistent([st EXCEPT !.route = TRUE, !.url = TRUE, !.phase = "Ready", !.reason = "Running"])
BY ConstantsAssumption DEF Consistent, Statuses

\* A pass only ever plans a consistent status for the object it read.
LEMMA PatchConsistent ==
    ASSUME NEW obj, NEW st, NEW b, Patch(obj, st, b), Consistent(obj.status), Consistent(st)
    PROVE Consistent(rec'.snap.status) /\ Consistent(rec'.st)
BY DEF Patch

\* Consuming an inject result plans a consistent status.
LEMMA ConsumeConsistent ==
    ASSUME NEW obj \in Objects, Consistent(obj.status), Consume(obj)
    PROVE Consistent(rec'.snap.status) /\ Consistent(rec'.st)
<1> DEFINE st == [obj.status EXCEPT !.srcValid = "true"]
<1>1. st \in Statuses /\ Consistent(st)
  <2>1. obj.status \in Statuses
    BY DEF Objects
  <2>2. st \in Statuses
    BY <2>1 DEF Statuses
  <2>3. Consistent(st)
    BY <2>1 DEF Consistent, Statuses
  <2> QED BY <2>2, <2>3
<1>2. /\ Consistent([st EXCEPT !.reason = "InjectFailed"])
      /\ Consistent([st EXCEPT !.reason = "Starting"])
      /\ Consistent([st EXCEPT !.reason = "ServiceFailed"])
      /\ Consistent([st EXCEPT !.route = TRUE, !.url = TRUE, !.phase = "Ready", !.reason = "Running"])
  BY <1>1 DEF Consistent, Statuses
<1>3. \E s, b : Patch(obj, s, b) /\ Consistent(s)
  BY <1>2 DEF Consume
<1> QED BY <1>3, PatchConsistent

\* Every pass that begins plans a consistent status or none.
LEMMA ReconcileConsistent ==
    ASSUME TypeInv, StatusInv,
           \/ ReconcileNothing \/ ReconcileDeleting \/ ReconcileInvalid
           \/ ReconcileSuspend \/ ReconcileRestore \/ ReconcileFastLane
           \/ ReconcilePending \/ ReconcileClaiming \/ ReconcileStarting \/ ReconcileReady
    PROVE Consistent(rec'.snap.status) /\ Consistent(rec'.st)
<1> USE NamesTyped
<1>c. Consistent(cache.status) /\ cache \in Objects /\ cache.status \in Statuses /\ Checked \in Statuses
  BY CheckedTyped DEF StatusInv, TypeInv
<1>k. Consistent(Checked)
  BY <1>c, ConsistentUpdates, ConstantsAssumption DEF Checked, Consistent, Statuses
<1>i. ASSUME rec' = Idle PROVE Consistent(rec'.snap.status) /\ Consistent(rec'.st)
  BY <1>i, FreshConsistent
<1>p. ASSUME NEW s, NEW b, Patch(cache, s, b), Consistent(s)
      PROVE Consistent(rec'.snap.status) /\ Consistent(rec'.st)
  BY <1>p, <1>c, PatchConsistent
<1>b. Bound => claim.pod \in Pods
  BY DEF Bound, TypeInv, TypeOK, Claims
<1>s. ASSUME NEW re \in Reasons \ {"Running"}, NEW ph \in {"Claiming", "Failed"}
      PROVE /\ Consistent([Checked EXCEPT !.reason = re])
            /\ Consistent([Checked EXCEPT !.phase = ph, !.reason = re])
            /\ Consistent([Checked EXCEPT !.pod = None, !.route = FALSE, !.phase = "Suspended", !.reason = re])
  BY <1>c, <1>k DEF Consistent, Statuses
<1>r. Consistent([Checked EXCEPT !.route = TRUE, !.url = TRUE, !.phase = "Ready", !.reason = "Running"])
  BY <1>c, <1>k DEF Consistent, Statuses
<1>t. Bound => Consistent([Checked EXCEPT !.pod = claim.pod, !.phase = "Starting", !.reason = "Starting"])
  BY <1>b, <1>c, <1>k, ConsistentUpdates
<1>1. CASE ReconcileNothing \/ ReconcileDeleting
  BY <1>1, <1>i DEF ReconcileNothing, ReconcileDeleting, Return
<1>2. CASE ReconcileInvalid
  <2>1. Consistent([cache.status EXCEPT !.srcValid = "false", !.phase = "Failed", !.reason = "SpecInvalid"])
    BY <1>c DEF Consistent, Statuses
  <2> QED BY <1>2, <2>1, <1>p DEF ReconcileInvalid
<1>3. CASE ReconcileSuspend
  BY <1>3, <1>p, <1>s DEF ReconcileSuspend
<1>4. CASE ReconcileRestore
  BY <1>4, <1>p, <1>s DEF ReconcileRestore
<1>5. CASE ReconcileFastLane
  <2>1. \/ Patch(cache, [Checked EXCEPT !.phase = "Claiming", !.reason = "ClaimFailed"], TRUE)
        \/ Patch(cache, [Checked EXCEPT !.route = TRUE, !.url = TRUE, !.phase = "Ready",
                                        !.reason = "Running"], FALSE)
    BY <1>5 DEF ReconcileFastLane
  <2>2. Consistent([Checked EXCEPT !.phase = "Claiming", !.reason = "ClaimFailed"])
    BY <1>s
  <2> QED BY <2>1, <2>2, <1>r, <1>p
<1>6. CASE ReconcilePending
  BY <1>6, <1>p, <1>s DEF ReconcilePending
<1>7. CASE ReconcileClaiming
  BY <1>7, <1>p, <1>s, <1>t DEF ReconcileClaiming
<1>8. CASE ReconcileReady
  BY <1>8, <1>p, <1>i, <1>t DEF ReconcileReady, Return
<1>9. CASE ReconcileStarting
  <2>1. CASE Patch(cache, [Checked EXCEPT !.phase = "Claiming"], TRUE)
    <3>1. Consistent([Checked EXCEPT !.phase = "Claiming"])
      <4>1. cache.status.phase = "Starting"
        BY <1>9 DEF ReconcileStarting, GeneralLane
      <4>2. Checked.phase = "Starting"
        BY <1>c, <4>1 DEF Checked, Statuses
      <4> QED BY <1>c, <1>k, <4>2 DEF Consistent, Statuses
    <3> QED BY <2>1, <3>1, <1>p
  <2>2. CASE \/ Patch(cache, [Checked EXCEPT !.reason = "AgentUnreachable"], TRUE)
             \/ Patch(cache, [Checked EXCEPT !.reason = "Injecting"], TRUE)
    BY <2>2, <1>p, <1>s
  <2>3. CASE rec' = [Idle EXCEPT !.pc = "wait", !.snap = cache]
    BY <2>3, <1>c, FreshConsistent DEF Idle
  <2>4. CASE Consume(cache)
    BY <2>4, <1>c, ConsumeConsistent
  <2> QED BY <1>9, <2>1, <2>2, <2>3, <2>4 DEF ReconcileStarting
<1> QED BY <1>1, <1>2, <1>3, <1>4, <1>5, <1>6, <1>7, <1>8, <1>9

\* StatusInv is inductive.
LEMMA StatusStep == TypeInv /\ StatusInv /\ [Next]_vars => StatusInv'
<1> SUFFICES ASSUME TypeInv, StatusInv, [Next]_vars PROVE StatusInv'
  OBVIOUS
<1>1. CASE Users
  <2>1. api'.status = api.status \/ api'.status = NewStatus
    <3>1. ASSUME NEW spec, Edit(spec) PROVE api'.status = api.status
      BY <3>1 DEF Edit, TypeInv, TypeOK, Objects
    <3>2. CASE CreateApp \/ DeleteApp
      BY <3>2 DEF CreateApp, DeleteApp, Vanish, Absent
    <3>3. CASE DeleteAppForeground
      BY <3>3 DEF DeleteAppForeground, TypeInv, TypeOK, Objects
    <3>4. CASE Redeploy \/ Rollback \/ SetSuspended
      BY <3>1, <3>4 DEF Redeploy, Rollback, SetSuspended
    <3> QED BY <1>1, <3>2, <3>3, <3>4 DEF Users
  <2>2. UNCHANGED <<cache, rec>>
    BY <1>1 DEF Users, CreateApp, Redeploy, Rollback, SetSuspended, DeleteApp,
                DeleteAppForeground, Edit, UserVars
  <2> QED BY <2>1, <2>2, FreshConsistent DEF StatusInv
<1>2. CASE Informers
  BY <1>2 DEF Informers, SyncApp, ClaimEvent, StatusInv
<1>3. CASE \/ ReconcileNothing \/ ReconcileDeleting \/ ReconcileInvalid
           \/ ReconcileSuspend \/ ReconcileRestore \/ ReconcileFastLane
           \/ ReconcilePending \/ ReconcileClaiming \/ ReconcileStarting \/ ReconcileReady
  <2>1. Begin
    BY <1>3 DEF ReconcileNothing, ReconcileDeleting, ReconcileInvalid, ReconcileSuspend,
         ReconcileRestore, ReconcileFastLane, ReconcilePending, ReconcileClaiming,
         ReconcileStarting, ReconcileReady
  <2> QED BY <1>3, <2>1, ReconcileConsistent DEF Begin, StatusInv
<1>4. CASE GraceDone \/ GraceElapsed
  <2>1. rec.snap \in Objects /\ rec.snap.status \in Statuses /\ UNCHANGED <<api, cache>>
    BY <1>4 DEF GraceDone, GraceElapsed, TypeInv, TypeOK, Passes, Objects
  <2>2. ASSUME GraceElapsed PROVE Consistent(rec'.snap.status) /\ Consistent(rec'.st)
    <3>1. Consistent([rec.snap.status EXCEPT !.srcValid = "true", !.reason = "Injecting"])
      BY <2>1 DEF StatusInv, Consistent, Statuses
    <3> QED BY <2>2, <3>1, PatchConsistent DEF GraceElapsed, StatusInv
  <2> QED BY <1>4, <2>1, <2>2, ConsumeConsistent DEF GraceDone, StatusInv
<1>5. CASE WriteStatus \/ SkipStatus \/ FailStatus \/ EmitLifecycle
  <2>1. \/ rec' = Idle
        \/ rec'.snap = rec.snap /\ rec'.st = rec.st
    BY <1>5 DEF WriteStatus, SkipStatus, FailStatus, EmitLifecycle, TypeInv, TypeOK, Passes
  <2>2. api'.status = api.status \/ api'.status = rec.st
    BY <1>5 DEF WriteStatus, SkipStatus, FailStatus, RejectedWrite, EmitLifecycle, TypeInv, TypeOK, Objects
  <2>3. UNCHANGED cache
    BY <1>5 DEF WriteStatus, SkipStatus, FailStatus, EmitLifecycle
  <2> QED BY <2>1, <2>2, <2>3, FreshConsistent DEF StatusInv
<1>6. CASE Attempts \/ (\E u \in Uids : EvictExpired(u)) \/ (\E tok \in zombies : ZombieEnds(tok))
  BY <1>6 DEF Attempts, AttemptApply, AttemptRecord, AttemptFail, EvictExpired, ZombieEnds,
              AttemptVars, StatusInv
<1>7. CASE Cluster \/ ReplacePod \/ ChangeTemplate
  <2>1. UNCHANGED <<cache, rec>> /\ (UNCHANGED api \/ api' = Absent)
    BY <1>7 DEF Cluster, BindClaim, PodUp, CollectClaim, CollectService, FinishDelete, Vanish,
                ReplacePod, ChangeTemplate, EnvVars
  <2> QED BY <2>1, FreshConsistent DEF StatusInv
<1>8. CASE Crash
  BY <1>8, FreshConsistent DEF Crash, StatusInv
<1>9. CASE UNCHANGED vars
  BY <1>9 DEF vars, StatusInv
<1> QED BY <1>1, <1>2, <1>3, <1>4, <1>5, <1>6, <1>7, <1>8, <1>9 DEF Next, Worker, Environment

\* The status in the API server never lies about what it carries: a Starting
\* app knows its pod, a Ready one has its route and URL, a Suspended one has
\* neither pod nor route, and only a Ready one is reported Running.
THEOREM StatusAlwaysConsistent == Spec => []StatusConsistent
<1>1. Init => StatusInv
  BY FreshConsistent DEF Init, StatusInv, Absent
<1>2. TypeInv /\ StatusInv /\ [Next]_vars => StatusInv'
  BY StatusStep
<1>3. StatusInv => StatusConsistent
  BY DEF StatusInv, Consistent, StatusConsistent
<1> QED BY <1>1, <1>2, <1>3, TypeAlways, PTL DEF Spec

-----------------------------------------------------------------------------
(* ReadyOnlyAfterDelivery.                                                 *)
(*                                                                         *)
(* The write that turns an app Ready rests on a result consumed earlier,   *)
(* possibly in another pass, of an attempt launched earlier still.  The    *)
(* invariant carries the delivery along that chain: an entry that is past  *)
(* its request was executed by the agent of its token's pod, and a pass    *)
(* about to write Ready has consumed such an entry under the token of the  *)
(* object it read.  The resourceVersion check ties that object to the one  *)
(* in the API server.                                                      *)

\* The agent of the token's pod has executed this inject of incarnation u.
Delivered(u, tok) == <<u, tok.gen, tok.ref>> \in agent[tok.pod].got

Executed(u) == tracker[u] # None /\ tracker[u].st \in {"applied", "ok", "notRunning"}

\* The pass is about to turn a general-lane app Ready.
TurnsReady ==
    /\ rec.pc = "write" /\ rec.st.phase = "Ready"
    /\ rec.snap.status.phase # "Ready" /\ rec.snap.spec.lane = "general"

InjectInv ==
    /\ \A u \in Uids : Executed(u) => Delivered(u, tracker[u].tok)
    /\ TurnsReady => /\ rec.snap.status.pod # None
                     /\ Delivered(rec.snap.uid, injectToken(rec.snap))

\* Tracked entries are well formed.
LEMMA EntryTyped ==
    ASSUME TypeInv, NEW u \in Uids, tracker[u] # None
    PROVE /\ tracker[u] \in Entries /\ tracker[u].tok \in Tokens
          /\ tracker[u].tok.pod \in Pods
BY DEF TypeInv, TypeOK, Entries, Tokens

\* What an agent executed is forgotten only with a pod nothing refers to.
LEMMA GotGrows ==
    ASSUME TypeInv, [Next]_vars, NEW p \in Pods, ~Unused(p)
    PROVE agent[p].got \subseteq agent'[p].got
<1>0. agent \in [Pods -> Agents] /\ claim.pod \in Pods \cup {None} /\ zombies \subseteq Tokens
  BY DEF TypeInv, TypeOK, Claims
<1>r. ASSUME agent' = ReleasedAgents PROVE agent[p].got \subseteq agent'[p].got
  BY <1>0, <1>r DEF ReleasedAgents, FreePod, Agents
<1>1. CASE Users \/ Informers
  BY <1>1 DEF Users, Informers, CreateApp, Redeploy, Rollback, SetSuspended, DeleteApp,
              DeleteAppForeground, Edit, UserVars, SyncApp, ClaimEvent
<1>2. CASE Worker
  <2>1. UNCHANGED agent \/ agent' = ReleasedAgents
    BY <1>2 DEF Worker, ReconcileNothing, ReconcileDeleting, ReconcileInvalid, ReconcileSuspend,
         ReconcileRestore, ReconcileFastLane, ReconcilePending, ReconcileClaiming,
         ReconcileStarting, ReconcileReady, GraceDone, GraceElapsed, WriteStatus, SkipStatus,
         FailStatus, EmitLifecycle, WriteVars, ReleaseCompute, ReleaseClaim, FastLaneRemove
  <2> QED BY <2>1, <1>r
<1>3. CASE Attempts \/ \E u \in Uids : EvictExpired(u)
  <2>1. ASSUME NEW u \in Uids, AttemptApply(u) PROVE agent[p].got \subseteq agent'[p].got
    <3>1. tracker[u].tok.pod \in Pods
      BY <2>1, EntryTyped DEF AttemptApply, Queued
    <3> QED BY <1>0, <2>1, <3>1 DEF AttemptApply, Apply, Agents
  <2>2. ASSUME NEW u \in Uids, AttemptRecord(u) \/ AttemptFail(u) \/ EvictExpired(u)
        PROVE UNCHANGED agent
    BY <2>2 DEF AttemptRecord, AttemptFail, EvictExpired
  <2> QED BY <1>3, <2>1, <2>2 DEF Attempts
<1>4. CASE \E tok \in zombies : ZombieEnds(tok)
  BY <1>0, <1>4 DEF ZombieEnds, Tokens, Agents
<1>5. CASE BindClaim
  BY <1>0, <1>5 DEF BindClaim
<1>6. CASE PodUp
  BY <1>0, <1>6 DEF PodUp, Agents
<1>7. CASE CollectClaim
  BY <1>7, <1>r DEF CollectClaim
<1>8. CASE ReplacePod
  <2>1. PICK q \in Pods : Unused(q) /\ agent' = [FreePod(claim.pod) EXCEPT ![q] = Boot]
    BY <1>8 DEF ReplacePod
  <2>2. p # q
    BY <2>1
  <2> QED BY <1>0, <2>1, <2>2 DEF FreePod, Agents
<1>9. CASE CollectService \/ FinishDelete \/ ChangeTemplate \/ Crash \/ UNCHANGED vars
  BY <1>9 DEF CollectService, FinishDelete, Vanish, ChangeTemplate, Crash, vars
<1> QED BY <1>1, <1>2, <1>3, <1>4, <1>5, <1>6, <1>7, <1>8, <1>9 DEF Next, Cluster, Environment

\* An executed entry was so before the step, or the step delivers it.
LEMMA EntryOrigin ==
    ASSUME TypeInv, [Next]_vars, NEW u \in Uids, Executed(u)'
    PROVE tracker'[u] = tracker[u] \/ AttemptApply(u) \/ AttemptRecord(u)
<1>0. tracker \in [Uids -> Entries \cup {None}]
  BY DEF TypeInv, TypeOK
<1>f. ASSUME NEW v, tracker' = [tracker EXCEPT ![v] = None] PROVE tracker'[u] = tracker[u]
  BY <1>0, <1>f DEF Executed
<1>1. CASE Users \/ Informers
  BY <1>1 DEF Users, Informers, CreateApp, Redeploy, Rollback, SetSuspended, DeleteApp,
              DeleteAppForeground, Edit, UserVars, SyncApp, ClaimEvent
<1>2. CASE Worker
  <2>1. \/ UNCHANGED tracker \/ launch
        \/ \E v : tracker' = [tracker EXCEPT ![v] = None]
    BY <1>2 DEF Worker, ReconcileNothing, ReconcileDeleting, ReconcileInvalid, ReconcileSuspend,
         ReconcileRestore, ReconcileFastLane, ReconcilePending, ReconcileClaiming,
         ReconcileStarting, ReconcileReady, GraceDone, GraceElapsed, WriteStatus, SkipStatus,
         FailStatus, EmitLifecycle, WriteVars, forget, Consume
  <2>2. ASSUME launch PROVE tracker'[u] = tracker[u]
    BY <1>0, <2>2 DEF launch, Executed
  <2> QED BY <2>1, <2>2, <1>f
<1>3. CASE Attempts
  <2>1. PICK v \in Uids : AttemptApply(v) \/ AttemptRecord(v) \/ AttemptFail(v)
    BY <1>3 DEF Attempts
  <2>2. CASE v = u /\ AttemptFail(v)
    BY <1>0, <2>2 DEF AttemptFail, Executed, InFlight, Entries
  <2>3. CASE v # u
    BY <1>0, <2>1, <2>3 DEF AttemptApply, AttemptRecord, AttemptFail
  <2> QED BY <2>1, <2>2, <2>3
<1>4. CASE \E v \in Uids : EvictExpired(v)
  BY <1>4, <1>f DEF EvictExpired
<1>5. CASE (\E tok \in zombies : ZombieEnds(tok)) \/ Cluster \/ ReplacePod \/ ChangeTemplate
           \/ UNCHANGED vars
  BY <1>5 DEF ZombieEnds, Cluster, BindClaim, PodUp, CollectClaim, CollectService,
              FinishDelete, ReplacePod, ChangeTemplate, EnvVars, vars
<1>6. CASE Crash
  BY <1>6 DEF Crash, Executed
<1> QED BY <1>1, <1>2, <1>3, <1>4, <1>5, <1>6 DEF Next, Environment

\* The pass consumed a successful attempt under the token of what it read.
ConsumedOk(obj) == Tracked(obj) /\ tracker[obj.uid].st = "ok" /\ UNCHANGED agent

\* Consume plans Ready only for a successful result.
LEMMA ConsumeReady ==
    ASSUME NEW obj \in Objects, Consume(obj), TurnsReady'
    PROVE rec'.snap = obj /\ tracker[obj.uid].st = "ok"
<1> DEFINE st == [obj.status EXCEPT !.srcValid = "true"]
<1>1. st \in Statuses /\ st.phase = obj.status.phase
  BY DEF Objects, Statuses
<1>2. rec'.snap = obj
  BY DEF Consume, Patch
<1>3. ASSUME NEW re, NEW b, Patch(obj, [st EXCEPT !.reason = re], b) PROVE FALSE
  <2>1. rec'.st.phase = obj.status.phase
    BY <1>1, <1>3 DEF Patch, Statuses
  <2> QED BY <2>1, <1>2 DEF TurnsReady
<1>4. tracker[obj.uid].st = "ok"
  BY <1>3 DEF Consume
<1> QED BY <1>2, <1>4

\* A pass about to write Ready was so before the step, or has just consumed a
\* successful attempt.
LEMMA PlanOrigin ==
    ASSUME TypeInv, [Next]_vars, TurnsReady'
    PROVE rec' = rec \/ (rec'.snap \in Objects /\ rec'.snap.uid \in Uids /\ ConsumedOk(rec'.snap))
<1>c. cache \in Objects /\ cache.status \in Statuses /\ Checked \in Statuses
      /\ Checked.phase = cache.status.phase
  BY CheckedTyped DEF TypeInv, Checked, Statuses
<1>p. ASSUME NEW s, NEW b, Patch(cache, s, b), s.phase # "Ready" \/ s.phase = cache.status.phase
      PROVE FALSE
  BY <1>p DEF Patch, TurnsReady
<1>i. ASSUME rec' = Idle PROVE FALSE
  BY <1>i DEF TurnsReady, Idle
<1>s. ASSUME NEW re, NEW ph, NEW q
      PROVE /\ [Checked EXCEPT !.reason = re].phase = cache.status.phase
            /\ [Checked EXCEPT !.phase = ph].phase = ph
            /\ [Checked EXCEPT !.phase = ph, !.reason = re].phase = ph
            /\ [Checked EXCEPT !.pod = q, !.phase = ph, !.reason = re].phase = ph
            /\ [Checked EXCEPT !.pod = q, !.route = FALSE, !.phase = ph, !.reason = re].phase = ph
  BY <1>c DEF Statuses
<1>t. [Checked EXCEPT !.pod = claim.pod, !.phase = "Starting", !.reason = "Starting"].phase = "Starting"
  BY <1>s
<1>1. CASE Users \/ Informers
  BY <1>1 DEF Users, Informers, CreateApp, Redeploy, Rollback, SetSuspended, DeleteApp,
              DeleteAppForeground, Edit, UserVars, SyncApp, ClaimEvent
<1>2. CASE Worker
  <2>1. CASE ReconcileNothing \/ ReconcileDeleting
    BY <2>1, <1>i DEF ReconcileNothing, ReconcileDeleting, Return
  <2>2. CASE ReconcileInvalid
    <3>1. [cache.status EXCEPT !.srcValid = "false", !.phase = "Failed", !.reason = "SpecInvalid"].phase = "Failed"
      BY <1>c DEF Statuses
    <3> QED BY <2>2, <3>1, <1>p DEF ReconcileInvalid
  <2>3. CASE ReconcileSuspend
    <3>1. \/ Patch(cache, [Checked EXCEPT !.reason = "Suspended"], TRUE)
          \/ Patch(cache, [Checked EXCEPT !.pod = None, !.route = FALSE,
                               !.phase = "Suspended", !.reason = "Suspended"], FALSE)
      BY <2>3 DEF ReconcileSuspend
    <3> QED BY ZenonT(40), <3>1, <1>p, <1>s
  <2>4. CASE ReconcileRestore \/ ReconcilePending
    BY ZenonT(40), <2>4, <1>p, <1>s DEF ReconcileRestore, ReconcilePending
  <2>5. CASE ReconcileFastLane
    <3>1. cache.spec.lane = "fast"
      BY <2>5 DEF ReconcileFastLane, isWorkerdFastLane
    <3>2. rec'.snap = cache
      BY <2>5 DEF ReconcileFastLane, Patch
    <3> QED BY <3>1, <3>2 DEF TurnsReady
  <2>6. CASE ReconcileClaiming
    <3>1. \/ Patch(cache, [Checked EXCEPT !.phase = "Failed", !.reason = "TemplateInvalid"], FALSE)
          \/ Patch(cache, [Checked EXCEPT !.phase = "Failed", !.reason = "TemplateMissing"], FALSE)
          \/ Patch(cache, [Checked EXCEPT !.reason = "ClaimFailed"], TRUE)
          \/ Patch(cache, [Checked EXCEPT !.reason = "Claiming"], TRUE)
          \/ Patch(cache, [Checked EXCEPT !.pod = claim.pod, !.phase = "Starting",
                                          !.reason = "Starting"], TRUE)
      BY <2>6 DEF ReconcileClaiming
    <3>2. CASE Patch(cache, [Checked EXCEPT !.pod = claim.pod, !.phase = "Starting",
                                            !.reason = "Starting"], TRUE)
      BY <3>2, <1>p, <1>t
    <3> QED BY ZenonT(40), <3>1, <3>2, <1>p, <1>s
  <2>7. CASE ReconcileReady
    <3>1. \/ rec' = Idle
          \/ Patch(cache, [Checked EXCEPT !.pod = claim.pod, !.phase = "Starting",
                                          !.reason = "Starting"], TRUE)
      BY <2>7 DEF ReconcileReady, Return
    <3> QED BY <3>1, <1>i, <1>p, <1>t
  <2>8. CASE ReconcileStarting
    <3>1. \/ Patch(cache, [Checked EXCEPT !.phase = "Claiming"], TRUE)
          \/ Patch(cache, [Checked EXCEPT !.reason = "AgentUnreachable"], TRUE)
          \/ Patch(cache, [Checked EXCEPT !.reason = "Injecting"], TRUE)
          \/ rec' = [Idle EXCEPT !.pc = "wait", !.snap = cache]
          \/ Tracked(cache) /\ Consume(cache)
      BY <2>8 DEF ReconcileStarting
    <3>2. CASE rec' = [Idle EXCEPT !.pc = "wait", !.snap = cache]
      BY <3>2 DEF TurnsReady, Idle
    <3>3. CASE Tracked(cache) /\ Consume(cache)
      <4>1. cache.uid \in Uids /\ UNCHANGED agent
        BY <2>8, CacheUid DEF ReconcileStarting, GeneralLane, Awake, Valid, Live
      <4> QED BY <3>3, <4>1, <1>c, ConsumeReady DEF ConsumedOk
    <3> QED BY <3>1, <3>2, <3>3, <1>p, <1>s
  <2>9. CASE GraceDone
    <3>1. rec.snap \in Objects /\ rec.snap.uid \in Uids
      BY <2>9, ConstantsAssumption DEF GraceDone, TypeInv, TypeOK, SpecsPresent, Passes, Objects, Uids
    <3> QED BY <2>9, <3>1, ConsumeReady DEF GraceDone, ConsumedOk
  <2>10. CASE GraceElapsed
    <3>1. rec.snap.status \in Statuses
      BY DEF TypeInv, TypeOK, Passes, Objects
    <3>2. [rec.snap.status EXCEPT !.srcValid = "true", !.reason = "Injecting"].phase = rec.snap.status.phase
      BY <3>1 DEF Statuses
    <3> QED BY <2>10, <3>2 DEF GraceElapsed, Patch, TurnsReady
  <2>11. CASE WriteStatus
    <3>1. rec' = Idle \/ rec'.pc = "emit"
      BY <2>11 DEF WriteStatus, TypeInv, TypeOK, Passes
    <3> QED BY <3>1, <1>i DEF TurnsReady
  <2>12. CASE SkipStatus \/ FailStatus \/ EmitLifecycle
    BY <2>12, <1>i DEF SkipStatus, FailStatus, EmitLifecycle
  <2> QED BY <1>2, <2>1, <2>2, <2>3, <2>4, <2>5, <2>6, <2>7, <2>8, <2>9, <2>10, <2>11, <2>12 DEF Worker
<1>3. CASE Attempts \/ (\E u \in Uids : EvictExpired(u)) \/ (\E tok \in zombies : ZombieEnds(tok))
  BY <1>3 DEF Attempts, AttemptApply, AttemptRecord, AttemptFail, EvictExpired, ZombieEnds,
              AttemptVars
<1>4. CASE Cluster \/ ReplacePod \/ ChangeTemplate \/ UNCHANGED vars
  BY <1>4 DEF Cluster, BindClaim, PodUp, CollectClaim, CollectService, FinishDelete, Vanish,
              ReplacePod, ChangeTemplate, EnvVars, vars
<1>5. CASE Crash
  BY <1>5, <1>i DEF Crash
<1> QED BY <1>1, <1>2, <1>3, <1>4, <1>5 DEF Next, Environment

\* InjectInv is inductive.
LEMMA InjectStep == TypeInv /\ InjectInv /\ [Next]_vars => InjectInv'
<1> SUFFICES ASSUME TypeInv, InjectInv, [Next]_vars PROVE InjectInv'
  OBVIOUS
<1>0. tracker \in [Uids -> Entries \cup {None}]
  BY DEF TypeInv, TypeOK
<1>1. ASSUME NEW u \in Uids, Executed(u)' PROVE Delivered(u, tracker[u].tok)'
  <2>1. CASE tracker'[u] = tracker[u]
    <3>1. Executed(u) /\ Delivered(u, tracker[u].tok)
      BY <1>1, <2>1 DEF Executed, InjectInv
    <3>2. tracker[u].tok.pod \in Pods /\ ~Unused(tracker[u].tok.pod)
      BY <3>1, EntryTyped DEF Executed, Unused
    <3> QED BY <2>1, <3>1, <3>2, GotGrows DEF Delivered
  <2>2. CASE AttemptApply(u)
    <3>1. tracker[u].tok.pod \in Pods /\ tracker[u] \in Entries
      BY <2>2, EntryTyped DEF AttemptApply, Queued
    <3>2. tracker'[u].tok = tracker[u].tok
      BY <1>0, <2>2, <3>1 DEF AttemptApply, Entries
    <3>3. <<u, tracker[u].tok.gen, tracker[u].tok.ref>> \in agent'[tracker[u].tok.pod].got
      BY <2>2, <3>1 DEF AttemptApply, Apply, TypeInv, TypeOK, Agents
    <3> QED BY <3>2, <3>3 DEF Delivered
  <2>3. CASE AttemptRecord(u)
    <3>1. tracker[u] \in Entries /\ tracker[u].st = "applied" /\ tracker[u] # None
      BY <2>3, EntryTyped DEF AttemptRecord, InFlight
    <3>2. tracker'[u].tok = tracker[u].tok /\ UNCHANGED agent
      BY <1>0, <2>3, <3>1 DEF AttemptRecord, Entries
    <3>3. Delivered(u, tracker[u].tok)
      BY <3>1 DEF InjectInv, Executed
    <3> QED BY <3>2, <3>3 DEF Delivered
  <2> QED BY <1>1, <2>1, <2>2, <2>3, EntryOrigin
<1>2. ASSUME TurnsReady'
      PROVE (rec.snap.status.pod # None /\ Delivered(rec.snap.uid, injectToken(rec.snap)))'
  <2>1. CASE rec' = rec
    <3>1. TurnsReady
      BY <1>2, <2>1 DEF TurnsReady
    <3>2. rec.snap.status.pod # None /\ Delivered(rec.snap.uid, injectToken(rec.snap))
      BY <3>1 DEF InjectInv
    <3>3. rec.snap.status.pod \in Pods /\ ~Unused(rec.snap.status.pod)
      BY <3>2 DEF Unused, TypeInv, TypeOK, Passes, Objects, Statuses
    <3> QED BY <2>1, <3>2, <3>3, GotGrows DEF Delivered, injectToken
  <2>2. CASE rec'.snap \in Objects /\ rec'.snap.uid \in Uids /\ ConsumedOk(rec'.snap)
    <3> DEFINE o == rec'.snap
    <3>1. /\ tracker[o.uid] # None /\ tracker[o.uid].st = "ok" /\ UNCHANGED agent
          /\ tracker[o.uid].tok = injectToken(o)
      BY <2>2 DEF ConsumedOk, Tracked
    <3>2. Delivered(o.uid, injectToken(o))
      BY <2>2, <3>1 DEF InjectInv, Executed
    <3>3. o.status.pod # None
      BY <2>2, <3>1, EntryTyped, ConstantsAssumption DEF injectToken
    <3> QED BY <3>1, <3>2, <3>3 DEF Delivered, injectToken
  <2> QED BY <1>2, <2>1, <2>2, PlanOrigin
<1> QED BY <1>1, <1>2 DEF InjectInv

\* Nothing was executed and nothing is planned at the start.
LEMMA InjectInit == Init => InjectInv
BY DEF Init, InjectInv, Executed, TurnsReady, Idle

\* An app turns Ready only with the write of a pass (answered or not) that planned it for the
\* object the API server holds.
LEMMA ReadyStep ==
    ASSUME TypeInv, InjectInv, [Next]_vars,
           api.status.phase # "Ready", api'.status.phase = "Ready", api.spec.lane = "general"
    PROVE /\ api.status.pod # None
          /\ <<api.uid, api.gen, api.spec.ref>> \in agent[api.status.pod].got
<1>0. NewStatus.phase = "Pending" /\ Absent.status = NewStatus
  BY DEF NewStatus, Absent
<1>1. WriteStatus \/ RejectedWrite
  <2>1. CASE Users
    <3>1. ASSUME NEW spec, Edit(spec) PROVE api'.status = api.status
      BY <3>1 DEF Edit, TypeInv, TypeOK, Objects
    <3>2. CASE CreateApp \/ DeleteApp
      BY <1>0, <3>2 DEF CreateApp, DeleteApp, Vanish
    <3>3. CASE DeleteAppForeground
      BY <3>3 DEF DeleteAppForeground, TypeInv, TypeOK, Objects
    <3>4. CASE Redeploy \/ Rollback \/ SetSuspended
      BY <3>1, <3>4 DEF Redeploy, Rollback, SetSuspended
    <3> QED BY <2>1, <3>2, <3>3, <3>4 DEF Users
  <2>2. CASE Informers \/ Attempts \/ (\E u \in Uids : EvictExpired(u))
             \/ (\E tok \in zombies : ZombieEnds(tok)) \/ UNCHANGED vars
    BY <2>2 DEF Informers, SyncApp, ClaimEvent, Attempts, AttemptApply, AttemptRecord,
                AttemptFail, EvictExpired, ZombieEnds, AttemptVars, vars
  <2>3. CASE Worker
    BY <2>3 DEF Worker, Begin, ReconcileNothing, ReconcileDeleting, ReconcileInvalid,
         ReconcileSuspend, ReconcileRestore, ReconcileFastLane, ReconcilePending,
         ReconcileClaiming, ReconcileStarting, ReconcileReady, GraceDone, GraceElapsed,
         SkipStatus, FailStatus, EmitLifecycle
  <2>4. CASE Cluster \/ Environment
    BY <1>0, <2>4 DEF Cluster, Environment, BindClaim, PodUp, CollectClaim, CollectService,
         FinishDelete, Vanish, ReplacePod, ChangeTemplate, Crash
  <2> QED BY <2>1, <2>2, <2>3, <2>4 DEF Next
<1>2. rec.snap = api /\ rec.st.phase = "Ready" /\ rec.pc = "write"
  BY <1>1 DEF WriteStatus, RejectedWrite, TypeInv, TypeOK, Objects
<1>3. TurnsReady
  BY <1>2 DEF TurnsReady
<1> QED BY <1>2, <1>3 DEF InjectInv, Delivered, injectToken

\* An app turns Ready only when the agent of the pod in its status has executed
\* an inject of exactly its generation and source (injectToken, the tracker and
\* the resourceVersion check together), for every interleaving.
THEOREM ReadyIsDelivered == Spec => ReadyOnlyAfterDelivery
<1>1. Init => InjectInv
  BY InjectInit
<1>2. TypeInv /\ InjectInv /\ [Next]_vars => InjectInv'
  BY InjectStep
<1>3. TypeInv /\ InjectInv /\ [Next]_vars =>
        [(api.status.phase # "Ready" /\ api'.status.phase = "Ready" /\ api.spec.lane = "general")
         => /\ api.status.pod # None
            /\ <<api.uid, api.gen, api.spec.ref>> \in agent[api.status.pod].got]_vars
  BY ReadyStep
<1> QED BY <1>1, <1>2, <1>3, TypeAlways, PTL DEF Spec, ReadyOnlyAfterDelivery
=============================================================================
