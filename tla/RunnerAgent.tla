---------------------------- MODULE RunnerAgent ----------------------------
(***************************************************************************)
(* The runner agent of one sandbox (src/internal/runneragent): concurrent  *)
(* /inject and /stop calls, the supervisors of the user processes, the     *)
(* work directory with its staging directories, and the log buffer.        *)
(*                                                                         *)
(* A stretch of code under a.mu that does not wait is one action, guarded  *)
(* by the lock being free; only the waits of stopProcessLocked and the     *)
(* file operations after them hold the lock across actions (mu).           *)
(***************************************************************************)
EXTENDS RingBuffer, FiniteSets

CONSTANTS
    Urls,         \* the sources a call can have fetched from a URL
    Uploads,      \* the sources a call can carry as files
    None,
    MaxCalls,     \* bound: calls made
    MaxWrites,    \* bound: pieces of log output written between two resets
    MaxRestarts   \* bound: restarts of the container

\* A goroutine per call of the control API, numbered as they arrive.
Handlers == 1..MaxCalls

Sources == Urls \cup Uploads

Parts == {1, 2}   \* a source tree has more than one entry
Tree(s) == {s} \X Parts

ASSUME AgentAssumption ==
    /\ None \notin Handlers \cup Sources
    /\ {MaxCalls, MaxWrites, MaxRestarts} \subseteq Nat

VARIABLES
    calls,     \* how many calls were made
    call,      \* by handler: the call it serves and how far it got
    stage,     \* by handler: its staging directory
    stages,    \* a.stages: the registered staging directories
    mu,        \* who holds a.mu across actions, or None
    gen,       \* a.gen
    cmd,       \* a.cmd: an index of procs, 0 when nil
    state,     \* a.state
    procs,     \* the processes started since the container started
    workdir,   \* the entries of the work directory, staging directories apart
    residue,   \* whether a staging directory of a crashed agent is left
    logs,      \* a.logs
    written,   \* history: the lines completed since logs was reset
    restarts

core == <<gen, cmd, state, procs>>
files == <<stage, stages, workdir, residue>>
output == <<logs, written>>
vars == <<calls, call, stage, stages, mu, gen, cmd, state, procs, workdir, residue,
          logs, written, restarts>>

-----------------------------------------------------------------------------
\* up: the process lives.  orphan: it is gone and a descendant that escaped
\* its process group holds the log pipe open.  drained: the pipe is at end of
\* file, cmd.Wait has returned and done is closed.  reported: its supervisor
\* has returned.  stopped and abandoned are history.
Processes == [src: Sources, gen: Nat, life: {"up", "orphan", "drained", "reported"},
              stopped: BOOLEAN, abandoned: BOOLEAN]

\* register to fetch: staging the source of a URL.  lock: waiting for a.mu.
\* term and kill: the two waits of stopProcessLocked.  unregister, remove: the
\* deferred removal of the staging directory.
Pcs == {"idle", "register", "fetch", "lock", "term", "kill", "reset", "fill",
        "unregister", "remove"}

Calls == [kind: {"files", "url", "stop"}, src: Sources \cup {None}, pc: Pcs, victim: Nat]

NewCall(k, s, q) == [kind |-> k, src |-> s, pc |-> q, victim |-> 0]
NoCall == NewCall("stop", None, "idle")

Init ==
    /\ calls = 0
    /\ call = [h \in Handlers |-> NoCall]
    /\ stage = [h \in Handlers |-> "none"]
    /\ stages = {}
    /\ mu = None
    /\ gen = 0
    /\ cmd = 0
    /\ state = "idle"
    /\ procs = <<>>
    /\ workdir = {}
    /\ residue = FALSE
    /\ logs = newRingBuffer
    /\ written = <<>>
    /\ restarts = 0

-----------------------------------------------------------------------------
\* handleInject and handleStop, the next call that arrives.  For a URL, MkdirTemp makes the staging
\* directory; it is not registered yet.
Call(h) ==
    /\ h = calls + 1 /\ call[h].pc = "idle"
    /\ calls' = h
    /\ \/ \E s \in Urls :
              /\ call' = [call EXCEPT ![h] = NewCall("url", s, "register")]
              /\ stage' = [stage EXCEPT ![h] = "dir"]
       \/ \E s \in Uploads :
              /\ call' = [call EXCEPT ![h] = NewCall("files", s, "lock")]
              /\ UNCHANGED stage
       \/ /\ call' = [call EXCEPT ![h] = NewCall("stop", None, "lock")]
          /\ UNCHANGED stage
    /\ UNCHANGED <<stages, mu, workdir, residue, restarts, core, output>>

Register(h) ==
    /\ call[h].pc = "register"
    /\ mu = None
    /\ stages' = stages \cup {h}
    /\ call' = [call EXCEPT ![h].pc = "fetch"]
    /\ UNCHANGED <<calls, stage, mu, workdir, residue, restarts, core, output>>

\* Fetch, outside the lock.  extractEntry re-creates the staging directory if
\* a reset took it before it was registered.
Fetch(h) ==
    /\ call[h].pc = "fetch"
    /\ \/ /\ stage' = [stage EXCEPT ![h] = "full"]
          /\ call' = [call EXCEPT ![h].pc = "lock"]
       \/ /\ UNCHANGED stage
          /\ call' = [call EXCEPT ![h].pc = "unregister"]
    /\ UNCHANGED <<calls, stages, mu, workdir, residue, restarts, core, output>>

\* What follows stopProcessLocked: an inject goes on, a stop returns.
Stopped(h) ==
    IF call[h].kind = "stop"
    THEN call' = [call EXCEPT ![h] = NoCall] /\ mu' = None
    ELSE call' = [call EXCEPT ![h].pc = "reset"] /\ mu' = h

\* stopProcessLocked up to its wait.
Lock(h) ==
    /\ call[h].pc = "lock"
    /\ mu = None
    /\ \/ cmd = 0 /\ Stopped(h) /\ UNCHANGED core
       \/ /\ cmd # 0
          /\ gen' = gen + 1
          /\ cmd' = 0
          /\ state' = "idle"
          /\ procs' = [procs EXCEPT ![cmd].stopped = TRUE]
          /\ call' = [call EXCEPT ![h].pc = "term", ![h].victim = cmd]
          /\ mu' = h
    /\ UNCHANGED <<calls, files, output, restarts>>

Done(p) == procs[p].life \in {"drained", "reported"}

\* done is closed after SIGTERM or after SIGKILL.
StopDone(h) ==
    /\ call[h].pc \in {"term", "kill"}
    /\ Done(call[h].victim)
    /\ Stopped(h)
    /\ UNCHANGED <<calls, core, files, output, restarts>>

\* StopGrace elapsed; SIGKILL to the process group.
TermTimeout(h) ==
    /\ call[h].pc = "term"
    /\ call' = [call EXCEPT ![h].pc = "kill"]
    /\ UNCHANGED <<calls, mu, core, files, output, restarts>>

\* Faulty variant: the wait after SIGKILL is not bounded.
KillTimeoutNever(h) == FALSE /\ UNCHANGED vars

\* hardKillGrace elapsed; the reap is abandoned.
KillTimeout(h) ==
    /\ call[h].pc = "kill"
    /\ Stopped(h)
    /\ procs' = [procs EXCEPT ![call[h].victim].abandoned = ~Done(call[h].victim)]
    /\ UNCHANGED <<calls, gen, cmd, state, files, output, restarts>>

-----------------------------------------------------------------------------
\* An inject that returns removes its staging directory, if it has one.
Finish(h) ==
    /\ mu' = None
    /\ call' = [call EXCEPT ![h] = IF @.kind = "url" THEN [@ EXCEPT !.pc = "unregister"]
                                                    ELSE NoCall]

\* Faulty variant: registered staging directories are cleared too.
KeptNone == {}

\* The staging directories that resetWorkdirLocked leaves alone.
Kept == stages

\* Faulty variant: only staging directories are removed.
SweptNothing == workdir

\* What it leaves of the other entries.
Swept == {}

\* resetWorkdirLocked; it may fail with some entries removed.
Reset(h) ==
    /\ call[h].pc = "reset"
    /\ \/ /\ workdir' = Swept
          /\ residue' = FALSE
          /\ stage' = [g \in Handlers |-> IF g \in Kept THEN stage[g] ELSE "none"]
          /\ call' = [call EXCEPT ![h].pc = "fill"]
          /\ UNCHANGED mu
       \/ /\ workdir' \in SUBSET workdir
          /\ residue' \in {residue, FALSE}
          /\ \E cleared \in SUBSET (Handlers \ Kept) :
                stage' = [g \in Handlers |-> IF g \in cleared THEN "none" ELSE stage[g]]
          /\ Finish(h)
    /\ UNCHANGED <<calls, stages, core, output, restarts>>

\* Faulty variant: the process before keeps its lines in the buffer.
KeepLogs == UNCHANGED output

ResetLogs == logs' = newRingBuffer /\ written' = <<>>

\* Faulty variant: the supervisor is told the generation before the bump.
NewProcessEarlyGen(s) ==
    [src |-> s, gen |-> gen, life |-> "up", stopped |-> FALSE, abandoned |-> FALSE]

\* startProcessLocked: what the supervisor of the new process is given.
NewProcess(s) ==
    [src |-> s, gen |-> gen + 1, life |-> "up", stopped |-> FALSE, abandoned |-> FALSE]

\* The tree that was written or moved lets the process be started.
Filled(h, done) == done = Tree(call[h].src)

\* moveDirContents or writeFiles; then the logs are reset and the process is
\* started.  Either may fail, the move with some entries moved.
Fill(h) ==
    /\ call[h].pc = "fill"
    /\ \E done \in SUBSET Tree(call[h].src) :
          /\ workdir' = workdir \cup done
          /\ \/ /\ Filled(h, done)
                /\ ResetLogs
                /\ gen' = gen + 1
                /\ procs' = Append(procs, NewProcess(call[h].src))
                /\ cmd' = Len(procs) + 1
                /\ state' = "running"
             \/ /\ Filled(h, done)
                /\ ResetLogs
                /\ state' = "failed"
                /\ UNCHANGED <<gen, procs, cmd>>
             \/ ~Filled(h, done) /\ UNCHANGED <<core, output>>
    /\ stage' = [stage EXCEPT ![h] = IF @ = "full" THEN "dir" ELSE @]
    /\ Finish(h)
    /\ UNCHANGED <<calls, stages, residue, restarts>>

Unregister(h) ==
    /\ call[h].pc = "unregister"
    /\ mu = None
    /\ stages' = stages \ {h}
    /\ call' = [call EXCEPT ![h].pc = "remove"]
    /\ UNCHANGED <<calls, stage, mu, workdir, residue, restarts, core, output>>

RemoveStage(h) ==
    /\ call[h].pc = "remove"
    /\ stage' = [stage EXCEPT ![h] = "none"]
    /\ call' = [call EXCEPT ![h] = NoCall]
    /\ UNCHANGED <<calls, stages, mu, workdir, residue, restarts, core, output>>

-----------------------------------------------------------------------------
\* The user process exits or is killed; a descendant may keep the pipe open.
ProcessExits(p) ==
    /\ procs[p].life = "up"
    /\ \E l \in {"drained", "orphan"} : procs' = [procs EXCEPT ![p].life = l]
    /\ UNCHANGED <<calls, call, mu, gen, cmd, state, files, output, restarts>>

\* The descendant closes the pipe.
OrphanExits(p) ==
    /\ procs[p].life = "orphan"
    /\ procs' = [procs EXCEPT ![p].life = "drained"]
    /\ UNCHANGED <<calls, call, mu, gen, cmd, state, files, output, restarts>>

ProcessWrites(p) ==
    /\ procs[p].life \in {"up", "orphan"}
    /\ Len(written) + Len(logs.partial) < MaxWrites
    /\ \E newline \in BOOLEAN :
          /\ logs' = Write(logs, p, newline)
          /\ written' = IF Completes(logs, newline)
                        THEN Append(written, Append(logs.partial, p)) ELSE written
    /\ UNCHANGED <<calls, call, mu, core, files, restarts>>

\* Faulty variant: a superseded supervisor records its process's exit.
IsCurrentAlways(p) == TRUE

IsCurrent(p) == gen = procs[p].gen

\* supervise, once cmd.Wait has returned, with whatever exit code, and the
\* lock is free.
Supervise(p) ==
    /\ procs[p].life = "drained"
    /\ mu = None
    /\ procs' = [procs EXCEPT ![p].life = "reported"]
    /\ \/ /\ IsCurrent(p)
          /\ cmd' = 0
          /\ state' \in {"exited", "failed"}
       \/ ~IsCurrent(p) /\ UNCHANGED <<cmd, state>>
    /\ UNCHANGED <<calls, call, mu, gen, files, output, restarts>>

\* The container restarts: its processes are gone, the work directory, a
\* volume of the pod, is not.
Restart ==
    /\ restarts < MaxRestarts
    /\ restarts' = restarts + 1
    /\ call' = [h \in Handlers |-> NoCall]
    /\ residue' = (residue \/ \E h \in Handlers : stage[h] # "none")
    /\ stage' = [h \in Handlers |-> "none"]
    /\ stages' = {}
    /\ mu' = None
    /\ gen' = 0
    /\ cmd' = 0
    /\ state' = "idle"
    /\ procs' = <<>>
    /\ logs' = newRingBuffer
    /\ written' = <<>>
    /\ UNCHANGED <<calls, workdir>>

-----------------------------------------------------------------------------
Handler(h) ==
    \/ Register(h) \/ Fetch(h) \/ Lock(h) \/ StopDone(h) \/ TermTimeout(h) \/ KillTimeout(h)
    \/ Reset(h) \/ Fill(h) \/ Unregister(h) \/ RemoveStage(h)

Next ==
    \/ \E h \in Handlers : Call(h) \/ Handler(h)
    \/ \E p \in DOMAIN procs :
          ProcessExits(p) \/ OrphanExits(p) \/ ProcessWrites(p) \/ Supervise(p)
    \/ Restart

Spec == Init /\ [][Next]_vars

MaxProcs == MaxCalls

\* Handlers run, the HTTP client's timeout ends a fetch, the timers of
\* stopProcessLocked fire and a supervisor gets the lock.  Nothing makes a
\* process exit.
FairSpec ==
    /\ Spec
    /\ \A h \in Handlers : WF_vars(Handler(h))
    /\ \A p \in 1..MaxProcs : WF_vars(p \in DOMAIN procs /\ Supervise(p))

-----------------------------------------------------------------------------
\* Types, and the discipline of a.mu and of the registered stages: the lock is
\* held across actions exactly by the call that waits or works under it.
TypeOK ==
    /\ calls \in 0..MaxCalls
    /\ call \in [Handlers -> Calls]
    /\ stage \in [Handlers -> {"none", "dir", "full"}]
    /\ stages \subseteq Handlers
    /\ mu \in Handlers \cup {None}
    /\ gen \in Nat
    /\ cmd \in 0..Len(procs)
    /\ state \in {"idle", "running", "exited", "failed"}
    /\ procs \in Seq(Processes)
    /\ workdir \subseteq Sources \X Parts
    /\ residue \in BOOLEAN
    /\ restarts \in 0..MaxRestarts
    /\ \A h \in Handlers : (mu = h) <=> call[h].pc \in {"term", "kill", "reset", "fill"}

\* A supervisor that reports late never touches what a newer inject or a stop
\* has set: the process started last, until it is stopped or its own
\* supervisor has reported it, is the one the agent tracks as running, and
\* the agent never tracks another.
TracksLastProcess ==
    /\ cmd # 0 <=> state = "running"
    /\ \A p \in DOMAIN procs :
          (cmd = p) <=> p = Len(procs) /\ ~procs[p].stopped /\ procs[p].life # "reported"

\* Injects replace: when a process is started no other one is alive, and no
\* log pipe of another is open, unless its reap was abandoned.
OneProcess ==
    \A p \in DOMAIN procs :
        procs[p].life \in {"up", "orphan"} /\ p # cmd =>
            \/ procs[p].abandoned
            \/ mu # None /\ call[mu].victim = p /\ call[mu].pc \in {"term", "kill"}

\* The tracked process runs in exactly the tree of the inject that started it:
\* nothing of an earlier inject, of a failed one or of a crashed agent's
\* staging directory is left beside it.
RunsItsSource ==
    cmd # 0 => workdir = Tree(procs[cmd].src) /\ ~residue

\* A fetched source is there until its own inject moves it, whatever the
\* resets of concurrent injects clear.
FetchedSourceKept ==
    \A h \in Handlers :
        call[h].kind = "url" /\ call[h].pc \in {"lock", "term", "kill", "reset", "fill"} =>
            stage[h] = "full"

\* The buffer holds output of the process started last only, unless an
\* abandoned process still writes into it.
LogsOfLastProcess ==
    \A line \in {snapshot(logs, 0)[i] : i \in DOMAIN snapshot(logs, 0)} :
        \A i \in DOMAIN line : line[i] = Len(procs) \/ procs[line[i]].abandoned

\* What /logs answers is the tail of everything written since the reset, the
\* partial line included, at most Capacity complete lines of it.
SnapshotIsTail ==
    LET all == IF logs.partial = <<>> THEN written ELSE Append(written, logs.partial)
        kept == Capacity + Len(all) - Len(written)
    IN  \A n \in 0..(Capacity + 1) :
            LET want == IF n = 0 THEN kept ELSE n
                have == IF kept < Len(all) THEN kept ELSE Len(all)
                take == IF want < have THEN want ELSE have
            IN  snapshot(logs, n) = SubSeq(all, Len(all) - take + 1, Len(all))

\* No call of the control API hangs, even while a descendant of a killed
\* process holds the log pipe open for ever.
CallsReturn == \A h \in Handlers : call[h].pc # "idle" ~> call[h].pc = "idle"

\* A process that has exited is not reported as running for ever.
ExitsAreReported ==
    \A p \in 1..MaxProcs :
        (cmd = p /\ procs[p].life = "drained") ~> cmd # p
=============================================================================
