------------------------- MODULE RunnerAgentProofs -------------------------
(***************************************************************************)
(* Proofs about RunnerAgent: for any number of concurrent calls, sources   *)
(* and restarts, the agent tracks the process it started last, runs it in  *)
(* exactly the tree of its inject, leaves no other process alive unless    *)
(* its reap was abandoned, never clears a fetched source, and answers      *)
(* /logs with the tail of what the process wrote.                          *)
(***************************************************************************)
EXTENDS RunnerAgent, SequenceTheorems, TLAPS

Working == {"term", "kill", "reset", "fill"}

\* What a call's position says about the call.
CallsFormed ==
    \A h \in Handlers :
        /\ call[h].pc # "idle" /\ call[h].kind # "stop" => call[h].src \in Sources
        /\ call[h].pc \in {"reset", "fill"} => call[h].kind # "stop"
        /\ call[h].pc \in {"register", "fetch", "unregister", "remove"} => call[h].kind = "url"

\* What holds while the lock is held: no process is tracked, the victim is one
\* that was stopped, and a work directory about to be filled is empty.
UnderLock ==
    mu # None =>
        /\ cmd = 0
        /\ call[mu].pc \in {"term", "kill"} =>
               call[mu].victim \in DOMAIN procs /\ procs[call[mu].victim].stopped
        /\ call[mu].pc = "fill" => workdir = {} /\ ~residue

\* Generations tell a current supervisor from a superseded one.
Generations ==
    /\ \A p \in DOMAIN procs :
          /\ procs[p].gen <= gen
          /\ procs[p].gen = gen /\ procs[p].life # "reported" => cmd = p
    /\ cmd # 0 => procs[cmd].gen = gen

\* A staging directory is registered from before the fetch until its inject
\* returns.
Registered ==
    \A h \in Handlers :
        call[h].kind = "url" /\ call[h].pc \in {"fetch", "lock", "unregister"} \cup Working =>
            h \in stages

AgentInv == /\ TypeOK /\ CallsFormed /\ UnderLock /\ Generations /\ Registered
            /\ TracksLastProcess /\ OneProcess /\ RunsItsSource /\ FetchedSourceKept

\* A call that moves on stays a call, and no other call changes.
LEMMA CallMoves ==
    ASSUME TypeOK, NEW h \in Handlers, NEW c \in Calls, call' = [call EXCEPT ![h] = c]
    PROVE /\ call' \in [Handlers -> Calls]
          /\ call'[h] = c
          /\ \A g \in Handlers \ {h} : call'[g] = call[g]
BY DEF TypeOK

\* Moving a call to another position keeps the rest of it.
LEMMA MovesTo ==
    ASSUME TypeOK, NEW h \in Handlers, NEW q \in Pcs, call' = [call EXCEPT ![h].pc = q]
    PROVE /\ call' \in [Handlers -> Calls]
          /\ call'[h].pc = q /\ call'[h].kind = call[h].kind
          /\ call'[h].src = call[h].src /\ call'[h].victim = call[h].victim
          /\ \A g \in Handlers \ {h} : call'[g] = call[g]
<1>1. call[h] \in Calls
  BY DEF TypeOK
<1> DEFINE c == [call[h] EXCEPT !.pc = q]
<1>2. /\ c \in Calls /\ c.pc = q /\ c.kind = call[h].kind
      /\ c.src = call[h].src /\ c.victim = call[h].victim
  BY <1>1 DEF Calls
<1>3. call' = [call EXCEPT ![h] = c]
  OBVIOUS
<1> HIDE DEF c
<1> QED BY <1>2, <1>3, CallMoves

\* The call of a handler that serves none.
LEMMA NoCallTyped == NoCall \in Calls /\ NoCall.pc = "idle" /\ NoCall.kind = "stop"
BY DEF NoCall, NewCall, Calls, Pcs

\* So is a new call.
LEMMA NewCallTyped ==
    ASSUME NEW k \in {"files", "url", "stop"}, NEW s \in Sources \cup {None}, NEW q \in Pcs
    PROVE LET c == NewCall(k, s, q) IN c \in Calls /\ c.kind = k /\ c.src = s /\ c.pc = q
BY DEF NewCall, Calls

\* Replacing one process keeps the others and their number.
LEMMA ProcessChanges ==
    ASSUME TypeOK, NEW p \in DOMAIN procs, NEW x \in Processes,
           procs' = [procs EXCEPT ![p] = x]
    PROVE /\ procs' \in Seq(Processes)
          /\ Len(procs') = Len(procs) /\ DOMAIN procs' = DOMAIN procs
          /\ procs'[p] = x
          /\ \A q \in DOMAIN procs \ {p} : procs'[q] = procs[q]
BY DEF TypeOK

\* A new /inject or /stop call keeps the invariant.
LEMMA CallKeeps ==
    ASSUME AgentInv, NEW h \in Handlers, Call(h)
    PROVE AgentInv'
<1> USE AgentAssumption DEF AgentInv
<1>1. /\ call[h].pc = "idle" /\ calls' \in 0..MaxCalls
      /\ UNCHANGED <<stages, mu, workdir, residue, restarts, gen, cmd, state, procs>>
  BY DEF TypeOK, Call, core, Handlers
<1>2. PICK k \in {"files", "url", "stop"}, s \in Sources \cup {None}, q \in {"register", "lock"} :
          /\ call' = [call EXCEPT ![h] = NewCall(k, s, q)]
          /\ k = "url" <=> q = "register"
          /\ k # "stop" => s \in Sources
          /\ stage' = [stage EXCEPT ![h] = IF k = "url" THEN "dir" ELSE @]
  <2>1. CASE \E s \in Sources : /\ call' = [call EXCEPT ![h] = NewCall("url", s, "register")]
                                /\ stage' = [stage EXCEPT ![h] = "dir"]
    BY <2>1
  <2>2. CASE \E s \in Sources : /\ call' = [call EXCEPT ![h] = NewCall("files", s, "lock")]
                                /\ UNCHANGED stage
    BY <2>2 DEF TypeOK
  <2>3. CASE call' = [call EXCEPT ![h] = NewCall("stop", None, "lock")] /\ UNCHANGED stage
    BY <2>3 DEF TypeOK
  <2> QED BY <2>1, <2>2, <2>3 DEF Call, Sources
<1> DEFINE c == NewCall(k, s, q)
<1>3. call' = [call EXCEPT ![h] = c]
  BY <1>2
<1>4. c \in Calls /\ c.kind = k /\ c.src = s /\ c.pc = q
  <2>1. q \in Pcs
    BY DEF Pcs
  <2> QED BY <2>1, NewCallTyped
<1> HIDE DEF c
<1>5. /\ c.pc \in {"register", "lock"}
      /\ c.kind = "url" <=> c.pc = "register"
      /\ c.kind # "stop" => c.src \in Sources
      /\ stage' = [stage EXCEPT ![h] = IF c.kind = "url" THEN "dir" ELSE @]
  BY <1>2, <1>4
<1>6. /\ call' \in [Handlers -> Calls] /\ call'[h] = c
      /\ \A g \in Handlers \ {h} : call'[g] = call[g]
  BY <1>3, <1>4, CallMoves
<1>7. /\ stage' \in [Handlers -> {"none", "dir", "full"}]
      /\ \A g \in Handlers \ {h} : stage'[g] = stage[g]
  BY <1>5 DEF TypeOK
<1>8. TypeOK'
  BY SMTT(30), <1>1, <1>5, <1>6, <1>7 DEF TypeOK
<1>9. CallsFormed' /\ UnderLock'
  BY <1>1, <1>5, <1>6 DEF TypeOK, CallsFormed, UnderLock
<1>10. Generations' /\ TracksLastProcess' /\ RunsItsSource'
  BY <1>1 DEF Generations, TracksLastProcess, RunsItsSource
<1>11. OneProcess'
  BY <1>1, <1>5, <1>6 DEF TypeOK, OneProcess
<1>12. Registered' /\ FetchedSourceKept'
  BY <1>1, <1>5, <1>6, <1>7 DEF Registered, FetchedSourceKept, Working
<1> QED BY <1>8, <1>9, <1>10, <1>11, <1>12

\* A process has its type.
LEMMA ProcessTyped ==
    ASSUME TypeOK, NEW q \in DOMAIN procs
    PROVE procs[q] \in Processes /\ procs[q].gen \in Nat
<1>1. procs[q] \in Processes
  BY DEF TypeOK
<1> QED BY <1>1 DEF Processes

\* So does registering the staging directory,
LEMMA RegisterKeeps ==
    ASSUME AgentInv, NEW h \in Handlers, Register(h)
    PROVE AgentInv'
<1> USE AgentAssumption DEF AgentInv
<1>1. /\ call[h].pc = "register" /\ mu = None /\ stages' = stages \cup {h}
      /\ call' = [call EXCEPT ![h].pc = "fetch"]
      /\ UNCHANGED <<calls, stage, mu, workdir, residue, restarts, gen, cmd, state, procs>>
  BY DEF Register, core
<1>2. /\ call' \in [Handlers -> Calls] /\ call'[h].pc = "fetch"
      /\ call'[h].kind = call[h].kind /\ call'[h].src = call[h].src
      /\ \A g \in Handlers \ {h} : call'[g] = call[g]
  BY <1>1, MovesTo DEF Pcs
<1>3. TypeOK'
  BY <1>1, <1>2 DEF TypeOK
<1>4. CallsFormed' /\ UnderLock'
  BY <1>1, <1>2 DEF CallsFormed, UnderLock
<1>5. Generations' /\ TracksLastProcess' /\ RunsItsSource' /\ OneProcess'
  BY <1>1, <1>2 DEF Generations, TracksLastProcess, RunsItsSource, OneProcess
<1>6. Registered' /\ FetchedSourceKept'
  BY <1>1, <1>2 DEF Registered, FetchedSourceKept, Working
<1> QED BY <1>3, <1>4, <1>5, <1>6

\* fetching into it, outside the lock,
LEMMA FetchKeeps ==
    ASSUME AgentInv, NEW h \in Handlers, Fetch(h)
    PROVE AgentInv'
<1> USE AgentAssumption DEF AgentInv
<1>1. /\ call[h].pc = "fetch"
      /\ UNCHANGED <<calls, stages, mu, workdir, residue, restarts, gen, cmd, state, procs>>
  BY DEF Fetch, core
<1>2. PICK q \in {"lock", "unregister"} :
          /\ call' = [call EXCEPT ![h].pc = q]
          /\ stage' = [stage EXCEPT ![h] = IF q = "lock" THEN "full" ELSE @]
  BY DEF Fetch, TypeOK
<1>3. /\ call' \in [Handlers -> Calls] /\ call'[h].pc = q
      /\ call'[h].kind = call[h].kind /\ call'[h].src = call[h].src
      /\ \A g \in Handlers \ {h} : call'[g] = call[g]
  BY <1>2, MovesTo DEF Pcs
<1>4. /\ stage' \in [Handlers -> {"none", "dir", "full"}]
      /\ q = "lock" => stage'[h] = "full"
      /\ \A g \in Handlers \ {h} : stage'[g] = stage[g]
  BY <1>2 DEF TypeOK
<1>5. TypeOK'
  BY <1>1, <1>3, <1>4 DEF TypeOK
<1>6. CallsFormed' /\ UnderLock'
  BY <1>1, <1>3 DEF TypeOK, CallsFormed, UnderLock
<1>7. Generations' /\ TracksLastProcess' /\ RunsItsSource'
  BY <1>1 DEF Generations, TracksLastProcess, RunsItsSource
<1>8. OneProcess'
  BY <1>1, <1>3 DEF TypeOK, OneProcess
<1>9. Registered' /\ FetchedSourceKept'
  BY <1>1, <1>3, <1>4 DEF Registered, FetchedSourceKept, Working
<1> QED BY <1>5, <1>6, <1>7, <1>8, <1>9

\* What Stopped does to the call and to the lock.
LEMMA StoppedMoves ==
    ASSUME TypeOK, NEW h \in Handlers, Stopped(h)
    PROVE /\ call' \in [Handlers -> Calls]
          /\ \A g \in Handlers \ {h} : call'[g] = call[g]
          /\ call[h].kind = "stop" => call'[h] = NoCall /\ mu' = None
          /\ call[h].kind # "stop" => /\ call'[h].pc = "reset" /\ mu' = h
                                      /\ call'[h].kind = call[h].kind
                                      /\ call'[h].src = call[h].src
<1>1. CASE call[h].kind = "stop"
  <2>1. call' = [call EXCEPT ![h] = NoCall] /\ mu' = None
    BY <1>1 DEF Stopped
  <2> QED BY <1>1, <2>1, CallMoves, NoCallTyped
<1>2. CASE call[h].kind # "stop"
  <2>1. call' = [call EXCEPT ![h].pc = "reset"] /\ mu' = h
    BY <1>2 DEF Stopped
  <2>2. "reset" \in Pcs
    BY DEF Pcs
  <2> QED BY <1>2, <2>1, <2>2, MovesTo
<1> QED BY <1>1, <1>2

\* A stop that is over keeps the invariant, whatever ended the wait, as long
\* as its victim, if it had one, is dead or abandoned.
LEMMA StoppedKeeps ==
    ASSUME AgentInv, NEW h \in Handlers, Stopped(h),
           call[h].pc \in {"lock", "term", "kill"}, mu \in {None, h}, cmd = 0,
           call[h].pc \in {"term", "kill"} =>
               LET p == call[h].victim IN Done(p) \/ procs[p].abandoned,
           UNCHANGED <<calls, gen, cmd, state, procs, stage, stages, workdir, residue, restarts>>
    PROVE AgentInv'
<1> USE AgentAssumption DEF AgentInv
<1>1. /\ call' \in [Handlers -> Calls]
      /\ \A g \in Handlers \ {h} : call'[g] = call[g]
      /\ call[h].kind = "stop" => call'[h] = NoCall /\ mu' = None
      /\ call[h].kind # "stop" => /\ call'[h].pc = "reset" /\ mu' = h
                                  /\ call'[h].kind = call[h].kind
                                  /\ call'[h].src = call[h].src
  BY StoppedMoves
<1>2. TypeOK'
  BY <1>1, NoCallTyped DEF TypeOK
<1>3. CallsFormed' /\ UnderLock'
  BY <1>1, NoCallTyped DEF CallsFormed, UnderLock
<1>4. Generations' /\ TracksLastProcess' /\ RunsItsSource'
  BY DEF Generations, TracksLastProcess, RunsItsSource
<1>5. OneProcess'
  BY <1>1, NoCallTyped DEF OneProcess, TypeOK, Done
<1>6. Registered' /\ FetchedSourceKept'
  BY <1>1, NoCallTyped DEF Registered, FetchedSourceKept, Working
<1> QED BY <1>2, <1>3, <1>4, <1>5, <1>6

\* taking the lock and starting to stop the tracked process,
LEMMA LockKeeps ==
    ASSUME AgentInv, NEW h \in Handlers, Lock(h)
    PROVE AgentInv'
<1> USE AgentAssumption DEF AgentInv
<1>1. /\ call[h].pc = "lock" /\ mu = None
      /\ UNCHANGED <<calls, stage, stages, workdir, residue, restarts>>
  BY DEF Lock, files
<1>2. CASE cmd = 0
  <2>1. Stopped(h) /\ UNCHANGED <<gen, cmd, state, procs>>
    BY <1>2 DEF Lock, core
  <2> QED BY <1>1, <1>2, <2>1, StoppedKeeps
<1>3. CASE cmd # 0
  <2> DEFINE c == [call[h] EXCEPT !.pc = "term", !.victim = cmd]
             x == [procs[cmd] EXCEPT !.stopped = TRUE]
  <2>1. /\ gen' = gen + 1 /\ cmd' = 0 /\ state' = "idle" /\ mu' = h
        /\ procs' = [procs EXCEPT ![cmd] = x]
        /\ call' = [call EXCEPT ![h] = c]
    BY <1>3 DEF Lock
  <2>2. cmd \in DOMAIN procs /\ cmd \in Nat /\ procs[cmd] \in Processes /\ call[h] \in Calls
    BY <1>3 DEF TypeOK
  <2>3. c \in Calls /\ c.pc = "term" /\ c.victim = cmd /\ c.kind = call[h].kind /\ c.src = call[h].src
    BY <2>2 DEF Calls, Pcs
  <2>4. x \in Processes /\ x.stopped /\ x.gen = procs[cmd].gen /\ x.life = procs[cmd].life
        /\ x.abandoned = procs[cmd].abandoned
    BY <2>2 DEF Processes
  <2> HIDE DEF c, x
  <2>5. /\ call' \in [Handlers -> Calls] /\ call'[h] = c
        /\ \A g \in Handlers \ {h} : call'[g] = call[g]
    BY <2>1, <2>3, CallMoves
  <2>6. /\ procs' \in Seq(Processes) /\ Len(procs') = Len(procs)
        /\ DOMAIN procs' = DOMAIN procs /\ procs'[cmd] = x
        /\ \A q \in DOMAIN procs \ {cmd} : procs'[q] = procs[q]
    BY <2>1, <2>2, <2>4, ProcessChanges
  <2>7. TypeOK'
    BY <1>1, <2>1, <2>3, <2>5, <2>6 DEF TypeOK
  <2>8. CallsFormed' /\ UnderLock'
    BY <1>1, <2>1, <2>2, <2>3, <2>4, <2>5, <2>6 DEF CallsFormed, UnderLock
  <2>9. Generations'
    <3>1. gen \in Nat /\ \A q \in DOMAIN procs : procs[q].gen \in Nat /\ procs[q].gen <= gen
      BY ProcessTyped DEF Generations, TypeOK
    <3>2. \A q \in DOMAIN procs : procs'[q].gen = procs[q].gen
      BY <2>4, <2>6
    <3>3. \A q \in DOMAIN procs : procs'[q].gen < gen'
      BY <2>1, <3>1, <3>2
    <3> QED BY <2>1, <2>6, <3>1, <3>2, <3>3 DEF Generations
  <2>10. TracksLastProcess' /\ RunsItsSource'
    BY <2>1, <2>2, <2>4, <2>6 DEF TracksLastProcess, RunsItsSource, TypeOK
  <2>11. OneProcess'
    BY <1>1, <2>1, <2>2, <2>3, <2>4, <2>5, <2>6 DEF OneProcess, TypeOK
  <2>12. Registered' /\ FetchedSourceKept'
    BY <1>1, <2>3, <2>5 DEF Registered, FetchedSourceKept, Working
  <2> QED BY <2>7, <2>8, <2>9, <2>10, <2>11, <2>12
<1> QED BY <1>2, <1>3

\* finding the stopped process gone,
LEMMA StopDoneKeeps ==
    ASSUME AgentInv, NEW h \in Handlers, StopDone(h)
    PROVE AgentInv'
<1>1. /\ call[h].pc \in {"term", "kill"} /\ Done(call[h].victim) /\ Stopped(h)
      /\ UNCHANGED <<calls, gen, cmd, state, procs, stage, stages, workdir, residue, restarts>>
  BY DEF StopDone, core, files
<1>2. mu = h
  BY <1>1 DEF AgentInv, TypeOK
<1>3. cmd = 0
  BY <1>2, AgentAssumption DEF AgentInv, UnderLock
<1> QED BY <1>1, <1>2, <1>3, StoppedKeeps

\* escalating to SIGKILL,
LEMMA TermTimeoutKeeps ==
    ASSUME AgentInv, NEW h \in Handlers, TermTimeout(h)
    PROVE AgentInv'
<1> USE AgentAssumption DEF AgentInv
<1>1. /\ call[h].pc = "term" /\ call' = [call EXCEPT ![h].pc = "kill"]
      /\ UNCHANGED <<calls, mu, gen, cmd, state, procs, stage, stages, workdir, residue, restarts>>
  BY DEF TermTimeout, core, files
<1>2. /\ call' \in [Handlers -> Calls] /\ call'[h].pc = "kill"
      /\ call'[h].kind = call[h].kind /\ call'[h].src = call[h].src
      /\ call'[h].victim = call[h].victim
      /\ \A g \in Handlers \ {h} : call'[g] = call[g]
  BY <1>1, MovesTo DEF Pcs
<1>3. mu = h
  BY <1>1 DEF TypeOK
<1>4. TypeOK'
  BY <1>1, <1>2 DEF TypeOK
<1>5. CallsFormed' /\ UnderLock'
  BY <1>1, <1>2, <1>3 DEF CallsFormed, UnderLock
<1>6. Generations' /\ TracksLastProcess' /\ RunsItsSource'
  BY <1>1 DEF Generations, TracksLastProcess, RunsItsSource
<1>7. OneProcess'
  BY <1>1, <1>2, <1>3 DEF OneProcess
<1>8. Registered' /\ FetchedSourceKept'
  BY <1>1, <1>2 DEF Registered, FetchedSourceKept, Working
<1> QED BY <1>4, <1>5, <1>6, <1>7, <1>8

\* abandoning the reap,
LEMMA KillTimeoutKeeps ==
    ASSUME AgentInv, NEW h \in Handlers, KillTimeout(h)
    PROVE AgentInv'
<1> USE AgentAssumption DEF AgentInv
<1> DEFINE v == call[h].victim
           x == [procs[v] EXCEPT !.abandoned = ~Done(v)]
<1>1. /\ call[h].pc = "kill" /\ Stopped(h) /\ procs' = [procs EXCEPT ![v] = x]
      /\ UNCHANGED <<calls, gen, cmd, state, stage, stages, workdir, residue, restarts>>
  BY DEF KillTimeout, files
<1>2. mu = h
  BY <1>1 DEF TypeOK
<1>3. cmd = 0 /\ v \in DOMAIN procs /\ procs[v].stopped /\ procs[v] \in Processes
  BY <1>1, <1>2 DEF UnderLock, TypeOK
<1>4. Done(v) \in BOOLEAN
  BY DEF Done
<1>5. x \in Processes /\ x.stopped /\ x.gen = procs[v].gen /\ x.life = procs[v].life
      /\ (x.abandoned <=> ~Done(v))
  BY <1>3, <1>4 DEF Processes
<1> HIDE DEF x
<1>6. /\ procs' \in Seq(Processes) /\ Len(procs') = Len(procs) /\ DOMAIN procs' = DOMAIN procs
      /\ procs'[v] = x
      /\ \A q \in DOMAIN procs \ {v} : procs'[q] = procs[q]
  BY <1>1, <1>3, <1>5, ProcessChanges
<1> HIDE DEF v
<1>7. /\ call' \in [Handlers -> Calls]
      /\ \A g \in Handlers \ {h} : call'[g] = call[g]
      /\ call[h].kind = "stop" => call'[h] = NoCall /\ mu' = None
      /\ call[h].kind # "stop" => /\ call'[h].pc = "reset" /\ mu' = h
                                  /\ call'[h].kind = call[h].kind
                                  /\ call'[h].src = call[h].src
  BY <1>1, StoppedMoves
<1>8. TypeOK'
  BY <1>1, <1>2, <1>6, <1>7, NoCallTyped DEF TypeOK
<1>9. CallsFormed' /\ UnderLock'
  BY <1>1, <1>3, <1>7, NoCallTyped DEF CallsFormed, UnderLock
<1>10. Generations'
  BY <1>1, <1>3, <1>5, <1>6 DEF Generations
<1>11. TracksLastProcess' /\ RunsItsSource'
  BY <1>1, <1>3, <1>5, <1>6 DEF TracksLastProcess, RunsItsSource
<1>12. OneProcess'
  BY <1>1, <1>2, <1>3, <1>5, <1>6, <1>7, NoCallTyped DEF OneProcess, TypeOK, Done, v
<1>13. Registered' /\ FetchedSourceKept'
  BY <1>1, <1>7, NoCallTyped DEF Registered, FetchedSourceKept, Working
<1> QED BY <1>8, <1>9, <1>10, <1>11, <1>12, <1>13

\* What Finish does to the call and to the lock.
LEMMA FinishMoves ==
    ASSUME TypeOK, NEW h \in Handlers, Finish(h)
    PROVE /\ call' \in [Handlers -> Calls] /\ mu' = None
          /\ \A g \in Handlers \ {h} : call'[g] = call[g]
          /\ call[h].kind = "url" => /\ call'[h].pc = "unregister" /\ call'[h].kind = "url"
                                     /\ call'[h].src = call[h].src
          /\ call[h].kind # "url" => call'[h] = NoCall
<1>1. CASE call[h].kind = "url"
  <2>1. call' = [call EXCEPT ![h].pc = "unregister"] /\ mu' = None
    BY <1>1 DEF Finish
  <2>2. "unregister" \in Pcs
    BY DEF Pcs
  <2> QED BY <1>1, <2>1, <2>2, MovesTo
<1>2. CASE call[h].kind # "url"
  <2>1. call' = [call EXCEPT ![h] = NoCall] /\ mu' = None
    BY <1>2 DEF Finish
  <2> QED BY <1>2, <2>1, CallMoves, NoCallTyped
<1> QED BY <1>1, <1>2

\* clearing the work directory,
LEMMA ResetKeeps ==
    ASSUME AgentInv, NEW h \in Handlers, Reset(h)
    PROVE AgentInv'
<1> USE AgentAssumption DEF AgentInv
<1>1. /\ call[h].pc = "reset"
      /\ UNCHANGED <<calls, stages, gen, cmd, state, procs, restarts>>
  BY DEF Reset, Swept, core
<1>2. mu = h
  BY <1>1 DEF TypeOK
<1>3. cmd = 0 /\ call[h].kind # "stop" /\ call[h].src \in Sources
  BY <1>1, <1>2 DEF UnderLock, CallsFormed
<1>4. workdir' \subseteq workdir /\ residue' \in BOOLEAN
  BY DEF Reset, Swept, TypeOK
<1>5. \E cleared \in SUBSET (Handlers \ stages) :
          stage' = [g \in Handlers |-> IF g \in cleared THEN "none" ELSE stage[g]]
  <2>1. CASE stage' = [g \in Handlers |-> IF g \in Kept THEN stage[g] ELSE "none"]
    <3>1. stage' = [g \in Handlers |-> IF g \in Handlers \ stages THEN "none" ELSE stage[g]]
      BY <2>1 DEF Kept
    <3> QED BY <3>1
  <2>2. CASE \E cleared \in SUBSET (Handlers \ Kept) :
                 stage' = [g \in Handlers |-> IF g \in cleared THEN "none" ELSE stage[g]]
    BY <2>2 DEF Kept
  <2> QED BY <2>1, <2>2 DEF Reset, Swept
<1>6. /\ stage' \in [Handlers -> {"none", "dir", "full"}]
      /\ \A g \in stages : stage'[g] = stage[g]
  BY <1>5 DEF TypeOK
<1>7. Generations' /\ TracksLastProcess' /\ RunsItsSource'
  BY <1>1, <1>3 DEF Generations, TracksLastProcess, RunsItsSource
<1>8. CASE call' = [call EXCEPT ![h].pc = "fill"] /\ UNCHANGED mu /\ workdir' = {} /\ residue' = FALSE
  <2>1. /\ call' \in [Handlers -> Calls] /\ call'[h].pc = "fill"
        /\ call'[h].kind = call[h].kind /\ call'[h].src = call[h].src
        /\ \A g \in Handlers \ {h} : call'[g] = call[g]
    BY <1>8, MovesTo DEF Pcs
  <2>2. TypeOK'
    BY <1>1, <1>4, <1>6, <1>8, <2>1 DEF TypeOK
  <2>3. CallsFormed' /\ UnderLock'
    BY <1>1, <1>2, <1>3, <1>8, <2>1 DEF CallsFormed, UnderLock
  <2>4. OneProcess'
    BY <1>1, <1>2, <1>8, <2>1 DEF OneProcess
  <2>5. Registered' /\ FetchedSourceKept'
    BY <1>1, <1>6, <2>1 DEF Registered, FetchedSourceKept, Working
  <2> QED BY <1>7, <2>2, <2>3, <2>4, <2>5
<1>9. CASE Finish(h)
  <2>1. /\ call' \in [Handlers -> Calls] /\ mu' = None
        /\ \A g \in Handlers \ {h} : call'[g] = call[g]
        /\ call[h].kind = "url" => /\ call'[h].pc = "unregister" /\ call'[h].kind = "url"
                                   /\ call'[h].src = call[h].src
        /\ call[h].kind # "url" => call'[h] = NoCall
    BY <1>9, FinishMoves
  <2>2. TypeOK'
    BY <1>1, <1>2, <1>4, <1>6, <2>1, NoCallTyped DEF TypeOK
  <2>3. CallsFormed' /\ UnderLock'
    BY <1>1, <1>3, <2>1, NoCallTyped DEF CallsFormed, UnderLock
  <2>4. OneProcess'
    BY <1>1, <1>2, <2>1 DEF OneProcess
  <2>5. Registered' /\ FetchedSourceKept'
    BY <1>1, <1>6, <2>1, NoCallTyped DEF Registered, FetchedSourceKept, Working
  <2> QED BY <1>7, <2>2, <2>3, <2>4, <2>5
<1> QED BY <1>8, <1>9 DEF Reset, Swept

\* A new process comes after the others.
LEMMA ProcessStarts ==
    ASSUME TypeOK, NEW x \in Processes, procs' = Append(procs, x)
    PROVE /\ procs' \in Seq(Processes) /\ Len(procs') = Len(procs) + 1
          /\ DOMAIN procs' = DOMAIN procs \cup {Len(procs) + 1}
          /\ Len(procs) \in Nat /\ DOMAIN procs = 1..Len(procs)
          /\ procs'[Len(procs) + 1] = x
          /\ \A q \in DOMAIN procs : procs'[q] = procs[q]
BY DEF TypeOK

\* filling it and starting the process,
LEMMA FillKeeps ==
    ASSUME AgentInv, NEW h \in Handlers, Fill(h)
    PROVE AgentInv'
<1> USE AgentAssumption DEF AgentInv
<1> DEFINE s == call[h].src
           x == NewProcess(s)
           n == Len(procs) + 1
<1>1. /\ call[h].pc = "fill" /\ Finish(h)
      /\ stage' = [stage EXCEPT ![h] = IF @ = "full" THEN "dir" ELSE @]
      /\ UNCHANGED <<calls, stages, residue, restarts>>
  BY DEF Fill
<1>2. mu = h
  BY <1>1 DEF TypeOK
<1>3. cmd = 0 /\ call[h].kind # "stop" /\ s \in Sources /\ workdir = {} /\ ~residue
  BY <1>1, <1>2 DEF UnderLock, CallsFormed
<1>4. /\ call' \in [Handlers -> Calls] /\ mu' = None
      /\ \A g \in Handlers \ {h} : call'[g] = call[g]
      /\ call[h].kind = "url" => /\ call'[h].pc = "unregister" /\ call'[h].kind = "url"
                                 /\ call'[h].src = call[h].src
      /\ call[h].kind # "url" => call'[h] = NoCall
  BY <1>1, FinishMoves
<1>5. /\ stage' \in [Handlers -> {"none", "dir", "full"}]
      /\ \A g \in Handlers \ {h} : stage'[g] = stage[g]
  BY <1>1 DEF TypeOK
<1>6. workdir' \subseteq Sources \X Parts
  BY <1>3 DEF Fill, Tree, TypeOK
<1>7. CallsFormed' /\ UnderLock' /\ Registered' /\ FetchedSourceKept'
  <2>1. CallsFormed'
    BY <1>1, <1>3, <1>4, NoCallTyped DEF CallsFormed
  <2>2. UnderLock'
    BY <1>4 DEF UnderLock
  <2>3. Registered' /\ FetchedSourceKept'
    BY <1>1, <1>4, <1>5, NoCallTyped DEF Registered, FetchedSourceKept, Working
  <2> QED BY <2>1, <2>2, <2>3
<1>8. CASE /\ workdir' = Tree(s) /\ gen' = gen + 1 /\ procs' = Append(procs, x)
           /\ cmd' = n /\ state' = "running"
  <2>1. x \in Processes /\ x.gen = gen + 1 /\ x.life = "up" /\ ~x.stopped /\ x.src = s
    BY <1>3 DEF NewProcess, Processes, TypeOK
  <2> HIDE DEF x
  <2>2. /\ procs' \in Seq(Processes) /\ Len(procs') = n /\ DOMAIN procs' = DOMAIN procs \cup {n}
        /\ Len(procs) \in Nat /\ DOMAIN procs = 1..Len(procs)
        /\ procs'[n] = x /\ \A q \in DOMAIN procs : procs'[q] = procs[q]
    BY <1>8, <2>1, ProcessStarts
  <2>3. n \notin DOMAIN procs /\ n # 0 /\ n \in 0..Len(procs')
    BY <2>2
  <2> HIDE DEF n
  <2>4. TypeOK'
    <3>1. gen' \in Nat
      BY <1>8 DEF TypeOK
    <3> QED BY SMTT(30), <1>1, <1>2, <1>4, <1>5, <1>6, <1>8, <2>2, <2>3, <3>1, NoCallTyped DEF TypeOK
  <2>5. Generations'
    <3>1. gen \in Nat /\ \A q \in DOMAIN procs : procs[q].gen \in Nat /\ procs[q].gen <= gen
      BY ProcessTyped DEF Generations, TypeOK
    <3>2. \A q \in DOMAIN procs : procs'[q].gen < gen' /\ procs'[q].gen <= gen' /\ procs'[q].gen # gen'
      BY <1>8, <2>2, <3>1
    <3>3. procs'[n].gen = gen' /\ procs'[n].gen <= gen'
      BY <1>8, <2>1, <2>2, <3>1
    <3> QED BY <1>8, <2>2, <3>2, <3>3 DEF Generations
  <2>6. TracksLastProcess'
    BY <1>3, <1>8, <2>1, <2>2, <2>3 DEF TracksLastProcess
  <2>7. OneProcess'
    BY <1>1, <1>2, <1>3, <1>4, <1>8, <2>2, <2>3 DEF OneProcess
  <2>8. RunsItsSource'
    BY <1>1, <1>3, <1>8, <2>1, <2>2 DEF RunsItsSource, Tree
  <2> QED BY <1>7, <2>4, <2>5, <2>6, <2>7, <2>8
<1>9. CASE UNCHANGED <<gen, procs, cmd>> /\ state' \in {state, "failed"}
  <2>1. TypeOK'
    BY <1>1, <1>2, <1>4, <1>5, <1>6, <1>9, NoCallTyped DEF TypeOK
  <2>2. Generations' /\ RunsItsSource' /\ TracksLastProcess'
    BY <1>3, <1>9 DEF Generations, RunsItsSource, TracksLastProcess
  <2>3. OneProcess'
    BY <1>1, <1>2, <1>4, <1>9 DEF OneProcess
  <2> QED BY <1>7, <2>1, <2>2, <2>3
<1>10. \/ /\ workdir' = Tree(s) /\ gen' = gen + 1 /\ procs' = Append(procs, x)
          /\ cmd' = n /\ state' = "running"
       \/ UNCHANGED <<gen, procs, cmd>> /\ state' \in {state, "failed"}
  BY <1>3 DEF Fill, Filled, core
<1> QED BY <1>8, <1>9, <1>10

\* unregistering the staging directory,
LEMMA UnregisterKeeps ==
    ASSUME AgentInv, NEW h \in Handlers, Unregister(h)
    PROVE AgentInv'
<1> USE AgentAssumption DEF AgentInv
<1>1. /\ call[h].pc = "unregister" /\ mu = None /\ stages' = stages \ {h}
      /\ call' = [call EXCEPT ![h].pc = "remove"]
      /\ UNCHANGED <<calls, stage, mu, workdir, residue, restarts, gen, cmd, state, procs>>
  BY DEF Unregister, core
<1>2. /\ call' \in [Handlers -> Calls] /\ call'[h].pc = "remove"
      /\ call'[h].kind = call[h].kind /\ call'[h].src = call[h].src
      /\ \A g \in Handlers \ {h} : call'[g] = call[g]
  BY <1>1, MovesTo DEF Pcs
<1>3. TypeOK'
  BY <1>1, <1>2 DEF TypeOK
<1>4. CallsFormed' /\ UnderLock'
  BY <1>1, <1>2 DEF CallsFormed, UnderLock
<1>5. Generations' /\ TracksLastProcess' /\ RunsItsSource' /\ OneProcess'
  BY <1>1, <1>2 DEF Generations, TracksLastProcess, RunsItsSource, OneProcess
<1>6. Registered' /\ FetchedSourceKept'
  BY <1>1, <1>2 DEF Registered, FetchedSourceKept, Working
<1> QED BY <1>3, <1>4, <1>5, <1>6

\* removing it,
LEMMA RemoveStageKeeps ==
    ASSUME AgentInv, NEW h \in Handlers, RemoveStage(h)
    PROVE AgentInv'
<1> USE AgentAssumption DEF AgentInv
<1>1. /\ call[h].pc = "remove" /\ stage' = [stage EXCEPT ![h] = "none"]
      /\ call' = [call EXCEPT ![h] = NoCall]
      /\ UNCHANGED <<calls, stages, mu, workdir, residue, restarts, gen, cmd, state, procs>>
  BY DEF RemoveStage, core
<1>2. /\ call' \in [Handlers -> Calls] /\ call'[h] = NoCall
      /\ \A g \in Handlers \ {h} : call'[g] = call[g]
  BY <1>1, CallMoves, NoCallTyped
<1>3. TypeOK'
  BY <1>1, <1>2, NoCallTyped DEF TypeOK
<1>4. CallsFormed' /\ UnderLock'
  BY <1>1, <1>2, NoCallTyped DEF CallsFormed, UnderLock, TypeOK
<1>5. Generations' /\ TracksLastProcess' /\ RunsItsSource'
  BY <1>1 DEF Generations, TracksLastProcess, RunsItsSource
<1>6. OneProcess'
  BY <1>1, <1>2, NoCallTyped DEF OneProcess, TypeOK
<1>7. Registered' /\ FetchedSourceKept'
  BY <1>1, <1>2, NoCallTyped DEF Registered, FetchedSourceKept, Working, TypeOK
<1> QED BY <1>3, <1>4, <1>5, <1>6, <1>7

\* A process that ends keeps its place, its generation and its history.
LEMMA LifeChanges ==
    ASSUME TypeOK, NEW p \in DOMAIN procs, NEW l \in {"up", "orphan", "drained", "reported"},
           procs' = [procs EXCEPT ![p].life = l]
    PROVE /\ procs' \in Seq(Processes) /\ Len(procs') = Len(procs)
          /\ DOMAIN procs' = DOMAIN procs /\ procs'[p].life = l
          /\ \A q \in DOMAIN procs : /\ procs'[q].gen = procs[q].gen
                                     /\ procs'[q].stopped = procs[q].stopped
                                     /\ procs'[q].abandoned = procs[q].abandoned
                                     /\ procs'[q].src = procs[q].src
          /\ \A q \in DOMAIN procs \ {p} : procs'[q].life = procs[q].life
<1> DEFINE x == [procs[p] EXCEPT !.life = l]
<1>1. procs[p] \in Processes
  BY ProcessTyped
<1>2. /\ x \in Processes /\ x.life = l /\ x.gen = procs[p].gen /\ x.stopped = procs[p].stopped
      /\ x.abandoned = procs[p].abandoned /\ x.src = procs[p].src
  BY <1>1 DEF Processes
<1>3. procs' = [procs EXCEPT ![p] = x]
  OBVIOUS
<1> HIDE DEF x
<1> QED BY <1>2, <1>3, ProcessChanges

\* A process that ends without being reported.
LEMMA ProcessEndsKeeps ==
    ASSUME AgentInv, NEW p \in DOMAIN procs, procs[p].life \in {"up", "orphan"},
           NEW l \in {"orphan", "drained"}, procs' = [procs EXCEPT ![p].life = l],
           UNCHANGED <<calls, call, mu, gen, cmd, state, stage, stages, workdir, residue, restarts>>
    PROVE AgentInv'
<1> USE AgentAssumption DEF AgentInv
<1>1. /\ procs' \in Seq(Processes) /\ Len(procs') = Len(procs)
      /\ DOMAIN procs' = DOMAIN procs /\ procs'[p].life = l
      /\ \A q \in DOMAIN procs : /\ procs'[q].gen = procs[q].gen
                                 /\ procs'[q].stopped = procs[q].stopped
                                 /\ procs'[q].abandoned = procs[q].abandoned
                                 /\ procs'[q].src = procs[q].src
      /\ \A q \in DOMAIN procs \ {p} : procs'[q].life = procs[q].life
  BY LifeChanges
<1>2. TypeOK' /\ CallsFormed' /\ Registered' /\ FetchedSourceKept'
  BY <1>1 DEF TypeOK, CallsFormed, Registered, FetchedSourceKept, Working
<1>3. UnderLock'
  BY <1>1 DEF UnderLock
<1>4. Generations'
  BY <1>1 DEF Generations, TypeOK
<1>5. TracksLastProcess'
  BY <1>1 DEF TracksLastProcess
<1>6. OneProcess'
  BY <1>1 DEF OneProcess
<1>7. RunsItsSource'
  BY <1>1 DEF RunsItsSource, TypeOK
<1> QED BY <1>2, <1>3, <1>4, <1>5, <1>6, <1>7

\* A supervisor that reports keeps the invariant.
LEMMA SuperviseKeeps ==
    ASSUME AgentInv, NEW p \in DOMAIN procs, Supervise(p)
    PROVE AgentInv'
<1> USE AgentAssumption DEF AgentInv
<1>1. /\ procs[p].life = "drained" /\ mu = None
      /\ procs' = [procs EXCEPT ![p].life = "reported"]
      /\ UNCHANGED <<calls, call, mu, gen, stage, stages, workdir, residue, restarts>>
  BY DEF Supervise, files
<1>2. /\ procs' \in Seq(Processes) /\ Len(procs') = Len(procs)
      /\ DOMAIN procs' = DOMAIN procs /\ procs'[p].life = "reported"
      /\ \A q \in DOMAIN procs : /\ procs'[q].gen = procs[q].gen
                                 /\ procs'[q].stopped = procs[q].stopped
                                 /\ procs'[q].abandoned = procs[q].abandoned
                                 /\ procs'[q].src = procs[q].src
      /\ \A q \in DOMAIN procs \ {p} : procs'[q].life = procs[q].life
  BY <1>1, LifeChanges
<1>3. \/ gen = procs[p].gen /\ cmd = p /\ cmd' = 0 /\ state' \in {"exited", "failed"}
      \/ gen # procs[p].gen /\ cmd # p /\ UNCHANGED <<cmd, state>>
  BY <1>1 DEF Supervise, IsCurrent, Generations, TypeOK
<1>4. TypeOK'
  BY <1>1, <1>2, <1>3 DEF TypeOK
<1>5. CallsFormed' /\ Registered' /\ FetchedSourceKept' /\ UnderLock'
  BY <1>1 DEF CallsFormed, Registered, FetchedSourceKept, UnderLock, Working
<1>6. Generations'
  BY <1>1, <1>2, <1>3 DEF Generations, TypeOK
<1>7. TracksLastProcess'
  BY <1>1, <1>2, <1>3 DEF TracksLastProcess
<1>8. OneProcess'
  BY <1>1, <1>2, <1>3 DEF OneProcess
<1>9. RunsItsSource'
  BY <1>1, <1>2, <1>3 DEF RunsItsSource, TypeOK
<1> QED BY <1>4, <1>5, <1>6, <1>7, <1>8, <1>9

\* So does a restart of the container.
LEMMA RestartKeeps ==
    ASSUME AgentInv, Restart
    PROVE AgentInv'
<1>1. calls' \in 0..MaxCalls /\ restarts' \in 0..MaxRestarts
  BY AgentAssumption DEF AgentInv, TypeOK, Restart
<1>2. workdir' \subseteq Sources \X Parts /\ residue' \in BOOLEAN
  BY DEF AgentInv, TypeOK, Restart
<1>3. /\ call' = [h \in Handlers |-> NoCall] /\ stage' = [h \in Handlers |-> "none"]
      /\ stages' = {} /\ mu' = None /\ gen' = 0 /\ cmd' = 0 /\ state' = "idle" /\ procs' = <<>>
  BY DEF Restart
<1> USE AgentAssumption
<1>4. /\ call' \in [Handlers -> Calls]
      /\ \A h \in Handlers : call'[h].pc = "idle" /\ call'[h].kind = "stop"
  BY <1>3, NoCallTyped
<1>5. TypeOK'
  BY <1>1, <1>2, <1>3, <1>4 DEF TypeOK
<1>6. CallsFormed' /\ UnderLock' /\ Registered' /\ FetchedSourceKept'
  BY <1>3, <1>4 DEF CallsFormed, UnderLock, Registered, FetchedSourceKept, Working
<1>7. Generations' /\ TracksLastProcess' /\ OneProcess' /\ RunsItsSource'
  BY <1>3 DEF Generations, TracksLastProcess, OneProcess, RunsItsSource
<1> QED BY <1>5, <1>6, <1>7 DEF AgentInv

\* The invariant holds at the start,
LEMMA AgentInit == Init => AgentInv
<1> SUFFICES ASSUME Init PROVE AgentInv
  OBVIOUS
<1> USE AgentAssumption
<1>1. /\ call \in [Handlers -> Calls]
      /\ \A h \in Handlers : call[h].pc = "idle" /\ call[h].kind = "stop"
  BY NoCallTyped DEF Init
<1>2. calls \in 0..MaxCalls /\ restarts \in 0..MaxRestarts
  BY DEF Init
<1>3. TypeOK
  <2>1. procs \in Seq(Processes) /\ cmd \in 0..Len(procs) /\ gen \in Nat
    BY DEF Init
  <2>2. /\ stage \in [Handlers -> {"none", "dir", "full"}] /\ stages \subseteq Handlers
        /\ mu \in Handlers \cup {None} /\ workdir \subseteq Sources \X Parts
    BY DEF Init
  <2>3. state \in {"idle", "running", "exited", "failed"} /\ residue \in BOOLEAN
    BY DEF Init
  <2>4. \A h \in Handlers : (mu = h) <=> call[h].pc \in {"term", "kill", "reset", "fill"}
    BY <1>1 DEF Init
  <2> QED BY <1>1, <1>2, <2>1, <2>2, <2>3, <2>4 DEF TypeOK
<1>4. CallsFormed /\ UnderLock /\ Registered /\ FetchedSourceKept
  BY <1>1 DEF Init, CallsFormed, UnderLock, Registered, FetchedSourceKept, Working
<1>5. Generations /\ TracksLastProcess /\ OneProcess /\ RunsItsSource
  BY DEF Init, Generations, TracksLastProcess, OneProcess, RunsItsSource
<1> QED BY <1>3, <1>4, <1>5 DEF AgentInv

\* and every step keeps it.
LEMMA AgentStep == AgentInv /\ [Next]_vars => AgentInv'
<1> SUFFICES ASSUME AgentInv, [Next]_vars PROVE AgentInv'
  OBVIOUS
<1>1. CASE \E h \in Handlers : Call(h)
  BY <1>1, CallKeeps
<1>2. CASE \E h \in Handlers : Handler(h)
  BY <1>2, RegisterKeeps, FetchKeeps, LockKeeps, StopDoneKeeps, TermTimeoutKeeps,
     KillTimeoutKeeps, ResetKeeps, FillKeeps, UnregisterKeeps, RemoveStageKeeps DEF Handler
<1>3. CASE \E p \in DOMAIN procs : ProcessExits(p) \/ OrphanExits(p)
  BY <1>3, ProcessEndsKeeps DEF ProcessExits, OrphanExits, files
<1>4. CASE \E p \in DOMAIN procs : ProcessWrites(p)
  BY <1>4 DEF ProcessWrites, core, files, AgentInv, TypeOK, CallsFormed, UnderLock,
     Generations, Registered, TracksLastProcess, OneProcess, RunsItsSource, FetchedSourceKept
<1>5. CASE \E p \in DOMAIN procs : Supervise(p)
  BY <1>5, SuperviseKeeps
<1>6. CASE Restart
  BY <1>6, RestartKeeps
<1>7. CASE UNCHANGED vars
  BY <1>7 DEF vars, AgentInv, TypeOK, CallsFormed, UnderLock, Generations, Registered,
     TracksLastProcess, OneProcess, RunsItsSource, FetchedSourceKept
<1> QED BY <1>1, <1>2, <1>3, <1>4, <1>5, <1>6, <1>7 DEF Next

\* The agent tracks the process it started last and no other, for any number
\* of concurrent calls: a supervisor that reports late changes nothing.
THEOREM AgentTracksLastProcess == Spec => []TracksLastProcess
<1>1. AgentInv => TracksLastProcess
  BY DEF AgentInv
<1> QED BY <1>1, AgentInit, AgentStep, PTL DEF Spec

\* The tracked process runs in exactly the tree its inject brought, whatever
\* failed injects, concurrent ones and a crashed agent left behind.
THEOREM AgentIsolatesInjects == Spec => []RunsItsSource
<1>1. AgentInv => RunsItsSource
  BY DEF AgentInv
<1> QED BY <1>1, AgentInit, AgentStep, PTL DEF Spec

\* No process but the tracked one lives, unless its reap was abandoned or it
\* is being stopped.
THEOREM AgentRunsOneProcess == Spec => []OneProcess
<1>1. AgentInv => OneProcess
  BY DEF AgentInv
<1> QED BY <1>1, AgentInit, AgentStep, PTL DEF Spec

\* No reset clears a fetched source before its own inject has moved it.
THEOREM AgentKeepsFetchedSource == Spec => []FetchedSourceKept
<1>1. AgentInv => FetchedSourceKept
  BY DEF AgentInv
<1> QED BY <1>1, AgentInit, AgentStep, PTL DEF Spec

-----------------------------------------------------------------------------
(* The log buffer.                                                         *)

Lines == Seq(Nat)
Buffers == [buf: [0..(Capacity - 1) -> Lines], start: 0..(Capacity - 1),
            count: 0..Capacity, partial: Lines]

\* The buffer r holds, oldest first, the last lines of w; it has not turned
\* round before it is full.
Ring(r, w) ==
    /\ r \in Buffers /\ w \in Seq(Lines)
    /\ r.count = IF Len(w) < Capacity THEN Len(w) ELSE Capacity
    /\ r.count < Capacity => r.start = 0
    /\ \A i \in 0..(r.count - 1) :
          r.buf[(r.start + i) % Capacity] = w[Len(w) - r.count + i + 1]

\* Indexes wrap round once.
LEMMA Wrap ==
    ASSUME NEW a \in 0..(Capacity - 1)
    PROVE a % Capacity = a /\ (a + Capacity) % Capacity = a
BY RingAssumption

\* The buffer starts empty.
LEMMA RingEmpty == Ring(newRingBuffer, <<>>)
BY RingAssumption DEF Ring, newRingBuffer, Buffers, Lines

\* A line is appended behind the lines the buffer held, in place of the oldest
\* one when it is full.
LEMMA RingAppends ==
    ASSUME NEW r, NEW w, Ring(r, w), NEW line \in Lines
    PROVE /\ Ring(appendLine(r, line), Append(w, line))
          /\ appendLine(r, line).partial = r.partial
<1> DEFINE C == Capacity
           q == appendLine(r, line)
           v == Append(w, line)
<1>c. C \in Nat \ {0}
  BY RingAssumption
<1>t. /\ r \in Buffers /\ w \in Seq(Lines) /\ Len(w) \in Nat
      /\ r.start \in 0..(C - 1) /\ r.count \in 0..C
      /\ r.buf \in [0..(C - 1) -> Lines] /\ r.partial \in Lines
  BY DEF Ring, Buffers
<1>v. /\ v \in Seq(Lines) /\ Len(v) = Len(w) + 1
      /\ \A i \in 1..Len(w) : v[i] = w[i]
      /\ v[Len(w) + 1] = line
  BY <1>t
<1>h. /\ r.count = IF Len(w) < C THEN Len(w) ELSE C
      /\ r.count < C => r.start = 0
      /\ \A i \in 0..(r.count - 1) : r.buf[(r.start + i) % C] = w[Len(w) - r.count + i + 1]
  BY DEF Ring
<1> HIDE DEF C, v
<1>1. CASE r.count < C
  <2>1. (r.start + r.count) % C = r.count /\ r.count \in 0..(C - 1)
    <3>1. r.start = 0 /\ r.count \in 0..(C - 1) /\ r.start + r.count = r.count
      BY <1>1, <1>c, <1>t, <1>h
    <3>2. r.count % C = r.count
      BY <3>1, Wrap DEF C
    <3> QED BY <3>1, <3>2
  <2>2. q = [r EXCEPT !.buf[r.count] = line, !.count = @ + 1]
    BY <1>1, <1>t, <2>1 DEF appendLine, C, Buffers
  <2>3. /\ q.buf = [r.buf EXCEPT ![r.count] = line] /\ q.count = r.count + 1
        /\ q.start = 0 /\ q.partial = r.partial /\ q \in Buffers
    <3>1. r.start = 0 /\ r.count + 1 \in 0..C
      BY <1>1, <1>c, <1>t, <1>h
    <3>2. [r.buf EXCEPT ![r.count] = line] \in [0..(C - 1) -> Lines]
      BY <1>t, <2>1
    <3>3. q = [buf |-> [r.buf EXCEPT ![r.count] = line], start |-> r.start,
               count |-> r.count + 1, partial |-> r.partial]
      BY <1>t, <2>2 DEF Buffers
    <3> QED BY <1>t, <3>1, <3>2, <3>3 DEF Buffers, C
  <2> HIDE DEF q
  <2>4. \A i \in 0..(q.count - 1) : q.buf[(q.start + i) % C] = v[Len(v) - q.count + i + 1]
    <3>0. Len(v) - q.count = 0 /\ q.count - 1 = r.count
      BY <1>1, <1>t, <1>h, <1>v, <2>3
    <3> SUFFICES ASSUME NEW i \in 0..r.count PROVE q.buf[i] = v[i + 1] /\ (0 + i) % C = i
      BY <2>3, <3>0
    <3>1. (0 + i) % C = i /\ i \in 0..(C - 1)
      BY <1>1, <1>c, <1>t, Wrap DEF C
    <3>2. CASE i = r.count
      <4>0. r.count = Len(w)
        BY <1>1, <1>c, <1>h, <1>t
      <4>1. Len(w) = i /\ q.buf[i] = line
        BY <1>t, <2>1, <2>3, <3>2, <4>0
      <4> QED BY <1>v, <3>1, <4>1
    <3>3. CASE i < r.count
      <4>1. q.buf[i] = r.buf[i]
        BY <1>t, <2>3, <3>1, <3>3
      <4>2. r.buf[i] = w[i + 1]
        BY <1>1, <1>h, <1>t, <3>1, <3>3
      <4> QED BY <1>1, <1>h, <1>t, <1>v, <3>1, <3>3, <4>1, <4>2
    <3> QED BY <1>t, <3>1, <3>2, <3>3
  <2>5. q.count = IF Len(v) < C THEN Len(v) ELSE C
    BY <1>1, <1>c, <1>h, <1>t, <1>v, <2>3
  <2> QED BY <1>v, <2>3, <2>4, <2>5 DEF Ring, C, q, v
<1>2. CASE r.count = C
  <2> DEFINE s == IF r.start = C - 1 THEN 0 ELSE r.start + 1
  <2>1. (r.start + r.count) % C = r.start /\ (r.start + 1) % C = s /\ s \in 0..(C - 1)
    <3>1. (r.start + C) % C = r.start
      BY <1>c, <1>t, Wrap DEF C
    <3>2. CASE r.start = C - 1
      <4>1. (0 + C) % C = 0
        BY <1>c, Wrap DEF C
      <4> QED BY <1>2, <1>c, <1>t, <3>1, <3>2, <4>1
    <3>3. CASE r.start # C - 1
      <4>1. r.start + 1 \in 0..(C - 1)
        BY <1>c, <1>t, <3>3
      <4> QED BY <1>2, <1>c, <1>t, <3>1, <3>3, <4>1, Wrap DEF C
    <3> QED BY <3>2, <3>3
  <2> HIDE DEF s
  <2>2. q = [buf |-> [r.buf EXCEPT ![r.start] = line], start |-> s,
             count |-> r.count, partial |-> r.partial]
    <3>1. ~(r.count < C)
      BY <1>2, <1>c
    <3>2. q = [[r EXCEPT !.buf[r.start] = line] EXCEPT !.start = s]
      BY <1>t, <2>1, <3>1 DEF appendLine, C, Buffers
    <3> QED BY <1>t, <3>2 DEF Buffers
  <2>3. /\ q.buf = [r.buf EXCEPT ![r.start] = line] /\ q.count = C
        /\ q.start = s /\ q.partial = r.partial /\ q \in Buffers
    <3>1. [r.buf EXCEPT ![r.start] = line] \in [0..(C - 1) -> Lines]
      BY <1>t
    <3> QED BY <1>2, <1>t, <2>1, <2>2, <3>1 DEF Buffers, C
  <2> HIDE DEF q
  <2>4. \A i \in 0..(q.count - 1) : q.buf[(q.start + i) % C] = v[Len(v) - q.count + i + 1]
    <3> SUFFICES ASSUME NEW i \in 0..(C - 1)
                 PROVE q.buf[(s + i) % C] = v[Len(w) + 1 - C + i + 1]
      <4>2. Len(v) - q.count = Len(w) + 1 - C
        BY <1>c, <1>t, <1>v, <2>3
      <4> QED BY <2>3, <4>2
    <3>1. CASE i = C - 1
      <4>1. (s + i) % C = r.start
        <5>1. CASE r.start = C - 1
          <6>1. s + i = r.start
            BY <1>c, <1>t, <3>1, <5>1 DEF s
          <6> QED BY <1>t, <6>1, Wrap DEF C
        <5>2. CASE r.start # C - 1
          <6>1. s + i = r.start + C
            BY <1>c, <1>t, <3>1, <5>2 DEF s
          <6> QED BY <1>2, <2>1, <6>1
        <5> QED BY <5>1, <5>2
      <4> QED BY <1>2, <1>c, <1>t, <1>v, <2>3, <3>1, <4>1
    <3>2. CASE i < C - 1
      <4> DEFINE j == i + 1
      <4>1. j \in 0..(C - 1) /\ j \in 0..(r.count - 1) /\ j # 0
        BY <1>2, <1>c, <3>2
      <4>2. (s + i) % C = (r.start + j) % C
        <5>1. CASE r.start = C - 1
          <6>1. r.start + j = i + C /\ s + i = i
            BY <1>c, <1>t, <5>1 DEF s
          <6>2. i % C = i /\ (i + C) % C = i
            BY Wrap DEF C
          <6> QED BY <6>1, <6>2
        <5>2. CASE r.start # C - 1
          <6>0. s = r.start + 1 /\ i \in Int /\ r.start \in Int
            BY <1>c, <1>t, <5>2 DEF s
          <6>1. s + i = r.start + j
            BY <6>0
          <6> QED BY <6>1
        <5> QED BY <5>1, <5>2
      <4>3. (r.start + j) % C # r.start /\ (r.start + j) % C \in 0..(C - 1)
        <5>1. CASE r.start + j < C
          <6>0. r.start + j \in 0..(C - 1)
            BY <1>c, <1>t, <4>1, <5>1
          <6>1. (r.start + j) % C = r.start + j
            BY <6>0, Wrap DEF C
          <6> QED BY SMTT(30), <1>c, <1>t, <4>1, <5>1, <6>1
        <5>2. CASE r.start + j >= C
          <6> DEFINE a == r.start + j - C
          <6>1. a \in 0..(C - 1) /\ a + C = r.start + j /\ a # r.start
            BY SMTT(30), <1>c, <1>t, <4>1, <5>2
          <6>2. (a + C) % C = a
            BY <6>1, Wrap DEF C
          <6> QED BY <6>1, <6>2
        <5> QED BY <1>c, <1>t, <4>1, <5>1, <5>2
      <4>4. r.buf[(r.start + j) % C] = w[Len(w) - C + j + 1]
        BY <1>2, <1>h, <4>1
      <4>5. Len(w) - C + j + 1 \in 1..Len(w) /\ Len(w) - C + j + 1 = Len(w) + 1 - C + i + 1
        BY <1>2, <1>c, <1>h, <1>t, <3>2
      <4> QED BY <1>t, <1>v, <2>3, <4>2, <4>3, <4>4, <4>5
    <3> QED BY <1>c, <3>1, <3>2
  <2>5. q.count = IF Len(v) < C THEN Len(v) ELSE C
    <3>1. Len(w) >= C
      BY <1>2, <1>c, <1>h, <1>t
    <3> QED BY <1>c, <1>t, <1>v, <2>3, <3>1
  <2>6. ~(q.count < C)
    BY <1>c, <2>3
  <2>7. Ring(q, v)
    BY <1>v, <2>3, <2>4, <2>5, <2>6 DEF Ring, C
  <2> QED BY <2>3, <2>7 DEF q, v
<1> QED BY <1>1, <1>2, <1>c, <1>t

\* Output of the process started last, or of an abandoned one.
OfLast(line) ==
    \A i \in DOMAIN line :
        line[i] = Len(procs) \/ (line[i] \in DOMAIN procs /\ procs[line[i]].abandoned)

\* The process that is being stopped is the one started last.
VictimIsLast ==
    mu # None /\ call[mu].pc \in {"term", "kill"} => call[mu].victim = Len(procs)

\* The inductive invariant of the log buffer.
LogsInv == /\ Ring(logs, written) /\ VictimIsLast /\ OfLast(logs.partial)
           /\ \A i \in DOMAIN written : OfLast(written[i])

\* A write puts a completed line behind the others and keeps an open one apart.
LEMMA RingWrites ==
    ASSUME NEW r, NEW w, Ring(r, w), NEW p \in Nat, NEW newline \in BOOLEAN
    PROVE LET line == Append(r.partial, p) IN
          IF Completes(r, newline)
          THEN Ring(Write(r, p, newline), Append(w, line)) /\ Write(r, p, newline).partial = <<>>
          ELSE Ring(Write(r, p, newline), w) /\ Write(r, p, newline).partial = line
<1> DEFINE line == Append(r.partial, p)
           q == appendLine(r, line)
<1>1. r \in Buffers /\ r.partial \in Lines
  BY DEF Ring, Buffers
<1>2. line \in Lines
  BY <1>1 DEF Lines
<1>3. CASE Completes(r, newline)
  <2> HIDE DEF q, line
  <2>1. Ring(q, Append(w, line))
    BY <1>2, RingAppends DEF q
  <2>2. Write(r, p, newline) = [q EXCEPT !.partial = <<>>]
    BY <1>3 DEF Write, q, line
  <2>3. q \in Buffers /\ <<>> \in Lines
    BY <2>1 DEF Ring, Lines
  <2> DEFINE x == [q EXCEPT !.partial = <<>>]
  <2>4. /\ x \in Buffers /\ x.buf = q.buf /\ x.start = q.start /\ x.count = q.count
        /\ x.partial = <<>>
    BY <2>3 DEF Buffers
  <2> HIDE DEF x
  <2>5. Ring(x, Append(w, line))
    BY <2>1, <2>4 DEF Ring
  <2> QED BY <1>3, <2>2, <2>4, <2>5 DEF x, line
<1>4. CASE ~Completes(r, newline)
  <2> HIDE DEF line
  <2> DEFINE x == [r EXCEPT !.partial = line]
  <2>1. Write(r, p, newline) = x
    BY <1>4 DEF Write, line
  <2>2. /\ x \in Buffers /\ x.buf = r.buf /\ x.start = r.start /\ x.count = r.count
        /\ x.partial = line
    BY <1>1, <1>2 DEF Buffers
  <2> HIDE DEF x
  <2>3. Ring(x, w)
    BY <2>2 DEF Ring
  <2> QED BY <1>4, <2>1, <2>2, <2>3 DEF line
<1> QED BY <1>3, <1>4

\* The last k elements of w, and the last k complete lines of a buffer.
LastOf(w, k) == SubSeq(w, Len(w) - k + 1, Len(w))
Taken(r, k) == [i \in 1..k |-> r.buf[(r.start + (r.count - k) + i - 1) % Capacity]]

\* What LastOf returns.
LEMMA LastElements ==
    ASSUME NEW S, NEW w \in Seq(S), NEW k \in 0..Len(w)
    PROVE /\ LastOf(w, k) \in Seq(S) /\ Len(LastOf(w, k)) = k
          /\ \A i \in 1..k : LastOf(w, k)[i] = w[Len(w) - k + i]
<1> DEFINE m == Len(w) - k + 1
<1>1. Len(w) \in Nat /\ m \in Int /\ Len(w) \in Int /\ m \in 1..(Len(w) + 1)
  OBVIOUS
<1>2. \A i \in m..Len(w) : w[i] \in S
  BY <1>1
<1>3. /\ SubSeq(w, m, Len(w)) \in Seq(S)
      /\ Len(SubSeq(w, m, Len(w))) = IF m <= Len(w) THEN Len(w) - m + 1 ELSE 0
      /\ \A i \in 1..(Len(w) - m + 1) : SubSeq(w, m, Len(w))[i] = w[m + i - 1]
  BY <1>1, <1>2, SubSeqProperties
<1>4. /\ Len(w) - m + 1 = k /\ (m <= Len(w) <=> k > 0)
      /\ \A i \in 1..k : m + i - 1 = Len(w) - k + i
  BY <1>1
<1>5. Len(SubSeq(w, m, Len(w))) = k
  BY <1>1, <1>3, <1>4
<1>6. \A i \in 1..k : SubSeq(w, m, Len(w))[i] = w[Len(w) - k + i]
  BY <1>3, <1>4
<1> HIDE DEF m
<1> QED BY <1>3, <1>5, <1>6 DEF LastOf, m

\* What Ring says in numbers.
LEMMA RingNumbers ==
    ASSUME NEW r, NEW w, Ring(r, w)
    PROVE /\ w \in Seq(Lines) /\ Len(w) \in Nat /\ r.count \in Nat /\ r.start \in Nat
          /\ Capacity \in Nat \ {0} /\ r.partial \in Lines /\ r.count <= Len(w)
          /\ r.count = IF Len(w) < Capacity THEN Len(w) ELSE Capacity
<1>1. /\ r \in Buffers /\ w \in Seq(Lines)
      /\ r.count = IF Len(w) < Capacity THEN Len(w) ELSE Capacity
  BY DEF Ring
<1>2. /\ Capacity \in Nat \ {0} /\ Len(w) \in Nat /\ r.count \in 0..Capacity
      /\ r.start \in 0..(Capacity - 1) /\ r.partial \in Lines
  BY <1>1, RingAssumption DEF Buffers
<1> QED BY <1>1, <1>2

\* The complete lines a snapshot takes are the last ones written.
LEMMA TakesLast ==
    ASSUME NEW r, NEW w, Ring(r, w), NEW k \in 0..r.count
    PROVE Taken(r, k) = LastOf(w, k)
<1>1. /\ w \in Seq(Lines) /\ Len(w) \in Nat /\ r.count \in Nat /\ r.start \in Nat
      /\ r.count <= Len(w)
  BY RingNumbers
<1>2. k \in 0..Len(w) /\ k \in Nat
  BY <1>1
<1>3. /\ LastOf(w, k) \in Seq(Lines) /\ Len(LastOf(w, k)) = k
      /\ \A i \in 1..k : LastOf(w, k)[i] = w[Len(w) - k + i]
  BY <1>1, <1>2, LastElements
<1>4. LastOf(w, k) \in [1..k -> Lines]
  BY <1>3, LenProperties
<1>5. ASSUME NEW i \in 1..k
      PROVE r.buf[(r.start + (r.count - k) + i - 1) % Capacity] = LastOf(w, k)[i]
  <2> DEFINE j == r.count - k + i - 1
  <2>0. i \in Nat /\ 1 <= i /\ i <= k /\ k <= r.count
    BY <1>1, <1>2
  <2>1. /\ j \in 0..(r.count - 1) /\ r.start + (r.count - k) + i - 1 = r.start + j
        /\ Len(w) - r.count + j + 1 = Len(w) - k + i
    <3>1. \A c, s, l, x, y \in Int :
             /\ s + (c - x) + y - 1 = s + (c - x + y - 1)
             /\ l - c + (c - x + y - 1) + 1 = l - x + y
             /\ 1 <= y /\ y <= x /\ x <= c => c - x + y - 1 \in 0..(c - 1)
      OBVIOUS
    <3>2. r.count \in Int /\ r.start \in Int /\ Len(w) \in Int /\ k \in Int /\ i \in Int
      BY <1>1, <1>2, <2>0
    <3> QED BY <2>0, <3>1, <3>2
  <2> HIDE DEF j
  <2>2. r.buf[(r.start + j) % Capacity] = w[Len(w) - r.count + j + 1]
    BY <2>1 DEF Ring
  <2> QED BY <1>3, <2>1, <2>2
<1> HIDE DEF LastOf
<1> QED BY <1>4, <1>5 DEF Taken

\* So a snapshot is the tail of what was written, for any number of lines.
LEMMA RingSnapshot ==
    ASSUME NEW r, NEW w, Ring(r, w), NEW n \in Nat
    PROVE LET all == IF r.partial = <<>> THEN w ELSE Append(w, r.partial)
              kept == Capacity + Len(all) - Len(w)
              want == IF n = 0 THEN kept ELSE n
              have == IF kept < Len(all) THEN kept ELSE Len(all)
              take == IF want < have THEN want ELSE have
          IN  snapshot(r, n) = SubSeq(all, Len(all) - take + 1, Len(all))
<1> DEFINE all == IF r.partial = <<>> THEN w ELSE Append(w, r.partial)
           kept == Capacity + Len(all) - Len(w)
           want == IF n = 0 THEN kept ELSE n
           have == IF kept < Len(all) THEN kept ELSE Len(all)
           take == IF want < have THEN want ELSE have
<1> SUFFICES snapshot(r, n) = LastOf(all, take)
  BY DEF LastOf
<1>1. /\ w \in Seq(Lines) /\ Len(w) \in Nat /\ r.count \in Nat /\ r.start \in Nat
      /\ Capacity \in Nat \ {0} /\ r.partial \in Lines /\ r.count <= Len(w)
      /\ r.count = IF Len(w) < Capacity THEN Len(w) ELSE Capacity
  BY RingNumbers
<1>2. CASE r.partial = <<>>
  <2>1. all = w /\ kept = Capacity
    BY <1>1, <1>2
  <2> DEFINE k == IF n > 0 /\ n < r.count THEN n ELSE r.count
  <2>2. take = k /\ k \in 0..r.count
    BY <1>1, <2>1
  <2>3. snapshot(r, n) = Taken(r, k) \o <<>>
    <3>1. r.count + 0 = r.count /\ k - 0 = k
      BY <1>1, <2>2
    <3> QED BY <1>2, <3>1 DEF snapshot, Taken
  <2> HIDE DEF k
  <2>4. Taken(r, k) = LastOf(w, k)
    BY <2>2, TakesLast
  <2>5. LastOf(w, k) \in Seq(Lines)
    <3>1. k \in 0..Len(w)
      BY <1>1, <2>2
    <3> QED BY <1>1, <3>1, LastElements
  <2>6. LastOf(w, k) \o <<>> = LastOf(w, k)
    BY <2>5, ConcatEmptySeq
  <2> QED BY <2>1, <2>2, <2>3, <2>4, <2>6
<1>3. CASE r.partial # <<>>
  <2>1. all = Append(w, r.partial) /\ Len(all) = Len(w) + 1 /\ all \in Seq(Lines)
        /\ (\A i \in 1..Len(w) : all[i] = w[i]) /\ all[Len(w) + 1] = r.partial
    BY <1>1, <1>3
  <2> HIDE DEF all
  <2>2. kept = Capacity + 1
    BY <1>1, <2>1
  <2> HIDE DEF kept
  <2> DEFINE k == (IF n > 0 /\ n < r.count + 1 THEN n ELSE r.count + 1) - 1
  <2>3. k \in 0..r.count /\ k \in Nat /\ k <= Len(w)
    BY <1>1
  <2>4. take = k + 1
    <3>1. have = r.count + 1
      BY <1>1, <2>1, <2>2
    <3> HIDE DEF have
    <3> QED BY <1>1, <2>2, <3>1
  <2> HIDE DEF take
  <2>5. snapshot(r, n) = Taken(r, k) \o <<r.partial>>
    <3> DEFINE pending == IF r.partial = <<>> THEN 0 ELSE 1
               taking == (IF n > 0 /\ n < r.count + pending THEN n ELSE r.count + pending) - pending
    <3>1. snapshot(r, n) = Taken(r, taking) \o (IF pending = 1 THEN <<r.partial>> ELSE <<>>)
      BY DEF snapshot, Taken
    <3>2. pending = 1
      BY <1>3
    <3> HIDE DEF pending
    <3>3. taking = k
      BY <3>2
    <3> HIDE DEF taking, k
    <3> QED BY <3>1, <3>2, <3>3
  <2> HIDE DEF k
  <2>6. Taken(r, k) = LastOf(w, k)
    BY <2>3, TakesLast
  <2> DEFINE a == LastOf(w, k)
             b == LastOf(all, k + 1)
  <2>7. a \in Seq(Lines) /\ Len(a) = k /\ \A i \in 1..k : a[i] = w[Len(w) - k + i]
    <3>1. k \in 0..Len(w)
      BY <1>1, <2>3
    <3> QED BY <1>1, <3>1, LastElements
  <2>8. b \in Seq(Lines) /\ Len(b) = k + 1 /\ \A i \in 1..(k + 1) : b[i] = all[Len(w) - k + i]
    <3>1. k + 1 \in 0..Len(all)
      BY <1>1, <2>1, <2>3
    <3>2. /\ b \in Seq(Lines) /\ Len(b) = k + 1
          /\ \A i \in 1..(k + 1) : b[i] = all[Len(all) - (k + 1) + i]
      BY <2>1, <3>1, LastElements
    <3>3. Len(all) - (k + 1) = Len(w) - k
      BY <1>1, <2>1, <2>3
    <3> QED BY <3>2, <3>3
  <2> HIDE DEF a, b
  <2>9. a \o <<r.partial>> \in Seq(Lines) /\ Len(a \o <<r.partial>>) = k + 1
        /\ (\A i \in 1..k : (a \o <<r.partial>>)[i] = a[i]) /\ (a \o <<r.partial>>)[k + 1] = r.partial
    <3>1. a \o <<r.partial>> = Append(a, r.partial)
      BY <1>1, <2>7, AppendIsConcat
    <3> QED BY <1>1, <2>3, <2>7, <3>1
  <2>10. ASSUME NEW i \in 1..(k + 1) PROVE b[i] = (a \o <<r.partial>>)[i]
    <3>1. CASE i \in 1..k
      <4>1. Len(w) - k + i \in 1..Len(w)
        BY <1>1, <2>3, <3>1
      <4> QED BY <2>1, <2>7, <2>8, <2>9, <3>1, <4>1
    <3>2. CASE i = k + 1
      <4>1. Len(w) - k + i = Len(w) + 1
        BY <1>1, <2>3, <3>2
      <4> QED BY <2>1, <2>8, <2>9, <3>2, <4>1
    <3>3. i \in 1..k \/ i = k + 1
      BY <2>3
    <3> QED BY <3>1, <3>2, <3>3
  <2>11. b = a \o <<r.partial>>
    BY <2>8, <2>9, <2>10, SeqEqual
  <2> QED BY <2>4, <2>5, <2>6, <2>11 DEF a, b
<1> QED BY <1>2, <1>3

\* Lines stay of the last process while the processes keep their places and
\* none but the last is less abandoned than before.
ProcsKept ==
    /\ Len(procs') = Len(procs) /\ DOMAIN procs' = DOMAIN procs
    /\ \A q \in DOMAIN procs : q # Len(procs) => procs'[q].abandoned = procs[q].abandoned

\* Such a step, if it leaves the buffer alone, keeps the invariant;
LEMMA LogsKept ==
    ASSUME LogsInv, ProcsKept, UNCHANGED <<logs, written>>, VictimIsLast'
    PROVE LogsInv'
<1>1. \A line : OfLast(line) => OfLast(line)'
  BY DEF OfLast, ProcsKept
<1> QED BY <1>1 DEF LogsInv

\* After the buffer is reset nothing of an earlier process is in it.
LEMMA LogsReset ==
    ASSUME ResetLogs, VictimIsLast'
    PROVE LogsInv'
<1>1. logs' = newRingBuffer /\ written' = <<>>
  BY DEF ResetLogs
<1>2. Ring(logs', written')
  BY <1>1, RingEmpty
<1>3. OfLast(<<>>)'
  BY DEF OfLast
<1>4. logs'.partial = <<>>
  BY <1>1 DEF newRingBuffer
<1> QED BY <1>1, <1>2, <1>3, <1>4 DEF LogsInv

\* A step of a call that does not start to wait for a process.
LEMMA VictimStays ==
    ASSUME AgentInv, VictimIsLast, NEW h \in Handlers,
           \A g \in Handlers \ {h} : call'[g] = call[g],
           Len(procs') = Len(procs), mu' \in {mu, None, h},
           mu' = h /\ call'[h].pc \in {"term", "kill"} => call'[h].victim = Len(procs')
    PROVE VictimIsLast'
<1>1. mu \in Handlers \cup {None}
  BY DEF AgentInv, TypeOK
<1> QED BY <1>1 DEF VictimIsLast

\* so does every step of a call,
LEMMA LogsHandler ==
    ASSUME AgentInv, AgentInv', LogsInv, NEW h \in Handlers, Call(h) \/ Handler(h)
    PROVE LogsInv'
<1>t. TypeOK /\ TypeOK' /\ VictimIsLast
  BY DEF AgentInv, LogsInv
<1>k. UNCHANGED procs => ProcsKept
  BY DEF ProcsKept
<1>h. (mu = h <=> call[h].pc \in Working) /\ None \notin Handlers
  BY <1>t, AgentAssumption DEF TypeOK, Working
<1>1. CASE Call(h)
  <2>1. PICK c : call' = [call EXCEPT ![h] = c]
    BY <1>1 DEF Call
  <2>2. \A g \in Handlers \ {h} : call'[g] = call[g]
    BY <1>t, <2>1 DEF TypeOK
  <2>3. UNCHANGED <<mu, procs, logs, written>> /\ mu # h
    BY <1>1, <1>h DEF Call, core, output, Working
  <2> QED BY <1>k, <1>t, <2>2, <2>3, LogsKept, VictimStays
<1>2. CASE Register(h) \/ Fetch(h) \/ Unregister(h) \/ RemoveStage(h)
  <2>1. PICK c : call' = [call EXCEPT ![h] = c]
    BY <1>2 DEF Register, Fetch, Unregister, RemoveStage
  <2>2. \A g \in Handlers \ {h} : call'[g] = call[g]
    BY <1>t, <2>1 DEF TypeOK
  <2>3. UNCHANGED <<mu, procs, logs, written>> /\ mu # h
    BY <1>2, <1>h DEF Register, Fetch, Unregister, RemoveStage, core, output, Working
  <2> QED BY <1>k, <1>t, <2>2, <2>3, LogsKept, VictimStays
<1>3. CASE Lock(h)
  <2>1. UNCHANGED <<logs, written>>
    BY <1>3 DEF Lock, output
  <2>2. CASE Stopped(h) /\ UNCHANGED core
    <3>1. /\ \A g \in Handlers \ {h} : call'[g] = call[g]
          /\ mu' = None \/ call'[h].pc = "reset"
          /\ mu' \in {None, h} /\ UNCHANGED procs
      BY <1>t, <2>2, StoppedMoves DEF core
    <3> QED BY <1>k, <1>t, <1>h, <2>1, <3>1, LogsKept, VictimStays
  <2>3. CASE /\ cmd # 0 /\ procs' = [procs EXCEPT ![cmd].stopped = TRUE]
             /\ call' = [call EXCEPT ![h].pc = "term", ![h].victim = cmd] /\ mu' = h
    <3>0. cmd \in DOMAIN procs /\ cmd = Len(procs)
      <4>1. cmd \in DOMAIN procs
        BY <1>t, <2>3 DEF TypeOK
      <4> QED BY <4>1 DEF AgentInv, TracksLastProcess
    <3> DEFINE x == [procs[cmd] EXCEPT !.stopped = TRUE]
               c == [call[h] EXCEPT !.pc = "term", !.victim = cmd]
    <3>1. x \in Processes /\ x.abandoned = procs[cmd].abandoned
      BY <1>t, <3>0, ProcessTyped DEF Processes
    <3>2. procs' = [procs EXCEPT ![cmd] = x]
      BY <2>3
    <3> HIDE DEF x
    <3>3. ProcsKept
      BY <1>t, <3>0, <3>1, <3>2, ProcessChanges DEF ProcsKept
    <3>4. c \in Calls /\ c.victim = cmd
      <4>1. cmd \in Nat /\ call[h] \in Calls /\ "term" \in Pcs
        BY <1>t DEF TypeOK, Pcs
      <4> QED BY <4>1 DEF Calls
    <3>5. call' = [call EXCEPT ![h] = c]
      BY <1>t, <2>3 DEF TypeOK
    <3> HIDE DEF c
    <3>6. call'[h].victim = cmd /\ \A g \in Handlers \ {h} : call'[g] = call[g]
      BY <1>t, <3>4, <3>5, CallMoves
    <3> QED BY <1>t, <2>1, <2>3, <3>0, <3>3, <3>6, LogsKept, VictimStays DEF ProcsKept
  <2> QED BY <1>3, <2>2, <2>3 DEF Lock
<1>4. CASE StopDone(h)
  <2>1. Stopped(h) /\ UNCHANGED <<procs, logs, written>>
    BY <1>4 DEF StopDone, core, output
  <2>2. /\ \A g \in Handlers \ {h} : call'[g] = call[g]
        /\ mu' = None \/ call'[h].pc = "reset"
        /\ mu' \in {None, h}
    BY <1>t, <2>1, StoppedMoves
  <2> QED BY <1>k, <1>t, <1>h, <2>1, <2>2, LogsKept, VictimStays
<1>5. CASE TermTimeout(h)
  <2>1. "kill" \in Pcs
    BY DEF Pcs
  <2>2. call' = [call EXCEPT ![h].pc = "kill"] /\ UNCHANGED <<mu, procs, logs, written>>
    BY <1>5 DEF TermTimeout, core, output
  <2>3. call'[h].victim = call[h].victim /\ \A g \in Handlers \ {h} : call'[g] = call[g]
    BY <1>t, <2>1, <2>2, MovesTo
  <2>4. call[h].victim = Len(procs)
    BY <1>5, <1>h, <1>t DEF TermTimeout, VictimIsLast, Working
  <2> QED BY <1>k, <1>t, <2>2, <2>3, <2>4, LogsKept, VictimStays
<1>6. CASE KillTimeout(h)
  <2> DEFINE v == call[h].victim
             x == [procs[v] EXCEPT !.abandoned = ~Done(v)]
  <2>1. Stopped(h) /\ procs' = [procs EXCEPT ![v] = x] /\ UNCHANGED <<logs, written>>
    BY <1>6 DEF KillTimeout, output
  <2>2. v = Len(procs) /\ v \in DOMAIN procs
    BY <1>6, <1>h, <1>t DEF KillTimeout, VictimIsLast, Working, AgentInv, UnderLock
  <2>3. x \in Processes
    BY <1>t, <2>2, ProcessTyped DEF Processes, Done
  <2> HIDE DEF x, v
  <2>4. ProcsKept
    BY <1>t, <2>1, <2>2, <2>3, ProcessChanges DEF ProcsKept
  <2>5. /\ \A g \in Handlers \ {h} : call'[g] = call[g]
        /\ mu' = None \/ call'[h].pc = "reset"
        /\ mu' \in {None, h}
    BY <1>t, <2>1, StoppedMoves
  <2> QED BY <1>t, <1>h, <2>1, <2>4, <2>5, LogsKept, VictimStays DEF ProcsKept
<1>7. CASE Reset(h)
  <2>1. UNCHANGED <<procs, logs, written>>
    BY <1>7 DEF Reset, Swept, core, output
  <2>2. CASE call' = [call EXCEPT ![h].pc = "fill"] /\ UNCHANGED mu
    <3>1. "fill" \in Pcs
      BY DEF Pcs
    <3>2. call'[h].pc = "fill" /\ \A g \in Handlers \ {h} : call'[g] = call[g]
      BY <1>t, <2>2, <3>1, MovesTo
    <3> QED BY <1>k, <1>t, <2>1, <2>2, <3>2, LogsKept, VictimStays
  <2>3. CASE Finish(h)
    <3>1. mu' = None
      BY <2>3 DEF Finish
    <3>2. VictimIsLast'
      BY <3>1 DEF VictimIsLast
    <3> QED BY <1>k, <2>1, <3>2, LogsKept
  <2> QED BY <1>7, <2>2, <2>3 DEF Reset, Swept
<1>8. CASE Fill(h)
  <2>1. mu' = None
    BY <1>8 DEF Fill, Finish
  <2>2. VictimIsLast'
    BY <2>1 DEF VictimIsLast
  <2>3. ResetLogs \/ UNCHANGED <<procs, logs, written>>
    BY <1>8 DEF Fill, core, output
  <2> QED BY <1>k, <2>2, <2>3, LogsKept, LogsReset
<1> QED BY <1>1, <1>2, <1>3, <1>4, <1>5, <1>6, <1>7, <1>8 DEF Handler

\* A process writes only if it is the last one or abandoned.
LEMMA WriterIsLast ==
    ASSUME AgentInv, LogsInv, NEW p \in DOMAIN procs, procs[p].life \in {"up", "orphan"}
    PROVE p = Len(procs) \/ procs[p].abandoned
<1>1. CASE cmd = p
  BY <1>1 DEF AgentInv, TracksLastProcess
<1>2. CASE cmd # p
  BY <1>2 DEF AgentInv, OneProcess, LogsInv, VictimIsLast
<1> QED BY <1>1, <1>2

\* and every step of a process or its supervisor.
LEMMA LogsProcess ==
    ASSUME AgentInv, LogsInv, NEW p \in DOMAIN procs,
           ProcessExits(p) \/ OrphanExits(p) \/ ProcessWrites(p) \/ Supervise(p)
    PROVE LogsInv'
<1>t. TypeOK /\ VictimIsLast
  BY DEF AgentInv, LogsInv
<1>1. CASE ProcessExits(p) \/ OrphanExits(p) \/ Supervise(p)
  <2>1. PICK l \in {"drained", "orphan", "reported"} : procs' = [procs EXCEPT ![p].life = l]
    BY <1>1 DEF ProcessExits, OrphanExits, Supervise
  <2>2. ProcsKept
    BY <1>t, <2>1, LifeChanges DEF ProcsKept
  <2>3. UNCHANGED <<call, mu, logs, written>>
    BY <1>1 DEF ProcessExits, OrphanExits, Supervise, output
  <2>4. VictimIsLast'
    BY <1>t, <2>2, <2>3 DEF VictimIsLast, ProcsKept
  <2> QED BY <2>2, <2>3, <2>4, LogsKept
<1>2. CASE ProcessWrites(p)
  <2>0. p \in Nat /\ UNCHANGED <<call, mu, procs>>
    BY <1>2, <1>t DEF TypeOK, ProcessWrites, core
  <2>1. PICK newline \in BOOLEAN :
           /\ logs' = Write(logs, p, newline)
           /\ written' = IF Completes(logs, newline)
                         THEN Append(written, Append(logs.partial, p)) ELSE written
    BY <1>2 DEF ProcessWrites
  <2>2. p = Len(procs) \/ procs[p].abandoned
    BY <1>2, WriterIsLast DEF ProcessWrites
  <2> DEFINE line == Append(logs.partial, p)
  <2>3. Ring(logs, written) /\ logs.partial \in Seq(Nat) /\ written \in Seq(Lines)
    BY RingNumbers DEF LogsInv, Lines
  <2>4. line \in Lines /\ OfLast(line)
    <3>1. /\ line \in Seq(Nat) /\ Len(line) = Len(logs.partial) + 1
          /\ \A i \in 1..Len(logs.partial) : line[i] = logs.partial[i]
          /\ line[Len(logs.partial) + 1] = p
      BY <2>0, <2>3, AppendProperties
    <3>d. /\ DOMAIN line = 1..(Len(logs.partial) + 1) /\ Len(logs.partial) \in Nat
          /\ DOMAIN logs.partial = 1..Len(logs.partial)
      BY <2>3, <3>1, LenProperties
    <3> HIDE DEF line
    <3>2. ASSUME NEW i \in DOMAIN line
          PROVE line[i] = p \/ (i \in DOMAIN logs.partial /\ line[i] = logs.partial[i])
      <4>1. i \in 1..(Len(logs.partial) + 1) /\ Len(logs.partial) \in Nat
        BY <3>d, <3>2
      <4>2. i \in 1..Len(logs.partial) \/ i = Len(logs.partial) + 1
        BY <4>1
      <4> QED BY <3>1, <3>d, <4>2
    <3>3. OfLast(logs.partial)
      BY DEF LogsInv
    <3> QED BY <2>2, <3>1, <3>2, <3>3 DEF OfLast, Lines
  <2> HIDE DEF line
  <2>5. /\ Completes(logs, newline) => Ring(logs', written') /\ logs'.partial = <<>>
        /\ ~Completes(logs, newline) => Ring(logs', written') /\ logs'.partial = line
    BY <2>0, <2>1, <2>3, RingWrites DEF line
  <2>6. OfLast(<<>>)
    BY DEF OfLast
  <2>7. ASSUME NEW i \in DOMAIN written' PROVE OfLast(written'[i])
    <3>1. CASE Completes(logs, newline)
      <4>1. written' = Append(written, line)
        BY <2>1, <3>1 DEF line
      <4>2. (i \in DOMAIN written /\ written'[i] = written[i]) \/ written'[i] = line
        BY <2>3, <2>4, <2>7, <4>1
      <4> QED BY <2>4, <4>2 DEF LogsInv
    <3>2. CASE ~Completes(logs, newline)
      BY <2>1, <3>2 DEF LogsInv
    <3> QED BY <3>1, <3>2
  <2>8. OfLast(logs'.partial)
    BY <2>4, <2>5, <2>6
  <2>9. \A l : OfLast(l) => OfLast(l)'
    BY <2>0 DEF OfLast
  <2>10. VictimIsLast'
    BY <1>t, <2>0 DEF VictimIsLast
  <2> QED BY <2>5, <2>7, <2>8, <2>9, <2>10 DEF LogsInv
<1> QED BY <1>1, <1>2

\* Every step keeps the invariant of the log buffer.
LEMMA LogsStep == AgentInv /\ AgentInv' /\ LogsInv /\ [Next]_vars => LogsInv'
<1> SUFFICES ASSUME AgentInv, AgentInv', LogsInv, [Next]_vars PROVE LogsInv'
  OBVIOUS
<1>1. CASE \E h \in Handlers : Call(h) \/ Handler(h)
  BY <1>1, LogsHandler
<1>2. CASE \E p \in DOMAIN procs :
              ProcessExits(p) \/ OrphanExits(p) \/ ProcessWrites(p) \/ Supervise(p)
  BY <1>2, LogsProcess
<1>3. CASE Restart
  BY <1>3, LogsReset DEF Restart, ResetLogs, VictimIsLast
<1>4. CASE UNCHANGED vars
  BY <1>4 DEF vars, LogsInv, VictimIsLast, OfLast
<1> QED BY <1>1, <1>2, <1>3, <1>4 DEF Next

\* The invariant holds at the start.
LEMMA LogsInit == Init => LogsInv
<1> SUFFICES ASSUME Init PROVE LogsInv
  OBVIOUS
<1>1. logs = newRingBuffer /\ written = <<>> /\ mu = None
  BY DEF Init
<1>2. logs.partial = <<>> /\ OfLast(<<>>)
  BY <1>1 DEF newRingBuffer, OfLast
<1> QED BY <1>1, <1>2, RingEmpty DEF LogsInv, VictimIsLast

\* What /logs answers is, for every number of lines asked for and every
\* capacity, exactly the tail of what the process wrote: the circular buffer
\* (appendLine, snapshot) loses, repeats and reorders no line.
THEOREM LogsAreTail == Spec => []SnapshotIsTail
<1>1. LogsInv => SnapshotIsTail
  <2> SUFFICES ASSUME LogsInv PROVE SnapshotIsTail
    OBVIOUS
  <2>1. Ring(logs, written)
    BY DEF LogsInv
  <2>2. 0..(Capacity + 1) \subseteq Nat
    BY RingAssumption
  <2> QED BY <2>1, <2>2, RingSnapshot DEF SnapshotIsTail
<1> QED BY <1>1, AgentInit, AgentStep, LogsInit, LogsStep, PTL DEF Spec

\* /logs shows output of the process started last only, unless a process whose
\* reap was abandoned still writes, however injects, stops, supervisors and
\* escaped descendants interleave.
THEOREM LogsShowLastProcess == Spec => []LogsOfLastProcess
<1>1. LogsInv => LogsOfLastProcess
  <2> SUFFICES ASSUME LogsInv, NEW i \in DOMAIN snapshot(logs, 0)
               PROVE OfLast(snapshot(logs, 0)[i])
    BY DEF LogsOfLastProcess, OfLast
  <2> DEFINE all == IF logs.partial = <<>> THEN written ELSE Append(written, logs.partial)
             kept == Capacity + Len(all) - Len(written)
             take == IF kept < Len(all) THEN kept ELSE Len(all)
  <2>1. /\ Ring(logs, written) /\ written \in Seq(Lines) /\ logs.partial \in Lines
        /\ Capacity \in Nat \ {0} /\ Len(written) \in Nat
    BY RingNumbers DEF LogsInv
  <2>2. /\ all \in Seq(Lines) /\ Len(all) \in Nat /\ Len(written) <= Len(all)
        /\ \A j \in 1..Len(all) :
              all[j] = logs.partial \/ (j \in DOMAIN written /\ all[j] = written[j])
    <3>1. CASE logs.partial = <<>>
      BY <2>1, <3>1
    <3>2. CASE logs.partial # <<>>
      <4>1. all = Append(written, logs.partial)
        BY <3>2
      <4>2. /\ all \in Seq(Lines) /\ Len(all) = Len(written) + 1
            /\ (\A j \in 1..Len(written) : all[j] = written[j])
            /\ all[Len(written) + 1] = logs.partial
        BY <2>1, <4>1, AppendProperties
      <4> HIDE DEF all
      <4>3. \A j \in 1..Len(all) : j \in 1..Len(written) \/ j = Len(written) + 1
        BY <2>1, <4>2
      <4> QED BY <2>1, <4>2, <4>3
    <3> QED BY <3>1, <3>2
  <2>3. snapshot(logs, 0) = LastOf(all, take)
    <3> DEFINE want == IF 0 = 0 THEN kept ELSE 0
               least == IF want < take THEN want ELSE take
    <3>1. snapshot(logs, 0) = SubSeq(all, Len(all) - least + 1, Len(all))
      BY <2>1, RingSnapshot
    <3> HIDE DEF all
    <3>2. least = take
      BY <2>1, <2>2
    <3> HIDE DEF least, take
    <3> QED BY <3>1, <3>2 DEF LastOf
  <2> HIDE DEF all
  <2>4. take \in 0..Len(all) /\ take \in Nat
    BY <2>1, <2>2
  <2> HIDE DEF take
  <2>5. /\ LastOf(all, take) \in Seq(Lines) /\ Len(LastOf(all, take)) = take
        /\ \A k \in 1..take : LastOf(all, take)[k] = all[Len(all) - take + k]
    BY <2>2, <2>4, LastElements
  <2>6. i \in 1..take
    BY <2>3, <2>5
  <2>7. Len(all) - take + i \in 1..Len(all)
    BY <2>2, <2>4, <2>6
  <2> QED BY <2>2, <2>3, <2>5, <2>6, <2>7 DEF LogsInv
<1> QED BY <1>1, AgentInit, AgentStep, LogsInit, LogsStep, PTL DEF Spec
=============================================================================
