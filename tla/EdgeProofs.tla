----------------------------- MODULE EdgeProofs -----------------------------
(***************************************************************************)
(* The fast lane with its loader, the router, the event stream and the     *)
(* artifact stores, for every set of names, clients and artifacts.  Each   *)
(* part has an inductive invariant of its own; a step of one leaves the    *)
(* variables of the others alone.                                          *)
(***************************************************************************)
EXTENDS MCEdge, FiniteSetTheorems, FunctionTheorems, WellFoundedInduction, SequenceTheorems, TLAPS

-----------------------------------------------------------------------------
(* A step is one of a single part.                                         *)

LEMMA StepOfOnePart ==
    ASSUME [EdgeNext]_allVars
    PROVE  /\ FastLane!Next \/ UNCHANGED laneVars
           /\ Routing!Next \/ UNCHANGED routerVars
           /\ Stream!Next \/ UNCHANGED streamVars
           /\ Stores!Next \/ UNCHANGED storeVars
BY DEF EdgeNext, allVars, QuotaNext, LaneNext, RouterNext, StreamNext, StoresNext

-----------------------------------------------------------------------------
(* The loader's ports.                                                     *)

\* A set of naturals with an element has a least one.
LEMMA LeastElement ==
    ASSUME NEW S \in SUBSET Nat, S # {}
    PROVE  FastLane!Min(S) \in S
<1>1. \E x \in S : \A y \in S : ~(<<y, x>> \in OpToRel(<, Nat))
    BY WFMin, NatLessThanWellFounded
<1>2. ASSUME NEW x \in S, NEW y \in S, ~(<<y, x>> \in OpToRel(<, Nat))
      PROVE  x <= y
    <2>1. <<y, x>> \in Nat \X Nat /\ <<y, x>>[1] = y /\ <<y, x>>[2] = x
        OBVIOUS
    <2>2. ~(y < x)
        BY <1>2, <2>1 DEF OpToRel
    <2> QED
        BY <2>2
<1>3. \E x \in S : \A y \in S : x <= y
    BY <1>1, <1>2
<1> QED
    BY <1>3 DEF FastLane!Min

\* The loader's map and what workerd serves.
PortsTyped ==
    /\ ports \in [FastLane!Shards -> [FastLane!Ports -> EdgeNames \cup {None}]]
    /\ config \in [FastLane!Shards -> [FastLane!Ports -> EdgeNames \cup {None}]]

\* An app is on its own replica, on one port.
Distinct ==
    \A s \in FastLane!Shards, p \in FastLane!Ports :
       ports[s][p] # None =>
          /\ Shard[ports[s][p]] = s
          /\ \A q \in FastLane!Ports : ports[s][q] = ports[s][p] => q = p

\* The upstream t is app n's, for the loader and for workerd.
Backed(n, t) ==
    /\ t \in FastLane!Targets /\ t[1] = Shard[n]
    /\ ports[t[1]][t[2]] = n /\ config[t[1]][t[2]] = n

\* There is a port for every app: with one free when one has none.
LEMMA PortIsFree ==
    ASSUME PortsTyped, Distinct, NEW n \in EdgeNames, FastLane!PortOf(n) = {}
    PROVE  FastLane!FreePorts(Shard[n]) # {}
<1> SUFFICES ASSUME FastLane!FreePorts(Shard[n]) = {} PROVE FALSE
    OBVIOUS
<1> PICK f : f = ports[Shard[n]]
    OBVIOUS
<1> PICK k : k = Cardinality(EdgeNames)
    OBVIOUS
<1>1. k \in Nat
    BY EdgeAssumption, FS_CardinalityType
<1>2. FastLane!Ports = 0..(k - 1)
    <2>1. FastLane!Cardinality(EdgeNames) = Cardinality(EdgeNames)
        BY DEF FastLane!Cardinality, Cardinality
    <2> QED
        BY <2>1 DEF FastLane!Ports
<1>3. IsFiniteSet(0..(k - 1)) /\ Cardinality(0..(k - 1)) = k
    <2>1. 0 \in Int /\ k - 1 \in Int
        BY <1>1
    <2>2. /\ IsFiniteSet(0..(k - 1))
          /\ Cardinality(0..(k - 1)) = IF 0 > k - 1 THEN 0 ELSE (k - 1) - 0 + 1
        BY <2>1, FS_Interval
    <2> QED
        BY <1>1, <2>2
<1>4. Shard[n] \in FastLane!Shards
    BY DEF FastLane!Shards
<1>5. f \in [FastLane!Ports -> EdgeNames \ {n}]
    BY <1>4 DEF PortsTyped, FastLane!FreePorts, FastLane!PortOf
<1>6. IsFiniteSet(EdgeNames \ {n}) /\ Cardinality(EdgeNames \ {n}) = k - 1
    BY EdgeAssumption, FS_RemoveElement
<1>7. \E x, y \in FastLane!Ports : x # y /\ f[x] = f[y]
    BY <1>1, <1>2, <1>3, <1>5, <1>6, FS_PigeonHole
<1> QED
    BY <1>4, <1>5, <1>7, EdgeAssumption DEF Distinct

\* The port a Put gives is the app's own, or free.
LEMMA PutPortFits ==
    ASSUME PortsTyped, Distinct, NEW n \in EdgeNames
    PROVE  /\ FastLane!PutPort(n) \in FastLane!Ports
           /\ ports[Shard[n]][FastLane!PutPort(n)] \in {n, None}
           /\ \A q \in FastLane!Ports : ports[Shard[n]][q] = n => q = FastLane!PutPort(n)
<1>1. Shard[n] \in FastLane!Shards
    BY DEF FastLane!Shards
<1>2. CASE FastLane!PortOf(n) # {}
    <2>1. FastLane!PutPort(n) \in FastLane!PortOf(n)
        BY <1>2 DEF FastLane!PutPort
    <2> QED
        BY <1>1, <2>1, EdgeAssumption DEF FastLane!PortOf, Distinct
<1>3. CASE FastLane!PortOf(n) = {}
    <2>1. FastLane!FreePorts(Shard[n]) # {} /\ FastLane!FreePorts(Shard[n]) \in SUBSET Nat
        BY <1>3, PortIsFree DEF FastLane!FreePorts, FastLane!Ports
    <2>2. FastLane!PutPort(n) \in FastLane!FreePorts(Shard[n])
        BY <1>3, <2>1, LeastElement DEF FastLane!PutPort, FastLane!AssignPort
    <2> QED
        BY <1>3, <2>2 DEF FastLane!FreePorts, FastLane!PortOf
<1> QED
    BY <1>2, <1>3

\* Put, rendered or not: nobody else's port is touched.
LEMMA PutKeeps ==
    ASSUME PortsTyped, Distinct, NEW n \in EdgeNames, FastLane!Put(n),
           FastLane!RenderFails(Shard[n])
    PROVE  /\ PortsTyped' /\ Distinct'
           /\ \A m \in EdgeNames : \A t : Backed(m, t) => Backed(m, t)'
           /\ \A t : t = <<Shard[n], FastLane!PutPort(n)>> /\ FastLane!Render(Shard[n])
                     => Backed(n, t)'
<1> PICK s : s = Shard[n]
    OBVIOUS
<1> PICK p : p = FastLane!PutPort(n)
    OBVIOUS
<1>1. s \in FastLane!Shards
    BY DEF FastLane!Shards
<1>2. /\ p \in FastLane!Ports /\ ports[s][p] \in {n, None}
      /\ \A q \in FastLane!Ports : ports[s][q] = n => q = p
    BY PutPortFits
<1>3. ports' = [ports EXCEPT ![s] = [ports[s] EXCEPT ![p] = n]]
    BY DEF FastLane!Put
<1>4. [ports[s] EXCEPT ![p] = n] \in [FastLane!Ports -> EdgeNames \cup {None}]
    BY <1>1, <1>2 DEF PortsTyped
<1>5. ports' \in [FastLane!Shards -> [FastLane!Ports -> EdgeNames \cup {None}]]
    BY <1>3, <1>4 DEF PortsTyped
<1>6. /\ ports'[s][p] = n
      /\ \A q \in FastLane!Ports \ {p} : ports'[s][q] = ports[s][q]
      /\ \A z \in FastLane!Shards \ {s} : ports'[z] = ports[z]
    BY <1>1, <1>2, <1>3 DEF PortsTyped
<1>7. /\ config' \in [FastLane!Shards -> [FastLane!Ports -> EdgeNames \cup {None}]]
      /\ config'[s] \in {config[s], ports'[s]}
      /\ FastLane!Render(s) => config'[s] = ports'[s]
      /\ \A z \in FastLane!Shards \ {s} : config'[z] = config[z]
    BY <1>1, <1>5 DEF PortsTyped, FastLane!RenderFails, FastLane!Render
<1>8. Distinct'
    <2> SUFFICES ASSUME NEW z \in FastLane!Shards, NEW q \in FastLane!Ports, ports'[z][q] # None
                 PROVE  /\ Shard[ports'[z][q]] = z
                        /\ \A x \in FastLane!Ports : ports'[z][x] = ports'[z][q] => x = q
        BY DEF Distinct
    <2>1. CASE z # s
        BY <1>6, <2>1 DEF Distinct
    <2>2. CASE z = s /\ q = p
        BY <1>2, <1>6, <2>2
    <2>3. CASE z = s /\ q # p
        <3>1. ports'[z][q] = ports[z][q] /\ ports[z][q] # n
            BY <1>2, <1>6, <2>3
        <3> QED
            BY <1>6, <2>3, <3>1 DEF Distinct
    <2> QED
        BY <2>1, <2>2, <2>3
<1>9. ASSUME NEW m \in EdgeNames, NEW t, Backed(m, t) PROVE Backed(m, t)'
    <2>1. /\ t \in FastLane!Targets /\ t[1] \in FastLane!Shards /\ t[2] \in FastLane!Ports
          /\ t[1] = Shard[m] /\ ports[t[1]][t[2]] = m /\ config[t[1]][t[2]] = m
        BY <1>9 DEF Backed, FastLane!Targets
    <2>2. ports'[t[1]][t[2]] = m
        BY <1>2, <1>6, <2>1, EdgeAssumption
    <2>3. config'[t[1]][t[2]] = m
        BY <1>7, <2>1, <2>2
    <2> QED
        BY <2>1, <2>2, <2>3 DEF Backed
<1>10. ASSUME NEW t, t = <<s, p>>, FastLane!Render(s) PROVE Backed(n, t)'
    BY <1>1, <1>2, <1>6, <1>7, <1>10 DEF Backed, FastLane!Targets
<1>11. PortsTyped'
    BY <1>5, <1>7 DEF PortsTyped
<1> QED
    BY <1>8, <1>9, <1>10, <1>11

\* Remove, rendered or not: only the app's own port is freed.
LEMMA FreeKeeps ==
    ASSUME PortsTyped, Distinct, NEW n \in EdgeNames, FastLane!Free(n),
           FastLane!RenderFails(Shard[n])
    PROVE  /\ PortsTyped' /\ Distinct'
           /\ \A m \in EdgeNames \ {n} : \A t : Backed(m, t) => Backed(m, t)'
<1> PICK s : s = Shard[n]
    OBVIOUS
<1>1. s \in FastLane!Shards
    BY DEF FastLane!Shards
<1> PICK f : f = [p \in FastLane!Ports |-> IF ports[s][p] = n THEN None ELSE ports[s][p]]
    OBVIOUS
<1>2. ports' = [ports EXCEPT ![s] = f]
    BY DEF FastLane!Free
<1>3. f \in [FastLane!Ports -> EdgeNames \cup {None}]
    BY <1>1 DEF PortsTyped
<1>4. ports' \in [FastLane!Shards -> [FastLane!Ports -> EdgeNames \cup {None}]]
    BY <1>2, <1>3 DEF PortsTyped
<1>5. ports'[s] = f /\ \A z \in FastLane!Shards \ {s} : ports'[z] = ports[z]
    BY <1>1, <1>2 DEF PortsTyped
<1>6. /\ config' \in [FastLane!Shards -> [FastLane!Ports -> EdgeNames \cup {None}]]
      /\ config'[s] \in {config[s], ports'[s]}
      /\ \A z \in FastLane!Shards \ {s} : config'[z] = config[z]
    BY <1>1, <1>4 DEF PortsTyped, FastLane!RenderFails, FastLane!Render
<1>7. Distinct'
    <2> SUFFICES ASSUME NEW z \in FastLane!Shards, NEW q \in FastLane!Ports, ports'[z][q] # None
                 PROVE  /\ Shard[ports'[z][q]] = z
                        /\ \A x \in FastLane!Ports : ports'[z][x] = ports'[z][q] => x = q
        BY DEF Distinct
    <2>1. CASE z # s
        BY <1>5, <2>1 DEF Distinct
    <2>2. CASE z = s
        <3>1. \A x \in FastLane!Ports : ports'[z][x] # None => ports'[z][x] = ports[z][x]
            BY <1>5, <2>2
        <3> QED
            BY <3>1 DEF Distinct
    <2> QED
        BY <2>1, <2>2
<1>8. ASSUME NEW m \in EdgeNames \ {n}, NEW t, Backed(m, t) PROVE Backed(m, t)'
    <2>1. /\ t \in FastLane!Targets /\ t[1] \in FastLane!Shards /\ t[2] \in FastLane!Ports
          /\ t[1] = Shard[m] /\ ports[t[1]][t[2]] = m /\ config[t[1]][t[2]] = m
        BY <1>8 DEF Backed, FastLane!Targets
    <2>2. ports'[t[1]][t[2]] = m
        BY <1>5, <1>8, <2>1
    <2>3. config'[t[1]][t[2]] = m
        BY <1>6, <2>1, <2>2
    <2> QED
        BY <2>1, <2>2, <2>3 DEF Backed
<1>9. PortsTyped'
    BY <1>4, <1>6 DEF PortsTyped
<1> QED
    BY <1>7, <1>8, <1>9

-----------------------------------------------------------------------------
(* The controller's passes over the loader.                                *)

LaneTyped ==
    /\ fleet \in [EdgeNames -> FastLane!Apps \cup {None}]
    /\ seen \in [EdgeNames -> FastLane!Apps \cup {None}]
    /\ fresh \in [EdgeNames -> BOOLEAN]
    /\ ctl \in [EdgeNames -> FastLane!Writes \cup {None}]

\* Only a Ready app has an upstream, and a write of one that will be accepted
\* was made from the current app: it changes nothing, takes the upstream away,
\* or names one that is the app's own, unless a loader dropped it meanwhile.
NameOk(n) ==
    /\ fresh[n] => seen[n] = fleet[n]
    /\ fleet[n] # None /\ fleet[n].target # None
          => fleet[n].phase = "Ready" /\ (n \notin unbacked => Backed(n, fleet[n].target))
    /\ seen[n] # None /\ seen[n].target # None => seen[n].phase = "Ready"
    /\ ctl[n] # None =>
          /\ ctl[n].target # None => ctl[n].phase = "Ready"
          /\ ctl[n].valid =>
                /\ fresh[n] /\ seen[n] # None
                /\ \/ ctl[n].target = None \/ ctl[n].dropped
                   \/ Backed(n, ctl[n].target)
                   \/ ctl[n].phase = seen[n].phase /\ ctl[n].target = seen[n].target

LaneInv == LaneTyped /\ PortsTyped /\ Distinct /\ \A n \in EdgeNames : NameOk(n)

\* A step that leaves app, copy and write of m alone, and its port.
LEMMA OtherName ==
    ASSUME NEW m \in EdgeNames, NameOk(m),
           fleet'[m] = fleet[m], seen'[m] = seen[m], fresh'[m] = fresh[m], ctl'[m] = ctl[m],
           m \in unbacked => m \in unbacked',
           \A t : Backed(m, t) => Backed(m, t)'
    PROVE  NameOk(m)'
<1>1. fleet'[m] # None /\ fleet'[m].target # None
         => /\ fleet'[m].phase = "Ready"
            /\ m \notin unbacked' => Backed(m, fleet[m].target)
    BY DEF NameOk
<1>2. ASSUME NEW t, t = fleet'[m].target, m \notin unbacked',
             fleet'[m] # None, fleet'[m].target # None
      PROVE  Backed(m, t)'
    BY <1>1, <1>2
<1>3. ASSUME NEW t, t = ctl'[m].target, Backed(m, ctl[m].target) PROVE Backed(m, t)'
    BY <1>3
<1> QED
    BY <1>1, <1>2, <1>3 DEF NameOk

\* A write of app n by the API server, the loader standing still: the lane is in
\* order if n is.
LEMMA StoreKeeps ==
    ASSUME LaneInv, NEW n \in EdgeNames, NEW app \in FastLane!Apps \cup {None},
           FastLane!Store(n, app), UNCHANGED <<seen, ports, config>>,
           ctl' \in [EdgeNames -> FastLane!Writes \cup {None}],
           \A m \in EdgeNames \ {n} : ctl'[m] = ctl[m] /\ (m \in unbacked => m \in unbacked'),
           NameOk(n)'
    PROVE  LaneInv'
<1>1. /\ fleet' \in [EdgeNames -> FastLane!Apps \cup {None}]
      /\ fresh' \in [EdgeNames -> BOOLEAN]
      /\ \A m \in EdgeNames \ {n} : fleet'[m] = fleet[m] /\ fresh'[m] = fresh[m]
    BY DEF LaneInv, LaneTyped, FastLane!Store
<1>2. LaneTyped' /\ PortsTyped' /\ Distinct'
    BY <1>1 DEF LaneInv, LaneTyped, PortsTyped, Distinct
<1>3. ASSUME NEW m \in EdgeNames \ {n} PROVE NameOk(m)'
    <2>1. NameOk(m)
        BY DEF LaneInv
    <2>2. \A t : Backed(m, t) => Backed(m, t)'
        BY DEF Backed
    <2> QED
        BY <1>1, <2>1, <2>2, OtherName
<1> QED
    BY <1>2, <1>3 DEF LaneInv

\* A user's edit makes a pass that is under way outdated.
LEMMA EditKeeps ==
    ASSUME LaneInv, NEW n \in EdgeNames,
           FastLane!Create(n) \/ FastLane!ToggleSuspended(n) \/ FastLane!Delete(n)
    PROVE  LaneInv'
<1>1. FastLane!Outdate(n) /\ UNCHANGED <<seen, ports, config>>
    BY DEF FastLane!Create, FastLane!ToggleSuspended, FastLane!Delete, FastLane!loaderVars
<1>2. /\ ctl' \in [EdgeNames -> FastLane!Writes \cup {None}]
      /\ \A m \in EdgeNames \ {n} : ctl'[m] = ctl[m]
      /\ ctl'[n] # None => /\ ctl[n] # None /\ ctl'[n].valid = FALSE
                           /\ ctl'[n].phase = ctl[n].phase /\ ctl'[n].target = ctl[n].target
    <2>1. CASE ctl[n] = None
        BY <1>1, <2>1 DEF FastLane!Outdate, LaneInv, LaneTyped
    <2>2. CASE ctl[n] # None
        <3>1. ctl[n] \in FastLane!Writes
            BY <2>2 DEF LaneInv, LaneTyped
        <3> PICK w : w = [ctl[n] EXCEPT !.valid = FALSE]
            OBVIOUS
        <3>2. /\ w \in FastLane!Writes /\ w.valid = FALSE
              /\ w.phase = ctl[n].phase /\ w.target = ctl[n].target
            BY <3>1 DEF FastLane!Writes
        <3>3. ctl' = [ctl EXCEPT ![n] = w]
            BY <1>1, <2>2 DEF FastLane!Outdate
        <3> QED
            BY <2>2, <3>2, <3>3 DEF LaneInv, LaneTyped
    <2> QED
        BY <2>1, <2>2
<1>3. NameOk(n)
    BY DEF LaneInv
<1>4. ASSUME NEW app \in FastLane!Apps \cup {None}, FastLane!Store(n, app),
             \A m \in EdgeNames \ {n} : m \in unbacked => m \in unbacked',
             \/ app = None
             \/ app.target = None
             \/ /\ fleet[n] # None /\ app.target = fleet[n].target /\ app.phase = fleet[n].phase
                /\ UNCHANGED unbacked
      PROVE  LaneInv'
    <2>1. fleet'[n] = app /\ fresh'[n] = FALSE /\ seen'[n] = seen[n]
        BY <1>1, <1>4 DEF LaneInv, LaneTyped, FastLane!Store
    <2>2. \A t : Backed(n, t) => Backed(n, t)'
        BY <1>1 DEF Backed
    <2>3. app # None /\ app.target # None
             => app.phase = "Ready" /\ (n \notin unbacked' => Backed(n, app.target)')
        <3> SUFFICES ASSUME app # None, app.target # None
                     PROVE  app.phase = "Ready" /\ (n \notin unbacked' => Backed(n, app.target)')
            OBVIOUS
        <3>1. app.phase = "Ready" /\ (n \notin unbacked' => Backed(n, app.target))
            BY <1>3, <1>4 DEF NameOk
        <3> QED
            BY <2>2, <3>1
    <2>4. NameOk(n)'
        BY <1>2, <1>3, <2>1, <2>3 DEF NameOk
    <2> QED
        BY <1>1, <1>2, <1>4, <2>4, StoreKeeps
<1>5. CASE FastLane!Create(n)
    <2>1. FastLane!NewApp \in FastLane!Apps /\ FastLane!NewApp.target = None
        BY DEF FastLane!NewApp, FastLane!Apps, FastLane!Phases
    <2> QED
        BY <1>4, <1>5, <2>1 DEF FastLane!Create
<1>6. CASE FastLane!ToggleSuspended(n)
    <2>1. fleet[n] # None /\ fleet[n] \in FastLane!Apps
        BY <1>6 DEF FastLane!ToggleSuspended, LaneInv, LaneTyped
    <2> PICK app : app = [fleet[n] EXCEPT !.suspended = ~@]
        OBVIOUS
    <2>2. app \in FastLane!Apps /\ app.target = fleet[n].target /\ app.phase = fleet[n].phase
        BY <2>1 DEF FastLane!Apps
    <2> QED
        BY <1>4, <1>6, <2>1, <2>2 DEF FastLane!ToggleSuspended
<1>7. CASE FastLane!Delete(n)
    BY <1>4, <1>7 DEF FastLane!Delete
<1> QED
    BY <1>5, <1>6, <1>7

\* The controller's copy catches up; a pass made from the old one is outdated.
LEMMA SyncKeeps ==
    ASSUME LaneInv, NEW n \in EdgeNames, FastLane!Sync(n)
    PROVE  LaneInv'
<1>1. /\ UNCHANGED <<fleet, ctl, unbacked, ports, config>>
      /\ fresh' = [fresh EXCEPT ![n] = TRUE] /\ seen' = [seen EXCEPT ![n] = fleet[n]]
      /\ fresh[n] = FALSE
    BY DEF FastLane!Sync, FastLane!loaderVars, LaneInv, LaneTyped
<1>2. LaneTyped' /\ PortsTyped' /\ Distinct'
    BY <1>1 DEF LaneInv, LaneTyped, PortsTyped, Distinct
<1>3. ASSUME NEW m \in EdgeNames PROVE NameOk(m)'
    <2>1. NameOk(m)
        BY DEF LaneInv
    <2>2. \A t : Backed(m, t) => Backed(m, t)'
        BY <1>1 DEF Backed
    <2>3. CASE m # n
        BY <1>1, <2>1, <2>2, <2>3, OtherName DEF LaneInv, LaneTyped
    <2>4. CASE m = n
        <3>1. seen'[n] = fleet'[n]
            BY <1>1 DEF LaneInv, LaneTyped
        <3>2. ctl'[n] # None => ctl'[n].valid = FALSE
            <4>1. ctl[n] # None => ctl[n].valid \in BOOLEAN
                BY DEF LaneInv, LaneTyped, FastLane!Writes
            <4> QED
                BY <1>1, <2>1, <2>4, <4>1 DEF NameOk
        <3>3. (fleet[n] # None /\ fleet[n].target # None
                 => fleet[n].phase = "Ready" /\ (n \notin unbacked => Backed(n, fleet[n].target)))'
            <4>1. fleet[n] # None /\ fleet[n].target # None
                    => fleet[n].phase = "Ready" /\ (n \notin unbacked => Backed(n, fleet[n].target))
                BY <2>1, <2>4 DEF NameOk
            <4> QED
                BY <1>1, <4>1 DEF Backed
        <3> QED
            BY <1>1, <2>1, <2>4, <3>1, <3>2, <3>3 DEF NameOk
    <2> QED
        BY <2>3, <2>4
<1> QED
    BY <1>2, <1>3 DEF LaneInv

\* A pass for app n that ends in a status w to be written.
LEMMA PassKeeps ==
    ASSUME LaneInv, NEW n \in EdgeNames, NEW w \in FastLane!Writes,
           UNCHANGED <<fleet, seen, fresh>>, ctl' = [ctl EXCEPT ![n] = w],
           PortsTyped', Distinct',
           \A m \in EdgeNames : m \in unbacked => m \in unbacked',
           \A m \in EdgeNames \ {n} : \A t : Backed(m, t) => Backed(m, t)',
           n \notin unbacked' => \A t : Backed(n, t) => Backed(n, t)',
           w.target # None => w.phase = "Ready",
           w.valid => /\ fresh[n] /\ seen[n] # None
                      /\ \/ w.target = None
                         \/ Backed(n, w.target)'
                         \/ w.phase = seen[n].phase /\ w.target = seen[n].target
    PROVE  LaneInv'
<1>1. LaneTyped'
    BY DEF LaneInv, LaneTyped
<1>2. ctl'[n] = w /\ \A m \in EdgeNames \ {n} : ctl'[m] = ctl[m]
    BY DEF LaneInv, LaneTyped
<1>3. ASSUME NEW m \in EdgeNames \ {n} PROVE NameOk(m)'
    <2>1. NameOk(m)
        BY DEF LaneInv
    <2> QED
        BY <1>2, <2>1, OtherName
<1>4. NameOk(n)'
    <2>1. NameOk(n)
        BY DEF LaneInv
    <2>2. (fleet[n] # None /\ fleet[n].target # None
             => fleet[n].phase = "Ready" /\ (n \notin unbacked => Backed(n, fleet[n].target)))'
        <3> PICK x : x = fleet[n].target
            OBVIOUS
        <3>1. fleet[n] # None /\ x # None
                 => fleet[n].phase = "Ready" /\ (n \notin unbacked => Backed(n, x))
            BY <2>1 DEF NameOk
        <3>2. fleet[n] # None /\ x # None
                 => fleet[n].phase = "Ready" /\ (n \notin unbacked' => Backed(n, x)')
            BY <3>1
        <3>3. fleet' = fleet /\ fleet'[n].target = x
            OBVIOUS
        <3> QED
            BY <3>2, <3>3
    <2>3. Backed(n, w.target)' => (Backed(n, ctl[n].target))'
        BY <1>2
    <2> QED
        BY <1>2, <2>1, <2>2, <2>3 DEF NameOk
<1> QED
    BY <1>1, <1>3, <1>4 DEF LaneInv

\* The status of a pass.
LEMMA WriteIs ==
    ASSUME LaneInv, NEW n \in EdgeNames, NEW phase \in FastLane!Phases,
           NEW t \in FastLane!Targets \cup {None},
           NEW w, w = [phase |-> phase, target |-> t, valid |-> fresh[n], dropped |-> FALSE]
    PROVE  /\ w \in FastLane!Writes
           /\ w.phase = phase /\ w.target = t /\ w.valid = fresh[n] /\ w.dropped = FALSE
BY DEF FastLane!Writes, LaneInv, LaneTyped

\* A deploy: done, failed half-way or still under way.
LEMMA FastLaneKeeps ==
    ASSUME LaneInv, NEW n \in EdgeNames, FastLane!ReconcileFastLane(n)
    PROVE  LaneInv'
<1>1. /\ UNCHANGED <<fleet, seen, fresh, unbacked>>
      /\ seen[n] # None /\ seen[n] \in FastLane!Apps /\ seen[n].phase = "Claiming"
    BY DEF FastLane!ReconcileFastLane, FastLane!Idle, LaneInv, LaneTyped
<1>2. seen[n].target = None
    BY <1>1 DEF LaneInv, NameOk
<1>3. PortsTyped /\ Distinct
    BY DEF LaneInv
<1>4. {"Ready", "Claiming"} \subseteq FastLane!Phases
    BY DEF FastLane!Phases
<1>5. ASSUME FastLane!Put(n), FastLane!Render(Shard[n]),
             FastLane!ToWrite(n, "Ready", <<Shard[n], FastLane!PutPort(n)>>)
      PROVE  LaneInv'
    <2> PICK t : t = <<Shard[n], FastLane!PutPort(n)>>
        OBVIOUS
    <2>1. /\ PortsTyped' /\ Distinct'
          /\ \A m \in EdgeNames : \A x : Backed(m, x) => Backed(m, x)'
          /\ Backed(n, t)'
        BY <1>3, <1>5, PutKeeps DEF FastLane!RenderFails
    <2>2. t \in FastLane!Targets
        BY <2>1 DEF Backed
    <2> PICK w : w = [phase |-> "Ready", target |-> t,
                     valid |-> fresh[n], dropped |-> FALSE]
        OBVIOUS
    <2>3. /\ w \in FastLane!Writes
          /\ w.phase = "Ready" /\ w.target = t /\ w.valid = fresh[n] /\ w.dropped = FALSE
        BY <1>4, <1>5, <2>2, WriteIs
    <2>4. ctl' = [ctl EXCEPT ![n] = w]
        BY <1>4, <1>5, <2>2 DEF FastLane!ToWrite
    <2> QED
        BY <1>1, <2>1, <2>3, <2>4, PassKeeps
<1>6. ASSUME FastLane!DeployFails(n), FastLane!ToWrite(n, "Claiming", seen[n].target)
      PROVE  LaneInv'
    <2>1. /\ PortsTyped' /\ Distinct'
          /\ \A m \in EdgeNames : \A x : Backed(m, x) => Backed(m, x)'
        <3>1. CASE FastLane!Put(n) /\ FastLane!RenderFails(Shard[n])
            BY <1>3, <3>1, PutKeeps
        <3>2. CASE UNCHANGED <<ports, config>>
            BY <1>3, <3>2 DEF PortsTyped, Distinct, Backed
        <3> QED
            BY <1>6, <3>1, <3>2 DEF FastLane!DeployFails
    <2> PICK w : w = [phase |-> "Claiming", target |-> None,
                     valid |-> fresh[n], dropped |-> FALSE]
        OBVIOUS
    <2>2. /\ w \in FastLane!Writes
          /\ w.phase = "Claiming" /\ w.target = None /\ w.valid = fresh[n] /\ w.dropped = FALSE
        BY <1>4, WriteIs
    <2>3. ctl' = [ctl EXCEPT ![n] = w]
        BY <1>2, <1>4, <1>6 DEF FastLane!ToWrite
    <2> QED
        BY <1>1, <2>1, <2>2, <2>3, PassKeeps
<1> QED
    BY <1>5, <1>6 DEF FastLane!ReconcileFastLane

\* A suspension takes the worker away, and the upstream with it; if the removal
\* fails the status stays.
LEMMA SuspendKeeps ==
    ASSUME LaneInv, NEW n \in EdgeNames, FastLane!ReconcileSuspend(n)
    PROVE  LaneInv'
<1>1. /\ UNCHANGED <<fleet, seen, fresh>>
      /\ seen[n] # None /\ seen[n] \in FastLane!Apps
    BY DEF FastLane!ReconcileSuspend, FastLane!Idle, LaneInv, LaneTyped
<1>2. /\ seen[n].target \in FastLane!Targets \cup {None} /\ seen[n].phase \in FastLane!Phases
      /\ "Suspended" \in FastLane!Phases
    BY <1>1 DEF FastLane!Apps, FastLane!Phases
<1>3. PortsTyped /\ Distinct
    BY DEF LaneInv
<1>4. ASSUME FastLane!Free(n), FastLane!Render(Shard[n]),
             FastLane!ToWrite(n, "Suspended", None), unbacked' = unbacked \cup {n}
      PROVE  LaneInv'
    <2>1. /\ PortsTyped' /\ Distinct'
          /\ \A m \in EdgeNames \ {n} : \A x : Backed(m, x) => Backed(m, x)'
        BY <1>3, <1>4, FreeKeeps DEF FastLane!RenderFails
    <2> PICK w : w = [phase |-> "Suspended", target |-> None,
                     valid |-> fresh[n], dropped |-> FALSE]
        OBVIOUS
    <2>2. /\ w \in FastLane!Writes
          /\ w.phase = "Suspended" /\ w.target = None /\ w.valid = fresh[n] /\ w.dropped = FALSE
        BY <1>2, <1>4, WriteIs
    <2>3. ctl' = [ctl EXCEPT ![n] = w]
        BY <1>2, <1>4 DEF FastLane!ToWrite
    <2> QED
        BY <1>1, <1>4, <2>1, <2>2, <2>3, PassKeeps
<1>5. ASSUME FastLane!RemoveFails(n), FastLane!ToWrite(n, seen[n].phase, seen[n].target)
      PROVE  LaneInv'
    <2>1. /\ PortsTyped' /\ Distinct'
          /\ \A m \in EdgeNames \ {n} : \A x : Backed(m, x) => Backed(m, x)'
          /\ n \notin unbacked' => \A x : Backed(n, x) => Backed(n, x)'
          /\ \A m \in EdgeNames : m \in unbacked => m \in unbacked'
        <3>1. CASE /\ FastLane!Free(n) /\ FastLane!RenderFails(Shard[n])
                   /\ unbacked' = unbacked \cup {n}
            BY <1>3, <3>1, FreeKeeps
        <3>2. CASE UNCHANGED <<ports, config, unbacked>>
            BY <1>3, <3>2 DEF PortsTyped, Distinct, Backed
        <3> QED
            BY <1>5, <3>1, <3>2 DEF FastLane!RemoveFails
    <2> PICK w : w = [phase |-> seen[n].phase, target |-> seen[n].target,
                     valid |-> fresh[n], dropped |-> FALSE]
        OBVIOUS
    <2>2. /\ w \in FastLane!Writes
          /\ w.phase = seen[n].phase /\ w.target = seen[n].target /\ w.valid = fresh[n] /\ w.dropped = FALSE
        BY <1>2, <1>5, WriteIs
    <2>3. ctl' = [ctl EXCEPT ![n] = w]
        BY <1>2, <1>5 DEF FastLane!ToWrite
    <2>4. seen[n].target # None => seen[n].phase = "Ready"
        BY <1>1 DEF LaneInv, NameOk
    <2> QED
        BY <1>1, <2>1, <2>4, <2>2, <2>3, PassKeeps
<1> QED
    BY <1>4, <1>5 DEF FastLane!ReconcileSuspend

\* A restore goes back to the start, without an upstream.
LEMMA RestoreKeeps ==
    ASSUME LaneInv, NEW n \in EdgeNames, FastLane!ReconcileRestore(n)
    PROVE  LaneInv'
<1>1. /\ UNCHANGED <<fleet, seen, fresh, unbacked, ports, config>>
      /\ seen[n] # None /\ seen[n].phase = "Suspended"
      /\ FastLane!ToWrite(n, "Claiming", seen[n].target)
    BY DEF FastLane!ReconcileRestore, FastLane!Idle, FastLane!loaderVars
<1>2. seen[n].target = None
    BY <1>1 DEF LaneInv, NameOk
<1>3. "Claiming" \in FastLane!Phases
    BY DEF FastLane!Phases
<1> PICK w : w = [phase |-> "Claiming", target |-> None,
                 valid |-> fresh[n], dropped |-> FALSE]
    OBVIOUS
<1>4. /\ w \in FastLane!Writes
      /\ w.phase = "Claiming" /\ w.target = None /\ w.valid = fresh[n] /\ w.dropped = FALSE
    BY <1>3, WriteIs
<1>5. ctl' = [ctl EXCEPT ![n] = w]
    BY <1>1, <1>2, <1>3 DEF FastLane!ToWrite
<1>6. /\ PortsTyped' /\ Distinct'
      /\ \A m \in EdgeNames : \A x : Backed(m, x) => Backed(m, x)'
    BY <1>1 DEF LaneInv, PortsTyped, Distinct, Backed
<1> QED
    BY <1>1, <1>6, <1>4, <1>5, PassKeeps

\* A deploy the client gave up on: the worker is the app's own all the same.
LEMMA LatePutKeeps ==
    ASSUME LaneInv, NEW n \in EdgeNames, FastLane!LatePut(n)
    PROVE  LaneInv'
<1>1. UNCHANGED <<fleet, seen, fresh, ctl, unbacked>>
    BY DEF FastLane!LatePut, FastLane!appVars
<1>2. /\ PortsTyped' /\ Distinct'
      /\ \A m \in EdgeNames : \A t : Backed(m, t) => Backed(m, t)'
    <2>1. FastLane!Put(n) /\ FastLane!RenderFails(Shard[n])
        BY DEF FastLane!LatePut, FastLane!RenderFails
    <2> QED
        BY <2>1, PutKeeps DEF LaneInv
<1>3. ASSUME NEW m \in EdgeNames PROVE NameOk(m)'
    <2>1. NameOk(m)
        BY DEF LaneInv
    <2> QED
        BY <1>1, <1>2, <2>1, OtherName
<1>4. LaneTyped'
    BY <1>1 DEF LaneInv, LaneTyped
<1> QED
    BY <1>2, <1>3, <1>4 DEF LaneInv

\* A status that the API server accepts was made from the current app.
LEMMA WriteStatusKeeps ==
    ASSUME LaneInv, NEW n \in EdgeNames, FastLane!WriteStatus(n)
    PROVE  LaneInv'
<1> PICK w : w = ctl[n]
    OBVIOUS
<1> PICK app : app = [seen[n] EXCEPT !.phase = w.phase, !.target = w.target]
    OBVIOUS
<1>1. /\ w \in FastLane!Writes
      /\ w.phase \in FastLane!Phases /\ w.target \in FastLane!Targets \cup {None}
      /\ w.valid \in BOOLEAN /\ w.dropped \in BOOLEAN
    <2>1. w \in FastLane!Writes
        BY DEF FastLane!WriteStatus, LaneInv, LaneTyped
    <2> QED
        BY <2>1 DEF FastLane!Writes
<1>2. UNCHANGED <<seen, ports, config>> /\ ctl' = [ctl EXCEPT ![n] = None]
    BY DEF FastLane!WriteStatus, FastLane!loaderVars
<1>3. /\ ctl' \in [EdgeNames -> FastLane!Writes \cup {None}]
      /\ ctl'[n] = None
      /\ \A m \in EdgeNames \ {n} : ctl'[m] = ctl[m]
    BY <1>2 DEF LaneInv, LaneTyped
<1>4. NameOk(n) /\ ctl[n] # None
    BY DEF LaneInv, FastLane!WriteStatus
<1>5. ASSUME NEW m \in EdgeNames, NEW t PROVE Backed(m, t) => Backed(m, t)'
    BY <1>2 DEF Backed
<1>6. CASE w.valid /\ app # fleet[n]
    <2>1. /\ FastLane!Store(n, app)
          /\ unbacked' = IF w.dropped THEN unbacked \cup {n} ELSE unbacked \ {n}
        BY <1>6 DEF FastLane!WriteStatus
    <2>2. /\ fresh[n] /\ seen[n] = fleet[n] /\ seen[n] \in FastLane!Apps
          /\ \/ w.target = None \/ w.dropped \/ Backed(n, w.target)
             \/ w.phase = seen[n].phase /\ w.target = seen[n].target
        BY <1>4, <1>6 DEF NameOk, LaneInv, LaneTyped
    <2>3. app \in FastLane!Apps /\ app.phase = w.phase /\ app.target = w.target
        BY <1>1, <2>2 DEF FastLane!Apps
    <2>4. ~(w.phase = seen[n].phase /\ w.target = seen[n].target)
        BY <1>6, <2>2 DEF FastLane!Apps
    <2>5. fleet'[n] = app /\ fresh'[n] = FALSE /\ seen'[n] = seen[n]
        BY <1>2, <2>1 DEF FastLane!Store, LaneInv, LaneTyped
    <2>6. \A m \in EdgeNames \ {n} : m \in unbacked => m \in unbacked'
        BY <2>1
    <2>7. n \in unbacked' <=> w.dropped
        BY <1>1, <2>1
    <2>8. w.target # None => w.phase = "Ready" /\ (n \notin unbacked' => Backed(n, w.target)')
        BY <1>4, <1>5, <2>2, <2>4, <2>7 DEF NameOk
    <2>9. (fleet[n] # None /\ fleet[n].target # None
             => fleet[n].phase = "Ready" /\ (n \notin unbacked => Backed(n, fleet[n].target)))'
        BY <2>3, <2>5, <2>8
    <2>10. NameOk(n)'
        BY <1>3, <1>4, <2>5, <2>9 DEF NameOk
    <2> QED
        BY <1>2, <1>3, <2>1, <2>3, <2>6, <2>10, StoreKeeps
<1>7. CASE ~(w.valid /\ app # fleet[n])
    <2>1. UNCHANGED <<fleet, fresh, unbacked>>
        BY <1>7 DEF FastLane!WriteStatus
    <2>2. LaneTyped' /\ PortsTyped' /\ Distinct'
        BY <1>2, <1>3, <2>1 DEF LaneInv, LaneTyped, PortsTyped, Distinct
    <2>3. ASSUME NEW m \in EdgeNames \ {n} PROVE NameOk(m)'
        <3>1. NameOk(m)
            BY DEF LaneInv
        <3> QED
            BY <1>2, <1>3, <1>5, <2>1, <3>1, OtherName
    <2>4. NameOk(n)'
        BY <1>2, <1>3, <1>4, <2>1 DEF NameOk, Backed
    <2> QED
        BY <2>2, <2>3, <2>4 DEF LaneInv
<1> QED
    BY <1>6, <1>7

\* A replica that starts again has lost its workers; the status of each names an
\* upstream that nobody serves until its app is deployed again.
LEMMA RestartKeeps ==
    ASSUME LaneInv, NEW s \in FastLane!Shards, FastLane!RestartLoader(s)
    PROVE  LaneInv'
<1> PICK e : e = [p \in FastLane!Ports |-> None]
    OBVIOUS
<1>1. FastLane!Empty[s] = e /\ e \in [FastLane!Ports -> EdgeNames \cup {None}]
    BY DEF FastLane!Empty
<1>2. ports' = [ports EXCEPT ![s] = e] /\ config' = [config EXCEPT ![s] = ports'[s]]
    BY <1>1 DEF FastLane!RestartLoader, FastLane!Render
<1>3. /\ ports'[s] = e /\ \A z \in FastLane!Shards \ {s} : ports'[z] = ports[z]
      /\ \A z \in FastLane!Shards \ {s} : config'[z] = config[z]
    BY <1>2 DEF LaneInv, PortsTyped
<1>4. PortsTyped'
    BY <1>1, <1>2, <1>3 DEF LaneInv, PortsTyped
<1>5. Distinct'
    BY <1>3 DEF LaneInv, Distinct
<1>6. /\ UNCHANGED <<fleet, seen, fresh>>
      /\ unbacked' = unbacked \cup {n \in EdgeNames : Shard[n] = s /\ FastLane!PortOf(n) # {}}
      /\ ctl' = [n \in EdgeNames |-> IF ctl[n] # None /\ Shard[n] = s
                                     THEN [ctl[n] EXCEPT !.dropped = TRUE] ELSE ctl[n]]
    BY DEF FastLane!RestartLoader
<1>7. ASSUME NEW m \in EdgeNames
      PROVE  /\ ctl'[m] \in FastLane!Writes \cup {None} /\ (ctl'[m] # None <=> ctl[m] # None)
             /\ Shard[m] # s => ctl'[m] = ctl[m]
             /\ ctl[m] # None => /\ ctl'[m].phase = ctl[m].phase
                                 /\ ctl'[m].target = ctl[m].target
                                 /\ ctl'[m].valid = ctl[m].valid
                                 /\ Shard[m] = s => ctl'[m].dropped = TRUE
    <2>1. CASE ctl[m] # None /\ Shard[m] = s
        <3>1. ctl[m] \in FastLane!Writes
            BY <2>1 DEF LaneInv, LaneTyped
        <3> PICK w : w = [ctl[m] EXCEPT !.dropped = TRUE]
            OBVIOUS
        <3>2. /\ w \in FastLane!Writes /\ w.dropped = TRUE /\ w.phase = ctl[m].phase
              /\ w.target = ctl[m].target /\ w.valid = ctl[m].valid
            BY <3>1 DEF FastLane!Writes
        <3>3. ctl'[m] = w
            BY <1>6, <2>1
        <3> QED
            BY <2>1, <3>2, <3>3, EdgeAssumption
    <2>2. CASE ~(ctl[m] # None /\ Shard[m] = s)
        BY <1>6, <2>2 DEF LaneInv, LaneTyped
    <2> QED
        BY <2>1, <2>2
<1>8. LaneTyped'
    <2>1. ctl' \in [EdgeNames -> FastLane!Writes \cup {None}]
        BY <1>6, <1>7
    <2> QED
        BY <1>6, <2>1 DEF LaneInv, LaneTyped
<1>9. ASSUME NEW m \in EdgeNames, NEW t, Backed(m, t), m \notin unbacked' \/ Shard[m] # s
      PROVE  Backed(m, t)'
    <2>1. t[1] \in FastLane!Shards /\ t[2] \in FastLane!Ports
        BY <1>9 DEF Backed, FastLane!Targets
    <2>2. Shard[m] # s
        BY <1>6, <1>9, <2>1 DEF Backed, FastLane!PortOf
    <2> QED
        BY <1>3, <1>9, <2>1, <2>2 DEF Backed
<1>10. ASSUME NEW m \in EdgeNames PROVE NameOk(m)'
    <2>1. NameOk(m)
        BY DEF LaneInv
    <2>2. CASE Shard[m] # s
        BY <1>6, <1>7, <1>9, <2>1, <2>2, OtherName
    <2>3. CASE Shard[m] = s
        <3> PICK x : x = fleet[m].target
            OBVIOUS
        <3>1. fleet[m] # None /\ x # None
                 => fleet[m].phase = "Ready" /\ (m \notin unbacked' => Backed(m, x)')
            BY <1>6, <1>9, <2>1 DEF NameOk
        <3>2. (fleet[m] # None /\ fleet[m].target # None
                 => fleet[m].phase = "Ready" /\ (m \notin unbacked => Backed(m, fleet[m].target)))'
            BY <1>6, <3>1
        <3> QED
            BY <1>6, <1>7, <2>1, <2>3, <3>2 DEF NameOk
    <2> QED
        BY <2>2, <2>3
<1> QED
    BY <1>4, <1>5, <1>8, <1>10 DEF LaneInv

\* A step of another part.
LEMMA LaneStays ==
    ASSUME LaneInv, UNCHANGED laneVars PROVE LaneInv'
<1>1. LaneTyped' /\ PortsTyped' /\ Distinct'
    BY DEF laneVars, LaneInv, LaneTyped, PortsTyped, Distinct
<1>2. ASSUME NEW m \in EdgeNames PROVE NameOk(m)'
    BY DEF laneVars, LaneInv, NameOk, Backed
<1> QED
    BY <1>1, <1>2 DEF LaneInv

\* A restarted controller has a current copy of every app and nothing to write.
LEMMA ControllerRestartKeeps ==
    ASSUME LaneInv, FastLane!RestartController PROVE LaneInv'
<1>1. /\ UNCHANGED <<fleet, unbacked, ports, config>> /\ seen' = fleet
      /\ fresh' = [n \in EdgeNames |-> TRUE] /\ ctl' = [n \in EdgeNames |-> None]
    BY DEF FastLane!RestartController, FastLane!loaderVars
<1>2. LaneTyped' /\ PortsTyped' /\ Distinct'
    BY <1>1 DEF LaneInv, LaneTyped, PortsTyped, Distinct
<1>3. ASSUME NEW m \in EdgeNames PROVE NameOk(m)'
    BY <1>1 DEF LaneInv, NameOk, Backed
<1> QED
    BY <1>2, <1>3 DEF LaneInv

\* Nothing is deployed at first.
LEMMA LaneInit ==
    ASSUME FastLane!Init PROVE LaneInv
<1>1. \A n \in EdgeNames : fleet[n] = None /\ seen[n] = None /\ ctl[n] = None
    BY DEF FastLane!Init
<1>2. ASSUME NEW s \in FastLane!Shards, NEW p \in FastLane!Ports
      PROVE  ports[s][p] = None /\ config[s][p] = None
    BY DEF FastLane!Init, FastLane!Empty
<1>3. LaneTyped
    BY DEF FastLane!Init, LaneTyped
<1>4. PortsTyped
    BY DEF FastLane!Init, FastLane!Empty, PortsTyped
<1>5. Distinct
    BY <1>2 DEF Distinct
<1>6. ASSUME NEW n \in EdgeNames PROVE NameOk(n)
    BY <1>1 DEF NameOk
<1> QED
    BY <1>3, <1>4, <1>5, <1>6 DEF LaneInv

\* One step of apiserver, controller or loader.
LEMMA LaneStep ==
    ASSUME LaneInv, FastLane!Next PROVE LaneInv'
<1>1. ASSUME NEW n \in EdgeNames, FastLane!Create(n) \/ FastLane!ToggleSuspended(n) \/ FastLane!Delete(n)
      PROVE  LaneInv'
    BY <1>1, EditKeeps
<1>2. ASSUME NEW n \in EdgeNames, FastLane!Reconcile(n) PROVE LaneInv'
    BY <1>2, FastLaneKeeps, SuspendKeeps, RestoreKeeps, WriteStatusKeeps DEF FastLane!Reconcile
<1>3. ASSUME NEW n \in EdgeNames, FastLane!Sync(n) \/ FastLane!LatePut(n) PROVE LaneInv'
    BY <1>3, SyncKeeps, LatePutKeeps
<1>4. ASSUME NEW s \in FastLane!Shards, FastLane!RestartLoader(s) PROVE LaneInv'
    BY <1>4, RestartKeeps
<1> QED
    BY <1>1, <1>2, <1>3, <1>4, ControllerRestartKeeps DEF FastLane!Next

\* Workerd: the port an app publishes serves its own worker, for every number of
\* apps, loader replicas, edits and faults, unless a loader dropped the worker
\* and the status does not say so (Loader.Put and Remove, assignPortLocked,
\* reconcileFastLane, reconcileSuspension, patchStatusIfChanged).
THEOREM PortsAreOwn == EdgeSpec => []PortIsOwn
<1>1. EdgeInit => LaneInv
    BY LaneInit DEF EdgeInit
<1>2. LaneInv /\ [EdgeNext]_allVars => LaneInv'
    <2> SUFFICES ASSUME LaneInv, [EdgeNext]_allVars PROVE LaneInv'
        OBVIOUS
    <2>1. CASE FastLane!Next
        BY <2>1, LaneStep
    <2>2. CASE UNCHANGED laneVars
        BY <2>2, LaneStays
    <2> QED
        BY <2>1, <2>2, StepOfOnePart
<1>3. LaneInv => PortIsOwn
    BY DEF LaneInv, NameOk, Backed, PortIsOwn, FastLane!PortIsOwn
<1> QED
    BY <1>1, <1>2, <1>3, PTL DEF EdgeSpec

-----------------------------------------------------------------------------
(* The router.                                                             *)

RouterTyped ==
    /\ served \in [RouteNames -> Routing!Apps \cup {None}]
    /\ cache \in [RouteNames -> Routing!Apps \cup {None}]
    /\ synced \in [RouteNames -> BOOLEAN]
    /\ pass \in Routing!Passes \cup {None}
    /\ routes \in [RouteNames -> Routing!Routes \cup {None}]

\* What has been delivered is in the cache.  An app whose route may be wrong is one
\* the router has yet to list, has queued or is working on with the route that its
\* copy asks for.
RouteOk(n) ==
    /\ synced[n] => cache[n] = served[n]
    /\ n \in missed => cache[n] = None
    /\ \/ n \in missed \/ n \in doubled \/ n \in queue
       \/ cache[n] = None /\ served[n] # None
       \/ pass # None /\ pass.name = n /\ pass.route = Routing!Wanted(cache[n])
       \/ (pass = None \/ pass.name # n) /\ routes[n] = Routing!Wanted(cache[n])

RouterInv == RouterTyped /\ \A n \in RouteNames : RouteOk(n)

\* A step of another part.
LEMMA RouterStays ==
    ASSUME RouterInv, UNCHANGED routerVars PROVE RouterInv'
<1>1. RouterTyped'
    BY DEF RouterInv, RouterTyped, routerVars
<1>2. ASSUME NEW n \in RouteNames PROVE RouteOk(n)'
    <2>1. (Routing!Wanted(cache[n]))' = Routing!Wanted(cache[n])
        BY DEF Routing!Wanted, Routing!Upstream, routerVars
    <2> QED
        BY <2>1 DEF RouterInv, RouteOk, routerVars
<1> QED
    BY <1>1, <1>2 DEF RouterInv

\* A write that is not yet delivered: the router is where it was.
LEMMA StoreRouted ==
    ASSUME RouterInv, NEW n \in RouteNames, NEW app \in Routing!Apps, Routing!Store(n, app)
    PROVE  RouterInv'
<1>1. /\ UNCHANGED <<cache, queue, pass, routes, missed, doubled>>
      /\ served' = [served EXCEPT ![n] = app] /\ synced' = [synced EXCEPT ![n] = FALSE]
    BY DEF Routing!Store
<1>2. RouterTyped'
    BY <1>1 DEF RouterInv, RouterTyped
<1>3. /\ served'[n] # None /\ synced'[n] = FALSE
      /\ \A m \in RouteNames \ {n} : served'[m] = served[m] /\ synced'[m] = synced[m]
    BY <1>1, EdgeAssumption DEF RouterInv, RouterTyped
<1>4. ASSUME NEW m \in RouteNames PROVE RouteOk(m)'
    <2>1. RouteOk(m)
        BY DEF RouterInv
    <2>2. (Routing!Wanted(cache[m]))' = Routing!Wanted(cache[m])
        BY <1>1 DEF Routing!Wanted, Routing!Upstream
    <2>3. CASE m # n
        BY <1>1, <1>3, <2>1, <2>2, <2>3 DEF RouteOk
    <2>4. CASE m = n
        BY <1>1, <1>3, <2>1, <2>2, <2>4 DEF RouteOk
    <2> QED
        BY <2>3, <2>4
<1> QED
    BY <1>2, <1>4 DEF RouterInv

\* A write of the deploy service or of the controller.
LEMMA WriteRouted ==
    ASSUME RouterInv, NEW n \in RouteNames, Routing!Edit(n) \/ Routing!WriteStatus(n)
    PROVE  RouterInv'
<1>1. CASE Routing!Create(n)
    <2>1. Routing!NewApp \in Routing!Apps
        BY DEF Routing!NewApp, Routing!Apps
    <2> QED
        BY <1>1, <2>1, StoreRouted DEF Routing!Create
<1>2. CASE ~Routing!Create(n)
    <2>1. served[n] \in Routing!Apps
        BY <1>2 DEF RouterInv, RouterTyped, Routing!Edit, Routing!WriteStatus,
                    Routing!ToggleSuspended, Routing!Redeploy, Routing!DeleteForeground,
                    Routing!WriteCondition, Routing!Fail, Routing!Bind, Routing!Serve,
                    Routing!Park, Routing!Restore, Routing!Running, Routing!Reconciled
    <2>2. CASE Routing!ToggleSuspended(n)
        <3>1. [served[n] EXCEPT !.suspended = ~@] \in Routing!Apps
            BY <2>1 DEF Routing!Apps
        <3> QED
            BY <2>2, <3>1, StoreRouted DEF Routing!ToggleSuspended
    <2>3. CASE Routing!Redeploy(n)
        <3>1. [served[n] EXCEPT !.suspended = FALSE] \in Routing!Apps
            BY <2>1 DEF Routing!Apps
        <3> QED
            BY <2>3, <3>1, StoreRouted DEF Routing!Redeploy
    <2>4. CASE Routing!DeleteForeground(n)
        <3>1. [served[n] EXCEPT !.deleting = TRUE] \in Routing!Apps
            BY <2>1 DEF Routing!Apps
        <3> QED
            BY <2>4, <3>1, StoreRouted DEF Routing!DeleteForeground
    <2>5. CASE Routing!WriteCondition(n)
        BY <2>1, <2>5, StoreRouted DEF Routing!WriteCondition
    <2>6. CASE Routing!Fail(n) \/ Routing!Restore(n)
        <3>1. [served[n] EXCEPT !.phase = "Waiting"] \in Routing!Apps
            BY <2>1 DEF Routing!Apps
        <3> QED
            BY <2>6, <3>1, StoreRouted DEF Routing!Fail, Routing!Restore
    <2>7. CASE Routing!Bind(n)
        <3>1. PICK p \in Pods :
                 Routing!Store(n, [served[n] EXCEPT !.phase = "Waiting", !.pod = p])
            BY <2>7 DEF Routing!Bind
        <3>2. [served[n] EXCEPT !.phase = "Waiting", !.pod = p] \in Routing!Apps
            BY <2>1 DEF Routing!Apps
        <3> QED
            BY <3>1, <3>2, StoreRouted
    <2>8. CASE Routing!Serve(n)
        <3>1. PICK t \in RouteTargets, d \in Domains :
                 Routing!Store(n, [served[n] EXCEPT !.phase = "Ready", !.target = t, !.url = d])
            BY <2>8 DEF Routing!Serve
        <3>2. [served[n] EXCEPT !.phase = "Ready", !.target = t, !.url = d] \in Routing!Apps
            BY <2>1 DEF Routing!Apps
        <3> QED
            BY <3>1, <3>2, StoreRouted
    <2>9. CASE Routing!Park(n)
        <3>1. [served[n] EXCEPT !.phase = "Suspended", !.target = None, !.pod = None]
                 \in Routing!Apps
            BY <2>1 DEF Routing!Apps
        <3> QED
            BY <2>9, <3>1, StoreRouted DEF Routing!Park
    <2> QED
        BY <1>2, <2>2, <2>3, <2>4, <2>5, <2>6, <2>7, <2>8, <2>9
           DEF Routing!Edit, Routing!WriteStatus
<1> QED
    BY <1>1, <1>2

\* A deletion is seen by a router that has the app, and counted as missed by one
\* that has not.
LEMMA DeleteRouted ==
    ASSUME RouterInv, NEW n \in RouteNames, Routing!Delete(n)
    PROVE  RouterInv'
<1>1. /\ UNCHANGED <<cache, queue, pass, routes, doubled>>
      /\ served' = [served EXCEPT ![n] = None]
      /\ synced' = [synced EXCEPT ![n] = (cache[n] = None)]
      /\ missed' = IF cache[n] = None THEN missed \cup {n} ELSE missed
    BY DEF Routing!Delete
<1>2. RouterTyped'
    BY <1>1 DEF RouterInv, RouterTyped
<1>3. /\ served'[n] = None /\ synced'[n] = (cache[n] = None)
      /\ \A m \in RouteNames \ {n} : served'[m] = served[m] /\ synced'[m] = synced[m]
    BY <1>1 DEF RouterInv, RouterTyped
<1>4. ASSUME NEW m \in RouteNames PROVE RouteOk(m)'
    <2>1. RouteOk(m)
        BY DEF RouterInv
    <2>2. (Routing!Wanted(cache[m]))' = Routing!Wanted(cache[m])
        BY <1>1 DEF Routing!Wanted, Routing!Upstream
    <2>3. CASE m # n
        BY <1>1, <1>3, <2>1, <2>2, <2>3 DEF RouteOk
    <2>4. CASE m = n /\ cache[n] = None
        BY <1>1, <1>3, <2>4 DEF RouteOk
    <2>5. CASE m = n /\ cache[n] # None
        BY <1>1, <1>3, <2>1, <2>2, <2>5 DEF RouteOk
    <2> QED
        BY <2>3, <2>4, <2>5
<1> QED
    BY <1>2, <1>4 DEF RouterInv

\* The informer: an update that the predicate drops asks for the same route.
LEMMA SyncRouted ==
    ASSUME RouterInv, NEW n \in RouteNames, Routing!Sync(n)
    PROVE  RouterInv'
<1>1. /\ UNCHANGED <<served, pass, routes, doubled>> /\ cache' = [cache EXCEPT ![n] = served[n]]
      /\ synced' = [synced EXCEPT ![n] = TRUE] /\ missed' = missed \ {n}
      /\ queue' = IF \/ None \in {cache[n], served[n]}
                     \/ Routing!routingFieldsChanged(cache[n], served[n])
                  THEN queue \cup {n} ELSE queue
    BY DEF Routing!Sync
<1>2. RouterTyped'
    BY <1>1 DEF RouterInv, RouterTyped
<1>3. /\ cache'[n] = served[n]
      /\ \A m \in RouteNames \ {n} : cache'[m] = cache[m] /\ synced'[m] = synced[m]
    BY <1>1 DEF RouterInv, RouterTyped
<1>4. ASSUME NEW m \in RouteNames PROVE RouteOk(m)'
    <2>1. RouteOk(m)
        BY DEF RouterInv
    <2>2. CASE m # n
        <3>1. (Routing!Wanted(cache[m]))' = Routing!Wanted(cache[m])
            BY <1>3, <2>2 DEF Routing!Wanted, Routing!Upstream
        <3> QED
            BY <1>1, <1>3, <2>1, <2>2, <3>1 DEF RouteOk
    <2>3. CASE m = n /\ n \in queue'
        BY <1>1, <1>3, <2>3 DEF RouteOk
    <2>4. CASE m = n /\ n \notin queue'
        <3>1. /\ cache[n] # None /\ served[n] # None /\ n \notin queue /\ queue' = queue
              /\ cache[n].phase = served[n].phase /\ cache[n].url = served[n].url
              /\ cache[n].target = served[n].target /\ cache[n].pod = served[n].pod
            BY <1>1, <2>4 DEF Routing!routingFieldsChanged
        <3>2. (Routing!Wanted(cache[m]))' = Routing!Wanted(cache[m])
            BY <1>3, <2>4, <3>1 DEF Routing!Wanted, Routing!Upstream
        <3> QED
            BY <1>1, <1>3, <2>1, <2>4, <3>1, <3>2 DEF RouteOk
    <2> QED
        BY <2>2, <2>3, <2>4
<1> QED
    BY <1>2, <1>4 DEF RouterInv

\* Reconcile works with the route of the copy it read.
LEMMA ReconcileRouted ==
    ASSUME RouterInv, NEW n \in RouteNames, Routing!Reconcile(n)
    PROVE  RouterInv'
<1> PICK p : p = [name |-> n, route |-> Routing!Wanted(cache[n])]
    OBVIOUS
<1>1. /\ UNCHANGED <<served, cache, synced, routes, missed, doubled>> /\ pass = None
      /\ pass' = p /\ queue' = queue \ {n}
    BY DEF Routing!Reconcile
<1>2. ASSUME NEW app \in Routing!Apps \cup {None}
      PROVE  Routing!Wanted(app) \in Routing!Routes \cup {None}
    <2>1. CASE app = None
        BY <2>1 DEF Routing!Wanted
    <2>2. CASE app # None
        <3>1. /\ app.url \in Domains \cup {None}
              /\ Routing!Upstream(app) \in RouteTargets \cup Pods \cup {None}
            BY <2>2 DEF Routing!Upstream, Routing!Apps
        <3> QED
            BY <3>1 DEF Routing!Wanted, Routing!Routes
    <2> QED
        BY <2>1, <2>2
<1>3. p \in Routing!Passes /\ p.name = n /\ p.route = Routing!Wanted(cache[n])
    BY <1>2 DEF Routing!Passes, RouterInv, RouterTyped
<1>4. RouterTyped' /\ pass' # None
    BY <1>1, <1>3, EdgeAssumption DEF RouterInv, RouterTyped
<1>5. ASSUME NEW m \in RouteNames PROVE RouteOk(m)'
    <2>1. RouteOk(m)
        BY DEF RouterInv
    <2>2. (Routing!Wanted(cache[m]))' = Routing!Wanted(cache[m])
        BY <1>1 DEF Routing!Wanted, Routing!Upstream
    <2> QED
        BY <1>1, <1>3, <1>4, <2>1, <2>2 DEF RouteOk
<1> QED
    BY <1>4, <1>5 DEF RouterInv

\* Caddy's answer: the route is as the pass wants it, or the app is queued again, or
\* has two routes.
LEMMA CallRouted ==
    ASSUME RouterInv, Routing!Call
    PROVE  RouterInv'
<1> PICK n : n = pass.name
    OBVIOUS
<1> PICK r : r = pass.route
    OBVIOUS
<1>1. /\ UNCHANGED <<served, cache, synced, missed>> /\ pass # None /\ pass' = None
      /\ routes' \in {routes, [routes EXCEPT ![n] = r]}
      /\ queue \subseteq queue' /\ doubled \subseteq doubled'
      /\ n \in queue' \/ n \in doubled' \/ routes' = [routes EXCEPT ![n] = r]
      /\ \A m \in RouteNames \ {n} : m \in doubled' => m \in doubled
    BY DEF Routing!Call, Routing!CallFails, Routing!CallSucceeds, Routing!PatchRefused,
           Routing!Route
<1>2. n \in RouteNames /\ r \in Routing!Routes \cup {None}
    BY <1>1 DEF RouterInv, RouterTyped, Routing!Passes
<1>3. RouterTyped'
    BY <1>1, <1>2 DEF RouterInv, RouterTyped
<1>4. /\ \A m \in RouteNames \ {n} : routes'[m] = routes[m]
      /\ n \in queue' \/ n \in doubled' \/ routes'[n] = r
    BY <1>1, <1>2 DEF RouterInv, RouterTyped
<1>5. ASSUME NEW m \in RouteNames PROVE RouteOk(m)'
    <2>1. RouteOk(m)
        BY DEF RouterInv
    <2>2. (Routing!Wanted(cache[m]))' = Routing!Wanted(cache[m])
        BY <1>1 DEF Routing!Wanted, Routing!Upstream
    <2>3. CASE m # n
        BY <1>1, <1>4, <2>1, <2>2, <2>3 DEF RouteOk
    <2>4. CASE m = n
        BY <1>1, <1>4, <2>1, <2>2, <2>4 DEF RouteOk
    <2> QED
        BY <2>3, <2>4
<1> QED
    BY <1>3, <1>5 DEF RouterInv

\* A new process lists every app there is.
LEMMA RestartRouted ==
    ASSUME RouterInv, Routing!Restart
    PROVE  RouterInv'
<1>1. /\ UNCHANGED <<served, routes>> /\ cache' = [n \in RouteNames |-> None]
      /\ synced' = [n \in RouteNames |-> served[n] = None]
      /\ queue' = {} /\ pass' = None
      /\ missed' = missed \cup {n \in RouteNames : served[n] = None}
    BY DEF Routing!Restart
<1>2. RouterTyped'
    BY <1>1 DEF RouterInv, RouterTyped
<1>3. ASSUME NEW m \in RouteNames PROVE RouteOk(m)'
    BY <1>1 DEF RouteOk
<1> QED
    BY <1>2, <1>3 DEF RouterInv

\* A router that starts has listed nothing.
LEMMA RouterInit ==
    ASSUME Routing!Init PROVE RouterInv
<1>1. served \in [RouteNames -> Routing!Apps \cup {None}]
    <2>1. \A p \in Pods, d \in Domains : Routing!LegacyApp(p, d) \in Routing!Apps
        BY DEF Routing!LegacyApp, Routing!NewApp, Routing!Apps
    <2> QED
        BY <2>1 DEF Routing!Init
<1>2. RouterTyped
    BY <1>1 DEF Routing!Init, RouterTyped
<1>3. ASSUME NEW n \in RouteNames PROVE RouteOk(n)
    BY DEF Routing!Init, RouteOk, Routing!Wanted
<1> QED
    BY <1>2, <1>3 DEF RouterInv

\* Router: at rest and with everything delivered it has left Caddy with the route
\* each app wants, however many apps, writes, failed calls and restarts there were,
\* except for an app deleted where no router could see it and one that a refused
\* PATCH gave two routes (routingFieldsChanged, Reconcile, EnsureRoute, DeleteRoute).
THEOREM RoutesAreSettled == EdgeSpec => []RoutesSettle
<1>1. EdgeInit => RouterInv
    BY RouterInit DEF EdgeInit
<1>2. RouterInv /\ [EdgeNext]_allVars => RouterInv'
    <2> SUFFICES ASSUME RouterInv, [EdgeNext]_allVars PROVE RouterInv'
        OBVIOUS
    <2>1. CASE Routing!Next
        BY <2>1, WriteRouted, DeleteRouted, SyncRouted, ReconcileRouted, CallRouted,
           RestartRouted DEF Routing!Next
    <2>2. CASE UNCHANGED routerVars
        BY <2>2, RouterStays
    <2> QED
        BY <2>1, <2>2, StepOfOnePart
<1>3. RouterInv => RoutesSettle
    <2> SUFFICES ASSUME RouterInv, queue = {}, pass = None, \A n \in RouteNames : synced[n],
                        NEW n \in RouteNames \ (missed \cup doubled)
                 PROVE  routes[n] = Routing!Wanted(served[n])
        BY DEF RoutesSettle, Routing!RoutesSettle
    <2>1. RouteOk(n)
        BY DEF RouterInv
    <2> QED
        BY <2>1 DEF RouteOk
<1> QED
    BY <1>1, <1>2, <1>3, PTL DEF EdgeSpec

-----------------------------------------------------------------------------
(* The event stream.                                                       *)

\* Where a handler is; what the bridge keeps; the Publish under way.
Places == {"away", "admitted", "open", "leaving", "closing"}
Bridges == [pc: {"list", "open", "watch"}, pending: Seq(Stream!WatchEvents),
            outbox: Seq(Stream!Events)]
Publishing == [event: Stream!Events, todo: SUBSET Clients]

\* What the API server and the bridge keep.
BridgeTyped ==
    /\ cluster \in [StreamNames -> Stream!Apps \cup {None}]
    /\ bridge \in Bridges
    /\ last \in [Stream!Uids -> Stream!States \cup {None}]
    /\ count \in [uid: Nat, write: Nat, break: Nat, visit: Nat]

\* What the bus and the handlers keep; the subscribers are the open connections,
\* and Publish sends to subscribers.
BusOk ==
    /\ pub \in Publishing \cup {None}
    /\ dropped \subseteq Clients
    /\ chan \in [Clients -> Seq(Stream!Events)]
    /\ sse \in [Clients -> Places]
    /\ view \in [Clients -> [StreamNames -> StreamPhases \cup {"unknown", None}]]
    /\ subs = {c \in Clients : sse[c] \in {"open", "leaving"}}
    /\ subs \cap closed = {}
    /\ pub # None => pub.todo \subseteq subs

\* An event of an app's status.
LEMMA StateIs ==
    ASSUME NEW n \in StreamNames, NEW app \in Stream!Apps, NEW st, st = Stream!State(n, app)
    PROVE  /\ st \in Stream!States /\ st \in Stream!Events /\ st # None
           /\ st.name = n /\ st.owner = app.owner /\ st.phase = app.phase
<1>1. st \in Stream!States
    BY DEF Stream!State, Stream!Apps, Stream!States
<1>2. st # None
    BY <1>1, StreamAssumption
<1> QED
    BY <1>1, <1>2 DEF Stream!State, Stream!States, Stream!Events

\* An event of an app's end.
LEMMA DeletedIs ==
    ASSUME NEW st \in Stream!States, NEW ev, ev = Stream!DeletedEvent(st)
    PROVE  ev \in Stream!Events /\ ev.name = st.name /\ ev.owner = st.owner /\ ev.phase = None
BY DEF Stream!DeletedEvent, Stream!States, Stream!Events

\* A finite set in some order: everything is in it.
LEMMA InSomeOrder ==
    ASSUME NEW S, IsFiniteSet(S), NEW q \in Stream!SetToSeqs(S)
    PROVE  /\ q \in Seq(S) /\ Len(q) \in Nat /\ DOMAIN q = 1..Len(q)
           /\ \A i \in 1..Len(q) : q[i] \in S
           /\ \A x \in S : \E i \in 1..Len(q) : q[i] = x
<1> PICK k : k = Cardinality(S)
    OBVIOUS
<1>1. k \in Nat
    BY FS_CardinalityType
<1>2. Stream!Cardinality(S) = k
    BY DEF Stream!Cardinality, Cardinality
<1>3. q \in [1..k -> S] /\ \A i, j \in 1..k : i # j => q[i] # q[j]
    BY <1>2 DEF Stream!SetToSeqs
<1>4. q \in Seq(S) /\ Len(q) = k /\ DOMAIN q = 1..k
    BY <1>1, <1>3
<1>5. q \in Injection(1..k, S)
    BY <1>3 DEF Injection, IsInjective
<1>6. Cardinality(1..k) = k
    <2>1. 1 \in Int /\ k \in Int
        BY <1>1
    <2>2. Cardinality(1..k) = IF 1 > k THEN 0 ELSE k - 1 + 1
        BY <2>1, FS_Interval
    <2> QED
        BY <1>1, <2>2
<1>7. q \in Surjection(1..k, S)
    BY <1>5, <1>6, FS_Injection
<1>8. \A x \in S : \E i \in 1..k : q[i] = x
    BY <1>7 DEF Surjection
<1> QED
    BY <1>1, <1>3, <1>4, <1>8

\* What the API server and the bridge leave alone.
BusVars == <<pub, subs, chan, closed, sse, view, dropped>>

\* Bus and handlers stand still.
LEMMA BusStays ==
    ASSUME BusOk, UNCHANGED BusVars PROVE BusOk'
BY DEF BusVars, BusOk

\* Publish takes an event of the outbox; each send is of that event.
LEMMA PublishKeeps ==
    ASSUME BridgeTyped, BusOk, Stream!Publish PROVE BusOk'
<1> PICK e : e = Head(bridge.outbox)
    OBVIOUS
<1> PICK p : p = [event |-> e, todo |-> subs]
    OBVIOUS
<1>1. pub' = p /\ UNCHANGED <<subs, chan, closed, sse, view, dropped>>
    BY DEF Stream!Publish, Stream!clientVars
<1>2. e \in Stream!Events
    BY DEF Stream!Publish, BridgeTyped, Bridges
<1>3. p \in Publishing /\ p.todo = subs
    BY <1>2 DEF Publishing, BusOk
<1> QED
    BY <1>1, <1>3 DEF BusOk

\* A send leaves the event as it is, and one client fewer to send to.
LEMMA SendKeeps ==
    ASSUME BusOk, NEW c \in Clients, Stream!Send(c)
    PROVE  /\ BusOk' /\ pub \in Publishing /\ pub' \in Publishing /\ pub' # None
           /\ pub'.event = pub.event /\ pub'.todo = pub.todo \ {c}
<1>1. pub \in Publishing /\ pub.event \in Stream!Events
    BY DEF Stream!Send, BusOk, Publishing
<1> PICK p : p = [pub EXCEPT !.todo = @ \ {c}]
    OBVIOUS
<1>2. p \in Publishing /\ p.todo = pub.todo \ {c} /\ p.event = pub.event
    BY <1>1 DEF Publishing
<1>3. pub' = p /\ UNCHANGED <<subs, closed, sse, view>>
    BY DEF Stream!Send, Stream!clientVars
<1>4. chan' \in [Clients -> Seq(Stream!Events)] /\ dropped' \subseteq Clients
    <2>1. Append(chan[c], pub.event) \in Seq(Stream!Events)
        BY <1>1 DEF BusOk
    <2> QED
        BY <2>1 DEF Stream!Send, BusOk
<1>5. pub' # None
    BY <1>2, <1>3, StreamAssumption DEF Publishing
<1>6. BusOk'
    BY <1>1, <1>2, <1>3, <1>4 DEF BusOk, Stream!Send
<1> QED
    BY <1>1, <1>2, <1>3, <1>5, <1>6

\* A subscriber comes, under the write lock, with a new channel.
LEMMA SubscribeKeeps ==
    ASSUME BusOk, NEW c \in Clients, Stream!Subscribe(c) PROVE BusOk'
<1>1. /\ pub = None /\ pub' = None /\ sse[c] = "admitted"
      /\ sse' = [sse EXCEPT ![c] = "open"] /\ subs' = subs \cup {c} /\ closed' = closed \ {c}
      /\ chan' = [chan EXCEPT ![c] = <<>>] /\ dropped' = dropped \ {c}
      /\ view' = [view EXCEPT ![c] = Stream!Blank]
    BY DEF Stream!Subscribe, Stream!Unlocked
<1>2. sse' \in [Clients -> Places] /\ subs' = {d \in Clients : sse'[d] \in {"open", "leaving"}}
    BY <1>1 DEF BusOk, Places
<1>3. chan' \in [Clients -> Seq(Stream!Events)]
    <2>1. <<>> \in Seq(Stream!Events)
        OBVIOUS
    <2> QED
        BY <1>1, <2>1 DEF BusOk
<1>4. view' \in [Clients -> [StreamNames -> StreamPhases \cup {"unknown", None}]]
    <2>1. Stream!Blank \in [StreamNames -> StreamPhases \cup {"unknown", None}]
        BY DEF Stream!Blank
    <2> QED
        BY <1>1, <2>1 DEF BusOk
<1> QED
    BY <1>1, <1>2, <1>3, <1>4 DEF BusOk

\* An event leaves the channel.
LEMMA DeliverKeeps ==
    ASSUME BusOk, NEW c \in Clients, Stream!Deliver(c) PROVE BusOk'
<1> PICK e : e = Head(chan[c])
    OBVIOUS
<1>1. chan[c] \in Seq(Stream!Events) /\ chan[c] # <<>>
    BY DEF BusOk, Stream!Deliver
<1>2. e \in Stream!Events /\ Tail(chan[c]) \in Seq(Stream!Events)
    BY <1>1
<1>3. e.name \in StreamNames /\ e.phase \in StreamPhases \cup {None}
    BY <1>2 DEF Stream!Events
<1>4. /\ chan' = [chan EXCEPT ![c] = Tail(chan[c])]
      /\ view' \in {view, [view EXCEPT ![c] = [view[c] EXCEPT ![e.name] = e.phase]]}
      /\ UNCHANGED <<pub, subs, closed, sse, dropped>>
    BY DEF Stream!Deliver
<1>5. [view[c] EXCEPT ![e.name] = e.phase] \in [StreamNames -> StreamPhases \cup {"unknown", None}]
    BY <1>3 DEF BusOk
<1>6. /\ chan' \in [Clients -> Seq(Stream!Events)]
      /\ view' \in [Clients -> [StreamNames -> StreamPhases \cup {"unknown", None}]]
    BY <1>2, <1>4, <1>5 DEF BusOk
<1> QED
    BY <1>4, <1>6 DEF BusOk

\* The channel of one that is no subscriber is closed.
LEMMA CloseKeeps ==
    ASSUME BusOk, NEW c \in Clients, Stream!Close(c) PROVE BusOk'
<1>1. /\ UNCHANGED <<pub, subs, dropped>> /\ sse[c] = "closing"
      /\ sse' = [sse EXCEPT ![c] = "away"] /\ closed' = closed \cup {c}
      /\ chan' = [chan EXCEPT ![c] = <<>>]
      /\ view' = [view EXCEPT ![c] = Stream!Blank]
    BY DEF Stream!Close
<1>2. /\ sse' \in [Clients -> Places] /\ subs' = {d \in Clients : sse'[d] \in {"open", "leaving"}}
      /\ c \notin subs
    BY <1>1 DEF BusOk, Places
<1>3. chan' \in [Clients -> Seq(Stream!Events)]
    <2>1. <<>> \in Seq(Stream!Events)
        OBVIOUS
    <2> QED
        BY <1>1, <2>1 DEF BusOk
<1>4. view' \in [Clients -> [StreamNames -> StreamPhases \cup {"unknown", None}]]
    <2>1. Stream!Blank \in [StreamNames -> StreamPhases \cup {"unknown", None}]
        BY DEF Stream!Blank
    <2> QED
        BY <1>1, <2>1 DEF BusOk
<1> QED
    BY <1>1, <1>2, <1>3, <1>4 DEF BusOk

\* A handler comes or goes, of which the bus hears only when it may write.
LEMMA PlaceKeeps ==
    ASSUME BusOk, NEW c \in Clients,
           Stream!Connect(c) \/ Stream!Disconnect(c) \/ Stream!Unsubscribe(c)
    PROVE  BusOk'
<1>1. UNCHANGED <<pub, chan, closed, view, dropped>>
    BY DEF Stream!Connect, Stream!Disconnect, Stream!Unsubscribe, Stream!busVars
<1>2. CASE Stream!Connect(c)
    <2>1. /\ subs' = subs /\ sse[c] = "away"
          /\ sse' \in {sse, [sse EXCEPT ![c] = "admitted"]}
        BY <1>2 DEF Stream!Connect, Stream!busVars, BusOk
    <2>2. sse' \in [Clients -> Places] /\ subs' = {d \in Clients : sse'[d] \in {"open", "leaving"}}
        BY <2>1 DEF BusOk, Places
    <2> QED
        BY <1>1, <2>1, <2>2 DEF BusOk
<1>3. CASE Stream!Disconnect(c)
    <2>1. subs' = subs /\ sse[c] = "open" /\ sse' = [sse EXCEPT ![c] = "leaving"]
        BY <1>3 DEF Stream!Disconnect, Stream!busVars
    <2>2. sse' \in [Clients -> Places] /\ subs' = {d \in Clients : sse'[d] \in {"open", "leaving"}}
        BY <2>1 DEF BusOk, Places
    <2> QED
        BY <1>1, <2>1, <2>2 DEF BusOk
<1>4. CASE Stream!Unsubscribe(c)
    <2>1. subs' = subs \ {c} /\ pub = None /\ sse' = [sse EXCEPT ![c] = "closing"]
        BY <1>4 DEF Stream!Unsubscribe, Stream!Unlocked
    <2>2. sse' \in [Clients -> Places] /\ subs' = {d \in Clients : sse'[d] \in {"open", "leaving"}}
        BY <2>1 DEF BusOk, Places
    <2> QED
        BY <1>1, <2>1, <2>2 DEF BusOk
<1> QED
    BY <1>2, <1>3, <1>4

\* A write of the API server makes an event for a bridge that has listed.
LEMMA NotifyIs ==
    ASSUME BridgeTyped, NEW type \in {"modified", "deleted"}, NEW n \in StreamNames,
           NEW app \in Stream!Apps, Stream!Notify(type, n, app),
           NEW ev, ev = [type |-> type, name |-> n, app |-> app]
    PROVE  /\ ev \in Stream!WatchEvents /\ ev.type = type /\ ev.name = n /\ ev.app = app
           /\ bridge' \in Bridges /\ bridge'.pc = bridge.pc /\ bridge'.outbox = bridge.outbox
           /\ bridge.pc = "list" => bridge'.pending = bridge.pending
           /\ bridge.pc # "list" => bridge'.pending = Append(bridge.pending, ev)
<1>1. ev \in Stream!WatchEvents
    BY DEF Stream!WatchEvents
<1>2. bridge \in Bridges /\ bridge.pending \in Seq(Stream!WatchEvents)
    BY DEF BridgeTyped, Bridges
<1>3. Append(bridge.pending, ev) \in Seq(Stream!WatchEvents)
    BY <1>1, <1>2
<1> PICK b : b = [bridge EXCEPT !.pending = Append(bridge.pending, ev)]
    OBVIOUS
<1>4. /\ b \in Bridges /\ b.pc = bridge.pc /\ b.outbox = bridge.outbox
      /\ b.pending = Append(bridge.pending, ev)
    BY <1>2, <1>3 DEF Bridges
<1>5. bridge' = IF bridge.pc = "list" THEN bridge ELSE b
    BY DEF Stream!Notify
<1> QED
    BY <1>1, <1>2, <1>4, <1>5

\* The four writes: what is there then, and what the bridge is told.
LEMMA WriteIsSeen ==
    ASSUME BridgeTyped, NEW n \in StreamNames,
           \/ \E o \in StreamOwners : Stream!CreateApp(n, o)
           \/ \E p \in StreamPhases : Stream!WriteStatus(n, p)
           \/ \E o \in StreamOwners : Stream!TakeOver(n, o)
           \/ Stream!DeleteApp(n)
    PROVE  /\ BridgeTyped' /\ count.uid <= count'.uid
           /\ UNCHANGED <<last, BusVars>> /\ handed \subseteq handed'
           /\ \A m \in StreamNames \ {n} : cluster'[m] = cluster[m]
           /\ \E app \in Stream!Apps, type \in {"modified", "deleted"} :
                /\ Stream!Notify(type, n, app)
                /\ type = "deleted" => cluster[n] = app /\ cluster'[n] = None
                /\ type = "modified" => cluster'[n] = app
                /\ \/ /\ cluster[n] # None /\ cluster[n].uid = app.uid
                      /\ cluster[n].owner = app.owner \/ <<n, cluster[n].owner>> \in handed'
                   \/ /\ cluster[n] = None /\ type = "modified"
                      /\ app.uid = count.uid + 1 /\ app.uid = count'.uid
<1>1. ASSUME NEW app \in Stream!Apps, NEW type \in {"modified", "deleted"},
             Stream!Notify(type, n, app)
      PROVE  bridge' \in Bridges
    <2> PICK ev : ev = [type |-> type, name |-> n, app |-> app]
        OBVIOUS
    <2> QED
        BY <1>1, NotifyIs
<1>2. ASSUME NEW o \in StreamOwners, Stream!CreateApp(n, o)
      PROVE  /\ BridgeTyped' /\ count'.uid = count.uid + 1
             /\ \A m \in StreamNames \ {n} : cluster'[m] = cluster[m]
             /\ \E app \in Stream!Apps : /\ Stream!Notify("modified", n, app)
                                         /\ cluster'[n] = app /\ cluster[n] = None
                                         /\ app.uid = count.uid + 1
    <2> PICK app : app = [uid |-> count.uid + 1, owner |-> o,
                          phase |-> CHOOSE p \in StreamPhases : TRUE]
        OBVIOUS
    <2>1. /\ cluster[n] = None /\ count.uid < MaxUid
          /\ count' = [count EXCEPT !.uid = count.uid + 1]
          /\ cluster' = [cluster EXCEPT ![n] = app] /\ Stream!Notify("modified", n, app)
          /\ last' = last
        BY <1>2 DEF Stream!CreateApp, Stream!Counted
    <2>2. count.uid \in Nat
        BY DEF BridgeTyped
    <2>3. (CHOOSE p \in StreamPhases : TRUE) \in StreamPhases
        BY StreamAssumption
    <2>4. count.uid + 1 \in 1..MaxUid
        BY <2>1, <2>2, StreamAssumption
    <2>5. app \in Stream!Apps /\ app.uid = count.uid + 1
        BY <2>3, <2>4 DEF Stream!Apps
    <2>6. count' \in [uid: Nat, write: Nat, break: Nat, visit: Nat] /\ count'.uid = count.uid + 1
        BY <2>1, <2>2 DEF BridgeTyped
    <2>7. bridge' \in Bridges
        BY <1>1, <2>1, <2>5
    <2> QED
        BY <2>1, <2>5, <2>6, <2>7 DEF BridgeTyped
<1>3. ASSUME NEW p \in StreamPhases, Stream!WriteStatus(n, p)
      PROVE  /\ BridgeTyped' /\ count'.uid = count.uid
             /\ \A m \in StreamNames \ {n} : cluster'[m] = cluster[m]
             /\ \E app \in Stream!Apps : /\ Stream!Notify("modified", n, app)
                                         /\ cluster'[n] = app /\ cluster[n] # None
                                         /\ cluster[n].uid = app.uid
                                         /\ cluster[n].owner = app.owner
    <2> PICK app : app = [cluster[n] EXCEPT !.phase = p]
        OBVIOUS
    <2>1. cluster[n] # None /\ cluster[n] \in Stream!Apps
        BY <1>3 DEF Stream!WriteStatus, BridgeTyped
    <2>2. app \in Stream!Apps /\ app.uid = cluster[n].uid /\ app.owner = cluster[n].owner
        BY <2>1 DEF Stream!Apps
    <2>3. /\ cluster' = [cluster EXCEPT ![n] = app] /\ Stream!Notify("modified", n, cluster'[n])
          /\ count' = [count EXCEPT !.write = count.write + 1] /\ last' = last
        BY <1>3 DEF Stream!WriteStatus, Stream!Counted
    <2>4. cluster'[n] = app
        BY <2>3 DEF BridgeTyped
    <2>5. Stream!Notify("modified", n, app)
        <3>1. bridge' = IF bridge.pc = "list" THEN bridge
                        ELSE [bridge EXCEPT !.pending = Append(bridge.pending,
                                [type |-> "modified", name |-> n, app |-> cluster'[n]])]
            BY <1>3 DEF Stream!WriteStatus, Stream!Notify
        <3> QED
            BY <2>4, <3>1 DEF Stream!Notify
    <2>6. count' \in [uid: Nat, write: Nat, break: Nat, visit: Nat] /\ count'.uid = count.uid
        BY <2>3 DEF BridgeTyped
    <2>7. bridge' \in Bridges
        BY <1>1, <2>2, <2>5
    <2> QED
        BY <2>1, <2>2, <2>3, <2>4, <2>5, <2>6, <2>7 DEF BridgeTyped
<1>4. ASSUME NEW o \in StreamOwners, Stream!TakeOver(n, o)
       PROVE  /\ BridgeTyped' /\ count'.uid = count.uid
              /\ \A m \in StreamNames \ {n} : cluster'[m] = cluster[m]
              /\ \E app \in Stream!Apps : /\ Stream!Notify("modified", n, app)
                                          /\ cluster'[n] = app /\ cluster[n] # None
                                          /\ cluster[n].uid = app.uid
                                          /\ <<n, cluster[n].owner>> \in handed'
    <2> PICK app : app = [cluster[n] EXCEPT !.owner = o]
        OBVIOUS
    <2>1. cluster[n] # None /\ cluster[n] \in Stream!Apps
        BY <1>4 DEF Stream!TakeOver, BridgeTyped
    <2>2. app \in Stream!Apps /\ app.uid = cluster[n].uid
        BY <2>1 DEF Stream!Apps
    <2>3. /\ cluster' = [cluster EXCEPT ![n] = app]
          /\ count' = [count EXCEPT !.write = count.write + 1] /\ last' = last
          /\ <<n, cluster[n].owner>> \in handed'
        BY <1>4 DEF Stream!TakeOver, Stream!Counted
    <2>4. cluster'[n] = app
        BY <2>3 DEF BridgeTyped
    <2>5. Stream!Notify("modified", n, app)
        <3>1. bridge' = IF bridge.pc = "list" THEN bridge
                        ELSE [bridge EXCEPT !.pending = Append(bridge.pending,
                                [type |-> "modified", name |-> n, app |-> cluster'[n]])]
            BY <1>4 DEF Stream!TakeOver, Stream!Notify
        <3> QED
            BY <2>4, <3>1 DEF Stream!Notify
    <2>6. count' \in [uid: Nat, write: Nat, break: Nat, visit: Nat] /\ count'.uid = count.uid
        BY <2>3 DEF BridgeTyped
    <2>7. bridge' \in Bridges
        BY <1>1, <2>2, <2>5
    <2> QED
        BY <2>1, <2>2, <2>3, <2>4, <2>5, <2>6, <2>7 DEF BridgeTyped
<1>5. ASSUME Stream!DeleteApp(n)
      PROVE  /\ BridgeTyped' /\ count'.uid = count.uid
             /\ \A m \in StreamNames \ {n} : cluster'[m] = cluster[m]
             /\ \E app \in Stream!Apps : /\ Stream!Notify("deleted", n, app)
                                         /\ cluster'[n] = None /\ cluster[n] # None
                                         /\ cluster[n] = app
    <2>1. cluster[n] # None /\ cluster[n] \in Stream!Apps
        BY <1>5 DEF Stream!DeleteApp, BridgeTyped
    <2>2. /\ cluster' = [cluster EXCEPT ![n] = None] /\ Stream!Notify("deleted", n, cluster[n])
          /\ count' = count /\ last' = last
        BY <1>5 DEF Stream!DeleteApp
    <2>3. bridge' \in Bridges
        BY <1>1, <2>1, <2>2
    <2> QED
        BY <2>1, <2>2, <2>3 DEF BridgeTyped
<1>6. UNCHANGED <<last, BusVars>> /\ handed \subseteq handed'
    BY DEF Stream!CreateApp, Stream!WriteStatus, Stream!TakeOver, Stream!DeleteApp,
           Stream!busVars, Stream!clientVars, BusVars
<1>7. count.uid \in Nat
    BY DEF BridgeTyped
<1>8. CASE \E o \in StreamOwners : Stream!CreateApp(n, o)
    BY <1>2, <1>6, <1>7, <1>8
<1>9. CASE \E p \in StreamPhases : Stream!WriteStatus(n, p)
    BY <1>3, <1>6, <1>7, <1>9
<1>10. CASE Stream!DeleteApp(n)
    BY <1>5, <1>6, <1>7, <1>10
<1>11. CASE \E o \in StreamOwners : Stream!TakeOver(n, o)
    BY <1>6, <1>7, <1>4, <1>11
<1> QED
    BY <1>8, <1>9, <1>10, <1>11

\* The list and its reconcile: the end of every app that is gone, then the status
\* of every app that changed.
LEMMA SyncIs ==
    ASSUME BridgeTyped, Stream!Sync
    PROVE  /\ bridge' \in Bridges /\ bridge'.pc = "open" /\ bridge'.pending = bridge.pending
           /\ last' \in [Stream!Uids -> Stream!States \cup {None}]
           /\ \A u \in Stream!Uids : last'[u] # None =>
                 \E n \in StreamNames : cluster[n] # None /\ cluster[n].uid = u
           /\ \A n \in StreamNames : cluster[n] # None =>
                 \E m \in StreamNames : /\ cluster[m] # None /\ cluster[m].uid = cluster[n].uid
                                        /\ last'[cluster[n].uid] = Stream!State(m, cluster[m])
           /\ \E A, B \in Seq(Stream!Events) :
                 /\ bridge'.outbox = A \o B
                 /\ \A i \in 1..Len(A) : \E u \in Stream!Gone :
                       /\ A[i].name = last[u].name /\ A[i].owner = last[u].owner
                       /\ A[i].phase = None
                 /\ \A u \in Stream!Gone : \E i \in 1..Len(A) :
                       A[i].name = last[u].name /\ A[i].owner = last[u].owner
                 /\ \A i \in 1..Len(B) : \E n \in StreamNames :
                       Stream!Changed(n) /\ B[i] = Stream!State(n, cluster[n])
                 /\ \A n \in StreamNames : Stream!Changed(n) =>
                       \E i \in 1..Len(B) : B[i] = Stream!State(n, cluster[n])
<1> DEFINE there == {n \in StreamNames : cluster[n] # None}
           Listed(u) == CHOOSE n \in there : cluster[n].uid = u
           changed == {n \in StreamNames : Stream!Changed(n)}
<1>1. /\ last' = [u \in Stream!Uids |-> IF \E n \in there : cluster[n].uid = u
                                        THEN Stream!State(Listed(u), cluster[Listed(u)]) ELSE None]
    BY DEF Stream!Sync, Stream!Known
<1>2. ASSUME NEW u \in Stream!Uids, \E n \in there : cluster[n].uid = u
      PROVE  /\ Listed(u) \in there /\ cluster[Listed(u)].uid = u
             /\ last'[u] = Stream!State(Listed(u), cluster[Listed(u)])
             /\ last'[u] \in Stream!States
    <2>1. Listed(u) \in there /\ cluster[Listed(u)].uid = u
        BY <1>2
    <2>2. last'[u] = Stream!State(Listed(u), cluster[Listed(u)])
        BY <1>1, <1>2
    <2>3. cluster[Listed(u)] \in Stream!Apps
        BY <2>1 DEF BridgeTyped
    <2> QED
        BY <2>1, <2>2, <2>3, StateIs
<1>3. ASSUME NEW u \in Stream!Uids, ~\E n \in there : cluster[n].uid = u PROVE last'[u] = None
    BY <1>1, <1>3
<1>4. last' \in [Stream!Uids -> Stream!States \cup {None}]
    <2>1. \A u \in Stream!Uids : last'[u] \in Stream!States \cup {None}
        BY <1>2, <1>3
    <2>2. last' = [u \in Stream!Uids |-> last'[u]]
        BY <1>1
    <2> QED
        BY <2>1, <2>2
<1>5. \A u \in Stream!Uids : last'[u] # None =>
         \E n \in StreamNames : cluster[n] # None /\ cluster[n].uid = u
    BY <1>3
<1>6. ASSUME NEW n \in StreamNames, cluster[n] # None
      PROVE  \E m \in StreamNames : /\ cluster[m] # None /\ cluster[m].uid = cluster[n].uid
                                    /\ last'[cluster[n].uid] = Stream!State(m, cluster[m])
    <2>1. cluster[n].uid \in Stream!Uids
        BY <1>6 DEF BridgeTyped, Stream!Apps, Stream!Uids
    <2>2. \E x \in there : cluster[x].uid = cluster[n].uid
        BY <1>6
    <2> QED
        BY <1>2, <2>1, <2>2
<1>7. PICK ds \in Stream!SetToSeqs(Stream!Gone), ms \in Stream!SetToSeqs(changed) :
          Stream!Report(Stream!Ends(ds) \o Stream!Statuses(ms))
    BY DEF Stream!Sync
<1>8. IsFiniteSet(Stream!Gone) /\ IsFiniteSet(changed)
    <2>1. IsFiniteSet(1..MaxUid)
        <3>1. 1 \in Int /\ MaxUid \in Int
            BY StreamAssumption
        <3> QED
            BY <3>1, FS_Interval
    <2>2. Stream!Gone \subseteq 1..MaxUid /\ changed \subseteq StreamNames
        BY DEF Stream!Gone, Stream!Uids
    <2> QED
        BY <2>1, <2>2, StreamAssumption, FS_Subset
<1>9. /\ Len(ds) \in Nat /\ DOMAIN ds = 1..Len(ds)
      /\ \A i \in 1..Len(ds) : ds[i] \in Stream!Gone
      /\ \A x \in Stream!Gone : \E i \in 1..Len(ds) : ds[i] = x
    BY <1>8, InSomeOrder
<1>10. /\ Len(ms) \in Nat /\ DOMAIN ms = 1..Len(ms)
       /\ \A i \in 1..Len(ms) : ms[i] \in changed
       /\ \A x \in changed : \E i \in 1..Len(ms) : ms[i] = x
    <2> HIDE DEF changed
    <2> QED
        BY <1>8, InSomeOrder
<1> PICK A : A = Stream!Ends(ds)
    OBVIOUS
<1> PICK B : B = Stream!Statuses(ms)
    OBVIOUS
<1>11. ASSUME NEW i \in 1..Len(ds)
       PROVE  /\ A[i] \in Stream!Events /\ A[i].name = last[ds[i]].name
              /\ A[i].owner = last[ds[i]].owner /\ A[i].phase = None
    <2>1. last[ds[i]] \in Stream!States
        BY <1>9 DEF Stream!Gone, BridgeTyped
    <2>2. A[i] = Stream!DeletedEvent(last[ds[i]])
        BY <1>9 DEF Stream!Ends
    <2> QED
        BY <2>1, <2>2, DeletedIs
<1>12. ASSUME NEW i \in 1..Len(ms)
       PROVE  B[i] \in Stream!Events /\ B[i] = Stream!State(ms[i], cluster[ms[i]])
    <2>1. ms[i] \in StreamNames /\ cluster[ms[i]] \in Stream!Apps
        BY <1>10 DEF Stream!Changed, BridgeTyped
    <2>2. B[i] = Stream!State(ms[i], cluster[ms[i]])
        BY <1>10 DEF Stream!Statuses
    <2> QED
        BY <2>1, <2>2, StateIs
<1>13. /\ A \in Seq(Stream!Events) /\ Len(A) = Len(ds)
       /\ B \in Seq(Stream!Events) /\ Len(B) = Len(ms)
    <2>1. A \in [1..Len(ds) -> Stream!Events] /\ B \in [1..Len(ms) -> Stream!Events]
        BY <1>9, <1>10, <1>11, <1>12 DEF Stream!Ends, Stream!Statuses
    <2> PICK j : j = Len(ds)
        OBVIOUS
    <2> PICK k : k = Len(ms)
        OBVIOUS
    <2>2. A \in [1..j -> Stream!Events] /\ B \in [1..k -> Stream!Events] /\ j \in Nat /\ k \in Nat
        BY <1>9, <1>10, <2>1
    <2>3. A \in Seq(Stream!Events) /\ Len(A) = j
        BY <2>2
    <2>4. B \in Seq(Stream!Events) /\ Len(B) = k
        BY <2>2
    <2> QED
        BY <2>3, <2>4
<1> PICK q : q = A \o B
    OBVIOUS
<1>14. q \in Seq(Stream!Events)
    BY <1>13
<1>15. /\ bridge' \in Bridges /\ bridge'.pc = "open" /\ bridge'.pending = bridge.pending
       /\ bridge'.outbox = q
    <2>1. bridge' = [bridge EXCEPT !.pc = "open", !.outbox = q]
        BY <1>7 DEF Stream!Report
    <2> QED
        BY <1>14, <2>1 DEF BridgeTyped, Bridges
<1>16. ASSUME NEW i \in 1..Len(A)
       PROVE  \E u \in Stream!Gone : /\ A[i].name = last[u].name /\ A[i].owner = last[u].owner
                                     /\ A[i].phase = None
    BY <1>9, <1>11, <1>13
<1>17. ASSUME NEW u \in Stream!Gone
       PROVE  \E i \in 1..Len(A) : A[i].name = last[u].name /\ A[i].owner = last[u].owner
    <2>1. PICK i \in 1..Len(ds) : ds[i] = u
        BY <1>9
    <2>2. A[i].name = last[u].name /\ A[i].owner = last[u].owner
        BY <1>11, <2>1
    <2> QED
        BY <1>13, <2>2
<1>18. ASSUME NEW i \in 1..Len(B)
       PROVE  \E n \in StreamNames : Stream!Changed(n) /\ B[i] = Stream!State(n, cluster[n])
    <2>1. ms[i] \in StreamNames /\ Stream!Changed(ms[i])
        BY <1>10, <1>13
    <2>2. B[i] = Stream!State(ms[i], cluster[ms[i]])
        BY <1>12, <1>13
    <2> QED
        BY <2>1, <2>2
<1>19. ASSUME NEW n \in StreamNames, Stream!Changed(n)
       PROVE  \E i \in 1..Len(B) : B[i] = Stream!State(n, cluster[n])
    <2>1. PICK i \in 1..Len(ms) : ms[i] = n
        BY <1>10, <1>19
    <2>2. B[i] = Stream!State(n, cluster[n])
        BY <1>12, <2>1
    <2> QED
        BY <1>13, <2>2
<1> HIDE DEF there, Listed, changed
<1>20. \E X, Y \in Seq(Stream!Events) :
         /\ bridge'.outbox = X \o Y
         /\ \A i \in 1..Len(X) : \E u \in Stream!Gone :
               /\ X[i].name = last[u].name /\ X[i].owner = last[u].owner
               /\ X[i].phase = None
         /\ \A u \in Stream!Gone : \E i \in 1..Len(X) :
               X[i].name = last[u].name /\ X[i].owner = last[u].owner
         /\ \A i \in 1..Len(Y) : \E n \in StreamNames :
               Stream!Changed(n) /\ Y[i] = Stream!State(n, cluster[n])
         /\ \A n \in StreamNames : Stream!Changed(n) =>
               \E i \in 1..Len(Y) : Y[i] = Stream!State(n, cluster[n])
    <2> A \in Seq(Stream!Events) /\ B \in Seq(Stream!Events)
        BY <1>13
    <2> WITNESS A \in Seq(Stream!Events), B \in Seq(Stream!Events)
    <2> QED
        BY <1>14, <1>15, <1>16, <1>18, <1>17, <1>19
<1> QED
    BY <1>4, <1>5, <1>6, <1>15, <1>20

-----------------------------------------------------------------------------
(* What a client is told.                                                  *)

\* Client c hears of name n by the event ev; by no event of q; and last by an
\* event of q with phase x.
Rel(ev, c, n) == ev.name = n /\ Caller[c] \in {Admin, ev.owner}
Silent(q, c, n) == \A i \in 1..Len(q) : ~Rel(q[i], c, n)
LastSays(q, c, n, x) ==
    \A i \in 1..Len(q) :
       Rel(q[i], c, n) /\ (\A j \in 1..Len(q) : j > i => ~Rel(q[j], c, n)) => q[i].phase = x

\* By no events nothing is said.
LEMMA NothingSaid ==
    ASSUME NEW c, NEW n, NEW x PROVE Silent(<<>>, c, n) /\ LastSays(<<>>, c, n, x)
BY DEF Silent, LastSays

\* One event alone.
LEMMA OneSaid ==
    ASSUME NEW ev, NEW q, q = <<ev>>, NEW c, NEW n, NEW x
    PROVE  /\ ~Rel(ev, c, n) => Silent(q, c, n)
           /\ Rel(ev, c, n) => ~Silent(q, c, n)
           /\ (Rel(ev, c, n) => ev.phase = x) => LastSays(q, c, n, x)
<1>1. Len(q) = 1 /\ q[1] = ev
    OBVIOUS
<1>2. \A i \in 1..Len(q) : i = 1
    BY <1>1
<1>3. 1 \in 1..Len(q)
    BY <1>1
<1> QED
    BY <1>1, <1>2, <1>3 DEF Silent, LastSays

\* The first event is taken off.
LEMMA TailSays ==
    ASSUME NEW q \in Seq(Stream!Events), q # <<>>, NEW t, t = Tail(q), NEW e, e = Head(q),
           NEW c, NEW n, NEW x
    PROVE  /\ Silent(q, c, n) <=> Silent(t, c, n) /\ ~Rel(e, c, n)
           /\ LastSays(q, c, n, x) => LastSays(t, c, n, x)
           /\ LastSays(q, c, n, x) /\ Silent(t, c, n) /\ Rel(e, c, n) => e.phase = x
<1>1. /\ Len(q) \in Nat \ {0} /\ Len(t) = Len(q) - 1 /\ q[1] = e
      /\ \A i \in 1..Len(t) : t[i] = q[i + 1]
    BY DEF Stream!Events
<1>2. /\ \A i \in 1..Len(t) : i + 1 \in 1..Len(q)
      /\ 1 \in 1..Len(q)
      /\ \A i \in 1..Len(q) : i = 1 \/ (i - 1 \in 1..Len(t) /\ (i - 1) + 1 = i)
      /\ \A i, j \in 1..Len(t) : j > i <=> j + 1 > i + 1
    BY <1>1
<1>3. \A i \in 1..Len(q) : i # 1 => q[i] = t[i - 1]
    BY <1>1, <1>2
<1>4. Silent(q, c, n) <=> Silent(t, c, n) /\ ~Rel(e, c, n)
    <2>1. ASSUME Silent(q, c, n) PROVE Silent(t, c, n) /\ ~Rel(e, c, n)
        BY <1>1, <1>2, <2>1 DEF Silent
    <2>2. ASSUME Silent(t, c, n), ~Rel(e, c, n) PROVE Silent(q, c, n)
        BY <1>1, <1>2, <1>3, <2>2 DEF Silent
    <2> QED
        BY <2>1, <2>2
<1>5. ASSUME LastSays(q, c, n, x) PROVE LastSays(t, c, n, x)
    <2> SUFFICES ASSUME NEW i \in 1..Len(t), Rel(t[i], c, n),
                        \A j \in 1..Len(t) : j > i => ~Rel(t[j], c, n)
                 PROVE  t[i].phase = x
        BY DEF LastSays
    <2>1. i + 1 \in 1..Len(q) /\ t[i] = q[i + 1]
        BY <1>1, <1>2
    <2>2. ASSUME NEW j \in 1..Len(q), j > i + 1 PROVE ~Rel(q[j], c, n)
        <3>1. j - 1 \in 1..Len(t) /\ j - 1 > i /\ q[j] = t[j - 1]
            BY <1>1, <1>2, <1>3, <2>2
        <3> QED
            BY <3>1
    <2> QED
        BY <1>5, <2>1, <2>2 DEF LastSays
<1>6. ASSUME LastSays(q, c, n, x), Silent(t, c, n), Rel(e, c, n) PROVE e.phase = x
    <2>1. ASSUME NEW j \in 1..Len(q), j > 1 PROVE ~Rel(q[j], c, n)
        <3>1. j - 1 \in 1..Len(t) /\ q[j] = t[j - 1]
            BY <1>1, <1>2, <1>3, <2>1
        <3> QED
            BY <1>6, <3>1 DEF Silent
    <2> QED
        BY <1>1, <1>2, <1>6, <2>1 DEF LastSays
<1> QED
    BY <1>4, <1>5, <1>6

\* One more event is sent.
IsAppend(t, q, e) ==
    /\ Len(q) \in Nat /\ Len(t) = Len(q) + 1 /\ t[Len(q) + 1] = e
    /\ \A i \in 1..Len(q) : t[i] = q[i]

\* What is said last is said by the last event, if that says anything.
LEMMA AppendSays ==
    ASSUME NEW q, NEW e, NEW t, IsAppend(t, q, e), NEW c, NEW n, NEW x
    PROVE  /\ Silent(t, c, n) <=> Silent(q, c, n) /\ ~Rel(e, c, n)
           /\ Rel(e, c, n) /\ e.phase = x => LastSays(t, c, n, x)
           /\ ~Rel(e, c, n) /\ LastSays(q, c, n, x) => LastSays(t, c, n, x)
<1> PICK k : k = Len(q)
    OBVIOUS
<1>1. /\ k \in Nat /\ Len(t) = k + 1 /\ t[k + 1] = e
      /\ \A i \in 1..k : t[i] = q[i]
    BY DEF IsAppend
<1>2. /\ \A i \in 1..k : i \in 1..(k + 1) /\ k + 1 > i
      /\ k + 1 \in 1..(k + 1)
      /\ \A i \in 1..(k + 1) : i = k + 1 \/ i \in 1..k
      /\ \A i \in 1..(k + 1) : ~(i > k + 1)
    BY <1>1
<1>3. Silent(t, c, n) <=> Silent(q, c, n) /\ ~Rel(e, c, n)
    <2>1. ASSUME Silent(t, c, n) PROVE Silent(q, c, n) /\ ~Rel(e, c, n)
        BY <1>1, <1>2, <2>1 DEF Silent
    <2>2. ASSUME Silent(q, c, n), ~Rel(e, c, n) PROVE Silent(t, c, n)
        BY <1>1, <1>2, <2>2 DEF Silent
    <2> QED
        BY <2>1, <2>2
<1>4. ASSUME Rel(e, c, n), e.phase = x PROVE LastSays(t, c, n, x)
    BY <1>1, <1>2, <1>4 DEF LastSays
<1>5. ASSUME ~Rel(e, c, n), LastSays(q, c, n, x) PROVE LastSays(t, c, n, x)
    <2> SUFFICES ASSUME NEW i \in 1..Len(t), Rel(t[i], c, n),
                        \A j \in 1..Len(t) : j > i => ~Rel(t[j], c, n)
                 PROVE  t[i].phase = x
        BY DEF LastSays
    <2>1. i \in 1..k /\ t[i] = q[i]
        BY <1>1, <1>2, <1>5
    <2>2. \A j \in 1..k : j > i => ~Rel(q[j], c, n)
        BY <1>1, <1>2
    <2> QED
        BY <1>5, <2>1, <2>2 DEF LastSays
<1> QED
    BY <1>3, <1>4, <1>5

\* What client c is to know of name n if the apps are f.
Shown(f, c, n) == IF f[n] # None /\ Caller[c] \in {Admin, f[n].owner} THEN f[n].phase ELSE None

\* What is still to come, and then what has come, tells client c of name n as f
\* has it.  The outbox does for whoever may subscribe before it is published.
ToldOk(f, c, n) ==
    /\ LastSays(bridge.outbox, c, n, Shown(f, c, n))
    /\ c \in subs /\ c \notin dropped /\ Silent(bridge.outbox, c, n) =>
          IF pub # None /\ c \in pub.todo /\ Rel(pub.event, c, n)
          THEN pub.event.phase = Shown(f, c, n)
          ELSE /\ LastSays(chan[c], c, n, Shown(f, c, n))
               /\ Silent(chan[c], c, n) /\ view[c][n] # "unknown" => view[c][n] = Shown(f, c, n)

\* No app of that name was taken from the client.
Kept(c, n) == <<n, Caller[c]>> \notin handed

Told(f) == \A c \in Clients, n \in StreamNames : Kept(c, n) => ToldOk(f, c, n)

\* Nothing that was to be told is touched.
LEMMA ToldStays ==
    ASSUME NEW f, Told(f), bridge'.outbox = bridge.outbox,
           UNCHANGED <<pub, subs, chan, view, dropped>>, handed \subseteq handed'
    PROVE  Told(f)'
<1>1. ASSUME NEW c \in Clients, NEW n \in StreamNames, Kept(c, n)' PROVE ToldOk(f, c, n)'
    BY <1>1 DEF Told, ToldOk, Kept
<1> QED
    BY <1>1 DEF Told

\* A bridge that has published everything works on: where there is something
\* to tell it tells it, and where not nothing has changed.
LEMMA ToldAfter ==
    ASSUME NEW f, NEW g, Told(f), bridge.outbox = <<>>, pub = None,
           UNCHANGED <<pub, subs, chan, view, dropped, handed>>,
           \A c \in Clients, n \in StreamNames : Kept(c, n) =>
              \/ /\ ~Silent(bridge'.outbox, c, n)
                 /\ LastSays(bridge'.outbox, c, n, Shown(g, c, n))
              \/ /\ Silent(bridge'.outbox, c, n) /\ Shown(g, c, n) = Shown(f, c, n)
    PROVE  Told(g)'
<1>1. ASSUME NEW c \in Clients, NEW n \in StreamNames, Kept(c, n)' PROVE ToldOk(g, c, n)'
    <2>1. Kept(c, n) /\ ToldOk(f, c, n) /\ Silent(bridge.outbox, c, n)
        BY <1>1, NothingSaid DEF Told, Kept
    <2>2. CASE ~Silent(bridge'.outbox, c, n)
        BY <2>1, <2>2 DEF ToldOk
    <2>3. CASE Silent(bridge'.outbox, c, n)
        <3>1. LastSays(bridge'.outbox, c, n, Shown(g, c, n))
            BY <2>3 DEF Silent, LastSays
        <3> QED
            BY <2>1, <2>3, <3>1 DEF ToldOk
    <2> QED
        BY <2>2, <2>3
<1> QED
    BY <1>1 DEF Told

\* Publish: the first event of the outbox is now the one being sent.
LEMMA ToldPublish ==
    ASSUME BridgeTyped, BusOk, NEW f, Told(f), Stream!Publish
    PROVE  Told(f)' /\ bridge'.pc = bridge.pc /\ bridge'.pending = bridge.pending /\ bridge' \in Bridges
<1> PICK q : q = bridge.outbox
    OBVIOUS
<1> PICK e : e = Head(q)
    OBVIOUS
<1> PICK t : t = Tail(q)
    OBVIOUS
<1>1. q \in Seq(Stream!Events) /\ q # <<>> /\ pub = None
    BY DEF Stream!Publish, BridgeTyped, Bridges
<1>2. t \in Seq(Stream!Events) /\ e \in Stream!Events
    BY <1>1
<1>3. /\ bridge' \in Bridges /\ bridge'.outbox = t
      /\ bridge'.pc = bridge.pc /\ bridge'.pending = bridge.pending
    <2>1. bridge' = [bridge EXCEPT !.outbox = t]
        BY DEF Stream!Publish
    <2> QED
        BY <1>2, <2>1 DEF BridgeTyped, Bridges
<1> PICK p : p = [event |-> e, todo |-> subs]
    OBVIOUS
<1>4. /\ pub' = p /\ p.event = e /\ p.todo = subs
      /\ UNCHANGED <<subs, chan, view, dropped, handed>>
    BY DEF Stream!Publish, Stream!clientVars
<1>5. p # None
    <2>1. p \in [event: Stream!Events, todo: SUBSET Clients]
        BY <1>2 DEF BusOk
    <2> QED
        BY <2>1, StreamAssumption
<1>6. ASSUME NEW c \in Clients, NEW n \in StreamNames, Kept(c, n)' PROVE ToldOk(f, c, n)'
    <2> PICK x : x = Shown(f, c, n)
        OBVIOUS
    <2>1. ToldOk(f, c, n)
        BY <1>4, <1>6 DEF Told, Kept
    <2>2. /\ Silent(q, c, n) <=> Silent(t, c, n) /\ ~Rel(e, c, n)
          /\ LastSays(q, c, n, x) => LastSays(t, c, n, x)
          /\ LastSays(q, c, n, x) /\ Silent(t, c, n) /\ Rel(e, c, n) => e.phase = x
        BY <1>1, TailSays
    <2>3. /\ LastSays(q, c, n, x)
          /\ c \in subs /\ c \notin dropped /\ Silent(q, c, n) =>
                 /\ LastSays(chan[c], c, n, x)
                 /\ Silent(chan[c], c, n) /\ view[c][n] # "unknown" => view[c][n] = x
        BY <1>1, <2>1 DEF ToldOk
    <2> QED
        BY <1>3, <1>4, <1>5, <2>2, <2>3 DEF ToldOk
<1> QED
    BY <1>3, <1>6 DEF Told

\* Send: what was being sent is in the channel, or was dropped.
LEMMA ToldSend ==
    ASSUME BusOk, NEW f, Told(f), NEW d \in Clients, Stream!Send(d)
    PROVE  Told(f)'
<1>1. /\ pub \in Publishing /\ pub # None /\ pub' # None /\ d \in pub.todo
      /\ pub'.event = pub.event /\ pub'.todo = pub.todo \ {d}
    BY SendKeeps DEF Stream!Send
<1> PICK e : e = pub.event
    OBVIOUS
<1>2. e \in Stream!Events /\ chan[d] \in Seq(Stream!Events)
    BY <1>1 DEF Publishing, BusOk
<1>3. /\ UNCHANGED <<bridge, subs, view, handed>>
      /\ \A c \in Clients : c \in dropped => c \in dropped'
      /\ d \in dropped' \/ chan' = [chan EXCEPT ![d] = Append(chan[d], e)]
      /\ \A c \in Clients \ {d} : chan'[c] = chan[c]
    BY DEF Stream!Send, Stream!clientVars, BusOk
<1>4. ASSUME NEW c \in Clients, NEW n \in StreamNames, Kept(c, n)' PROVE ToldOk(f, c, n)'
    <2>1. ToldOk(f, c, n)
        BY <1>3, <1>4 DEF Told, Kept
    <2> PICK x : x = Shown(f, c, n)
        OBVIOUS
    <2>2. CASE c # d
        BY <1>1, <1>3, <2>1, <2>2 DEF ToldOk
    <2>3. CASE c = d /\ d \in dropped'
        BY <1>3, <2>1, <2>3 DEF ToldOk
    <2>4. CASE c = d /\ d \notin dropped'
        <3> PICK q : q = chan[d]
            OBVIOUS
        <3>1. PICK t : t = Append(q, e)
            OBVIOUS
        <3>2. chan'[d] = t
            BY <1>3, <2>4, <3>1 DEF BusOk
        <3>3. /\ Silent(t, c, n) <=> Silent(q, c, n) /\ ~Rel(e, c, n)
              /\ Rel(e, c, n) /\ e.phase = x => LastSays(t, c, n, x)
              /\ ~Rel(e, c, n) /\ LastSays(q, c, n, x) => LastSays(t, c, n, x)
            <4>1. q \in Seq(Stream!Events)
                BY <1>2
            <4>2. IsAppend(t, q, e)
                BY <1>2, <3>1, <4>1 DEF IsAppend
            <4> QED
                BY <4>2, AppendSays
        <3>4. /\ LastSays(bridge.outbox, c, n, x)
              /\ c \in subs /\ Silent(bridge.outbox, c, n) =>
                    IF Rel(e, c, n) THEN e.phase = x
                    ELSE /\ LastSays(q, c, n, x)
                         /\ Silent(q, c, n) /\ view[c][n] # "unknown" => view[c][n] = x
            BY <1>1, <1>3, <2>1, <2>4 DEF ToldOk
        <3> QED
            BY <1>1, <1>3, <2>4, <3>2, <3>3, <3>4 DEF ToldOk
    <2> QED
        BY <2>2, <2>3, <2>4
<1> QED
    BY <1>4 DEF Told

\* Published: nobody is left to be sent to.
LEMMA ToldPublished ==
    ASSUME NEW f, Told(f), Stream!Published
    PROVE  Told(f)'
<1>1. /\ pub # None /\ pub.todo = {} /\ pub' = None
      /\ UNCHANGED <<bridge, subs, chan, view, dropped, handed>>
    BY DEF Stream!Published, Stream!clientVars
<1>2. ASSUME NEW c \in Clients, NEW n \in StreamNames, Kept(c, n)' PROVE ToldOk(f, c, n)'
    BY <1>1, <1>2 DEF Told, ToldOk, Kept
<1> QED
    BY <1>2 DEF Told

\* Subscribe: a new client knows nothing and has the outbox to come.
LEMMA ToldSubscribe ==
    ASSUME BusOk, NEW f, Told(f), NEW d \in Clients, Stream!Subscribe(d)
    PROVE  Told(f)'
<1>1. /\ pub = None /\ pub' = None /\ UNCHANGED <<bridge, handed>>
      /\ subs' = subs \cup {d} /\ dropped' = dropped \ {d}
      /\ chan' = [chan EXCEPT ![d] = <<>>]
      /\ view' = [view EXCEPT ![d] = Stream!Blank]
    BY DEF Stream!Subscribe, Stream!Unlocked
<1>2. /\ chan'[d] = <<>> /\ view'[d] = Stream!Blank
      /\ \A c \in Clients \ {d} : chan'[c] = chan[c] /\ view'[c] = view[c]
    BY <1>1 DEF BusOk
<1>3. ASSUME NEW c \in Clients, NEW n \in StreamNames, Kept(c, n)' PROVE ToldOk(f, c, n)'
    <2>1. ToldOk(f, c, n)
        BY <1>1, <1>3 DEF Told, Kept
    <2>2. CASE c # d
        BY <1>1, <1>2, <2>1, <2>2 DEF ToldOk
    <2>3. CASE c = d
        <3>1. view'[d][n] = "unknown" /\ LastSays(chan'[d], c, n, Shown(f, c, n))
            BY <1>2, NothingSaid DEF Stream!Blank
        <3> QED
            BY <1>1, <2>1, <2>3, <3>1 DEF ToldOk
    <2> QED
        BY <2>2, <2>3
<1> QED
    BY <1>3 DEF Told

\* Deliver: an event of the channel becomes what the client knows.
LEMMA ToldDeliver ==
    ASSUME BusOk, NEW f, Told(f), NEW d \in Clients, Stream!Deliver(d)
    PROVE  Told(f)'
<1> PICK q : q = chan[d]
    OBVIOUS
<1> PICK e : e = Head(q)
    OBVIOUS
<1> PICK t : t = Tail(q)
    OBVIOUS
<1>1. q \in Seq(Stream!Events) /\ q # <<>>
    BY DEF BusOk, Stream!Deliver
<1>2. e \in Stream!Events /\ e.name \in StreamNames
    <2>1. e \in Stream!Events
        BY <1>1
    <2> QED
        BY <2>1 DEF Stream!Events
<1>3. /\ UNCHANGED <<bridge, pub, subs, dropped, handed>>
      /\ chan' = [chan EXCEPT ![d] = t]
      /\ view' = IF Caller[d] \in {Admin, e.owner}
                 THEN [view EXCEPT ![d] = [view[d] EXCEPT ![e.name] = e.phase]] ELSE view
    BY DEF Stream!Deliver, Stream!Visible
<1>4. /\ chan'[d] = t
      /\ \A c \in Clients \ {d} : chan'[c] = chan[c] /\ view'[c] = view[c]
      /\ \A n \in StreamNames : view'[d][n] = IF Rel(e, d, n) THEN e.phase ELSE view[d][n]
    BY <1>2, <1>3 DEF BusOk, Rel
<1>5. ASSUME NEW c \in Clients, NEW n \in StreamNames, Kept(c, n)' PROVE ToldOk(f, c, n)'
    <2>1. ToldOk(f, c, n)
        BY <1>3, <1>5 DEF Told, Kept
    <2> PICK x : x = Shown(f, c, n)
        OBVIOUS
    <2>2. CASE c # d
        BY <1>3, <1>4, <2>1, <2>2 DEF ToldOk
    <2>3. CASE c = d
        <3>1. /\ Silent(q, c, n) <=> Silent(t, c, n) /\ ~Rel(e, c, n)
              /\ LastSays(q, c, n, x) => LastSays(t, c, n, x)
              /\ LastSays(q, c, n, x) /\ Silent(t, c, n) /\ Rel(e, c, n) => e.phase = x
            BY <1>1, TailSays
        <3> QED
            BY <1>3, <1>4, <2>1, <2>3, <3>1 DEF ToldOk
    <2> QED
        BY <2>2, <2>3
<1> QED
    BY <1>5 DEF Told

\* A handler comes or goes: nobody else is touched.
LEMMA ToldPlace ==
    ASSUME BusOk, NEW f, Told(f), NEW d \in Clients,
           \/ Stream!Connect(d) \/ Stream!Disconnect(d) \/ Stream!Unsubscribe(d)
           \/ Stream!Close(d)
    PROVE  Told(f)'
<1>1. CASE Stream!Connect(d) \/ Stream!Disconnect(d)
    <2>1. UNCHANGED <<bridge, pub, subs, chan, view, dropped, handed>>
        BY <1>1 DEF Stream!Connect, Stream!Disconnect, Stream!busVars
    <2> QED
        BY <2>1, ToldStays
<1>2. CASE Stream!Unsubscribe(d) \/ Stream!Close(d)
    <2>1. /\ UNCHANGED <<bridge, pub, dropped, handed>> /\ subs' = subs \ {d}
          /\ \A c \in Clients \ {d} : chan'[c] = chan[c] /\ view'[c] = view[c]
        BY <1>2 DEF Stream!Unsubscribe, Stream!Close, BusOk
    <2>2. ASSUME NEW c \in Clients, NEW n \in StreamNames, Kept(c, n)' PROVE ToldOk(f, c, n)'
        BY <2>1, <2>2 DEF Told, ToldOk, Kept
    <2> QED
        BY <2>2 DEF Told
<1> QED
    BY <1>1, <1>2

-----------------------------------------------------------------------------
(* What the bridge knows.                                                  *)

\* The apps f are incarnations among the first k, each with the name that reg has
\* for it and its owner, unless it is taken from that by H.
Fits(f, reg, k, H) ==
    /\ f \in [StreamNames -> Stream!Apps \cup {None}]
    /\ \A n \in StreamNames : f[n] # None =>
          /\ f[n].uid <= k /\ reg[f[n].uid][1] = n
          /\ f[n].owner = reg[f[n].uid][2] \/ <<n, f[n].owner>> \in H

\* The apps f have the owners that reg has last.
Owned(f, reg) == \A n \in StreamNames : f[n] # None => reg[f[n].uid][2] = f[n].owner

\* The event ev leads from the apps f to the apps g.
Follows(f, g, ev, H) ==
    /\ \A n \in StreamNames \ {ev.name} : g[n] = f[n]
    /\ ev.type = "deleted" => /\ f[ev.name] # None /\ f[ev.name].uid = ev.app.uid
                              /\ f[ev.name].owner = ev.app.owner /\ g[ev.name] = None
    /\ ev.type = "modified" => /\ g[ev.name] = ev.app
                               /\ f[ev.name] # None =>
                                     /\ f[ev.name].uid = ev.app.uid
                                     /\ \/ f[ev.name].owner = ev.app.owner
                                        \/ <<ev.name, f[ev.name].owner>> \in H

\* The bridge has published the apps f.
LastIs(f) ==
    /\ \A n \in StreamNames : f[n] # None => last[f[n].uid] = Stream!State(n, f[n])
    /\ \A u \in Stream!Uids : last[u] # None => \E n \in StreamNames : f[n] # None /\ f[n].uid = u

\* The events under way lead, through the apps h, from those the bridge has
\* published to those there are.
BridgeOk(h, reg, k) ==
    /\ k = count.uid /\ Fits(cluster, reg, k, handed) /\ Owned(cluster, reg)
    /\ \A i \in 0..Len(bridge.pending) : Fits(h[i], reg, k, handed)
    /\ \A i \in 1..Len(bridge.pending) : Follows(h[i - 1], h[i], bridge.pending[i], handed)
    /\ LastIs(h[0])
    /\ bridge.pc = "list" => bridge.pending = <<>>
    /\ bridge.pc # "list" => h[Len(bridge.pending)] = cluster

\* The inductive invariant: through some apps h, of which h[0] was published.
StreamInv == /\ BridgeTyped /\ BusOk
             /\ \E h, f, reg, k : h[0] = f /\ BridgeOk(h, reg, k) /\ Told(f)

\* handle, for one event.
LEMMA HandleIs ==
    ASSUME BridgeTyped, Stream!Handle, NEW ev, ev = Head(bridge.pending),
           NEW t, t = Tail(bridge.pending), NEW st, st = Stream!State(ev.name, ev.app)
    PROVE  /\ bridge.pending # <<>> /\ ev \in Stream!WatchEvents
           /\ ev.type \in {"modified", "deleted"} /\ ev.name \in StreamNames /\ ev.app \in Stream!Apps
           /\ ev.app.uid \in Stream!Uids
           /\ bridge.pc = "watch" /\ bridge.outbox = <<>> /\ pub = None
           /\ BridgeTyped' /\ UNCHANGED <<cluster, count, handed, BusVars>>
           /\ bridge'.pc = "watch" /\ bridge'.pending = t
           /\ \/ /\ ev.type = "deleted" /\ last' = [last EXCEPT ![ev.app.uid] = None]
                 /\ \E d : /\ bridge'.outbox = <<d>> /\ d.name = ev.name
                           /\ d.owner = ev.app.owner /\ d.phase = None
              \/ /\ ev.type = "modified" /\ last' = [last EXCEPT ![ev.app.uid] = st]
                 /\ bridge'.outbox = IF last[ev.app.uid] = st THEN <<>> ELSE <<st>>
<1>1. /\ bridge.pc = "watch" /\ bridge.outbox = <<>> /\ pub = None /\ bridge.pending # <<>>
      /\ UNCHANGED <<cluster, count, handed, BusVars>>
    BY DEF Stream!Handle, Stream!busVars, Stream!clientVars, BusVars
<1>2. bridge \in Bridges /\ bridge.pending \in Seq(Stream!WatchEvents)
    BY DEF BridgeTyped, Bridges
<1>3. ev \in Stream!WatchEvents /\ t \in Seq(Stream!WatchEvents)
    BY <1>1, <1>2
<1>4. ev.type \in {"modified", "deleted"} /\ ev.name \in StreamNames /\ ev.app \in Stream!Apps
    BY <1>3 DEF Stream!WatchEvents
<1>5. ev.app.uid \in Stream!Uids
    BY <1>4 DEF Stream!Apps, Stream!Uids
<1>6. /\ st \in Stream!States /\ st \in Stream!Events /\ st.name = ev.name
      /\ st.owner = ev.app.owner
    BY <1>4, StateIs
<1> PICK d : d = Stream!DeletedEvent(st)
    OBVIOUS
<1>7. d \in Stream!Events /\ d.name = ev.name /\ d.owner = ev.app.owner /\ d.phase = None
    BY <1>6, DeletedIs
<1>8. CASE ev.type = "deleted"
    <2>1. /\ last' = [last EXCEPT ![ev.app.uid] = None]
          /\ bridge' = [bridge EXCEPT !.pending = t, !.outbox = <<d>>]
        BY <1>8 DEF Stream!Handle
    <2>2. <<d>> \in Seq(Stream!Events)
        BY <1>7
    <2>3. /\ bridge' \in Bridges /\ bridge'.pc = "watch" /\ bridge'.pending = t
          /\ bridge'.outbox = <<d>>
        BY <1>1, <1>2, <1>3, <2>1, <2>2 DEF Bridges
    <2>4. BridgeTyped'
        BY <1>1, <2>1, <2>3 DEF BridgeTyped
    <2> QED
        BY <1>1, <1>3, <1>4, <1>5, <1>7, <1>8, <2>1, <2>3, <2>4
<1>9. CASE ev.type = "modified"
    <2> PICK out : out = IF last[ev.app.uid] = st THEN <<>> ELSE <<st>>
        OBVIOUS
    <2>1. /\ last' = [last EXCEPT ![ev.app.uid] = st]
          /\ bridge' = [bridge EXCEPT !.pending = t, !.outbox = out]
        BY <1>9 DEF Stream!Handle
    <2>2. <<>> \in Seq(Stream!Events) /\ <<st>> \in Seq(Stream!Events)
        BY <1>6
    <2>3. /\ bridge' \in Bridges /\ bridge'.pc = "watch" /\ bridge'.pending = t
          /\ bridge'.outbox = out
        BY <1>1, <1>2, <1>3, <2>1, <2>2 DEF Bridges
    <2>4. BridgeTyped'
        BY <1>1, <1>6, <2>1, <2>3 DEF BridgeTyped
    <2> QED
        BY <1>1, <1>3, <1>4, <1>5, <1>9, <2>1, <2>3, <2>4
<1> QED
    BY <1>4, <1>8, <1>9

\* Two apps of f with one uid are one app.
LEMMA SameUid ==
    ASSUME NEW f, NEW g, NEW reg, NEW k, NEW H, Fits(f, reg, k, H), Fits(g, reg, k, H),
           NEW m \in StreamNames, NEW n \in StreamNames,
           f[m] # None, g[n] # None, f[m].uid = g[n].uid
    PROVE  m = n
<1> PICK r : r = reg[f[m].uid]
    OBVIOUS
<1>1. r[1] = m
    BY DEF Fits
<1>2. r[1] = n
    BY DEF Fits
<1> QED
    BY <1>1, <1>2

\* ... and the last owner of it is that of before, unless it was taken from that.
LEMMA SameOwner ==
    ASSUME NEW f, NEW g, NEW reg, NEW k, NEW H, Fits(f, reg, k, H), Owned(g, reg),
           NEW n \in StreamNames, f[n] # None, g[n] # None, f[n].uid = g[n].uid
    PROVE  f[n].owner = g[n].owner \/ <<n, f[n].owner>> \in H
<1> PICK r : r = reg[f[n].uid]
    OBVIOUS
<1>1. f[n].owner = r[2] \/ <<n, f[n].owner>> \in H
    BY DEF Fits
<1>2. g[n].owner = r[2]
    BY DEF Owned
<1> QED
    BY <1>1, <1>2

\* After an event the bridge has published the apps that follow, and has told
\* those who are to hear of it.
LEMMA HandleTold ==
    ASSUME BridgeTyped, Stream!Handle, NEW f, NEW g, NEW reg, NEW k,
           Fits(f, reg, k, handed), Fits(g, reg, k, handed), LastIs(f), Told(f),
           NEW ev, ev = Head(bridge.pending), Follows(f, g, ev, handed)
    PROVE  LastIs(g)' /\ Told(g)'
<1> PICK t : t = Tail(bridge.pending)
    OBVIOUS
<1> PICK st : st = Stream!State(ev.name, ev.app)
    OBVIOUS
<1>1. /\ ev.type \in {"modified", "deleted"} /\ ev.name \in StreamNames /\ ev.app \in Stream!Apps
      /\ ev.app.uid \in Stream!Uids
      /\ bridge.outbox = <<>> /\ pub = None /\ UNCHANGED <<handed, BusVars>>
      /\ \/ /\ ev.type = "deleted" /\ last' = [last EXCEPT ![ev.app.uid] = None]
            /\ \E d : /\ bridge'.outbox = <<d>> /\ d.name = ev.name
                      /\ d.owner = ev.app.owner /\ d.phase = None
         \/ /\ ev.type = "modified" /\ last' = [last EXCEPT ![ev.app.uid] = st]
            /\ bridge'.outbox = IF last[ev.app.uid] = st THEN <<>> ELSE <<st>>
    BY HandleIs
<1> PICK a : a = ev.name
    OBVIOUS
<1> PICK v : v = ev.app.uid
    OBVIOUS
<1>2. /\ st \in Stream!States /\ st # None /\ st.name = a /\ st.owner = ev.app.owner
      /\ st.phase = ev.app.phase
    BY <1>1, StateIs
<1>3. \A n \in StreamNames : f[n] # None => f[n].uid \in Stream!Uids
    BY DEF Fits, Stream!Apps, Stream!Uids
<1>4. \A n \in StreamNames : g[n] # None => g[n].uid \in Stream!Uids
    BY DEF Fits, Stream!Apps, Stream!Uids
<1>5. ASSUME NEW c \in Clients, NEW n \in StreamNames, n # a PROVE Shown(g, c, n) = Shown(f, c, n)
    BY <1>5 DEF Shown, Follows
<1>6. CASE ev.type = "deleted"
    <2>1. /\ last' = [last EXCEPT ![v] = None]
          /\ f[a] # None /\ f[a].uid = v /\ f[a].owner = ev.app.owner /\ g[a] = None
        BY <1>1, <1>6 DEF Follows
    <2>2. PICK d : bridge'.outbox = <<d>> /\ d.name = a /\ d.owner = ev.app.owner /\ d.phase = None
        BY <1>1, <1>6
    <2>3. last'[v] = None /\ \A u \in Stream!Uids \ {v} : last'[u] = last[u]
        BY SMTT(30), <1>1, <2>1 DEF BridgeTyped
    <2>4. ASSUME NEW n \in StreamNames, g[n] # None
          PROVE  n # a /\ g[n] = f[n] /\ g[n].uid # v
        <3>1. n # a /\ g[n] = f[n]
            BY <2>1, <2>4 DEF Follows
        <3>2. g[n].uid # v
            BY <1>1, <2>1, <2>4, <3>1, SameUid
        <3> QED
            BY <3>1, <3>2
    <2>5. LastIs(g)'
        <3>1. ASSUME NEW n \in StreamNames, g[n] # None
              PROVE  last'[g[n].uid] = Stream!State(n, g[n])
            BY <1>4, <2>3, <2>4, <3>1 DEF LastIs
        <3>2. ASSUME NEW u \in Stream!Uids, last'[u] # None
              PROVE  \E n \in StreamNames : g[n] # None /\ g[n].uid = u
            <4>1. u # v /\ last[u] # None
                BY <2>3, <3>2
            <4>2. PICK n \in StreamNames : f[n] # None /\ f[n].uid = u
                BY <4>1 DEF LastIs
            <4>3. n # a
                BY <2>1, <4>1, <4>2
            <4> QED
                BY <4>2, <4>3 DEF Follows
        <3> QED
            BY <3>1, <3>2 DEF LastIs
    <2>6. ASSUME NEW c \in Clients, NEW n \in StreamNames, Kept(c, n)
          PROVE  \/ /\ ~Silent(bridge'.outbox, c, n)
                    /\ LastSays(bridge'.outbox, c, n, Shown(g, c, n))
                 \/ /\ Silent(bridge'.outbox, c, n) /\ Shown(g, c, n) = Shown(f, c, n)
        <3>1. CASE Rel(d, c, n)
            <4>1. n = a /\ Shown(g, c, n) = None
                BY <2>1, <2>2, <3>1 DEF Rel, Shown
            <4> QED
                BY <2>2, <3>1, <4>1, OneSaid
        <3>2. CASE ~Rel(d, c, n)
            <4>1. Shown(g, c, n) = Shown(f, c, n)
                BY <1>5, <2>1, <2>2, <3>2 DEF Rel, Shown
            <4> QED
                BY <2>2, <3>2, <4>1, OneSaid
        <3> QED
            BY <3>1, <3>2
    <2> QED
        BY <1>1, <2>5, <2>6, ToldAfter DEF BusVars
<1>7. CASE ev.type = "modified"
    <2>1. /\ last' = [last EXCEPT ![v] = st]
          /\ bridge'.outbox = IF last[v] = st THEN <<>> ELSE <<st>>
          /\ g[a] = ev.app /\ (f[a] # None => f[a].uid = v)
          /\ f[a] # None => f[a].owner = g[a].owner \/ <<a, f[a].owner>> \in handed
        BY <1>1, <1>7 DEF Follows
    <2>2. last'[v] = st /\ \A u \in Stream!Uids \ {v} : last'[u] = last[u]
        BY <1>1, <2>1 DEF BridgeTyped
    <2>3. g[a] # None /\ g[a].uid = v
        BY <1>1, <2>1, StreamAssumption
    <2>4. ASSUME NEW n \in StreamNames, n # a, g[n] # None
          PROVE  g[n] = f[n] /\ g[n].uid # v
        <3>1. g[n] = f[n]
            BY <2>4 DEF Follows
        <3>2. g[n].uid # v
            BY <1>1, <2>3, <2>4, SameUid
        <3> QED
            BY <3>1, <3>2
    <2>5. LastIs(g)'
        <3>1. ASSUME NEW n \in StreamNames, g[n] # None
              PROVE  last'[g[n].uid] = Stream!State(n, g[n])
            <4>1. CASE n = a
                BY <2>1, <2>2, <2>3, <4>1
            <4>2. CASE n # a
                BY <1>4, <2>2, <2>4, <3>1, <4>2 DEF LastIs
            <4> QED
                BY <4>1, <4>2
        <3>2. ASSUME NEW u \in Stream!Uids, last'[u] # None
              PROVE  \E n \in StreamNames : g[n] # None /\ g[n].uid = u
            <4>1. CASE u = v
                BY <1>1, <2>3, <4>1
            <4>2. CASE u # v
                <5>1. last[u] # None
                    BY <2>2, <3>2, <4>2
                <5>2. PICK n \in StreamNames : f[n] # None /\ f[n].uid = u
                    BY <5>1 DEF LastIs
                <5>3. n # a
                    BY <2>1, <4>2, <5>2
                <5> QED
                    BY <5>2, <5>3 DEF Follows
            <4> QED
                BY <4>1, <4>2
        <3> QED
            BY <3>1, <3>2 DEF LastIs
    <2>6. ASSUME NEW c \in Clients, NEW n \in StreamNames, Kept(c, n)
          PROVE  \/ /\ ~Silent(bridge'.outbox, c, n)
                    /\ LastSays(bridge'.outbox, c, n, Shown(g, c, n))
                 \/ /\ Silent(bridge'.outbox, c, n) /\ Shown(g, c, n) = Shown(f, c, n)
        <3>1. CASE last[v] = st
            <4>1. PICK m \in StreamNames : f[m] # None /\ f[m].uid = v
                BY <1>1, <1>2, <3>1 DEF LastIs
            <4>2. m = a
                BY <1>1, <2>3, <4>1, SameUid
            <4>3. st = Stream!State(a, f[a])
                BY <3>1, <4>1, <4>2 DEF LastIs
            <4>4. f[a] \in Stream!Apps
                BY <4>1, <4>2 DEF Fits
            <4>5. st.phase = f[a].phase /\ st.owner = f[a].owner
                BY <1>1, <4>3, <4>4, StateIs
            <4>6. f[a].owner = g[a].owner
                BY <1>2, <2>1, <4>5
            <4>7. Shown(g, c, n) = Shown(f, c, n)
                BY <1>2, <1>5, <2>1, <2>3, <4>1, <4>2, <4>5, <4>6 DEF Shown
            <4> QED
                BY <2>1, <3>1, <4>7, NothingSaid
        <3>2. CASE last[v] # st /\ Rel(st, c, n)
            <4>1. n = a /\ Shown(g, c, n) = st.phase
                BY <1>2, <2>1, <2>3, <3>2 DEF Rel, Shown
            <4> QED
                BY <2>1, <3>2, <4>1, OneSaid
        <3>3. CASE last[v] # st /\ ~Rel(st, c, n)
            <4>1. n = a /\ f[a] # None => f[a].owner = g[a].owner \/ f[a].owner # Caller[c]
                BY <2>1, <2>6 DEF Kept
            <4>2. Shown(g, c, n) = Shown(f, c, n)
                BY <1>2, <1>5, <2>1, <2>3, <3>3, <4>1 DEF Rel, Shown
            <4> QED
                BY <2>1, <3>3, <4>2, OneSaid
        <3> QED
            BY <3>1, <3>2, <3>3
    <2> QED
        BY <1>1, <2>5, <2>6, ToldAfter DEF BusVars
<1> QED
    BY <1>1, <1>6, <1>7

\* One report after the other.
IsConcat(q, A, B) ==
    /\ Len(A) \in Nat /\ Len(B) \in Nat /\ Len(q) = Len(A) + Len(B)
    /\ \A i \in 1..Len(A) : q[i] = A[i]
    /\ \A i \in 1..Len(B) : q[Len(A) + i] = B[i]

\* Who is silent in both is silent; who is not hears the second report last.
LEMMA ConcatSays ==
    ASSUME NEW q, NEW A, NEW B, IsConcat(q, A, B), NEW c, NEW n, NEW x
    PROVE  /\ Silent(q, c, n) <=> Silent(A, c, n) /\ Silent(B, c, n)
           /\ /\ \A i \in 1..Len(B) : Rel(B[i], c, n) => B[i].phase = x
              /\ ~Silent(B, c, n) \/ \A i \in 1..Len(A) : Rel(A[i], c, n) => A[i].phase = x
              => LastSays(q, c, n, x)
<1> PICK a : a = Len(A)
    OBVIOUS
<1> PICK b : b = Len(B)
    OBVIOUS
<1>1. /\ a \in Nat /\ b \in Nat /\ Len(q) = a + b
      /\ \A i \in 1..a : q[i] = A[i]
      /\ \A i \in 1..b : q[a + i] = B[i]
    BY DEF IsConcat
<1>2. /\ \A i \in 1..a : i \in 1..(a + b)
      /\ \A i \in 1..b : a + i \in 1..(a + b)
      /\ \A i \in 1..(a + b) : i \in 1..a \/ (i - a \in 1..b /\ a + (i - a) = i)
      /\ \A i \in 1..a, j \in 1..b : a + j > i
    BY <1>1
<1>3. \A i \in 1..(a + b) : (i \in 1..a /\ q[i] = A[i]) \/ (i - a \in 1..b /\ q[i] = B[i - a])
    BY <1>1, <1>2
<1>4. Silent(q, c, n) <=> Silent(A, c, n) /\ Silent(B, c, n)
    <2>1. ASSUME Silent(q, c, n) PROVE Silent(A, c, n) /\ Silent(B, c, n)
        <3>1. Silent(A, c, n)
            BY <1>1, <1>2, <2>1 DEF Silent
        <3>2. ASSUME NEW i \in 1..b PROVE ~Rel(B[i], c, n)
            <4>1. a + i \in 1..Len(q) /\ q[a + i] = B[i]
                BY <1>1, <1>2
            <4> QED
                BY <2>1, <4>1 DEF Silent
        <3> QED
            BY <3>1, <3>2 DEF Silent
    <2>2. ASSUME Silent(A, c, n), Silent(B, c, n) PROVE Silent(q, c, n)
        BY <1>1, <1>3, <2>2 DEF Silent
    <2> QED
        BY <2>1, <2>2
<1>5. ASSUME \A i \in 1..b : Rel(B[i], c, n) => B[i].phase = x,
             ~Silent(B, c, n) \/ \A i \in 1..a : Rel(A[i], c, n) => A[i].phase = x
      PROVE  LastSays(q, c, n, x)
    <2> SUFFICES ASSUME NEW i \in 1..Len(q), Rel(q[i], c, n),
                        \A j \in 1..Len(q) : j > i => ~Rel(q[j], c, n)
                 PROVE  q[i].phase = x
        BY DEF LastSays
    <2>1. CASE i - a \in 1..b /\ q[i] = B[i - a]
        BY <1>5, <2>1
    <2>2. CASE i \in 1..a /\ q[i] = A[i]
        <3>1. Silent(B, c, n)
            <4>1. ASSUME NEW j \in 1..b PROVE ~Rel(B[j], c, n)
                <5>1. a + j \in 1..Len(q) /\ a + j > i /\ q[a + j] = B[j]
                    BY <1>1, <1>2, <2>2
                <5> QED
                    BY <5>1
            <4> QED
                BY <4>1 DEF Silent
        <3> QED
            BY <1>5, <2>2, <3>1
    <2> QED
        BY <1>1, <1>3, <2>1, <2>2
<1> QED
    BY <1>4, <1>5

\* After a list the bridge has published the apps there are, and has told
\* those who are to hear of a change since it listed last.
LEMMA SyncTold ==
    ASSUME BridgeTyped, Stream!Sync, bridge.outbox = <<>>, pub = None,
           UNCHANGED <<handed, BusVars>>,
           NEW f, NEW g, g = cluster, NEW reg, NEW k, Fits(f, reg, k, handed),
           Fits(g, reg, k, handed), Owned(g, reg), LastIs(f), Told(f)
    PROVE  LastIs(g)' /\ Told(g)'
<1>1. /\ \A u \in Stream!Uids : last'[u] # None =>
            \E n \in StreamNames : cluster[n] # None /\ cluster[n].uid = u
      /\ \A n \in StreamNames : cluster[n] # None =>
            \E m \in StreamNames : /\ cluster[m] # None /\ cluster[m].uid = cluster[n].uid
                                   /\ last'[cluster[n].uid] = Stream!State(m, cluster[m])
    BY SyncIs
<1>2. LastIs(g)'
    <2>1. ASSUME NEW n \in StreamNames, g[n] # None PROVE last'[g[n].uid] = Stream!State(n, g[n])
        <3>1. PICK m \in StreamNames : /\ g[m] # None /\ g[m].uid = g[n].uid
                                       /\ last'[g[n].uid] = Stream!State(m, g[m])
            BY <1>1, <2>1
        <3>2. m = n
            BY <2>1, <3>1, SameUid
        <3> QED
            BY <3>1, <3>2
    <2>2. \A u \in Stream!Uids : last'[u] # None => \E n \in StreamNames : g[n] # None /\ g[n].uid = u
        BY <1>1
    <2> QED
        BY <2>1, <2>2 DEF LastIs
<1>3. PICK A \in Seq(Stream!Events), B \in Seq(Stream!Events) :
         /\ bridge'.outbox = A \o B
         /\ \A i \in 1..Len(A) : \E u \in Stream!Gone :
               /\ A[i].name = last[u].name /\ A[i].owner = last[u].owner
               /\ A[i].phase = None
         /\ \A u \in Stream!Gone : \E i \in 1..Len(A) :
               A[i].name = last[u].name /\ A[i].owner = last[u].owner
         /\ \A i \in 1..Len(B) : \E n \in StreamNames :
               Stream!Changed(n) /\ B[i] = Stream!State(n, cluster[n])
         /\ \A n \in StreamNames : Stream!Changed(n) =>
               \E i \in 1..Len(B) : B[i] = Stream!State(n, cluster[n])
    BY SyncIs
<1> PICK q : q = bridge'.outbox
    OBVIOUS
<1>4. IsConcat(q, A, B)
    BY <1>3 DEF IsConcat
\* The old incarnations of the apps of f, and which of them are gone.
<1>5. ASSUME NEW n \in StreamNames, f[n] # None
      PROVE  /\ f[n].uid \in Stream!Uids /\ last[f[n].uid] = Stream!State(n, f[n])
             /\ last[f[n].uid].name = n /\ last[f[n].uid].owner = f[n].owner
             /\ last[f[n].uid].phase = f[n].phase /\ last[f[n].uid] # None
    <2>1. f[n] \in Stream!Apps
        BY <1>5 DEF Fits
    <2>2. last[f[n].uid] = Stream!State(n, f[n])
        BY <1>5 DEF LastIs
    <2>3. f[n].uid \in Stream!Uids
        BY <2>1 DEF Stream!Apps, Stream!Uids
    <2> QED
        BY <2>1, <2>2, <2>3, StateIs
<1>6. ASSUME NEW u \in Stream!Gone
      PROVE  \E n \in StreamNames : f[n] # None /\ f[n].uid = u /\ last[u].name = n
                                    /\ last[u].owner = f[n].owner
    <2>1. u \in Stream!Uids /\ last[u] # None
        BY DEF Stream!Gone
    <2>2. PICK n \in StreamNames : f[n] # None /\ f[n].uid = u
        BY <2>1 DEF LastIs
    <2> QED
        BY <1>5, <2>2
<1>7. ASSUME NEW n \in StreamNames, f[n] # None
      PROVE  f[n].uid \in Stream!Gone <=> (g[n] = None \/ g[n].uid # f[n].uid)
    <2>1. ASSUME NEW m \in StreamNames, g[m] # None, g[m].uid = f[n].uid PROVE m = n
        BY <1>7, <2>1, SameUid
    <2>2. f[n].uid \in Stream!Gone <=> \A m \in StreamNames : g[m] # None => g[m].uid # f[n].uid
        BY <1>5, <1>7 DEF Stream!Gone
    <2> QED
        BY <1>7, <2>1, <2>2
<1>8. ASSUME NEW n \in StreamNames, g[n] # None
      PROVE  /\ Stream!State(n, g[n]).name = n /\ Stream!State(n, g[n]).owner = g[n].owner
             /\ Stream!State(n, g[n]).phase = g[n].phase
    <2>1. g[n] \in Stream!Apps
        BY <1>8 DEF Fits
    <2> QED
        BY <2>1, StateIs
<1>9. ASSUME NEW n \in StreamNames
      PROVE  /\ Stream!Changed(n) => g[n] # None
             /\ g[n] # None /\ ~Stream!Changed(n) =>
                   /\ f[n] # None /\ f[n].uid = g[n].uid
                   /\ f[n].owner = g[n].owner /\ f[n].phase = g[n].phase
    <2>1. Stream!Changed(n) <=> (g[n] # None /\ last[g[n].uid] # Stream!State(n, g[n]))
        BY DEF Stream!Changed
    <2>2. ASSUME g[n] # None, last[g[n].uid] = Stream!State(n, g[n])
          PROVE  /\ f[n] # None /\ f[n].uid = g[n].uid
                 /\ f[n].owner = g[n].owner /\ f[n].phase = g[n].phase
        <3>1. g[n] \in Stream!Apps /\ g[n].uid \in Stream!Uids
            BY <2>2 DEF Fits, Stream!Apps, Stream!Uids
        <3>2. last[g[n].uid] # None
            BY <2>2, <3>1, StateIs
        <3>3. PICK m \in StreamNames : f[m] # None /\ f[m].uid = g[n].uid
            BY <3>1, <3>2 DEF LastIs
        <3>4. m = n
            BY <2>2, <3>3, SameUid
        <3>5. f[n].owner = g[n].owner /\ f[n].phase = g[n].phase
            BY <1>5, <1>8, <2>2, <3>3, <3>4
        <3> QED
            BY <3>3, <3>4, <3>5
    <2> QED
        BY <2>1, <2>2
<1>10. ASSUME NEW c \in Clients, NEW n \in StreamNames
       PROVE  /\ Silent(B, c, n) <=> ~(Stream!Changed(n) /\ Caller[c] \in {Admin, g[n].owner})
              /\ \A i \in 1..Len(B) : Rel(B[i], c, n) => B[i].phase = g[n].phase
    <2>1. ASSUME NEW i \in 1..Len(B), Rel(B[i], c, n)
          PROVE  /\ B[i].phase = g[n].phase /\ Stream!Changed(n)
                 /\ Caller[c] \in {Admin, g[n].owner}
        <3>1. PICK m \in StreamNames : Stream!Changed(m) /\ B[i] = Stream!State(m, cluster[m])
            BY <1>3
        <3>2. B[i].name = m /\ B[i].owner = g[m].owner /\ B[i].phase = g[m].phase
            BY <1>8, <1>9, <3>1
        <3> QED
            BY <2>1, <3>1, <3>2 DEF Rel
    <2>2. ASSUME Stream!Changed(n), Caller[c] \in {Admin, g[n].owner}
          PROVE  \E i \in 1..Len(B) : Rel(B[i], c, n)
        <3>1. PICK i \in 1..Len(B) : B[i] = Stream!State(n, cluster[n])
            BY <1>3, <2>2
        <3>2. B[i].name = n /\ B[i].owner = g[n].owner
            BY <1>8, <1>9, <2>2, <3>1
        <3> QED
            BY <2>2, <3>2 DEF Rel
    <2> QED
        BY <2>1, <2>2 DEF Silent
<1>11. ASSUME NEW c \in Clients, NEW n \in StreamNames
       PROVE  /\ Silent(A, c, n) <=> ~(/\ f[n] # None /\ f[n].uid \in Stream!Gone
                                       /\ Caller[c] \in {Admin, f[n].owner})
              /\ \A i \in 1..Len(A) : Rel(A[i], c, n) => A[i].phase = None
    <2>1. ASSUME NEW i \in 1..Len(A), Rel(A[i], c, n)
          PROVE  /\ A[i].phase = None /\ f[n] # None /\ f[n].uid \in Stream!Gone
                 /\ Caller[c] \in {Admin, f[n].owner}
        <3>1. PICK u \in Stream!Gone : /\ A[i].name = last[u].name /\ A[i].owner = last[u].owner
                                       /\ A[i].phase = None
            BY <1>3
        <3>2. PICK m \in StreamNames : f[m] # None /\ f[m].uid = u /\ last[u].name = m
                                       /\ last[u].owner = f[m].owner
            BY <1>6
        <3> QED
            BY <2>1, <3>1, <3>2 DEF Rel
    <2>2. ASSUME f[n] # None, f[n].uid \in Stream!Gone, Caller[c] \in {Admin, f[n].owner}
          PROVE  \E i \in 1..Len(A) : Rel(A[i], c, n)
        <3>1. PICK i \in 1..Len(A) : /\ A[i].name = last[f[n].uid].name
                                     /\ A[i].owner = last[f[n].uid].owner
            BY <1>3, <2>2
        <3>2. A[i].name = n /\ A[i].owner = f[n].owner
            BY <1>5, <2>2, <3>1
        <3> QED
            BY <2>2, <3>2 DEF Rel
    <2> QED
        BY <2>1, <2>2 DEF Silent
<1>12. ASSUME NEW c \in Clients, NEW n \in StreamNames, Kept(c, n)
       PROVE  \/ ~Silent(q, c, n) /\ LastSays(q, c, n, Shown(g, c, n))
              \/ Silent(q, c, n) /\ Shown(g, c, n) = Shown(f, c, n)
    <2> PICK x : x = Shown(g, c, n)
        OBVIOUS
    <2>1. Silent(q, c, n) <=> Silent(A, c, n) /\ Silent(B, c, n)
        BY <1>4, ConcatSays
    <2>2. CASE ~Silent(B, c, n)
        <3>1. x = g[n].phase
            BY <1>9, <1>10, <2>2 DEF Shown
        <3>2. LastSays(q, c, n, x)
            BY <1>4, <1>10, <2>2, <3>1, ConcatSays
        <3> QED
            BY <2>1, <2>2, <3>2
    <2>3. CASE Silent(B, c, n) /\ ~Silent(A, c, n)
        <3>1. x = None
            BY <1>7, <1>9, <1>10, <1>11, <2>3 DEF Shown
        <3>2. \A i \in 1..Len(B) : Rel(B[i], c, n) => B[i].phase = x
            BY <2>3 DEF Silent
        <3>3. LastSays(q, c, n, x)
            BY <1>4, <1>11, <3>1, <3>2, ConcatSays
        <3> QED
            BY <2>1, <2>3, <3>3
    <2>4. CASE Silent(B, c, n) /\ Silent(A, c, n)
        <3>1. ~(Stream!Changed(n) /\ Caller[c] \in {Admin, g[n].owner})
            BY <1>10, <2>4
        <3>2. ~(/\ f[n] # None /\ f[n].uid \in Stream!Gone
                /\ Caller[c] \in {Admin, f[n].owner})
            BY <1>11, <2>4
        <3>3. f[n] # None /\ g[n] # None /\ f[n].uid = g[n].uid =>
                 f[n].owner = g[n].owner \/ f[n].owner # Caller[c]
            BY <1>12, SameOwner DEF Kept
        <3>4. ASSUME Stream!Changed(n) PROVE Shown(g, c, n) = Shown(f, c, n)
            BY <1>7, <1>9, <3>1, <3>2, <3>3, <3>4 DEF Shown
        <3>5. ASSUME ~Stream!Changed(n) PROVE Shown(g, c, n) = Shown(f, c, n)
            BY <1>7, <1>9, <3>2, <3>5 DEF Shown
        <3> QED
            BY <2>1, <2>4, <3>4, <3>5
    <2> QED
        BY <2>2, <2>3, <2>4
<1> QED
    BY <1>2, <1>12, ToldAfter DEF BusVars

\* The API server stands still, and the bridge has the same events to handle.
LEMMA BridgeStays ==
    ASSUME NEW h, NEW reg, NEW k, BridgeOk(h, reg, k), UNCHANGED <<cluster, last, handed>>,
           count'.uid = count.uid, bridge'.pc = bridge.pc, bridge'.pending = bridge.pending
    PROVE  BridgeOk(h, reg, k)'
BY DEF BridgeOk, LastIs

\* The watch is gone, and with it the events under way: the next list will do.
LEMMA BridgeRestarts ==
    ASSUME NEW h, NEW reg, NEW k, BridgeOk(h, reg, k), UNCHANGED <<cluster, last, handed>>,
           BridgeTyped, count'.uid = count.uid, bridge'.pc = "list", bridge'.pending = <<>>
    PROVE  BridgeOk(h, reg, k)'
<1>1. Len(bridge.pending) \in Nat
    BY DEF BridgeTyped, Bridges
<1>2. Fits(h[0], reg, k, handed)
    BY <1>1 DEF BridgeOk
<1>3. Len(bridge'.pending) = 0
    OBVIOUS
<1>4. /\ \A i \in 0..Len(bridge'.pending) : i = 0
      /\ \A i \in 1..Len(bridge'.pending) : FALSE
    BY <1>3
<1> QED
    BY <1>2, <1>4 DEF BridgeOk, LastIs

\* A write of the API server: its event leads on from the apps there were.
LEMMA WriteTold ==
    ASSUME StreamInv, NEW n \in StreamNames,
           \/ \E o \in StreamOwners : Stream!CreateApp(n, o)
           \/ \E p \in StreamPhases : Stream!WriteStatus(n, p)
           \/ \E o \in StreamOwners : Stream!TakeOver(n, o)
           \/ Stream!DeleteApp(n)
    PROVE  StreamInv'
<1>1. BridgeTyped /\ BusOk
    BY DEF StreamInv
<1>2. PICK h, f, reg, k : h[0] = f /\ BridgeOk(h, reg, k) /\ Told(f)
    BY DEF StreamInv
<1>3. /\ BridgeTyped' /\ count.uid <= count'.uid
      /\ UNCHANGED <<last, BusVars>> /\ handed \subseteq handed'
      /\ \A m \in StreamNames \ {n} : cluster'[m] = cluster[m]
    BY <1>1, WriteIsSeen
<1>4. PICK app \in Stream!Apps, type \in {"modified", "deleted"} :
        /\ Stream!Notify(type, n, app)
        /\ type = "deleted" => cluster[n] = app /\ cluster'[n] = None
        /\ type = "modified" => cluster'[n] = app
        /\ \/ /\ cluster[n] # None /\ cluster[n].uid = app.uid
              /\ cluster[n].owner = app.owner \/ <<n, cluster[n].owner>> \in handed'
           \/ /\ cluster[n] = None /\ type = "modified"
              /\ app.uid = count.uid + 1 /\ app.uid = count'.uid
    BY <1>1, WriteIsSeen
<1> PICK ev : ev = [type |-> type, name |-> n, app |-> app]
    OBVIOUS
<1>5. /\ ev \in Stream!WatchEvents /\ ev.type = type /\ ev.name = n /\ ev.app = app
      /\ bridge'.pc = bridge.pc /\ bridge'.outbox = bridge.outbox
      /\ bridge.pc = "list" => bridge'.pending = bridge.pending
      /\ bridge.pc # "list" => bridge'.pending = Append(bridge.pending, ev)
    BY <1>1, <1>4, NotifyIs
<1> PICK g : g = cluster
    OBVIOUS
<1> PICK d : d = cluster'
    OBVIOUS
<1> PICK z : z = count'.uid
    OBVIOUS
<1> PICK H : H = handed'
    OBVIOUS
<1> PICK rg : rg = [u \in Stream!Uids |-> IF u = app.uid THEN <<n, app.owner>> ELSE reg[u]]
    OBVIOUS
<1>6. k = count.uid /\ k \in Nat /\ z \in Nat /\ k <= z
    BY <1>1, <1>2, <1>3 DEF BridgeOk, BridgeTyped
<1>7. app.uid \in Stream!Uids /\ app # None
    BY StreamAssumption DEF Stream!Apps, Stream!Uids
<1>8. ASSUME NEW x, Fits(x, reg, k, handed) PROVE Fits(x, rg, z, H)
    <2>1. ASSUME NEW m \in StreamNames, x[m] # None
          PROVE  /\ x[m].uid <= z /\ rg[x[m].uid][1] = m
                 /\ x[m].owner = rg[x[m].uid][2] \/ <<m, x[m].owner>> \in H
        <3>1. x[m].uid \in Stream!Uids /\ x[m].uid \in Nat
            BY <1>8, <2>1, StreamAssumption DEF Fits, Stream!Apps, Stream!Uids
        <3>2. /\ x[m].uid <= k /\ reg[x[m].uid][1] = m
              /\ x[m].owner = reg[x[m].uid][2] \/ <<m, x[m].owner>> \in handed
            BY <1>8, <2>1 DEF Fits
        <3>3. x[m].uid <= z
            BY <1>6, <3>1, <3>2
        <3>4. CASE x[m].uid # app.uid
            <4>1. rg[x[m].uid] = reg[x[m].uid]
                BY <3>1, <3>4
            <4> QED
                BY <1>3, <3>2, <3>3, <4>1
        <3>5. CASE x[m].uid = app.uid
            <4>1. cluster[n] # None /\ cluster[n].uid = app.uid
                BY <1>4, <1>6, <3>1, <3>2, <3>5
            <4>2. cluster[n].owner = app.owner \/ <<n, cluster[n].owner>> \in H
                BY <1>4, <1>6, <3>1, <3>2, <3>5
            <4>3. reg[app.uid][1] = n /\ reg[app.uid][2] = cluster[n].owner
                BY <1>2, <4>1 DEF BridgeOk, Fits, Owned
            <4>4. rg[app.uid][1] = n /\ rg[app.uid][2] = app.owner
                BY <1>7
            <4> QED
                BY <1>3, <3>2, <3>3, <3>5, <4>2, <4>3, <4>4
        <3> QED
            BY <3>4, <3>5
    <2> QED
        BY <1>8, <2>1 DEF Fits
<1>9. Fits(g, reg, k, handed) /\ Owned(g, reg) /\ Fits(g, rg, z, H)
    BY <1>2, <1>8 DEF BridgeOk
<1>10. Fits(d, rg, z, H) /\ Owned(d, rg)
    <2>1. d \in [StreamNames -> Stream!Apps \cup {None}]
        BY <1>3 DEF BridgeTyped
    <2>2. ASSUME NEW m \in StreamNames, d[m] # None
          PROVE  d[m].uid <= z /\ rg[d[m].uid][1] = m /\ d[m].owner = rg[d[m].uid][2]
        <3>1. CASE m # n
            <4>1. d[m] = g[m]
                BY <1>3, <3>1
            <4>2. d[m].uid \in Stream!Uids /\ d[m].uid \in Nat
                BY <2>1, <2>2, StreamAssumption DEF Stream!Apps, Stream!Uids
            <4>3. d[m].uid # app.uid
                <5>1. d[m].uid <= k
                    BY <1>9, <2>2, <4>1 DEF Fits
                <5>2. CASE cluster[n] # None
                    BY <1>4, <1>9, <2>2, <3>1, <4>1, <5>2, SameUid
                <5>3. CASE cluster[n] = None
                    BY <1>4, <1>6, <4>2, <5>1, <5>3
                <5> QED
                    BY <5>2, <5>3
            <4>4. rg[d[m].uid] = reg[d[m].uid]
                BY <4>2, <4>3
            <4>5. g[m].uid <= k /\ reg[g[m].uid][1] = m /\ reg[g[m].uid][2] = g[m].owner
                BY <1>9, <2>2, <4>1 DEF Fits, Owned
            <4>6. d[m].uid <= z
                BY <1>6, <4>1, <4>2, <4>5
            <4> QED
                BY <4>1, <4>4, <4>5, <4>6
        <3>2. CASE m = n
            <4>1. d[m] = app /\ rg[app.uid] = <<n, app.owner>>
                BY <1>4, <1>7, <2>2, <3>2
            <4>2. app.uid <= z
                <5>1. CASE cluster[n] # None
                    BY <1>4, <1>9, <5>1 DEF Fits
                <5>2. CASE cluster[n] = None
                    BY <1>4, <1>6, <5>2
                <5> QED
                    BY <5>1, <5>2
            <4> QED
                BY <3>2, <4>1, <4>2
        <3> QED
            BY <3>1, <3>2
    <2> QED
        BY <2>1, <2>2 DEF Fits, Owned
<1>11. BusOk' /\ Told(f)'
    <2>1. Told(f)'
        BY <1>2, <1>3, <1>5, ToldStays DEF BusVars
    <2> QED
        BY <1>1, <1>3, <2>1, BusStays
<1>12. LastIs(f)'
    BY <1>2, <1>3 DEF BridgeOk, LastIs
<1> PICK l : l = Len(bridge.pending)
    OBVIOUS
<1>13. /\ l \in Nat /\ bridge.pending \in Seq(Stream!WatchEvents)
       /\ \A i \in 0..l : Fits(h[i], reg, k, handed) /\ Fits(h[i], rg, z, H)
       /\ \A i \in 1..l : Follows(h[i - 1], h[i], bridge.pending[i], H)
    <2>1. l \in Nat /\ bridge.pending \in Seq(Stream!WatchEvents)
        BY <1>1 DEF BridgeTyped, Bridges
    <2>2. ASSUME NEW x, NEW y, NEW e, Follows(x, y, e, handed) PROVE Follows(x, y, e, H)
        BY <1>3, <2>2 DEF Follows
    <2> QED
        BY <1>2, <1>8, <2>1, <2>2 DEF BridgeOk
<1>14. CASE bridge.pc = "list"
    <2>1. BridgeOk(h, rg, z)'
        <3>1. /\ bridge'.pc = "list" /\ bridge'.pending = bridge.pending /\ bridge.pending = <<>>
              /\ Len(bridge'.pending) = l
            BY <1>2, <1>5, <1>14 DEF BridgeOk
        <3>2. Fits(cluster', rg, z, H) /\ Owned(cluster', rg) /\ z = count'.uid
            BY <1>10
        <3>3. LastIs(h[0])'
            BY <1>2, <1>12 DEF LastIs
        <3> QED
            BY <1>13, <3>1, <3>2, <3>3 DEF BridgeOk
    <2> QED
        BY <1>2, <1>3, <1>11, <2>1 DEF StreamInv
<1>15. CASE bridge.pc # "list"
    <2> PICK p : p = [i \in 0..(l + 1) |-> IF i = l + 1 THEN d ELSE h[i]]
        OBVIOUS
    <2>1. PICK w : w = bridge'.pending
        OBVIOUS
    <2>2. /\ Len(w) = l + 1 /\ w[l + 1] = ev /\ \A i \in 1..l : w[i] = bridge.pending[i]
        <3>1. PICK q : q = bridge.pending
            OBVIOUS
        <3>2. q \in Seq(Stream!WatchEvents) /\ l = Len(q) /\ ev \in Stream!WatchEvents
            BY <1>5, <1>13, <3>1
        <3>3. w = Append(q, ev)
            BY <1>5, <1>15, <2>1, <3>1
        <3>4. Len(w) = Len(q) + 1 /\ w[Len(q) + 1] = ev /\ \A i \in 1..Len(q) : w[i] = q[i]
            BY <3>2, <3>3
        <3> QED
            BY <3>1, <3>2, <3>4
    <2>3. h[l] = g
        BY <1>2, <1>15 DEF BridgeOk
    <2>4. p[l + 1] = d /\ (\A i \in 0..l : p[i] = h[i]) /\ p[0] = f
        BY <1>2, <1>13
    <2>5. ASSUME NEW i \in 0..Len(w) PROVE Fits(p[i], rg, z, H)
        <3>1. i = l + 1 \/ i \in 0..l
            BY <1>13, <2>2
        <3> QED
            BY <1>10, <1>13, <2>4, <3>1
    <2>6. Follows(g, d, ev, H)
        <3>1. \A m \in StreamNames \ {n} : d[m] = g[m]
            BY <1>3
        <3> QED
            BY <1>4, <1>5, <1>7, <3>1 DEF Follows
    <2>7. ASSUME NEW i \in 1..Len(w) PROVE Follows(p[i - 1], p[i], w[i], H)
        <3>1. CASE i = l + 1
            <4>1. p[i - 1] = g /\ p[i] = d /\ w[i] = ev
                BY <1>13, <2>2, <2>3, <2>4, <3>1
            <4> QED
                BY <2>6, <4>1
        <3>2. CASE i # l + 1
            <4>1. i \in 1..l /\ i - 1 \in 0..l /\ i \in 0..l
                BY <1>13, <2>2, <3>2
            <4> QED
                BY <1>13, <2>2, <2>4, <4>1
        <3> QED
            BY <3>1, <3>2
    <2>8. BridgeOk(p, rg, z)'
        <3>1. bridge'.pc # "list" /\ p[Len(w)] = cluster'
            BY <1>5, <1>15, <2>2, <2>4
        <3>2. Fits(cluster', rg, z, H) /\ Owned(cluster', rg) /\ z = count'.uid
            BY <1>10
        <3>3. LastIs(p[0])'
            BY <1>12, <2>4 DEF LastIs
        <3> QED
            BY <2>1, <2>5, <2>7, <3>1, <3>2, <3>3 DEF BridgeOk
    <2> QED
        BY <1>3, <1>11, <2>4, <2>8 DEF StreamInv
<1> QED
    BY <1>14, <1>15

\* A failure or a visit is counted, and no incarnation.
LEMMA CountIs ==
    ASSUME BridgeTyped, NEW m,
           Stream!Counted("break", m) \/ Stream!Counted("visit", m) \/ count' = count
    PROVE  count' \in [uid: Nat, write: Nat, break: Nat, visit: Nat] /\ count'.uid = count.uid
BY DEF BridgeTyped, Stream!Counted

\* The bridge lists, opens its watch, loses it or handles an event.
LEMMA BridgeStep ==
    ASSUME StreamInv, Stream!List \/ Stream!OpenWatch \/ Stream!WatchCloses \/ Stream!Handle
    PROVE  StreamInv'
<1>1. BridgeTyped /\ BusOk /\ bridge \in Bridges
    BY DEF StreamInv, BridgeTyped
<1>2. PICK h, f, reg, k : h[0] = f /\ BridgeOk(h, reg, k) /\ Told(f)
    BY DEF StreamInv
<1>3. UNCHANGED <<cluster, handed, BusVars>>
    BY DEF Stream!List, Stream!OpenWatch, Stream!WatchCloses, Stream!Handle, Stream!busVars,
           Stream!clientVars, BusVars
<1>4. BusOk'
    BY <1>1, <1>3, BusStays
<1> PICK l : l = Len(bridge.pending)
    OBVIOUS
<1>5. l \in Nat /\ bridge.pending \in Seq(Stream!WatchEvents)
    BY <1>1 DEF Bridges
<1>6. /\ Fits(f, reg, k, handed) /\ LastIs(f) /\ k = count.uid
      /\ Fits(cluster, reg, k, handed) /\ Owned(cluster, reg)
      /\ \A i \in 0..l : Fits(h[i], reg, k, handed)
      /\ \A i \in 1..l : Follows(h[i - 1], h[i], bridge.pending[i], handed)
    BY <1>2, <1>5 DEF BridgeOk
<1>7. ASSUME bridge' \in Bridges, last' = last, bridge'.outbox = bridge.outbox,
             bridge'.pending = bridge.pending,
             bridge'.pc = bridge.pc \/ (bridge.pc = "open" /\ bridge'.pc = "watch"),
             count' \in [uid: Nat, write: Nat, break: Nat, visit: Nat], count'.uid = count.uid
      PROVE  StreamInv'
    <2>1. BridgeTyped'
        BY <1>1, <1>3, <1>7 DEF BridgeTyped
    <2>2. BridgeOk(h, reg, k)'
        BY <1>2, <1>3, <1>7 DEF BridgeOk, LastIs
    <2>3. Told(f)'
        BY <1>2, <1>3, <1>7, ToldStays DEF BusVars
    <2> QED
        BY <1>2, <1>4, <2>1, <2>2, <2>3 DEF StreamInv
<1>8. ASSUME bridge' \in Bridges, last' = last, bridge'.outbox = bridge.outbox,
             bridge'.pending = <<>>, bridge'.pc = "list",
             count' \in [uid: Nat, write: Nat, break: Nat, visit: Nat], count'.uid = count.uid
      PROVE  StreamInv'
    <2>1. BridgeTyped'
        BY <1>1, <1>3, <1>8 DEF BridgeTyped
    <2>2. BridgeOk(h, reg, k)'
        BY <1>1, <1>2, <1>3, <1>8, BridgeRestarts
    <2>3. Told(f)'
        BY <1>2, <1>3, <1>8, ToldStays DEF BusVars
    <2> QED
        BY <1>2, <1>4, <2>1, <2>2, <2>3 DEF StreamInv
<1> PICK b : b = [bridge EXCEPT !.pc = "list", !.pending = <<>>]
    OBVIOUS
<1>9. /\ b \in Bridges /\ b.outbox = bridge.outbox /\ b.pending = <<>>
      /\ b.pc = "list"
    <2>1. <<>> \in Seq(Stream!WatchEvents)
        OBVIOUS
    <2> PICK e : e = <<>>
        OBVIOUS
    <2>2. b = [bridge EXCEPT !.pc = "list", !.pending = e]
        OBVIOUS
    <2>3. e \in Seq(Stream!WatchEvents)
        BY <2>1
    <2>4. b \in Bridges /\ b.outbox = bridge.outbox /\ b.pending = e /\ b.pc = "list"
        BY <1>1, <2>2, <2>3 DEF Bridges
    <2> QED
        BY <2>4
<1>10. CASE Stream!List
    <2>1. bridge.pc = "list" /\ bridge.outbox = <<>> /\ pub = None
        BY <1>10 DEF Stream!List
    <2>2. CASE Stream!Sync /\ UNCHANGED count
        <3> PICK g : g = cluster
            OBVIOUS
        <3>1. Fits(g, reg, k, handed) /\ Owned(g, reg)
            BY <1>6
        <3>2. LastIs(g)' /\ Told(g)'
            BY <1>1, <1>2, <1>3, <1>6, <2>1, <2>2, <3>1, SyncTold
        <3>3. /\ bridge' \in Bridges /\ bridge'.pc = "open" /\ bridge'.pending = bridge.pending
              /\ last' \in [Stream!Uids -> Stream!States \cup {None}]
            BY <1>1, <2>2, SyncIs
        <3>4. bridge.pending = <<>> /\ l = 0
            BY <1>2, <2>1 DEF BridgeOk
        <3> PICK p : p = [i \in {0} |-> g]
            OBVIOUS
        <3>5. p[0] = g
            OBVIOUS
        <3>6. BridgeOk(p, reg, k)'
            <4>1. /\ Len(bridge'.pending) = 0 /\ \A i \in 0..Len(bridge'.pending) : i = 0
                  /\ \A i \in 1..Len(bridge'.pending) : FALSE
                BY <3>3, <3>4
            <4>2. LastIs(p[0])'
                BY <3>2, <3>5 DEF LastIs
            <4>3. cluster' = g /\ count' = count /\ handed' = handed
                BY <1>3, <2>2
            <4> QED
                BY <1>6, <3>1, <3>3, <3>5, <4>1, <4>2, <4>3 DEF BridgeOk
        <3>7. BridgeTyped'
            BY <1>1, <1>3, <2>2, <3>3 DEF BridgeTyped
        <3> QED
            BY <1>4, <3>2, <3>5, <3>6, <3>7 DEF StreamInv
    <2>3. CASE Stream!Counted("break", MaxBreaks) /\ UNCHANGED <<last, bridge>>
        <3>1. count' \in [uid: Nat, write: Nat, break: Nat, visit: Nat] /\ count'.uid = count.uid
            BY <1>1, <2>3, CountIs
        <3> QED
            BY <1>1, <1>7, <2>3, <3>1
    <2> QED
        BY <1>10, <2>2, <2>3 DEF Stream!List
<1>11. CASE Stream!OpenWatch
    <2>1. bridge.pc = "open" /\ last' = last
        BY <1>11 DEF Stream!OpenWatch
    <2>2. CASE bridge' = [bridge EXCEPT !.pc = "watch"] /\ UNCHANGED count
        <3>1. /\ bridge' \in Bridges /\ bridge'.outbox = bridge.outbox
              /\ bridge'.pending = bridge.pending /\ bridge'.pc = "watch"
            BY <1>1, <2>2 DEF Bridges
        <3>2. count' \in [uid: Nat, write: Nat, break: Nat, visit: Nat] /\ count'.uid = count.uid
            BY <1>1, <2>2, CountIs
        <3> QED
            BY <1>7, <2>1, <3>1, <3>2
    <2>3. CASE Stream!Counted("break", MaxBreaks) /\ bridge' = b
        <3>1. count' \in [uid: Nat, write: Nat, break: Nat, visit: Nat] /\ count'.uid = count.uid
            BY <1>1, <2>3, CountIs
        <3> QED
            BY <1>8, <1>9, <2>1, <2>3, <3>1
    <2> QED
        BY <1>11, <2>2, <2>3 DEF Stream!OpenWatch
<1>12. CASE Stream!WatchCloses
    <2>1. last' = last /\ Stream!Counted("break", MaxBreaks) /\ bridge' = b
        BY <1>12 DEF Stream!WatchCloses
    <2>2. count' \in [uid: Nat, write: Nat, break: Nat, visit: Nat] /\ count'.uid = count.uid
        BY <1>1, <2>1, CountIs
    <2> QED
        BY <1>8, <1>9, <2>1, <2>2
<1>13. CASE Stream!Handle
    <2> PICK ev : ev = Head(bridge.pending)
        OBVIOUS
    <2> PICK t : t = Tail(bridge.pending)
        OBVIOUS
    <2>1. /\ bridge.pending # <<>> /\ bridge.pc = "watch" /\ BridgeTyped' /\ count' = count
          /\ bridge'.pc = "watch" /\ bridge'.pending = t
        BY <1>1, <1>13, HandleIs
    <2>2. /\ l >= 1 /\ Len(t) = l - 1 /\ bridge.pending[1] = ev
          /\ \A i \in 1..(l - 1) : t[i] = bridge.pending[i + 1]
        BY <1>5, <2>1
    <2> PICK g : g = h[1]
        OBVIOUS
    <2>3. Fits(g, reg, k, handed) /\ Follows(f, g, ev, handed)
        <3>1. 1 \in 0..l /\ 1 \in 1..l /\ h[1 - 1] = f
            BY <1>2, <1>5, <2>2
        <3> QED
            BY <1>6, <2>2, <3>1
    <2>4. LastIs(g)' /\ Told(g)'
        BY <1>1, <1>2, <1>6, <1>13, <2>3, HandleTold
    <2> PICK p : p = [i \in 0..(l - 1) |-> h[i + 1]]
        OBVIOUS
    <2>5. p[0] = g /\ \A i \in 0..(l - 1) : p[i] = h[i + 1] /\ i + 1 \in 0..l
        BY <1>5, <2>2
    <2>6. BridgeOk(p, reg, k)'
        <3>1. ASSUME NEW i \in 0..(l - 1) PROVE Fits(p[i], reg, k, handed)
            BY <1>6, <2>5
        <3>2. ASSUME NEW i \in 1..(l - 1) PROVE Follows(p[i - 1], p[i], t[i], handed)
            <4>1. /\ i - 1 \in 0..(l - 1) /\ i \in 0..(l - 1) /\ i + 1 \in 1..l
                  /\ (i - 1) + 1 = i /\ (i + 1) - 1 = i
                BY <1>5, <2>2
            <4>2. Follows(h[i], h[i + 1], bridge.pending[i + 1], handed)
                BY <1>6, <4>1
            <4> QED
                BY <2>2, <2>5, <4>1, <4>2
        <3>3. LastIs(p[0])'
            BY <2>4, <2>5 DEF LastIs
        <3>4. p[l - 1] = cluster
            <4>1. h[l] = cluster
                BY <1>2, <2>1 DEF BridgeOk
            <4>2. l - 1 \in 0..(l - 1) /\ (l - 1) + 1 = l
                BY <1>5, <2>2
            <4> QED
                BY <2>5, <4>1, <4>2
        <3> QED
            BY <1>3, <1>6, <2>1, <2>2, <3>1, <3>2, <3>3, <3>4 DEF BridgeOk
    <2> QED
        BY <1>4, <2>1, <2>4, <2>5, <2>6 DEF StreamInv
<1> QED
    BY <1>10, <1>11, <1>12, <1>13

\* The bus and the handlers work on, and the bridge has the same to do.
LEMMA BusStep ==
    ASSUME StreamInv,
           \/ Stream!Publish \/ Stream!Published
           \/ \E c \in Clients : \/ Stream!Send(c) \/ Stream!Connect(c) \/ Stream!Subscribe(c)
                                 \/ Stream!Deliver(c) \/ Stream!Disconnect(c)
                                 \/ Stream!Unsubscribe(c) \/ Stream!Close(c)
    PROVE  StreamInv'
<1>1. BridgeTyped /\ BusOk
    BY DEF StreamInv
<1>2. PICK h, f, reg, k : h[0] = f /\ BridgeOk(h, reg, k) /\ Told(f)
    BY DEF StreamInv
<1>3. ASSUME BusOk', Told(f)', UNCHANGED <<cluster, last, handed>>, bridge' \in Bridges,
             bridge'.pc = bridge.pc, bridge'.pending = bridge.pending,
             count' \in [uid: Nat, write: Nat, break: Nat, visit: Nat], count'.uid = count.uid
      PROVE  StreamInv'
    <2>1. BridgeTyped'
        BY <1>1, <1>3 DEF BridgeTyped
    <2>2. BridgeOk(h, reg, k)'
        BY <1>2, <1>3, BridgeStays
    <2> QED
        BY <1>2, <1>3, <2>1, <2>2 DEF StreamInv
<1>4. bridge \in Bridges /\ count \in [uid: Nat, write: Nat, break: Nat, visit: Nat]
    BY <1>1 DEF BridgeTyped
<1>5. CASE Stream!Publish
    <2>1. BusOk'
        BY <1>1, <1>5, PublishKeeps
    <2>2. Told(f)' /\ bridge'.pc = bridge.pc /\ bridge'.pending = bridge.pending /\ bridge' \in Bridges
        BY <1>1, <1>2, <1>5, ToldPublish
    <2>3. UNCHANGED <<cluster, last, handed, count>>
        BY <1>5 DEF Stream!Publish
    <2> QED
        BY <1>3, <1>4, <2>1, <2>2, <2>3
<1>6. CASE Stream!Published
    <2>1. pub' = None /\ UNCHANGED <<cluster, last, bridge, handed, count, subs, chan, closed, sse, view, dropped>>
        BY <1>6 DEF Stream!Published, Stream!clientVars
    <2>2. BusOk'
        BY <1>1, <2>1 DEF BusOk
    <2>3. Told(f)'
        BY <1>2, <1>6, ToldPublished
    <2> QED
        BY <1>3, <1>4, <2>1, <2>2, <2>3
<1>7. ASSUME NEW c \in Clients,
             Stream!Send(c) \/ Stream!Subscribe(c) \/ Stream!Deliver(c) \/ Stream!Close(c)
      PROVE  StreamInv'
    <2>1. UNCHANGED <<cluster, last, bridge, handed, count>>
        BY <1>7 DEF Stream!Send, Stream!Subscribe, Stream!Deliver, Stream!Close
    <2>2. BusOk'
        BY <1>1, <1>7, SendKeeps, SubscribeKeeps, DeliverKeeps, CloseKeeps
    <2>3. Told(f)'
        BY <1>1, <1>2, <1>7, ToldSend, ToldSubscribe, ToldDeliver, ToldPlace
    <2> QED
        BY <1>3, <1>4, <2>1, <2>2, <2>3
<1>8. ASSUME NEW c \in Clients,
             Stream!Connect(c) \/ Stream!Disconnect(c) \/ Stream!Unsubscribe(c)
      PROVE  StreamInv'
    <2>1. /\ UNCHANGED <<cluster, last, bridge, handed>>
          /\ count' = count \/ Stream!Counted("visit", MaxVisits)
        BY <1>8 DEF Stream!Connect, Stream!Disconnect, Stream!Unsubscribe
    <2>2. count' \in [uid: Nat, write: Nat, break: Nat, visit: Nat] /\ count'.uid = count.uid
        BY <1>1, <2>1, CountIs
    <2>3. BusOk'
        BY <1>1, <1>8, PlaceKeeps
    <2>4. Told(f)'
        BY <1>1, <1>2, <1>8, ToldPlace
    <2> QED
        BY <1>3, <1>4, <2>1, <2>2, <2>3, <2>4
<1> QED
    BY <1>5, <1>6, <1>7, <1>8

\* Nobody is there and nothing was said.
LEMMA StreamInit ==
    ASSUME Stream!Init PROVE StreamInv
<1> USE DEF Stream!Init
<1>1. BridgeTyped
    <2>1. <<>> \in Seq(Stream!WatchEvents) /\ <<>> \in Seq(Stream!Events)
        OBVIOUS
    <2>2. bridge \in Bridges
        BY <2>1 DEF Bridges
    <2> QED
        BY <2>2 DEF BridgeTyped
<1>2. BusOk
    <2>1. <<>> \in Seq(Stream!Events)
        OBVIOUS
    <2>2. Stream!Blank \in [StreamNames -> StreamPhases \cup {"unknown", None}]
        BY DEF Stream!Blank
    <2> QED
        BY <2>1, <2>2 DEF BusOk, Places
<1> PICK f : f = [n \in StreamNames |-> None]
    OBVIOUS
<1> PICK h : h = [i \in {0} |-> f]
    OBVIOUS
<1> PICK reg : reg = [u \in Stream!Uids |-> None]
    OBVIOUS
<1>3. h[0] = f
    OBVIOUS
<1>4. BridgeOk(h, reg, 0)
    <2>1. Fits(f, reg, 0, handed) /\ Owned(f, reg) /\ f = cluster
        BY DEF Fits, Owned
    <2>2. /\ Len(bridge.pending) = 0 /\ \A i \in 0..Len(bridge.pending) : i = 0
          /\ \A i \in 1..Len(bridge.pending) : FALSE
        OBVIOUS
    <2>3. LastIs(f)
        BY DEF LastIs
    <2>4. count.uid = 0 /\ bridge.pc = "list" /\ bridge.pending = <<>>
        OBVIOUS
    <2> QED
        BY <1>3, <2>1, <2>2, <2>3, <2>4 DEF BridgeOk
<1>5. Told(f)
    <2>1. bridge.outbox = <<>> /\ subs = {}
        OBVIOUS
    <2>2. ASSUME NEW c \in Clients, NEW n \in StreamNames PROVE ToldOk(f, c, n)
        <3>1. LastSays(bridge.outbox, c, n, Shown(f, c, n))
            BY <2>1, NothingSaid
        <3> QED
            BY <2>1, <3>1 DEF ToldOk
    <2> QED
        BY <2>2 DEF Told
<1> QED
    BY <1>1, <1>2, <1>3, <1>4, <1>5 DEF StreamInv

\* Every step of the parts keeps it.
LEMMA StreamStep ==
    ASSUME StreamInv, [EdgeNext]_allVars PROVE StreamInv'
<1>1. CASE UNCHANGED streamVars
    <2>1. UNCHANGED <<cluster, bridge, last, handed, count, BusVars>>
        BY <1>1 DEF streamVars, BusVars
    <2>2. BridgeTyped' /\ BusOk'
        BY <2>1, BusStays DEF StreamInv, BridgeTyped
    <2>3. PICK h, f, reg, k : h[0] = f /\ BridgeOk(h, reg, k) /\ Told(f)
        BY DEF StreamInv
    <2>4. BridgeOk(h, reg, k)'
        BY <2>1, <2>3, BridgeStays
    <2>5. Told(f)'
        BY <2>1, <2>3, ToldStays DEF BusVars
    <2> QED
        BY <2>2, <2>3, <2>4, <2>5 DEF StreamInv
<1>2. CASE Stream!Next
    BY <1>2, WriteTold, BridgeStep, BusStep DEF Stream!Next
<1> QED
    BY <1>1, <1>2, StepOfOnePart

\* EventBus (src/internal/events): Publish sends outside the write lock and unsub
\* closes the channel outside it too; for any number of clients, and however they
\* come and go while events are published, no send meets a closed channel.
THEOREM SendsAreSafe == EdgeSpec => []NoSendOnClosed
<1>1. EdgeInit => StreamInv
    BY StreamInit DEF EdgeInit
<1>2. StreamInv /\ [EdgeNext]_allVars => StreamInv'
    BY StreamStep
<1>3. StreamInv => NoSendOnClosed
    <2>1. BusOk => NoSendOnClosed
        BY DEF BusOk, NoSendOnClosed, Stream!NoSendOnClosed
    <2> QED
        BY <2>1 DEF StreamInv
<1> QED
    BY <1>1, <1>2, <1>3, PTL DEF EdgeSpec

\* The event bridge (src/pkg/server) and handleSSE (src/internal/frontend): for any
\* apps, owners and clients, and whatever watches break, names are re-created,
\* administrators take apps over and clients subscribe late, a client that has read
\* its channel and lost no event knows of each name it was told of what the cluster
\* has, and nothing of the apps of others; save for the names of apps that were
\* taken from it, of which handleSSE tells it nothing more.
THEOREM ViewsAgree == EdgeSpec => []ViewAgrees
<1>1. EdgeInit => StreamInv
    BY StreamInit DEF EdgeInit
<1>2. StreamInv /\ [EdgeNext]_allVars => StreamInv'
    BY StreamStep
<1>3. ASSUME StreamInv PROVE ViewAgrees
    <2>1. BusOk /\ bridge \in Bridges
        BY <1>3 DEF StreamInv, BridgeTyped
    <2>2. PICK h, f, reg, k : h[0] = f /\ BridgeOk(h, reg, k) /\ Told(f)
        BY <1>3 DEF StreamInv
    <2>3. ASSUME Stream!Quiet, NEW c \in Clients, NEW n \in StreamNames,
                 sse[c] = "open", chan[c] = <<>>, c \notin dropped, view[c][n] # "unknown",
                 <<n, Caller[c]>> \notin handed
          PROVE  view[c][n] = IF cluster[n] # None /\ Caller[c] \in {Admin, cluster[n].owner}
                              THEN cluster[n].phase ELSE None
        <3>1. bridge.pc = "watch" /\ bridge.pending = <<>> /\ bridge.outbox = <<>> /\ pub = None
            BY <2>3 DEF Stream!Quiet
        <3>2. f = cluster
            <4>1. Len(bridge.pending) = 0
                BY <3>1
            <4> QED
                BY <2>2, <3>1, <4>1 DEF BridgeOk
        <3>3. c \in subs
            BY <2>1, <2>3 DEF BusOk
        <3>4. Silent(bridge.outbox, c, n) /\ Silent(chan[c], c, n)
            BY <2>3, <3>1, NothingSaid
        <3>5. view[c][n] = Shown(f, c, n)
            BY <2>2, <2>3, <3>1, <3>3, <3>4 DEF Told, ToldOk, Kept
        <3> QED
            BY <3>2, <3>5 DEF Shown
    <2> QED
        BY <2>3 DEF ViewAgrees, Stream!ViewAgrees
<1> QED
    BY <1>1, <1>2, <1>3, PTL DEF EdgeSpec

-----------------------------------------------------------------------------
(* The artifact stores.                                                    *)

\* What calls carry and answer.
ArtRecs == [id: Ids, shared: SUBSET StoreOwners]
Rows == Stores!Arts \cup Ids
Answers == {None, "ok", "exists", "missing", "error", "full", "conflict"}
StoreCalls ==
    [pc: {"idle", "run", "make", "write", "done"}, op: Stores!Writes \cup Stores!Reads \cup {None},
     art: ArtRecs \cup {None}, user: StoreOwners \cup {None}, copy: SUBSET Rows, rev: Nat,
     tries: Nat, answer: Answers, found: SUBSET Stores!Arts]
ArtOps == {"create", "update", "delete"}

\* The calls and the tables have their shape.
StoreTyped ==
    /\ arts \subseteq Stores!Arts /\ vers \subseteq Rows
    /\ byName \in [Stores!ArtifactNames -> Ids \cup {None}]
    /\ revs \in [arts: Nat, vers: Nat]
    /\ call \in [StoreClients -> StoreCalls]

\* Each backend's second copy of the artifacts agrees with the first: the index
\* by name, the shares, and the revision that says there is a ConfigMap.
IndexOk ==
    /\ backend = "memory" =>
          /\ \A a \in arts : byName[NameOf[a.id]] = a.id
          /\ \A n \in Stores!ArtifactNames : byName[n] # None =>
                NameOf[byName[n]] = n /\ \E a \in arts : a.id = byName[n]
    /\ backend = "sqlite" =>
          \A a \in arts, u \in StoreOwners : <<a.id, u>> \in shares <=> u \in a.shared
    /\ backend = "configmap" => (revs.arts = 0 => arts = {})

\* What a call r is about; and, while it has artifacts to write back, that they
\* are what it was to make of those there are, unless a later revision is there.
CallIs(r) ==
    /\ r.pc \in {"run", "make", "write"} =>
          /\ r.op \in Stores!Writes \cup Stores!Reads
          /\ r.op # "list" => r.art \in ArtRecs
          /\ r.op = "list" => r.user \in StoreOwners
          /\ r.op \in {"create", "update"} => r.art \in Stores!Arts
    /\ r.pc = "make" => backend = "configmap" /\ r.op \in {"create", "version"}
    /\ r.pc = "write" => backend = "configmap" /\ r.op \in ArtOps \cup {"version", "clean"}
    /\ r.pc = "write" /\ r.op \in ArtOps =>
          /\ r.rev <= revs.arts
          /\ r.rev = revs.arts => /\ ~Stores!Refused(r.op, r.art, arts)
                                  /\ r.copy = Stores!Applied(r.op, r.art, arts)

StoreInv == StoreTyped /\ IndexOk /\ \A c \in StoreClients : CallIs(call[c])

\* What StoreIsAtomic asks of a step in which a call goes from r to s.
Atomic(r, s) ==
    /\ arts' # arts => /\ r.op \in ArtOps /\ ~Stores!Refused(r.op, r.art, arts)
                       /\ arts' = Stores!Applied(r.op, r.art, arts)
    /\ r.pc # "done" /\ s.pc = "done" =>
          /\ s.answer \in {"exists", "missing"} => Stores!Refused(r.op, r.art, arts)
          /\ s.answer = "ok" /\ r.op \in {"create", "update"} => r.art \in arts'
          /\ s.answer = "ok" /\ r.op \in {"get", "name", "list"}
                => s.found = Stores!Found(r.op, r.art, r.user, arts)

\* The promise, case by case.
LEMMA AppliedIs ==
    ASSUME NEW op, NEW a, NEW as
    PROVE  /\ op = "create" => Stores!Applied(op, a, as) = as \cup {a}
           /\ op = "update" => Stores!Applied(op, a, as) = (as \ Stores!WithId(as, a.id)) \cup {a}
           /\ op = "delete" => Stores!Applied(op, a, as) = as \ Stores!WithId(as, a.id)
BY DEF Stores!Applied

\* ... and what a read is to find.
LEMMA FoundIs ==
    ASSUME NEW op, NEW a, NEW u, NEW as
    PROVE  /\ op = "get" => Stores!Found(op, a, u, as) = Stores!WithId(as, a.id)
           /\ op = "name" => Stores!Found(op, a, u, as) = Stores!Named(as, NameOf[a.id])
           /\ op = "list" => Stores!Found(op, a, u, as) = Stores!VisibleTo(as, u)
BY DEF Stores!Found

\* The record of a call that has returned.
LEMMA ResultIs ==
    ASSUME NEW answer \in Answers, NEW found \in SUBSET Stores!Arts, NEW s,
           s = Stores!Result(answer, found)
    PROVE  s \in StoreCalls /\ s.pc = "done" /\ s.answer = answer /\ s.found = found
<1>1. s = [pc |-> "done", op |-> None, art |-> None, user |-> None, copy |-> {}, rev |-> 0,
           tries |-> 0, answer |-> answer, found |-> found]
    BY DEF Stores!Result, Stores!Idle
<1> QED
    BY <1>1 DEF StoreCalls

\* One call goes on, and no other.
LEMMA GoIs ==
    ASSUME StoreTyped, NEW c \in StoreClients, NEW s \in StoreCalls, Stores!Go(c, s)
    PROVE  /\ backend' = backend /\ call'[c] = s /\ call' \in [StoreClients -> StoreCalls]
           /\ \A d \in StoreClients \ {c} : call'[d] = call[d]
BY DEF Stores!Go, StoreTyped

\* The call of client c goes on as the promise has it, and no other does.
GoesOn(c) ==
    /\ StoreInv'
    /\ \A d \in StoreClients \ {c} : call'[d] = call[d]
    /\ Atomic(call[c], call'[c])

\* The calls under way are what they were, of the artifacts there are then.
LEMMA OthersWait ==
    ASSUME StoreInv, NEW c \in StoreClients, NEW s \in StoreCalls, Stores!Go(c, s),
           arts' \subseteq Stores!Arts, vers' \subseteq Rows,
           byName' \in [Stores!ArtifactNames -> Ids \cup {None}],
           revs' \in [arts: Nat, vers: Nat], IndexOk', CallIs(s)',
           \/ arts' = arts /\ revs'.arts = revs.arts
           \/ backend # "configmap"
           \/ revs'.arts > revs.arts
    PROVE  /\ StoreInv' /\ call'[c] = s
           /\ \A d \in StoreClients \ {c} : call'[d] = call[d]
<1>1. /\ backend' = backend /\ call'[c] = s /\ call' \in [StoreClients -> StoreCalls]
      /\ \A d \in StoreClients \ {c} : call'[d] = call[d]
    BY GoIs DEF StoreInv
<1>2. StoreTyped'
    BY <1>1 DEF StoreTyped
<1>3. ASSUME NEW d \in StoreClients PROVE CallIs(call[d])'
    <2>1. CASE d = c
        <3>1. CallIs(call[c])' <=> CallIs(s)'
            BY <1>1 DEF CallIs
        <3> QED
            BY <2>1, <3>1
    <2>2. CASE d # c
        <3> PICK r : r = call[d]
            OBVIOUS
        <3>1. CallIs(r) /\ r \in StoreCalls
            BY DEF StoreInv, StoreTyped
        <3>2. r.rev \in Nat /\ revs.arts \in Nat /\ revs'.arts \in Nat
            BY <3>1 DEF StoreCalls, StoreInv, StoreTyped
        <3>3. CallIs(r)'
            BY <1>1, <3>1, <3>2 DEF CallIs
        <3>4. call'[d] = r
            BY <1>1, <2>2
        <3> QED
            BY <3>3, <3>4 DEF CallIs
    <2> QED
        BY <2>1, <2>2
<1> QED
    BY <1>1, <1>2, <1>3 DEF StoreInv

\* A call that returns has nothing left to write back.
LEMMA Returns ==
    ASSUME StoreInv, NEW c \in StoreClients, NEW answer \in Answers, Stores!Answer(c, answer)
    PROVE  \E s \in StoreCalls :
              /\ Stores!Go(c, s) /\ s.pc = "done" /\ CallIs(s)'
              /\ s.answer = IF call[c].op = "clean" THEN "ok" ELSE answer
<1> PICK x : x = IF call[c].op = "clean" THEN "ok" ELSE answer
    OBVIOUS
<1> PICK s : s = Stores!Result(x, {})
    OBVIOUS
<1>1. x \in Answers /\ {} \in SUBSET Stores!Arts
    BY DEF Answers
<1>2. s \in StoreCalls /\ s.pc = "done" /\ s.answer = x
    BY <1>1, ResultIs
<1>3. Stores!Go(c, s)
    BY DEF Stores!Answer
<1>4. CallIs(s)'
    BY <1>2 DEF CallIs
<1> QED
    BY <1>2, <1>3, <1>4

\* A call that is refused, or fails, changes nothing.
LEMMA Refuses ==
    ASSUME StoreInv, NEW c \in StoreClients, NEW answer \in Answers, Stores!Answer(c, answer),
           UNCHANGED <<arts, vers, byName, shares, revs>>,
           answer \in {"exists", "missing"} /\ call[c].op # "clean"
              => Stores!Refused(call[c].op, call[c].art, arts),
           answer = "ok" => call[c].op \notin {"create", "update", "get", "name", "list"}
    PROVE  GoesOn(c)
<1>1. PICK s \in StoreCalls :
        /\ Stores!Go(c, s) /\ s.pc = "done" /\ CallIs(s)'
        /\ s.answer = IF call[c].op = "clean" THEN "ok" ELSE answer
    BY Returns
<1>2. backend' = backend
    BY <1>1 DEF Stores!Go
<1>3. IndexOk'
    BY <1>2 DEF StoreInv, IndexOk
<1>4. /\ arts' \subseteq Stores!Arts /\ vers' \subseteq Rows
      /\ byName' \in [Stores!ArtifactNames -> Ids \cup {None}]
      /\ revs' \in [arts: Nat, vers: Nat]
    BY DEF StoreInv, StoreTyped
<1>5. /\ StoreInv' /\ call'[c] = s
      /\ \A d \in StoreClients \ {c} : call'[d] = call[d]
    BY <1>1, <1>3, <1>4, OthersWait
<1>6. Atomic(call[c], s)
    BY <1>1 DEF Atomic
<1> QED
    BY <1>5, <1>6 DEF GoesOn

\* A read changes nothing and finds what is there.
LEMMA Reads ==
    ASSUME StoreInv, NEW c \in StoreClients, NEW found \in SUBSET Stores!Arts,
           Stores!Go(c, Stores!Result("ok", found)),
           UNCHANGED <<arts, vers, byName, shares, revs>>,
           call[c].op \in {"get", "name", "list", "versions"},
           call[c].op # "versions"
              => found = Stores!Found(call[c].op, call[c].art, call[c].user, arts)
    PROVE  GoesOn(c)
<1> PICK s : s = Stores!Result("ok", found)
    OBVIOUS
<1>1. s \in StoreCalls /\ s.pc = "done" /\ s.answer = "ok" /\ s.found = found
    BY ResultIs DEF Answers
<1>2. Stores!Go(c, s) /\ backend' = backend
    BY DEF Stores!Go
<1>3. IndexOk' /\ CallIs(s)'
    BY <1>1, <1>2 DEF StoreInv, IndexOk, CallIs
<1>4. /\ arts' \subseteq Stores!Arts /\ vers' \subseteq Rows
      /\ byName' \in [Stores!ArtifactNames -> Ids \cup {None}]
      /\ revs' \in [arts: Nat, vers: Nat]
    BY DEF StoreInv, StoreTyped
<1>5. /\ StoreInv' /\ call'[c] = s
      /\ \A d \in StoreClients \ {c} : call'[d] = call[d]
    BY <1>1, <1>2, <1>3, <1>4, OthersWait
<1>6. Atomic(call[c], s)
    BY <1>1 DEF Atomic
<1> QED
    BY <1>5, <1>6 DEF GoesOn

\* A call that is one step, and succeeds.
LEMMA Changes ==
    ASSUME StoreInv, NEW c \in StoreClients, Stores!Answer(c, "ok"), backend # "configmap",
           arts' \subseteq Stores!Arts, vers' \subseteq Rows,
           byName' \in [Stores!ArtifactNames -> Ids \cup {None}], revs' = revs, IndexOk',
           \/ call[c].op = "version" /\ arts' = arts
           \/ /\ call[c].op \in ArtOps /\ ~Stores!Refused(call[c].op, call[c].art, arts)
              /\ arts' = Stores!Applied(call[c].op, call[c].art, arts)
    PROVE  GoesOn(c)
<1>1. PICK s \in StoreCalls :
        Stores!Go(c, s) /\ s.pc = "done" /\ CallIs(s)' /\ s.answer = "ok"
    BY Returns DEF Answers
<1>2. revs' \in [arts: Nat, vers: Nat]
    BY DEF StoreInv, StoreTyped
<1>3. /\ StoreInv' /\ call'[c] = s
      /\ \A d \in StoreClients \ {c} : call'[d] = call[d]
    BY <1>1, <1>2, OthersWait
<1>4. call[c].op \in {"create", "update"} => call[c].art \in arts'
    BY AppliedIs
<1>5. Atomic(call[c], s)
    BY <1>1, <1>4 DEF Atomic, ArtOps
<1> QED
    BY <1>3, <1>5 DEF GoesOn

\* An artifact has its id, and its name is one of the names.
LEMMA ArtIs ==
    ASSUME NEW a \in ArtRecs \cup Stores!Arts
    PROVE  a.id \in Ids /\ NameOf[a.id] \in Stores!ArtifactNames /\ a.id # None
BY EdgeAssumption DEF ArtRecs, Stores!Arts, Stores!ArtifactNames

\* The call that runs is about an artifact.
LEMMA RunIs ==
    ASSUME StoreInv, NEW c \in StoreClients, NEW b, NEW ops, Stores!Runs(c, b, ops)
    PROVE  /\ backend = b /\ call[c].op \in ops /\ call[c].pc = "run" /\ call[c] \in StoreCalls
           /\ call[c].op # "list" => call[c].art \in ArtRecs
           /\ call[c].op = "list" => call[c].user \in StoreOwners
           /\ call[c].op \in {"create", "update"} => call[c].art \in Stores!Arts
BY DEF Stores!Runs, StoreInv, StoreTyped, CallIs

\* MemoryStore: the index by name follows the artifacts.
LEMMA MemoryGoesOn ==
    ASSUME StoreInv, NEW c \in StoreClients, Stores!Memory(c)
    PROVE  GoesOn(c)
<1> PICK a : a = call[c].art
    OBVIOUS
<1> PICK i : i = a.id
    OBVIOUS
<1>1. /\ arts \subseteq Stores!Arts /\ vers \subseteq Rows /\ revs \in [arts: Nat, vers: Nat]
      /\ byName \in [Stores!ArtifactNames -> Ids \cup {None}]
    BY DEF StoreInv, StoreTyped
<1>2. ASSUME backend = "memory"
      PROVE  /\ \A x \in arts : byName[NameOf[x.id]] = x.id
             /\ \A n \in Stores!ArtifactNames : byName[n] # None =>
                   NameOf[byName[n]] = n /\ \E x \in arts : x.id = byName[n]
    BY <1>2 DEF StoreInv, IndexOk
<1>3. \A x \in arts : x.id \in Ids /\ NameOf[x.id] \in Stores!ArtifactNames /\ x.id # None
    BY <1>1, ArtIs
<1>4. CASE Stores!MemoryCreate(c)
    <2>1. backend = "memory" /\ call[c].op = "create" /\ a \in Stores!Arts
        BY <1>4, RunIs DEF Stores!MemoryCreate
    <2>2. i \in Ids /\ NameOf[i] \in Stores!ArtifactNames /\ i # None
        BY <2>1, ArtIs
    <2>3. CASE byName[NameOf[i]] # None
        <3>1. Stores!Answer(c, "exists") /\ UNCHANGED <<arts, vers, byName, shares, revs>>
            BY <1>4, <2>1, <2>3 DEF Stores!MemoryCreate, Stores!Refusal
        <3>2. Stores!Refused("create", a, arts)
            BY <1>2, <2>1, <2>2, <2>3 DEF Stores!Refused, Stores!Named
        <3> QED
            BY <2>1, <3>1, <3>2, Refuses DEF Answers
    <2>4. CASE byName[NameOf[i]] = None
        <3>1. /\ arts' = (arts \ Stores!WithId(arts, i)) \cup {a}
              /\ byName' = [byName EXCEPT ![NameOf[i]] = i]
              /\ Stores!Answer(c, "ok") /\ UNCHANGED <<vers, shares, revs>> /\ backend' = backend
            BY <1>4, <2>4 DEF Stores!MemoryCreate, Stores!Answer, Stores!Go
        <3>2. \A x \in arts : NameOf[x.id] # NameOf[i] /\ x.id # i
            BY <1>2, <1>3, <2>1, <2>4
        <3>3. Stores!Named(arts, NameOf[i]) = {} /\ Stores!WithId(arts, i) = {}
            BY <3>2 DEF Stores!Named, Stores!WithId
        <3>4. arts' = arts \cup {a}
            BY <3>1, <3>3
        <3>5. ~Stores!Refused("create", a, arts) /\ arts' = Stores!Applied("create", a, arts)
            BY <3>3, <3>4, AppliedIs DEF Stores!Refused
        <3>6. byName' \in [Stores!ArtifactNames -> Ids \cup {None}]
            BY <1>1, <2>2, <3>1
        <3>7. byName'[NameOf[i]] = i /\ \A n \in Stores!ArtifactNames \ {NameOf[i]} : byName'[n] = byName[n]
            BY <1>1, <2>2, <3>1
        <3>8. \A x \in arts' : byName'[NameOf[x.id]] = x.id
            BY <1>2, <1>3, <2>1, <3>2, <3>4, <3>7
        <3>9. ASSUME NEW n \in Stores!ArtifactNames, byName'[n] # None
              PROVE  NameOf[byName'[n]] = n /\ \E x \in arts' : x.id = byName'[n]
            BY <1>2, <2>1, <3>4, <3>7, <3>9
        <3>10. IndexOk'
            BY <2>1, <3>1, <3>8, <3>9 DEF IndexOk
        <3>11. arts' \subseteq Stores!Arts /\ vers' \subseteq Rows
            BY <1>1, <2>1, <3>1, <3>4
        <3> QED
            BY <2>1, <3>1, <3>5, <3>6, <3>10, <3>11, Changes DEF ArtOps
    <2> QED
        BY <2>3, <2>4
<1>5. CASE Stores!MemoryUpdate(c)
    <2>1. backend = "memory" /\ call[c].op = "update" /\ a \in Stores!Arts
        BY <1>5, RunIs DEF Stores!MemoryUpdate
    <2>2. CASE Stores!WithId(arts, i) = {}
        <3>1. Stores!Answer(c, "missing") /\ UNCHANGED <<arts, vers, byName, shares, revs>>
            BY <1>5, <2>1, <2>2 DEF Stores!MemoryUpdate, Stores!Refusal
        <3>2. Stores!Refused("update", a, arts)
            BY <2>2 DEF Stores!Refused
        <3> QED
            BY <2>1, <3>1, <3>2, Refuses DEF Answers
    <2>3. CASE Stores!WithId(arts, i) # {}
        <3>1. /\ arts' = (arts \ Stores!WithId(arts, i)) \cup {a}
              /\ Stores!Answer(c, "ok") /\ UNCHANGED <<vers, byName, shares, revs>> /\ backend' = backend
            BY <1>5, <2>3 DEF Stores!MemoryUpdate, Stores!Answer, Stores!Go
        <3>2. ~Stores!Refused("update", a, arts) /\ arts' = Stores!Applied("update", a, arts)
            BY <2>3, <3>1, AppliedIs DEF Stores!Refused
        <3>3. \E x \in arts : x.id = i
            BY <2>3 DEF Stores!WithId
        <3>4. \A x \in arts' : x.id = i \/ x \in arts
            BY <3>1
        <3>5. \A x \in arts : \E y \in arts' : y.id = x.id
            BY <3>1 DEF Stores!WithId
        <3>6. IndexOk'
            BY <1>2, <2>1, <3>1, <3>3, <3>4, <3>5 DEF IndexOk
        <3>7. arts' \subseteq Stores!Arts /\ vers' \subseteq Rows /\ byName' \in [Stores!ArtifactNames -> Ids \cup {None}]
            BY <1>1, <2>1, <3>1
        <3> QED
            BY <2>1, <3>1, <3>2, <3>6, <3>7, Changes DEF ArtOps
    <2> QED
        BY <2>2, <2>3
<1>6. CASE Stores!MemoryDelete(c)
    <2>1. backend = "memory" /\ call[c].op = "delete" /\ a \in ArtRecs
        BY <1>6, RunIs DEF Stores!MemoryDelete
    <2>2. i \in Ids /\ NameOf[i] \in Stores!ArtifactNames /\ i # None
        BY <2>1, ArtIs
    <2>3. CASE Stores!WithId(arts, i) = {}
        <3>1. Stores!Answer(c, "missing") /\ UNCHANGED <<arts, vers, byName, shares, revs>>
            BY <1>6, <2>1, <2>3 DEF Stores!MemoryDelete, Stores!Refusal
        <3>2. Stores!Refused("delete", a, arts)
            BY <2>3 DEF Stores!Refused
        <3> QED
            BY <2>1, <3>1, <3>2, Refuses DEF Answers
    <2>4. CASE Stores!WithId(arts, i) # {}
        <3>1. /\ arts' = arts \ Stores!WithId(arts, i) /\ vers' = vers \ {i}
              /\ byName' = [byName EXCEPT ![NameOf[i]] = None]
              /\ Stores!Answer(c, "ok") /\ UNCHANGED <<shares, revs>> /\ backend' = backend
            BY <1>6, <2>4 DEF Stores!MemoryDelete, Stores!Answer, Stores!Go
        <3>2. ~Stores!Refused("delete", a, arts) /\ arts' = Stores!Applied("delete", a, arts)
            BY <2>4, <3>1, AppliedIs DEF Stores!Refused
        <3>3. byName' \in [Stores!ArtifactNames -> Ids \cup {None}]
            BY <1>1, <2>2, <3>1
        <3>4. byName'[NameOf[i]] = None /\ \A n \in Stores!ArtifactNames \ {NameOf[i]} : byName'[n] = byName[n]
            BY <1>1, <2>2, <3>1
        <3>5. \E x \in arts : x.id = i
            BY <2>4 DEF Stores!WithId
        <3>6. byName[NameOf[i]] = i
            BY <1>2, <2>1, <3>5
        <3>7. \A x \in arts' : x \in arts /\ x.id # i
            BY <3>1 DEF Stores!WithId
        <3>8. \A x \in arts' : byName'[NameOf[x.id]] = x.id
            BY <1>2, <1>3, <2>1, <3>4, <3>6, <3>7
        <3>9. ASSUME NEW n \in Stores!ArtifactNames, byName'[n] # None
              PROVE  NameOf[byName'[n]] = n /\ \E x \in arts' : x.id = byName'[n]
            <4>1. n # NameOf[i] /\ byName'[n] = byName[n]
                BY <3>4, <3>9
            <4>2. PICK x \in arts : x.id = byName[n]
                BY <1>2, <2>1, <3>9, <4>1
            <4>3. NameOf[byName[n]] = n
                BY <1>2, <2>1, <3>9, <4>1
            <4>4. x.id # i
                BY <4>1, <4>2, <4>3
            <4>5. x \in arts'
                BY <3>1, <4>4 DEF Stores!WithId
            <4> QED
                BY <4>1, <4>2, <4>3, <4>5
        <3>10. IndexOk'
            BY <2>1, <3>1, <3>8, <3>9 DEF IndexOk
        <3>11. arts' \subseteq Stores!Arts /\ vers' \subseteq Rows
            BY <1>1, <3>1
        <3> QED
            BY <2>1, <3>1, <3>2, <3>3, <3>10, <3>11, Changes DEF ArtOps
    <2> QED
        BY <2>3, <2>4
<1>7. CASE Stores!MemoryVersion(c)
    <2>1. backend = "memory" /\ call[c].op = "version" /\ a \in ArtRecs
        BY <1>7, RunIs DEF Stores!MemoryVersion
    <2>2. /\ vers' = vers \cup {i} /\ Stores!Answer(c, "ok") /\ UNCHANGED <<arts, byName, shares, revs>>
          /\ backend' = backend
        BY <1>7 DEF Stores!MemoryVersion, Stores!Answer, Stores!Go
    <2>3. vers' \subseteq Rows
        BY <1>1, <2>1, <2>2, ArtIs DEF Rows
    <2>4. IndexOk'
        BY <2>2 DEF StoreInv, IndexOk
    <2> QED
        BY <1>1, <2>1, <2>2, <2>3, <2>4, Changes
<1>8. CASE Stores!MemoryRead(c)
    <2> PICK u : u = call[c].user
        OBVIOUS
    <2> PICK found : found = CASE call[c].op = "get" -> Stores!WithId(arts, i)
                               [] call[c].op = "name" -> Stores!WithId(arts, byName[NameOf[i]])
                               [] call[c].op = "list" -> Stores!VisibleTo(arts, u)
        OBVIOUS
    <2>1. /\ backend = "memory" /\ call[c].op \in {"get", "name", "list"}
          /\ call[c].op # "list" => a \in ArtRecs
        BY <1>8, RunIs DEF Stores!MemoryRead
    <2>2. Stores!Go(c, Stores!Result("ok", found)) /\ UNCHANGED <<arts, vers, byName, shares, revs>>
        BY <1>8 DEF Stores!MemoryRead
    <2>3. ASSUME call[c].op = "name" PROVE Stores!WithId(arts, byName[NameOf[i]]) = Stores!Named(arts, NameOf[i])
        <3>1. NameOf[i] \in Stores!ArtifactNames
            BY <2>1, <2>3, ArtIs
        <3> QED
            BY <1>2, <1>3, <2>1, <3>1 DEF Stores!WithId, Stores!Named
    <2>4. found = Stores!Found(call[c].op, a, u, arts)
        BY <2>1, <2>3, FoundIs
    <2>5. found \subseteq Stores!Arts
        BY <1>1, <2>1, <2>4, FoundIs DEF Stores!WithId, Stores!Named, Stores!VisibleTo
    <2> QED
        BY <2>1, <2>2, <2>4, <2>5, Reads
<1> QED
    BY <1>4, <1>5, <1>6, <1>7, <1>8 DEF Stores!Memory

\* SQLiteStore: a transaction that leaves artifacts and shares so keeps the index.
LEMMA SharesFollow ==
    ASSUME StoreInv, backend = "sqlite", NEW a \in Stores!Arts, backend' = backend,
           arts' = (arts \ Stores!WithId(arts, a.id)) \cup {a}, shares' = Stores!SharesOf(a)
    PROVE  IndexOk'
<1>1. \A x \in arts, u \in StoreOwners : <<x.id, u>> \in shares <=> u \in x.shared
    BY Zenon DEF StoreInv, IndexOk
<1>2. \A x \in arts' : x = a \/ (x \in arts /\ x.id # a.id)
    BY DEF Stores!WithId
<1>3. shares' = {s \in shares : s[1] # a.id} \cup ({a.id} \X a.shared)
    BY DEF Stores!SharesOf
<1>4. ASSUME NEW x \in arts', NEW u \in StoreOwners
      PROVE  <<x.id, u>> \in shares' <=> u \in x.shared
    <2>1. CASE x = a
        BY <1>3, <2>1
    <2>2. CASE x \in arts /\ x.id # a.id
        BY <1>1, <1>3, <2>2
    <2> QED
        BY <1>2, <2>1, <2>2
<1> QED
    BY <1>4 DEF IndexOk

\* SQLiteStore: each of its calls is one transaction.
LEMMA SqliteGoesOn ==
    ASSUME StoreInv, NEW c \in StoreClients, Stores!Sqlite(c)
    PROVE  GoesOn(c)
<1> PICK a : a = call[c].art
    OBVIOUS
<1> PICK i : i = a.id
    OBVIOUS
<1>1. /\ arts \subseteq Stores!Arts /\ vers \subseteq Rows /\ revs \in [arts: Nat, vers: Nat]
      /\ byName \in [Stores!ArtifactNames -> Ids \cup {None}]
    BY DEF StoreInv, StoreTyped
<1>2. CASE Stores!SqliteCreate(c)
    <2>1. backend = "sqlite" /\ call[c].op = "create" /\ a \in Stores!Arts
        BY <1>2, RunIs DEF Stores!SqliteCreate
    <2>2. Stores!WithId(arts, i) \subseteq Stores!Named(arts, NameOf[i])
        BY DEF Stores!WithId, Stores!Named
    <2>3. CASE Stores!WithId(arts, i) \cup Stores!Named(arts, NameOf[i]) # {}
        <3>1. Stores!Answer(c, "exists") /\ UNCHANGED <<arts, vers, byName, shares, revs>>
            BY <1>2, <2>1, <2>3 DEF Stores!SqliteCreate, Stores!Refusal
        <3>2. Stores!Refused("create", a, arts)
            BY <2>2, <2>3 DEF Stores!Refused
        <3> QED
            BY <2>1, <3>1, <3>2, Refuses DEF Answers
    <2>4. CASE Stores!WithId(arts, i) \cup Stores!Named(arts, NameOf[i]) = {}
        <3>1. /\ arts' = arts \cup {a} /\ shares' = Stores!SharesOf(a)
              /\ Stores!Answer(c, "ok") /\ UNCHANGED <<vers, byName, revs>> /\ backend' = backend
            BY <1>2, <2>4 DEF Stores!SqliteCreate, Stores!Answer, Stores!Go
        <3>2. ~Stores!Refused("create", a, arts) /\ arts' = Stores!Applied("create", a, arts)
            BY <2>4, <3>1, AppliedIs DEF Stores!Refused
        <3>3. arts' = (arts \ Stores!WithId(arts, i)) \cup {a}
            BY <2>4, <3>1
        <3>4. IndexOk'
            BY <2>1, <3>1, <3>3, SharesFollow
        <3>5. /\ arts' \subseteq Stores!Arts /\ vers' \subseteq Rows
              /\ byName' \in [Stores!ArtifactNames -> Ids \cup {None}]
            BY <1>1, <2>1, <3>1
        <3> QED
            BY <2>1, <3>1, <3>2, <3>4, <3>5, Changes DEF ArtOps
    <2> QED
        BY <2>3, <2>4
<1>3. CASE Stores!SqliteUpdate(c)
    <2>1. backend = "sqlite" /\ call[c].op = "update" /\ a \in Stores!Arts
        BY <1>3, RunIs DEF Stores!SqliteUpdate
    <2>2. CASE Stores!WithId(arts, i) = {}
        <3>1. Stores!Answer(c, "missing") /\ UNCHANGED <<arts, vers, byName, shares, revs>>
            BY <1>3, <2>1, <2>2 DEF Stores!SqliteUpdate, Stores!Refusal
        <3>2. Stores!Refused("update", a, arts)
            BY <2>2 DEF Stores!Refused
        <3> QED
            BY <2>1, <3>1, <3>2, Refuses DEF Answers
    <2>3. CASE Stores!WithId(arts, i) # {}
        <3>1. /\ arts' = (arts \ Stores!WithId(arts, i)) \cup {a} /\ shares' = Stores!SharesOf(a)
              /\ Stores!Answer(c, "ok") /\ UNCHANGED <<vers, byName, revs>> /\ backend' = backend
            BY <1>3, <2>3 DEF Stores!SqliteUpdate, Stores!Answer, Stores!Go
        <3>2. ~Stores!Refused("update", a, arts) /\ arts' = Stores!Applied("update", a, arts)
            BY <2>3, <3>1, AppliedIs DEF Stores!Refused
        <3>3. IndexOk'
            BY <2>1, <3>1, SharesFollow
        <3>4. /\ arts' \subseteq Stores!Arts /\ vers' \subseteq Rows
              /\ byName' \in [Stores!ArtifactNames -> Ids \cup {None}]
            BY <1>1, <2>1, <3>1
        <3> QED
            BY <2>1, <3>1, <3>2, <3>3, <3>4, Changes DEF ArtOps
    <2> QED
        BY <2>2, <2>3
<1>4. CASE Stores!SqliteDelete(c)
    <2>1. backend = "sqlite" /\ call[c].op = "delete" /\ a \in ArtRecs
        BY <1>4, RunIs DEF Stores!SqliteDelete
    <2>2. CASE Stores!WithId(arts, i) = {}
        <3>1. Stores!Answer(c, "missing") /\ UNCHANGED <<arts, vers, byName, shares, revs>>
            BY <1>4, <2>1, <2>2 DEF Stores!SqliteDelete, Stores!Refusal
        <3>2. Stores!Refused("delete", a, arts)
            BY <2>2 DEF Stores!Refused
        <3> QED
            BY <2>1, <3>1, <3>2, Refuses DEF Answers
    <2>3. CASE Stores!WithId(arts, i) # {}
        <3>1. /\ arts' = arts \ Stores!WithId(arts, i) /\ vers' = vers \ {i}
              /\ shares' = {s \in shares : s[1] # i}
              /\ Stores!Answer(c, "ok") /\ UNCHANGED <<byName, revs>> /\ backend' = backend
            BY <1>4, <2>3 DEF Stores!SqliteDelete, Stores!Answer, Stores!Go
        <3>2. ~Stores!Refused("delete", a, arts) /\ arts' = Stores!Applied("delete", a, arts)
            BY <2>3, <3>1, AppliedIs DEF Stores!Refused
        <3>3. \A x \in arts' : x \in arts /\ x.id # i
            BY <3>1 DEF Stores!WithId
        <3>4. \A x \in arts', u \in StoreOwners : <<x.id, u>> \in shares' <=> u \in x.shared
            <4>1. \A x \in arts, u \in StoreOwners : <<x.id, u>> \in shares <=> u \in x.shared
                BY <2>1, Zenon DEF StoreInv, IndexOk
            <4>2. ASSUME NEW x \in arts', NEW u \in StoreOwners
                  PROVE  <<x.id, u>> \in shares' <=> u \in x.shared
                <5>1. x \in arts /\ x.id # i
                    BY <3>3
                <5>2. <<x.id, u>> \in shares <=> u \in x.shared
                    BY <4>1, <5>1, Zenon
                <5> QED
                    BY <3>1, <5>1, <5>2
            <4> QED
                BY <4>2, Zenon
        <3>5. IndexOk'
            BY <2>1, <3>1, <3>4 DEF IndexOk
        <3>6. /\ arts' \subseteq Stores!Arts /\ vers' \subseteq Rows
              /\ byName' \in [Stores!ArtifactNames -> Ids \cup {None}]
            BY <1>1, <3>1
        <3> QED
            BY <2>1, <3>1, <3>2, <3>5, <3>6, Changes DEF ArtOps
    <2> QED
        BY <2>2, <2>3
<1>5. CASE Stores!SqliteVersion(c)
    <2>1. backend = "sqlite" /\ call[c].op = "version" /\ a \in ArtRecs
        BY <1>5, RunIs DEF Stores!SqliteVersion
    <2>2. /\ vers' = vers \cup {i} /\ Stores!Answer(c, "ok") /\ UNCHANGED <<arts, byName, shares, revs>>
          /\ backend' = backend
        BY <1>5 DEF Stores!SqliteVersion, Stores!Answer, Stores!Go
    <2>3. vers' \subseteq Rows
        BY <1>1, <2>1, <2>2, ArtIs DEF Rows
    <2>4. IndexOk'
        BY <2>2 DEF StoreInv, IndexOk
    <2> QED
        BY <1>1, <2>1, <2>2, <2>3, <2>4, Changes
<1>6. CASE Stores!SqliteGet(c)
    <2> PICK found : found = IF call[c].op = "get" THEN Stores!WithId(arts, i)
                             ELSE Stores!Named(arts, NameOf[i])
        OBVIOUS
    <2>1. call[c].op \in {"get", "name"}
        BY <1>6, RunIs DEF Stores!SqliteGet
    <2>2. Stores!Go(c, Stores!Result("ok", found)) /\ UNCHANGED <<arts, vers, byName, shares, revs>>
        BY <1>6 DEF Stores!SqliteGet
    <2>3. found = Stores!Found(call[c].op, a, call[c].user, arts)
        BY <2>1, FoundIs
    <2>4. found \subseteq Stores!Arts
        BY <1>1 DEF Stores!WithId, Stores!Named
    <2> QED
        BY <2>1, <2>2, <2>3, <2>4, Reads
<1>7. CASE Stores!SqliteList(c)
    <2> PICK u : u = call[c].user
        OBVIOUS
    <2> PICK found : found = {x \in arts : OwnerOf[x.id] = u \/ <<x.id, u>> \in shares}
        OBVIOUS
    <2>1. backend = "sqlite" /\ call[c].op = "list" /\ u \in StoreOwners
        BY <1>7, RunIs DEF Stores!SqliteList
    <2>2. Stores!Go(c, Stores!Result("ok", found)) /\ UNCHANGED <<arts, vers, byName, shares, revs>>
        BY <1>7 DEF Stores!SqliteList
    <2>3. found = Stores!VisibleTo(arts, u)
        <3>1. \A x \in arts : <<x.id, u>> \in shares <=> u \in x.shared
            BY <2>1 DEF StoreInv, IndexOk
        <3> QED
            BY <3>1 DEF Stores!VisibleTo
    <2>4. found = Stores!Found(call[c].op, a, u, arts)
        BY <2>1, <2>3, FoundIs
    <2>5. found \subseteq Stores!Arts
        BY <1>1
    <2> QED
        BY <2>1, <2>2, <2>4, <2>5, Reads
<1> QED
    BY <1>2, <1>3, <1>4, <1>5, <1>6, <1>7 DEF Stores!Sqlite

\* ConfigMapStore: a call that will write back what it read and changed.
LEMMA WritesLater ==
    ASSUME StoreInv, NEW c \in StoreClients, backend = "configmap", call[c].pc = "run",
           NEW copy \in SUBSET Rows, Stores!ToWrite(c, copy),
           UNCHANGED <<arts, vers, byName, shares, revs>>,
           \/ call[c].op \in {"version", "clean"}
           \/ /\ call[c].op \in ArtOps /\ ~Stores!Refused(call[c].op, call[c].art, arts)
              /\ copy = Stores!Applied(call[c].op, call[c].art, arts)
    PROVE  GoesOn(c)
<1> PICK r : r = call[c]
    OBVIOUS
<1>1. r \in StoreCalls /\ CallIs(r) /\ revs \in [arts: Nat, vers: Nat] /\ r.pc = "run"
    BY DEF StoreInv, StoreTyped
<1> PICK v : v = revs[Stores!Map(r.op)]
    OBVIOUS
<1>2. v \in Nat /\ (r.op \in ArtOps => v = revs.arts)
    BY <1>1 DEF Stores!Map, ArtOps
<1> PICK s : s = [r EXCEPT !.pc = "write", !.copy = copy, !.rev = v]
    OBVIOUS
<1>3. Stores!Go(c, s) /\ backend' = backend
    BY DEF Stores!ToWrite, Stores!Go
<1>4. /\ s.pc = "write" /\ s.op = r.op /\ s.art = r.art /\ s.user = r.user /\ s.copy = copy
      /\ s.rev = v
    BY <1>1 DEF StoreCalls
<1>5. s \in StoreCalls
    BY <1>1, <1>2 DEF StoreCalls
<1>6. CallIs(s)'
    <2>1. /\ s.op \in Stores!Writes \cup Stores!Reads
          /\ s.op # "list" => s.art \in ArtRecs
          /\ s.op = "list" => s.user \in StoreOwners
          /\ s.op \in {"create", "update"} => s.art \in Stores!Arts
        BY <1>1, <1>4 DEF CallIs
    <2>2. /\ backend' = "configmap" /\ s.op \in ArtOps \cup {"version", "clean"}
        BY <1>3, <1>4
    <2>3. s.op \in ArtOps => /\ s.rev <= revs'.arts /\ ~Stores!Refused(s.op, s.art, arts)
                             /\ s.copy = Stores!Applied(s.op, s.art, arts)
        BY <1>2, <1>4 DEF ArtOps
    <2>4. arts' = arts
        OBVIOUS
    <2> QED
        BY <1>4, <2>1, <2>2, <2>3, <2>4 DEF CallIs
<1>7. IndexOk'
    BY <1>3 DEF StoreInv, IndexOk
<1>8. /\ arts' \subseteq Stores!Arts /\ vers' \subseteq Rows
      /\ byName' \in [Stores!ArtifactNames -> Ids \cup {None}]
      /\ revs' \in [arts: Nat, vers: Nat]
    BY DEF StoreInv, StoreTyped
<1>9. /\ StoreInv' /\ call'[c] = s
      /\ \A d \in StoreClients \ {c} : call'[d] = call[d]
    BY <1>3, <1>5, <1>6, <1>7, <1>8, OthersWait
<1>10. Atomic(call[c], s)
    BY <1>4 DEF Atomic
<1> QED
    BY <1>9, <1>10 DEF GoesOn

\* ... or that has a ConfigMap to make first.
LEMMA MakesLater ==
    ASSUME StoreInv, NEW c \in StoreClients, backend = "configmap", call[c].pc = "run",
           Stores!Go(c, [call[c] EXCEPT !.pc = "make"]),
           UNCHANGED <<arts, vers, byName, shares, revs>>, call[c].op \in {"create", "version"}
    PROVE  GoesOn(c)
<1> PICK r : r = call[c]
    OBVIOUS
<1>1. r \in StoreCalls /\ CallIs(r) /\ r.pc = "run"
    BY DEF StoreInv, StoreTyped
<1> PICK s : s = [r EXCEPT !.pc = "make"]
    OBVIOUS
<1>2. Stores!Go(c, s) /\ backend' = backend
    BY DEF Stores!Go
<1>3. /\ s \in StoreCalls /\ s.pc = "make" /\ s.op = r.op /\ s.art = r.art /\ s.user = r.user
    BY <1>1 DEF StoreCalls
<1>4. CallIs(s)'
    BY <1>1, <1>2, <1>3 DEF CallIs
<1>5. IndexOk'
    BY <1>2 DEF StoreInv, IndexOk
<1>6. /\ arts' \subseteq Stores!Arts /\ vers' \subseteq Rows
      /\ byName' \in [Stores!ArtifactNames -> Ids \cup {None}]
      /\ revs' \in [arts: Nat, vers: Nat]
    BY DEF StoreInv, StoreTyped
<1>7. /\ StoreInv' /\ call'[c] = s
      /\ \A d \in StoreClients \ {c} : call'[d] = call[d]
    BY <1>2, <1>3, <1>4, <1>5, <1>6, OthersWait
<1>8. Atomic(call[c], s)
    BY <1>3 DEF Atomic
<1> QED
    BY <1>7, <1>8 DEF GoesOn

\* ConfigMapStore reads.
LEMMA ConfigMapReads ==
    ASSUME StoreInv, NEW c \in StoreClients,
           \/ Stores!ConfigMapCreate(c) \/ Stores!ConfigMapUpdate(c) \/ Stores!ConfigMapDelete(c)
           \/ Stores!ConfigMapClean(c) \/ Stores!ConfigMapVersion(c) \/ Stores!ConfigMapRead(c)
    PROVE  GoesOn(c)
<1> PICK a : a = call[c].art
    OBVIOUS
<1> PICK i : i = a.id
    OBVIOUS
<1>1. /\ arts \subseteq Stores!Arts /\ vers \subseteq Rows /\ revs.arts \in Nat
    BY DEF StoreInv, StoreTyped
<1>2. CASE Stores!ConfigMapCreate(c)
    <2>1. /\ backend = "configmap" /\ call[c].pc = "run" /\ call[c].op = "create" /\ a \in Stores!Arts
          /\ UNCHANGED <<arts, vers, byName, shares, revs>>
        BY <1>2, RunIs DEF Stores!ConfigMapCreate
    <2>2. CASE revs.arts = 0
        <3>1. Stores!Go(c, [call[c] EXCEPT !.pc = "make"])
            BY <1>2, <2>2 DEF Stores!ConfigMapCreate
        <3> QED
            BY <2>1, <3>1, MakesLater
    <2>3. CASE revs.arts > 0 /\ Stores!Named(arts, NameOf[i]) # {}
        <3>1. Stores!Answer(c, "exists")
            BY <1>2, <2>1, <2>3 DEF Stores!ConfigMapCreate, Stores!Refusal
        <3>2. Stores!Refused("create", a, arts)
            BY <2>3 DEF Stores!Refused
        <3> QED
            BY <2>1, <3>1, <3>2, Refuses DEF Answers
    <2>4. CASE revs.arts > 0 /\ Stores!Named(arts, NameOf[i]) = {}
        <3>1. Stores!ToWrite(c, arts \cup {a})
            BY <1>2, <2>4 DEF Stores!ConfigMapCreate
        <3>2. ~Stores!Refused("create", a, arts) /\ arts \cup {a} = Stores!Applied("create", a, arts)
            BY <2>4, AppliedIs DEF Stores!Refused
        <3>3. arts \cup {a} \in SUBSET Rows
            BY <1>1, <2>1 DEF Rows
        <3> QED
            BY <2>1, <3>1, <3>2, <3>3, WritesLater DEF ArtOps
    <2> QED
        BY <1>1, <2>2, <2>3, <2>4
<1>3. CASE Stores!ConfigMapUpdate(c)
    <2>1. /\ backend = "configmap" /\ call[c].pc = "run" /\ call[c].op = "update" /\ a \in Stores!Arts
          /\ UNCHANGED <<arts, vers, byName, shares, revs>>
        BY <1>3, RunIs DEF Stores!ConfigMapUpdate
    <2>2. CASE revs.arts = 0
        <3>1. Stores!Answer(c, "error")
            BY <1>3, <2>2 DEF Stores!ConfigMapUpdate
        <3> QED
            BY <2>1, <3>1, Refuses DEF Answers
    <2>3. CASE revs.arts > 0 /\ Stores!WithId(arts, i) = {}
        <3>1. Stores!Answer(c, "missing")
            BY <1>3, <2>1, <2>3 DEF Stores!ConfigMapUpdate, Stores!Refusal
        <3>2. Stores!Refused("update", a, arts)
            BY <2>3 DEF Stores!Refused
        <3> QED
            BY <2>1, <3>1, <3>2, Refuses DEF Answers
    <2>4. CASE revs.arts > 0 /\ Stores!WithId(arts, i) # {}
        <3> PICK copy : copy = (arts \ Stores!WithId(arts, i)) \cup {a}
            OBVIOUS
        <3>1. Stores!ToWrite(c, copy)
            BY <1>3, <2>4 DEF Stores!ConfigMapUpdate
        <3>2. ~Stores!Refused("update", a, arts) /\ copy = Stores!Applied("update", a, arts)
            BY <2>4, AppliedIs DEF Stores!Refused
        <3>3. copy \in SUBSET Rows
            BY <1>1, <2>1 DEF Rows
        <3> QED
            BY <2>1, <3>1, <3>2, <3>3, WritesLater DEF ArtOps
    <2> QED
        BY <1>1, <2>2, <2>3, <2>4
<1>4. CASE Stores!ConfigMapDelete(c)
    <2>1. /\ backend = "configmap" /\ call[c].pc = "run" /\ call[c].op = "delete"
          /\ UNCHANGED <<arts, vers, byName, shares, revs>>
        BY <1>4, RunIs DEF Stores!ConfigMapDelete
    <2>2. CASE revs.arts = 0
        <3>1. Stores!Answer(c, "error")
            BY <1>4, <2>2 DEF Stores!ConfigMapDelete
        <3> QED
            BY <2>1, <3>1, Refuses DEF Answers
    <2>3. CASE revs.arts > 0 /\ Stores!WithId(arts, i) = {}
        <3>1. Stores!Answer(c, "missing")
            BY <1>4, <2>1, <2>3 DEF Stores!ConfigMapDelete, Stores!Refusal
        <3>2. Stores!Refused("delete", a, arts)
            BY <2>3 DEF Stores!Refused
        <3> QED
            BY <2>1, <3>1, <3>2, Refuses DEF Answers
    <2>4. CASE revs.arts > 0 /\ Stores!WithId(arts, i) # {}
        <3> PICK copy : copy = arts \ Stores!WithId(arts, i)
            OBVIOUS
        <3>1. Stores!ToWrite(c, copy)
            BY <1>4, <2>4 DEF Stores!ConfigMapDelete
        <3>2. ~Stores!Refused("delete", a, arts) /\ copy = Stores!Applied("delete", a, arts)
            BY <2>4, AppliedIs DEF Stores!Refused
        <3>3. copy \in SUBSET Rows
            BY <1>1 DEF Rows
        <3> QED
            BY <2>1, <3>1, <3>2, <3>3, WritesLater DEF ArtOps
    <2> QED
        BY <1>1, <2>2, <2>3, <2>4
<1>5. CASE Stores!ConfigMapClean(c)
    <2>1. /\ backend = "configmap" /\ call[c].pc = "run" /\ call[c].op = "clean"
          /\ UNCHANGED <<arts, vers, byName, shares, revs>>
        BY <1>5, RunIs DEF Stores!ConfigMapClean
    <2>2. CASE i \in vers
        <3>1. Stores!ToWrite(c, vers \ {i})
            BY <1>5, <2>2 DEF Stores!ConfigMapClean
        <3>2. vers \ {i} \in SUBSET Rows
            BY <1>1
        <3> QED
            BY <2>1, <3>1, <3>2, WritesLater
    <2>3. CASE i \notin vers
        <3>1. Stores!Answer(c, "ok")
            BY <1>5, <2>3 DEF Stores!ConfigMapClean
        <3> QED
            BY <2>1, <3>1, Refuses DEF Answers
    <2> QED
        BY <2>2, <2>3
<1>6. CASE Stores!ConfigMapVersion(c)
    <2>1. /\ backend = "configmap" /\ call[c].pc = "run" /\ call[c].op = "version" /\ a \in ArtRecs
          /\ UNCHANGED <<arts, vers, byName, shares, revs>>
        BY <1>6, RunIs DEF Stores!ConfigMapVersion
    <2>2. CASE revs.vers = 0
        <3>1. Stores!Go(c, [call[c] EXCEPT !.pc = "make"])
            BY <1>6, <2>2 DEF Stores!ConfigMapVersion
        <3> QED
            BY <2>1, <3>1, MakesLater
    <2>3. CASE revs.vers # 0
        <3>1. Stores!ToWrite(c, vers \cup {i})
            BY <1>6, <2>3 DEF Stores!ConfigMapVersion
        <3>2. vers \cup {i} \in SUBSET Rows
            BY <1>1, <2>1, ArtIs DEF Rows
        <3> QED
            BY <2>1, <3>1, <3>2, WritesLater
    <2> QED
        BY <2>2, <2>3
<1>7. CASE Stores!ConfigMapRead(c)
    <2> PICK u : u = call[c].user
        OBVIOUS
    <2> PICK found : found = CASE call[c].op = "get" -> Stores!WithId(arts, i)
                               [] call[c].op = "name" -> Stores!Named(arts, NameOf[i])
                               [] call[c].op = "list" -> Stores!VisibleTo(arts, u)
        OBVIOUS
    <2>1. call[c].op \in {"get", "name", "list"} /\ UNCHANGED <<arts, vers, byName, shares, revs>>
        BY <1>7, RunIs DEF Stores!ConfigMapRead
    <2>2. CASE Stores!Answer(c, "error")
        BY <2>1, <2>2, Refuses DEF Answers
    <2>3. CASE Stores!Go(c, Stores!Result("ok", found))
        <3>1. found = Stores!Found(call[c].op, a, u, arts)
            BY <2>1, FoundIs
        <3>2. found \subseteq Stores!Arts
            BY <1>1, <2>1, <3>1, FoundIs DEF Stores!WithId, Stores!Named, Stores!VisibleTo
        <3> QED
            BY <2>1, <2>3, <3>1, <3>2, Reads
    <2> QED
        BY <1>7, <2>2, <2>3 DEF Stores!ConfigMapRead
<1> QED
    BY <1>2, <1>3, <1>4, <1>5, <1>6, <1>7

\* getOrCreateConfigMap: the revision of a ConfigMap that is made is none that
\* another call has read.
LEMMA ConfigMapMakes ==
    ASSUME StoreInv, NEW c \in StoreClients, Stores!ConfigMapMake(c)
    PROVE  GoesOn(c)
<1> PICK r : r = call[c]
    OBVIOUS
<1> PICK m : m = Stores!Map(r.op)
    OBVIOUS
<1>1. /\ r \in StoreCalls /\ CallIs(r) /\ r.pc = "make" /\ revs \in [arts: Nat, vers: Nat]
      /\ arts \subseteq Stores!Arts /\ vers \subseteq Rows
      /\ byName \in [Stores!ArtifactNames -> Ids \cup {None}]
    BY DEF StoreInv, StoreTyped, Stores!ConfigMapMake
<1>2. /\ backend = "configmap" /\ r.op \in {"create", "version"} /\ r.art \in ArtRecs
      /\ r.op = "create" => r.art \in Stores!Arts
      /\ m = IF r.op = "create" THEN "arts" ELSE "vers"
    BY <1>1 DEF CallIs, Stores!Map
<1>3. UNCHANGED <<arts, vers, byName, shares>>
    BY DEF Stores!ConfigMapMake
<1>4. CASE revs[m] # 0
    <2>1. Stores!Answer(c, "error") /\ revs' = revs
        BY <1>4 DEF Stores!ConfigMapMake
    <2> QED
        BY <1>3, <2>1, Refuses DEF Answers
<1>5. CASE revs[m] = 0
    <2> PICK copy : copy = {IF m = "arts" THEN r.art ELSE r.art.id}
        OBVIOUS
    <2> PICK s : s = [r EXCEPT !.pc = "write", !.rev = 1, !.copy = copy]
        OBVIOUS
    <2>1. revs' = [revs EXCEPT ![m] = 1] /\ Stores!Go(c, s) /\ backend' = backend
        BY <1>5 DEF Stores!ConfigMapMake, Stores!Go
    <2>2. copy \in SUBSET Rows
        BY <1>2, ArtIs DEF Rows
    <2>3. /\ s.pc = "write" /\ s.op = r.op /\ s.art = r.art /\ s.user = r.user /\ s.copy = copy
          /\ s.rev = 1
        BY <1>1 DEF StoreCalls
    <2>4. s \in StoreCalls
        BY <1>1, <2>2 DEF StoreCalls
    <2>5. /\ revs' \in [arts: Nat, vers: Nat]
          /\ r.op = "create" => revs.arts = 0 /\ revs'.arts = 1
          /\ r.op = "version" => revs'.arts = revs.arts
        BY <1>1, <1>2, <1>5, <2>1
    <2>6. r.op = "create" => arts = {} /\ arts' = {}
        BY <1>2, <1>3, <2>5 DEF StoreInv, IndexOk
    <2>7. r.op = "create" => /\ ~Stores!Refused(r.op, r.art, {})
                             /\ copy = Stores!Applied(r.op, r.art, {})
        BY <1>2, AppliedIs DEF Stores!Refused, Stores!Named
    <2>8. CallIs(s)'
        <3>1. /\ s.op \in Stores!Writes \cup Stores!Reads
              /\ s.op # "list" => s.art \in ArtRecs
              /\ s.op = "list" => s.user \in StoreOwners
              /\ s.op \in {"create", "update"} => s.art \in Stores!Arts
            BY <1>1, <2>3 DEF CallIs
        <3>2. backend' = "configmap" /\ s.op \in ArtOps \cup {"version", "clean"}
            BY <1>2, <2>1, <2>3 DEF ArtOps
        <3>3. s.op \in ArtOps => /\ s.rev <= revs'.arts /\ ~Stores!Refused(s.op, s.art, arts')
                                 /\ s.copy = Stores!Applied(s.op, s.art, arts')
            BY <1>2, <2>3, <2>5, <2>6, <2>7 DEF ArtOps
        <3> QED
            BY <2>3, <3>1, <3>2, <3>3 DEF CallIs
    <2>9. IndexOk'
        BY <1>2, <1>3, <2>1, <2>5, <2>6 DEF StoreInv, IndexOk
    <2>10. /\ StoreInv' /\ call'[c] = s
           /\ \A d \in StoreClients \ {c} : call'[d] = call[d]
        <3>1. (arts' = arts /\ revs'.arts = revs.arts) \/ revs'.arts > revs.arts
            BY <1>2, <1>3, <2>5
        <3> QED
            BY <1>1, <1>3, <2>1, <2>4, <2>5, <2>8, <2>9, <3>1, OthersWait
    <2>11. Atomic(call[c], s)
        BY <1>3, <2>3 DEF Atomic
    <2> QED
        BY <2>10, <2>11 DEF GoesOn
<1> QED
    BY <1>4, <1>5

\* The Update takes effect: it is of the revision that was read, so the copy is
\* what the call makes of the artifacts there are.
LEMMA CopyIsStored ==
    ASSUME StoreInv, NEW c \in StoreClients, call[c].pc = "write",
           call[c].rev = revs[Stores!Map(call[c].op)], Stores!Stored(c),
           UNCHANGED <<byName, shares>>,
           NEW s \in StoreCalls, Stores!Go(c, s), CallIs(s)',
           s.pc = "done" => s.answer \in {"ok", "error"}
    PROVE  GoesOn(c)
<1> PICK r : r = call[c]
    OBVIOUS
<1> PICK m : m = Stores!Map(r.op)
    OBVIOUS
<1>1. /\ r \in StoreCalls /\ CallIs(r) /\ r.pc = "write" /\ revs \in [arts: Nat, vers: Nat]
      /\ arts \subseteq Stores!Arts /\ vers \subseteq Rows
      /\ byName \in [Stores!ArtifactNames -> Ids \cup {None}]
    BY DEF StoreInv, StoreTyped
<1>2. /\ backend = "configmap" /\ r.op \in ArtOps \cup {"version", "clean"} /\ backend' = backend
      /\ r.op \in {"create", "update"} => r.art \in Stores!Arts
      /\ m = IF r.op \in ArtOps THEN "arts" ELSE "vers"
    BY <1>1 DEF CallIs, Stores!Map, ArtOps, Stores!Go
<1>3. /\ arts' = IF m = "arts" THEN r.copy ELSE arts
      /\ vers' = IF m = "vers" THEN r.copy ELSE vers
      /\ revs' = [revs EXCEPT ![m] = revs[m] + 1]
    BY DEF Stores!Stored
<1>4. /\ revs' \in [arts: Nat, vers: Nat] /\ revs.arts \in Nat
      /\ r.op \in ArtOps => revs'.arts = revs.arts + 1
      /\ r.op \notin ArtOps => revs'.arts = revs.arts
    BY <1>1, <1>2, <1>3
<1>5. r.op \in ArtOps => /\ ~Stores!Refused(r.op, r.art, arts)
                         /\ arts' = Stores!Applied(r.op, r.art, arts)
    BY <1>1, <1>2, <1>3 DEF CallIs
<1>6. r.op \notin ArtOps => arts' = arts
    BY <1>2, <1>3
<1>7. arts' \subseteq Stores!Arts
    BY <1>1, <1>2, <1>5, <1>6, AppliedIs DEF ArtOps
<1>8. vers' \subseteq Rows
    BY <1>1, <1>3 DEF StoreCalls
<1>9. IndexOk'
    <2>1. backend = "configmap" => (revs.arts = 0 => arts = {})
        BY DEF StoreInv, IndexOk
    <2> QED
        BY <1>2, <1>4, <1>6, <2>1 DEF IndexOk
<1>10. /\ StoreInv' /\ call'[c] = s
       /\ \A d \in StoreClients \ {c} : call'[d] = call[d]
    <2>1. (arts' = arts /\ revs'.arts = revs.arts) \/ revs'.arts > revs.arts
        BY <1>4, <1>6
    <2> QED
        BY <1>1, <1>4, <1>7, <1>8, <1>9, <2>1, OthersWait
<1>11. r.op \in {"create", "update"} => r.art \in arts'
    BY <1>5, AppliedIs DEF ArtOps
<1>12. r.op \notin {"get", "name", "list"}
    BY <1>2 DEF ArtOps
<1>13. Atomic(call[c], s)
    BY <1>5, <1>6, <1>11, <1>12 DEF Atomic
<1> QED
    BY <1>10, <1>13 DEF GoesOn

\* The record of a call that begins.
IsRun(s, op, art, u) ==
    s = [pc |-> "run", op |-> op, art |-> art, user |-> u, copy |-> {}, rev |-> 0,
         tries |-> 0, answer |-> None, found |-> {}]

\* ... has its shape.
LEMMA RunRecord ==
    ASSUME NEW op \in Stores!Writes \cup Stores!Reads, NEW art \in ArtRecs \cup {None},
           NEW u \in StoreOwners \cup {None}, NEW s, IsRun(s, op, art, u)
    PROVE  s \in StoreCalls /\ s.pc = "run" /\ s.op = op /\ s.art = art /\ s.user = u
BY DEF IsRun, StoreCalls, Answers

\* updateConfigMap: full, stored, lost after it was stored, a conflict to retry or
\* the last one.
LEMMA ConfigMapWrites ==
    ASSUME StoreInv, NEW c \in StoreClients, Stores!ConfigMapWrite(c)
    PROVE  GoesOn(c)
<1> PICK r : r = call[c]
    OBVIOUS
<1>1. r \in StoreCalls /\ CallIs(r) /\ r.pc = "write" /\ UNCHANGED <<byName, shares>>
    BY DEF StoreInv, StoreTyped, Stores!ConfigMapWrite
<1>2. CASE (Stores!Answer(c, "full") \/ Stores!Answer(c, "conflict")) /\ UNCHANGED <<arts, vers, revs>>
    BY <1>1, <1>2, Refuses DEF Answers
<1>3. CASE r.rev = revs[Stores!Map(r.op)] /\ Stores!Stored(c)
           /\ (Stores!Answer(c, "ok") \/ Stores!Answer(c, "error"))
    <2>1. PICK s \in StoreCalls :
            Stores!Go(c, s) /\ s.pc = "done" /\ CallIs(s)' /\ s.answer \in {"ok", "error"}
        BY <1>3, Returns DEF Answers
    <2> QED
        BY <1>1, <1>3, <2>1, CopyIsStored
<1>4. CASE r.rev = revs[Stores!Map(r.op)] /\ Stores!Stored(c) /\ Stores!Succeed(c) /\ r.op = "delete"
    <2>1. PICK s : s = [Stores!Idle EXCEPT !.pc = "run", !.op = "clean", !.art = r.art]
        OBVIOUS
    <2>2. Stores!Go(c, s)
        BY <1>4, <2>1 DEF Stores!Succeed
    <2>3. r.art \in ArtRecs
        BY <1>1, <1>4 DEF CallIs
    <2>4. s \in StoreCalls /\ s.pc = "run" /\ s.op = "clean" /\ s.art = r.art
        <3>1. PICK op : op = "clean"
            OBVIOUS
        <3>2. PICK a : a = r.art
            OBVIOUS
        <3>3. IsRun(s, op, a, None)
            BY <2>1, <3>1, <3>2 DEF Stores!Idle, IsRun
        <3>4. op \in Stores!Writes \cup Stores!Reads
            BY <3>1 DEF Stores!Writes
        <3>5. a \in ArtRecs \cup {None} /\ None \in StoreOwners \cup {None}
            BY <2>3, <3>2
        <3>6. s \in StoreCalls /\ s.pc = "run" /\ s.op = op /\ s.art = a
            BY <3>3, <3>4, <3>5, RunRecord
        <3> QED
            BY <3>1, <3>2, <3>6
    <2>5. CallIs(s)'
        BY <2>3, <2>4 DEF CallIs, Stores!Writes
    <2> QED
        BY <1>1, <1>4, <2>2, <2>4, <2>5, CopyIsStored
<1>5. CASE /\ Stores!Go(c, [r EXCEPT !.pc = "run", !.tries = @ + 1, !.copy = {}, !.rev = 0])
           /\ UNCHANGED <<arts, vers, revs>>
    <2> PICK t : t = r.tries + 1
        OBVIOUS
    <2> PICK s : s = [r EXCEPT !.pc = "run", !.tries = t, !.copy = {}, !.rev = 0]
        OBVIOUS
    <2>1. Stores!Go(c, s) /\ backend' = backend
        BY <1>5 DEF Stores!Go
    <2>2. t \in Nat
        BY <1>1 DEF StoreCalls
    <2>3. s.pc = "run" /\ s.op = r.op /\ s.art = r.art /\ s.user = r.user
        BY <1>1 DEF StoreCalls
    <2>4. s \in StoreCalls
        BY <1>1, <2>2 DEF StoreCalls
    <2>5. CallIs(s)' /\ IndexOk'
        BY <1>1, <1>5, <2>1, <2>3 DEF CallIs, StoreInv, IndexOk
    <2>6. /\ arts' \subseteq Stores!Arts /\ vers' \subseteq Rows
          /\ byName' \in [Stores!ArtifactNames -> Ids \cup {None}]
          /\ revs' \in [arts: Nat, vers: Nat]
        BY <1>1, <1>5 DEF StoreInv, StoreTyped
    <2>7. /\ StoreInv' /\ call'[c] = s
          /\ \A d \in StoreClients \ {c} : call'[d] = call[d]
        BY <1>5, <2>1, <2>4, <2>5, <2>6, OthersWait
    <2>8. Atomic(call[c], s)
        BY <1>5, <2>3 DEF Atomic
    <2> QED
        BY <2>7, <2>8 DEF GoesOn
<1> QED
    BY <1>2, <1>3, <1>4, <1>5 DEF Stores!ConfigMapWrite, Stores!Succeed

\* A call begins.
LEMMA CallBegins ==
    ASSUME StoreInv, NEW c \in StoreClients, NEW op, NEW art, NEW u, Stores!Begin(c, op, art, u),
           \/ op \in {"create", "update"} /\ art \in Stores!Arts /\ u = None
           \/ /\ op \in {"delete", "version", "get", "name", "versions"} /\ art \in ArtRecs
              /\ u = None
           \/ op = "list" /\ art = None /\ u \in StoreOwners
    PROVE  GoesOn(c)
<1> PICK s : s = [Stores!Idle EXCEPT !.pc = "run", !.op = op, !.art = art, !.user = u]
    OBVIOUS
<1>1. IsRun(s, op, art, u)
    BY DEF Stores!Idle, IsRun
<1>2. art \in ArtRecs \cup {None} /\ (art \in Stores!Arts => art \in ArtRecs)
    BY DEF Stores!Arts, ArtRecs
<1>3. op \in Stores!Writes \cup Stores!Reads
    BY DEF Stores!Writes, Stores!Reads
<1>4. s \in StoreCalls /\ s.pc = "run" /\ s.op = op /\ s.art = art /\ s.user = u
    <2>1. u \in StoreOwners \cup {None}
        OBVIOUS
    <2> QED
        BY <1>1, <1>2, <1>3, <2>1, RunRecord
<1>5. /\ call' = [call EXCEPT ![c] = s] /\ UNCHANGED <<backend, arts, vers, byName, shares, revs>>
    BY DEF Stores!Begin
<1>6. CallIs(s)
    BY <1>2, <1>3, <1>4 DEF CallIs
<1>7. /\ call' \in [StoreClients -> StoreCalls] /\ call'[c] = s
      /\ \A d \in StoreClients \ {c} : call'[d] = call[d]
    BY <1>4, <1>5 DEF StoreInv, StoreTyped
<1>8. StoreTyped' /\ IndexOk'
    BY <1>5, <1>7 DEF StoreInv, StoreTyped, IndexOk
<1>9. ASSUME NEW d \in StoreClients PROVE CallIs(call[d])'
    <2>1. PICK x : x = call'[d]
        OBVIOUS
    <2>2. CallIs(x)
        BY <1>6, <1>7, <2>1 DEF StoreInv
    <2> QED
        BY <1>5, <2>1, <2>2 DEF CallIs
<1>10. Atomic(call[c], s)
    BY <1>4, <1>5 DEF Atomic
<1> QED
    BY <1>7, <1>8, <1>9, <1>10 DEF GoesOn, StoreInv

\* Nothing is stored and nobody has called.
LEMMA StoreInit ==
    ASSUME Stores!Init PROVE StoreInv
<1> PICK s : s = Stores!Idle
    OBVIOUS
<1>1. s \in StoreCalls /\ s.pc = "idle"
    BY DEF Stores!Idle, StoreCalls, Answers
<1>2. call = [c \in StoreClients |-> s]
    BY DEF Stores!Init
<1>3. StoreTyped
    BY <1>1, <1>2 DEF Stores!Init, StoreTyped
<1>4. IndexOk
    BY DEF Stores!Init, IndexOk
<1>5. ASSUME NEW c \in StoreClients PROVE CallIs(call[c])
    BY <1>1, <1>2 DEF CallIs
<1> QED
    BY <1>3, <1>4, <1>5 DEF StoreInv

\* Every step of a store is one call that goes on.
LEMMA StoreStep ==
    ASSUME StoreInv, Stores!Next PROVE \E c \in StoreClients : GoesOn(c)
<1>1. PICK c \in StoreClients :
        \/ \E art \in Stores!Arts, op \in {"create", "update"} : Stores!Begin(c, op, art, None)
        \/ \E i \in Ids, op \in {"delete", "version", "get", "name", "versions"} :
              Stores!Begin(c, op, [id |-> i, shared |-> {}], None)
        \/ \E u \in StoreOwners : Stores!Begin(c, "list", None, u)
        \/ Stores!Memory(c) \/ Stores!Sqlite(c) \/ Stores!ConfigMap(c) \/ Stores!ReadVersions(c)
    BY DEF Stores!Next
<1>2. ASSUME NEW art \in Stores!Arts, NEW op \in {"create", "update"}, Stores!Begin(c, op, art, None)
      PROVE  GoesOn(c)
    BY <1>2, CallBegins
<1>3. ASSUME NEW i \in Ids, NEW op \in {"delete", "version", "get", "name", "versions"},
             Stores!Begin(c, op, [id |-> i, shared |-> {}], None)
      PROVE  GoesOn(c)
    <2>1. [id |-> i, shared |-> {}] \in ArtRecs
        BY DEF ArtRecs
    <2> QED
        BY <1>3, <2>1, CallBegins
<1>4. ASSUME NEW u \in StoreOwners, Stores!Begin(c, "list", None, u) PROVE GoesOn(c)
    BY <1>4, CallBegins
<1>5. CASE Stores!Memory(c)
    BY <1>5, MemoryGoesOn
<1>6. CASE Stores!Sqlite(c)
    BY <1>6, SqliteGoesOn
<1>7. CASE Stores!ConfigMap(c)
    BY <1>7, ConfigMapReads, ConfigMapMakes, ConfigMapWrites DEF Stores!ConfigMap
<1>8. CASE Stores!ReadVersions(c)
    <2>1. /\ call[c].op = "versions" /\ Stores!Go(c, Stores!Result("ok", {}))
          /\ UNCHANGED <<arts, vers, byName, shares, revs>>
        BY <1>8 DEF Stores!ReadVersions
    <2>2. {} \in SUBSET Stores!Arts
        OBVIOUS
    <2> QED
        BY <2>1, <2>2, Reads
<1> QED
    BY <1>1, <1>2, <1>3, <1>4, <1>5, <1>6, <1>7, <1>8

\* A call that goes on, with all the others waiting, is what the property asks.
LEMMA GoesOnIsAtomic ==
    ASSUME NEW c \in StoreClients, GoesOn(c)
    PROVE  /\ arts' # arts =>
                 \E d \in StoreClients : LET r == call[d] IN
                    /\ r.op \in {"create", "update", "delete"} /\ ~Stores!Refused(r.op, r.art, arts)
                    /\ arts' = Stores!Applied(r.op, r.art, arts)
           /\ \A d \in StoreClients : LET r == call[d] IN
                 r.pc # "done" /\ call'[d].pc = "done" =>
                    /\ call'[d].answer \in {"exists", "missing"} => Stores!Refused(r.op, r.art, arts)
                    /\ call'[d].answer = "ok" /\ r.op \in {"create", "update"} => r.art \in arts'
                    /\ call'[d].answer = "ok" /\ r.op \in {"get", "name", "list"}
                          => call'[d].found = Stores!Found(r.op, r.art, r.user, arts)
BY DEF GoesOn, Atomic, ArtOps

\* ArtifactStores (src/internal/store): for any clients, artifacts, owners and
\* number of retries, each of the three backends is one atomic store; the
\* ConfigMaps' read-modify-write cycles lose no artifact, across replicas too.
THEOREM StoresAreAtomic == EdgeSpec => StoreIsAtomic
<1>1. EdgeInit => StoreInv
    BY StoreInit DEF EdgeInit
<1>2. StoreInv /\ [EdgeNext]_allVars => StoreInv'
    <2> SUFFICES ASSUME StoreInv, [EdgeNext]_allVars PROVE StoreInv'
        OBVIOUS
    <2>1. CASE Stores!Next
        BY <2>1, StoreStep DEF GoesOn
    <2>2. CASE UNCHANGED storeVars
        <3>1. StoreTyped' /\ IndexOk'
            BY <2>2 DEF storeVars, StoreInv, StoreTyped, IndexOk
        <3>2. ASSUME NEW c \in StoreClients PROVE CallIs(call[c])'
            <4>1. CallIs(call[c])
                BY DEF StoreInv
            <4> QED
                BY <2>2, <4>1 DEF storeVars, CallIs
        <3> QED
            BY <3>1, <3>2 DEF StoreInv
    <2> QED
        BY <2>1, <2>2, StepOfOnePart
<1>3. ASSUME StoreInv, [EdgeNext]_allVars
      PROVE  [/\ arts' # arts =>
                    \E c \in StoreClients : LET r == call[c] IN
                       /\ r.op \in {"create", "update", "delete"} /\ ~Stores!Refused(r.op, r.art, arts)
                       /\ arts' = Stores!Applied(r.op, r.art, arts)
              /\ \A c \in StoreClients : LET r == call[c] IN
                    r.pc # "done" /\ call'[c].pc = "done" =>
                       /\ call'[c].answer \in {"exists", "missing"} => Stores!Refused(r.op, r.art, arts)
                       /\ call'[c].answer = "ok" /\ r.op \in {"create", "update"} => r.art \in arts'
                       /\ call'[c].answer = "ok" /\ r.op \in {"get", "name", "list"}
                             => call'[c].found = Stores!Found(r.op, r.art, r.user, arts)]_Stores!vars
    <2>1. CASE Stores!Next
        BY <1>3, <2>1, StoreStep, GoesOnIsAtomic
    <2>2. CASE UNCHANGED storeVars
        BY <2>2 DEF storeVars, Stores!vars
    <2> QED
        BY <1>3, <2>1, <2>2, StepOfOnePart
<1> QED
    BY <1>1, <1>2, <1>3, PTL DEF EdgeSpec, StoreIsAtomic, Stores!StoreIsAtomic
=============================================================================
