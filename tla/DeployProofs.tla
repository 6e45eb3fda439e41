---------------------------- MODULE DeployProofs ----------------------------
(***************************************************************************)
(* Proofs about the deploy service: the sources of the retained versions   *)
(* stay in the store, versions grow, nobody takes an app over, and share   *)
(* links follow the app they were made for, for any number of concurrent   *)
(* requests and any history length.                                        *)
(*                                                                         *)
(* The argument is about who may still delete a key.  A key is private to  *)
(* the request that stored it until the app refers to it, and the keys     *)
(* that a request is about to delete are ones the app has stopped          *)
(* referring to and no later write can bring back: a write succeeds only   *)
(* on the copy it was computed from, and the newest version of a copy      *)
(* tells which history it is a copy of.                                    *)
(***************************************************************************)
EXTENDS DeployService, SequenceTheorems, TLAPS

Ascending(h) == \A i, j \in DOMAIN h : i < j => h[i].version < h[j].version

Latest(h) == h[Len(h)].version

Newer(h, g) == \A i \in DOMAIN h : h[i].version < Latest(g)

\* The app's source is that of a retained version.
Sound(a) == a.ref \in Keys(a.history) /\ Ascending(a.history)

\* s is a copy of the app a, or of what it was.
Behind(s, a) ==
    s.uid = a.uid =>
        /\ Latest(s.history) <= Latest(a.history)
        /\ Latest(s.history) = Latest(a.history) => s.history = a.history

\* The keys a request refers to.
Held(c) == Keys(History(c.seen)) \cup Keys(History(c.want)) \cup c.drop

\* A stored key that only the write of request r will refer to.
Private(r, k) ==
    /\ k \in blobs
    /\ k \notin Keys(History(app))
    /\ k \notin Keys(History(req[r].seen))
    /\ \A q \in Requests \ {r} : k \notin Held(req[q])

\* The app does not refer to the keys.
Spared(keys) == app # None /\ ~unsourced => keys \cap Keys(app.history) = {}

\* w may replace s, after which the keys of d are no longer needed.
Replaces(s, w, d) ==
    /\ s # None /\ w # None
    /\ w.uid = s.uid /\ (w.owner = s.owner \/ w.owner \in Admins)
    /\ Sound(w)
    /\ Keys(w.history) \subseteq Keys(s.history) \cup {w.ref}
    /\ d \subseteq Keys(s.history) \ Keys(w.history)
    /\ w.history = s.history \/ Newer(s.history, w.history)

\* What a request relies on at each stage.
PutStage(c) ==
    c.pc = "put" =>
        /\ c.owner \in Owners
        /\ c.seen # None => c.owner = c.seen.owner \/ c.owner \in Admins

CreateStage(r, c) ==
    c.pc = "create" =>
        /\ c.seen = None /\ c.want # None /\ Ascending(c.want.history)
        /\ Keys(c.want.history) = {c.want.ref} /\ c.drop = {c.want.ref}
        /\ Private(r, c.want.ref)

UpdateStage(r, c) ==
    c.pc = "update" =>
        /\ Replaces(c.seen, c.want, c.drop)
        /\ c.want.ref \in Keys(c.seen.history) \/ Private(r, c.want.ref)

DropStage(c) == c.pc \in {"undo", "evict", "revoke", "clean"} => Spared(c.drop)

InsertStage(c) == c.pc = "insert" => c.seen # None

Stage(r, c) ==
    /\ PutStage(c) /\ CreateStage(r, c) /\ UpdateStage(r, c) /\ DropStage(c) /\ InsertStage(c)

\* The copy a request holds.
Copy(c) ==
    c.seen # None =>
        /\ c.seen.uid <= lastUid /\ Sound(c.seen)
        /\ app # None => Behind(c.seen, app)

\* The inductive invariant.
AppInv ==
    /\ app # None => app.uid <= lastUid /\ Sound(app)
    /\ Keys(History(app)) \subseteq 1..lastKey

RequestInv ==
    \A r \in Requests :
        Copy(req[r]) /\ Held(req[r]) \subseteq 1..lastKey /\ Stage(r, req[r])

DeployInv == TypeOK /\ AppInv /\ RequestInv /\ RetainedSourcesStored

-----------------------------------------------------------------------------
(* Histories.                                                              *)

Histories == UNION {[1..n -> Records] : n \in 1..maxVersions}

\* A history is a non-empty sequence of at most maxVersions records.
LEMMA HistoryIsSeq ==
    ASSUME NEW h \in Histories
    PROVE  /\ h \in Seq(Records) /\ Len(h) \in 1..maxVersions
           /\ DOMAIN h = 1..Len(h)
<1>1. PICK n \in 1..maxVersions : h \in [1..n -> Records]
    BY DEF Histories
<1>2. n \in Nat
    BY <1>1, DeployAssumption
<1>3. h \in Seq(Records) /\ Len(h) = n
    BY <1>1, <1>2
<1> QED BY <1>1, <1>3

\* A bounded, non-empty sequence of records is a history.
LEMMA SeqIsHistory ==
    ASSUME NEW h \in Seq(Records), Len(h) \in 1..maxVersions
    PROVE  h \in Histories
<1>1. h \in [1..Len(h) -> Records]
    BY LenProperties
<1> QED BY <1>1 DEF Histories

\* The keys of a history are its records' keys.
LEMMA KeysOf ==
    ASSUME NEW h \in Seq(Records)
    PROVE  /\ \A k : k \in Keys(h) <=> \E i \in 1..Len(h) : k = h[i].key
           /\ Keys(h) \subseteq 1..MaxKeys
<1>1. DOMAIN h = 1..Len(h) /\ \A i \in 1..Len(h) : h[i] \in Records
    BY LenProperties
<1> QED BY <1>1 DEF Keys, Records

\* No record retains no source.
LEMMA NoKeys == Keys(<<>>) = {} /\ <<>> \in Seq(Records) /\ Len(<<>>) = 0 /\ Ascending(<<>>)
<1>1. <<>> \in Seq(Records) /\ Len(<<>>) = 0
    BY EmptySeq
<1>2. DOMAIN <<>> = {}
    BY <1>1, LenProperties
<1> QED BY <1>1, <1>2 DEF Keys, Ascending

\* nextVersion is above every version of an ascending history.
LEMMA NextIsAbove ==
    ASSUME NEW h \in Seq(Records), Ascending(h)
    PROVE  /\ nextVersion(h) \in Nat \ {0}
           /\ \A i \in 1..Len(h) : h[i].version < nextVersion(h)
<1> DEFINE V == {h[i].version : i \in DOMAIN h}
           top == IF Len(h) = 0 THEN 0 ELSE h[Len(h)].version
<1>1. Len(h) \in Nat /\ DOMAIN h = 1..Len(h) /\ \A i \in 1..Len(h) : h[i] \in Records
    BY LenProperties
<1>2. \A i \in 1..Len(h) : h[i].version \in Nat \ {0}
    BY <1>1, DeployAssumption DEF Records
<1>3. top \in {0} \cup V /\ top \in Nat
    BY <1>1, <1>2
<1>4. \A i \in 1..Len(h) : h[i].version <= top
    <2> TAKE i \in 1..Len(h)
    <2>1. \A a \in Nat : \A b \in 1..a : b = a \/ b < a
        OBVIOUS
    <2>2. i = Len(h) \/ i < Len(h)
        BY <1>1, <2>1
    <2>3. Len(h) \in DOMAIN h /\ i \in DOMAIN h /\ Len(h) # 0
        BY <1>1
    <2>4. i < Len(h) => h[i].version < h[Len(h)].version
        BY <2>3 DEF Ascending
    <2> QED BY <1>2, <2>2, <2>3, <2>4, <1>1
<1>5. \A v \in {0} \cup V : v \in Nat /\ top >= v
    BY <1>1, <1>2, <1>3, <1>4
<1> HIDE DEF V, top
<1>6. \E x \in {0} \cup V : \A y \in {0} \cup V : x >= y
    BY <1>3, <1>5
<1>7. /\ Max({0} \cup V) \in {0} \cup V
      /\ \A y \in {0} \cup V : Max({0} \cup V) >= y
    BY <1>6 DEF Max
<1>8. Max({0} \cup V) \in Nat
    BY <1>5, <1>7
<1>9. nextVersion(h) = 1 + Max({0} \cup V)
    BY DEF nextVersion, V
<1>10. \A i \in 1..Len(h) : h[i].version \in V
    BY <1>1 DEF V
<1>11. \A i \in 1..Len(h) : Max({0} \cup V) >= h[i].version
    BY <1>7, <1>10
<1>12. \A m \in Nat : \A v \in Nat : m >= v => v < 1 + m
    OBVIOUS
<1>13. nextVersion(h) \in Nat \ {0}
    BY <1>8, <1>9
<1> QED BY <1>2, <1>8, <1>9, <1>11, <1>12, <1>13

\* What appendCapped leaves: all but the oldest record when there are too many,
\* the new record last.
LEMMA KeptRecords ==
    ASSUME NEW h \in Seq(Records), Len(h) <= maxVersions, NEW e \in Records
    PROVE  LET g == Kept(Append(h, e)) IN
           /\ g \in Histories
           /\ g[Len(g)] = e
           /\ \A i \in 1..Len(g) - 1 :
                 \E j \in 1..Len(h) : g[i] = h[j] /\ j = i + (Len(h) - (Len(g) - 1))
           /\ Len(g) - 1 <= Len(h)
           /\ Keys(Dropped(Append(h, e))) \subseteq Keys(h)
<1> DEFINE all == Append(h, e)
           g == Kept(all)
<1>1. Len(h) \in Nat /\ maxVersions \in Nat \ {0}
    BY LenProperties, DeployAssumption
<1>2. /\ all \in Seq(Records) /\ Len(all) = Len(h) + 1
      /\ \A i \in 1..Len(h) : all[i] = h[i]
      /\ all[Len(h) + 1] = e
    BY AppendProperties
<1>3. \A i \in 1..Len(h) + 1 : all[i] \in Records
    BY <1>2, ElementOfSeq
<1> HIDE DEF all
<1>4. CASE Len(all) <= maxVersions
    <2>1. g = all /\ Len(g) = Len(h) + 1
        BY <1>2, <1>4 DEF Kept
    <2>2. Len(g) \in 1..maxVersions
        BY <1>1, <1>2, <1>4, <2>1
    <2>3. g \in Histories
        BY <1>2, <2>1, <2>2, SeqIsHistory
    <2>4. Dropped(all) = <<>>
        <3>1. Len(all) - maxVersions \in Int /\ Len(all) - maxVersions < 1
            BY <1>1, <1>2, <1>4
        <3> QED BY <3>1, SubSeqEmpty DEF Dropped
    <2>5. \A i \in 1..Len(g) - 1 : i \in 1..Len(h) /\ g[i] = h[i] /\ i = i + (Len(h) - (Len(g) - 1))
        BY <1>1, <1>2, <2>1
    <2>6. Len(g) - 1 <= Len(h)
        BY <1>1, <2>1
    <2>7. g[Len(g)] = e
        BY <1>2, <2>1
    <2> HIDE DEF g
    <2>8. Keys(Dropped(all)) \subseteq Keys(h)
        BY <2>4, NoKeys
    <2> QED BY <2>3, <2>5, <2>6, <2>7, <2>8 DEF all, g
<1>5. CASE ~(Len(all) <= maxVersions)
    <2>1. Len(h) = maxVersions /\ Len(all) = maxVersions + 1
        BY <1>1, <1>2, <1>5
    <2>2. g = SubSeq(all, 2, Len(h) + 1)
        <3>1. Len(all) - maxVersions + 1 = 2
            BY <1>1, <2>1
        <3> QED BY <1>2, <1>5, <3>1 DEF Kept
    <2>3. Dropped(all) = SubSeq(all, 1, 1)
        <3>1. Len(all) - maxVersions = 1
            BY <1>1, <2>1
        <3> QED BY <3>1 DEF Dropped
    <2>4. \A i \in 2..Len(h) + 1 : all[i] \in Records
        BY <1>1, <1>3
    <2>5. Len(h) + 1 \in Int /\ 2 \in Int /\ 2 <= Len(h) + 1 /\ Len(h) + 1 - 2 + 1 = Len(h)
        BY <1>1, <2>1
    <2>6. /\ g \in Seq(Records) /\ Len(g) = Len(h) + 1 - 2 + 1
          /\ \A i \in 1..Len(h) + 1 - 2 + 1 : g[i] = all[2 + i - 1]
        <3> HIDE DEF g
        <3>1. /\ SubSeq(all, 2, Len(h) + 1) \in Seq(Records)
              /\ Len(SubSeq(all, 2, Len(h) + 1)) =
                    IF 2 <= Len(h) + 1 THEN Len(h) + 1 - 2 + 1 ELSE 0
              /\ \A i \in 1..Len(h) + 1 - 2 + 1 : SubSeq(all, 2, Len(h) + 1)[i] = all[2 + i - 1]
            BY <2>4, <2>5, SubSeqProperties
        <3> QED BY <2>2, <2>5, <3>1
    <2>7. /\ Len(g) = Len(h)
          /\ \A i \in 1..Len(h) : g[i] = all[2 + i - 1]
        BY <2>5, <2>6
    <2>8. \A i \in 1..Len(h) : 2 + i - 1 = i + 1
        BY <1>1
    <2> HIDE DEF g
    <2>9. \A i \in 1..Len(h) : g[i] = all[i + 1]
        BY <2>7, <2>8
    <2>10. g \in Histories
        <3>1. Len(g) \in 1..maxVersions
            BY <1>1, <2>1, <2>7
        <3> QED BY <2>6, <3>1, SeqIsHistory
    <2>11. g[Len(g)] = e
        <3>1. Len(h) \in 1..Len(h)
            BY <1>1, <2>1
        <3> QED BY <1>2, <2>7, <2>9, <3>1
    <2>12. \A i \in 1..Len(g) - 1 :
              \E j \in 1..Len(h) : g[i] = h[j] /\ j = i + (Len(h) - (Len(g) - 1))
        <3> TAKE i \in 1..Len(g) - 1
        <3>1. i \in 1..Len(h) /\ i + 1 \in 1..Len(h) /\ i + 1 = i + (Len(h) - (Len(g) - 1))
            BY <1>1, <2>7
        <3>2. g[i] = h[i + 1]
            BY <1>2, <2>9, <3>1
        <3> QED BY <3>1, <3>2
    <2>13. Len(g) - 1 <= Len(h)
        BY <1>1, <2>7
    <2>14. Keys(Dropped(all)) \subseteq Keys(h)
        <3>1. \A i \in 1..1 : all[i] \in Records
            BY <1>1, <1>3
        <3>2. /\ SubSeq(all, 1, 1) \in Seq(Records)
              /\ Len(SubSeq(all, 1, 1)) = IF 1 <= 1 THEN 1 - 1 + 1 ELSE 0
              /\ \A i \in 1..1 - 1 + 1 : SubSeq(all, 1, 1)[i] = all[1 + i - 1]
            BY <3>1, SubSeqProperties
        <3>3. /\ Len(SubSeq(all, 1, 1)) = 1
              /\ SubSeq(all, 1, 1)[1] = all[1]
            BY <3>2
        <3>4. 1 \in 1..Len(h) /\ all[1] = h[1]
            BY <1>1, <1>2, <2>1
        <3>5. \A i \in 1..1 : i = 1
            OBVIOUS
        <3>6. \A k \in Keys(SubSeq(all, 1, 1)) : k = h[1].key
            <4> DEFINE d == SubSeq(all, 1, 1)
            <4>1. d \in Seq(Records) /\ Len(d) = 1 /\ d[1] = h[1]
                BY <3>2, <3>3, <3>4
            <4> HIDE DEF d
            <4>2. \A k \in Keys(d) : \E i \in 1..1 : k = d[i].key
                BY <4>1, KeysOf
            <4>3. \A k \in Keys(d) : k = d[1].key
                BY <3>5, <4>2
            <4> QED BY <4>1, <4>3 DEF d
        <3> QED BY <2>3, <3>4, <3>6, KeysOf
    <2> QED BY <2>10, <2>11, <2>12, <2>13, <2>14 DEF all, g
<1> QED BY <1>4, <1>5

\* Extending an ascending history and capping it: the result ascends, its last
\* version is new, it holds the new key, and no key that it holds is evicted.
LEMMA ExtendedHistory ==
    ASSUME NEW h \in Seq(Records), Len(h) <= maxVersions, Ascending(h),
           NEW key \in 1..MaxKeys, nextVersion(h) <= MaxVersion
    PROVE  LET g == Kept(Extended(h, key)) IN
           /\ g \in Histories /\ Ascending(g) /\ Newer(h, g)
           /\ key \in Keys(g) /\ Keys(g) \subseteq Keys(h) \cup {key}
           /\ Evicted(Extended(h, key)) \subseteq Keys(h) \ Keys(g)
<1> DEFINE e == [version |-> nextVersion(h), key |-> key]
           g == Kept(Append(h, e))
<1>1. Len(h) \in Nat
    BY LenProperties
<1>2. /\ nextVersion(h) \in Nat \ {0}
      /\ \A i \in 1..Len(h) : h[i].version < nextVersion(h)
    BY NextIsAbove
<1>3. e \in Records /\ e.version = nextVersion(h) /\ e.key = key
    BY <1>2, DeployAssumption DEF Records
<1> HIDE DEF e
<1>4. /\ g \in Histories
      /\ g[Len(g)] = e
      /\ \A i \in 1..Len(g) - 1 :
            \E j \in 1..Len(h) : g[i] = h[j] /\ j = i + (Len(h) - (Len(g) - 1))
      /\ Len(g) - 1 <= Len(h)
      /\ Keys(Dropped(Append(h, e))) \subseteq Keys(h)
    BY <1>3, KeptRecords
<1> HIDE DEF g
<1>5. /\ g \in Seq(Records) /\ Len(g) \in 1..maxVersions /\ DOMAIN g = 1..Len(g)
      /\ Len(g) \in Nat /\ maxVersions \in Nat
    BY <1>4, HistoryIsSeq, LenProperties, DeployAssumption
<1>6. \A i \in 1..Len(g) : i = Len(g) \/ i \in 1..Len(g) - 1
    <2>1. \A n \in Nat : \A i \in 1..n : i = n \/ i \in 1..n - 1
        OBVIOUS
    <2> QED BY <1>5, <2>1
<1>7. Ascending(g)
    <2> SUFFICES ASSUME NEW i \in 1..Len(g), NEW j \in 1..Len(g), i < j
                 PROVE  g[i].version < g[j].version
        BY <1>5 DEF Ascending
    <2>1. i \in 1..Len(g) - 1
        BY <1>5
    <2>2. PICK m \in 1..Len(h) : g[i] = h[m] /\ m = i + (Len(h) - (Len(g) - 1))
        BY <1>4, <2>1
    <2>3. CASE j = Len(g)
        BY <1>2, <1>3, <1>4, <2>2, <2>3
    <2>4. CASE j \in 1..Len(g) - 1
        <3>1. PICK n \in 1..Len(h) : g[j] = h[n] /\ n = j + (Len(h) - (Len(g) - 1))
            BY <1>4, <2>4
        <3>2. m < n
            BY <1>1, <1>5, <2>2, <3>1
        <3>3. m \in DOMAIN h /\ n \in DOMAIN h
            BY LenProperties
        <3> QED BY <2>2, <3>1, <3>2, <3>3 DEF Ascending
    <2> QED BY <1>6, <2>3, <2>4
<1>8. Newer(h, g)
    BY <1>2, <1>3, <1>4, LenProperties DEF Newer, Latest
<1>9. key \in Keys(g)
    BY <1>3, <1>4, <1>5, KeysOf
<1>10. Keys(g) \subseteq Keys(h) \cup {key}
    <2> SUFFICES ASSUME NEW k \in Keys(g) PROVE k \in Keys(h) \cup {key}
        OBVIOUS
    <2>1. PICK i \in 1..Len(g) : k = g[i].key
        BY <1>5, KeysOf
    <2>2. CASE i = Len(g)
        BY <1>3, <1>4, <2>1, <2>2
    <2>3. CASE i \in 1..Len(g) - 1
        BY <1>4, <2>1, <2>3, KeysOf
    <2> QED BY <1>6, <2>2, <2>3
<1>11. Extended(h, key) = Append(h, e)
    BY DEF Extended, e
<1>12. Evicted(Append(h, e)) \subseteq Keys(h) \ Keys(g)
    BY <1>4 DEF Evicted, g
<1> QED BY <1>4, <1>7, <1>8, <1>9, <1>10, <1>11, <1>12 DEF g

-----------------------------------------------------------------------------
(* Copies of the app and the keys that requests hold.                      *)

\* An app that is there has its owner and its history.
LEMMA AppTyped ==
    ASSUME NEW a \in Apps
    PROVE  /\ a.uid \in 1..MaxUid /\ a.owner \in Owners /\ a.ref \in 1..MaxKeys
           /\ a.suspended \in BOOLEAN /\ a.history \in Histories
    BY DEF Apps, Histories

\* A history has a last version, which a newer history exceeds.
LEMMA LatestTyped ==
    ASSUME NEW h \in Histories
    PROVE  /\ Latest(h) \in Nat /\ Len(h) \in DOMAIN h
           /\ \A g : Newer(h, g) => Latest(h) < Latest(g)
<1>1. h \in Seq(Records) /\ Len(h) \in 1..maxVersions /\ DOMAIN h = 1..Len(h) /\ Len(h) \in Nat
    BY HistoryIsSeq, LenProperties
<1>2. Len(h) \in DOMAIN h /\ h[Len(h)] \in Records
    BY <1>1, ElementOfSeq
<1>3. h[Len(h)].version \in 1..MaxVersion
    BY <1>2 DEF Records
<1> QED BY <1>2, <1>3, DeployAssumption DEF Latest, Newer

\* A copy stays behind an app that keeps its history or gets a newer version.
LEMMA StaysBehind ==
    ASSUME NEW s \in Apps, NEW a \in Apps, NEW b \in Apps, Behind(s, a),
           b.uid = a.uid, b.history = a.history \/ Newer(a.history, b.history)
    PROVE  Behind(s, b)
<1>1. /\ Latest(s.history) \in Nat /\ Latest(a.history) \in Nat /\ Latest(b.history) \in Nat
      /\ Newer(a.history, b.history) => Latest(a.history) < Latest(b.history)
    BY AppTyped, LatestTyped
<1> QED BY <1>1 DEF Behind

\* What a request carries has its shape.
LEMMA CallTyped ==
    ASSUME NEW c \in Calls
    PROVE  /\ c.pc \in Pcs /\ c.owner \in Owners \cup {None}
           /\ c.seen \in Apps \cup {None} /\ c.want \in Apps \cup {None}
           /\ c.drop \subseteq 1..MaxKeys
    BY DEF Calls

\* An app that is there has a history, with a last version.
LEMMA HistoryOf ==
    ASSUME NEW a \in Apps \cup {None}
    PROVE  /\ a # None => a \in Apps /\ History(a) = a.history
           /\ a = None => History(a) = <<>> /\ Keys(History(a)) = {}
    BY NoKeys DEF History

\* An idle request holds nothing and relies on nothing.
LEMMA IdleStage ==
    ASSUME NEW r
    PROVE  /\ Idle \in Calls /\ Held(Idle) = {}
           /\ Stage(r, Idle) /\ Copy(Idle)
           /\ Stage(r, Idle)' /\ Copy(Idle)'
<1>1. Idle = [pc |-> "idle", owner |-> None, seen |-> None, want |-> None, drop |-> {}]
    BY DEF Idle
<1>2. Idle.pc = "idle" /\ Idle.seen = None /\ Idle.want = None /\ Idle.drop = {}
    BY <1>1
<1>3. Idle \in Calls
    BY <1>1 DEF Calls, Pcs
<1>4. Held(Idle) = {}
    BY <1>2, NoKeys DEF Held, History
<1>5. (Idle)' = Idle
    BY DEF Idle
<1> QED BY <1>2, <1>3, <1>4, <1>5 DEF Stage, PutStage, CreateStage, UpdateStage, DropStage,
           InsertStage, Copy

\* What a step of request r leaves to the other requests.  Its write, if any,
\* brings only keys of P, private to it, into the app; it may delete the keys it
\* had to drop; and what it goes on to hold, it held or read from the app, or is
\* the key it has just minted.
LEMMA OthersKept ==
    ASSUME DeployInv, NEW r \in Requests, NEW c, NEW P,
           req' = [req EXCEPT ![r] = c],
           P \subseteq Held(req[r]), \A k \in P : Private(r, k),
           app' \in Apps \cup {None},
           Keys(History(app')) \subseteq Keys(History(app)) \cup P,
           app' # None =>
               \/ /\ app # None /\ app'.uid = app.uid
                  /\ app'.history = app.history \/ Newer(app.history, app'.history)
               \/ app'.uid > lastUid,
           app' # None /\ ~unsourced' => app = None \/ ~unsourced,
           lastUid' \in Nat, lastUid <= lastUid',
           lastKey' \in Nat, lastKey <= lastKey',
           blobs \ req[r].drop \subseteq blobs',
           Held(c) \subseteq Held(req[r]) \cup Keys(History(app)) \cup {lastKey + 1}
    PROVE  \A q \in Requests \ {r} :
               (Copy(req[q]) /\ Held(req[q]) \subseteq 1..lastKey /\ Stage(q, req[q]))'
<1> SUFFICES ASSUME NEW q \in Requests \ {r}
             PROVE  (Copy(req[q]) /\ Held(req[q]) \subseteq 1..lastKey /\ Stage(q, req[q]))'
    OBVIOUS
<1> DEFINE d == req[q]
<1>1. /\ req'[q] = req[q] /\ req'[r] = c
      /\ \A p \in Requests \ {r} : req'[p] = req[p]
      /\ req \in [Requests -> Calls]
    BY DEF DeployInv, TypeOK
<1>2. d \in Calls /\ Copy(d) /\ Held(d) \subseteq 1..lastKey /\ Stage(q, d)
    BY <1>1 DEF DeployInv, RequestInv
<1>3. d.seen \in Apps \cup {None} /\ d.want \in Apps \cup {None}
    BY <1>2, CallTyped
<1>4. /\ app \in Apps \cup {None} /\ lastUid \in Nat /\ lastKey \in Nat /\ blobs \subseteq 1..lastKey
    BY DeployAssumption DEF DeployInv, TypeOK
<1>5. Held(d) \subseteq 1..lastKey'
    BY <1>2, <1>4
<1>6. Copy(d)'
    <2> SUFFICES ASSUME d'.seen # None
                 PROVE  /\ d'.seen.uid <= lastUid' /\ Sound(d'.seen)
                        /\ app' # None => Behind(d'.seen, app')
        BY DEF Copy
    <2>1. d' = d /\ d.seen # None
        BY <1>1
    <2>2. d.seen \in Apps /\ d.seen.uid \in 1..MaxUid
        BY <1>3, <2>1, AppTyped
    <2>3. d.seen.uid <= lastUid /\ Sound(d.seen) /\ (app # None => Behind(d.seen, app))
        BY <1>2, <2>1 DEF Copy
    <2>4. d.seen.uid <= lastUid'
        BY <1>4, <2>2, <2>3
    <2>5. ASSUME app' # None PROVE Behind(d.seen, app')
        <3>1. CASE /\ app # None /\ app'.uid = app.uid
                   /\ app'.history = app.history \/ Newer(app.history, app'.history)
            BY <1>4, <2>2, <2>3, <2>5, <3>1, StaysBehind
        <3>2. CASE app'.uid > lastUid
            <4>1. app'.uid \in 1..MaxUid
                BY <2>5, AppTyped
            <4>2. d.seen.uid # app'.uid
                BY <1>4, <2>2, <2>3, <3>2, <4>1
            <4> QED BY <4>2 DEF Behind
        <3> QED BY <2>5, <3>1, <3>2
    <2> QED BY <2>1, <2>3, <2>4, <2>5
<1>7. ASSUME NEW k, Private(q, k) PROVE Private(q, k)'
    <2>1. /\ k \in blobs /\ k \notin Keys(History(app)) /\ k \notin Keys(History(d.seen))
          /\ \A p \in Requests \ {q} : k \notin Held(req[p])
        BY <1>7 DEF Private
    <2>2. k \notin Held(req[r]) /\ k \notin req[r].drop
        BY <2>1 DEF Held
    <2>3. k # lastKey + 1
        BY <1>4, <2>1
    <2>4. k \notin Held(c)
        BY <2>1, <2>2, <2>3
    <2>5. \A p \in Requests \ {q} : k \notin Held(req'[p])
        BY <1>1, <2>1, <2>4
    <2>6. k \notin Keys(History(app'))
        BY <2>1, <2>2
    <2> QED BY <1>1, <2>1, <2>2, <2>5, <2>6 DEF Private
<1>8. ASSUME Spared(d.drop) PROVE Spared(d.drop)'
    <2> SUFFICES ASSUME app' # None, ~unsourced', NEW k \in d'.drop, k \in Keys(app'.history)
                 PROVE  FALSE
        BY DEF Spared
    <2>1. k \in d.drop /\ k \in Held(d)
        BY <1>1 DEF Held
    <2>2. k \in Keys(History(app)) \cup P
        BY HistoryOf
    <2>3. k \notin P
        BY <2>1 DEF Private
    <2>4. app # None /\ k \in Keys(app.history)
        BY <1>4, <2>2, <2>3, HistoryOf
    <2> QED BY <1>8, <2>1, <2>4 DEF Spared
<1>9. Stage(q, d)'
    <2>1. d' = d
        BY <1>1
    <2>2. PutStage(d)' /\ InsertStage(d)'
        BY <1>2, <2>1 DEF Stage, PutStage, InsertStage
    <2>3. CreateStage(q, d)'
        BY <1>2, <1>7, <2>1 DEF Stage, CreateStage
    <2>4. UpdateStage(q, d)'
        BY <1>2, <1>7, <2>1 DEF Stage, UpdateStage
    <2>5. DropStage(d)'
        BY <1>2, <1>8, <2>1 DEF Stage, DropStage
    <2> QED BY <2>2, <2>3, <2>4, <2>5 DEF Stage
<1> QED BY <1>1, <1>5, <1>6, <1>9

-----------------------------------------------------------------------------
(* The steps.                                                              *)

\* The invariant after a step of request r, from what the step did to r and to
\* the shared state.
LEMMA RequestStep ==
    ASSUME DeployInv, NEW r \in Requests, NEW c \in Calls,
           req' = [req EXCEPT ![r] = c],
           \A q \in Requests \ {r} :
               (Copy(req[q]) /\ Held(req[q]) \subseteq 1..lastKey /\ Stage(q, req[q]))',
           Copy(c)', Stage(r, c)', Held(c) \subseteq 1..lastKey',
           app' \in Apps \cup {None}, lastUid' \in 0..MaxUid,
           blobs' \subseteq 1..lastKey', lastKey' \in 0..MaxKeys,
           shared' \subseteq 1..lastUid', stale' \subseteq shared', unsourced' \in BOOLEAN,
           AppInv', RetainedSourcesStored'
    PROVE  DeployInv'
<1>1. req \in [Requests -> Calls]
    BY DEF DeployInv, TypeOK
<1>2. req' \in [Requests -> Calls] /\ req'[r] = c
    BY <1>1
<1>3. TypeOK'
    BY <1>2 DEF TypeOK
<1>4. RequestInv'
    <2> SUFFICES ASSUME NEW q \in Requests
                 PROVE  (Copy(req[q]) /\ Held(req[q]) \subseteq 1..lastKey /\ Stage(q, req[q]))'
        BY DEF RequestInv
    <2>1. CASE q = r
        <3>1. Copy(req[q])' /\ Held(req[q])' \subseteq 1..lastKey'
            BY <1>2, <2>1 DEF Copy, Held
        <3>2. Stage(q, req[q])'
            BY <1>2, <2>1 DEF Stage, PutStage, CreateStage, UpdateStage, DropStage, InsertStage
        <3> QED BY <3>1, <3>2
    <2>2. CASE q # r
        BY <2>2
    <2> QED BY <2>1, <2>2
<1> QED BY <1>3, <1>4 DEF DeployInv

\* A step that leaves the app, the store and the counters alone.
LEMMA QuietStep ==
    ASSUME DeployInv, NEW r \in Requests, NEW c \in Calls,
           req' = [req EXCEPT ![r] = c],
           UNCHANGED <<app, lastUid, blobs, lastKey, unsourced>>,
           shared' \subseteq 1..lastUid, stale' \subseteq shared',
           Held(c) \subseteq Held(req[r]) \cup Keys(History(app)),
           Copy(c)', Stage(r, c)'
    PROVE  DeployInv'
<1>1. TypeOK /\ AppInv /\ RetainedSourcesStored
    BY DEF DeployInv
<1>2. app \in Apps \cup {None} /\ lastUid \in 0..MaxUid /\ blobs \subseteq 1..lastKey
      /\ lastKey \in 0..MaxKeys /\ unsourced \in BOOLEAN
    BY <1>1 DEF TypeOK
<1>3. lastUid \in Nat /\ lastKey \in Nat
    BY <1>2, DeployAssumption
<1>4. Held(req[r]) \subseteq 1..lastKey /\ Keys(History(app)) \subseteq 1..lastKey
    BY DEF DeployInv, RequestInv, AppInv
<1>5. \A q \in Requests \ {r} :
          (Copy(req[q]) /\ Held(req[q]) \subseteq 1..lastKey /\ Stage(q, req[q]))'
    <2> DEFINE P == {}
    <2>1. P \subseteq Held(req[r]) /\ \A k \in P : Private(r, k)
        OBVIOUS
    <2>2. Keys(History(app')) \subseteq Keys(History(app)) \cup P
        OBVIOUS
    <2>3. app' # None =>
               \/ /\ app # None /\ app'.uid = app.uid
                  /\ app'.history = app.history \/ Newer(app.history, app'.history)
               \/ app'.uid > lastUid
        OBVIOUS
    <2>4. /\ app' \in Apps \cup {None} /\ (app' # None /\ ~unsourced' => app = None \/ ~unsourced)
          /\ lastUid' \in Nat /\ lastUid <= lastUid' /\ lastKey' \in Nat /\ lastKey <= lastKey'
          /\ blobs \ req[r].drop \subseteq blobs'
        BY <1>2, <1>3
    <2>5. Held(c) \subseteq Held(req[r]) \cup Keys(History(app)) \cup {lastKey + 1}
        OBVIOUS
    <2> HIDE DEF P
    <2> QED BY <2>1, <2>2, <2>3, <2>4, <2>5, OthersKept
<1>6. AppInv' /\ RetainedSourcesStored'
    BY <1>1 DEF AppInv, RetainedSourcesStored
<1> QED BY <1>2, <1>4, <1>5, <1>6, RequestStep

\* A request that has just read the app.
LEMMA FreshCopy ==
    ASSUME DeployInv, NEW c, c.seen = app, UNCHANGED <<app, lastUid>>
    PROVE  Copy(c)'
<1>1. app # None => app.uid <= lastUid /\ Sound(app) /\ app \in Apps
    BY DEF DeployInv, AppInv, TypeOK
<1>2. app # None => Behind(app, app)
    <2>1. ASSUME app # None PROVE Latest(app.history) \in Nat
        BY <1>1, <2>1, AppTyped, LatestTyped
    <2> QED BY <2>1 DEF Behind
<1> QED BY <1>1, <1>2 DEF Copy

\* A request that has only read the app.
LEMMA StartedHolds ==
    ASSUME app \in Apps \cup {None}, NEW pc \in Pcs
    PROVE  /\ Started(pc) \in Calls
           /\ Started(pc).pc = pc /\ Started(pc).owner = None /\ Started(pc).seen = app
           /\ Started(pc).want = None /\ Started(pc).drop = {}
    BY IdleStage DEF Started, Idle, Calls

\* Deploy up to the upload: the app is looked up and nothing is touched.
LEMMA DeployKeeps == ASSUME DeployInv, NEW r \in Requests, Deploy(r) PROVE DeployInv'
<1>1. PICK o \in Owners : /\ MayDeploy(o)
                          /\ req' = [req EXCEPT ![r] = [Started("put") EXCEPT !.owner = o]]
    BY DEF Deploy
<1>2. PICK c : c = [Started("put") EXCEPT !.owner = o]
    OBVIOUS
<1>3. req' = [req EXCEPT ![r] = c]
    BY <1>1, <1>2
<1>4. app \in Apps \cup {None} /\ shared \subseteq 1..lastUid /\ stale \subseteq shared
    BY DEF DeployInv, TypeOK
<1>5. c \in Calls /\ c.pc = "put" /\ c.owner = o /\ c.seen = app /\ c.want = None /\ c.drop = {}
    <2>1. "put" \in Pcs
        BY DEF Pcs
    <2> QED BY <1>2, <1>4, <2>1, StartedHolds DEF Calls
<1>6. c.pc = "put" /\ c.owner = o /\ c.seen = app /\ c.want = None /\ c.drop = {}
    BY <1>5
<1>7. Held(c) \subseteq Keys(History(app))
    BY <1>6, NoKeys DEF Held, History
<1>8. UNCHANGED <<app, lastUid, blobs, lastKey, unsourced, shared, stale>>
    BY DEF Deploy
<1>9. Copy(c)'
    BY <1>6, <1>8, FreshCopy
<1>10. Stage(r, c)'
    BY <1>1, <1>6 DEF Stage, PutStage, CreateStage, UpdateStage, DropStage, InsertStage, MayDeploy
<1> QED BY <1>3, <1>4, <1>5, <1>7, <1>8, <1>9, <1>10, QuietStep

\* A pending write of a new or an older version of the app.
LEMMA WriteStage ==
    ASSUME NEW r, NEW c, c.pc = "update", Replaces(c.seen, c.want, c.drop),
           c.want.ref \in Keys(c.seen.history)
    PROVE  Stage(r, c)'
    BY DEF Stage, PutStage, CreateStage, UpdateStage, DropStage, InsertStage

\* Rollback up to its Update: it names a source of the copy it has read.
LEMMA RollbackKeeps == ASSUME DeployInv, NEW r \in Requests, Rollback(r) PROVE DeployInv'
<1>1. app # None /\ app \in Apps /\ Sound(app) /\ nextVersion(app.history) <= MaxVersion
    BY DEF DeployInv, TypeOK, AppInv, Rollback
<1>2. PICK i \in DOMAIN app.history :
          req' = [req EXCEPT ![r] = [Started("update") EXCEPT
                     !.drop = Evicted(Extended(app.history, app.history[i].key)),
                     !.want = [app EXCEPT !.ref = app.history[i].key,
                               !.history = Kept(Extended(app.history, app.history[i].key))]]]
    BY DEF Rollback
<1>3. PICK key : key = app.history[i].key
    OBVIOUS
<1>4. PICK g : g = Kept(Extended(app.history, key))
    OBVIOUS
<1>5. PICK d : d = Evicted(Extended(app.history, key))
    OBVIOUS
<1>6. /\ app.history \in Histories /\ app.history \in Seq(Records)
      /\ Len(app.history) <= maxVersions /\ DOMAIN app.history = 1..Len(app.history)
    <2>1. app.history \in Histories
        BY <1>1, AppTyped
    <2>2. app.history \in Seq(Records) /\ Len(app.history) \in 1..maxVersions
          /\ DOMAIN app.history = 1..Len(app.history)
        BY <2>1, HistoryIsSeq
    <2>3. Len(app.history) <= maxVersions
        BY <2>2, DeployAssumption
    <2> QED BY <2>1, <2>2, <2>3
<1>7. key \in Keys(app.history) /\ key \in 1..MaxKeys
    BY <1>3, <1>6, KeysOf
<1>8. /\ g \in Histories /\ Ascending(g) /\ Newer(app.history, g)
      /\ key \in Keys(g) /\ Keys(g) \subseteq Keys(app.history) \cup {key}
      /\ d \subseteq Keys(app.history) \ Keys(g)
    <2>1. Ascending(app.history)
        BY <1>1 DEF Sound
    <2> QED BY <1>1, <1>4, <1>5, <1>6, <1>7, <2>1, ExtendedHistory
<1>9. PICK w : w = [app EXCEPT !.ref = key, !.history = g]
    OBVIOUS
<1>10. w \in Apps
    BY <1>1, <1>7, <1>8, <1>9, AppTyped DEF Apps, Histories
<1>11. w.uid = app.uid /\ w.owner = app.owner /\ w.ref = key /\ w.history = g
    BY <1>1, <1>9 DEF Apps
<1>12. PICK c : c = [Started("update") EXCEPT !.drop = d, !.want = w]
    OBVIOUS
<1>13. req' = [req EXCEPT ![r] = c]
    BY <1>2, <1>3, <1>4, <1>5, <1>9, <1>12
<1>14. d \subseteq 1..MaxKeys
    BY <1>6, <1>8, KeysOf
<1>15. /\ c \in Calls /\ c.pc = "update" /\ c.seen = app /\ c.want = w /\ c.drop = d
    <2>1. "update" \in Pcs
        BY DEF Pcs
    <2>2. Started("update") \in Calls /\ Started("update").pc = "update" /\ Started("update").seen = app
        BY <1>1, <2>1, StartedHolds
    <2>3. c.pc = "update" /\ c.seen = app /\ c.want = w /\ c.drop = d
        BY <1>12, <2>2 DEF Calls
    <2>4. c \in Calls
        BY <1>12, <1>10, <1>14, <2>2 DEF Calls
    <2> QED BY <2>3, <2>4
<1>16. c.pc = "update" /\ c.seen = app /\ c.want = w /\ c.drop = d
    BY <1>15
<1>17. w # None
    BY <1>10, NoneIsNoApp
<1>18. Held(c) \subseteq Keys(History(app))
    <2>1. History(app) = app.history /\ History(w) = g
        BY <1>1, <1>11, <1>17 DEF History
    <2> QED BY <1>7, <1>8, <1>16, <2>1 DEF Held
<1>19. UNCHANGED <<app, lastUid, blobs, lastKey, unsourced, shared, stale>>
    BY DEF Rollback
<1>20. Copy(c)'
    BY <1>16, <1>19, FreshCopy
<1>21. Replaces(c.seen, c.want, c.drop)
    BY <1>1, <1>8, <1>11, <1>16, <1>17 DEF Replaces, Sound
<1>22. Stage(r, c)'
    BY <1>7, <1>11, <1>16, <1>21, WriteStage
<1>23. shared \subseteq 1..lastUid /\ stale \subseteq shared
    BY DEF DeployInv, TypeOK
<1> QED BY <1>13, <1>15, <1>18, <1>19, <1>20, <1>22, <1>23, QuietStep

\* SetSuspended up to its Update: the history will stay as it is.
LEMMA SuspendKeeps == ASSUME DeployInv, NEW r \in Requests, SetSuspended(r) PROVE DeployInv'
<1>1. app # None /\ app \in Apps /\ Sound(app)
    BY DEF DeployInv, TypeOK, AppInv, SetSuspended
<1>2. PICK w : w = [app EXCEPT !.suspended = ~app.suspended]
    OBVIOUS
<1>3. w = [uid |-> app.uid, owner |-> app.owner, ref |-> app.ref,
           suspended |-> ~app.suspended, history |-> app.history]
    BY <1>1, <1>2 DEF Apps
<1>4. w \in Apps
    BY <1>1, <1>3, AppTyped DEF Apps, Histories
<1>5. PICK c : c = [Started("update") EXCEPT !.want = w]
    OBVIOUS
<1>6. req' = [req EXCEPT ![r] = c]
    BY <1>2, <1>5 DEF SetSuspended
<1>7. c \in Calls /\ c.pc = "update" /\ c.seen = app /\ c.want = w /\ c.drop = {}
    <2>1. "update" \in Pcs
        BY DEF Pcs
    <2> QED BY <1>5, <1>1, <1>4, <2>1, StartedHolds DEF Calls
<1>8. c.pc = "update" /\ c.seen = app /\ c.want = w /\ c.drop = {}
    BY <1>7
<1>9. w # None
    BY <1>4, NoneIsNoApp
<1>10. Held(c) \subseteq Keys(History(app))
    BY <1>1, <1>3, <1>8, <1>9 DEF Held, History
<1>11. UNCHANGED <<app, lastUid, blobs, lastKey, unsourced, shared, stale>>
    BY DEF SetSuspended
<1>12. Copy(c)'
    BY <1>8, <1>11, FreshCopy
<1>13. Replaces(c.seen, c.want, c.drop)
    BY <1>1, <1>3, <1>8, <1>9 DEF Replaces, Sound
<1>14. c.want.ref \in Keys(c.seen.history)
    BY <1>1, <1>3, <1>8 DEF Sound
<1>15. Stage(r, c)'
    BY <1>8, <1>13, <1>14, WriteStage
<1>16. shared \subseteq 1..lastUid /\ stale \subseteq shared
    BY DEF DeployInv, TypeOK
<1> QED BY <1>6, <1>7, <1>10, <1>11, <1>12, <1>15, <1>16, QuietStep

\* A request that only has keys left to delete.
LEMMA LeavingHolds ==
    ASSUME NEW pc \in Pcs, NEW keys \in SUBSET (1..MaxKeys)
    PROVE  /\ Leaving(pc, keys) \in Calls
           /\ Leaving(pc, keys).pc = pc /\ Leaving(pc, keys).seen = None
           /\ Leaving(pc, keys).want = None /\ Leaving(pc, keys).drop = keys
           /\ Held(Leaving(pc, keys)) = keys
<1>1. /\ Leaving(pc, keys).pc = pc /\ Leaving(pc, keys).seen = None
      /\ Leaving(pc, keys).want = None /\ Leaving(pc, keys).drop = keys
    BY DEF Leaving, Idle
<1>2. Leaving(pc, keys) \in Calls
    BY IdleStage DEF Leaving, Calls
<1>3. Held(Leaving(pc, keys)) = keys
    BY <1>1, NoKeys DEF Held, History
<1> QED BY <1>1, <1>2, <1>3

\* Delete up to its call: the sources to clean up are those of the app read.
LEMMA DeleteKeeps == ASSUME DeployInv, NEW r \in Requests, Delete(r) PROVE DeployInv'
<1>1. app # None /\ app \in Apps
    BY DEF DeployInv, TypeOK, Delete
<1>2. Keys(app.history) \subseteq 1..MaxKeys /\ Keys(History(app)) = Keys(app.history)
    BY <1>1, AppTyped, HistoryIsSeq, KeysOf DEF History
<1>3. PICK c : c = Leaving("delete", Keys(app.history))
    OBVIOUS
<1>4. /\ c \in Calls /\ c.pc = "delete" /\ c.seen = None /\ c.drop = Keys(app.history)
      /\ Held(c) = Keys(app.history)
    BY <1>2, <1>3, LeavingHolds DEF Pcs
<1>5. req' = [req EXCEPT ![r] = c] /\ UNCHANGED <<app, lastUid, blobs, lastKey, unsourced, shared, stale>>
    BY <1>3 DEF Delete
<1>6. Copy(c)' /\ Stage(r, c)'
    BY <1>4 DEF Copy, Stage, PutStage, CreateStage, UpdateStage, DropStage, InsertStage
<1>7. shared \subseteq 1..lastUid /\ stale \subseteq shared
    BY DEF DeployInv, TypeOK
<1> QED BY <1>2, <1>4, <1>5, <1>6, <1>7, QuietStep

\* CreateShareLink up to the insertion: the app is read,
LEMMA ShareKeeps == ASSUME DeployInv, NEW r \in Requests, CreateShareLink(r) PROVE DeployInv'
<1>1. app # None /\ app \in Apps
    BY DEF DeployInv, TypeOK, CreateShareLink
<1>2. PICK c : c = Started("insert")
    OBVIOUS
<1>3. req' = [req EXCEPT ![r] = c] /\ UNCHANGED <<app, lastUid, blobs, lastKey, unsourced, shared, stale>>
    BY <1>2 DEF CreateShareLink
<1>4. "insert" \in Pcs
    BY DEF Pcs
<1>5. c \in Calls /\ c.pc = "insert" /\ c.seen = app /\ c.want = None /\ c.drop = {}
    BY <1>2, <1>1, <1>4, StartedHolds
<1>6. Held(c) \subseteq Keys(History(app))
    BY <1>5, NoKeys DEF Held, History
<1>7. Copy(c)'
    BY <1>5, <1>3, FreshCopy
<1>8. Stage(r, c)'
    BY <1>1, <1>5 DEF Stage, PutStage, CreateStage, UpdateStage, DropStage, InsertStage
<1>9. shared \subseteq 1..lastUid /\ stale \subseteq shared
    BY DEF DeployInv, TypeOK
<1> QED BY <1>5, <1>3, <1>6, <1>7, <1>8, <1>9, QuietStep

\* ... and the link is of that incarnation.
LEMMA InsertKeeps == ASSUME DeployInv, NEW r \in Requests, InsertLink(r) PROVE DeployInv'
<1>1. req[r] \in Calls /\ req[r].pc = "insert" /\ Copy(req[r]) /\ Stage(r, req[r])
    BY DEF DeployInv, TypeOK, RequestInv, InsertLink
<1>2. req[r].seen # None /\ req[r].seen \in Apps
    BY <1>1, CallTyped DEF Stage, InsertStage
<1>3. req[r].seen.uid \in 1..MaxUid /\ req[r].seen.uid <= lastUid
    BY <1>1, <1>2, AppTyped DEF Copy
<1>4. lastUid \in 0..MaxUid /\ shared \subseteq 1..lastUid /\ stale \subseteq shared
    BY DEF DeployInv, TypeOK
<1>5. req[r].seen.uid \in 1..lastUid
    BY <1>3, <1>4, DeployAssumption
<1>6. shared' \subseteq 1..lastUid /\ stale' \subseteq shared'
    BY <1>4, <1>5 DEF InsertLink
<1>7. req' = [req EXCEPT ![r] = Idle] /\ UNCHANGED <<app, lastUid, blobs, lastKey, unsourced>>
    BY DEF InsertLink
<1> QED BY <1>6, <1>7, IdleStage, QuietStep

\* The links of the name are revoked, as far as they can be.
LEMMA RevokeKeeps == ASSUME DeployInv, NEW r \in Requests, RevokeLinks(r) PROVE DeployInv'
<1>1. req[r] \in Calls /\ req[r].pc = "revoke" /\ Copy(req[r]) /\ Stage(r, req[r])
    BY DEF DeployInv, TypeOK, RequestInv, RevokeLinks
<1>2. PICK c : c = [req[r] EXCEPT !.pc = "clean"]
    OBVIOUS
<1>3. /\ c.pc = "clean" /\ c.seen = req[r].seen /\ c.want = req[r].want /\ c.drop = req[r].drop
      /\ c \in Calls
    BY <1>1, <1>2 DEF Calls, Pcs
<1>4. req' = [req EXCEPT ![r] = c] /\ UNCHANGED <<app, lastUid, blobs, lastKey, unsourced>>
    BY <1>2 DEF RevokeLinks
<1>5. Held(c) \subseteq Held(req[r])
    BY <1>3 DEF Held
<1>6. Copy(c)'
    BY <1>1, <1>3, <1>4 DEF Copy
<1>7. Spared(c.drop)'
    BY <1>1, <1>3, <1>4 DEF Stage, DropStage, Spared
<1>8. Stage(r, c)'
    BY <1>3, <1>7 DEF Stage, PutStage, CreateStage, UpdateStage, DropStage, InsertStage
<1>9. shared \subseteq 1..lastUid /\ shared' \subseteq shared /\ stale' \subseteq shared'
    BY DEF DeployInv, TypeOK, RevokeLinks
<1>10. shared' \subseteq 1..lastUid
    BY <1>9
<1> QED BY <1>3, <1>4, <1>5, <1>6, <1>8, <1>9, <1>10, QuietStep

\* The upload: a source of a key that nobody else has.
LEMMA PutKeeps == ASSUME DeployInv, NEW r \in Requests, PutSource(r) PROVE DeployInv'
<1>1. PICK k : k = lastKey + 1
    OBVIOUS
<1> DEFINE h == History(req[r].seen)
           all == Extended(h, k)
<1>2. /\ req \in [Requests -> Calls] /\ req[r] \in Calls /\ req[r].pc = "put"
      /\ Copy(req[r]) /\ Held(req[r]) \subseteq 1..lastKey /\ Stage(r, req[r])
    BY DEF DeployInv, TypeOK, RequestInv, PutSource
<1>3. req[r].owner \in Owners /\ req[r].seen \in Apps \cup {None}
    BY <1>2, CallTyped DEF Stage, PutStage
<1>4. /\ shared \subseteq 1..lastUid /\ stale \subseteq shared /\ blobs \subseteq 1..lastKey
      /\ lastKey \in 0..MaxKeys /\ lastKey \in Nat /\ app \in Apps \cup {None}
      /\ lastUid \in 0..MaxUid /\ lastUid \in Nat /\ unsourced \in BOOLEAN
    BY DeployAssumption DEF DeployInv, TypeOK
<1>5. UNCHANGED <<app, lastUid, shared, stale, unsourced>>
    BY DEF PutSource
<1>6. CASE req' = [req EXCEPT ![r] = Idle] /\ UNCHANGED <<lastKey, blobs>>
    BY <1>4, <1>5, <1>6, IdleStage, QuietStep
<1>7. CASE /\ lastKey < MaxKeys
           /\ nextVersion(h) <= MaxVersion
           /\ lastKey' = k
           /\ blobs' = blobs \cup {lastKey'}
           /\ req' = [req EXCEPT
                ![r].owner = None,
                ![r].pc = IF req[r].seen = None THEN "create" ELSE "update",
                ![r].drop = IF req[r].seen = None THEN {lastKey'} ELSE Evicted(all),
                ![r].want = [uid |-> IF req[r].seen = None THEN 1 ELSE req[r].seen.uid,
                             owner |-> req[r].owner, ref |-> lastKey', suspended |-> FALSE,
                             history |-> Kept(all)]]
    <2>1. k \in 1..MaxKeys /\ k \in Nat /\ k \notin 1..lastKey /\ lastKey <= k
          /\ 1..lastKey \subseteq 1..k /\ k \in 1..k
        BY <1>1, <1>4, <1>7, DeployAssumption
    <2>2. /\ h \in Seq(Records) /\ Len(h) <= maxVersions /\ Ascending(h)
          /\ Keys(h) \subseteq 1..lastKey
        <3>1. CASE req[r].seen = None
            BY <3>1, NoKeys, DeployAssumption DEF History
        <3>2. CASE req[r].seen # None
            <4>1. req[r].seen \in Apps /\ h = req[r].seen.history /\ h \in Histories
                BY <1>3, <3>2, AppTyped DEF History
            <4>2. h \in Seq(Records) /\ Len(h) \in 1..maxVersions
                BY <4>1, HistoryIsSeq
            <4>3. Len(h) <= maxVersions
                BY <4>2, DeployAssumption
            <4>4. Ascending(h)
                BY <1>2, <3>2, <4>1 DEF Copy, Sound
            <4> QED BY <1>2, <4>2, <4>3, <4>4 DEF Held
        <3> QED BY <3>1, <3>2
    <2>3. PICK g : g = Kept(all)
        OBVIOUS
    <2>4. /\ g \in Histories /\ Ascending(g) /\ Newer(h, g)
          /\ k \in Keys(g) /\ Keys(g) \subseteq Keys(h) \cup {k}
          /\ Evicted(all) \subseteq Keys(h) \ Keys(g)
        <3> HIDE DEF h
        <3> QED BY <1>7, <2>1, <2>2, <2>3, ExtendedHistory
    <2> DEFINE u == IF req[r].seen = None THEN 1 ELSE req[r].seen.uid
    <2>5. PICK w : w = [uid |-> u, owner |-> req[r].owner, ref |-> k, suspended |-> FALSE,
                        history |-> g]
        OBVIOUS
    <2>6. u \in 1..MaxUid
        BY <1>3, AppTyped, DeployAssumption
    <2> HIDE DEF h, u, all
    <2>7. w \in Apps /\ w # None
        <3>1. w \in Apps
            BY <1>3, <2>1, <2>4, <2>5, <2>6 DEF Apps, Histories
        <3> QED BY <3>1, NoneIsNoApp
    <2>8. PICK d : d = IF req[r].seen = None THEN {k} ELSE Evicted(all)
        OBVIOUS
    <2>9. d \subseteq 1..k /\ d \subseteq 1..MaxKeys
        BY <2>1, <2>2, <2>4, <2>8, KeysOf
    <2>10. PICK pc : pc = IF req[r].seen = None THEN "create" ELSE "update"
        OBVIOUS
    <2>11. PICK c : c = [req[r] EXCEPT !.owner = None, !.pc = pc, !.drop = d, !.want = w]
        OBVIOUS
    <2>12. req' = [req EXCEPT ![r] = c]
        <3>1. req' = [req EXCEPT ![r].owner = None, ![r].pc = pc, ![r].drop = d, ![r].want = w]
            BY <1>7, <2>3, <2>5, <2>8, <2>10 DEF u
        <3> QED BY <1>2, <2>11, <3>1
    <2>13. c.pc = pc /\ c.drop = d /\ c.want = w /\ c.seen = req[r].seen
        BY <1>2, <2>11 DEF Calls
    <2>14. c \in Calls
        BY <1>2, <2>7, <2>9, <2>10, <2>11 DEF Calls, Pcs
    <2>15. w.ref = k /\ w.history = g /\ w.owner = req[r].owner /\ w.uid = u /\ History(w) = g
        BY <2>5, <2>7 DEF History
    <2>16. Held(c) = Keys(h) \cup Keys(g) \cup d
        BY <2>13, <2>15 DEF Held, h
    <2>17. Held(c) \subseteq 1..lastKey' /\ Held(c) \subseteq Held(req[r]) \cup {k}
        <3>1. Keys(h) \subseteq Held(req[r])
            BY DEF Held, h
        <3>2. d \subseteq Keys(h) \cup {k}
            BY <2>4, <2>8
        <3> QED BY <1>7, <2>1, <2>2, <2>4, <2>16, <3>1, <3>2
    <2>18. \A q \in Requests \ {r} :
              (Copy(req[q]) /\ Held(req[q]) \subseteq 1..lastKey /\ Stage(q, req[q]))'
        <3>1. PICK P : P = {}
            OBVIOUS
        <3>2. P \subseteq Held(req[r]) /\ \A x \in P : Private(r, x)
            BY <3>1
        <3>3. /\ app' \in Apps \cup {None}
              /\ Keys(History(app')) \subseteq Keys(History(app)) \cup P
              /\ app' # None =>
                   \/ /\ app # None /\ app'.uid = app.uid
                      /\ app'.history = app.history \/ Newer(app.history, app'.history)
                   \/ app'.uid > lastUid
              /\ app' # None /\ ~unsourced' => app = None \/ ~unsourced
            BY <1>4, <1>5
        <3>4. /\ lastUid' \in Nat /\ lastUid <= lastUid' /\ lastKey' \in Nat /\ lastKey <= lastKey'
              /\ blobs \ req[r].drop \subseteq blobs'
            BY <1>4, <1>5, <1>7, <2>1
        <3>5. Held(c) \subseteq Held(req[r]) \cup Keys(History(app)) \cup {lastKey + 1}
            BY <1>1, <2>17
        <3> QED BY <2>12, <3>2, <3>3, <3>4, <3>5, OthersKept
    <2>19. Copy(c)'
        BY <1>2, <1>5, <2>13 DEF Copy
    <2>20. Private(r, k)'
        <3>1. k \in blobs'
            BY <1>7
        <3>2. k \notin Keys(History(app'))
            BY <1>5, <2>1 DEF DeployInv, AppInv
        <3>3. req'[r] = c /\ \A q \in Requests \ {r} : req'[q] = req[q]
            BY <1>2, <2>12
        <3>4. k \notin Keys(History(req'[r].seen))
            BY <2>1, <2>2, <2>13, <3>3 DEF h
        <3>5. \A q \in Requests \ {r} : k \notin Held(req'[q])
            BY <2>1, <3>3 DEF DeployInv, RequestInv
        <3> QED BY <3>1, <3>2, <3>4, <3>5 DEF Private
    <2>21. CreateStage(r, c)'
        BY <2>1, <2>2, <2>4, <2>7, <2>8, <2>10, <2>13, <2>15, <2>20, NoKeys DEF CreateStage, h, History
    <2>22. UpdateStage(r, c)'
        BY <1>2, <2>2, <2>4, <2>7, <2>8, <2>10, <2>13, <2>15, <2>20
           DEF UpdateStage, Replaces, Sound, h, History, u, Stage, PutStage
    <2>23. Stage(r, c)'
        BY <2>10, <2>13, <2>21, <2>22 DEF Stage, PutStage, DropStage, InsertStage
    <2>24. AppInv' /\ RetainedSourcesStored'
        <3>1. AppInv /\ RetainedSourcesStored
            BY DEF DeployInv
        <3>2. AppInv'
            BY <1>5, <1>7, <2>1, <3>1 DEF AppInv
        <3>3. RetainedSourcesStored'
            BY <1>5, <1>7, <3>1 DEF RetainedSourcesStored
        <3> QED BY <3>2, <3>3
    <2>25. /\ app' \in Apps \cup {None} /\ lastUid' \in 0..MaxUid
           /\ blobs' \subseteq 1..lastKey' /\ lastKey' \in 0..MaxKeys
           /\ shared' \subseteq 1..lastUid' /\ stale' \subseteq shared' /\ unsourced' \in BOOLEAN
        <3>1. lastKey' \in 0..MaxKeys
            BY <1>7, <2>1, DeployAssumption
        <3>2. blobs' \subseteq 1..lastKey'
            BY <1>4, <1>7, <2>1
        <3> QED BY <1>4, <1>5, <3>1, <3>2
    <2> QED BY <2>12, <2>14, <2>17, <2>18, <2>19, <2>23, <2>24, <2>25, RequestStep
<1> QED BY <1>1, <1>6, <1>7 DEF PutSource

\* A request with only keys left that the app does not refer to.
LEMMA LeavingStage ==
    ASSUME NEW r, NEW c, c.pc \in {"undo", "evict"}, c.seen = None, Spared(c.drop)'
    PROVE  Copy(c)' /\ Stage(r, c)'
    BY DEF Copy, Stage, PutStage, CreateStage, UpdateStage, DropStage, InsertStage

\* The Create, which may be refused, or done and answered with an error.
LEMMA CreateKeeps == ASSUME DeployInv, NEW r \in Requests, CreateApp(r) PROVE DeployInv'
<1>1. /\ req \in [Requests -> Calls] /\ req[r] \in Calls /\ req[r].pc = "create"
      /\ Held(req[r]) \subseteq 1..lastKey /\ Stage(r, req[r])
    BY DEF DeployInv, TypeOK, RequestInv, CreateApp
<1>2. PICK w : w = req[r].want
    OBVIOUS
<1>3. /\ req[r].seen = None /\ w # None /\ Ascending(w.history)
      /\ Keys(w.history) = {w.ref} /\ req[r].drop = {w.ref} /\ Private(r, w.ref)
    BY <1>1, <1>2 DEF Stage, CreateStage
<1>4. w \in Apps /\ req[r].drop \subseteq 1..MaxKeys
    BY <1>1, <1>2, <1>3, CallTyped
<1>5. /\ shared \subseteq 1..lastUid /\ stale \subseteq shared /\ blobs \subseteq 1..lastKey
      /\ lastKey \in 0..MaxKeys /\ lastKey \in Nat /\ app \in Apps \cup {None}
      /\ lastUid \in 0..MaxUid /\ lastUid \in Nat /\ unsourced \in BOOLEAN
    BY DeployAssumption DEF DeployInv, TypeOK
<1>6. UNCHANGED <<blobs, lastKey, shared, stale>>
    BY DEF CreateApp
<1>7. PICK c : c = Leaving("undo", req[r].drop)
    OBVIOUS
<1>8. /\ c \in Calls /\ c.pc = "undo" /\ c.seen = None /\ c.drop = {w.ref} /\ Held(c) = {w.ref}
    BY <1>3, <1>4, <1>7, LeavingHolds DEF Pcs
<1>9. w.ref \in Held(req[r]) /\ w.ref \in 1..lastKey
    BY <1>1, <1>3 DEF Held
<1>10. CASE req' = [req EXCEPT ![r] = c] /\ UNCHANGED <<app, lastUid, unsourced>>
    <2>1. Spared(c.drop)'
        BY <1>3, <1>5, <1>8, <1>10, HistoryOf DEF Spared, Private
    <2>2. Copy(c)' /\ Stage(r, c)'
        BY <1>8, <2>1, LeavingStage
    <2>3. Held(c) \subseteq Held(req[r])
        BY <1>8, <1>9
    <2> QED BY <1>5, <1>6, <1>8, <1>10, <2>2, <2>3, QuietStep
<1>11. CASE /\ app = None /\ lastUid < MaxUid /\ lastUid' = lastUid + 1
            /\ app' = [w EXCEPT !.uid = lastUid']
            /\ \/ req' = [req EXCEPT ![r] = Idle] /\ unsourced' = FALSE
               \/ req' = [req EXCEPT ![r] = c] /\ unsourced' = TRUE
    <2>1. lastUid' \in 1..MaxUid /\ lastUid' \in Nat /\ lastUid <= lastUid' /\ lastUid' > lastUid
          /\ 1..lastUid \subseteq 1..lastUid'
        BY <1>5, <1>11, DeployAssumption
    <2>2. app' \in Apps /\ app'.uid = lastUid' /\ app'.history = w.history /\ app'.ref = w.ref
        BY <1>4, <1>11, <2>1 DEF Apps
    <2>3. app' # None /\ History(app') = w.history /\ Keys(History(app)) = {}
        BY <1>11, <2>2, NoneIsNoApp, NoKeys DEF History
    <2>4. PICK e : /\ req' = [req EXCEPT ![r] = e]
                   /\ \/ e = Idle /\ unsourced' = FALSE
                      \/ e = c /\ unsourced' = TRUE
        BY <1>11
    <2>5. e \in Calls /\ Held(e) \subseteq {w.ref}
        BY <1>8, <2>4, IdleStage
    <2>6. Copy(e)' /\ Stage(r, e)'
        <3>1. CASE e = Idle
            BY <3>1, IdleStage
        <3>2. CASE e = c /\ unsourced'
            <4>1. Spared(c.drop)'
                BY <3>2 DEF Spared
            <4>2. Copy(c)' /\ Stage(r, c)'
                BY <1>8, <4>1, LeavingStage
            <4> QED BY <3>2, <4>2
        <3> QED BY <2>4, <3>1, <3>2
    <2>7. \A q \in Requests \ {r} :
              (Copy(req[q]) /\ Held(req[q]) \subseteq 1..lastKey /\ Stage(q, req[q]))'
        <3>1. PICK P : P = {w.ref}
            OBVIOUS
        <3>2. P \subseteq Held(req[r]) /\ \A x \in P : Private(r, x)
            BY <1>3, <1>9, <3>1
        <3>3. Keys(History(app')) \subseteq Keys(History(app)) \cup P
            BY <1>3, <2>3, <3>1
        <3>4. /\ app'.uid > lastUid /\ app' \in Apps \cup {None} /\ app = None
              /\ lastKey' \in Nat /\ lastKey <= lastKey' /\ blobs \ req[r].drop \subseteq blobs'
            BY <1>5, <1>6, <1>11, <2>1, <2>2
        <3>5. Held(e) \subseteq Held(req[r]) \cup Keys(History(app)) \cup {lastKey + 1}
            BY <1>9, <2>5
        <3> QED BY <2>1, <2>4, <3>2, <3>3, <3>4, <3>5, OthersKept
    <2>8. AppInv'
        <3>1. Sound(app') /\ app'.uid <= lastUid'
            BY <1>3, <2>1, <2>2 DEF Sound
        <3>2. Keys(History(app')) \subseteq 1..lastKey'
            BY <1>3, <1>6, <1>9, <2>3
        <3> QED BY <3>1, <3>2 DEF AppInv
    <2>9. RetainedSourcesStored'
        BY <1>3, <1>6, <2>2 DEF RetainedSourcesStored, Private
    <2>10. /\ Held(e) \subseteq 1..lastKey' /\ app' \in Apps \cup {None} /\ lastUid' \in 0..MaxUid
           /\ blobs' \subseteq 1..lastKey' /\ lastKey' \in 0..MaxKeys
           /\ shared' \subseteq 1..lastUid' /\ stale' \subseteq shared' /\ unsourced' \in BOOLEAN
        <3>1. lastUid' \in 0..MaxUid
            BY <2>1, DeployAssumption
        <3>2. Held(e) \subseteq 1..lastKey'
            BY <1>6, <1>9, <2>5
        <3>3. shared' \subseteq 1..lastUid' /\ stale' \subseteq shared'
            BY <1>5, <1>6, <2>1
        <3> QED BY <1>5, <1>6, <1>11, <2>2, <3>1, <3>2, <3>3
    <2> QED BY <2>4, <2>5, <2>6, <2>7, <2>8, <2>9, <2>10, RequestStep
<1> QED BY <1>2, <1>7, <1>10, <1>11 DEF CreateApp

\* The Update, of an app that is the copy that was read, or refused.
LEMMA UpdateKeeps == ASSUME DeployInv, NEW r \in Requests, UpdateApp(r) PROVE DeployInv'
<1>1. /\ req \in [Requests -> Calls] /\ req[r] \in Calls /\ req[r].pc = "update"
      /\ Held(req[r]) \subseteq 1..lastKey /\ Stage(r, req[r])
    BY DEF DeployInv, TypeOK, RequestInv, UpdateApp
<1>2. PICK w : w = req[r].want
    OBVIOUS
<1>3. /\ Replaces(req[r].seen, w, req[r].drop)
      /\ w.ref \in Keys(req[r].seen.history) \/ Private(r, w.ref)
    BY <1>1, <1>2 DEF Stage, UpdateStage
<1>4. w # None /\ w \in Apps /\ req[r].drop \subseteq 1..MaxKeys
    BY <1>1, <1>2, <1>3, CallTyped DEF Replaces
<1>5. /\ shared \subseteq 1..lastUid /\ stale \subseteq shared /\ blobs \subseteq 1..lastKey
      /\ lastKey \in 0..MaxKeys /\ lastKey \in Nat /\ app \in Apps \cup {None}
      /\ lastUid \in 0..MaxUid /\ lastUid \in Nat /\ unsourced \in BOOLEAN
    BY DeployAssumption DEF DeployInv, TypeOK
<1>6. UNCHANGED <<lastUid, blobs, lastKey, shared, stale, unsourced>>
    BY DEF UpdateApp
<1>7. CASE req' = [req EXCEPT ![r] = Idle] /\ UNCHANGED app
    BY <1>5, <1>6, <1>7, IdleStage, QuietStep
<1>8. PICK c : c = Leaving("evict", req[r].drop)
    OBVIOUS
<1>9. /\ c \in Calls /\ c.pc = "evict" /\ c.seen = None /\ c.drop = req[r].drop
      /\ Held(c) = req[r].drop
    BY <1>4, <1>8, LeavingHolds DEF Pcs
<1>10. CASE /\ UpdateFits(req[r]) /\ app' = w
            /\ req' = [req EXCEPT ![r] = c] \/ req' = [req EXCEPT ![r] = Idle]
    <2>1. app # None /\ app = req[r].seen /\ app \in Apps
        BY <1>5, <1>10 DEF UpdateFits
    <2>2. History(app) = app.history /\ History(w) = w.history
        BY <1>4, <2>1 DEF History
    <2>3. /\ w.uid = app.uid /\ Sound(w)
          /\ Keys(w.history) \subseteq Keys(app.history) \cup {w.ref}
          /\ req[r].drop \cap Keys(w.history) = {}
          /\ w.history = app.history \/ Newer(app.history, w.history)
          /\ w.ref \in Keys(app.history) \/ Private(r, w.ref)
          /\ w.ref \in Keys(w.history)
        BY <1>3, <2>1 DEF Replaces, Sound
    <2>4. PICK e : req' = [req EXCEPT ![r] = e] /\ (e = Idle \/ e = c)
        BY <1>10
    <2>5. e \in Calls /\ Held(e) \subseteq req[r].drop
        BY <1>9, <2>4, IdleStage
    <2>6. Copy(e)' /\ Stage(r, e)'
        <3>1. Spared(c.drop)'
            BY <1>9, <1>10, <2>3 DEF Spared
        <3>2. Copy(c)' /\ Stage(r, c)'
            BY <1>9, <3>1, LeavingStage
        <3> QED BY <2>4, <3>2, IdleStage
    <2>7. Keys(w.history) \subseteq Held(req[r]) /\ req[r].drop \subseteq Held(req[r])
        BY <1>2, <2>2 DEF Held
    <2>8. \A q \in Requests \ {r} :
              (Copy(req[q]) /\ Held(req[q]) \subseteq 1..lastKey /\ Stage(q, req[q]))'
        <3>1. PICK P : P = {w.ref} \ Keys(app.history)
            OBVIOUS
        <3>2. P \subseteq Held(req[r]) /\ \A x \in P : Private(r, x)
            BY <2>3, <2>7, <3>1
        <3>3. Keys(History(app')) \subseteq Keys(History(app)) \cup P
            BY <1>10, <2>2, <2>3, <3>1
        <3>4. /\ app' \in Apps \cup {None} /\ app # None /\ app'.uid = app.uid
              /\ app'.history = app.history \/ Newer(app.history, app'.history)
              /\ unsourced' = unsourced
              /\ lastUid' \in Nat /\ lastUid <= lastUid'
              /\ lastKey' \in Nat /\ lastKey <= lastKey' /\ blobs \ req[r].drop \subseteq blobs'
            BY <1>4, <1>5, <1>6, <1>10, <2>1, <2>3
        <3>5. Held(e) \subseteq Held(req[r]) \cup Keys(History(app)) \cup {lastKey + 1}
            BY <2>5, <2>7
        <3> QED BY <2>4, <3>2, <3>3, <3>4, <3>5, OthersKept
    <2>9. AppInv /\ RetainedSourcesStored
        BY DEF DeployInv
    <2>10. AppInv'
        <3>1. Sound(app') /\ app'.uid <= lastUid'
            BY <1>6, <1>10, <2>1, <2>3, <2>9 DEF AppInv
        <3>2. Keys(History(app')) \subseteq 1..lastKey'
            BY <1>1, <1>6, <1>10, <2>2, <2>7
        <3> QED BY <3>1, <3>2 DEF AppInv
    <2>11. RetainedSourcesStored'
        <3>1. ~unsourced => Keys(app.history) \subseteq blobs
            BY <2>1, <2>9 DEF RetainedSourcesStored
        <3>2. ~unsourced => w.ref \in blobs
            BY <2>3, <3>1 DEF Private
        <3> QED BY <1>6, <1>10, <2>3, <3>1, <3>2 DEF RetainedSourcesStored
    <2>12. Held(e) \subseteq 1..lastKey'
        BY <1>1, <1>6, <2>5, <2>7
    <2> QED BY <1>4, <1>5, <1>6, <1>10, <2>4, <2>5, <2>6, <2>8, <2>10, <2>11, <2>12, RequestStep
<1> QED BY <1>2, <1>7, <1>8, <1>10 DEF UpdateApp

\* The sources that are dropped are ones the app does not retain.
LEMMA DropKeeps == ASSUME DeployInv, NEW r \in Requests, DropSources(r) PROVE DeployInv'
<1>1. /\ req \in [Requests -> Calls] /\ req[r] \in Calls
      /\ req[r].pc \in {"undo", "evict", "clean"} /\ Stage(r, req[r])
    BY DEF DeployInv, TypeOK, RequestInv, DropSources
<1>2. Spared(req[r].drop)
    BY <1>1 DEF Stage, DropStage
<1>3. /\ shared \subseteq 1..lastUid /\ stale \subseteq shared /\ blobs \subseteq 1..lastKey
      /\ lastKey \in 0..MaxKeys /\ lastKey \in Nat /\ app \in Apps \cup {None}
      /\ lastUid \in 0..MaxUid /\ lastUid \in Nat /\ unsourced \in BOOLEAN
    BY DeployAssumption DEF DeployInv, TypeOK
<1>4. UNCHANGED <<app, lastUid, lastKey, shared, stale, unsourced>>
    BY DEF DropSources
<1>5. /\ blobs \ req[r].drop \subseteq blobs' /\ blobs' \subseteq blobs
      /\ req' = [req EXCEPT ![r] = Idle]
    BY DEF DropSources
<1>6. \A q \in Requests \ {r} :
          (Copy(req[q]) /\ Held(req[q]) \subseteq 1..lastKey /\ Stage(q, req[q]))'
    <2>1. PICK P : P = {}
        OBVIOUS
    <2>2. P \subseteq Held(req[r]) /\ \A x \in P : Private(r, x)
        BY <2>1
    <2>3. /\ app' \in Apps \cup {None}
          /\ Keys(History(app')) \subseteq Keys(History(app)) \cup P
          /\ app' # None => /\ app # None /\ app'.uid = app.uid
                            /\ app'.history = app.history \/ Newer(app.history, app'.history)
          /\ app' # None /\ ~unsourced' => app = None \/ ~unsourced
          /\ lastUid' \in Nat /\ lastUid <= lastUid' /\ lastKey' \in Nat /\ lastKey <= lastKey'
        BY <1>3, <1>4
    <2>4. Held(Idle) \subseteq Held(req[r]) \cup Keys(History(app)) \cup {lastKey + 1}
        BY IdleStage
    <2> QED BY <1>5, <2>2, <2>3, <2>4, OthersKept
<1>7. AppInv /\ RetainedSourcesStored
    BY DEF DeployInv
<1>8. AppInv'
    BY <1>4, <1>7 DEF AppInv
<1>9. RetainedSourcesStored'
    <2>1. app # None => app.ref \in Keys(app.history)
        BY <1>7 DEF AppInv, Sound
    <2> QED BY <1>2, <1>4, <1>5, <1>7, <2>1 DEF RetainedSourcesStored, Spared
<1>10. Held(Idle) \subseteq 1..lastKey' /\ blobs' \subseteq 1..lastKey'
    BY <1>3, <1>4, <1>5, IdleStage
<1> QED BY <1>3, <1>4, <1>5, <1>6, <1>8, <1>9, <1>10, IdleStage, RequestStep

\* The app goes, whichever has the name, and with it all that it retains.
LEMMA DeleteAppKeeps == ASSUME DeployInv, NEW r \in Requests, DeleteApp(r) PROVE DeployInv'
<1>1. /\ req \in [Requests -> Calls] /\ req[r] \in Calls /\ req[r].pc = "delete"
      /\ Held(req[r]) \subseteq 1..lastKey /\ Copy(req[r])
    BY DEF DeployInv, TypeOK, RequestInv, DeleteApp
<1>2. /\ shared \subseteq 1..lastUid /\ stale \subseteq shared /\ blobs \subseteq 1..lastKey
      /\ lastKey \in 0..MaxKeys /\ lastKey \in Nat /\ app \in Apps \cup {None}
      /\ lastUid \in 0..MaxUid /\ lastUid \in Nat /\ unsourced \in BOOLEAN
    BY DeployAssumption DEF DeployInv, TypeOK
<1>3. UNCHANGED <<lastUid, blobs, lastKey, shared>> /\ stale' \subseteq shared
    BY <1>2 DEF DeleteApp
<1>4. CASE req' = [req EXCEPT ![r] = Idle] /\ UNCHANGED <<app, unsourced>>
    BY <1>2, <1>3, <1>4, IdleStage, QuietStep
<1>5. PICK c : c = [req[r] EXCEPT !.pc = "revoke"]
    OBVIOUS
<1>6. /\ c \in Calls /\ c.pc = "revoke" /\ c.seen = req[r].seen /\ c.want = req[r].want
      /\ c.drop = req[r].drop
    BY <1>1, <1>5 DEF Calls, Pcs
<1>7. Held(c) = Held(req[r])
    BY <1>6 DEF Held
<1>8. CASE /\ app' = None /\ unsourced' = FALSE
           /\ req' = [req EXCEPT ![r] = c] \/ req' = [req EXCEPT ![r] = Idle]
    <2>1. PICK e : req' = [req EXCEPT ![r] = e] /\ (e = c \/ e = Idle)
        BY <1>8
    <2>2. e \in Calls /\ Held(e) \subseteq Held(req[r])
        BY <1>6, <1>7, <2>1, IdleStage
    <2>3. Copy(e)' /\ Stage(r, e)'
        <3>1. Copy(c)'
            BY <1>1, <1>3, <1>6, <1>8 DEF Copy
        <3>2. Stage(r, c)'
            BY <1>6, <1>8 DEF Stage, PutStage, CreateStage, UpdateStage, DropStage, InsertStage, Spared
        <3> QED BY <2>1, <3>1, <3>2, IdleStage
    <2>4. Keys(History(app')) = {}
        BY <1>8, NoKeys DEF History
    <2>5. \A q \in Requests \ {r} :
              (Copy(req[q]) /\ Held(req[q]) \subseteq 1..lastKey /\ Stage(q, req[q]))'
        <3>1. PICK P : P = {}
            OBVIOUS
        <3>2. P \subseteq Held(req[r]) /\ \A x \in P : Private(r, x)
            BY <3>1
        <3>3. /\ Keys(History(app')) \subseteq Keys(History(app)) \cup P
              /\ app' = None /\ app' \in Apps \cup {None}
              /\ lastUid' \in Nat /\ lastUid <= lastUid' /\ lastKey' \in Nat /\ lastKey <= lastKey'
              /\ blobs \ req[r].drop \subseteq blobs'
            BY <1>2, <1>3, <1>8, <2>4
        <3>4. Held(e) \subseteq Held(req[r]) \cup Keys(History(app)) \cup {lastKey + 1}
            BY <2>2
        <3> QED BY <2>1, <3>2, <3>3, <3>4, OthersKept
    <2>6. AppInv' /\ RetainedSourcesStored'
        BY <1>8, <2>4 DEF AppInv, RetainedSourcesStored
    <2>7. Held(e) \subseteq 1..lastKey'
        BY <1>1, <1>3, <2>2
    <2> QED BY <1>2, <1>3, <1>8, <2>1, <2>2, <2>3, <2>5, <2>6, <2>7, RequestStep
<1> QED
    <2>1. req' = [req EXCEPT ![r].pc = "revoke"] => req' = [req EXCEPT ![r] = c]
        BY <1>5
    <2> QED BY <1>4, <1>8, <2>1 DEF DeleteApp

\* A crash forgets the requests and nothing that is stored.
LEMMA CrashKeeps == ASSUME DeployInv, Crash PROVE DeployInv'
<1>1. TypeOK /\ AppInv /\ RetainedSourcesStored
    BY DEF DeployInv
<1>2. UNCHANGED <<app, lastUid, blobs, lastKey, shared, unsourced>> /\ stale' \subseteq shared
    BY <1>1 DEF Crash, TypeOK
<1>3. req' = [q \in Requests |-> Idle]
    BY DEF Crash
<1>4. req' \in [Requests -> Calls] /\ \A q \in Requests : req'[q] = Idle
    BY <1>3, IdleStage
<1>5. TypeOK'
    BY <1>1, <1>2, <1>4 DEF TypeOK
<1>6. AppInv' /\ RetainedSourcesStored'
    BY <1>1, <1>2 DEF AppInv, RetainedSourcesStored
<1>7. RequestInv'
    <2> SUFFICES ASSUME NEW q \in Requests
                 PROVE  (Copy(req[q]) /\ Held(req[q]) \subseteq 1..lastKey /\ Stage(q, req[q]))'
        BY DEF RequestInv
    <2>1. PICK c : c = Idle
        OBVIOUS
    <2>2. req'[q] = c /\ c.pc = "idle" /\ c.seen = None /\ Held(c) = {}
        BY <1>4, <2>1, IdleStage DEF Idle
    <2>3. Copy(req[q])' /\ Held(req[q])' = {}
        BY <2>2 DEF Copy, Held
    <2>4. Stage(q, req[q])'
        BY <2>2 DEF Stage, PutStage, CreateStage, UpdateStage, DropStage, InsertStage
    <2> QED BY <2>3, <2>4
<1> QED BY <1>5, <1>6, <1>7 DEF DeployInv

\* A step that changes neither the app, the store nor a request.
LEMMA LinkKeeps ==
    ASSUME DeployInv, UNCHANGED <<app, lastUid, blobs, lastKey, req, unsourced>>,
           shared' \subseteq shared, stale' \subseteq shared'
    PROVE  DeployInv'
<1>1. TypeOK /\ AppInv /\ RetainedSourcesStored /\ RequestInv
    BY DEF DeployInv
<1>2. TypeOK' /\ AppInv' /\ RetainedSourcesStored'
    BY <1>1 DEF TypeOK, AppInv, RetainedSourcesStored
<1>3. RequestInv'
    BY <1>1 DEF RequestInv, Copy, Stage, PutStage, CreateStage, UpdateStage, DropStage,
                InsertStage, Private, Spared, Held
<1> QED BY <1>2, <1>3 DEF DeployInv

\* Nothing is deployed at first.
LEMMA DeployInit == Init => DeployInv
<1> SUFFICES ASSUME Init PROVE DeployInv
    OBVIOUS
<1>1. \A q \in Requests : req[q] = Idle
    BY DEF Init
<1>2. TypeOK
    <2>1. req \in [Requests -> Calls]
        BY IdleStage DEF Init
    <2>2. lastUid \in 0..MaxUid /\ lastKey \in 0..MaxKeys
        BY DeployAssumption DEF Init
    <2> QED BY <2>1, <2>2 DEF Init, TypeOK
<1>3. AppInv /\ RetainedSourcesStored
    BY NoKeys DEF Init, AppInv, RetainedSourcesStored, History
<1>4. RequestInv
    BY <1>1, IdleStage DEF RequestInv
<1> QED BY <1>2, <1>3, <1>4 DEF DeployInv

\* Every operation keeps the invariant.
LEMMA DeployStep == DeployInv /\ [Next]_vars => DeployInv'
<1> SUFFICES ASSUME DeployInv, [Next]_vars PROVE DeployInv'
    OBVIOUS
<1>1. ASSUME NEW r \in Requests, Deploy(r) PROVE DeployInv'
    BY <1>1, DeployKeeps
<1>2. ASSUME NEW r \in Requests, PutSource(r) PROVE DeployInv'
    BY <1>2, PutKeeps
<1>3. ASSUME NEW r \in Requests, CreateApp(r) PROVE DeployInv'
    BY <1>3, CreateKeeps
<1>4. ASSUME NEW r \in Requests, UpdateApp(r) PROVE DeployInv'
    BY <1>4, UpdateKeeps
<1>5. ASSUME NEW r \in Requests, DropSources(r) PROVE DeployInv'
    BY <1>5, DropKeeps
<1>6. ASSUME NEW r \in Requests, Rollback(r) PROVE DeployInv'
    BY <1>6, RollbackKeeps
<1>7. ASSUME NEW r \in Requests, SetSuspended(r) PROVE DeployInv'
    BY <1>7, SuspendKeeps
<1>8. ASSUME NEW r \in Requests, Delete(r) PROVE DeployInv'
    BY <1>8, DeleteKeeps
<1>9. ASSUME NEW r \in Requests, DeleteApp(r) PROVE DeployInv'
    BY <1>9, DeleteAppKeeps
<1>10. ASSUME NEW r \in Requests, RevokeLinks(r) PROVE DeployInv'
    BY <1>10, RevokeKeeps
<1>11. ASSUME NEW r \in Requests, CreateShareLink(r) PROVE DeployInv'
    BY <1>11, ShareKeeps
<1>12. ASSUME NEW r \in Requests, InsertLink(r) PROVE DeployInv'
    BY <1>12, InsertKeeps
<1>13. CASE RevokeShareLink
    <2>1. stale \subseteq shared
        BY DEF DeployInv, TypeOK
    <2> QED BY <1>13, <2>1, LinkKeeps DEF RevokeShareLink
<1>14. CASE Crash
    BY <1>14, CrashKeeps
<1>15. CASE UNCHANGED vars
    <2>1. stale \subseteq shared
        BY DEF DeployInv, TypeOK
    <2> QED BY <1>15, <2>1, LinkKeeps DEF vars
<1> QED BY <1>1, <1>2, <1>3, <1>4, <1>5, <1>6, <1>7, <1>8, <1>9, <1>10, <1>11, <1>12, <1>13,
           <1>14, <1>15 DEF Next

-----------------------------------------------------------------------------
(* The theorems.                                                           *)

\* deploy.Service.Deploy, Rollback and Delete: whatever requests run
\* concurrently, crash or lose their answers, every retained version of the app
\* has its source in the store (except after a create whose answer was lost).
THEOREM SourcesRetained == Spec => []RetainedSourcesStored
<1>1. DeployInv => RetainedSourcesStored
    BY DEF DeployInv
<1> QED BY <1>1, DeployInit, DeployStep, PTL DEF Spec

\* Updates carry the resourceVersion of the copy the ownership gate looked at:
\* no write hands an app to another owner, unless to an admin who deploys it,
\* and none changes which app has the name.
THEOREM NobodyTakesOver == Spec => NoTakeover
<1>1. ASSUME DeployInv, [Next]_vars
      PROVE  [app # None /\ app' # None =>
                app'.uid = app.uid /\ (app'.owner = app.owner \/ app'.owner \in Admins)]_app
    <2> SUFFICES ASSUME app # None, app' # None, app' # app
                 PROVE  app'.uid = app.uid /\ (app'.owner = app.owner \/ app'.owner \in Admins)
        OBVIOUS
    <2>1. \E r \in Requests : UpdateApp(r)
        BY <1>1 DEF Next, vars, Deploy, PutSource, CreateApp, DropSources, Rollback, SetSuspended,
           Delete, DeleteApp, RevokeLinks, CreateShareLink, InsertLink, RevokeShareLink, Crash
    <2>2. PICK r \in Requests : UpdateApp(r)
        BY <2>1
    <2>3. app = req[r].seen /\ app' = req[r].want /\ req[r].pc = "update"
        BY <2>2 DEF UpdateApp, UpdateFits
    <2>4. Replaces(req[r].seen, req[r].want, req[r].drop)
        BY <1>1, <2>3 DEF DeployInv, RequestInv, Stage, UpdateStage
    <2> QED BY <2>3, <2>4 DEF Replaces
<1> QED BY <1>1, DeployInit, DeployStep, PTL DEF Spec, NoTakeover

\* nextVersion and appendCapped under concurrent deploys and rollbacks: a write
\* that changes the history ends in a version above every earlier one, and what
\* it keeps ascends and is within the cap.
THEOREM VersionsAscend == Spec => VersionsGrow
<1>1. ASSUME DeployInv, [Next]_vars
      PROVE  [app # None /\ app' # None /\ app'.uid = app.uid /\ app'.history # app.history =>
                /\ Len(app'.history) <= maxVersions
                /\ \A i \in DOMAIN app.history :
                      app.history[i].version < app'.history[Len(app'.history)].version
                /\ \A i, j \in DOMAIN app'.history :
                      i < j => app'.history[i].version < app'.history[j].version]_app
    <2> SUFFICES ASSUME app # None, app' # None, app' # app, app'.history # app.history
                 PROVE  /\ Len(app'.history) <= maxVersions
                        /\ \A i \in DOMAIN app.history :
                              app.history[i].version < app'.history[Len(app'.history)].version
                        /\ \A i, j \in DOMAIN app'.history :
                              i < j => app'.history[i].version < app'.history[j].version
        OBVIOUS
    <2>1. \E r \in Requests : UpdateApp(r)
        BY <1>1 DEF Next, vars, Deploy, PutSource, CreateApp, DropSources, Rollback, SetSuspended,
           Delete, DeleteApp, RevokeLinks, CreateShareLink, InsertLink, RevokeShareLink, Crash
    <2>2. PICK r \in Requests : UpdateApp(r)
        BY <2>1
    <2>3. app = req[r].seen /\ app' = req[r].want /\ req[r].pc = "update"
        BY <2>2 DEF UpdateApp, UpdateFits
    <2>4. Replaces(req[r].seen, req[r].want, req[r].drop) /\ req[r] \in Calls
        BY <1>1, <2>3 DEF DeployInv, TypeOK, RequestInv, Stage, UpdateStage
    <2>5. Newer(app.history, app'.history) /\ Ascending(app'.history)
        BY <2>3, <2>4 DEF Replaces, Sound
    <2>6. app' \in Apps
        BY <2>3, <2>4, CallTyped
    <2>7. Len(app'.history) \in 1..maxVersions
        BY <2>6, AppTyped, HistoryIsSeq
    <2>8. Len(app'.history) <= maxVersions
        BY <2>7, DeployAssumption
    <2> QED BY <2>5, <2>8 DEF Newer, Ascending, Latest
<1> QED BY <1>1, DeployInit, DeployStep, PTL DEF Spec, VersionsGrow

\* revokeShareLinks and CreateShareLink: a live link was made for the app that
\* has the name, or the delete of its app is about to revoke it, or its
\* revocation failed or it was inserted too late.
THEOREM LinksKeepTheirApp == Spec => []LinksFollowApp
<1>1. Init => LinksFollowApp
    BY DEF Init, LinksFollowApp
<1>2. ASSUME DeployInv, LinksFollowApp, [Next]_vars PROVE LinksFollowApp'
    <2> SUFFICES ASSUME NEW u \in shared'
                 PROVE  \/ u \in stale'
                        \/ app' # None /\ app'.uid = u
                        \/ \E q \in Requests : req'[q].pc = "revoke"
        BY DEF LinksFollowApp
    <2>1. req \in [Requests -> Calls]
        BY <1>2 DEF DeployInv, TypeOK
    <2>2. CASE \E r \in Requests : InsertLink(r)
        <3>1. PICK r \in Requests : InsertLink(r)
            BY <2>2
        <3>2. \A q \in Requests : req[q].pc = "revoke" => req'[q].pc = "revoke"
            BY <2>1, <3>1 DEF InsertLink
        <3> QED BY <1>2, <3>1, <3>2 DEF InsertLink, LinksFollowApp
    <2>3. CASE \E r \in Requests : RevokeLinks(r)
        BY <2>3 DEF RevokeLinks
    <2>4. CASE RevokeShareLink
        BY <1>2, <2>4 DEF RevokeShareLink, LinksFollowApp
    <2>5. CASE Crash
        BY <1>2, <2>5 DEF Crash, LinksFollowApp
    <2>6. CASE \E r \in Requests : DeleteApp(r)
        <3>1. PICK r \in Requests : DeleteApp(r)
            BY <2>6
        <3>2. u \in shared /\ req[r].pc = "delete"
            BY <3>1 DEF DeleteApp
        <3>3. \A q \in Requests : req[q].pc = "revoke" => req'[q].pc = "revoke"
            BY <2>1, <3>1, <3>2 DEF DeleteApp
        <3>4. CASE req' = [req EXCEPT ![r].pc = "revoke"]
            <4>1. req'[r].pc = "revoke"
                BY <2>1, <3>4 DEF Calls
            <4> QED BY <4>1
        <3>5. CASE app # None /\ stale' = stale \cup (shared \cap {app.uid})
            BY <1>2, <3>2, <3>3, <3>5 DEF LinksFollowApp
        <3>6. CASE UNCHANGED <<app, stale>>
            BY <1>2, <3>2, <3>3, <3>6 DEF LinksFollowApp
        <3> QED BY <3>1, <3>4, <3>5, <3>6 DEF DeleteApp
    <2>7. CASE \E r \in Requests : CreateApp(r)
        <3>1. PICK r \in Requests : CreateApp(r)
            BY <2>7
        <3>2. /\ req[r].pc = "create" /\ UNCHANGED <<shared, stale>>
              /\ app = None \/ app' = app
            BY <3>1 DEF CreateApp
        <3>3. \A q \in Requests : q # r => req'[q] = req[q]
            BY <2>1, <3>1 DEF CreateApp
        <3>4. \A q \in Requests : req[q].pc = "revoke" => req'[q].pc = "revoke"
            BY <3>2, <3>3
        <3> QED BY <1>2, <3>2, <3>4 DEF LinksFollowApp
    <2>8. CASE \E r \in Requests : UpdateApp(r)
        <3>1. PICK r \in Requests : UpdateApp(r)
            BY <2>8
        <3>2. req[r].pc = "update" /\ UNCHANGED <<shared, stale>>
            BY <3>1 DEF UpdateApp
        <3>3. \A q \in Requests : q # r => req'[q] = req[q]
            BY <2>1, <3>1 DEF UpdateApp
        <3>4. \A q \in Requests : req[q].pc = "revoke" => req'[q].pc = "revoke"
            BY <3>2, <3>3
        <3>5. Replaces(req[r].seen, req[r].want, req[r].drop)
            BY <1>2, <3>2 DEF DeployInv, RequestInv, Stage, UpdateStage
        <3>6. app # None => app' # None /\ app'.uid = app.uid
            BY <3>1, <3>5 DEF UpdateApp, UpdateFits, Replaces
        <3> QED BY <1>2, <3>2, <3>4, <3>6 DEF LinksFollowApp
    <2>9. CASE \E r \in Requests :
                  \/ Deploy(r) \/ PutSource(r) \/ DropSources(r) \/ Rollback(r)
                  \/ SetSuspended(r) \/ Delete(r) \/ CreateShareLink(r)
        <3>1. PICK r \in Requests :
                  \/ Deploy(r) \/ PutSource(r) \/ DropSources(r) \/ Rollback(r)
                  \/ SetSuspended(r) \/ Delete(r) \/ CreateShareLink(r)
            BY <2>9
        <3>2. req[r].pc # "revoke" /\ UNCHANGED <<app, shared, stale>>
            BY <3>1 DEF Deploy, PutSource, DropSources, Rollback, SetSuspended, Delete, CreateShareLink
        <3>3. \A q \in Requests : q # r => req'[q] = req[q]
            BY <2>1, <3>1 DEF Deploy, PutSource, DropSources, Rollback, SetSuspended, Delete,
               CreateShareLink
        <3> QED BY <1>2, <3>2, <3>3 DEF LinksFollowApp
    <2>10. CASE UNCHANGED vars
        BY <1>2, <2>10 DEF vars, LinksFollowApp
    <2> QED BY <1>2, <2>2, <2>3, <2>4, <2>5, <2>6, <2>7, <2>8, <2>9, <2>10 DEF Next
<1> QED BY <1>1, <1>2, DeployInit, DeployStep, PTL DEF Spec
=============================================================================
