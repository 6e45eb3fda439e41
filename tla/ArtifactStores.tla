--------------------------- MODULE ArtifactStores ---------------------------
(***************************************************************************)
(* The artifact stores (src/internal/store): one interface, three          *)
(* backends.  MemoryStore works under a mutex and SQLiteStore in           *)
(* transactions, so each of their calls is one step; ConfigMapStore holds  *)
(* no lock and makes read-modify-write cycles of a whole ConfigMap, which  *)
(* the API server's resourceVersion serialises.                            *)
(*                                                                         *)
(* Only tests and plugins outside this repository call the artifact        *)
(* methods.  An artifact keeps its name: no caller renames one.            *)
(***************************************************************************)
EXTENDS Naturals, FiniteSets

CONSTANTS
    Backends,      \* of "memory", "sqlite", "configmap"
    Clients,
    Ids, Owners, None,
    NameOf,        \* by id: the artifact's name, which two ids may share
    OwnerOf,       \* by id: its owner
    MaxTries,      \* steps of retry.DefaultRetry
    MaxRows,       \* entries that fit in maxConfigMapBytes
    MaxCalls       \* bound: calls made

VARIABLES
    backend,       \* the one configured
    arts,          \* the artifacts
    vers,          \* the ids that have version records
    byName,        \* MemoryStore.byName
    shares,        \* SQLiteStore's artifact_shares
    revs,          \* resourceVersion of the two ConfigMaps, 0 while absent
    call, made

vars == <<backend, arts, vers, byName, shares, revs, call, made>>

-----------------------------------------------------------------------------
ArtifactNames == {NameOf[i] : i \in Ids}
Arts == {a \in [id: Ids, shared: SUBSET Owners] : OwnerOf[a.id] \notin a.shared}

\* "clean" is the second half of ConfigMapStore.Delete.
Writes == {"create", "update", "delete", "version", "clean"}
Reads == {"get", "name", "list", "versions"}

\* art: the artifact, or one with the id, that the call is about; user: whose list.
\* copy: the contents to be written back, made from revision rev.  found: what a
\* read returned.
Idle == [pc |-> "idle", op |-> None, art |-> None, user |-> None, copy |-> {}, rev |-> 0,
         tries |-> 0, answer |-> None, found |-> {}]

\* The tables, their indexes and the calls have their shape.
TypeOK ==
    /\ backend \in Backends
    /\ arts \subseteq Arts /\ vers \subseteq Ids
    /\ byName \in [ArtifactNames -> Ids \cup {None}] /\ shares \subseteq Ids \X Owners
    /\ revs \in [arts: Nat, vers: Nat]
    /\ \A c \in Clients :
          /\ call[c].pc \in {"idle", "run", "make", "write", "done"}
          /\ call[c].op \in Writes \cup Reads \cup {None}
          /\ call[c].tries < MaxTries
    /\ made \in 0..MaxCalls

Init ==
    /\ backend \in Backends
    /\ arts = {} /\ vers = {}
    /\ byName = [n \in ArtifactNames |-> None] /\ shares = {}
    /\ revs = [arts |-> 0, vers |-> 0]
    /\ call = [c \in Clients |-> Idle]
    /\ made = 0

-----------------------------------------------------------------------------
(* What a store promises, on the artifacts as.                             *)

WithId(as, i) == {a \in as : a.id = i}
Named(as, n) == {a \in as : NameOf[a.id] = n}
VisibleTo(as, u) == {a \in as : OwnerOf[a.id] = u \/ u \in a.shared}

Refused(op, art, as) ==
    IF op = "create" THEN Named(as, NameOf[art.id]) # {} ELSE WithId(as, art.id) = {}

Applied(op, art, as) ==
    CASE op = "create" -> as \cup {art}
      [] op = "update" -> (as \ WithId(as, art.id)) \cup {art}
      [] op = "delete" -> as \ WithId(as, art.id)

Found(op, art, u, as) ==
    CASE op = "get" -> WithId(as, art.id)
      [] op = "name" -> Named(as, NameOf[art.id])
      [] op = "list" -> VisibleTo(as, u)

-----------------------------------------------------------------------------
Begin(c, op, art, u) ==
    /\ call[c].pc \in {"idle", "done"} /\ made < MaxCalls
    /\ made' = made + 1
    /\ call' = [call EXCEPT ![c] = [Idle EXCEPT !.pc = "run", !.op = op, !.art = art, !.user = u]]
    /\ UNCHANGED <<backend, arts, vers, byName, shares, revs>>

Runs(c, b, ops) == backend = b /\ call[c].pc = "run" /\ call[c].op \in ops
Go(c, rec) == call' = [call EXCEPT ![c] = rec] /\ UNCHANGED <<backend, made>>
Result(answer, found) == [Idle EXCEPT !.pc = "done", !.answer = answer, !.found = found]

\* The clean-up after a delete is best effort.
Answer(c, answer) == Go(c, Result(IF call[c].op = "clean" THEN "ok" ELSE answer, {}))
Refusal(c) == Answer(c, IF call[c].op = "create" THEN "exists" ELSE "missing")

-----------------------------------------------------------------------------
(* MemoryStore.                                                            *)

MemoryCreate(c) ==
    LET a == call[c].art IN
    /\ Runs(c, "memory", {"create"})
    /\ IF byName[NameOf[a.id]] # None THEN Refusal(c) /\ UNCHANGED <<arts, byName>>
       ELSE /\ arts' = (arts \ WithId(arts, a.id)) \cup {a}
            /\ byName' = [byName EXCEPT ![NameOf[a.id]] = a.id]
            /\ Answer(c, "ok")
    /\ UNCHANGED <<vers, shares, revs>>

\* byName is left alone.
MemoryUpdate(c) ==
    LET a == call[c].art IN
    /\ Runs(c, "memory", {"update"})
    /\ IF WithId(arts, a.id) = {} THEN Refusal(c) /\ UNCHANGED arts
       ELSE arts' = (arts \ WithId(arts, a.id)) \cup {a} /\ Answer(c, "ok")
    /\ UNCHANGED <<vers, byName, shares, revs>>

MemoryDelete(c) ==
    LET i == call[c].art.id IN
    /\ Runs(c, "memory", {"delete"})
    /\ IF WithId(arts, i) = {} THEN Refusal(c) /\ UNCHANGED <<arts, vers, byName>>
       ELSE /\ arts' = arts \ WithId(arts, i) /\ vers' = vers \ {i}
            /\ byName' = [byName EXCEPT ![NameOf[i]] = None]
            /\ Answer(c, "ok")
    /\ UNCHANGED <<shares, revs>>

MemoryVersion(c) ==
    /\ Runs(c, "memory", {"version"})
    /\ vers' = vers \cup {call[c].art.id} /\ Answer(c, "ok")
    /\ UNCHANGED <<arts, byName, shares, revs>>

\* Get, GetByName through the index, and List.
MemoryRead(c) ==
    LET a == call[c].art IN
    /\ Runs(c, "memory", {"get", "name", "list"})
    /\ Go(c, Result("ok", CASE call[c].op = "get" -> WithId(arts, a.id)
                            [] call[c].op = "name" -> WithId(arts, byName[NameOf[a.id]])
                            [] call[c].op = "list" -> VisibleTo(arts, call[c].user)))
    /\ UNCHANGED <<arts, vers, byName, shares, revs>>

-----------------------------------------------------------------------------
(* SQLiteStore: id and name are UNIQUE.                                    *)

\* syncArtifactShares, in the artifact's transaction.
SharesOf(a) == {s \in shares : s[1] # a.id} \cup ({a.id} \X a.shared)

SqliteCreate(c) ==
    LET a == call[c].art IN
    /\ Runs(c, "sqlite", {"create"})
    /\ IF WithId(arts, a.id) \cup Named(arts, NameOf[a.id]) # {}
       THEN Refusal(c) /\ UNCHANGED <<arts, shares>>
       ELSE arts' = arts \cup {a} /\ shares' = SharesOf(a) /\ Answer(c, "ok")
    /\ UNCHANGED <<vers, byName, revs>>

SqliteUpdate(c) ==
    LET a == call[c].art IN
    /\ Runs(c, "sqlite", {"update"})
    /\ IF WithId(arts, a.id) = {} THEN Refusal(c) /\ UNCHANGED <<arts, shares>>
       ELSE /\ arts' = (arts \ WithId(arts, a.id)) \cup {a}
            /\ shares' = SharesOf(a) /\ Answer(c, "ok")
    /\ UNCHANGED <<vers, byName, revs>>

SqliteDelete(c) ==
    LET i == call[c].art.id IN
    /\ Runs(c, "sqlite", {"delete"})
    /\ IF WithId(arts, i) = {} THEN Refusal(c) /\ UNCHANGED <<arts, vers, shares>>
       ELSE /\ arts' = arts \ WithId(arts, i) /\ vers' = vers \ {i}
            /\ shares' = {s \in shares : s[1] # i}
            /\ Answer(c, "ok")
    /\ UNCHANGED <<byName, revs>>

SqliteVersion(c) ==
    /\ Runs(c, "sqlite", {"version"})
    /\ vers' = vers \cup {call[c].art.id} /\ Answer(c, "ok")
    /\ UNCHANGED <<arts, byName, shares, revs>>

SqliteGet(c) ==
    LET a == call[c].art IN
    /\ Runs(c, "sqlite", {"get", "name"})
    /\ Go(c, Result("ok", IF call[c].op = "get" THEN WithId(arts, a.id)
                          ELSE Named(arts, NameOf[a.id])))
    /\ UNCHANGED <<arts, vers, byName, shares, revs>>

\* List: shared artifacts through the index.
SqliteList(c) ==
    LET u == call[c].user IN
    /\ Runs(c, "sqlite", {"list"})
    /\ Go(c, Result("ok", {a \in arts : OwnerOf[a.id] = u \/ <<a.id, u>> \in shares}))
    /\ UNCHANGED <<arts, vers, byName, shares, revs>>

-----------------------------------------------------------------------------
(* ConfigMapStore: a Get, and in a later step an Update of the copy.       *)

Map(op) == IF op \in {"version", "clean"} THEN "vers" ELSE "arts"

\* Read, change the copy; the write comes later.
ToWrite(c, copy) ==
    Go(c, [call[c] EXCEPT !.pc = "write", !.copy = copy, !.rev = revs[Map(call[c].op)]])

ConfigMapCreate(c) ==
    LET a == call[c].art IN
    /\ Runs(c, "configmap", {"create"})
    /\ CASE revs.arts = 0 -> Go(c, [call[c] EXCEPT !.pc = "make"])
         [] revs.arts > 0 /\ Named(arts, NameOf[a.id]) # {} -> Refusal(c)
         [] OTHER -> ToWrite(c, arts \cup {a})
    /\ UNCHANGED <<arts, vers, byName, shares, revs>>

ConfigMapUpdate(c) ==
    LET a == call[c].art IN
    /\ Runs(c, "configmap", {"update"})
    /\ CASE revs.arts = 0 -> Answer(c, "error")
         [] revs.arts > 0 /\ WithId(arts, a.id) = {} -> Refusal(c)
         [] OTHER -> ToWrite(c, (arts \ WithId(arts, a.id)) \cup {a})
    /\ UNCHANGED <<arts, vers, byName, shares, revs>>

\* Delete takes the artifact out of one ConfigMap ...
ConfigMapDelete(c) ==
    LET i == call[c].art.id IN
    /\ Runs(c, "configmap", {"delete"})
    /\ CASE revs.arts = 0 -> Answer(c, "error")
         [] revs.arts > 0 /\ WithId(arts, i) = {} -> Refusal(c)
         [] OTHER -> ToWrite(c, arts \ WithId(arts, i))
    /\ UNCHANGED <<arts, vers, byName, shares, revs>>

\* ... and its versions out of the other, if there are any.
ConfigMapClean(c) ==
    LET i == call[c].art.id IN
    /\ Runs(c, "configmap", {"clean"})
    /\ IF i \in vers THEN ToWrite(c, vers \ {i}) ELSE Answer(c, "ok")
    /\ UNCHANGED <<arts, vers, byName, shares, revs>>

ConfigMapVersion(c) ==
    /\ Runs(c, "configmap", {"version"})
    /\ IF revs.vers = 0 THEN Go(c, [call[c] EXCEPT !.pc = "make"])
       ELSE ToWrite(c, vers \cup {call[c].art.id})
    /\ UNCHANGED <<arts, vers, byName, shares, revs>>

\* getOrCreateConfigMap: a ConfigMap that another call made first is an error.
ConfigMapMake(c) ==
    LET m == Map(call[c].op) IN
    /\ call[c].pc = "make"
    /\ IF revs[m] # 0 THEN Answer(c, "error") /\ UNCHANGED revs
       ELSE /\ revs' = [revs EXCEPT ![m] = 1]
            /\ Go(c, [call[c] EXCEPT !.pc = "write", !.rev = 1, !.copy =
                         {IF m = "arts" THEN call[c].art ELSE call[c].art.id}])
    /\ UNCHANGED <<arts, vers, byName, shares>>

\* The Update takes effect; a delete goes on to its versions.
Stored(c) ==
    LET m == Map(call[c].op) IN
    /\ arts' = IF m = "arts" THEN call[c].copy ELSE arts
    /\ vers' = IF m = "vers" THEN call[c].copy ELSE vers
    /\ revs' = [revs EXCEPT ![m] = @ + 1]

Succeed(c) ==
    IF call[c].op = "delete"
    THEN Go(c, [Idle EXCEPT !.pc = "run", !.op = "clean", !.art = call[c].art])
    ELSE Answer(c, "ok")

\* Faulty variant: the revision is not compared.
ConfigMapWriteBlind(c) ==
    /\ call[c].pc = "write"
    /\ IF Cardinality(call[c].copy) > MaxRows
       THEN Answer(c, "full") /\ UNCHANGED <<arts, vers, revs>>
       ELSE Stored(c) /\ Succeed(c)
    /\ UNCHANGED <<byName, shares>>

\* updateConfigMap: the size guard, then the Update, which the API server
\* refuses for a revision that is not the current one, and RetryOnConflict.
\* The answer of an Update may be lost.
ConfigMapWrite(c) ==
    LET r == call[c]
        current == r.rev = revs[Map(r.op)]
    IN
    /\ r.pc = "write"
    /\ \/ /\ Cardinality(r.copy) > MaxRows
          /\ Answer(c, "full") /\ UNCHANGED <<arts, vers, revs>>
       \/ /\ Cardinality(r.copy) <= MaxRows
          /\ \/ current /\ Stored(c) /\ Succeed(c)
             \/ current /\ Stored(c) /\ Answer(c, "error")
             \/ /\ ~current /\ r.tries + 1 < MaxTries
                /\ Go(c, [r EXCEPT !.pc = "run", !.tries = @ + 1, !.copy = {}, !.rev = 0])
                /\ UNCHANGED <<arts, vers, revs>>
             \/ /\ ~current /\ r.tries + 1 = MaxTries
                /\ Answer(c, "conflict") /\ UNCHANGED <<arts, vers, revs>>
    /\ UNCHANGED <<byName, shares>>

\* Get and GetByName, an error while there is no ConfigMap, and List, empty then.
ConfigMapRead(c) ==
    LET r == call[c] IN
    /\ Runs(c, "configmap", {"get", "name", "list"})
    /\ IF revs.arts = 0 /\ r.op # "list" THEN Answer(c, "error")
       ELSE Go(c, Result("ok", CASE r.op = "get" -> WithId(arts, r.art.id)
                                 [] r.op = "name" -> Named(arts, NameOf[r.art.id])
                                 [] r.op = "list" -> VisibleTo(arts, r.user)))
    /\ UNCHANGED <<arts, vers, byName, shares, revs>>

\* ListVersions and GetVersion, on each backend.
ReadVersions(c) ==
    /\ call[c].pc = "run" /\ call[c].op = "versions"
    /\ Go(c, Result("ok", {}))
    /\ UNCHANGED <<arts, vers, byName, shares, revs>>

-----------------------------------------------------------------------------
Memory(c) == MemoryCreate(c) \/ MemoryUpdate(c) \/ MemoryDelete(c) \/ MemoryVersion(c)
             \/ MemoryRead(c)

Sqlite(c) == SqliteCreate(c) \/ SqliteUpdate(c) \/ SqliteDelete(c) \/ SqliteVersion(c)
             \/ SqliteGet(c) \/ SqliteList(c)

ConfigMap(c) == ConfigMapCreate(c) \/ ConfigMapUpdate(c) \/ ConfigMapDelete(c)
                \/ ConfigMapClean(c) \/ ConfigMapVersion(c) \/ ConfigMapMake(c)
                \/ ConfigMapWrite(c) \/ ConfigMapRead(c)

Next ==
    \E c \in Clients :
       \/ \E art \in Arts, op \in {"create", "update"} : Begin(c, op, art, None)
       \/ \E i \in Ids, op \in {"delete", "version", "get", "name", "versions"} :
             Begin(c, op, [id |-> i, shared |-> {}], None)
       \/ \E u \in Owners : Begin(c, "list", None, u)
       \/ Memory(c) \/ Sqlite(c) \/ ConfigMap(c) \/ ReadVersions(c)

Spec == Init /\ [][Next]_vars

-----------------------------------------------------------------------------
\* Every backend is one atomic store, "across replicas too" (configmap.go): a
\* step changes the artifacts as one call on the current contents does and loses
\* nobody else's, a refusal and a read are right when they are given, and a
\* create or update answered with success is there.
StoreIsAtomic ==
    [][/\ arts' # arts =>
             \E c \in Clients : LET r == call[c] IN
                /\ r.op \in {"create", "update", "delete"} /\ ~Refused(r.op, r.art, arts)
                /\ arts' = Applied(r.op, r.art, arts)
       /\ \A c \in Clients : LET r == call[c] IN
             r.pc # "done" /\ call'[c].pc = "done" =>
                /\ call'[c].answer \in {"exists", "missing"} => Refused(r.op, r.art, arts)
                /\ call'[c].answer = "ok" /\ r.op \in {"create", "update"} => r.art \in arts'
                /\ call'[c].answer = "ok" /\ r.op \in {"get", "name", "list"}
                      => call'[c].found = Found(r.op, r.art, r.user, arts)]_vars
=============================================================================
