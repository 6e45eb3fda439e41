--------------------------- MODULE DeployService ---------------------------
(***************************************************************************)
(* The deploy service (src/internal/deploy) on one app name: concurrent    *)
(* deploys, rollbacks, suspensions, deletes and share links, the version   *)
(* history kept on the VibedApp, and the source blobs it refers to.        *)
(*                                                                         *)
(* Each call to the API server, the blob store or the share-link store is  *)
(* an action of its own and may fail; an answer of the API server may also *)
(* be lost after the call took effect.  Updates carry the resourceVersion  *)
(* of the copy that Get returned, deletes carry nothing.                   *)
(***************************************************************************)
EXTENDS Integers, Sequences, FiniteSetsExt

CONSTANTS
    Requests,    \* concurrent calls of the service
    Owners,
    Admins,      \* the owners with the admin role
    None,
    maxVersions, \* records kept in the history
    MaxKeys,     \* bound: sources stored
    MaxVersion,  \* bound: version numbers given out
    MaxUid       \* bound: apps created under the name

ASSUME DeployAssumption ==
    /\ maxVersions \in Nat \ {0}
    /\ {MaxKeys, MaxVersion} \subseteq Nat /\ MaxUid \in Nat \ {0}
    /\ None \notin Owners /\ Admins \subseteq Owners

VARIABLES
    app,      \* the VibedApp, or None
    lastUid,  \* the API server's: the UID given out last
    blobs,    \* the keys in the tarball store
    lastKey,  \* the key minted last; keys are random, hence fresh
    shared,   \* the apps (by UID) that a live share link was made for
    req,      \* the requests
    stale,    \* history: those of shared that a delete failed to revoke, or
              \* that were inserted after it
    unsourced \* history: the app's create took effect and reported an error

vars == <<app, lastUid, blobs, lastKey, shared, req, stale, unsourced>>

-----------------------------------------------------------------------------
Records == [version: 1..MaxVersion, key: 1..MaxKeys]
Apps == [uid: 1..MaxUid, owner: Owners, ref: 1..MaxKeys, suspended: BOOLEAN,
         history: UNION {[1..n -> Records] : n \in 1..maxVersions}]

ASSUME NoneIsNoApp == None \notin Apps

Pcs == {"idle", "put", "create", "undo", "update", "evict", "delete", "revoke", "clean", "insert"}

\* seen: the copy that Get returned.  want: the app as the request will write
\* it.  drop: keys the request still has to delete from the store.
Calls == [pc: Pcs, owner: Owners \cup {None}, seen: Apps \cup {None},
          want: Apps \cup {None}, drop: SUBSET (1..MaxKeys)]

Idle == [pc |-> "idle", owner |-> None, seen |-> None,
         want |-> None, drop |-> {}]

Init ==
    /\ app = None
    /\ lastUid = 0
    /\ blobs = {}
    /\ lastKey = 0
    /\ shared = {}
    /\ req = [r \in Requests |-> Idle]
    /\ stale = {}
    /\ unsourced = FALSE

-----------------------------------------------------------------------------
Keys(history) == {history[i].key : i \in DOMAIN history}

\* Faulty variant: counts the records that are kept.
nextVersionByLength(history) == Len(history) + 1

nextVersion(history) ==
    1 + Max({0} \cup {history[i].version : i \in DOMAIN history})

\* appendCapped: the newest maxVersions records, and the keys that only
\* dropped records refer to.
Dropped(all) == SubSeq(all, 1, Len(all) - maxVersions)

Kept(all) == IF Len(all) <= maxVersions THEN all
             ELSE SubSeq(all, Len(all) - maxVersions + 1, Len(all))

\* Faulty variant: a key that a rollback still refers to is evicted too.
EvictedBlindly(all) == Keys(Dropped(all))

Evicted(all) == Keys(Dropped(all)) \ Keys(Kept(all))

Extended(history, key) ==
    Append(history, [version |-> nextVersion(history), key |-> key])

History(a) == IF a = None THEN <<>> ELSE a.history

\* A request with a copy of the app, and one with only sources left to delete.
Started(pc) == [Idle EXCEPT !.pc = pc, !.seen = app]
Leaving(pc, keys) == [Idle EXCEPT !.pc = pc, !.drop = keys]

-----------------------------------------------------------------------------
\* Faulty variant: whoever deploys under a taken name gets the app.
OpenToAll(o) == TRUE

\* The ownership gate of a redeploy.
MayDeploy(o) == app # None => app.owner = o \/ o \in Admins

\* Deploy up to the minting of the key: Get, and the ownership gate.  What the
\* classifier, the policy, the authoriser and the quota refuse is not begun.
Deploy(r) ==
    /\ req[r].pc = "idle"
    /\ \E o \in Owners :
          /\ MayDeploy(o)
          /\ req' = [req EXCEPT ![r] = [Started("put") EXCEPT !.owner = o]]
    /\ UNCHANGED <<app, lastUid, blobs, lastKey, shared, stale, unsourced>>

\* Store.Put under a fresh key, and the records and the spec to write.
PutSource(r) ==
    LET c == req[r]
        all == Extended(History(c.seen), lastKey + 1)
    IN
    /\ c.pc = "put"
    /\ \/ /\ lastKey < MaxKeys
          /\ nextVersion(History(c.seen)) <= MaxVersion
          /\ lastKey' = lastKey + 1
          /\ blobs' = blobs \cup {lastKey'}
          /\ req' = [req EXCEPT
                ![r].owner = None,
                ![r].pc = IF c.seen = None THEN "create" ELSE "update",
                ![r].drop = IF c.seen = None THEN {lastKey'} ELSE Evicted(all),
                ![r].want = [uid |-> IF c.seen = None THEN 1 ELSE c.seen.uid,
                             owner |-> c.owner, ref |-> lastKey', suspended |-> FALSE,
                             history |-> Kept(all)]]
       \/ req' = [req EXCEPT ![r] = Idle] /\ UNCHANGED <<lastKey, blobs>>
    /\ UNCHANGED <<app, lastUid, shared, stale, unsourced>>

\* Create.  An error deletes the source again, even when only the answer of a
\* create that took effect was lost.
CreateApp(r) ==
    LET c == req[r] IN
    /\ c.pc = "create"
    /\ \/ /\ app = None
          /\ lastUid < MaxUid
          /\ lastUid' = lastUid + 1
          /\ app' = [c.want EXCEPT !.uid = lastUid']
          /\ \/ req' = [req EXCEPT ![r] = Idle] /\ unsourced' = FALSE
             \/ req' = [req EXCEPT ![r] = Leaving("undo", c.drop)] /\ unsourced' = TRUE
       \/ /\ req' = [req EXCEPT ![r] = Leaving("undo", c.drop)]
          /\ UNCHANGED <<app, lastUid, unsourced>>
    /\ UNCHANGED <<blobs, lastKey, shared, stale>>

\* The resourceVersion guard: the app is the copy that was read.
UpdateFits(c) == app # None /\ app = c.seen

\* Update by a deploy, a rollback or a suspension.
UpdateApp(r) ==
    LET c == req[r] IN
    /\ c.pc = "update"
    /\ \/ /\ UpdateFits(c)
          /\ app' = c.want
          /\ \/ req' = [req EXCEPT ![r] = Leaving("evict", c.drop)]
             \/ req' = [req EXCEPT ![r] = Idle]
       \/ /\ req' = [req EXCEPT ![r] = Idle]
          /\ UNCHANGED app
    /\ UNCHANGED <<lastUid, blobs, lastKey, shared, stale, unsourced>>

\* Store.Delete, best effort: of the evicted keys, of the source of a failed
\* create, or of every source of a deleted app.
DropSources(r) ==
    LET c == req[r] IN
    /\ c.pc \in {"undo", "evict", "clean"}
    /\ \E gone \in SUBSET c.drop : blobs' = blobs \ gone
    /\ req' = [req EXCEPT ![r] = Idle]
    /\ UNCHANGED <<app, lastUid, lastKey, shared, stale, unsourced>>

\* Rollback up to its Update: a retained version becomes the newest again.
Rollback(r) ==
    /\ req[r].pc = "idle"
    /\ app # None
    /\ nextVersion(app.history) <= MaxVersion
    /\ \E i \in DOMAIN app.history :
          LET all == Extended(app.history, app.history[i].key) IN
          req' = [req EXCEPT ![r] =
                     [Started("update") EXCEPT
                         !.drop = Evicted(all),
                         !.want = [app EXCEPT !.ref = app.history[i].key,
                                              !.history = Kept(all)]]]
    /\ UNCHANGED <<app, lastUid, blobs, lastKey, shared, stale, unsourced>>

\* SetSuspended up to its Update.
SetSuspended(r) ==
    /\ req[r].pc = "idle"
    /\ app # None
    /\ req' = [req EXCEPT ![r] = [Started("update") EXCEPT
                                     !.want = [app EXCEPT !.suspended = ~@]]]
    /\ UNCHANGED <<app, lastUid, blobs, lastKey, shared, stale, unsourced>>

\* Delete up to the call that deletes: Get, and the ownership check.
Delete(r) ==
    /\ req[r].pc = "idle"
    /\ app # None
    /\ req' = [req EXCEPT ![r] = Leaving("delete", Keys(app.history))]
    /\ UNCHANGED <<app, lastUid, blobs, lastKey, shared, stale, unsourced>>

\* Client.Delete, by name.  Not found counts as done; after an error, of a
\* delete that took effect too, nothing else is done.
DeleteApp(r) ==
    /\ req[r].pc = "delete"
    /\ \/ /\ app' = None
          /\ req' = [req EXCEPT ![r].pc = "revoke"]
          /\ unsourced' = FALSE
          /\ UNCHANGED stale
       \/ /\ app # None
          /\ app' = None
          /\ req' = [req EXCEPT ![r] = Idle]
          /\ unsourced' = FALSE
          /\ stale' = stale \cup (shared \cap {app.uid})
       \/ /\ req' = [req EXCEPT ![r] = Idle]
          /\ UNCHANGED <<app, stale, unsourced>>
    /\ UNCHANGED <<lastUid, blobs, lastKey, shared>>

\* Faulty variant: links are left to the app that takes the name next.
RevokeNothing(r) ==
    /\ req[r].pc = "revoke"
    /\ req' = [req EXCEPT ![r].pc = "clean"]
    /\ UNCHANGED <<app, lastUid, blobs, lastKey, shared, stale, unsourced>>

\* Every link of the name is revoked, best effort.
RevokeLinks(r) ==
    /\ req[r].pc = "revoke"
    /\ \E failed \in SUBSET shared :
          /\ shared' = failed
          /\ stale' = failed
    /\ req' = [req EXCEPT ![r].pc = "clean"]
    /\ UNCHANGED <<app, lastUid, blobs, lastKey, unsourced>>

\* CreateShareLink: the ownership check, then the insertion.
CreateShareLink(r) ==
    /\ req[r].pc = "idle"
    /\ app # None
    /\ req' = [req EXCEPT ![r] = Started("insert")]
    /\ UNCHANGED <<app, lastUid, blobs, lastKey, shared, stale, unsourced>>

InsertLink(r) ==
    LET u == req[r].seen.uid IN
    /\ req[r].pc = "insert"
    /\ shared' = shared \cup {u}
    /\ stale' = IF app # None /\ app.uid = u THEN stale ELSE stale \cup {u}
    /\ req' = [req EXCEPT ![r] = Idle]
    /\ UNCHANGED <<app, lastUid, blobs, lastKey, unsourced>>

\* RevokeShareLink, by the owner of the app that has the name now.
RevokeShareLink ==
    /\ app # None
    /\ \E u \in shared : shared' = shared \ {u} /\ stale' = stale \ {u}
    /\ UNCHANGED <<app, lastUid, blobs, lastKey, req, unsourced>>

\* The vibed server restarts: what its requests had left to do is not done.
Crash ==
    /\ \E r \in Requests : req[r].pc # "idle"
    /\ stale' = IF \E r \in Requests : req[r].pc = "revoke" THEN shared ELSE stale
    /\ req' = [r \in Requests |-> Idle]
    /\ UNCHANGED <<app, lastUid, blobs, lastKey, shared, unsourced>>

Next ==
    \/ \E r \in Requests :
          \/ Deploy(r) \/ PutSource(r) \/ CreateApp(r) \/ UpdateApp(r) \/ DropSources(r)
          \/ Rollback(r) \/ SetSuspended(r) \/ Delete(r) \/ DeleteApp(r) \/ RevokeLinks(r)
          \/ CreateShareLink(r) \/ InsertLink(r)
    \/ RevokeShareLink \/ Crash

Spec == Init /\ [][Next]_vars

-----------------------------------------------------------------------------
TypeOK ==
    /\ app \in Apps \cup {None}
    /\ lastUid \in 0..MaxUid
    /\ blobs \subseteq 1..lastKey
    /\ lastKey \in 0..MaxKeys
    /\ shared \subseteq 1..lastUid
    /\ req \in [Requests -> Calls]
    /\ stale \subseteq shared
    /\ unsourced \in BOOLEAN

\* "Each version's source is retained under its own key so a rollback can
\* re-deploy it": every record in the history, the rolled-back ones that share
\* a key included, has its source in the store, whatever evictions and cleanups
\* of concurrent requests are still to come; except after a create whose answer
\* was lost.
RetainedSourcesStored ==
    app # None /\ ~unsourced => {app.ref} \cup Keys(app.history) \subseteq blobs

\* "the counter stays monotonic": the versions of one app's history ascend, and
\* a write that changes the history adds a version never given out before.
VersionsGrow ==
    [][app # None /\ app' # None /\ app'.uid = app.uid /\ app'.history # app.history =>
           /\ Len(app'.history) <= maxVersions
           /\ \A i \in DOMAIN app.history :
                 app.history[i].version < app'.history[Len(app'.history)].version
           /\ \A i, j \in DOMAIN app'.history :
                 i < j => app'.history[i].version < app'.history[j].version]_app

\* A redeploy takes no app over, unless an admin does it: the ownership gate
\* looks at a copy, and still an app that another owner created under the name
\* meanwhile is not overwritten.
NoTakeover ==
    [][app # None /\ app' # None =>
           app'.uid = app.uid /\ (app'.owner = app.owner \/ app'.owner \in Admins)]_app

\* A link never re-binds to the app that takes the name next: a live link was
\* made for the app that has the name, or its delete is about to revoke it,
\* except for the links whose revocation failed or that came too late.
LinksFollowApp ==
    \A u \in shared :
        \/ u \in stale
        \/ app # None /\ app.uid = u
        \/ \E r \in Requests : req[r].pc = "revoke"
=============================================================================
