------------------------------ MODULE Accounts ------------------------------
(***************************************************************************)
(* Who a request is and what its caller may administer: the token          *)
(* verifiers, the identity cache and the suspended-user check of           *)
(* src/internal/auth, the user and department tables of the SQLite store,  *)
(* and the handlers of src/internal/frontend and src/internal/mcp that     *)
(* edit them.                                                              *)
(*                                                                         *)
(* A request is a sequence of store and API-server calls.  Each call is an *)
(* action of its own, together with the in-memory work that follows it, so *)
(* that requests interleave between a read of a row and the write of it.   *)
(* Time is counted in units of which TTL make up auth.identityCacheTTL.    *)
(***************************************************************************)
EXTENDS Integers, FiniteSets

CONSTANTS
    Requests,     \* requests in flight at once
    KeyIds,       \* the ids of the statically configured API keys
    Subjects,     \* what an OIDC token or X-Forwarded-User may name
    LocalIds,     \* the ids POST /api/users generates
    NameOf,       \* by id: key name, username claim or body name
    KeyRole,      \* by id: its role in the role map, None if it has no static key
    DeptOf,       \* by id: the department its key or its claims name, or None
    DeptNames,
    FreshDepts,   \* ids generated from the clock, each once
    SlugDept,     \* by name: the id resolveOIDCDepartment derives from it
    NsOf,         \* by name: its tenant namespace, lower-cased, blanks as dashes
    Edits,        \* the values a PATCH gives: roles and statuses
    Modes,        \* the auth.mode values a process may be started with
    TTL,
    None,
    MaxEvents     \* bound: arrivals, failed store calls and restarts together

Ids == KeyIds \cup Subjects \cup LocalIds
DeptIds == FreshDepts \cup {SlugDept[n] : n \in DeptNames}
Namespaces == {NsOf[n] : n \in DeptNames}
Roles == {"admin", "user"}

ASSUME AccountsAssumption ==
    /\ KeyRole \in [Ids -> Roles \cup {None}]
    /\ \A k \in KeyIds : KeyRole[k] # None
    /\ DeptOf \in [Ids -> DeptNames \cup {None}]
    /\ SlugDept \in [DeptNames -> DeptIds]
    /\ Modes \subseteq {"apikey", "oidc", "oauth"}
    /\ Edits \subseteq Roles \cup {"active", "suspended"}
    /\ TTL \in Nat
    /\ MaxEvents \in Nat
    /\ None \notin Ids \cup DeptIds \cup DeptNames \cup Namespaces \cup Roles
    /\ None \notin {"active", "suspended"} /\ None \notin 0..(TTL + 1)

\* Ids generated from the clock are nobody's subject and no department's slug.
ASSUME GeneratedIds ==
    /\ LocalIds \cap Subjects = {}
    /\ \A n \in DeptNames : SlugDept[n] \notin FreshDepts

VARIABLES
    mode,        \* auth.mode of the running process
    users,       \* the users table, by id
    depts,       \* the departments table, by id
    issued,      \* the ids of FreshDepts generated so far
    namespaces,  \* the cluster's tenant namespaces, by name: the label on each
    cache,       \* identityResolver.cache
    synced,      \* oidcSyncer.cache: the claims last persisted
    latched,     \* the static keys whose provisionLatch is done
    req,
    events,      \* how many there have been, of those MaxEvents events
    suspended,   \* history: for how long an administrator has had the user suspended
    overtaken,   \* history: users whose suspension met a copy of the row read
                 \* before it
    failed       \* history: users for whom a store call failed

vars == <<mode, users, depts, issued, namespaces, cache, synced, latched, req, events,
          suspended, overtaken, failed>>

memory == <<mode, cache, synced, latched>>
history == <<suspended, overtaken, failed>>

-----------------------------------------------------------------------------
\* The columns some property tells apart; a user's department is left out.
Users == [role: Roles, status: {"active", "suspended"}, provider: {"local", "oidc"}]
Depts == [name: DeptNames, ns: Namespaces \cup {None}]

ASSUME NoneIsNoRow == None \notin Users \cup Depts

\* The call a request makes next.
Stages == {"idle", "latch", "provdept", "provmake", "dept", "sync", "syncwrite",
           "syncmake", "resolve", "put", "serve", "userwrite", "deptrow",
           "deptundo", "deptwrite", "deptdrop", "nsdrop"}

\* row: the user row read, to be cached or written back, and in "serve" the
\* resolved identity.  target: the id administered.  intent: the status a
\* PATCH or DELETE sets, None if it leaves it alone.  role: the role in the
\* token's claims.  late (history): at its arrival the user had been
\* suspended for more than one TTL, and has been since.
Calls == [pc: Stages, id: Ids \cup {None}, late: BOOLEAN, role: Roles \cup {None},
          row: Users \cup Depts \cup {None},
          target: Ids \cup DeptIds \cup {None},
          intent: {"active", "suspended", None}]

Idle == [pc |-> "idle", id |-> None, late |-> FALSE, role |-> None, row |-> None,
         target |-> None, intent |-> None]

\* The tables, the caches and the calls under way have their shape.
TypeOK ==
    /\ mode \in Modes
    /\ users \in [Ids -> Users \cup {None}]
    /\ depts \in [DeptIds -> Depts \cup {None}]
    /\ issued \in SUBSET FreshDepts
    /\ namespaces \in [Namespaces -> DeptIds \cup {None}]
    /\ cache \in [Ids -> [row: Users, left: 0..TTL] \cup {None}]
    /\ synced \in [Ids -> [role: Roles, left: 0..TTL] \cup {None}]
    /\ latched \in SUBSET KeyIds
    /\ req \in [Requests -> Calls]
    /\ events \in 0..MaxEvents
    /\ suspended \in [Ids -> 0..(TTL + 1) \cup {None}]
    /\ overtaken \in SUBSET Ids /\ failed \in SUBSET Ids

\* bootstrapAPIKeyUsers, before the server listens: a row for every static key
\* whose name and id are free, or none where the store fails.  us: the table.
Bootstrapped(m, us) ==
    LET free == {k \in KeyIds : \A v \in Ids :
                    us[v] # None => v # k /\ NameOf[v] # NameOf[k]}
        Row(k) == [role |-> KeyRole[k], status |-> "active", provider |-> "local"] IN
    IF m # "apikey" THEN {us}
    ELSE {[u \in Ids |-> IF u \in made THEN Row(u) ELSE us[u]] : made \in SUBSET free}

\* A fresh database: migrations leave the user and department tables empty.
Init ==
    /\ mode \in Modes
    /\ users \in Bootstrapped(mode, [u \in Ids |-> None])
    /\ depts = [d \in DeptIds |-> None]
    /\ issued = {}
    /\ namespaces = [n \in Namespaces |-> None]
    /\ cache = [u \in Ids |-> None]
    /\ synced = [u \in Ids |-> None]
    /\ latched = {}
    /\ req = [r \in Requests |-> Idle]
    /\ events = 0
    /\ suspended = [u \in Ids |-> None]
    /\ overtaken = {} /\ failed = {}

-----------------------------------------------------------------------------
(* The store.                                                              *)

Exists(u) == users[u] # None

\* CreateUser succeeds: id and name are both UNIQUE.
Creatable(u) == \A v \in Ids : Exists(v) => v # u /\ NameOf[v] # NameOf[u]

\* GetDepartmentByName
DeptNamed(n) == {d \in DeptIds : depts[d] # None /\ depts[d].name = n}

\* CreateDepartment: id and name are UNIQUE, the namespace is not.
CreateDepartment(d, n, ns) ==
    /\ depts[d] = None /\ DeptNamed(n) = {}
    /\ depts' = [depts EXCEPT ![d] = [name |-> n, ns |-> ns]]

Event == events < MaxEvents /\ events' = events + 1

\* fmt.Sprintf("dept-%x", now.UnixNano())
Issue(d) == d \in FreshDepts \ issued /\ issued' = issued \cup {d}

\* A call to the store fails for u, without effect.
StoreFails(u) ==
    /\ Event
    /\ failed' = failed \cup {u}
    /\ UNCHANGED <<suspended, overtaken>>

Goto(r, pc) == req' = [req EXCEPT ![r].pc = pc]
At(r, pc) == req[r].pc = pc
Reply(r) == req' = [req EXCEPT ![r] = Idle]

-----------------------------------------------------------------------------
(* The verifiers.                                                          *)

\* The user's suspension is more than one TTL old.
Overdue(u) == suspended[u] = TTL + 1

Arrive(r, u, pc, role) ==
    /\ At(r, "idle") /\ Event
    /\ req' = [req EXCEPT ![r] = [Idle EXCEPT !.pc = pc, !.id = u, !.role = role,
                                              !.late = Overdue(u)]]
    /\ UNCHANGED <<mode, users, depts, issued, namespaces, cache, synced, latched,
                   history>>

\* apiKeyVerifier: a static key goes to its latch, a runtime-generated one is
\* looked up by its hash.
PresentKey(r, u) ==
    /\ mode = "apikey"
    /\ \/ u \in KeyIds /\ Arrive(r, u, "latch", None)
       \/ u \in LocalIds /\ Exists(u) /\ Arrive(r, u, "resolve", None)

\* provisionLatch.provision: done at once when latched, else under its mutex,
\* whose holder is past "latch".
LatchFree(r) == \A q \in Requests \ {r} :
                   ~(req[q].id = req[r].id /\ req[q].pc \in {"provdept", "provmake"})

Provision(r) ==
    /\ At(r, "latch")
    /\ \/ req[r].id \in latched /\ Goto(r, "resolve") /\ UNCHANGED latched
       \/ /\ req[r].id \notin latched /\ LatchFree(r)
          /\ IF Exists(req[r].id)
             THEN /\ latched' = latched \cup {req[r].id}
                  /\ Goto(r, "resolve")
             ELSE /\ Goto(r, IF DeptOf[req[r].id] = None THEN "provmake" ELSE "provdept")
                  /\ UNCHANGED latched
    /\ UNCHANGED <<mode, users, depts, issued, namespaces, cache, synced, events, history>>

\* autoProvisionAPIKeyUser: the configured department, created under a fresh
\* id when no row has its name; unresolved, the latch stays open.
ProvisionDept(r) ==
    LET n == DeptOf[req[r].id] IN
    /\ At(r, "provdept")
    /\ \/ /\ DeptNamed(n) # {} /\ Goto(r, "provmake")
          /\ UNCHANGED <<depts, issued, events, failed>>
       \/ /\ \E d \in FreshDepts : Issue(d) /\ CreateDepartment(d, n, None)
          /\ Goto(r, "provmake") /\ UNCHANGED <<events, failed>>
       \/ StoreFails(req[r].id) /\ Goto(r, "resolve") /\ UNCHANGED <<depts, issued>>
    /\ UNCHANGED <<users, namespaces, memory, suspended, overtaken>>

\* Faulty variant: the attempt latches, as a sync.Once does.
ProvisionCreateOnce(r) ==
    LET u == req[r].id IN
    /\ At(r, "provmake") /\ Goto(r, "resolve")
    /\ latched' = latched \cup {u}
    /\ \/ /\ Creatable(u) /\ UNCHANGED <<events, failed>>
          /\ users' = [users EXCEPT ![u] = [role |-> KeyRole[u], status |-> "active",
                                            provider |-> "local"]]
       \/ StoreFails(u) /\ UNCHANGED users
    /\ UNCHANGED <<mode, depts, issued, namespaces, cache, synced, suspended, overtaken>>

\* ... and the row.  Success is durable: the row is there, made by this call
\* or by another.
ProvisionCreate(r) ==
    LET u == req[r].id
        row == [role |-> KeyRole[u], status |-> "active", provider |-> "local"] IN
    /\ At(r, "provmake") /\ Goto(r, "resolve")
    /\ \/ /\ Creatable(u)
          /\ users' = [users EXCEPT ![u] = row]
          /\ latched' = latched \cup {u}
          /\ UNCHANGED <<events, failed>>
       \/ /\ ~Creatable(u)
          /\ latched' = IF Exists(u) THEN latched \cup {u} ELSE latched
          /\ UNCHANGED <<users, events, failed>>
       \/ StoreFails(u) /\ UNCHANGED <<users, latched>>
    /\ UNCHANGED <<mode, depts, issued, namespaces, cache, synced, suspended, overtaken>>

\* oauthPassthroughVerifier: X-Forwarded-User from a trusted proxy is the
\* identity; no account is provisioned.
PresentForwarded(r, u) == mode = "oauth" /\ u \in Subjects /\ Arrive(r, u, "resolve", None)

\* newOIDCVerifier and oidcSyncer.sync: the claims of the last persisted
\* sync, within the TTL, skip the store.
Fresh(entry) == entry # None

PresentToken(r, u, role) ==
    /\ mode = "oidc" /\ u \in Subjects
    /\ \/ /\ Fresh(synced[u]) /\ synced[u].role = role
          /\ Arrive(r, u, "resolve", None)
       \/ /\ ~(Fresh(synced[u]) /\ synced[u].role = role)
          /\ Arrive(r, u, IF DeptOf[u] = None THEN "sync" ELSE "dept", role)

\* resolveOIDCDepartment
SyncDept(r) ==
    LET n == DeptOf[req[r].id] IN
    /\ At(r, "dept") /\ Goto(r, "sync")
    /\ \/ DeptNamed(n) # {} /\ UNCHANGED <<depts, events, failed>>
       \/ CreateDepartment(SlugDept[n], n, None) /\ UNCHANGED <<events, failed>>
       \/ \* the slug's row was renamed
          DeptNamed(n) = {} /\ depts[SlugDept[n]] # None /\ UNCHANGED <<depts, events, failed>>
       \/ StoreFails(req[r].id) /\ UNCHANGED depts
    /\ UNCHANGED <<users, issued, namespaces, memory, suspended, overtaken>>

\* The claims are persisted: remember them, and go on to the identity.
Persisted(r) ==
    /\ synced' = [synced EXCEPT ![req[r].id] = [role |-> req[r].role, left |-> TTL]]
    /\ req' = [req EXCEPT ![r].pc = "resolve", ![r].row = None, ![r].role = None]

\* ... or they are not, and the next login tries again.
Unpersisted(r) ==
    /\ req' = [req EXCEPT ![r].pc = "resolve", ![r].row = None, ![r].role = None]
    /\ UNCHANGED synced

\* Faulty variant: any account with the subject's id is taken over.
SyncReadAnyProvider(r) ==
    LET u == req[r].id IN
    /\ At(r, "sync")
    /\ IF Exists(u) THEN Persisted(r) ELSE Goto(r, "syncmake") /\ UNCHANGED synced
    /\ UNCHANGED <<mode, users, depts, issued, namespaces, cache, latched, events, history>>

\* syncOIDCUser reads the row.  A row of another provider refuses the token;
\* a changed claim is to be written; a failed read counts as no row.
SyncRead(r) ==
    LET u == req[r].id
        old == users[u]
        new == [old EXCEPT !.role = req[r].role] IN
    /\ At(r, "sync")
    /\ \/ /\ Exists(u) /\ old.provider # "oidc"
          /\ Reply(r) /\ UNCHANGED <<synced, events, failed>>
       \/ /\ Exists(u) /\ old.provider = "oidc"
          /\ IF new = old
             THEN Persisted(r)
             ELSE req' = [req EXCEPT ![r].pc = "syncwrite", ![r].row = new] /\ UNCHANGED synced
          /\ UNCHANGED <<events, failed>>
       \/ ~Exists(u) /\ Goto(r, "syncmake") /\ UNCHANGED <<synced, events, failed>>
       \/ StoreFails(u) /\ Goto(r, "syncmake") /\ UNCHANGED synced
    /\ UNCHANGED <<mode, users, depts, issued, namespaces, cache, latched, suspended, overtaken>>

\* UpdateUser writes the whole row back, status included.
SyncWrite(r) ==
    /\ At(r, "syncwrite")
    /\ \/ /\ users' = [users EXCEPT ![req[r].id] = req[r].row]
          /\ Persisted(r) /\ UNCHANGED <<events, failed>>
       \/ StoreFails(req[r].id) /\ Unpersisted(r) /\ UNCHANGED users
    /\ UNCHANGED <<mode, depts, issued, namespaces, cache, latched, suspended, overtaken>>

\* CreateUser; a conflict on the id or on the name, like any other error, is
\* taken for a lost race and the caller goes on.
SyncCreate(r) ==
    LET u == req[r].id
        row == [role |-> req[r].role, status |-> "active", provider |-> "oidc"] IN
    /\ At(r, "syncmake")
    /\ \/ /\ Creatable(u)
          /\ users' = [users EXCEPT ![u] = row]
          /\ Persisted(r) /\ UNCHANGED <<events, failed>>
       \/ ~Creatable(u) /\ Unpersisted(r) /\ UNCHANGED <<users, events, failed>>
       \/ StoreFails(u) /\ Unpersisted(r) /\ UNCHANGED users
    /\ UNCHANGED <<mode, depts, issued, namespaces, cache, latched, suspended, overtaken>>

-----------------------------------------------------------------------------
(* The identity, the suspended-user check and the role.                    *)

\* statusChecker: a suspended identity is answered 401; an unknown one is let
\* through.
CheckStatus(r, row) ==
    IF row # None /\ row.status = "suspended"
    THEN Reply(r)
    ELSE req' = [req EXCEPT ![r].pc = "serve", ![r].row = row]

\* identityResolver.Resolve up to the store's answer.
Resolve(r) ==
    LET u == req[r].id IN
    /\ At(r, "resolve")
    /\ \/ Fresh(cache[u]) /\ CheckStatus(r, cache[u].row) /\ UNCHANGED <<events, failed>>
       \/ /\ ~Fresh(cache[u]) /\ Exists(u)
          /\ req' = [req EXCEPT ![r].pc = "put", ![r].row = users[u]]
          /\ UNCHANGED <<events, failed>>
       \/ /\ ~Fresh(cache[u])
          /\ \/ ~Exists(u) /\ UNCHANGED <<events, failed>>
             \/ StoreFails(u)
          /\ CheckStatus(r, None)
    /\ UNCHANGED <<users, depts, issued, namespaces, memory, suspended, overtaken>>

\* ... and its caching: the TTL runs from here, not from the read.
CacheIdentity(r) ==
    /\ At(r, "put")
    /\ cache' = [cache EXCEPT ![req[r].id] = [row |-> req[r].row, left |-> TTL]]
    /\ CheckStatus(r, req[r].row)
    /\ UNCHANGED <<mode, users, depts, issued, namespaces, synced, latched, events, history>>

\* RoleMiddleware: the role map, then the identity, then the store.
Role(r) ==
    LET u == req[r].id IN
    IF KeyRole[u] # None THEN KeyRole[u]
    ELSE IF req[r].row # None THEN req[r].row.role
    ELSE IF Exists(u) THEN users[u].role ELSE "user"

IsAdmin(r) == At(r, "serve") /\ Role(r) = "admin"

\* Everything that reads, and everything refused to a caller who is no
\* administrator: the account tables stay as they are.
ServeOther(r) == At(r, "serve") /\ Reply(r)
                 /\ UNCHANGED <<users, depts, issued, namespaces, memory, events, history>>

-----------------------------------------------------------------------------
(* Users: POST /api/users, PATCH and DELETE /api/users/{id}.               *)

CreateUser(r, u, role) ==
    /\ IsAdmin(r) /\ u \in LocalIds /\ ~Exists(u)
    /\ users' = IF Creatable(u)
                THEN [users EXCEPT ![u] = [role |-> role, status |-> "active",
                                           provider |-> "local"]]
                ELSE users
    /\ Reply(r)
    /\ UNCHANGED <<depts, issued, namespaces, memory, events, history>>

\* GetUser, and the edit of the copy it returned.
EditUser(r, u, new, intent) ==
    /\ IsAdmin(r) /\ Exists(u)
    /\ req' = [req EXCEPT ![r].pc = "userwrite", ![r].row = new, ![r].target = u,
                          ![r].intent = intent]
    /\ UNCHANGED <<users, depts, issued, namespaces, memory, events, history>>

PatchRole(r, u, role) == Exists(u) /\ EditUser(r, u, [users[u] EXCEPT !.role = role], None)
SetStatus(r, u, status) ==
    Exists(u) /\ EditUser(r, u, [users[u] EXCEPT !.status = status], status)

\* A copy of u's row, read and still to be cached or written back.
Holds(q, u) == \/ req[q].pc \in {"syncwrite", "put"} /\ req[q].id = u
               \/ req[q].pc = "userwrite" /\ req[q].target = u

\* UpdateUser with the edited copy: the last write wins.
WriteUser(r) ==
    LET u == req[r].target IN
    /\ At(r, "userwrite")
    /\ users' = [users EXCEPT ![u] = req[r].row]
    /\ req' = [q \in Requests |->
                 IF q = r THEN Idle
                 ELSE IF req[q].id = u /\ req[r].intent = "active"
                      THEN [req[q] EXCEPT !.late = FALSE] ELSE req[q]]
    /\ suspended' = CASE req[r].intent = "suspended" -> [suspended EXCEPT ![u] = 0]
                        [] req[r].intent = "active" -> [suspended EXCEPT ![u] = None]
                        [] OTHER -> suspended
    /\ overtaken' = IF req[r].intent = "suspended" /\ \E q \in Requests \ {r} : Holds(q, u)
                    THEN overtaken \cup {u} ELSE overtaken
    /\ UNCHANGED <<depts, issued, namespaces, memory, events, failed>>

-----------------------------------------------------------------------------
(* Departments: POST /api/departments, PATCH and DELETE                    *)
(* /api/departments/{id}, and the MCP tool create_department.              *)

\* The tool writes a row without a namespace.
CreateDepartmentTool(r, d, n) ==
    /\ IsAdmin(r) /\ Issue(d)
    /\ \/ CreateDepartment(d, n, None)
       \/ DeptNamed(n) # {} /\ UNCHANGED depts
    /\ Reply(r)
    /\ UNCHANGED <<users, namespaces, memory, events, history>>

\* Faulty variant: a namespace that exists already will do.
ProvisionNamespaceIfAbsent(r, d, n) ==
    /\ IsAdmin(r) /\ Issue(d)
    /\ namespaces' = [namespaces EXCEPT ![NsOf[n]] = IF @ = None THEN d ELSE @]
    /\ req' = [req EXCEPT ![r].pc = "deptrow", ![r].target = d,
                          ![r].row = [name |-> n, ns |-> NsOf[n]]]
    /\ UNCHANGED <<users, depts, memory, events, history>>

\* handleDepartments: the namespace first.  The API server refuses a name it
\* has.
ProvisionNamespace(r, d, n) ==
    /\ IsAdmin(r) /\ Issue(d)
    /\ IF namespaces[NsOf[n]] # None
       THEN Reply(r) /\ UNCHANGED namespaces
       ELSE /\ namespaces' = [namespaces EXCEPT ![NsOf[n]] = d]
            /\ req' = [req EXCEPT ![r].pc = "deptrow", ![r].target = d,
                                  ![r].row = [name |-> n, ns |-> NsOf[n]]]
    /\ UNCHANGED <<users, depts, memory, events, history>>

\* ... then the row, and the namespace back when that fails.
InsertDepartment(r) ==
    LET row == req[r].row IN
    /\ At(r, "deptrow")
    /\ \/ /\ CreateDepartment(req[r].target, row.name, row.ns)
          /\ Reply(r) /\ UNCHANGED <<events, failed>>
       \/ DeptNamed(row.name) # {} /\ Goto(r, "deptundo") /\ UNCHANGED <<depts, events, failed>>
       \/ StoreFails(req[r].id) /\ Goto(r, "deptundo") /\ UNCHANGED depts
    /\ UNCHANGED <<users, issued, namespaces, memory, suspended, overtaken>>

\* Namespaces().Delete, whose error is ignored.
DropNamespace(r, ns) == \/ namespaces' = [namespaces EXCEPT ![ns] = None]
                        \/ UNCHANGED namespaces

UndoNamespace(r) ==
    /\ At(r, "deptundo")
    /\ DropNamespace(r, req[r].row.ns) /\ Reply(r)
    /\ UNCHANGED <<users, depts, issued, memory, events, history>>

\* PATCH: GetDepartment, then UpdateDepartment with the edited copy.
RenameDepartment(r, d, n) ==
    /\ IsAdmin(r) /\ depts[d] # None
    /\ req' = [req EXCEPT ![r].pc = "deptwrite", ![r].target = d,
                          ![r].row = [depts[d] EXCEPT !.name = n]]
    /\ UNCHANGED <<users, depts, issued, namespaces, memory, events, history>>

WriteDepartment(r) ==
    LET d == req[r].target IN
    /\ At(r, "deptwrite")
    /\ depts' = IF depts[d] # None /\ DeptNamed(req[r].row.name) \subseteq {d}
                THEN [depts EXCEPT ![d] = req[r].row] ELSE depts
    /\ Reply(r)
    /\ UNCHANGED <<users, issued, namespaces, memory, events, history>>

\* DELETE: GetDepartment, for its namespace.
DeleteDepartment(r, d) ==
    /\ IsAdmin(r) /\ depts[d] # None
    /\ req' = [req EXCEPT ![r].pc = "deptdrop", ![r].target = d, ![r].row = depts[d]]
    /\ UNCHANGED <<users, depts, issued, namespaces, memory, events, history>>

\* SQLiteStore.DeleteDepartment clears its members, then deletes the row; a
\* row already gone ends the request there.
DropRow(r) ==
    LET d == req[r].target IN
    /\ At(r, "deptdrop")
    /\ depts' = [depts EXCEPT ![d] = None]
    /\ IF depts[d] = None \/ req[r].row.ns = None THEN Reply(r) ELSE Goto(r, "nsdrop")
    /\ UNCHANGED <<users, issued, namespaces, memory, events, history>>

CascadeNamespace(r) ==
    /\ At(r, "nsdrop")
    /\ DropNamespace(r, req[r].row.ns) /\ Reply(r)
    /\ UNCHANGED <<users, depts, issued, memory, events, history>>

-----------------------------------------------------------------------------
\* Faulty variants: an entry never expires; one outlives its time.
Forever(entry) == entry
AgePast(entry) == IF entry = None THEN None ELSE [entry EXCEPT !.left = @ - 1]

\* One unit of time off what an entry has left.
Age(entry) == IF entry = None THEN None
              ELSE IF entry.left = 0 THEN None ELSE [entry EXCEPT !.left = @ - 1]

\* Time passes.
Tick ==
    /\ cache' = [u \in Ids |-> Age(cache[u])]
    /\ synced' = [u \in Ids |-> Age(synced[u])]
    /\ suspended' = [u \in Ids |-> IF suspended[u] \in 0..TTL THEN suspended[u] + 1
                                   ELSE suspended[u]]
    /\ UNCHANGED <<mode, users, depts, issued, namespaces, latched, req, events, overtaken, failed>>

\* The server restarts, possibly with another auth.mode: the tables and the
\* cluster stay, requests, caches and latches are gone, static keys are seeded.
Restart(m) ==
    /\ Event
    /\ mode' = m
    /\ users' \in Bootstrapped(m, users)
    /\ cache' = [u \in Ids |-> None] /\ synced' = [u \in Ids |-> None] /\ latched' = {}
    /\ req' = [r \in Requests |-> Idle]
    /\ UNCHANGED <<depts, issued, namespaces, history>>

Authenticate(r) ==
    \/ \E u \in Ids : PresentKey(r, u) \/ PresentForwarded(r, u)
    \/ \E u \in Ids, role \in Roles : PresentToken(r, u, role)
    \/ Provision(r) \/ ProvisionDept(r) \/ ProvisionCreate(r)
    \/ SyncDept(r) \/ SyncRead(r) \/ SyncWrite(r) \/ SyncCreate(r)
    \/ Resolve(r) \/ CacheIdentity(r)

Administer(r) ==
    \/ ServeOther(r)
    \/ \E u \in Ids, role \in Roles : CreateUser(r, u, role)
    \/ \E u \in Ids, role \in Edits \cap Roles : PatchRole(r, u, role)
    \/ \E u \in Ids, status \in Edits \ Roles : SetStatus(r, u, status)
    \/ WriteUser(r)
    \/ \E d \in DeptIds, n \in DeptNames :
          CreateDepartmentTool(r, d, n) \/ ProvisionNamespace(r, d, n) \/ RenameDepartment(r, d, n)
    \/ InsertDepartment(r) \/ UndoNamespace(r) \/ WriteDepartment(r)
    \/ \E d \in DeptIds : DeleteDepartment(r, d)
    \/ DropRow(r) \/ CascadeNamespace(r)

Next ==
    \/ \E r \in Requests : Authenticate(r) \/ Administer(r)
    \/ \E m \in Modes : Restart(m)
    \/ Tick

Spec == Init /\ [][Next]_vars

-----------------------------------------------------------------------------
\* "a suspension or role edit takes effect within at most one TTL"
\* (identity.go:116): a request that arrives more than one TTL after an
\* administrator suspended its user is not served, while the store answers.
SuspensionTakesEffect ==
    \A r \in Requests : req[r].pc = "serve" /\ req[r].id \notin failed => ~req[r].late

\* ... unless a copy of the row read before the suspension was cached or
\* written back after it: a re-sync, another edit, a slow lookup.
SuspensionUnlessOvertaken ==
    \A r \in Requests :
       req[r].pc = "serve" /\ req[r].id \notin failed \cup overtaken => ~req[r].late

\* A latch is durable success: no key stops provisioning without a row
\* (apiKeyVerifier's comment: "the latch only trips on DURABLE success").
LatchMeansRecord == \A k \in latched : Exists(k)

\* An OIDC subject is never served as an account of another provider, across
\* changes of auth.mode, cached syncs and concurrent provisioning, while the
\* store answers.
BindKeepsProvider ==
    \A r \in Requests :
       mode = "oidc" /\ req[r].pc \in {"resolve", "put", "serve"} /\ Exists(req[r].id)
       /\ req[r].id \notin failed
          => users[req[r].id].provider = "oidc"

\* A department's namespace exists and is its own, whatever creations,
\* renames, deletions, failures and restarts interleave.
NamespaceIsOwn ==
    \A d \in DeptIds : depts[d] # None /\ depts[d].ns # None => namespaces[depts[d].ns] = d
=============================================================================
