--------------------------- MODULE AccountsProofs ---------------------------
(***************************************************************************)
(* Proofs about accounts: what the caches, the latches, the namespaces and *)
(* the copies of rows that requests carry around promise, for any number   *)
(* of requests, users, departments, failures and restarts.                 *)
(***************************************************************************)
EXTENDS Accounts, TLAPS

-----------------------------------------------------------------------------
(* Types, with what a request carries at each of its stages.               *)

DeptStages == {"deptrow", "deptundo", "nsdrop", "deptwrite", "deptdrop"}

Carries(c) ==
    /\ c.pc # "idle" => c.id \in Ids
    /\ c.pc \in {"latch", "provdept", "provmake"} => c.id \in KeyIds
    /\ c.pc \in {"provdept", "dept"} => DeptOf[c.id] # None
    /\ c.pc \in {"dept", "sync", "syncwrite", "syncmake"} => c.role \in Roles
    /\ c.pc \in {"syncwrite", "put"} => c.row \in Users
    /\ c.pc = "serve" => c.row \in Users \cup {None}
    /\ c.pc = "userwrite" => c.row \in Users /\ c.target \in Ids
    /\ c.pc \in DeptStages => c.row \in Depts /\ c.target \in DeptIds
    /\ c.pc \in {"deptrow", "deptundo", "nsdrop"} => c.row.ns # None

TypeInv == TypeOK /\ \A r \in Requests : Carries(req[r])

-----------------------------------------------------------------------------
(* The provider of an account never changes.                               *)

\* Past the check of the row's provider.
Bound(c) == mode = "oidc" /\ c.pc \in {"syncmake", "resolve", "put", "serve"}

\* What request c relies on.
ProviderOk(c) ==
    /\ c.pc \in {"latch", "provdept", "provmake"} => mode = "apikey"
    /\ c.pc \in {"dept", "sync", "syncwrite", "syncmake"} => mode = "oidc"
    /\ mode = "oidc" /\ c.pc \in {"dept", "sync", "syncwrite", "syncmake", "resolve", "put", "serve"}
          => c.id \in Subjects
    /\ c.pc = "syncwrite" => Exists(c.id) /\ users[c.id].provider = "oidc"
                             /\ c.row.provider = "oidc"
    /\ c.pc = "userwrite" => Exists(c.target) /\ c.row.provider = users[c.target].provider
    /\ Bound(c) /\ Exists(c.id) /\ c.id \notin failed => users[c.id].provider = "oidc"

ProviderInv ==
    /\ \A r \in Requests : ProviderOk(req[r])
    /\ \A u \in Ids : synced[u] # None => Exists(u) /\ users[u].provider = "oidc"

-----------------------------------------------------------------------------
(* Departments and their namespaces.                                       *)

\* What request c, at work on a department, relies on: the namespace it made
\* or is to drop is that department's; the copy it read has its namespace.
DeptOk(c) ==
    /\ c.pc \in {"deptrow", "deptundo", "nsdrop"} =>
          /\ c.target \in FreshDepts
          /\ depts[c.target] = None
          /\ namespaces[c.row.ns] = c.target
    /\ c.pc \in {"deptwrite", "deptdrop"} =>
          /\ c.target \notin FreshDepts => c.row.ns = None
          /\ depts[c.target] # None => c.row.ns = depts[c.target].ns

DepartmentInv ==
    /\ NamespaceIsOwn
    /\ \A d \in DeptIds : depts[d] # None /\ d \notin FreshDepts => depts[d].ns = None
    /\ \A d \in FreshDepts \ issued :
          /\ depts[d] = None
          /\ \A n \in Namespaces : namespaces[n] # d
          /\ \A r \in Requests : req[r].pc \in DeptStages => req[r].target # d
    /\ \A r \in Requests : DeptOk(req[r])
    /\ \A r, q \in Requests : r # q /\ req[r].target = req[q].target =>
          /\ req[r].pc \in {"deptrow", "deptundo"} => req[q].pc \notin DeptStages
          /\ req[r].pc = "nsdrop" => req[q].pc # "nsdrop"

-----------------------------------------------------------------------------
(* Suspension.                                                             *)

\* What request q knows of suspensions: a copy it holds of a suspended user's
\* row says so, unless it is the one that lifts the suspension; a late request
\* is of a suspended user, and finds nothing else cached.
SuspensionOk(q) ==
    /\ \A u \in Ids : suspended[u] # None /\ u \notin overtaken /\ Holds(q, u) =>
          req[q].row.status = "suspended" \/ (req[q].pc = "userwrite" /\ req[q].intent = "active")
    /\ req[q].late => req[q].id \in Ids
    /\ req[q].late /\ req[q].id \notin overtaken =>
          /\ suspended[req[q].id] # None
          /\ cache[req[q].id] # None => cache[req[q].id].row.status = "suspended"
    /\ req[q].pc = "userwrite" /\ req[q].intent = "suspended" => req[q].row.status = "suspended"
    /\ req[q].pc = "serve" /\ req[q].id \notin failed \cup overtaken => ~req[q].late

SuspensionInv ==
    /\ \A u \in Ids : suspended[u] # None /\ u \notin overtaken =>
          /\ Exists(u) /\ users[u].status = "suspended"
          /\ cache[u] # None /\ cache[u].row.status # "suspended" => suspended[u] + cache[u].left <= TTL
    /\ \A r \in Requests : SuspensionOk(r)

-----------------------------------------------------------------------------
(* The forms in which actions update a request.                            *)

\* Request r goes on with these fields, the others stay.
Turns(r, p, i, l, ro, rw, tg, it) ==
    /\ req' \in [Requests -> Calls]
    /\ \A q \in Requests \ {r} : req'[q] = req[q]
    /\ req'[r].pc = p /\ req'[r].id = i /\ req'[r].late = l /\ req'[r].role = ro
    /\ req'[r].row = rw /\ req'[r].target = tg /\ req'[r].intent = it

Advances(r, p, rw) == Turns(r, p, req[r].id, req[r].late, req[r].role, rw, req[r].target, req[r].intent)

Rests(r) == /\ req' \in [Requests -> Calls]
            /\ \A q \in Requests \ {r} : req'[q] = req[q]
            /\ req'[r] = Idle

\* The placeholder of a request that does not exist.
LEMMA IdleTyped == /\ Idle \in Calls /\ Idle.pc = "idle" /\ Idle.late = FALSE /\ Idle.id = None
                   /\ Carries(Idle)
BY DEF Idle, Calls, Stages, Carries, DeptStages

\* Updates of single fields keep the type of the requests.
LEMMA FieldTyped ==
    ASSUME NEW f \in [Requests -> Calls], NEW r \in Requests
    PROVE /\ \A p \in Stages : [f EXCEPT ![r].pc = p] \in [Requests -> Calls]
          /\ \A w \in Users \cup Depts \cup {None} : [f EXCEPT ![r].row = w] \in [Requests -> Calls]
          /\ \A x \in Roles \cup {None} : [f EXCEPT ![r].role = x] \in [Requests -> Calls]
          /\ \A t \in Ids \cup DeptIds \cup {None} : [f EXCEPT ![r].target = t] \in [Requests -> Calls]
          /\ \A x \in {"active", "suspended", None} : [f EXCEPT ![r].intent = x] \in [Requests -> Calls]
<1>1. \A p \in Stages : [f EXCEPT ![r].pc = p] \in [Requests -> Calls]
  BY DEF Calls
<1>2. \A w \in Users \cup Depts \cup {None} : [f EXCEPT ![r].row = w] \in [Requests -> Calls]
  BY DEF Calls
<1>3. \A x \in Roles \cup {None} : [f EXCEPT ![r].role = x] \in [Requests -> Calls]
  BY DEF Calls
<1>4. \A t \in Ids \cup DeptIds \cup {None} : [f EXCEPT ![r].target = t] \in [Requests -> Calls]
  BY DEF Calls
<1>5. \A x \in {"active", "suspended", None} : [f EXCEPT ![r].intent = x] \in [Requests -> Calls]
  BY DEF Calls
<1> QED BY <1>1, <1>2, <1>3, <1>4, <1>5

\* The request only moves on.
LEMMA GotoTurns ==
    ASSUME req \in [Requests -> Calls], NEW r \in Requests, NEW p \in Stages, Goto(r, p)
    PROVE Advances(r, p, req[r].row)
<1>1. req' \in [Requests -> Calls]
  BY DEF Goto, Calls
<1> QED BY <1>1 DEF Goto, Advances, Turns, Calls

\* The request is answered.
LEMMA ReplyRests ==
    ASSUME req \in [Requests -> Calls], NEW r \in Requests, Reply(r)
    PROVE Rests(r)
BY IdleTyped DEF Reply, Rests

\* The request moves on with a row.
LEMMA RowTurns ==
    ASSUME req \in [Requests -> Calls], NEW r \in Requests, NEW p \in Stages,
           NEW w \in Users \cup Depts \cup {None},
           req' = [req EXCEPT ![r].pc = p, ![r].row = w]
    PROVE Advances(r, p, w)
<1>1. PICK c : c = [req[r] EXCEPT !.pc = p, !.row = w]
  OBVIOUS
<1>2. c \in Calls
  BY <1>1 DEF Calls
<1>3. req' = [req EXCEPT ![r] = c]
  BY <1>1
<1>4. req' \in [Requests -> Calls]
  BY <1>2, <1>3
<1> QED BY <1>1, <1>3, <1>4 DEF Advances, Turns, Calls

\* A verified request arrives.
LEMMA ArriveTurns ==
    ASSUME req \in [Requests -> Calls], NEW r \in Requests, NEW p \in Stages, NEW u \in Ids,
           NEW ro \in Roles \cup {None}, Arrive(r, u, p, ro)
    PROVE Turns(r, p, u, Overdue(u), ro, None, None, None)
<1>1. PICK c : c = [Idle EXCEPT !.pc = p, !.id = u, !.role = ro, !.late = Overdue(u)]
  OBVIOUS
<1>2. c \in Calls
  BY <1>1, IdleTyped DEF Calls, Overdue
<1>3. /\ c.pc = p /\ c.id = u /\ c.late = Overdue(u) /\ c.role = ro /\ c.row = None
      /\ c.target = None /\ c.intent = None
  BY <1>1 DEF Idle
<1>4. req' = [req EXCEPT ![r] = c]
  BY <1>1 DEF Arrive
<1> QED BY <1>2, <1>3, <1>4 DEF Turns

\* The sync of claims ends.
LEMMA SyncTurns ==
    ASSUME req \in [Requests -> Calls], NEW r \in Requests, Persisted(r) \/ Unpersisted(r)
    PROVE Turns(r, "resolve", req[r].id, req[r].late, None, None, req[r].target, req[r].intent)
<1>1. req' = [req EXCEPT ![r].pc = "resolve", ![r].row = None, ![r].role = None]
  BY DEF Persisted, Unpersisted
<1>2. PICK f : f = [req EXCEPT ![r].pc = "resolve"]
  OBVIOUS
<1>3. PICK g : g = [f EXCEPT ![r].row = None]
  OBVIOUS
<1>4. f \in [Requests -> Calls] /\ g \in [Requests -> Calls]
  BY <1>2, <1>3, FieldTyped DEF Stages
<1>5. req' = [g EXCEPT ![r].role = None]
  BY <1>1, <1>2, <1>3
<1>6. req' \in [Requests -> Calls]
  BY <1>4, <1>5, FieldTyped
<1> QED BY <1>1, <1>6 DEF Turns, Calls

\* An administrator's edit of a user or department goes on to its write.
LEMMA EditTurns ==
    ASSUME req \in [Requests -> Calls], NEW r \in Requests, NEW u \in Ids, NEW w \in Users,
           NEW it \in {"active", "suspended", None}, EditUser(r, u, w, it)
    PROVE Turns(r, "userwrite", req[r].id, req[r].late, req[r].role, w, u, it)
<1>1. req' = [req EXCEPT ![r].pc = "userwrite", ![r].row = w, ![r].target = u, ![r].intent = it]
  BY DEF EditUser
<1>2. PICK f : f = [req EXCEPT ![r].pc = "userwrite"]
  OBVIOUS
<1>3. PICK g : g = [f EXCEPT ![r].row = w]
  OBVIOUS
<1>4. PICK h : h = [g EXCEPT ![r].target = u]
  OBVIOUS
<1>5. f \in [Requests -> Calls] /\ g \in [Requests -> Calls] /\ h \in [Requests -> Calls]
  <2>1. w \in Users \cup Depts \cup {None} /\ u \in Ids \cup DeptIds \cup {None}
    OBVIOUS
  <2>2. f \in [Requests -> Calls]
    BY <1>2, FieldTyped DEF Stages
  <2>3. g \in [Requests -> Calls]
    BY <1>3, <2>1, <2>2, FieldTyped
  <2>4. h \in [Requests -> Calls]
    BY <1>4, <2>1, <2>3, FieldTyped
  <2> QED BY <2>2, <2>3, <2>4
<1>6. req' = [h EXCEPT ![r].intent = it]
  BY <1>1, <1>2, <1>3, <1>4
<1>7. req' \in [Requests -> Calls]
  BY <1>5, <1>6, FieldTyped
<1> QED BY <1>1, <1>7 DEF Turns, Calls

\* ... of a department.
LEMMA DeptTurns ==
    ASSUME req \in [Requests -> Calls], NEW r \in Requests, NEW p \in Stages, NEW d \in DeptIds,
           NEW w \in Depts, req' = [req EXCEPT ![r].pc = p, ![r].target = d, ![r].row = w]
    PROVE Turns(r, p, req[r].id, req[r].late, req[r].role, w, d, req[r].intent)
<1>1. PICK f : f = [req EXCEPT ![r].pc = p]
  OBVIOUS
<1>2. PICK g : g = [f EXCEPT ![r].target = d]
  OBVIOUS
<1>3. f \in [Requests -> Calls] /\ g \in [Requests -> Calls]
  BY <1>1, <1>2, FieldTyped
<1>4. req' = [g EXCEPT ![r].row = w]
  BY <1>1, <1>2
<1>5. req' \in [Requests -> Calls]
  <2>1. w \in Users \cup Depts \cup {None}
    OBVIOUS
  <2>2. [g EXCEPT ![r].row = w] \in [Requests -> Calls]
    BY <1>3, <2>1, FieldTyped
  <2> QED BY <1>4, <2>2
<1> QED BY <1>5 DEF Turns, Calls

\* The suspended-user check answers the request or serves it.
LEMMA CheckTurns ==
    ASSUME req \in [Requests -> Calls], NEW r \in Requests, NEW w \in Users \cup {None},
           CheckStatus(r, w)
    PROVE \/ w # None /\ w.status = "suspended" /\ Rests(r)
          \/ ~(w # None /\ w.status = "suspended") /\ Advances(r, "serve", w)
BY ReplyRests, RowTurns DEF CheckStatus, Stages

\* WriteUser answers its request; requests of a user who is active again lose their lateness.
LEMMA WriteTurns ==
    ASSUME req \in [Requests -> Calls], NEW r \in Requests, WriteUser(r)
    PROVE /\ req' \in [Requests -> Calls]
          /\ req'[r] = Idle
          /\ \A q \in Requests \ {r} :
                /\ req'[q].pc = req[q].pc /\ req'[q].id = req[q].id /\ req'[q].role = req[q].role
                /\ req'[q].row = req[q].row /\ req'[q].target = req[q].target
                /\ req'[q].intent = req[q].intent
                /\ req'[q].late = IF req[q].id = req[r].target /\ req[r].intent = "active"
                                  THEN FALSE ELSE req[q].late
<1>1. req' = [q \in Requests |->
                 IF q = r THEN Idle
                 ELSE IF req[q].id = req[r].target /\ req[r].intent = "active"
                      THEN [req[q] EXCEPT !.late = FALSE] ELSE req[q]]
  BY DEF WriteUser
<1>2. \A q \in Requests : [req[q] EXCEPT !.late = FALSE] \in Calls
  BY DEF Calls
<1>3. req' \in [Requests -> Calls] /\ req'[r] = Idle
  BY <1>1, <1>2, IdleTyped
<1>4. ASSUME NEW q \in Requests \ {r}
      PROVE /\ req'[q].pc = req[q].pc /\ req'[q].id = req[q].id /\ req'[q].role = req[q].role
            /\ req'[q].row = req[q].row /\ req'[q].target = req[q].target
            /\ req'[q].intent = req[q].intent
            /\ req'[q].late = IF req[q].id = req[r].target /\ req[r].intent = "active"
                              THEN FALSE ELSE req[q].late
  BY <1>1, <1>4 DEF Calls
<1> QED BY <1>3, <1>4

-----------------------------------------------------------------------------
(* What steps do to the users table.                                       *)

\* The steps that leave the users alone.
Elsewhere(r) ==
    \/ \E u \in Ids : PresentKey(r, u) \/ PresentForwarded(r, u)
    \/ \E u \in Ids, role \in Roles : PresentToken(r, u, role)
    \/ Provision(r) \/ ProvisionDept(r) \/ SyncDept(r) \/ SyncRead(r)
    \/ Resolve(r) \/ CacheIdentity(r) \/ ServeOther(r)
    \/ \E u \in Ids, role \in Edits \cap Roles : PatchRole(r, u, role)
    \/ \E u \in Ids, status \in Edits \ Roles : SetStatus(r, u, status)
    \/ \E d \in DeptIds, n \in DeptNames :
          CreateDepartmentTool(r, d, n) \/ ProvisionNamespace(r, d, n) \/ RenameDepartment(r, d, n)
    \/ InsertDepartment(r) \/ UndoNamespace(r) \/ WriteDepartment(r)
    \/ \E d \in DeptIds : DeleteDepartment(r, d)
    \/ DropRow(r) \/ CascadeNamespace(r)

\* Every step is one of these.
LEMMA StepKinds ==
    [Next]_vars =>
        \/ \E r \in Requests :
              \/ Elsewhere(r) \/ ProvisionCreate(r) \/ SyncWrite(r) \/ SyncCreate(r) \/ WriteUser(r)
              \/ \E u \in Ids, role \in Roles : CreateUser(r, u, role)
        \/ \E m \in Modes : Restart(m)
        \/ Tick \/ UNCHANGED vars
BY DEF Next, Authenticate, Administer, Elsewhere

\* They do leave the users alone.
LEMMA ElsewhereUsers == ASSUME NEW r, Elsewhere(r) PROVE UNCHANGED <<users, mode>>
BY DEF Elsewhere, PresentKey, PresentForwarded, PresentToken, Arrive, Provision, ProvisionDept,
       SyncDept, SyncRead, Resolve, CacheIdentity, ServeOther, PatchRole, SetStatus, EditUser,
       CreateDepartmentTool, ProvisionNamespace, RenameDepartment, InsertDepartment,
       UndoNamespace, WriteDepartment, DeleteDepartment, DropRow, CascadeNamespace, memory

\* Request r writes its copy of u's row.
WritesBack(r, u) ==
    /\ users'[u] = req[r].row
    /\ \/ SyncWrite(r) /\ req[r].id = u
       \/ WriteUser(r) /\ req[r].target = u

\* A row for u appears, active: a local one of a key in mode apikey or of an
\* administrator, else one of the OIDC provider.
Appears(u) ==
    /\ users[u] = None /\ users'[u] \in Users /\ users'[u].status = "active"
    /\ \/ users'[u].provider = "oidc"
       \/ u \in LocalIds
       \/ mode' = "apikey"
       \/ UNCHANGED mode /\ \E r \in Requests : req[r].pc = "provmake"

\* Rows never disappear and change only by being written back.
LEMMA UserRows ==
    ASSUME TypeInv, [Next]_vars
    PROVE /\ users' \in [Ids -> Users \cup {None}]
          /\ \A u \in Ids : users'[u] = users[u] \/ Appears(u)
                            \/ (\E r \in Requests : WritesBack(r, u) /\ req[r].row \in Users)
<1>1. /\ users \in [Ids -> Users \cup {None}] /\ req \in [Requests -> Calls]
      /\ \A r \in Requests : Carries(req[r])
  BY DEF TypeInv, TypeOK
<1>2. ASSUME NEW u \in Ids, NEW role \in Roles, NEW prov \in {"local", "oidc"}
      PROVE /\ [role |-> role, status |-> "active", provider |-> prov] \in Users
            /\ [role |-> role, status |-> "active", provider |-> prov].status = "active"
            /\ [role |-> role, status |-> "active", provider |-> prov].provider = prov
  BY DEF Users
<1>3. ASSUME NEW u \in Ids, Creatable(u) PROVE users[u] = None
  BY <1>3 DEF Creatable, Exists
<1>4. ASSUME NEW k \in KeyIds PROVE k \in Ids /\ KeyRole[k] \in Roles
  BY <1>4, AccountsAssumption DEF Ids
<1>5. ASSUME NEW u \in Ids, NEW row \in Users, users[u] = None, row.status = "active",
             users' = [users EXCEPT ![u] = row],
             row.provider = "oidc" \/ u \in LocalIds
             \/ (UNCHANGED mode /\ \E r \in Requests : req[r].pc = "provmake")
      PROVE /\ users' \in [Ids -> Users \cup {None}]
            /\ \A v \in Ids : users'[v] = users[v] \/ Appears(v)
  <2>1. users'[u] = row /\ \A v \in Ids : v # u => users'[v] = users[v]
    BY <1>1, <1>5
  <2>2. Appears(u)
    BY <1>5, <2>1 DEF Appears
  <2> QED BY <1>1, <1>5, <2>1, <2>2
<1>6. ASSUME UNCHANGED users PROVE users' \in [Ids -> Users \cup {None}]
  BY <1>1, <1>6
<1>7. CASE (\E r \in Requests : Elsewhere(r)) \/ Tick \/ UNCHANGED vars
  BY <1>6, <1>7, ElsewhereUsers DEF Tick, vars
<1>8. ASSUME NEW r \in Requests, ProvisionCreate(r)
      PROVE /\ users' \in [Ids -> Users \cup {None}]
            /\ \A u \in Ids : users'[u] = users[u] \/ Appears(u)
  <2>1. req[r].pc = "provmake" /\ req[r].id \in KeyIds /\ UNCHANGED mode
    BY <1>1, <1>8 DEF ProvisionCreate, At, Carries
  <2>2. CASE UNCHANGED users
    BY <1>6, <2>2
  <2>3. CASE Creatable(req[r].id) /\ users' = [users EXCEPT ![req[r].id] =
               [role |-> KeyRole[req[r].id], status |-> "active", provider |-> "local"]]
    <3>1. PICK u \in Ids, row \in Users :
              /\ u = req[r].id /\ row = [role |-> KeyRole[req[r].id], status |-> "active", provider |-> "local"]
              /\ row.status = "active" /\ users' = [users EXCEPT ![u] = row]
      BY <1>4, <1>2, <2>1, <2>3
    <3> QED BY <1>3, <1>5, <2>1, <2>3, <3>1
  <2> QED BY <1>8, <2>2, <2>3 DEF ProvisionCreate
<1>9. ASSUME NEW r \in Requests, SyncCreate(r)
      PROVE /\ users' \in [Ids -> Users \cup {None}]
            /\ \A u \in Ids : users'[u] = users[u] \/ Appears(u)
  <2>1. req[r].id \in Ids /\ req[r].role \in Roles
    BY <1>1, <1>9 DEF SyncCreate, At, Carries
  <2>2. CASE UNCHANGED users
    BY <1>6, <2>2
  <2>3. CASE Creatable(req[r].id) /\ users' = [users EXCEPT ![req[r].id] =
               [role |-> req[r].role, status |-> "active", provider |-> "oidc"]]
    <3>1. PICK u \in Ids, row \in Users :
              /\ u = req[r].id /\ row = [role |-> req[r].role, status |-> "active", provider |-> "oidc"]
              /\ row.status = "active" /\ row.provider = "oidc" /\ users' = [users EXCEPT ![u] = row]
      BY <1>2, <2>1, <2>3
    <3> QED BY <1>3, <1>5, <2>3, <3>1
  <2> QED BY <1>9, <2>2, <2>3 DEF SyncCreate
<1>10. ASSUME NEW r \in Requests, NEW u \in Ids, NEW role \in Roles, CreateUser(r, u, role)
      PROVE /\ users' \in [Ids -> Users \cup {None}]
            /\ \A v \in Ids : users'[v] = users[v] \/ Appears(v)
  <2>1. u \in LocalIds
    BY <1>10 DEF CreateUser
  <2>2. CASE UNCHANGED users
    BY <1>6, <2>2
  <2>3. CASE Creatable(u) /\ users' = [users EXCEPT ![u] =
               [role |-> role, status |-> "active", provider |-> "local"]]
    <3>1. PICK row \in Users :
              /\ row = [role |-> role, status |-> "active", provider |-> "local"]
              /\ row.status = "active" /\ users' = [users EXCEPT ![u] = row]
      BY <1>2, <2>3
    <3> QED BY <1>3, <1>5, <2>1, <2>3, <3>1
  <2> QED BY <1>10, <2>2, <2>3 DEF CreateUser
<1>11. ASSUME NEW r \in Requests, SyncWrite(r) \/ WriteUser(r)
      PROVE /\ users' \in [Ids -> Users \cup {None}]
            /\ \A u \in Ids : users'[u] = users[u] \/ (WritesBack(r, u) /\ req[r].row \in Users)
  <2>1. CASE UNCHANGED users
    BY <1>6, <2>1
  <2>2. CASE SyncWrite(r) /\ users' = [users EXCEPT ![req[r].id] = req[r].row]
    <3>1. req[r].row \in Users /\ req[r].id \in Ids
      BY <1>1, <2>2 DEF SyncWrite, At, Carries
    <3> QED BY <1>1, <2>2, <3>1 DEF WritesBack
  <2>3. CASE WriteUser(r)
    <3>1. req[r].row \in Users /\ req[r].target \in Ids
      BY <1>1, <2>3 DEF WriteUser, At, Carries
    <3>2. users' = [users EXCEPT ![req[r].target] = req[r].row]
      BY <2>3 DEF WriteUser
    <3> QED BY <1>1, <2>3, <3>1, <3>2 DEF WritesBack
  <2> QED BY <1>11, <2>1, <2>2, <2>3 DEF SyncWrite
<1>12. ASSUME NEW m \in Modes, Restart(m)
      PROVE /\ users' \in [Ids -> Users \cup {None}]
            /\ \A u \in Ids : users'[u] = users[u] \/ Appears(u)
  <2>1. mode' = m /\ users' \in Bootstrapped(m, users)
    BY <1>12 DEF Restart
  <2>2. CASE m # "apikey"
    BY <1>6, <2>1, <2>2 DEF Bootstrapped
  <2>3. CASE m = "apikey"
    <3> DEFINE free == {k \in KeyIds : \A v \in Ids : users[v] # None => v # k /\ NameOf[v] # NameOf[k]}
               Row(k) == [role |-> KeyRole[k], status |-> "active", provider |-> "local"]
    <3>1. PICK made \in SUBSET free : users' = [u \in Ids |-> IF u \in made THEN Row(u) ELSE users[u]]
      BY <2>1, <2>3 DEF Bootstrapped
    <3>2. \A k \in made : k \in KeyIds /\ users[k] = None /\ Row(k) \in Users /\ Row(k).status = "active"
      BY <1>4, <1>2
    <3> HIDE DEF free, Row
    <3>3. users' \in [Ids -> Users \cup {None}]
      BY <1>1, <3>1, <3>2
    <3>4. ASSUME NEW u \in Ids PROVE users'[u] = users[u] \/ Appears(u)
      BY <1>1, <2>1, <2>3, <3>1, <3>2 DEF Appears
    <3> QED BY <3>3, <3>4
  <2> QED BY <2>2, <2>3
<1> QED BY <1>7, <1>8, <1>9, <1>10, <1>11, <1>12, StepKinds

-----------------------------------------------------------------------------
(* Types are kept.                                                         *)

\* A request that goes on with fitting fields leaves the requests well-typed.
LEMMA TurnsCarry ==
    ASSUME TypeInv, NEW r \in Requests, NEW p, NEW i, NEW l, NEW ro, NEW rw, NEW tg, NEW it,
           Turns(r, p, i, l, ro, rw, tg, it),
           Carries([pc |-> p, id |-> i, late |-> l, role |-> ro, row |-> rw, target |-> tg,
                    intent |-> it])
    PROVE req' \in [Requests -> Calls] /\ \A q \in Requests : Carries(req'[q])
<1>1. Carries(req'[r])
  BY DEF Turns, Carries
<1>2. \A q \in Requests \ {r} : Carries(req'[q])
  BY DEF Turns, TypeInv
<1> QED BY <1>1, <1>2 DEF Turns

\* So does one that is answered.
LEMMA RestsCarry ==
    ASSUME TypeInv, NEW r \in Requests, Rests(r)
    PROVE req' \in [Requests -> Calls] /\ \A q \in Requests : Carries(req'[q])
BY IdleTyped DEF Rests, TypeInv

\* What every step leaves in the requests.
LEMMA RequestsTyped ==
    ASSUME TypeInv, [Next]_vars
    PROVE req' \in [Requests -> Calls] /\ \A q \in Requests : Carries(req'[q])
<1> DEFINE Done == req' \in [Requests -> Calls] /\ \A q \in Requests : Carries(req'[q])
<1>1. /\ users \in [Ids -> Users \cup {None}] /\ depts \in [DeptIds -> Depts \cup {None}]
      /\ cache \in [Ids -> [row: Users, left: 0..TTL] \cup {None}]
      /\ req \in [Requests -> Calls] /\ \A r \in Requests : Carries(req[r])
  BY DEF TypeInv, TypeOK
<1>2. ASSUME NEW r \in Requests, NEW u \in Ids, NEW ro \in Roles \cup {None}, NEW p \in Stages,
             Arrive(r, u, p, ro), p \in {"latch", "resolve", "sync", "dept"},
             p = "latch" => u \in KeyIds, p = "dept" => DeptOf[u] # None,
             p \in {"dept", "sync"} => ro \in Roles
      PROVE Done
  <2>1. Turns(r, p, u, Overdue(u), ro, None, None, None)
    BY <1>1, <1>2, ArriveTurns
  <2>2. Carries([pc |-> p, id |-> u, late |-> Overdue(u), role |-> ro, row |-> None,
                 target |-> None, intent |-> None])
    BY <1>2 DEF Carries, DeptStages
  <2> QED BY <2>1, <2>2, TurnsCarry
<1>3. ASSUME NEW r \in Requests, NEW p \in Stages, NEW rw, Advances(r, p, rw),
             Carries([pc |-> p, id |-> req[r].id, late |-> req[r].late, role |-> req[r].role,
                      row |-> rw, target |-> req[r].target, intent |-> req[r].intent])
      PROVE Done
  BY <1>3, TurnsCarry DEF Advances
<1>4. ASSUME NEW r \in Requests, Persisted(r) \/ Unpersisted(r), req[r].pc # "idle"
      PROVE Done
  <2>1. Turns(r, "resolve", req[r].id, req[r].late, None, None, req[r].target, req[r].intent)
    BY <1>1, <1>4, SyncTurns
  <2>2. Carries([pc |-> "resolve", id |-> req[r].id, late |-> req[r].late, role |-> None,
                 row |-> None, target |-> req[r].target, intent |-> req[r].intent])
    BY <1>1, <1>4 DEF Carries, DeptStages
  <2> QED BY <2>1, <2>2, TurnsCarry
<1>5. ASSUME NEW r \in Requests, NEW w \in Users \cup {None}, CheckStatus(r, w), req[r].pc # "idle"
      PROVE Done
  <2>1. CASE Rests(r)
    BY <2>1, RestsCarry
  <2>2. CASE Advances(r, "serve", w)
    <3>1. Carries([pc |-> "serve", id |-> req[r].id, late |-> req[r].late, role |-> req[r].role,
                   row |-> w, target |-> req[r].target, intent |-> req[r].intent])
      BY <1>1, <1>5 DEF Carries, DeptStages
    <3> QED BY <1>3, <2>2, <3>1 DEF Stages
  <2> QED BY <1>1, <1>5, <2>1, <2>2, CheckTurns
<1>6. ASSUME NEW r \in Requests, NEW p \in DeptStages, NEW d \in DeptIds, NEW w \in Depts,
             req[r].pc # "idle", p \in {"deptrow", "deptundo", "nsdrop"} => w.ns # None,
             req' = [req EXCEPT ![r].pc = p, ![r].target = d, ![r].row = w]
      PROVE Done
  <2>1. p \in Stages
    BY DEF DeptStages, Stages
  <2>2. Turns(r, p, req[r].id, req[r].late, req[r].role, w, d, req[r].intent)
    BY <1>1, <1>6, <2>1, DeptTurns
  <2>3. Carries([pc |-> p, id |-> req[r].id, late |-> req[r].late, role |-> req[r].role,
                 row |-> w, target |-> d, intent |-> req[r].intent])
    BY <1>1, <1>6 DEF Carries, DeptStages
  <2> QED BY <2>2, <2>3, TurnsCarry
<1>7. ASSUME NEW r \in Requests, NEW u \in Ids, NEW w \in Users,
             NEW it \in {"active", "suspended", None}, EditUser(r, u, w, it)
      PROVE Done
  <2>1. Turns(r, "userwrite", req[r].id, req[r].late, req[r].role, w, u, it)
    BY <1>1, <1>7, EditTurns
  <2>2. Carries([pc |-> "userwrite", id |-> req[r].id, late |-> req[r].late, role |-> req[r].role,
                 row |-> w, target |-> u, intent |-> it])
    BY <1>1, <1>7 DEF Carries, DeptStages, EditUser, IsAdmin, At
  <2> QED BY <2>1, <2>2, TurnsCarry
<1>8. KeyIds \subseteq Ids /\ LocalIds \subseteq Ids /\ Subjects \subseteq Ids
      /\ FreshDepts \subseteq DeptIds
  BY DEF Ids, DeptIds
<1> HIDE DEF Done
<1>9. ASSUME NEW r \in Requests, NEW u \in Ids, PresentKey(r, u) \/ PresentForwarded(r, u) PROVE Done
  BY <1>9, <1>2 DEF PresentKey, PresentForwarded, Stages
<1>10. ASSUME NEW r \in Requests, NEW u \in Ids, NEW ro \in Roles, PresentToken(r, u, ro) PROVE Done
  BY <1>10, <1>2 DEF PresentToken, Stages
<1>11. ASSUME NEW r \in Requests, Provision(r) PROVE Done
  <2>1. PICK p \in {"resolve", "provmake", "provdept"} :
            /\ Goto(r, p) /\ (p = "provdept" => DeptOf[req[r].id] # None)
    BY <1>11 DEF Provision
  <2>2. Advances(r, p, req[r].row)
    BY <1>1, <2>1, GotoTurns DEF Stages
  <2>3. Carries([pc |-> p, id |-> req[r].id, late |-> req[r].late, role |-> req[r].role,
                 row |-> req[r].row, target |-> req[r].target, intent |-> req[r].intent])
    BY <1>1, <1>11, <2>1 DEF Provision, At, Carries, DeptStages
  <2> QED BY <1>3, <2>2, <2>3 DEF Stages
<1>12. ASSUME NEW r \in Requests, ProvisionDept(r) PROVE Done
  <2>1. PICK p \in {"resolve", "provmake"} : Goto(r, p)
    BY <1>12 DEF ProvisionDept
  <2>2. Advances(r, p, req[r].row)
    BY <1>1, <2>1, GotoTurns DEF Stages
  <2>3. Carries([pc |-> p, id |-> req[r].id, late |-> req[r].late, role |-> req[r].role,
                 row |-> req[r].row, target |-> req[r].target, intent |-> req[r].intent])
    BY <1>1, <1>12, <2>1 DEF ProvisionDept, At, Carries, DeptStages
  <2> QED BY <1>3, <2>2, <2>3 DEF Stages
<1>13. ASSUME NEW r \in Requests, ProvisionCreate(r) PROVE Done
  <2>1. Advances(r, "resolve", req[r].row)
    BY <1>1, <1>13, GotoTurns DEF Stages, ProvisionCreate
  <2>2. Carries([pc |-> "resolve", id |-> req[r].id, late |-> req[r].late, role |-> req[r].role,
                 row |-> req[r].row, target |-> req[r].target, intent |-> req[r].intent])
    BY <1>1, <1>13 DEF ProvisionCreate, At, Carries, DeptStages
  <2> QED BY <1>3, <2>1, <2>2 DEF Stages
<1>14. ASSUME NEW r \in Requests, SyncDept(r) PROVE Done
  <2>1. Advances(r, "sync", req[r].row)
    BY <1>1, <1>14, GotoTurns DEF Stages, SyncDept
  <2>2. Carries([pc |-> "sync", id |-> req[r].id, late |-> req[r].late, role |-> req[r].role,
                 row |-> req[r].row, target |-> req[r].target, intent |-> req[r].intent])
    BY <1>1, <1>14 DEF SyncDept, At, Carries, DeptStages
  <2> QED BY <1>3, <2>1, <2>2 DEF Stages
<1>15. ASSUME NEW r \in Requests, SyncRead(r) PROVE Done
  <2>1. req[r].pc = "sync" /\ req[r].id \in Ids /\ req[r].role \in Roles
    BY <1>1, <1>15 DEF SyncRead, At, Carries
  <2>2. CASE Reply(r)
    BY <1>1, <2>2, ReplyRests, RestsCarry DEF Done
  <2>3. CASE Persisted(r)
    BY <1>4, <2>1, <2>3
  <2>4. CASE Goto(r, "syncmake")
    <3>1. Advances(r, "syncmake", req[r].row)
      BY <1>1, <2>4, GotoTurns DEF Stages
    <3>2. Carries([pc |-> "syncmake", id |-> req[r].id, late |-> req[r].late, role |-> req[r].role,
                   row |-> req[r].row, target |-> req[r].target, intent |-> req[r].intent])
      BY <2>1 DEF Carries, DeptStages
    <3> QED BY <1>3, <3>1, <3>2 DEF Stages
  <2>5. CASE Exists(req[r].id) /\ req' = [req EXCEPT ![r].pc = "syncwrite",
                        ![r].row = [users[req[r].id] EXCEPT !.role = req[r].role]]
    <3>1. PICK w : w = [users[req[r].id] EXCEPT !.role = req[r].role]
      OBVIOUS
    <3>2. w \in Users
      <4>1. users[req[r].id] \in Users
        BY <1>1, <2>1, <2>5 DEF Exists
      <4> QED BY <2>1, <3>1, <4>1 DEF Users
    <3>3. Advances(r, "syncwrite", w)
      <4>1. w \in Users \cup Depts \cup {None}
        BY <3>2
      <4> QED BY <1>1, <2>5, <3>1, <4>1, RowTurns DEF Stages
    <3>4. Carries([pc |-> "syncwrite", id |-> req[r].id, late |-> req[r].late, role |-> req[r].role,
                   row |-> w, target |-> req[r].target, intent |-> req[r].intent])
      BY <2>1, <3>2 DEF Carries, DeptStages
    <3> QED BY <1>3, <3>3, <3>4 DEF Stages
  <2> QED BY <1>15, <2>2, <2>3, <2>4, <2>5 DEF SyncRead
<1>16. ASSUME NEW r \in Requests, SyncWrite(r) \/ SyncCreate(r) PROVE Done
  BY <1>16, <1>4 DEF SyncWrite, SyncCreate, At
<1>17. ASSUME NEW r \in Requests, Resolve(r) PROVE Done
  <2>1. req[r].pc = "resolve" /\ req[r].id \in Ids
    BY <1>1, <1>17 DEF Resolve, At, Carries
  <2>2. CASE Fresh(cache[req[r].id]) /\ CheckStatus(r, cache[req[r].id].row)
    BY <1>1, <1>5, <2>1, <2>2 DEF Fresh
  <2>3. CASE CheckStatus(r, None)
    BY <1>5, <2>1, <2>3
  <2>4. CASE Exists(req[r].id) /\ req' = [req EXCEPT ![r].pc = "put", ![r].row = users[req[r].id]]
    <3>1. users[req[r].id] \in Users
      BY <1>1, <2>1, <2>4 DEF Exists
    <3>2. Advances(r, "put", users[req[r].id])
      BY <1>1, <2>4, <3>1, RowTurns DEF Stages
    <3>3. Carries([pc |-> "put", id |-> req[r].id, late |-> req[r].late, role |-> req[r].role,
                   row |-> users[req[r].id], target |-> req[r].target, intent |-> req[r].intent])
      BY <2>1, <3>1 DEF Carries, DeptStages
    <3> QED BY <1>3, <3>2, <3>3 DEF Stages
  <2> QED BY <1>17, <2>2, <2>3, <2>4 DEF Resolve
<1>18. ASSUME NEW r \in Requests, CacheIdentity(r) PROVE Done
  <2>1. req[r].pc = "put" /\ req[r].row \in Users /\ CheckStatus(r, req[r].row)
    BY <1>1, <1>18 DEF CacheIdentity, At, Carries
  <2> QED BY <1>5, <2>1
<1>19. ASSUME NEW r \in Requests, Reply(r) PROVE Done
  BY <1>1, <1>19, ReplyRests, RestsCarry DEF Done
<1>20. ASSUME NEW r \in Requests, NEW u \in Ids, NEW ro \in Edits \cap Roles, PatchRole(r, u, ro)
       PROVE Done
  <2>1. PICK w : w = [users[u] EXCEPT !.role = ro]
    OBVIOUS
  <2>2. users[u] \in Users
    BY <1>1, <1>20 DEF PatchRole, Exists
  <2>3. w \in Users
    BY <2>1, <2>2 DEF Users
  <2> QED BY <1>20, <1>7, <2>1, <2>3 DEF PatchRole
<1>21. ASSUME NEW r \in Requests, NEW u \in Ids, NEW st \in Edits \ Roles, SetStatus(r, u, st)
       PROVE Done
  <2>1. st \in {"active", "suspended"}
    BY AccountsAssumption
  <2>2. PICK w : w = [users[u] EXCEPT !.status = st]
    OBVIOUS
  <2>3. users[u] \in Users
    BY <1>1, <1>21 DEF SetStatus, Exists
  <2>4. w \in Users
    BY <2>1, <2>2, <2>3 DEF Users
  <2> QED BY <1>21, <1>7, <2>1, <2>2, <2>4 DEF SetStatus
<1>22. ASSUME NEW r \in Requests, WriteUser(r) PROVE Done
  <2>1. req' \in [Requests -> Calls] /\ Carries(req'[r])
    BY <1>1, <1>22, WriteTurns, IdleTyped
  <2>2. ASSUME NEW q \in Requests \ {r} PROVE Carries(req'[q])
    <3>1. /\ req'[q].pc = req[q].pc /\ req'[q].id = req[q].id /\ req'[q].role = req[q].role
          /\ req'[q].row = req[q].row /\ req'[q].target = req[q].target
      BY <1>1, <1>22, WriteTurns
    <3>2. Carries(req[q])
      BY <1>1
    <3> QED BY <3>1, <3>2 DEF Carries
  <2> QED BY <2>1, <2>2 DEF Done
<1>23. ASSUME NEW r \in Requests, NEW d \in DeptIds, NEW n \in DeptNames, ProvisionNamespace(r, d, n)
       PROVE Done
  <2>1. PICK w : w = [name |-> n, ns |-> NsOf[n]]
    OBVIOUS
  <2>2. w \in Depts /\ w.ns # None
    BY <2>1, AccountsAssumption DEF Depts, Namespaces
  <2>3. Reply(r) \/ req' = [req EXCEPT ![r].pc = "deptrow", ![r].target = d, ![r].row = w]
    BY <1>23, <2>1 DEF ProvisionNamespace
  <2>4. req[r].pc # "idle"
    BY <1>23 DEF ProvisionNamespace, IsAdmin, At
  <2> QED BY <1>19, <1>6, <2>2, <2>3, <2>4 DEF DeptStages
<1>24. ASSUME NEW r \in Requests, NEW d \in DeptIds, NEW n \in DeptNames, RenameDepartment(r, d, n)
       PROVE Done
  <2>1. PICK w : w = [depts[d] EXCEPT !.name = n]
    OBVIOUS
  <2>2. depts[d] \in Depts
    BY <1>1, <1>24 DEF RenameDepartment
  <2>3. w \in Depts
    BY <2>1, <2>2 DEF Depts
  <2>4. req[r].pc # "idle" /\ req' = [req EXCEPT ![r].pc = "deptwrite", ![r].target = d, ![r].row = w]
    BY <1>24, <2>1 DEF RenameDepartment, IsAdmin, At
  <2> QED BY <1>6, <2>3, <2>4 DEF DeptStages
<1>25. ASSUME NEW r \in Requests, NEW d \in DeptIds, DeleteDepartment(r, d) PROVE Done
  <2>1. depts[d] \in Depts
    BY <1>1, <1>25 DEF DeleteDepartment
  <2>2. req[r].pc # "idle" /\ req' = [req EXCEPT ![r].pc = "deptdrop", ![r].target = d, ![r].row = depts[d]]
    BY <1>25 DEF DeleteDepartment, IsAdmin, At
  <2> QED BY <1>6, <2>1, <2>2 DEF DeptStages
<1>26. ASSUME NEW r \in Requests, InsertDepartment(r) PROVE Done
  <2>1. CASE Goto(r, "deptundo")
    <3>1. Advances(r, "deptundo", req[r].row)
      BY <1>1, <2>1, GotoTurns DEF Stages
    <3>2. Carries([pc |-> "deptundo", id |-> req[r].id, late |-> req[r].late, role |-> req[r].role,
                   row |-> req[r].row, target |-> req[r].target, intent |-> req[r].intent])
      BY <1>1, <1>26 DEF InsertDepartment, At, Carries, DeptStages
    <3> QED BY <1>3, <3>1, <3>2 DEF Stages
  <2> QED BY <1>19, <1>26, <2>1 DEF InsertDepartment
<1>27. ASSUME NEW r \in Requests, DropRow(r) PROVE Done
  <2>1. CASE Goto(r, "nsdrop") /\ req[r].row.ns # None
    <3>1. Advances(r, "nsdrop", req[r].row)
      BY <1>1, <2>1, GotoTurns DEF Stages
    <3>2. Carries([pc |-> "nsdrop", id |-> req[r].id, late |-> req[r].late, role |-> req[r].role,
                   row |-> req[r].row, target |-> req[r].target, intent |-> req[r].intent])
      BY <1>1, <1>27, <2>1 DEF DropRow, At, Carries, DeptStages
    <3> QED BY <1>3, <3>1, <3>2 DEF Stages
  <2> QED BY <1>19, <1>27, <2>1 DEF DropRow
<1>28. ASSUME NEW m \in Modes, Restart(m) PROVE Done
  BY <1>28, IdleTyped DEF Restart, Done
<1>29. CASE Tick \/ UNCHANGED vars
  BY <1>1, <1>29 DEF Tick, vars, Done
<1>30. ASSUME NEW r \in Requests,
              \/ ServeOther(r) \/ UndoNamespace(r) \/ WriteDepartment(r) \/ CascadeNamespace(r)
              \/ \E u \in Ids, role \in Roles : CreateUser(r, u, role)
              \/ \E d \in DeptIds, n \in DeptNames : CreateDepartmentTool(r, d, n)
       PROVE Done
  BY <1>19, <1>30 DEF ServeOther, UndoNamespace, WriteDepartment, CascadeNamespace, CreateUser,
                     CreateDepartmentTool
<1> QED
  BY <1>9, <1>10, <1>11, <1>12, <1>13, <1>14, <1>15, <1>16, <1>17, <1>18, <1>20, <1>21, <1>22, <1>23, <1>24,
     <1>25, <1>26, <1>27, <1>28, <1>29, <1>30 DEF Next, Authenticate, Administer, Done

\* Steps that touch no department and no namespace.
OffDepartments(r) ==
    \/ \E u \in Ids : PresentKey(r, u) \/ PresentForwarded(r, u)
    \/ \E u \in Ids, role \in Roles : PresentToken(r, u, role)
    \/ Provision(r) \/ ProvisionCreate(r) \/ SyncRead(r) \/ SyncWrite(r) \/ SyncCreate(r)
    \/ Resolve(r) \/ CacheIdentity(r) \/ ServeOther(r)
    \/ \E u \in Ids, role \in Roles : CreateUser(r, u, role)
    \/ \E u \in Ids, role \in Edits \cap Roles : PatchRole(r, u, role)
    \/ \E u \in Ids, status \in Edits \ Roles : SetStatus(r, u, status)
    \/ WriteUser(r)

\* They leave the tables of departments and namespaces alone.
LEMMA OffTables == ASSUME NEW r, OffDepartments(r) PROVE UNCHANGED <<depts, issued, namespaces>>
BY DEF OffDepartments, PresentKey, PresentForwarded, PresentToken, Arrive, Provision,
       ProvisionCreate, SyncRead, SyncWrite, SyncCreate, Resolve, CacheIdentity, ServeOther,
       CreateUser, PatchRole, SetStatus, EditUser, WriteUser

\* Every step is one of these.
LEMMA DeptStepKinds ==
    [Next]_vars =>
        \/ \E r \in Requests :
              \/ OffDepartments(r) \/ ProvisionDept(r) \/ SyncDept(r)
              \/ \E d \in DeptIds, n \in DeptNames :
                    CreateDepartmentTool(r, d, n) \/ ProvisionNamespace(r, d, n) \/ RenameDepartment(r, d, n)
              \/ InsertDepartment(r) \/ UndoNamespace(r) \/ WriteDepartment(r)
              \/ \E d \in DeptIds : DeleteDepartment(r, d)
              \/ DropRow(r) \/ CascadeNamespace(r)
        \/ \E m \in Modes : Restart(m)
        \/ Tick \/ UNCHANGED vars
BY DEF Next, Authenticate, Administer, OffDepartments

\* A department's row is created with a free id and a free name.
LEMMA CreateDepartmentTyped ==
    ASSUME depts \in [DeptIds -> Depts \cup {None}], NEW d \in DeptIds, NEW n \in DeptNames,
           NEW ns \in Namespaces \cup {None}, CreateDepartment(d, n, ns)
    PROVE /\ depts' \in [DeptIds -> Depts \cup {None}]
          /\ depts[d] = None /\ depts'[d] \in Depts /\ depts'[d].name = n /\ depts'[d].ns = ns
          /\ \A e \in DeptIds \ {d} : depts'[e] = depts[e]
<1>1. PICK w : w = [name |-> n, ns |-> ns]
  OBVIOUS
<1>2. w \in Depts /\ w.name = n /\ w.ns = ns
  BY <1>1 DEF Depts
<1>3. depts' = [depts EXCEPT ![d] = w] /\ depts[d] = None
  BY <1>1 DEF CreateDepartment
<1> QED BY <1>2, <1>3

\* The departments table, the ids issued and the namespaces keep their types.
LEMMA DepartmentsTyped ==
    ASSUME TypeInv, [Next]_vars
    PROVE /\ depts' \in [DeptIds -> Depts \cup {None}]
          /\ issued' \in SUBSET FreshDepts
          /\ namespaces' \in [Namespaces -> DeptIds \cup {None}]
<1> DEFINE Done == /\ depts' \in [DeptIds -> Depts \cup {None}]
                   /\ issued' \in SUBSET FreshDepts
                   /\ namespaces' \in [Namespaces -> DeptIds \cup {None}]
<1>1. /\ depts \in [DeptIds -> Depts \cup {None}]
      /\ issued \in SUBSET FreshDepts
      /\ namespaces \in [Namespaces -> DeptIds \cup {None}]
      /\ \A r \in Requests : Carries(req[r])
  BY DEF TypeInv, TypeOK
<1>2. \A n \in DeptNames : NsOf[n] \in Namespaces /\ SlugDept[n] \in DeptIds
  BY DEF Namespaces, DeptIds
<1>3. CASE UNCHANGED <<depts, issued, namespaces>>
  BY <1>1, <1>3
<1>4. ASSUME NEW r \in Requests, ProvisionDept(r) PROVE Done
  <2>1. req[r].id \in KeyIds /\ DeptOf[req[r].id] # None /\ UNCHANGED namespaces
    BY <1>1, <1>4 DEF ProvisionDept, At, Carries
  <2>2. DeptOf[req[r].id] \in DeptNames
    BY <2>1, AccountsAssumption DEF Ids
  <2>3. CASE UNCHANGED <<depts, issued>>
    BY <1>1, <2>1, <2>3
  <2>4. ASSUME NEW d \in FreshDepts, Issue(d), CreateDepartment(d, DeptOf[req[r].id], None)
        PROVE Done
    <3>1. d \in DeptIds
      BY DEF DeptIds
    <3>2. depts' \in [DeptIds -> Depts \cup {None}]
      BY <1>1, <2>2, <2>4, <3>1, CreateDepartmentTyped
    <3> QED BY <1>1, <2>1, <2>4, <3>2 DEF Issue
  <2> QED BY <1>4, <2>3, <2>4 DEF ProvisionDept
<1>5. ASSUME NEW r \in Requests, SyncDept(r) PROVE Done
  <2>1. req[r].id \in Ids /\ DeptOf[req[r].id] # None /\ UNCHANGED <<issued, namespaces>>
    BY <1>1, <1>5 DEF SyncDept, At, Carries
  <2>2. DeptOf[req[r].id] \in DeptNames
    BY <2>1, AccountsAssumption DEF Ids
  <2>3. CASE UNCHANGED depts
    BY <1>1, <2>1, <2>3
  <2>4. CASE CreateDepartment(SlugDept[DeptOf[req[r].id]], DeptOf[req[r].id], None)
    <3>1. depts' \in [DeptIds -> Depts \cup {None}]
      BY <1>1, <1>2, <2>2, <2>4, CreateDepartmentTyped
    <3> QED BY <1>1, <2>1, <3>1
  <2> QED BY <1>5, <2>3, <2>4 DEF SyncDept
<1>6. ASSUME NEW r \in Requests, NEW d \in DeptIds, NEW n \in DeptNames,
             \/ CreateDepartmentTool(r, d, n) \/ ProvisionNamespace(r, d, n)
             \/ RenameDepartment(r, d, n)
      PROVE Done
  <2>1. CASE CreateDepartmentTool(r, d, n)
    <3>1. issued' \in SUBSET FreshDepts /\ UNCHANGED namespaces
      BY <1>1, <2>1 DEF CreateDepartmentTool, Issue
    <3>2. depts' \in [DeptIds -> Depts \cup {None}]
      BY <1>1, <2>1, CreateDepartmentTyped DEF CreateDepartmentTool
    <3> QED BY <1>1, <3>1, <3>2
  <2>2. CASE ProvisionNamespace(r, d, n)
    <3>1. issued' \in SUBSET FreshDepts /\ UNCHANGED depts
      BY <1>1, <2>2 DEF ProvisionNamespace, Issue
    <3>2. namespaces' \in [Namespaces -> DeptIds \cup {None}]
      BY <1>1, <1>2, <2>2 DEF ProvisionNamespace
    <3> QED BY <1>1, <3>1, <3>2
  <2> QED BY <1>3, <1>6, <2>1, <2>2 DEF RenameDepartment
<1>7. ASSUME NEW r \in Requests, InsertDepartment(r) PROVE Done
  <2>1. req[r].row \in Depts /\ req[r].target \in DeptIds /\ UNCHANGED <<issued, namespaces>>
    BY <1>1, <1>7 DEF InsertDepartment, At, Carries, DeptStages
  <2>2. req[r].row.name \in DeptNames /\ req[r].row.ns \in Namespaces \cup {None}
    BY <2>1 DEF Depts
  <2>3. depts' \in [DeptIds -> Depts \cup {None}]
    BY <1>1, <1>7, <2>1, <2>2, CreateDepartmentTyped DEF InsertDepartment
  <2> QED BY <1>1, <2>1, <2>3
<1>8. ASSUME NEW r \in Requests, UndoNamespace(r) \/ CascadeNamespace(r) PROVE Done
  <2>1. req[r].row \in Depts /\ req[r].row.ns # None /\ UNCHANGED <<depts, issued>>
    BY <1>1, <1>8 DEF UndoNamespace, CascadeNamespace, At, Carries, DeptStages
  <2>2. req[r].row.ns \in Namespaces
    BY <2>1 DEF Depts
  <2>3. DropNamespace(r, req[r].row.ns)
    BY <1>8 DEF UndoNamespace, CascadeNamespace
  <2>4. namespaces' \in [Namespaces -> DeptIds \cup {None}]
    BY <1>1, <2>2, <2>3 DEF DropNamespace
  <2> QED BY <1>1, <2>1, <2>4
<1>9. ASSUME NEW r \in Requests, WriteDepartment(r) \/ DropRow(r) PROVE Done
  <2>1. req[r].row \in Depts /\ req[r].target \in DeptIds /\ UNCHANGED <<issued, namespaces>>
    BY <1>1, <1>9 DEF WriteDepartment, DropRow, At, Carries, DeptStages
  <2>2. \/ UNCHANGED depts
        \/ depts' = [depts EXCEPT ![req[r].target] = req[r].row]
        \/ depts' = [depts EXCEPT ![req[r].target] = None]
    BY <1>9 DEF WriteDepartment, DropRow
  <2> QED BY <1>1, <2>1, <2>2
<1>10. CASE (\E r \in Requests, d \in DeptIds : DeleteDepartment(r, d))
           \/ (\E m \in Modes : Restart(m)) \/ Tick \/ UNCHANGED vars
  BY <1>3, <1>10 DEF DeleteDepartment, Restart, Tick, vars
<1>11. CASE \E r \in Requests : OffDepartments(r)
  BY <1>3, <1>11, OffTables
<1> QED
  BY <1>4, <1>5, <1>6, <1>7, <1>8, <1>9, <1>10, <1>11, DeptStepKinds

\* Which actions of a request touch what.
LEMMA Touches ==
    ASSUME NEW r, Authenticate(r) \/ Administer(r)
    PROVE /\ UNCHANGED mode
          /\ UNCHANGED cache \/ CacheIdentity(r)
          /\ UNCHANGED synced \/ (Persisted(r) /\ req[r].pc \in {"sync", "syncwrite", "syncmake"})
          /\ UNCHANGED latched \/ Provision(r) \/ ProvisionCreate(r)
          /\ UNCHANGED <<suspended, overtaken>> \/ WriteUser(r)
          /\ UNCHANGED events \/ Event
          /\ \/ UNCHANGED failed
             \/ failed' = failed \cup {req[r].id} /\ req[r].pc # "idle"
<1>1. CASE Elsewhere(r)
  <2>1. UNCHANGED <<mode, suspended, overtaken>>
    BY <1>1 DEF Elsewhere, PresentKey, PresentForwarded, PresentToken, Arrive, Provision,
       ProvisionDept, SyncDept, SyncRead, Resolve, CacheIdentity, ServeOther, PatchRole, SetStatus,
       EditUser, CreateDepartmentTool, ProvisionNamespace, RenameDepartment, InsertDepartment,
       UndoNamespace, WriteDepartment, DeleteDepartment, DropRow, CascadeNamespace, memory, history
  <2>2. UNCHANGED cache \/ CacheIdentity(r)
    BY <1>1 DEF Elsewhere, PresentKey, PresentForwarded, PresentToken, Arrive, Provision,
       ProvisionDept, SyncDept, SyncRead, Resolve, ServeOther, PatchRole, SetStatus,
       EditUser, CreateDepartmentTool, ProvisionNamespace, RenameDepartment, InsertDepartment,
       UndoNamespace, WriteDepartment, DeleteDepartment, DropRow, CascadeNamespace, memory
  <2>3. UNCHANGED synced \/ (Persisted(r) /\ req[r].pc \in {"sync", "syncwrite", "syncmake"})
    BY <1>1 DEF Elsewhere, PresentKey, PresentForwarded, PresentToken, Arrive, Provision, At,
       ProvisionDept, SyncDept, SyncRead, Resolve, CacheIdentity, ServeOther, PatchRole, SetStatus,
       EditUser, CreateDepartmentTool, ProvisionNamespace, RenameDepartment, InsertDepartment,
       UndoNamespace, WriteDepartment, DeleteDepartment, DropRow, CascadeNamespace, memory
  <2>4. UNCHANGED latched \/ Provision(r)
    BY <1>1 DEF Elsewhere, PresentKey, PresentForwarded, PresentToken, Arrive,
       ProvisionDept, SyncDept, SyncRead, Resolve, CacheIdentity, ServeOther, PatchRole, SetStatus,
       EditUser, CreateDepartmentTool, ProvisionNamespace, RenameDepartment, InsertDepartment,
       UndoNamespace, WriteDepartment, DeleteDepartment, DropRow, CascadeNamespace, memory
  <2>5. /\ UNCHANGED events \/ Event
        /\ UNCHANGED failed \/ (failed' = failed \cup {req[r].id} /\ req[r].pc # "idle")
    BY <1>1 DEF Elsewhere, PresentKey, PresentForwarded, PresentToken, Arrive, Provision, At,
       ProvisionDept, SyncDept, SyncRead, Resolve, CacheIdentity, ServeOther, PatchRole, SetStatus,
       EditUser, CreateDepartmentTool, ProvisionNamespace, RenameDepartment, InsertDepartment,
       UndoNamespace, WriteDepartment, DeleteDepartment, DropRow, CascadeNamespace, history, StoreFails
  <2> QED BY <2>1, <2>2, <2>3, <2>4, <2>5
<1>2. CASE ProvisionCreate(r) \/ SyncWrite(r) \/ SyncCreate(r) \/ WriteUser(r)
  BY <1>2 DEF ProvisionCreate, SyncWrite, SyncCreate, WriteUser, At, StoreFails, memory, Unpersisted
<1>3. CASE \E u \in Ids, role \in Roles : CreateUser(r, u, role)
  BY <1>3 DEF CreateUser, memory, history
<1> QED BY <1>1, <1>2, <1>3 DEF Authenticate, Administer, Elsewhere

\* Entries that age keep their types.
LEMMA AgeTyped ==
    ASSUME NEW S, NEW e \in [row: S, left: 0..TTL] \cup [role: S, left: 0..TTL] \cup {None}
    PROVE \/ Age(e) = None
          \/ /\ e \in [row: S, left: 0..TTL] => Age(e) \in [row: S, left: 0..TTL] /\ Age(e).row = e.row
             /\ e \in [role: S, left: 0..TTL] => Age(e) \in [role: S, left: 0..TTL]
             /\ e # None /\ Age(e).left = e.left - 1
<1>1. CASE e = None \/ e.left = 0
  BY <1>1 DEF Age
<1>2. CASE e # None /\ e.left # 0
  <2>1. Age(e) = [e EXCEPT !.left = e.left - 1]
    BY <1>2 DEF Age
  <2>2. e.left - 1 \in 0..TTL
    BY <1>2, AccountsAssumption
  <2> QED BY <1>2, <2>1, <2>2
<1> QED BY <1>1, <1>2

\* The caches, the latches and the histories keep their types.
LEMMA MemoryTyped ==
    ASSUME TypeInv, [Next]_vars
    PROVE /\ mode' \in Modes
          /\ cache' \in [Ids -> [row: Users, left: 0..TTL] \cup {None}]
          /\ synced' \in [Ids -> [role: Roles, left: 0..TTL] \cup {None}]
          /\ latched' \in SUBSET KeyIds
          /\ events' \in 0..MaxEvents
          /\ suspended' \in [Ids -> 0..(TTL + 1) \cup {None}]
          /\ overtaken' \in SUBSET Ids /\ failed' \in SUBSET Ids
<1>1. TypeOK /\ \A r \in Requests : Carries(req[r])
  BY DEF TypeInv
<1>2. CASE UNCHANGED vars
  BY <1>1, <1>2 DEF vars, TypeOK
<1>3. CASE Tick
  <2>1. cache' \in [Ids -> [row: Users, left: 0..TTL] \cup {None}]
    <3>1. \A u \in Ids : Age(cache[u]) \in [row: Users, left: 0..TTL] \cup {None}
      <4> TAKE u \in Ids
      <4>1. cache[u] \in [row: Users, left: 0..TTL] \cup {None}
        BY <1>1 DEF TypeOK
      <4>2. CASE cache[u] = None
        BY <4>2 DEF Age
      <4> QED BY <4>1, <4>2, AgeTyped
    <3> QED BY <1>3, <3>1 DEF Tick
  <2>2. synced' \in [Ids -> [role: Roles, left: 0..TTL] \cup {None}]
    <3>1. \A u \in Ids : Age(synced[u]) \in [role: Roles, left: 0..TTL] \cup {None}
      <4> TAKE u \in Ids
      <4>1. synced[u] \in [role: Roles, left: 0..TTL] \cup {None}
        BY <1>1 DEF TypeOK
      <4>2. CASE synced[u] = None
        BY <4>2 DEF Age
      <4> QED BY <4>1, <4>2, AgeTyped
    <3> QED BY <1>3, <3>1 DEF Tick
  <2>3. suspended' \in [Ids -> 0..(TTL + 1) \cup {None}]
    <3>1. \A x \in 0..TTL : x + 1 \in 0..(TTL + 1)
      BY AccountsAssumption
    <3> QED BY <1>1, <1>3, <3>1 DEF Tick, TypeOK
  <2> QED BY <1>1, <1>3, <2>1, <2>2, <2>3 DEF Tick, TypeOK
<1>4. ASSUME NEW m \in Modes, Restart(m)
      PROVE /\ mode' \in Modes
            /\ cache' \in [Ids -> [row: Users, left: 0..TTL] \cup {None}]
            /\ synced' \in [Ids -> [role: Roles, left: 0..TTL] \cup {None}]
            /\ latched' \in SUBSET KeyIds
            /\ events' \in 0..MaxEvents
            /\ suspended' \in [Ids -> 0..(TTL + 1) \cup {None}]
            /\ overtaken' \in SUBSET Ids /\ failed' \in SUBSET Ids
  <2>1. events' \in 0..MaxEvents
    BY <1>1, <1>4, AccountsAssumption DEF Restart, Event, TypeOK
  <2> QED BY <1>1, <1>4, <2>1 DEF Restart, history, TypeOK
<1>5. ASSUME NEW r \in Requests, Authenticate(r) \/ Administer(r)
      PROVE /\ mode' \in Modes
            /\ cache' \in [Ids -> [row: Users, left: 0..TTL] \cup {None}]
            /\ synced' \in [Ids -> [role: Roles, left: 0..TTL] \cup {None}]
            /\ latched' \in SUBSET KeyIds
            /\ events' \in 0..MaxEvents
            /\ suspended' \in [Ids -> 0..(TTL + 1) \cup {None}]
            /\ overtaken' \in SUBSET Ids /\ failed' \in SUBSET Ids
  <2>1. mode' \in Modes
    BY <1>1, <1>5, Touches DEF TypeOK
  <2>2. cache' \in [Ids -> [row: Users, left: 0..TTL] \cup {None}]
    <3>1. CASE CacheIdentity(r)
      <4>1. req[r].id \in Ids /\ req[r].row \in Users
        BY <1>1, <3>1 DEF CacheIdentity, At, Carries
      <4>2. [row |-> req[r].row, left |-> TTL] \in [row: Users, left: 0..TTL]
        BY <4>1, AccountsAssumption
      <4> QED BY <1>1, <3>1, <4>1, <4>2 DEF CacheIdentity, TypeOK
    <3> QED BY <1>1, <1>5, <3>1, Touches DEF TypeOK
  <2>3. synced' \in [Ids -> [role: Roles, left: 0..TTL] \cup {None}]
    <3>1. CASE Persisted(r) /\ req[r].pc \in {"sync", "syncwrite", "syncmake"}
      <4>1. req[r].id \in Ids /\ req[r].role \in Roles
        BY <1>1, <3>1 DEF Carries
      <4>2. [role |-> req[r].role, left |-> TTL] \in [role: Roles, left: 0..TTL]
        BY <4>1, AccountsAssumption
      <4> QED BY <1>1, <3>1, <4>1, <4>2 DEF Persisted, TypeOK
    <3> QED BY <1>1, <1>5, <3>1, Touches DEF TypeOK
  <2>4. latched' \in SUBSET KeyIds
    <3>1. CASE Provision(r) \/ ProvisionCreate(r)
      <4>1. req[r].id \in KeyIds
        BY <1>1, <3>1 DEF Provision, ProvisionCreate, At, Carries
      <4>2. UNCHANGED latched \/ latched' = latched \cup {req[r].id}
        BY <3>1 DEF Provision, ProvisionCreate
      <4> QED BY <1>1, <4>1, <4>2 DEF TypeOK
    <3> QED BY <1>1, <1>5, <3>1, Touches DEF TypeOK
  <2>5. events' \in 0..MaxEvents
    BY <1>1, <1>5, Touches, AccountsAssumption DEF Event, TypeOK
  <2>6. suspended' \in [Ids -> 0..(TTL + 1) \cup {None}] /\ overtaken' \in SUBSET Ids
    <3>1. CASE WriteUser(r)
      <4>1. req[r].target \in Ids
        BY <1>1, <3>1 DEF WriteUser, At, Carries
      <4>2. overtaken' \in SUBSET Ids
        BY <1>1, <3>1, <4>1 DEF WriteUser, TypeOK
      <4>3. \/ UNCHANGED suspended \/ suspended' = [suspended EXCEPT ![req[r].target] = 0]
            \/ suspended' = [suspended EXCEPT ![req[r].target] = None]
        BY <3>1 DEF WriteUser
      <4>4. 0 \in 0..(TTL + 1)
        BY AccountsAssumption
      <4> QED BY <1>1, <4>1, <4>2, <4>3, <4>4 DEF TypeOK
    <3> QED BY <1>1, <1>5, <3>1, Touches DEF TypeOK
  <2>7. failed' \in SUBSET Ids
    BY <1>1, <1>5, Touches DEF Carries, TypeOK
  <2> QED BY <2>1, <2>2, <2>3, <2>4, <2>5, <2>6, <2>7
<1> QED BY <1>2, <1>3, <1>4, <1>5 DEF Next

\* A fresh database has its types.
LEMMA TypeInit == Init => TypeInv
<1> SUFFICES ASSUME Init PROVE TypeInv
  OBVIOUS
<1>1. users \in [Ids -> Users \cup {None}]
  <2>1. PICK us : us = [u \in Ids |-> None]
    OBVIOUS
  <2>2. users \in Bootstrapped(mode, us)
    BY <2>1 DEF Init
  <2>3. CASE mode # "apikey"
    BY <2>1, <2>2, <2>3 DEF Bootstrapped
  <2>4. CASE mode = "apikey"
    <3> DEFINE free == {k \in KeyIds : \A v \in Ids : us[v] # None => v # k /\ NameOf[v] # NameOf[k]}
               Row(k) == [role |-> KeyRole[k], status |-> "active", provider |-> "local"]
    <3>1. PICK made \in SUBSET free : users = [u \in Ids |-> IF u \in made THEN Row(u) ELSE us[u]]
      BY <2>2, <2>4 DEF Bootstrapped
    <3>2. \A k \in made : k \in KeyIds
      OBVIOUS
    <3>3. \A k \in KeyIds : KeyRole[k] \in Roles
      BY AccountsAssumption DEF Ids
    <3>4. \A k \in made : Row(k) \in Users
      BY <3>2, <3>3 DEF Users
    <3> HIDE DEF free, Row
    <3> QED BY <2>1, <3>1, <3>4
  <2> QED BY <2>3, <2>4
<1>2. req \in [Requests -> Calls] /\ \A r \in Requests : Carries(req[r])
  BY IdleTyped DEF Init
<1>3. events \in 0..MaxEvents
  BY AccountsAssumption DEF Init
<1>4. /\ mode \in Modes /\ depts \in [DeptIds -> Depts \cup {None}] /\ issued \in SUBSET FreshDepts
      /\ namespaces \in [Namespaces -> DeptIds \cup {None}]
      /\ cache \in [Ids -> [row: Users, left: 0..TTL] \cup {None}]
      /\ synced \in [Ids -> [role: Roles, left: 0..TTL] \cup {None}]
      /\ latched \in SUBSET KeyIds
      /\ suspended \in [Ids -> 0..(TTL + 1) \cup {None}]
      /\ overtaken \in SUBSET Ids /\ failed \in SUBSET Ids
  BY DEF Init
<1> QED BY <1>1, <1>2, <1>3, <1>4 DEF TypeInv, TypeOK

\* Every step keeps the types.
LEMMA TypeStep == TypeInv /\ [Next]_vars => TypeInv'
<1> SUFFICES ASSUME TypeInv, [Next]_vars PROVE TypeInv'
  OBVIOUS
<1>1. TypeOK'
  <2>1. users' \in [Ids -> Users \cup {None}]
    BY UserRows
  <2>2. req' \in [Requests -> Calls]
    BY RequestsTyped
  <2> QED BY <2>1, <2>2, DepartmentsTyped, MemoryTyped DEF TypeOK
<1>2. (\A r \in Requests : Carries(req[r]))'
  BY RequestsTyped
<1> QED BY <1>1, <1>2 DEF TypeInv

\* Every reachable state is well-typed.
LEMMA TypeAlways == Spec => []TypeInv
BY TypeInit, TypeStep, PTL DEF Spec

-----------------------------------------------------------------------------
(* A latch is durable.                                                     *)

\* A user's row stays once it is there.
LEMMA RowsStay ==
    ASSUME TypeInv, [Next]_vars, NEW u \in Ids, users[u] # None
    PROVE users'[u] # None
BY UserRows, NoneIsNoRow DEF Appears, WritesBack

\* Every step keeps the rows that latches stand for.
LEMMA LatchStep == TypeInv /\ LatchMeansRecord /\ [Next]_vars => LatchMeansRecord'
<1> SUFFICES ASSUME TypeInv, LatchMeansRecord, [Next]_vars PROVE LatchMeansRecord'
  OBVIOUS
<1>1. latched \in SUBSET KeyIds /\ KeyIds \subseteq Ids /\ (\A r \in Requests : Carries(req[r]))
      /\ users \in [Ids -> Users \cup {None}]
  BY DEF TypeInv, TypeOK, Ids
<1>2. \A u \in latched : users'[u] # None
  BY <1>1, RowsStay DEF LatchMeansRecord, Exists
<1>3. ASSUME NEW r \in Requests, Authenticate(r) \/ Administer(r) PROVE \A u \in latched' : users'[u] # None
  <2>1. CASE UNCHANGED latched
    BY <1>2, <2>1
  <2>2. CASE Provision(r) /\ Exists(req[r].id) /\ latched' = latched \cup {req[r].id}
    <3>1. req[r].id \in Ids /\ users'[req[r].id] = users[req[r].id]
      BY <1>1, <2>2 DEF Provision, At, Carries
    <3> QED BY <1>2, <2>2, <3>1 DEF Exists
  <2>3. CASE ProvisionCreate(r) /\ latched' = latched \cup {req[r].id}
             /\ (Exists(req[r].id) \/ users' = [users EXCEPT ![req[r].id] =
                    [role |-> KeyRole[req[r].id], status |-> "active", provider |-> "local"]])
    <3>1. req[r].id \in KeyIds
      BY <1>1, <2>3 DEF ProvisionCreate, At, Carries
    <3>2. KeyRole[req[r].id] \in Roles /\ req[r].id \in Ids
      BY <1>1, <3>1, AccountsAssumption
    <3>3. PICK w : w = [role |-> KeyRole[req[r].id], status |-> "active", provider |-> "local"]
      OBVIOUS
    <3>4. w \in Users
      BY <3>2, <3>3 DEF Users
    <3>5. users'[req[r].id] # None
      BY <1>1, <2>3, <3>2, <3>3, <3>4, RowsStay, NoneIsNoRow DEF Exists
    <3> QED BY <1>2, <2>3, <3>5
  <2> QED BY <1>3, <2>1, <2>2, <2>3, Touches DEF Provision, ProvisionCreate
<1>4. ASSUME (\E m \in Modes : Restart(m)) \/ Tick \/ UNCHANGED vars
      PROVE \A u \in latched' : users'[u] # None
  BY <1>2, <1>4 DEF Restart, Tick, vars
<1>5. \A u \in latched' : users'[u] # None
  BY <1>3, <1>4 DEF Next
<1> QED BY <1>5 DEF LatchMeansRecord, Exists

\* No static key stops provisioning without a row, whatever fails and
\* whichever request holds the latch (LatchMeansRecord).
THEOREM LatchesAreDurable == Spec => []LatchMeansRecord
<1>1. Init => LatchMeansRecord
  BY DEF Init, LatchMeansRecord
<1> QED BY <1>1, LatchStep, TypeAlways, PTL DEF Spec

-----------------------------------------------------------------------------
(* A subject keeps its provider.                                           *)

\* A step of one request leaves the others as they are; WriteUser may clear
\* their lateness.
LEMMA OthersStay ==
    ASSUME TypeInv, NEW r \in Requests, Authenticate(r) \/ Administer(r), NEW q \in Requests \ {r}
    PROVE /\ req'[q].pc = req[q].pc /\ req'[q].id = req[q].id /\ req'[q].role = req[q].role
          /\ req'[q].row = req[q].row /\ req'[q].target = req[q].target
          /\ req'[q].intent = req[q].intent
          /\ req'[q].late = req[q].late \/ WriteUser(r)
<1>1. req \in [Requests -> Calls]
  BY DEF TypeInv, TypeOK
<1>2. CASE WriteUser(r)
  BY <1>1, <1>2, WriteTurns
<1>3. ASSUME NEW p, Goto(r, p) PROVE req'[q] = req[q]
  BY <1>1, <1>3 DEF Goto
<1>4. ASSUME Reply(r) PROVE req'[q] = req[q]
  BY <1>1, <1>4 DEF Reply
<1>5. ASSUME Persisted(r) \/ Unpersisted(r) PROVE req'[q] = req[q]
  BY <1>1, <1>5 DEF Persisted, Unpersisted
<1>6. ASSUME NEW w, CheckStatus(r, w) PROVE req'[q] = req[q]
  BY <1>1, <1>4, <1>6 DEF CheckStatus
<1>7. ASSUME NEW u, NEW w, NEW it, EditUser(r, u, w, it) PROVE req'[q] = req[q]
  BY <1>1, <1>7 DEF EditUser
<1>8. ASSUME NEW u, NEW p, NEW ro, Arrive(r, u, p, ro) PROVE req'[q] = req[q]
  BY <1>1, <1>8 DEF Arrive
<1>9. CASE (\E u \in Ids : PresentKey(r, u) \/ PresentForwarded(r, u))
           \/ \E u \in Ids, role \in Roles : PresentToken(r, u, role)
  BY <1>8, <1>9 DEF PresentKey, PresentForwarded, PresentToken
<1>10. CASE Provision(r) \/ ProvisionDept(r) \/ ProvisionCreate(r) \/ SyncDept(r)
  BY <1>3, <1>10 DEF Provision, ProvisionDept, ProvisionCreate, SyncDept
<1>11. CASE SyncRead(r) \/ SyncWrite(r) \/ SyncCreate(r)
  BY <1>1, <1>3, <1>4, <1>5, <1>11 DEF SyncRead, SyncWrite, SyncCreate
<1>12. CASE Resolve(r) \/ CacheIdentity(r)
  BY <1>1, <1>6, <1>12 DEF Resolve, CacheIdentity
<1>13. CASE \/ \E u \in Ids, role \in Edits \cap Roles : PatchRole(r, u, role)
            \/ \E u \in Ids, status \in Edits \ Roles : SetStatus(r, u, status)
            \/ \E u \in Ids, role \in Roles : CreateUser(r, u, role)
            \/ ServeOther(r)
  BY <1>4, <1>7, <1>13 DEF PatchRole, SetStatus, CreateUser, ServeOther
<1>14. CASE \E d \in DeptIds, n \in DeptNames :
              CreateDepartmentTool(r, d, n) \/ ProvisionNamespace(r, d, n) \/ RenameDepartment(r, d, n)
  BY <1>1, <1>4, <1>14 DEF CreateDepartmentTool, ProvisionNamespace, RenameDepartment
<1>15. CASE (\E d \in DeptIds : DeleteDepartment(r, d)) \/ InsertDepartment(r) \/ UndoNamespace(r)
            \/ WriteDepartment(r) \/ DropRow(r) \/ CascadeNamespace(r)
  BY <1>1, <1>3, <1>4, <1>15 DEF DeleteDepartment, InsertDepartment, UndoNamespace, WriteDepartment,
                               DropRow, CascadeNamespace
<1> QED
  BY <1>2, <1>9, <1>10, <1>11, <1>12, <1>13, <1>14, <1>15 DEF Authenticate, Administer

\* The provider of a row never changes, and the row that appears for a
\* subject while the server verifies tokens is of the OIDC provider.
LEMMA ProvidersStay ==
    ASSUME TypeInv, ProviderInv, [Next]_vars
    PROVE /\ \A u \in Ids : users[u] # None => users'[u] # None /\ users'[u].provider = users[u].provider
          /\ \A u \in Subjects : mode' = "oidc" /\ users[u] = None /\ users'[u] # None
                => users'[u].provider = "oidc"
<1>1. ASSUME NEW u \in Ids, users[u] # None
      PROVE users'[u] # None /\ users'[u].provider = users[u].provider
  <2>1. users'[u] # None
    BY <1>1, RowsStay
  <2>2. CASE users'[u] = users[u]
    BY <1>1, <2>2
  <2>3. ASSUME NEW r \in Requests, WritesBack(r, u) PROVE users'[u].provider = users[u].provider
    <3>1. ProviderOk(req[r])
      BY DEF ProviderInv
    <3> QED BY <2>3, <3>1 DEF WritesBack, SyncWrite, WriteUser, At, ProviderOk
  <2> QED BY <1>1, <2>1, <2>2, <2>3, UserRows DEF Appears
<1>2. ASSUME NEW u \in Subjects, mode' = "oidc", users[u] = None, users'[u] # None
      PROVE users'[u].provider = "oidc"
  <2>1. u \in Ids /\ u \notin LocalIds
    BY GeneratedIds DEF Ids
  <2>2. \A r \in Requests : req[r].pc = "provmake" => mode = "apikey"
    BY DEF ProviderInv, ProviderOk
  <2>3. ASSUME NEW r \in Requests, WritesBack(r, u) PROVE FALSE
    <3>1. ProviderOk(req[r])
      BY DEF ProviderInv
    <3> QED BY <1>2, <2>3, <3>1 DEF WritesBack, SyncWrite, WriteUser, At, ProviderOk, Exists
  <2> QED BY <1>2, <2>1, <2>2, <2>3, UserRows DEF Appears
<1> QED BY <1>1, <1>2

\* A request left where it is may rely on what it did.
LEMMA ProviderOthers ==
    ASSUME TypeInv, ProviderInv, [Next]_vars, UNCHANGED mode, failed \subseteq failed',
           NEW q \in Requests,
           req'[q].pc = req[q].pc, req'[q].id = req[q].id, req'[q].row = req[q].row,
           req'[q].target = req[q].target
    PROVE (ProviderOk(req[q]))'
<1>1. ProviderOk(req[q]) /\ Carries(req[q])
  BY DEF ProviderInv, TypeInv
<1>2. CASE req[q].pc = "userwrite"
  BY <1>1, <1>2, ProvidersStay DEF ProviderOk, Carries, Exists, Bound
<1>3. CASE req[q].pc # "userwrite" /\ mode # "oidc"
  BY <1>1, <1>3 DEF ProviderOk, Bound
<1>4. CASE req[q].pc # "userwrite" /\ mode = "oidc"
  <2>1. CASE req[q].pc \in {"dept", "sync", "syncwrite", "syncmake", "resolve", "put", "serve"}
    <3>1. req[q].id \in Subjects /\ req[q].id \in Ids
      BY <1>1, <1>4, <2>1 DEF ProviderOk, Ids
    <3>2. /\ users[req[q].id] # None => users'[req[q].id] # None
                 /\ users'[req[q].id].provider = users[req[q].id].provider
          /\ users[req[q].id] = None /\ users'[req[q].id] # None => users'[req[q].id].provider = "oidc"
      BY <1>4, <3>1, ProvidersStay
    <3> QED BY <1>1, <1>4, <2>1, <3>1, <3>2 DEF ProviderOk, Exists, Bound
  <2>2. CASE req[q].pc \notin {"dept", "sync", "syncwrite", "syncmake", "resolve", "put", "serve"}
    BY <1>1, <1>4, <2>2 DEF ProviderOk, Bound
  <2> QED BY <2>1, <2>2
<1> QED BY <1>2, <1>3, <1>4

\* A request that is answered or turns to departments relies on nothing.
LEMMA ProviderFree ==
    ASSUME NEW r, req'[r].pc \in DeptStages \cup {"idle"}
    PROVE (ProviderOk(req[r]))'
BY DEF ProviderOk, DeptStages, Bound

\* The request that takes the step may rely on what it needs next.
LEMMA ProviderActor ==
    ASSUME TypeInv, ProviderInv, NEW r \in Requests, Authenticate(r) \/ Administer(r)
    PROVE (ProviderOk(req[r]))'
<1>1. /\ req \in [Requests -> Calls] /\ Carries(req[r]) /\ ProviderOk(req[r])
      /\ users \in [Ids -> Users \cup {None}]
  BY DEF TypeInv, TypeOK, ProviderInv
<1>2. [Next]_vars /\ UNCHANGED mode /\ failed \subseteq failed'
  BY Touches DEF Next
<1>3. ASSUME Reply(r) PROVE (ProviderOk(req[r]))'
  <2>1. req'[r].pc = "idle"
    BY <1>1, <1>3, IdleTyped DEF Reply
  <2> QED BY <2>1, ProviderFree
<1>4. ASSUME mode = "apikey", req'[r].pc \in {"latch", "provdept", "provmake", "resolve"}
      PROVE (ProviderOk(req[r]))'
  BY <1>4, <1>2 DEF ProviderOk, Bound
<1>5. CASE \E u \in Ids : PresentKey(r, u)
  <2>1. PICK u \in Ids : PresentKey(r, u)
    BY <1>5
  <2>2. PICK p \in {"latch", "resolve"} : Arrive(r, u, p, None)
    BY <2>1 DEF PresentKey
  <2>3. req'[r].pc = p
    BY <1>1, <2>2, ArriveTurns DEF Turns, Stages
  <2> QED BY <1>4, <2>1, <2>2, <2>3 DEF PresentKey
<1>6. CASE \E u \in Ids : PresentForwarded(r, u)
  <2>1. PICK u \in Ids : mode = "oauth" /\ Arrive(r, u, "resolve", None)
    BY <1>6 DEF PresentForwarded
  <2>2. req'[r].pc = "resolve"
    BY <1>1, <2>1, ArriveTurns DEF Turns, Stages
  <2> QED BY <1>2, <2>1, <2>2 DEF ProviderOk, Bound
<1>7. CASE \E u \in Ids, role \in Roles : PresentToken(r, u, role)
  <2>1. PICK u \in Ids, ro \in Roles : PresentToken(r, u, ro)
    BY <1>7
  <2>2. mode = "oidc" /\ u \in Subjects
    BY <2>1 DEF PresentToken
  <2>3. CASE synced[u] # None /\ Arrive(r, u, "resolve", None)
    <3>1. req'[r].pc = "resolve" /\ req'[r].id = u
      BY <1>1, <2>3, ArriveTurns DEF Turns, Stages
    <3>2. users'[u] = users[u] /\ users[u].provider = "oidc"
      BY <2>3 DEF ProviderInv, Arrive
    <3> QED BY <1>2, <2>2, <3>1, <3>2 DEF ProviderOk, Bound
  <2>4. ASSUME NEW p \in {"sync", "dept"}, Arrive(r, u, p, ro) PROVE (ProviderOk(req[r]))'
    <3>1. req'[r].pc = p /\ req'[r].id = u
      BY <1>1, <2>4, ArriveTurns DEF Turns, Stages
    <3> QED BY <1>2, <2>2, <3>1 DEF ProviderOk, Bound
  <2> QED BY <2>1, <2>3, <2>4 DEF PresentToken, Fresh
<1>8. CASE Provision(r) \/ ProvisionDept(r) \/ ProvisionCreate(r)
  <2>1. mode = "apikey"
    BY <1>1, <1>8 DEF Provision, ProvisionDept, ProvisionCreate, At, ProviderOk
  <2>2. PICK p \in {"provdept", "provmake", "resolve"} : Goto(r, p)
    BY <1>8 DEF Provision, ProvisionDept, ProvisionCreate
  <2>3. req'[r].pc = p
    BY <1>1, <2>2, GotoTurns DEF Advances, Turns, Stages
  <2> QED BY <1>4, <2>1, <2>3
<1>9. CASE SyncDept(r)
  <2>1. req[r].pc = "dept" /\ req'[r].pc = "sync" /\ req'[r].id = req[r].id
    BY <1>1, <1>9, GotoTurns DEF SyncDept, At, Advances, Turns, Stages
  <2> QED BY <1>1, <1>2, <2>1 DEF ProviderOk, Bound
<1>10. CASE SyncRead(r)
  <2>1. /\ req[r].pc = "sync" /\ mode = "oidc" /\ req[r].id \in Subjects /\ req[r].id \in Ids
        /\ UNCHANGED users
    BY <1>1, <1>10 DEF SyncRead, At, ProviderOk, Ids
  <2>2. CASE Exists(req[r].id) /\ users[req[r].id].provider = "oidc" /\ Persisted(r)
    <3>1. req'[r].pc = "resolve" /\ req'[r].id = req[r].id
      BY <1>1, <2>2, SyncTurns DEF Turns
    <3> QED BY <1>2, <2>1, <2>2, <3>1 DEF ProviderOk, Bound
  <2>3. CASE Goto(r, "syncmake") /\ (~Exists(req[r].id) \/ StoreFails(req[r].id))
    <3>1. req'[r].pc = "syncmake" /\ req'[r].id = req[r].id
      BY <1>1, <2>3, GotoTurns DEF Advances, Turns, Stages
    <3> QED BY <1>2, <2>1, <2>3, <3>1 DEF ProviderOk, Bound, Exists, StoreFails
  <2>4. CASE /\ Exists(req[r].id) /\ users[req[r].id].provider = "oidc"
             /\ req' = [req EXCEPT ![r].pc = "syncwrite",
                                   ![r].row = [users[req[r].id] EXCEPT !.role = req[r].role]]
    <3>1. users[req[r].id] \in Users
      BY <1>1, <2>1, <2>4 DEF Exists
    <3>2. PICK w : w = [users[req[r].id] EXCEPT !.role = req[r].role]
      OBVIOUS
    <3>3. w.provider = "oidc"
      BY <2>4, <3>1, <3>2 DEF Users
    <3>4. req'[r].pc = "syncwrite" /\ req'[r].id = req[r].id /\ req'[r].row = w
      BY <1>1, <2>4, <3>2 DEF Calls
    <3> QED BY <1>2, <2>1, <2>4, <3>3, <3>4 DEF ProviderOk, Bound, Exists
  <2> QED BY <1>10, <1>3, <2>2, <2>3, <2>4 DEF SyncRead
<1>11. CASE SyncWrite(r)
  <2>1. /\ req[r].pc = "syncwrite" /\ mode = "oidc" /\ req[r].id \in Subjects /\ req[r].id \in Ids
        /\ req[r].row.provider = "oidc"
    BY <1>1, <1>11 DEF SyncWrite, At, ProviderOk, Ids
  <2>2. req'[r].pc = "resolve" /\ req'[r].id = req[r].id
    BY <1>1, <1>11, SyncTurns DEF Turns, SyncWrite
  <2>3. users' = [users EXCEPT ![req[r].id] = req[r].row] \/ req[r].id \in failed'
    BY <1>11 DEF SyncWrite, StoreFails
  <2> QED BY <1>1, <1>2, <2>1, <2>2, <2>3 DEF ProviderOk, Bound, Exists
<1>12. CASE SyncCreate(r)
  <2>1. /\ req[r].pc = "syncmake" /\ mode = "oidc" /\ req[r].id \in Subjects /\ req[r].id \in Ids
    BY <1>1, <1>12 DEF SyncCreate, At, ProviderOk, Ids
  <2>2. req'[r].pc = "resolve" /\ req'[r].id = req[r].id
    BY <1>1, <1>12, SyncTurns DEF Turns, SyncCreate
  <2>3. \/ users' = [users EXCEPT ![req[r].id] = [role |-> req[r].role, status |-> "active", provider |-> "oidc"]]
        \/ UNCHANGED users
    BY <1>12 DEF SyncCreate
  <2>4. Exists(req[r].id) /\ req[r].id \notin failed => users[req[r].id].provider = "oidc"
    BY <1>1, <2>1 DEF ProviderOk, Bound
  <2>5. users'[req[r].id] = None \/ req[r].id \in failed' \/ users'[req[r].id].provider = "oidc"
    BY <1>1, <1>2, <2>1, <2>3, <2>4 DEF Exists
  <2> QED BY <1>2, <2>1, <2>2, <2>5 DEF ProviderOk, Bound, Exists
<1>13. CASE Resolve(r) \/ CacheIdentity(r)
  <2>1. req[r].pc \in {"resolve", "put"} /\ UNCHANGED users
    BY <1>13 DEF Resolve, CacheIdentity, At
  <2>2. Reply(r) \/ (req'[r].pc \in {"put", "serve"} /\ req'[r].id = req[r].id)
    BY <1>1, <1>13 DEF Resolve, CacheIdentity, CheckStatus, Calls
  <2>3. ASSUME req'[r].pc \in {"put", "serve"}, req'[r].id = req[r].id PROVE (ProviderOk(req[r]))'
    BY <1>1, <1>2, <2>1, <2>3 DEF ProviderOk, Bound, Exists
  <2> QED BY <1>3, <2>2, <2>3
<1>14. ASSUME NEW u \in Ids, NEW w \in Users, NEW it \in {"active", "suspended", None},
              EditUser(r, u, w, it), w.provider = users[u].provider
       PROVE (ProviderOk(req[r]))'
  <2>1. req'[r].pc = "userwrite" /\ req'[r].target = u /\ req'[r].row = w
    BY <1>1, <1>14, EditTurns DEF Turns
  <2>2. UNCHANGED users /\ Exists(u)
    BY <1>14 DEF EditUser
  <2> QED BY <1>14, <2>1, <2>2 DEF ProviderOk, Bound, Exists
<1>15. CASE \E u \in Ids, role \in Edits \cap Roles : PatchRole(r, u, role)
  <2>1. PICK u \in Ids, ro \in Edits \cap Roles : PatchRole(r, u, ro)
    BY <1>15
  <2>2. PICK w : w = [users[u] EXCEPT !.role = ro]
    OBVIOUS
  <2>3. users[u] \in Users
    BY <1>1, <2>1 DEF PatchRole, Exists
  <2>4. w \in Users /\ w.provider = users[u].provider
    BY <2>2, <2>3 DEF Users
  <2> QED BY <1>14, <2>1, <2>2, <2>4 DEF PatchRole
<1>16. CASE \E u \in Ids, status \in Edits \ Roles : SetStatus(r, u, status)
  <2>1. PICK u \in Ids, st \in Edits \ Roles : SetStatus(r, u, st)
    BY <1>16
  <2>2. PICK w : w = [users[u] EXCEPT !.status = st]
    OBVIOUS
  <2>3. users[u] \in Users /\ st \in {"active", "suspended"}
    BY <1>1, <2>1, AccountsAssumption DEF SetStatus, Exists
  <2>4. w \in Users /\ w.provider = users[u].provider
    BY <2>2, <2>3 DEF Users
  <2> QED BY <1>14, <2>1, <2>2, <2>3, <2>4 DEF SetStatus
<1>17. CASE WriteUser(r)
  <2>1. req'[r].pc = "idle"
    BY <1>1, <1>17, WriteTurns, IdleTyped
  <2> QED BY <2>1, ProviderFree
<1>18. CASE \E d \in DeptIds, n \in DeptNames :
              CreateDepartmentTool(r, d, n) \/ ProvisionNamespace(r, d, n) \/ RenameDepartment(r, d, n)
  <2>1. Reply(r) \/ req'[r].pc \in {"deptrow", "deptwrite"}
    BY <1>1, <1>18 DEF CreateDepartmentTool, ProvisionNamespace, RenameDepartment, Calls
  <2> QED BY <1>3, <2>1, ProviderFree DEF DeptStages
<1>19. CASE (\E d \in DeptIds : DeleteDepartment(r, d)) \/ InsertDepartment(r) \/ UndoNamespace(r)
            \/ WriteDepartment(r) \/ DropRow(r) \/ CascadeNamespace(r)
  <2>1. ASSUME NEW d \in DeptIds, DeleteDepartment(r, d) PROVE req'[r].pc = "deptdrop"
    BY <1>1, <2>1 DEF DeleteDepartment, Calls
  <2>2. ASSUME Goto(r, "deptundo") \/ Goto(r, "nsdrop") PROVE req'[r].pc \in DeptStages
    BY <1>1, <2>2 DEF Goto, Calls, DeptStages
  <2>3. \/ \E d \in DeptIds : DeleteDepartment(r, d)
        \/ Goto(r, "deptundo") \/ Goto(r, "nsdrop") \/ Reply(r)
    BY <1>19 DEF InsertDepartment, UndoNamespace, WriteDepartment, DropRow, CascadeNamespace
  <2> QED BY <1>3, <2>1, <2>2, <2>3, ProviderFree DEF DeptStages
<1>20. CASE ServeOther(r) \/ \E u \in Ids, role \in Roles : CreateUser(r, u, role)
  BY <1>20, <1>3 DEF ServeOther, CreateUser
<1> QED
  BY <1>5, <1>6, <1>7, <1>8, <1>9, <1>10, <1>11, <1>12, <1>13, <1>15, <1>16, <1>17, <1>18, <1>19, <1>20
     DEF Authenticate, Administer

\* Claims are remembered only of accounts of the provider.
LEMMA SyncedStep ==
    ASSUME TypeInv, ProviderInv, [Next]_vars, NEW u \in Ids, synced'[u] # None
    PROVE users'[u] # None /\ users'[u].provider = "oidc"
<1>1. synced \in [Ids -> [role: Roles, left: 0..TTL] \cup {None}] /\ users \in [Ids -> Users \cup {None}]
  BY DEF TypeInv, TypeOK
<1>2. CASE synced[u] # None
  BY <1>2, ProvidersStay DEF ProviderInv, Exists
<1>3. ASSUME synced[u] = None, NEW r \in Requests, Authenticate(r) \/ Administer(r)
      PROVE users'[u] # None /\ users'[u].provider = "oidc"
  <2>1. Persisted(r) /\ req[r].pc \in {"sync", "syncwrite", "syncmake"}
    BY <1>3, Touches
  <2>2. u = req[r].id
    BY <1>1, <1>3, <2>1 DEF Persisted
  <2>3. SyncRead(r) \/ SyncWrite(r) \/ SyncCreate(r)
    BY <1>3, <2>1 DEF Authenticate, Administer, PresentKey, PresentForwarded, PresentToken, Arrive,
       Provision, ProvisionDept, ProvisionCreate, SyncDept, Resolve, CacheIdentity, ServeOther,
       CreateUser, PatchRole, SetStatus, EditUser, WriteUser, CreateDepartmentTool,
       ProvisionNamespace, RenameDepartment, InsertDepartment, UndoNamespace, WriteDepartment,
       DeleteDepartment, DropRow, CascadeNamespace, IsAdmin, At
  <2>4. ProviderOk(req[r]) /\ Carries(req[r])
    BY DEF ProviderInv, TypeInv
  <2>5. CASE SyncRead(r)
    <3>1. synced' # synced
      BY <1>1, <1>3
    <3>2. Exists(u) /\ users[u].provider = "oidc" /\ UNCHANGED users
      BY <2>2, <2>5, <3>1 DEF SyncRead
    <3> QED BY <3>2 DEF Exists
  <2>6. CASE SyncWrite(r)
    <3>1. synced' # synced
      BY <1>1, <1>3
    <3>2. users' = [users EXCEPT ![u] = req[r].row] /\ req[r].pc = "syncwrite"
      BY <2>2, <2>6, <3>1 DEF SyncWrite, At, Unpersisted
    <3>3. req[r].row \in Users /\ req[r].row.provider = "oidc"
      BY <2>4, <3>2 DEF ProviderOk, Carries
    <3> QED BY <1>1, <3>2, <3>3, NoneIsNoRow
  <2>7. CASE SyncCreate(r)
    <3>1. synced' # synced
      BY <1>1, <1>3
    <3>2. PICK w : w = [role |-> req[r].role, status |-> "active", provider |-> "oidc"]
      OBVIOUS
    <3>3. users' = [users EXCEPT ![u] = w] /\ req[r].pc = "syncmake"
      BY <2>2, <2>7, <3>1, <3>2 DEF SyncCreate, At, Unpersisted
    <3>4. w \in Users /\ w.provider = "oidc"
      BY <2>4, <3>2, <3>3 DEF Carries, Users
    <3> QED BY <1>1, <3>3, <3>4, NoneIsNoRow
  <2> QED BY <2>3, <2>5, <2>6, <2>7
<1>4. ASSUME synced[u] = None PROVE ~((\E m \in Modes : Restart(m)) \/ Tick \/ UNCHANGED vars)
  <2>1. CASE Tick
    <3>1. synced'[u] = Age(synced[u])
      BY <2>1 DEF Tick
    <3> QED BY <1>4, <3>1 DEF Age
  <2> QED BY <1>4, <2>1 DEF Restart, vars
<1> QED BY <1>2, <1>3, <1>4 DEF Next

\* Every step keeps what requests rely on.
LEMMA ProviderStep == TypeInv /\ ProviderInv /\ [Next]_vars => ProviderInv'
<1> SUFFICES ASSUME TypeInv, ProviderInv, [Next]_vars PROVE ProviderInv'
  OBVIOUS
<1>1. \A u \in Ids : synced'[u] # None => users'[u] # None /\ users'[u].provider = "oidc"
  BY SyncedStep
<1>2. ASSUME NEW q \in Requests PROVE (ProviderOk(req[q]))'
  <2>1. ASSUME NEW r \in Requests, Authenticate(r) \/ Administer(r) PROVE (ProviderOk(req[q]))'
    <3>1. CASE q = r
      BY <2>1, <3>1, ProviderActor
    <3>2. CASE q # r
      <4>1. UNCHANGED mode /\ failed \subseteq failed'
        BY <2>1, Touches
      <4>2. /\ req'[q].pc = req[q].pc /\ req'[q].id = req[q].id /\ req'[q].row = req[q].row
            /\ req'[q].target = req[q].target
        BY <2>1, <3>2, OthersStay
      <4> QED BY <4>1, <4>2, ProviderOthers
    <3> QED BY <3>1, <3>2
  <2>2. ASSUME NEW m \in Modes, Restart(m) PROVE (ProviderOk(req[q]))'
    BY <2>2, IdleTyped, ProviderFree DEF Restart
  <2>3. CASE Tick \/ UNCHANGED vars
    <3>1. UNCHANGED <<req, mode, failed>>
      BY <2>3 DEF Tick, vars
    <3> QED BY <3>1, ProviderOthers
  <2> QED BY <2>1, <2>2, <2>3 DEF Next
<1> QED BY <1>1, <1>2 DEF ProviderInv, Exists

\* A subject is never served as an account of another provider, across
\* restarts in another mode, cached claims and racing creations, while the
\* store answers (BindKeepsProvider).
THEOREM SubjectsKeepProvider == Spec => []BindKeepsProvider
<1>1. Init => ProviderInv
  BY IdleTyped DEF Init, ProviderInv, ProviderOk, Bound
<1>2. ProviderInv => BindKeepsProvider
  BY DEF ProviderInv, ProviderOk, Bound, BindKeepsProvider
<1> QED BY <1>1, <1>2, ProviderStep, TypeAlways, PTL DEF Spec

-----------------------------------------------------------------------------
(* A department's namespace is its own.                                    *)

\* If request q is at work on a department after the step, it was before, on
\* the same one with the same row.
Follows(q) ==
    req'[q].pc \in DeptStages =>
        /\ req'[q].target = req[q].target /\ req'[q].row = req[q].row
        /\ \/ req'[q].pc = req[q].pc
           \/ req[q].pc = "deptrow" /\ req'[q].pc = "deptundo"

\* A step that changes no row and no namespace keeps the departments in order.
LEMMA QuietKeeps ==
    ASSUME DepartmentInv, UNCHANGED <<depts, namespaces>>, issued \subseteq issued',
           \A q \in Requests : Follows(q)
    PROVE DepartmentInv'
<1>1. /\ NamespaceIsOwn'
      /\ (\A d \in DeptIds : depts[d] # None /\ d \notin FreshDepts => depts[d].ns = None)'
  BY DEF DepartmentInv, NamespaceIsOwn
<1>2. ASSUME NEW d \in FreshDepts \ issued'
      PROVE /\ depts'[d] = None /\ \A n \in Namespaces : namespaces'[n] # d
            /\ \A r \in Requests : req'[r].pc \in DeptStages => req'[r].target # d
  BY <1>2 DEF DepartmentInv, Follows, DeptStages
<1>3. ASSUME NEW r \in Requests PROVE (DeptOk(req[r]))'
  BY DEF DepartmentInv, DeptOk, Follows, DeptStages
<1>4. ASSUME NEW r \in Requests, NEW q \in Requests, r # q, req'[r].target = req'[q].target
      PROVE /\ req'[r].pc \in {"deptrow", "deptundo"} => req'[q].pc \notin DeptStages
            /\ req'[r].pc = "nsdrop" => req'[q].pc # "nsdrop"
  BY <1>4 DEF DepartmentInv, Follows, DeptStages
<1> QED BY <1>1, <1>2, <1>3, <1>4 DEF DepartmentInv

\* Nor does the creation of a row without a namespace disturb it.
LEMMA BareRowKeeps ==
    ASSUME TypeInv, DepartmentInv, NEW d \in DeptIds, NEW n \in DeptNames,
           CreateDepartment(d, n, None), UNCHANGED namespaces,
           \/ Issue(d)
           \/ d \notin FreshDepts /\ UNCHANGED issued,
           \A q \in Requests : Follows(q)
    PROVE DepartmentInv'
<1>1. /\ depts' \in [DeptIds -> Depts \cup {None}] /\ depts[d] = None /\ depts'[d].ns = None
      /\ \A e \in DeptIds \ {d} : depts'[e] = depts[e]
      /\ issued \subseteq issued' /\ d \notin FreshDepts \ issued'
      /\ \A r \in Requests : Carries(req[r])
  <2>1. depts \in [DeptIds -> Depts \cup {None}] /\ (\A r \in Requests : Carries(req[r]))
    BY DEF TypeInv, TypeOK
  <2>2. issued \subseteq issued' /\ d \notin FreshDepts \ issued'
    BY DEF Issue
  <2> QED BY <2>1, <2>2, CreateDepartmentTyped
<1>2. NamespaceIsOwn'
  BY <1>1 DEF DepartmentInv, NamespaceIsOwn
<1>3. (\A e \in DeptIds : depts[e] # None /\ e \notin FreshDepts => depts[e].ns = None)'
  BY <1>1 DEF DepartmentInv
<1>4. ASSUME NEW e \in FreshDepts \ issued'
      PROVE /\ depts'[e] = None /\ \A x \in Namespaces : namespaces'[x] # e
            /\ \A r \in Requests : req'[r].pc \in DeptStages => req'[r].target # e
  BY <1>1, <1>4 DEF DepartmentInv, Follows, DeptStages, DeptIds
<1>5. ASSUME NEW r \in Requests PROVE (DeptOk(req[r]))'
  <2>1. CASE req'[r].pc \in DeptStages
    <3>1. /\ req'[r].target = req[r].target /\ req'[r].row = req[r].row /\ req[r].pc \in DeptStages
          /\ req[r].target \in DeptIds /\ DeptOk(req[r])
          /\ \/ req'[r].pc = req[r].pc
             \/ req[r].pc = "deptrow" /\ req'[r].pc = "deptundo"
      BY <1>1, <2>1 DEF Follows, DeptStages, Carries, DepartmentInv
    <3>2. req[r].target = d => d \notin FreshDepts
      BY <3>1 DEF DepartmentInv, Issue
    <3> QED BY <1>1, <3>1, <3>2 DEF DeptOk
  <2>2. CASE req'[r].pc \notin DeptStages
    BY <2>2 DEF DeptOk, DeptStages
  <2> QED BY <2>1, <2>2
<1>6. ASSUME NEW r \in Requests, NEW q \in Requests, r # q, req'[r].target = req'[q].target
      PROVE /\ req'[r].pc \in {"deptrow", "deptundo"} => req'[q].pc \notin DeptStages
            /\ req'[r].pc = "nsdrop" => req'[q].pc # "nsdrop"
  BY <1>6 DEF DepartmentInv, Follows, DeptStages
<1> QED BY <1>2, <1>3, <1>4, <1>5, <1>6 DEF DepartmentInv

\* Steps of other components keep to their requests.
LEMMA OffFollows ==
    ASSUME TypeInv, NEW r \in Requests, OffDepartments(r)
    PROVE req'[r].pc \notin DeptStages
<1>1. req \in [Requests -> Calls] /\ Carries(req[r]) /\ cache \in [Ids -> [row: Users, left: 0..TTL] \cup {None}]
      /\ users \in [Ids -> Users \cup {None}]
  BY DEF TypeInv, TypeOK
<1>2. CASE Reply(r)
  BY <1>1, <1>2, IdleTyped DEF Reply, DeptStages
<1>3. CASE \E p \in Stages \ DeptStages : Goto(r, p)
  BY <1>1, <1>3 DEF Goto, Calls
<1>4. CASE Persisted(r) \/ Unpersisted(r)
  BY <1>1, <1>4, SyncTurns DEF Turns, DeptStages
<1>5. CASE \E w : CheckStatus(r, w)
  BY <1>1, <1>2, <1>5 DEF CheckStatus, Calls, DeptStages
<1>6. CASE \E u, w, it : EditUser(r, u, w, it)
  BY <1>1, <1>6 DEF EditUser, Calls, DeptStages
<1>7. CASE \E u \in Ids, p \in {"latch", "resolve", "sync", "dept"}, ro \in Roles \cup {None} :
             Arrive(r, u, p, ro)
  BY <1>1, <1>7, ArriveTurns DEF Turns, Stages, DeptStages
<1>8. CASE WriteUser(r)
  BY <1>1, <1>8, WriteTurns, IdleTyped DEF DeptStages
<1>9. CASE \E u \in Ids : PresentKey(r, u) \/ PresentForwarded(r, u)
  BY <1>7, <1>9 DEF PresentKey, PresentForwarded
<1>10. CASE \E u \in Ids, role \in Roles : PresentToken(r, u, role)
  BY <1>7, <1>10 DEF PresentToken
<1>11. CASE Provision(r) \/ ProvisionCreate(r)
  BY <1>3, <1>11 DEF Provision, ProvisionCreate, Stages, DeptStages
<1>12. CASE SyncRead(r)
  <2>1. CASE \E w : req' = [req EXCEPT ![r].pc = "syncwrite", ![r].row = w]
    BY <1>1, <2>1 DEF Calls, DeptStages
  <2> QED BY <1>2, <1>3, <1>4, <1>12, <2>1 DEF SyncRead, Stages, DeptStages
<1>13. CASE SyncWrite(r) \/ SyncCreate(r)
  BY <1>4, <1>13 DEF SyncWrite, SyncCreate
<1>14. CASE Resolve(r) \/ CacheIdentity(r)
  <2>1. CASE \E w : req' = [req EXCEPT ![r].pc = "put", ![r].row = w]
    BY <1>1, <2>1 DEF Calls, DeptStages
  <2> QED BY <1>5, <1>14, <2>1 DEF Resolve, CacheIdentity
<1>15. CASE ServeOther(r) \/ \E u \in Ids, role \in Roles : CreateUser(r, u, role)
  BY <1>2, <1>15 DEF ServeOther, CreateUser
<1>16. CASE \/ \E u \in Ids, role \in Edits \cap Roles : PatchRole(r, u, role)
            \/ \E u \in Ids, status \in Edits \ Roles : SetStatus(r, u, status)
  BY <1>6, <1>16 DEF PatchRole, SetStatus
<1> QED
  BY <1>8, <1>9, <1>10, <1>11, <1>12, <1>13, <1>14, <1>15, <1>16 DEF OffDepartments

\* A namespace made for a department of a fresh id is nobody else's.
LEMMA ProvisionNamespaceKeeps ==
    ASSUME TypeInv, DepartmentInv, NEW r \in Requests, NEW d \in DeptIds, NEW n \in DeptNames,
           ProvisionNamespace(r, d, n)
    PROVE DepartmentInv'
<1>1. /\ req \in [Requests -> Calls] /\ namespaces \in [Namespaces -> DeptIds \cup {None}]
      /\ depts \in [DeptIds -> Depts \cup {None}] /\ NsOf[n] \in Namespaces
      /\ None \notin DeptIds /\ \A q \in Requests : Carries(req[q])
  BY AccountsAssumption DEF TypeInv, TypeOK, Namespaces
<1>2. d \in FreshDepts \ issued /\ issued' = issued \cup {d} /\ UNCHANGED depts
  BY DEF ProvisionNamespace, Issue
<1>3. ASSUME NEW q \in Requests \ {r}
      PROVE req'[q].pc = req[q].pc /\ req'[q].target = req[q].target /\ req'[q].row = req[q].row
  BY <1>3, OthersStay DEF Administer
<1>4. CASE Reply(r) /\ UNCHANGED namespaces
  <2>1. req'[r].pc = "idle"
    BY <1>1, <1>4, IdleTyped DEF Reply
  <2>2. \A q \in Requests : Follows(q)
    BY <1>3, <2>1 DEF Follows, DeptStages
  <2> QED BY <1>2, <1>4, <2>2, QuietKeeps
<1>5. CASE /\ namespaces[NsOf[n]] = None /\ namespaces' = [namespaces EXCEPT ![NsOf[n]] = d]
           /\ req' = [req EXCEPT ![r].pc = "deptrow", ![r].target = d,
                                 ![r].row = [name |-> n, ns |-> NsOf[n]]]
  <2>1. PICK w : w = [name |-> n, ns |-> NsOf[n]]
    OBVIOUS
  <2>2. w.ns = NsOf[n]
    BY <2>1
  <2>3. req'[r].pc = "deptrow" /\ req'[r].target = d /\ req'[r].row = w
    BY <1>1, <1>5, <2>1 DEF Calls
  <2>4. namespaces'[NsOf[n]] = d /\ \A x \in Namespaces : x # NsOf[n] => namespaces'[x] = namespaces[x]
    BY <1>1, <1>5
  <2>5. NamespaceIsOwn'
    <3>1. ASSUME NEW e \in DeptIds, depts[e] # None, depts[e].ns # None PROVE namespaces'[depts[e].ns] = e
      <4>1. namespaces[depts[e].ns] = e /\ depts[e].ns \in Namespaces
        BY <1>1, <3>1 DEF DepartmentInv, NamespaceIsOwn, Depts
      <4> QED BY <1>1, <1>5, <2>4, <4>1
    <3> QED BY <1>2, <3>1 DEF NamespaceIsOwn
  <2>6. (\A e \in DeptIds : depts[e] # None /\ e \notin FreshDepts => depts[e].ns = None)'
    BY <1>2 DEF DepartmentInv
  <2>7. ASSUME NEW e \in FreshDepts \ issued'
        PROVE /\ depts'[e] = None /\ \A x \in Namespaces : namespaces'[x] # e
              /\ \A q \in Requests : req'[q].pc \in DeptStages => req'[q].target # e
    <3>1. e # d /\ e \in FreshDepts \ issued
      BY <1>2, <2>7
    <3>2. depts'[e] = None /\ \A x \in Namespaces : namespaces'[x] # e
      BY <1>2, <2>4, <3>1 DEF DepartmentInv
    <3>3. \A q \in Requests : req'[q].pc \in DeptStages => req'[q].target # e
      BY <1>3, <2>3, <3>1 DEF DepartmentInv
    <3> QED BY <3>2, <3>3
  <2>8. ASSUME NEW q \in Requests PROVE (DeptOk(req[q]))'
    <3>1. CASE q = r
      <4>1. depts[d] = None
        BY <1>2 DEF DepartmentInv
      <4> QED BY <1>2, <2>2, <2>3, <2>4, <3>1, <4>1 DEF DeptOk
    <3>2. CASE q # r /\ req[q].pc \in {"deptrow", "deptundo", "nsdrop"}
      <4>1. /\ req[q].row \in Depts /\ req[q].row.ns # None /\ req[q].target \in DeptIds
            /\ namespaces[req[q].row.ns] = req[q].target /\ DeptOk(req[q])
        BY <1>1, <3>2 DEF Carries, DeptStages, DepartmentInv, DeptOk
      <4>2. req[q].row.ns \in Namespaces
        BY <4>1 DEF Depts
      <4>3. namespaces'[req[q].row.ns] = req[q].target
        BY <1>1, <1>5, <2>4, <4>1, <4>2
      <4> QED BY <1>2, <1>3, <3>2, <4>1, <4>3 DEF DeptOk
    <3>3. CASE q # r /\ req[q].pc \notin {"deptrow", "deptundo", "nsdrop"}
      BY <1>2, <1>3, <3>3 DEF DeptOk, DepartmentInv
    <3> QED BY <3>1, <3>2, <3>3
  <2>9. ASSUME NEW p \in Requests, NEW q \in Requests, p # q, req'[p].target = req'[q].target
        PROVE /\ req'[p].pc \in {"deptrow", "deptundo"} => req'[q].pc \notin DeptStages
              /\ req'[p].pc = "nsdrop" => req'[q].pc # "nsdrop"
    <3>1. ASSUME NEW x \in Requests \ {r}, req'[x].target = d PROVE req'[x].pc \notin DeptStages
      BY <1>2, <1>3, <3>1 DEF DepartmentInv
    <3>2. CASE p = r \/ q = r
      BY <2>3, <2>9, <3>1, <3>2 DEF DeptStages
    <3>3. CASE p # r /\ q # r
      BY <1>3, <2>9, <3>3 DEF DepartmentInv
    <3> QED BY <3>2, <3>3
  <2> QED BY <2>5, <2>6, <2>7, <2>8, <2>9 DEF DepartmentInv
<1> QED BY <1>4, <1>5 DEF ProvisionNamespace

\* The row of a department whose namespace stands.
LEMMA InsertKeeps ==
    ASSUME TypeInv, DepartmentInv, NEW r \in Requests, InsertDepartment(r)
    PROVE DepartmentInv'
<1>1. /\ req \in [Requests -> Calls] /\ depts \in [DeptIds -> Depts \cup {None}]
      /\ req[r].pc = "deptrow" /\ req[r].row \in Depts /\ req[r].target \in DeptIds
      /\ UNCHANGED <<issued, namespaces>> /\ \A q \in Requests : Carries(req[q])
  BY DEF TypeInv, TypeOK, InsertDepartment, At, Carries, DeptStages
<1>2. req[r].row.name \in DeptNames /\ req[r].row.ns \in Namespaces \cup {None}
  BY <1>1 DEF Depts
<1>3. ASSUME NEW q \in Requests \ {r}
      PROVE req'[q].pc = req[q].pc /\ req'[q].target = req[q].target /\ req'[q].row = req[q].row
  BY <1>3, OthersStay DEF Administer
<1>4. CASE UNCHANGED depts /\ Goto(r, "deptundo")
  <2>1. req'[r].pc = "deptundo" /\ req'[r].target = req[r].target /\ req'[r].row = req[r].row
    BY <1>1, <1>4 DEF Goto, Calls
  <2>2. \A q \in Requests : Follows(q)
    BY <1>1, <1>3, <2>1 DEF Follows
  <2> QED BY <1>1, <1>4, <2>2, QuietKeeps
<1>5. CASE CreateDepartment(req[r].target, req[r].row.name, req[r].row.ns) /\ Reply(r)
  <2>1. /\ depts[req[r].target] = None /\ depts'[req[r].target].ns = req[r].row.ns
        /\ \A e \in DeptIds \ {req[r].target} : depts'[e] = depts[e]
    BY <1>1, <1>2, <1>5, CreateDepartmentTyped
  <2>2. req'[r].pc = "idle"
    BY <1>1, <1>5, IdleTyped DEF Reply
  <2>3. req[r].target \in FreshDepts /\ namespaces[req[r].row.ns] = req[r].target
    BY <1>1 DEF DepartmentInv, DeptOk
  <2>4. NamespaceIsOwn'
    BY <1>1, <2>1, <2>3 DEF DepartmentInv, NamespaceIsOwn
  <2>5. (\A e \in DeptIds : depts[e] # None /\ e \notin FreshDepts => depts[e].ns = None)'
    BY <2>1, <2>3 DEF DepartmentInv
  <2>6. ASSUME NEW e \in FreshDepts \ issued'
        PROVE /\ depts'[e] = None /\ \A x \in Namespaces : namespaces'[x] # e
              /\ \A q \in Requests : req'[q].pc \in DeptStages => req'[q].target # e
    <3>1. e \in FreshDepts \ issued /\ e \in DeptIds /\ req[r].target # e
      BY <1>1, <2>6 DEF DepartmentInv, DeptIds, DeptStages
    <3>2. depts'[e] = None /\ \A x \in Namespaces : namespaces'[x] # e
      BY <1>1, <2>1, <3>1 DEF DepartmentInv
    <3>3. \A q \in Requests : req'[q].pc \in DeptStages => req'[q].target # e
      BY <1>3, <2>2, <3>1 DEF DepartmentInv, DeptStages
    <3> QED BY <3>2, <3>3
  <2>7. ASSUME NEW q \in Requests PROVE (DeptOk(req[q]))'
    <3>1. CASE req'[q].pc \notin DeptStages
      BY <3>1 DEF DeptOk, DeptStages
    <3>2. CASE req'[q].pc \in DeptStages
      <4>1. q # r /\ req[q].pc \in DeptStages /\ req[q].target \in DeptIds
        BY <1>1, <1>3, <2>2, <3>2 DEF DeptStages, Carries
      <4>2. req[q].target # req[r].target
        BY <1>1, <4>1 DEF DepartmentInv
      <4>3. depts'[req[q].target] = depts[req[q].target] /\ DeptOk(req[q])
        BY <2>1, <4>1, <4>2 DEF DepartmentInv
      <4> QED BY <1>1, <1>3, <4>1, <4>3 DEF DeptOk
    <3> QED BY <3>1, <3>2
  <2>8. ASSUME NEW p \in Requests, NEW q \in Requests, p # q, req'[p].target = req'[q].target
        PROVE /\ req'[p].pc \in {"deptrow", "deptundo"} => req'[q].pc \notin DeptStages
              /\ req'[p].pc = "nsdrop" => req'[q].pc # "nsdrop"
    BY <1>3, <2>2, <2>8 DEF DepartmentInv, DeptStages
  <2> QED BY <2>4, <2>5, <2>6, <2>7, <2>8 DEF DepartmentInv
<1> QED BY <1>4, <1>5 DEF InsertDepartment

\* A namespace is dropped only for a department that has no row.
LEMMA DropNamespaceKeeps ==
    ASSUME TypeInv, DepartmentInv, NEW r \in Requests, UndoNamespace(r) \/ CascadeNamespace(r)
    PROVE DepartmentInv'
<1>1. /\ req \in [Requests -> Calls] /\ namespaces \in [Namespaces -> DeptIds \cup {None}]
      /\ depts \in [DeptIds -> Depts \cup {None}] /\ None \notin DeptIds
      /\ req[r].pc \in {"deptundo", "nsdrop"} /\ req[r].row \in Depts /\ req[r].target \in DeptIds
      /\ req[r].row.ns # None /\ UNCHANGED <<issued, depts>> /\ Reply(r)
      /\ DropNamespace(r, req[r].row.ns) /\ \A q \in Requests : Carries(req[q])
  BY AccountsAssumption
     DEF TypeInv, TypeOK, UndoNamespace, CascadeNamespace, At, Carries, DeptStages
<1>2. req[r].row.ns \in Namespaces
  BY <1>1 DEF Depts
<1>3. ASSUME NEW q \in Requests \ {r}
      PROVE req'[q].pc = req[q].pc /\ req'[q].target = req[q].target /\ req'[q].row = req[q].row
  BY <1>3, OthersStay DEF Administer
<1>4. req'[r].pc = "idle"
  BY <1>1, IdleTyped DEF Reply
<1>5. CASE UNCHANGED namespaces
  <2>1. \A q \in Requests : Follows(q)
    BY <1>3, <1>4 DEF Follows, DeptStages
  <2> QED BY <1>1, <1>5, <2>1, QuietKeeps
<1>6. CASE namespaces' = [namespaces EXCEPT ![req[r].row.ns] = None]
  <2>1. /\ depts[req[r].target] = None /\ namespaces[req[r].row.ns] = req[r].target
    BY <1>1 DEF DepartmentInv, DeptOk
  <2>2. namespaces'[req[r].row.ns] = None
        /\ \A x \in Namespaces : x # req[r].row.ns => namespaces'[x] = namespaces[x]
    BY <1>1, <1>2, <1>6
  <2>3. NamespaceIsOwn'
    <3>1. ASSUME NEW e \in DeptIds, depts[e] # None, depts[e].ns # None PROVE namespaces'[depts[e].ns] = e
      <4>1. namespaces[depts[e].ns] = e /\ depts[e].ns \in Namespaces
        BY <1>1, <3>1 DEF DepartmentInv, NamespaceIsOwn, Depts
      <4> QED BY <2>1, <2>2, <3>1, <4>1
    <3> QED BY <1>1, <3>1 DEF NamespaceIsOwn
  <2>4. (\A e \in DeptIds : depts[e] # None /\ e \notin FreshDepts => depts[e].ns = None)'
    BY <1>1 DEF DepartmentInv
  <2>5. ASSUME NEW e \in FreshDepts \ issued'
        PROVE /\ depts'[e] = None /\ \A x \in Namespaces : namespaces'[x] # e
              /\ \A q \in Requests : req'[q].pc \in DeptStages => req'[q].target # e
    <3>1. e \in FreshDepts \ issued /\ e \in DeptIds
      BY <1>1, <2>5 DEF DeptIds
    <3>2. depts'[e] = None /\ \A x \in Namespaces : namespaces'[x] # e
      BY <1>1, <2>2, <3>1 DEF DepartmentInv
    <3>3. \A q \in Requests : req'[q].pc \in DeptStages => req'[q].target # e
      BY <1>3, <1>4, <3>1 DEF DepartmentInv, DeptStages
    <3> QED BY <3>2, <3>3
  <2>6. ASSUME NEW q \in Requests PROVE (DeptOk(req[q]))'
    <3>1. CASE req'[q].pc \notin {"deptrow", "deptundo", "nsdrop"}
      BY <1>1, <1>3, <1>4, <3>1 DEF DeptOk, DepartmentInv
    <3>2. CASE req'[q].pc \in {"deptrow", "deptundo", "nsdrop"}
      <4>1. q # r /\ req[q].pc = req'[q].pc
        BY <1>3, <1>4, <3>2
      <4>2. /\ req[q].row \in Depts /\ req[q].row.ns # None /\ DeptOk(req[q])
            /\ namespaces[req[q].row.ns] = req[q].target
        BY <1>1, <3>2, <4>1 DEF Carries, DeptStages, DepartmentInv, DeptOk
      <4>3. req[q].row.ns \in Namespaces
        BY <4>2 DEF Depts
      <4>4. req[q].target # req[r].target
        BY <1>1, <3>2, <4>1 DEF DepartmentInv, DeptStages
      <4>5. namespaces'[req[q].row.ns] = req[q].target
        BY <2>1, <2>2, <4>2, <4>3, <4>4
      <4> QED BY <1>1, <1>3, <3>2, <4>1, <4>2, <4>5 DEF DeptOk
    <3> QED BY <3>1, <3>2
  <2>7. ASSUME NEW p \in Requests, NEW q \in Requests, p # q, req'[p].target = req'[q].target
        PROVE /\ req'[p].pc \in {"deptrow", "deptundo"} => req'[q].pc \notin DeptStages
              /\ req'[p].pc = "nsdrop" => req'[q].pc # "nsdrop"
    BY <1>3, <1>4, <2>7 DEF DepartmentInv, DeptStages
  <2> QED BY <2>3, <2>4, <2>5, <2>6, <2>7 DEF DepartmentInv
<1> QED BY <1>1, <1>5, <1>6 DEF DropNamespace

\* A request that reads a department's row has its namespace.
LEMMA ReadKeeps ==
    ASSUME TypeInv, DepartmentInv, NEW r \in Requests, NEW d \in DeptIds, depts[d] # None,
           UNCHANGED <<depts, issued, namespaces>>,
           req'[r].pc \in {"deptwrite", "deptdrop"}, req'[r].target = d, req'[r].row.ns = depts[d].ns,
           \A q \in Requests \ {r} :
              req'[q].pc = req[q].pc /\ req'[q].target = req[q].target /\ req'[q].row = req[q].row
    PROVE DepartmentInv'
<1>1. NamespaceIsOwn'
      /\ (\A e \in DeptIds : depts[e] # None /\ e \notin FreshDepts => depts[e].ns = None)'
  BY DEF DepartmentInv, NamespaceIsOwn
<1>2. ASSUME NEW e \in FreshDepts \ issued'
      PROVE /\ depts'[e] = None /\ \A x \in Namespaces : namespaces'[x] # e
            /\ \A q \in Requests : req'[q].pc \in DeptStages => req'[q].target # e
  BY <1>2 DEF DepartmentInv
<1>3. ASSUME NEW q \in Requests PROVE (DeptOk(req[q]))'
  <2>1. CASE q = r
    BY <2>1 DEF DepartmentInv, DeptOk
  <2>2. CASE q # r
    BY <2>2 DEF DepartmentInv, DeptOk
  <2> QED BY <2>1, <2>2
<1>4. ASSUME NEW p \in Requests, NEW q \in Requests, p # q, req'[p].target = req'[q].target
      PROVE /\ req'[p].pc \in {"deptrow", "deptundo"} => req'[q].pc \notin DeptStages
            /\ req'[p].pc = "nsdrop" => req'[q].pc # "nsdrop"
  <2>1. CASE p = r
    BY <2>1
  <2>2. CASE p # r /\ q = r
    <3>1. req[p].pc \in {"deptrow", "deptundo"} => FALSE
      BY <1>4, <2>2 DEF DepartmentInv, DeptOk
    <3> QED BY <2>2, <3>1
  <2>3. CASE p # r /\ q # r
    BY <1>4, <2>3 DEF DepartmentInv
  <2> QED BY <2>1, <2>2, <2>3
<1> QED BY <1>1, <1>2, <1>3, <1>4 DEF DepartmentInv

\* The copy written back has the row's namespace.
LEMMA WriteDepartmentKeeps ==
    ASSUME TypeInv, DepartmentInv, NEW r \in Requests, WriteDepartment(r)
    PROVE DepartmentInv'
<1>1. /\ req \in [Requests -> Calls] /\ depts \in [DeptIds -> Depts \cup {None}]
      /\ req[r].pc = "deptwrite" /\ req[r].row \in Depts /\ req[r].target \in DeptIds
      /\ UNCHANGED <<issued, namespaces>> /\ Reply(r) /\ \A q \in Requests : Carries(req[q])
  BY DEF TypeInv, TypeOK, WriteDepartment, At, Carries, DeptStages
<1>2. ASSUME NEW q \in Requests \ {r}
      PROVE req'[q].pc = req[q].pc /\ req'[q].target = req[q].target /\ req'[q].row = req[q].row
  BY <1>2, OthersStay DEF Administer
<1>3. req'[r].pc = "idle"
  BY <1>1, IdleTyped DEF Reply
<1>4. CASE UNCHANGED depts
  <2>1. \A q \in Requests : Follows(q)
    BY <1>2, <1>3 DEF Follows, DeptStages
  <2> QED BY <1>1, <1>4, <2>1, QuietKeeps
<1>5. CASE depts[req[r].target] # None /\ depts' = [depts EXCEPT ![req[r].target] = req[r].row]
  <2>1. /\ depts'[req[r].target] = req[r].row /\ req[r].row.ns = depts[req[r].target].ns
        /\ req[r].row # None
        /\ \A e \in DeptIds : e # req[r].target => depts'[e] = depts[e]
    BY <1>1, <1>5, NoneIsNoRow DEF DepartmentInv, DeptOk
  <2>2. \A e \in DeptIds : /\ depts'[e] = None <=> depts[e] = None
                           /\ depts[e] # None => depts'[e].ns = depts[e].ns
    BY <1>5, <2>1
  <2>3. NamespaceIsOwn'
        /\ (\A e \in DeptIds : depts[e] # None /\ e \notin FreshDepts => depts[e].ns = None)'
    BY <1>1, <2>2 DEF DepartmentInv, NamespaceIsOwn
  <2>4. ASSUME NEW e \in FreshDepts \ issued'
        PROVE /\ depts'[e] = None /\ \A x \in Namespaces : namespaces'[x] # e
              /\ \A q \in Requests : req'[q].pc \in DeptStages => req'[q].target # e
    <3>1. e \in FreshDepts \ issued /\ e \in DeptIds
      BY <1>1, <2>4 DEF DeptIds
    <3>2. depts'[e] = None /\ \A x \in Namespaces : namespaces'[x] # e
      BY <1>1, <2>2, <3>1 DEF DepartmentInv
    <3>3. \A q \in Requests : req'[q].pc \in DeptStages => req'[q].target # e
      BY <1>2, <1>3, <3>1 DEF DepartmentInv, DeptStages
    <3> QED BY <3>2, <3>3
  <2>5. ASSUME NEW q \in Requests PROVE (DeptOk(req[q]))'
    <3>1. CASE req'[q].pc \notin DeptStages
      BY <3>1 DEF DeptOk, DeptStages
    <3>2. CASE req'[q].pc \in DeptStages
      <4>1. q # r /\ req[q].pc \in DeptStages /\ req[q].target \in DeptIds /\ DeptOk(req[q])
        BY <1>1, <1>2, <1>3, <3>2 DEF DeptStages, Carries, DepartmentInv
      <4> QED BY <1>1, <1>2, <2>2, <4>1 DEF DeptOk
    <3> QED BY <3>1, <3>2
  <2>6. ASSUME NEW p \in Requests, NEW q \in Requests, p # q, req'[p].target = req'[q].target
        PROVE /\ req'[p].pc \in {"deptrow", "deptundo"} => req'[q].pc \notin DeptStages
              /\ req'[p].pc = "nsdrop" => req'[q].pc # "nsdrop"
    BY <1>2, <1>3, <2>6 DEF DepartmentInv, DeptStages
  <2> QED BY <2>3, <2>4, <2>5, <2>6 DEF DepartmentInv
<1> QED BY <1>4, <1>5 DEF WriteDepartment

\* A deleted row leaves its namespace to the request that deleted it.
LEMMA DropRowKeeps ==
    ASSUME TypeInv, DepartmentInv, NEW r \in Requests, DropRow(r)
    PROVE DepartmentInv'
<1>1. /\ req \in [Requests -> Calls] /\ depts \in [DeptIds -> Depts \cup {None}]
      /\ req[r].pc = "deptdrop" /\ req[r].row \in Depts /\ req[r].target \in DeptIds
      /\ UNCHANGED <<issued, namespaces>> /\ depts' = [depts EXCEPT ![req[r].target] = None]
      /\ \A q \in Requests : Carries(req[q])
  BY DEF TypeInv, TypeOK, DropRow, At, Carries, DeptStages
<1>2. ASSUME NEW q \in Requests \ {r}
      PROVE req'[q].pc = req[q].pc /\ req'[q].target = req[q].target /\ req'[q].row = req[q].row
  BY <1>2, OthersStay DEF Administer
<1>3. \/ req'[r].pc = "idle"
      \/ /\ req'[r].pc = "nsdrop" /\ req'[r].target = req[r].target /\ req'[r].row = req[r].row
         /\ depts[req[r].target] # None /\ req[r].row.ns # None
  <2>1. CASE Reply(r)
    BY <1>1, <2>1, IdleTyped DEF Reply
  <2>2. CASE Goto(r, "nsdrop") /\ depts[req[r].target] # None /\ req[r].row.ns # None
    BY <1>1, <2>2 DEF Goto, Calls
  <2> QED BY <2>1, <2>2 DEF DropRow
<1>4. depts'[req[r].target] = None /\ \A e \in DeptIds : e # req[r].target => depts'[e] = depts[e]
  BY <1>1
<1>5. NamespaceIsOwn'
      /\ (\A e \in DeptIds : depts[e] # None /\ e \notin FreshDepts => depts[e].ns = None)'
  BY <1>1, <1>4 DEF DepartmentInv, NamespaceIsOwn
<1>6. ASSUME NEW e \in FreshDepts \ issued'
      PROVE /\ depts'[e] = None /\ \A x \in Namespaces : namespaces'[x] # e
            /\ \A q \in Requests : req'[q].pc \in DeptStages => req'[q].target # e
  <2>1. e \in FreshDepts \ issued /\ e \in DeptIds /\ e # req[r].target
    BY <1>1, <1>6 DEF DeptIds, DepartmentInv, DeptStages
  <2>2. depts'[e] = None /\ \A x \in Namespaces : namespaces'[x] # e
    BY <1>1, <1>4, <2>1 DEF DepartmentInv
  <2>3. \A q \in Requests : req'[q].pc \in DeptStages => req'[q].target # e
    BY <1>2, <1>3, <2>1 DEF DepartmentInv, DeptStages
  <2> QED BY <2>2, <2>3
<1>7. ASSUME NEW q \in Requests PROVE (DeptOk(req[q]))'
  <2>1. CASE req'[q].pc \notin DeptStages
    BY <2>1 DEF DeptOk, DeptStages
  <2>2. CASE q = r /\ req'[r].pc \in DeptStages
    <3>1. /\ req'[r].pc = "nsdrop" /\ req'[r].target = req[r].target /\ req'[r].row = req[r].row
          /\ depts[req[r].target] # None /\ req[r].row.ns # None
      BY <1>3, <2>2 DEF DeptStages
    <3>2. req[r].target \in FreshDepts /\ req[r].row.ns = depts[req[r].target].ns
      BY <1>1, <3>1 DEF DepartmentInv, DeptOk
    <3>3. namespaces[req[r].row.ns] = req[r].target
      BY <1>1, <3>1, <3>2 DEF DepartmentInv, NamespaceIsOwn
    <3> QED BY <1>1, <1>4, <2>2, <3>1, <3>2, <3>3 DEF DeptOk
  <2>3. CASE q # r /\ req'[q].pc \in DeptStages
    <3>1. req[q].pc \in DeptStages /\ req[q].target \in DeptIds /\ DeptOk(req[q])
      BY <1>1, <1>2, <2>3 DEF DeptStages, Carries, DepartmentInv
    <3>2. depts'[req[q].target] = None \/ depts'[req[q].target] = depts[req[q].target]
      BY <1>4, <3>1
    <3> QED BY <1>1, <1>2, <2>3, <3>1, <3>2 DEF DeptOk
  <2> QED BY <2>1, <2>2, <2>3
<1>8. ASSUME NEW p \in Requests, NEW q \in Requests, p # q, req'[p].target = req'[q].target
      PROVE /\ req'[p].pc \in {"deptrow", "deptundo"} => req'[q].pc \notin DeptStages
            /\ req'[p].pc = "nsdrop" => req'[q].pc # "nsdrop"
  <2>1. ASSUME NEW x \in Requests \ {r}, req'[r].pc = "nsdrop", req'[x].target = req'[r].target
        PROVE req'[x].pc \notin {"deptrow", "deptundo", "nsdrop"}
    BY <1>2, <1>3, <2>1 DEF DepartmentInv, DeptOk
  <2>2. CASE p = r
    BY <1>3, <1>8, <2>1, <2>2
  <2>3. CASE q = r
    BY <1>3, <1>8, <2>1, <2>3 DEF DeptStages
  <2>4. CASE p # r /\ q # r
    BY <1>2, <1>8, <2>4 DEF DepartmentInv
  <2> QED BY <2>2, <2>3, <2>4
<1> QED BY <1>5, <1>6, <1>7, <1>8 DEF DepartmentInv

\* Every step keeps the departments in order.
LEMMA DepartmentStep == TypeInv /\ DepartmentInv /\ [Next]_vars => DepartmentInv'
<1> SUFFICES ASSUME TypeInv, DepartmentInv, [Next]_vars PROVE DepartmentInv'
  OBVIOUS
<1>1. req \in [Requests -> Calls] /\ (\A q \in Requests : Carries(req[q]))
      /\ depts \in [DeptIds -> Depts \cup {None}]
  BY DEF TypeInv, TypeOK
<1>2. ASSUME NEW r \in Requests, Authenticate(r) \/ Administer(r)
      PROVE \A q \in Requests \ {r} : /\ Follows(q) /\ req'[q].pc = req[q].pc
                                      /\ req'[q].target = req[q].target /\ req'[q].row = req[q].row
  BY <1>2, OthersStay DEF Follows
<1>3. ASSUME NEW r \in Requests, Authenticate(r) \/ Administer(r), req'[r].pc \notin DeptStages
      PROVE \A q \in Requests : Follows(q)
  BY <1>3, <1>2 DEF Follows
<1>4. ASSUME NEW r \in Requests, OffDepartments(r) PROVE DepartmentInv'
  <2>1. Authenticate(r) \/ Administer(r)
    BY <1>4 DEF OffDepartments, Authenticate, Administer
  <2>2. \A q \in Requests : Follows(q)
    BY <1>4, <1>3, <2>1, OffFollows
  <2> QED BY <1>4, <2>2, OffTables, QuietKeeps
<1>5. ASSUME NEW r \in Requests, ProvisionDept(r) PROVE DepartmentInv'
  <2>1. req[r].id \in KeyIds /\ DeptOf[req[r].id] # None /\ UNCHANGED namespaces
    BY <1>1, <1>5 DEF ProvisionDept, At, Carries
  <2>2. DeptOf[req[r].id] \in DeptNames
    BY <2>1, AccountsAssumption DEF Ids
  <2>3. PICK p \in {"resolve", "provmake"} : Goto(r, p)
    BY <1>5 DEF ProvisionDept
  <2>4. req'[r].pc \notin DeptStages
    BY <1>1, <2>3, GotoTurns DEF Advances, Turns, Stages, DeptStages
  <2>5. \A q \in Requests : Follows(q)
    BY <1>5, <1>3, <2>4 DEF Authenticate
  <2>6. CASE UNCHANGED <<depts, issued>>
    BY <2>1, <2>5, <2>6, QuietKeeps
  <2>7. ASSUME NEW d \in FreshDepts, Issue(d), CreateDepartment(d, DeptOf[req[r].id], None)
        PROVE DepartmentInv'
    <3>1. d \in DeptIds
      BY DEF DeptIds
    <3> QED BY <2>1, <2>2, <2>5, <2>7, <3>1, BareRowKeeps
  <2> QED BY <1>5, <2>6, <2>7 DEF ProvisionDept
<1>6. ASSUME NEW r \in Requests, SyncDept(r) PROVE DepartmentInv'
  <2>1. req[r].id \in Ids /\ DeptOf[req[r].id] # None /\ UNCHANGED <<issued, namespaces>>
    BY <1>1, <1>6 DEF SyncDept, At, Carries
  <2>2. DeptOf[req[r].id] \in DeptNames
    BY <2>1, AccountsAssumption DEF Ids
  <2>3. req'[r].pc \notin DeptStages
    BY <1>1, <1>6, GotoTurns DEF SyncDept, Advances, Turns, Stages, DeptStages
  <2>4. \A q \in Requests : Follows(q)
    BY <1>6, <1>3, <2>3 DEF Authenticate
  <2>5. CASE UNCHANGED depts
    BY <2>1, <2>4, <2>5, QuietKeeps
  <2>6. CASE CreateDepartment(SlugDept[DeptOf[req[r].id]], DeptOf[req[r].id], None)
    <3>1. SlugDept[DeptOf[req[r].id]] \in DeptIds /\ SlugDept[DeptOf[req[r].id]] \notin FreshDepts
      BY <2>2, GeneratedIds DEF DeptIds
    <3> QED BY <2>1, <2>2, <2>4, <2>6, <3>1, BareRowKeeps
  <2> QED BY <1>6, <2>5, <2>6 DEF SyncDept
<1>7. ASSUME NEW r \in Requests, NEW d \in DeptIds, NEW n \in DeptNames, CreateDepartmentTool(r, d, n)
      PROVE DepartmentInv'
  <2>1. req'[r].pc \notin DeptStages /\ Issue(d) /\ UNCHANGED namespaces
    BY <1>1, <1>7, IdleTyped DEF CreateDepartmentTool, Reply, DeptStages
  <2>2. \A q \in Requests : Follows(q)
    BY <1>7, <1>3, <2>1 DEF Administer
  <2>3. CASE UNCHANGED depts
    BY <2>1, <2>2, <2>3, QuietKeeps DEF Issue
  <2>4. CASE CreateDepartment(d, n, None)
    BY <2>1, <2>2, <2>4, BareRowKeeps
  <2> QED BY <1>7, <2>3, <2>4 DEF CreateDepartmentTool
<1>8. ASSUME NEW r \in Requests, NEW d \in DeptIds, NEW n \in DeptNames, RenameDepartment(r, d, n)
      PROVE DepartmentInv'
  <2>1. depts[d] \in Depts /\ depts[d] # None /\ UNCHANGED <<depts, issued, namespaces>>
    BY <1>1, <1>8 DEF RenameDepartment
  <2>2. PICK w : w = [depts[d] EXCEPT !.name = n]
    OBVIOUS
  <2>3. w.ns = depts[d].ns
    BY <2>1, <2>2 DEF Depts
  <2>4. req'[r].pc = "deptwrite" /\ req'[r].target = d /\ req'[r].row = w
    BY <1>1, <1>8, <2>2 DEF RenameDepartment, Calls
  <2>5. \A q \in Requests \ {r} :
           req'[q].pc = req[q].pc /\ req'[q].target = req[q].target /\ req'[q].row = req[q].row
    BY <1>8, <1>2 DEF Administer
  <2> QED BY <2>1, <2>3, <2>4, <2>5, ReadKeeps
<1>9. ASSUME NEW r \in Requests, NEW d \in DeptIds, DeleteDepartment(r, d) PROVE DepartmentInv'
  <2>1. depts[d] # None /\ UNCHANGED <<depts, issued, namespaces>>
    BY <1>9 DEF DeleteDepartment
  <2>2. req'[r].pc = "deptdrop" /\ req'[r].target = d /\ req'[r].row = depts[d]
    BY <1>1, <1>9 DEF DeleteDepartment, Calls
  <2>3. \A q \in Requests \ {r} :
           req'[q].pc = req[q].pc /\ req'[q].target = req[q].target /\ req'[q].row = req[q].row
    BY <1>9, <1>2 DEF Administer
  <2> QED BY <2>1, <2>2, <2>3, ReadKeeps
<1>10. ASSUME NEW r \in Requests,
             \/ \E d \in DeptIds, n \in DeptNames : ProvisionNamespace(r, d, n)
             \/ InsertDepartment(r) \/ UndoNamespace(r) \/ WriteDepartment(r)
             \/ DropRow(r) \/ CascadeNamespace(r)
      PROVE DepartmentInv'
  BY <1>10, ProvisionNamespaceKeeps, InsertKeeps, DropNamespaceKeeps, WriteDepartmentKeeps, DropRowKeeps
<1>11. ASSUME NEW m \in Modes, Restart(m) PROVE DepartmentInv'
  <2>1. \A q \in Requests : Follows(q)
    BY <1>11, IdleTyped DEF Restart, Follows, DeptStages
  <2> QED BY <1>11, <2>1, QuietKeeps DEF Restart
<1>12. CASE Tick \/ UNCHANGED vars
  <2>1. UNCHANGED <<req, depts, namespaces, issued>>
    BY <1>12 DEF Tick, vars
  <2> QED BY <2>1, QuietKeeps DEF Follows
<1> QED BY <1>4, <1>5, <1>6, <1>7, <1>8, <1>9, <1>10, <1>11, <1>12, DeptStepKinds

\* A department's namespace exists and is its own, whatever creations,
\* renames, deletions, failures and restarts interleave (NamespaceIsOwn).
THEOREM NamespacesAreOwned == Spec => []NamespaceIsOwn
<1>1. Init => DepartmentInv
  <2>1. Init => (\A n \in Namespaces : \A d \in FreshDepts : namespaces[n] # d)
    BY AccountsAssumption DEF Init, DeptIds
  <2> QED BY <2>1, IdleTyped DEF Init, DepartmentInv, NamespaceIsOwn, DeptOk, DeptStages, DeptIds
<1>2. DepartmentInv => NamespaceIsOwn
  BY DEF DepartmentInv
<1> QED BY <1>1, <1>2, DepartmentStep, TypeAlways, PTL DEF Spec

-----------------------------------------------------------------------------
(* A suspension takes effect within one TTL.                               *)

\* The row of a suspended user stays suspended until an administrator's write
\* makes it active.
LEMMA StatusKept ==
    ASSUME TypeInv, SuspensionInv, [Next]_vars, NEW u \in Ids, suspended[u] # None, u \notin overtaken,
           \A r \in Requests : WriteUser(r) /\ req[r].target = u => req[r].intent # "active"
    PROVE users'[u] # None /\ users'[u].status = "suspended"
<1>1. users[u] # None /\ users[u].status = "suspended"
  BY DEF SuspensionInv, Exists
<1>2. ASSUME NEW r \in Requests, WritesBack(r, u) PROVE users'[u].status = "suspended"
  <2>1. Holds(r, u) /\ ~(req[r].pc = "userwrite" /\ req[r].intent = "active")
    BY <1>2 DEF WritesBack, SyncWrite, WriteUser, At, Holds
  <2>2. req[r].row.status = "suspended"
    BY <2>1 DEF SuspensionInv, SuspensionOk
  <2> QED BY <1>2, <2>2 DEF WritesBack
<1> QED BY <1>1, <1>2, RowsStay, UserRows DEF Appears

\* A step caches no other row of a suspended user.
LEMMA CacheKept ==
    ASSUME TypeInv, SuspensionInv, [Next]_vars, NEW u \in Ids, suspended[u] # None, u \notin overtaken
    PROVE \/ cache'[u] = None
          \/ cache'[u] = cache[u] /\ cache[u] # None /\ ~Tick
          \/ cache'[u].row.status = "suspended"
          \/ /\ Tick /\ cache[u] # None /\ cache'[u].row = cache[u].row
             /\ cache'[u].left = cache[u].left - 1
<1>1. cache \in [Ids -> [row: Users, left: 0..TTL] \cup {None}] /\ \A r \in Requests : Carries(req[r])
  BY DEF TypeInv, TypeOK
<1>2. CASE Tick
  <2>1. cache'[u] = Age(cache[u])
    BY <1>2 DEF Tick
  <2>2. CASE cache[u] = None
    BY <2>1, <2>2 DEF Age
  <2>3. CASE cache[u] # None
    <3>1. cache[u] \in [row: Users, left: 0..TTL]
      BY <1>1, <2>3
    <3>2. Age(cache[u]) = None \/ (Age(cache[u]).row = cache[u].row /\ Age(cache[u]).left = cache[u].left - 1)
      BY <3>1, AgeTyped
    <3> QED BY <1>2, <2>1, <2>3, <3>2
  <2> QED BY <2>2, <2>3
<1>3. ASSUME ~Tick, UNCHANGED cache PROVE cache'[u] = None \/ (cache'[u] = cache[u] /\ cache[u] # None /\ ~Tick)
  BY <1>3
<1>4. ASSUME NEW r \in Requests, CacheIdentity(r), req[r].id = u PROVE cache'[u].row.status = "suspended"
  <2>1. req[r].pc = "put" /\ cache' = [cache EXCEPT ![u] = [row |-> req[r].row, left |-> TTL]]
    BY <1>4 DEF CacheIdentity, At
  <2>2. Holds(r, u)
    BY <1>4, <2>1 DEF Holds
  <2>3. req[r].row.status = "suspended"
    BY <2>1, <2>2 DEF SuspensionInv, SuspensionOk
  <2> QED BY <1>1, <2>1, <2>3
<1>5. ASSUME NEW r \in Requests, CacheIdentity(r), req[r].id # u PROVE cache'[u] = cache[u]
  BY <1>1, <1>5 DEF CacheIdentity
<1>6. ASSUME NEW m \in Modes, Restart(m) PROVE cache'[u] = None
  BY <1>6 DEF Restart
<1>7. CASE ~Tick
  <2>1. ASSUME NEW r \in Requests, Authenticate(r) \/ Administer(r)
        PROVE cache'[u] = cache[u] \/ cache'[u].row.status = "suspended"
    BY <1>4, <1>5, <2>1, Touches
  <2>2. CASE UNCHANGED vars
    BY <1>7, <2>2 DEF vars
  <2> QED BY <1>6, <1>7, <2>1, <2>2 DEF Next
<1> QED BY <1>2, <1>7

\* Suspensions change only by the writes of administrators and by time.
LEMMA SuspensionMoves ==
    ASSUME TypeInv, [Next]_vars, \A r \in Requests : ~WriteUser(r)
    PROVE /\ UNCHANGED overtaken
          /\ failed \subseteq failed'
          /\ \A u \in Ids : suspended'[u] # None <=> suspended[u] # None
          /\ UNCHANGED suspended \/ Tick
<1>1. suspended \in [Ids -> 0..(TTL + 1) \cup {None}]
  BY DEF TypeInv, TypeOK
<1>2. CASE Tick
  <2>1. UNCHANGED <<overtaken, failed>>
    BY <1>2 DEF Tick
  <2>2. ASSUME NEW u \in Ids PROVE suspended'[u] # None <=> suspended[u] # None
    <3>1. suspended'[u] = IF suspended[u] \in 0..TTL THEN suspended[u] + 1 ELSE suspended[u]
      BY <1>2 DEF Tick
    <3>2. CASE suspended[u] \in 0..TTL
      <4>1. suspended[u] + 1 \in 0..(TTL + 1) /\ suspended[u] \in 0..(TTL + 1)
        BY <3>2, AccountsAssumption
      <4> QED BY <3>1, <3>2, <4>1, AccountsAssumption
    <3>3. CASE suspended[u] \notin 0..TTL
      BY <3>1, <3>3
    <3> QED BY <3>2, <3>3
  <2> QED BY <1>2, <2>1, <2>2
<1>3. CASE UNCHANGED vars
  BY <1>3 DEF vars
<1>4. CASE \E m \in Modes : Restart(m)
  BY <1>4 DEF Restart, history
<1>5. CASE \E r \in Requests : Authenticate(r) \/ Administer(r)
  BY <1>5, Touches
<1> QED BY <1>2, <1>3, <1>4, <1>5 DEF Next

\* What is cached of a suspended user is suspended, or runs out in time.
LEMMA StaleRunsOut ==
    ASSUME TypeInv, SuspensionInv, [Next]_vars, NEW u \in Ids, suspended'[u] # None, u \notin overtaken',
           \A r \in Requests : ~WriteUser(r), cache'[u] # None, cache'[u].row.status # "suspended"
    PROVE suspended'[u] + cache'[u].left <= TTL
<1>1. /\ cache \in [Ids -> [row: Users, left: 0..TTL] \cup {None}]
      /\ suspended \in [Ids -> 0..(TTL + 1) \cup {None}]
  BY DEF TypeInv, TypeOK
<1>2. suspended[u] # None /\ u \notin overtaken /\ (UNCHANGED suspended \/ Tick)
  BY SuspensionMoves
<1>3. CASE ~Tick /\ cache'[u] = cache[u] /\ cache[u] # None
  BY <1>2, <1>3 DEF SuspensionInv
<1>4. CASE Tick /\ cache[u] # None /\ cache'[u].row = cache[u].row /\ cache'[u].left = cache[u].left - 1
  <2>1. suspended[u] + cache[u].left <= TTL
    BY <1>2, <1>4 DEF SuspensionInv
  <2>2. cache[u].left \in 0..TTL /\ suspended[u] \in 0..(TTL + 1)
    BY <1>1, <1>2, <1>4
  <2>3. suspended[u] \in 0..TTL
    BY <2>1, <2>2, AccountsAssumption
  <2>4. suspended'[u] = suspended[u] + 1
    BY <1>4, <2>3 DEF Tick
  <2> QED BY <1>4, <2>1, <2>2, <2>4
<1> QED BY <1>2, <1>3, <1>4, CacheKept

\* A request left where it is, by a step that is no administrator's write.
LEMMA SuspensionOthers ==
    ASSUME TypeInv, SuspensionInv, [Next]_vars, \A r \in Requests : ~WriteUser(r),
           NEW q \in Requests, req'[q].late => req[q].late, req'[q].id = req[q].id,
           \/ req'[q].pc \notin {"syncwrite", "put", "userwrite", "serve"}
           \/ /\ req'[q].pc = req[q].pc /\ req'[q].row = req[q].row /\ req'[q].target = req[q].target
              /\ req'[q].intent = req[q].intent
    PROVE SuspensionOk(q)'
<1>1. SuspensionOk(q)
  BY DEF SuspensionInv
<1>2. /\ UNCHANGED overtaken /\ failed \subseteq failed'
      /\ \A u \in Ids : suspended'[u] # None <=> suspended[u] # None
  BY SuspensionMoves
<1>3. ASSUME NEW u \in Ids, suspended'[u] # None, u \notin overtaken', Holds(q, u)'
      PROVE req'[q].row.status = "suspended" \/ (req'[q].pc = "userwrite" /\ req'[q].intent = "active")
  <2>1. Holds(q, u) /\ req'[q].row = req[q].row /\ req'[q].pc = req[q].pc /\ req'[q].intent = req[q].intent
    BY <1>3 DEF Holds
  <2> QED BY <1>1, <1>2, <1>3, <2>1 DEF SuspensionOk
<1>4. req'[q].late => req'[q].id \in Ids
  BY <1>1 DEF SuspensionOk
<1>5. ASSUME req'[q].late, req'[q].id \notin overtaken'
      PROVE /\ suspended'[req'[q].id] # None
            /\ cache'[req'[q].id] # None => cache'[req'[q].id].row.status = "suspended"
  <2>1. /\ req[q].late /\ req[q].id \in Ids /\ req[q].id \notin overtaken
        /\ suspended[req[q].id] # None
        /\ cache[req[q].id] # None => cache[req[q].id].row.status = "suspended"
    BY <1>1, <1>2, <1>5 DEF SuspensionOk
  <2>2. \/ cache'[req[q].id] = None \/ (cache'[req[q].id] = cache[req[q].id] /\ cache[req[q].id] # None)
        \/ cache'[req[q].id].row.status = "suspended"
        \/ cache[req[q].id] # None /\ cache'[req[q].id].row = cache[req[q].id].row
    <3>1. PICK u \in Ids : u = req[q].id
      BY <2>1
    <3> QED BY <2>1, <3>1, CacheKept
  <2> QED BY <1>2, <2>1, <2>2
<1>6. req'[q].pc = "userwrite" /\ req'[q].intent = "suspended" => req'[q].row.status = "suspended"
  BY <1>1 DEF SuspensionOk
<1>7. req'[q].pc = "serve" /\ req'[q].id \notin failed' \cup overtaken' => ~req'[q].late
  BY <1>1, <1>2 DEF SuspensionOk
<1> QED BY <1>3, <1>4, <1>5, <1>6, <1>7 DEF SuspensionOk

\* A request that has been answered.
LEMMA SuspensionIdle == ASSUME NEW q, req'[q] = Idle PROVE SuspensionOk(q)'
BY IdleTyped DEF SuspensionOk, Holds

\* A request that arrives late finds no row cached that is not suspended.
LEMMA ArrivalOk ==
    ASSUME TypeInv, SuspensionInv, NEW r \in Requests, NEW u \in Ids,
           NEW p \in {"latch", "resolve", "sync", "dept"},
           NEW ro \in Roles \cup {None}, Arrive(r, u, p, ro)
    PROVE SuspensionOk(r)'
<1>1. /\ req \in [Requests -> Calls] /\ cache \in [Ids -> [row: Users, left: 0..TTL] \cup {None}]
  BY DEF TypeInv, TypeOK
<1>2. req'[r].pc = p /\ req'[r].id = u /\ req'[r].late = Overdue(u)
  BY <1>1, ArriveTurns DEF Turns, Stages
<1>3. UNCHANGED <<cache, suspended, overtaken, failed>>
  BY DEF Arrive, history
<1>4. ASSUME Overdue(u), u \notin overtaken
      PROVE /\ suspended[u] # None
            /\ cache[u] # None => cache[u].row.status = "suspended"
  <2>1. suspended[u] = TTL + 1 /\ TTL + 1 \in 0..(TTL + 1)
    BY <1>4, AccountsAssumption DEF Overdue
  <2>2. suspended[u] # None
    BY <2>1, AccountsAssumption
  <2>3. ASSUME cache[u] # None, cache[u].row.status # "suspended" PROVE FALSE
    <3>1. suspended[u] + cache[u].left <= TTL
      BY <1>4, <2>2, <2>3 DEF SuspensionInv
    <3>2. cache[u].left \in 0..TTL
      BY <1>1, <2>3
    <3> QED BY <2>1, <3>1, <3>2, AccountsAssumption
  <2> QED BY <2>2, <2>3
<1> QED BY <1>2, <1>3, <1>4 DEF SuspensionOk, Holds

\* A request that takes up a copy of a row, or is served.
LEMMA SuspensionActor ==
    ASSUME TypeInv, SuspensionInv, NEW r \in Requests, Authenticate(r) \/ Administer(r),
           \A q \in Requests : ~WriteUser(q)
    PROVE SuspensionOk(r)'
<1>1. /\ req \in [Requests -> Calls] /\ Carries(req[r]) /\ SuspensionOk(r)
      /\ users \in [Ids -> Users \cup {None}]
      /\ cache \in [Ids -> [row: Users, left: 0..TTL] \cup {None}]
  BY DEF TypeInv, TypeOK, SuspensionInv
<1>2. /\ [Next]_vars /\ UNCHANGED <<suspended, overtaken>> /\ failed \subseteq failed'
  BY Touches DEF Next
<1>3. ASSUME req'[r].late = req[r].late, req'[r].id = req[r].id,
             req'[r].pc \notin {"syncwrite", "put", "userwrite", "serve"}
      PROVE SuspensionOk(r)'
  BY <1>2, <1>3, SuspensionOthers
<1>4. ASSUME NEW p \in Stages \ {"syncwrite", "put", "userwrite", "serve"}, Goto(r, p) PROVE SuspensionOk(r)'
  BY <1>1, <1>4, <1>3, GotoTurns DEF Advances, Turns
<1>5. ASSUME Reply(r) PROVE SuspensionOk(r)'
  BY <1>1, <1>5, SuspensionIdle DEF Reply
<1>6. ASSUME Persisted(r) \/ Unpersisted(r) PROVE SuspensionOk(r)'
  BY <1>1, <1>6, <1>3, SyncTurns DEF Turns
<1>7. ASSUME NEW u \in Ids, NEW p \in {"syncwrite", "put", "userwrite"}, NEW w,
             NEW it \in {"active", "suspended", None},
             req'[r].pc = p, req'[r].row = w, req'[r].late = req[r].late, req'[r].id = req[r].id,
             p = "userwrite" => req'[r].target = u /\ req'[r].intent = it, p # "userwrite" => req[r].id = u,
             UNCHANGED cache,
             \/ w.status = users[u].status /\ (p = "userwrite" => it = None)
             \/ p = "userwrite" /\ it # None /\ w.status = it
      PROVE SuspensionOk(r)'
  <2>1. suspended[u] # None /\ u \notin overtaken => users[u].status = "suspended"
    BY DEF SuspensionInv
  <2>2. ASSUME NEW v \in Ids, suspended'[v] # None, v \notin overtaken', Holds(r, v)'
        PROVE w.status = "suspended" \/ (req'[r].pc = "userwrite" /\ req'[r].intent = "active")
    <3>1. v = u
      BY <1>7, <2>2 DEF Holds
    <3>2. users[u].status = "suspended"
      BY <1>2, <2>1, <2>2, <3>1
    <3> QED BY <1>7, <3>2
  <2>3. None # "suspended"
    BY AccountsAssumption
  <2>4. req'[r].pc = "userwrite" /\ req'[r].intent = "suspended" => w.status = "suspended"
    BY <1>7, <2>3
  <2> QED BY <1>1, <1>7, <1>2, <2>2, <2>4 DEF SuspensionOk
<1>8. ASSUME NEW w \in Users \cup {None}, CheckStatus(r, w), req[r].pc # "idle",
             \/ req[r].id \in failed'
             \/ /\ req[r].late /\ req[r].id \notin overtaken => w # None /\ w.status = "suspended"
      PROVE SuspensionOk(r)'
  <2>1. CASE Rests(r)
    BY <2>1, SuspensionIdle DEF Rests
  <2>2. CASE ~(w # None /\ w.status = "suspended") /\ Advances(r, "serve", w)
    <3>1. req'[r].pc = "serve" /\ req'[r].id = req[r].id /\ req'[r].late = req[r].late
      BY <2>2 DEF Advances, Turns
    <3>2. req[r].id \in Ids
      BY <1>1, <1>8 DEF Carries
    <3>3. ASSUME req[r].late, req[r].id \notin overtaken
          PROVE /\ suspended'[req[r].id] # None
                /\ cache'[req[r].id] # None => cache'[req[r].id].row.status = "suspended"
      <4>1. /\ suspended[req[r].id] # None
            /\ cache[req[r].id] # None => cache[req[r].id].row.status = "suspended"
        BY <1>1, <3>3 DEF SuspensionOk
      <4>2. \/ cache'[req[r].id] = None \/ (cache'[req[r].id] = cache[req[r].id] /\ cache[req[r].id] # None)
            \/ cache'[req[r].id].row.status = "suspended"
            \/ cache[req[r].id] # None /\ cache'[req[r].id].row = cache[req[r].id].row
        <5>1. PICK u \in Ids : u = req[r].id
          BY <3>2
        <5> QED BY <1>2, <3>3, <4>1, <5>1, CacheKept
      <4> QED BY <1>2, <4>1, <4>2
    <3> QED BY <1>8, <1>2, <2>2, <3>1, <3>2, <3>3 DEF SuspensionOk, Holds
  <2> QED BY <1>1, <1>8, <2>1, <2>2, CheckTurns
<1>9. CASE \/ \E u \in Ids : PresentKey(r, u) \/ PresentForwarded(r, u)
           \/ \E u \in Ids, role \in Roles : PresentToken(r, u, role)
  BY <1>9, ArrivalOk DEF PresentKey, PresentForwarded, PresentToken
<1>10. CASE Provision(r) \/ ProvisionDept(r) \/ ProvisionCreate(r) \/ SyncDept(r)
  BY <1>10, <1>4 DEF Provision, ProvisionDept, ProvisionCreate, SyncDept, Stages
<1>11. CASE SyncRead(r)
  <2>1. req[r].id \in Ids /\ req[r].pc = "sync" /\ UNCHANGED cache
    BY <1>1, <1>11 DEF SyncRead, At, Carries
  <2>2. CASE Exists(req[r].id) /\ req' = [req EXCEPT ![r].pc = "syncwrite",
                        ![r].row = [users[req[r].id] EXCEPT !.role = req[r].role]]
    <3>1. users[req[r].id] \in Users
      BY <1>1, <2>1, <2>2 DEF Exists
    <3>2. PICK w : w = [users[req[r].id] EXCEPT !.role = req[r].role]
      OBVIOUS
    <3>3. w.status = users[req[r].id].status
      BY <3>1, <3>2 DEF Users
    <3>4. /\ req'[r].pc = "syncwrite" /\ req'[r].id = req[r].id /\ req'[r].row = w
          /\ req'[r].late = req[r].late
      BY <1>1, <2>2, <3>2 DEF Calls
    <3> QED BY <1>7, <2>1, <3>3, <3>4
  <2> QED BY <1>11, <1>4, <1>6, <1>5, <2>2 DEF SyncRead, Stages
<1>12. CASE SyncWrite(r) \/ SyncCreate(r)
  BY <1>12, <1>6 DEF SyncWrite, SyncCreate
<1>13. CASE Resolve(r)
  <2>1. req[r].id \in Ids /\ req[r].pc = "resolve" /\ UNCHANGED <<users, cache>>
    BY <1>1, <1>13 DEF Resolve, At, Carries, memory
  <2>2. CASE cache[req[r].id] # None /\ CheckStatus(r, cache[req[r].id].row)
    <3>1. cache[req[r].id].row \in Users
      BY <1>1, <2>1, <2>2
    <3>2. req[r].late /\ req[r].id \notin overtaken => cache[req[r].id].row.status = "suspended"
      BY <1>1, <2>2 DEF SuspensionOk
    <3> QED BY <1>8, <2>1, <2>2, <3>1, <3>2, NoneIsNoRow
  <2>3. CASE Exists(req[r].id) /\ req' = [req EXCEPT ![r].pc = "put", ![r].row = users[req[r].id]]
    <3>1. /\ req'[r].pc = "put" /\ req'[r].id = req[r].id /\ req'[r].row = users[req[r].id]
          /\ req'[r].late = req[r].late
      BY <1>1, <2>3 DEF Calls
    <3> QED BY <1>7, <2>1, <3>1
  <2>4. CASE CheckStatus(r, None) /\ (~Exists(req[r].id) \/ StoreFails(req[r].id))
    <3>1. req[r].late /\ req[r].id \notin overtaken => Exists(req[r].id)
      BY <1>1, <2>1 DEF SuspensionOk, SuspensionInv
    <3> QED BY <1>8, <2>1, <2>4, <3>1 DEF StoreFails
  <2> QED BY <1>13, <2>2, <2>3, <2>4 DEF Resolve, Fresh
<1>14. CASE CacheIdentity(r)
  <2>1. req[r].id \in Ids /\ req[r].pc = "put" /\ req[r].row \in Users /\ CheckStatus(r, req[r].row)
    BY <1>1, <1>14 DEF CacheIdentity, At, Carries
  <2>2. req[r].late /\ req[r].id \notin overtaken => req[r].row.status = "suspended"
    BY <1>1, <2>1 DEF SuspensionOk, Holds
  <2> QED BY <1>8, <2>1, <2>2, NoneIsNoRow
<1>15. CASE \E u \in Ids, role \in Edits \cap Roles : PatchRole(r, u, role)
  <2>1. PICK u \in Ids, ro \in Edits \cap Roles : PatchRole(r, u, ro)
    BY <1>15
  <2>2. PICK w : w = [users[u] EXCEPT !.role = ro]
    OBVIOUS
  <2>3. users[u] \in Users
    BY <1>1, <2>1 DEF PatchRole, Exists
  <2>4. w \in Users /\ w.status = users[u].status
    BY <2>2, <2>3 DEF Users
  <2>5. EditUser(r, u, w, None) /\ UNCHANGED cache
    BY <2>1, <2>2 DEF PatchRole, EditUser, memory
  <2>6. /\ req'[r].pc = "userwrite" /\ req'[r].id = req[r].id /\ req'[r].late = req[r].late
        /\ req'[r].row = w /\ req'[r].target = u /\ req'[r].intent = None
    BY <1>1, <2>4, <2>5, EditTurns DEF Turns
  <2> QED BY <1>7, <2>4, <2>5, <2>6
<1>16. CASE \E u \in Ids, status \in Edits \ Roles : SetStatus(r, u, status)
  <2>1. PICK u \in Ids, st \in Edits \ Roles : SetStatus(r, u, st)
    BY <1>16
  <2>2. PICK w : w = [users[u] EXCEPT !.status = st]
    OBVIOUS
  <2>3. users[u] \in Users /\ st \in {"active", "suspended"} /\ st # None
    BY <1>1, <2>1, AccountsAssumption DEF SetStatus, Exists
  <2>4. w \in Users /\ w.status = st
    BY <2>2, <2>3 DEF Users
  <2>5. EditUser(r, u, w, st) /\ UNCHANGED cache
    BY <2>1, <2>2 DEF SetStatus, EditUser, memory
  <2>6. /\ req'[r].pc = "userwrite" /\ req'[r].id = req[r].id /\ req'[r].late = req[r].late
        /\ req'[r].row = w /\ req'[r].target = u /\ req'[r].intent = st
    BY <1>1, <2>3, <2>4, <2>5, EditTurns DEF Turns
  <2> QED BY <1>7, <2>3, <2>4, <2>5, <2>6
<1>17. CASE \E d \in DeptIds, n \in DeptNames :
              CreateDepartmentTool(r, d, n) \/ ProvisionNamespace(r, d, n) \/ RenameDepartment(r, d, n)
  <2>1. ASSUME NEW p \in {"deptrow", "deptwrite"}, NEW d, NEW w,
               req' = [req EXCEPT ![r].pc = p, ![r].target = d, ![r].row = w]
        PROVE SuspensionOk(r)'
    <3>1. req'[r].late = req[r].late /\ req'[r].id = req[r].id /\ req'[r].pc = p
      BY <1>1, <2>1 DEF Calls
    <3> QED BY <1>3, <3>1
  <2> QED BY <1>17, <1>5, <2>1 DEF CreateDepartmentTool, ProvisionNamespace, RenameDepartment
<1>18. CASE (\E d \in DeptIds : DeleteDepartment(r, d)) \/ InsertDepartment(r) \/ UndoNamespace(r)
            \/ WriteDepartment(r) \/ DropRow(r) \/ CascadeNamespace(r)
  <2>1. ASSUME NEW d \in DeptIds, DeleteDepartment(r, d)
        PROVE req'[r].pc = "deptdrop" /\ req'[r].late = req[r].late /\ req'[r].id = req[r].id
    BY <1>1, <2>1 DEF DeleteDepartment, Calls
  <2>2. \/ \E d \in DeptIds : DeleteDepartment(r, d)
        \/ Goto(r, "deptundo") \/ Goto(r, "nsdrop") \/ Reply(r)
    BY <1>18 DEF InsertDepartment, UndoNamespace, WriteDepartment, DropRow, CascadeNamespace
  <2> QED BY <1>4, <1>5, <1>3, <2>1, <2>2 DEF Stages
<1>19. CASE ServeOther(r) \/ \E u \in Ids, role \in Roles : CreateUser(r, u, role)
  BY <1>19, <1>5 DEF ServeOther, CreateUser
<1> QED
  BY <1>9, <1>10, <1>11, <1>12, <1>13, <1>14, <1>15, <1>16, <1>17, <1>18, <1>19 DEF Authenticate, Administer

\* An administrator's write: a suspension begins with no copy of the row
\* about, or is overtaken; an activation makes no request late.
LEMMA WriteUserKeeps ==
    ASSUME TypeInv, SuspensionInv, NEW r \in Requests, WriteUser(r)
    PROVE SuspensionInv'
<1>1. /\ req \in [Requests -> Calls] /\ req[r].pc = "userwrite" /\ req[r].target \in Ids
      /\ req[r].row \in Users /\ users \in [Ids -> Users \cup {None}]
      /\ cache \in [Ids -> [row: Users, left: 0..TTL] \cup {None}]
      /\ suspended \in [Ids -> 0..(TTL + 1) \cup {None}]
      /\ None # "active" /\ None # "suspended"
  BY AccountsAssumption DEF TypeInv, TypeOK, WriteUser, At, Carries
<1>2. PICK t \in Ids : t = req[r].target
  BY <1>1
<1>3. /\ users'[t] = req[r].row /\ \A u \in Ids \ {t} : users'[u] = users[u] /\ suspended'[u] = suspended[u]
      /\ UNCHANGED <<cache, failed>>
  <2>1. users' = [users EXCEPT ![t] = req[r].row] /\ UNCHANGED <<cache, failed>>
    BY <1>2 DEF WriteUser, memory
  <2>2. \/ UNCHANGED suspended \/ suspended' = [suspended EXCEPT ![t] = 0]
        \/ suspended' = [suspended EXCEPT ![t] = None]
    BY <1>2 DEF WriteUser
  <2> QED BY <1>1, <1>2, <2>1, <2>2
<1>4. /\ req[r].intent = "suspended" => suspended'[t] = 0
      /\ req[r].intent = "active" => suspended'[t] = None
      /\ req[r].intent \notin {"active", "suspended"} => UNCHANGED suspended
  <2>1. CASE req[r].intent = "suspended"
    BY <1>1, <1>2, <2>1 DEF WriteUser
  <2>2. CASE req[r].intent = "active"
    BY <1>1, <1>2, <2>2 DEF WriteUser
  <2>3. CASE req[r].intent \notin {"active", "suspended"}
    BY <2>3 DEF WriteUser
  <2> QED BY <2>1, <2>2, <2>3
<1>5. /\ overtaken \subseteq overtaken'
      /\ req[r].intent = "suspended" /\ t \notin overtaken' => \A q \in Requests \ {r} : ~Holds(q, t)
  BY <1>2 DEF WriteUser
<1>6. /\ req'[r] = Idle
      /\ \A q \in Requests \ {r} :
                /\ req'[q].pc = req[q].pc /\ req'[q].id = req[q].id
                /\ req'[q].row = req[q].row /\ req'[q].target = req[q].target
                /\ req'[q].intent = req[q].intent
                /\ req'[q].late = IF req[q].id = t /\ req[r].intent = "active"
                                  THEN FALSE ELSE req[q].late
  BY <1>1, <1>2, WriteTurns
<1>7. \A u \in Ids : u # t \/ req[r].intent \notin {"active", "suspended"} => suspended'[u] = suspended[u]
  BY <1>3, <1>4
<1>8. ASSUME NEW u \in Ids, suspended'[u] # None, u \notin overtaken'
      PROVE /\ users'[u] # None /\ users'[u].status = "suspended"
            /\ cache'[u] # None /\ cache'[u].row.status # "suspended" => suspended'[u] + cache'[u].left <= TTL
  <2>1. CASE u # t
    <3>1. suspended[u] # None /\ u \notin overtaken
      BY <1>3, <1>5, <1>8, <2>1
    <3> QED BY <1>3, <2>1, <3>1 DEF SuspensionInv, Exists
  <2>2. CASE u = t /\ req[r].intent = "suspended"
    <3>1. SuspensionOk(r)
      BY DEF SuspensionInv
    <3>2. users'[u] # None /\ users'[u].status = "suspended"
      BY <1>1, <1>3, <2>2, <3>1, NoneIsNoRow DEF SuspensionOk
    <3>3. suspended'[u] = 0
      BY <1>4, <2>2
    <3>4. cache'[u] # None => cache'[u].left \in 0..TTL
      BY <1>1, <1>3
    <3> QED BY <3>2, <3>3, <3>4
  <2>3. CASE u = t /\ req[r].intent \notin {"active", "suspended"}
    <3>1. suspended[u] # None /\ u \notin overtaken
      BY <1>5, <1>7, <1>8, <2>3
    <3>2. Holds(r, u)
      BY <1>1, <1>2, <2>3 DEF Holds
    <3>3. req[r].row.status = "suspended"
      BY <2>3, <3>1, <3>2 DEF SuspensionInv, SuspensionOk
    <3>4. users'[u] # None /\ users'[u].status = "suspended"
      BY <1>1, <1>3, <2>3, <3>3, NoneIsNoRow
    <3> QED BY <1>3, <1>7, <2>3, <3>1, <3>4 DEF SuspensionInv
  <2> QED BY <1>4, <1>8, <2>1, <2>2, <2>3
<1>9. ASSUME NEW q \in Requests \ {r} PROVE SuspensionOk(q)'
  <2>1. SuspensionOk(q)
    BY DEF SuspensionInv
  <2>2. ASSUME NEW u \in Ids, suspended'[u] # None, u \notin overtaken', Holds(q, u)'
        PROVE req'[q].row.status = "suspended" \/ (req'[q].pc = "userwrite" /\ req'[q].intent = "active")
    <3>1. Holds(q, u)
      BY <1>6, <2>2 DEF Holds
    <3>2. suspended[u] # None /\ u \notin overtaken
      BY <1>4, <1>5, <1>7, <2>2, <3>1
    <3> QED BY <1>6, <2>1, <3>1, <3>2 DEF SuspensionOk
  <2>3. req'[q].late => req[q].late /\ ~(req[q].id = t /\ req[r].intent = "active")
    BY <1>6
  <2>4. req'[q].late => req'[q].id \in Ids
    BY <1>6, <2>1, <2>3 DEF SuspensionOk
  <2>5. ASSUME req'[q].late, req'[q].id \notin overtaken'
        PROVE /\ suspended'[req'[q].id] # None
              /\ cache'[req'[q].id] # None => cache'[req'[q].id].row.status = "suspended"
    <3>1. /\ req'[q].id = req[q].id /\ req[q].id \in Ids /\ suspended[req[q].id] # None
          /\ cache[req[q].id] # None => cache[req[q].id].row.status = "suspended"
      BY <1>5, <1>6, <2>1, <2>3, <2>5 DEF SuspensionOk
    <3>2. suspended'[req[q].id] # None
      <4>1. CASE req[q].id = t /\ req[r].intent = "suspended"
        <5>1. 0 \in 0..(TTL + 1)
          BY AccountsAssumption
        <5> QED BY <1>4, <4>1, <5>1, AccountsAssumption
      <4>2. CASE ~(req[q].id = t /\ req[r].intent = "suspended")
        BY <1>7, <2>3, <2>5, <3>1, <4>2
      <4> QED BY <4>1, <4>2
    <3> QED BY <1>3, <3>1, <3>2
  <2>6. req'[q].pc = "userwrite" /\ req'[q].intent = "suspended" => req'[q].row.status = "suspended"
    BY <1>6, <2>1 DEF SuspensionOk
  <2>7. req'[q].pc = "serve" /\ req'[q].id \notin failed' \cup overtaken' => ~req'[q].late
    BY <1>3, <1>5, <1>6, <2>1, <2>3 DEF SuspensionOk
  <2> QED BY <2>2, <2>4, <2>5, <2>6, <2>7 DEF SuspensionOk
<1>10. SuspensionOk(r)'
  BY <1>6, SuspensionIdle
<1> QED BY <1>8, <1>9, <1>10 DEF SuspensionInv, Exists

\* Every step keeps what suspensions promise.
LEMMA SuspensionStep == TypeInv /\ SuspensionInv /\ [Next]_vars => SuspensionInv'
<1> SUFFICES ASSUME TypeInv, SuspensionInv, [Next]_vars, \A r \in Requests : ~WriteUser(r)
             PROVE SuspensionInv'
  BY WriteUserKeeps
<1>1. ASSUME NEW u \in Ids, suspended'[u] # None, u \notin overtaken'
      PROVE /\ users'[u] # None /\ users'[u].status = "suspended"
            /\ cache'[u] # None /\ cache'[u].row.status # "suspended" => suspended'[u] + cache'[u].left <= TTL
  <2>1. suspended[u] # None /\ u \notin overtaken
    BY <1>1, SuspensionMoves
  <2> QED BY <1>1, <2>1, StatusKept, StaleRunsOut
<1>2. ASSUME NEW q \in Requests PROVE SuspensionOk(q)'
  <2>1. ASSUME NEW r \in Requests, Authenticate(r) \/ Administer(r) PROVE SuspensionOk(q)'
    <3>1. CASE q = r
      BY <2>1, <3>1, SuspensionActor
    <3>2. CASE q # r
      BY <2>1, <3>2, OthersStay, SuspensionOthers
    <3> QED BY <3>1, <3>2
  <2>2. ASSUME NEW m \in Modes, Restart(m) PROVE SuspensionOk(q)'
    BY <2>2, SuspensionIdle DEF Restart
  <2>3. CASE Tick \/ UNCHANGED vars
    <3>1. UNCHANGED req
      BY <2>3 DEF Tick, vars
    <3> QED BY <3>1, SuspensionOthers
  <2> QED BY <2>1, <2>2, <2>3 DEF Next
<1> QED BY <1>1, <1>2 DEF SuspensionInv, Exists

\* A request that arrives more than one TTL after its user's suspension is
\* not served, while the store answers and no copy of the row read before the
\* suspension was about (SuspensionUnlessOvertaken).
THEOREM SuspensionsTakeEffect == Spec => []SuspensionUnlessOvertaken
<1>1. Init => SuspensionInv
  BY IdleTyped DEF Init, SuspensionInv, SuspensionOk, Holds
<1>2. SuspensionInv => SuspensionUnlessOvertaken
  BY DEF SuspensionInv, SuspensionOk, SuspensionUnlessOvertaken
<1> QED BY <1>1, <1>2, SuspensionStep, TypeAlways, PTL DEF Spec
=============================================================================
