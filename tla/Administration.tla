--------------------------- MODULE Administration ---------------------------
(***************************************************************************)
(* The administrator's routes of the backend: users and their keys,        *)
(* tenants with their namespaces and members, and federated clusters.      *)
(*                                                                         *)
(* The routes are plain functions run by the thread pools of several       *)
(* processes on one database, and every query_one and execute is a         *)
(* transaction of its own.  A request is therefore a step that tests (and  *)
(* draws ids and keys), a step per statement it writes, and a step that    *)
(* writes the audit row, with any other request in between; handler[h]     *)
(* holds what is left to do.  A test that reads an out-of-date replica     *)
(* (DB_READ_HOST) is a test made earlier, so it adds no behaviour.         *)
(*                                                                         *)
(* Refused requests (401, 403, 404, 409) and the routes that only read     *)
(* change nothing and are not steps.                                       *)
(***************************************************************************)
EXTENDS Naturals

CONSTANTS
    Handlers,     \* the threads that serve requests
    Users, Emails, KeyHashes,
    Tenants,      \* ids, drawn as tn_<hex>
    Namespaces,
    Clusters,     \* ids, drawn as cl_<hex>
    Names,        \* names of tenants and of clusters
    Roles,        \* the roles asked for
    EnvAdmin,     \* is an admin's key set in the environment?
    MaxRequests,  \* bound on the requests served, for model checking
    NoEntry,      \* the row that is not there
    Null,         \* SQL's NULL, and the column an update leaves alone
    Revoked,      \* the hash no key has
    Users0, Tenants0, Spaces0, Clusters0   \* the tables at the start

Viewer == 1
Operator == 2
Admin == 3

UserRow == [email: Emails, role: Viewer..Admin, key: KeyHashes \cup {Revoked},
            active: BOOLEAN, tenant: Tenants \cup {Null}]

TenantRow == [name: Names, active: BOOLEAN]

Status == {"registered", "healthy", "unreachable", "deregistered"}

ClusterRow == [name: Names, active: BOOLEAN, status: Status, tenant: Tenants \cup {Null}]

VARIABLES
    users,      \* by username
    tenants,    \* by id
    spaces,     \* tenant_namespaces: pairs of a tenant and a namespace
    clusters,   \* federated_clusters, by id
    audit,      \* pairs of an event and its target
    handler,    \* what the request of each thread still has to do
    drawn,      \* keys generated so far
    served      \* number of requests so far

adminVars == <<users, tenants, spaces, clusters, audit, handler, drawn, served>>

Idle == [kind |-> "idle"]

\* No two rows of the table agree on the column.
Unique(table, col(_)) ==
    \A x, y \in DOMAIN table :
        table[x] # NoEntry /\ table[y] # NoEntry /\ col(table[x]) = col(table[y]) => x = y

NameOf(row) == row.name
EmailOf(row) == row.email

ASSUME AdministrationAssumption ==
    /\ EnvAdmin \in BOOLEAN
    /\ MaxRequests \in Nat
    /\ Roles \subseteq Viewer..Admin
    /\ NoEntry \notin UserRow
    /\ NoEntry \notin TenantRow
    /\ NoEntry \notin ClusterRow
    /\ Null \notin Tenants
    /\ Null \notin Roles
    /\ Null \notin BOOLEAN
    /\ Revoked \notin KeyHashes
    /\ Users0 \in [Users -> UserRow \cup {NoEntry}]
    /\ Tenants0 \in [Tenants -> TenantRow \cup {NoEntry}]
    /\ Clusters0 \in [Clusters -> ClusterRow \cup {NoEntry}]
    /\ Spaces0 \subseteq Tenants \X Namespaces

ASSUME SeedAssumption ==
    /\ Unique(Users0, EmailOf)
    /\ Unique(Tenants0, NameOf)
    /\ Unique(Clusters0, NameOf)
    /\ \A s \in Spaces0 : Tenants0[s[1]] # NoEntry
    /\ \A u \in Users : Users0[u] # NoEntry =>
           Users0[u].tenant = Null \/ Tenants0[Users0[u].tenant] # NoEntry

AdminInit ==
    /\ users = Users0
    /\ tenants = Tenants0
    /\ spaces = Spaces0
    /\ clusters = Clusters0
    /\ audit = {}
    /\ handler = [h \in Handlers |-> Idle]
    /\ drawn = {users[u].key : u \in {v \in Users : users[v] # NoEntry}} \ {Revoked}
    /\ served = 0

-----------------------------------------------------------------------------
\* Who may ask, and what every request starts with

(* A credential counts if it is the environment's (or a token), or the key   *)
(* of a user who is active; an expired key is one that asks nothing.         *)
Authorized(minimum) ==
    \/ EnvAdmin
    \/ \E u \in Users : /\ users[u] # NoEntry
                        /\ users[u].active
                        /\ users[u].key \in KeyHashes
                        /\ users[u].role >= minimum

Begin(h, minimum, statement) ==
    /\ handler[h] = Idle
    /\ served < MaxRequests
    /\ Authorized(minimum)
    /\ handler' = [handler EXCEPT ![h] = statement]
    /\ served' = served + 1
    /\ UNCHANGED <<users, tenants, spaces, clusters, audit>>

\* Mutant of FreshKey: a key made from what the user has now.
FreshKey_Derived(k) == \A u \in Users : users[u] # NoEntry => users[u].key # k

\* secrets.token_urlsafe(32): a key nobody ever had.
FreshKey(k) == k \notin drawn

-----------------------------------------------------------------------------
\* Users

(* POST /users/invite: neither the name nor the e-mail is taken.             *)
InviteUser(h, u, e, r, k) ==
    /\ users[u] = NoEntry
    /\ \A v \in Users : users[v] # NoEntry => users[v].email # e
    /\ FreshKey(k)
    /\ drawn' = drawn \cup {k}
    /\ Begin(h, Admin, [kind |-> "invite", user |-> u,
                        row |-> [email |-> e, role |-> r, key |-> k,
                                 active |-> TRUE, tenant |-> Null]])

(* PATCH /users/{username}: the columns given, Null for those left out.      *)
UpdateUser(h, u, r, a) ==
    /\ users[u] # NoEntry
    /\ <<r, a>> # <<Null, Null>>
    /\ Begin(h, Admin, [kind |-> "update", user |-> u, role |-> r, active |-> a])
    /\ UNCHANGED drawn

(* DELETE /users/{username}                                                  *)
DeactivateUser(h, u) ==
    /\ users[u] # NoEntry
    /\ Begin(h, Admin, [kind |-> "deactivate", user |-> u])
    /\ UNCHANGED drawn

(* POST /users/{username}/rotate-key: only a deactivated user is refused,    *)
(* and the update that follows does not ask again.                           *)
RotateKey(h, u, k) ==
    /\ users[u] # NoEntry
    /\ users[u].active
    /\ FreshKey(k)
    /\ drawn' = drawn \cup {k}
    /\ Begin(h, Admin, [kind |-> "rotate", user |-> u, key |-> k])

-----------------------------------------------------------------------------
\* Tenants

(* POST /tenants/: the name is free; the namespaces are not tested.          *)
CreateTenant(h, t, n, ns) ==
    /\ tenants[t] = NoEntry
    /\ \A g \in Handlers : handler[g].kind = "create" => handler[g].tenant # t
    /\ \A v \in Tenants : tenants[v] # NoEntry => tenants[v].name # n
    /\ Begin(h, Admin, [kind |-> "create", tenant |-> t, name |-> n, left |-> ns])
    /\ UNCHANGED drawn

(* PATCH /tenants/{id}: a display name alone changes nothing kept here.      *)
UpdateTenant(h, t, a) ==
    /\ tenants[t] # NoEntry
    /\ Begin(h, Admin, [kind |-> "switch", tenant |-> t, active |-> a])
    /\ UNCHANGED drawn

(* POST /tenants/{id}/namespaces: no tenant has the namespace.               *)
AddNamespace(h, t, n) ==
    /\ tenants[t] # NoEntry
    /\ \A v \in Tenants : <<v, n>> \notin spaces
    /\ Begin(h, Admin, [kind |-> "add", tenant |-> t, space |-> n])
    /\ UNCHANGED drawn

(* DELETE /tenants/{id}/namespaces/{namespace}: nothing is tested.           *)
RemoveNamespace(h, t, n) ==
    /\ Begin(h, Admin, [kind |-> "drop", tenant |-> t, space |-> n])
    /\ UNCHANGED drawn

\* Mutant of AssignUser: the tenant is not looked up.
AssignUser_Untested(h, t, u) ==
    /\ users[u] # NoEntry
    /\ Begin(h, Admin, [kind |-> "assign", tenant |-> t, user |-> u])
    /\ UNCHANGED drawn

(* POST /tenants/{id}/users                                                  *)
AssignUser(h, t, u) ==
    /\ tenants[t] # NoEntry
    /\ users[u] # NoEntry
    /\ Begin(h, Admin, [kind |-> "assign", tenant |-> t, user |-> u])
    /\ UNCHANGED drawn

(* DELETE /tenants/{id}/users/{username}                                     *)
RemoveUser(h, t, u) ==
    /\ Begin(h, Admin, [kind |-> "remove", tenant |-> t, user |-> u])
    /\ UNCHANGED drawn

-----------------------------------------------------------------------------
\* Clusters

(* POST /federation/clusters: the tenant of the cluster, unlike that of a    *)
(* user, is written as given.                                                *)
RegisterCluster(h, c, n, t) ==
    /\ clusters[c] = NoEntry
    /\ \A g \in Handlers : handler[g].kind = "register" => handler[g].cluster # c
    /\ \A d \in Clusters : clusters[d] # NoEntry => clusters[d].name # n
    /\ Begin(h, Admin, [kind |-> "register", cluster |-> c, name |-> n, tenant |-> t])
    /\ UNCHANGED drawn

(* PATCH /federation/clusters/{id}, of its is_active                         *)
UpdateCluster(h, c, a) ==
    /\ clusters[c] # NoEntry
    /\ Begin(h, Admin, [kind |-> "toggle", cluster |-> c, active |-> a])
    /\ UNCHANGED drawn

(* POST /federation/clusters/{id}/heartbeat: also of a cluster that is not   *)
(* active.                                                                   *)
Heartbeat(h, c, s) ==
    /\ clusters[c] # NoEntry
    /\ Begin(h, Operator, [kind |-> "heartbeat", cluster |-> c, status |-> s])
    /\ UNCHANGED drawn

(* DELETE /federation/clusters/{id}                                          *)
DeregisterCluster(h, c) ==
    /\ Begin(h, Admin, [kind |-> "deregister", cluster |-> c])
    /\ UNCHANGED drawn

-----------------------------------------------------------------------------
\* The statements

UserStatements == {"update", "deactivate", "rotate", "assign", "remove"}
ClusterStatements == {"toggle", "heartbeat", "deregister"}

Entry(event, target) == [kind |-> "audit", event |-> event, target |-> target]

\* The rest of the request of thread h, once its statement is committed.
Then(h, rest) ==
    /\ handler' = [handler EXCEPT ![h] = rest]
    /\ UNCHANGED <<drawn, served>>

\* The column a PATCH gives, or else the one that was there.
Given(new, old) == IF new = Null THEN old ELSE new

\* Mutant of Rotated: a new key makes the user active.
Rotated_Revived(row, k) == [row EXCEPT !.key = k, !.active = TRUE]

\* UPDATE users SET api_key_hash, key_expires_at: by username alone.
Rotated(row, k) == [row EXCEPT !.key = k]

\* The row after UPDATE users SET ... WHERE username: each statement writes its
\* own columns, whatever was read before; a removal asks for the tenant too.
UserWritten(row, t) ==
    CASE t.kind = "update" ->
           [row EXCEPT !.role = Given(t.role, @), !.active = Given(t.active, @)]
      [] t.kind = "deactivate" -> [row EXCEPT !.active = FALSE, !.key = Revoked]
      [] t.kind = "rotate" -> Rotated(row, t.key)
      [] t.kind = "assign" -> [row EXCEPT !.tenant = t.tenant]
      [] t.kind = "remove" ->
           IF row # NoEntry /\ row.tenant = t.tenant THEN [row EXCEPT !.tenant = Null] ELSE row

CommitUser(h) ==
    /\ handler[h].kind \in UserStatements
    /\ LET t == handler[h] IN
       /\ users' = [users EXCEPT ![t.user] = UserWritten(@, t)]
       /\ Then(h, Entry(t.kind, IF t.kind \in {"assign", "remove"} THEN t.tenant ELSE t.user))
    /\ UNCHANGED <<tenants, spaces, clusters, audit>>

(* INSERT INTO users: username and e-mail are UNIQUE.                        *)
CommitInvite(h) ==
    /\ handler[h].kind = "invite"
    /\ LET t == handler[h] IN
       /\ users[t.user] = NoEntry
       /\ \A v \in Users : users[v] # NoEntry => users[v].email # t.row.email
       /\ users' = [users EXCEPT ![t.user] = t.row]
       /\ Then(h, Entry("invite", t.user))
    /\ UNCHANGED <<tenants, spaces, clusters, audit>>

\* The loop over the namespaces of a new tenant, and the audit row after it.
AssignRest(t, ns) ==
    IF ns = {} THEN Entry("create", t.name)
    ELSE [kind |-> "spaces", tenant |-> t.tenant, name |-> t.name, left |-> ns]

(* INSERT INTO tenants: the name is UNIQUE.                                  *)
CommitCreate(h) ==
    /\ handler[h].kind = "create"
    /\ LET t == handler[h] IN
       /\ \A v \in Tenants : tenants[v] # NoEntry => tenants[v].name # t.name
       /\ tenants' = [tenants EXCEPT ![t.tenant] = [name |-> t.name, active |-> TRUE]]
       /\ Then(h, AssignRest(t, t.left))
    /\ UNCHANGED <<users, spaces, clusters, audit>>

(* INSERT INTO tenant_namespaces, for a new tenant: the pair is the primary  *)
(* key, and the namespace alone is not.                                      *)
CommitSpace(h) ==
    /\ handler[h].kind = "spaces"
    /\ LET t == handler[h] IN
       \E n \in t.left :
           /\ <<t.tenant, n>> \notin spaces
           /\ spaces' = spaces \cup {<<t.tenant, n>>}
           /\ Then(h, AssignRest(t, t.left \ {n}))
    /\ UNCHANGED <<users, tenants, clusters, audit>>

CommitTenant(h) ==
    /\ handler[h].kind = "switch"
    /\ LET t == handler[h] IN
       /\ tenants' = [tenants EXCEPT ![t.tenant].active = t.active]
       /\ Then(h, Entry("switch", t.tenant))
    /\ UNCHANGED <<users, spaces, clusters, audit>>

CommitAdd(h) ==
    /\ handler[h].kind = "add"
    /\ LET t == handler[h] IN
       /\ <<t.tenant, t.space>> \notin spaces
       /\ spaces' = spaces \cup {<<t.tenant, t.space>>}
       /\ Then(h, Entry("add", t.tenant))
    /\ UNCHANGED <<users, tenants, clusters, audit>>

CommitDrop(h) ==
    /\ handler[h].kind = "drop"
    /\ LET t == handler[h] IN
       /\ spaces' = spaces \ {<<t.tenant, t.space>>}
       /\ Then(h, Entry("drop", t.tenant))
    /\ UNCHANGED <<users, tenants, clusters, audit>>

(* INSERT INTO federated_clusters: the name is UNIQUE.                       *)
CommitRegister(h) ==
    /\ handler[h].kind = "register"
    /\ LET t == handler[h] IN
       /\ \A d \in Clusters : clusters[d] # NoEntry => clusters[d].name # t.name
       /\ clusters' = [clusters EXCEPT ![t.cluster] =
                           [name |-> t.name, active |-> TRUE, status |-> "registered",
                            tenant |-> t.tenant]]
       /\ Then(h, Entry("register", t.name))
    /\ UNCHANGED <<users, tenants, spaces, audit>>

\* The row after UPDATE federated_clusters SET ... WHERE id.
ClusterWritten(row, t) ==
    CASE t.kind = "toggle" -> [row EXCEPT !.active = t.active]
      [] t.kind = "heartbeat" -> [row EXCEPT !.status = t.status]
      [] t.kind = "deregister" ->
           IF row = NoEntry THEN row
           ELSE [row EXCEPT !.active = FALSE, !.status = "deregistered"]

\* A heartbeat is the one write that is not audited.
CommitCluster(h) ==
    /\ handler[h].kind \in ClusterStatements
    /\ LET t == handler[h] IN
       /\ clusters' = [clusters EXCEPT ![t.cluster] = ClusterWritten(@, t)]
       /\ Then(h, IF t.kind = "heartbeat" THEN Idle ELSE Entry(t.kind, t.cluster))
    /\ UNCHANGED <<users, tenants, spaces, audit>>

WriteAudit(h) ==
    /\ handler[h].kind = "audit"
    /\ audit' = audit \cup {<<handler[h].event, handler[h].target>>}
    /\ Then(h, Idle)
    /\ UNCHANGED <<users, tenants, spaces, clusters>>

\* Mutant of Fail: the audit row is written whether or not the insert was.
Fail_Audited(h) ==
    /\ handler[h] # Idle
    /\ Then(h, IF handler[h].kind = "invite" THEN Entry("invite", handler[h].user) ELSE Idle)
    /\ UNCHANGED <<users, tenants, spaces, clusters, audit>>

(* A statement that a constraint or the database refuses, or a process that  *)
(* dies: what is left of the request is not done.  A failed audit is only    *)
(* logged.                                                                   *)
Fail(h) ==
    /\ handler[h] # Idle
    /\ Then(h, Idle)
    /\ UNCHANGED <<users, tenants, spaces, clusters, audit>>

AskUsers(h) ==
    \E u \in Users :
        \/ \E e \in Emails, r \in Roles, k \in KeyHashes : InviteUser(h, u, e, r, k)
        \/ \E r \in Roles \cup {Null}, a \in BOOLEAN \cup {Null} : UpdateUser(h, u, r, a)
        \/ DeactivateUser(h, u)
        \/ \E k \in KeyHashes : RotateKey(h, u, k)

AskTenants(h) ==
    \E t \in Tenants :
        \/ \E n \in Names, ns \in SUBSET Namespaces : CreateTenant(h, t, n, ns)
        \/ \E a \in BOOLEAN : UpdateTenant(h, t, a)
        \/ \E n \in Namespaces : AddNamespace(h, t, n) \/ RemoveNamespace(h, t, n)
        \/ \E u \in Users : AssignUser(h, t, u) \/ RemoveUser(h, t, u)

AskClusters(h) ==
    \E c \in Clusters :
        \/ \E n \in Names, t \in Tenants \cup {Null} : RegisterCluster(h, c, n, t)
        \/ \E a \in BOOLEAN : UpdateCluster(h, c, a)
        \/ \E s \in Status \ {"registered"} : Heartbeat(h, c, s)
        \/ DeregisterCluster(h, c)

Statement(h) ==
    \/ CommitUser(h) \/ CommitInvite(h)
    \/ CommitCreate(h) \/ CommitSpace(h) \/ CommitTenant(h) \/ CommitAdd(h) \/ CommitDrop(h)
    \/ CommitRegister(h) \/ CommitCluster(h)

AdminNext ==
    \E h \in Handlers :
        \/ AskUsers(h) \/ AskTenants(h) \/ AskClusters(h)
        \/ Statement(h) \/ WriteAudit(h) \/ Fail(h)

AdminSpec == AdminInit /\ [][AdminNext]_adminVars

-----------------------------------------------------------------------------
\* Properties

Written == {"invite", "create", "spaces", "switch", "add", "drop", "register"}
           \cup UserStatements \cup ClusterStatements

\* The tables hold rows of their columns; a thread is idle, writes or audits.
AdminTypeOK ==
    /\ users \in [Users -> UserRow \cup {NoEntry}]
    /\ tenants \in [Tenants -> TenantRow \cup {NoEntry}]
    /\ spaces \subseteq Tenants \X Namespaces
    /\ clusters \in [Clusters -> ClusterRow \cup {NoEntry}]
    /\ \A h \in Handlers : handler[h].kind \in Written \cup {"idle", "audit"}
    /\ drawn \subseteq KeyHashes
    /\ served \in 0..MaxRequests

(* No namespace and no user is of a tenant that does not exist: tenants are  *)
(* tested or inserted in an earlier transaction and never deleted.  A        *)
(* cluster may well be: its tenant is not tested.                            *)
ReferencesHold ==
    /\ \A s \in spaces : tenants[s[1]] # NoEntry
    /\ \A u \in Users : users[u] # NoEntry =>
           users[u].tenant = Null \/ tenants[users[u].tenant] # NoEntry

(* The audit log does not claim an invitation, a tenant or a cluster that    *)
(* was never made, however its request failed.                               *)
AuditTellsTheTruth ==
    /\ \A u \in Users : <<"invite", u>> \in audit => users[u] # NoEntry
    /\ \A n \in Names :
           /\ <<"create", n>> \in audit =>
                  \E t \in Tenants : tenants[t] # NoEntry /\ tenants[t].name = n
           /\ <<"register", n>> \in audit =>
                  \E c \in Clusters : clusters[c] # NoEntry /\ clusters[c].name = n

\* A key that was generated and that no row has or is about to get.
Dead(k) ==
    /\ k \in drawn
    /\ \A u \in Users : users[u] # NoEntry => users[u].key # k
    /\ \A h \in Handlers :
           /\ handler[h].kind = "invite" => handler[h].row.key # k
           /\ handler[h].kind = "rotate" => handler[h].key # k

(* "The previous key is now invalid" (users.py 255): a key that was rotated  *)
(* away or revoked never authenticates again, in whatever order updates,     *)
(* deactivations and rotations of one user reach the table.                  *)
DeadKeysStayDead == [][\A k \in KeyHashes : Dead(k) => Dead(k)']_adminVars

\* A request under way asks for is_active = 1.
Reactivates(t, kind) == t.kind = kind /\ t.active = TRUE

(* A user, tenant or cluster that was deactivated comes back only by a       *)
(* request that says so: a rotation tested before the deactivation, or a     *)
(* heartbeat that arrives after it, does not undo it.                        *)
InactiveStaysInactive ==
    [][/\ \A u \in Users :
              users[u] # NoEntry /\ ~users[u].active /\ users'[u].active
              => \E h \in Handlers : Reactivates(handler[h], "update") /\ handler[h].user = u
       /\ \A v \in Tenants :
              tenants[v] # NoEntry /\ ~tenants[v].active /\ tenants'[v].active
              => \E h \in Handlers : Reactivates(handler[h], "switch") /\ handler[h].tenant = v
       /\ \A c \in Clusters :
              clusters[c] # NoEntry /\ ~clusters[c].active /\ clusters'[c].active
              => \E h \in Handlers : Reactivates(handler[h], "toggle") /\ handler[h].cluster = c
      ]_adminVars

=============================================================================
