------------------------ MODULE AdministrationProofs ------------------------
(***************************************************************************)
(* What Administration promises, for any number of threads, of users,      *)
(* tenants and clusters and of requests.                                   *)
(*                                                                         *)
(* The inductive invariant ties every request under way to the tables its  *)
(* first step tested: a row it is about to update is still there, one it   *)
(* is about to insert under a drawn id is not.  Both rest on the tables    *)
(* only growing (no route deletes a user, a tenant or a cluster).          *)
(***************************************************************************)
EXTENDS Administration, TLAPS

\* What is left of a request, field by field.
JobOK(t) ==
    /\ t.kind \in Written \cup {"idle", "audit"}
    /\ t.kind \in UserStatements \cup {"invite"} => t.user \in Users
    /\ t.kind = "invite" => t.row \in UserRow /\ t.row.tenant = Null
    /\ t.kind = "update" => t.role \in Roles \cup {Null} /\ t.active \in BOOLEAN \cup {Null}
    /\ t.kind = "rotate" => t.key \in KeyHashes
    /\ t.kind \in {"assign", "remove", "create", "spaces", "switch", "add", "drop"} =>
           t.tenant \in Tenants
    /\ t.kind \in {"create", "spaces"} => t.name \in Names /\ t.left \subseteq Namespaces
    /\ t.kind \in {"add", "drop"} => t.space \in Namespaces
    /\ t.kind = "register" => t.name \in Names /\ t.tenant \in Tenants \cup {Null}
    /\ t.kind \in ClusterStatements \cup {"register"} => t.cluster \in Clusters
    /\ t.kind \in {"switch", "toggle"} => t.active \in BOOLEAN
    /\ t.kind = "heartbeat" => t.status \in Status

JobsOK ==
    /\ handler = [h \in Handlers |-> handler[h]]
    /\ \A h \in Handlers : JobOK(handler[h])

Tables ==
    /\ users \in [Users -> UserRow \cup {NoEntry}]
    /\ tenants \in [Tenants -> TenantRow \cup {NoEntry}]
    /\ spaces \subseteq Tenants \X Namespaces
    /\ clusters \in [Clusters -> ClusterRow \cup {NoEntry}]
    /\ drawn \subseteq KeyHashes
    /\ served \in 0..MaxRequests

TenantNamed(n) == \E t \in Tenants : tenants[t] # NoEntry /\ tenants[t].name = n
ClusterNamed(n) == \E c \in Clusters : clusters[c] # NoEntry /\ clusters[c].name = n

\* What an audit row of an event says is so.
True(event, target) ==
    /\ event = "invite" => target \in Users /\ users[target] # NoEntry
    /\ event = "create" => TenantNamed(target)
    /\ event = "register" => ClusterNamed(target)

\* What a request found, and still holds when it writes.
Known(t) ==
    /\ t.kind \in {"update", "deactivate", "rotate", "assign"} => users[t.user] # NoEntry
    /\ t.kind \in {"assign", "switch", "add", "spaces"} => tenants[t.tenant] # NoEntry
    /\ t.kind \in {"toggle", "heartbeat"} => clusters[t.cluster] # NoEntry
    /\ t.kind = "spaces" => TenantNamed(t.name)
    /\ t.kind = "audit" => True(t.event, t.target)

AllKnown == \A h \in Handlers : Known(handler[h])

\* Nobody has, or is about to insert, the id that t was drawn.
Apart(t, h) ==
    /\ t.kind = "create" =>
           /\ tenants[t.tenant] = NoEntry
           /\ \A g \in Handlers \ {h} : handler[g].kind = "create" => handler[g].tenant # t.tenant
    /\ t.kind = "register" =>
           /\ clusters[t.cluster] = NoEntry
           /\ \A g \in Handlers \ {h} :
                  handler[g].kind = "register" => handler[g].cluster # t.cluster

AllApart == \A h \in Handlers : Apart(handler[h], h)

AuditTrue == \A row \in audit : True(row[1], row[2])

Inv == Tables /\ JobsOK /\ AllKnown /\ AllApart /\ ReferencesHold /\ AuditTrue

\* No row disappears, and no tenant or cluster changes its name.
Grows ==
    /\ \A u \in Users : users[u] # NoEntry => users'[u] # NoEntry
    /\ \A t \in Tenants : tenants[t] # NoEntry =>
           tenants'[t] # NoEntry /\ tenants'[t].name = tenants[t].name
    /\ \A c \in Clusters : clusters[c] # NoEntry =>
           clusters'[c] # NoEntry /\ clusters'[c].name = clusters[c].name

-----------------------------------------------------------------------------
\* Lemmas

LEMMA HandlerStep ==
    ASSUME JobsOK, NEW h \in Handlers, NEW rest, JobOK(rest),
           handler' = [handler EXCEPT ![h] = rest]
    PROVE  /\ JobsOK'
           /\ handler'[h] = rest
           /\ \A g \in Handlers \ {h} : handler'[g] = handler[g]
<1>1. /\ handler'[h] = rest
      /\ \A g \in Handlers \ {h} : handler'[g] = handler[g]
  BY DEF JobsOK
<1>2. handler' = [g \in Handlers |-> handler'[g]]
  BY DEF JobsOK
<1>3. \A g \in Handlers : JobOK(handler'[g])
  BY <1>1 DEF JobsOK
<1> QED
  BY <1>1, <1>2, <1>3 DEF JobsOK

\* What a request knows outlives any growth of the tables.
LEMMA KnownGrows ==
    ASSUME NEW t, JobOK(t), Known(t), Grows
    PROVE  Known(t)'
<1>1. \A n : TenantNamed(n) => TenantNamed(n)'
  BY DEF TenantNamed, Grows
<1>2. \A n : ClusterNamed(n) => ClusterNamed(n)'
  BY DEF ClusterNamed, Grows
<1>3. \A event, target : True(event, target) => True(event, target)'
  BY <1>1, <1>2 DEF True, Grows
<1> QED
  BY <1>1, <1>3 DEF Known, Grows, JobOK, UserStatements, ClusterStatements

LEMMA AuditGrows ==
    ASSUME AuditTrue, Grows, UNCHANGED audit
    PROVE  AuditTrue'
<1>1. \A n : TenantNamed(n) => TenantNamed(n)'
  BY DEF TenantNamed, Grows
<1>2. \A n : ClusterNamed(n) => ClusterNamed(n)'
  BY DEF ClusterNamed, Grows
<1>3. \A event, target : True(event, target) => True(event, target)'
  BY <1>1, <1>2 DEF True, Grows
<1> QED
  BY <1>3 DEF AuditTrue

\* A request that goes on to rest, while the tables grow.
LEMMA JobsStep ==
    ASSUME Inv, Grows, NEW h \in Handlers, NEW rest, JobOK(rest), Known(rest)',
           rest.kind \notin {"create", "register"},
           handler' = [handler EXCEPT ![h] = rest],
           \A g \in Handlers \ {h} :
               /\ handler[g].kind = "create" => tenants'[handler[g].tenant] = NoEntry
               /\ handler[g].kind = "register" => clusters'[handler[g].cluster] = NoEntry
    PROVE  JobsOK' /\ AllKnown' /\ AllApart'
<1>1. /\ JobsOK'
      /\ handler'[h] = rest
      /\ \A g \in Handlers \ {h} : handler'[g] = handler[g]
  BY HandlerStep DEF Inv
<1>2. AllKnown'
  <2> SUFFICES ASSUME NEW g \in Handlers PROVE Known(handler[g])'
    BY DEF AllKnown
  <2>1. CASE g = h
    BY <1>1, <2>1 DEF Known
  <2>2. CASE g # h
    <3>1. PICK t : t = handler[g]
      OBVIOUS
    <3>2. Known(t)'
      BY <3>1, KnownGrows DEF Inv, JobsOK, AllKnown
    <3>3. handler'[g] = t
      BY <1>1, <2>2, <3>1
    <3> QED
      BY <3>2, <3>3 DEF Known
  <2> QED
    BY <2>1, <2>2
<1>3. AllApart'
  <2> SUFFICES ASSUME NEW g \in Handlers PROVE Apart(handler[g], g)'
    BY DEF AllApart
  <2>1. CASE g = h
    BY <1>1, <2>1 DEF Apart
  <2>2. CASE g # h
    BY <1>1, <2>2 DEF Apart, Inv, AllApart
  <2> QED
    BY <2>1, <2>2
<1> QED
  BY <1>1, <1>2, <1>3

-----------------------------------------------------------------------------
\* The first step of a request

\* A request is begun with a job that fits the tables and a key nobody had.
Begins(h, t) ==
    /\ handler' = [handler EXCEPT ![h] = t]
    /\ served < MaxRequests
    /\ served' = served + 1
    /\ UNCHANGED <<users, tenants, spaces, clusters, audit>>
    /\ JobOK(t) /\ Known(t) /\ Apart(t, h)
    /\ t.kind # "idle"
    /\ drawn' \subseteq KeyHashes
    /\ drawn \subseteq drawn'
    /\ t.kind = "invite" => t.row.key \notin drawn
    /\ t.kind = "rotate" => t.key \notin drawn

LEMMA AskUsersBegins ==
    ASSUME Inv, NEW h \in Handlers, AskUsers(h)
    PROVE  \E t : Begins(h, t)
<1> USE DEF Begin, FreshKey, Begins, Known, Apart, Inv, Tables
<1>1. PICK u \in Users :
          \/ \E e \in Emails, r \in Roles, k \in KeyHashes : InviteUser(h, u, e, r, k)
          \/ \E r \in Roles \cup {Null}, a \in BOOLEAN \cup {Null} : UpdateUser(h, u, r, a)
          \/ DeactivateUser(h, u)
          \/ \E k \in KeyHashes : RotateKey(h, u, k)
  BY DEF AskUsers
<1>2. ASSUME NEW e \in Emails, NEW r \in Roles, NEW k \in KeyHashes, InviteUser(h, u, e, r, k)
      PROVE  \E t : Begins(h, t)
  <2> DEFINE row == [email |-> e, role |-> r, key |-> k, active |-> TRUE, tenant |-> Null]
             t == [kind |-> "invite", user |-> u, row |-> row]
  <2>1. row \in UserRow
    BY AdministrationAssumption DEF UserRow
  <2>2. JobOK(t)
    BY <2>1 DEF JobOK, UserStatements, ClusterStatements, Written
  <2>3. Begins(h, t)
    BY <1>2, <2>2 DEF InviteUser
  <2> QED
    BY <2>3
<1>3. ASSUME NEW r \in Roles \cup {Null}, NEW a \in BOOLEAN \cup {Null}, UpdateUser(h, u, r, a)
      PROVE  \E t : Begins(h, t)
  <2> DEFINE t == [kind |-> "update", user |-> u, role |-> r, active |-> a]
  <2>1. JobOK(t)
    BY DEF JobOK, UserStatements, ClusterStatements, Written
  <2>2. Begins(h, t)
    BY <1>3, <2>1 DEF UpdateUser
  <2> QED
    BY <2>2
<1>4. ASSUME DeactivateUser(h, u)
      PROVE  \E t : Begins(h, t)
  <2> DEFINE t == [kind |-> "deactivate", user |-> u]
  <2>1. JobOK(t)
    BY DEF JobOK, UserStatements, ClusterStatements, Written
  <2>2. Begins(h, t)
    BY <1>4, <2>1 DEF DeactivateUser
  <2> QED
    BY <2>2
<1>5. ASSUME NEW k \in KeyHashes, RotateKey(h, u, k)
      PROVE  \E t : Begins(h, t)
  <2> DEFINE t == [kind |-> "rotate", user |-> u, key |-> k]
  <2>1. JobOK(t)
    BY DEF JobOK, UserStatements, ClusterStatements, Written
  <2>2. Begins(h, t)
    BY <1>5, <2>1 DEF RotateKey
  <2> QED
    BY <2>2
<1> QED
  BY <1>1, <1>2, <1>3, <1>4, <1>5

LEMMA AskTenantsBegins ==
    ASSUME Inv, NEW h \in Handlers, AskTenants(h)
    PROVE  \E t : Begins(h, t)
<1> USE DEF Begin, Begins, Known, Apart, Inv, Tables
<1>1. PICK v \in Tenants :
          \/ \E n \in Names, ns \in SUBSET Namespaces : CreateTenant(h, v, n, ns)
          \/ \E a \in BOOLEAN : UpdateTenant(h, v, a)
          \/ \E n \in Namespaces : AddNamespace(h, v, n) \/ RemoveNamespace(h, v, n)
          \/ \E u \in Users : AssignUser(h, v, u) \/ RemoveUser(h, v, u)
  BY DEF AskTenants
<1>2. ASSUME NEW n \in Names, NEW ns \in SUBSET Namespaces, CreateTenant(h, v, n, ns)
      PROVE  \E t : Begins(h, t)
  <2> DEFINE t == [kind |-> "create", tenant |-> v, name |-> n, left |-> ns]
  <2>1. JobOK(t)
    BY DEF JobOK, UserStatements, ClusterStatements, Written
  <2>2. Begins(h, t)
    BY <1>2, <2>1 DEF CreateTenant
  <2> QED
    BY <2>2
<1>3. ASSUME NEW a \in BOOLEAN, UpdateTenant(h, v, a)
      PROVE  \E t : Begins(h, t)
  <2> DEFINE t == [kind |-> "switch", tenant |-> v, active |-> a]
  <2>1. JobOK(t)
    BY DEF JobOK, UserStatements, ClusterStatements, Written
  <2>2. Begins(h, t)
    BY <1>3, <2>1 DEF UpdateTenant
  <2> QED
    BY <2>2
<1>4. ASSUME NEW n \in Namespaces, AddNamespace(h, v, n)
      PROVE  \E t : Begins(h, t)
  <2> DEFINE t == [kind |-> "add", tenant |-> v, space |-> n]
  <2>1. JobOK(t)
    BY DEF JobOK, UserStatements, ClusterStatements, Written
  <2>2. Begins(h, t)
    BY <1>4, <2>1 DEF AddNamespace
  <2> QED
    BY <2>2
<1>5. ASSUME NEW n \in Namespaces, RemoveNamespace(h, v, n)
      PROVE  \E t : Begins(h, t)
  <2> DEFINE t == [kind |-> "drop", tenant |-> v, space |-> n]
  <2>1. JobOK(t)
    BY DEF JobOK, UserStatements, ClusterStatements, Written
  <2>2. Begins(h, t)
    BY <1>5, <2>1 DEF RemoveNamespace
  <2> QED
    BY <2>2
<1>6. ASSUME NEW u \in Users, AssignUser(h, v, u)
      PROVE  \E t : Begins(h, t)
  <2> DEFINE t == [kind |-> "assign", tenant |-> v, user |-> u]
  <2>1. JobOK(t)
    BY DEF JobOK, UserStatements, ClusterStatements, Written
  <2>2. Begins(h, t)
    BY <1>6, <2>1 DEF AssignUser
  <2> QED
    BY <2>2
<1>7. ASSUME NEW u \in Users, RemoveUser(h, v, u)
      PROVE  \E t : Begins(h, t)
  <2> DEFINE t == [kind |-> "remove", tenant |-> v, user |-> u]
  <2>1. JobOK(t)
    BY DEF JobOK, UserStatements, ClusterStatements, Written
  <2>2. Begins(h, t)
    BY <1>7, <2>1 DEF RemoveUser
  <2> QED
    BY <2>2
<1> QED
  BY <1>1, <1>2, <1>3, <1>4, <1>5, <1>6, <1>7

LEMMA AskClustersBegins ==
    ASSUME Inv, NEW h \in Handlers, AskClusters(h)
    PROVE  \E t : Begins(h, t)
<1> USE DEF Begin, Begins, Known, Apart, Inv, Tables
<1>1. PICK c \in Clusters :
          \/ \E n \in Names, m \in Tenants \cup {Null} : RegisterCluster(h, c, n, m)
          \/ \E a \in BOOLEAN : UpdateCluster(h, c, a)
          \/ \E s \in Status \ {"registered"} : Heartbeat(h, c, s)
          \/ DeregisterCluster(h, c)
  BY DEF AskClusters
<1>2. ASSUME NEW n \in Names, NEW m \in Tenants \cup {Null}, RegisterCluster(h, c, n, m)
      PROVE  \E t : Begins(h, t)
  <2> DEFINE t == [kind |-> "register", cluster |-> c, name |-> n, tenant |-> m]
  <2>1. JobOK(t)
    BY DEF JobOK, UserStatements, ClusterStatements, Written
  <2>2. Begins(h, t)
    BY <1>2, <2>1 DEF RegisterCluster
  <2> QED
    BY <2>2
<1>3. ASSUME NEW a \in BOOLEAN, UpdateCluster(h, c, a)
      PROVE  \E t : Begins(h, t)
  <2> DEFINE t == [kind |-> "toggle", cluster |-> c, active |-> a]
  <2>1. JobOK(t)
    BY DEF JobOK, UserStatements, ClusterStatements, Written
  <2>2. Begins(h, t)
    BY <1>3, <2>1 DEF UpdateCluster
  <2> QED
    BY <2>2
<1>4. ASSUME NEW s \in Status, Heartbeat(h, c, s)
      PROVE  \E t : Begins(h, t)
  <2> DEFINE t == [kind |-> "heartbeat", cluster |-> c, status |-> s]
  <2>1. JobOK(t)
    BY DEF JobOK, UserStatements, ClusterStatements, Written
  <2>2. Begins(h, t)
    BY <1>4, <2>1 DEF Heartbeat
  <2> QED
    BY <2>2
<1>5. ASSUME DeregisterCluster(h, c)
      PROVE  \E t : Begins(h, t)
  <2> DEFINE t == [kind |-> "deregister", cluster |-> c]
  <2>1. JobOK(t)
    BY DEF JobOK, UserStatements, ClusterStatements, Written
  <2>2. Begins(h, t)
    BY <1>5, <2>1 DEF DeregisterCluster
  <2> QED
    BY <2>2
<1> QED
  BY <1>1, <1>2, <1>3, <1>4, <1>5

\* The first step of a request keeps the invariant.
LEMMA BeginStep ==
    ASSUME Inv, NEW h \in Handlers, NEW t, Begins(h, t)
    PROVE  Inv'
<1> USE DEF Begins
<1>1. /\ JobsOK'
      /\ handler'[h] = t
      /\ \A g \in Handlers \ {h} : handler'[g] = handler[g]
  BY HandlerStep DEF Inv
<1>2. Tables'
  BY AdministrationAssumption DEF Inv, Tables
<1>3. Grows
  BY DEF Grows
<1>4. AllKnown'
  <2> SUFFICES ASSUME NEW g \in Handlers PROVE Known(handler[g])'
    BY DEF AllKnown
  <2>1. PICK job : job = handler'[g]
    OBVIOUS
  <2>2. JobOK(job) /\ Known(job)
    BY <1>1, <2>1 DEF Inv, AllKnown, JobsOK
  <2>3. Known(job)'
    BY <1>3, <2>2, KnownGrows
  <2> QED
    BY <2>1, <2>3 DEF Known
<1>5. AllApart'
  BY <1>1 DEF Inv, AllApart, Apart
<1>6. ReferencesHold'
  BY DEF Inv, ReferencesHold
<1>7. AuditTrue'
  BY <1>3, AuditGrows DEF Inv
<1> QED
  BY <1>1, <1>2, <1>4, <1>5, <1>6, <1>7 DEF Inv

-----------------------------------------------------------------------------
\* The statements

\* What a statement does to the tables, and what is left of its request.
Commits(h, rest) ==
    /\ handler' = [handler EXCEPT ![h] = rest]
    /\ JobOK(rest)
    /\ rest.kind \in {"idle", "spaces", "audit"}
    /\ Known(rest)'
    /\ UNCHANGED <<drawn, served, audit>>
    /\ Tables'
    /\ Grows
    /\ ReferencesHold'
    /\ \A g \in Handlers \ {h} :
           /\ handler[g].kind = "create" => tenants'[handler[g].tenant] = NoEntry
           /\ handler[g].kind = "register" => clusters'[handler[g].cluster] = NoEntry

LEMMA CommitStep ==
    ASSUME Inv, NEW h \in Handlers, NEW rest, Commits(h, rest)
    PROVE  Inv'
<1>1. JobsOK' /\ AllKnown' /\ AllApart'
  BY JobsStep DEF Commits
<1>2. AuditTrue'
  BY AuditGrows DEF Inv, Commits
<1> QED
  BY <1>1, <1>2 DEF Inv, Commits

\* A row that UserWritten changes stays a row, of the same e-mail.
LEMMA UserWrittenType ==
    ASSUME NEW t, JobOK(t), t.kind \in UserStatements, NEW row \in UserRow \cup {NoEntry},
           t.kind # "remove" => row # NoEntry
    PROVE  /\ UserWritten(row, t) \in UserRow \cup {NoEntry}
           /\ row # NoEntry => UserWritten(row, t) \in UserRow
           /\ row = NoEntry => UserWritten(row, t) = NoEntry
<1>1. NoEntry \notin UserRow /\ Roles \subseteq Viewer..Admin
  BY AdministrationAssumption
<1>2. CASE t.kind = "update"
  <2>1. row \in UserRow
    BY <1>2
  <2>2. Given(t.role, row.role) \in Viewer..Admin
    BY <1>1, <1>2, <2>1 DEF Given, JobOK, UserRow
  <2>3. Given(t.active, row.active) \in BOOLEAN
    BY <1>2, <2>1 DEF Given, JobOK, UserRow
  <2>4. UserWritten(row, t) =
            [row EXCEPT !.role = Given(t.role, row.role), !.active = Given(t.active, row.active)]
    BY <1>2 DEF UserWritten
  <2>5. UserWritten(row, t) \in UserRow
    BY <2>1, <2>2, <2>3, <2>4 DEF UserRow
  <2> QED
    BY <1>1, <2>1, <2>5
<1>3. CASE t.kind = "deactivate"
  BY <1>1, <1>3 DEF UserWritten, UserRow
<1>4. CASE t.kind = "rotate"
  BY <1>1, <1>4 DEF UserWritten, UserRow, Rotated, JobOK
<1>5. CASE t.kind = "assign"
  BY <1>1, <1>5 DEF UserWritten, UserRow, JobOK
<1>6. CASE t.kind = "remove"
  BY <1>1, <1>6 DEF UserWritten, UserRow
<1> QED
  BY <1>2, <1>3, <1>4, <1>5, <1>6 DEF UserStatements

\* An audit row of a statement other than an insert claims nothing that matters.
LEMMA EntryOK ==
    ASSUME NEW event, NEW target
    PROVE  /\ JobOK(Entry(event, target))
           /\ Entry(event, target).kind = "audit"
           /\ Known(Entry(event, target)) <=> True(event, target)
  BY DEF Entry, JobOK, Known, Written, UserStatements, ClusterStatements

LEMMA CommitUserStep ==
    ASSUME Inv, NEW h \in Handlers, CommitUser(h)
    PROVE  \E rest : Commits(h, rest)
<1>1. PICK t : t = handler[h]
  OBVIOUS
<1>2. /\ JobOK(t) /\ Known(t) /\ t.kind \in UserStatements
      /\ t.user \in Users
  BY <1>1 DEF Inv, JobsOK, AllKnown, CommitUser, JobOK
<1>3. PICK rest : rest = Entry(t.kind, IF t.kind \in {"assign", "remove"} THEN t.tenant ELSE t.user)
  OBVIOUS
<1>4. /\ users' = [users EXCEPT ![t.user] = UserWritten(users[t.user], t)]
      /\ handler' = [handler EXCEPT ![h] = rest]
      /\ UNCHANGED <<tenants, spaces, clusters, audit, drawn, served>>
  BY <1>1, <1>3 DEF CommitUser, Then
<1>5. /\ users[t.user] \in UserRow \cup {NoEntry}
      /\ t.kind # "remove" => users[t.user] # NoEntry
  BY <1>2 DEF Inv, Tables, Known, UserStatements
<1>6. PICK row : row = UserWritten(users[t.user], t)
  OBVIOUS
<1>7. /\ row \in UserRow \cup {NoEntry}
      /\ users[t.user] # NoEntry => row \in UserRow
      /\ users[t.user] = NoEntry => row = NoEntry
  BY <1>2, <1>5, <1>6, UserWrittenType
<1>8. users' = [users EXCEPT ![t.user] = row]
  BY <1>4, <1>6
<1>9. Tables'
  BY <1>4, <1>7, <1>8 DEF Inv, Tables
<1>10. Grows
  BY <1>2, <1>4, <1>7, <1>8, AdministrationAssumption DEF Inv, Tables, Grows
<1>11. row # NoEntry => row.tenant = Null \/ tenants[row.tenant] # NoEntry
  <2>1. CASE t.kind = "assign"
    BY <1>2, <1>5, <1>6, <2>1 DEF UserWritten, Known, UserRow
  <2>2. CASE t.kind # "assign"
    <3>1. row # NoEntry => users[t.user] # NoEntry
      BY <1>7
    <3>2. row # NoEntry => row.tenant \in {Null, users[t.user].tenant}
      BY <1>2, <1>5, <1>6, <2>2, <3>1 DEF UserWritten, UserStatements, UserRow, Rotated
    <3> QED
      BY <1>2, <3>1, <3>2 DEF Inv, ReferencesHold
  <2> QED
    BY <2>1, <2>2
<1>12. ReferencesHold'
  BY <1>2, <1>4, <1>8, <1>11 DEF Inv, Tables, ReferencesHold
<1>13. JobOK(rest) /\ rest.kind = "audit"
  BY <1>3, EntryOK
<1>14. Known(rest)'
  BY <1>2, <1>3 DEF Entry, Known, True, UserStatements
<1>15. Commits(h, rest)
  BY <1>4, <1>9, <1>10, <1>12, <1>13, <1>14 DEF Commits, Inv, AllApart, Apart
<1> QED
  BY <1>15

LEMMA CommitInviteStep ==
    ASSUME Inv, NEW h \in Handlers, CommitInvite(h)
    PROVE  \E rest : Commits(h, rest)
<1>1. PICK t : t = handler[h]
  OBVIOUS
<1>2. JobOK(t) /\ t.kind = "invite" /\ t.user \in Users /\ t.row \in UserRow
  BY <1>1 DEF Inv, JobsOK, CommitInvite, JobOK
<1>3. PICK rest : rest = Entry("invite", t.user)
  OBVIOUS
<1>4. /\ users[t.user] = NoEntry
      /\ users' = [users EXCEPT ![t.user] = t.row]
      /\ handler' = [handler EXCEPT ![h] = rest]
      /\ UNCHANGED <<tenants, spaces, clusters, audit, drawn, served>>
  BY <1>1, <1>3 DEF CommitInvite, Then
<1>5. Tables'
  BY <1>2, <1>4 DEF Inv, Tables
<1>6. Grows
  BY <1>4 DEF Inv, Tables, Grows
<1>7. t.row # NoEntry
  BY <1>2, AdministrationAssumption
<1>8. JobOK(rest) /\ rest.kind = "audit"
  BY <1>3, EntryOK
<1>9. Known(rest)'
  BY <1>2, <1>3, <1>4, <1>7 DEF Inv, Tables, Entry, Known, True
<1>10. ReferencesHold'
  BY <1>2, <1>4 DEF Inv, Tables, ReferencesHold, JobOK
<1>11. Commits(h, rest)
  BY <1>4, <1>5, <1>6, <1>8, <1>9, <1>10 DEF Commits, Inv, AllApart, Apart
<1> QED
  BY <1>11

LEMMA CommitCreateStep ==
    ASSUME Inv, NEW h \in Handlers, CommitCreate(h)
    PROVE  \E rest : Commits(h, rest)
<1>1. PICK t : t = handler[h]
  OBVIOUS
<1>2. /\ JobOK(t) /\ t.kind = "create"
      /\ t.tenant \in Tenants /\ t.name \in Names /\ t.left \subseteq Namespaces
  BY <1>1 DEF Inv, JobsOK, CommitCreate, JobOK
<1>3. PICK rest : rest = AssignRest(t, t.left)
  OBVIOUS
<1>4. PICK row : row = [name |-> t.name, active |-> TRUE]
  OBVIOUS
<1>5. row \in TenantRow /\ row # NoEntry /\ row.name = t.name
  <2>1. row \in TenantRow /\ row.name = t.name
    BY <1>2, <1>4 DEF TenantRow
  <2> QED
    BY <2>1, AdministrationAssumption
<1>6. /\ tenants[t.tenant] = NoEntry
      /\ \A g \in Handlers \ {h} : handler[g].kind = "create" => handler[g].tenant # t.tenant
  BY <1>1, <1>2 DEF Inv, AllApart, Apart
<1>7. /\ tenants' = [tenants EXCEPT ![t.tenant] = row]
      /\ handler' = [handler EXCEPT ![h] = rest]
      /\ UNCHANGED <<users, spaces, clusters, audit, drawn, served>>
  BY <1>1, <1>3, <1>4 DEF CommitCreate, Then
<1>8. Tables'
  BY <1>2, <1>5, <1>7 DEF Inv, Tables
<1>9. Grows
  BY <1>6, <1>7 DEF Inv, Tables, Grows
<1>10. TenantNamed(t.name)' /\ tenants'[t.tenant] # NoEntry
  BY <1>2, <1>5, <1>7 DEF Inv, Tables, TenantNamed
<1>11. JobOK(rest) /\ Known(rest)' /\ rest.kind \in {"audit", "spaces"}
  <2>1. CASE t.left = {}
    <3>1. rest = Entry("create", t.name)
      BY <1>3, <2>1 DEF AssignRest
    <3>2. JobOK(rest) /\ rest.kind = "audit"
      BY <3>1, EntryOK
    <3>3. Known(rest)'
      BY <1>10, <3>1 DEF Entry, Known, True
    <3> QED
      BY <3>2, <3>3
  <2>2. CASE t.left # {}
    <3>1. rest = [kind |-> "spaces", tenant |-> t.tenant, name |-> t.name, left |-> t.left]
      BY <1>3, <2>2 DEF AssignRest
    <3>2. JobOK(rest)
      BY <1>2, <3>1 DEF JobOK, Written, UserStatements, ClusterStatements
    <3>3. Known(rest)'
      BY <1>10, <3>1 DEF Known
    <3> QED
      BY <3>1, <3>2, <3>3
  <2> QED
    BY <2>1, <2>2
<1>12. ReferencesHold'
  BY <1>7, <1>9 DEF Inv, Tables, ReferencesHold, Grows, UserRow
<1>13. \A g \in Handlers \ {h} :
          /\ handler[g].kind = "create" => tenants'[handler[g].tenant] = NoEntry
          /\ handler[g].kind = "register" => clusters'[handler[g].cluster] = NoEntry
  BY <1>6, <1>7 DEF Inv, Tables, JobsOK, JobOK, AllApart, Apart
<1>14. Commits(h, rest)
  BY <1>7, <1>8, <1>9, <1>11, <1>12, <1>13 DEF Commits
<1> QED
  BY <1>14

\* Steps that only change spaces.
LEMMA SpacesStep ==
    ASSUME Inv, NEW h \in Handlers, NEW rest, JobOK(rest), Known(rest),
           rest.kind \in {"spaces", "audit"},
           NEW more, more \subseteq Tenants \X Namespaces,
           \A s \in more : tenants[s[1]] # NoEntry,
           spaces' \subseteq spaces \cup more,
           handler' = [handler EXCEPT ![h] = rest],
           UNCHANGED <<users, tenants, clusters, audit, drawn, served>>
    PROVE  Commits(h, rest)
<1>1. Tables'
  BY DEF Inv, Tables
<1>2. Grows
  BY DEF Grows
<1>3. ReferencesHold'
  BY DEF Inv, ReferencesHold
<1>4. Known(rest)'
  BY <1>2, KnownGrows
<1> QED
  BY <1>1, <1>2, <1>3, <1>4 DEF Commits, Inv, AllApart, Apart

LEMMA CommitSpaceStep ==
    ASSUME Inv, NEW h \in Handlers, CommitSpace(h)
    PROVE  \E rest : Commits(h, rest)
<1>1. PICK t : t = handler[h]
  OBVIOUS
<1>2. /\ Known(t) /\ t.kind = "spaces"
      /\ t.tenant \in Tenants /\ t.name \in Names /\ t.left \subseteq Namespaces
  BY <1>1 DEF Inv, JobsOK, AllKnown, CommitSpace, JobOK
<1>3. tenants[t.tenant] # NoEntry /\ TenantNamed(t.name)
  BY <1>2 DEF Known
<1>4. PICK n \in t.left :
          /\ spaces' = spaces \cup {<<t.tenant, n>>}
          /\ handler' = [handler EXCEPT ![h] = AssignRest(t, t.left \ {n})]
          /\ UNCHANGED <<users, tenants, clusters, audit, drawn, served>>
  BY <1>1 DEF CommitSpace, Then
<1>5. PICK rest : rest = AssignRest(t, t.left \ {n})
  OBVIOUS
<1>6. JobOK(rest) /\ Known(rest) /\ rest.kind \in {"audit", "spaces"}
  <2>1. CASE t.left \ {n} = {}
    <3>1. rest = Entry("create", t.name)
      BY <1>5, <2>1 DEF AssignRest
    <3> QED
      BY <1>3, <3>1, EntryOK DEF True
  <2>2. CASE t.left \ {n} # {}
    <3>1. rest = [kind |-> "spaces", tenant |-> t.tenant, name |-> t.name, left |-> t.left \ {n}]
      BY <1>5, <2>2 DEF AssignRest
    <3>2. JobOK(rest)
      BY <1>2, <3>1 DEF JobOK, Written, UserStatements, ClusterStatements
    <3>3. Known(rest)
      BY <1>3, <3>1 DEF Known
    <3> QED
      BY <3>1, <3>2, <3>3
  <2> QED
    BY <2>1, <2>2
<1>7. Commits(h, rest)
  <2> DEFINE more == {<<t.tenant, n>>}
  <2>1. more \subseteq Tenants \X Namespaces /\ \A s \in more : tenants[s[1]] # NoEntry
    BY <1>2, <1>3
  <2>2. handler' = [handler EXCEPT ![h] = rest] /\ spaces' \subseteq spaces \cup more
    BY <1>4, <1>5
  <2> HIDE DEF more
  <2> QED
    BY <1>4, <1>6, <2>1, <2>2, SpacesStep
<1> QED
  BY <1>7

LEMMA CommitAddStep ==
    ASSUME Inv, NEW h \in Handlers, CommitAdd(h)
    PROVE  \E rest : Commits(h, rest)
<1>1. PICK t : t = handler[h]
  OBVIOUS
<1>2. t.kind = "add" /\ t.tenant \in Tenants /\ t.space \in Namespaces /\ tenants[t.tenant] # NoEntry
  BY <1>1 DEF Inv, JobsOK, AllKnown, CommitAdd, JobOK, Known
<1>3. PICK rest : rest = Entry("add", t.tenant)
  OBVIOUS
<1>4. /\ spaces' = spaces \cup {<<t.tenant, t.space>>}
      /\ handler' = [handler EXCEPT ![h] = rest]
      /\ UNCHANGED <<users, tenants, clusters, audit, drawn, served>>
  BY <1>1, <1>3 DEF CommitAdd, Then
<1>5. JobOK(rest) /\ Known(rest) /\ rest.kind = "audit"
  BY <1>3, EntryOK DEF True
<1>6. Commits(h, rest)
  <2> DEFINE more == {<<t.tenant, t.space>>}
  <2>1. more \subseteq Tenants \X Namespaces /\ \A s \in more : tenants[s[1]] # NoEntry
    BY <1>2
  <2>2. spaces' \subseteq spaces \cup more
    BY <1>4
  <2> HIDE DEF more
  <2> QED
    BY <1>4, <1>5, <2>1, <2>2, SpacesStep
<1> QED
  BY <1>6

LEMMA CommitDropStep ==
    ASSUME Inv, NEW h \in Handlers, CommitDrop(h)
    PROVE  \E rest : Commits(h, rest)
<1>1. PICK t : t = handler[h]
  OBVIOUS
<1>2. PICK rest : rest = Entry("drop", t.tenant)
  OBVIOUS
<1>3. /\ spaces' \subseteq spaces
      /\ handler' = [handler EXCEPT ![h] = rest]
      /\ UNCHANGED <<users, tenants, clusters, audit, drawn, served>>
  BY <1>1, <1>2 DEF CommitDrop, Then
<1>4. JobOK(rest) /\ Known(rest) /\ rest.kind = "audit"
  BY <1>2, EntryOK DEF True
<1>5. Commits(h, rest)
  <2>1. PICK more : more = {}
    OBVIOUS
  <2>2. /\ more \subseteq Tenants \X Namespaces
        /\ \A s \in more : tenants[s[1]] # NoEntry
        /\ spaces' \subseteq spaces \cup more
    BY <1>3, <2>1
  <2> QED
    BY <1>3, <1>4, <2>2, SpacesStep
<1> QED
  BY <1>5

LEMMA CommitTenantStep ==
    ASSUME Inv, NEW h \in Handlers, CommitTenant(h)
    PROVE  \E rest : Commits(h, rest)
<1>1. PICK t : t = handler[h]
  OBVIOUS
<1>2. /\ t.kind = "switch" /\ t.tenant \in Tenants /\ t.active \in BOOLEAN
      /\ tenants[t.tenant] # NoEntry
  BY <1>1 DEF Inv, JobsOK, AllKnown, CommitTenant, JobOK, Known
<1>3. PICK rest : rest = Entry("switch", t.tenant)
  OBVIOUS
<1>4. PICK row : row = [tenants[t.tenant] EXCEPT !.active = t.active]
  OBVIOUS
<1>5. tenants[t.tenant] \in TenantRow
  BY <1>2 DEF Inv, Tables
<1>6. row \in TenantRow /\ row # NoEntry /\ row.name = tenants[t.tenant].name
  BY <1>2, <1>4, <1>5, AdministrationAssumption DEF TenantRow
<1>7. /\ tenants' = [tenants EXCEPT ![t.tenant] = row]
      /\ handler' = [handler EXCEPT ![h] = rest]
      /\ UNCHANGED <<users, spaces, clusters, audit, drawn, served>>
  BY <1>1, <1>3, <1>4, <1>2 DEF CommitTenant, Then, Inv, Tables
<1>8. Tables'
  BY <1>2, <1>6, <1>7 DEF Inv, Tables
<1>9. Grows
  BY <1>6, <1>7 DEF Inv, Tables, Grows
<1>10. JobOK(rest) /\ rest.kind = "audit"
  BY <1>3, EntryOK
<1>11. Known(rest)'
  BY <1>3 DEF Entry, Known, True
<1>12. ReferencesHold'
  BY <1>7, <1>9 DEF Inv, Tables, ReferencesHold, Grows, UserRow
<1>13. \A g \in Handlers \ {h} :
          /\ handler[g].kind = "create" => tenants'[handler[g].tenant] = NoEntry
          /\ handler[g].kind = "register" => clusters'[handler[g].cluster] = NoEntry
  BY <1>2, <1>7 DEF Inv, Tables, JobsOK, JobOK, AllApart, Apart
<1>14. Commits(h, rest)
  BY <1>7, <1>8, <1>9, <1>10, <1>11, <1>12, <1>13 DEF Commits
<1> QED
  BY <1>14

LEMMA CommitRegisterStep ==
    ASSUME Inv, NEW h \in Handlers, CommitRegister(h)
    PROVE  \E rest : Commits(h, rest)
<1>1. PICK t : t = handler[h]
  OBVIOUS
<1>2. t.kind = "register" /\ t.cluster \in Clusters /\ t.name \in Names
      /\ t.tenant \in Tenants \cup {Null}
  BY <1>1 DEF Inv, JobsOK, CommitRegister, JobOK
<1>3. PICK rest : rest = Entry("register", t.name)
  OBVIOUS
<1>4. PICK row : row = [name |-> t.name, active |-> TRUE, status |-> "registered",
                     tenant |-> t.tenant]
  OBVIOUS
<1>5. row \in ClusterRow /\ row # NoEntry /\ row.name = t.name
  <2>1. row \in ClusterRow /\ row.name = t.name
    BY <1>2, <1>4 DEF ClusterRow, Status
  <2> QED
    BY <2>1, AdministrationAssumption
<1>6. /\ clusters[t.cluster] = NoEntry
      /\ \A g \in Handlers \ {h} :
             handler[g].kind = "register" => handler[g].cluster # t.cluster
  BY <1>1, <1>2 DEF Inv, AllApart, Apart
<1>7. /\ clusters' = [clusters EXCEPT ![t.cluster] = row]
      /\ handler' = [handler EXCEPT ![h] = rest]
      /\ UNCHANGED <<users, tenants, spaces, audit, drawn, served>>
  BY <1>1, <1>3, <1>4 DEF CommitRegister, Then
<1>8. Tables'
  BY <1>2, <1>5, <1>7 DEF Inv, Tables
<1>9. Grows
  BY <1>6, <1>7 DEF Inv, Tables, Grows
<1>10. JobOK(rest) /\ rest.kind = "audit"
  BY <1>3, EntryOK
<1>11. Known(rest)'
  BY <1>2, <1>3, <1>5, <1>7 DEF Inv, Tables, Entry, Known, True, ClusterNamed
<1>12. ReferencesHold'
  BY <1>7 DEF Inv, ReferencesHold
<1>13. \A g \in Handlers \ {h} :
          /\ handler[g].kind = "create" => tenants'[handler[g].tenant] = NoEntry
          /\ handler[g].kind = "register" => clusters'[handler[g].cluster] = NoEntry
  BY <1>6, <1>7 DEF Inv, Tables, JobsOK, JobOK, AllApart, Apart
<1>14. Commits(h, rest)
  BY <1>7, <1>8, <1>9, <1>10, <1>11, <1>12, <1>13 DEF Commits
<1> QED
  BY <1>14

\* A row that ClusterWritten changes stays a row, of the same name.
LEMMA ClusterWrittenType ==
    ASSUME NEW t, JobOK(t), t.kind \in ClusterStatements, NEW row \in ClusterRow \cup {NoEntry},
           t.kind # "deregister" => row # NoEntry
    PROVE  /\ ClusterWritten(row, t) \in ClusterRow \cup {NoEntry}
           /\ row # NoEntry => /\ ClusterWritten(row, t) \in ClusterRow
                             /\ ClusterWritten(row, t).name = row.name
           /\ row = NoEntry => ClusterWritten(row, t) = NoEntry
<1>1. NoEntry \notin ClusterRow
  BY AdministrationAssumption
<1>2. CASE t.kind = "toggle"
  BY <1>1, <1>2 DEF ClusterWritten, ClusterRow, JobOK
<1>3. CASE t.kind = "heartbeat"
  BY <1>1, <1>3 DEF ClusterWritten, ClusterRow, JobOK
<1>4. CASE t.kind = "deregister"
  BY <1>1, <1>4 DEF ClusterWritten, ClusterRow, Status
<1> QED
  BY <1>2, <1>3, <1>4 DEF ClusterStatements

LEMMA CommitClusterStep ==
    ASSUME Inv, NEW h \in Handlers, CommitCluster(h)
    PROVE  \E rest : Commits(h, rest)
<1>1. PICK t : t = handler[h]
  OBVIOUS
<1>2. JobOK(t) /\ Known(t) /\ t.kind \in ClusterStatements /\ t.cluster \in Clusters
  BY <1>1 DEF Inv, JobsOK, AllKnown, CommitCluster, JobOK
<1>3. PICK rest : rest = IF t.kind = "heartbeat" THEN Idle ELSE Entry(t.kind, t.cluster)
  OBVIOUS
<1>4. PICK row : row = ClusterWritten(clusters[t.cluster], t)
  OBVIOUS
<1>5. /\ clusters[t.cluster] \in ClusterRow \cup {NoEntry}
      /\ t.kind # "deregister" => clusters[t.cluster] # NoEntry
  BY <1>2 DEF Inv, Tables, Known, ClusterStatements
<1>6. /\ row \in ClusterRow \cup {NoEntry}
      /\ clusters[t.cluster] # NoEntry => row # NoEntry /\ row.name = clusters[t.cluster].name
      /\ clusters[t.cluster] = NoEntry => row = NoEntry
  <2>1. NoEntry \notin ClusterRow
    BY AdministrationAssumption
  <2> QED
    BY <1>2, <1>4, <1>5, <2>1, ClusterWrittenType
<1>7. /\ clusters' = [clusters EXCEPT ![t.cluster] = row]
      /\ handler' = [handler EXCEPT ![h] = rest]
      /\ UNCHANGED <<users, tenants, spaces, audit, drawn, served>>
  BY <1>1, <1>3, <1>4, <1>2 DEF CommitCluster, Then, Inv, Tables
<1>8. Tables'
  BY <1>2, <1>6, <1>7 DEF Inv, Tables
<1>9. Grows
  BY <1>6, <1>7 DEF Inv, Tables, Grows
<1>10. JobOK(rest) /\ rest.kind \in {"idle", "audit"}
  <2>1. JobOK(Idle) /\ Idle.kind = "idle"
    BY DEF Idle, JobOK, Written, UserStatements, ClusterStatements
  <2> QED
    BY <1>3, <2>1, EntryOK
<1>11. Known(rest)'
  BY <1>2, <1>3 DEF Entry, Idle, Known, True, ClusterStatements
<1>12. ReferencesHold'
  BY <1>7 DEF Inv, ReferencesHold
<1>13. \A g \in Handlers \ {h} :
          /\ handler[g].kind = "create" => tenants'[handler[g].tenant] = NoEntry
          /\ handler[g].kind = "register" => clusters'[handler[g].cluster] = NoEntry
  BY <1>6, <1>7 DEF Inv, Tables, JobsOK, JobOK, AllApart, Apart
<1>14. Commits(h, rest)
  BY <1>7, <1>8, <1>9, <1>10, <1>11, <1>12, <1>13 DEF Commits
<1> QED
  BY <1>14

LEMMA StatementStep ==
    ASSUME Inv, NEW h \in Handlers, Statement(h)
    PROVE  \E rest : Commits(h, rest)
  BY CommitUserStep, CommitInviteStep, CommitCreateStep, CommitSpaceStep, CommitTenantStep,
     CommitAddStep, CommitDropStep, CommitRegisterStep, CommitClusterStep DEF Statement

\* An audit row is written, or a request is given up: the tables are as they were.
LEMMA EndStep ==
    ASSUME Inv, NEW h \in Handlers, WriteAudit(h) \/ Fail(h)
    PROVE  Inv' /\ Grows
<1>1. /\ handler' = [handler EXCEPT ![h] = Idle]
      /\ UNCHANGED <<users, tenants, spaces, clusters, drawn, served>>
  BY DEF WriteAudit, Fail, Then
<1>2. Grows
  BY <1>1 DEF Grows
<1>3. JobOK(Idle) /\ Known(Idle)' /\ Idle.kind = "idle"
  BY DEF Idle, JobOK, Known, Written, UserStatements, ClusterStatements
<1>4. PICK rest : rest = Idle
  OBVIOUS
<1>5. JobOK(rest) /\ Known(rest)' /\ rest.kind = "idle"
  BY <1>3, <1>4 DEF Known
<1>6. JobsOK' /\ AllKnown' /\ AllApart'
  BY <1>1, <1>2, <1>4, <1>5, JobsStep DEF Inv, AllApart, Apart
<1>7. Tables' /\ ReferencesHold'
  BY <1>1 DEF Inv, Tables, ReferencesHold
<1>8. AuditTrue'
  <2>1. \A event, target : True(event, target) => True(event, target)'
    BY <1>1 DEF True, TenantNamed, ClusterNamed
  <2>2. CASE WriteAudit(h)
    <3>1. handler[h].kind = "audit" => True(handler[h].event, handler[h].target)
      BY DEF Inv, AllKnown, Known
    <3> QED
      BY <2>1, <2>2, <3>1 DEF WriteAudit, Inv, AuditTrue
  <2>3. CASE Fail(h)
    BY <2>1, <2>3 DEF Fail, Inv, AuditTrue
  <2> QED
    BY <2>2, <2>3
<1> QED
  BY <1>2, <1>6, <1>7, <1>8 DEF Inv

-----------------------------------------------------------------------------
\* The theorems

LEMMA InitInv == AdminInit => Inv
<1> SUFFICES ASSUME AdminInit PROVE Inv
  OBVIOUS
<1> USE DEF AdminInit
<1>1. Tables
  <2>1. users \in [Users -> UserRow \cup {NoEntry}]
    BY AdministrationAssumption
  <2>2. \A u \in Users : users[u] # NoEntry => users[u].key \in KeyHashes \cup {Revoked}
    BY <2>1 DEF UserRow
  <2>3. drawn \subseteq KeyHashes
    BY <2>2
  <2> QED
    BY <2>1, <2>3, AdministrationAssumption DEF Tables
<1>2. JobsOK
  BY DEF JobsOK, JobOK, Idle, Written, UserStatements, ClusterStatements
<1>3. AllKnown /\ AllApart
  BY DEF AllKnown, Known, AllApart, Apart, Idle
<1>4. ReferencesHold
  BY SeedAssumption DEF ReferencesHold
<1>5. AuditTrue
  BY DEF AuditTrue
<1> QED
  BY <1>1, <1>2, <1>3, <1>4, <1>5 DEF Inv

\* Every step begins a request, commits one statement of it, or ends it.
LEMMA StepKinds ==
    ASSUME Inv, AdminNext
    PROVE  \E h \in Handlers :
               \/ \E t : Begins(h, t)
               \/ Statement(h) /\ \E rest : Commits(h, rest)
               \/ WriteAudit(h) \/ Fail(h)
<1>1. PICK h \in Handlers : \/ AskUsers(h) \/ AskTenants(h) \/ AskClusters(h)
                           \/ Statement(h) \/ WriteAudit(h) \/ Fail(h)
  BY DEF AdminNext
<1> QED
  BY <1>1, AskUsersBegins, AskTenantsBegins, AskClustersBegins, StatementStep

LEMMA NextInv == Inv /\ [AdminNext]_adminVars => Inv'
<1> SUFFICES ASSUME Inv, [AdminNext]_adminVars PROVE Inv'
  OBVIOUS
<1>1. CASE AdminNext
  BY <1>1, StepKinds, BeginStep, CommitStep, EndStep
<1>2. CASE UNCHANGED adminVars
  BY <1>2 DEF adminVars, Inv, Tables, JobsOK, AllKnown, Known, AllApart, Apart, ReferencesHold,
              AuditTrue, True, TenantNamed, ClusterNamed
<1> QED
  BY <1>1, <1>2

\* The inductive invariant of Administration.
THEOREM Invariance == AdminSpec => []Inv
  BY InitInv, NextInv, PTL DEF AdminSpec

\* The tables hold rows of their columns, and every thread a known kind of job.
THEOREM TypeCorrect == AdminSpec => []AdminTypeOK
<1>1. Inv => AdminTypeOK
  BY DEF Inv, Tables, JobsOK, JobOK, AdminTypeOK
<1> QED
  BY <1>1, Invariance, PTL

\* No namespace and no user is ever of a tenant that does not exist.
THEOREM ReferencesAreKept == AdminSpec => []ReferencesHold
<1>1. Inv => ReferencesHold
  BY DEF Inv
<1> QED
  BY <1>1, Invariance, PTL

\* The audit log never claims an insert that did not happen.
THEOREM AuditIsTrue == AdminSpec => []AuditTellsTheTruth
<1>1. Inv => AuditTellsTheTruth
  BY DEF Inv, AuditTrue, True, TenantNamed, ClusterNamed, AuditTellsTheTruth
<1> QED
  BY <1>1, Invariance, PTL

-----------------------------------------------------------------------------
\* KeyHashes

\* A statement gives no row a key that is dead.
LEMMA StatementKeys ==
    ASSUME Inv, NEW h \in Handlers, Statement(h), NEW k \in KeyHashes, Dead(k), NEW u \in Users,
           users'[u] # NoEntry
    PROVE  users'[u].key # k
<1>1. PICK t : t = handler[h]
  OBVIOUS
<1>2. /\ JobOK(t) /\ Known(t)
      /\ t.kind = "invite" => t.row.key # k
      /\ t.kind = "rotate" => t.key # k
  BY <1>1 DEF Inv, JobsOK, AllKnown, Dead
<1>3. k # Revoked
  BY AdministrationAssumption
<1>4. users[u] # NoEntry => users[u].key # k
  BY DEF Dead
<1>5. CASE UNCHANGED users
  BY <1>4, <1>5
<1>6. CASE CommitInvite(h)
  BY <1>1, <1>2, <1>4, <1>6 DEF CommitInvite, Inv, Tables
<1>7. CASE CommitUser(h)
  <2>1. /\ t.kind \in UserStatements /\ t.user \in Users
        /\ users' = [users EXCEPT ![t.user] = UserWritten(users[t.user], t)]
    BY <1>1, <1>2, <1>7 DEF CommitUser, JobOK
  <2>2. CASE u # t.user
    BY <1>4, <2>1, <2>2 DEF Inv, Tables
  <2>3. CASE u = t.user
    <3>1. /\ users[u] \in UserRow \cup {NoEntry}
          /\ t.kind # "remove" => users[u] # NoEntry
      BY <1>2, <2>1, <2>3 DEF Inv, Tables, Known, UserStatements
    <3>2. users'[u] = UserWritten(users[u], t)
      BY <2>1, <2>3 DEF Inv, Tables
    <3>3. users[u] # NoEntry
      BY <1>2, <2>1, <3>1, <3>2, UserWrittenType
    <3>4. users[u] \in UserRow /\ users[u].key # k
      BY <1>4, <3>1, <3>3
    <3>5. UserWritten(users[u], t).key \in {users[u].key, Revoked}
              \cup (IF t.kind = "rotate" THEN {t.key} ELSE {})
      BY <2>1, <3>3, <3>4 DEF UserWritten, UserStatements, UserRow, Rotated
    <3> QED
      BY <1>2, <1>3, <3>2, <3>4, <3>5
  <2> QED
    BY <2>2, <2>3
<1> QED
  BY <1>5, <1>6, <1>7 DEF Statement, CommitCreate, CommitSpace, CommitTenant, CommitAdd, CommitDrop,
                          CommitRegister, CommitCluster

LEMMA DeadStep ==
    ASSUME Inv, [AdminNext]_adminVars, NEW k \in KeyHashes, Dead(k)
    PROVE  Dead(k)'
<1>1. CASE UNCHANGED adminVars
  BY <1>1 DEF adminVars, Dead
<1>2. CASE AdminNext
  <2>1. PICK h \in Handlers : \/ \E t : Begins(h, t)
                              \/ Statement(h) /\ \E rest : Commits(h, rest)
                              \/ WriteAudit(h) \/ Fail(h)
    BY <1>2, StepKinds
  <2>2. ASSUME NEW t, Begins(h, t)
        PROVE  Dead(k)'
    BY <2>2 DEF Begins, Dead, Inv, JobsOK
  <2>3. ASSUME Statement(h), NEW rest, Commits(h, rest)
        PROVE  Dead(k)'
    <3>1. \A u \in Users : users'[u] # NoEntry => users'[u].key # k
      BY <2>3, StatementKeys
    <3> QED
      BY <2>3, <3>1 DEF Commits, Dead, Inv, JobsOK
  <2>4. ASSUME WriteAudit(h) \/ Fail(h)
        PROVE  Dead(k)'
    BY <2>4 DEF WriteAudit, Fail, Then, Dead, Inv, JobsOK, Idle
  <2> QED
    BY <2>1, <2>2, <2>3, <2>4
<1> QED
  BY <1>1, <1>2

\* A key that was rotated away or revoked never authenticates again.
THEOREM DeadKeysAreDead == AdminSpec => DeadKeysStayDead
<1>1. Inv /\ [AdminNext]_adminVars => \A k \in KeyHashes : Dead(k) => Dead(k)'
  BY DeadStep
<1> QED
  BY <1>1, Invariance, PTL DEF AdminSpec, DeadKeysStayDead

-----------------------------------------------------------------------------
\* Deactivation

\* What a statement must be to turn a row on.
LEMMA StatementActive ==
    ASSUME Inv, NEW h \in Handlers, Statement(h), NEW t, t = handler[h]
    PROVE  /\ \A u \in Users : users[u] # NoEntry /\ ~users[u].active /\ users'[u].active
               => t.kind = "update" /\ t.user = u /\ t.active = TRUE
           /\ \A v \in Tenants : tenants[v] # NoEntry /\ ~tenants[v].active /\ tenants'[v].active
               => t.kind = "switch" /\ t.tenant = v /\ t.active = TRUE
           /\ \A c \in Clusters : clusters[c] # NoEntry /\ ~clusters[c].active /\ clusters'[c].active
               => t.kind = "toggle" /\ t.cluster = c /\ t.active = TRUE
<1>1. JobOK(t) /\ Known(t)
  BY DEF Inv, JobsOK, AllKnown
<1>2. ASSUME NEW u \in Users, users[u] # NoEntry, ~users[u].active, users'[u].active
      PROVE  t.kind = "update" /\ t.user = u /\ t.active = TRUE
  <2>1. users[u] \in UserRow
    BY <1>2 DEF Inv, Tables
  <2>2. CommitUser(h)
    BY <1>2 DEF Statement, CommitInvite, CommitCreate, CommitSpace, CommitTenant, CommitAdd,
                CommitDrop, CommitRegister, CommitCluster, Inv, Tables, JobsOK, JobOK
  <2>3. /\ t.kind \in UserStatements /\ t.user \in Users
        /\ users' = [users EXCEPT ![t.user] = UserWritten(users[t.user], t)]
    BY <1>1, <2>2 DEF CommitUser, JobOK
  <2>4. u = t.user
    BY <1>2, <2>3 DEF Inv, Tables
  <2>5. users'[u] = UserWritten(users[u], t)
    BY <2>3, <2>4 DEF Inv, Tables
  <2>6. t.kind # "update" => UserWritten(users[u], t).active \in {FALSE, users[u].active}
    BY <1>2, <2>1, <2>3 DEF UserWritten, UserStatements, UserRow, Rotated
  <2>7. t.kind = "update"
    BY <1>2, <2>5, <2>6
  <2>8. users'[u].active = Given(t.active, users[u].active)
    BY <2>1, <2>5, <2>7 DEF UserWritten, UserRow
  <2>9. t.active \in BOOLEAN \cup {Null}
    BY <1>1, <2>7 DEF JobOK
  <2>10. t.active # Null
    BY <1>2, <2>8 DEF Given
  <2>11. t.active = TRUE
    BY <1>2, <2>8, <2>9, <2>10 DEF Given
  <2> QED
    BY <2>4, <2>7, <2>11
<1>3. ASSUME NEW v \in Tenants, tenants[v] # NoEntry, ~tenants[v].active, tenants'[v].active
      PROVE  t.kind = "switch" /\ t.tenant = v /\ t.active = TRUE
  <2>1. tenants[v] \in TenantRow
    BY <1>3 DEF Inv, Tables
  <2>2. ~CommitCreate(h)
    BY <1>3 DEF CommitCreate, Inv, Tables, JobsOK, JobOK, AllApart, Apart
  <2>3. CommitTenant(h)
    BY <1>3, <2>2 DEF Statement, CommitUser, CommitInvite, CommitSpace, CommitAdd,
                CommitDrop, CommitRegister, CommitCluster
  <2>4. /\ t.kind = "switch" /\ t.tenant \in Tenants /\ t.active \in BOOLEAN
        /\ tenants' = [tenants EXCEPT ![t.tenant].active = t.active]
    BY <1>1, <2>3 DEF CommitTenant, JobOK
  <2>5. v = t.tenant
    BY <1>3, <2>4 DEF Inv, Tables
  <2>6. tenants'[v].active = t.active
    BY <2>1, <2>4, <2>5 DEF Inv, Tables, TenantRow
  <2> QED
    BY <1>3, <2>4, <2>5, <2>6
<1>4. ASSUME NEW c \in Clusters, clusters[c] # NoEntry, ~clusters[c].active, clusters'[c].active
      PROVE  t.kind = "toggle" /\ t.cluster = c /\ t.active = TRUE
  <2>1. clusters[c] \in ClusterRow
    BY <1>4 DEF Inv, Tables
  <2>2. ~CommitRegister(h)
    BY <1>4 DEF CommitRegister, Inv, Tables, JobsOK, JobOK, AllApart, Apart
  <2>3. CommitCluster(h)
    BY <1>4, <2>2 DEF Statement, CommitUser, CommitInvite, CommitCreate, CommitSpace, CommitTenant,
                CommitAdd, CommitDrop
  <2>4. /\ t.kind \in ClusterStatements /\ t.cluster \in Clusters
        /\ clusters' = [clusters EXCEPT ![t.cluster] = ClusterWritten(clusters[t.cluster], t)]
    BY <1>1, <2>3 DEF CommitCluster, JobOK
  <2>5. c = t.cluster
    BY <1>4, <2>4 DEF Inv, Tables
  <2>6. clusters'[c] = ClusterWritten(clusters[c], t)
    BY <2>4, <2>5 DEF Inv, Tables
  <2>7. t.kind # "toggle" => ClusterWritten(clusters[c], t).active \in {FALSE, clusters[c].active}
    BY <1>4, <2>1, <2>4 DEF ClusterWritten, ClusterStatements, ClusterRow
  <2>8. t.kind = "toggle"
    BY <1>4, <2>6, <2>7
  <2>9. clusters'[c].active = t.active /\ t.active \in BOOLEAN
    BY <1>1, <2>1, <2>6, <2>8 DEF ClusterWritten, ClusterRow, JobOK
  <2> QED
    BY <1>4, <2>5, <2>8, <2>9
<1> QED
  BY <1>2, <1>3, <1>4

\* Nothing but a request that says so makes a deactivated user, tenant or
\* cluster active again.
THEOREM InactiveIsKept == AdminSpec => InactiveStaysInactive
<1> DEFINE Kept == /\ \A u \in Users :
                          users[u] # NoEntry /\ ~users[u].active /\ users'[u].active
                          => \E h \in Handlers : Reactivates(handler[h], "update")
                                              /\ handler[h].user = u
                   /\ \A v \in Tenants :
                          tenants[v] # NoEntry /\ ~tenants[v].active /\ tenants'[v].active
                          => \E h \in Handlers : Reactivates(handler[h], "switch")
                                              /\ handler[h].tenant = v
                   /\ \A c \in Clusters :
                          clusters[c] # NoEntry /\ ~clusters[c].active /\ clusters'[c].active
                          => \E h \in Handlers : Reactivates(handler[h], "toggle")
                                              /\ handler[h].cluster = c
<1>1. ASSUME Inv, AdminNext PROVE Kept
  <2>1. PICK h \in Handlers : \/ \E t : Begins(h, t)
                              \/ Statement(h)
                              \/ WriteAudit(h) \/ Fail(h)
    BY <1>1, StepKinds
  <2>2. CASE Statement(h)
    <3>1. PICK t : t = handler[h]
      OBVIOUS
    <3>2. ASSUME NEW u \in Users, users[u] # NoEntry, ~users[u].active, users'[u].active
          PROVE  t.kind = "update" /\ t.user = u /\ t.active = TRUE
      BY <1>1, <2>2, <3>1, <3>2, StatementActive
    <3>3. ASSUME NEW v \in Tenants, tenants[v] # NoEntry, ~tenants[v].active, tenants'[v].active
          PROVE  t.kind = "switch" /\ t.tenant = v /\ t.active = TRUE
      BY <1>1, <2>2, <3>1, <3>3, StatementActive
    <3>4. ASSUME NEW c \in Clusters, clusters[c] # NoEntry, ~clusters[c].active,
                 clusters'[c].active
          PROVE  t.kind = "toggle" /\ t.cluster = c /\ t.active = TRUE
      BY <1>1, <2>2, <3>1, <3>4, StatementActive
    <3> QED
      BY <3>1, <3>2, <3>3, <3>4 DEF Reactivates
  <2>3. CASE UNCHANGED <<users, tenants, clusters>>
    BY <2>3
  <2> QED
    BY <2>1, <2>2, <2>3 DEF Begins, WriteAudit, Fail
<1>2. Inv /\ [AdminNext]_adminVars => [Kept]_adminVars
  BY <1>1
<1> QED
  BY <1>2, Invariance, PTL DEF AdminSpec, InactiveStaysInactive
=============================================================================
