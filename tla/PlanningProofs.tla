--------------------------- MODULE PlanningProofs ---------------------------
(***************************************************************************)
(* Proofs about the approval engine, for every number of processes,        *)
(* approvals and plans, and for an unbounded clock; and about the backend  *)
(* that plans and asks for approvals, in which the engine is embedded.     *)
(***************************************************************************)
EXTENDS Planning, TLAPS

LEMMA IdleIsNoWork == Idle.kind \notin {"insert"} \cup Decided
BY DEF Idle, Decided

LEMMA NoRowIsRow == NoRow \in Row
BY DEF NoRow, Row, Unset

LEMMA UpdatedIsRow ==
    ASSUME NEW r \in Row, NEW k \in Decided, NEW t \in Nat
    PROVE  Updated(r, k, t) \in Row
<1>1. CASE k = "rejected"
  BY <1>1 DEF Updated, Row, Decided
<1>2. CASE k # "rejected"
  BY <1>2 DEF Updated, Row, Decided
<1>3. QED
  BY <1>1, <1>2

\* A pending write names one of the ids, and a plan and a time if it inserts.
LEMMA TaskFields ==
    ASSUME TypeOK, NEW w \in Workers
    PROVE  /\ task[w].kind = "insert" => task[w] \in Insertion
           /\ task[w].kind \in Decided => task[w] \in Decision
           /\ task[w].kind \in {"insert"} \cup Decided => task[w].id \in Ids
BY DEF TypeOK, Task, Insertion, Decision, Idle, Decided

\* What one handler's step does to the type invariant.
LEMMA ServeType ==
    ASSUME TypeOK, NEW w \in Workers, Serve(w)
    PROVE  TypeOK'
<1> USE ApprovalAssumption DEF TypeOK, Task, Decided
<1>1. ASSUME NEW a \in Ids, NEW p \in Plans, NEW minor \in BOOLEAN, RequestApproval(w, a, p, minor)
      PROVE  TypeOK'
  <2>1. [kind |-> "insert", id |-> a, plan |-> p,
         auto |-> AutoApproveMinor /\ minor, created |-> now] \in Insertion
    <3>1. (AutoApproveMinor /\ minor) \in BOOLEAN
      OBVIOUS
    <3>2. QED
      BY <3>1 DEF Insertion
  <2>2. QED
    BY <1>1, <2>1 DEF RequestApproval
<1>2. ASSUME NEW a \in Ids, Approve(w, a)
      PROVE  TypeOK'
  <2>1. [kind |-> IF rows[a].expires < now THEN "expired" ELSE "approved",
        id |-> a, at |-> now] \in Decision
    BY DEF Decision
  <2>2. QED
    BY <1>2, <2>1 DEF Approve
<1>3. ASSUME NEW a \in Ids, Reject(w, a)
      PROVE  TypeOK'
  <2>1. [kind |-> "rejected", id |-> a, at |-> now] \in Decision
    BY DEF Decision
  <2>2. QED
    BY <1>3, <2>1 DEF Reject
<1>4. CASE CommitInsert(w)
  <2>1. task[w] \in Insertion
    BY <1>4 DEF CommitInsert, Idle, Decision
  <2>2. Inserted(task[w]) \in Row
    BY <2>1 DEF Inserted, Row, Insertion, Unset
  <2>3. QED
    BY <1>4, <2>1, <2>2 DEF CommitInsert, Insertion
<1>5. CASE CommitDecision(w)
  <2>1. task[w] \in Decision
    BY <1>5 DEF CommitDecision, Idle, Insertion
  <2>2. Updated(rows[task[w].id], task[w].kind, task[w].at) \in Row
    <3>1. rows[task[w].id] \in Row /\ task[w].kind \in Decided /\ task[w].at \in Nat
      BY <2>1 DEF Decision
    <3>2. QED
      BY <3>1, UpdatedIsRow
  <2>3. QED
    BY <1>5, <2>1, <2>2 DEF CommitDecision, Decision
<1>6. CASE Fail(w)
  BY <1>6 DEF Fail
<1>7. QED
  BY <1>1, <1>2, <1>3, <1>4, <1>5, <1>6 DEF Serve

LEMMA InitType == Init => TypeOK
BY NoRowIsRow DEF Init, TypeOK, Task

LEMMA TypeStep == TypeOK /\ [Next]_vars => TypeOK'
<1> SUFFICES ASSUME TypeOK, [Next]_vars
             PROVE  TypeOK'
  OBVIOUS
<1>1. CASE Tick
  BY <1>1 DEF Tick, TypeOK
<1>2. ASSUME NEW w \in Workers, Serve(w)
      PROVE  TypeOK'
  BY <1>2, ServeType
<1>3. CASE UNCHANGED vars
  BY <1>3 DEF vars, TypeOK
<1>4. QED
  BY <1>1, <1>2, <1>3 DEF Next

(* The table and the handlers' pending writes keep their types: every row    *)
(* the code can write is a row, every write it can be about to make is one.  *)
THEOREM TypeCorrect == Spec => []TypeOK
BY InitType, TypeStep, PTL DEF Spec

-----------------------------------------------------------------------------
(***************************************************************************)
(* Any number of processes.                                                *)
(***************************************************************************)

(* What a pending write knows of its row, however long it waits: an          *)
(* insertion's id is still unused and its own, a decision's row exists and   *)
(* is not an auto-approved one.                                              *)
PendingWrites ==
    /\ \A w \in Workers : task[w].kind = "insert" =>
          /\ rows[task[w].id].status = "absent"
          /\ \A v \in Workers : task[v].kind = "insert" /\ task[v].id = task[w].id => v = w
    /\ \A w \in Workers : task[w].kind \in Decided =>
          /\ rows[task[w].id].status # "absent"
          /\ ~ rows[task[w].id].auto

\* Auto-approval happens at birth: what is absent or pending is not auto-approved.
AutoIsApproved == \A a \in Ids : rows[a].auto => rows[a].status = "approved"

SharedInv == TypeOK /\ PendingWrites /\ AutoIsApproved

LEMMA ServeShared ==
    ASSUME SharedInv, NEW w \in Workers, Serve(w)
    PROVE  PendingWrites' /\ AutoIsApproved'
<1> USE DEF SharedInv, TypeOK, PendingWrites, AutoIsApproved
<1>1. ASSUME NEW a \in Ids, NEW p \in Plans, NEW minor \in BOOLEAN, RequestApproval(w, a, p, minor)
      PROVE  PendingWrites' /\ AutoIsApproved'
  BY <1>1, IdleIsNoWork DEF RequestApproval, Fresh, Decided
<1>2. ASSUME NEW a \in Ids, Approve(w, a)
      PROVE  PendingWrites' /\ AutoIsApproved'
  BY <1>2 DEF Approve, Decided
<1>3. ASSUME NEW a \in Ids, Reject(w, a)
      PROVE  PendingWrites' /\ AutoIsApproved'
  BY <1>3 DEF Reject, Decided
<1>4. CASE CommitInsert(w)
  <2>1. task[w] \in Insertion
    BY <1>4 DEF CommitInsert, Idle, Decision, Task, Decided
  <2>2. QED
    BY <1>4, <2>1, IdleIsNoWork DEF CommitInsert, Inserted, Insertion, Decided
<1>5. CASE CommitDecision(w)
  <2>1. task[w] \in Decision
    BY <1>5 DEF CommitDecision, Idle, Insertion, Task, Decided
  <2>2. QED
    BY <1>5, <2>1, IdleIsNoWork DEF CommitDecision, Updated, Decision, Row, Decided
<1>6. CASE Fail(w)
  BY <1>6, IdleIsNoWork DEF Fail
<1>7. QED
  BY <1>1, <1>2, <1>3, <1>4, <1>5, <1>6 DEF Serve

LEMMA InitShared == Init => SharedInv
BY InitType, IdleIsNoWork DEF Init, SharedInv, PendingWrites, AutoIsApproved, NoRow

LEMMA SharedStep == SharedInv /\ [Next]_vars => SharedInv'
<1> SUFFICES ASSUME SharedInv, [Next]_vars
             PROVE  (PendingWrites /\ AutoIsApproved)'
  BY TypeStep DEF SharedInv
<1>1. CASE Tick
  BY <1>1 DEF Tick, SharedInv, PendingWrites, AutoIsApproved
<1>2. ASSUME NEW w \in Workers, Serve(w)
      PROVE  (PendingWrites /\ AutoIsApproved)'
  BY <1>2, ServeShared
<1>3. CASE UNCHANGED vars
  BY <1>3 DEF vars, SharedInv, PendingWrites, AutoIsApproved
<1>4. QED
  BY <1>1, <1>2, <1>3 DEF Next

LEMMA SharedInvariant == Spec => []SharedInv
BY InitShared, SharedStep, PTL DEF Spec

\* The only writes to the table are the two commits, and they write one row.
LEMMA RowsStep ==
    ASSUME SharedInv, [Next]_vars, NEW a \in Ids, rows'[a] # rows[a]
    PROVE  \E w \in Workers :
              \/ /\ task[w] \in Insertion
                 /\ task[w].id = a
                 /\ rows[a].status = "absent"
              \/ /\ task[w] \in Decision
                 /\ task[w].id = a
                 /\ rows'[a] = Updated(rows[a], task[w].kind, task[w].at)
<1> USE DEF SharedInv, TypeOK, PendingWrites
<1>1. PICK w \in Workers : CommitInsert(w) \/ CommitDecision(w)
  BY DEF Next, vars, Tick, Serve, RequestApproval, Approve, Reject, Fail
<1>2. CASE CommitInsert(w)
  <2>1. task[w] \in Insertion
    BY <1>2 DEF CommitInsert, Idle, Decision, Task, Decided
  <2>2. QED
    BY <1>2, <2>1 DEF CommitInsert, Insertion
<1>3. CASE CommitDecision(w)
  <2>1. task[w] \in Decision
    BY <1>3 DEF CommitDecision, Idle, Insertion, Task, Decided
  <2>2. QED
    BY <1>3, <2>1 DEF CommitDecision, Decision
<1>4. QED
  BY <1>1, <1>2, <1>3

\* The only way into the table is an insertion that waits.
LEMMA RowIsInserted ==
    ASSUME SharedInv, [Next]_vars, NEW a \in Ids, rows[a].status = "absent", rows'[a].status # "absent"
    PROVE  \E w \in Workers : task[w] \in Insertion /\ rows'[a] = Inserted(task[w])
<1> USE DEF SharedInv, TypeOK, PendingWrites
<1>1. PICK w \in Workers : CommitInsert(w) \/ CommitDecision(w)
  BY DEF Next, vars, Tick, Serve, RequestApproval, Approve, Reject, Fail
<1>2. CASE CommitInsert(w)
  BY <1>2, TaskFields DEF CommitInsert, Insertion
<1>3. CASE CommitDecision(w)
  BY <1>3, TaskFields DEF CommitDecision, Decision
<1>4. QED
  BY <1>1, <1>2, <1>3

LEMMA InsertedStays ==
    ASSUME SharedInv, [Next]_vars, NEW a \in Ids, rows[a].status # "absent"
    PROVE  /\ rows'[a].plan = rows[a].plan
           /\ rows'[a].expires = rows[a].expires
           /\ rows'[a].auto = rows[a].auto
           /\ rows[a].status \in Decided => rows'[a].status \in Decided
<1>1. CASE rows'[a] = rows[a]
  BY <1>1
<1>2. CASE rows'[a] # rows[a]
  <2>1. PICK w \in Workers : /\ task[w] \in Decision
                             /\ rows'[a] = Updated(rows[a], task[w].kind, task[w].at)
    BY <1>2, RowsStep
  <2>2. rows[a] \in Row /\ task[w].kind \in Decided
    BY <2>1 DEF SharedInv, TypeOK, Decision
  <2>3. QED
    BY <2>1, <2>2 DEF Updated, Row
<1>3. QED
  BY <1>1, <1>2

(* However many processes serve the engine, a row once inserted keeps its    *)
(* plan, its expiry and its auto flag, and a decided one is never reopened.  *)
THEOREM RowsAreNeverReopened == Spec => NeverReopened
<1>1. SharedInv /\ [Next]_vars
        => [\A a \in Ids : rows[a].status # "absent" =>
              /\ rows'[a].plan = rows[a].plan
              /\ rows'[a].expires = rows[a].expires
              /\ rows'[a].auto = rows[a].auto
              /\ rows[a].status \in Decided => rows'[a].status \in Decided]_vars
  BY InsertedStays
<1>2. QED
  BY <1>1, SharedInvariant, PTL DEF Spec, NeverReopened

(* However many processes serve the engine, an auto-approved row is never    *)
(* written again.                                                            *)
THEOREM AutoApprovalsAreFinal == Spec => AutoApprovalFinal
<1>1. SharedInv /\ [Next]_vars => [\A a \in Ids : rows[a].auto => rows'[a] = rows[a]]_vars
  <2> SUFFICES ASSUME SharedInv, [Next]_vars, NEW a \in Ids, rows[a].auto, rows'[a] # rows[a]
               PROVE  FALSE
    OBVIOUS
  <2>1. PICK w \in Workers : /\ task[w] \in Decision
                             /\ task[w].id = a
    BY RowsStep DEF SharedInv, AutoIsApproved
  <2>2. QED
    BY <2>1 DEF SharedInv, PendingWrites, Decision
<1>2. QED
  BY <1>1, SharedInvariant, PTL DEF Spec, AutoApprovalFinal

-----------------------------------------------------------------------------
(***************************************************************************)
(* What several processes make of one approval.                            *)
(***************************************************************************)

\* A decision that waits is, where it says expired, of a row whose time has passed.
LateOnlyAfterExpiry ==
    \A w \in Workers : task[w].kind = "expired" => rows[task[w].id].expires < now

AnswersInv == SharedInv /\ RowTellsAnswers /\ LateOnlyAfterExpiry

\* What a row tells, by itself: RowTellsAnswers is Tells of every row.
Tells(a, r, d, t) ==
    /\ r.approvedAt # Unset <=> <<a, "approved">> \in d \/ <<a, "expired">> \in d
    /\ r.rejectedAt # Unset <=> <<a, "rejected">> \in d
    /\ r.status \in {"absent", "pending"} => r.approvedAt = Unset /\ r.rejectedAt = Unset
    /\ r.status \in Decided => <<a, r.status>> \in d
    /\ <<a, "expired">> \in d => r.expires < t

LEMMA TellsIsRowTells == RowTellsAnswers <=> \A a \in Ids : Tells(a, rows[a], decided, now)
BY DEF RowTellsAnswers, Tells

LEMMA TellsInserted ==
    ASSUME SharedInv, NEW w \in Workers, CommitInsert(w), NEW a \in Ids,
           Tells(a, rows[a], decided, now)
    PROVE  Tells(a, rows'[a], decided', now')
<1> USE DEF SharedInv, TypeOK, Tells
<1>1. task[w] \in Insertion
  BY TaskFields DEF CommitInsert
<1>2. CASE a = task[w].id
  <2>1. rows[a].status = "absent"
    BY <1>2 DEF PendingWrites, CommitInsert
  <2>2. rows'[a] = Inserted(task[w]) /\ now' = now
    BY <1>2 DEF CommitInsert
  <2>3. \A v \in Decided : <<a, v>> \notin decided
    BY <2>1 DEF Decided
  <2>4. task[w].auto \in BOOLEAN /\ task[w].created \in Nat \ {0}
    BY <1>1 DEF Insertion
  <2>5. CASE task[w].auto
    <3>1. decided' = decided \cup {<<a, "approved">>}
      BY <1>2, <2>5 DEF CommitInsert
    <3>2. rows'[a].status = "approved" /\ rows'[a].approvedAt # Unset /\ rows'[a].rejectedAt = Unset
      BY <2>2, <2>4, <2>5 DEF Inserted, Unset
    <3>3. QED
      BY <2>3, <3>1, <3>2 DEF Decided
  <2>6. CASE ~task[w].auto
    <3>1. decided' = decided
      BY <2>6 DEF CommitInsert
    <3>2. rows'[a].status = "pending" /\ rows'[a].approvedAt = Unset /\ rows'[a].rejectedAt = Unset
      BY <2>2, <2>6 DEF Inserted, Unset
    <3>3. QED
      BY <2>3, <3>1, <3>2 DEF Decided
  <2>7. QED
    BY <2>5, <2>6
<1>3. CASE a # task[w].id
  <2>1. rows'[a] = rows[a] /\ now' = now
    BY <1>3 DEF CommitInsert
  <2>2. \A v : <<a, v>> \in decided' <=> <<a, v>> \in decided
    BY <1>3 DEF CommitInsert
  <2>3. QED
    BY <2>1, <2>2
<1>4. QED
  BY <1>2, <1>3

LEMMA TellsUpdated ==
    ASSUME SharedInv, LateOnlyAfterExpiry, NEW w \in Workers, CommitDecision(w), NEW a \in Ids,
           Tells(a, rows[a], decided, now)
    PROVE  Tells(a, rows'[a], decided', now')
<1> USE DEF SharedInv, TypeOK, Tells
<1>1. task[w] \in Decision
  BY TaskFields DEF CommitDecision
<1>2. CASE a = task[w].id
  <2>1. rows[a] \in Row /\ task[w].kind \in Decided /\ task[w].at \in Nat \ {0}
    BY <1>1, <1>2 DEF Decision
  <2>2. /\ rows'[a] = Updated(rows[a], task[w].kind, task[w].at)
        /\ decided' = decided \cup {<<a, task[w].kind>>}
        /\ now' = now
    BY <1>2 DEF CommitDecision
  <2>3. CASE task[w].kind = "rejected"
    BY <2>1, <2>2, <2>3 DEF Updated, Row, Decided, Unset
  <2>4. CASE task[w].kind # "rejected"
    <3>1. task[w].kind = "expired" => rows[a].expires < now
      BY <1>2 DEF LateOnlyAfterExpiry
    <3>2. QED
      BY <2>1, <2>2, <2>4, <3>1 DEF Updated, Row, Decided, Unset
  <2>5. QED
    BY <2>3, <2>4
<1>3. CASE a # task[w].id
  <2>1. rows'[a] = rows[a] /\ now' = now
    BY <1>3 DEF CommitDecision
  <2>2. \A v : <<a, v>> \in decided' <=> <<a, v>> \in decided
    BY <1>3 DEF CommitDecision
  <2>3. QED
    BY <2>1, <2>2
<1>4. QED
  BY <1>2, <1>3

LEMMA AnswersStep ==
    ASSUME AnswersInv, [Next]_vars
    PROVE  RowTellsAnswers' /\ LateOnlyAfterExpiry'
<1> USE DEF AnswersInv, SharedInv, TypeOK
<1>1. now' \in Nat /\ now <= now'
  BY DEF Next, vars, Tick, Serve, RequestApproval, Approve, Reject, CommitInsert, CommitDecision, Fail
<1>2. RowTellsAnswers'
  <2>1. \A a \in Ids : Tells(a, rows[a], decided, now)
    BY TellsIsRowTells
  <2>2. \A a \in Ids : Tells(a, rows'[a], decided', now')
    <3>1. CASE \E w \in Workers : CommitInsert(w)
      BY <2>1, <3>1, TellsInserted
    <3>2. CASE \E w \in Workers : CommitDecision(w)
      BY <2>1, <3>2, TellsUpdated
    <3>3. CASE \A w \in Workers : ~CommitInsert(w) /\ ~CommitDecision(w)
      <4>1. UNCHANGED <<rows, decided>>
        BY <3>3 DEF Next, vars, Tick, Serve, RequestApproval, Approve, Reject, Fail
      <4>2. \A a \in Ids : rows[a].expires \in Nat
        BY DEF Row
      <4>3. SUFFICES ASSUME NEW a \in Ids
                     PROVE  Tells(a, rows[a], decided, now')
        BY <4>1
      <4>4. rows[a].expires < now => rows[a].expires < now'
        <5>1. rows[a].expires \in Nat /\ now \in Nat
          BY <4>2
        <5>2. QED
          BY <1>1, <5>1
      <4>5. Tells(a, rows[a], decided, now)
        BY <2>1
      <4>6. QED
        BY <4>4, <4>5 DEF Tells
    <3>4. QED
      BY <3>1, <3>2, <3>3
  <2>3. QED
    BY <2>2 DEF RowTellsAnswers, Tells
<1>3. LateOnlyAfterExpiry'
  <2>1. SUFFICES ASSUME NEW w \in Workers, task'[w].kind = "expired"
                 PROVE  rows'[task'[w].id].expires < now'
    BY DEF LateOnlyAfterExpiry
  <2>2. CASE task'[w] = task[w]
    <3>1. task[w].id \in Ids /\ rows[task[w].id].status # "absent"
      BY <2>1, <2>2, TaskFields DEF PendingWrites, Decided
    <3>2. rows'[task[w].id].expires = rows[task[w].id].expires
      BY <3>1, InsertedStays
    <3>3. rows[task[w].id].expires \in Nat
      BY <3>1 DEF Row
    <3>4. QED
      BY <1>1, <2>1, <2>2, <3>2, <3>3 DEF LateOnlyAfterExpiry
  <2>3. CASE task'[w] # task[w]
    <3>1. PICK a \in Ids : Approve(w, a)
      BY <2>1, <2>3, IdleIsNoWork DEF Next, vars, Tick, Serve, RequestApproval, Approve, Reject,
          CommitInsert, CommitDecision, Fail, Decided
    <3>2. QED
      BY <2>1, <3>1 DEF Approve
  <2>4. QED
    BY <2>2, <2>3
<1>4. QED
  BY <1>2, <1>3

LEMMA AnswersInvariant == Spec => []AnswersInv
<1>1. Init => RowTellsAnswers /\ LateOnlyAfterExpiry
  BY IdleIsNoWork DEF Init, RowTellsAnswers, LateOnlyAfterExpiry, NoRow, Unset, Decided
<1>2. AnswersInv /\ [Next]_vars => (RowTellsAnswers /\ LateOnlyAfterExpiry)'
  BY AnswersStep
<1>3. QED
  BY <1>1, <1>2, SharedInvariant, PTL DEF Spec, AnswersInv

(* However many processes decide an approval, its row tells how it was ever  *)
(* answered: its timestamps are those of decisions that were written, all of *)
(* them, and an expiry was written only after its time.                      *)
THEOREM RowsTellTheirAnswers == Spec => []RowTellsAnswers
BY AnswersInvariant, PTL DEF AnswersInv

\* A decided approval is out of reach of whoever did not find it pending before.
LEMMA SettledStep ==
    ASSUME SharedInv, [Next]_vars, NEW a \in Ids, rows[a].status \in Decided
    PROVE  /\ Deciding(a)' \subseteq Deciding(a)
           /\ Deciding(a) = {} => rows'[a] = rows[a]
<1>1. Deciding(a)' \subseteq Deciding(a)
  <2>1. SUFFICES ASSUME NEW w \in Workers, task'[w].kind \in Decided, task'[w].id = a,
                        task'[w] # task[w]
                 PROVE  FALSE
    BY DEF Deciding
  <2>2. PICK b \in Ids : Approve(w, b) \/ Reject(w, b)
    BY <2>1, IdleIsNoWork DEF SharedInv, TypeOK, Next, vars, Tick, Serve, RequestApproval, Approve,
        Reject, CommitInsert, CommitDecision, Fail, Decided
  <2>3. b = a /\ rows[b].status = "pending"
    BY <2>1, <2>2 DEF Approve, Reject, SharedInv, TypeOK
  <2>4. QED
    BY <2>3 DEF Decided
<1>2. ASSUME Deciding(a) = {}, rows'[a] # rows[a]
      PROVE  FALSE
  <2>1. PICK w \in Workers : /\ task[w] \in Decision
                             /\ task[w].id = a
    BY <1>2, RowsStep DEF Decided
  <2>2. QED
    BY <1>2, <2>1 DEF Deciding, Decision
<1>3. QED
  BY <1>1, <1>2

(* However many processes serve the engine, a decided approval is changed by *)
(* nobody but those that found it pending, and then stays what it is.        *)
THEOREM SettledStaysFinal == Spec => SettledIsFinal
<1>1. SharedInv /\ [Next]_vars
        => [\A a \in Ids : rows[a].status \in Decided =>
               /\ Deciding(a)' \subseteq Deciding(a)
               /\ Deciding(a) = {} => rows'[a] = rows[a]]_vars
  BY SettledStep
<1>2. QED
  BY <1>1, SharedInvariant, PTL DEF Spec, SettledIsFinal

\* What a task contributes to the deciders of the lifecycle.
LEMMA DecidingMember ==
    ASSUME NEW e
    PROVE  e \in DecidingOf <=> \E w \in Workers : task[w].kind \in Decided
                                                   /\ e = <<w, task[w].id, task[w].kind>>
BY DEF DecidingOf

\* A process that takes up a decision is one decider more.
LEMMA AdmitStep ==
    ASSUME SharedInv, NEW w \in Workers, NEW a \in Ids, Approve(w, a) \/ Reject(w, a)
    PROVE  Lifecycle!Next
<1> USE DEF SharedInv, TypeOK
<1>1. PICK v \in Decided : /\ task'[w].kind = v /\ task'[w].id = a
                           /\ \A u \in Workers : u # w => task'[u] = task[u]
  BY DEF Approve, Reject, Decided
<1>2. rows[a].status = "pending" /\ task[w] = Idle /\ rows' = rows
  BY DEF Approve, Reject
<1>3. \A e \in DecidingOf : e[1] # w
  BY <1>2, DecidingMember, IdleIsNoWork
<1>4. DecidingOf' = DecidingOf \cup {<<w, a, v>>}
  BY <1>1, <1>2, IdleIsNoWork DEF DecidingOf
<1>5. StatusOf[a] = "pending" /\ StatusOf' = StatusOf /\ StampsOf' = StampsOf
  BY <1>2 DEF StatusOf, StampsOf
<1>6. Lifecycle!Admit(w, a, v)
  BY <1>3, <1>4, <1>5 DEF Lifecycle!Admit
<1>7. QED
  BY <1>1, <1>6 DEF Lifecycle!Next, Lifecycle!Verdicts, Decided

\* The fields that a row bears, as the lifecycle sees them.
Borne(r) == {field \in {"approved_at", "rejected_at"} :
                (IF field = "approved_at" THEN r.approvedAt ELSE r.rejectedAt) # Unset}

LEMMA StampsAreBorne ==
    ASSUME SharedInv
    PROVE  StampsOf = [a \in Ids |-> Borne(rows[a])]
BY DEF StampsOf, Borne

LEMMA InsertStep ==
    ASSUME SharedInv, SharedInv', RowTellsAnswers, NEW w \in Workers, CommitInsert(w)
    PROVE  Lifecycle!Next
<1> USE DEF SharedInv, TypeOK
<1>1. task[w] \in Insertion
  BY TaskFields DEF CommitInsert
<1>2. PICK a \in Ids : a = task[w].id /\ rows[a].status = "absent"
  BY <1>1 DEF CommitInsert, PendingWrites, Insertion
<1>3. rows' = [rows EXCEPT ![a] = Inserted(task[w])]
  BY <1>2 DEF CommitInsert
<1>4. DecidingOf' = DecidingOf
  <2>1. task[w].kind \notin Decided /\ task'[w].kind \notin Decided
    BY IdleIsNoWork DEF CommitInsert, Decided
  <2>2. \A u \in Workers : u # w => task'[u] = task[u]
    BY DEF CommitInsert
  <2>3. QED
    BY <2>1, <2>2 DEF DecidingOf
<1>5. StatusOf[a] = "absent" /\ StatusOf' = [StatusOf EXCEPT ![a] = Inserted(task[w]).status]
  BY <1>2, <1>3 DEF StatusOf
<1>6. rows[a].approvedAt = Unset /\ rows[a].rejectedAt = Unset
  BY <1>2 DEF RowTellsAnswers
<1>7. Borne(rows[a]) = {}
  BY <1>6 DEF Borne
<1>8. StampsOf = [b \in Ids |-> Borne(rows[b])] /\ StampsOf' = [b \in Ids |-> Borne(rows'[b])]
  BY DEF StampsOf, Borne
<1>9. CASE task[w].auto
  <2>1. Inserted(task[w]).status = "approved" /\ Borne(Inserted(task[w])) = {"approved_at"}
    BY <1>1, <1>9 DEF Inserted, Borne, Insertion, Unset
  <2>2. StampsOf' = [StampsOf EXCEPT ![a] = {"approved_at"}]
    BY <1>3, <1>8, <2>1
  <2>3. Lifecycle!Request(a)
    BY <1>4, <1>5, <2>1, <2>2 DEF Lifecycle!Request
  <2>4. QED
    BY <2>3 DEF Lifecycle!Next
<1>10. CASE ~task[w].auto
  <2>1. Inserted(task[w]).status = "pending" /\ Borne(Inserted(task[w])) = {}
    BY <1>10 DEF Inserted, Borne, Unset
  <2>2. StampsOf' = StampsOf
    BY <1>3, <1>7, <1>8, <2>1
  <2>3. Lifecycle!Request(a)
    BY <1>4, <1>5, <2>1, <2>2 DEF Lifecycle!Request
  <2>4. QED
    BY <2>3 DEF Lifecycle!Next
<1>11. QED
  BY <1>9, <1>10

LEMMA SettleStep ==
    ASSUME SharedInv, NEW w \in Workers, CommitDecision(w)
    PROVE  Lifecycle!Next
<1> USE DEF SharedInv, TypeOK
<1>1. task[w] \in Decision
  BY TaskFields DEF CommitDecision
<1>2. PICK a \in Ids, v \in Decided : a = task[w].id /\ v = task[w].kind
  BY <1>1 DEF Decision
<1>3. rows[a] \in Row /\ task[w].at \in Nat \ {0}
  BY <1>1 DEF Decision
<1>4. rows' = [rows EXCEPT ![a] = Updated(rows[a], v, task[w].at)]
  BY <1>2 DEF CommitDecision
<1>5. <<w, a, v>> \in DecidingOf
  BY <1>2 DEF DecidingOf
<1>6. DecidingOf' = DecidingOf \ {<<w, a, v>>}
  <2>1. task'[w].kind \notin Decided /\ \A u \in Workers : u # w => task'[u] = task[u]
    BY IdleIsNoWork DEF CommitDecision
  <2>2. QED
    BY <1>2, <2>1 DEF DecidingOf
<1>7. Updated(rows[a], v, task[w].at).status = v
  BY <1>3 DEF Updated, Row
<1>8. StatusOf' = [StatusOf EXCEPT ![a] = v]
  BY <1>4, <1>7 DEF StatusOf
<1>9. Borne(Updated(rows[a], v, task[w].at)) = Borne(rows[a]) \cup {Lifecycle!Stamp(v)}
  <2>1. CASE v = "rejected"
    BY <1>3, <2>1 DEF Updated, Row, Borne, Unset, Lifecycle!Stamp
  <2>2. CASE v # "rejected"
    BY <1>3, <2>2 DEF Updated, Row, Borne, Unset, Lifecycle!Stamp
  <2>3. QED
    BY <2>1, <2>2
<1>10. StampsOf = [b \in Ids |-> Borne(rows[b])] /\ StampsOf' = [b \in Ids |-> Borne(rows'[b])]
  BY DEF StampsOf, Borne
<1>11. StampsOf' = [StampsOf EXCEPT ![a] = @ \cup {Lifecycle!Stamp(v)}]
  BY <1>4, <1>9, <1>10
<1>12. Lifecycle!Settle(w, a, v)
  BY <1>5, <1>6, <1>8, <1>11 DEF Lifecycle!Settle
<1>13. QED
  BY <1>12 DEF Lifecycle!Next, Lifecycle!Verdicts, Decided

LEMMA FailStep ==
    ASSUME SharedInv, NEW w \in Workers, Fail(w)
    PROVE  Lifecycle!Next \/ UNCHANGED Lifecycle!lifecycleVars
<1> USE DEF SharedInv, TypeOK
<1>1. /\ task'[w].kind \notin Decided
      /\ \A u \in Workers : u # w => task'[u] = task[u]
      /\ StatusOf' = StatusOf /\ StampsOf' = StampsOf
  BY IdleIsNoWork DEF Fail, StatusOf, StampsOf
<1>2. CASE task[w].kind \in Decided
  <2>1. /\ <<w, task[w].id, task[w].kind>> \in DecidingOf
        /\ DecidingOf' = DecidingOf \ {<<w, task[w].id, task[w].kind>>}
    BY <1>1, <1>2 DEF DecidingOf
  <2>2. QED
    BY <1>1, <2>1 DEF Lifecycle!Next, Lifecycle!Withdraw
<1>3. CASE task[w].kind \notin Decided
  <2>1. DecidingOf' = DecidingOf
    BY <1>1, <1>3 DEF DecidingOf
  <2>2. QED
    BY <1>1, <2>1 DEF Lifecycle!lifecycleVars
<1>4. QED
  BY <1>2, <1>3

LEMMA LifecycleStep ==
    ASSUME AnswersInv, SharedInv', [Next]_vars
    PROVE  [Lifecycle!Next]_Lifecycle!lifecycleVars
<1> USE DEF AnswersInv
<1>1. ASSUME NEW w \in Workers, NEW a \in Ids, NEW p \in Plans, NEW minor \in BOOLEAN,
             RequestApproval(w, a, p, minor)
      PROVE  UNCHANGED Lifecycle!lifecycleVars
  <2>1. task[w].kind \notin Decided /\ task'[w].kind \notin Decided
    BY <1>1, IdleIsNoWork DEF RequestApproval, Decided, SharedInv, TypeOK
  <2>2. \A u \in Workers : u # w => task'[u] = task[u]
    BY <1>1 DEF RequestApproval, SharedInv, TypeOK
  <2>3. DecidingOf' = DecidingOf
    BY <2>1, <2>2 DEF DecidingOf
  <2>4. QED
    BY <1>1, <2>3 DEF RequestApproval, Lifecycle!lifecycleVars, StatusOf, StampsOf
<1>2. CASE Tick \/ UNCHANGED vars
  BY <1>2 DEF Tick, vars, Lifecycle!lifecycleVars, StatusOf, StampsOf, DecidingOf
<1>3. ASSUME NEW w \in Workers, Serve(w)
      PROVE  Lifecycle!Next \/ UNCHANGED Lifecycle!lifecycleVars
  BY <1>1, <1>3, AdmitStep, InsertStep, SettleStep, FailStep DEF Serve
<1>4. QED
  BY <1>2, <1>3 DEF Next

(* However many processes serve it, the engine implements the life of an     *)
(* approval as its clients see it: a request, the admission of one that may  *)
(* decide, its verdict or its failure, or nothing.                           *)
THEOREM EngineImplementsLifecycle == Spec => LifecycleSpec
<1>1. Init => Lifecycle!Init
  BY IdleIsNoWork DEF Init, Lifecycle!Init, StatusOf, StampsOf, DecidingOf, NoRow
<1>2. AnswersInv /\ SharedInv' /\ [Next]_vars => [Lifecycle!Next]_Lifecycle!lifecycleVars
  BY LifecycleStep
<1>3. QED
  BY <1>1, <1>2, AnswersInvariant, SharedInvariant, PTL DEF Spec, LifecycleSpec, Lifecycle!Spec

-----------------------------------------------------------------------------
(***************************************************************************)
(* The engine behind the backend.                                          *)
(***************************************************************************)

Events == {"requested", "approved", "rejected"}

Route ==
    {NoRoute}
    \cup [at: {"storing"}, plan: Plans, row: PlanRow]
    \cup [at: {"waiting"}, event: {"requested"}, target: Plans]
    \cup [at: {"waiting"}, event: {"approved", "rejected"}, target: Ids]
    \cup [at: {"auditing"}, event: {"requested"}, approval: Ids, plan: Plans]
    \cup [at: {"auditing"}, event: {"approved", "rejected"}, approval: Ids, plan: {NoPlan}]

PlanningTypes ==
    /\ plans \in [Plans -> PlanRow]
    /\ handler \in [Handlers -> Route]
    /\ serving \in [Workers -> Handlers \cup {Nobody}]
    /\ audit \in SUBSET (Events \X Ids \X (Plans \cup {NoPlan}))

\* What a route has at hand in each of its stages.
LEMMA RouteFields ==
    ASSUME PlanningTypes, NEW h \in Handlers
    PROVE  LET r == handler[h] IN
           /\ r.at = "storing" => r.plan \in Plans /\ r.row \in PlanRow
           /\ r.at = "waiting" => r.event \in Events
           /\ r.at = "waiting" /\ r.event = "requested" => r.target \in Plans
           /\ r.at = "waiting" /\ r.event # "requested" => r.target \in Ids
           /\ r.at = "auditing" =>
                 r.event \in Events /\ r.approval \in Ids /\ r.plan \in Plans \cup {NoPlan}
           /\ r.at = "auditing" /\ r.event = "requested" => r.plan \in Plans
BY DEF PlanningTypes, Route, NoRoute, Events

\* The severity that the engine is told is a flag of the plan.
LEMMA MinorIsFlag ==
    ASSUME PlanningTypes, NEW p \in Plans
    PROVE  plans[p].minor \in BOOLEAN
BY DEF PlanningTypes, PlanRow

\* Whatever the backend does, the engine takes a step of its own or none.
LEMMA PlanningStepOfEngine ==
    ASSUME PlanningTypes, [PlanningNext]_planningVars
    PROVE  [Next]_vars
<1>1. ASSUME NEW h \in Handlers, Backend(h)
      PROVE  UNCHANGED vars
  BY <1>1 DEF Backend, CreatePlan, StorePlan, AskApproval, PassDecision, Refuse, WriteAudit, GiveUp
<1>2. ASSUME NEW w \in Workers, Engine(w)
      PROVE  Serve(w)
  <2>1. ASSUME NEW h \in Handlers, Take(w, h)
        PROVE  Serve(w)
    <3>1. handler[h].at = "waiting"
      BY <2>1 DEF Take
    <3>2. CASE handler[h].event = "requested"
      BY <2>1, <3>1, <3>2, RouteFields, MinorIsFlag DEF Take, Serve
    <3>3. CASE handler[h].event # "requested"
      BY <2>1, <3>1, <3>3, RouteFields DEF Take, Decide, Serve
    <3>4. QED
      BY <3>2, <3>3
  <2>2. ASSUME NEW a \in Ids, NEW event \in {"approved", "rejected"}, DecideForNobody(w, a, event)
        PROVE  Serve(w)
    BY <2>2 DEF DecideForNobody, Decide, Serve
  <2>3. ASSUME NEW a \in Ids, NEW p \in Plans, NEW minor \in BOOLEAN, RequestForNobody(w, a, p, minor)
        PROVE  Serve(w)
    BY <2>3 DEF RequestForNobody, Serve
  <2>4. QED
    BY <1>2, <2>1, <2>2, <2>3 DEF Engine, AnswerInsert, AnswerDecision, AnswerFailure, Serve
<1>3. QED
  BY <1>1, <1>2 DEF PlanningNext, Passing, Next, planningVars

\* What the planner answers, for any root cause, is a row of the table with all
\* that its command needs.
LEMMA PlannedIsWhole ==
    ASSUME NEW cause, NEW minor \in BOOLEAN
    PROVE  LET row == Planned(cause, minor) IN
           row \in PlanRow /\ row.status = "pending" /\ Whole(row.action, row.params)
<1> DEFINE action == Action(cause)
<1>1. action \in {"restart_pod", "restart_deployment", "scale_deployment", "clear_cache",
                  "trigger_debug_logs"}
  BY DEF Action, Strategies
<1>2. DOMAIN Required = {"restart_pod", "restart_deployment", "scale_deployment", "clear_cache",
                         "trigger_debug_logs"}
  BY DEF Required
<1>3. Parameters(action) = Required[action]
  BY <1>1 DEF Parameters, Required
<1>4. Whole(action, Parameters(action))
  BY <1>1, <1>2, <1>3 DEF Whole, Placeholders, Required
<1>5. Parameters(action) \in SUBSET UNION {Required[c] : c \in DOMAIN Required}
  BY <1>1, <1>2, <1>3
<1>6. QED
  BY <1>1, <1>2, <1>4, <1>5 DEF Planned, PlanRow

\* A process of the engine works for a route that waits for it alone, and inserts
\* what that route asked for.
ServingInv ==
    \A w \in Workers : serving[w] # Nobody =>
        /\ handler[serving[w]].at = "waiting"
        /\ task[w].kind = "insert" =>
              /\ handler[serving[w]].event = "requested"
              /\ task[w].plan = handler[serving[w]].target
        /\ \A v \in Workers : serving[v] = serving[w] => v = w

LEMMA ServingStep ==
    ASSUME SharedInv, PlanningTypes, ServingInv, [PlanningNext]_planningVars
    PROVE  ServingInv'
<1> USE PlanningAssumption DEF SharedInv, TypeOK, PlanningTypes, ServingInv
<1>1. ASSUME NEW h \in Handlers, NEW r, handler' = [handler EXCEPT ![h] = r],
             UNCHANGED <<task, serving>>, ~Taken(h)
      PROVE  ServingInv'
  BY <1>1 DEF Taken
<1>2. ASSUME NEW h \in Handlers, Backend(h)
      PROVE  ServingInv'
  <2>1. CASE GiveUp(h)
    <3>1. /\ serving' = [w \in Workers |-> IF serving[w] = h THEN Nobody ELSE serving[w]]
          /\ task' = task
          /\ \A g \in Handlers : g # h => handler'[g] = handler[g]
      BY <2>1 DEF GiveUp, vars
    <3>2. \A w \in Workers : serving'[w] # Nobody => serving'[w] = serving[w] /\ serving[w] # h
      BY <3>1
    <3>3. QED
      BY <3>1, <3>2
  <2>2. CASE ~GiveUp(h)
    <3>1. NoRoute.at = "idle"
      BY DEF NoRoute
    <3>2. handler[h].at # "waiting" => ~Taken(h)
      BY DEF Taken
    <3>3. ~Taken(h) /\ UNCHANGED <<task, serving>> /\ \E r : handler' = [handler EXCEPT ![h] = r]
      BY <1>2, <2>2, <3>1, <3>2 DEF Backend, CreatePlan, StorePlan, AskApproval, PassDecision, Refuse,
          WriteAudit, vars
    <3>4. QED
      BY <1>1, <3>3
  <2>3. QED
    BY <2>1, <2>2
<1>3. ASSUME NEW w \in Workers, NEW answer, Answer(w, answer), task'[w] = Idle,
             \A v \in Workers : v # w => task'[v] = task[v]
      PROVE  ServingInv'
  <2>1. /\ serving'[w] = Nobody
        /\ \A v \in Workers : v # w => serving'[v] = serving[v]
        /\ \A g \in Handlers : serving[w] # g => handler'[g] = handler[g]
    BY <1>3 DEF Answer
  <2>2. QED
    BY <1>3, <2>1
<1>4. ASSUME NEW w \in Workers, Engine(w)
      PROVE  ServingInv'
  <2>1. ASSUME NEW h \in Handlers, Take(w, h)
        PROVE  ServingInv'
    <3>1. /\ handler' = handler /\ handler[h].at = "waiting" /\ serving' = [serving EXCEPT ![w] = h]
          /\ \A v \in Workers : serving[v] # h
      BY <2>1 DEF Take, Taken, backendVars
    <3>2. \A v \in Workers : v # w => task'[v] = task[v]
      BY <2>1 DEF Take, Decide, RequestApproval, Approve, Reject
    <3>3. task'[w].kind = "insert" =>
              handler[h].event = "requested" /\ task'[w].plan = handler[h].target
      BY <2>1 DEF Take, Decide, RequestApproval, Approve, Reject
    <3>4. QED
      BY <3>1, <3>2, <3>3
  <2>2. ASSUME /\ handler' = handler
               /\ serving' = [serving EXCEPT ![w] = Nobody]
               /\ \A v \in Workers : v # w => task'[v] = task[v]
        PROVE  ServingInv'
    BY <2>2
  <2>3. ASSUME NEW a \in Ids, NEW p \in Plans, NEW minor \in BOOLEAN, RequestForNobody(w, a, p, minor)
        PROVE  ServingInv'
    BY <2>2, <2>3 DEF RequestForNobody, RequestApproval, backendVars
  <2>4. ASSUME NEW a \in Ids, NEW event \in {"approved", "rejected"}, DecideForNobody(w, a, event)
        PROVE  ServingInv'
    BY <2>2, <2>4 DEF DecideForNobody, Decide, Approve, Reject, backendVars
  <2>5. CASE AnswerInsert(w) \/ AnswerDecision(w) \/ AnswerFailure(w)
    BY <1>3, <2>5 DEF AnswerInsert, AnswerDecision, AnswerFailure, CommitInsert, CommitDecision, Fail
  <2>6. QED
    BY <1>4, <2>1, <2>3, <2>4, <2>5 DEF Engine
<1>5. CASE Passing \/ UNCHANGED planningVars
  BY <1>5 DEF Passing, Tick, planningVars, backendVars, vars
<1>6. QED
  BY <1>2, <1>4, <1>5 DEF PlanningNext

\* One step of the backend or of the engine keeps the types of the backend.
LEMMA PlanningTypesStep ==
    ASSUME TypeOK, PlanningTypes, ServingInv, [PlanningNext]_planningVars
    PROVE  PlanningTypes'
<1> USE DEF PlanningTypes
<1>1. NoRoute \in Route
  BY DEF Route
<1>2. ASSUME NEW h \in Handlers, Backend(h)
      PROVE  PlanningTypes'
  <2>1. ASSUME NEW p \in Plans, NEW cause, NEW minor \in BOOLEAN, CreatePlan(h, p, cause, minor)
        PROVE  PlanningTypes'
    <3>1. [at |-> "storing", plan |-> p, row |-> Planned(cause, minor)] \in Route
      BY PlannedIsWhole DEF Route
    <3>2. QED
      BY <2>1, <3>1 DEF CreatePlan
  <2>2. ASSUME NEW p \in Plans, AskApproval(h, p)
        PROVE  PlanningTypes'
    <3>1. Awaiting("requested", p) \in Route
      BY DEF Route, Awaiting
    <3>2. QED
      BY <2>2, <3>1 DEF AskApproval
  <2>3. ASSUME NEW ok \in BOOLEAN, StorePlan(h, ok)
        PROVE  PlanningTypes'
    BY <1>1, <2>3, RouteFields DEF StorePlan
  <2>4. ASSUME NEW ok \in BOOLEAN, WriteAudit(h, ok)
        PROVE  PlanningTypes'
    <3>1. <<handler[h].event, handler[h].approval, handler[h].plan>>
              \in Events \X Ids \X (Plans \cup {NoPlan})
      BY <2>4, RouteFields DEF WriteAudit
    <3>2. QED
      BY <1>1, <2>4, <3>1 DEF WriteAudit
  <2>5. ASSUME NEW a \in Ids, NEW event \in {"approved", "rejected"}, PassDecision(h, a, event)
        PROVE  PlanningTypes'
    <3>1. Awaiting(event, a) \in Route
      BY DEF Route, Awaiting
    <3>2. QED
      BY <2>5, <3>1 DEF PassDecision
  <2>6. CASE Refuse(h)
    BY <1>1, <2>6 DEF Refuse
  <2>7. CASE GiveUp(h)
    <3>1. serving' \in [Workers -> Handlers \cup {Nobody}]
      BY <2>7 DEF GiveUp
    <3>2. QED
      BY <1>1, <2>7, <3>1 DEF GiveUp
  <2>8. QED
    BY <1>2, <2>1, <2>2, <2>3, <2>4, <2>5, <2>6, <2>7 DEF Backend
<1>3. ASSUME NEW w \in Workers, NEW answer \in Route, Answer(w, answer)
      PROVE  PlanningTypes'
  BY <1>3 DEF Answer
<1>4. /\ \A a \in Ids, p \in Plans : Auditing("requested", a, p) \in Route
      /\ \A event \in {"approved", "rejected"}, a \in Ids : Auditing(event, a, NoPlan) \in Route
  BY DEF Route, Auditing
<1>5. ASSUME NEW w \in Workers, Engine(w)
      PROVE  PlanningTypes'
  <2>1. ASSUME NEW h \in Handlers, Take(w, h)
        PROVE  PlanningTypes'
    BY <2>1 DEF Take, backendVars
  <2>2. ASSUME NEW a \in Ids, NEW event \in {"approved", "rejected"}, DecideForNobody(w, a, event)
        PROVE  PlanningTypes'
    BY <2>2 DEF DecideForNobody, backendVars
  <2>3. ASSUME NEW a \in Ids, NEW p \in Plans, NEW minor \in BOOLEAN, RequestForNobody(w, a, p, minor)
        PROVE  PlanningTypes'
    BY <2>3 DEF RequestForNobody, backendVars
  <2>4. CASE AnswerInsert(w)
    <3>1. (IF serving[w] = Nobody THEN NoRoute
           ELSE Auditing("requested", task[w].id, handler[serving[w]].target)) \in Route
      <4>1. task[w].kind = "insert" /\ task[w].id \in Ids
        BY <2>4, TaskFields DEF AnswerInsert, CommitInsert
      <4>2. serving[w] # Nobody => handler[serving[w]].target \in Plans
        BY <4>1, RouteFields DEF ServingInv
      <4>3. QED
        BY <1>1, <1>4, <4>1, <4>2
    <3>2. QED
      BY <1>3, <2>4, <3>1 DEF AnswerInsert
  <2>5. CASE AnswerDecision(w)
    <3>1. (IF task[w].kind = "expired" THEN NoRoute
           ELSE Auditing(task[w].kind, task[w].id, NoPlan)) \in Route
      BY <1>1, <1>4, <2>5, TaskFields DEF AnswerDecision, CommitDecision, Events, Decided
    <3>2. QED
      BY <1>3, <2>5, <3>1 DEF AnswerDecision
  <2>6. CASE AnswerFailure(w)
    BY <1>1, <1>3, <2>6 DEF AnswerFailure
  <2>7. QED
    BY <1>5, <2>1, <2>2, <2>3, <2>4, <2>5, <2>6 DEF Engine
<1>6. CASE Passing \/ UNCHANGED planningVars
  BY <1>6 DEF Passing, planningVars, backendVars
<1>7. QED
  BY <1>2, <1>5, <1>6 DEF PlanningNext

EngineInv == SharedInv /\ PlanningTypes /\ ServingInv

LEMMA EngineInvariant == PlanningSpec => []EngineInv
<1>1. PlanningInit => Init /\ SharedInv /\ PlanningTypes /\ ServingInv
  <2>1. SUFFICES ASSUME PlanningInit
                 PROVE  SharedInv /\ PlanningTypes /\ ServingInv
    BY DEF PlanningInit
  <2>2. SharedInv
    BY <2>1, InitShared DEF PlanningInit
  <2>3. Unstored \in PlanRow
    BY DEF Unstored, PlanRow
  <2>4. QED
    BY <2>1, <2>2, <2>3 DEF PlanningInit, PlanningTypes, Route, ServingInv
<1>2. EngineInv /\ [PlanningNext]_planningVars => EngineInv'
  BY PlanningTypesStep, ServingStep, PlanningStepOfEngine, SharedStep DEF EngineInv, SharedInv
<1>3. QED
  BY <1>1, <1>2, PTL DEF PlanningSpec, EngineInv

(* Behind the backend, asked by it and by others, the engine behaves as its  *)
(* module specifies.                                                         *)
THEOREM EngineBehindBackend == PlanningSpec => Spec
<1>1. PlanningInit => Init
  BY DEF PlanningInit
<1>2. EngineInv /\ [PlanningNext]_planningVars => [Next]_vars
  BY PlanningStepOfEngine DEF EngineInv
<1>3. QED
  BY <1>1, <1>2, EngineInvariant, PTL DEF PlanningSpec, Spec

(* What several processes of the engine make of an approval, they make of it *)
(* behind the backend too, whoever asks and gives up.                        *)
THEOREM PromisesBehindBackend ==
    PlanningSpec => []RowTellsAnswers /\ SettledIsFinal /\ LifecycleSpec
BY EngineBehindBackend, RowsTellTheirAnswers, SettledStaysFinal, EngineImplementsLifecycle, PTL

-----------------------------------------------------------------------------
(***************************************************************************)
(* Plans, requests and the audit trail.                                    *)
(***************************************************************************)

Stored(p) == plans[p].status # "absent"

\* A plan on its way to the table is whole, and the only one with its id.
PlansInv ==
    /\ PlansAreWhole
    /\ \A h \in Handlers : handler[h].at = "storing" =>
          /\ Whole(handler[h].row.action, handler[h].row.params)
          /\ ~Stored(handler[h].plan)
          /\ \A g \in Handlers :
                handler[g].at = "storing" /\ handler[g].plan = handler[h].plan => g = h

\* Approval a is one of the stored plan p.
AskedFor(a, p) ==
    /\ rows[a].status # "absent"
    /\ Stored(p)
    /\ rows[a].plan = p
    /\ rows[a].auto => plans[p].minor

\* What the backend asks, and what the engine does for it, is about stored plans.
RequestsInv ==
    /\ \A h \in Handlers :
          handler[h].at = "waiting" /\ handler[h].event = "requested" => Stored(handler[h].target)
    /\ \A w \in Workers : serving[w] # Nobody /\ task[w].kind = "insert" =>
          (task[w].auto => plans[task[w].plan].minor)
    /\ \A h \in Handlers : handler[h].at = "auditing" /\ handler[h].event = "requested" =>
          AskedFor(handler[h].approval, handler[h].plan)
    /\ \A e \in audit : e[1] = "requested" => e[3] \in Plans /\ AskedFor(e[2], e[3])

\* The event did happen to approval a.
Shows(a, event) ==
    /\ rows[a].status # "absent"
    /\ event # "requested" => <<a, event>> \in decided

\* What is audited, or about to be, shows in the row.
AuditInv ==
    /\ \A e \in audit : Shows(e[2], e[1])
    /\ \A h \in Handlers : handler[h].at = "auditing" => Shows(handler[h].approval, handler[h].event)

\* A stored plan never changes.
LEMMA StoredPlansStay ==
    ASSUME EngineInv, PlansInv, [PlanningNext]_planningVars, NEW p \in Plans, Stored(p)
    PROVE  plans'[p] = plans[p]
<1> USE DEF EngineInv, PlanningTypes
<1>1. ASSUME NEW h \in Handlers, NEW ok \in BOOLEAN, StorePlan(h, ok)
      PROVE  plans'[p] = plans[p]
  BY <1>1 DEF StorePlan, PlansInv, Stored
<1>2. ASSUME NEW h \in Handlers, Backend(h), \A ok \in BOOLEAN : ~StorePlan(h, ok)
      PROVE  plans' = plans
  BY <1>2 DEF Backend, CreatePlan, AskApproval, PassDecision, Refuse, WriteAudit, GiveUp
<1>3. ASSUME NEW w \in Workers, Engine(w)
      PROVE  plans' = plans
  BY <1>3 DEF Engine, Take, DecideForNobody, RequestForNobody, AnswerInsert, AnswerDecision, AnswerFailure,
      Answer, backendVars
<1>4. QED
  BY <1>1, <1>2, <1>3 DEF PlanningNext, Passing, planningVars, backendVars

\* A route comes to storing only with a new plan.
LEMMA PlansStep ==
    ASSUME EngineInv, PlansInv, [PlanningNext]_planningVars
    PROVE  PlansInv'
<1> USE DEF EngineInv, PlanningTypes, PlansInv, PlansAreWhole, Stored
<1>1. NoRoute.at = "idle" /\ \A event, x, y : Awaiting(event, x).at = "waiting"
                                                  /\ Auditing(event, x, y).at = "auditing"
  BY DEF NoRoute, Awaiting, Auditing
<1>2. ASSUME NEW h \in Handlers, NEW p \in Plans, NEW cause, NEW minor \in BOOLEAN,
             CreatePlan(h, p, cause, minor)
      PROVE  PlansInv'
  BY <1>1, <1>2, PlannedIsWhole DEF CreatePlan
<1>3. ASSUME NEW h \in Handlers, NEW ok \in BOOLEAN, StorePlan(h, ok)
      PROVE  PlansInv'
  <2>1. handler[h].at = "storing" /\ handler[h].plan \in Plans /\ handler[h].row \in PlanRow
    BY <1>3, RouteFields DEF StorePlan
  <2>2. plans' = plans \/ plans' = [plans EXCEPT ![handler[h].plan] = handler[h].row]
    BY <1>3 DEF StorePlan
  <2>3. \A p \in Plans : plans'[p] = plans[p] \/ (p = handler[h].plan /\ plans'[p] = handler[h].row)
    BY <2>1, <2>2
  <2>4. PlansAreWhole'
    BY <2>1, <2>3
  <2>5. \A g \in Handlers : handler'[g].at = "storing" =>
            g # h /\ handler'[g] = handler[g] /\ handler[g].plan # handler[h].plan
    BY <1>1, <1>3, <2>1 DEF StorePlan
  <2>6. \A g \in Handlers : handler'[g].at = "storing" => handler[g].plan \in Plans
    BY <2>5, RouteFields
  <2>7. QED
    BY <2>3, <2>4, <2>5, <2>6
<1>4. ASSUME plans' = plans,
             \A h \in Handlers : handler'[h].at = "storing" => handler'[h] = handler[h]
      PROVE  PlansInv'
  BY <1>4
<1>5. ASSUME NEW h \in Handlers, Backend(h),
             \A p \in Plans, minor \in BOOLEAN, cause \in UNION {Causes(m) : m \in Evidence} :
                 ~CreatePlan(h, p, cause, minor),
             \A ok \in BOOLEAN : ~StorePlan(h, ok)
      PROVE  PlansInv'
  <2>1. plans' = plans /\ \E r : r.at # "storing" /\ handler' = [handler EXCEPT ![h] = r]
    BY <1>1, <1>5 DEF Backend, AskApproval, PassDecision, Refuse, WriteAudit, GiveUp
  <2>2. QED
    BY <1>4, <2>1
<1>6. ASSUME NEW w \in Workers, Engine(w)
      PROVE  PlansInv'
  <2>1. plans' = plans
    BY <1>6 DEF Engine, Take, DecideForNobody, RequestForNobody, AnswerInsert, AnswerDecision, AnswerFailure,
        Answer, backendVars
  <2>2. handler' = handler \/ \E r : r.at # "storing" /\ handler' = [handler EXCEPT ![serving[w]] = r]
    BY <1>1, <1>6 DEF Engine, Take, DecideForNobody, RequestForNobody, AnswerInsert, AnswerDecision,
        AnswerFailure, Answer, backendVars
  <2>3. QED
    BY <1>4, <2>1, <2>2
<1>7. CASE Passing \/ UNCHANGED planningVars
  BY <1>4, <1>7 DEF Passing, planningVars, backendVars
<1>8. QED
  BY <1>2, <1>3, <1>5, <1>6, <1>7 DEF PlanningNext, Backend

LEMMA PlansInvariant == PlanningSpec => []PlansInv
<1>1. PlanningInit => PlansInv
  BY DEF PlanningInit, PlansInv, PlansAreWhole, Unstored, PlanRow, NoRoute
<1>2. QED
  BY <1>1, PlansStep, EngineInvariant, PTL DEF PlanningSpec

(* Whatever the evidence and the root cause, for any number of routes that   *)
(* make plans at once: a row of the table has what its command needs.        *)
THEOREM PlansAreAlwaysWhole == PlanningSpec => []PlansAreWhole
BY PlansInvariant, PTL DEF PlansInv

\* What one step does to what a route is waiting for, or about to audit.
LEMMA RoutesStep ==
    ASSUME EngineInv, [PlanningNext]_planningVars, NEW g \in Handlers, handler'[g] # handler[g]
    PROVE  /\ handler'[g].at = "waiting" /\ handler'[g].event = "requested" =>
                 \E p \in Plans : handler'[g].target = p /\ Stored(p)
           /\ handler'[g].at = "auditing" =>
                 \E w \in Workers :
                     /\ serving[w] = g
                     /\ \/ /\ CommitInsert(w)
                           /\ handler'[g] = Auditing("requested", task[w].id, handler[g].target)
                        \/ /\ CommitDecision(w)
                           /\ task[w].kind # "expired"
                           /\ handler'[g] = Auditing(task[w].kind, task[w].id, NoPlan)
<1> USE PlanningAssumption DEF EngineInv, PlanningTypes
<1>1. /\ NoRoute.at = "idle"
      /\ \A event, x : Awaiting(event, x).at = "waiting" /\ Awaiting(event, x).event = event
                       /\ Awaiting(event, x).target = x
  BY DEF NoRoute, Awaiting
<1>2. ASSUME NEW h \in Handlers, Backend(h)
      PROVE  /\ handler'[g].at # "auditing"
             /\ handler'[g].at = "waiting" /\ handler'[g].event = "requested" =>
                   \E p \in Plans : handler'[g].target = p /\ Stored(p)
  BY <1>1, <1>2 DEF Backend, CreatePlan, StorePlan, AskApproval, PassDecision, Refuse, WriteAudit, GiveUp,
      Stored
<1>3. ASSUME NEW w \in Workers, Engine(w)
      PROVE  \/ handler'[g].at = "idle"
             \/ /\ serving[w] = g
                /\ \/ /\ CommitInsert(w)
                      /\ handler'[g] = Auditing("requested", task[w].id, handler[g].target)
                   \/ /\ CommitDecision(w)
                      /\ task[w].kind # "expired"
                      /\ handler'[g] = Auditing(task[w].kind, task[w].id, NoPlan)
  <2>1. ASSUME NEW r, Answer(w, r)
        PROVE  serving[w] = g /\ handler'[g] = r
    BY <2>1 DEF Answer
  <2>2. CASE AnswerInsert(w)
    BY <2>1, <2>2 DEF AnswerInsert
  <2>3. CASE AnswerDecision(w)
    BY <1>1, <2>1, <2>3 DEF AnswerDecision
  <2>4. CASE AnswerFailure(w)
    BY <1>1, <2>1, <2>4 DEF AnswerFailure
  <2>5. QED
    BY <1>3, <2>2, <2>3, <2>4 DEF Engine, Take, DecideForNobody, RequestForNobody, backendVars
<1>4. \A event, x, y : Auditing(event, x, y).at = "auditing"
  BY DEF Auditing
<1>5. QED
  BY <1>2, <1>3, <1>4 DEF PlanningNext, Passing, planningVars, backendVars

\* What an approval was asked for, it is asked for ever after.
LEMMA AskedForStays ==
    ASSUME EngineInv, PlansInv, [PlanningNext]_planningVars, NEW a \in Ids, NEW p \in Plans,
           AskedFor(a, p)
    PROVE  AskedFor(a, p)'
<1>1. plans'[p] = plans[p]
  BY StoredPlansStay DEF AskedFor
<1>2. [Next]_vars /\ SharedInv
  BY PlanningStepOfEngine DEF EngineInv
<1>3. rows'[a].plan = rows[a].plan /\ rows'[a].auto = rows[a].auto
  BY <1>2, InsertedStays DEF AskedFor
<1>4. rows'[a].status # "absent"
  <2>1. CASE rows'[a] = rows[a]
    BY <2>1 DEF AskedFor
  <2>2. CASE rows'[a] # rows[a]
    <3>1. PICK w \in Workers : /\ task[w] \in Decision
                               /\ rows'[a] = Updated(rows[a], task[w].kind, task[w].at)
      BY <1>2, <2>2, RowsStep DEF AskedFor
    <3>2. rows[a] \in Row /\ task[w].kind \in Decided
      BY <1>2, <3>1 DEF SharedInv, TypeOK, Decision
    <3>3. QED
      BY <3>1, <3>2 DEF Updated, Row, Decided
  <2>3. QED
    BY <2>1, <2>2
<1>5. QED
  BY <1>1, <1>3, <1>4 DEF AskedFor, Stored

LEMMA RequestsStep ==
    ASSUME EngineInv, PlansInv, RequestsInv, [PlanningNext]_planningVars
    PROVE  RequestsInv'
<1> USE DEF EngineInv, PlanningTypes
<1>1. \A p \in Plans : Stored(p) => Stored(p)' /\ plans'[p] = plans[p]
  BY StoredPlansStay DEF Stored
<1>2. ASSUME NEW h \in Handlers, handler'[h].at = "waiting", handler'[h].event = "requested"
      PROVE  Stored(handler[h].target)'
  <2>1. CASE handler'[h] = handler[h]
    <3>1. handler[h].target \in Plans /\ Stored(handler[h].target)
      BY <1>2, <2>1, RouteFields DEF RequestsInv
    <3>2. QED
      BY <1>1, <2>1, <3>1 DEF Stored
  <2>2. CASE handler'[h] # handler[h]
    <3>1. PICK p \in Plans : handler'[h].target = p /\ Stored(p)
      BY <1>2, <2>2, RoutesStep
    <3>2. QED
      BY <1>1, <3>1 DEF Stored
  <2>3. QED
    BY <2>1, <2>2
<1>3. ASSUME NEW w \in Workers, serving'[w] # Nobody, task'[w].kind = "insert", task'[w].auto
      PROVE  plans'[task'[w].plan].minor
  <2>1. CASE task'[w] = task[w] /\ serving[w] # Nobody
    <3>1. handler[serving[w]].target = task[w].plan /\ handler[serving[w]].at = "waiting"
          /\ handler[serving[w]].event = "requested"
      BY <1>3, <2>1 DEF ServingInv
    <3>2. task[w].plan \in Plans /\ Stored(task[w].plan)
      BY <2>1, <3>1, RouteFields DEF RequestsInv
    <3>3. QED
      BY <1>1, <1>3, <2>1, <3>2 DEF RequestsInv
  <2>2. CASE ~(task'[w] = task[w] /\ serving[w] # Nobody)
    <3>1. PICK h \in Handlers : Take(w, h)
      <4>1. ASSUME NEW v \in Workers, NEW r, Answer(v, r), task'[v] = Idle,
                   \A u \in Workers : u # v => task'[u] = task[u]
            PROVE  FALSE
        BY <1>3, <2>2, <4>1, IdleIsNoWork DEF Answer
      <4>2. ASSUME NEW v \in Workers, serving' = [serving EXCEPT ![v] = Nobody],
                   \A u \in Workers : u # v => task'[u] = task[u]
            PROVE  FALSE
        BY <1>3, <2>2, <4>2
      <4>3. ASSUME NEW v \in Workers, AnswerInsert(v) \/ AnswerDecision(v) \/ AnswerFailure(v)
            PROVE  FALSE
        BY <4>1, <4>3 DEF AnswerInsert, AnswerDecision, AnswerFailure, CommitInsert, CommitDecision, Fail,
            SharedInv, TypeOK
      <4>4. ASSUME NEW v \in Workers, NEW a \in Ids, NEW p \in Plans, NEW minor \in BOOLEAN,
                   RequestForNobody(v, a, p, minor)
            PROVE  FALSE
        BY <4>2, <4>4 DEF RequestForNobody, RequestApproval, SharedInv, TypeOK
      <4>5. ASSUME NEW v \in Workers, NEW a \in Ids, NEW event \in {"approved", "rejected"},
                   DecideForNobody(v, a, event)
            PROVE  FALSE
        BY <4>2, <4>5 DEF DecideForNobody, Decide, Approve, Reject, SharedInv, TypeOK
      <4>6. ASSUME NEW h \in Handlers, Backend(h)
            PROVE  FALSE
        BY <1>3, <2>2, <4>6 DEF Backend, CreatePlan, StorePlan, AskApproval, PassDecision, Refuse,
            WriteAudit, GiveUp, vars
      <4>7. PICK v \in Workers, h \in Handlers : Take(v, h)
        BY <1>3, <2>2, <4>3, <4>4, <4>5, <4>6 DEF PlanningNext, Engine, Passing, Tick, planningVars, vars
      <4>8. v = w
        BY <1>3, <2>2, <4>7 DEF Take, Decide, RequestApproval, Approve, Reject, SharedInv, TypeOK
      <4>9. QED
        BY <4>7, <4>8
    <3>2. /\ handler[h].at = "waiting" /\ handler[h].event = "requested"
          /\ task'[w].plan = handler[h].target
          /\ task'[w].auto => plans[handler[h].target].minor
      <4>1. handler[h].at = "waiting"
        BY <3>1 DEF Take
      <4>2. CASE handler[h].event = "requested"
        <5>1. PICK a \in Ids : RequestApproval(w, a, handler[h].target, plans[handler[h].target].minor)
          BY <3>1, <4>2 DEF Take
        <5>2. /\ task'[w].plan = handler[h].target
              /\ task'[w].auto => plans[handler[h].target].minor
          BY <5>1 DEF RequestApproval, SharedInv, TypeOK
        <5>3. QED
          BY <4>1, <4>2, <5>2
      <4>3. CASE handler[h].event # "requested"
        BY <1>3, <3>1, <4>3 DEF Take, Decide, Approve, Reject, SharedInv, TypeOK, Decided
      <4>4. QED
        BY <4>2, <4>3
    <3>3. handler[h].target \in Plans /\ Stored(handler[h].target)
      BY <3>2, RouteFields DEF RequestsInv
    <3>4. QED
      BY <1>1, <1>3, <3>2, <3>3
  <2>3. QED
    BY <2>1, <2>2
<1>4. ASSUME NEW h \in Handlers, handler'[h].at = "auditing", handler'[h].event = "requested"
      PROVE  AskedFor(handler[h].approval, handler[h].plan)'
  <2>1. CASE handler'[h] = handler[h]
    <3>1. PICK a \in Ids, p \in Plans : a = handler[h].approval /\ p = handler[h].plan
      BY <1>4, <2>1, RouteFields
    <3>2. AskedFor(a, p)
      BY <1>4, <2>1, <3>1 DEF RequestsInv
    <3>3. AskedFor(a, p)'
      BY <3>2, AskedForStays
    <3>4. QED
      BY <2>1, <3>1, <3>3 DEF AskedFor, Stored
  <2>2. CASE handler'[h] # handler[h]
    <3>1. PICK w \in Workers : /\ serving[w] = h
                               /\ CommitInsert(w)
                               /\ handler'[h] = Auditing("requested", task[w].id, handler[h].target)
      <4>1. PICK w \in Workers : /\ serving[w] = h
                                 /\ \/ /\ CommitInsert(w)
                                       /\ handler'[h] = Auditing("requested", task[w].id, handler[h].target)
                                    \/ /\ CommitDecision(w)
                                       /\ task[w].kind # "expired"
                                       /\ handler'[h] = Auditing(task[w].kind, task[w].id, NoPlan)
        BY <1>4, <2>2, RoutesStep
      <4>2. \A x, y, z : Auditing(x, y, z).event = x
        BY DEF Auditing
      <4>3. ~CommitDecision(w) \/ task[w].kind # "requested"
        BY DEF CommitDecision, Decided
      <4>4. QED
        BY <1>4, <4>1, <4>2, <4>3
    <3>2. PICK a \in Ids : a = task[w].id /\ task[w] \in Insertion
      BY <3>1, TaskFields DEF CommitInsert, SharedInv
    <3>3. /\ handler[h].at = "waiting" /\ handler[h].event = "requested"
          /\ task[w].plan = handler[h].target
      BY <3>1, PlanningAssumption DEF ServingInv, CommitInsert
    <3>4. PICK p \in Plans : p = handler[h].target /\ Stored(p)
      BY <3>3, RouteFields DEF RequestsInv
    <3>5. rows'[a] = Inserted(task[w])
      BY <3>1, <3>2 DEF CommitInsert, SharedInv, TypeOK
    <3>6. task[w].auto => plans[p].minor
      BY <3>1, <3>3, <3>4, PlanningAssumption DEF RequestsInv, CommitInsert
    <3>7. AskedFor(a, p)'
      BY <1>1, <3>3, <3>4, <3>5, <3>6 DEF AskedFor, Stored, Inserted
    <3>8. handler'[h].approval = a /\ handler'[h].plan = p
      BY <3>1, <3>2, <3>4 DEF Auditing
    <3>9. QED
      BY <3>7, <3>8 DEF AskedFor, Stored
  <2>3. QED
    BY <2>1, <2>2
<1>5. ASSUME NEW e \in audit', e[1] = "requested"
      PROVE  e[3] \in Plans /\ AskedFor(e[2], e[3])'
  <2>1. \/ e \in audit
        \/ \E h \in Handlers : /\ handler[h].at = "auditing"
                               /\ e = <<handler[h].event, handler[h].approval, handler[h].plan>>
    BY DEF PlanningNext, Passing, planningVars, backendVars, Backend, CreatePlan, StorePlan,
        AskApproval, PassDecision, Refuse, GiveUp, WriteAudit, Engine, Take, DecideForNobody,
        RequestForNobody, AnswerInsert, AnswerDecision, AnswerFailure, Answer
  <2>2. AskedFor(e[2], e[3]) /\ e[2] \in Ids /\ e[3] \in Plans
    <3>1. CASE e \in audit
      BY <1>5, <3>1 DEF RequestsInv
    <3>2. CASE e \notin audit
      <4>1. PICK h \in Handlers : /\ handler[h].at = "auditing"
                                 /\ e = <<handler[h].event, handler[h].approval, handler[h].plan>>
        BY <2>1, <3>2
      <4>2. handler[h].event = "requested" /\ e[2] = handler[h].approval /\ e[3] = handler[h].plan
        BY <1>5, <4>1
      <4>3. QED
        BY <4>1, <4>2, RouteFields DEF RequestsInv
    <3>3. QED
      BY <3>1, <3>2
  <2>3. QED
    BY <2>2, AskedForStays
<1>6. QED
  BY <1>2, <1>3, <1>4, <1>5 DEF RequestsInv

LEMMA RequestsInvariant == PlanningSpec => []RequestsInv
<1>1. PlanningInit => RequestsInv
  BY IdleIsNoWork DEF PlanningInit, Init, RequestsInv, NoRoute
<1>2. QED
  BY <1>1, RequestsStep, EngineInvariant, PlansInvariant, PTL DEF PlanningSpec

(* However many routes ask and give up, and whatever others ask the engine   *)
(* for: an audited request is of a stored plan, its approval is of that      *)
(* plan, and one that nobody gave is of a plan of minor severity.            *)
THEOREM RequestsAreOfPlans == PlanningSpec => []AuditedRequestsAreOfPlans
<1>1. RequestsInv => AuditedRequestsAreOfPlans
  BY DEF RequestsInv, AskedFor, Stored, AuditedRequestsAreOfPlans
<1>2. QED
  BY <1>1, RequestsInvariant, PTL

-----------------------------------------------------------------------------

\* What happened to an approval has happened for ever.
LEMMA ShownStays ==
    ASSUME SharedInv, [Next]_vars, NEW a \in Ids, NEW event \in Events, Shows(a, event)
    PROVE  Shows(a, event)'
<1>1. decided \subseteq decided'
  BY DEF Next, vars, Tick, Serve, RequestApproval, Approve, Reject, CommitInsert, CommitDecision, Fail
<1>2. rows'[a].status # "absent"
  <2>1. CASE rows'[a] = rows[a]
    BY <2>1 DEF Shows
  <2>2. CASE rows'[a] # rows[a]
    <3>1. PICK w \in Workers : /\ task[w] \in Decision
                               /\ rows'[a] = Updated(rows[a], task[w].kind, task[w].at)
      BY <2>2, RowsStep DEF Shows
    <3>2. rows[a] \in Row /\ task[w].kind \in Decided
      BY <3>1 DEF SharedInv, TypeOK, Decision
    <3>3. QED
      BY <3>1, <3>2 DEF Updated, Row, Decided
  <2>3. QED
    BY <2>1, <2>2
<1>3. QED
  BY <1>1, <1>2 DEF Shows

LEMMA AuditStep ==
    ASSUME EngineInv, AuditInv, [PlanningNext]_planningVars
    PROVE  AuditInv'
<1> USE DEF EngineInv, PlanningTypes
<1>1. \A a \in Ids, event \in Events : Shows(a, event) => Shows(a, event)'
  BY PlanningStepOfEngine, ShownStays
<1>2. ASSUME NEW h \in Handlers, handler'[h].at = "auditing"
      PROVE  Shows(handler[h].approval, handler[h].event)'
  <2>1. CASE handler'[h] = handler[h]
    <3>1. PICK a \in Ids, event \in Events : a = handler[h].approval /\ event = handler[h].event
      BY <1>2, <2>1, RouteFields
    <3>2. Shows(a, event)
      BY <1>2, <2>1, <3>1 DEF AuditInv
    <3>3. QED
      BY <1>1, <2>1, <3>1, <3>2 DEF Shows
  <2>2. CASE handler'[h] # handler[h]
    <3>1. PICK w \in Workers :
              \/ /\ CommitInsert(w)
                 /\ handler'[h] = Auditing("requested", task[w].id, handler[h].target)
              \/ /\ CommitDecision(w)
                 /\ task[w].kind # "expired"
                 /\ handler'[h] = Auditing(task[w].kind, task[w].id, NoPlan)
      BY <1>2, <2>2, RoutesStep
    <3>2. CASE CommitInsert(w)
      <4>1. task[w] \in Insertion
        BY <3>2, TaskFields DEF CommitInsert, SharedInv
      <4>2. PICK a \in Ids : a = task[w].id
        BY <4>1 DEF Insertion
      <4>3. rows'[a] = Inserted(task[w])
        BY <3>2, <4>2 DEF CommitInsert, SharedInv, TypeOK
      <4>4. handler'[h].approval = a /\ handler'[h].event = "requested"
        BY <3>1, <3>2, <4>2 DEF Auditing, CommitInsert, CommitDecision, Decided
      <4>5. QED
        BY <4>3, <4>4 DEF Shows, Inserted
    <3>3. CASE CommitDecision(w)
      <4>1. task[w] \in Decision
        BY <3>3, TaskFields DEF CommitDecision, SharedInv
      <4>2. PICK a \in Ids, event \in Decided : a = task[w].id /\ event = task[w].kind
        BY <4>1 DEF Decision
      <4>3. rows'[a] = Updated(rows[a], event, task[w].at) /\ <<a, event>> \in decided'
        BY <3>3, <4>2 DEF CommitDecision, SharedInv, TypeOK
      <4>4. rows[a] \in Row
        BY DEF SharedInv, TypeOK
      <4>5. rows'[a].status # "absent"
        BY <4>3, <4>4 DEF Updated, Row, Decided
      <4>6. handler'[h].approval = a /\ handler'[h].event = event
        BY <3>1, <3>3, <4>2 DEF Auditing, CommitInsert, CommitDecision, Decided
      <4>7. QED
        BY <4>3, <4>5, <4>6 DEF Shows
    <3>4. QED
      BY <3>1, <3>2, <3>3
  <2>3. QED
    BY <2>1, <2>2
<1>3. ASSUME NEW e \in audit'
      PROVE  Shows(e[2], e[1])'
  <2>1. \/ e \in audit
        \/ \E h \in Handlers : /\ handler[h].at = "auditing"
                               /\ e = <<handler[h].event, handler[h].approval, handler[h].plan>>
    BY DEF PlanningNext, Passing, planningVars, backendVars, Backend, CreatePlan, StorePlan,
        AskApproval, PassDecision, Refuse, GiveUp, WriteAudit, Engine, Take, DecideForNobody,
        RequestForNobody, AnswerInsert, AnswerDecision, AnswerFailure, Answer
  <2>2. PICK a \in Ids, event \in Events : e[2] = a /\ e[1] = event /\ Shows(a, event)
    BY <2>1, RouteFields DEF AuditInv
  <2>3. QED
    BY <1>1, <2>2 DEF Shows
<1>4. QED
  BY <1>2, <1>3 DEF AuditInv

(* Whatever is lost, late, refused or decided twice between the backend and  *)
(* the engine: what the audit trail claims shows in the approval's row.      *)
THEOREM AuditIsOfDecisions == PlanningSpec => []AuditedWasDecided
<1>1. PlanningInit => AuditInv
  BY DEF PlanningInit, AuditInv, NoRoute
<1>2. EngineInv /\ AuditInv /\ [PlanningNext]_planningVars => AuditInv'
  BY AuditStep
<1>3. AuditInv => AuditedWasDecided
  BY DEF AuditInv, AuditedWasDecided, Shows
<1>4. QED
  BY <1>1, <1>2, <1>3, EngineInvariant, PTL DEF PlanningSpec
=============================================================================
