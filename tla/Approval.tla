------------------------------ MODULE Approval ------------------------------
(***************************************************************************)
(* The approval engine: the approvals table and the uvicorn worker         *)
(* processes that answer requests on it.                                   *)
(*                                                                         *)
(* A handler never awaits, so inside one process it runs alone; but the    *)
(* image starts several processes on one table, and a handler reads the    *)
(* row in one transaction and updates it, by id only, in another.  Each    *)
(* handler is therefore a step that reads and decides (RequestApproval,    *)
(* Approve, Reject) and a step that writes (CommitInsert, CommitDecision), *)
(* and what it decided to write waits in task[w] in between.               *)
(*                                                                         *)
(* Answers that change nothing (404, 400 "already ...", the status and     *)
(* list routes) are not steps.                                             *)
(***************************************************************************)
EXTENDS Naturals

CONSTANTS
    Workers,            \* processes serving the engine (Dockerfile: --workers 2)
    Ids,                \* approval ids; an unused one is a fresh uuid4
    Plans,              \* remediation plans
    NoPlan,             \* the plan of a row that does not exist
    AutoApproveMinor,   \* AUTO_APPROVE_MINOR
    TTL,                \* APPROVAL_TIMEOUT_MINUTES
    MaxTime             \* bound on the clock, for model checking

ASSUME ApprovalAssumption ==
    /\ AutoApproveMinor \in BOOLEAN
    /\ TTL \in Nat
    /\ MaxTime \in Nat
    /\ NoPlan \notin Plans

VARIABLES
    now,      \* the wall clock all processes read
    rows,     \* the approvals table, by approval id
    task,     \* what the handler running in each process is about to write
    decided   \* history: <<id, status>> of every decision ever written

vars == <<now, rows, task, decided>>

Decided == {"approved", "rejected", "expired"}

\* Timestamps are positive, the clock starts at 1; 0 is SQL's NULL.
Unset == 0

Row == [status: {"absent", "pending"} \cup Decided,
        plan: Plans \cup {NoPlan},
        auto: BOOLEAN,
        expires: Nat,
        approvedAt: Nat,
        rejectedAt: Nat]

NoRow == [status |-> "absent", plan |-> NoPlan, auto |-> FALSE,
          expires |-> 0, approvedAt |-> Unset, rejectedAt |-> Unset]

Idle == [kind |-> "idle"]

Insertion == [kind: {"insert"}, id: Ids, plan: Plans, auto: BOOLEAN, created: Nat \ {0}]

Decision == [kind: Decided, id: Ids, at: Nat \ {0}]

Task == {Idle} \cup Insertion \cup Decision

Init ==
    /\ now = 1
    /\ rows = [a \in Ids |-> NoRow]
    /\ task = [w \in Workers |-> Idle]
    /\ decided = {}

-----------------------------------------------------------------------------

\* No row has id a, and no running handler drew it: uuid4 does not repeat.
Fresh(a) ==
    /\ rows[a].status = "absent"
    /\ \A w \in Workers : task[w].kind = "insert" => task[w].id # a

(* POST /request-approval: the times are taken, the e-mail is tried (its     *)
(* outcome only fills a flag), and the insert follows.                       *)
RequestApproval(w, a, p, minor) ==
    /\ task[w] = Idle
    /\ Fresh(a)
    /\ task' = [task EXCEPT ![w] =
                    [kind |-> "insert", id |-> a, plan |-> p,
                     auto |-> AutoApproveMinor /\ minor, created |-> now]]
    /\ UNCHANGED <<now, rows, decided>>

\* Mutant of Approve: a rejected request can be approved after all.
Approve_Rejected(w, a) ==
    /\ task[w] = Idle
    /\ rows[a].status \in {"pending", "rejected"}
    /\ task' = [task EXCEPT ![w] = [kind |-> "approved", id |-> a, at |-> now]]
    /\ UNCHANGED <<now, rows, decided>>

\* Mutant of Approve: an approval is taken to expire in its last instant.
Approve_Early(w, a) ==
    /\ task[w] = Idle
    /\ rows[a].status = "pending"
    /\ task' = [task EXCEPT ![w] =
                    [kind |-> IF rows[a].expires <= now THEN "expired" ELSE "approved",
                     id |-> a, at |-> now]]
    /\ UNCHANGED <<now, rows, decided>>

(* PATCH /approvals/{id}/approve, up to its update: the row must be pending, *)
(* and one whose time has passed is marked expired instead.                  *)
Approve(w, a) ==
    /\ task[w] = Idle
    /\ rows[a].status = "pending"
    /\ task' = [task EXCEPT ![w] =
                    [kind |-> IF rows[a].expires < now THEN "expired" ELSE "approved",
                     id |-> a, at |-> now]]
    /\ UNCHANGED <<now, rows, decided>>

\* Mutant of Reject: the pending test is missing.
Reject_Unguarded(w, a) ==
    /\ task[w] = Idle
    /\ rows[a].status # "absent"
    /\ task' = [task EXCEPT ![w] = [kind |-> "rejected", id |-> a, at |-> now]]
    /\ UNCHANGED <<now, rows, decided>>

(* PATCH /approvals/{id}/reject, up to its update: no test of the expiry.    *)
Reject(w, a) ==
    /\ task[w] = Idle
    /\ rows[a].status = "pending"
    /\ task' = [task EXCEPT ![w] = [kind |-> "rejected", id |-> a, at |-> now]]
    /\ UNCHANGED <<now, rows, decided>>

\* The row that an insertion writes: auto-approved ones are born decided.
Inserted(t) ==
    [status |-> IF t.auto THEN "approved" ELSE "pending",
     plan |-> t.plan,
     auto |-> t.auto,
     expires |-> t.created + TTL,
     approvedAt |-> IF t.auto THEN t.created ELSE Unset,
     rejectedAt |-> Unset]

\* The row after UPDATE ... SET status, <timestamp field> WHERE approval_id:
\* expiry stamps approved_at too.
Updated(row, kind, time) ==
    IF kind = "rejected"
    THEN [row EXCEPT !.status = kind, !.rejectedAt = time]
    ELSE [row EXCEPT !.status = kind, !.approvedAt = time]

CommitInsert(w) ==
    /\ task[w].kind = "insert"
    /\ rows' = [rows EXCEPT ![task[w].id] = Inserted(task[w])]
    /\ decided' = IF task[w].auto THEN decided \cup {<<task[w].id, "approved">>} ELSE decided
    /\ task' = [task EXCEPT ![w] = Idle]
    /\ UNCHANGED now

\* UPDATE ... WHERE approval_id: whatever the row says by now.
CommitDecision(w) ==
    /\ task[w].kind \in Decided
    /\ rows' = [rows EXCEPT ![task[w].id] = Updated(@, task[w].kind, task[w].at)]
    /\ decided' = decided \cup {<<task[w].id, task[w].kind>>}
    /\ task' = [task EXCEPT ![w] = Idle]
    /\ UNCHANGED now

(* The database refuses the statement (the handler answers 500) or the       *)
(* process dies before it: nothing is written.                               *)
Fail(w) ==
    /\ task[w] # Idle
    /\ task' = [task EXCEPT ![w] = Idle]
    /\ UNCHANGED <<now, rows, decided>>

Tick ==
    /\ now < MaxTime
    /\ now' = now + 1
    /\ UNCHANGED <<rows, task, decided>>

Serve(w) ==
    \/ \E a \in Ids, p \in Plans, minor \in BOOLEAN : RequestApproval(w, a, p, minor)
    \/ \E a \in Ids : Approve(w, a) \/ Reject(w, a)
    \/ CommitInsert(w)
    \/ CommitDecision(w)
    \/ Fail(w)

Next == Tick \/ \E w \in Workers : Serve(w)

Spec == Init /\ [][Next]_vars

-----------------------------------------------------------------------------
\* What the table promises.

TypeOK ==
    /\ now \in Nat \ {0}
    /\ rows \in [Ids -> Row]
    /\ task \in [Workers -> Task]
    /\ decided \in SUBSET (Ids \X Decided)

(* Whatever the number of processes, a row is inserted once: its plan, its   *)
(* expiry and how it was approved never change again, and a decided approval *)
(* never goes back to pending.                                               *)
NeverReopened ==
    [][\A a \in Ids : rows[a].status # "absent" =>
            /\ rows'[a].plan = rows[a].plan
            /\ rows'[a].expires = rows[a].expires
            /\ rows'[a].auto = rows[a].auto
            /\ rows[a].status \in Decided => rows'[a].status \in Decided]_vars

(* An auto-approved row was never pending, so no handler, in any process,    *)
(* ever touches it.                                                          *)
AutoApprovalFinal ==
    [][\A a \in Ids : rows[a].auto => rows'[a] = rows[a]]_vars

Deciding(a) == {w \in Workers : task[w].kind \in Decided /\ task[w].id = a}

(* The guard "Approval already ..." (400) keeps what it can: of a decided    *)
(* approval only the handlers that found it pending, in other processes, can *)
(* still change anything, no further one joins them, and after the last of   *)
(* them the row is what it stays.                                            *)
SettledIsFinal ==
    [][\A a \in Ids : rows[a].status \in Decided =>
            /\ Deciding(a)' \subseteq Deciding(a)
            /\ Deciding(a) = {} => rows'[a] = rows[a]]_vars

(* The row tells how its approval was ever answered, also when two processes *)
(* answered it: each timestamp is there if and only if a decision that bears *)
(* it was written, an undecided row bears none, and only an approval whose   *)
(* time has passed was ever marked expired.                                  *)
RowTellsAnswers ==
    \A a \in Ids :
        LET r == rows[a]
            answered(s) == <<a, s>> \in decided
        IN  /\ r.approvedAt # Unset <=> answered("approved") \/ answered("expired")
            /\ r.rejectedAt # Unset <=> answered("rejected")
            /\ r.status \in {"absent", "pending"} => r.approvedAt = Unset /\ r.rejectedAt = Unset
            /\ r.status \in Decided => answered(r.status)
            /\ answered("expired") => r.expires < now

(* The life of an approval as a client sees it.                              *)
StatusOf == [a \in Ids |-> rows[a].status]

StampsOf ==
    [a \in Ids |-> {field \in {"approved_at", "rejected_at"} :
                       (IF field = "approved_at" THEN rows[a].approvedAt
                                                 ELSE rows[a].rejectedAt) # Unset}]

DecidingOf ==
    {<<w, task[w].id, task[w].kind>> : w \in {v \in Workers : task[v].kind \in Decided}}

Lifecycle == INSTANCE ApprovalLifecycle
    WITH Deciders <- Workers, status <- StatusOf, stamps <- StampsOf, deciding <- DecidingOf

LifecycleSpec == Lifecycle!Spec

=============================================================================
