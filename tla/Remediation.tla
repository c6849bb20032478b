---------------------------- MODULE Remediation ----------------------------
(***************************************************************************)
(* Executing a remediation plan: the backend's POST                        *)
(* /remediation/execute/{plan_id}?approval_id=..., composed with the       *)
(* approval engine and the sandbox executor it calls.                      *)
(*                                                                         *)
(* Each call is a handler r of the backend, or a call of the executor's    *)
(* own port, which is published; between two of its awaits the approval    *)
(* may be decided, the clock may pass the approval's expiry, the executor  *)
(* may still be busy with other requests, and processes may die.           *)
(***************************************************************************)
EXTENDS Executor

CONSTANTS
    Workers, Ids, Plans, NoPlan, AutoApproveMinor, TTL, MaxTime  \* Approval

VARIABLES
    now, rows, task, decided,   \* Approval
    call,       \* where each execute call is in the backend, if it is there
    args,       \* the plan and the approval id each call was made with
    log,        \* calls with a row in execution_log
    audit       \* calls with a "remediation.executed" row in audit

A == INSTANCE Approval

ASSUME RemediationAssumption == A!ApprovalAssumption

approvalVars == <<now, rows, task, decided>>
backendVars == <<call, args, log, audit>>
remediationVars == <<approvalVars, vars, backendVars>>

CallStates == {"idle", "status", "baseline", "posted", "done", "failed", "direct"}

NoArgs == [plan |-> NoPlan, approval |-> None]

RemediationInit ==
    /\ A!Init
    /\ Init
    /\ call = [r \in Reqs |-> "idle"]
    /\ args = [r \in Reqs |-> NoArgs]
    /\ log = {}
    /\ audit = {}

-----------------------------------------------------------------------------

(* The call arrives: the plan exists, the approval id is the caller's.       *)
Execute(r, p, a) ==
    /\ call[r] = "idle"
    /\ call' = [call EXCEPT ![r] = "status"]
    /\ args' = [args EXCEPT ![r] = [plan |-> p, approval |-> a]]
    /\ UNCHANGED <<approvalVars, vars, log, audit>>

(* The executor is called without the backend, with any approval id.         *)
ExecuteDirectly(r, p, a, e) ==
    /\ call[r] = "idle"
    /\ Submit(e, r)
    /\ call' = [call EXCEPT ![r] = "direct"]
    /\ args' = [args EXCEPT ![r] = [plan |-> p, approval |-> a]]
    /\ UNCHANGED <<approvalVars, log, audit>>

ApprovedAndCurrent(a) == rows[a].status = "approved" /\ ~ rows[a].expires < now

(* GET /status/{approval_id}: approved and not past its expiry, or 403.      *)
CheckStatus(r) ==
    /\ call[r] = "status"
    /\ call' = [call EXCEPT ![r] =
                    IF ApprovedAndCurrent(args[r].approval) THEN "baseline" ELSE "failed"]
    /\ UNCHANGED <<approvalVars, vars, args, log, audit>>

(* The baseline metrics have come (or not: they are optional), and the       *)
(* command is posted to a process of the executor.                           *)
Post(r, e) ==
    /\ call[r] = "baseline"
    /\ Submit(e, r)
    /\ call' = [call EXCEPT ![r] = "posted"]
    /\ UNCHANGED <<approvalVars, args, log, audit>>

\* Mutant of Receive: the status code is not looked at.
Receive_AnyStatus(r, logged, audited) ==
    /\ call[r] = "posted"
    /\ r \in replied
    /\ call' = [call EXCEPT ![r] = "done"]
    /\ log' = IF logged THEN log \cup {r} ELSE log
    /\ audit' = IF audited THEN audit \cup {r} ELSE audit
    /\ UNCHANGED <<approvalVars, vars, args>>

(* The executor answered.  A 200 is logged and audited, and a failure of     *)
(* either write is swallowed; anything else becomes a 500 without a trace.   *)
Receive(r, logged, audited) ==
    /\ call[r] = "posted"
    /\ r \in replied
    /\ IF future[r] \in Results
       THEN /\ call' = [call EXCEPT ![r] = "done"]
            /\ log' = IF logged THEN log \cup {r} ELSE log
            /\ audit' = IF audited THEN audit \cup {r} ELSE audit
       ELSE /\ call' = [call EXCEPT ![r] = "failed"]
            /\ UNCHANGED <<log, audit>>
    /\ UNCHANGED <<approvalVars, vars, args>>

(* A request of the handler fails or times out (600 s), or the backend dies: *)
(* the call is over, whatever the executor goes on to do.                    *)
GiveUp(r) ==
    /\ call[r] \in {"status", "baseline", "posted"}
    /\ call' = [call EXCEPT ![r] = "failed"]
    /\ UNCHANGED <<approvalVars, vars, args, log, audit>>

\* Mutant of LookupIsHonest: what has an approved_at is taken to be approved.
LookupIsHonest_Stamped ==
    \A r \in granted' \ granted : rows[args[r].approval].approvedAt # A!Unset

(* A lookup by the executor says approved only if the row says so now; it    *)
(* looks at nothing but the status.                                          *)
LookupIsHonest ==
    \A r \in granted' \ granted : rows[args[r].approval].status = "approved"

ExecutorStep ==
    /\ \/ \E r \in Reqs : Respond(r)
       \/ \E e \in Procs : Work(e) \/ Crash(e) \/ Stop(e) \/ Start(e)
    /\ LookupIsHonest
    /\ UNCHANGED <<approvalVars, backendVars>>

ApprovalStep == A!Next /\ UNCHANGED <<vars, backendVars>>

BackendStep ==
    \E r \in Reqs :
        \/ \E p \in Plans, a \in Ids :
               Execute(r, p, a) \/ \E e \in Procs : ExecuteDirectly(r, p, a, e)
        \/ CheckStatus(r)
        \/ \E e \in Procs : Post(r, e)
        \/ \E logged, audited \in BOOLEAN : Receive(r, logged, audited)
        \/ GiveUp(r)

RemediationNext == ApprovalStep \/ ExecutorStep \/ BackendStep

RemediationSpec == RemediationInit /\ [][RemediationNext]_remediationVars

-----------------------------------------------------------------------------
\* What executing a plan promises.

RemediationTypeOK ==
    /\ A!TypeOK
    /\ TypeOK
    /\ call \in [Reqs -> CallStates]
    /\ args \in [Reqs -> [plan: Plans, approval: Ids] \cup {NoArgs}]
    /\ log \in SUBSET Reqs
    /\ audit \in SUBSET Reqs

(* A command has been started only for a call whose approval somebody, or    *)
(* the rule for minor plans, did give, and had given by then: whatever was   *)
(* decided by several processes, queued, retried or restarted in between.    *)
RunsOnlyApproved ==
    \A r \in Reqs : attempts[r] > 0 => <<args[r].approval, "approved">> \in decided

(* The execution log and the audit trail tell no lies: a recorded call is    *)
(* one the executor answered with a result, to a caller still listening.     *)
RecordsAreAnswers ==
    \A r \in log \cup audit :
        /\ call[r] = "done"
        /\ r \in replied
        /\ future[r] \in Results
        /\ future[r] # "rejected" => home[r] \in DryRun \/ attempts[r] > 0

\* The life of the approvals, under the calls that execute plans.
LifecycleSpec == A!LifecycleSpec

-----------------------------------------------------------------------------
\* What the documents say and the code does not do.

(* README: the sandbox executor runs the approved command.                   *)
RunsTheApprovedPlan ==
    \A r \in Reqs : attempts[r] > 0 /\ call[r] # "direct" =>
        rows[args[r].approval].plan = args[r].plan

(* README: plans require explicit approval before execution; and a decided   *)
(* approval is not decided again (400 "Approval already ...").  So a command *)
(* that starts should have an approval that has not been rejected.           *)
StartsWhileApproved ==
    [][\A r \in Reqs : attempts'[r] > attempts[r] =>
           rows[args[r].approval].status = "approved"]_remediationVars

=============================================================================
