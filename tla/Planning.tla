------------------------------ MODULE Planning ------------------------------
(***************************************************************************)
(* From an incident to a decided approval: the backend's routes under      *)
(* /remediation that make a plan, ask for its approval and pass decisions  *)
(* on, composed with the planner and the approval engine they call.        *)
(*                                                                         *)
(* A route awaits the other service, so its caller may get an error while  *)
(* the service goes on; and the engine's port is published, so anybody may *)
(* ask it directly, for any plan id and severity and for any decision.     *)
(* serving[w] is the route that awaits what process w of the engine does,  *)
(* if one still does.                                                      *)
(***************************************************************************)
EXTENDS Approval, RootCauses

CONSTANTS
    Handlers,   \* threads and tasks of the backend that serve these routes
    Evidence,   \* the sets of anomalous metrics that incidents have
    Nobody      \* the caller that is not the backend, or no longer there

ASSUME PlanningAssumption ==
    /\ Evidence \subseteq SUBSET Metrics
    /\ Nobody \notin Handlers

VARIABLES
    plans,     \* the remediation_plans table, by plan id
    handler,   \* what each route is doing
    serving,   \* whom each process of the engine works for
    audit      \* the remediation.* rows: an event, its approval, its plan if it names one

backendVars == <<plans, handler, audit>>
planningVars == <<vars, backendVars, serving>>

PlanRow == [status: {"absent", "pending"}, action: DOMAIN Required \cup {"none"},
            params: SUBSET UNION {Required[c] : c \in DOMAIN Required}, minor: BOOLEAN]

NoRoute == [at |-> "idle"]

Unstored == [status |-> "absent", action |-> "none", params |-> {}, minor |-> FALSE]

PlanningInit ==
    /\ Init
    /\ plans = [p \in Plans |-> Unstored]
    /\ handler = [h \in Handlers |-> NoRoute]
    /\ serving = [w \in Workers |-> Nobody]
    /\ audit = {}

-----------------------------------------------------------------------------
\* Plans

\* create_remediation_plan of the planner.  The namespace lookup, the AI's text
\* and the post of the plan to the backend, which refuses it, change nothing.
Planned(cause, minor) ==
    LET action == Action(cause) IN
    [status |-> "pending", action |-> action, params |-> Parameters(action), minor |-> minor]

(* POST /remediation/plans: the planner has drawn the id p and answered.     *)
CreatePlan(h, p, cause, minor) ==
    /\ handler[h] = NoRoute
    /\ plans[p].status = "absent"
    /\ \A g \in Handlers : handler[g].at = "storing" => handler[g].plan # p
    /\ handler' = [handler EXCEPT ![h] =
                       [at |-> "storing", plan |-> p, row |-> Planned(cause, minor)]]
    /\ UNCHANGED <<vars, plans, serving, audit>>

(* add_remediation_plan; when it fails the plan is answered all the same.    *)
StorePlan(h, ok) ==
    /\ handler[h].at = "storing"
    /\ plans' = IF ok THEN [plans EXCEPT ![handler[h].plan] = handler[h].row] ELSE plans
    /\ handler' = [handler EXCEPT ![h] = NoRoute]
    /\ UNCHANGED <<vars, serving, audit>>

-----------------------------------------------------------------------------
\* Approvals

Awaiting(event, target) == [at |-> "waiting", event |-> event, target |-> target]

\* Mutant of AskApproval: the plan is not looked up.
AskApproval_Unstored(h, p) ==
    /\ handler[h] = NoRoute
    /\ handler' = [handler EXCEPT ![h] = Awaiting("requested", p)]
    /\ UNCHANGED <<vars, plans, serving, audit>>

(* POST /remediation/approve/{plan_id}: 404 for a plan that is not stored.   *)
AskApproval(h, p) ==
    /\ handler[h] = NoRoute
    /\ plans[p].status # "absent"
    /\ handler' = [handler EXCEPT ![h] = Awaiting("requested", p)]
    /\ UNCHANGED <<vars, plans, serving, audit>>

(* PATCH /remediation/approvals/{approval_id}/approve and .../reject         *)
PassDecision(h, a, event) ==
    /\ handler[h] = NoRoute
    /\ handler' = [handler EXCEPT ![h] = Awaiting(event, a)]
    /\ UNCHANGED <<vars, plans, serving, audit>>

Taken(h) == \E w \in Workers : serving[w] = h

Decide(w, a, event) == IF event = "approved" THEN Approve(w, a) ELSE Reject(w, a)

(* A process of the engine reads the request of h.                           *)
Take(w, h) ==
    /\ handler[h].at = "waiting"
    /\ ~Taken(h)
    /\ LET r == handler[h] IN
       IF r.event = "requested"
       THEN \E a \in Ids : RequestApproval(w, a, r.target, plans[r.target].minor)
       ELSE Decide(w, r.target, r.event)
    /\ serving' = [serving EXCEPT ![w] = h]
    /\ UNCHANGED backendVars

(* 404 or 400: there is nothing pending to decide, and no audit row.         *)
Refuse(h) ==
    /\ handler[h].at = "waiting"
    /\ handler[h].event # "requested"
    /\ ~Taken(h)
    /\ rows[handler[h].target].status # "pending"
    /\ handler' = [handler EXCEPT ![h] = NoRoute]
    /\ UNCHANGED <<vars, plans, serving, audit>>

(* A request that the engine is sent directly, or reads after its caller     *)
(* gave up: the plan need not exist, and the severity is whatever it says.   *)
RequestForNobody(w, a, p, minor) ==
    /\ RequestApproval(w, a, p, minor)
    /\ serving' = [serving EXCEPT ![w] = Nobody]
    /\ UNCHANGED backendVars

(* A decision that the engine is sent directly, through its own or its       *)
(* legacy routes, or reads after its caller gave up.                         *)
DecideForNobody(w, a, event) ==
    /\ Decide(w, a, event)
    /\ serving' = [serving EXCEPT ![w] = Nobody]
    /\ UNCHANGED backendVars

\* The route that process w works for gets its answer.
Answer(w, answer) ==
    /\ handler' = IF serving[w] = Nobody THEN handler
                  ELSE [handler EXCEPT ![serving[w]] = answer]
    /\ serving' = [serving EXCEPT ![w] = Nobody]
    /\ UNCHANGED <<plans, audit>>

Auditing(event, a, p) == [at |-> "auditing", event |-> event, approval |-> a, plan |-> p]

\* The audit row of a request names the plan of the route, not that of the answer.
AnswerInsert(w) ==
    /\ CommitInsert(w)
    /\ Answer(w, IF serving[w] = Nobody THEN NoRoute
                 ELSE Auditing("requested", task[w].id, handler[serving[w]].target))

(* A late approval answers 400 "Approval request expired".                   *)
AnswerDecision(w) ==
    /\ CommitDecision(w)
    /\ Answer(w, IF task[w].kind = "expired" THEN NoRoute
                 ELSE Auditing(task[w].kind, task[w].id, NoPlan))

\* Mutant of AnswerFailure: an error of the engine counts as a decision.
AnswerFailure_Audited(w) ==
    /\ Fail(w)
    /\ Answer(w, IF task[w].kind \in {"approved", "rejected"}
                 THEN Auditing(task[w].kind, task[w].id, NoPlan) ELSE NoRoute)

(* The engine answers 500 or its process dies: the caller gets 500 or 503.   *)
AnswerFailure(w) ==
    /\ Fail(w)
    /\ Answer(w, NoRoute)

(* write_audit swallows its errors.                                          *)
WriteAudit(h, ok) ==
    /\ handler[h].at = "auditing"
    /\ audit' = IF ok
                THEN audit \cup {<<handler[h].event, handler[h].approval, handler[h].plan>>}
                ELSE audit
    /\ handler' = [handler EXCEPT ![h] = NoRoute]
    /\ UNCHANGED <<vars, plans, serving>>

(* A timeout (30 s for a request, 10 s for a decision), or the death of the  *)
(* backend: what the engine was sent stays sent, and is from now on for      *)
(* nobody.                                                                   *)
GiveUp(h) ==
    /\ handler[h] # NoRoute
    /\ handler' = [handler EXCEPT ![h] = NoRoute]
    /\ serving' = [w \in Workers |-> IF serving[w] = h THEN Nobody ELSE serving[w]]
    /\ UNCHANGED <<vars, plans, audit>>

Backend(h) ==
    \/ \E p \in Plans :
           \/ \E metrics \in Evidence, minor \in BOOLEAN :
                  \E cause \in Causes(metrics) : CreatePlan(h, p, cause, minor)
           \/ AskApproval(h, p)
    \/ \E ok \in BOOLEAN : StorePlan(h, ok) \/ WriteAudit(h, ok)
    \/ \E a \in Ids, event \in {"approved", "rejected"} : PassDecision(h, a, event)
    \/ Refuse(h)
    \/ GiveUp(h)

Engine(w) ==
    \/ \E h \in Handlers : Take(w, h)
    \/ \E a \in Ids, event \in {"approved", "rejected"} : DecideForNobody(w, a, event)
    \/ \E a \in Ids, p \in Plans, minor \in BOOLEAN : RequestForNobody(w, a, p, minor)
    \/ AnswerInsert(w)
    \/ AnswerDecision(w)
    \/ AnswerFailure(w)

Passing == Tick /\ UNCHANGED <<backendVars, serving>>

PlanningNext ==
    \/ Passing
    \/ \E h \in Handlers : Backend(h)
    \/ \E w \in Workers : Engine(w)

PlanningSpec == PlanningInit /\ [][PlanningNext]_planningVars

-----------------------------------------------------------------------------
\* Properties

(* Every plan the dashboard can send on to approval is a row of the table    *)
(* and carries what its command needs, whatever the evidence and whoever     *)
(* made the root cause.                                                      *)
PlansAreWhole ==
    \A p \in Plans :
        /\ plans[p] \in PlanRow
        /\ plans[p].status # "absent" => Whole(plans[p].action, plans[p].params)

(* What the backend says it asked for is what the engine has: although an    *)
(* answer may be lost, and the engine is asked by others for plans that do   *)
(* not exist, an audited request is of a stored plan, its approval is of     *)
(* that plan, and was given without anybody only if that plan is minor.      *)
AuditedRequestsAreOfPlans ==
    \A e \in audit : e[1] = "requested" =>
        /\ plans[e[3]].status # "absent"
        /\ rows[e[2]].plan = e[3]
        /\ rows[e[2]].auto => plans[e[3]].minor

(* The audit trail claims no decision that was not made: an audited request  *)
(* has its row, and an audited approval or rejection was written, as that    *)
(* and not as an expiry, also when two processes decided one approval and    *)
(* the later one won.                                                        *)
AuditedWasDecided ==
    \A e \in audit :
        /\ rows[e[2]].status # "absent"
        /\ e[1] # "requested" => <<e[2], e[1]>> \in decided
=============================================================================
