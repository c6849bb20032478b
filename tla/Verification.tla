---------------------------- MODULE Verification ----------------------------
(***************************************************************************)
(* The verification engine and the backend's POST                          *)
(* /remediation/verify/{execution_id}: a minute after an execution, the    *)
(* metric is measured again and compared with a baseline.                  *)
(*                                                                         *)
(* A process of the engine keeps the verifications it made in memory; the  *)
(* backend writes the answers it gets to verification_results.  A call is  *)
(* followed from its caller (call) and in the engine (job): either side    *)
(* can go on without the other.                                            *)
(***************************************************************************)
EXTENDS Integers

CONSTANTS
    Workers,        \* processes of the engine
    Execs,          \* executions
    Calls,          \* verification requests
    Means,          \* the values a mean of the metric may take
    Spreads,        \* the values its standard deviation may take
    NoData,         \* the empty answer of a metric query
    NoCall,
    SuccessPercent, \* 100 * VERIFICATION_SUCCESS_THRESHOLD
    ZTargetTenths   \* 10 * Z_SCORE_IMPROVEMENT_TARGET

Snapshots == [mean: Means, stdev: Spreads]

ASSUME VerificationAssumption ==
    /\ Means \subseteq Nat
    /\ Spreads \subseteq Nat
    /\ SuccessPercent \in Nat \ {0}
    /\ ZTargetTenths \in Nat \ {0}
    /\ NoData \notin Snapshots

VARIABLES
    execution,  \* "new", then "logged" or, when the insert failed, "unlogged"
    baseline,   \* what the execute call measured before its command ran
    call,       \* where the caller of a verification is
    job,        \* where the engine is with it
    req,        \* what was asked: execution, origin, process and baseline
    post,       \* what was measured after the wait
    verification_store, \* of each process
    table       \* verifications with a row in verification_results

verifyVars == <<execution, baseline, call, job, req, post, verification_store, table>>

CallStates == {"idle", "waiting", "done", "failed"}

JobStates == {"none", "sleeping", "persisting", "answered", "lost"}

NoRequest == [exec |-> NoCall, origin |-> "backend", worker |-> NoCall, pre |-> NoData]

Requests == [exec: Execs, origin: {"backend", "direct"}, worker: Workers,
             pre: Snapshots \cup {NoData}]

VerifyInit ==
    /\ execution = [x \in Execs |-> "new"]
    /\ baseline = [x \in Execs |-> NoData]
    /\ call = [v \in Calls |-> "idle"]
    /\ job = [v \in Calls |-> "none"]
    /\ req = [v \in Calls |-> NoRequest]
    /\ post = [v \in Calls |-> NoData]
    /\ verification_store = [w \in Workers |-> {}]
    /\ table = {}

-----------------------------------------------------------------------------
\* The verdict: VERIFICATION_SUCCESS_THRESHOLD and Z_SCORE_IMPROVEMENT_TARGET.

PreMean(pre) == IF pre = NoData THEN 0 ELSE pre.mean

\* A spread of zero, or none, counts as one.
PreSpread(pre) == IF pre = NoData \/ pre.stdev = 0 THEN 1 ELSE pre.stdev

\* Mutant of Success: the distance moved counts, whichever way it went.
Success_Unsigned(pre, after) ==
    LET drop == PreMean(pre) - after.mean
        moved == IF drop < 0 THEN - drop ELSE drop
    IN  10 * moved >= ZTargetTenths * PreSpread(pre)

(* The mean fell by the target share, or by the target number of standard    *)
(* deviations.                                                               *)
Success(pre, after) ==
    LET drop == PreMean(pre) - after.mean
    IN  \/ PreMean(pre) > 0 /\ 100 * drop >= SuccessPercent * PreMean(pre)
        \/ 10 * drop >= ZTargetTenths * PreSpread(pre)

Verdict(v) ==
    IF post[v] = NoData THEN "inconclusive"
    ELSE IF Success(req[v].pre, post[v]) THEN "resolved" ELSE "improving"

-----------------------------------------------------------------------------
\* The backend.

(* An execute call measures its baseline, has its command run and logs the   *)
(* execution, a failure of the insert being swallowed.                       *)
Executed(x, before, logged) ==
    /\ execution[x] = "new"
    /\ execution' = [execution EXCEPT ![x] = IF logged THEN "logged" ELSE "unlogged"]
    /\ baseline' = [baseline EXCEPT ![x] = before]
    /\ UNCHANGED <<call, job, req, post, verification_store, table>>

(* The baseline a row of execution_log gives back: the table has no column   *)
(* for it.                                                                   *)
LoggedBaseline(x) == NoData

\* A request reaches process w of the engine, which goes to sleep over it.
Accept(v, x, from, pre, w) ==
    /\ call' = [call EXCEPT ![v] = "waiting"]
    /\ job' = [job EXCEPT ![v] = "sleeping"]
    /\ req' = [req EXCEPT ![v] =
                   [exec |-> x, origin |-> from, worker |-> w, pre |-> pre]]
    /\ UNCHANGED <<execution, baseline, post, verification_store, table>>

\* Mutant of VerifyExecution: an execution without a row is not refused.
VerifyExecution_Unlogged(v, x, w) ==
    /\ call[v] = "idle"
    /\ Accept(v, x, "backend", LoggedBaseline(x), w)

(* The route: an execution without a row is a 404, which changes nothing.    *)
VerifyExecution(v, x, w) ==
    /\ call[v] = "idle"
    /\ execution[x] = "logged"
    /\ Accept(v, x, "backend", LoggedBaseline(x), w)

(* The engine's own route, asked with the baseline its caller has.           *)
VerifyDirectly(v, x, pre, w) ==
    /\ call[v] = "idle"
    /\ Accept(v, x, "direct", pre, w)

(* The caller hears from the engine, or of the end of its process.  The      *)
(* backend writes an answer down, a failure of the insert being swallowed.   *)
Receive(v, kept) ==
    /\ call[v] = "waiting"
    /\ job[v] \in {"answered", "lost"}
    /\ call' = [call EXCEPT ![v] = IF job[v] = "answered" THEN "done" ELSE "failed"]
    /\ table' = IF job[v] = "answered" /\ req[v].origin = "backend" /\ kept
                THEN table \cup {v} ELSE table
    /\ UNCHANGED <<execution, baseline, job, req, post, verification_store>>

(* The caller's timeout (600 s), or its death: the engine is not told.       *)
GiveUp(v) ==
    /\ call[v] = "waiting"
    /\ call' = [call EXCEPT ![v] = "failed"]
    /\ UNCHANGED <<execution, baseline, job, req, post, verification_store, table>>

-----------------------------------------------------------------------------
\* The engine.

(* The wait is over and the metric is queried (at most 10 s): without data   *)
(* the answer is "inconclusive" and kept nowhere.                            *)
Measure(v, after) ==
    /\ job[v] = "sleeping"
    /\ post' = [post EXCEPT ![v] = after]
    /\ IF after = NoData
       THEN /\ job' = [job EXCEPT ![v] = "answered"]
            /\ UNCHANGED verification_store
       ELSE /\ job' = [job EXCEPT ![v] = "persisting"]
            /\ verification_store' = [verification_store EXCEPT ![req[v].worker] = @ \cup {v}]
    /\ UNCHANGED <<execution, baseline, call, req, table>>

\* Mutant of Persist: the backend serves it once its own call is over.
Persist_WaitsForCaller(v) ==
    /\ job[v] = "persisting"
    /\ call[v] # "waiting"
    /\ job' = [job EXCEPT ![v] = "answered"]
    /\ UNCHANGED <<execution, baseline, call, req, post, verification_store, table>>

(* The engine posts the result to the backend, whose handler is waiting for  *)
(* this very result.  No route takes it: a 404, an error or the 10 s timeout *)
(* are all the same to the engine.                                           *)
Persist(v) ==
    /\ job[v] = "persisting"
    /\ job' = [job EXCEPT ![v] = "answered"]
    /\ UNCHANGED <<execution, baseline, call, req, post, verification_store, table>>

(* Process w dies and is started again: its memory and its jobs are gone.    *)
Restart(w) ==
    /\ verification_store' = [verification_store EXCEPT ![w] = {}]
    /\ job' = [v \in Calls |->
                  IF req[v].worker = w /\ job[v] \in {"sleeping", "persisting"}
                  THEN "lost" ELSE job[v]]
    /\ UNCHANGED <<execution, baseline, call, req, post, table>>

-----------------------------------------------------------------------------

VerifyNext ==
    \/ \E x \in Execs, before \in Snapshots \cup {NoData}, logged \in BOOLEAN :
           Executed(x, before, logged)
    \/ \E v \in Calls :
           \/ \E x \in Execs, w \in Workers : VerifyExecution(v, x, w)
           \/ \E x \in Execs, w \in Workers, pre \in Snapshots \cup {NoData} :
                  VerifyDirectly(v, x, pre, w)
           \/ \E kept \in BOOLEAN : Receive(v, kept)
           \/ GiveUp(v)
           \/ \E after \in Snapshots \cup {NoData} : Measure(v, after)
           \/ Persist(v)
    \/ \E w \in Workers : Restart(w)

VerifySpec == VerifyInit /\ [][VerifyNext]_verifyVars

(* The wait, the query and the post each end by a timer; an answer sent      *)
(* reaches a caller who listens.                                             *)
VerifyFairness ==
    \A v \in Calls :
        /\ WF_verifyVars(\E after \in Snapshots \cup {NoData} : Measure(v, after))
        /\ WF_verifyVars(Persist(v))
        /\ WF_verifyVars(\E kept \in BOOLEAN : Receive(v, kept))

-----------------------------------------------------------------------------
\* What the engine promises.

VerifyTypeOK ==
    /\ execution \in [Execs -> {"new", "logged", "unlogged"}]
    /\ baseline \in [Execs -> Snapshots \cup {NoData}]
    /\ call \in [Calls -> CallStates]
    /\ job \in [Calls -> JobStates]
    /\ req \in [Calls -> Requests \cup {NoRequest}]
    /\ post \in [Calls -> Snapshots \cup {NoData}]
    /\ verification_store \in [Workers -> SUBSET Calls]
    /\ table \in SUBSET Calls

(* A remediation is called resolved only if the mean it was asked about has  *)
(* fallen below the baseline given: whatever the spread, the thresholds, a   *)
(* missing baseline or a missing measurement.                                *)
ResolvedIsLower ==
    \A v \in Calls : Verdict(v) = "resolved" =>
        req[v].pre # NoData /\ post[v].mean < req[v].pre.mean

(* A row of verification_results is of a call that was answered, about an    *)
(* execution that has a row of its own, whatever call was given up, lost in  *)
(* a crash or made directly meanwhile.                                       *)
RowsAreOfLoggedExecutions ==
    \A v \in table :
        /\ call[v] = "done"
        /\ job[v] = "answered"
        /\ req[v].origin = "backend"
        /\ execution[req[v].exec] = "logged"

(* What a process serves from its store is a measured verification of its    *)
(* own, never an inconclusive or an unfinished one.                          *)
StoreIsMeasured ==
    \A w \in Workers : \A v \in verification_store[w] :
        /\ req[v].worker = w
        /\ Verdict(v) # "inconclusive"
        /\ job[v] \in {"persisting", "answered"}

(* Every caller is answered, although the engine calls the backend back      *)
(* while the backend waits for it, and although processes die.               *)
EveryCallEnds ==
    \A v \in Calls : call[v] = "waiting" ~> call[v] \in {"done", "failed"}

=============================================================================
