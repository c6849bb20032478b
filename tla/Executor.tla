------------------------------ MODULE Executor ------------------------------
(***************************************************************************)
(* The sandbox executor.  Each process of the service has a queue and one  *)
(* worker task.  POST /execute puts its request and a future on the queue  *)
(* and awaits the future; the worker takes requests one at a time, asks    *)
(* the approval engine, validates, runs the command in a thread (up to     *)
(* MaxAttempts times when running it raises), verifies, reports to         *)
(* Telegram, and resolves the future.                                      *)
(*                                                                         *)
(* Every await of the worker ends a step: requests arrive and processes    *)
(* die in between.  The answers of the approval engine, of the command, of *)
(* the backend (verification) and of Telegram are inputs.                  *)
(***************************************************************************)
EXTENDS Naturals, Sequences

CONSTANTS
    Procs,        \* processes of the service (Dockerfile: --workers 2)
    Reqs,         \* calls of POST /execute
    None,         \* no request
    DryRun,       \* processes started with DRY_RUN=true: commands are rendered, not run
    MaxAttempts,  \* stop_after_attempt(3)
    FailMax       \* fail_max=5 of the approval breaker

ASSUME ExecutorAssumption ==
    /\ None \notin Reqs
    /\ None \notin Procs
    /\ DryRun \in SUBSET Procs
    /\ MaxAttempts \in Nat \ {0}
    /\ FailMax \in Nat \ {0}

VARIABLES
    queue,      \* the asyncio.Queue of each process
    pc,         \* where each process's worker task is
    cur,        \* the request it executes
    active,     \* SandboxExecutor.active
    partial,    \* the command result it holds while it verifies and reports
    breaker,    \* the validator's circuit breaker
    store,      \* execution_store: results each process remembers
    home,       \* the process that accepted each request
    future,     \* each request's future
    replied,    \* requests whose handler has answered its caller
    granted,    \* history: requests whose approval lookup said approved
    attempts    \* history: how often each request's command was started

procVars == <<queue, pc, cur, active, partial, breaker, store>>
reqVars == <<home, future, replied, granted, attempts>>
vars == <<procVars, reqVars>>

PB == INSTANCE PyBreaker

\* Validation: fine; command or argument refused; a parameter that the argv
\* template names is missing, and building the argv raises KeyError.
Verdicts == {"ok", "refused", "unbuildable"}

Results == {"rejected", "success", "failed"}

Futures == {"none", "waiting", "error", "lost"} \cup Results

Stages == {"down", "idle", "approval", "run", "running", "verify", "notify"}

\* What a lookup ends in: the status is approved; it is not, or the answer is
\* not 200; the call raised; the open breaker refused it.
Answers == {"approved", "denied", "raised", "refused"}

Init ==
    /\ queue = [p \in Procs |-> <<>>]
    /\ pc = [p \in Procs |-> "idle"]
    /\ cur = [p \in Procs |-> None]
    /\ active = [p \in Procs |-> 0]
    /\ partial = [p \in Procs |-> "none"]
    /\ breaker = [p \in Procs |-> PB!Fresh]
    /\ store = [p \in Procs |-> {}]
    /\ home = [r \in Reqs |-> None]
    /\ future = [r \in Reqs |-> "none"]
    /\ replied = {}
    /\ granted = {}
    /\ attempts = [r \in Reqs |-> 0]

-----------------------------------------------------------------------------
\* The handler.

(* POST /execute up to its await: a new future, and the pair on the queue.   *)
Submit(p, r) ==
    /\ pc[p] # "down"
    /\ future[r] = "none"
    /\ queue' = [queue EXCEPT ![p] = Append(@, r)]
    /\ future' = [future EXCEPT ![r] = "waiting"]
    /\ home' = [home EXCEPT ![r] = p]
    /\ UNCHANGED <<pc, cur, active, partial, breaker, store, replied, granted, attempts>>

\* Mutant of Respond: exceptions are remembered like results.
Respond_StoresErrors(r) ==
    /\ future[r] \in Results \cup {"error"}
    /\ r \notin replied
    /\ replied' = replied \cup {r}
    /\ store' = [store EXCEPT ![home[r]] = @ \cup {r}]
    /\ UNCHANGED <<queue, pc, cur, active, partial, breaker,
                   home, future, granted, attempts>>

(* POST /execute after its await: a result is stored and returned, an        *)
(* exception becomes a 500 and is not.                                       *)
Respond(r) ==
    /\ future[r] \in Results \cup {"error"}
    /\ r \notin replied
    /\ replied' = replied \cup {r}
    /\ store' = IF future[r] \in Results
                THEN [store EXCEPT ![home[r]] = @ \cup {r}]
                ELSE store
    /\ UNCHANGED <<queue, pc, cur, active, partial, breaker,
                   home, future, granted, attempts>>

-----------------------------------------------------------------------------
\* The worker task.

Dequeue(p) ==
    /\ pc[p] = "idle"
    /\ queue[p] # <<>>
    /\ cur' = [cur EXCEPT ![p] = Head(queue[p])]
    /\ queue' = [queue EXCEPT ![p] = Tail(@)]
    /\ active' = [active EXCEPT ![p] = @ + 1]
    /\ pc' = [pc EXCEPT ![p] = "approval"]
    /\ UNCHANGED <<partial, breaker, store, reqVars>>

\* The future is resolved and the loop returns to its queue; the finally
\* clause runs whether _execute returned or raised.
Finish(p, outcome) ==
    /\ future' = [future EXCEPT ![cur[p]] = outcome]
    /\ cur' = [cur EXCEPT ![p] = None]
    /\ pc' = [pc EXCEPT ![p] = "idle"]
    /\ active' = [active EXCEPT ![p] = @ - 1]
    /\ partial' = [partial EXCEPT ![p] = "none"]

\* The worker goes on with the same request, holding result res.
Continue(p, stage, res) ==
    /\ pc' = [pc EXCEPT ![p] = stage]
    /\ partial' = [partial EXCEPT ![p] = res]
    /\ UNCHANGED <<cur, active, future>>

\* After ensure_approved returned ok: validate, build the argv, start.
Validated(p, verdict) ==
    CASE verdict = "refused"     -> Finish(p, "rejected")
      [] verdict = "unbuildable" -> Finish(p, "error")
      [] verdict = "ok"          -> IF p \in DryRun
                                    THEN Continue(p, "verify", "success")
                                    ELSE Continue(p, "run", "none")

\* Mutant of EnsureApproved: a lookup that raises lets the request through.
EnsureApproved_FailOpen(p, ans, verdict) ==
    /\ pc[p] = "approval"
    /\ ans # "refused"
    /\ UNCHANGED breaker
    /\ granted' = IF ans = "approved" THEN granted \cup {cur[p]} ELSE granted
    /\ IF ans = "denied" THEN Finish(p, "rejected") ELSE Validated(p, verdict)
    /\ UNCHANGED <<queue, store, home, replied, attempts>>

(* ensure_approved, and everything up to the next await.                     *)
EnsureApproved(p, ans, verdict) ==
    /\ pc[p] = "approval"
    /\ ans = "refused" => breaker[p].open
    /\ breaker' = [breaker EXCEPT ![p] =
                       CASE ans = "refused" -> @
                         [] ans = "raised"  -> PB!Raised(@)
                         [] OTHER           -> PB!Succeeded(@)]
    /\ granted' = IF ans = "approved" THEN granted \cup {cur[p]} ELSE granted
    /\ CASE ans = "approved" -> Validated(p, verdict)
         [] ans = "denied"   -> Finish(p, "rejected")
         [] OTHER            -> Finish(p, "error")
    /\ UNCHANGED <<queue, store, home, replied, attempts>>

(* The thread starts the subprocess.                                         *)
Launch(p) ==
    /\ pc[p] = "run"
    /\ attempts' = [attempts EXCEPT ![cur[p]] = @ + 1]
    /\ pc' = [pc EXCEPT ![p] = "running"]
    /\ UNCHANGED <<queue, cur, active, partial, breaker, store,
                   home, future, replied, granted>>

(* subprocess.run ends: exit code 0, another exit code (no retry), or an     *)
(* exception such as its 60 s timeout, retried until the attempts run out.   *)
Complete(p, outcome) ==
    /\ pc[p] = "running"
    /\ CASE outcome = "zero"    -> Continue(p, "verify", "success")
         [] outcome = "nonzero" -> Continue(p, "verify", "failed")
         [] outcome = "raised"  -> IF attempts[cur[p]] < MaxAttempts
                                   THEN Continue(p, "run", "none")
                                   ELSE Finish(p, "error")
    /\ UNCHANGED <<queue, breaker, store, home, replied, granted, attempts>>

(* verifier.verify: it may raise, after the command ran.                     *)
Verify(p, raised) ==
    /\ pc[p] = "verify"
    /\ IF raised THEN Finish(p, "error") ELSE Continue(p, "notify", partial[p])
    /\ UNCHANGED <<queue, breaker, store, home, replied, granted, attempts>>

\* Mutant of Notify: the worker survives an exception but forgets the future.
Notify_FutureDropped(p, raised) ==
    /\ pc[p] = "notify"
    /\ Finish(p, IF raised THEN "waiting" ELSE partial[p])
    /\ UNCHANGED <<queue, breaker, store, home, replied, granted, attempts>>

(* telegram send: sent or not configured; or it raises.                      *)
Notify(p, raised) ==
    /\ pc[p] = "notify"
    /\ Finish(p, IF raised THEN "error" ELSE partial[p])
    /\ UNCHANGED <<queue, breaker, store, home, replied, granted, attempts>>

Work(p) ==
    \/ Dequeue(p)
    \/ \E ans \in Answers, verdict \in Verdicts : EnsureApproved(p, ans, verdict)
    \/ Launch(p)
    \/ \E outcome \in {"zero", "nonzero", "raised"} : Complete(p, outcome)
    \/ \E raised \in BOOLEAN : Verify(p, raised)
    \/ \E raised \in BOOLEAN : Notify(p, raised)

-----------------------------------------------------------------------------
\* The processes.

Unanswered(p) == {r \in Reqs : home[r] = p /\ future[r] # "none" /\ r \notin replied}

\* Queue, worker, breaker and store live in the process's memory.
Clear(p) ==
    /\ queue' = [queue EXCEPT ![p] = <<>>]
    /\ pc' = [pc EXCEPT ![p] = "down"]
    /\ cur' = [cur EXCEPT ![p] = None]
    /\ active' = [active EXCEPT ![p] = 0]
    /\ partial' = [partial EXCEPT ![p] = "none"]
    /\ breaker' = [breaker EXCEPT ![p] = PB!Fresh]
    /\ store' = [store EXCEPT ![p] = {}]
    /\ UNCHANGED <<home, granted, attempts>>

(* The process is killed: callers of unanswered requests lose their          *)
(* connection.                                                               *)
Crash(p) ==
    /\ pc[p] # "down"
    /\ future' = [r \in Reqs |-> IF r \in Unanswered(p) THEN "lost" ELSE future[r]]
    /\ replied' = replied \cup Unanswered(p)
    /\ Clear(p)

\* Mutant of Stop: the worker is cancelled before the handlers are drained.
Stop_Undrained(p) ==
    /\ pc[p] # "down"
    /\ Clear(p)
    /\ UNCHANGED <<future, replied>>

(* The shutdown event: the server drains its handlers first, then stop()     *)
(* cancels the worker.                                                       *)
Stop(p) ==
    /\ pc[p] # "down"
    /\ Unanswered(p) = {}
    /\ Clear(p)
    /\ UNCHANGED <<future, replied>>

(* The startup event of a new process creates the worker.                    *)
Start(p) ==
    /\ pc[p] = "down"
    /\ pc' = [pc EXCEPT ![p] = "idle"]
    /\ UNCHANGED <<queue, cur, active, partial, breaker, store, reqVars>>

Next ==
    \/ \E p \in Procs, r \in Reqs : Submit(p, r)
    \/ \E r \in Reqs : Respond(r)
    \/ \E p \in Procs : Work(p) \/ Crash(p) \/ Stop(p) \/ Start(p)

Spec == Init /\ [][Next]_vars

(* Every await of the worker has a timeout (5 s lookup, 60 s command, 10 s   *)
(* verification, the Telegram client's own), and the event loop runs ready   *)
(* tasks: an enabled step of the worker or of a handler is taken.            *)
Fairness ==
    /\ \A p \in Procs : WF_vars(Work(p))
    /\ \A r \in Reqs : WF_vars(Respond(r))

-----------------------------------------------------------------------------
\* What the service promises.

TypeOK ==
    /\ queue \in [Procs -> Seq(Reqs)]
    /\ pc \in [Procs -> Stages]
    /\ cur \in [Procs -> Reqs \cup {None}]
    /\ active \in [Procs -> {0, 1}]
    /\ partial \in [Procs -> {"none", "success", "failed"}]
    /\ breaker \in [Procs -> PB!Breaker]
    /\ store \in [Procs -> SUBSET Reqs]
    /\ home \in [Reqs -> Procs \cup {None}]
    /\ future \in [Reqs -> Futures]
    /\ replied \in SUBSET Reqs
    /\ granted \in SUBSET Reqs
    /\ attempts \in [Reqs -> 0 .. MaxAttempts]

Executing(p) == cur[p] # None

Queued(p, r) == \E i \in DOMAIN queue[p] : queue[p][i] = r

AwaitedIsHeld ==
    \A r \in Reqs : future[r] = "waiting" =>
        home[r] \in Procs /\ (cur[home[r]] = r \/ Queued(home[r], r))

ExecutedIsAwaited ==
    \A p \in Procs : Executing(p) =>
        future[cur[p]] = "waiting" /\ home[cur[p]] = p /\ ~ Queued(p, cur[p])

QueuedIsAwaited ==
    \A p \in Procs : \A i \in DOMAIN queue[p] :
        /\ future[queue[p][i]] = "waiting"
        /\ home[queue[p][i]] = p
        /\ \A j \in DOMAIN queue[p] : queue[p][j] = queue[p][i] => j = i

(* No request hangs and none is executed twice: an awaited future is held    *)
(* by exactly one place of its own process, its queue (once) or its worker,  *)
(* and nothing else is.                                                      *)
EachAwaitedOnce == AwaitedIsHeld /\ ExecutedIsAwaited /\ QueuedIsAwaited

(* The command of a request starts only after its own lookup said approved,  *)
(* and never in a process in dry-run mode.                                   *)
StartsOnlyIfGranted ==
    \A r \in Reqs : attempts[r] > 0 => r \in granted /\ home[r] \notin DryRun

(* What the caller is told agrees with what was done: a rejected request     *)
(* never started its command, a success or failure did (or is a dry run),    *)
(* and a stored result is one that was returned by the process storing it.   *)
AnswerMatchesRuns ==
    /\ \A r \in Reqs : future[r] = "rejected" => attempts[r] = 0
    /\ \A r \in Reqs : future[r] \in {"success", "failed"} => home[r] \in DryRun \/ attempts[r] > 0
    /\ \A p \in Procs : \A r \in store[p] : home[r] = p /\ future[r] \in Results /\ r \in replied

(* Every accepted request is eventually answered.                            *)
EveryRequestAnswered ==
    \A r \in Reqs : future[r] = "waiting" ~> r \in replied

=============================================================================
