# KORAL in TLA+

A verification development of KORAL, the AI observability and remediation
platform of this repository: TLA+ modules of its services, TLC configurations
that check them on small instances, and TLAPS proofs for all instances. The
modules follow the Python code under `src/`; `PROJECT.json` maps each definition
to the lines it stands for and lists the runs, the mutants that show each
property can fail, the findings, the hazards and the theorems.

    tlc -config Remediation.cfg MCRemediation        # one run
    tlapm RemediationProofs.tla                      # one proof module

## 1. The system

KORAL detects anomalies in a Kubernetes cluster, correlates them into incidents,
plans a remediation, has it approved, executes it, verifies its effect and keeps
an audit trail. The parts, the state they keep and what makes them correct:

| Part | State | Operations | What makes it correct |
|---|---|---|---|
| Agents (`agents/`) | per agent: a bounded history, a spike flag set by another thread | measure, judge, post; `/debug/spike` | only what stands out is flagged |
| Correlation engine (`correlation-engine/`) | per process: a deque of points per series, used by a pool of threads | `/correlate`, `/correlate-batch` | windows stay in their length; each event is in one incident |
| Incident pipeline (`backend/services/processor.py`) | per process: bounded caches, a graph, two breakers; tables `anomalies`, `incidents` | process anomaly, correlation or rule fallback, AI task, notifier task | every anomaly is told of and explained; cache and table agree |
| AI engine (`ai_engine/`) | per process: an activity log, the clients of its feed | `/analyze`, `/ws/ai` | acts on real threats only; the feed misses nothing |
| Live updates (`backend/websocket/`) | list of connections with role and subscriptions | connect, disconnect, subscribe, broadcast | nobody entitled is missed, nobody else is told |
| Remediation planner (`remediation-planner/`) | none | create plan | a plan carries what its command needs |
| Approval engine (`approval-engine/`) | table `approvals`, shared by two uvicorn processes | request, approve, reject, lazy expiry, auto-approval | only a pending approval comes to be decided; its row tells how it was answered |
| Sandbox executor (`sandbox-executor/`) | per process: an asyncio queue, one worker task, a circuit breaker, `execution_store` | `POST /execute`, start, stop | nothing runs without an approved lookup; every caller is answered, truthfully |
| Backend, remediation (`backend/routes/remediation.py`) | tables `remediation_plans`, `execution_log`, `verification_results`, `audit` | plan, request approval, decide, execute, verify | only the approved is run; the records are true |
| Verification engine (`verification-engine/`) | `verification_store` per process | `POST /verify`, `GET /pre-metrics`, `GET /result` | "resolved" is earned; callers are answered |
| Gateway (`backend/main.py`, `rate_limit_redis.py`, middlewares) | counters in Redis or in memory, metrics, audit rows, the process's life | every request | limits hold; metrics and audit agree with the answers |
| Tenants, users, federation (`backend/routes/`) | tables `tenants`, `tenant_namespaces`, `users`, `federated_clusters`, `audit` | create, invite, assign, rotate, deactivate, register, heartbeat, ... | references hold; what was revoked stays so |
| Library `koral/` | detectors with their forests, label values, pending events | detect, write, store, get_pending | forests bounded and, used by one thread, exact; label limits hold |
| Notifier, breaker class, SLA/SLO, feedback, frontend, deployment | see section 6 | | |

They interact by HTTP calls between services (each with a timeout), by shared
tables, and inside a process by asyncio tasks and threads. A FastAPI handler
that is a coroutine runs alone in its process up to its next `await`; a plain
function runs in a thread of a pool, and each of its SQL statements is a
transaction of its own. That is the grain of the actions. The Dockerfiles of the
engines, the planner, the executor and the notifier start two processes each and
that of the backend four (one under docker-compose), which share no memory. The
ports of the engines are published, so anybody may call them beside the backend.

What is hard: two processes on one row; approvals that change between the
backend's check and the executor's start; a worker task that must survive every
exception; commands retried after a timeout; failures after a command has run;
records whose writes fail silently; processes that die holding queues and
futures; two services that call each other; lists changed while a loop over
them awaits; threads on a deque or a forest without a lock; two requests whose
tests both precede their writes. The list, each with its line, is `hazards` in
`PROJECT.json`.

## 2. The modules

| Module | Models | Composed of |
|---|---|---|
| `ApprovalLifecycle` | abstract: the life of an approval, its stamps and the decisions under way | |
| `Approval` | the approval engine | refines `ApprovalLifecycle` |
| `PyBreaker` | the pybreaker library (external), as it is used | |
| `Executor` | the sandbox executor's processes | instantiates `PyBreaker` |
| `Remediation`, `MCRemediation` | the backend's execute route | extends `Executor`, instantiates `Approval` |
| `RootCauses` | the tables from anomalous metrics to a command | |
| `Planning`, `MCPlanning` | planner and the backend's plan, approval and decision routes | extends `Approval`, `RootCauses` |
| `Verification` | the verification engine and the backend's verify route | |
| `MCEngines` | executor and verification engine, for one run | extends `Executor`, `Verification` |
| `Agents` | the loops of the metric agents | |
| `Correlation` | the correlation engine | extends `RootCauses` |
| `Detection`, `MCDetection` | agents, the backend's attempts, the correlation engine | extends `Agents`, `Correlation` |
| `Incidents` | the backend's incident pipeline | |
| `Administration` | users, tenants, namespaces, clusters | |
| `MCBackend` | pipelines and administration, for one run | extends `Incidents`, `Administration` |
| `LiveUpdates` | the backend's WebSocket manager | |
| `AIEngine` | the AI engine and its feed | |
| `MCFeeds` | the two feeds, for one run | extends `LiveUpdates`, `AIEngine` |
| `Gateway`, `MCGateway` | rate limits, middlewares, the life of a backend process | |
| `Streaming`, `SeriesStore`, `MCKoral` | the library koral | `MCKoral` extends both |
| `PlanningProofs` | proofs about `Approval` and `Planning` | extends `Planning` |
| `RemediationProofs` | proofs about `Executor` and `Remediation` | extends `Remediation` |
| `MeasurementProofs` | proofs about `Verification` and `Detection` | extends both |
| `LiveUpdatesProofs` | proofs about `LiveUpdates` and `AIEngine` | extends both |
| `KoralProofs` | proofs about `Streaming` and `SeriesStore` | extends both |
| `IncidentsProofs`, `AdministrationProofs`, `GatewayProofs` | proofs about one module each | |

**Approval.** `rows` is the table, `task[w]` what the handler running in process
`w` has decided to write. `Approve` and `Reject` are the handlers up to their
update (`main.py` 136-170), `CommitDecision` the update by id (`db.py` 138-149):
this is the real grain, since the read and the update are two transactions and
other processes run in between. Expiry is lazy, as in the code: only an attempt
to approve marks a row expired, and it stamps `approved_at`. `Fail` is a refused
statement or a death before it. Answers that change nothing (404, 400, status,
lists) are not steps. `decided` is a history of every decision ever written. The
clock is bounded by `MaxTime` in TLC only through the guard of `Tick`; the proofs
hold for any bound. `ApprovalLifecycle` is what is left of this for a client: an
approval is requested once, only a pending one can still come to be decided, each
decision under way is carried out or withdrawn, the last one has the last word,
and the stamps say how it was ever answered. With two processes this is the
strongest life the engine has: a decision overwrites another.

**Executor.** `Submit` and `Respond` are `POST /execute` before and after its
await; `Dequeue`, `EnsureApproved`, `Launch`, `Complete`, `Verify`, `Notify` are
the worker task between its awaits (`executor.py` 65-104). Inputs are what the
outside answers: the approval lookup (approved, denied, raised, refused by the
open breaker), the validator, the exit of the command (zero, nonzero, raised and
retried while attempts remain), the exceptions of the verifier and of Telegram.
`Crash` loses a process's memory and its callers' connections; `Stop` is the
shutdown event, which uvicorn sends after its handlers are done. `granted` and
`attempts` are history variables. The breaker's reset timeout may pass at any
moment, so an open breaker either refuses or lets a call through.

**Remediation.** `Execute`, `CheckStatus`, `Post`, `Receive`, `GiveUp` are the
awaits of `POST /remediation/execute` (`remediation.py` 192-277), interleaved
with every step of `Approval`, of any number of processes, and of `Executor`.
`ExecuteDirectly` is a call of the executor's published port, for any plan and
approval id. `LookupIsHonest` ties the engines: the executor's lookup says
approved only when the row says so at that moment. A failed insert of the log or
of the audit row is an input of `Receive`.

**Planning.** `CreatePlan` is the planner's answer (root cause to action to
parameters, by the tables of `RootCauses`) and `StorePlan` the backend's row;
`AskApproval` and `PassDecision` are the routes that forward to the approval
engine, `Take` a process of the engine that begins with one, `Answer` and
`WriteAudit` what follows in the backend. `GiveUp` ends a caller's wait while
the engine goes on. `RequestForNobody` and `DecideForNobody` are the engine's own
public routes, for any plan id, stored or not, and any severity, and also the
calls of a backend that stopped waiting before the engine began. The four tables
(root causes, strategies, required parameters, command lines) live in three
services and no test reads them together; `PlansAreWhole` does. The rule engine
and the fallback of the correlation engine name root causes such as
`cpu_anomaly`, which the planner does not know: they become
`trigger_debug_logs`. The planner's own post of the plan to the backend is
refused there.

**Verification.** A call is followed from its caller (`call`) and inside the
engine (`job`). `Measure` is the end of the wait and the query (an empty answer
is returned as inconclusive and stored nowhere), `Persist` the engine's own post
to the backend, `Receive` the backend's insert, `Restart` the loss of a process's
`verification_store`. `POST /verify` is also a public route, so `VerifyDirectly`
asks it with any baseline. Means and spreads are naturals; a missing baseline
counts as 0 with spread 1 and a spread of 0 as 1, as in `main.py` 172-185.

**Agents, Correlation, Detection.** `Agents` is the loop of one agent per series
with the exact test of the code (distance from the mean of the last
`HISTORY_SIZE` values in sample standard deviations, computed on squares without
division), the real and the synthetic source, and the thread of `/debug/spike`,
which may come between the test and the reset of the flag; a request that does is
lost, and so is one of two that come before the first is shown. In `Correlation`
a thread's call of `/correlate` is a step per operation on the shared deque: the
test of the oldest point, `popleft`, the copy (which raises when another thread
changes the deque), the append. What the isolation forest says of a value is
left open. `/correlate-batch` is the operator `CorrelateBatch` of a sequence of
events: metrics are renamed by `_METRIC_MAP` first, so two metrics may become
one; the deviation counts by its magnitude; and the id joins its parts with `-`,
as in `incident.py` 30. A name is the sequence of the parts that its `-` separate,
so joining is concatenation and the namespace `a` with the pod `b-a` makes the id
of `a-b` with `a`. The z of an event is an integer; a NaN, whose comparisons are all
false, is left out. `Detection` puts the backend's three attempts in between; a
call that timed out goes on in its thread, perhaps beside the next attempt in
another process. `disturbed` is a history variable.

**Incidents.** `stage[s]` is the await a sample's pipeline is at, in
`process_anomaly` or in the two tasks it starts: `Filter` broadcasts the sample,
`Correlated` and `FallBack` are the two ways an incident is opened
(`_handle_correlation_result` as a whole: cache, insert, graph), `Announce`
broadcasts it, `Explain` writes the answer of the AI or the rule engine into the
dict and the row, `Tell` broadcasts it, `Notify` is the call to the notifier. An
id is made of the sample's key by the correlation engine, so two samples of one
key share it and the second insert fails, or is drawn for the sample (six hex
digits, taken as unique). Every write may also fail and be swallowed; `swallowed`
remembers by whom. A dict of the cache is known by the sample whose tasks hold a
reference to it (`of`); a dict loaded from the table belongs to none. `Restart`
loses a process's tasks, cache and graph and loads the newest rows. An open
breaker, three failed attempts and an answer other than 200 are one case,
`FallBack` or the rule engine. `told` and `swallowed` are history variables.

**LiveUpdates.** A broadcast iterates over the list object it began with
(`job[b].list`) and awaits a send to each connection. `Connect` appends to the
manager's object, `Leave` binds the manager to a new one: a broadcast under way
sees later connections as long as the object is still the manager's
(`job[b].shared`) and never a removal. Dead clients are dropped after the loop.
`inbox` and `due` are history variables: what each socket got, and who must
still get a broadcast (connected at its beginning, entitled, and since then
neither gone nor unsubscribed).

**AIEngine.** `Classify` is the answer of the models in their order or of the
rules; what the rules find normal depends on the words of the prompt and on the
time of day. Then an e-mail (`Mail`), the log and the feed (`Publish`,
`SendOne`, `EndSends`), and the record of a fix (`Store`). Unlike the backend's manager, the feed is one
list changed in place, so a removal under a running broadcast shifts it, and a
second removal raises `ValueError` and ends the analysis in a 500. The rules look
for "io" anywhere in the prompt, so at night "cpu_saturation" counts as a nightly
backup when no model answers.

**Gateway.** A request meets, from outside in, CORS, the limiter, the error
middleware, the access audit, the headers, the metrics and its route. `Preflight`
is what CORS answers itself, to a process of any state. With Redis the limiter is
`Incr` and `Expire` as two calls, for the address and then for the first 32
characters of the key; a process that found no Redis counts in its memory, in
one step, and by the whole key. `RedisFails` lets a request through, with or
without its INCR. The route answers well, with an error (401, 404 and 502 stand for
those of the key and role tests, the other 4xx and the 5xx), or raises; the health
check answers 200 or 503. `RequestShutdown` is a SIGTERM: the lifespan replaces
uvicorn's signal handler, so the process goes on refusing with 503 until it is
killed. `stranded` and `admitted` are history.

**Administration.** A request is a step that tests, a step for each statement it
writes, and a step for its audit row; `handler[h]` holds what is left to do. Any
other request comes in between, and any statement may fail. The unique and
primary keys of the tables are guards of the writing steps. The tenant of a
cluster is written as it was given, tested by nobody. A replica that lags
(`DB_READ_HOST`) is a test made earlier and adds no behaviour.

**Streaming, SeriesStore.** Koral is a library used by its tests and by
demonstrations. A docstring says that detectors "must be thread-safe", but it takes
no lock: a step is what the interpreter does in one go (`self._point_index += 1`
is a load and a store, the trees are visited one by one). A tree is the set of
the indices of its points; scores are left out. A value is finite or odd (NaN or
infinite, as VictoriaMetrics answers a ratio of zeros). A shingle holds
an odd value for as long as its buffer does. A tree of finite points raises on
one that is odd; an empty tree takes it, and such a `spoilt` tree takes only an
equal of its point (infinities are equal, NaN is not) and raises on any other. The
index was advanced by then, and the eldest point forgotten, in the trees visited.
`shared`, `split` and `tainted` are history variables: detectors that two threads
were in at once, series whose creations overlapped, detectors given an odd value.
In `SeriesStore` a write counts its label values, awaits its request and may have
been stored either way; `get_pending` with a shorter window drops events for
everybody.

## 3. The runs

| Run | Question | Bounds |
|---|---|---|
| `remediation` | does only what was approved run, are the records true? | 2 approval processes, 1 approval, 1 plan, a time limit of 0 and a clock to 2, 2 executor processes (one dry-run), 2 calls, through the backend or direct, 2 attempts, breaker opens after 1 |
| `planning` | are plans whole, is the audit trail true, does a row tell how it was answered, does the engine implement its abstract life? | 2 approval processes, 1 approval, 2 plans, 2 handlers, 2 incidents (one to scale, one to restart a pod), a time limit of 0 and a clock to 2 |
| `engines` | executor: is each caller awaited once, each start granted, each answer true, everybody answered? verification: are verdicts earned, rows true, calls ended? | 1 process, 3 requests, 3 attempts, breaker opens after 2; 1 process, 1 execution, 2 calls, means 0, 1, 3 |
| `detection` | are windows kept, are batches answered, what is learnt under retries? | 1 series, values 0 to 2, history 2, clock to 5, window 1, 2 processes with 3 threads, 2 attempts; every sequence of up to 4 out of 8 events |
| `backend` | is every anomaly told of and explained, in order, do cache and table hold together? do references hold, is the audit log true, does the revoked stay revoked? | 2 processes, 2 samples, 2 keys, a cache of 1, a load of 1, 1 restart; 2 handlers, 2 users, 3 keys, 2 tenants, 1 namespace, 2 clusters, 3 requests, tables that hold an administrator, a tenant and a cluster |
| `feeds` | is everybody entitled reached, once, does each broadcast end? does the AI engine act on real threats only, does its feed miss nothing, is every analysis answered? | 2 sockets, 2 broadcasts, roles 1 and 3, 1 channel; 2 analyses, 1 model, 2 clients, a log and a replay of 1 |
| `gateway` | do the limits hold and the counters expire, do metrics and audit agree with the answers? | 2 processes, 2 requests, 2 addresses, 2 keys of one prefix, limits of 1, 2 windows, 1 fault |
| `koral` | are forests bounded and exact, do label limits hold? | 2 threads, 2 series, 2 trees of 2 points, shingles of 2, 5 calls; 2 writers, a limit of 1, a TTL of 2, windows 0 to 2, clock to 4, 4 operations |
| `remediation_plan` | violated: does the approved plan run? | 1 approval process, 2 plans |
| `remediation_race` | violated: does a command start only while its approval stands? | 2 approval processes, 1 executor process, 1 call |
| `koral_threads` | violated: is `detect` thread-safe? | those of `koral` |
| `koral_window` | violated: does the attack gate see every attack of the TTL? | those of `koral` |

**Two modules in one run.** `engines`, `feeds`, `backend` and `koral` check two
modules that share no variable. Their specification lets one module run while the
other has not begun, so a behaviour is one of the one or of the other: the
invariants are those of the parts, and a fair action of the part that has not
begun is disabled for ever, which weak fairness allows. It saves the product of
the two, in which nothing could happen that does not in a part.

Why the bounds are enough for the questions asked: every race here is between
two actors on one object, so two handlers, threads, processes, sockets or
samples and one or two objects show it; a third where the third matters (a
refused request behind a running and a queued one; a thread in another process
beside two on one deque). Approvals are rows that no step relates, so one is
enough, for its two processes to decide at once and for its two callers to
execute at once. With a time limit of 0 and a clock to 2 a request, its decisions and
its expiry come in all orders. A window or a TTL passes within the other clocks.
A history of two values is the shortest with a deviation. Executor processes share
nothing, so one is enough for what one process promises. The real limits (five
failures, caches of hundreds, 300 seconds) change how often a case occurs, not
which cases there are; where a module has proofs, they cover every value. The falls
among the means 0, 1 and 3 pass by share only (1 to 0), by spread only (3 to 1), by
both (3 to 0), or not at all. The events of a batch have deviations of both signs, a
metric that is renamed, one that no table lists, a time of 0, one event that is
not flagged, two namespaces whose names begin alike, and two windows. Two samples are two incidents, or two of
one id, in one process or in two, and with a cache of one each pushes the other
out before it is explained.
Symmetry is used in `remediation` (calls, approval processes), `planning`
(handlers, plans, approval processes), `gateway` (processes, addresses),
`detection` (threads of one process) and the runs of `koral` (threads, writers),
with invariants and, in `planning`, with two safety properties that quantify over
the permuted sets. No run with a liveness property has it. `CHECK_DEADLOCK FALSE` stands where a bounded clock or
finitely many calls let the system really end.

**Fairness.** `EveryRequestAnswered` assumes weak fairness of a process's worker
and of the handlers: every await of the worker has a timeout (lookup 5 s,
command 60 s and three attempts, verifier 10 s, the Telegram client's own) and
the event loop runs what is ready. `EveryCallEnds` assumes it of the wait (a
timer), of the post (10 s) and of the delivery of an answer.
`EveryAnomalyExplained` assumes it of each pipeline as a whole, never of one
outcome: a call ends after at most three attempts of 10 s, well or badly.
`EveryBroadcastEnds` assumes it of the sends of a broadcast (a send ends, since
the keepalive finds a peer that is gone) and of the endpoint of a broken socket.
`PublishedIsAnswered` assumes it of the sends of an analysis and of the post of
its fix (5 s), and nothing of its e-mail, which has no timeout. Nothing assumes
that processes crash or restart, that callers give up, or that the outside
answers well.

**Mutants.** For each property of a passing run `PROJECT.json` names a mutated
definition (`Stop_Undrained`, `EnsureApproved_FailOpen`, `Attempt_Endless`, ...)
with which TLC finds the property violated.

## 4. What is violated, and what was met on the way

Four runs state what the repository says of itself, and TLC finds it violated.

- `remediation_plan`, against "the sandbox executor runs the approved kubectl
  command" (`README.md` 19): the plan of the approval is never compared with the
  plan that is run.
- `remediation_race`, against "Approval already ..." (`approval-engine/main.py`
  141) and "plans require explicit approval before execution" (`README.md` 433):
  both processes find the approval pending, the executor looks it up after the
  approval, and starts its command after the rejection that overwrote it.
- `koral_threads`, against "must be thread-safe" (`rrcf_detector.py` 33): two
  threads in one detector insert under one index or forget the same eldest point,
  and `detect` raises.
- `koral_window`, against "Events older than TTL are automatically pruned"
  (`falco_consumer.py` 60): `get_pending` with a shorter window drops events
  inside the TTL too, for the attack gate as for everybody.

The properties of the passing runs are stated so that they hold of the code as
it is; the rest was seen while modelling.

- A detector that was given a NaN or an infinite value raises until the buffer
  has lost it. Meanwhile its index goes on and the eldest points are forgotten, in
  the first tree only, since the loop over the trees ends there: the trees hold
  different points from then on. No document says what a detector does with
  such a value; `NothingLost` is about detectors of finite values.
- Two requests of `/debug/spike` that come before the first is shown give one
  spike, and one that comes between the test and the reset of the flag gives
  none, although each is answered "spike_scheduled".
- Incidents of two namespaces may share an id, since `-` joins its parts and may
  be in them (`incident.py` 30); the second insert then fails. Within a batch the
  ids of one namespace differ.
- A pod without a correlated other is linked to the first other pod of the graph
  (`processor.py` 349), on purpose by its comment; the documents call the graph
  "Dependency graph data" and promise no more.
- A cluster may be registered for a tenant that does not exist.
- `executor.py` 97-100 may raise after the command ran; the backend gets a 500
  and writes no audit row (nor does it when the insert fails).
- `execution_log` has no column for the baseline, so the verify route sends an
  empty one; compared with 0, nothing asked through the backend is resolved.
- Each process lists its own incidents, so one opened by another is missing from
  the list until a restart.
- `create_tenant` assigns its namespaces untested (`tenants.py` 70) and the
  assignment route tests and then inserts, so a namespace can be in two tenants,
  against `tenancy.py` 12.
- The windows of the forest are filled by flagged samples only and need ten in
  300 seconds; before, the detector calls every value normal and `/correlate`
  answers 500, so the backend uses its rule engine.
- Each process of the correlation engine learns only the samples it was asked
  about. A history without deviation never flags a jump. A spike flag is not
  consumed while real metrics are available.
- `correlate_batch` says that it groups by root cause; it groups by namespace
  and window.
- The limiter's own 429 and 503 carry no security or request-id headers and are
  neither audited nor counted; a request refused for its key has used its
  address's quota; `_ip_requests` never drops the entries of old windows. Keys
  that begin alike share a limit with Redis and none without.
- The executor's `allowed_commands.yaml` knows five actions; the other planned
  ones are rejected at their execution. `sandbox-executor/main.py` 76-281,
  another allowlist with the limit of the blast radius that
  `docs/architecture-overview.md` 101 promises, is called by no route.
- The route `/remediation/verifications` the verification engine posts to does
  not exist (`Persist` models its 404).
- In koral, two creations of a detector may overlap and split a series; a label
  of the client is shut for good by one value too many, its known values
  included; a Falco event is dated by its arrival.

## 5. The proofs

All for any number of processes, threads, approvals, requests, calls, samples,
sockets, users, tenants and keys, and any limits. `Threads` and a batch are
finite, of any size.

- `PlanningProofs`. `SharedInv` says what a pending write knows of its row,
  however long it waits (an insertion's id is unused and its own; a decision's
  row exists and is not auto-approved). It gives `RowsAreNeverReopened` and
  `AutoApprovalsAreFinal`. `AnswersInv` adds that the timestamps of a row are those of
  the decisions ever written, and that a handler about to write an expiry does so
  after the row's time; it gives `RowsTellTheirAnswers`. `SettledStaysFinal`
  follows from `SharedInv`: a handler begins from a pending row, and a row is
  changed by a handler that waits only. The refinement
  `EngineImplementsLifecycle` is step by step, for any number of processes: a
  handler that found a pending row is an `Admit`, its update a `Settle`, its
  failure a `Withdraw`, an insertion a `Request` (`AdmitStep` to `FailStep`).
  `EngineBehindBackend` says that behind the backend's routes the engine does only
  what it does alone, so `PromisesBehindBackend` holds; its invariant `ServingInv`
  says whom each process works for. On it rest three invariants of the routes:
  `PlansInv` (a plan on its way to the table is whole, by the four tables, and
  the only one of its id), `RequestsInv` (what the backend asks is about a stored
  plan, what the engine inserts for a route is automatic for a minor plan only,
  and an answered request is `AskedFor`: its row is of that stored plan; direct
  requests are about anything, and stored plans do not change), and `AuditInv` (what is audited, or
  about to be, was written as that decision).
- `RemediationProofs`. The safety properties of the executor are not
  inductive one by one; `Inv` joins them with `WorkerInv`, `StageInv` and
  `RequestInv`, which say what a worker holds at each stage and what an
  unsubmitted or answered request has not done. One lemma per action. Each step
  of the composition is a step of each part or a stutter (`EngineBehaves`,
  `ExecutorBehaves`), so what is proved of the parts holds here.
  `OnlyApprovedRuns` rests on `GrantInv`: whatever was granted had been approved.
  It is kept by `LookupIsHonest`, by `RowTellsAnswers` (a row that says approved was
  decided so), and because `decided` only grows; that the row still says so at the
  start is not claimed, and false. `RecordsTellTheTruth` follows the answer through
  `GateInv`.
- `MeasurementProofs`. `SuccessIsLower` is the arithmetic of the verdict for all
  naturals and thresholds; `JobInv` ties callers, jobs and logged executions.
  From the agents to the incidents, `DetectionInv` has two parts beside the types.
  `WindowInv` is about a series of a process that was never disturbed: one thread
  at most is on it, its points are in order and span no more than `Window`, none
  is younger than the thread's sample, and none is too old once the thread has
  expired the old ones; popping keeps it because it drops a prefix, appending
  because the sample is the youngest. `AskInv` counts: the backend asks about a
  sample once, and the copies of it in all windows plus the threads that may still
  learn it are no more than its attempts, since a pop maps places into places and
  an append trades a learner for a copy. `BatchIsAnswered` is about the operator
  `CorrelateBatch` for every sequence of events: its groups partition the valid,
  flagged positions, the windows of two groups of one namespace do not overlap, so
  the times in their ids differ, and the gravest event of each gives the severity.
- `IncidentsProofs`. `StageInv` says what a pipeline has at each stage, `RowInv`
  that a row has a sample and an incident a row; with them `NoRowForgotten` and
  `ToldInOrder` are inductive, since only the last pipeline of an id can leave
  its row unexplained. `CacheInv` is about single dicts (`Owned`, `Agrees`): a
  dict is of a pipeline of its process, and the row of an id nobody shares says
  what the dict says.
- `AdministrationProofs`. `Inv` ties each request under way to the tables its
  first step tested: a row it is about to update is still there (no route deletes
  a user, a tenant or a cluster), one it is about to insert under a drawn id is
  not, and a key it is about to write was drawn by it alone. From it follow the
  references, the audit log, and the two action properties `DeadKeysStayDead` and
  `InactiveStaysInactive`.
- `LiveUpdatesProofs`. For the backend's manager, `ListsInv` (no connection is
  twice in a list, and none is in one before it came), `SentInv` (what was sent
  lies behind the loop) and `DueInv` (whoever is due lies before the loop or has
  the message) survive appends to a shared list and its rebinding; at the end of
  the loop nothing lies before it. For the AI engine, `Deciding` says what a
  mail, a fix and each place of an analysis tell of its verdict. `Owing` says
  that a connected client has what it is owed, will replay it, lies before the
  sender's place in the list, or the list was shifted under that sender. A
  removal keeps the order of the others (`KeptByPlaces`) and, where nobody is
  removed, the list itself (`KeptAll`).
- `GatewayProofs`. `LineInv` is the heart: the counter of a window that is not
  over counts everyone let through by it and the first one on its way to EXPIRE,
  and they are no more than the limit; `MemoryInv` is the same for a process without Redis.
  `PlaceInv` says that finitely many requests came, which cardinalities need;
  `ErrorsInv` and `RowsInv` give `AccountsAgree`.
- `KoralProofs`. `RoomInv` gives `TreesBounded`: a thread that found room keeps a
  place for its point until it inserts it, so a tree's leaves and the places kept
  in it exceed `TreeSize` by less than the number of threads. `NothingLost` needs
  three invariants: `OneInv` (one detector for a series whose creations did not
  overlap), `AloneInv` (where the only thread in a detector of finite values is,
  its `Phase`, tells exactly which of the newest points each tree holds) and
  `BatchInv` (the verdicts a batch has so far). In the store, `LabelInv` bounds
  what is written together with what is in flight: when the last label of a name
  was tested, all the values of that name were counted (`CountedLabels`, for label
  sets of any length, and a write of two metrics).

Assumptions: the named `ASSUME`s on constants, which TLC evaluates in the runs,
and no other. The bounds that exist for model checking (`MaxTime`, `MaxCalls`,
`MaxRequests`, ...) may have any value in the proofs.

Every invariant and every action property of the passing runs, and the
refinement, is stated by a theorem of `PROJECT.json`. Proved and checked in no
run: the type invariants, `StoresAreMeasured`, `RowsAreNeverReopened`,
`AutoApprovalsAreFinal`, the behaviour of the parts inside a composition, and the
refinement while plans are executed (`ExecutionImplementsLifecycle`).

Only model-checked: the liveness properties `EveryRequestAnswered`,
`EveryCallEnds`, `EveryAnomalyExplained`, `EveryBroadcastEnds` and
`PublishedIsAnswered` (TLAPS does not prove liveness under fairness here). Not
proved either: the violated statements, of course.

## 6. Not modelled

- Notifier: an e-mail and a Telegram message per call, each failure caught, no
  state, no retry; delivered or not is an outcome of `Incidents!Notify`. Its
  `smtplib` blocks the event loop; `test_telegram` sends text that MarkdownV2
  refuses.
- The breaker class of `backend/resilience.py`: used by `notification/telegram.py`
  only, which no image of the system runs. The breakers of `processor.py` add one
  more way for a call to raise, which `Incidents` has.
- The lists of anomalies, correlations and fixes of the backend (appended to and
  served) and the rows of `graph_nodes` and `graph_edges`, which nothing reads.
- SLA and SLO routes (queries), database access and schema (a failing statement
  is an outcome in each module), the configuration and query side of koral's
  client, and its scores (floating point statistics).
- Feedback and adaptive thresholds: `POST /feedback` rewrites JSON files whose
  directories are read-only in the image, so it always answers that the loop is
  unavailable; the adaptive windows are called by demonstrations only.
- Frontend, deployment, load tests, and the copies under `AIML/` and
  `system-intelligence-evaluation/`. The helm chart starts two pods of the approval
  engine, each with a SQLite file of its own: an approval made in one is unknown
  in the other; the model is of the shared table of docker-compose.

What could follow: an abstract incident (opened, explained, announced) that
`Incidents` implements; the executor as an implementation of an abstract service
with at most `MaxAttempts` starts.
