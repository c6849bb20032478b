------------------------------- MODULE Gateway ------------------------------
(***************************************************************************)
(* What a request meets before and after its route: the middlewares of the *)
(* backend, its rate limits, and the life of its worker processes.         *)
(*                                                                         *)
(* The last middleware added is the outermost.  From outside in: CORS, rate *)
(* limit, error response, access audit, request id, headers, metrics.      *)
(* What one of them answers itself is seen by none further in: a preflight *)
(* ends in CORS, what the limiter refuses ends there.                      *)
(*                                                                         *)
(* With Redis, all processes share the counters, one INCR at a time; a     *)
(* process that found no Redis when it started counts alone, in its        *)
(* memory, without an await.                                               *)
(***************************************************************************)
EXTENDS Naturals, FiniteSets

CONSTANTS
    Procs,        \* worker processes (uvicorn --workers)
    Requests,     \* numbers, in the order of arrival
    Ips, Keys,    \* client addresses, API keys
    Prefix,       \* the first 32 characters of a key, as one of the keys that begin so
    None,         \* no key, no process
    Limit,        \* RATE_LIMIT_IP and RATE_LIMIT_API_KEY, as Limit["ip"], Limit["key"]
    MaxWindow,    \* bound on the windows of 60 seconds, for model checking
    MaxFaults     \* bound on Redis errors, lost audit rows and killed processes

ASSUME GatewayAssumption ==
    /\ Requests \subseteq Nat
    /\ None \notin Keys
    /\ Prefix \in [Keys -> Keys]
    /\ Limit \in [{"ip", "key"} -> Nat]
    /\ MaxWindow \in Nat

Buckets == ({"ip"} \X Ips \X (0..MaxWindow)) \cup ({"key"} \X Keys \X (0..MaxWindow))

VARIABLES
    proc,      \* each process: its place in lifespan, whether it found Redis, shutting_down
    req,       \* each request
    counter,   \* Redis: the count of each bucket and whether it will expire
    memory,    \* _ip_requests and _key_requests of each process, as numbers of entries
    rows,      \* audit rows of the access middleware, as <<request, event>>
    errors,    \* ERROR_COUNT of each process
    window,    \* int(time.time() // 60)
    stranded,  \* history: buckets whose first request did not come to EXPIRE
    faults

vars == <<proc, req, counter, memory, rows, errors, window, stranded, faults>>

NoCounter == [n |-> 0, ttl |-> FALSE]

New == [at |-> "new", proc |-> None, key |-> None, exempt |-> FALSE,
        bucket |-> <<>>, admitted |-> {}, routed |-> FALSE, status |-> 0]

Init ==
    /\ proc = [p \in Procs |-> [at |-> "starting", redis |-> FALSE, shutting_down |-> FALSE]]
    /\ req = [r \in Requests |-> New]
    /\ counter = [b \in Buckets |-> NoCounter]
    /\ memory = [p \in Procs |-> [b \in Buckets |-> 0]]
    /\ rows = {}
    /\ errors = [p \in Procs |-> 0]
    /\ window = 0
    /\ stranded = {}
    /\ faults = 0

\* connect_redis: a client that answered its ping, or none.
ConnectRedis == BOOLEAN

(* lifespan up to its yield.  init_db may fail or be given up after 10 s,    *)
(* connect_redis finds Redis or not: the process serves all the same.        *)
Start(p, redis) ==
    /\ proc[p].at = "starting"
    /\ proc' = [proc EXCEPT ![p].at = "serving", ![p].redis = redis]
    /\ UNCHANGED <<req, counter, memory, rows, errors, window, stranded, faults>>

(* SIGTERM.  This handler replaced uvicorn's, which would have left the      *)
(* server: the process stays, refusing requests, until it is killed.         *)
RequestShutdown(p) ==
    /\ proc[p].at = "serving" /\ ~proc[p].shutting_down
    /\ proc' = [proc EXCEPT ![p].shutting_down = TRUE]
    /\ UNCHANGED <<req, counter, memory, rows, errors, window, stranded, faults>>

(* SIGKILL: the requests of the process are lost.                            *)
Kill(p) ==
    /\ proc[p].at = "serving" /\ faults < MaxFaults
    /\ faults' = faults + 1
    /\ proc' = [proc EXCEPT ![p].at = "gone"]
    /\ LET lost == {r \in Requests : req[r].at \notin {"new", "done"} /\ req[r].proc = p}
       IN /\ req' = [r \in Requests |-> IF r \in lost THEN [req[r] EXCEPT !.at = "lost"] ELSE req[r]]
          /\ stranded' = stranded \cup {req[r].bucket : r \in {q \in lost : req[q].at = "expire"}}
    /\ UNCHANGED <<counter, memory, rows, errors, window>>

Tick ==
    /\ window < MaxWindow
    /\ window' = window + 1
    /\ UNCHANGED <<proc, req, counter, memory, rows, errors, stranded, faults>>

(* A counter lives for 60 s from its EXPIRE, so beyond its own window.       *)
Expired(b) ==
    /\ counter[b].ttl /\ b[3] < window
    /\ counter' = [counter EXCEPT ![b] = NoCounter]
    /\ UNCHANGED <<proc, req, memory, rows, errors, window, stranded, faults>>

-----------------------------------------------------------------------------
\* What is still asked of a request that has its answer.
Done(q, status) ==
    [q EXCEPT !.at = "done", !.key = None, !.bucket = <<>>, !.status = status]

\* if len(entries) >= limit: return False.  An entry of this window is never
\* older than a window, so none is dropped.
WithinMemory(n, kind) == n < Limit[kind]

\* The requests come in the order of their numbers, to a process that serves.
Arrives(r, p) ==
    /\ req[r].at = "new" /\ \A q \in Requests : q < r => req[q].at # "new"
    /\ proc[p].at = "serving"

(* CORSMiddleware answers a preflight: nobody behind it counts it, not even  *)
(* the limiter, and a process that shuts down answers it too.                *)
Preflight(r, p, status) ==
    /\ Arrives(r, p)
    /\ req' = [req EXCEPT ![r] = Done([New EXCEPT !.proc = p], status)]
    /\ UNCHANGED <<proc, counter, memory, rows, errors, window, stranded, faults>>

(* RateLimitMiddleware up to its first await.  The health, metrics and       *)
(* documentation paths pass even while the process shuts down.  The memory   *)
(* counts whole keys, Redis their prefixes.                                  *)
Enter(r, p, ip, key, exempt) ==
    LET q == [New EXCEPT !.at = "handler", !.proc = p, !.key = key, !.exempt = exempt]
        i == <<"ip", ip, window>>
        k == <<"key", key, window>>
        overIp == ~WithinMemory(memory[p][i], "ip")
        overKey == key # None /\ ~WithinMemory(memory[p][k], "key")
    IN /\ Arrives(r, p)
       /\ exempt => key = None
       /\ \/ exempt /\ req' = [req EXCEPT ![r] = q] /\ UNCHANGED memory
          \/ /\ ~exempt /\ proc[p].shutting_down
             /\ req' = [req EXCEPT ![r] = Done(q, 503)] /\ UNCHANGED memory
          \/ /\ ~exempt /\ ~proc[p].shutting_down /\ proc[p].redis
             /\ req' = [req EXCEPT ![r] = [q EXCEPT !.at = "incr", !.bucket = i]]
             /\ UNCHANGED memory
          \/ /\ ~exempt /\ ~proc[p].shutting_down /\ ~proc[p].redis
             /\ req' = [req EXCEPT ![r] =
                           IF overIp \/ overKey THEN Done(q, 429)
                           ELSE [q EXCEPT !.admitted = {i} \cup (IF key = None THEN {} ELSE {k})]]
             /\ memory' = [memory EXCEPT ![p] =
                              [b \in Buckets |-> IF \/ b = i /\ ~overIp
                                                    \/ b = k /\ ~overIp /\ ~overKey
                                                 THEN @[b] + 1 ELSE @[b]]]
       /\ UNCHANGED <<proc, counter, rows, errors, window, stranded, faults>>

\* A check_rate_limit that answered: on to the key's, to the route, or out.
Checked(r, q, allowed) ==
    [req EXCEPT ![r] =
        CASE ~allowed -> Done(q, 429)
          [] allowed /\ q.bucket[1] = "ip" /\ q.key # None ->
                 [q EXCEPT !.at = "incr", !.bucket = <<"key", Prefix[q.key], window>>]
          [] OTHER -> [q EXCEPT !.at = "handler", !.bucket = <<>>]]

Counted(q) == [q EXCEPT !.admitted = @ \cup {q.bucket}]

\* Mutant of Within: the count is compared before this request is in it.
Within_Before(n, kind) == n <= Limit[kind] + 1

\* return count <= limit
Within(n, kind) == n <= Limit[kind]

\* Mutant of Creates: the first count is taken for 0.
Creates_Zero(n) == n = 0

\* if count == 1: await redis_client.expire(...)
Creates(n) == n = 1

(* count = await redis_client.incr(...), then EXPIRE by whoever was first.   *)
Incr(r) ==
    LET b == req[r].bucket
        n == counter[b].n + 1
    IN /\ req[r].at = "incr"
       /\ counter' = [counter EXCEPT ![b].n = n]
       /\ req' = IF Creates(n) THEN [req EXCEPT ![r].at = "expire"]
                 ELSE IF Within(n, b[1]) THEN Checked(r, Counted(req[r]), TRUE)
                 ELSE Checked(r, req[r], FALSE)
       /\ UNCHANGED <<proc, memory, rows, errors, window, stranded, faults>>

Expire(r) ==
    LET b == req[r].bucket
    IN /\ req[r].at = "expire"
       /\ counter' = [counter EXCEPT ![b].ttl = counter[b].n > 0]
       /\ req' = IF Within(1, b[1]) THEN Checked(r, Counted(req[r]), TRUE)
                 ELSE Checked(r, req[r], FALSE)
       /\ UNCHANGED <<proc, memory, rows, errors, window, stranded, faults>>

(* Any Redis error allows the request; the command may have run or not.      *)
RedisFails(r, ran) ==
    LET b == req[r].bucket
    IN /\ req[r].at \in {"incr", "expire"} /\ faults < MaxFaults
       /\ faults' = faults + 1
       /\ counter' = CASE ~ran -> counter
                       [] ran /\ req[r].at = "incr" -> [counter EXCEPT ![b].n = @ + 1]
                       [] ran /\ req[r].at = "expire" -> [counter EXCEPT ![b].ttl = counter[b].n > 0]
       /\ stranded' = IF \/ req[r].at = "expire" /\ ~ran
                         \/ req[r].at = "incr" /\ ran /\ counter[b].n = 0
                      THEN stranded \cup {b} ELSE stranded
       /\ req' = Checked(r, req[r], TRUE)
       /\ UNCHANGED <<proc, memory, rows, errors, window>>

-----------------------------------------------------------------------------
Raised == 0

(* The route: its answer, or the exception that leaves it.  A health check   *)
(* awaits the database and two engines and answers 200 or 503.  Of the       *)
(* HTTPExceptions of the routes, 401 stands for those of the key and role    *)
(* tests, 404 for the other 4xx and 502 for the 5xx.                         *)
Outcomes(exempt) == IF exempt THEN {200, 503} ELSE {200, 401, 404, 502, Raised}

\* Mutant of StatusCounted: an exception leaves the code of a good answer.
StatusCounted_Optimist(out) == IF out = Raised THEN 200 ELSE out

\* MetricsMiddleware: status_code = 500 until a response gives its own.
StatusCounted(out) == IF out = Raised THEN 500 ELSE out

\* ErrorResponseMiddleware
StatusSent(out) == IF out = Raised THEN 500 ELSE out

\* AuditAccessMiddleware: an exception passes it by.
Audited(out, exempt) == ~exempt /\ out # Raised /\ out >= 400

EventOf(status) == IF status \in {401, 403} THEN "api.access_denied" ELSE "api.error"

(* The answer on its way out through the middlewares.  written: the insert   *)
(* of the audit row succeeds; if not, nobody hears of it.                    *)
Answer(r, out, written) ==
    /\ req[r].at = "handler" /\ out \in Outcomes(req[r].exempt)
    /\ ~written => Audited(out, req[r].exempt) /\ faults < MaxFaults
    /\ faults' = IF written THEN faults ELSE faults + 1
    /\ errors' = IF StatusCounted(out) >= 500
                 THEN [errors EXCEPT ![req[r].proc] = @ + 1] ELSE errors
    /\ rows' = IF Audited(out, req[r].exempt) /\ written
               THEN rows \cup {<<r, EventOf(out)>>} ELSE rows
    /\ req' = [req EXCEPT ![r] = Done([@ EXCEPT !.routed = TRUE], StatusSent(out))]
    /\ UNCHANGED <<proc, counter, memory, window, stranded>>

Serve(r) ==
    \/ Incr(r) \/ Expire(r)
    \/ \E ran \in BOOLEAN : RedisFails(r, ran)
    \/ \E out \in Outcomes(req[r].exempt), written \in BOOLEAN : Answer(r, out, written)

Next ==
    \/ \E p \in Procs : \/ \E redis \in ConnectRedis : Start(p, redis)
                        \/ RequestShutdown(p) \/ Kill(p)
    \/ Tick
    \/ \E b \in Buckets : Expired(b)
    \/ \E r \in Requests :
           \/ \E p \in Procs, ip \in Ips, key \in Keys \cup {None}, exempt \in BOOLEAN :
                  Enter(r, p, ip, key, exempt)
           \/ \E p \in Procs, status \in {200, 400} : Preflight(r, p, status)
           \/ Serve(r)

Spec == Init /\ [][Next]_vars

-----------------------------------------------------------------------------
CountedIn(b, p) == {r \in Requests : req[r].proc = p /\ b \in req[r].admitted}

(* The rate limits of main.py: in a window, no more requests of an address   *)
(* or of a key are let through by their count than its limit, by all the     *)
(* processes that share Redis together and by each of the others alone,      *)
(* however their INCRs interleave, whatever fails and whoever is killed.     *)
WithinLimit ==
    \A b \in Buckets : b[3] = window =>
        /\ Cardinality(UNION {CountedIn(b, p) : p \in {q \in Procs : proc[q].redis}}) <= Limit[b[1]]
        /\ \A p \in Procs : ~proc[p].redis => Cardinality(CountedIn(b, p)) <= Limit[b[1]]

(* INCR and EXPIRE are two calls: no counter stays in Redis for ever, but    *)
(* those whose first request met an error or was killed between the two.     *)
CountersExpire ==
    \A b \in Buckets : counter[b].n > 0 =>
        \/ counter[b].ttl \/ b \in stranded
        \/ \E r \in Requests : req[r].at = "expire" /\ req[r].bucket = b

(* The metrics and the audit log agree with what the clients were sent: the  *)
(* error counter of a process is the number of its 5xx answers that came     *)
(* from a route, and an audit row is about an answered error and names its   *)
(* kind.                                                                     *)
AccountsAgree ==
    /\ \A p \in Procs :
           errors[p] = Cardinality({r \in Requests : /\ req[r].proc = p /\ req[r].at = "done"
                                                     /\ req[r].routed /\ req[r].status >= 500})
    /\ \A row \in rows : LET q == req[row[1]]
                         IN q.at = "done" /\ q.status >= 400 /\ row[2] = EventOf(q.status)
=============================================================================
