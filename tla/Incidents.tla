----------------------------- MODULE Incidents -----------------------------
(***************************************************************************)
(* The incident pipeline of the backend (services/processor.py): a sample  *)
(* posted by an agent becomes an incident, is explained by the AI engine   *)
(* or by the rule engine, is told to the dashboards and to the notifier.   *)
(*                                                                         *)
(* Each process of the backend runs the pipelines of the samples it was    *)
(* posted on one event loop, which switches where they await: a state of   *)
(* stage is such a point.  A process keeps a bounded cache of incidents    *)
(* and a graph of pods; the processes share the incidents table.           *)
(***************************************************************************)
EXTENDS Integers, Sequences, Functions

CONSTANTS
    Workers,     \* processes of the backend
    Samples,     \* POST /anomalies requests
    Keys,        \* what a sample is about: namespace, pod, metric and second
    Pods,
    Pod,         \* the pod of a key
    Time,        \* the second of a key
    MaxCache,    \* _MAX_LIST
    LoadLimit,   \* incidents read back when a process starts
    MaxRestarts, \* bound on the restarts of processes
    NoRow,
    None

(* A call to an engine is three attempts inside a breaker: an answer, or     *)
(* else what the backend says by its own rules.                              *)
Explainers == {"ai", "rule"}

\* An explanation, whom it was made for and by which engine.
Verdicts == [of: Samples, by: Explainers]

ASSUME IncidentsAssumption ==
    /\ Pod \in [Keys -> Pods]
    /\ Time \in [Keys -> Nat]
    /\ MaxCache \in Nat \ {0}
    /\ LoadLimit \in 0..MaxCache
    /\ MaxRestarts \in Nat
    /\ Keys \cap Samples = {}
    /\ None \notin Samples \cup Workers \cup Keys \cup Verdicts
    /\ NoRow \notin Verdicts \cup {None}

VARIABLES
    stage,     \* where the pipeline of a sample is
    home,      \* the process it runs in
    key,       \* what it is about
    id,        \* the id of its incident
    cache,     \* incidents of each process, oldest first
    row,       \* the incidents table: what the row of an id says
    nodes,     \* graph_data["nodes"] of each process, in order
    edges,     \* graph_data["edges"] of each process
    told,      \* the messages sent about a sample
    swallowed, \* samples with a database error that was printed and ignored
    restarts

vars == <<stage, home, key, id, cache, row, nodes, edges, told, swallowed, restarts>>

\* Points of a pipeline at which a process may switch to another, or die.
Running == {"received", "correlating", "opened", "explaining", "explained", "notifying"}

Stages == {"new", "done", "lost"} \cup Running

Messages == {"anomaly", "incident", "incident_ai", "notify"}

(* An id is made of the key ("inc-..."), or drawn for the sample ("INC-...", *)
(* six random digits, here never the same twice).                            *)
Ids == Keys \cup Samples

TimeOf(i) == Time[IF i \in Keys THEN i ELSE key[i]]

\* A cached dict: the pipeline it is of, if any, goes on writing to it.
Entries == [id: Ids, of: Samples \cup {None}, verdict: Verdicts \cup {None}]

Rows == {i \in Ids : row[i] # NoRow}

Init ==
    /\ stage = [s \in Samples |-> "new"]
    /\ home = [s \in Samples |-> None]
    /\ key = [s \in Samples |-> None]
    /\ id = [s \in Samples |-> None]
    /\ cache = [w \in Workers |-> <<>>]
    /\ row = [i \in Ids |-> NoRow]
    /\ nodes = [w \in Workers |-> <<>>]
    /\ edges = [w \in Workers |-> {}]
    /\ told = [s \in Samples |-> {}]
    /\ swallowed = {}
    /\ restarts = 0

-----------------------------------------------------------------------------
\* What a handler does between two awaits.

\* Append to a deque of at most MaxCache entries: the oldest falls out.
Push(q, e) == IF Len(q) = MaxCache THEN Append(Tail(q), e) ELSE Append(q, e)

\* Mutant of Inserted: an upsert writes a new row over the one there is.
Inserted_Upsert(i) == [row EXCEPT ![i] = None]

(* insert_incident: the id is unique, an insert of one that is there fails.  *)
Inserted(i) == [row EXCEPT ![i] = IF @ = NoRow THEN None ELSE @]

\* update_incident: by id, of whatever row has it, if any has.
Updated(i, v) == [row EXCEPT ![i] = IF @ = NoRow THEN @ ELSE v]

Known(w, p) == p \in Range(nodes[w])

Nodes(w, p) == IF Known(w, p) THEN nodes[w] ELSE Append(nodes[w], p)

(* An incident has one pod, which is its root cause as well: it is linked to *)
(* the first other pod of the graph.                                         *)
Links(w, p) ==
    LET q == Nodes(w, p)
    IN  IF Len(q) < 2 THEN {} ELSE {<<p, IF q[1] # p THEN q[1] ELSE q[2]>>}

(* _handle_correlation_result of an incident with id i: into the cache, the  *)
(* table and the graph.                                                      *)
Handle(s, i) ==
    /\ stage' = [stage EXCEPT ![s] = "opened"]
    /\ id' = [id EXCEPT ![s] = i]
    /\ cache' = [cache EXCEPT ![home[s]] =
                    Push(@, [id |-> i, of |-> s, verdict |-> None])]
    /\ nodes' = [nodes EXCEPT ![home[s]] = Nodes(home[s], Pod[key[s]])]
    /\ edges' = [edges EXCEPT ![home[s]] = @ \cup Links(home[s], Pod[key[s]])]
    /\ \/ row' = Inserted(i) /\ UNCHANGED swallowed
       \/ swallowed' = swallowed \cup {s} /\ UNCHANGED row
    /\ UNCHANGED <<home, key, told, restarts>>

(* A broadcast is awaited; it never raises.                                  *)
Broadcast(s, message) == told' = [told EXCEPT ![s] = @ \cup {message}]

-----------------------------------------------------------------------------
\* The pipeline of a sample.

Receive(s, w, k) ==
    /\ stage[s] = "new"
    /\ stage' = [stage EXCEPT ![s] = "received"]
    /\ home' = [home EXCEPT ![s] = w]
    /\ key' = [key EXCEPT ![s] = k]
    /\ UNCHANGED <<id, cache, row, nodes, edges, told, swallowed, restarts>>

(* Every sample is sent to the dashboards; one that is no anomaly ends here. *)
Filter(s, anomalous) ==
    /\ stage[s] = "received"
    /\ Broadcast(s, "anomaly")
    /\ stage' = [stage EXCEPT ![s] = IF anomalous THEN "correlating" ELSE "done"]
    /\ UNCHANGED <<home, key, id, cache, row, nodes, edges, swallowed, restarts>>

(* The correlation engine answers 200, with an id made of the key, or drawn  *)
(* when it cannot validate the sample.                                       *)
Correlated(s) ==
    /\ stage[s] = "correlating"
    /\ \E i \in {key[s], s} : Handle(s, i)

\* Mutant of FallBack: an anomaly that cannot be correlated is only logged.
FallBack_Dropped(s) ==
    /\ stage[s] = "correlating"
    /\ stage' = [stage EXCEPT ![s] = "done"]
    /\ UNCHANGED <<home, key, id, cache, row, nodes, edges, told, swallowed, restarts>>

(* It answers anything else, or the call raises: three attempts have failed, *)
(* or the breaker is open.  The rule engine makes the incident.              *)
FallBack(s) ==
    /\ stage[s] = "correlating"
    /\ Handle(s, s)

\* Mutant of Announce: the explanation is asked for without telling of the incident.
Announce_Silent(s) ==
    /\ stage[s] = "opened"
    /\ stage' = [stage EXCEPT ![s] = "explaining"]
    /\ UNCHANGED <<home, key, id, cache, row, nodes, edges, told, swallowed, restarts>>

(* The incident is broadcast, then the task that explains it is created.     *)
Announce(s) ==
    /\ stage[s] = "opened"
    /\ Broadcast(s, "incident")
    /\ stage' = [stage EXCEPT ![s] = "explaining"]
    /\ UNCHANGED <<home, key, id, cache, row, nodes, edges, swallowed, restarts>>

\* Mutant of Explained: the task was given a copy of the dict.
Explained_Copy(s, v) == cache[home[s]]

\* The dict that the task of s holds, wherever it is in the cache.
Explained(s, v) ==
    [e \in 1..Len(cache[home[s]]) |->
        IF cache[home[s]][e].of = s
        THEN [cache[home[s]][e] EXCEPT !.verdict = v] ELSE cache[home[s]][e]]

(* _update_incident_ai: an update that the database refuses is printed.      *)
UpdateIncidentAI(s, v) ==
    \/ row' = Updated(id[s], v) /\ UNCHANGED swallowed
    \/ swallowed' = swallowed \cup {s} /\ UNCHANGED row

\* Mutant of Explain: the answer of the rule engine is not written to the table.
Explain_CacheOnly(s, by) ==
    LET v == [of |-> s, by |-> by]
    IN  /\ stage[s] = "explaining"
        /\ stage' = [stage EXCEPT ![s] = "explained"]
        /\ cache' = [cache EXCEPT ![home[s]] = Explained(s, v)]
        /\ \/ row' = (IF by = "ai" THEN Updated(id[s], v) ELSE row) /\ UNCHANGED swallowed
           \/ swallowed' = swallowed \cup {s} /\ UNCHANGED row
        /\ UNCHANGED <<home, key, id, nodes, edges, told, restarts>>

(* The AI engine answers 200; or it answers otherwise or the call raises,    *)
(* and the rule engine explains.  The dict is changed, then the row.         *)
Explain(s, by) ==
    LET v == [of |-> s, by |-> by]
    IN  /\ stage[s] = "explaining"
        /\ stage' = [stage EXCEPT ![s] = "explained"]
        /\ cache' = [cache EXCEPT ![home[s]] = Explained(s, v)]
        /\ UpdateIncidentAI(s, v)
        /\ UNCHANGED <<home, key, id, nodes, edges, told, restarts>>

(* The explained incident is broadcast, then the notifier's task created.    *)
Tell(s) ==
    /\ stage[s] = "explained"
    /\ Broadcast(s, "incident_ai")
    /\ stage' = [stage EXCEPT ![s] = "notifying"]
    /\ UNCHANGED <<home, key, id, cache, row, nodes, edges, swallowed, restarts>>

(* _call_notifier: one attempt, its failure printed and ignored.             *)
Notify(s, delivered) ==
    /\ stage[s] = "notifying"
    /\ told' = IF delivered THEN [told EXCEPT ![s] = @ \cup {"notify"}] ELSE told
    /\ stage' = [stage EXCEPT ![s] = "done"]
    /\ UNCHANGED <<home, key, id, cache, row, nodes, edges, swallowed, restarts>>

-----------------------------------------------------------------------------
\* Processes.

(* _load_from_db: the newest rows, at most LoadLimit, oldest first; rows of  *)
(* one second in any order; nothing if the query fails.                      *)
Loads ==
    {<<>>} \cup
    {q \in UNION {[1..n -> Rows] : n \in 0..LoadLimit} :
        /\ Len(q) < LoadLimit => Rows \subseteq Range(q)
        /\ \A a, b \in 1..Len(q) :
               a < b => q[a] # q[b] /\ TimeOf(q[a]) <= TimeOf(q[b])
        /\ \A i \in Rows \ Range(q), a \in 1..Len(q) : TimeOf(i) <= TimeOf(q[a])}

(* Process w dies and is started again: its pipelines, caches and graph are  *)
(* gone.                                                                     *)
Restart(w, q) ==
    /\ restarts < MaxRestarts
    /\ restarts' = restarts + 1
    /\ stage' = [s \in Samples |->
                    IF home[s] = w /\ stage[s] \in Running THEN "lost" ELSE stage[s]]
    /\ cache' = [cache EXCEPT ![w] =
                    [a \in 1..Len(q) |-> [id |-> q[a], of |-> None, verdict |-> row[q[a]]]]]
    /\ nodes' = [nodes EXCEPT ![w] = <<>>]
    /\ edges' = [edges EXCEPT ![w] = {}]
    /\ UNCHANGED <<home, key, id, row, told, swallowed>>

-----------------------------------------------------------------------------

Pipeline(s) ==
    \/ \E anomalous \in BOOLEAN : Filter(s, anomalous)
    \/ Correlated(s)
    \/ FallBack(s)
    \/ Announce(s)
    \/ \E by \in Explainers : Explain(s, by)
    \/ Tell(s)
    \/ \E delivered \in BOOLEAN : Notify(s, delivered)

Next ==
    \/ \E s \in Samples, w \in Workers, k \in Keys : Receive(s, w, k)
    \/ \E s \in Samples : Pipeline(s)
    \/ \E w \in Workers : \E q \in Loads : Restart(w, q)

Spec == Init /\ [][Next]_vars

(* Each call of a pipeline has a timeout and at most three attempts, and the *)
(* event loop serves every task.                                             *)
Fairness == \A s \in Samples : WF_vars(Pipeline(s))

-----------------------------------------------------------------------------
\* What the pipeline promises.

TypeOK ==
    /\ stage \in [Samples -> Stages]
    /\ home \in [Samples -> Workers \cup {None}]
    /\ key \in [Samples -> Keys \cup {None}]
    /\ id \in [Samples -> Ids \cup {None}]
    /\ cache \in [Workers -> Seq(Entries)]
    /\ \A w \in Workers : Len(cache[w]) <= MaxCache
    /\ row \in [Ids -> Verdicts \cup {None, NoRow}]
    /\ nodes \in [Workers -> Seq(Pods)]
    /\ edges \in [Workers -> SUBSET (Pods \X Pods)]
    /\ told \in [Samples -> SUBSET Messages]
    /\ swallowed \in SUBSET Samples
    /\ restarts \in 0..MaxRestarts

(* A row without an explanation is waited for: a pipeline of its id has not  *)
(* explained it yet, was lost with its process, or had its update fail.  A   *)
(* pushed out cache entry, a second sample of the same id, a restart of      *)
(* another process or a failing AI engine leave no row unexplained.          *)
NoRowForgotten ==
    \A i \in Ids : row[i] = None =>
        \E s \in Samples :
            /\ id[s] = i
            /\ stage[s] \in {"opened", "explaining", "lost"} \/ s \in swallowed

(* The messages about an incident are in order, whatever happens between     *)
(* them: nobody is told of an explanation before the incident itself, nor    *)
(* before its row is explained, unless the database refused it.              *)
ToldInOrder ==
    \A s \in Samples :
        /\ "incident_ai" \in told[s] =>
               /\ "incident" \in told[s]
               /\ s \in swallowed \/ row[id[s]] \in Verdicts
        /\ "notify" \in told[s] => "incident_ai" \in told[s]

(* What a process serves from its cache for an incident of its own is what   *)
(* the table says of it, unless the database refused a write or another      *)
(* sample has the same id.                                                   *)
CacheAgreesWithTable ==
    \A w \in Workers : \A a \in 1..Len(cache[w]) :
        LET e == cache[w][a]
        IN  (e.of # None /\ e.of \notin swallowed
                /\ \A s \in Samples \ {e.of} : id[s] # e.id)
            => row[e.id] = e.verdict

(* A row keeps its explanation: a second sample of the same incident, posted *)
(* to any process, may replace it but never takes it away.                   *)
ExplanationKept ==
    [][\A i \in Ids : row[i] \in Verdicts => row'[i] \in Verdicts]_vars

(* Every anomaly is told of and explained, though the correlation and the AI *)
(* engine may never answer, unless its process dies.                         *)
EveryAnomalyExplained ==
    \A s \in Samples :
        stage[s] = "correlating" ~> stage[s] = "lost" \/ "incident_ai" \in told[s]
=============================================================================
