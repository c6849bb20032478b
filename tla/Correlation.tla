----------------------------- MODULE Correlation ----------------------------
(***************************************************************************)
(* The correlation engine: POST /correlate with its rolling windows, and   *)
(* POST /correlate-batch.                                                  *)
(*                                                                         *)
(* The routes are plain functions, so the calls of a worker process run in *)
(* the threads of a pool and share its detector's histories, one deque of  *)
(* points for each pod and metric, without a lock.  A point is its         *)
(* timestamp; what the isolation forest says of a value is left open.  An  *)
(* exception inside the detector, which a change of the deque by another   *)
(* thread can raise, is answered with the agent's own score.               *)
(*                                                                         *)
(* The backend sends nothing but samples that an agent flagged.            *)
(***************************************************************************)
EXTENDS Integers, Sequences, FiniteSets, RootCauses

CONSTANTS
    Processes,     \* processes of the engine (uvicorn --workers 2)
    Threads,
    ProcessOf,
    HistoryKeys,   \* a pod with a metric
    Window,        \* window_size, in seconds
    MinPoints,     \* min_history_points
    Events,        \* events a batch may hold
    MaxBatch,      \* bound on their number, for model checking
    BatchWindow,   \* window_seconds of a batch
    MaxRequests    \* bound on the calls, for model checking

\* A name is the sequence of what its '-' separate, each part a number that
\* stands for its place in the alphabet.
Name == Seq(Nat) \ {<<>>}

RawEvent == [namespace : Name, pod : Name, metric : STRING, time : Int, z : Int,
             is_anomaly : BOOLEAN]

ASSUME CorrelationAssumption ==
    /\ ProcessOf \in [Threads -> Processes]
    /\ Window \in Nat
    /\ \A e \in Events : e \in RawEvent
    /\ MaxBatch \in Nat
    /\ BatchWindow \in Nat \ {0}

VARIABLES
    history,    \* _history of each worker: the timestamps of each series, oldest arrival first
    serving,    \* the call each thread is serving or has answered
    served,     \* number of calls so far
    disturbed   \* history: worker and series of calls that overlapped or came out of order

engineVars == <<history, serving, served, disturbed>>

Idle == [at |-> "idle"]

Free == {"idle", "incident", "error"}

CorrelationInit ==
    /\ history = [w \in Processes |-> [s \in HistoryKeys |-> <<>>]]
    /\ serving = [h \in Threads |-> Idle]
    /\ served = 0
    /\ disturbed = {}

Others(w, s) ==
    {h \in Threads : ProcessOf[h] = w /\ serving[h].at \notin Free /\ serving[h].series = s}

(* A sample arrives; one of a metric that the schema does not list is        *)
(* refused by the detector before it looks at the history.                   *)
Correlate(h, s, t, listed) ==
    LET w == ProcessOf[h]
    IN /\ serving[h].at \in Free
       /\ served < MaxRequests
       /\ served' = served + 1
       /\ serving' = [serving EXCEPT ![h] = [at |-> IF listed THEN "expiring" ELSE "fallback",
                                     series |-> s, time |-> t, anomaly |-> FALSE]]
       /\ disturbed' = IF \/ Others(w, s) # {}
                          \/ \E i \in 1..Len(history[w][s]) : history[w][s][i] > t
                       THEN disturbed \cup {<<w, s>>} ELSE disturbed
       /\ UNCHANGED history

Of(h) == history[ProcessOf[h]][serving[h].series]

Goto(h, place) == serving' = [serving EXCEPT ![h].at = place] /\ UNCHANGED <<served, disturbed>>

\* Mutant of Stale: a point is dropped when it is too young.
Stale_Swapped(point, t) == t + Window < point

\* history[0][0] < cutoff
Stale(point, t) == point + Window < t

(* while history and history[0][0] < cutoff                                  *)
Expire(h) ==
    /\ serving[h].at = "expiring"
    /\ Goto(h, IF Of(h) # <<>> /\ Stale(Head(Of(h)), serving[h].time) THEN "popping" ELSE "reading")
    /\ UNCHANGED history

SetHistory(h, points) == history' = [history EXCEPT ![ProcessOf[h]][serving[h].series] = points]

(* history.popleft(): whatever is first by now; IndexError if nothing is.    *)
Pop(h) ==
    /\ serving[h].at = "popping"
    /\ IF Of(h) = <<>>
       THEN Goto(h, "fallback") /\ UNCHANGED history
       ELSE Goto(h, "expiring") /\ SetHistory(h, Tail(Of(h)))

(* _score: too few points make any value normal.                             *)
Score(h, verdict) ==
    /\ serving[h].at = "reading"
    /\ verdict => Len(Of(h)) >= MinPoints
    /\ serving' = [serving EXCEPT ![h].at = "scored", ![h].anomaly = verdict]
    /\ UNCHANGED <<history, served, disturbed>>

(* RuntimeError: another thread changed the deque while it was copied.       *)
Disturbed(h) ==
    /\ serving[h].at = "reading"
    /\ Others(ProcessOf[h], serving[h].series) # {h}
    /\ Goto(h, "fallback")
    /\ UNCHANGED history

(* The point is learnt; then build_incident of this one event, which raises  *)
(* ValueError, a 500, when the detector called it normal.                    *)
Learn(h) ==
    /\ serving[h].at = "scored"
    /\ SetHistory(h, Append(Of(h), serving[h].time))
    /\ Goto(h, IF serving[h].anomaly THEN "incident" ELSE "error")

(* The agent's flag stands: an incident by the rules, or a bare one.         *)
Fallback(h) ==
    /\ serving[h].at = "fallback"
    /\ Goto(h, "incident")
    /\ UNCHANGED history

EngineStep(h) ==
    \/ Expire(h) \/ Pop(h)
    \/ \E verdict \in BOOLEAN : Score(h, verdict)
    \/ Disturbed(h) \/ Learn(h) \/ Fallback(h)

-----------------------------------------------------------------------------
\* _METRIC_MAP
Renamed(metric) ==
    CASE metric = "storage" -> "pvc_io"
      [] metric = "logs" -> "log_error"
      [] OTHER -> metric

\* What correlate_batch_endpoint makes of an event before it is validated.
Normalised(raw) == [raw EXCEPT !.metric = Renamed(@)]

(* validate_event: a positive time, a listed metric, no field missing.       *)
Valid(e) == e.time > 0 /\ e.metric \in Metrics

\* Mutant of SameGroup: a group is a window, of whatever namespace.
SameGroup_Everywhere(e, f) == e.time \div BatchWindow = f.time \div BatchWindow

\* groups[(namespace, window)]
SameGroup(e, f) == e.namespace = f.namespace /\ e.time \div BatchWindow = f.time \div BatchWindow

Magnitude(e) == IF e.z < 0 THEN -e.z ELSE e.z

\* The metrics in the order of their names.
ByName == <<"cpu", "disk", "latency", "log_error", "memory", "network", "oom_kill", "pvc_io",
            "restart">>

Rank(metric) == CHOOSE i \in 1..Len(ByName) : ByName[i] = metric

\* primary_metric: of the greatest deviation, and among equals the last by name.
Strongest(events) ==
    (CHOOSE e \in events : \A f \in events :
         \/ Magnitude(f) < Magnitude(e)
         \/ Magnitude(f) = Magnitude(e) /\ Rank(f.metric) <= Rank(e.metric)).metric

\* determine_severity
Severity(events) ==
    CASE \E e \in events :
             Magnitude(e) >= (IF e.metric \in {"oom_kill", "restart"} THEN 3 ELSE 4) -> "critical"
      [] \A e \in events : Magnitude(e) < 3 -> "medium"
      [] OTHER -> "high"

\* The order of two names: a prefix comes first.
Precedes(p, q) ==
    \E n \in 0..Len(p) :
        /\ \A i \in 1..n : i <= Len(q) /\ p[i] = q[i]
        /\ n = Len(p) \/ (n < Len(q) /\ p[n + 1] < q[n + 1])

(* build_incident, of the events at the positions of a group.  The id joins  *)
(* namespace, first pod, metric and second with '-': where the namespace     *)
(* ends and the pod begins can no longer be told.                            *)
Incident(batch, group) ==
    LET events == {batch[i] : i \in group}
        time == CHOOSE t \in {e.time : e \in events} : \A e \in events : e.time <= t
        pods == {e.pod : e \in events}
        namespace == (CHOOSE e \in events : TRUE).namespace
        pod == CHOOSE p \in pods : \A q \in pods : Precedes(p, q)
    IN [id |-> <<namespace \o pod, Strongest(events), time>>,
        namespace |-> namespace, time |-> time, pods |-> pods, evidence |-> group,
        severity |-> Severity(events),
        root_cause |-> RootCause({e.metric : e \in events})]

\* correlate_batch: one incident of each group of valid, flagged events.  The
\* route keeps nothing.
CorrelateBatch(raws) ==
    LET batch == [i \in DOMAIN raws |-> Normalised(raws[i])]
        anomalous == {i \in DOMAIN batch : Valid(batch[i]) /\ batch[i].is_anomaly}
    IN {Incident(batch, {j \in anomalous : SameGroup(batch[i], batch[j])}) : i \in anomalous}

-----------------------------------------------------------------------------
(* The forest is fitted on the last 300 seconds: where calls neither         *)
(* overlapped nor came out of order, no point of a series is older than the  *)
(* window before its newest one, and the points are in order.                *)
WindowKept ==
    \A w \in Processes, s \in HistoryKeys : <<w, s>> \notin disturbed =>
        \A i, j \in 1..Len(history[w][s]) : i <= j =>
            /\ history[w][s][i] <= history[w][s][j]
            /\ history[w][s][j] <= history[w][s][i] + Window

OneIncidentEach(raws, incidents) ==
    LET batch == [i \in DOMAIN raws |-> Normalised(raws[i])]
    IN /\ \A i \in DOMAIN batch : Valid(batch[i]) /\ batch[i].is_anomaly =>
              Cardinality({x \in incidents : i \in x.evidence}) = 1
       /\ \A x, y \in incidents : x.id = y.id /\ x.namespace = y.namespace => x = y
       /\ \A x \in incidents :
              /\ \A i \in x.evidence : /\ batch[i].is_anomaly
                                       /\ batch[i].namespace = x.namespace
                                       /\ x.time - batch[i].time < BatchWindow
              /\ \E i \in x.evidence : Severity({batch[i]}) = x.severity

\* What a free thread of any worker answers to any batch.
BatchesAnswered ==
    \A n \in 0..MaxBatch : \A raws \in [1..n -> Events] :
        OneIncidentEach(raws, CorrelateBatch(raws))

(* Every flagged event of a batch, in whatever order and however often it    *)
(* is sent, is evidence of one incident, of its own namespace and within a   *)
(* window's length of it; the ids of the incidents of a namespace differ;    *)
(* and an incident is as severe as its gravest event alone.  Incidents of    *)
(* different namespaces may share an id.                                     *)
EachInOneIncident == \A h \in Threads : serving[h].at \in Free => BatchesAnswered
=============================================================================
