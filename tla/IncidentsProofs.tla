-------------------------- MODULE IncidentsProofs --------------------------
(***************************************************************************)
(* Proofs of the safety properties of Incidents, for any number of         *)
(* processes, samples and keys, any sizes of the cache and of the load,    *)
(* and any number of restarts.                                             *)
(***************************************************************************)
EXTENDS Incidents, TLAPS

(* What the stage of a pipeline says of its sample.                          *)
StageInv ==
    \A s \in Samples :
        /\ stage[s] # "new" => home[s] \in Workers /\ key[s] \in Keys
        /\ stage[s] \in {"new", "received", "correlating"} =>
               id[s] = None /\ s \notin swallowed
        /\ stage[s] \in {"opened", "explaining", "explained", "notifying"} =>
               id[s] # None
        /\ stage[s] \in {"explaining", "explained", "notifying"} =>
               "incident" \in told[s]
        /\ stage[s] = "notifying" => "incident_ai" \in told[s]

(* Rows and pipelines: a row has the id of some sample; the incident of a    *)
(* sample has a row, and an explained one once the sample has explained it,  *)
(* unless the database refused a write.                                      *)
RowInv ==
    /\ \A i \in Ids : row[i] # NoRow => \E s \in Samples : id[s] = i
    /\ \A s \in Samples :
           /\ id[s] # None /\ s \notin swallowed => row[id[s]] # NoRow
           /\ id[s] # None /\ s \notin swallowed
                /\ stage[s] \notin {"opened", "explaining", "lost"}
                  => row[id[s]] \in Verdicts
           /\ "incident_ai" \in told[s] => id[s] # None

(* A dict in the cache of w is that of a pipeline that runs in w.            *)
Owned(w, e) ==
    e.of # None =>
        /\ home[e.of] = w
        /\ id[e.of] = e.id
        /\ stage[e.of] \notin {"new", "received", "correlating"}

\* What CacheAgreesWithTable says of one dict.
Agrees(e) ==
    (e.of # None /\ e.of \notin swallowed
        /\ \A s \in Samples \ {e.of} : id[s] # e.id)
    => row[e.id] = e.verdict

CacheInv ==
    \A w \in Workers : \A a \in 1..Len(cache[w]) :
        Owned(w, cache[w][a]) /\ Agrees(cache[w][a])

Inv == TypeOK /\ StageInv /\ RowInv /\ NoRowForgotten /\ ToldInOrder

-----------------------------------------------------------------------------
\* Lists.

\* A bounded deque keeps its bound, and has nothing new but what was pushed.
LEMMA PushProperties ==
    ASSUME NEW S, NEW q \in Seq(S), NEW e \in S, Len(q) <= MaxCache
    PROVE  /\ Push(q, e) \in Seq(S)
           /\ Len(Push(q, e)) <= MaxCache
           /\ \A a \in 1..Len(Push(q, e)) :
                  \/ Push(q, e)[a] = e
                  \/ \E b \in 1..Len(q) : Push(q, e)[a] = q[b]
<1>1. MaxCache \in Nat \ {0}
  BY IncidentsAssumption
<1>2. CASE Len(q) = MaxCache
  <2>1. q # <<>> /\ Tail(q) \in Seq(S) /\ Len(Tail(q)) = MaxCache - 1
    BY <1>1, <1>2
  <2>2. \A a \in 1..Len(Tail(q)) : Tail(q)[a] = q[a + 1]
    BY <1>1, <1>2, <2>1
  <2>3. Push(q, e) = Append(Tail(q), e)
    BY <1>2 DEF Push
  <2>4. /\ Append(Tail(q), e) \in Seq(S)
        /\ Len(Append(Tail(q), e)) = MaxCache
        /\ \A a \in 1..MaxCache :
               Append(Tail(q), e)[a] = IF a = MaxCache THEN e ELSE Tail(q)[a]
    BY <1>1, <2>1
  <2>5. \A a \in 1..MaxCache : a # MaxCache => a + 1 \in 1..Len(q) /\ a \in 1..Len(Tail(q))
    BY <1>1, <1>2, <2>1
  <2> QED BY <1>1, <2>2, <2>3, <2>4, <2>5
<1>3. CASE Len(q) # MaxCache
  BY <1>1, <1>3 DEF Push
<1> QED BY <1>2, <1>3

\* The pods of a graph after an incident of p.
LEMMA NodesType ==
    ASSUME NEW w \in Workers, NEW p \in Pods, nodes[w] \in Seq(Pods)
    PROVE  Nodes(w, p) \in Seq(Pods) /\ Links(w, p) \in SUBSET (Pods \X Pods)
<1>1. Nodes(w, p) \in Seq(Pods)
  BY DEF Nodes
<1> DEFINE q == Nodes(w, p)
<1>2. Len(q) \in Nat /\ (Len(q) >= 2 => q[1] \in Pods /\ q[2] \in Pods)
  BY <1>1
<1> QED BY <1>1, <1>2 DEF Links

\* What a starting process loads is a list of incidents with a row.
LEMMA LoadsType ==
    ASSUME NEW q \in Loads
    PROVE  q \in Seq(Rows) /\ Len(q) <= MaxCache
<1>1. LoadLimit \in Nat /\ MaxCache \in Nat /\ LoadLimit <= MaxCache
  BY IncidentsAssumption
<1>2. CASE q = <<>>
  BY <1>1, <1>2
<1>3. CASE q # <<>>
  <2>1. PICK n \in 0..LoadLimit : q \in [1..n -> Rows]
    BY <1>3 DEF Loads
  <2> QED BY <1>1, <2>1
<1> QED BY <1>2, <1>3


\* The dict of s explained in place: the cache has the same entries otherwise.
LEMMA ExplainedType ==
    ASSUME TypeOK, NEW s \in Samples, home[s] \in Workers, NEW v \in Verdicts
    PROVE  /\ Explained(s, v) \in Seq(Entries)
           /\ Len(Explained(s, v)) = Len(cache[home[s]])
           /\ \A a \in 1..Len(Explained(s, v)) :
                  Explained(s, v)[a] =
                      IF cache[home[s]][a].of = s
                      THEN [cache[home[s]][a] EXCEPT !.verdict = v]
                      ELSE cache[home[s]][a]
<1> DEFINE q == cache[home[s]]
<1>1. q \in Seq(Entries) /\ Len(q) \in Nat
  BY DEF TypeOK
<1>2. \A a \in 1..Len(q) : q[a] \in Entries
  BY <1>1
<1>3. \A a \in 1..Len(q) : [q[a] EXCEPT !.verdict = v] \in Entries
  BY <1>2 DEF Entries
<1>4. Explained(s, v) \in [1..Len(q) -> Entries]
  BY <1>2, <1>3 DEF Explained
<1> QED BY <1>1, <1>4 DEF Explained

-----------------------------------------------------------------------------
\* Types.

LEMMA InitInv ==
    ASSUME Init
    PROVE  Inv
<1>1. TypeOK
  <2>1. MaxCache \in Nat /\ MaxRestarts \in Nat
    BY IncidentsAssumption
  <2> QED BY <2>1 DEF Init, TypeOK, Stages
<1>2. \A i \in Ids : row[i] # None
  BY IncidentsAssumption DEF Init
<1> QED BY <1>1, <1>2 DEF Init, Inv, StageInv, RowInv, NoRowForgotten, ToldInOrder

LEMMA HandleType ==
    ASSUME TypeOK, NEW s \in Samples, home[s] \in Workers, key[s] \in Keys,
           NEW i \in Ids, Handle(s, i)
    PROVE  TypeOK'
<1> DEFINE w == home[s]
           e == [id |-> i, of |-> s, verdict |-> None]
<1>1. e \in Entries /\ Pod[key[s]] \in Pods
  BY IncidentsAssumption DEF Entries
<1>2. Push(cache[w], e) \in Seq(Entries) /\ Len(Push(cache[w], e)) <= MaxCache
  BY <1>1, PushProperties DEF TypeOK
<1>3. /\ Nodes(w, Pod[key[s]]) \in Seq(Pods)
      /\ Links(w, Pod[key[s]]) \in SUBSET (Pods \X Pods)
  BY <1>1, NodesType DEF TypeOK
<1>4. Inserted(i) \in [Ids -> Verdicts \cup {None, NoRow}]
  BY DEF TypeOK, Inserted
<1>5. row' \in [Ids -> Verdicts \cup {None, NoRow}] /\ swallowed' \in SUBSET Samples
  BY <1>4 DEF TypeOK, Handle
<1>6. cache' = [cache EXCEPT ![w] = Push(cache[w], e)]
  BY DEF Handle
<1>7. cache' \in [Workers -> Seq(Entries)] /\ \A x \in Workers : Len(cache'[x]) <= MaxCache
  BY <1>2, <1>6 DEF TypeOK
<1>8. nodes' \in [Workers -> Seq(Pods)] /\ edges' \in [Workers -> SUBSET (Pods \X Pods)]
  <2>1. nodes' = [nodes EXCEPT ![w] = Nodes(w, Pod[key[s]])]
    BY DEF Handle
  <2>2. edges' = [edges EXCEPT ![w] = edges[w] \cup Links(w, Pod[key[s]])]
    BY DEF Handle
  <2> QED BY <1>3, <2>1, <2>2 DEF TypeOK
<1> QED BY <1>5, <1>7, <1>8 DEF TypeOK, Handle, Stages, Running

LEMMA ExplainType ==
    ASSUME TypeOK, NEW s \in Samples, home[s] \in Workers, id[s] \in Ids,
           NEW by \in Explainers, Explain(s, by)
    PROVE  TypeOK'
<1> DEFINE v == [of |-> s, by |-> by]
           w == home[s]
<1>1. v \in Verdicts
  BY DEF Verdicts
<1>2. Explained(s, v) \in Seq(Entries) /\ Len(Explained(s, v)) <= MaxCache
  BY <1>1, ExplainedType DEF TypeOK
<1>3. cache' = [cache EXCEPT ![w] = Explained(s, v)]
  BY DEF Explain, UpdateIncidentAI
<1>4. cache' \in [Workers -> Seq(Entries)] /\ \A x \in Workers : Len(cache'[x]) <= MaxCache
  BY <1>2, <1>3 DEF TypeOK
<1>5. Updated(id[s], v) \in [Ids -> Verdicts \cup {None, NoRow}]
  BY <1>1 DEF TypeOK, Updated
<1>6. row' \in [Ids -> Verdicts \cup {None, NoRow}] /\ swallowed' \in SUBSET Samples
  BY <1>5 DEF TypeOK, Explain, UpdateIncidentAI
<1> QED BY <1>4, <1>6 DEF TypeOK, Explain, UpdateIncidentAI, Stages, Running

LEMMA RestartType ==
    ASSUME TypeOK, NEW w \in Workers, NEW q \in Loads, Restart(w, q)
    PROVE  TypeOK'
<1> DEFINE loaded == [a \in 1..Len(q) |->
                         [id |-> q[a], of |-> None, verdict |-> row[q[a]]]]
<1>1. q \in Seq(Rows) /\ Len(q) <= MaxCache /\ Len(q) \in Nat
  BY LoadsType
<1>2. \A a \in 1..Len(q) : q[a] \in Ids /\ row[q[a]] \in Verdicts \cup {None}
  BY <1>1 DEF Rows, TypeOK
<1>3. loaded \in Seq(Entries) /\ Len(loaded) <= MaxCache
  BY <1>1, <1>2 DEF Entries
<1>4. cache' = [cache EXCEPT ![w] = loaded]
  BY DEF Restart
<1>5. cache' \in [Workers -> Seq(Entries)] /\ \A x \in Workers : Len(cache'[x]) <= MaxCache
  BY <1>3, <1>4 DEF TypeOK
<1>6. stage' \in [Samples -> Stages]
  BY DEF TypeOK, Restart, Stages
<1>7. restarts' \in 0..MaxRestarts
  BY IncidentsAssumption DEF TypeOK, Restart
<1> QED BY <1>5, <1>6, <1>7 DEF TypeOK, Restart

(* The steps that touch neither the caches nor the table.                    *)
LEMMA QuietType ==
    ASSUME TypeOK, NEW s \in Samples,
           \/ \E w \in Workers, k \in Keys : Receive(s, w, k)
           \/ \E anomalous \in BOOLEAN : Filter(s, anomalous)
           \/ Announce(s)
           \/ Tell(s)
           \/ \E delivered \in BOOLEAN : Notify(s, delivered)
    PROVE  TypeOK'
<1> USE DEF TypeOK, Stages, Running, Messages
<1>1. CASE \E w \in Workers, k \in Keys : Receive(s, w, k)
  BY <1>1 DEF Receive
<1>2. CASE \E anomalous \in BOOLEAN : Filter(s, anomalous)
  BY <1>2 DEF Filter, Broadcast
<1>3. CASE Announce(s)
  BY <1>3 DEF Announce, Broadcast
<1>4. CASE Tell(s)
  BY <1>4 DEF Tell, Broadcast
<1>5. CASE \E delivered \in BOOLEAN : Notify(s, delivered)
  BY <1>5 DEF Notify
<1> QED BY <1>1, <1>2, <1>3, <1>4, <1>5

(* A step of a pipeline is of a received sample; one that opens an incident  *)
(* gives it one of two ids.                                                  *)
LEMMA TypeStep ==
    ASSUME TypeOK, StageInv, [Next]_vars
    PROVE  TypeOK'
<1>1. ASSUME NEW s \in Samples, stage[s] = "correlating", NEW i \in {key[s], s}, Handle(s, i)
      PROVE  TypeOK'
  <2>1. home[s] \in Workers /\ key[s] \in Keys /\ i \in Ids
    BY <1>1 DEF StageInv, Ids
  <2> QED BY <1>1, <2>1, HandleType
<1>2. ASSUME NEW s \in Samples, Correlated(s) \/ FallBack(s)
      PROVE  TypeOK'
  BY <1>1, <1>2 DEF Correlated, FallBack
<1>3. ASSUME NEW s \in Samples, NEW by \in Explainers, Explain(s, by)
      PROVE  TypeOK'
  <2>1. stage[s] = "explaining"
    BY <1>3 DEF Explain, UpdateIncidentAI
  <2>2. home[s] \in Workers /\ id[s] \in Ids
    BY <2>1 DEF StageInv, TypeOK
  <2> QED BY <1>3, <2>2, ExplainType
<1>4. ASSUME NEW s \in Samples, Pipeline(s)
      PROVE  TypeOK'
  BY <1>2, <1>3, <1>4, QuietType DEF Pipeline
<1>5. CASE UNCHANGED vars
  BY <1>5 DEF TypeOK, vars
<1> QED BY <1>4, <1>5, QuietType, RestartType DEF Next

-----------------------------------------------------------------------------
\* Stages, rows and messages.

(* An incident is opened: s, which had no id, is the witness of its new row; *)
(* the witness of any other row is another sample.                           *)
LEMMA HandleInv ==
    ASSUME Inv, NEW s \in Samples, stage[s] = "correlating", NEW i \in {key[s], s},
           Handle(s, i)
    PROVE  StageInv' /\ RowInv' /\ NoRowForgotten' /\ ToldInOrder'
<1> USE DEF Inv
<1>1. /\ home[s] \in Workers /\ i \in Ids /\ i # None
      /\ id[s] = None /\ s \notin swallowed
  BY IncidentsAssumption DEF StageInv, Ids
<1>2. /\ stage' = [stage EXCEPT ![s] = "opened"]
      /\ id' = [id EXCEPT ![s] = i]
      /\ UNCHANGED <<home, key, told>>
      /\ \/ row' = Inserted(i) /\ swallowed' = swallowed
         \/ row' = row /\ swallowed' = swallowed \cup {s}
  BY DEF Handle
<1>3. /\ stage'[s] = "opened" /\ id'[s] = i
      /\ \A t \in Samples \ {s} :
             stage'[t] = stage[t] /\ id'[t] = id[t] /\ (t \in swallowed' <=> t \in swallowed)
  BY <1>2 DEF TypeOK
<1>4. \A j \in Ids : /\ j # i => row'[j] = row[j]
                     /\ row[j] # NoRow => row'[j] = row[j]
  BY <1>2 DEF TypeOK, Inserted
<1>5. row'[i] # row[i] => row[i] = NoRow /\ row'[i] = None
  BY <1>1, <1>2 DEF TypeOK, Inserted
<1>6. s \notin swallowed' => row'[i] # NoRow
  BY <1>1, <1>2, IncidentsAssumption DEF TypeOK, Inserted
<1>7. StageInv'
  BY <1>1, <1>2, <1>3 DEF StageInv
<1>8. RowInv'
  <2>1. \A j \in Ids : row'[j] # NoRow => \E t \in Samples : id'[t] = j
    BY <1>1, <1>3, <1>4, IncidentsAssumption DEF RowInv, Ids
  <2>2. "incident_ai" \notin told[s]
    BY <1>1 DEF RowInv
  <2>3. ASSUME NEW t \in Samples \ {s}, id[t] # None, t \notin swallowed
        PROVE  id[t] \in Ids /\ row[id[t]] # NoRow /\ row'[id[t]] = row[id[t]]
    BY <1>4, <2>3 DEF RowInv, TypeOK
  <2> QED BY <1>1, <1>2, <1>3, <1>6, <2>1, <2>2, <2>3 DEF RowInv
<1>9. NoRowForgotten'
  <2>1. ASSUME NEW j \in Ids, row'[j] = None, row[j] = None
        PROVE  \E t \in Samples : /\ id'[t] = j
                                  /\ \/ stage'[t] \in {"opened", "explaining", "lost"}
                                     \/ t \in swallowed'
    <3>1. PICK t \in Samples : /\ id[t] = j
                               /\ \/ stage[t] \in {"opened", "explaining", "lost"}
                                  \/ t \in swallowed
      BY <2>1 DEF NoRowForgotten
    <3>2. t # s
      BY <1>1, <3>1, IncidentsAssumption DEF Ids
    <3> QED BY <1>3, <3>1, <3>2
  <2>2. \A j \in Ids : row'[j] = None /\ row[j] # None => j = i
    BY <1>4
  <2> QED BY <1>3, <2>1, <2>2 DEF NoRowForgotten
<1>10. ToldInOrder'
  <2>1. "incident_ai" \notin told[s] /\ "notify" \notin told[s]
    BY <1>1 DEF RowInv, ToldInOrder
  <2>2. ASSUME NEW t \in Samples \ {s}, id[t] # None, row[id[t]] \in Verdicts
        PROVE  row'[id[t]] \in Verdicts
    BY <1>4, <2>2, IncidentsAssumption DEF TypeOK
  <2> QED BY <1>2, <1>3, <2>1, <2>2 DEF ToldInOrder, RowInv
<1> QED BY <1>7, <1>8, <1>9, <1>10

(* An incident is explained: its row says so, whichever sample made it, or   *)
(* the error is remembered.                                                  *)
LEMMA ExplainInv ==
    ASSUME Inv, NEW s \in Samples, NEW by \in Explainers, Explain(s, by)
    PROVE  StageInv' /\ RowInv' /\ NoRowForgotten' /\ ToldInOrder'
<1> USE DEF Inv
<1> DEFINE v == [of |-> s, by |-> by]
           i == id[s]
<1>1. /\ home[s] \in Workers /\ i \in Ids /\ i # None /\ "incident" \in told[s]
      /\ stage[s] = "explaining" /\ v \in Verdicts /\ v # None /\ v # NoRow
  BY IncidentsAssumption DEF StageInv, TypeOK, Explain, UpdateIncidentAI, Verdicts
<1>2. /\ stage' = [stage EXCEPT ![s] = "explained"]
      /\ UNCHANGED <<home, key, id, told>>
      /\ \/ row' = Updated(i, v) /\ swallowed' = swallowed
         \/ row' = row /\ swallowed' = swallowed \cup {s}
  BY DEF Explain, UpdateIncidentAI
<1> HIDE DEF v, i
<1>3. /\ stage'[s] = "explained"
      /\ \A t \in Samples \ {s} :
             stage'[t] = stage[t] /\ (t \in swallowed' <=> t \in swallowed)
  BY <1>2 DEF TypeOK
<1>4. \A j \in Ids : /\ row[j] \in Verdicts => row'[j] \in Verdicts
                     /\ row'[j] = NoRow <=> row[j] = NoRow
                     /\ row'[j] = None => row[j] = None
  BY <1>1, <1>2 DEF TypeOK, Updated
<1>5. s \notin swallowed' => s \notin swallowed /\ row'[i] \in Verdicts
  <2>1. ASSUME s \notin swallowed'
        PROVE  s \notin swallowed /\ row[i] # NoRow /\ row' = Updated(i, v)
    BY <1>1, <1>2, <2>1 DEF RowInv, i
  <2> QED BY <1>1, <2>1 DEF Updated, TypeOK
<1>6. StageInv'
  BY <1>1, <1>2, <1>3 DEF StageInv, i
<1>7. \A t \in Samples : id[t] # None => id[t] \in Ids
  BY DEF TypeOK
<1>8. RowInv'
  <2>1. \A j \in Ids : row'[j] # NoRow => \E t \in Samples : id'[t] = j
    BY <1>2, <1>4 DEF RowInv
  <2>2. \A t \in Samples : id[t] # None /\ t \notin swallowed' => row'[id[t]] # NoRow
    BY <1>2, <1>4, <1>7 DEF RowInv
  <2>3. ASSUME NEW t \in Samples, id[t] # None, t \notin swallowed',
               stage'[t] \notin {"opened", "explaining", "lost"}
        PROVE  row'[id[t]] \in Verdicts
    BY <1>3, <1>4, <1>5, <1>7, <2>3 DEF RowInv, i
  <2> QED BY <1>2, <2>1, <2>2, <2>3 DEF RowInv
<1>9. NoRowForgotten'
  <2>1. ASSUME NEW j \in Ids, row'[j] = None
        PROVE  \E t \in Samples : /\ id'[t] = j
                                  /\ \/ stage'[t] \in {"opened", "explaining", "lost"}
                                     \/ t \in swallowed'
    <3>1. PICK t \in Samples : /\ id[t] = j
                               /\ \/ stage[t] \in {"opened", "explaining", "lost"}
                                  \/ t \in swallowed
      BY <1>4, <2>1 DEF NoRowForgotten
    <3>2. t = s => s \in swallowed'
      BY <1>5, <2>1, <3>1, IncidentsAssumption DEF i
    <3> QED BY <1>2, <1>3, <3>1, <3>2
  <2> QED BY <2>1 DEF NoRowForgotten
<1>10. ToldInOrder'
  <2>1. \A t \in Samples : t \in swallowed => t \in swallowed'
    BY <1>2
  <2> QED BY <1>2, <1>4, <1>7, <2>1 DEF ToldInOrder, RowInv
<1> QED BY <1>6, <1>8, <1>9, <1>10

(* The other steps of a pipeline leave ids, rows and errors alone.           *)
LEMMA QuietInv ==
    ASSUME Inv, NEW s \in Samples,
           \/ \E w \in Workers, k \in Keys : Receive(s, w, k)
           \/ \E anomalous \in BOOLEAN : Filter(s, anomalous)
           \/ Announce(s)
           \/ Tell(s)
           \/ \E delivered \in BOOLEAN : Notify(s, delivered)
    PROVE  StageInv' /\ RowInv' /\ NoRowForgotten' /\ ToldInOrder'
<1> USE DEF Inv
<1>1. CASE \E w \in Workers, k \in Keys : Receive(s, w, k)
  <2>1. PICK w \in Workers, k \in Keys : Receive(s, w, k)
    BY <1>1
  <2>2. id[s] = None /\ s \notin swallowed
    BY <2>1 DEF Receive, StageInv
  <2>3. StageInv'
    BY <2>1, <2>2 DEF Receive, StageInv, TypeOK
  <2>4. NoRowForgotten'
    BY <2>1, <2>2, IncidentsAssumption DEF Receive, NoRowForgotten, TypeOK, Ids
  <2> QED BY <2>1, <2>2, <2>3, <2>4 DEF Receive, RowInv, ToldInOrder, TypeOK
<1>2. CASE \E anomalous \in BOOLEAN : Filter(s, anomalous)
  <2>1. PICK anomalous \in BOOLEAN : Filter(s, anomalous)
    BY <1>2
  <2>2. id[s] = None /\ s \notin swallowed
    BY <2>1 DEF Filter, StageInv
  <2>3. StageInv'
    BY <2>1, <2>2 DEF Filter, Broadcast, StageInv, TypeOK
  <2>4. RowInv'
    BY <2>1, <2>2 DEF Filter, Broadcast, RowInv, TypeOK
  <2>5. NoRowForgotten'
    BY <2>1, <2>2, IncidentsAssumption DEF Filter, NoRowForgotten, TypeOK, Ids
  <2> QED BY <2>1, <2>3, <2>4, <2>5 DEF Filter, Broadcast, ToldInOrder, TypeOK
<1>3. CASE Announce(s)
  <2> USE <1>3 DEF Announce, Broadcast, TypeOK
  <2>1. StageInv'
    BY DEF StageInv
  <2>2. RowInv'
    BY DEF RowInv
  <2>3. NoRowForgotten'
    BY DEF NoRowForgotten
  <2> QED BY <2>1, <2>2, <2>3 DEF ToldInOrder
<1>4. CASE Tell(s)
  <2> USE <1>4 DEF Tell, Broadcast, TypeOK
  <2>1. id[s] # None /\ "incident" \in told[s] /\ (s \in swallowed \/ row[id[s]] \in Verdicts)
    BY DEF StageInv, RowInv
  <2>2. StageInv'
    BY DEF StageInv
  <2>3. RowInv'
    BY <2>1 DEF RowInv
  <2>4. NoRowForgotten'
    BY DEF NoRowForgotten
  <2> QED BY <2>1, <2>2, <2>3, <2>4 DEF ToldInOrder
<1>5. CASE \E delivered \in BOOLEAN : Notify(s, delivered)
  <2>1. PICK delivered \in BOOLEAN : Notify(s, delivered)
    BY <1>5
  <2> USE <2>1 DEF Notify, TypeOK
  <2>2. "incident_ai" \in told[s]
    BY DEF StageInv
  <2>3. StageInv'
    BY DEF StageInv
  <2>4. RowInv'
    BY DEF RowInv
  <2>5. NoRowForgotten'
    BY DEF NoRowForgotten
  <2> QED BY <2>2, <2>3, <2>4, <2>5 DEF ToldInOrder
<1> QED BY <1>1, <1>2, <1>3, <1>4, <1>5

LEMMA RestartInv ==
    ASSUME Inv, NEW w \in Workers, NEW q \in Loads, Restart(w, q)
    PROVE  StageInv' /\ RowInv' /\ NoRowForgotten' /\ ToldInOrder'
<1> USE DEF Inv
<1>1. UNCHANGED <<home, key, id, row, told, swallowed>>
  BY DEF Restart
<1>2. \A s \in Samples : /\ stage'[s] = stage[s] \/ stage'[s] = "lost"
                         /\ stage[s] = "new" => stage'[s] = "new"
  BY DEF Restart, Running
<1>3. StageInv' /\ RowInv'
  BY <1>1, <1>2 DEF StageInv, RowInv
<1>4. NoRowForgotten'
  BY <1>1, <1>2 DEF NoRowForgotten
<1> QED BY <1>1, <1>3, <1>4 DEF ToldInOrder

LEMMA InvStep ==
    ASSUME Inv, [Next]_vars
    PROVE  Inv'
<1>1. TypeOK'
  BY TypeStep DEF Inv
<1> SUFFICES StageInv' /\ RowInv' /\ NoRowForgotten' /\ ToldInOrder'
  BY <1>1 DEF Inv
<1>2. ASSUME NEW s \in Samples, Correlated(s) \/ FallBack(s)
      PROVE  StageInv' /\ RowInv' /\ NoRowForgotten' /\ ToldInOrder'
  BY <1>2, HandleInv DEF Correlated, FallBack
<1>3. ASSUME NEW s \in Samples, Pipeline(s)
      PROVE  StageInv' /\ RowInv' /\ NoRowForgotten' /\ ToldInOrder'
  BY <1>2, <1>3, ExplainInv, QuietInv DEF Pipeline
<1>4. CASE UNCHANGED vars
  BY <1>4 DEF vars, Inv, StageInv, RowInv, NoRowForgotten, ToldInOrder
<1> QED BY <1>3, <1>4, QuietInv, RestartInv DEF Next

(* All of it together, for every instance.                                   *)
THEOREM PipelineInvariant == Spec => []Inv
<1>1. Init => Inv
  BY InitInv
<1>2. Inv /\ [Next]_vars => Inv'
  BY InvStep
<1> QED BY <1>1, <1>2, PTL DEF Spec

(* The state of every process, the table and the messages keep their types,  *)
(* and no cache outgrows its bound (process_anomaly, incidents deque).       *)
THEOREM TypeCorrect == Spec => []TypeOK
<1>1. Inv => TypeOK
  BY DEF Inv
<1> QED BY <1>1, PipelineInvariant, PTL

(* A row is left unexplained only by a pipeline not done with it, lost with  *)
(* its process, or refused by the database (_call_ai_engine).                *)
THEOREM NothingForgotten == Spec => []NoRowForgotten
<1>1. Inv => NoRowForgotten
  BY DEF Inv
<1> QED BY <1>1, PipelineInvariant, PTL

(* Incident, explanation and notification are sent in this order, and the    *)
(* explanation after it was stored (process_anomaly, _call_ai_engine).       *)
THEOREM MessagesInOrder == Spec => []ToldInOrder
<1>1. Inv => ToldInOrder
  BY DEF Inv
<1> QED BY <1>1, PipelineInvariant, PTL

-----------------------------------------------------------------------------
\* Explanations are never taken away.

LEMMA ExplanationStep ==
    ASSUME TypeOK, StageInv, [Next]_vars, NEW i \in Ids, row[i] \in Verdicts
    PROVE  row'[i] \in Verdicts
<1>1. ASSUME NEW s \in Samples, NEW j, Handle(s, j)
      PROVE  row'[i] \in Verdicts
  BY <1>1, IncidentsAssumption DEF Handle, Inserted, TypeOK
<1>2. ASSUME NEW s \in Samples, NEW by \in Explainers, Explain(s, by)
      PROVE  row'[i] \in Verdicts
  <2> DEFINE v == [of |-> s, by |-> by]
  <2>1. v \in Verdicts
    BY DEF Verdicts
  <2>2. row' = Updated(id[s], v) \/ row' = row
    BY <1>2 DEF Explain, UpdateIncidentAI
  <2> HIDE DEF v
  <2> QED BY <2>1, <2>2 DEF Updated, TypeOK
<1>3. ASSUME NEW s \in Samples, Pipeline(s)
      PROVE  row'[i] \in Verdicts
  BY <1>1, <1>2, <1>3 DEF Pipeline, Correlated, FallBack, Filter, Announce, Tell, Notify
<1> QED BY <1>3 DEF Next, Receive, Restart, vars

(* insert_incident and update_incident, by any processes in any order, never *)
(* leave an explained row without an explanation.                            *)
THEOREM ExplanationsStay == Spec => ExplanationKept
<1>1. Inv /\ [Next]_vars => [\A i \in Ids : row[i] \in Verdicts => row'[i] \in Verdicts]_vars
  BY ExplanationStep DEF Inv
<1> QED BY <1>1, PipelineInvariant, PTL DEF Spec, ExplanationKept

-----------------------------------------------------------------------------
\* Caches and the table.

(* The dict of a new incident agrees with the row just inserted: nobody else *)
(* has its id, so there was none.                                            *)
LEMMA HandleCache ==
    ASSUME Inv, CacheInv, NEW s \in Samples, stage[s] = "correlating",
           NEW i \in {key[s], s}, Handle(s, i)
    PROVE  CacheInv'
<1> DEFINE fresh == [id |-> i, of |-> s, verdict |-> None]
<1>1. /\ home[s] \in Workers /\ i \in Ids /\ i # None /\ s # None
      /\ id[s] = None /\ s \notin swallowed /\ fresh \in Entries
  BY IncidentsAssumption DEF Inv, StageInv, Ids, Entries
<1>2. /\ stage' = [stage EXCEPT ![s] = "opened"]
      /\ id' = [id EXCEPT ![s] = i]
      /\ cache' = [cache EXCEPT ![home[s]] = Push(cache[home[s]], fresh)]
      /\ home' = home
      /\ \/ row' = Inserted(i) /\ swallowed' = swallowed
         \/ row' = row /\ swallowed' = swallowed \cup {s}
  BY DEF Handle
<1>3. /\ stage'[s] = "opened" /\ id'[s] = i
      /\ \A t \in Samples \ {s} : stage'[t] = stage[t] /\ id'[t] = id[t]
  BY <1>2 DEF Inv, TypeOK
<1>4. \A j \in Ids : j # i => row'[j] = row[j]
  BY <1>2 DEF Inv, TypeOK, Inserted
<1>5. Owned(home[s], fresh)' /\ Agrees(fresh)'
  <2>1. Owned(home[s], fresh)'
    BY <1>2, <1>3 DEF Owned
  <2>2. ASSUME s \notin swallowed', \A t \in Samples \ {s} : id'[t] # i
        PROVE  row'[i] = None
    <3>1. \A t \in Samples : id[t] # i
      BY <1>1, <1>3, <2>2
    <3>2. row[i] = NoRow
      BY <1>1, <3>1 DEF Inv, RowInv
    <3>3. row' = Inserted(i)
      BY <1>2, <2>2
    <3> QED BY <1>1, <3>2, <3>3 DEF Inv, TypeOK, Inserted
  <2> QED BY <2>1, <2>2 DEF Agrees
<1>6. ASSUME NEW w \in Workers, NEW e \in Entries, Owned(w, e), Agrees(e)
      PROVE  Owned(w, e)' /\ Agrees(e)'
  <2>1. CASE e.of = None
    BY <2>1 DEF Owned, Agrees
  <2>2. CASE e.of # None
    <3>1. e.of \in Samples \ {s} /\ id[e.of] = e.id /\ e.id \in Ids
      BY <1>6, <2>2, IncidentsAssumption DEF Owned, Entries
    <3>2. Owned(w, e)'
      BY <1>2, <1>3, <1>6, <3>1 DEF Owned
    <3>3. CASE e.id = i
      BY <1>3, <3>1, <3>2, <3>3 DEF Agrees
    <3>4. CASE e.id # i
      <4>1. (\A t \in Samples \ {e.of} : id'[t] # e.id)
                => \A t \in Samples \ {e.of} : id[t] # e.id
        BY <1>1, <1>3, <3>1, IncidentsAssumption DEF Ids
      <4>2. e.of \notin swallowed' => e.of \notin swallowed
        BY <1>2
      <4> QED BY <1>4, <1>6, <3>1, <3>2, <3>4, <4>1, <4>2 DEF Agrees
    <3> QED BY <3>2, <3>3, <3>4
  <2> QED BY <2>1, <2>2
<1>7. ASSUME NEW w \in Workers, NEW a \in 1..Len(cache'[w])
      PROVE  \/ w = home[s] /\ cache'[w][a] = fresh
             \/ \E b \in 1..Len(cache[w]) : cache'[w][a] = cache[w][b]
  <2>1. CASE w = home[s]
    <3>1. cache'[w] = Push(cache[w], fresh)
      BY <1>1, <1>2, <2>1 DEF Inv, TypeOK
    <3>2. cache[w] \in Seq(Entries) /\ Len(cache[w]) <= MaxCache
      BY DEF Inv, TypeOK
    <3> HIDE DEF fresh
    <3>3. \A q \in Seq(Entries), e \in Entries :
              Len(q) <= MaxCache =>
                  \A d \in 1..Len(Push(q, e)) :
                      \/ Push(q, e)[d] = e
                      \/ \E b \in 1..Len(q) : Push(q, e)[d] = q[b]
      BY PushProperties
    <3>4. \A d \in 1..Len(Push(cache[w], fresh)) :
              \/ Push(cache[w], fresh)[d] = fresh
              \/ \E b \in 1..Len(cache[w]) : Push(cache[w], fresh)[d] = cache[w][b]
      BY <1>1, <3>2, <3>3
    <3> QED BY <1>7, <2>1, <3>1, <3>4
  <2>2. CASE w # home[s]
    BY <1>2, <1>7, <2>2 DEF Inv, TypeOK
  <2> QED BY <2>1, <2>2
<1>8. \A w \in Workers : \A b \in 1..Len(cache[w]) :
          /\ cache[w][b] \in Entries
          /\ Owned(w, cache[w][b]) /\ Agrees(cache[w][b])
  BY DEF CacheInv, Inv, TypeOK
<1>9. ASSUME NEW w \in Workers, NEW a \in 1..Len(cache'[w]), NEW e, e = cache'[w][a]
      PROVE  Owned(w, e)' /\ Agrees(e)'
  <2>1. CASE w = home[s] /\ e = fresh
    <3> HIDE DEF fresh
    <3> QED BY <1>2, <1>5, <2>1 DEF Owned, Agrees
  <2>2. CASE \E b \in 1..Len(cache[w]) : e = cache[w][b]
    <3>1. PICK b \in 1..Len(cache[w]) : e = cache[w][b]
      BY <2>2
    <3>2. e \in Entries /\ Owned(w, e) /\ Agrees(e)
      BY <1>8, <3>1
    <3> QED BY <1>6, <3>2
  <2> QED BY <1>7, <1>9, <2>1, <2>2
<1> QED BY <1>9 DEF CacheInv, Owned, Agrees

(* The dicts of s are explained as its row is; a dict of another sample has  *)
(* another row, or an id that is shared.                                     *)
LEMMA ExplainCache ==
    ASSUME Inv, CacheInv, NEW s \in Samples, NEW by \in Explainers, Explain(s, by)
    PROVE  CacheInv'
<1> DEFINE v == [of |-> s, by |-> by]
           h == home[s]
<1>1. /\ h \in Workers /\ id[s] \in Ids /\ s # None
      /\ v \in Verdicts /\ stage[s] = "explaining"
  BY IncidentsAssumption DEF Inv, StageInv, TypeOK, Explain, UpdateIncidentAI, Verdicts
<1>2. /\ stage' = [stage EXCEPT ![s] = "explained"]
      /\ cache' = [cache EXCEPT ![h] = Explained(s, v)]
      /\ UNCHANGED <<home, id>>
      /\ \/ row' = Updated(id[s], v) /\ swallowed' = swallowed
         \/ row' = row /\ swallowed' = swallowed \cup {s}
  BY DEF Explain, UpdateIncidentAI
<1> HIDE DEF v
<1>3. stage'[s] = "explained" /\ \A t \in Samples \ {s} : stage'[t] = stage[t]
  BY <1>2 DEF Inv, TypeOK
<1>4. \A j \in Ids : j # id[s] => row'[j] = row[j]
  BY <1>2 DEF Inv, TypeOK, Updated
<1>5. s \notin swallowed' => row'[id[s]] = v
  <2>1. ASSUME s \notin swallowed'
        PROVE  row[id[s]] # NoRow /\ row' = Updated(id[s], v)
    BY <1>1, <1>2, <2>1, IncidentsAssumption DEF Inv, RowInv, Ids
  <2> QED BY <1>1, <2>1 DEF Updated, Inv, TypeOK
<1>6. ASSUME NEW w \in Workers, NEW e \in Entries, Owned(w, e), Agrees(e)
      PROVE  e.of # s => Owned(w, e)' /\ Agrees(e)'
  <2>1. CASE e.of = None
    BY <2>1 DEF Owned, Agrees
  <2>2. CASE e.of # None /\ e.of # s
    <3>1. e.of \in Samples \ {s} /\ id[e.of] = e.id /\ e.id \in Ids
      BY <1>6, <2>2, IncidentsAssumption DEF Owned, Entries
    <3>2. Owned(w, e)'
      BY <1>2, <1>3, <1>6, <3>1 DEF Owned
    <3>3. CASE e.id = id[s]
      BY <1>2, <3>1, <3>2, <3>3 DEF Agrees
    <3>4. CASE e.id # id[s]
      <4>1. e.of \notin swallowed' => e.of \notin swallowed
        BY <1>2
      <4> QED BY <1>2, <1>4, <1>6, <3>1, <3>2, <3>4, <4>1 DEF Agrees
    <3> QED BY <3>3, <3>4
  <2> QED BY <2>1, <2>2
<1>7. ASSUME NEW w \in Workers, NEW e \in Entries, Owned(w, e), e.of = s
      PROVE  Owned(w, [e EXCEPT !.verdict = v])' /\ Agrees([e EXCEPT !.verdict = v])'
  <2> DEFINE f == [e EXCEPT !.verdict = v]
  <2>1. f.of = s /\ f.id = e.id /\ f.verdict = v
    BY <1>7 DEF Entries
  <2>2. home[s] = w /\ id[s] = e.id
    BY <1>1, <1>7 DEF Owned
  <2> HIDE DEF f
  <2>3. Owned(w, f)' /\ Agrees(f)'
    BY <1>2, <1>3, <1>5, <2>1, <2>2 DEF Owned, Agrees
  <2> QED BY <2>3 DEF f
<1>8. \A w \in Workers : \A b \in 1..Len(cache[w]) :
          /\ cache[w][b] \in Entries
          /\ Owned(w, cache[w][b]) /\ Agrees(cache[w][b])
  BY DEF CacheInv, Inv, TypeOK
<1>9. ASSUME NEW w \in Workers, NEW a \in 1..Len(cache'[w])
      PROVE  /\ a \in 1..Len(cache[w])
             /\ \/ cache[w][a].of # s /\ cache'[w][a] = cache[w][a]
                \/ /\ cache[w][a].of = s
                   /\ cache'[w][a] = [cache[w][a] EXCEPT !.verdict = v]
  <2>1. CASE w = h
    <3>1. cache'[w] = Explained(s, v)
      BY <1>1, <1>2, <2>1 DEF Inv, TypeOK
    <3>2. /\ Len(Explained(s, v)) = Len(cache[h])
          /\ \A d \in 1..Len(Explained(s, v)) :
                 Explained(s, v)[d] = IF cache[h][d].of = s
                                      THEN [cache[h][d] EXCEPT !.verdict = v]
                                      ELSE cache[h][d]
      BY <1>1, ExplainedType DEF Inv
    <3> QED BY <1>9, <2>1, <3>1, <3>2
  <2>2. CASE w # h
    <3>1. cache'[w] = cache[w]
      BY <1>2, <2>2 DEF Inv, TypeOK
    <3>2. cache[w][a].of # s
      BY <1>1, <1>8, <1>9, <2>2, <3>1 DEF Owned
    <3> QED BY <1>9, <3>1, <3>2
  <2> QED BY <2>1, <2>2
<1>10. ASSUME NEW w \in Workers, NEW a \in 1..Len(cache'[w]),
              NEW e, e = cache'[w][a], NEW d, d = cache[w][a]
       PROVE  Owned(w, e)' /\ Agrees(e)'
  <2>1. d \in Entries /\ Owned(w, d) /\ Agrees(d)
    BY <1>8, <1>9, <1>10
  <2>2. CASE d.of # s /\ e = d
    BY <1>6, <2>1, <2>2
  <2>3. CASE d.of = s /\ e = [d EXCEPT !.verdict = v]
    BY <1>7, <2>1, <2>3 DEF Owned, Agrees
  <2> QED BY <1>9, <1>10, <2>2, <2>3
<1> QED BY <1>10 DEF CacheInv, Owned, Agrees

(* The other steps of a pipeline change no dict, no row and no id; a restart *)
(* loads dicts that are of no pipeline.                                      *)
LEMMA OtherCache ==
    ASSUME Inv, CacheInv, UNCHANGED <<cache, id, row, swallowed>>,
           \A s \in Samples : stage[s] \notin {"new", "received", "correlating"} =>
               home'[s] = home[s] /\ stage'[s] \notin {"new", "received", "correlating"}
    PROVE  CacheInv'
<1>1. \A w \in Workers : \A b \in 1..Len(cache[w]) : cache[w][b].of \in Samples \cup {None}
  <2>1. ASSUME NEW w \in Workers, NEW b \in 1..Len(cache[w])
        PROVE  cache[w][b].of \in Samples \cup {None}
    <3>1. cache[w][b] \in Entries
      BY <2>1 DEF Inv, TypeOK
    <3> QED BY <3>1 DEF Entries
  <2> QED BY <2>1
<1> QED BY <1>1 DEF CacheInv, Owned, Agrees

LEMMA RestartCache ==
    ASSUME Inv, CacheInv, NEW w \in Workers, NEW q \in Loads, Restart(w, q)
    PROVE  CacheInv'
<1>1. /\ UNCHANGED <<home, id, row, swallowed>>
      /\ cache' = [cache EXCEPT ![w] =
             [a \in 1..Len(q) |-> [id |-> q[a], of |-> None, verdict |-> row[q[a]]]]]
      /\ \A s \in Samples : stage'[s] = stage[s] \/ stage'[s] = "lost"
  BY DEF Restart
<1>2. ASSUME NEW a \in 1..Len(cache'[w])
      PROVE  cache'[w][a].of = None
  <2>1. Len(q) \in Nat
    BY LoadsType
  <2> QED BY <1>1, <1>2, <2>1 DEF Inv, TypeOK
<1>3. \A x \in Workers \ {w} : cache'[x] = cache[x]
  BY <1>1 DEF Inv, TypeOK
<1>4. ASSUME NEW x \in Workers \ {w}, NEW b \in 1..Len(cache[x])
      PROVE  cache[x][b].of \in Samples \cup {None}
  <2>1. cache[x][b] \in Entries
    BY <1>4 DEF Inv, TypeOK
  <2> QED BY <2>1 DEF Entries
<1>5. ASSUME NEW x \in Workers \ {w}, NEW b \in 1..Len(cache[x]), NEW e, e = cache[x][b]
      PROVE  Owned(x, e)' /\ Agrees(e)'
  <2>1. Owned(x, e) /\ Agrees(e)
    BY <1>5 DEF CacheInv
  <2>2. Agrees(e)'
    BY <1>1, <2>1 DEF Agrees
  <2>3. e.of \in Samples \cup {None}
    BY <1>4, <1>5
  <2>4. Owned(x, e)'
    BY <1>1, <2>1, <2>3 DEF Owned
  <2> QED BY <2>2, <2>4
<1> QED BY <1>2, <1>3, <1>5 DEF CacheInv, Owned, Agrees

LEMMA CacheStep ==
    ASSUME Inv, CacheInv, [Next]_vars
    PROVE  CacheInv'
<1>1. ASSUME NEW s \in Samples,
             \/ \E w \in Workers, k \in Keys : Receive(s, w, k)
             \/ \E anomalous \in BOOLEAN : Filter(s, anomalous)
             \/ Announce(s)
             \/ Tell(s)
             \/ \E delivered \in BOOLEAN : Notify(s, delivered)
      PROVE  CacheInv'
  <2>1. UNCHANGED <<cache, id, row, swallowed>>
    BY <1>1 DEF Receive, Filter, Announce, Tell, Notify
  <2>2. \A t \in Samples : stage[t] \notin {"new", "received", "correlating"} =>
            home'[t] = home[t] /\ stage'[t] \notin {"new", "received", "correlating"}
    BY <1>1 DEF Receive, Filter, Announce, Tell, Notify, Inv, TypeOK
  <2> QED BY <2>1, <2>2, OtherCache
<1>2. ASSUME NEW s \in Samples, Correlated(s) \/ FallBack(s)
      PROVE  CacheInv'
  BY <1>2, HandleCache DEF Correlated, FallBack
<1>3. ASSUME NEW s \in Samples, Pipeline(s)
      PROVE  CacheInv'
  BY <1>1, <1>2, <1>3, ExplainCache DEF Pipeline
<1>4. CASE UNCHANGED vars
  BY <1>4 DEF vars, CacheInv, Owned, Agrees
<1> QED BY <1>1, <1>3, <1>4, RestartCache DEF Next

(* What GET /incidents and the table say of one incident is the same, unless *)
(* a write was refused or the id is shared (_call_ai_engine changes the dict *)
(* that the cache holds, then the row).                                      *)
THEOREM CachesAgree == Spec => []CacheAgreesWithTable
<1>1. Init => CacheInv
  BY DEF Init, CacheInv
<1>2. Inv /\ CacheInv /\ [Next]_vars => CacheInv'
  BY CacheStep
<1>3. CacheInv => CacheAgreesWithTable
  BY DEF CacheInv, Agrees, CacheAgreesWithTable
<1> QED BY <1>1, <1>2, <1>3, PipelineInvariant, PTL DEF Spec

=============================================================================
