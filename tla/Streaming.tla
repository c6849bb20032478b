------------------------------ MODULE Streaming -----------------------------
(***************************************************************************)
(* The detection part of the library koral: the factory with its cache of  *)
(* detectors, one for each series, the streaming detector with its forest  *)
(* of random cut trees, and the batch detector.                            *)
(*                                                                         *)
(* The library runs in whatever threads call it and takes no lock; a step  *)
(* here is what the interpreter does without giving another thread a turn. *)
(* A thread watches a series as the library's documentation describes it:  *)
(* query the latest value, get the detector, detect.  A value is finite or *)
(* odd (NaN or infinite: VictoriaMetrics answers a ratio of zeros so).  A  *)
(* tree is the set of the indices of its points; its shape and its scores  *)
(* are left out.                                                           *)
(***************************************************************************)
EXTENDS Naturals, Sequences, FiniteSets

CONSTANTS
    Threads,
    Watched,       \* series: [pod, metric]
    NoDetector,    \* no number of one
    NumTrees,
    TreeSize,
    Shingle,
    Batches,       \* series of values a batch may hold, NaN among them
    NaN,
    Period,        \* 144 points, a day
    MinSamples,    \* 10
    MaxCalls       \* bound on the calls, for model checking

ASSUME StreamingAssumption ==
    /\ NumTrees \in Nat \ {0} /\ TreeSize \in Nat \ {0} /\ Shingle \in Nat \ {0}
    /\ MinSamples \in Nat \ {0}
    /\ IsFiniteSet(Threads)
    /\ NoDetector \notin Nat
    /\ \A batch \in Batches : Len(batch) \in Nat

Trees == 1..NumTrees

VARIABLES
    cache,      \* _detectors: the detector of each series, by its number
    made,       \* every detector created: its buffer, _point_index and forest
    call,       \* what each thread is doing
    calls,      \* number of calls so far
    shared,     \* history: detectors that two threads were in at once
    split,      \* history: series whose creations overlapped, or that were removed
    tainted     \* history: detectors that were given an odd value

streamVars == <<cache, made, call, calls, shared, split, tainted>>

NotCalled == [at |-> "idle"]
Over == {"idle", "raised", "answered"}

StreamInit ==
    /\ cache = [s \in Watched |-> NoDetector]
    /\ made = <<>>
    /\ call = [h \in Threads |-> NotCalled]
    /\ calls = 0
    /\ shared = {}
    /\ split = {}
    /\ tainted = {}

Goto(h, place) == call' = [call EXCEPT ![h].at = place]

-----------------------------------------------------------------------------
\* METRIC_TYPE_MAP; a metric goes by the pattern its name starts with.
METRIC_TYPE_MAP == [
    spiky |-> {"kube_pod_container_status_restarts_total", "container_oom_events_total",
               "kube_deployment_status_replicas_unavailable", "http_requests_error_rate",
               "kube_pod_status_phase"},
    drift |-> {"container_memory_working_set_bytes",
               "kube_persistentvolumeclaim_resource_requests_storage_bytes",
               "container_fs_usage_bytes", "container_fs_writes_bytes_total"}]

classify_metric(metric) ==
    IF metric \in METRIC_TYPE_MAP.spiky THEN "spiky"
    ELSE IF metric \in METRIC_TYPE_MAP.drift THEN "drift" ELSE "seasonal"

get_detector_for_type(type) == IF type = "spiky" THEN "rrcf" ELSE "stl_if"

Kind(s) == get_detector_for_type(classify_metric(s.metric))

Empty == [k \in Trees |-> {}]

\* Of the buffer: its length, and how many shingles still have an odd value in
\* them, the latest one included; of the forest: the leaves of each tree, and the
\* trees whose points are odd.
New(s) == [series |-> s, buffer |-> 0, odd |-> 0, index |-> 0, leaves |-> Empty, spoilt |-> {}]

\* query_latest and query_range: a value (float() takes "NaN" and "Inf"), none, or
\* an error of the HTTP call.
Queried == {"finite", "odd", "none", "error"}

(* Only with data is there something to detect in.                           *)
Watch(h, s, got) ==
    /\ call[h].at \in Over /\ calls < MaxCalls
    /\ calls' = calls + 1
    /\ call' = [call EXCEPT ![h] =
                   CASE got \in {"finite", "odd"} ->
                            [at |-> "looking", series |-> s, value |-> got]
                     [] got = "none" -> NotCalled
                     [] got = "error" -> [at |-> "raised", detector |-> NoDetector]]
    /\ UNCHANGED <<cache, made, shared, split, tainted>>

Creators(s) == {h \in Threads : call[h].at = "creating" /\ call[h].series = s}

(* get_detector: if key not in self._detectors                               *)
Look(h) ==
    LET s == call[h].series
    IN /\ call[h].at = "looking"
       /\ Goto(h, IF cache[s] = NoDetector THEN "creating" ELSE "returning")
       /\ split' = IF Creators(s) # {} THEN split \cup {s} ELSE split
       /\ UNCHANGED <<cache, made, calls, shared, tainted>>

(* self._detectors[key] = detector                                           *)
Create(h) ==
    LET s == call[h].series
    IN /\ call[h].at = "creating"
       /\ made' = Append(made, New(s))
       /\ cache' = [cache EXCEPT ![s] = Len(made) + 1]
       /\ Goto(h, "returning")
       /\ UNCHANGED <<calls, shared, split, tainted>>

InIt(d) == {h \in Threads : call[h].at \notin Over \cup {"looking", "creating", "returning"}
                             /\ call[h].detector = d}

(* return self._detectors[key]: a KeyError if it was removed in between.     *)
Return(h) ==
    LET d == cache[call[h].series]
    IN /\ call[h].at = "returning"
       /\ IF d = NoDetector
          THEN /\ call' = [call EXCEPT ![h] = [at |-> "raised", detector |-> NoDetector]]
               /\ UNCHANGED shared
          ELSE /\ call' = [call EXCEPT ![h] =
                              [at |-> "detecting", detector |-> d, point |-> @.value,
                               loaded |-> 0, tree |-> 1, oldest |-> 0]]
               /\ shared' = IF InIt(d) # {} THEN shared \cup {d} ELSE shared
       /\ UNCHANGED <<cache, made, calls, split, tainted>>

(* remove_detector, when a pod is gone.  A second remover of the same key    *)
(* between the test and the del would get a KeyError and change nothing.     *)
remove_detector(s) ==
    /\ cache[s] # NoDetector
    /\ calls < MaxCalls /\ calls' = calls + 1
    /\ cache' = [cache EXCEPT ![s] = NoDetector]
    /\ split' = split \cup {s}
    /\ UNCHANGED <<made, call, shared, tainted>>

clear ==
    /\ \E s \in Watched : cache[s] # NoDetector
    /\ calls < MaxCalls /\ calls' = calls + 1
    /\ cache' = [s \in Watched |-> NoDetector]
    /\ split' = split \cup {s \in Watched : cache[s] # NoDetector}
    /\ UNCHANGED <<made, call, shared, tainted>>

-----------------------------------------------------------------------------
Detector(h) == made[call[h].detector]
Leaves(h) == Detector(h).leaves[call[h].tree]

InForest == UNCHANGED <<cache, calls, shared, split, tainted>>

Raised(h) == call' = [call EXCEPT ![h] = [at |-> "raised", detector |-> @.detector]]
Answer(h) == call' = [call EXCEPT ![h] = [at |-> "answered", detector |-> @.detector]]

\* An odd shingle may be the same as one before: infinities are equal, NaN is not.
Points(odd) == IF odd = 0 THEN {"finite"} ELSE {"odd", "same"}

(* self._buffer.append(value); until the shingle is full: warm-up.           *)
Buffer(h) ==
    LET d == call[h].detector
        n == IF made[d].buffer < Shingle THEN made[d].buffer + 1 ELSE Shingle
        odd == IF call[h].point = "odd" THEN Shingle
               ELSE IF made[d].odd = 0 THEN 0 ELSE made[d].odd - 1
    IN /\ call[h].at = "detecting" /\ Kind(made[d].series) = "rrcf"
       /\ made' = [made EXCEPT ![d].buffer = n, ![d].odd = odd]
       /\ IF n < Shingle THEN Answer(h)
          ELSE \E point \in Points(odd) :
                   call' = [call EXCEPT ![h].at = "loading", ![h].point = point]
       /\ tainted' = IF call[h].point = "odd" THEN tainted \cup {d} ELSE tainted
       /\ UNCHANGED <<cache, calls, shared, split>>

(* self._point_index += 1 is a load ...                                      *)
Load(h) ==
    /\ call[h].at = "loading"
    /\ call' = [call EXCEPT ![h].at = "storing", ![h].loaded = Detector(h).index]
    /\ UNCHANGED made /\ InForest

(* ... and a store.                                                          *)
Store(h) ==
    /\ call[h].at = "storing"
    /\ made' = [made EXCEPT ![call[h].detector].index = call[h].loaded + 1]
    /\ Goto(h, "measuring")
    /\ InForest

\* Mutant of Full: the points with a value of the first shingle are not counted.
Full_Late(leaves) == Cardinality(leaves) >= TreeSize + Shingle

\* len(tree.leaves) >= self.tree_size
Full(leaves) == Cardinality(leaves) >= TreeSize

Measure(h) ==
    /\ call[h].at = "measuring"
    /\ Goto(h, IF Full(Leaves(h)) THEN "choosing" ELSE "inserting")
    /\ UNCHANGED made /\ InForest

\* Mutant of Eldest: the youngest point makes room.
Eldest_Youngest(leaves, i) == i \in leaves /\ \A j \in leaves : j <= i

Eldest(leaves, i) == i \in leaves /\ \A j \in leaves : i <= j

(* oldest = min(tree.leaves.keys()): a ValueError if nothing is left.        *)
Choose(h) ==
    /\ call[h].at = "choosing"
    /\ \/ \E i \in Leaves(h) :
              /\ Eldest(Leaves(h), i)
              /\ call' = [call EXCEPT ![h].at = "forgetting", ![h].oldest = i]
       \/ Leaves(h) = {} /\ Raised(h)
    /\ UNCHANGED made /\ InForest

SetLeaves(h, leaves) == made' = [made EXCEPT ![call[h].detector].leaves[call[h].tree] = leaves]

(* tree.forget_point(oldest): a KeyError if another thread forgot it.        *)
Forget(h) ==
    /\ call[h].at = "forgetting"
    /\ IF call[h].oldest \in Leaves(h)
       THEN SetLeaves(h, Leaves(h) \ {call[h].oldest}) /\ Goto(h, "inserting")
       ELSE UNCHANGED made /\ Raised(h)
    /\ InForest

\* An empty tree takes any point, a finite tree finite ones, a spoilt one only an
\* equal of its point; for other points rrcf draws a cut from a range that is not
\* finite, which raises.  A KeyError if the index is there.
Takes(h, i) ==
    \/ Leaves(h) = {}
    \/ /\ i \notin Leaves(h)
       /\ call[h].point = IF call[h].tree \in Detector(h).spoilt THEN "same" ELSE "finite"

(* tree.insert_point(shingle, index=self._point_index): the index as it is   *)
(* by now, which another thread may have inserted.  If it raises, the index  *)
(* stays, and what was forgotten is gone.  An error of codisp counts as a    *)
(* score of 0.                                                               *)
Insert(h) ==
    LET d == call[h].detector
        k == call[h].tree
        i == Detector(h).index
    IN /\ call[h].at = "inserting"
       /\ IF ~Takes(h, i)
          THEN UNCHANGED made /\ Raised(h)
          ELSE /\ made' = [made EXCEPT ![d].leaves[k] = @ \cup {i},
                                       ![d].spoilt = IF call[h].point = "finite" THEN @ \ {k}
                                                     ELSE @ \cup {k}]
               /\ IF k + 1 \in Trees
                  THEN call' = [call EXCEPT ![h].at = "measuring", ![h].tree = @ + 1]
                  ELSE Answer(h)
       /\ InForest

(* Two threads in the nodes of one tree: rrcf may fail in any way.           *)
Collide(h) ==
    /\ call[h].at \in {"forgetting", "inserting"}
    /\ \E g \in InIt(call[h].detector) \ {h} :
           call[g].at \in {"forgetting", "inserting"} /\ call[g].tree = call[h].tree
    /\ Raised(h)
    /\ UNCHANGED made /\ InForest

-----------------------------------------------------------------------------
Times(series) == 1..Len(series)
NonNull(series) == {t \in Times(series) : series[t] # NaN}

\* has_sufficient_data
has_sufficient_data(series) == Cardinality(NonNull(series)) >= 2 * Period

\* Whether decompose gives a residual: it needs two periods, and STL may fail.
decompose(series) == IF has_sufficient_data(series) THEN BOOLEAN ELSE {FALSE}

\* The signal's points that the forest is fitted on: all of them if STL gave a
\* residual, where the gaps are filled, else the non-null ones.
Clean(series, decomposed) == IF decomposed THEN Times(series) ELSE NonNull(series)

\* The results by time: neutral for every point if there are not enough.
Verdicts(series, clean) ==
    IF Cardinality(clean) < MinSamples THEN [t \in Times(series) |-> "neutral"]
    ELSE [t \in clean |-> "judged"]

(* STLIFDetector: detect is neutral; detect_many judges a batch.             *)
Neutral(h) ==
    /\ call[h].at = "detecting" /\ Kind(Detector(h).series) = "stl_if"
    /\ Answer(h)
    /\ UNCHANGED made /\ InForest

DetectMany(h, batch, decomposed) ==
    /\ call[h].at = "detecting" /\ Kind(Detector(h).series) = "stl_if"
    /\ decomposed \in decompose(batch)
    /\ call' = [call EXCEPT ![h] = [at |-> "answered", detector |-> @.detector, batch |-> batch,
                                    results |-> Verdicts(batch, Clean(batch, decomposed))]]
    /\ UNCHANGED made /\ InForest

StreamStep(h) ==
    \/ \E s \in Watched, got \in Queried : Watch(h, s, got)
    \/ Look(h) \/ Create(h) \/ Return(h)
    \/ Buffer(h) \/ Load(h) \/ Store(h)
    \/ Measure(h) \/ Choose(h) \/ Forget(h) \/ Insert(h) \/ Collide(h)
    \/ Neutral(h)
    \/ \E batch \in Batches, decomposed \in BOOLEAN : DetectMany(h, batch, decomposed)

StreamNext ==
    \/ \E h \in Threads : StreamStep(h)
    \/ \E s \in Watched : remove_detector(s)
    \/ clear

StreamSpec == StreamInit /\ [][StreamNext]_streamVars

-----------------------------------------------------------------------------
(* tree_size bounds the memory of a forest: threads that measured a tree     *)
(* before the others' inserts take it beyond its size, but together by less  *)
(* than their number.                                                        *)
TreesBounded ==
    \A d \in 1..Len(made), k \in Trees :
        Cardinality(made[d].leaves[k]) <= TreeSize + Cardinality(Threads) - 1

(* A detector that one thread at a time uses, and that was given finite      *)
(* values only, never raises, and between its calls each tree holds the      *)
(* newest points, tree_size of them.                                         *)
ExactWhenAlone ==
    \A d \in 1..Len(made) : d \notin shared \cup tainted =>
        /\ \A h \in Threads : call[h].at = "raised" => call[h].detector # d
        /\ InIt(d) = {} => \A k \in Trees : made[d].leaves[k] =
               {i \in 1..made[d].index : i + TreeSize > made[d].index}

(* "Each unique triple gets its own detector instance": a series has two     *)
(* only if two threads created it at once or it was removed in between.      *)
OneDetector ==
    \A i, j \in 1..Len(made) : i # j /\ made[i].series = made[j].series =>
        made[i].series \in split

(* A batch is judged at each of its values, or answered neutrally at every   *)
(* point: no point of the series is lost in between.                         *)
BatchesAreWhole ==
    \A h \in Threads : call[h].at = "answered" /\ "batch" \in DOMAIN call[h] =>
        LET judged == {t \in DOMAIN call[h].results : call[h].results[t] = "judged"}
        IN IF judged = {} THEN DOMAIN call[h].results = Times(call[h].batch)
           ELSE /\ NonNull(call[h].batch) \subseteq judged
                /\ Cardinality(judged) >= MinSamples

(* Nothing of a series is lost on the way to its detector or in it, as long  *)
(* as one thread watches it and its values are finite: it has one detector,  *)
(* whose trees hold its newest points, and a batch of it is judged point by  *)
(* point.                                                                    *)
NothingLost == OneDetector /\ ExactWhenAlone /\ BatchesAreWhole

(* The detector "must be thread-safe for concurrent pod metrics": no call of *)
(* detect raises over finite values.  It does, with two threads in it.       *)
ThreadSafe ==
    \A h \in Threads : call[h].at = "raised" /\ call[h].detector # NoDetector =>
        call[h].detector \in tainted
=============================================================================
