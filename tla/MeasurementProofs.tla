------------------------- MODULE MeasurementProofs -------------------------
(***************************************************************************)
(* Proofs about what is measured: the metric before and after an execution *)
(* (Verification), and the samples of the agents on their way into the     *)
(* windows and incidents of the correlation engine (Detection), for any    *)
(* number of processes, threads, series, executions and calls, any values  *)
(* of the metrics and any thresholds above zero.                           *)
(***************************************************************************)
EXTENDS Verification, Detection, FiniteSetTheorems, WellFoundedInduction, TLAPS

-----------------------------------------------------------------------------
(***************************************************************************)
(* The verification engine.                                                *)
(***************************************************************************)

(* What the engine and its callers know of each other: a call not yet made   *)
(* has no job, and a job is of a well-formed request, about a logged         *)
(* execution if it came through the backend.                                 *)
JobInv ==
    \A v \in Calls :
        /\ call[v] = "idle" => job[v] = "none"
        /\ job[v] # "none" => req[v] \in Requests
        /\ job[v] # "none" /\ req[v].origin = "backend"
               => execution[req[v].exec] = "logged"

Inv == VerifyTypeOK /\ JobInv /\ RowsAreOfLoggedExecutions /\ StoreIsMeasured

-----------------------------------------------------------------------------

\* A verdict is inconclusive exactly when nothing was measured.
LEMMA Inconclusive ==
    ASSUME NEW v \in Calls
    PROVE  Verdict(v) = "inconclusive" <=> post[v] = NoData
BY DEF Verdict

LEMMA ProductPositive ==
    ASSUME NEW a \in Int, NEW b \in Int, a > 0, b > 0
    PROVE  a * b > 0
BY Z3

(* The verdict of the code, for all numbers: a success is a fall below a     *)
(* baseline that was given (verify_remediation, the two thresholds).         *)
LEMMA SuccessIsLower ==
    ASSUME NEW pre \in Snapshots \cup {NoData}, NEW after \in Snapshots,
           Success(pre, after)
    PROVE  pre # NoData /\ after.mean < pre.mean
<1>1. /\ PreMean(pre) \in Nat /\ PreSpread(pre) \in Nat \ {0} /\ after.mean \in Nat
      /\ pre = NoData => PreMean(pre) = 0
      /\ pre # NoData => PreMean(pre) = pre.mean
  <2>1. after.mean \in Nat
    BY VerificationAssumption DEF Snapshots
  <2>2. CASE pre = NoData
    BY <2>1, <2>2 DEF PreMean, PreSpread
  <2>3. CASE pre # NoData
    <3>1. pre.mean \in Nat /\ pre.stdev \in Nat
      BY <2>3, VerificationAssumption DEF Snapshots
    <3> QED BY <2>1, <2>3, <3>1 DEF PreMean, PreSpread
  <2> QED BY <2>2, <2>3
<1>2. PreMean(pre) - after.mean > 0
  <2> DEFINE drop == PreMean(pre) - after.mean
  <2>1. drop \in Int
    BY <1>1
  <2>2. CASE PreMean(pre) > 0 /\ 100 * drop >= SuccessPercent * PreMean(pre)
    <3>1. SuccessPercent * PreMean(pre) > 0
      BY <1>1, <2>2, ProductPositive, VerificationAssumption
    <3>2. 100 * drop > 0
      BY <1>1, <2>1, <2>2, <3>1, VerificationAssumption
    <3> QED BY <2>1, <3>2
  <2>3. CASE 10 * drop >= ZTargetTenths * PreSpread(pre)
    <3>1. ZTargetTenths * PreSpread(pre) > 0
      BY <1>1, ProductPositive, VerificationAssumption
    <3>2. 10 * drop > 0
      BY <1>1, <2>1, <2>3, <3>1, VerificationAssumption
    <3> QED BY <2>1, <3>2
  <2> QED BY <2>2, <2>3 DEF Success
<1> QED BY <1>1, <1>2

LEMMA InitInv == VerifyInit => Inv
BY DEF VerifyInit, Inv, VerifyTypeOK, JobInv, RowsAreOfLoggedExecutions, StoreIsMeasured,
       CallStates, JobStates, NoRequest

-----------------------------------------------------------------------------
\* One lemma per action.

LEMMA ExecutedInv ==
    ASSUME Inv, NEW x \in Execs, NEW before \in Snapshots \cup {NoData},
           NEW logged \in BOOLEAN, Executed(x, before, logged)
    PROVE  Inv'
<1> USE DEF Inv, Executed
<1>1. VerifyTypeOK'
  BY DEF VerifyTypeOK
<1>2. \A y \in Execs : execution[y] = "logged" => execution'[y] = "logged"
  BY DEF VerifyTypeOK
<1>3. JobInv'
  BY <1>2 DEF JobInv, Requests
<1>4. RowsAreOfLoggedExecutions'
  <2>1. \A v \in table : req[v] \in Requests
    BY DEF RowsAreOfLoggedExecutions, JobInv, VerifyTypeOK
  <2> QED BY <1>2, <2>1 DEF RowsAreOfLoggedExecutions, Requests
<1>5. StoreIsMeasured'
  BY DEF StoreIsMeasured, Verdict
<1> QED BY <1>1, <1>3, <1>4, <1>5

(* A request accepted for a call that was idle: nothing is stored or written *)
(* of that call yet.                                                         *)
LEMMA AcceptInv ==
    ASSUME Inv, NEW v \in Calls, NEW x \in Execs, NEW w \in Workers,
           NEW from \in {"backend", "direct"}, NEW pre \in Snapshots \cup {NoData},
           call[v] = "idle", from = "backend" => execution[x] = "logged",
           Accept(v, x, from, pre, w)
    PROVE  Inv'
<1> USE DEF Inv, Accept
<1>1. req'[v] = [exec |-> x, origin |-> from, worker |-> w, pre |-> pre]
  BY DEF VerifyTypeOK
<1>2. req'[v] \in Requests
  BY <1>1 DEF Requests
<1>3. VerifyTypeOK'
  BY <1>2 DEF VerifyTypeOK, CallStates, JobStates
<1>4. \A u \in Calls \ {v} :
        call'[u] = call[u] /\ job'[u] = job[u] /\ req'[u] = req[u]
  BY DEF VerifyTypeOK
<1>5. call'[v] = "waiting" /\ job'[v] = "sleeping"
  BY DEF VerifyTypeOK
<1>6. JobInv'
  BY <1>1, <1>2, <1>4, <1>5 DEF JobInv
<1>7. v \notin table /\ \A u \in Workers : v \notin verification_store[u]
  BY DEF RowsAreOfLoggedExecutions, StoreIsMeasured, JobInv
<1>8. RowsAreOfLoggedExecutions'
  BY <1>4, <1>7 DEF RowsAreOfLoggedExecutions, VerifyTypeOK
<1>9. StoreIsMeasured'
  <2>1. \A u \in Workers : \A c \in verification_store[u] : c \in Calls \ {v}
    BY <1>7 DEF VerifyTypeOK
  <2>2. \A c \in Calls : (Verdict(c) # "inconclusive")' <=> post[c] # NoData
    BY DEF Verdict
  <2>3. \A c \in Calls : Verdict(c) # "inconclusive" <=> post[c] # NoData
    BY Inconclusive
  <2> QED BY <1>4, <2>1, <2>2, <2>3 DEF StoreIsMeasured
<1> QED BY <1>3, <1>6, <1>8, <1>9

LEMMA ReceiveInv ==
    ASSUME Inv, NEW v \in Calls, NEW kept \in BOOLEAN, Receive(v, kept)
    PROVE  Inv'
<1> USE DEF Inv, Receive
<1>1. VerifyTypeOK'
  BY DEF VerifyTypeOK, CallStates
<1>2. \A u \in Calls : call'[u] = "idle" => call[u] = "idle"
  BY DEF VerifyTypeOK
<1>3. JobInv'
  BY <1>2 DEF JobInv
<1>4. \A u \in Calls \ {v} : call'[u] = call[u]
  BY DEF VerifyTypeOK
<1>5. RowsAreOfLoggedExecutions'
  BY <1>4 DEF RowsAreOfLoggedExecutions, JobInv, VerifyTypeOK
<1>6. StoreIsMeasured'
  BY DEF StoreIsMeasured, Verdict
<1> QED BY <1>1, <1>3, <1>5, <1>6

LEMMA GiveUpInv ==
    ASSUME Inv, NEW v \in Calls, GiveUp(v)
    PROVE  Inv'
<1> USE DEF Inv, GiveUp
<1>1. VerifyTypeOK'
  BY DEF VerifyTypeOK, CallStates
<1>2. \A u \in Calls : call'[u] = "idle" => call[u] = "idle"
  BY DEF VerifyTypeOK
<1>3. JobInv'
  BY <1>2 DEF JobInv
<1>4. v \notin table /\ \A u \in Calls \ {v} : call'[u] = call[u]
  BY DEF VerifyTypeOK, RowsAreOfLoggedExecutions
<1>5. RowsAreOfLoggedExecutions'
  BY <1>4 DEF RowsAreOfLoggedExecutions, VerifyTypeOK
<1>6. StoreIsMeasured'
  BY DEF StoreIsMeasured, Verdict
<1> QED BY <1>1, <1>3, <1>5, <1>6

LEMMA MeasureInv ==
    ASSUME Inv, NEW v \in Calls, NEW after \in Snapshots \cup {NoData},
           Measure(v, after)
    PROVE  Inv'
<1> USE DEF Inv, Measure
<1>1. v \notin table /\ \A u \in Workers : v \notin verification_store[u]
  BY DEF RowsAreOfLoggedExecutions, StoreIsMeasured
<1>2. req[v].worker \in Workers
  BY DEF JobInv, Requests
<1>3. VerifyTypeOK'
  BY <1>2 DEF VerifyTypeOK, JobStates
<1>4. \A u \in Calls \ {v} : job'[u] = job[u] /\ post'[u] = post[u]
  BY DEF VerifyTypeOK
<1>5. job'[v] # "none" /\ post'[v] = after
  BY DEF VerifyTypeOK
<1>6. JobInv'
  BY <1>4, <1>5 DEF JobInv
<1>7. RowsAreOfLoggedExecutions'
  BY <1>1, <1>4 DEF RowsAreOfLoggedExecutions, VerifyTypeOK
<1>8. StoreIsMeasured'
  <2>1. \A c \in Calls : (Verdict(c) # "inconclusive")' <=> post'[c] # NoData
    BY DEF Verdict
  <2>2. \A c \in Calls : Verdict(c) # "inconclusive" <=> post[c] # NoData
    BY Inconclusive
  <2>3. \A u \in Workers : \A c \in verification_store[u] : c \in Calls \ {v}
    BY <1>1 DEF VerifyTypeOK
  <2>4. CASE after = NoData
    BY <1>4, <2>1, <2>2, <2>3, <2>4 DEF StoreIsMeasured
  <2>5. CASE after # NoData
    <3>1. job'[v] = "persisting"
      BY <2>5 DEF VerifyTypeOK
    <3>2. \A u \in Workers : \A c \in verification_store'[u] :
            c \in verification_store[u] \/ (c = v /\ u = req[v].worker)
      BY <2>5, <1>2 DEF VerifyTypeOK
    <3> QED BY <1>4, <1>5, <2>1, <2>2, <2>3, <2>5, <3>1, <3>2 DEF StoreIsMeasured
  <2> QED BY <2>4, <2>5
<1> QED BY <1>3, <1>6, <1>7, <1>8

LEMMA PersistInv ==
    ASSUME Inv, NEW v \in Calls, Persist(v)
    PROVE  Inv'
<1> USE DEF Inv, Persist
<1>1. VerifyTypeOK'
  BY DEF VerifyTypeOK, JobStates
<1>2. job'[v] = "answered" /\ \A u \in Calls \ {v} : job'[u] = job[u]
  BY DEF VerifyTypeOK
<1>3. JobInv'
  BY <1>2 DEF JobInv
<1>4. RowsAreOfLoggedExecutions'
  BY <1>2 DEF RowsAreOfLoggedExecutions, VerifyTypeOK
<1>5. StoreIsMeasured'
  BY <1>2 DEF StoreIsMeasured, Verdict, VerifyTypeOK
<1> QED BY <1>1, <1>3, <1>4, <1>5

LEMMA CrashInv ==
    ASSUME Inv, NEW w \in Workers, Restart(w)
    PROVE  Inv'
<1> USE DEF Inv, Restart
<1>1. VerifyTypeOK'
  BY DEF VerifyTypeOK, JobStates
<1>2. \A v \in Calls : /\ job'[v] = "none" <=> job[v] = "none"
                       /\ job[v] = "answered" => job'[v] = "answered"
                       /\ req[v].worker # w => job'[v] = job[v]
  OBVIOUS
<1>3. JobInv'
  BY <1>2 DEF JobInv
<1>4. RowsAreOfLoggedExecutions'
  BY <1>2 DEF RowsAreOfLoggedExecutions, VerifyTypeOK
<1>5. StoreIsMeasured'
  <2>1. \A u \in Workers : verification_store'[u] = IF u = w THEN {} ELSE verification_store[u]
    BY DEF VerifyTypeOK
  <2> QED BY <1>2, <2>1 DEF StoreIsMeasured, Verdict, VerifyTypeOK
<1> QED BY <1>1, <1>3, <1>4, <1>5

-----------------------------------------------------------------------------

LEMMA NextInv == Inv /\ [VerifyNext]_verifyVars => Inv'
<1> SUFFICES ASSUME Inv, [VerifyNext]_verifyVars PROVE Inv'
  OBVIOUS
<1>1. ASSUME NEW x \in Execs, NEW before \in Snapshots \cup {NoData},
             NEW logged \in BOOLEAN, Executed(x, before, logged)
      PROVE  Inv'
  BY <1>1, ExecutedInv
<1>2. ASSUME NEW v \in Calls, NEW x \in Execs, NEW w \in Workers,
             VerifyExecution(v, x, w)
      PROVE  Inv'
  BY <1>2, AcceptInv DEF VerifyExecution, LoggedBaseline
<1>3. ASSUME NEW v \in Calls, NEW x \in Execs, NEW w \in Workers,
             NEW pre \in Snapshots \cup {NoData}, VerifyDirectly(v, x, pre, w)
      PROVE  Inv'
  BY <1>3, AcceptInv DEF VerifyDirectly
<1>4. ASSUME NEW v \in Calls, NEW kept \in BOOLEAN, Receive(v, kept)
      PROVE  Inv'
  BY <1>4, ReceiveInv
<1>5. ASSUME NEW v \in Calls, GiveUp(v)
      PROVE  Inv'
  BY <1>5, GiveUpInv
<1>6. ASSUME NEW v \in Calls, NEW after \in Snapshots \cup {NoData}, Measure(v, after)
      PROVE  Inv'
  BY <1>6, MeasureInv
<1>7. ASSUME NEW v \in Calls, Persist(v)
      PROVE  Inv'
  BY <1>7, PersistInv
<1>8. ASSUME NEW w \in Workers, Restart(w)
      PROVE  Inv'
  BY <1>8, CrashInv
<1>9. CASE UNCHANGED verifyVars
  BY <1>9 DEF verifyVars, Inv, VerifyTypeOK, JobInv, RowsAreOfLoggedExecutions,
              StoreIsMeasured, Verdict
<1> QED
  BY <1>1, <1>2, <1>3, <1>4, <1>5, <1>6, <1>7, <1>8, <1>9 DEF VerifyNext

LEMMA InvHolds == VerifySpec => []Inv
BY InitInv, NextInv, PTL DEF VerifySpec

(* The variables keep their types, for any processes, executions and calls. *)
THEOREM TypeCorrect == VerifySpec => []VerifyTypeOK
BY InvHolds, PTL DEF Inv

(* A row of verification_results is of an answered call of the backend about *)
(* a logged execution, for every interleaving of the callers and crashes.    *)
THEOREM RowsAreGrounded == VerifySpec => []RowsAreOfLoggedExecutions
BY InvHolds, PTL DEF Inv

(* The store of a process holds measured verifications of its own only.      *)
THEOREM StoresAreMeasured == VerifySpec => []StoreIsMeasured
BY InvHolds, PTL DEF Inv

(* "resolved" always means lower than the baseline, for all numbers the      *)
(* metric can give and all thresholds above zero.                            *)
THEOREM ResolvedIsAlwaysLower == VerifySpec => []ResolvedIsLower
<1>1. Inv => ResolvedIsLower
  <2> SUFFICES ASSUME Inv, NEW v \in Calls, Verdict(v) = "resolved"
               PROVE  req[v].pre # NoData /\ post[v].mean < req[v].pre.mean
    BY DEF ResolvedIsLower
  <2>1. post[v] # NoData /\ Success(req[v].pre, post[v])
    BY DEF Verdict
  <2>2. post[v] \in Snapshots /\ req[v].pre \in Snapshots \cup {NoData}
    BY <2>1 DEF Inv, VerifyTypeOK, Requests, NoRequest
  <2> QED BY <2>1, <2>2, SuccessIsLower
<1> QED BY <1>1, InvHolds, PTL

-----------------------------------------------------------------------------
(***************************************************************************)
(* Agents and windows: types, and what a step of the engine may change.    *)
(***************************************************************************)

AgentPlaces == {"sleeping", "fetching", "spiking", "posting"}

AgentType == [at : AgentPlaces, recent : Seq(Values), time : Nat, synthetic : BOOLEAN]

Samples == [series : Series, time : Nat, flagged : BOOLEAN]

Learning == {"expiring", "popping", "reading", "scored"}

Served == [at : Learning \cup {"fallback", "incident", "error"},
           series : Series, time : Nat, anomaly : BOOLEAN]

Asked == [series : Series, time : Nat, tries : 0..Attempts, on : SUBSET Threads]

AgentTypes ==
    /\ clock \in Nat
    /\ agent \in [Series -> AgentType]
    /\ spike \in [Series -> BOOLEAN]
    /\ sent \subseteq Samples

EngineTypes ==
    /\ history \in [Processes -> [Series -> Seq(Nat)]]
    /\ serving \in [Threads -> {Idle} \cup Served]
    /\ disturbed \subseteq Processes \X Series

DetectionTypes == AgentTypes /\ EngineTypes /\ asking \subseteq Asked

\* A thread that serves a call of a series in a process.
On(h, w, s) == ProcessOf[h] = w /\ serving[h].at \notin Free /\ serving[h].series = s

Orderly(points) ==
    \A i, j \in 1..Len(points) :
        i <= j => points[i] <= points[j] /\ points[j] <= points[i] + Window

UpTo(points, t) == \A i \in 1..Len(points) : points[i] <= t

Within(points, t) == \A i \in 1..Len(points) : t <= points[i] + Window

\* Where calls neither overlapped nor came out of order, one thread is on a
\* series, no point is younger than its sample, and once it has expired the
\* old ones none is too old.
WindowInv ==
    \A w \in Processes, s \in Series : <<w, s>> \notin disturbed =>
        /\ \A h, g \in Threads : On(h, w, s) /\ On(g, w, s) => h = g
        /\ Orderly(history[w][s])
        /\ \A h \in Threads : On(h, w, s) =>
               /\ UpTo(history[w][s], serving[h].time)
               /\ serving[h].at \in {"reading", "scored"} => Within(history[w][s], serving[h].time)

\* Threads that may still learn a sample.
Learners(s, t) ==
    {h \in Threads : serving[h].at \in Learning /\ serving[h].series = s /\ serving[h].time = t}

\* A sample is asked about once, and an attempt leaves one copy of it or one
\* thread that may learn it, at most.
AskInv ==
    /\ \A c \in asking : \E m \in sent : m.flagged /\ m.series = c.series /\ m.time = c.time
    /\ \A c, d \in asking : c.series = d.series /\ c.time = d.time => c = d
    /\ \A s \in Series, t \in Nat : Copies(s, t) # {} \/ Learners(s, t) # {} =>
           \E c \in asking : c.series = s /\ c.time = t
    /\ \A c \in asking :
           /\ IsFiniteSet(Copies(c.series, c.time)) /\ IsFiniteSet(Learners(c.series, c.time))
           /\ Cardinality(Copies(c.series, c.time)) + Cardinality(Learners(c.series, c.time))
                  <= c.tries

DetectionInv == DetectionTypes /\ WindowInv /\ AskInv

-----------------------------------------------------------------------------
\* The agents

LEMMA RememberedIsList ==
    ASSUME NEW values \in Seq(Values), NEW v \in Values
    PROVE  Remembered(values, v) \in Seq(Values)
<1>1. Append(values, v) \in Seq(Values) /\ Len(Append(values, v)) = Len(values) + 1
      /\ Len(values) \in Nat
  OBVIOUS
<1>2. Append(values, v) # <<>>
  BY <1>1
<1>3. Tail(Append(values, v)) \in Seq(Values)
  BY <1>1, <1>2
<1>4. QED
  BY <1>1, <1>3 DEF Remembered

\* A measurement changes the loop's place, its values and its time.
LEMMA MeasuredKeeps ==
    ASSUME AgentTypes, NEW s \in Series, NEW v \in Values, Measured(s, v)
    PROVE  /\ agent' \in [Series -> AgentType]
           /\ \A r \in Series : r # s => agent'[r] = agent[r]
           /\ sent' \subseteq Samples /\ sent \subseteq sent'
           /\ clock' = clock
<1> DEFINE recent == Remembered(agent[s].recent, v)
           a == [agent[s] EXCEPT !.at = "posting", !.recent = recent, !.time = clock]
           m == [series |-> s, time |-> clock, flagged |-> Flagged(agent[s].recent, v)]
<1>1. agent[s] \in AgentType /\ clock \in Nat
  BY DEF AgentTypes
<1>2. recent \in Seq(Values)
  BY <1>1, RememberedIsList DEF AgentType
<1>3. agent' = [agent EXCEPT ![s] = a]
  BY DEF Measured, AgentTypes
<1>4. Flagged(agent[s].recent, v) \in BOOLEAN
  BY DEF Flagged
<1>5. m \in Samples /\ sent' = sent \cup {m} /\ clock' = clock
  BY <1>1, <1>4 DEF Measured, Samples
<1> HIDE DEF recent
<1>6. a \in AgentType
  BY <1>1, <1>2 DEF AgentType, AgentPlaces
<1> HIDE DEF a, m
<1>7. QED
  BY <1>3, <1>5, <1>6 DEF AgentTypes

LEMMA AgentKeeps ==
    ASSUME AgentTypes, NEW s \in Series, AgentStep(s)
    PROVE  AgentTypes' /\ sent \subseteq sent'
<1>1. agent[s] \in AgentType /\ clock \in Nat
  BY DEF AgentTypes
<1>2. CASE Wake(s) \/ FetchFails(s) \/ SeeSpike(s) \/ PostEnds(s)
  <2>1. PICK a \in AgentType : agent' = [agent EXCEPT ![s] = a]
    <3>1. \A p \in AgentPlaces : [agent[s] EXCEPT !.at = p] \in AgentType
      BY <1>1 DEF AgentType
    <3>2. \A p \in AgentPlaces : [agent[s] EXCEPT !.at = p, !.time = clock] \in AgentType
      BY <1>1 DEF AgentType
    <3>3. \E p \in AgentPlaces :
              \/ agent' = [agent EXCEPT ![s] = [agent[s] EXCEPT !.at = p]]
              \/ agent' = [agent EXCEPT ![s] = [agent[s] EXCEPT !.at = p, !.time = clock]]
      BY <1>2 DEF Wake, FetchFails, SeeSpike, PostEnds, AgentTypes, AgentPlaces
    <3>4. QED
      BY <3>1, <3>2, <3>3
  <2>2. UNCHANGED <<clock, spike, sent>>
    BY <1>2 DEF Wake, FetchFails, SeeSpike, PostEnds
  <2>3. QED
    BY <2>1, <2>2 DEF AgentTypes
<1>3. CASE TriggerSpike(s)
  BY <1>3 DEF TriggerSpike, AgentTypes
<1>4. ASSUME NEW v \in Values, FetchReal(s, v) \/ FetchSynthetic(s, v)
      PROVE  AgentTypes' /\ sent \subseteq sent'
  <2>1. Measured(s, v) /\ UNCHANGED spike /\ agent[s].at = "fetching"
    BY <1>4 DEF FetchReal, FetchSynthetic
  <2>2. QED
    BY <2>1, MeasuredKeeps DEF AgentTypes
<1>5. ASSUME NEW v \in Values, ResetSpike(s, v)
      PROVE  AgentTypes' /\ sent \subseteq sent'
  <2>1. Measured(s, v) /\ spike' = [spike EXCEPT ![s] = FALSE]
    BY <1>5 DEF ResetSpike
  <2>2. QED
    BY <2>1, MeasuredKeeps DEF AgentTypes
<1>6. QED
  BY <1>2, <1>3, <1>4, <1>5 DEF AgentStep

-----------------------------------------------------------------------------
\* A step of the engine

Expired(h) == Of(h) = <<>> \/ ~Stale(Head(Of(h)), serving[h].time)

\* Places a step reaches without a change of the history.
Moved(h, place) ==
    /\ UNCHANGED history
    /\ place \in {"reading", "scored"} =>
           serving[h].at = "reading" \/ (serving[h].at = "expiring" /\ Expired(h))
    /\ place \in Learning => serving[h].at \in Learning

Popped(h, place) ==
    /\ serving[h].at = "popping" /\ place = "expiring"
    /\ Of(h) # <<>> /\ SetHistory(h, Tail(Of(h)))

Learnt(h, place) ==
    /\ serving[h].at = "scored" /\ place \in {"incident", "error"}
    /\ SetHistory(h, Append(Of(h), serving[h].time))

LEMMA EngineMoves ==
    ASSUME EngineTypes, NEW h \in Threads, EngineStep(h)
    PROVE  /\ serving[h] \in Served /\ serving[h].at \notin Free
           /\ UNCHANGED disturbed
           /\ \E r \in Served :
                  /\ serving' = [serving EXCEPT ![h] = r]
                  /\ r.series = serving[h].series /\ r.time = serving[h].time
                  /\ Moved(h, r.at) \/ Popped(h, r.at) \/ Learnt(h, r.at)
<1> DEFINE places == Learning \cup {"fallback", "incident", "error"}
           At(p) == [serving[h] EXCEPT !.at = p]
           Judged(p, b) == [serving[h] EXCEPT !.at = p, !.anomaly = b]
<1>1. serving[h].at \in {"expiring", "popping", "reading", "scored", "fallback"}
  BY DEF EngineStep, Expire, Pop, Score, Disturbed, Learn, Fallback
<1>2. serving[h] \in Served /\ serving[h].at \notin Free
  BY <1>1 DEF EngineTypes, Idle, Free
<1>3. \A p \in places : /\ At(p) \in Served /\ At(p).at = p
                        /\ At(p).series = serving[h].series /\ At(p).time = serving[h].time
  BY <1>2 DEF Served
<1>4. \A p \in places, b \in BOOLEAN :
          /\ Judged(p, b) \in Served /\ Judged(p, b).at = p
          /\ Judged(p, b).series = serving[h].series /\ Judged(p, b).time = serving[h].time
  BY <1>2 DEF Served
<1>5. \A p : Goto(h, p) => serving' = [serving EXCEPT ![h] = At(p)] /\ UNCHANGED disturbed
  BY DEF Goto, EngineTypes
<1> HIDE DEF At, Judged
<1>6. CASE Expire(h)
  <2>1. PICK p \in {"popping", "reading"} :
            Goto(h, p) /\ serving[h].at = "expiring" /\ (p = "reading" => Expired(h))
    BY <1>6 DEF Expire, Expired
  <2>2. p \in places /\ Moved(h, p)
    BY <1>6, <2>1 DEF Moved, Learning, Expire
  <2>3. QED
    BY <1>2, <1>3, <1>5, <2>1, <2>2
<1>7. CASE Pop(h)
  <2>1. CASE Of(h) = <<>>
    <3>1. Goto(h, "fallback") /\ Moved(h, "fallback")
      BY <1>7, <2>1 DEF Pop, Moved, Learning
    <3>2. QED
      BY <1>2, <1>3, <1>5, <3>1
  <2>2. CASE Of(h) # <<>>
    <3>1. Goto(h, "expiring") /\ Popped(h, "expiring")
      BY <1>7, <2>2 DEF Pop, Popped
    <3>2. "expiring" \in places
      BY DEF Learning
    <3>3. QED
      BY <1>2, <1>3, <1>5, <3>1, <3>2
  <2>3. QED
    BY <2>1, <2>2
<1>8. ASSUME NEW verdict \in BOOLEAN, Score(h, verdict)
      PROVE  /\ UNCHANGED disturbed
             /\ \E r \in Served :
                    /\ serving' = [serving EXCEPT ![h] = r]
                    /\ r.series = serving[h].series /\ r.time = serving[h].time
                    /\ Moved(h, r.at)
  <2>1. serving' = [serving EXCEPT ![h] = Judged("scored", verdict)] /\ UNCHANGED disturbed
    BY <1>8 DEF Score, EngineTypes, Judged
  <2>2. Moved(h, "scored") /\ "scored" \in places
    BY <1>8 DEF Score, Moved, Learning
  <2>3. QED
    BY <1>4, <2>1, <2>2
<1>9. CASE Disturbed(h)
  <2>1. Goto(h, "fallback") /\ Moved(h, "fallback")
    BY <1>9 DEF Disturbed, Moved, Learning
  <2>2. QED
    BY <1>2, <1>3, <1>5, <2>1
<1>10. CASE Learn(h)
  <2>1. PICK p \in {"incident", "error"} : Goto(h, p) /\ Learnt(h, p)
    BY <1>10 DEF Learn, Learnt
  <2>2. QED
    BY <1>2, <1>3, <1>5, <2>1
<1>11. CASE Fallback(h)
  <2>1. Goto(h, "incident") /\ Moved(h, "incident")
    BY <1>11 DEF Fallback, Moved, Learning
  <2>2. QED
    BY <1>2, <1>3, <1>5, <2>1
<1>12. QED
  BY <1>2, <1>6, <1>7, <1>8, <1>9, <1>10, <1>11 DEF EngineStep

\* What a step does to one history, and to no other.
LEMMA HistoryChanged ==
    ASSUME EngineTypes, NEW h \in Threads, serving[h] \in Served,
           NEW points \in Seq(Nat), SetHistory(h, points)
    PROVE  /\ history' \in [Processes -> [Series -> Seq(Nat)]]
           /\ history'[ProcessOf[h]][serving[h].series] = points
           /\ \A w \in Processes, s \in Series :
                  w # ProcessOf[h] \/ s # serving[h].series => history'[w][s] = history[w][s]
<1>1. ProcessOf[h] \in Processes /\ serving[h].series \in Series
  BY CorrelationAssumption DEF Served
<1>2. QED
  BY <1>1 DEF EngineTypes, SetHistory

LEMMA OfIsList ==
    ASSUME EngineTypes, NEW h \in Threads, serving[h] \in Served
    PROVE  Of(h) \in Seq(Nat) /\ serving[h].time \in Nat
<1>1. ProcessOf[h] \in Processes /\ serving[h].series \in Series
  BY CorrelationAssumption DEF Served
<1>2. QED
  BY <1>1 DEF EngineTypes, Of, Served

LEMMA EngineKeepsTypes ==
    ASSUME EngineTypes, NEW h \in Threads, EngineStep(h)
    PROVE  EngineTypes'
<1>1. serving[h] \in Served /\ UNCHANGED disturbed
  BY EngineMoves
<1>2. PICK r \in Served :
          /\ serving' = [serving EXCEPT ![h] = r]
          /\ Moved(h, r.at) \/ Popped(h, r.at) \/ Learnt(h, r.at)
  BY EngineMoves
<1>3. serving' \in [Threads -> {Idle} \cup Served]
  BY <1>2 DEF EngineTypes
<1>4. Of(h) \in Seq(Nat) /\ serving[h].time \in Nat
  BY <1>1, OfIsList
<1>5. Append(Of(h), serving[h].time) \in Seq(Nat) /\ (Of(h) # <<>> => Tail(Of(h)) \in Seq(Nat))
  BY <1>4
<1>6. history' \in [Processes -> [Series -> Seq(Nat)]]
  <2>1. CASE Moved(h, r.at)
    BY <2>1 DEF Moved, EngineTypes
  <2>2. CASE Popped(h, r.at)
    BY <1>1, <1>5, <2>2, HistoryChanged DEF Popped
  <2>3. CASE Learnt(h, r.at)
    BY <1>1, <1>5, <2>3, HistoryChanged DEF Learnt
  <2>4. QED
    BY <1>2, <2>1, <2>2, <2>3
<1>7. QED
  BY <1>1, <1>3, <1>6 DEF EngineTypes

-----------------------------------------------------------------------------
(***************************************************************************)
(* The windows stay in order.                                              *)
(***************************************************************************)

LEMMA TailOfPoints ==
    ASSUME NEW points \in Seq(Nat), points # <<>>
    PROVE  /\ Tail(points) \in Seq(Nat) /\ Len(Tail(points)) = Len(points) - 1
           /\ \A i \in 1..Len(Tail(points)) :
                  i + 1 \in 1..Len(points) /\ Tail(points)[i] = points[i + 1]
OBVIOUS

LEMMA TailKeepsOrder ==
    ASSUME NEW points \in Seq(Nat), points # <<>>, Orderly(points)
    PROVE  Orderly(Tail(points)) /\ \A t : UpTo(points, t) => UpTo(Tail(points), t)
<1>1. ASSUME NEW i \in 1..Len(Tail(points)), NEW j \in 1..Len(Tail(points)), i <= j
      PROVE  /\ Tail(points)[i] <= Tail(points)[j]
             /\ Tail(points)[j] <= Tail(points)[i] + Window
  <2>1. /\ i + 1 \in 1..Len(points) /\ j + 1 \in 1..Len(points) /\ i + 1 <= j + 1
        /\ Tail(points)[i] = points[i + 1] /\ Tail(points)[j] = points[j + 1]
    BY <1>1, TailOfPoints
  <2>2. QED
    BY <2>1 DEF Orderly
<1>2. QED
  BY <1>1, TailOfPoints DEF Orderly, UpTo

LEMMA AppendKeepsOrder ==
    ASSUME NEW points \in Seq(Nat), NEW t \in Nat,
           Orderly(points), UpTo(points, t), Within(points, t)
    PROVE  Orderly(Append(points, t))
<1> DEFINE n == Len(points)
           all == Append(points, t)
<1>1. /\ n \in Nat /\ Len(all) = n + 1 /\ all[n + 1] = t
      /\ \A i \in 1..n : all[i] = points[i] /\ points[i] \in Nat
  OBVIOUS
<1> HIDE DEF all
<1>2. ASSUME NEW i \in 1..(n + 1), NEW j \in 1..(n + 1), i <= j
      PROVE  all[i] <= all[j] /\ all[j] <= all[i] + Window
  <2>1. CASE j = n + 1 /\ i = n + 1
    BY <1>1, <2>1, CorrelationAssumption
  <2>2. CASE j = n + 1 /\ i # n + 1
    <3>1. i \in 1..n
      BY <1>1, <2>2
    <3>2. QED
      BY <1>1, <2>2, <3>1 DEF UpTo, Within
  <2>3. CASE j # n + 1
    <3>1. i \in 1..n /\ j \in 1..n
      BY <1>1, <1>2, <2>3
    <3>2. QED
      BY <1>1, <1>2, <3>1 DEF Orderly
  <2>4. QED
    BY <2>1, <2>2, <2>3
<1>3. QED
  BY <1>1, <1>2 DEF Orderly, all

\* Of points in order, the first one not too old means that none is.
LEMMA ExpiredIsWithin ==
    ASSUME NEW points \in Seq(Nat), NEW t \in Nat, Orderly(points),
           points = <<>> \/ ~Stale(Head(points), t)
    PROVE  Within(points, t)
<1>1. ASSUME NEW i \in 1..Len(points)
      PROVE  t <= points[i] + Window
  <2>1. points # <<>> /\ Head(points) = points[1] /\ 1 \in 1..Len(points) /\ 1 <= i
    BY <1>1
  <2>2. points[1] \in Nat /\ points[i] \in Nat /\ Window \in Nat
    BY <2>1, CorrelationAssumption
  <2>3. ~(points[1] + Window < t)
    BY <2>1 DEF Stale
  <2>4. points[1] <= points[i]
    BY <2>1 DEF Orderly
  <2>5. QED
    BY <2>2, <2>3, <2>4
<1>2. QED
  BY <1>1 DEF Within

LEMMA EngineKeepsWindows ==
    ASSUME EngineTypes, WindowInv, NEW h \in Threads, EngineStep(h)
    PROVE  WindowInv'
<1>1. /\ serving[h] \in Served /\ serving[h].at \notin Free
      /\ UNCHANGED disturbed
  BY EngineMoves
<1>2. PICK r \in Served :
          /\ serving' = [serving EXCEPT ![h] = r]
          /\ r.series = serving[h].series /\ r.time = serving[h].time
          /\ Moved(h, r.at) \/ Popped(h, r.at) \/ Learnt(h, r.at)
  BY EngineMoves
<1>3. serving'[h] = r /\ \A g \in Threads : g # h => serving'[g] = serving[g]
  BY <1>2 DEF EngineTypes
<1>4. \A w, s : \A g \in Threads : On(g, w, s)' => On(g, w, s)
  BY <1>1, <1>2, <1>3 DEF On
<1>5. Of(h) \in Seq(Nat) /\ serving[h].time \in Nat
  BY <1>1, OfIsList
<1>6. Append(Of(h), serving[h].time) \in Seq(Nat) /\ (Of(h) # <<>> => Tail(Of(h)) \in Seq(Nat))
  BY <1>5
<1> SUFFICES ASSUME NEW w \in Processes, NEW s \in Series, <<w, s>> \notin disturbed
             PROVE  /\ \A f, g \in Threads : On(f, w, s)' /\ On(g, w, s)' => f = g
                    /\ Orderly(history'[w][s])
                    /\ \A g \in Threads : On(g, w, s)' =>
                           /\ UpTo(history'[w][s], serving'[g].time)
                           /\ serving'[g].at \in {"reading", "scored"}
                                  => Within(history'[w][s], serving'[g].time)
  BY <1>1 DEF WindowInv, Orderly, UpTo, Within
<1>7. /\ \A f, g \in Threads : On(f, w, s) /\ On(g, w, s) => f = g
      /\ Orderly(history[w][s])
      /\ \A g \in Threads : On(g, w, s) =>
             /\ UpTo(history[w][s], serving[g].time)
             /\ serving[g].at \in {"reading", "scored"} => Within(history[w][s], serving[g].time)
  BY DEF WindowInv
<1>8. \A f, g \in Threads : On(f, w, s)' /\ On(g, w, s)' => f = g
  BY <1>4, <1>7
<1>9. CASE ~On(h, w, s)
  <2>1. w # ProcessOf[h] \/ s # serving[h].series
    BY <1>1, <1>9 DEF On
  <2>2. history'[w][s] = history[w][s]
    <3>1. CASE UNCHANGED history
      BY <3>1
    <3>2. CASE \E points \in Seq(Nat) : SetHistory(h, points)
      BY <1>1, <2>1, <3>2, HistoryChanged
    <3>3. QED
      BY <1>2, <1>6, <3>1, <3>2 DEF Moved, Popped, Learnt
  <2>3. \A g \in Threads : On(g, w, s)' => g # h /\ On(g, w, s) /\ serving'[g] = serving[g]
    BY <1>3, <1>4, <1>9
  <2>4. QED
    BY <1>7, <1>8, <2>2, <2>3
<1>10. CASE On(h, w, s)
  <2>1. w = ProcessOf[h] /\ s = serving[h].series /\ history[w][s] = Of(h)
    BY <1>10 DEF On, Of
  <2>2. Orderly(Of(h)) /\ UpTo(Of(h), serving[h].time)
        /\ (serving[h].at \in {"reading", "scored"} => Within(Of(h), serving[h].time))
    BY <1>7, <1>10, <2>1
  <2>3. \A g \in Threads : On(g, w, s)' => g = h
    BY <1>4, <1>7, <1>10
  <2>4. SUFFICES /\ Orderly(history'[w][s])
                 /\ r.at \notin Free => UpTo(history'[w][s], r.time)
                 /\ r.at \in {"reading", "scored"} => Within(history'[w][s], r.time)
    BY <1>3, <1>8, <2>3 DEF On, Free
  <2>5. CASE Moved(h, r.at)
    <3>1. history'[w][s] = Of(h)
      BY <2>1, <2>5 DEF Moved
    <3>2. r.at \in {"reading", "scored"} => Within(Of(h), serving[h].time)
      BY <1>5, <2>2, <2>5, ExpiredIsWithin DEF Moved, Expired
    <3>3. QED
      BY <1>2, <2>2, <3>1, <3>2
  <2>6. CASE Popped(h, r.at)
    <3>1. history'[w][s] = Tail(Of(h)) /\ r.at = "expiring" /\ Of(h) # <<>>
      BY <1>1, <1>6, <2>1, <2>6, HistoryChanged DEF Popped
    <3>2. QED
      BY <1>2, <1>5, <2>2, <3>1, TailKeepsOrder
  <2>7. CASE Learnt(h, r.at)
    <3>1. /\ history'[w][s] = Append(Of(h), serving[h].time)
          /\ r.at \in Free /\ serving[h].at = "scored"
      BY <1>1, <1>6, <2>1, <2>7, HistoryChanged DEF Learnt, Free
    <3>2. Orderly(Append(Of(h), serving[h].time))
      BY <1>5, <2>2, <3>1, AppendKeepsOrder
    <3>3. r.at \notin {"reading", "scored"}
      BY <3>1 DEF Free
    <3>4. QED
      BY <3>1, <3>2, <3>3
  <2>8. QED
    BY <1>2, <2>5, <2>6, <2>7
<1>11. QED
  BY <1>9, <1>10

NewCall(s, t) == [at |-> "expiring", series |-> s, time |-> t, anomaly |-> FALSE]

LEMMA NewCallIsServed ==
    ASSUME NEW s \in Series, NEW t \in Nat
    PROVE  /\ NewCall(s, t) \in Served /\ NewCall(s, t).at = "expiring"
           /\ NewCall(s, t).series = s /\ NewCall(s, t).time = t
BY DEF NewCall, Served, Learning

\* What a new call changes.
LEMMA CorrelateMoves ==
    ASSUME EngineTypes, NEW h \in Threads, NEW s \in Series, NEW t \in Nat,
           Correlate(h, s, t, TRUE)
    PROVE  /\ serving[h].at \in Free
           /\ serving' = [serving EXCEPT ![h] = NewCall(s, t)]
           /\ UNCHANGED history
           /\ EngineTypes'
<1> DEFINE r == NewCall(s, t)
<1>1. /\ serving[h].at \in Free /\ UNCHANGED history
      /\ serving' = [serving EXCEPT ![h] = r]
      /\ disturbed' \in {disturbed, disturbed \cup {<<ProcessOf[h], s>>}}
  BY DEF Correlate, NewCall
<1>2. r \in Served
  BY NewCallIsServed
<1>3. ProcessOf[h] \in Processes
  BY CorrelationAssumption
<1> HIDE DEF r
<1>4. EngineTypes'
  BY <1>1, <1>2, <1>3 DEF EngineTypes
<1>5. QED
  BY <1>1, <1>4 DEF r

LEMMA CorrelateKeepsWindows ==
    ASSUME EngineTypes, WindowInv, NEW h \in Threads, NEW s \in Series, NEW t \in Nat,
           Correlate(h, s, t, TRUE)
    PROVE  WindowInv'
<1> DEFINE p == ProcessOf[h]
           late == \E i \in 1..Len(history[p][s]) : history[p][s][i] > t
<1>1. serving[h].at \in Free /\ UNCHANGED history
  BY CorrelateMoves
<1> DEFINE r == NewCall(s, t)
<1>2. /\ serving' = [serving EXCEPT ![h] = r]
      /\ r.at = "expiring" /\ r.series = s /\ r.time = t
  BY CorrelateMoves, NewCallIsServed
<1> HIDE DEF r
<1>3. /\ disturbed \subseteq disturbed'
      /\ <<p, s>> \notin disturbed' => Others(p, s) = {} /\ ~late
  BY DEF Correlate
<1>4. serving'[h] = r /\ \A g \in Threads : g # h => serving'[g] = serving[g]
  BY <1>2 DEF EngineTypes
<1>5. \A w, x : On(h, w, x)' => w = p /\ x = s
  BY <1>2, <1>4 DEF On
<1>6. \A w, x : ~On(h, w, x)
  BY <1>1 DEF On
<1> SUFFICES ASSUME NEW w \in Processes, NEW x \in Series, <<w, x>> \notin disturbed'
             PROVE  /\ \A f, g \in Threads : On(f, w, x)' /\ On(g, w, x)' => f = g
                    /\ Orderly(history[w][x])
                    /\ \A g \in Threads : On(g, w, x)' =>
                           /\ UpTo(history[w][x], serving'[g].time)
                           /\ serving'[g].at \in {"reading", "scored"}
                                  => Within(history[w][x], serving'[g].time)
  BY <1>1 DEF WindowInv, Orderly, UpTo, Within
<1>7. /\ \A f, g \in Threads : On(f, w, x) /\ On(g, w, x) => f = g
      /\ Orderly(history[w][x])
      /\ \A g \in Threads : On(g, w, x) =>
             /\ UpTo(history[w][x], serving[g].time)
             /\ serving[g].at \in {"reading", "scored"} => Within(history[w][x], serving[g].time)
  BY <1>3 DEF WindowInv
<1>8. \A g \in Threads : g # h => (On(g, w, x)' <=> On(g, w, x))
  BY <1>4 DEF On
<1>9. CASE w = p /\ x = s
  <2>1. Others(p, s) = {} /\ ~late
    BY <1>3, <1>9
  <2>2. \A g \in Threads : ~On(g, w, x)
    BY <1>9, <2>1 DEF Others, On
  <2>3. UpTo(history[w][x], t)
    <3>1. history[w][x] \in Seq(Nat)
      BY DEF EngineTypes
    <3>2. \A i \in 1..Len(history[w][x]) : history[w][x][i] \in Nat
      BY <3>1
    <3>3. QED
      BY <1>9, <2>1, <3>2 DEF UpTo
  <2>4. QED
    BY <1>2, <1>4, <1>7, <1>8, <2>2, <2>3
<1>10. CASE ~(w = p /\ x = s)
  BY <1>4, <1>5, <1>7, <1>8, <1>10
<1>11. QED
  BY <1>9, <1>10

-----------------------------------------------------------------------------
(***************************************************************************)
(* What is asked about a sample, and how often it is learnt.               *)
(***************************************************************************)

\* Where a sample stands in the histories.
LEMMA CopyIs ==
    ASSUME NEW s, NEW t, NEW x
    PROVE  /\ x \in Copies(s, t) <=>
                  \E w \in Processes : \E i \in 1..Len(history[w][s]) :
                      history[w][s][i] = t /\ x = <<w, i>>
           /\ x \in Copies(s, t)' <=>
                  \E w \in Processes : \E i \in 1..Len(history'[w][s]) :
                      history'[w][s][i] = t /\ x = <<w, i>>
<1>1. x \in Copies(s, t) <=> \E w \in Processes : x \in Held(w, s, t)
  BY DEF Copies
<1>2. x \in Copies(s, t)' <=> \E w \in Processes : x \in Held(w, s, t)'
  BY DEF Copies
<1>3. QED
  BY <1>1, <1>2 DEF Held

\* Points that moved one place towards the front are no more than before.
LEMMA FrontIsNoMore ==
    ASSUME NEW S, NEW T, IsFiniteSet(T), NEW w,
           \A x \in S : \E i \in Nat : x = <<x[1], i>>,
           \A x \in S : IF x[1] = w THEN <<w, x[2] + 1>> \in T ELSE x \in T
    PROVE  /\ IsFiniteSet(S) /\ Cardinality(S) <= Cardinality(T)
           /\ T = {} => S = {}
<1> DEFINE back(x) == IF x[1] = w THEN <<w, x[2] + 1>> ELSE x
           f == [x \in S |-> back(x)]
<1>1. f \in [S -> T]
  OBVIOUS
<1>2. ASSUME NEW x \in S, NEW y \in S, f[x] = f[y]
      PROVE  x = y
  <2>1. PICK i \in Nat : x = <<x[1], i>>
    OBVIOUS
  <2>2. PICK j \in Nat : y = <<y[1], j>>
    OBVIOUS
  <2>3. back(x) = back(y)
    BY <1>2
  <2>4. back(x) = <<x[1], IF x[1] = w THEN i + 1 ELSE i>>
    BY <2>1
  <2>5. back(y) = <<y[1], IF y[1] = w THEN j + 1 ELSE j>>
    BY <2>2
  <2> DEFINE m == IF x[1] = w THEN i + 1 ELSE i
             k == IF y[1] = w THEN j + 1 ELSE j
  <2>6. x[1] = y[1] /\ m = k
    <3>1. <<x[1], m>> = <<y[1], k>>
      BY <2>3, <2>4, <2>5
    <3> HIDE DEF back, f, m, k
    <3>2. QED
      BY <3>1
  <2> HIDE DEF back, f, m, k
  <2>7. i = j
    BY <2>6 DEF m, k
  <2>8. QED
    BY <2>1, <2>2, <2>6, <2>7
<1> HIDE DEF f
<1>3. f \in Injection(S, T)
  BY <1>1, <1>2 DEF Injection, IsInjective
<1>4. S # {} => T # {}
  OBVIOUS
<1>5. QED
  BY <1>3, <1>4, FS_Injection

\* A step of the engine leaves of a sample no more copies and learners.
LEMMA EngineLearns ==
    ASSUME EngineTypes, NEW h \in Threads, EngineStep(h), NEW s \in Series, NEW t \in Nat
    PROVE  /\ Copies(s, t) = {} /\ Learners(s, t) = {} =>
                  Copies(s, t)' = {} /\ Learners(s, t)' = {}
           /\ IsFiniteSet(Copies(s, t)) /\ IsFiniteSet(Learners(s, t)) =>
                  /\ IsFiniteSet(Copies(s, t)') /\ IsFiniteSet(Learners(s, t)')
                  /\ Cardinality(Copies(s, t)') + Cardinality(Learners(s, t)')
                         <= Cardinality(Copies(s, t)) + Cardinality(Learners(s, t))
<1> DEFINE A == Copies(s, t)
           B == Copies(s, t)'
           K == Learners(s, t)
           L == Learners(s, t)'
<1>1. serving[h] \in Served /\ serving[h].at \notin Free
  BY EngineMoves
<1>2. PICK r \in Served :
          /\ serving' = [serving EXCEPT ![h] = r]
          /\ r.series = serving[h].series /\ r.time = serving[h].time
          /\ Moved(h, r.at) \/ Popped(h, r.at) \/ Learnt(h, r.at)
  BY EngineMoves
<1>3. serving'[h] = r /\ \A g \in Threads : g # h => serving'[g] = serving[g]
  BY <1>2 DEF EngineTypes
<1>4. Of(h) \in Seq(Nat) /\ serving[h].time \in Nat
  BY <1>1, OfIsList
<1>5. Append(Of(h), serving[h].time) \in Seq(Nat) /\ (Of(h) # <<>> => Tail(Of(h)) \in Seq(Nat))
  BY <1>4
<1>6. r.at \in Learning => serving[h].at \in Learning
  BY <1>2 DEF Moved, Popped, Learnt, Learning
<1>7. L \subseteq K
  BY <1>2, <1>3, <1>6 DEF Learners
<1>8. IsFiniteSet(K) => /\ IsFiniteSet(L) /\ Cardinality(L) <= Cardinality(K)
                        /\ Cardinality(L) \in Nat /\ Cardinality(K) \in Nat
  BY <1>7, FS_Subset, FS_CardinalityType
<1> DEFINE w == ProcessOf[h]
<1>9. w \in Processes
  BY CorrelationAssumption
<1>10. CASE UNCHANGED history
  <2>1. B = A
    <3>1. \A x : x \in B <=> x \in A
      BY <1>10, CopyIs
    <3> HIDE DEF A, B
    <3>2. QED
      BY <3>1
  <2>2. IsFiniteSet(A) => Cardinality(A) \in Nat
    BY FS_CardinalityType
  <2> HIDE DEF A, B, K, L
  <2>3. /\ A = {} /\ K = {} => B = {} /\ L = {}
        /\ IsFiniteSet(A) /\ IsFiniteSet(K) =>
               /\ IsFiniteSet(B) /\ IsFiniteSet(L)
               /\ Cardinality(B) + Cardinality(L) <= Cardinality(A) + Cardinality(K)
    BY <1>7, <1>8, <2>1, <2>2
  <2>4. QED
    BY <2>3 DEF A, B, K, L
<1>11. CASE Popped(h, r.at)
  <2> DEFINE points == Of(h)
  <2>1. /\ points \in Seq(Nat) /\ points # <<>>
        /\ \A v \in Processes, z \in Series :
               history'[v][z] = IF v = w /\ z = serving[h].series THEN Tail(points)
                                ELSE history[v][z]
    <3>1. Of(h) # <<>> /\ SetHistory(h, Tail(Of(h)))
      BY <1>11 DEF Popped
    <3>2. Tail(Of(h)) \in Seq(Nat)
      BY <1>5, <3>1
    <3>3. /\ history'[w][serving[h].series] = Tail(Of(h))
          /\ \A v \in Processes, z \in Series :
                 v # w \/ z # serving[h].series => history'[v][z] = history[v][z]
      BY <1>1, <3>1, <3>2, HistoryChanged
    <3>4. QED
      BY <1>4, <3>1, <3>3
  <2>2. \A x \in B : \E i \in Nat : x = <<x[1], i>>
    <3> SUFFICES ASSUME NEW x \in B
                 PROVE  \E i \in Nat : x = <<x[1], i>>
      OBVIOUS
    <3>1. PICK v \in Processes : \E i \in 1..Len(history'[v][s]) :
              history'[v][s][i] = t /\ x = <<v, i>>
      BY CopyIs
    <3>2. QED
      BY <3>1
  <2>3. CASE s = serving[h].series
    <3>1. ASSUME NEW x \in B
          PROVE  IF x[1] = w THEN <<w, x[2] + 1>> \in A ELSE x \in A
      <4>1. PICK v \in Processes : \E i \in 1..Len(history'[v][s]) :
                history'[v][s][i] = t /\ x = <<v, i>>
        BY CopyIs
      <4>2. PICK i \in 1..Len(history'[v][s]) : history'[v][s][i] = t /\ x = <<v, i>>
        BY <4>1
      <4>3. CASE v = w
        <5>1. history[w][s] = points /\ history'[w][s] = Tail(points)
          BY <1>9, <2>1, <2>3 DEF Of
        <5>2. i + 1 \in 1..Len(history[w][s]) /\ history[w][s][i + 1] = t
          BY <2>1, <4>2, <4>3, <5>1, TailOfPoints
        <5>3. <<w, i + 1>> \in A
          BY <1>9, <5>2, CopyIs
        <5>4. x[1] = w /\ x[2] = i
          BY <4>2, <4>3
        <5> HIDE DEF A
        <5>5. QED
          BY <5>3, <5>4
      <4>4. CASE v # w
        <5>1. history'[v][s] = history[v][s]
          BY <2>1, <4>4
        <5>2. x \in A
          BY <4>2, <5>1, CopyIs
        <5>3. x[1] = v
          BY <4>2
        <5> HIDE DEF A
        <5>4. QED
          BY <4>4, <5>2, <5>3
      <4>5. QED
        BY <4>3, <4>4
    <3>2. IsFiniteSet(A) => Cardinality(A) \in Nat
      BY FS_CardinalityType
    <3> HIDE DEF A, B, K, L
    <3>3. IsFiniteSet(A) => IsFiniteSet(B) /\ Cardinality(B) <= Cardinality(A)
      BY <2>2, <3>1, FrontIsNoMore
    <3>4. A = {} => B = {}
      BY <3>1
    <3>5. IsFiniteSet(B) => Cardinality(B) \in Nat
      BY FS_CardinalityType
    <3>6. /\ A = {} /\ K = {} => B = {} /\ L = {}
          /\ IsFiniteSet(A) /\ IsFiniteSet(K) =>
                 /\ IsFiniteSet(B) /\ IsFiniteSet(L)
                 /\ Cardinality(B) + Cardinality(L) <= Cardinality(A) + Cardinality(K)
      BY <1>7, <1>8, <3>2, <3>3, <3>4, <3>5
    <3>7. QED
      BY <3>6 DEF A, B, K, L
  <2>4. CASE s # serving[h].series
    <3>1. \A v \in Processes : history'[v][s] = history[v][s]
      BY <2>1, <2>4
    <3>2. \A x : x \in B <=> x \in A
      BY <3>1, CopyIs
    <3>3. IsFiniteSet(A) => Cardinality(A) \in Nat
      BY FS_CardinalityType
    <3> HIDE DEF A, B, K, L
    <3>4. A = B
      BY <3>2
    <3>5. /\ A = {} /\ K = {} => B = {} /\ L = {}
          /\ IsFiniteSet(A) /\ IsFiniteSet(K) =>
                 /\ IsFiniteSet(B) /\ IsFiniteSet(L)
                 /\ Cardinality(B) + Cardinality(L) <= Cardinality(A) + Cardinality(K)
      BY <1>7, <1>8, <3>3, <3>4
    <3>6. QED
      BY <3>5 DEF A, B, K, L
  <2>5. QED
    BY <2>3, <2>4
<1>12. CASE Learnt(h, r.at)
  <2> DEFINE points == Of(h)
             n == Len(points)
  <2>1. /\ points \in Seq(Nat) /\ n \in Nat
        /\ \A v \in Processes, z \in Series :
               history'[v][z] = IF v = w /\ z = serving[h].series
                                THEN Append(points, serving[h].time) ELSE history[v][z]
    <3>1. SetHistory(h, Append(Of(h), serving[h].time))
      BY <1>12 DEF Learnt
    <3>2. /\ history'[w][serving[h].series] = Append(Of(h), serving[h].time)
          /\ \A v \in Processes, z \in Series :
                 v # w \/ z # serving[h].series => history'[v][z] = history[v][z]
      BY <1>1, <1>5, <3>1, HistoryChanged
    <3>3. points \in Seq(Nat) /\ n \in Nat
      BY <1>4
    <3> HIDE DEF n
    <3>4. QED
      BY <3>2, <3>3
  <2>2. Len(Append(points, serving[h].time)) = n + 1
        /\ \A i \in 1..(n + 1) : Append(points, serving[h].time)[i]
                                     = IF i = n + 1 THEN serving[h].time ELSE points[i]
    BY <1>4
  <2>3. serving[h].at \in Learning /\ r.at \notin Learning
    BY <1>12 DEF Learnt, Learning
  <2>4. CASE s = serving[h].series /\ t = serving[h].time
    <3>1. history[w][s] = points /\ history'[w][s] = Append(points, t)
      BY <1>9, <2>1, <2>4 DEF Of
    <3>2. \A x : x \in B <=> x \in A \/ x = <<w, n + 1>>
      <4>1. ASSUME NEW x \in B
            PROVE  x \in A \/ x = <<w, n + 1>>
        <5>1. PICK v \in Processes : \E i \in 1..Len(history'[v][s]) :
                  history'[v][s][i] = t /\ x = <<v, i>>
          BY CopyIs
        <5>2. PICK i \in 1..Len(history'[v][s]) : history'[v][s][i] = t /\ x = <<v, i>>
          BY <5>1
        <5>3. CASE v = w /\ i # n + 1
          <6>1. i \in 1..Len(history[w][s]) /\ history[w][s][i] = t
            <7>1. /\ Len(history'[w][s]) = n + 1 /\ Len(history[w][s]) = n
                  /\ \A k \in 1..(n + 1) : k # n + 1 => history'[w][s][k] = history[w][s][k]
              BY <2>2, <2>4, <3>1
            <7> HIDE DEF n
            <7>2. i \in 1..(n + 1) /\ history'[w][s][i] = t /\ i \in 1..n
              BY <2>1, <5>2, <5>3, <7>1
            <7>3. QED
              BY <5>3, <7>1, <7>2
          <6>2. QED
            BY <1>9, <5>2, <5>3, <6>1, CopyIs
        <5>4. CASE v # w
          <6>1. history'[v][s] = history[v][s]
            BY <2>1, <5>4
          <6>2. QED
            BY <5>2, <6>1, CopyIs
        <5>5. QED
          BY <5>2, <5>3, <5>4
      <4>2. <<w, n + 1>> \in B
        <5>1. n + 1 \in 1..Len(history'[w][s]) /\ history'[w][s][n + 1] = t
          BY <2>1, <2>2, <2>4, <3>1
        <5>2. QED
          BY <1>9, <5>1, CopyIs
      <4>3. ASSUME NEW x \in A
            PROVE  x \in B
        <5>1. PICK v \in Processes : \E i \in 1..Len(history[v][s]) :
                  history[v][s][i] = t /\ x = <<v, i>>
          BY CopyIs
        <5>2. PICK i \in 1..Len(history[v][s]) : history[v][s][i] = t /\ x = <<v, i>>
          BY <5>1
        <5>3. i \in 1..Len(history'[v][s]) /\ history'[v][s][i] = t
          <6>1. CASE v = w
            <7>1. /\ Len(history'[w][s]) = n + 1 /\ Len(history[w][s]) = n
                  /\ \A k \in 1..(n + 1) : k # n + 1 => history'[w][s][k] = history[w][s][k]
              BY <2>2, <2>4, <3>1
            <7> HIDE DEF n
            <7>2. i \in 1..n /\ history[w][s][i] = t /\ i \in 1..(n + 1) /\ i # n + 1
              BY <2>1, <5>2, <6>1, <7>1
            <7>3. QED
              BY <6>1, <7>1, <7>2
          <6>2. CASE v # w
            BY <2>1, <5>2, <6>2
          <6>3. QED
            BY <6>1, <6>2
        <5>4. QED
          BY <5>2, <5>3, CopyIs
      <4> HIDE DEF A, B
      <4>4. QED
        BY <4>1, <4>2, <4>3
    <3>3. h \in K /\ h \notin L
      BY <1>3, <2>3, <2>4 DEF Learners
    <3> HIDE DEF A, B, K, L
    <3>4. B = A \cup {<<w, n + 1>>} /\ L \subseteq K \ {h} /\ K # {}
      BY <1>7, <3>2, <3>3
    <3>5. ASSUME IsFiniteSet(A), IsFiniteSet(K)
          PROVE  /\ IsFiniteSet(B) /\ IsFiniteSet(L)
                 /\ Cardinality(B) + Cardinality(L) <= Cardinality(A) + Cardinality(K)
      <4>1. /\ IsFiniteSet(B) /\ Cardinality(B) <= Cardinality(A) + 1
            /\ Cardinality(A) \in Nat /\ Cardinality(B) \in Nat
        <5>1. /\ IsFiniteSet(A \cup {<<w, n + 1>>})
              /\ Cardinality(A \cup {<<w, n + 1>>})
                     = IF <<w, n + 1>> \in A THEN Cardinality(A) ELSE Cardinality(A) + 1
          BY <3>5, FS_AddElement
        <5>2. IsFiniteSet(B) /\ Cardinality(B) \in {Cardinality(A), Cardinality(A) + 1}
          BY <3>4, <5>1
        <5>3. Cardinality(A) \in Nat /\ Cardinality(B) \in Nat
          BY <3>5, <5>2, FS_CardinalityType
        <5>4. QED
          BY <5>2, <5>3
      <4>2. /\ IsFiniteSet(K \ {h}) /\ Cardinality(K \ {h}) = Cardinality(K) - 1
            /\ Cardinality(K) \in Nat
        BY <3>3, <3>5, FS_RemoveElement, FS_CardinalityType
      <4>3. /\ IsFiniteSet(L) /\ Cardinality(L) <= Cardinality(K \ {h})
            /\ Cardinality(L) \in Nat
        BY <3>4, <4>2, FS_Subset, FS_CardinalityType
      <4>4. QED
        BY <4>1, <4>2, <4>3
    <3>6. /\ A = {} /\ K = {} => B = {} /\ L = {}
          /\ IsFiniteSet(A) /\ IsFiniteSet(K) =>
                 /\ IsFiniteSet(B) /\ IsFiniteSet(L)
                 /\ Cardinality(B) + Cardinality(L) <= Cardinality(A) + Cardinality(K)
      BY <3>4, <3>5
    <3>7. QED
      BY <3>6 DEF A, B, K, L
  <2>5. CASE s # serving[h].series \/ t # serving[h].time
    <3>1. \A x : x \in B => x \in A
      <4> SUFFICES ASSUME NEW x \in B
                   PROVE  x \in A
        OBVIOUS
      <4>1. PICK v \in Processes : \E i \in 1..Len(history'[v][s]) :
                history'[v][s][i] = t /\ x = <<v, i>>
        BY CopyIs
      <4>2. PICK i \in 1..Len(history'[v][s]) : history'[v][s][i] = t /\ x = <<v, i>>
        BY <4>1
      <4>3. i \in 1..Len(history[v][s]) /\ history[v][s][i] = t
        <5>1. CASE v = w /\ s = serving[h].series
          <6>1. history[v][s] = points /\ history'[v][s] = Append(points, serving[h].time)
            BY <1>9, <2>1, <5>1 DEF Of
          <6>2. QED
            BY <2>1, <2>2, <2>5, <4>2, <5>1, <6>1
        <5>2. CASE ~(v = w /\ s = serving[h].series)
          BY <2>1, <4>2, <5>2
        <5>3. QED
          BY <5>1, <5>2
      <4>4. QED
        BY <4>2, <4>3, CopyIs
    <3> HIDE DEF A, B, K, L
    <3>2. B \subseteq A
      BY <3>1
    <3>3. IsFiniteSet(A) => /\ IsFiniteSet(B) /\ Cardinality(B) <= Cardinality(A)
                            /\ Cardinality(A) \in Nat /\ Cardinality(B) \in Nat
      BY <3>2, FS_Subset, FS_CardinalityType
    <3>4. /\ A = {} /\ K = {} => B = {} /\ L = {}
          /\ IsFiniteSet(A) /\ IsFiniteSet(K) =>
                 /\ IsFiniteSet(B) /\ IsFiniteSet(L)
                 /\ Cardinality(B) + Cardinality(L) <= Cardinality(A) + Cardinality(K)
      BY <1>7, <1>8, <3>2, <3>3
    <3>5. QED
      BY <3>4 DEF A, B, K, L
  <2>6. QED
    BY <2>4, <2>5
<1>13. QED
  BY <1>2, <1>10, <1>11, <1>12 DEF Moved

LEMMA SameCopies ==
    ASSUME UNCHANGED history
    PROVE  \A s, t : Copies(s, t)' = Copies(s, t)
<1> SUFFICES ASSUME NEW s, NEW t
             PROVE  Copies(s, t)' = Copies(s, t)
  OBVIOUS
<1>1. \A x : x \in Copies(s, t)' <=> x \in Copies(s, t)
  BY CopyIs
<1> DEFINE A == Copies(s, t)
           B == Copies(s, t)'
<1> HIDE DEF A, B
<1>2. B = A
  BY <1>1 DEF A, B
<1>3. QED
  BY <1>2 DEF A, B

LEMMA SameLearners ==
    ASSUME UNCHANGED serving
    PROVE  \A s, t : Learners(s, t)' = Learners(s, t)
BY DEF Learners

\* The bound of a sample's copies and learners, for one call of the backend.
Bounded(c) ==
    /\ IsFiniteSet(Copies(c.series, c.time)) /\ IsFiniteSet(Learners(c.series, c.time))
    /\ Cardinality(Copies(c.series, c.time)) + Cardinality(Learners(c.series, c.time)) <= c.tries

Unlearnt(s, t) == Copies(s, t) = {} /\ Learners(s, t) = {}

LEMMA AskInvIs ==
    /\ AskInv <=>
          /\ \A c \in asking : \E m \in sent : m.flagged /\ m.series = c.series /\ m.time = c.time
          /\ \A c, d \in asking : c.series = d.series /\ c.time = d.time => c = d
          /\ \A s \in Series, t \in Nat : ~Unlearnt(s, t) =>
                 \E c \in asking : c.series = s /\ c.time = t
          /\ \A c \in asking : Bounded(c)
    /\ AskInv' <=>
          /\ \A c \in asking' : \E m \in sent' : m.flagged /\ m.series = c.series /\ m.time = c.time
          /\ \A c, d \in asking' : c.series = d.series /\ c.time = d.time => c = d
          /\ \A s \in Series, t \in Nat : ~Unlearnt(s, t)' =>
                 \E c \in asking' : c.series = s /\ c.time = t
          /\ \A c \in asking' : Bounded(c)'
BY DEF AskInv, Bounded, Unlearnt

\* A call of the backend goes on, about the same sample.
LEMMA ChangedKeeps ==
    ASSUME AskInv, NEW c \in asking, NEW d, Changed(c, d), UNCHANGED sent,
           d.series = c.series, d.time = c.time, Bounded(d)',
           \A s \in Series, t \in Nat :
               (s # c.series \/ t # c.time) => /\ Copies(s, t)' = Copies(s, t)
                                               /\ Learners(s, t)' = Learners(s, t),
           asking \subseteq Asked
    PROVE  AskInv'
<1>1. asking' = (asking \ {c}) \cup {d}
  BY DEF Changed
<1>2. /\ \A e \in asking : \E m \in sent : m.flagged /\ m.series = e.series /\ m.time = e.time
      /\ \A e, f \in asking : e.series = f.series /\ e.time = f.time => e = f
      /\ \A s \in Series, t \in Nat : ~Unlearnt(s, t) =>
             \E e \in asking : e.series = s /\ e.time = t
      /\ \A e \in asking : Bounded(e)
  BY AskInvIs
<1>3. \A e \in asking' : \E m \in sent' : m.flagged /\ m.series = e.series /\ m.time = e.time
  BY <1>1, <1>2
<1>4. \A e, f \in asking' : e.series = f.series /\ e.time = f.time => e = f
  BY <1>1, <1>2
<1>5. ASSUME NEW s \in Series, NEW t \in Nat, ~Unlearnt(s, t)'
      PROVE  \E e \in asking' : e.series = s /\ e.time = t
  <2>1. CASE s = c.series /\ t = c.time
    BY <1>1, <2>1
  <2>2. CASE s # c.series \/ t # c.time
    <3>1. ~Unlearnt(s, t)
      BY <1>5, <2>2 DEF Unlearnt
    <3>2. PICK e \in asking : e.series = s /\ e.time = t
      BY <1>2, <3>1
    <3>3. e # c
      BY <2>2, <3>2
    <3>4. QED
      BY <1>1, <3>2, <3>3
  <2>3. QED
    BY <2>1, <2>2
<1>6. ASSUME NEW e \in asking'
      PROVE  Bounded(e)'
  <2>1. CASE e = d
    BY <2>1
  <2>2. CASE e # d
    <3>1. e \in asking /\ e # c
      BY <1>1, <2>2
    <3>2. e.series # c.series \/ e.time # c.time
      BY <1>2, <3>1
    <3>3. e.series \in Series /\ e.time \in Nat
      BY <3>1 DEF Asked
    <3>4. Bounded(e)
      BY <1>2, <3>1
    <3>5. QED
      BY <3>2, <3>3, <3>4 DEF Bounded
  <2>3. QED
    BY <2>1, <2>2
<1>7. QED
  BY <1>3, <1>4, <1>5, <1>6, AskInvIs

LEMMA IngestKeeps ==
    ASSUME DetectionTypes, AskInv, NEW m \in sent, Ingest(m)
    PROVE  AskInv' /\ asking' \subseteq Asked
<1> DEFINE d == [series |-> m.series, time |-> m.time, tries |-> 0, on |-> {}]
<1>1. m.flagged /\ m.series \in Series /\ m.time \in Nat
  BY DEF Ingest, DetectionTypes, AgentTypes, Samples
<1>2. /\ d \in Asked
      /\ d.series = m.series /\ d.time = m.time /\ d.tries = 0
  BY <1>1, DetectionAssumption DEF Asked
<1>3. asking' = asking \cup {d}
  BY DEF Ingest
<1>4. \A c \in asking : c.series # m.series \/ c.time # m.time
  BY DEF Ingest
<1>5. UNCHANGED <<history, serving, sent>>
  BY DEF Ingest, agentVars, engineVars
<1>6. /\ \A c \in asking : \E n \in sent : n.flagged /\ n.series = c.series /\ n.time = c.time
      /\ \A c, e \in asking : c.series = e.series /\ c.time = e.time => c = e
      /\ \A s \in Series, t \in Nat : ~Unlearnt(s, t) =>
             \E c \in asking : c.series = s /\ c.time = t
      /\ \A c \in asking : Bounded(c)
  BY AskInvIs
<1>7. /\ \A s, t : Copies(s, t)' = Copies(s, t)
      /\ \A s, t : Learners(s, t)' = Learners(s, t)
  BY <1>5, SameCopies, SameLearners
<1> HIDE DEF d
<1>8. \A c \in asking' : \E n \in sent' : n.flagged /\ n.series = c.series /\ n.time = c.time
  BY <1>1, <1>2, <1>3, <1>5, <1>6
<1>9. \A c, e \in asking' : c.series = e.series /\ c.time = e.time => c = e
  BY <1>2, <1>3, <1>4, <1>6
<1>10. \A s \in Series, t \in Nat : ~Unlearnt(s, t)' =>
           \E c \in asking' : c.series = s /\ c.time = t
  <2>1. \A s, t : Unlearnt(s, t)' <=> Unlearnt(s, t)
    BY <1>7 DEF Unlearnt
  <2>2. QED
    BY <1>3, <1>6, <2>1
<1>11. Bounded(d)'
  <2>1. Unlearnt(m.series, m.time)
    BY <1>1, <1>4, <1>6
  <2>2. Copies(d.series, d.time)' = {} /\ Learners(d.series, d.time)' = {}
    <3>1. Copies(m.series, m.time) = {} /\ Learners(m.series, m.time) = {}
      BY <2>1 DEF Unlearnt
    <3>2. PICK s, t : s = m.series /\ t = m.time
      OBVIOUS
    <3>3. Copies(s, t)' = {} /\ Learners(s, t)' = {}
      BY <1>7, <3>1, <3>2
    <3>4. d.series = s /\ d.time = t
      BY <1>2, <3>2
    <3>5. QED
      BY <3>3, <3>4
  <2>3. Cardinality({}) = 0 /\ IsFiniteSet({})
    BY FS_EmptySet
  <2>4. QED
    BY <1>2, <2>2, <2>3 DEF Bounded
<1>12. \A c \in asking' : Bounded(c)'
  <2>1. \A c \in asking : Bounded(c)'
    BY <1>6, <1>7 DEF Bounded
  <2>2. QED
    BY <1>3, <1>11, <2>1
<1>13. QED
  BY <1>2, <1>3, <1>8, <1>9, <1>10, <1>12, AskInvIs DEF DetectionTypes

LEMMA AttemptKeeps ==
    ASSUME DetectionTypes, AskInv, NEW c \in asking, NEW h \in Threads, Attempt(c, h)
    PROVE  AskInv' /\ asking' \subseteq Asked
<1>1. c \in Asked /\ c.series \in Series /\ c.time \in Nat /\ c.tries < Attempts
  BY DEF Attempt, DetectionTypes, Asked
<1> DEFINE d == [c EXCEPT !.tries = @ + 1, !.on = {h}]
<1>2. d \in Asked /\ d.series = c.series /\ d.time = c.time /\ d.tries = c.tries + 1
  <2>1. c.tries + 1 \in 0..Attempts /\ {h} \in SUBSET Threads
    BY <1>1, DetectionAssumption DEF Asked
  <2>2. QED
    BY <1>1, <2>1 DEF Asked
<1>3. Changed(c, d)
  BY DEF Attempt
<1>4. asking' \subseteq Asked
  BY <1>2, <1>3 DEF Changed, DetectionTypes
<1> HIDE DEF d
<1>5. /\ serving[h].at \in Free /\ UNCHANGED <<history, sent>>
      /\ serving' = [serving EXCEPT ![h] = NewCall(c.series, c.time)]
  BY <1>1, CorrelateMoves DEF Attempt, DetectionTypes, agentVars
<1>6. \A s, t : Copies(s, t)' = Copies(s, t)
  BY <1>5, SameCopies
<1>7. /\ serving'[h] = NewCall(c.series, c.time)
      /\ \A g \in Threads : g # h => serving'[g] = serving[g]
  BY <1>5 DEF DetectionTypes, EngineTypes
<1>8. \A s \in Series, t \in Nat : Learners(s, t)' =
          IF s = c.series /\ t = c.time THEN Learners(s, t) \cup {h} ELSE Learners(s, t)
  <2> SUFFICES ASSUME NEW s \in Series, NEW t \in Nat
               PROVE  Learners(s, t)' =
                          IF s = c.series /\ t = c.time THEN Learners(s, t) \cup {h}
                                                        ELSE Learners(s, t)
    OBVIOUS
  <2>1. h \notin Learners(s, t)
    BY <1>5 DEF Learners, Learning, Free
  <2>2. h \in Learners(s, t)' <=> s = c.series /\ t = c.time
    BY <1>1, <1>7, NewCallIsServed DEF Learners, Learning
  <2>3. \A g \in Threads : g # h => (g \in Learners(s, t)' <=> g \in Learners(s, t))
    BY <1>7 DEF Learners
  <2>4. Learners(s, t) \subseteq Threads /\ Learners(s, t)' \subseteq Threads
    BY DEF Learners
  <2> DEFINE K == Learners(s, t)
             L == Learners(s, t)'
  <2> HIDE DEF K, L
  <2>5. L = IF s = c.series /\ t = c.time THEN K \cup {h} ELSE K
    BY <2>1, <2>2, <2>3, <2>4 DEF K, L
  <2>6. QED
    BY <2>5 DEF K, L
<1>9. Bounded(d)'
  <2>1. PICK s \in Series, t \in Nat : s = c.series /\ t = c.time
    BY <1>1
  <2>2. /\ IsFiniteSet(Copies(s, t)) /\ IsFiniteSet(Learners(s, t))
        /\ Cardinality(Copies(s, t)) + Cardinality(Learners(s, t)) <= c.tries
    <3>1. Bounded(c)
      BY AskInvIs
    <3>2. QED
      BY <2>1, <3>1 DEF Bounded
  <2>3. Copies(s, t)' = Copies(s, t) /\ Learners(s, t)' = Learners(s, t) \cup {h}
    BY <1>6, <1>8, <2>1
  <2> DEFINE A == Copies(s, t)
             K == Learners(s, t)
  <2> HIDE DEF A, K
  <2>4. /\ IsFiniteSet(K \cup {h})
        /\ Cardinality(K \cup {h}) = IF h \in K THEN Cardinality(K) ELSE Cardinality(K) + 1
        /\ Cardinality(K) \in Nat /\ Cardinality(A) \in Nat
    BY <2>2, FS_AddElement, FS_CardinalityType DEF A, K
  <2>5. Cardinality(K \cup {h}) \in {Cardinality(K), Cardinality(K) + 1}
    BY <2>4
  <2>6. c.tries \in Nat
    BY <1>1, DetectionAssumption DEF Asked
  <2>7. Cardinality(A) + Cardinality(K \cup {h}) <= c.tries + 1
    BY <2>2, <2>4, <2>5, <2>6 DEF A, K
  <2>8. d.series = s /\ d.time = t
    BY <1>2, <2>1
  <2>9. /\ IsFiniteSet(Copies(s, t)') /\ IsFiniteSet(Learners(s, t)')
        /\ Cardinality(Copies(s, t)') + Cardinality(Learners(s, t)') <= d.tries
    BY <1>2, <2>2, <2>3, <2>4, <2>7 DEF A, K
  <2>10. QED
    BY <2>8, <2>9 DEF Bounded
<1>10. QED
  BY <1>1, <1>2, <1>3, <1>4, <1>5, <1>6, <1>8, <1>9, ChangedKeeps DEF DetectionTypes

LEMMA AnswerKeeps ==
    ASSUME DetectionTypes, AskInv, NEW c \in asking, NEW h \in Threads,
           Answered(c, h) \/ GivenUp(c, h)
    PROVE  AskInv' /\ asking' \subseteq Asked
<1>1. c \in Asked /\ c.tries \in 0..Attempts
  BY DEF DetectionTypes, Asked
<1>2. PICK n \in c.tries..Attempts :
          Changed(c, [c EXCEPT !.tries = n, !.on = {}])
  <2>1. CASE Answered(c, h)
    <3>1. Attempts \in c.tries..Attempts
      BY <1>1, DetectionAssumption
    <3>2. QED
      BY <2>1, <3>1 DEF Answered
  <2>2. CASE GivenUp(c, h)
    <3>1. c.tries \in c.tries..Attempts
      BY <1>1, DetectionAssumption
    <3>2. [c EXCEPT !.on = {}] = [c EXCEPT !.tries = c.tries, !.on = {}]
      BY <1>1 DEF Asked
    <3>3. QED
      BY <2>2, <3>1, <3>2 DEF GivenUp
  <2>3. QED
    BY <2>1, <2>2
<1> DEFINE d == [c EXCEPT !.tries = n, !.on = {}]
<1>3. n \in 0..Attempts
  BY <1>1, DetectionAssumption
<1>4. d \in Asked /\ d.series = c.series /\ d.time = c.time /\ d.tries = n
  BY <1>1, <1>3 DEF Asked
<1>5. Changed(c, d)
  BY <1>2
<1> HIDE DEF d
<1>6. asking' \subseteq Asked
  BY <1>4, <1>5 DEF Changed, DetectionTypes
<1>7. UNCHANGED <<history, serving, sent>>
  BY DEF Answered, GivenUp, agentVars, engineVars
<1>8. /\ \A s, t : Copies(s, t)' = Copies(s, t)
      /\ \A s, t : Learners(s, t)' = Learners(s, t)
  BY <1>7, SameCopies, SameLearners
<1>9. Bounded(d)'
  <2>1. Bounded(c)
    BY AskInvIs
  <2>2. PICK s, t : s = c.series /\ t = c.time
    OBVIOUS
  <2>3. /\ IsFiniteSet(Copies(s, t)) /\ IsFiniteSet(Learners(s, t))
        /\ Cardinality(Copies(s, t)) + Cardinality(Learners(s, t)) <= c.tries
    BY <2>1, <2>2 DEF Bounded
  <2>4. Cardinality(Copies(s, t)) \in Nat /\ Cardinality(Learners(s, t)) \in Nat
    BY <2>3, FS_CardinalityType
  <2>5. c.tries <= n /\ c.tries \in Nat /\ n \in Nat
    BY <1>1, <1>3, DetectionAssumption
  <2>6. Cardinality(Copies(s, t)) + Cardinality(Learners(s, t)) <= n
    BY <2>3, <2>4, <2>5
  <2>7. /\ IsFiniteSet(Copies(s, t)') /\ IsFiniteSet(Learners(s, t)')
        /\ Cardinality(Copies(s, t)') + Cardinality(Learners(s, t)') <= n
    BY <1>8, <2>3, <2>6
  <2>8. d.series = s /\ d.time = t
    BY <1>4, <2>2
  <2>9. QED
    BY <1>4, <2>7, <2>8 DEF Bounded
<1>10. QED
  BY <1>4, <1>5, <1>6, <1>7, <1>8, <1>9, ChangedKeeps DEF DetectionTypes

LEMMA EngineKeepsAsked ==
    ASSUME DetectionTypes, AskInv, NEW h \in Threads, EngineStep(h), UNCHANGED <<sent, asking>>
    PROVE  AskInv'
<1>1. /\ \A c \in asking : \E m \in sent : m.flagged /\ m.series = c.series /\ m.time = c.time
      /\ \A c, d \in asking : c.series = d.series /\ c.time = d.time => c = d
      /\ \A s \in Series, t \in Nat : ~Unlearnt(s, t) =>
             \E c \in asking : c.series = s /\ c.time = t
      /\ \A c \in asking : Bounded(c)
  BY AskInvIs
<1>2. \A s \in Series, t \in Nat : Unlearnt(s, t) => Unlearnt(s, t)'
  BY EngineLearns DEF DetectionTypes, Unlearnt
<1>3. ASSUME NEW c \in asking
      PROVE  Bounded(c)'
  <2>1. PICK s \in Series, t \in Nat : s = c.series /\ t = c.time
    BY DEF DetectionTypes, Asked
  <2>2. /\ IsFiniteSet(Copies(s, t)) /\ IsFiniteSet(Learners(s, t))
        /\ Cardinality(Copies(s, t)) + Cardinality(Learners(s, t)) <= c.tries
    BY <1>1, <2>1 DEF Bounded
  <2>3. /\ IsFiniteSet(Copies(s, t)') /\ IsFiniteSet(Learners(s, t)')
        /\ Cardinality(Copies(s, t)') + Cardinality(Learners(s, t)')
               <= Cardinality(Copies(s, t)) + Cardinality(Learners(s, t))
    BY <2>2, EngineLearns DEF DetectionTypes
  <2>4. /\ Cardinality(Copies(s, t)) \in Nat /\ Cardinality(Learners(s, t)) \in Nat
        /\ Cardinality(Copies(s, t)') \in Nat /\ Cardinality(Learners(s, t)') \in Nat
    BY <2>2, <2>3, FS_CardinalityType
  <2>5. c.tries \in Nat
    BY DetectionAssumption DEF DetectionTypes, Asked
  <2>6. Cardinality(Copies(s, t)') + Cardinality(Learners(s, t)') <= c.tries
    BY <2>2, <2>3, <2>4, <2>5
  <2>7. QED
    BY <2>1, <2>3, <2>6 DEF Bounded
<1>4. QED
  BY <1>1, <1>2, <1>3, AskInvIs

-----------------------------------------------------------------------------

LEMMA InitDetection == DetectionInit => DetectionInv
<1> SUFFICES ASSUME DetectionInit
             PROVE  DetectionInv
  OBVIOUS
<1>1. AgentTypes
  <2>1. PICK allowed \in SUBSET Series :
            agent = [s \in Series |-> [at |-> "sleeping", recent |-> <<>>, time |-> 0,
                                       synthetic |-> s \in allowed]]
    BY DEF DetectionInit, AgentsInit
  <2>2. \A s \in Series : [at |-> "sleeping", recent |-> <<>>, time |-> 0,
                           synthetic |-> s \in allowed] \in AgentType
    BY DEF AgentType, AgentPlaces
  <2>3. QED
    BY <2>1, <2>2 DEF DetectionInit, AgentsInit, AgentTypes
<1>2. EngineTypes /\ \A w \in Processes, s \in Series : history[w][s] = <<>>
  BY DetectionAssumption DEF DetectionInit, CorrelationInit, EngineTypes
<1>3. \A h \in Threads : serving[h].at = "idle"
  BY DEF DetectionInit, CorrelationInit, Idle
<1>4. WindowInv
  BY <1>2, <1>3 DEF WindowInv, On, Free, Orderly
<1>5. AskInv
  <2>1. \A s \in Series : \A t : Copies(s, t) = {}
    <3> SUFFICES ASSUME NEW s \in Series, NEW t, NEW x \in Copies(s, t)
                 PROVE  FALSE
      OBVIOUS
    <3>1. PICK w \in Processes : \E i \in 1..Len(history[w][s]) : history[w][s][i] = t
      BY CopyIs
    <3>2. QED
      BY <1>2, <3>1
  <2>2. \A s, t : Learners(s, t) = {}
    BY <1>3 DEF Learners, Learning
  <2>3. asking = {}
    BY DEF DetectionInit
  <2>4. QED
    BY <2>1, <2>2, <2>3 DEF AskInv
<1>6. QED
  BY <1>1, <1>2, <1>4, <1>5 DEF DetectionInv, DetectionTypes, DetectionInit

LEMMA DetectionStep == DetectionInv /\ [DetectionNext]_detectionVars => DetectionInv'
<1> SUFFICES ASSUME DetectionInv, [DetectionNext]_detectionVars
             PROVE  DetectionInv'
  OBVIOUS
<1> USE DEF DetectionInv, DetectionTypes
<1>1. ASSUME UNCHANGED <<history, serving, disturbed>>
      PROVE  WindowInv' /\ EngineTypes'
  <2>1. EngineTypes'
    BY <1>1 DEF EngineTypes
  <2>2. \A w, s : \A h \in Threads : On(h, w, s)' <=> On(h, w, s)
    BY <1>1 DEF On
  <2>3. WindowInv'
    BY <1>1, <2>2 DEF WindowInv, Orderly, UpTo, Within
  <2>4. QED
    BY <2>1, <2>3
<1>2. ASSUME UNCHANGED <<history, serving, asking>>, sent \subseteq sent'
      PROVE  AskInv'
  <2>1. /\ \A s, t : Copies(s, t)' = Copies(s, t)
        /\ \A s, t : Learners(s, t)' = Learners(s, t)
    BY <1>2, SameCopies, SameLearners
  <2>2. QED
    BY <1>2, <2>1 DEF AskInv
<1>3. ASSUME UNCHANGED agentVars
      PROVE  AgentTypes'
  BY <1>3 DEF agentVars, AgentTypes
<1>4. CASE Tick /\ UNCHANGED <<engineVars, asking>>
  <2>1. AgentTypes' /\ sent' = sent
    BY <1>4 DEF Tick, AgentTypes
  <2>2. QED
    BY <1>1, <1>2, <1>4, <2>1 DEF engineVars
<1>5. ASSUME NEW s \in Series, AgentStep(s), UNCHANGED <<engineVars, asking>>
      PROVE  DetectionInv'
  <2>1. AgentTypes' /\ sent \subseteq sent'
    BY <1>5, AgentKeeps
  <2>2. QED
    BY <1>1, <1>2, <1>5, <2>1 DEF engineVars
<1>6. ASSUME NEW m \in sent, Ingest(m)
      PROVE  DetectionInv'
  <2>1. UNCHANGED <<agentVars, engineVars>>
    BY <1>6 DEF Ingest
  <2>2. AskInv' /\ asking' \subseteq Asked
    BY <1>6, IngestKeeps
  <2>3. QED
    BY <1>1, <1>3, <2>1, <2>2 DEF engineVars
<1>7. ASSUME NEW c \in asking, NEW h \in Threads, Attempt(c, h)
      PROVE  DetectionInv'
  <2>1. UNCHANGED agentVars /\ c.series \in Series /\ c.time \in Nat
        /\ Correlate(h, c.series, c.time, TRUE)
    BY <1>7 DEF Attempt, Asked
  <2>2. WindowInv' /\ EngineTypes'
    BY <2>1, CorrelateKeepsWindows, CorrelateMoves
  <2>3. AskInv' /\ asking' \subseteq Asked
    BY <1>7, AttemptKeeps
  <2>4. QED
    BY <1>3, <2>1, <2>2, <2>3
<1>8. ASSUME NEW c \in asking, NEW h \in Threads, Answered(c, h) \/ GivenUp(c, h)
      PROVE  DetectionInv'
  <2>1. UNCHANGED <<agentVars, engineVars>>
    BY <1>8 DEF Answered, GivenUp
  <2>2. AskInv' /\ asking' \subseteq Asked
    BY <1>8, AnswerKeeps
  <2>3. QED
    BY <1>1, <1>3, <2>1, <2>2 DEF engineVars
<1>9. ASSUME NEW h \in Threads, EngineStep(h), UNCHANGED <<agentVars, asking>>
      PROVE  DetectionInv'
  <2>1. WindowInv' /\ EngineTypes'
    BY <1>9, EngineKeepsWindows, EngineKeepsTypes
  <2>2. AskInv'
    BY <1>9, EngineKeepsAsked DEF agentVars
  <2>3. QED
    BY <1>3, <1>9, <2>1, <2>2
<1>10. CASE UNCHANGED detectionVars
  BY <1>1, <1>2, <1>3, <1>10 DEF detectionVars, engineVars, agentVars
<1>11. QED
  BY <1>4, <1>5, <1>6, <1>7, <1>8, <1>9, <1>10 DEF DetectionNext

LEMMA DetectionInvariance == DetectionSpec => []DetectionInv
<1> QED
  BY InitDetection, DetectionStep, PTL DEF DetectionSpec

\* The agents, the engine's threads and windows, and the backend's calls are
\* well-typed in every state.
THEOREM PipelineTypes == DetectionSpec => []DetectionTypes
<1>1. DetectionInv => DetectionTypes
  BY DEF DetectionInv
<1> QED
  BY <1>1, DetectionInvariance, PTL

\* Where calls neither overlapped nor came out of order, a series' points are
\* in order and all of the last window.
THEOREM WindowsAreKept == DetectionSpec => []WindowKept
<1>1. DetectionInv => WindowKept
  BY DetectionAssumption DEF DetectionInv, WindowInv, WindowKept, Orderly
<1> QED
  BY <1>1, DetectionInvariance, PTL

\* The windows hold only flagged samples, each at most as often as the backend
\* made attempts.
THEOREM LearntWasFlagged == DetectionSpec => []LearnsWhatWasFlagged
<1>1. DetectionInv => LearnsWhatWasFlagged
  <2> SUFFICES ASSUME DetectionInv, NEW w \in Processes, NEW s \in Series,
                      NEW i \in 1..Len(history[w][s]), NEW t, t = history[w][s][i]
               PROVE  /\ \E m \in sent : m.flagged /\ m.series = s /\ m.time = t
                      /\ \E c \in asking : /\ c.series = s /\ c.time = t
                                           /\ Cardinality(Copies(s, t)) <= Attempts
    BY DEF LearnsWhatWasFlagged
  <2>1. t \in Nat
    <3>1. history[w][s] \in Seq(Nat)
      BY DEF DetectionInv, DetectionTypes, EngineTypes
    <3>2. QED
      BY <3>1
  <2>2. <<w, i>> \in Copies(s, t)
    BY CopyIs
  <2>3. PICK c \in asking : c.series = s /\ c.time = t
    BY <2>1, <2>2 DEF DetectionInv, AskInv
  <2>4. \E m \in sent : m.flagged /\ m.series = s /\ m.time = t
    BY <2>3 DEF DetectionInv, AskInv
  <2>5. /\ IsFiniteSet(Copies(s, t)) /\ IsFiniteSet(Learners(s, t))
        /\ Cardinality(Copies(s, t)) + Cardinality(Learners(s, t)) <= c.tries
    BY <2>3 DEF DetectionInv, AskInv
  <2>6. Cardinality(Copies(s, t)) \in Nat /\ Cardinality(Learners(s, t)) \in Nat
    BY <2>5, FS_CardinalityType
  <2>7. c.tries \in Nat /\ c.tries <= Attempts /\ Attempts \in Nat
    BY DetectionAssumption DEF DetectionInv, DetectionTypes, Asked
  <2>8. Cardinality(Copies(s, t)) <= Attempts
    BY <2>5, <2>6, <2>7
  <2>9. QED
    BY <2>3, <2>4, <2>8
<1> QED
  BY <1>1, DetectionInvariance, PTL

-----------------------------------------------------------------------------
(***************************************************************************)
(* Batches: events to incidents.                                           *)
(***************************************************************************)

LEMMA LeastExists ==
    ASSUME NEW T \in SUBSET Nat, T # {}
    PROVE  \E x \in T : \A y \in T : x <= y
<1>1. \E x \in T : \A y \in T : ~(<<y, x>> \in OpToRel(<, Nat))
  BY NatLessThanWellFounded, WFMin
<1>2. \A x, y \in Nat : <<y, x>> \in OpToRel(<, Nat) <=> y < x
  BY DEF OpToRel
<1>3. ASSUME NEW x \in T, NEW y \in T, ~(<<y, x>> \in OpToRel(<, Nat))
      PROVE  x <= y
  <2>1. x \in Nat /\ y \in Nat
    OBVIOUS
  <2>2. ~(y < x)
    BY <1>2, <1>3, <2>1
  <2>3. QED
    BY <2>1, <2>2
<1>4. QED
  BY <1>1, <1>3

\* The latest of the times in a batch: a finite set has a greatest element.
LEMMA GreatestExists ==
    ASSUME NEW S \in SUBSET Int, IsFiniteSet(S), S # {}
    PROVE  \E x \in S : \A y \in S : y <= x
<1> DEFINE Topped(T) == \E x \in T : \A y \in T : y <= x
           Sizes == {n \in Nat : \E T \in SUBSET S : T # {} /\ Cardinality(T) = n /\ ~Topped(T)}
<1>1. SUFFICES ASSUME ~Topped(S)
               PROVE  FALSE
  OBVIOUS
<1>2. Cardinality(S) \in Sizes
  <2>1. Cardinality(S) \in Nat
    BY FS_CardinalityType
  <2>2. QED
    BY <1>1, <2>1
<1>3. PICK n \in Sizes : \A m \in Sizes : n <= m
  <2>1. Sizes \in SUBSET Nat /\ Sizes # {}
    BY <1>2
  <2> HIDE DEF Sizes
  <2>2. QED
    BY <2>1, LeastExists
<1>4. PICK T \in SUBSET S : T # {} /\ Cardinality(T) = n /\ ~Topped(T)
  BY <1>3
<1>5. n \in Nat
  BY <1>3
<1>6. PICK x \in T : TRUE
  BY <1>4
<1> DEFINE U == T \ {x}
<1>7. U \in SUBSET S /\ T = U \cup {x} /\ x \in Int
  BY <1>6
<1>8. Cardinality(U) = n - 1
  <2>1. IsFiniteSet(T)
    BY FS_Subset
  <2> HIDE DEF U
  <2>2. QED
    BY <1>4, <1>6, <2>1, FS_RemoveElement DEF U
<1>9. Cardinality(U) \notin Sizes /\ Cardinality(U) \in Nat
  <2>1. IsFiniteSet(U)
    BY <1>7, FS_Subset
  <2>2. Cardinality(U) \in Nat
    BY <2>1, FS_CardinalityType
  <2> HIDE DEF U, Sizes
  <2>3. QED
    BY <1>3, <1>5, <1>8, <2>2
<1>10. CASE U = {}
  <2>1. T = {x}
    BY <1>7, <1>10
  <2>2. Topped(T)
    BY <1>7, <2>1
  <2>3. QED
    BY <1>4, <2>2
<1>11. CASE U # {}
  <2> HIDE DEF U
  <2>1. Topped(U)
    BY <1>7, <1>9, <1>11
  <2>2. PICK y \in U : \A z \in U : z <= y
    BY <2>1
  <2>3. y \in Int /\ \A z \in U : z \in Int
    BY <1>7, <2>2
  <2>4. CASE y <= x
    <3>1. \A z \in T : z <= x
      BY <1>7, <2>2, <2>3, <2>4
    <3>2. QED
      BY <1>4, <1>6, <3>1
  <2>5. CASE x <= y
    <3>1. y \in T /\ \A z \in T : z <= y
      BY <1>7, <2>2, <2>3, <2>5
    <3>2. QED
      BY <1>4, <3>1
  <2>6. QED
    BY <1>7, <2>3, <2>4, <2>5
<1>12. QED
  BY <1>10, <1>11

\* The events that share a window lie within its length.
LEMMA WindowsAreShort ==
    ASSUME NEW t \in Nat, NEW u \in Nat, NEW w \in Nat \ {0}, t \div w = u \div w
    PROVE  t - u < w
<1>1. w * (t \div w) <= t /\ t < w * (t \div w) + w /\ t \div w \in Nat
  BY Z3
<1>2. w * (u \div w) <= u /\ u < w * (u \div w) + w
  BY Z3
<1>3. w * (t \div w) = w * (u \div w)
  OBVIOUS
<1>4. w * (t \div w) \in Int
  BY <1>1
<1> DEFINE a == w * (t \div w)
           b == w * (u \div w)
<1> HIDE DEF a, b
<1>5. a \in Int /\ a <= t /\ t < a + w /\ a = b /\ a <= u
  BY <1>1, <1>2, <1>3, <1>4 DEF a, b
<1>6. QED
  BY <1>5

\* What the rules call a set of events, case by case.
Grave(e) == Magnitude(e) >= (IF e.metric \in {"oom_kill", "restart"} THEN 3 ELSE 4)

LEMMA SeverityIs ==
    ASSUME NEW events
    PROVE  /\ (\E e \in events : Grave(e)) /\ (\E e \in events : ~(Magnitude(e) < 3))
                  => Severity(events) = "critical"
           /\ ~(\E e \in events : Grave(e)) /\ (\A e \in events : Magnitude(e) < 3)
                  => Severity(events) = "medium"
           /\ ~(\E e \in events : Grave(e)) /\ ~(\A e \in events : Magnitude(e) < 3)
                  => Severity(events) = "high"
BY DEF Severity, Grave

\* A set of events is as severe as one of them alone.
LEMMA GravestDecides ==
    ASSUME NEW events, events # {}, \A e \in events : e.z \in Int
    PROVE  \E e \in events : Severity({e}) = Severity(events)
<1>1. \A e \in events : Grave(e) => ~(Magnitude(e) < 3)
  <2> SUFFICES ASSUME NEW e \in events, Grave(e)
               PROVE  ~(Magnitude(e) < 3)
    OBVIOUS
  <2>1. Magnitude(e) \in Int
    BY DEF Magnitude
  <2>2. QED
    BY <2>1 DEF Grave
<1>2. CASE \E e \in events : Grave(e)
  <2>1. PICK e \in events : Grave(e) /\ ~(Magnitude(e) < 3)
    BY <1>1, <1>2
  <2>2. (\E f \in {e} : Grave(f)) /\ (\E f \in {e} : ~(Magnitude(f) < 3))
    BY <2>1
  <2>3. Severity({e}) = "critical"
    BY <2>2, SeverityIs
  <2>4. (\E f \in events : Grave(f)) /\ (\E f \in events : ~(Magnitude(f) < 3))
    BY <2>1
  <2>5. Severity(events) = "critical"
    BY <2>4, SeverityIs
  <2>6. QED
    BY <2>3, <2>5
<1>3. CASE ~(\E e \in events : Grave(e)) /\ \A e \in events : Magnitude(e) < 3
  <2>1. PICK e \in events : TRUE
    OBVIOUS
  <2>2. ~(\E f \in {e} : Grave(f)) /\ \A f \in {e} : Magnitude(f) < 3
    BY <1>3
  <2>3. Severity({e}) = "medium"
    BY <2>2, SeverityIs
  <2>4. Severity(events) = "medium"
    BY <1>3, SeverityIs
  <2>5. QED
    BY <2>3, <2>4
<1>4. CASE ~(\E e \in events : Grave(e)) /\ ~(\A e \in events : Magnitude(e) < 3)
  <2>1. PICK e \in events : ~(Magnitude(e) < 3)
    BY <1>4
  <2>2. ~(\E f \in {e} : Grave(f)) /\ ~(\A f \in {e} : Magnitude(f) < 3)
    BY <1>4, <2>1
  <2>3. Severity({e}) = "high"
    BY <2>2, SeverityIs
  <2>4. Severity(events) = "high"
    BY <1>4, SeverityIs
  <2>5. QED
    BY <2>3, <2>4
<1>5. QED
  BY <1>2, <1>3, <1>4

\* A batch as the engine takes it in, the positions of the events it groups,
\* and the group of one of them.
Taken(raws) == [i \in DOMAIN raws |-> Normalised(raws[i])]

Kept(raws) == {i \in DOMAIN raws : Valid(Taken(raws)[i]) /\ Taken(raws)[i].is_anomaly}

GroupOf(raws, i) == {j \in Kept(raws) : SameGroup(Taken(raws)[i], Taken(raws)[j])}

Inc(raws, i) == Incident(Taken(raws), GroupOf(raws, i))

LEMMA IncidentsAre ==
    ASSUME NEW raws
    PROVE  CorrelateBatch(raws) = {Inc(raws, i) : i \in Kept(raws)}
BY DEF CorrelateBatch, Inc, GroupOf, Kept, Taken

LEMMA GroupsAgree ==
    ASSUME NEW raws, NEW i \in Kept(raws), NEW j \in Kept(raws)
    PROVE  /\ i \in GroupOf(raws, i)
           /\ j \in GroupOf(raws, i) => GroupOf(raws, j) = GroupOf(raws, i)
BY DEF GroupOf, SameGroup

\* An event keeps all but the name of its metric.
LEMMA TakenIs ==
    ASSUME NEW n \in Nat, NEW raws \in [1..n -> Events], NEW i \in 1..n
    PROVE  /\ Taken(raws)[i].time \in Int /\ Taken(raws)[i].z \in Int
           /\ Taken(raws)[i].is_anomaly \in BOOLEAN
<1>1. raws[i] \in RawEvent
  BY CorrelationAssumption
<1>2. Taken(raws)[i] = Normalised(raws[i])
  BY DEF Taken
<1>3. QED
  BY <1>1, <1>2 DEF Normalised, RawEvent

LEMMA IncidentOf ==
    ASSUME NEW n \in Nat, NEW raws \in [1..n -> Events], NEW i \in Kept(raws)
    PROVE  /\ Inc(raws, i).evidence = GroupOf(raws, i)
           /\ Inc(raws, i).namespace = Taken(raws)[i].namespace
           /\ Inc(raws, i).severity = Severity({Taken(raws)[j] : j \in GroupOf(raws, i)})
           /\ Inc(raws, i).id[3] = Inc(raws, i).time
           /\ \E j \in GroupOf(raws, i) : Inc(raws, i).time = Taken(raws)[j].time
<1> DEFINE G == GroupOf(raws, i)
           events == {Taken(raws)[j] : j \in G}
           Times == {e.time : e \in events}
<1>1. /\ G \subseteq 1..n /\ i \in G
      /\ \A j \in G : Taken(raws)[j].namespace = Taken(raws)[i].namespace
  BY GroupsAgree DEF GroupOf, Kept, SameGroup
<1>2. IsFiniteSet(G)
  <2>1. IsFiniteSet(1..n)
    BY FS_Interval
  <2>2. QED
    BY <1>1, <2>1, FS_Subset
<1>3. IsFiniteSet(Times) /\ Times \in SUBSET Int /\ Times # {}
  <2>1. Times = {Taken(raws)[j].time : j \in G}
    OBVIOUS
  <2>2. [j \in G |-> Taken(raws)[j].time] \in Surjection(G, Times)
    BY <2>1 DEF Surjection
  <2>3. \A j \in G : Taken(raws)[j].time \in Int
    BY <1>1, TakenIs
  <2>4. i \in G
    BY <1>1
  <2> HIDE DEF G, events
  <2>5. IsFiniteSet(Times)
    <3> HIDE DEF Times
    <3>1. QED
      BY <1>2, <2>2, FS_Surjection
  <2>6. Times \in SUBSET Int /\ Times # {}
    BY <2>1, <2>3, <2>4
  <2>7. QED
    BY <2>5, <2>6
<1>4. PICK t \in Times : \A u \in Times : u <= t
  BY <1>3, GreatestExists
<1> DEFINE time == CHOOSE x \in Times : \A e \in events : e.time <= x
           namespace == (CHOOSE e \in events : TRUE).namespace
<1>5. time \in Times
  <2>1. \E x \in Times : \A e \in events : e.time <= x
    BY <1>4
  <2> HIDE DEF events, Times
  <2>2. QED
    BY <2>1
<1>6. namespace = Taken(raws)[i].namespace
  <2>1. (CHOOSE e \in events : TRUE) \in events
    BY <1>1
  <2> HIDE DEF G
  <2>2. PICK j \in G : (CHOOSE e \in events : TRUE) = Taken(raws)[j]
    BY <2>1
  <2>3. QED
    BY <1>1, <2>2
<1>7. PICK label, metric, pods, cause :
          Inc(raws, i) = [id |-> <<label, metric, time>>,
                          namespace |-> namespace, time |-> time, pods |-> pods, evidence |-> G,
                          severity |-> Severity(events), root_cause |-> cause]
  BY DEF Incident, Inc
<1> HIDE DEF time, namespace
<1>8. \E j \in G : time = Taken(raws)[j].time
  BY <1>5
<1> HIDE DEF G
<1>9. /\ Inc(raws, i).evidence = G
      /\ Inc(raws, i).namespace = namespace
      /\ Inc(raws, i).severity = Severity(events)
      /\ Inc(raws, i).id[3] = time
      /\ Inc(raws, i).time = time
  BY <1>7
<1>10. QED
  BY <1>6, <1>8, <1>9 DEF G

\* Every batch of events, of any length, is answered as EachInOneIncident demands.
LEMMA BatchIsAnswered ==
    ASSUME NEW n \in Nat, NEW raws \in [1..n -> Events]
    PROVE  OneIncidentEach(raws, CorrelateBatch(raws))
<1> DEFINE I == CorrelateBatch(raws)
           B == Taken(raws)
<1>1. I = {Inc(raws, i) : i \in Kept(raws)}
  BY IncidentsAre
<1>2. \A i \in Kept(raws) :
          /\ Inc(raws, i).evidence = GroupOf(raws, i)
          /\ Inc(raws, i).namespace = B[i].namespace
          /\ Inc(raws, i).severity = Severity({B[j] : j \in GroupOf(raws, i)})
          /\ Inc(raws, i).id[3] = Inc(raws, i).time
          /\ \E j \in GroupOf(raws, i) : Inc(raws, i).time = B[j].time
  BY IncidentOf
<1>3. \A i, j \in Kept(raws) : j \in GroupOf(raws, i) => Inc(raws, j) = Inc(raws, i)
  BY GroupsAgree DEF Inc
<1>4. \A i \in Kept(raws) : i \in GroupOf(raws, i)
  BY GroupsAgree
<1>5. \A i \in Kept(raws) : \A j \in GroupOf(raws, i) : j \in Kept(raws) /\ SameGroup(B[i], B[j])
  BY DEF GroupOf
<1>6. \A i \in Kept(raws) : B[i].time \in Nat /\ B[i].z \in Int /\ B[i].is_anomaly
  <2> SUFFICES ASSUME NEW i \in Kept(raws)
               PROVE  B[i].time \in Nat /\ B[i].z \in Int /\ B[i].is_anomaly
    OBVIOUS
  <2>1. i \in 1..n
    BY DEF Kept
  <2>2. QED
    BY <2>1, TakenIs DEF Kept, Valid
<1>7. B = [i \in DOMAIN raws |-> Normalised(raws[i])] /\ DOMAIN B = DOMAIN raws
  BY DEF Taken
<1>8. \A i \in DOMAIN B : Valid(B[i]) /\ B[i].is_anomaly <=> i \in Kept(raws)
  BY <1>7 DEF Kept
<1> HIDE DEF I, B
<1>9. ASSUME NEW i \in Kept(raws)
      PROVE  Cardinality({x \in I : i \in x.evidence}) = 1
  <2>1. {x \in I : i \in x.evidence} = {Inc(raws, i)}
    <3>1. Inc(raws, i) \in I /\ i \in Inc(raws, i).evidence
      BY <1>1, <1>2, <1>4
    <3>2. ASSUME NEW x \in I, i \in x.evidence
          PROVE  x = Inc(raws, i)
      <4>1. PICK g \in Kept(raws) : x = Inc(raws, g)
        BY <1>1
      <4>2. i \in GroupOf(raws, g)
        BY <1>2, <3>2, <4>1
      <4>3. QED
        BY <1>3, <4>1, <4>2
    <3>3. QED
      BY <3>1, <3>2
  <2>2. QED
    BY <2>1, FS_Singleton
<1>10. ASSUME NEW x \in I, NEW y \in I, x.id = y.id, x.namespace = y.namespace
       PROVE  x = y
  <2>1. PICK i \in Kept(raws) : x = Inc(raws, i)
    BY <1>1
  <2>2. PICK j \in Kept(raws) : y = Inc(raws, j)
    BY <1>1
  <2>3. PICK g \in GroupOf(raws, i) : x.time = B[g].time
    BY <1>2, <2>1
  <2>4. PICK k \in GroupOf(raws, j) : y.time = B[k].time
    BY <1>2, <2>2
  <2>5. B[g].time = B[k].time /\ B[i].namespace = B[j].namespace
    BY <1>2, <1>10, <2>1, <2>2, <2>3, <2>4
  <2>6. SameGroup(B[i], B[j])
    BY <1>5, <2>3, <2>4, <2>5 DEF SameGroup
  <2>7. j \in GroupOf(raws, i)
    BY <2>6 DEF GroupOf, B
  <2>8. QED
    BY <1>3, <2>1, <2>2, <2>7
<1>11. ASSUME NEW x \in I
       PROVE  /\ \A i \in x.evidence : /\ B[i].is_anomaly /\ B[i].namespace = x.namespace
                                       /\ x.time - B[i].time < BatchWindow
              /\ \E i \in x.evidence : Severity({B[i]}) = x.severity
  <2>1. PICK g \in Kept(raws) : x = Inc(raws, g)
    BY <1>1
  <2>2. ASSUME NEW i \in x.evidence
        PROVE  B[i].is_anomaly /\ B[i].namespace = x.namespace /\ x.time - B[i].time < BatchWindow
    <3>1. i \in GroupOf(raws, g) /\ i \in Kept(raws) /\ SameGroup(B[g], B[i])
      BY <1>2, <1>5, <2>1
    <3>2. PICK j \in GroupOf(raws, g) : x.time = B[j].time
      BY <1>2, <2>1
    <3>3. j \in Kept(raws) /\ SameGroup(B[g], B[j])
      BY <1>5, <3>2
    <3>4. B[j].time \div BatchWindow = B[i].time \div BatchWindow
      BY <3>1, <3>3 DEF SameGroup
    <3>5. B[j].time - B[i].time < BatchWindow
      BY <1>6, <3>1, <3>3, <3>4, WindowsAreShort, CorrelationAssumption
    <3>6. B[i].namespace = x.namespace
      BY <1>2, <2>1, <3>1 DEF SameGroup
    <3>7. QED
      BY <1>6, <3>1, <3>2, <3>5, <3>6
  <2>3. \E i \in x.evidence : Severity({B[i]}) = x.severity
    <3> DEFINE events == {B[j] : j \in GroupOf(raws, g)}
    <3>1. events # {} /\ \A e \in events : e.z \in Int
      BY <1>4, <1>5, <1>6
    <3>2. x.severity = Severity(events) /\ x.evidence = GroupOf(raws, g)
      BY <1>2, <2>1
    <3>3. PICK e \in events : Severity({e}) = Severity(events)
      <4> HIDE DEF events
      <4>1. QED
        BY <3>1, GravestDecides
    <3>4. PICK j \in GroupOf(raws, g) : e = B[j]
      OBVIOUS
    <3>5. QED
      BY <3>2, <3>3, <3>4
  <2>4. QED
    BY <2>2, <2>3
<1>12. /\ \A i \in DOMAIN B : Valid(B[i]) /\ B[i].is_anomaly =>
              Cardinality({x \in I : i \in x.evidence}) = 1
       /\ \A x, y \in I : x.id = y.id /\ x.namespace = y.namespace => x = y
       /\ \A x \in I :
              /\ \A i \in x.evidence : /\ B[i].is_anomaly /\ B[i].namespace = x.namespace
                                       /\ x.time - B[i].time < BatchWindow
              /\ \E i \in x.evidence : Severity({B[i]}) = x.severity
  BY <1>8, <1>9, <1>10, <1>11
<1>13. QED
  BY <1>12, Zenon DEF OneIncidentEach, I, B, Taken

\* Every flagged event of any batch is evidence of one incident, of its own
\* namespace and window, with an id of its own in that namespace and the
\* severity of its gravest.
THEOREM EventsAreExplained == DetectionSpec => []EachInOneIncident
<1>1. EachInOneIncident
  BY BatchIsAnswered, CorrelationAssumption DEF EachInOneIncident, BatchesAnswered
<1> QED
  BY <1>1, PTL
=============================================================================
