------------------------- MODULE RemediationProofs -------------------------
(***************************************************************************)
(* Proofs about the sandbox executor, for every number of processes,       *)
(* requests, attempts and breaker failures, and about executing plans:     *)
(* what is proved of the approval engine and of the executor alone holds   *)
(* when the backend puts them together, and together they run only what    *)
(* was approved.                                                           *)
(***************************************************************************)
EXTENDS Remediation, SequenceTheorems, TLAPS

\* What is proved of the approval engine, for one that no planner talks to.
AP == INSTANCE PlanningProofs
          WITH Handlers <- {}, Evidence <- {}, Nobody <- None,
               plans <- <<>>, handler <- <<>>, serving <- <<>>, audit <- {}

LEMMA ApprovalAssumed == AP!ApprovalAssumption /\ AP!PlanningAssumption
BY RemediationAssumption
   DEF AP!ApprovalAssumption, A!ApprovalAssumption, AP!PlanningAssumption

-----------------------------------------------------------------------------
\* The inductive invariant.

\* What the fields of one process's worker say about each other.
WorkerInv ==
    \A p \in Procs :
        /\ cur[p] = None <=> pc[p] \in {"down", "idle"}
        /\ active[p] = IF cur[p] = None THEN 0 ELSE 1
        /\ partial[p] # "none" <=> pc[p] \in {"verify", "notify"}
        /\ pc[p] = "down" => queue[p] = <<>>

\* How far the worker is tells what has been done for its request.
StageInv ==
    \A p \in Procs :
        /\ pc[p] = "approval" => attempts[cur[p]] = 0
        /\ pc[p] \in {"run", "running"} =>
              cur[p] \in granted /\ p \notin DryRun
        /\ pc[p] = "run" => attempts[cur[p]] < MaxAttempts
        /\ pc[p] = "running" => attempts[cur[p]] > 0
        /\ pc[p] \in {"verify", "notify"} => p \in DryRun \/ attempts[cur[p]] > 0

\* A request unknown, or waiting in a queue, was never started; an awaited one
\* was never answered.
RequestInv ==
    /\ \A r \in Reqs :
          /\ future[r] = "none" => attempts[r] = 0
          /\ future[r] \in {"none", "waiting"} => r \notin replied
    /\ \A p \in Procs : \A i \in DOMAIN queue[p] : attempts[queue[p][i]] = 0

Inv ==
    /\ TypeOK
    /\ WorkerInv
    /\ EachAwaitedOnce
    /\ StageInv
    /\ RequestInv
    /\ StartsOnlyIfGranted
    /\ AnswerMatchesRuns

-----------------------------------------------------------------------------
\* Sequences and the breaker.

LEMMA Enqueued ==
    ASSUME NEW S, NEW s \in Seq(S), NEW x \in S
    PROVE  /\ Append(s, x) \in Seq(S)
           /\ DOMAIN Append(s, x) = DOMAIN s \cup {Len(s) + 1}
           /\ Len(s) + 1 \notin DOMAIN s
           /\ \A i \in DOMAIN s : Append(s, x)[i] = s[i]
           /\ Append(s, x)[Len(s) + 1] = x
<1>1. Len(s) \in Nat /\ DOMAIN s = 1 .. Len(s)
  BY LenProperties
<1>2. Append(s, x) \in Seq(S) /\ Len(Append(s, x)) = Len(s) + 1
  OBVIOUS
<1>3. DOMAIN Append(s, x) = 1 .. Len(s) + 1
  BY <1>2, LenProperties
<1>4. QED
  BY <1>1, <1>2, <1>3

LEMMA Dequeued ==
    ASSUME NEW S, NEW s \in Seq(S), s # <<>>
    PROVE  /\ Tail(s) \in Seq(S)
           /\ Head(s) \in S
           /\ 1 \in DOMAIN s
           /\ s[1] = Head(s)
           /\ \A i \in DOMAIN Tail(s) : i + 1 \in DOMAIN s /\ i + 1 # 1 /\ i \in Nat /\ Tail(s)[i] = s[i + 1]
           /\ \A i \in DOMAIN s : i # 1 => i - 1 \in DOMAIN Tail(s) /\ Tail(s)[i - 1] = s[i]
<1>1. Len(s) \in Nat \ {0} /\ DOMAIN s = 1 .. Len(s)
  BY LenProperties, EmptySeq
<1>2. /\ Tail(s) \in Seq(S) /\ Head(s) \in S
      /\ Len(Tail(s)) = Len(s) - 1
      /\ \A i \in 1 .. Len(Tail(s)) : Tail(s)[i] = s[i + 1]
  BY HeadTailProperties
<1>3. DOMAIN Tail(s) = 1 .. Len(s) - 1
  BY <1>2, LenProperties
<1>4. s[1] = Head(s)
  OBVIOUS
<1>5. QED
  BY <1>1, <1>2, <1>3, <1>4

LEMMA BreakerType ==
    ASSUME NEW b \in PB!Breaker
    PROVE  PB!Fresh \in PB!Breaker /\ PB!Succeeded(b) \in PB!Breaker /\ PB!Raised(b) \in PB!Breaker
BY ExecutorAssumption DEF PB!Breaker, PB!Fresh, PB!Succeeded, PB!Raised

-----------------------------------------------------------------------------
\* Every step preserves the invariant.

\* The elements of the queues and the worker's request are requests.
LEMMA Held ==
    ASSUME Inv
    PROVE  /\ \A q \in Procs : \A i \in DOMAIN queue[q] : queue[q][i] \in Reqs
           /\ \A q \in Procs : cur[q] # None => cur[q] \in Reqs
           /\ \A q \in Procs : pc[q] \notin {"down", "idle"} => cur[q] # None
<1>1. \A q \in Procs : queue[q] \in Seq(Reqs)
  BY DEF Inv, TypeOK
<1>2. \A q \in Procs : \A i \in DOMAIN queue[q] : queue[q][i] \in Reqs
  BY <1>1, LenProperties, ElementOfSeq
<1>3. QED
  BY <1>2 DEF Inv, TypeOK, WorkerInv

LEMMA SubmitInv ==
    ASSUME Inv, NEW p \in Procs, NEW r \in Reqs, Submit(p, r)
    PROVE  Inv'
<1> DEFINE s == queue[p]
           t == Append(s, r)
<1>1. s \in Seq(Reqs)
  BY DEF Inv, TypeOK
<1>2. /\ t \in Seq(Reqs)
      /\ DOMAIN t = DOMAIN s \cup {Len(s) + 1}
      /\ Len(s) + 1 \notin DOMAIN s
      /\ \A i \in DOMAIN s : t[i] = s[i]
      /\ t[Len(s) + 1] = r
  BY <1>1, Enqueued
<1>3. queue' = [queue EXCEPT ![p] = t]
  BY DEF Submit
<1> HIDE DEF s, t
<1>4. TypeOK'
  BY <1>2, <1>3 DEF Inv, TypeOK, Submit, Futures
<1>5. WorkerInv'
  BY <1>3 DEF Inv, TypeOK, Submit, WorkerInv
<1>6. \A q \in Procs : \A i \in DOMAIN queue[q] : queue[q][i] # r
  BY DEF Submit, Inv, EachAwaitedOnce, QueuedIsAwaited
<1>7. \A q \in Procs : cur[q] # r
  BY ExecutorAssumption DEF Submit, Inv, EachAwaitedOnce, ExecutedIsAwaited, Executing
<1>8. /\ queue'[p] = t
      /\ \A q \in Procs : q # p => queue'[q] = queue[q]
      /\ cur' = cur
  BY <1>3 DEF Submit, Inv, TypeOK
<1>9. /\ future'[r] = "waiting" /\ home'[r] = p
      /\ \A x \in Reqs : x # r => future'[x] = future[x] /\ home'[x] = home[x]
  BY DEF Submit, Inv, TypeOK
<1>10. AwaitedIsHeld'
  <2> SUFFICES ASSUME NEW x \in Reqs, future'[x] = "waiting"
               PROVE  home'[x] \in Procs /\ (cur'[home'[x]] = x \/ \E i \in DOMAIN queue'[home'[x]] : queue'[home'[x]][i] = x)
    BY DEF AwaitedIsHeld, Queued
  <2>1. CASE x = r
    BY <2>1, <1>2, <1>8, <1>9
  <2>2. CASE x # r
    <3>1. home[x] \in Procs /\ (cur[home[x]] = x \/ \E i \in DOMAIN queue[home[x]] : queue[home[x]][i] = x)
      BY <2>2, <1>9 DEF Inv, EachAwaitedOnce, AwaitedIsHeld, Queued
    <3>2. QED
      BY <3>1, <2>2, <1>2, <1>8, <1>9 DEF s
  <2>3. QED
    BY <2>1, <2>2
<1>11. ExecutedIsAwaited'
  <2> SUFFICES ASSUME NEW q \in Procs, cur[q] # None
               PROVE  /\ future'[cur[q]] = "waiting" /\ home'[cur[q]] = q
                      /\ \A i \in DOMAIN queue'[q] : queue'[q][i] # cur[q]
    BY <1>8 DEF ExecutedIsAwaited, Executing, Queued
  <2>1. /\ future[cur[q]] = "waiting" /\ home[cur[q]] = q
        /\ \A i \in DOMAIN queue[q] : queue[q][i] # cur[q]
    BY DEF Inv, EachAwaitedOnce, ExecutedIsAwaited, Executing, Queued
  <2>2. cur[q] \in Reqs /\ cur[q] # r
    BY <1>7 DEF Inv, TypeOK
  <2>3. QED
    BY <2>1, <2>2, <1>2, <1>8, <1>9 DEF s
<1>12. QueuedIsAwaited'
  <2> SUFFICES ASSUME NEW q \in Procs, NEW i \in DOMAIN queue'[q]
               PROVE  /\ future'[queue'[q][i]] = "waiting"
                      /\ home'[queue'[q][i]] = q
                      /\ \A j \in DOMAIN queue'[q] : queue'[q][j] = queue'[q][i] => j = i
    BY DEF QueuedIsAwaited
  <2>1. \A k \in DOMAIN queue[q] :
            /\ queue[q][k] \in Reqs
            /\ queue[q][k] # r
            /\ future[queue[q][k]] = "waiting"
            /\ home[queue[q][k]] = q
            /\ \A j \in DOMAIN queue[q] : queue[q][j] = queue[q][k] => j = k
    BY Held, <1>6 DEF Inv, EachAwaitedOnce, QueuedIsAwaited
  <2>2. CASE q # p
    BY <2>1, <2>2, <1>8, <1>9
  <2>3. CASE q = p
    BY <2>1, <2>3, <1>2, <1>8, <1>9 DEF s
  <2>4. QED
    BY <2>2, <2>3
<1>13. StageInv' /\ StartsOnlyIfGranted' /\ AnswerMatchesRuns'
  <2>2. StageInv'
    BY DEF Submit, Inv, StageInv
  <2>3. StartsOnlyIfGranted'
    <3>1. attempts[r] = 0 /\ attempts' = attempts /\ granted' = granted
      BY DEF Submit, Inv, RequestInv
    <3>2. QED
      BY <3>1, <1>9 DEF Inv, StartsOnlyIfGranted
  <2>4. AnswerMatchesRuns'
    BY <1>9 DEF Submit, Inv, TypeOK, AnswerMatchesRuns, Results
  <2>5. QED
    BY <2>2, <2>3, <2>4
<1>14. RequestInv'
  <2>1. \A x \in Reqs : (future'[x] = "none" => attempts'[x] = 0) /\ (future'[x] \in {"none", "waiting"} => x \notin replied')
    BY <1>9 DEF Submit, Inv, RequestInv
  <2>2. attempts[r] = 0
    BY DEF Submit, Inv, RequestInv
  <2>3. QED
    BY <2>1, <2>2, <1>2, <1>8 DEF Submit, Inv, RequestInv, s
<1>15. QED
  BY <1>4, <1>5, <1>10, <1>11, <1>12, <1>13, <1>14 DEF Inv, EachAwaitedOnce

LEMMA RespondInv ==
    ASSUME Inv, NEW r \in Reqs, Respond(r)
    PROVE  Inv'
<1> USE DEF Inv, TypeOK, Respond, Results
<1>1. TypeOK'
  BY DEF Futures
<1>2. WorkerInv' /\ EachAwaitedOnce' /\ StageInv' /\ RequestInv' /\ StartsOnlyIfGranted'
  BY DEF WorkerInv, EachAwaitedOnce, AwaitedIsHeld, ExecutedIsAwaited, QueuedIsAwaited,
      StageInv, RequestInv, StartsOnlyIfGranted, Executing, Queued
<1>3. AnswerMatchesRuns'
  BY DEF AnswerMatchesRuns
<1>4. QED
  BY <1>1, <1>2, <1>3

LEMMA DequeueInv ==
    ASSUME Inv, NEW p \in Procs, Dequeue(p)
    PROVE  Inv'
<1> DEFINE s == queue[p]
           t == Tail(s)
           r == Head(s)
<1>1. s \in Seq(Reqs) /\ s # <<>>
  BY DEF Inv, TypeOK, Dequeue
<1>2. /\ t \in Seq(Reqs)
      /\ r \in Reqs
      /\ 1 \in DOMAIN s
      /\ s[1] = r
      /\ \A i \in DOMAIN t : i + 1 \in DOMAIN s /\ i + 1 # 1 /\ i \in Nat /\ t[i] = s[i + 1]
      /\ \A i \in DOMAIN s : i # 1 => i - 1 \in DOMAIN t /\ t[i - 1] = s[i]
  BY <1>1, Dequeued
<1>3. /\ queue' = [queue EXCEPT ![p] = t]
      /\ cur' = [cur EXCEPT ![p] = r]
  BY DEF Dequeue
<1> HIDE DEF s, t, r
<1>4. r # None /\ cur[p] = None /\ active[p] = 0
  BY <1>2, ExecutorAssumption DEF Inv, WorkerInv, Dequeue
<1>5. TypeOK'
  BY <1>2, <1>3, <1>4 DEF Inv, TypeOK, Dequeue, reqVars, Stages
<1>6. WorkerInv'
  BY <1>3, <1>4 DEF Inv, TypeOK, Dequeue, WorkerInv
<1>7. /\ queue'[p] = t /\ cur'[p] = r /\ pc'[p] = "approval"
      /\ \A q \in Procs : q # p => queue'[q] = queue[q] /\ cur'[q] = cur[q] /\ pc'[q] = pc[q]
      /\ UNCHANGED reqVars
  BY <1>3 DEF Dequeue, Inv, TypeOK
<1>8. /\ future[r] = "waiting" /\ home[r] = p /\ attempts[r] = 0
      /\ \A i \in DOMAIN t : t[i] # r
      /\ \A i, j \in DOMAIN t : t[i] = t[j] => i = j
  BY <1>2 DEF Inv, EachAwaitedOnce, QueuedIsAwaited, RequestInv, s
<1>9. AwaitedIsHeld'
  <2> SUFFICES ASSUME NEW x \in Reqs, future[x] = "waiting"
               PROVE  home[x] \in Procs /\ (cur'[home[x]] = x \/ \E i \in DOMAIN queue'[home[x]] : queue'[home[x]][i] = x)
    BY <1>7 DEF AwaitedIsHeld, Queued, reqVars
  <2>1. home[x] \in Procs /\ (cur[home[x]] = x \/ \E i \in DOMAIN queue[home[x]] : queue[home[x]][i] = x)
    BY DEF Inv, EachAwaitedOnce, AwaitedIsHeld, Queued
  <2>2. CASE home[x] # p \/ x = r
    BY <2>1, <2>2, <1>7, <1>8
  <2>3. CASE home[x] = p /\ x # r
    <3>1. cur[p] # x
      BY <1>4, ExecutorAssumption
    <3>2. PICK i \in DOMAIN s : s[i] = x
      BY <2>1, <2>3, <3>1 DEF s
    <3>3. QED
      BY <2>3, <3>2, <1>2, <1>7
  <2>4. QED
    BY <2>2, <2>3
<1>10. ExecutedIsAwaited'
  <2> SUFFICES ASSUME NEW q \in Procs, cur'[q] # None
               PROVE  /\ future[cur'[q]] = "waiting" /\ home[cur'[q]] = q
                      /\ \A i \in DOMAIN queue'[q] : queue'[q][i] # cur'[q]
    BY <1>7 DEF ExecutedIsAwaited, Executing, Queued, reqVars
  <2>1. CASE q = p
    BY <2>1, <1>7, <1>8
  <2>2. CASE q # p
    BY <2>2, <1>7 DEF Inv, EachAwaitedOnce, ExecutedIsAwaited, Executing, Queued
  <2>3. QED
    BY <2>1, <2>2
<1>11. QueuedIsAwaited'
  <2> SUFFICES ASSUME NEW q \in Procs, NEW i \in DOMAIN queue'[q]
               PROVE  /\ future[queue'[q][i]] = "waiting"
                      /\ home[queue'[q][i]] = q
                      /\ \A j \in DOMAIN queue'[q] : queue'[q][j] = queue'[q][i] => j = i
    BY <1>7 DEF QueuedIsAwaited, reqVars
  <2>1. CASE q = p
    <3>1. \A k \in DOMAIN s : future[s[k]] = "waiting" /\ home[s[k]] = p
      BY DEF Inv, EachAwaitedOnce, QueuedIsAwaited, s
    <3>2. QED
      BY <2>1, <3>1, <1>2, <1>7, <1>8
  <2>2. CASE q # p
    BY <2>2, <1>7 DEF Inv, EachAwaitedOnce, QueuedIsAwaited
  <2>3. QED
    BY <2>1, <2>2
<1>12. StageInv'
  BY <1>7, <1>8 DEF Inv, StageInv, reqVars
<1>13. StartsOnlyIfGranted' /\ AnswerMatchesRuns'
  BY <1>7 DEF Inv, StartsOnlyIfGranted, AnswerMatchesRuns, Dequeue, reqVars
<1>14. RequestInv'
  <2>1. \A i \in DOMAIN t : attempts[t[i]] = 0
    BY <1>2 DEF Inv, RequestInv, s
  <2>2. QED
    BY <2>1, <1>7 DEF Inv, RequestInv, reqVars
<1>15. QED
  BY <1>5, <1>6, <1>9, <1>10, <1>11, <1>12, <1>13, <1>14 DEF Inv, EachAwaitedOnce

\* The worker resolves the future of its request with outcome o.
LEMMA FinishInv ==
    ASSUME Inv, NEW p \in Procs, NEW o \in Results \cup {"error"},
           cur[p] # None,
           Finish(p, o),
           UNCHANGED <<queue, store, home, replied, attempts>>,
           granted' \in {granted, granted \cup {cur[p]}},
           breaker' \in [Procs -> PB!Breaker],
           o = "rejected" => attempts[cur[p]] = 0,
           o \in {"success", "failed"} => p \in DryRun \/ attempts[cur[p]] > 0
    PROVE  Inv'
<1> DEFINE r == cur[p]
<1>1. r \in Reqs /\ future[r] = "waiting" /\ home[r] = p /\ r \notin replied
  BY Held DEF Inv, EachAwaitedOnce, ExecutedIsAwaited, Executing, RequestInv
<1>2. /\ future'[r] = o
      /\ \A x \in Reqs : x # r => future'[x] = future[x]
      /\ o \notin {"none", "waiting"}
  BY <1>1 DEF Finish, Inv, TypeOK, Results
<1>3. /\ cur'[p] = None /\ pc'[p] = "idle" /\ active'[p] = 0 /\ partial'[p] = "none"
      /\ \A q \in Procs : q # p => /\ cur'[q] = cur[q] /\ pc'[q] = pc[q]
                                   /\ active'[q] = active[q] /\ partial'[q] = partial[q]
  BY DEF Finish, Inv, TypeOK, WorkerInv
<1> HIDE DEF r
<1>4. \A q \in Procs : q # p => cur[q] # r
  BY <1>1, ExecutorAssumption DEF Inv, EachAwaitedOnce, ExecutedIsAwaited, Executing
<1>5. \A q \in Procs : \A i \in DOMAIN queue[q] : queue[q][i] # r
  BY <1>1 DEF Inv, EachAwaitedOnce, ExecutedIsAwaited, QueuedIsAwaited, Executing, Queued, r
<1>6. TypeOK'
  <2>1. future' \in [Reqs -> Futures]
    BY DEF Finish, Inv, TypeOK, Futures
  <2>2. active' \in [Procs -> {0, 1}]
    BY <1>3 DEF Finish, Inv, TypeOK
  <2>3. granted' \in SUBSET Reqs
    BY <1>1 DEF Inv, TypeOK, r
  <2>4. QED
    BY <2>1, <2>2, <2>3 DEF Finish, Inv, TypeOK, Stages
<1>7. WorkerInv'
  BY <1>3 DEF Inv, WorkerInv
<1>8. AwaitedIsHeld'
  BY <1>2, <1>3 DEF Inv, EachAwaitedOnce, AwaitedIsHeld, Queued, r
<1>9. ExecutedIsAwaited'
  <2> SUFFICES ASSUME NEW q \in Procs, q # p, cur[q] # None
               PROVE  future'[cur[q]] = "waiting" /\ home[cur[q]] = q /\ ~ Queued(q, cur[q])
    BY <1>3 DEF ExecutedIsAwaited, Executing, Queued
  <2>1. cur[q] \in Reqs /\ cur[q] # r
    BY Held, <1>4
  <2>2. QED
    BY <2>1, <1>2 DEF Inv, EachAwaitedOnce, ExecutedIsAwaited, Executing
<1>10. QueuedIsAwaited'
  BY Held, <1>2, <1>5 DEF Inv, EachAwaitedOnce, QueuedIsAwaited
<1>11. StageInv'
  BY <1>3 DEF Inv, StageInv
<1>12. StartsOnlyIfGranted'
  BY DEF Inv, StartsOnlyIfGranted
<1>13. RequestInv'
  BY <1>1, <1>2 DEF Inv, RequestInv
<1>14. AnswerMatchesRuns'
  <2>1. \A x \in Reqs : future'[x] = "rejected" => attempts[x] = 0
    BY <1>2 DEF Inv, AnswerMatchesRuns, r
  <2>2. \A x \in Reqs : future'[x] \in {"success", "failed"} => home[x] \in DryRun \/ attempts[x] > 0
    BY <1>1, <1>2 DEF Inv, AnswerMatchesRuns, r
  <2>3. \A q \in Procs : \A x \in store[q] : home[x] = q /\ future'[x] \in Results /\ x \in replied
    BY <1>1, <1>2 DEF Inv, TypeOK, AnswerMatchesRuns
  <2>4. QED
    BY <2>1, <2>2, <2>3 DEF AnswerMatchesRuns
<1>15. QED
  BY <1>6, <1>7, <1>8, <1>9, <1>10, <1>11, <1>12, <1>13, <1>14 DEF Inv, EachAwaitedOnce

\* The worker goes on to another stage with its request.
LEMMA ContinueInv ==
    ASSUME Inv, NEW p \in Procs, NEW stage \in {"run", "verify", "notify"}, NEW res,
           cur[p] # None,
           Continue(p, stage, res),
           UNCHANGED <<queue, store, home, replied, attempts>>,
           granted' \in {granted, granted \cup {cur[p]}},
           breaker' \in [Procs -> PB!Breaker],
           stage = "run" => /\ res = "none"
                            /\ cur[p] \in granted'
                            /\ p \notin DryRun
                            /\ attempts[cur[p]] < MaxAttempts,
           stage # "run" => /\ res \in {"success", "failed"}
                            /\ p \in DryRun \/ attempts[cur[p]] > 0
    PROVE  Inv'
<1>1. /\ pc'[p] = stage /\ partial'[p] = res
      /\ \A q \in Procs : q # p => pc'[q] = pc[q] /\ partial'[q] = partial[q]
      /\ UNCHANGED <<cur, active, future>>
  BY DEF Continue, Inv, TypeOK
<1>2. cur[p] \in Reqs
  BY Held
<1>3. TypeOK'
  BY <1>2 DEF Continue, Inv, TypeOK, Stages
<1>4. WorkerInv'
  BY <1>1 DEF Inv, WorkerInv
<1>5. EachAwaitedOnce'
  BY <1>1 DEF Inv, EachAwaitedOnce, AwaitedIsHeld, ExecutedIsAwaited, QueuedIsAwaited, Executing, Queued
<1>6. StageInv'
  BY <1>1 DEF Inv, StageInv
<1>7. RequestInv' /\ StartsOnlyIfGranted' /\ AnswerMatchesRuns'
  BY <1>1 DEF Inv, RequestInv, StartsOnlyIfGranted, AnswerMatchesRuns
<1>8. QED
  BY <1>3, <1>4, <1>5, <1>6, <1>7 DEF Inv

LEMMA EnsureApprovedInv ==
    ASSUME Inv, NEW p \in Procs, NEW ans \in Answers, NEW verdict \in Verdicts,
           EnsureApproved(p, ans, verdict)
    PROVE  Inv'
<1>1. cur[p] # None /\ attempts[cur[p]] = 0
  BY Held DEF EnsureApproved, Inv, StageInv
<1>2. breaker' \in [Procs -> PB!Breaker]
  <2>1. breaker[p] \in PB!Breaker /\ breaker \in [Procs -> PB!Breaker]
    BY DEF Inv, TypeOK
  <2>2. QED
    BY <2>1, BreakerType DEF EnsureApproved
<1>3. UNCHANGED <<queue, store, home, replied, attempts>>
  BY DEF EnsureApproved
<1>4. granted' \in {granted, granted \cup {cur[p]}}
  BY DEF EnsureApproved
<1>5. CASE ans = "approved"
  <2>1. Validated(p, verdict) /\ cur[p] \in granted'
    BY <1>5 DEF EnsureApproved
  <2>2. CASE verdict = "refused"
    BY <1>1, <1>2, <1>3, <1>4, <2>1, <2>2, FinishInv DEF Validated, Results
  <2>3. CASE verdict = "unbuildable"
    BY <1>1, <1>2, <1>3, <1>4, <2>1, <2>3, FinishInv DEF Validated, Results
  <2>4. CASE verdict = "ok" /\ p \in DryRun
    <3>1. Continue(p, "verify", "success")
      BY <2>1, <2>4 DEF Validated
    <3>2. QED
      BY <1>1, <1>2, <1>3, <1>4, <2>4, <3>1, ContinueInv
  <2>5. CASE verdict = "ok" /\ p \notin DryRun
    <3>1. Continue(p, "run", "none")
      BY <2>1, <2>5 DEF Validated
    <3>2. attempts[cur[p]] < MaxAttempts
      BY <1>1, ExecutorAssumption
    <3>3. QED
      BY <1>1, <1>2, <1>3, <1>4, <2>1, <2>5, <3>1, <3>2, ContinueInv
  <2>6. QED
    BY <2>2, <2>3, <2>4, <2>5 DEF Verdicts
<1>6. CASE ans = "denied"
  BY <1>1, <1>2, <1>3, <1>4, <1>6, FinishInv DEF EnsureApproved, Results
<1>7. CASE ans \in {"raised", "refused"}
  BY <1>1, <1>2, <1>3, <1>4, <1>7, FinishInv DEF EnsureApproved, Results
<1>8. QED
  BY <1>5, <1>6, <1>7 DEF Answers

LEMMA LaunchInv ==
    ASSUME Inv, NEW p \in Procs, Launch(p)
    PROVE  Inv'
<1> DEFINE r == cur[p]
<1>1. /\ r \in Reqs /\ future[r] = "waiting" /\ home[r] = p
      /\ r \in granted /\ p \notin DryRun
      /\ attempts[r] \in 0 .. MaxAttempts /\ attempts[r] < MaxAttempts
  BY Held DEF Launch, Inv, TypeOK, EachAwaitedOnce, ExecutedIsAwaited, Executing, StageInv
<1>2. /\ attempts'[r] = attempts[r] + 1
      /\ attempts'[r] > 0
      /\ \A x \in Reqs : x # r => attempts'[x] = attempts[x]
  BY <1>1 DEF Launch, Inv, TypeOK
<1>3. /\ pc'[p] = "running"
      /\ \A q \in Procs : q # p => pc'[q] = pc[q]
      /\ UNCHANGED <<queue, cur, active, partial, breaker, store, home, future, replied, granted>>
  BY DEF Launch, Inv, TypeOK
<1>4. \A q \in Procs : q # p => cur[q] # r
  BY <1>1, ExecutorAssumption DEF Inv, EachAwaitedOnce, ExecutedIsAwaited, Executing
<1>5. \A q \in Procs : \A i \in DOMAIN queue[q] : queue[q][i] # r
  BY <1>1, Held DEF Launch, Inv, EachAwaitedOnce, ExecutedIsAwaited, QueuedIsAwaited, Executing, Queued
<1>6. TypeOK'
  <2>1. attempts[r] + 1 \in 0 .. MaxAttempts
    BY <1>1, ExecutorAssumption
  <2>2. attempts' \in [Reqs -> 0 .. MaxAttempts]
    BY <2>1 DEF Launch, Inv, TypeOK
  <2>3. QED
    BY <2>2 DEF Launch, Inv, TypeOK, Stages
<1> HIDE DEF r
<1>7. WorkerInv'
  BY <1>3 DEF Launch, Inv, WorkerInv
<1>8. EachAwaitedOnce'
  BY <1>3 DEF Inv, EachAwaitedOnce, AwaitedIsHeld, ExecutedIsAwaited, QueuedIsAwaited, Executing, Queued
<1>9. StageInv'
  <2> SUFFICES ASSUME NEW q \in Procs, q # p, pc[q] \notin {"down", "idle"}
               PROVE  attempts'[cur[q]] = attempts[cur[q]]
    BY <1>1, <1>2, <1>3 DEF Inv, StageInv, r
  <2>1. QED
    BY Held, <1>2, <1>4
<1>10. RequestInv'
  <2>1. \A x \in Reqs : future[x] = "none" => attempts'[x] = 0
    BY <1>1, <1>2 DEF Inv, RequestInv
  <2>2. \A q \in Procs : \A i \in DOMAIN queue[q] : attempts'[queue[q][i]] = 0
    BY Held, <1>2, <1>5 DEF Inv, RequestInv
  <2>3. QED
    BY <1>3, <2>1, <2>2 DEF Inv, RequestInv
<1>11. StartsOnlyIfGranted'
  BY <1>1, <1>2, <1>3 DEF Inv, StartsOnlyIfGranted
<1>12. AnswerMatchesRuns'
  <2>1. \A x \in Reqs : future[x] \in Results => attempts'[x] = attempts[x]
    BY <1>1, <1>2 DEF Results
  <2>2. QED
    BY <1>3, <2>1 DEF Inv, AnswerMatchesRuns, Results
<1>13. QED
  BY <1>6, <1>7, <1>8, <1>9, <1>10, <1>11, <1>12 DEF Inv

LEMMA CompleteInv ==
    ASSUME Inv, NEW p \in Procs, NEW outcome \in {"zero", "nonzero", "raised"}, Complete(p, outcome)
    PROVE  Inv'
<1>1. /\ cur[p] # None /\ attempts[cur[p]] > 0
      /\ cur[p] \in granted /\ p \notin DryRun
  BY Held DEF Complete, Inv, StageInv
<1>2. UNCHANGED <<queue, breaker, store, home, replied, granted, attempts>>
  BY DEF Complete
<1>3. breaker' \in [Procs -> PB!Breaker]
  BY <1>2 DEF Inv, TypeOK
<1>4. CASE outcome \in {"zero", "nonzero"}
  <2>1. \E res \in {"success", "failed"} : Continue(p, "verify", res)
    BY <1>4 DEF Complete
  <2>2. QED
    BY <1>1, <1>2, <1>3, <2>1, ContinueInv
<1>5. CASE outcome = "raised" /\ attempts[cur[p]] < MaxAttempts
  <2>1. Continue(p, "run", "none")
    BY <1>5 DEF Complete
  <2>2. QED
    BY <1>1, <1>2, <1>3, <1>5, <2>1, ContinueInv
<1>6. CASE outcome = "raised" /\ ~ attempts[cur[p]] < MaxAttempts
  <2>1. Finish(p, "error")
    BY <1>6 DEF Complete
  <2>2. QED
    BY <1>1, <1>2, <1>3, <2>1, FinishInv DEF Results
<1>7. QED
  BY <1>4, <1>5, <1>6

LEMMA VerifyInv ==
    ASSUME Inv, NEW p \in Procs, NEW raised \in BOOLEAN, Verify(p, raised) \/ Notify(p, raised)
    PROVE  Inv'
<1>1. /\ cur[p] # None
      /\ p \in DryRun \/ attempts[cur[p]] > 0
      /\ partial[p] \in {"success", "failed"}
  BY Held DEF Verify, Notify, Inv, TypeOK, WorkerInv, StageInv
<1>2. UNCHANGED <<queue, breaker, store, home, replied, granted, attempts>>
  BY DEF Verify, Notify
<1>3. breaker' \in [Procs -> PB!Breaker]
  BY <1>2 DEF Inv, TypeOK
<1>4. \/ Continue(p, "notify", partial[p])
      \/ \E o \in {"error", "success", "failed"} : o \in {"error", partial[p]} /\ Finish(p, o)
  BY <1>1 DEF Verify, Notify
<1>5. CASE Continue(p, "notify", partial[p])
  BY <1>1, <1>2, <1>3, <1>5, ContinueInv
<1>6. ASSUME NEW o \in {"error", "success", "failed"}, Finish(p, o)
      PROVE  Inv'
  BY <1>1, <1>2, <1>3, <1>6, FinishInv DEF Results
<1>7. QED
  BY <1>4, <1>5, <1>6

\* A process that dies or stops leaves nobody waiting for it.
LEMMA DownInv ==
    ASSUME Inv, NEW p \in Procs, Crash(p) \/ Stop(p)
    PROVE  Inv'
<1>1. Clear(p)
  BY DEF Crash, Stop
<1>2. /\ queue'[p] = <<>> /\ cur'[p] = None /\ pc'[p] = "down" /\ active'[p] = 0 /\ partial'[p] = "none"
      /\ store'[p] = {}
      /\ \A q \in Procs : q # p => /\ queue'[q] = queue[q] /\ cur'[q] = cur[q] /\ pc'[q] = pc[q]
                                   /\ active'[q] = active[q] /\ partial'[q] = partial[q]
                                   /\ store'[q] = store[q]
      /\ UNCHANGED <<home, granted, attempts>>
  BY <1>1 DEF Clear, Inv, TypeOK
<1>3. /\ \A x \in Reqs : future'[x] \in {future[x], "lost"}
      /\ \A x \in Reqs : future[x] = "none" => future'[x] = "none" /\ (x \in replied' => x \in replied)
      /\ \A x \in Reqs : home[x] # p => future'[x] = future[x] /\ (x \in replied' <=> x \in replied)
      /\ \A x \in Reqs : x \in replied => future'[x] = future[x] /\ x \in replied'
      /\ \A x \in Reqs : future[x] = "waiting" /\ home[x] = p => future'[x] = "lost"
  <2>1. CASE Crash(p)
    BY <2>1 DEF Crash, Unanswered, Inv, RequestInv
  <2>2. CASE Stop(p)
    BY <2>2 DEF Stop, Unanswered, Inv, RequestInv
  <2>3. QED
    BY <2>1, <2>2
<1>4. TypeOK'
  <2>1. future' \in [Reqs -> Futures] /\ replied' \in SUBSET Reqs
    BY DEF Crash, Stop, Unanswered, Inv, TypeOK, Futures
  <2>2. PB!Fresh \in PB!Breaker
    BY ExecutorAssumption DEF PB!Fresh, PB!Breaker
  <2>3. queue' \in [Procs -> Seq(Reqs)]
    BY <1>1, EmptySeq DEF Clear, Inv, TypeOK
  <2>4. QED
    BY <1>1, <2>1, <2>2, <2>3 DEF Clear, Inv, TypeOK, Stages
<1>5. WorkerInv'
  BY <1>2 DEF Inv, WorkerInv
<1>6. AwaitedIsHeld'
  <2> SUFFICES ASSUME NEW x \in Reqs, future'[x] = "waiting"
               PROVE  home[x] \in Procs /\ (cur'[home[x]] = x \/ Queued(home[x], x)')
    BY <1>2 DEF AwaitedIsHeld
  <2>1. future[x] = "waiting" /\ home[x] # p
    BY <1>3
  <2>2. home[x] \in Procs /\ (cur[home[x]] = x \/ Queued(home[x], x))
    BY <2>1 DEF Inv, EachAwaitedOnce, AwaitedIsHeld
  <2>3. QED
    BY <1>2, <2>1, <2>2 DEF Queued
<1>7. ExecutedIsAwaited'
  <2> SUFFICES ASSUME NEW q \in Procs, q # p, cur[q] # None
               PROVE  future'[cur[q]] = "waiting" /\ home[cur[q]] = q /\ ~ Queued(q, cur[q])
    BY <1>2 DEF ExecutedIsAwaited, Executing, Queued
  <2>1. cur[q] \in Reqs /\ future[cur[q]] = "waiting" /\ home[cur[q]] = q /\ ~ Queued(q, cur[q])
    BY Held DEF Inv, EachAwaitedOnce, ExecutedIsAwaited, Executing
  <2>2. QED
    BY <1>3, <2>1
<1>8. \A q \in Procs : \A i \in DOMAIN queue'[q] :
          q # p /\ queue'[q] = queue[q] /\ i \in DOMAIN queue[q]
  BY <1>2
<1>9. QueuedIsAwaited'
  BY Held, <1>2, <1>3, <1>8 DEF Inv, EachAwaitedOnce, QueuedIsAwaited
<1>10. StageInv'
  BY <1>2 DEF Inv, StageInv
<1>11. RequestInv'
  <2>1. \A x \in Reqs : future'[x] = "none" => attempts[x] = 0
    BY <1>3 DEF Inv, RequestInv
  <2>2. \A x \in Reqs : future'[x] \in {"none", "waiting"} => x \notin replied'
    BY <1>3 DEF Inv, RequestInv
  <2>3. \A q \in Procs : \A i \in DOMAIN queue'[q] : attempts[queue'[q][i]] = 0
    BY <1>8 DEF Inv, RequestInv
  <2>4. QED
    BY <1>2, <2>1, <2>2, <2>3 DEF RequestInv
<1>12. StartsOnlyIfGranted'
  BY <1>2 DEF Inv, StartsOnlyIfGranted
<1>13. AnswerMatchesRuns'
  <2>1. \A x \in Reqs : future'[x] # "lost" => future'[x] = future[x]
    BY <1>3
  <2>2. \A x \in Reqs : /\ future'[x] = "rejected" => attempts[x] = 0
                        /\ future'[x] \in {"success", "failed"} => home[x] \in DryRun \/ attempts[x] > 0
    BY <2>1 DEF Inv, AnswerMatchesRuns
  <2>3. \A q \in Procs : \A x \in store'[q] : q # p /\ x \in store[q] /\ x \in Reqs
    BY <1>2 DEF Inv, TypeOK
  <2>4. \A q \in Procs : \A x \in store'[q] :
            home[x] = q /\ future'[x] \in Results /\ x \in replied'
    BY <1>3, <2>3 DEF Inv, AnswerMatchesRuns
  <2>5. QED
    BY <1>2, <2>2, <2>4 DEF AnswerMatchesRuns
<1>14. QED
  BY <1>4, <1>5, <1>6, <1>7, <1>9, <1>10, <1>11, <1>12, <1>13 DEF Inv, EachAwaitedOnce

LEMMA StartInv ==
    ASSUME Inv, NEW p \in Procs, Start(p)
    PROVE  Inv'
<1>1. /\ pc[p] = "down" /\ pc'[p] = "idle"
      /\ \A q \in Procs : q # p => pc'[q] = pc[q]
      /\ UNCHANGED <<queue, cur, active, partial, breaker, store, reqVars>>
  BY DEF Start, Inv, TypeOK
<1>2. TypeOK'
  BY DEF Start, reqVars, Inv, TypeOK, Stages
<1>3. WorkerInv' /\ StageInv'
  BY <1>1 DEF Inv, WorkerInv, StageInv, reqVars
<1>4. EachAwaitedOnce' /\ RequestInv' /\ StartsOnlyIfGranted' /\ AnswerMatchesRuns'
  BY <1>1 DEF Inv, EachAwaitedOnce, AwaitedIsHeld, ExecutedIsAwaited, QueuedIsAwaited, Executing, Queued,
      RequestInv, StartsOnlyIfGranted, AnswerMatchesRuns, reqVars
<1>5. QED
  BY <1>2, <1>3, <1>4 DEF Inv

-----------------------------------------------------------------------------
\* What no step but a submission, or no step at all, does to a request.

LEMMA WorkTouches ==
    ASSUME Inv, NEW p \in Procs, Work(p)
    PROVE  /\ replied' = replied
           /\ cur[p] = None => future' = future /\ granted' = granted
           /\ cur[p] # None => /\ \A x \in Reqs : x # cur[p] => future'[x] = future[x]
                              /\ granted' \in {granted, granted \cup {cur[p]}}
<1> DEFINE Touched ==
      /\ cur[p] = None => future' = future
      /\ \A x \in Reqs : x # cur[p] => future'[x] = future[x]
<1>1. ASSUME NEW o, Finish(p, o), cur[p] # None PROVE Touched
  BY <1>1 DEF Finish, Inv, TypeOK
<1>2. ASSUME NEW stage, NEW res, Continue(p, stage, res) PROVE Touched
  BY <1>2 DEF Continue
<1>3. CASE Dequeue(p)
  BY <1>3 DEF Dequeue, reqVars, Inv, WorkerInv
<1>4. ASSUME NEW ans \in Answers, NEW verdict \in Verdicts, EnsureApproved(p, ans, verdict)
      PROVE  Touched /\ replied' = replied /\ granted' \in {granted, granted \cup {cur[p]}} /\ cur[p] # None
  <2>1. cur[p] # None
    BY <1>4, Held DEF EnsureApproved
  <2>2. CASE ans = "approved"
    BY <1>4, <2>1, <2>2, <1>1, <1>2 DEF EnsureApproved, Validated, Verdicts
  <2>3. CASE ans # "approved"
    BY <1>4, <2>1, <2>3, <1>1 DEF EnsureApproved, Answers
  <2>4. QED
    BY <2>1, <2>2, <2>3
<1>5. CASE Launch(p)
  BY <1>5, Held DEF Launch
<1>6. ASSUME NEW outcome \in {"zero", "nonzero", "raised"}, Complete(p, outcome)
      PROVE  Touched /\ replied' = replied /\ granted' = granted /\ cur[p] # None
  <2>1. cur[p] # None
    BY <1>6, Held DEF Complete
  <2>2. Touched
    BY <1>6, <2>1, <1>1, <1>2 DEF Complete
  <2>3. QED
    BY <1>6, <2>1, <2>2 DEF Complete
<1>7. ASSUME NEW raised \in BOOLEAN, Verify(p, raised) \/ Notify(p, raised)
      PROVE  Touched /\ replied' = replied /\ granted' = granted /\ cur[p] # None
  <2>1. cur[p] # None
    BY <1>7, Held DEF Verify, Notify
  <2>2. Touched
    BY <1>7, <2>1, <1>1, <1>2 DEF Verify, Notify
  <2>3. QED
    BY <1>7, <2>1, <2>2 DEF Verify, Notify
<1>8. QED
  BY <1>3, <1>4, <1>5, <1>6, <1>7 DEF Work

\* A step of the executor makes no unknown request known, grants only known
\* requests, and changes nothing of an answered one.
LEMMA StepTouches ==
    ASSUME Inv,
           \/ \E r \in Reqs : Respond(r)
           \/ \E p \in Procs : Work(p) \/ Crash(p) \/ Stop(p) \/ Start(p)
    PROVE  /\ \A x \in Reqs : future'[x] # "none" => future[x] # "none"
           /\ \A x \in granted' \ granted : x \in Reqs /\ future[x] # "none"
           /\ \A x \in Reqs : x \in replied => x \in replied' /\ future'[x] = future[x]
<1>1. ASSUME NEW r \in Reqs, Respond(r)
      PROVE  /\ future' = future /\ granted' = granted /\ replied \subseteq replied'
  BY <1>1 DEF Respond
<1>2. ASSUME NEW p \in Procs, Work(p)
      PROVE  /\ \A x \in Reqs : future'[x] # "none" => future[x] # "none"
             /\ \A x \in granted' \ granted : x \in Reqs /\ future[x] # "none"
             /\ \A x \in Reqs : x \in replied => x \in replied' /\ future'[x] = future[x]
  <2>1. cur[p] # None => cur[p] \in Reqs /\ future[cur[p]] = "waiting" /\ cur[p] \notin replied
    BY Held DEF Inv, EachAwaitedOnce, ExecutedIsAwaited, Executing, RequestInv
  <2>2. QED
    BY <1>2, <2>1, WorkTouches
<1>3. ASSUME NEW p \in Procs, Crash(p) \/ Stop(p)
      PROVE  /\ \A x \in Reqs : future'[x] # "none" => future[x] # "none"
             /\ granted' = granted
             /\ \A x \in Reqs : x \in replied => x \in replied' /\ future'[x] = future[x]
  BY <1>3 DEF Crash, Stop, Clear, Unanswered
<1>4. ASSUME NEW p \in Procs, Start(p)
      PROVE  future' = future /\ granted' = granted /\ replied' = replied
  BY <1>4 DEF Start, reqVars
<1>5. QED
  BY <1>1, <1>2, <1>3, <1>4

-----------------------------------------------------------------------------
\* The theorems.

LEMMA InitInv == Init => Inv
<1> SUFFICES ASSUME Init PROVE Inv
  OBVIOUS
<1>1. TypeOK
  <2>1. PB!Fresh \in PB!Breaker
    BY ExecutorAssumption DEF PB!Fresh, PB!Breaker
  <2>2. <<>> \in Seq(Reqs)
    BY EmptySeq
  <2>3. QED
    BY <2>1, <2>2, ExecutorAssumption DEF Init, TypeOK, Stages, Futures
<1>2. WorkerInv /\ StageInv /\ StartsOnlyIfGranted /\ AnswerMatchesRuns
  BY DEF Init, WorkerInv, StageInv, StartsOnlyIfGranted, AnswerMatchesRuns
<1>3. \A p \in Procs : DOMAIN queue[p] = {}
  <2>1. <<>> \in Seq(Reqs) /\ Len(<<>>) = 0
    BY EmptySeq
  <2>2. DOMAIN <<>> = 1 .. Len(<<>>)
    BY <2>1, LenProperties
  <2>3. 1 .. 0 = {}
    OBVIOUS
  <2>4. DOMAIN <<>> = {}
    BY <2>1, <2>2, <2>3
  <2>5. \A p \in Procs : queue[p] = <<>>
    BY DEF Init
  <2>6. QED
    BY <2>4, <2>5, Zenon
<1>4. EachAwaitedOnce /\ RequestInv
  BY <1>3 DEF Init, EachAwaitedOnce, AwaitedIsHeld, ExecutedIsAwaited, QueuedIsAwaited, Executing, RequestInv
<1>5. QED
  BY <1>1, <1>2, <1>4 DEF Inv

LEMMA NextInv == Inv /\ [Next]_vars => Inv'
<1> SUFFICES ASSUME Inv, [Next]_vars PROVE Inv'
  OBVIOUS
<1>1. ASSUME NEW p \in Procs, NEW r \in Reqs, Submit(p, r) PROVE Inv'
  BY <1>1, SubmitInv
<1>2. ASSUME NEW r \in Reqs, Respond(r) PROVE Inv'
  BY <1>2, RespondInv
<1>3. ASSUME NEW p \in Procs, Work(p) PROVE Inv'
  BY <1>3, DequeueInv, EnsureApprovedInv, LaunchInv, CompleteInv, VerifyInv DEF Work
<1>4. ASSUME NEW p \in Procs, Crash(p) \/ Stop(p) \/ Start(p) PROVE Inv'
  BY <1>4, DownInv, StartInv
<1>5. CASE UNCHANGED vars
  <2>1. TypeOK' /\ WorkerInv'
    BY <1>5 DEF vars, procVars, reqVars, Inv, TypeOK, WorkerInv
  <2>2. StageInv' /\ RequestInv'
    BY <1>5 DEF vars, procVars, reqVars, Inv, StageInv, RequestInv
  <2>3. EachAwaitedOnce'
    BY <1>5 DEF vars, procVars, reqVars, Inv, EachAwaitedOnce, AwaitedIsHeld, ExecutedIsAwaited,
        QueuedIsAwaited, Executing, Queued
  <2>4. StartsOnlyIfGranted' /\ AnswerMatchesRuns'
    BY <1>5 DEF vars, procVars, reqVars, Inv, StartsOnlyIfGranted, AnswerMatchesRuns
  <2>5. QED
    BY <2>1, <2>2, <2>3, <2>4 DEF Inv
<1>6. QED
  BY <1>1, <1>2, <1>3, <1>4, <1>5 DEF Next

LEMMA Invariant == Spec => []Inv
BY InitInv, NextInv, PTL DEF Spec

\* Every variable of the executor keeps its type; the retries of a command
\* never exceed MaxAttempts, and the counter of active executions never
\* leaves {0, 1}.
THEOREM ExecutorTypes == Spec => []TypeOK
BY Invariant, PTL DEF Inv

\* No request of POST /execute is lost, hangs without a holder, or is held
\* twice, through any interleaving of submissions, exceptions and restarts.
THEOREM RequestsAreAwaitedOnce == Spec => []EachAwaitedOnce
BY Invariant, PTL DEF Inv

\* Nothing is started without a lookup that said approved, or in a dry run.
THEOREM NothingStartsUngranted == Spec => []StartsOnlyIfGranted
BY Invariant, PTL DEF Inv

\* What callers are told agrees with what was run.
THEOREM AnswersMatchRuns == Spec => []AnswerMatchesRuns
BY Invariant, PTL DEF Inv

-----------------------------------------------------------------------------
\* Each part behaves as its own module says.

LEMMA ApprovalStepOrStutter ==
    ASSUME RemediationNext \/ UNCHANGED remediationVars
    PROVE  [AP!Next]_AP!vars
<1>1. CASE ApprovalStep
  BY <1>1 DEF ApprovalStep, A!Next, AP!Next, A!Tick, AP!Tick, A!Serve, AP!Serve, A!RequestApproval,
      AP!RequestApproval, A!Approve, AP!Approve, A!Reject, AP!Reject, A!CommitInsert, AP!CommitInsert,
      A!CommitDecision, AP!CommitDecision, A!Fail, AP!Fail, A!Idle, AP!Idle, A!Fresh, AP!Fresh, A!Inserted,
      AP!Inserted, A!Updated, AP!Updated, A!Decided, AP!Decided, A!Unset, AP!Unset
<1>2. CASE ExecutorStep \/ UNCHANGED remediationVars
  BY <1>2 DEF ExecutorStep, remediationVars, approvalVars, AP!vars
<1>3. CASE BackendStep
  BY <1>3 DEF BackendStep, Execute, ExecuteDirectly, CheckStatus, Post, Receive, GiveUp, approvalVars,
      AP!vars
<1>4. QED
  BY <1>1, <1>2, <1>3 DEF RemediationNext

\* Inside the composition the approval engine behaves as its module specifies.
THEOREM EngineBehaves == RemediationSpec => AP!Spec
<1>1. RemediationInit => AP!Init
  BY DEF RemediationInit, A!Init, AP!Init, A!Idle, AP!Idle, A!NoRow, AP!NoRow, A!Unset, AP!Unset
<1>2. QED
  BY <1>1, ApprovalStepOrStutter, PTL DEF RemediationSpec, AP!Spec

LEMMA ExecutorStepOrStutter ==
    ASSUME RemediationNext \/ UNCHANGED remediationVars
    PROVE  [Next]_vars
<1>1. CASE ExecutorStep
  BY <1>1 DEF ExecutorStep, Next
<1>2. CASE ApprovalStep \/ UNCHANGED remediationVars
  BY <1>2 DEF ApprovalStep, remediationVars, vars, procVars, reqVars
<1>3. CASE BackendStep
  <2>1. ASSUME NEW r \in Reqs, NEW e \in Procs, Post(r, e)
        PROVE  Next
    BY <2>1 DEF Post, Next
  <2>2. ASSUME NEW r \in Reqs, NEW p \in Plans, NEW a \in Ids, NEW e \in Procs, ExecuteDirectly(r, p, a, e)
        PROVE  Next
    BY <2>2 DEF ExecuteDirectly, Next
  <2>3. CASE /\ \A r \in Reqs, e \in Procs : ~ Post(r, e)
             /\ \A r \in Reqs, p \in Plans, a \in Ids, e \in Procs : ~ ExecuteDirectly(r, p, a, e)
    BY <1>3, <2>3 DEF BackendStep, Execute, CheckStatus, Receive, GiveUp, vars, procVars, reqVars
  <2>4. QED
    BY <2>1, <2>2, <2>3
<1>4. QED
  BY <1>1, <1>2, <1>3 DEF RemediationNext

\* Inside the composition the executor behaves as its module specifies.
THEOREM ExecutorBehaves == RemediationSpec => Spec
<1>1. RemediationInit => Init
  BY DEF RemediationInit
<1>2. QED
  BY <1>1, ExecutorStepOrStutter, PTL DEF RemediationSpec, Spec

LEMMA PartInvariants == RemediationSpec => [](Inv /\ AP!TypeOK)
<1>1. Spec => []Inv
  BY Invariant
<1>2. AP!Spec => []AP!TypeOK
  BY ApprovalAssumed, AP!TypeCorrect
<1>3. QED
  BY <1>1, <1>2, EngineBehaves, ExecutorBehaves, PTL

-----------------------------------------------------------------------------
\* The backend's own variables.

BackendType ==
    /\ call \in [Reqs -> CallStates]
    /\ args \in [Reqs -> [plan: Plans, approval: Ids] \cup {NoArgs}]
    /\ log \in SUBSET Reqs
    /\ audit \in SUBSET Reqs

\* A call that was made has its arguments, and only such a call is known to
\* the executor.
CallInv ==
    \A r \in Reqs :
        /\ call[r] # "idle" => args[r].approval \in Ids
        /\ future[r] # "none" => call[r] # "idle"
        /\ r \in granted => call[r] # "idle"

GateInv == BackendType /\ CallInv

\* What one step of the backend does to the call it belongs to.
LEMMA CallMoves ==
    ASSUME BackendType, BackendStep
    PROVE  /\ BackendType'
           /\ \A x \in Reqs : call[x] # "idle" => args'[x] = args[x] /\ call'[x] # "idle"
           /\ \A x \in Reqs : call[x] = "idle" /\ call'[x] # "idle" => args'[x].approval \in Ids
<1> USE DEF BackendType, CallStates
<1>1. ASSUME NEW r \in Reqs, NEW p \in Plans, NEW a \in Ids, Execute(r, p, a)
      PROVE  /\ BackendType'
             /\ \A x \in Reqs : x # r => args'[x] = args[x] /\ call'[x] = call[x]
             /\ call[r] = "idle" /\ args'[r].approval = a
  <2>1. [plan |-> p, approval |-> a] \in [plan: Plans, approval: Ids]
    OBVIOUS
  <2>2. QED
    BY <1>1, <2>1 DEF Execute
<1>2. ASSUME NEW r \in Reqs, CheckStatus(r) \/ GiveUp(r) \/ (\E e \in Procs : Post(r, e))
      PROVE  /\ BackendType'
             /\ \A x \in Reqs : x # r => call'[x] = call[x]
             /\ args' = args /\ call[r] # "idle" /\ call'[r] # "idle"
  BY <1>2 DEF CheckStatus, GiveUp, Post
<1>3. ASSUME NEW r \in Reqs, NEW logged \in BOOLEAN, NEW audited \in BOOLEAN, Receive(r, logged, audited)
      PROVE  /\ BackendType'
             /\ \A x \in Reqs : x # r => call'[x] = call[x]
             /\ args' = args /\ call[r] # "idle" /\ call'[r] # "idle"
  BY <1>3 DEF Receive
<1>4. ASSUME NEW r \in Reqs, NEW p \in Plans, NEW a \in Ids, NEW e \in Procs, ExecuteDirectly(r, p, a, e)
      PROVE  /\ BackendType'
             /\ \A x \in Reqs : x # r => args'[x] = args[x] /\ call'[x] = call[x]
             /\ call[r] = "idle" /\ args'[r].approval = a
  <2>1. [plan |-> p, approval |-> a] \in [plan: Plans, approval: Ids]
    OBVIOUS
  <2>2. QED
    BY <1>4, <2>1 DEF ExecuteDirectly
<1>5. QED
  BY <1>1, <1>2, <1>3, <1>4 DEF BackendStep

LEMMA GateStep ==
    ASSUME GateInv, Inv, RemediationNext \/ UNCHANGED remediationVars
    PROVE  GateInv'
<1> USE DEF GateInv, CallInv
<1>1. CASE ApprovalStep \/ UNCHANGED remediationVars
  BY <1>1 DEF ApprovalStep, remediationVars, vars, reqVars, procVars, backendVars, BackendType
<1>2. CASE ExecutorStep
  <2>1. UNCHANGED backendVars
    BY <1>2 DEF ExecutorStep
  <2>2. /\ \A x \in Reqs : future'[x] # "none" => future[x] # "none"
        /\ \A x \in granted' \ granted : x \in Reqs /\ future[x] # "none"
    BY <1>2, StepTouches DEF ExecutorStep
  <2>3. QED
    BY <2>1, <2>2 DEF backendVars, BackendType
<1>3. CASE BackendStep
  <2>1. granted' = granted
    BY <1>3 DEF BackendStep, Execute, ExecuteDirectly, CheckStatus, Post, Submit, Receive, GiveUp, vars,
        reqVars, procVars
  <2>2. \A x \in Reqs : future'[x] # "none" => call'[x] # "idle"
    <3>1. ASSUME NEW r \in Reqs, NEW e \in Procs, Post(r, e)
          PROVE  \A x \in Reqs : future'[x] = future[x] \/ call'[x] = "posted"
      BY <3>1 DEF Post, Submit, BackendType
    <3>2. ASSUME NEW r \in Reqs, NEW p \in Plans, NEW a \in Ids, NEW e \in Procs,
                 ExecuteDirectly(r, p, a, e)
          PROVE  \A x \in Reqs : future'[x] = future[x] \/ call'[x] = "direct"
      BY <3>2 DEF ExecuteDirectly, Submit, BackendType
    <3>3. ASSUME \A r \in Reqs, e \in Procs : ~ Post(r, e),
                 \A r \in Reqs, p \in Plans, a \in Ids, e \in Procs : ~ ExecuteDirectly(r, p, a, e)
          PROVE  future' = future
      BY <1>3, <3>3 DEF BackendStep, Execute, CheckStatus, Receive, GiveUp, vars, reqVars, procVars
    <3>4. \A x \in Reqs : future'[x] = future[x] \/ call'[x] \in {"posted", "direct"}
      BY <3>1, <3>2, <3>3
    <3>5. QED
      BY <1>3, <3>4, CallMoves
  <2>3. QED
    BY <1>3, <2>1, <2>2, CallMoves
<1>4. QED
  BY <1>1, <1>2, <1>3 DEF RemediationNext

LEMMA GateInvariant == RemediationSpec => []GateInv
<1>1. RemediationInit => GateInv
  BY DEF RemediationInit, Init, GateInv, BackendType, CallInv, CallStates
<1>2. QED
  BY <1>1, GateStep, PartInvariants, PTL DEF RemediationSpec

-----------------------------------------------------------------------------
\* Approved by then.

\* What the executor was allowed to run had been approved.
GrantInv == \A r \in granted : <<args[r].approval, "approved">> \in decided

LEMMA GrantStep ==
    ASSUME AP!AnswersInv, Inv, GateInv, GrantInv, RemediationNext \/ UNCHANGED remediationVars
    PROVE  GrantInv'
<1>1. \A r \in granted : r \in Reqs /\ call[r] # "idle" /\ args[r].approval \in Ids
  BY DEF Inv, TypeOK, GateInv, CallInv
<1>2. CASE ApprovalStep \/ UNCHANGED remediationVars
  <2>1. granted' = granted /\ args' = args
    BY <1>2 DEF ApprovalStep, vars, reqVars, procVars, backendVars, remediationVars
  <2>2. decided \subseteq decided'
    BY <1>2 DEF ApprovalStep, A!Next, A!Tick, A!Serve, A!RequestApproval, A!Approve, A!Reject,
        A!CommitInsert, A!CommitDecision, A!Fail, remediationVars, approvalVars
  <2>3. QED
    BY <1>1, <2>1, <2>2 DEF GrantInv
<1>3. CASE ExecutorStep
  <2>1. \A r \in granted' \ granted : r \in Reqs /\ future[r] # "none"
    BY <1>3, StepTouches DEF ExecutorStep
  <2>2. \A r \in granted' \ granted : args[r].approval \in Ids
    BY <2>1 DEF GateInv, CallInv
  <2>3. \A a \in Ids : rows[a].status = "approved" => <<a, "approved">> \in decided
    BY DEF AP!AnswersInv, AP!RowTellsAnswers, AP!Decided
  <2>4. \A r \in granted' \ granted : <<args[r].approval, "approved">> \in decided
    BY <1>3, <2>2, <2>3 DEF ExecutorStep, LookupIsHonest
  <2>5. QED
    BY <1>3, <2>4 DEF ExecutorStep, approvalVars, backendVars, GrantInv
<1>4. CASE BackendStep
  <2>1. granted' = granted /\ decided' = decided
    BY <1>4 DEF BackendStep, Execute, ExecuteDirectly, CheckStatus, Post, Submit, Receive, GiveUp, vars,
        reqVars, procVars, approvalVars
  <2>2. \A r \in granted : args'[r] = args[r]
    BY <1>1, <1>4, CallMoves DEF GateInv
  <2>3. QED
    BY <2>1, <2>2 DEF GrantInv
<1>5. QED
  BY <1>2, <1>3, <1>4 DEF RemediationNext

(* However many approval processes, calls, executor processes, crashes and   *)
(* retries there are, and by whichever door the call came: a command that    *)
(* was started belongs to an approval that was given before.                 *)
THEOREM OnlyApprovedRuns == RemediationSpec => []RunsOnlyApproved
<1>1. AP!Spec => []AP!AnswersInv
  BY ApprovalAssumed, AP!AnswersInvariant
<1>2. RemediationInit => GrantInv
  BY DEF RemediationInit, Init, GrantInv
<1>3. AP!AnswersInv /\ Inv /\ GateInv /\ GrantInv /\ [RemediationNext]_remediationVars => GrantInv'
  BY GrantStep
<1>4. Inv /\ GrantInv => RunsOnlyApproved
  BY DEF Inv, StartsOnlyIfGranted, GrantInv, RunsOnlyApproved
<1>5. QED
  BY <1>1, <1>2, <1>3, <1>4, EngineBehaves, PartInvariants, GateInvariant, PTL DEF RemediationSpec

-----------------------------------------------------------------------------
\* The records.

LEMMA RecordStep ==
    ASSUME Inv, Inv', GateInv, RecordsAreAnswers, RemediationNext \/ UNCHANGED remediationVars
    PROVE  RecordsAreAnswers'
<1> DEFINE Recorded(r) == call[r] = "done" /\ r \in replied /\ future[r] \in Results
<1>1. log \in SUBSET Reqs /\ audit \in SUBSET Reqs
  BY DEF GateInv, BackendType
<1>2. \A r \in log \cup audit : Recorded(r)
  BY DEF RecordsAreAnswers
<1>3. \A r \in (log \cup audit)' : Recorded(r)'
  <2>1. CASE ApprovalStep \/ UNCHANGED remediationVars
    BY <1>2, <2>1 DEF ApprovalStep, vars, reqVars, procVars, backendVars, remediationVars
  <2>2. CASE ExecutorStep
    <3>1. \A x \in Reqs : x \in replied => x \in replied' /\ future'[x] = future[x]
      BY <2>2, StepTouches DEF ExecutorStep
    <3>2. UNCHANGED backendVars
      BY <2>2 DEF ExecutorStep
    <3>3. QED
      BY <1>1, <1>2, <3>1, <3>2 DEF backendVars
  <2>3. ASSUME NEW r \in Reqs, NEW e \in Procs, Post(r, e)
        PROVE  \A x \in (log \cup audit)' : Recorded(x)'
    <3>1. future[r] = "none" /\ call[r] = "baseline"
      BY <2>3 DEF Post, Submit
    <3>2. \A x \in log \cup audit : x # r
      BY <1>2, <3>1
    <3>3. \A x \in Reqs : x # r => future'[x] = future[x] /\ call'[x] = call[x]
      BY <2>3 DEF Post, Submit, GateInv, BackendType
    <3>4. UNCHANGED <<log, audit, replied>>
      BY <2>3 DEF Post, Submit
    <3>5. QED
      BY <1>1, <1>2, <3>2, <3>3, <3>4
  <2>4. ASSUME NEW r \in Reqs, NEW logged \in BOOLEAN, NEW audited \in BOOLEAN, Receive(r, logged, audited)
        PROVE  \A x \in (log \cup audit)' : Recorded(x)'
    <3>1. \A x \in log \cup audit : x # r
      BY <1>2, <2>4 DEF Receive
    <3>2. UNCHANGED <<replied, future>>
      BY <2>4 DEF Receive, vars, reqVars, procVars
    <3>3. \A x \in Reqs : x # r => call'[x] = call[x]
      BY <2>4 DEF Receive, GateInv, BackendType
    <3>4. CASE future[r] \in Results
      <4>1. call'[r] = "done" /\ r \in replied
        BY <2>4, <3>4 DEF Receive, GateInv, BackendType
      <4>2. (log \cup audit)' \subseteq log \cup audit \cup {r}
        BY <2>4, <3>4 DEF Receive
      <4>3. QED
        BY <1>1, <1>2, <3>1, <3>2, <3>3, <3>4, <4>1, <4>2
    <3>5. CASE future[r] \notin Results
      <4>1. UNCHANGED <<log, audit>>
        BY <2>4, <3>5 DEF Receive
      <4>2. QED
        BY <1>1, <1>2, <3>1, <3>2, <3>3, <4>1
    <3>6. QED
      BY <3>4, <3>5
  <2>5. ASSUME NEW r \in Reqs,
               CheckStatus(r) \/ GiveUp(r) \/ \E p \in Plans, a \in Ids : Execute(r, p, a)
        PROVE  \A x \in (log \cup audit)' : Recorded(x)'
    <3>1. call[r] # "done"
      BY <2>5 DEF CheckStatus, GiveUp, Execute
    <3>2. \A x \in Reqs : x # r => call'[x] = call[x]
      BY <2>5 DEF CheckStatus, GiveUp, Execute, GateInv, BackendType
    <3>3. UNCHANGED <<log, audit, replied, future>>
      BY <2>5 DEF CheckStatus, GiveUp, Execute, vars, reqVars, procVars
    <3>4. QED
      BY <1>1, <1>2, <3>1, <3>2, <3>3
  <2>6. ASSUME NEW r \in Reqs, NEW p \in Plans, NEW a \in Ids, NEW e \in Procs, ExecuteDirectly(r, p, a, e)
        PROVE  \A x \in (log \cup audit)' : Recorded(x)'
    <3>1. future[r] = "none" /\ call[r] = "idle"
      BY <2>6 DEF ExecuteDirectly, Submit
    <3>2. \A x \in log \cup audit : x # r
      BY <1>2, <3>1
    <3>3. \A x \in Reqs : x # r => future'[x] = future[x] /\ call'[x] = call[x]
      BY <2>6 DEF ExecuteDirectly, Submit, GateInv, BackendType
    <3>4. UNCHANGED <<log, audit, replied>>
      BY <2>6 DEF ExecuteDirectly, Submit
    <3>5. QED
      BY <1>1, <1>2, <3>2, <3>3, <3>4
  <2>7. QED
    BY <2>1, <2>2, <2>3, <2>4, <2>5, <2>6 DEF RemediationNext, BackendStep
<1>4. (log \cup audit)' \subseteq Reqs
  <2>1. GateInv'
    BY GateStep
  <2>2. QED
    BY <2>1 DEF GateInv, BackendType
<1>5. \A r \in Reqs : future'[r] \in Results /\ future'[r] # "rejected"
                      => home'[r] \in DryRun \/ attempts'[r] > 0
  BY DEF Inv, AnswerMatchesRuns, Results
<1>6. QED
  BY <1>3, <1>4, <1>5 DEF RecordsAreAnswers

(* The execution log and the audit trail hold only calls that the executor   *)
(* answered with a result, and a recorded run is one that happened.          *)
THEOREM RecordsTellTheTruth == RemediationSpec => []RecordsAreAnswers
<1>1. RemediationInit => RecordsAreAnswers
  BY DEF RemediationInit, RecordsAreAnswers
<1>2. Inv /\ Inv' /\ GateInv /\ RecordsAreAnswers /\ [RemediationNext]_remediationVars => RecordsAreAnswers'
  BY RecordStep
<1>3. QED
  BY <1>1, <1>2, PartInvariants, GateInvariant, PTL DEF RemediationSpec

(* Types of the composition.                                                 *)
THEOREM TypeCorrect == RemediationSpec => []RemediationTypeOK
<1>1. Inv => TypeOK
  BY DEF Inv, TypeOK, Stages, Futures, Results, PB!Breaker
<1>2. AP!TypeOK => A!TypeOK
  BY DEF AP!TypeOK, A!TypeOK, AP!Row, A!Row, AP!Task, A!Task, AP!Decided, A!Decided, AP!Insertion,
      A!Insertion, AP!Decision, A!Decision, AP!Idle, A!Idle
<1>3. A!TypeOK /\ TypeOK /\ GateInv => RemediationTypeOK
  BY DEF GateInv, BackendType, RemediationTypeOK
<1>4. QED
  BY <1>1, <1>2, <1>3, PartInvariants, GateInvariant, PTL

-----------------------------------------------------------------------------
\* What the approval engine promises by itself, under the calls that execute.

(* The composed system implements the life of an approval as its clients see *)
(* it, however many processes decide and whatever is executed meanwhile.     *)
THEOREM ExecutionImplementsLifecycle == RemediationSpec => LifecycleSpec
<1>1. AP!Spec => AP!LifecycleSpec
  BY ApprovalAssumed, AP!EngineImplementsLifecycle
<1>2. AP!Lifecycle!Init => A!Lifecycle!Init
  BY DEF AP!Lifecycle!Init, A!Lifecycle!Init, AP!StatusOf, A!StatusOf, AP!StampsOf, A!StampsOf,
      AP!DecidingOf, A!DecidingOf, AP!Decided, A!Decided, AP!Unset, A!Unset
<1>3. AP!StatusOf = A!StatusOf /\ AP!StampsOf = A!StampsOf /\ AP!DecidingOf = A!DecidingOf
  BY DEF AP!StatusOf, A!StatusOf, AP!StampsOf, A!StampsOf, AP!DecidingOf, A!DecidingOf,
      AP!Decided, A!Decided, AP!Unset, A!Unset
<1>4. (AP!StatusOf = A!StatusOf /\ AP!StampsOf = A!StampsOf /\ AP!DecidingOf = A!DecidingOf)'
  BY DEF AP!StatusOf, A!StatusOf, AP!StampsOf, A!StampsOf, AP!DecidingOf, A!DecidingOf,
      AP!Decided, A!Decided, AP!Unset, A!Unset
<1>5. [AP!Lifecycle!Next]_AP!Lifecycle!lifecycleVars => [A!Lifecycle!Next]_A!Lifecycle!lifecycleVars
  BY <1>3, <1>4 DEF AP!Lifecycle!Next, A!Lifecycle!Next, AP!Lifecycle!Request, A!Lifecycle!Request,
      AP!Lifecycle!Admit, A!Lifecycle!Admit, AP!Lifecycle!Settle, A!Lifecycle!Settle,
      AP!Lifecycle!Withdraw, A!Lifecycle!Withdraw, AP!Lifecycle!Stamp, A!Lifecycle!Stamp,
      AP!Lifecycle!Verdicts, A!Lifecycle!Verdicts, AP!Lifecycle!lifecycleVars,
      A!Lifecycle!lifecycleVars
<1>6. QED
  BY <1>1, <1>2, <1>5, EngineBehaves, PTL
    DEF LifecycleSpec, A!LifecycleSpec, AP!LifecycleSpec, A!Lifecycle!Spec, AP!Lifecycle!Spec

=============================================================================
