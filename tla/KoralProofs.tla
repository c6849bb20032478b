----------------------------- MODULE KoralProofs ----------------------------
(***************************************************************************)
(* Proofs about the library koral: its detectors, for any number of        *)
(* threads, series, trees and calls, and the store beside them.            *)
(***************************************************************************)
EXTENDS Streaming, SeriesStore, FiniteSetTheorems, WellFoundedInduction, TLAPS

-----------------------------------------------------------------------------
(***************************************************************************)
(* Detectors and calls.                                                    *)
(***************************************************************************)

DetectorType ==
    [series: Watched, buffer: Nat, odd: Nat, index: Nat, leaves: [Trees -> SUBSET Nat],
     spoilt: SUBSET Trees]

Asking == {"looking", "creating", "returning"}

Inside == {"detecting", "loading", "storing", "measuring", "choosing", "forgetting", "inserting"}

\* A value, and then a shingle, as a call has it at hand.
GivenValues == {"finite", "odd"}
Shingles == {"finite", "odd", "same"}

\* What detect_many may have answered.
Results == {Verdicts(batch, Clean(batch, decomposed)) : batch \in Batches, decomposed \in BOOLEAN}

\* What a thread may be doing when n detectors have been created.
CallType(n) ==
    {NotCalled}
    \cup [at: Asking, series: Watched, value: GivenValues]
    \cup [at: Inside, detector: 1..n, point: Shingles,
          loaded: Nat, tree: Trees, oldest: Nat]
    \cup [at: {"raised"}, detector: 1..n \cup {NoDetector}]
    \cup [at: {"answered"}, detector: 1..n]
    \cup [at: {"answered"}, detector: 1..n, batch: Batches, results: Results]

StreamTypes ==
    /\ made \in Seq(DetectorType)
    /\ \A d \in 1..Len(made), k \in Trees : IsFiniteSet(made[d].leaves[k])
    /\ cache \in [Watched -> 1..Len(made) \cup {NoDetector}]
    /\ call \in [Threads -> CallType(Len(made))]

\* What a thread has at hand in each of its places.
LEMMA CallFields ==
    ASSUME StreamTypes, NEW h \in Threads
    PROVE  LET c == call[h] IN
           /\ c.at \in Over \cup Asking \cup Inside
           /\ c.at \in Asking => c \in [at: Asking, series: Watched, value: GivenValues]
           /\ c.at \in Inside =>
                 c \in [at: Inside, detector: 1..Len(made), point: Shingles,
                        loaded: Nat, tree: Trees, oldest: Nat]
           /\ c.at = "answered" => c.detector \in 1..Len(made)
           /\ c.at = "raised" => c.detector \in 1..Len(made) \cup {NoDetector}
BY DEF StreamTypes, CallType, NotCalled, Over, Asking, Inside

\* With more detectors, a thread may still be doing what it did.
LEMMA CallTypeGrows ==
    ASSUME NEW n \in Nat, NEW m \in Nat, n <= m
    PROVE  CallType(n) \subseteq CallType(m)
<1>1. 1..n \subseteq 1..m
  OBVIOUS
<1>2. QED
  BY <1>1 DEF CallType

\* What one more detector, or a change of one, makes of the sequence.
LEMMA DetectorAdded ==
    ASSUME NEW s \in Seq(DetectorType), NEW x \in DetectorType
    PROVE  /\ Append(s, x) \in Seq(DetectorType)
           /\ Len(Append(s, x)) = Len(s) + 1
           /\ \A d \in 1..Len(s) : Append(s, x)[d] = s[d]
           /\ Append(s, x)[Len(s) + 1] = x
OBVIOUS

LEMMA DetectorChanged ==
    ASSUME NEW s \in Seq(DetectorType), NEW d \in 1..Len(s), NEW x \in DetectorType
    PROVE  LET t == [s EXCEPT ![d] = x] IN
           /\ t \in Seq(DetectorType)
           /\ Len(t) = Len(s)
           /\ t[d] = x
           /\ \A e \in 1..Len(s) : e # d => t[e] = s[e]
OBVIOUS

\* A step of one thread that creates no detector and changes at most one.
LEMMA TypesStep ==
    ASSUME StreamTypes, NEW h \in Threads, NEW c \in CallType(Len(made)),
           call' = [call EXCEPT ![h] = c], cache' = cache,
           \/ made' = made
           \/ \E d \in 1..Len(made), x \in DetectorType :
                 /\ made' = [made EXCEPT ![d] = x]
                 /\ \A k \in Trees : IsFiniteSet(x.leaves[k])
    PROVE  StreamTypes'
<1>1. CASE made' = made
  BY <1>1 DEF StreamTypes
<1>2. ASSUME NEW d \in 1..Len(made), NEW x \in DetectorType, made' = [made EXCEPT ![d] = x],
             \A k \in Trees : IsFiniteSet(x.leaves[k])
      PROVE  StreamTypes'
  <2>1. made \in Seq(DetectorType)
    BY DEF StreamTypes
  <2>2. /\ made' \in Seq(DetectorType) /\ Len(made') = Len(made)
        /\ made'[d] = x /\ \A e \in 1..Len(made) : e # d => made'[e] = made[e]
    BY <1>2, <2>1, DetectorChanged
  <2>3. \A e \in 1..Len(made'), k \in Trees : IsFiniteSet(made'[e].leaves[k])
    BY <1>2, <2>2 DEF StreamTypes
  <2>4. call' \in [Threads -> CallType(Len(made'))] /\ cache' \in [Watched -> 1..Len(made') \cup {NoDetector}]
    BY <2>2 DEF StreamTypes
  <2>5. QED
    BY <2>2, <2>3, <2>4 DEF StreamTypes
<1>3. QED
  BY <1>1, <1>2

LEMMA StreamInitTypes == StreamInit => StreamTypes
<1>1. ASSUME StreamInit
      PROVE  StreamTypes
  <2>1. Len(<<>>) = 0 /\ 1..0 = {} /\ <<>> \in Seq(DetectorType)
    OBVIOUS
  <2>2. NotCalled \in CallType(0)
    BY DEF CallType
  <2>3. QED
    BY <1>1, <2>1, <2>2 DEF StreamInit, StreamTypes
<1>2. QED
  BY <1>1

\* A tree that is given other leaves.
LEMMA LeavesChanged ==
    ASSUME NEW x \in DetectorType, NEW k \in Trees, NEW leaves \in SUBSET Nat
    PROVE  LET y == [x EXCEPT !.leaves[k] = leaves] IN
           /\ y \in DetectorType
           /\ y.series = x.series /\ y.index = x.index
           /\ y.odd = x.odd /\ y.spoilt = x.spoilt
           /\ y.leaves[k] = leaves
           /\ \A t \in Trees : t # k => y.leaves[t] = x.leaves[t]
BY DEF DetectorType

Grown(x, k, leaves, spoilt) == [x EXCEPT !.leaves[k] = leaves, !.spoilt = spoilt]

LEMMA PointAdded ==
    ASSUME NEW x \in DetectorType, NEW k \in Trees, NEW leaves \in SUBSET Nat,
           NEW spoilt \in SUBSET Trees
    PROVE  LET y == Grown(x, k, leaves, spoilt) IN
           /\ y \in DetectorType
           /\ y.series = x.series /\ y.index = x.index /\ y.odd = x.odd /\ y.spoilt = spoilt
           /\ y.leaves[k] = leaves
           /\ \A t \in Trees : t # k => y.leaves[t] = x.leaves[t]
BY DEF DetectorType, Grown

Buffered(x, m, o) == [x EXCEPT !.buffer = m, !.odd = o]

LEMMA BufferChanged ==
    ASSUME NEW x \in DetectorType, NEW m \in Nat, NEW o \in Nat
    PROVE  LET y == Buffered(x, m, o) IN
           /\ y \in DetectorType /\ y.series = x.series /\ y.leaves = x.leaves
           /\ y.index = x.index /\ y.odd = o /\ y.spoilt = x.spoilt
BY DEF DetectorType, Buffered

LEMMA IndexChanged ==
    ASSUME NEW x \in DetectorType, NEW m \in Nat
    PROVE  LET y == [x EXCEPT !.index = m] IN
           /\ y \in DetectorType /\ y.series = x.series /\ y.leaves = x.leaves /\ y.index = m
           /\ y.odd = x.odd /\ y.spoilt = x.spoilt
BY DEF DetectorType

\* A step of thread h in its detector.
InDetector(h) ==
    \/ Buffer(h) \/ Load(h) \/ Store(h) \/ Measure(h) \/ Choose(h)
    \/ Forget(h) \/ Insert(h) \/ Collide(h) \/ Neutral(h)
    \/ \E batch \in Batches, decomposed \in BOOLEAN : DetectMany(h, batch, decomposed)

LEMMA StreamSteps ==
    ASSUME [StreamNext]_streamVars
    PROVE  \/ \E h \in Threads, s \in Watched, got \in Queried : Watch(h, s, got)
           \/ \E h \in Threads : Look(h) \/ Create(h) \/ Return(h)
           \/ \E h \in Threads : call[h].at \in Inside /\ InDetector(h)
           \/ (\E s \in Watched : remove_detector(s)) \/ clear
           \/ UNCHANGED streamVars
<1>1. ASSUME NEW h \in Threads, InDetector(h)
      PROVE  call[h].at \in Inside
  <2>1. Insert(h) => call[h].at \in Inside
    BY DEF Insert, Inside
  <2>2. Buffer(h) => call[h].at \in Inside
    BY DEF Buffer, Inside
  <2>3. QED
    BY <1>1, <2>1, <2>2
       DEF InDetector, Inside, Load, Store, Measure, Choose, Forget, Collide, Neutral, DetectMany
<1>2. ASSUME NEW h \in Threads, StreamStep(h)
      PROVE  \/ \E s \in Watched, got \in Queried : Watch(h, s, got)
             \/ Look(h) \/ Create(h) \/ Return(h)
             \/ InDetector(h)
  BY <1>2 DEF StreamStep, InDetector
<1>3. QED
  BY <1>1, <1>2 DEF StreamNext

\* Where a thread that was in a detector is next.
After == Inside \cup {"raised", "answered"}

\* The parts of a step in the forest: from what thread h has at hand, to what it
\* has then, and what it makes of its detector.
LEMMA InForestSteps ==
    ASSUME StreamTypes, NEW h \in Threads, call[h].at \in Inside, InDetector(h)
    PROVE  LET d == call[h].detector
               n == Len(made)
           IN  /\ d \in 1..n /\ made[d] \in DetectorType
               /\ \E c \in CallType(n) : call' = [call EXCEPT ![h] = c] /\ c.detector = d /\ c.at \in After
               /\ \/ made' = made
                  \/ \E x \in DetectorType :
                        /\ made' = [made EXCEPT ![d] = x] /\ x.series = made[d].series
                        /\ \A k \in Trees : IsFiniteSet(x.leaves[k])
               /\ cache' = cache /\ shared' = shared /\ split' = split
               /\ tainted \subseteq tainted'
<1> DEFINE d == call[h].detector
           n == Len(made)
           k == call[h].tree
           c0 == call[h]
<1>1. /\ c0 \in [at: Inside, detector: 1..n, point: Shingles,
                 loaded: Nat, tree: Trees, oldest: Nat]
      /\ n \in Nat /\ call \in [Threads -> CallType(n)]
  BY CallFields DEF StreamTypes
<1>2. d \in 1..n /\ made[d] \in DetectorType /\ made \in Seq(DetectorType)
  BY <1>1 DEF StreamTypes
<1>3. k \in Trees /\ made[d].leaves[k] \in SUBSET Nat /\ \A t \in Trees : IsFiniteSet(made[d].leaves[t])
  BY <1>1, <1>2 DEF DetectorType, StreamTypes
<1>4. cache' = cache /\ shared' = shared /\ split' = split /\ tainted \subseteq tainted'
  <2>1. Buffer(h) => cache' = cache /\ shared' = shared /\ split' = split /\ tainted \subseteq tainted'
    BY DEF Buffer
  <2>2. ASSUME InForest
        PROVE  cache' = cache /\ shared' = shared /\ split' = split /\ tainted \subseteq tainted'
    BY <2>2 DEF InForest
  <2>3. Insert(h) => InForest
    BY DEF Insert
  <2>4. QED
    BY <2>1, <2>2, <2>3
       DEF InDetector, Load, Store, Measure, Choose, Forget, Collide, Neutral, DetectMany
<1>5. ASSUME NEW place \in Inside, Goto(h, place)
      PROVE  \E c \in CallType(n) : call' = [call EXCEPT ![h] = c] /\ c.detector = d /\ c.at \in After
  <2>1. [c0 EXCEPT !.at = place] \in CallType(n) /\ [c0 EXCEPT !.at = place].detector = d
        /\ [c0 EXCEPT !.at = place].at \in After
    BY <1>1, <1>5 DEF CallType, After
  <2>2. call' = [call EXCEPT ![h] = [c0 EXCEPT !.at = place]]
    BY <1>1, <1>5 DEF Goto
  <2>3. QED
    BY <2>1, <2>2
<1>6. ASSUME Raised(h) \/ Answer(h)
      PROVE  \E c \in CallType(n) : call' = [call EXCEPT ![h] = c] /\ c.detector = d /\ c.at \in After
  <2>1. \A place \in {"raised", "answered"} :
            [at |-> place, detector |-> d] \in CallType(n) /\ [at |-> place, detector |-> d].detector = d
            /\ [at |-> place, detector |-> d].at \in After
    BY <1>2 DEF CallType, After
  <2>2. \/ call' = [call EXCEPT ![h] = [at |-> "raised", detector |-> d]]
        \/ call' = [call EXCEPT ![h] = [at |-> "answered", detector |-> d]]
    BY <1>1, <1>6 DEF Raised, Answer
  <2>3. QED
    BY <2>1, <2>2
<1>7. ASSUME NEW leaves \in SUBSET Nat, IsFiniteSet(leaves), SetLeaves(h, leaves)
      PROVE  \E x \in DetectorType :
                /\ made' = [made EXCEPT ![d] = x] /\ x.series = made[d].series
                /\ \A t \in Trees : IsFiniteSet(x.leaves[t])
  <2> DEFINE x == [made[d] EXCEPT !.leaves[k] = leaves]
  <2>1. x \in DetectorType /\ x.series = made[d].series /\ x.leaves[k] = leaves
        /\ \A t \in Trees : t # k => x.leaves[t] = made[d].leaves[t]
    <3>1. made[d] \in DetectorType /\ k \in Trees
      BY <1>2, <1>3
    <3> HIDE DEF d, k, c0
    <3>2. QED
      BY <3>1, LeavesChanged
  <2>2. made' = [made EXCEPT ![d] = x]
    BY <1>2, <1>7 DEF SetLeaves
  <2> HIDE DEF x
  <2>3. QED
    BY <2>1, <2>2, <1>3, <1>7
<1>8. CASE Buffer(h)
  <2> DEFINE m == IF made[d].buffer < Shingle THEN made[d].buffer + 1 ELSE Shingle
             odd == IF c0.point = "odd" THEN Shingle
                    ELSE IF made[d].odd = 0 THEN 0 ELSE made[d].odd - 1
             x == Buffered(made[d], m, odd)
  <2>1. m \in Nat /\ odd \in Nat
    <3>1. Shingle \in Nat
      BY StreamingAssumption
    <3>2. made[d].buffer \in Nat /\ made[d].odd \in Nat
      BY <1>2 DEF DetectorType
    <3>3. QED
      BY <3>1, <3>2
  <2>2. /\ made' = [made EXCEPT ![d] = x]
        /\ \/ Answer(h)
           \/ \E point \in Points(odd) :
                 call' = [call EXCEPT ![h].at = "loading", ![h].point = point]
    BY <1>2, <1>8 DEF Buffer, Buffered
  <2>3. Points(odd) \subseteq Shingles
    BY DEF Points, Shingles
  <2>4. ASSUME NEW point \in Shingles,
               call' = [call EXCEPT ![h].at = "loading", ![h].point = point]
        PROVE  \E c \in CallType(n) : call' = [call EXCEPT ![h] = c] /\ c.detector = d /\ c.at \in After
    <3> DEFINE c == [c0 EXCEPT !.at = "loading", !.point = point]
    <3>1. c \in CallType(n) /\ c.detector = d /\ c.at \in After
      BY <1>1 DEF CallType, Inside, After
    <3>2. call' = [call EXCEPT ![h] = c]
      BY <1>1, <2>4
    <3>3. QED
      BY <3>1, <3>2
  <2> HIDE DEF m, odd
  <2>5. x \in DetectorType /\ x.series = made[d].series /\ x.leaves = made[d].leaves
    BY <1>2, <2>1, BufferChanged
  <2>6. \E c \in CallType(n) : call' = [call EXCEPT ![h] = c] /\ c.detector = d /\ c.at \in After
    BY <1>6, <2>2, <2>3, <2>4
  <2> HIDE DEF x
  <2>7. \A t \in Trees : IsFiniteSet(x.leaves[t])
    BY <2>5, <1>3
  <2>8. QED
    BY <1>2, <1>4, <2>2, <2>5, <2>6, <2>7
<1>9. CASE Load(h)
  <2> DEFINE c == [c0 EXCEPT !.at = "storing", !.loaded = made[d].index]
  <2>1. c \in CallType(n) /\ c.detector = d /\ c.at \in After
    BY <1>1, <1>2 DEF CallType, Inside, After, DetectorType
  <2>2. call' = [call EXCEPT ![h] = c] /\ made' = made
    BY <1>1, <1>9 DEF Load, Detector
  <2>3. QED
    BY <1>2, <1>4, <2>1, <2>2
<1>10. CASE Store(h)
  <2> DEFINE x == [made[d] EXCEPT !.index = c0.loaded + 1]
  <2>1. x \in DetectorType /\ x.series = made[d].series /\ x.leaves = made[d].leaves
    <3>1. c0.loaded + 1 \in Nat
      BY <1>1
    <3>2. QED
      BY <1>2, <3>1, IndexChanged
  <2>2. made' = [made EXCEPT ![d] = x] /\ Goto(h, "measuring")
    BY <1>2, <1>10 DEF Store
  <2> HIDE DEF x
  <2>3. \A t \in Trees : IsFiniteSet(x.leaves[t])
    BY <2>1, <1>3
  <2>4. \E c \in CallType(n) : call' = [call EXCEPT ![h] = c] /\ c.detector = d /\ c.at \in After
    BY <2>2, <1>5 DEF Inside
  <2>5. QED
    BY <1>2, <1>4, <2>1, <2>2, <2>3, <2>4
<1>11. CASE Measure(h)
  <2>1. made' = made /\ (Goto(h, "choosing") \/ Goto(h, "inserting"))
    BY <1>11 DEF Measure
  <2>2. QED
    BY <1>2, <1>4, <1>5, <2>1 DEF Inside
<1>12. CASE Choose(h)
  <2>1. made' = made
    BY <1>12 DEF Choose
  <2>2. ASSUME NEW i \in made[d].leaves[k], call' = [call EXCEPT ![h].at = "forgetting", ![h].oldest = i]
        PROVE  \E c \in CallType(n) : call' = [call EXCEPT ![h] = c] /\ c.detector = d /\ c.at \in After
    <3> DEFINE c == [c0 EXCEPT !.at = "forgetting", !.oldest = i]
    <3>1. c \in CallType(n) /\ c.detector = d /\ c.at \in After
      BY <1>1, <1>3 DEF CallType, Inside, After
    <3>2. call' = [call EXCEPT ![h] = c]
      BY <1>1, <2>2
    <3>3. QED
      BY <3>1, <3>2
  <2>3. \E c \in CallType(n) : call' = [call EXCEPT ![h] = c] /\ c.detector = d /\ c.at \in After
    BY <1>12, <1>6, <2>2 DEF Choose, Leaves, Detector
  <2>4. QED
    BY <1>2, <1>4, <2>1, <2>3
<1>13. CASE Forget(h)
  <2> DEFINE left == made[d].leaves[k] \ {c0.oldest}
  <2>1. left \in SUBSET Nat /\ IsFiniteSet(left)
    BY <1>3, FS_RemoveElement
  <2>2. \/ SetLeaves(h, left) /\ Goto(h, "inserting")
        \/ made' = made /\ Raised(h)
    BY <1>13 DEF Forget, Leaves, Detector
  <2> HIDE DEF left
  <2>3. QED
    BY <1>2, <1>4, <1>5, <1>6, <1>7, <2>1, <2>2 DEF Inside
<1>14. CASE Insert(h)
  <2> DEFINE more == made[d].leaves[k] \cup {made[d].index}
             spoilt == IF c0.point = "finite" THEN made[d].spoilt \ {k} ELSE made[d].spoilt \cup {k}
             x == Grown(made[d], k, more, spoilt)
  <2>1. more \in SUBSET Nat /\ IsFiniteSet(more) /\ spoilt \in SUBSET Trees
    <3>1. made[d].index \in Nat /\ made[d].spoilt \in SUBSET Trees
      BY <1>2 DEF DetectorType
    <3>2. more \in SUBSET Nat /\ IsFiniteSet(more)
      BY <1>3, <3>1, FS_AddElement
    <3>3. QED
      BY <1>3, <3>1, <3>2
  <2>2. \/ made' = made /\ Raised(h)
        \/ made' = [made EXCEPT ![d] = x] /\ Answer(h)
        \/ /\ made' = [made EXCEPT ![d] = x] /\ k + 1 \in Trees
           /\ call' = [call EXCEPT ![h].at = "measuring", ![h].tree = @ + 1]
    <3>1. ASSUME Takes(h, made[d].index)
          PROVE  made' = [made EXCEPT ![d] = x]
      <4>1. made' = [made EXCEPT ![d].leaves[k] = @ \cup {made[d].index},
                                 ![d].spoilt = IF c0.point = "finite" THEN @ \ {k} ELSE @ \cup {k}]
        BY <1>14, <3>1 DEF Insert, Detector
      <4>2. QED
        BY <1>2, <4>1 DEF DetectorType, Grown
    <3>2. QED
      BY <1>14, <3>1 DEF Insert, Detector
  <2>3. ASSUME k + 1 \in Trees, call' = [call EXCEPT ![h].at = "measuring", ![h].tree = @ + 1]
        PROVE  \E c \in CallType(n) : call' = [call EXCEPT ![h] = c] /\ c.detector = d /\ c.at \in After
    <3> DEFINE c == [c0 EXCEPT !.at = "measuring", !.tree = k + 1]
    <3>1. c \in CallType(n) /\ c.detector = d /\ c.at \in After
      BY <1>1, <2>3 DEF CallType, Inside, After
    <3>2. call' = [call EXCEPT ![h] = c]
      BY <1>1, <2>3
    <3>3. QED
      BY <3>1, <3>2
  <2> HIDE DEF more, spoilt
  <2>4. /\ x \in DetectorType /\ x.series = made[d].series /\ x.leaves[k] = more
        /\ \A t \in Trees : t # k => x.leaves[t] = made[d].leaves[t]
    <3>1. made[d] \in DetectorType /\ k \in Trees
      BY <1>2, <1>3
    <3> HIDE DEF d, k
    <3>2. QED
      BY <2>1, <3>1, PointAdded
  <2> HIDE DEF x
  <2>5. \A t \in Trees : IsFiniteSet(x.leaves[t])
    BY <1>3, <2>1, <2>4
  <2>6. \E c \in CallType(n) : call' = [call EXCEPT ![h] = c] /\ c.detector = d /\ c.at \in After
    BY <1>6, <2>2, <2>3
  <2>7. made' = made \/ made' = [made EXCEPT ![d] = x]
    BY <2>2
  <2>8. QED
    BY <1>2, <1>4, <2>4, <2>5, <2>6, <2>7
<1>15. CASE Collide(h) \/ Neutral(h)
  <2>1. made' = made /\ (Raised(h) \/ Answer(h))
    BY <1>15 DEF Collide, Neutral
  <2>2. QED
    BY <1>2, <1>4, <1>6, <2>1
<1>16. ASSUME NEW batch \in Batches, NEW decomposed \in BOOLEAN, DetectMany(h, batch, decomposed)
       PROVE  made' = made /\ \E c \in CallType(n) : call' = [call EXCEPT ![h] = c] /\ c.detector = d /\ c.at \in After
  <2> DEFINE verdicts == Verdicts(batch, Clean(batch, decomposed))
             c == [at |-> "answered", detector |-> d, batch |-> batch, results |-> verdicts]
  <2>1. verdicts \in Results
    BY DEF Results
  <2>2. call' = [call EXCEPT ![h] = c] /\ made' = made
    BY <1>1, <1>16 DEF DetectMany
  <2> HIDE DEF verdicts
  <2>3. c \in CallType(n) /\ c.detector = d /\ c.at \in After
    BY <1>2, <2>1 DEF CallType, After
  <2>4. QED
    BY <2>2, <2>3
<1>17. QED
  BY <1>2, <1>4, <1>8, <1>9, <1>10, <1>11, <1>12, <1>13, <1>14, <1>15, <1>16 DEF InDetector

\* What insert_point makes of a tree that takes the point.
LEMMA PointInserted ==
    ASSUME StreamTypes, NEW h \in Threads, Insert(h), Takes(h, Detector(h).index)
    PROVE  LET d == call[h].detector
               k == call[h].tree
               more == made[d].leaves[k] \cup {made[d].index}
           IN  /\ made'[d].index = made[d].index /\ made'[d].odd = made[d].odd
               /\ made'[d].leaves[k] = more
               /\ \A t \in Trees : t # k => made'[d].leaves[t] = made[d].leaves[t]
               /\ call[h].point = "finite" => made'[d].spoilt = made[d].spoilt \ {k}
<1> DEFINE d == call[h].detector
           k == call[h].tree
           more == made[d].leaves[k] \cup {made[d].index}
           spoilt == IF call[h].point = "finite" THEN made[d].spoilt \ {k} ELSE made[d].spoilt \cup {k}
<1>1. d \in 1..Len(made) /\ k \in Trees /\ made \in Seq(DetectorType)
  BY CallFields DEF StreamTypes, Insert, Inside
<1>2. made[d] \in DetectorType
  BY <1>1
<1>3. more \in SUBSET Nat /\ spoilt \in SUBSET Trees
  <2>1. /\ made[d].index \in Nat /\ made[d].leaves[k] \in SUBSET Nat
        /\ made[d].spoilt \in SUBSET Trees
    BY <1>1, <1>2 DEF DetectorType
  <2>2. QED
    BY <1>1, <2>1
<1>4. made' = [made EXCEPT ![d] = Grown(made[d], k, more, spoilt)]
  <2>1. made' = [made EXCEPT ![d].leaves[k] = @ \cup {made[d].index},
                             ![d].spoilt = IF call[h].point = "finite" THEN @ \ {k} ELSE @ \cup {k}]
    BY DEF Insert, Detector
  <2>2. QED
    BY <1>2, <2>1 DEF DetectorType, Grown
<1>5. call[h].point = "finite" => spoilt = made[d].spoilt \ {k}
  OBVIOUS
<1> HIDE DEF d, k, more, spoilt
<1>6. made'[d] = Grown(made[d], k, more, spoilt)
  BY <1>1, <1>4
<1>7. QED
  <2>1. /\ made'[d].index = made[d].index /\ made'[d].odd = made[d].odd
        /\ made'[d].leaves[k] = more /\ made'[d].spoilt = spoilt
        /\ \A t \in Trees : t # k => made'[d].leaves[t] = made[d].leaves[t]
    BY <1>1, <1>2, <1>3, <1>6, PointAdded
  <2>2. QED
    BY <1>5, <2>1 DEF d, k, more

\* The parts of a call before it is in a detector.
LEMMA WatchSteps ==
    ASSUME StreamTypes, NEW h \in Threads, NEW s \in Watched, NEW got \in Queried, Watch(h, s, got)
    PROVE  /\ call[h].at \in Over /\ made' = made /\ cache' = cache
           /\ shared' = shared /\ split' = split /\ tainted' = tainted
           /\ \E c \in CallType(Len(made)) :
                 /\ call' = [call EXCEPT ![h] = c] /\ c.at \in {"looking", "idle", "raised"}
                 /\ c.at = "raised" => c.detector = NoDetector
<1> DEFINE n == Len(made)
           looking == [at |-> "looking", series |-> s, value |-> got]
           raised == [at |-> "raised", detector |-> NoDetector]
<1>1. /\ got \in {"finite", "odd"} => looking \in CallType(n)
      /\ raised \in CallType(n) /\ NotCalled \in CallType(n)
  BY DEF CallType, Asking, GivenValues
<1>2. /\ call[h].at \in Over /\ made' = made /\ cache' = cache
      /\ shared' = shared /\ split' = split /\ tainted' = tainted
  BY DEF Watch
<1>3. \/ got \in {"finite", "odd"} /\ call' = [call EXCEPT ![h] = looking]
      \/ call' = [call EXCEPT ![h] = NotCalled]
      \/ call' = [call EXCEPT ![h] = raised]
  BY DEF Watch, Queried
<1>4. looking.at = "looking" /\ raised.at = "raised" /\ NotCalled.at = "idle" /\ raised.detector = NoDetector
  BY DEF NotCalled
<1> HIDE DEF looking, raised
<1>5. QED
  BY <1>1, <1>2, <1>3, <1>4

LEMMA LookSteps ==
    ASSUME StreamTypes, NEW h \in Threads, Look(h)
    PROVE  LET s == call[h].series IN
           /\ call[h].at = "looking" /\ s \in Watched /\ made' = made /\ cache' = cache
           /\ shared' = shared /\ tainted' = tainted
           /\ split' = IF Creators(s) # {} THEN split \cup {s} ELSE split
           /\ \E c \in CallType(Len(made)) :
                 /\ call' = [call EXCEPT ![h] = c] /\ c.series = s
                 /\ c.at = IF cache[s] = NoDetector THEN "creating" ELSE "returning"
<1> DEFINE s == call[h].series
           place == IF cache[s] = NoDetector THEN "creating" ELSE "returning"
           c == [call[h] EXCEPT !.at = place]
<1>1. call[h].at = "looking" /\ call[h] \in [at: Asking, series: Watched, value: GivenValues]
  BY CallFields DEF Look, Asking
<1>2. /\ made' = made /\ cache' = cache /\ shared' = shared /\ tainted' = tainted
      /\ split' = IF Creators(s) # {} THEN split \cup {s} ELSE split
  BY DEF Look
<1>3. call' = [call EXCEPT ![h] = c]
  BY DEF Look, Goto, StreamTypes
<1>4. place \in Asking
  BY DEF Asking
<1>5. c \in CallType(Len(made)) /\ c.series = s /\ c.at = place
  <2> HIDE DEF place
  <2>1. QED
    BY <1>1, <1>4 DEF CallType
<1> HIDE DEF c
<1>6. QED
  BY <1>1, <1>2, <1>3, <1>5

LEMMA CreateSteps ==
    ASSUME StreamTypes, NEW h \in Threads, Create(h)
    PROVE  LET s == call[h].series
               n == Len(made)
           IN  /\ call[h].at = "creating" /\ s \in Watched
               /\ New(s) \in DetectorType
               /\ \A k \in Trees : New(s).leaves[k] = {}
               /\ tainted' = tainted
               /\ made' = Append(made, New(s)) /\ cache' = [cache EXCEPT ![s] = n + 1]
               /\ shared' = shared /\ split' = split
               /\ \E c \in CallType(n + 1) :
                     /\ call' = [call EXCEPT ![h] = c] /\ c.at = "returning" /\ c.series = s
<1> DEFINE s == call[h].series
           c == [call[h] EXCEPT !.at = "returning"]
<1>1. call[h].at = "creating" /\ call[h] \in [at: Asking, series: Watched, value: GivenValues]
  BY CallFields DEF Create, Asking
<1>2. /\ made' = Append(made, New(s)) /\ cache' = [cache EXCEPT ![s] = Len(made) + 1]
      /\ shared' = shared /\ split' = split /\ tainted' = tainted
  BY DEF Create
<1>3. call' = [call EXCEPT ![h] = c]
  BY DEF Create, Goto, StreamTypes
<1>4. c \in CallType(Len(made) + 1) /\ c.at = "returning" /\ c.series = s
  BY <1>1 DEF CallType, Asking
<1>5. New(s) \in DetectorType /\ \A k \in Trees : New(s).leaves[k] = {}
  BY <1>1 DEF New, Empty, DetectorType
<1> HIDE DEF c
<1>6. QED
  BY <1>1, <1>2, <1>3, <1>4, <1>5

LEMMA ReturnSteps ==
    ASSUME StreamTypes, NEW h \in Threads, Return(h)
    PROVE  /\ call[h].at = "returning" /\ made' = made /\ cache' = cache /\ split' = split
           /\ tainted' = tainted
           /\ \E c \in CallType(Len(made)) :
                 /\ call' = [call EXCEPT ![h] = c]
                 /\ \/ c.at = "raised" /\ c.detector = NoDetector /\ shared' = shared
                    \/ /\ c.at = "detecting" /\ c.detector \in 1..Len(made) /\ c.tree = 1
                       /\ shared' = IF InIt(c.detector) # {} THEN shared \cup {c.detector} ELSE shared
<1> DEFINE d == cache[call[h].series]
           n == Len(made)
           raised == [at |-> "raised", detector |-> NoDetector]
           c == [at |-> "detecting", detector |-> d, point |-> call[h].value, loaded |-> 0,
                 tree |-> 1, oldest |-> 0]
<1>1. /\ call[h].at = "returning" /\ call[h].series \in Watched /\ n \in Nat
      /\ call[h].value \in Shingles /\ call \in [Threads -> CallType(n)]
  BY CallFields DEF Return, Asking, StreamTypes, GivenValues, Shingles
<1>2. made' = made /\ cache' = cache /\ split' = split /\ tainted' = tainted
  BY DEF Return
<1>3. d \in 1..n \cup {NoDetector}
  BY <1>1 DEF StreamTypes
<1>4. CASE d = NoDetector
  <2>1. raised \in CallType(n)
    BY DEF CallType
  <2>2. call' = [call EXCEPT ![h] = raised] /\ shared' = shared
    BY <1>4 DEF Return
  <2>3. raised.at = "raised" /\ raised.detector = NoDetector
    OBVIOUS
  <2> HIDE DEF raised
  <2>4. QED
    BY <1>1, <1>2, <2>1, <2>2, <2>3
<1>5. CASE d # NoDetector
  <2>1. d \in 1..n /\ 1 \in Trees
    BY <1>3, <1>5, StreamingAssumption DEF Trees
  <2>2. c \in CallType(n) /\ c.at = "detecting" /\ c.detector = d /\ c.tree = 1
    <3> HIDE DEF d
    <3>1. QED
      BY <1>1, <2>1 DEF CallType, Inside
  <2>3. call' = [call EXCEPT ![h] = c] /\ shared' = IF InIt(d) # {} THEN shared \cup {d} ELSE shared
    BY <1>1, <1>5 DEF Return
  <2> HIDE DEF c
  <2>4. QED
    BY <1>1, <1>2, <2>1, <2>2, <2>3
<1>6. QED
  BY <1>4, <1>5

LEMMA StreamNextTypes == StreamTypes /\ [StreamNext]_streamVars => StreamTypes'
<1> SUFFICES ASSUME StreamTypes, [StreamNext]_streamVars
             PROVE  StreamTypes'
  OBVIOUS
<1>1. ASSUME NEW h \in Threads, NEW s \in Watched, NEW got \in Queried, Watch(h, s, got)
      PROVE  StreamTypes'
  BY <1>1, WatchSteps, TypesStep
<1>2. ASSUME NEW h \in Threads, Look(h)
      PROVE  StreamTypes'
  BY <1>2, LookSteps, TypesStep
<1>3. ASSUME NEW h \in Threads, Create(h)
      PROVE  StreamTypes'
  <2> DEFINE s == call[h].series
             n == Len(made)
  <2>1. /\ s \in Watched /\ New(s) \in DetectorType /\ \A k \in Trees : New(s).leaves[k] = {}
        /\ made' = Append(made, New(s)) /\ cache' = [cache EXCEPT ![s] = n + 1]
        /\ \E c \in CallType(n + 1) : call' = [call EXCEPT ![h] = c]
    BY <1>3, CreateSteps
  <2>2. n \in Nat /\ n <= n + 1 /\ made \in Seq(DetectorType)
    BY DEF StreamTypes
  <2>3. /\ made' \in Seq(DetectorType) /\ Len(made') = n + 1 /\ made'[n + 1] = New(s)
        /\ \A d \in 1..n : made'[d] = made[d]
    BY <2>1, <2>2, DetectorAdded
  <2>4. CallType(n) \subseteq CallType(n + 1)
    BY <2>2, CallTypeGrows
  <2>5. call' \in [Threads -> CallType(Len(made'))]
    BY <2>1, <2>3, <2>4 DEF StreamTypes
  <2>6. cache' \in [Watched -> 1..Len(made') \cup {NoDetector}]
    BY <2>1, <2>2, <2>3 DEF StreamTypes
  <2>7. \A d \in 1..Len(made'), k \in Trees : IsFiniteSet(made'[d].leaves[k])
    <3>1. ASSUME NEW d \in 1..n + 1, NEW k \in Trees
          PROVE  IsFiniteSet(made'[d].leaves[k])
      <4>1. CASE d \in 1..n
        BY <4>1, <2>3 DEF StreamTypes
      <4>2. CASE d = n + 1
        BY <4>2, <2>1, <2>3, FS_EmptySet
      <4>3. QED
        BY <2>2, <4>1, <4>2
    <3>2. QED
      BY <2>3, <3>1
  <2>8. QED
    BY <2>3, <2>5, <2>6, <2>7 DEF StreamTypes
<1>4. ASSUME NEW h \in Threads, Return(h)
      PROVE  StreamTypes'
  BY <1>4, ReturnSteps, TypesStep
<1>5. ASSUME NEW h \in Threads, call[h].at \in Inside, InDetector(h)
      PROVE  StreamTypes'
  BY <1>5, InForestSteps, TypesStep
<1>6. ASSUME (\E s \in Watched : remove_detector(s)) \/ clear
      PROVE  StreamTypes'
  <2>1. made' = made /\ call' = call
    BY <1>6 DEF remove_detector, clear
  <2>2. cache' \in [Watched -> 1..Len(made) \cup {NoDetector}]
    BY <1>6 DEF remove_detector, clear, StreamTypes
  <2>3. QED
    BY <2>1, <2>2 DEF StreamTypes
<1>7. CASE UNCHANGED streamVars
  BY <1>7 DEF streamVars, StreamTypes
<1>8. QED
  BY <1>1, <1>2, <1>3, <1>4, <1>5, <1>6, <1>7, StreamSteps

(* The caches, the detectors and the threads hold what they were built to    *)
(* hold, whoever calls the library how often.                                *)
THEOREM DetectorTypes == StreamSpec => []StreamTypes
BY StreamInitTypes, StreamNextTypes, PTL DEF StreamSpec

-----------------------------------------------------------------------------
(***************************************************************************)
(* The size of a tree: a thread that found room for a point keeps a place  *)
(* for it until it is inserted, so that the leaves and the places together *)
(* stay within the bound.                                                  *)
(***************************************************************************)

Inserting(d, k) ==
    {h \in Threads : call[h].at = "inserting" /\ call[h].detector = d /\ call[h].tree = k}

RoomInv ==
    \A d \in 1..Len(made), k \in Trees :
        Cardinality(made[d].leaves[k]) + Cardinality(Inserting(d, k))
            <= TreeSize + Cardinality(Threads) - 1

\* What a step in a detector may do to the points and places of a tree.
LEMMA TreeSteps ==
    ASSUME StreamTypes, NEW h \in Threads, call[h].at \in Inside, InDetector(h),
           NEW d \in 1..Len(made), NEW k \in Trees
    PROVE  LET before == made[d].leaves[k]
               after == made'[d].leaves[k]
           IN  \/ after = before /\ Inserting(d, k)' \subseteq Inserting(d, k)
               \/ after = before /\ Cardinality(before) < TreeSize
               \/ \E i \in before : /\ after = before \ {i}
                                    /\ Inserting(d, k)' \subseteq Inserting(d, k) \cup {h}
               \/ \E i \in Nat : /\ after = before \cup {i} /\ h \in Inserting(d, k)
                                 /\ Inserting(d, k)' \subseteq Inserting(d, k) \ {h}
<1> DEFINE d0 == call[h].detector
           k0 == call[h].tree
           c0 == call[h]
           n == Len(made)
           before == made[d].leaves[k]
           after == made'[d].leaves[k]
<1>1. /\ c0 \in [at: Inside, detector: 1..n, point: Shingles,
                 loaded: Nat, tree: Trees, oldest: Nat]
      /\ n \in Nat /\ call \in [Threads -> CallType(n)] /\ made \in Seq(DetectorType)
  BY CallFields DEF StreamTypes
<1>2. d0 \in 1..n /\ k0 \in Trees /\ made[d0] \in DetectorType /\ made[d] \in DetectorType
  BY <1>1
<1>3. /\ \A g \in Threads \ {h} : call'[g] = call[g]
      /\ \A e \in 1..n : e # d0 => made'[e] = made[e]
  <2>1. \E c \in CallType(n) : call' = [call EXCEPT ![h] = c] /\ c.detector = d0
    BY InForestSteps
  <2>2. \/ made' = made
        \/ \E x \in DetectorType : made' = [made EXCEPT ![d0] = x]
    BY InForestSteps
  <2>3. QED
    BY <1>1, <2>1, <2>2
<1>4. ASSUME call'[h].at # "inserting"
      PROVE  Inserting(d, k)' \subseteq Inserting(d, k) \ {h}
  BY <1>3, <1>4 DEF Inserting
<1>5. ASSUME NEW place, Goto(h, place)
      PROVE  call'[h].at = place /\ call'[h].detector = d0 /\ call'[h].tree = k0
  BY <1>1, <1>5 DEF Goto
<1>6. ASSUME Raised(h) \/ Answer(h)
      PROVE  call'[h].at # "inserting"
  BY <1>1, <1>6 DEF Raised, Answer
<1>7. ASSUME d # d0 \/ k # k0, \A t \in Trees : d = d0 /\ t # k0 => made'[d].leaves[t] = made[d].leaves[t],
             call'[h].at = "inserting" => call'[h].detector = d0 /\ call'[h].tree = k0
      PROVE  after = before /\ Inserting(d, k)' \subseteq Inserting(d, k)
  BY <1>3, <1>7 DEF Inserting
<1>8. ASSUME NEW leaves \in SUBSET Nat, SetLeaves(h, leaves)
      PROVE  /\ made'[d0].leaves[k0] = leaves
             /\ \A t \in Trees : t # k0 => made'[d0].leaves[t] = made[d0].leaves[t]
  <2> DEFINE x == [made[d0] EXCEPT !.leaves[k0] = leaves]
  <2>1. x.leaves[k0] = leaves /\ \A t \in Trees : t # k0 => x.leaves[t] = made[d0].leaves[t]
    <3>1. made[d0] \in DetectorType /\ k0 \in Trees
      BY <1>2
    <3> HIDE DEF d0, k0
    <3>2. QED
      BY <1>8, <3>1 DEF DetectorType
  <2>2. made' = [made EXCEPT ![d0] = x]
    BY <1>1, <1>2, <1>8 DEF SetLeaves
  <2>3. made'[d0] = x
    BY <1>1, <1>2, <2>2
  <2> HIDE DEF x
  <2>4. QED
    BY <2>1, <2>3
<1>9. CASE Buffer(h) \/ Load(h) \/ Store(h) \/ Choose(h) \/ Collide(h) \/ Neutral(h)
           \/ \E batch \in Batches, decomposed \in BOOLEAN : DetectMany(h, batch, decomposed)
  <2>1. call'[h].at # "inserting"
    <3>1. Buffer(h) => call'[h].at # "inserting"
      BY <1>1, <1>6 DEF Buffer
    <3>2. QED
      BY <1>9, <1>1, <1>5, <1>6, <3>1 DEF Load, Store, Choose, Collide, Neutral, DetectMany
  <2>2. made'[d0].leaves = made[d0].leaves
    <3>1. CASE Buffer(h)
      <4>1. PICK m, o : made' = [made EXCEPT ![d0].buffer = m, ![d0].odd = o]
        BY <3>1 DEF Buffer
      <4>2. QED
        BY <1>1, <1>2, <4>1 DEF DetectorType
    <3>2. CASE Store(h)
      BY <1>1, <1>2, <3>2 DEF Store, DetectorType
    <3>3. QED
      BY <1>9, <3>1, <3>2 DEF Load, Choose, Collide, Neutral, DetectMany
  <2>3. QED
    BY <1>3, <1>4, <2>1, <2>2
<1>10. CASE Measure(h)
  <2>1. made' = made
    BY <1>10 DEF Measure
  <2>2. CASE Goto(h, "choosing")
    BY <2>1, <2>2, <1>4, <1>5
  <2>3. CASE ~Full(Leaves(h)) /\ Goto(h, "inserting")
    <3>1. call'[h].detector = d0 /\ call'[h].tree = k0
      BY <2>3, <1>5
    <3>2. CASE d # d0 \/ k # k0
      BY <3>1, <3>2, <1>7, <2>1
    <3>3. CASE d = d0 /\ k = k0
      <4>1. Cardinality(before) \in Nat /\ TreeSize \in Nat
        BY FS_CardinalityType, StreamingAssumption DEF StreamTypes
      <4>2. ~(Cardinality(before) >= TreeSize)
        BY <2>3, <3>3 DEF Full, Leaves, Detector
      <4>3. QED
        BY <2>1, <4>1, <4>2
    <3>4. QED
      BY <3>2, <3>3
  <2>4. QED
    BY <1>10, <2>2, <2>3 DEF Measure
<1>11. CASE Forget(h)
  <2>1. CASE made' = made /\ Raised(h)
    BY <2>1, <1>4, <1>6
  <2>2. CASE /\ c0.oldest \in made[d0].leaves[k0] /\ Goto(h, "inserting")
             /\ SetLeaves(h, made[d0].leaves[k0] \ {c0.oldest})
    <3>1. call'[h].detector = d0 /\ call'[h].tree = k0
      BY <2>2, <1>5
    <3>2. made[d0].leaves[k0] \ {c0.oldest} \in SUBSET Nat
      BY <1>2 DEF DetectorType
    <3>3. /\ made'[d0].leaves[k0] = made[d0].leaves[k0] \ {c0.oldest}
          /\ \A t \in Trees : t # k0 => made'[d0].leaves[t] = made[d0].leaves[t]
      BY <1>8, <2>2, <3>2
    <3>4. CASE d # d0 \/ k # k0
      BY <3>1, <3>3, <3>4, <1>7
    <3>5. CASE d = d0 /\ k = k0
      <4>1. Inserting(d, k)' \subseteq Inserting(d, k) \cup {h}
        BY <1>3 DEF Inserting
      <4>2. QED
        BY <2>2, <3>3, <3>5, <4>1
    <3>6. QED
      BY <3>4, <3>5
  <2>3. QED
    BY <1>11, <2>1, <2>2 DEF Forget, Leaves, Detector
<1>12. CASE Insert(h)
  <2>1. c0.at = "inserting"
    BY <1>12 DEF Insert
  <2>2. call'[h].at # "inserting"
    BY <1>12, <1>1, <1>6 DEF Insert
  <2>3. CASE made' = made
    BY <2>2, <2>3, <1>4
  <2>4. CASE Takes(h, made[d0].index)
    <3>1. made[d0].index \in Nat
      BY <1>2 DEF DetectorType
    <3>2. /\ made'[d0].leaves[k0] = made[d0].leaves[k0] \cup {made[d0].index}
          /\ \A t \in Trees : t # k0 => made'[d0].leaves[t] = made[d0].leaves[t]
      BY <1>12, <2>4, PointInserted DEF Detector
    <3>3. CASE d # d0 \/ k # k0
      BY <2>2, <3>2, <3>3, <1>7
    <3>4. CASE d = d0 /\ k = k0
      <4>1. h \in Inserting(d, k)
        BY <2>1, <3>4 DEF Inserting
      <4>2. QED
        BY <2>2, <3>1, <3>2, <3>4, <4>1, <1>4
    <3>5. QED
      BY <3>3, <3>4
  <2>5. QED
    BY <1>12, <2>3, <2>4 DEF Insert, Detector
<1>13. QED
  BY <1>9, <1>10, <1>11, <1>12 DEF InDetector

\* The places in a tree that a step takes or leaves.
LEMMA InsertingCount ==
    ASSUME NEW d, NEW k
    PROVE  /\ IsFiniteSet(Inserting(d, k))
           /\ Cardinality(Inserting(d, k)) \in Nat
           /\ Cardinality(Threads) \in Nat
           /\ Cardinality(Inserting(d, k)) <= Cardinality(Threads)
<1>1. Inserting(d, k) \subseteq Threads /\ IsFiniteSet(Threads)
  BY StreamingAssumption DEF Inserting
<1>2. QED
  BY <1>1, FS_Subset, FS_CardinalityType

LEMMA RoomAfterStep ==
    ASSUME StreamTypes, RoomInv, NEW h \in Threads, call[h].at \in Inside, InDetector(h),
           NEW d \in 1..Len(made), NEW k \in Trees
    PROVE  Cardinality(made'[d].leaves[k]) + Cardinality(Inserting(d, k)')
               <= TreeSize + Cardinality(Threads) - 1
<1> DEFINE before == made[d].leaves[k]
           after == made'[d].leaves[k]
           I == Inserting(d, k)
           J == Inserting(d, k)'
           N == Cardinality(Threads)
<1>1. IsFiniteSet(before) /\ Cardinality(before) \in Nat
  BY FS_CardinalityType DEF StreamTypes
<1>2. IsFiniteSet(I) /\ Cardinality(I) \in Nat /\ N \in Nat /\ Cardinality(I) <= N
  BY InsertingCount
<1>3. J \subseteq Threads /\ IsFiniteSet(Threads)
  BY StreamingAssumption DEF Inserting
<1>4. IsFiniteSet(J) /\ Cardinality(J) \in Nat /\ Cardinality(J) <= N
  BY <1>3, FS_Subset, FS_CardinalityType
<1>5. Cardinality(before) + Cardinality(I) <= TreeSize + N - 1 /\ TreeSize \in Nat
  BY StreamingAssumption DEF RoomInv
<1>6. \/ after = before /\ J \subseteq I
      \/ after = before /\ Cardinality(before) < TreeSize
      \/ \E i \in before : after = before \ {i} /\ J \subseteq I \cup {h}
      \/ \E i \in Nat : after = before \cup {i} /\ h \in I /\ J \subseteq I \ {h}
  BY TreeSteps
<1> HIDE DEF before, after, I, J, N
<1>7. CASE after = before /\ J \subseteq I
  <2>1. Cardinality(J) <= Cardinality(I)
    BY <1>2, <1>7, FS_Subset
  <2>2. QED
    BY <1>1, <1>2, <1>4, <1>5, <1>7, <2>1 DEF after, J, N
<1>8. CASE after = before /\ Cardinality(before) < TreeSize
  BY <1>1, <1>2, <1>4, <1>5, <1>8 DEF after, J, N
<1>9. ASSUME NEW i \in before, after = before \ {i}, J \subseteq I \cup {h}
      PROVE  Cardinality(after) + Cardinality(J) <= TreeSize + N - 1
  <2>1. Cardinality(after) = Cardinality(before) - 1
    BY <1>1, <1>9, FS_RemoveElement
  <2>2. IsFiniteSet(I \cup {h}) /\ Cardinality(I \cup {h}) <= Cardinality(I) + 1
    <3>1. IsFiniteSet(I \cup {h})
      BY <1>2, FS_AddElement
    <3>2. Cardinality(I \cup {h}) = Cardinality(I) \/ Cardinality(I \cup {h}) = Cardinality(I) + 1
      BY <1>2, FS_AddElement
    <3>3. QED
      BY <1>2, <3>1, <3>2
  <2>3. Cardinality(J) <= Cardinality(I \cup {h}) /\ Cardinality(I \cup {h}) \in Nat
    BY <1>9, <2>2, FS_Subset, FS_CardinalityType
  <2>4. QED
    BY <1>1, <1>2, <1>4, <1>5, <2>1, <2>2, <2>3
<1>10. ASSUME NEW i \in Nat, after = before \cup {i}, h \in I, J \subseteq I \ {h}
       PROVE  Cardinality(after) + Cardinality(J) <= TreeSize + N - 1
  <2>1. Cardinality(after) = Cardinality(before) \/ Cardinality(after) = Cardinality(before) + 1
    BY <1>1, <1>10, FS_AddElement
  <2>2. IsFiniteSet(I \ {h}) /\ Cardinality(I \ {h}) = Cardinality(I) - 1
    BY <1>2, <1>10, FS_RemoveElement
  <2>3. Cardinality(J) <= Cardinality(I \ {h})
    BY <1>10, <2>2, FS_Subset
  <2>4. QED
    BY <1>1, <1>2, <1>4, <1>5, <2>1, <2>2, <2>3
<1>11. QED
  BY <1>6, <1>7, <1>8, <1>9, <1>10 DEF after, J, N

\* A step of one thread outside the detectors takes no place.
LEMMA InsertingStays ==
    ASSUME StreamTypes, NEW h \in Threads, call[h].at \notin Inside, NEW n \in Nat,
           NEW c \in CallType(n), call' = [call EXCEPT ![h] = c], c.at # "inserting",
           NEW d, NEW k
    PROVE  Inserting(d, k)' = Inserting(d, k)
<1>1. call \in [Threads -> CallType(Len(made))]
  BY DEF StreamTypes
<1>2. call[h].at # "inserting" /\ call'[h].at # "inserting"
  BY <1>1 DEF Inside
<1>3. \A g \in Threads \ {h} : call'[g] = call[g]
  BY <1>1
<1>4. QED
  BY <1>2, <1>3 DEF Inserting

LEMMA RoomInitially == StreamInit => RoomInv
<1>1. ASSUME StreamInit, NEW d \in 1..Len(made)
      PROVE  FALSE
  BY <1>1 DEF StreamInit
<1>2. QED
  BY <1>1 DEF RoomInv

LEMMA RoomStep == StreamTypes /\ RoomInv /\ [StreamNext]_streamVars => RoomInv'
<1> SUFFICES ASSUME StreamTypes, RoomInv, [StreamNext]_streamVars
             PROVE  RoomInv'
  OBVIOUS
<1>1. ASSUME made' = made, \A d \in 1..Len(made), k \in Trees : Inserting(d, k)' = Inserting(d, k)
      PROVE  RoomInv'
  BY <1>1 DEF RoomInv
<1>2. ASSUME NEW h \in Threads, NEW s \in Watched, NEW got \in Queried, Watch(h, s, got)
      PROVE  RoomInv'
  <2>1. made' = made /\ call[h].at \notin Inside /\ Len(made) \in Nat
    BY <1>2, WatchSteps DEF Over, Inside, StreamTypes
  <2>2. \E c \in CallType(Len(made)) : call' = [call EXCEPT ![h] = c] /\ c.at # "inserting"
    BY <1>2, WatchSteps
  <2>3. QED
    BY <2>1, <2>2, <1>1, InsertingStays
<1>3. ASSUME NEW h \in Threads, Look(h)
      PROVE  RoomInv'
  <2>1. made' = made /\ call[h].at \notin Inside /\ Len(made) \in Nat
    BY <1>3, LookSteps DEF Inside, StreamTypes
  <2>2. \E c \in CallType(Len(made)) : call' = [call EXCEPT ![h] = c] /\ c.at # "inserting"
    BY <1>3, LookSteps
  <2>3. QED
    BY <2>1, <2>2, <1>1, InsertingStays
<1>4. ASSUME NEW h \in Threads, Create(h)
      PROVE  RoomInv'
  <2> DEFINE n == Len(made)
             s == call[h].series
  <2>1. /\ call[h].at \notin Inside /\ n \in Nat /\ made \in Seq(DetectorType)
        /\ New(s) \in DetectorType /\ made' = Append(made, New(s))
        /\ \A k \in Trees : New(s).leaves[k] = {}
    <3>1. call[h].at \notin Inside
      BY <1>4 DEF Create, Inside
    <3>2. n \in Nat /\ made \in Seq(DetectorType)
      BY DEF StreamTypes
    <3>3. QED
      BY <1>4, <3>1, <3>2, CreateSteps
  <2>2. \E c \in CallType(n + 1) : call' = [call EXCEPT ![h] = c] /\ c.at # "inserting"
    BY <1>4, CreateSteps
  <2>3. ASSUME NEW d \in Nat, NEW k \in Trees
        PROVE  Inserting(d, k)' = Inserting(d, k)
    <3>1. n + 1 \in Nat
      BY <2>1
    <3>2. PICK c \in CallType(n + 1) : call' = [call EXCEPT ![h] = c] /\ c.at # "inserting"
      BY <2>2
    <3>3. QED
      BY <2>1, <3>1, <3>2, InsertingStays
  <2>4. /\ Len(made') = n + 1 /\ \A d \in 1..n : made'[d] = made[d]
        /\ made'[n + 1] = New(s)
    BY <2>1, DetectorAdded
  <2>5. ASSUME NEW d \in Nat, d = n + 1, NEW k \in Trees
        PROVE  Cardinality(made'[d].leaves[k]) + Cardinality(Inserting(d, k)')
                   <= TreeSize + Cardinality(Threads) - 1
    <3>1. Cardinality(made'[d].leaves[k]) = 0
      BY <2>1, <2>4, <2>5, FS_EmptySet
    <3>2. /\ Cardinality(Inserting(d, k)) \in Nat /\ Cardinality(Threads) \in Nat
          /\ Cardinality(Inserting(d, k)) <= Cardinality(Threads)
      BY InsertingCount
    <3>3. TreeSize \in Nat /\ TreeSize >= 1
      BY StreamingAssumption
    <3>4. Inserting(d, k)' = Inserting(d, k)
      BY <2>3, <2>5
    <3>5. QED
      BY <3>1, <3>2, <3>3, <3>4
  <2>6. ASSUME NEW d \in 1..n + 1, NEW k \in Trees
        PROVE  Cardinality(made'[d].leaves[k]) + Cardinality(Inserting(d, k)')
                   <= TreeSize + Cardinality(Threads) - 1
    <3>1. CASE d \in 1..n
      <4>1. Inserting(d, k)' = Inserting(d, k)
        BY <2>3, <2>6, <3>1
      <4>2. QED
        BY <3>1, <4>1, <2>4, <2>6 DEF RoomInv
    <3>2. CASE d = n + 1
      BY <2>1, <3>2, <2>5, <2>6
    <3>3. QED
      BY <2>1, <2>6, <3>1, <3>2
  <2>7. QED
    BY <2>4, <2>6 DEF RoomInv
<1>5. ASSUME NEW h \in Threads, Return(h)
      PROVE  RoomInv'
  <2>1. made' = made /\ call[h].at \notin Inside /\ Len(made) \in Nat
    BY <1>5, ReturnSteps DEF Inside, StreamTypes
  <2>2. \E c \in CallType(Len(made)) : call' = [call EXCEPT ![h] = c] /\ c.at # "inserting"
    BY <1>5, ReturnSteps
  <2>3. QED
    BY <2>1, <2>2, <1>1, InsertingStays
<1>6. ASSUME NEW h \in Threads, call[h].at \in Inside, InDetector(h)
      PROVE  RoomInv'
  <2>1. Len(made') = Len(made)
    BY <1>6, InForestSteps DEF StreamTypes
  <2>2. QED
    BY <1>6, <2>1, RoomAfterStep DEF RoomInv
<1>7. CASE (\E s \in Watched : remove_detector(s)) \/ clear \/ UNCHANGED streamVars
  <2>1. made' = made /\ call' = call
    BY <1>7 DEF remove_detector, clear, streamVars
  <2>2. QED
    BY <2>1, <1>1 DEF Inserting
<1>8. QED
  BY <1>2, <1>3, <1>4, <1>5, <1>6, <1>7, StreamSteps

(* The memory of a forest is bounded for any number of threads: no tree      *)
(* exceeds tree_size by as many points as there are threads.                 *)
THEOREM ForestsStayBounded == StreamSpec => []TreesBounded
<1>1. StreamTypes /\ RoomInv => TreesBounded
  <2>1. ASSUME StreamTypes, RoomInv, NEW d \in 1..Len(made), NEW k \in Trees
        PROVE  Cardinality(made[d].leaves[k]) <= TreeSize + Cardinality(Threads) - 1
    <3>1. Cardinality(made[d].leaves[k]) \in Nat /\ TreeSize \in Nat
      BY <2>1, FS_CardinalityType, StreamingAssumption DEF StreamTypes
    <3>2. Cardinality(Inserting(d, k)) \in Nat /\ Cardinality(Threads) \in Nat
      BY InsertingCount
    <3>3. Cardinality(made[d].leaves[k]) + Cardinality(Inserting(d, k))
              <= TreeSize + Cardinality(Threads) - 1
      BY <2>1 DEF RoomInv
    <3>4. QED
      BY <3>1, <3>2, <3>3
  <2>2. QED
    BY <2>1 DEF TreesBounded
<1>2. StreamInit => StreamTypes /\ RoomInv
  BY StreamInitTypes, RoomInitially
<1>3. StreamTypes /\ RoomInv /\ [StreamNext]_streamVars => (StreamTypes /\ RoomInv)'
  BY StreamNextTypes, RoomStep
<1>4. QED
  BY <1>1, <1>2, <1>3, PTL DEF StreamSpec

-----------------------------------------------------------------------------
(***************************************************************************)
(* One detector for a series: a thread that is creating it is the only     *)
(* one, and found none, unless creations overlapped or it was removed.     *)
(***************************************************************************)

OneInv ==
    \A s \in Watched \ split :
        /\ \A g, h \in Creators(s) : g = h
        /\ Creators(s) # {} \/ cache[s] = NoDetector => \A d \in 1..Len(made) : made[d].series # s
        /\ \A i, j \in 1..Len(made) : made[i].series = s /\ made[j].series = s => i = j

\* A step that creates no detector and lets no thread begin to.
LEMMA OneStays ==
    ASSUME OneInv, split \subseteq split', Len(made') = Len(made),
           \A d \in 1..Len(made) : made'[d].series = made[d].series,
           \A s \in Watched : Creators(s)' \subseteq Creators(s),
           \A s \in Watched \ split' : cache'[s] = NoDetector => cache[s] = NoDetector
    PROVE  OneInv'
<1>1. ASSUME NEW s \in Watched, s \notin split'
      PROVE  /\ \A g, h \in Creators(s)' : g = h
             /\ Creators(s)' # {} \/ cache'[s] = NoDetector =>
                    \A d \in 1..Len(made') : made'[d].series # s
             /\ \A i, j \in 1..Len(made') : made'[i].series = s /\ made'[j].series = s => i = j
  <2>1. s \in Watched \ split
    BY <1>1
  <2>2. Creators(s)' \subseteq Creators(s) /\ (cache'[s] = NoDetector => cache[s] = NoDetector)
    BY <1>1
  <2> HIDE DEF Creators
  <2>3. QED
    BY <2>1, <2>2 DEF OneInv
<1>2. QED
  BY <1>1 DEF OneInv

\* A step of one thread that is not creating afterwards.
LEMMA CreatorsShrink ==
    ASSUME StreamTypes, NEW h \in Threads, NEW n \in Nat, NEW c \in CallType(n),
           call' = [call EXCEPT ![h] = c], c.at # "creating", NEW s
    PROVE  Creators(s)' = Creators(s) \ {h}
<1>1. call \in [Threads -> CallType(Len(made))]
  BY DEF StreamTypes
<1>2. call'[h].at # "creating" /\ \A g \in Threads \ {h} : call'[g] = call[g]
  BY <1>1
<1>3. QED
  BY <1>2 DEF Creators

LEMMA OneStep == StreamTypes /\ OneInv /\ [StreamNext]_streamVars => OneInv'
<1> SUFFICES ASSUME StreamTypes, OneInv, [StreamNext]_streamVars
             PROVE  OneInv'
  OBVIOUS
<1>0. Len(made) \in Nat /\ made \in Seq(DetectorType) /\ call \in [Threads -> CallType(Len(made))]
  BY DEF StreamTypes
<1>1. ASSUME NEW h \in Threads, cache' = cache, split' = split, Len(made') = Len(made),
             \A d \in 1..Len(made) : made'[d].series = made[d].series,
             \E c \in CallType(Len(made)) : call' = [call EXCEPT ![h] = c] /\ c.at # "creating"
      PROVE  OneInv'
  <2>1. PICK c \in CallType(Len(made)) : call' = [call EXCEPT ![h] = c] /\ c.at # "creating"
    BY <1>1
  <2>2. ASSUME NEW s \in Watched
        PROVE  Creators(s)' \subseteq Creators(s)
    BY <1>0, <2>1, CreatorsShrink
  <2>3. QED
    BY <1>1, <2>2, OneStays
<1>2. ASSUME NEW h \in Threads, NEW s \in Watched, NEW got \in Queried, Watch(h, s, got)
      PROVE  OneInv'
  BY <1>2, WatchSteps, <1>1
<1>3. ASSUME NEW h \in Threads, Look(h)
      PROVE  OneInv'
  <2> DEFINE s == call[h].series
  <2>1. PICK c \in CallType(Len(made)) :
            /\ call' = [call EXCEPT ![h] = c] /\ c.series = s
            /\ c.at = IF cache[s] = NoDetector THEN "creating" ELSE "returning"
    BY <1>3, LookSteps
  <2>2. /\ call[h].at = "looking" /\ s \in Watched /\ made' = made /\ cache' = cache
        /\ split' = IF Creators(s) # {} THEN split \cup {s} ELSE split
    BY <1>3, LookSteps
  <2>3. call'[h] = c /\ \A g \in Threads \ {h} : call'[g] = call[g]
    BY <1>0, <2>1
  <2>4. CASE cache[s] # NoDetector
    <3>1. c.at # "creating"
      BY <2>1, <2>4
    <3>2. ASSUME NEW r \in Watched
          PROVE  Creators(r)' \subseteq Creators(r)
      BY <1>0, <2>1, <3>1, CreatorsShrink
    <3>3. QED
      BY <2>2, <3>2, OneStays
  <2>5. CASE cache[s] = NoDetector
    <3>1. ASSUME NEW r \in Watched, r \notin split'
          PROVE  /\ \A g, f \in Creators(r)' : g = f
                 /\ Creators(r)' # {} \/ cache'[r] = NoDetector =>
                        \A d \in 1..Len(made') : made'[d].series # r
                 /\ \A i, j \in 1..Len(made') : made'[i].series = r /\ made'[j].series = r => i = j
      <4>1. r \in Watched \ split
        BY <2>2, <3>1
      <4>2. CASE r # s
        <5>1. Creators(r)' = Creators(r)
          BY <2>1, <2>2, <2>3, <4>2 DEF Creators
        <5>2. QED
          BY <2>2, <4>1, <5>1 DEF OneInv
      <4>3. CASE r = s
        <5>1. Creators(r) = {}
          BY <2>2, <3>1, <4>3
        <5>2. Creators(r)' \subseteq {h}
          BY <2>3, <5>1 DEF Creators
        <5>3. QED
          BY <2>2, <2>5, <4>1, <4>3, <5>2 DEF OneInv
      <4>4. QED
        BY <4>2, <4>3
    <3>2. QED
      BY <3>1 DEF OneInv
  <2>6. QED
    BY <2>4, <2>5
<1>4. ASSUME NEW h \in Threads, Create(h)
      PROVE  OneInv'
  <2> DEFINE s == call[h].series
             n == Len(made)
  <2>1. /\ call[h].at = "creating" /\ s \in Watched /\ New(s) \in DetectorType
        /\ made' = Append(made, New(s)) /\ cache' = [cache EXCEPT ![s] = n + 1]
        /\ split' = split
    BY <1>4, CreateSteps
  <2>2. PICK c \in CallType(n + 1) : call' = [call EXCEPT ![h] = c] /\ c.at = "returning"
    BY <1>4, CreateSteps
  <2>3. /\ Len(made') = n + 1 /\ made'[n + 1].series = s
        /\ \A d \in 1..n : made'[d].series = made[d].series
    BY <1>0, <2>1, DetectorAdded DEF New
  <2>4. ASSUME NEW r \in Watched, r \notin split'
        PROVE  /\ \A g, f \in Creators(r)' : g = f
               /\ Creators(r)' # {} \/ cache'[r] = NoDetector =>
                      \A d \in 1..Len(made') : made'[d].series # r
               /\ \A i, j \in 1..Len(made') : made'[i].series = r /\ made'[j].series = r => i = j
    <3>1. r \in Watched \ split
      BY <2>1, <2>4
    <3>2. Creators(r)' = Creators(r) \ {h}
      <4>1. n + 1 \in Nat /\ c.at # "creating"
        BY <1>0, <2>2
      <4>2. QED
        BY <2>2, <4>1, CreatorsShrink
    <3>3. CASE r # s
      <4>1. cache'[r] = cache[r]
        BY <2>1, <3>3 DEF StreamTypes
      <4>2. \A d \in 1..n + 1 : made'[d].series = r => d \in 1..n /\ made[d].series = r
        BY <1>0, <2>3, <3>3
      <4>3. QED
        BY <2>3, <3>1, <3>2, <4>1, <4>2 DEF OneInv
    <3>4. CASE r = s
      <4>1. h \in Creators(r)
        BY <2>1, <3>4 DEF Creators
      <4>2. \A d \in 1..n : made[d].series # r
        BY <3>1, <4>1 DEF OneInv
      <4>3. Creators(r)' = {}
        BY <3>1, <3>2, <4>1 DEF OneInv
      <4>4. cache'[r] = n + 1 /\ n + 1 # NoDetector
        BY <1>0, <2>1, <3>4, StreamingAssumption DEF StreamTypes
      <4>5. \A d \in 1..n + 1 : made'[d].series = r => d = n + 1
        BY <1>0, <2>3, <4>2
      <4>6. QED
        BY <2>3, <4>3, <4>4, <4>5
    <3>5. QED
      BY <3>3, <3>4
  <2>5. QED
    BY <2>4 DEF OneInv
<1>5. ASSUME NEW h \in Threads, Return(h)
      PROVE  OneInv'
  BY <1>5, ReturnSteps, <1>1
<1>6. ASSUME NEW h \in Threads, call[h].at \in Inside, InDetector(h)
      PROVE  OneInv'
  <2>1. PICK c \in CallType(Len(made)) : call' = [call EXCEPT ![h] = c] /\ c.at \in After
    BY <1>6, InForestSteps
  <2>2. ASSUME NEW s \in Watched
        PROVE  Creators(s)' \subseteq Creators(s)
    <3>1. call'[h].at # "creating"
      BY <1>0, <2>1 DEF After, Inside
    <3>2. \A g \in Threads \ {h} : call'[g] = call[g]
      BY <1>0, <2>1
    <3>3. QED
      BY <3>1, <3>2 DEF Creators
  <2>3. /\ cache' = cache /\ split' = split /\ Len(made') = Len(made)
        /\ \A d \in 1..Len(made) : made'[d].series = made[d].series
    BY <1>0, <1>6, InForestSteps
  <2>4. QED
    BY <2>2, <2>3, OneStays
<1>7. CASE (\E s \in Watched : remove_detector(s)) \/ clear
  <2>1. made' = made /\ call' = call /\ split \subseteq split'
    BY <1>7 DEF remove_detector, clear
  <2>2. \A s \in Watched \ split' : cache'[s] = NoDetector => cache[s] = NoDetector
    BY <1>7 DEF remove_detector, clear, StreamTypes
  <2>3. \A s \in Watched : Creators(s)' = Creators(s)
    BY <2>1 DEF Creators
  <2>4. QED
    BY <2>1, <2>2, <2>3, OneStays
<1>8. CASE UNCHANGED streamVars
  <2>1. made' = made /\ call' = call /\ split' = split /\ cache' = cache
    BY <1>8 DEF streamVars
  <2>2. \A s \in Watched : Creators(s)' = Creators(s)
    BY <2>1 DEF Creators
  <2>3. QED
    BY <2>1, <2>2, OneStays
<1>9. QED
  BY <1>2, <1>3, <1>4, <1>5, <1>6, <1>7, <1>8, StreamSteps

LEMMA OneInitially == StreamInit => OneInv
<1>1. ASSUME StreamInit, NEW s \in Watched
      PROVE  Creators(s) = {} /\ 1..Len(made) = {}
  BY <1>1 DEF StreamInit, Creators, NotCalled
<1>2. QED
  BY <1>1 DEF OneInv

LEMMA OneIsOne == StreamTypes /\ OneInv => OneDetector
<1>1. ASSUME StreamTypes, OneInv, NEW i \in 1..Len(made), NEW j \in 1..Len(made), i # j,
             made[i].series = made[j].series
      PROVE  made[i].series \in split
  <2>1. made[i].series \in Watched
    <3>1. made[i] \in DetectorType
      BY <1>1 DEF StreamTypes
    <3>2. QED
      BY <3>1 DEF DetectorType
  <2>2. QED
    BY <1>1, <2>1 DEF OneInv
<1>2. QED
  BY <1>1 DEF OneDetector

-----------------------------------------------------------------------------
(***************************************************************************)
(* A detector that no two threads were in at once: where its thread is     *)
(* tells exactly which points each tree holds.                             *)
(***************************************************************************)

\* The newest points of a tree when n were numbered.
Newest(n) == {i \in 1..n : i + TreeSize > n}

\* What the trees of m hold when the thread that is in it has c at hand.
Phase(m, c) ==
    /\ m.odd = 0 /\ m.spoilt = {}
    /\ c.at # "detecting" => c.point = "finite"
    /\ c.at \in {"detecting", "loading", "storing"} =>
          c.tree = 1 /\ \A k \in Trees : m.leaves[k] = Newest(m.index)
    /\ c.at = "storing" => c.loaded = m.index
    /\ c.at \in {"measuring", "choosing", "forgetting", "inserting"} =>
          /\ m.index >= 1
          /\ \A k \in Trees : k < c.tree => m.leaves[k] = Newest(m.index)
          /\ \A k \in Trees : k > c.tree => m.leaves[k] = Newest(m.index - 1)
    /\ c.at \in {"measuring", "choosing", "forgetting"} =>
          m.leaves[c.tree] = Newest(m.index - 1)
    /\ c.at \in {"choosing", "forgetting"} => m.index > TreeSize
    /\ c.at = "forgetting" => c.oldest = m.index - TreeSize
    /\ c.at = "inserting" => m.leaves[c.tree] = Newest(m.index) \ {m.index}

\* What holds of a detector that was never shared nor given an odd value.
Alone(d) ==
    /\ made[d].odd = 0 /\ made[d].spoilt = {}
    /\ \A h \in Threads : call[h].at = "raised" => call[h].detector # d
    /\ \A g, h \in InIt(d) : g = h
    /\ \A h \in InIt(d) : Phase(made[d], call[h])
    /\ InIt(d) = {} => \A k \in Trees : made[d].leaves[k] = Newest(made[d].index)

AloneInv == \A d \in 1..Len(made) : d \notin shared \cup tainted => Alone(d)

\* The newest points: how many they are, the eldest of them, and what another
\* point makes of them.
LEMMA NewestPoints ==
    ASSUME NEW n \in Nat
    PROVE  /\ Newest(n) \in SUBSET Nat
           /\ n < TreeSize => /\ Newest(n) = 1..n
                              /\ Newest(n + 1) = Newest(n) \cup {n + 1}
           /\ n >= TreeSize => /\ Newest(n) = n - TreeSize + 1 .. n
                               /\ Newest(n + 1) = (Newest(n) \ {n - TreeSize + 1}) \cup {n + 1}
           /\ n + 1 \notin Newest(n)
<1>1. TreeSize \in Nat /\ TreeSize >= 1
  BY StreamingAssumption
<1>2. QED
  BY <1>1 DEF Newest

LEMMA NewestFull ==
    ASSUME NEW n \in Nat
    PROVE  Full(Newest(n)) <=> n >= TreeSize
<1>1. TreeSize \in Nat /\ TreeSize >= 1
  BY StreamingAssumption
<1>2. CASE n < TreeSize
  <2>1. Newest(n) = 1..n
    BY <1>2, NewestPoints
  <2>2. Cardinality(Newest(n)) = n
    BY <2>1, FS_Interval
  <2>3. QED
    BY <1>1, <1>2, <2>2 DEF Full
<1>3. CASE n >= TreeSize
  <2>1. Newest(n) = n - TreeSize + 1 .. n
    BY <1>3, NewestPoints
  <2>2. Cardinality(Newest(n)) = TreeSize
    BY <1>1, <1>3, <2>1, FS_Interval
  <2>3. QED
    BY <1>1, <1>3, <2>2 DEF Full
<1>4. QED
  BY <1>1, <1>2, <1>3

\* A thread alone in a detector goes on to the next phase of its call, and never
\* raises, if the value it brings is finite.
LEMMA PhaseStep ==
    ASSUME StreamTypes, NEW h \in Threads, call[h].at \in Inside, InDetector(h),
           NEW d, d = call[h].detector, d \notin tainted', InIt(d) \subseteq {h},
           Phase(made[d], call[h])
    PROVE  /\ call'[h].at # "raised"
           /\ made'[d].odd = 0 /\ made'[d].spoilt = {}
           /\ call'[h].at \in Inside => call'[h].detector = d /\ Phase(made'[d], call'[h])
           /\ call'[h].at \notin Inside =>
                  \A k \in Trees : made'[d].leaves[k] = Newest(made'[d].index)
<1> DEFINE c == call[h]
           m == made[d]
           i == m.index
           k == c.tree
<1>1. /\ c \in [at: Inside, detector: 1..Len(made), point: Shingles,
                loaded: Nat, tree: Trees, oldest: Nat]
      /\ call \in [Threads -> CallType(Len(made))] /\ made \in Seq(DetectorType)
  BY CallFields DEF StreamTypes
<1>2. d \in 1..Len(made) /\ m \in DetectorType /\ k \in Trees
  BY <1>1
<1>3. i \in Nat /\ Trees \in SUBSET Nat /\ k \in Nat /\ m.leaves \in [Trees -> SUBSET Nat]
  BY <1>2 DEF Trees, DetectorType
<1>4. TreeSize \in Nat /\ TreeSize >= 1
  BY StreamingAssumption
<1>0. /\ m.odd = 0 /\ m.spoilt = {}
      /\ c.at # "detecting" => c.point = "finite"
  BY DEF Phase
<1>5. ASSUME NEW place, Goto(h, place)
      PROVE  /\ call'[h].at = place /\ call'[h].detector = d /\ call'[h].tree = k
             /\ call'[h].point = c.point /\ call'[h].loaded = c.loaded /\ call'[h].oldest = c.oldest
  BY <1>1, <1>5 DEF Goto
<1>6. ASSUME Answer(h)
      PROVE  call'[h].at \notin Inside /\ call'[h].at # "raised"
  BY <1>1, <1>6 DEF Answer, Inside
<1>7. ASSUME NEW leaves \in SUBSET Nat, SetLeaves(h, leaves)
      PROVE  /\ made'[d].leaves[k] = leaves /\ made'[d].index = i
             /\ made'[d].odd = 0 /\ made'[d].spoilt = {}
             /\ \A t \in Trees : t # k => made'[d].leaves[t] = m.leaves[t]
  <2> DEFINE x == [m EXCEPT !.leaves[k] = leaves]
  <2>1. made' = [made EXCEPT ![d] = x]
    BY <1>1, <1>2, <1>7 DEF SetLeaves
  <2>2. made'[d] = x
    BY <1>1, <1>2, <2>1
  <2>3. /\ x.leaves[k] = leaves /\ x.index = i /\ x.odd = m.odd /\ x.spoilt = m.spoilt
        /\ \A t \in Trees : t # k => x.leaves[t] = m.leaves[t]
    <3> HIDE DEF m, k
    <3>1. QED
      BY <1>2, <1>7 DEF DetectorType, i
  <2> HIDE DEF x
  <2>4. QED
    BY <2>2, <2>3, <1>0
<1>8. CASE Buffer(h)
  <2>1. c.at = "detecting" /\ c.point # "odd"
    <3>1. c.point = "odd" => d \in tainted'
      BY <1>8 DEF Buffer
    <3>2. QED
      BY <1>8, <3>1 DEF Buffer
  <2>2. PICK b : /\ made' = [made EXCEPT ![d].buffer = b, ![d].odd = 0]
                 /\ \/ Answer(h)
                    \/ \E point \in Points(0) :
                          call' = [call EXCEPT ![h].at = "loading", ![h].point = point]
    BY <1>8, <1>0, <2>1 DEF Buffer
  <2>3. made'[d].leaves = m.leaves /\ made'[d].index = i /\ made'[d].odd = 0 /\ made'[d].spoilt = {}
    BY <1>1, <1>2, <1>0, <2>2 DEF DetectorType
  <2>4. k = 1 /\ \A t \in Trees : m.leaves[t] = Newest(i)
    BY <2>1 DEF Phase
  <2>5. CASE Answer(h)
    BY <1>6, <2>3, <2>4, <2>5
  <2>6. CASE \E point \in Points(0) :
                 call' = [call EXCEPT ![h].at = "loading", ![h].point = point]
    <3>1. call' = [call EXCEPT ![h].at = "loading", ![h].point = "finite"]
      BY <2>6 DEF Points
    <3>2. /\ call'[h].at = "loading" /\ call'[h].detector = d /\ call'[h].tree = k
          /\ call'[h].point = "finite"
      BY <1>1, <3>1
    <3>3. QED
      BY <2>3, <2>4, <3>2 DEF Phase
  <2>7. QED
    BY <2>2, <2>5, <2>6
<1>9. CASE Load(h)
  <2>1. /\ c.at = "loading" /\ made' = made /\ call'[h].at = "storing" /\ call'[h].loaded = i
        /\ call'[h].tree = k /\ call'[h].detector = d /\ call'[h].point = c.point
    BY <1>1, <1>9 DEF Load, Detector
  <2>2. QED
    BY <2>1 DEF Phase, Inside
<1>10. CASE Store(h)
  <2>1. c.at = "storing" /\ Goto(h, "measuring") /\ made' = [made EXCEPT ![d].index = c.loaded + 1]
    BY <1>10 DEF Store
  <2>2. c.loaded = i /\ k = 1 /\ \A t \in Trees : m.leaves[t] = Newest(i)
    BY <2>1 DEF Phase
  <2>3. /\ made'[d].index = i + 1 /\ made'[d].leaves = m.leaves
        /\ made'[d].odd = 0 /\ made'[d].spoilt = {}
    BY <1>1, <1>2, <1>0, <2>1, <2>2 DEF DetectorType
  <2>4. i + 1 - 1 = i /\ i + 1 >= 1 /\ \A t \in Trees : ~(t < 1)
    BY <1>3 DEF Trees
  <2>5. /\ call'[h].at = "measuring" /\ call'[h].detector = d /\ call'[h].tree = 1
        /\ call'[h].point = "finite"
    BY <1>5, <1>0, <2>1, <2>2
  <2>6. 1 \in Trees
    BY <1>2, <2>2
  <2>7. /\ made'[d].index >= 1 /\ Newest(made'[d].index - 1) = Newest(i)
        /\ \A t \in Trees : made'[d].leaves[t] = Newest(made'[d].index - 1)
    <3>1. made'[d].index - 1 = i /\ made'[d].index >= 1
      BY <1>3, <2>3
    <3>2. \A t \in Trees : made'[d].leaves[t] = Newest(i)
      BY <2>2, <2>3
    <3>3. QED
      BY <3>1, <3>2
  <2>8. QED
    BY <2>3, <2>4, <2>5, <2>6, <2>7 DEF Phase, Inside
<1>11. CASE Measure(h)
  <2>1. /\ c.at = "measuring" /\ made' = made
        /\ Goto(h, IF Full(m.leaves[k]) THEN "choosing" ELSE "inserting")
    BY <1>11 DEF Measure, Leaves, Detector
  <2>2. /\ i >= 1 /\ m.leaves[k] = Newest(i - 1)
        /\ \A t \in Trees : t < k => m.leaves[t] = Newest(i)
        /\ \A t \in Trees : t > k => m.leaves[t] = Newest(i - 1)
    BY <2>1 DEF Phase
  <2>3. i - 1 \in Nat /\ i - 1 + 1 = i
    BY <1>3, <2>2
  <2>4. Full(m.leaves[k]) <=> i - 1 >= TreeSize
    BY <2>2, <2>3, NewestFull
  <2>5. CASE i - 1 >= TreeSize
    <3>1. Goto(h, "choosing") /\ i > TreeSize
      BY <1>3, <1>4, <2>1, <2>4, <2>5
    <3>2. QED
      BY <1>5, <1>0, <2>1, <2>2, <3>1 DEF Phase, Inside
  <2>6. CASE ~(i - 1 >= TreeSize)
    <3>1. Goto(h, "inserting")
      BY <2>1, <2>4, <2>6
    <3>2. Newest(i - 1) = Newest(i) \ {i}
      <4>1. i - 1 < TreeSize
        BY <1>3, <1>4, <2>6
      <4>2. Newest(i - 1 + 1) = Newest(i - 1) \cup {i - 1 + 1} /\ i - 1 + 1 \notin Newest(i - 1)
        BY <2>3, <4>1, NewestPoints
      <4>3. QED
        BY <2>3, <4>2
    <3>3. QED
      BY <1>5, <1>0, <2>1, <2>2, <3>1, <3>2 DEF Phase, Inside
  <2>7. QED
    BY <2>5, <2>6
<1>12. CASE Choose(h)
  <2>1. c.at = "choosing" /\ made' = made
    BY <1>12 DEF Choose
  <2>2. /\ i >= 1 /\ m.leaves[k] = Newest(i - 1) /\ i > TreeSize
        /\ \A t \in Trees : t < k => m.leaves[t] = Newest(i)
        /\ \A t \in Trees : t > k => m.leaves[t] = Newest(i - 1)
    BY <2>1 DEF Phase
  <2>3. m.leaves[k] = i - TreeSize .. i - 1
    <3>1. i - 1 \in Nat /\ i - 1 >= TreeSize /\ i - 1 - TreeSize + 1 = i - TreeSize
      BY <1>3, <1>4, <2>2
    <3>2. QED
      BY <2>2, <3>1, NewestPoints
  <2>4. m.leaves[k] # {}
    <3>1. i - 1 \in i - TreeSize .. i - 1
      BY <1>3, <1>4, <2>2
    <3>2. QED
      BY <2>3, <3>1
  <2>5. PICK e \in m.leaves[k] : /\ Eldest(m.leaves[k], e)
                                 /\ call' = [call EXCEPT ![h].at = "forgetting", ![h].oldest = e]
    BY <1>12, <2>4 DEF Choose, Leaves, Detector
  <2>6. e = i - TreeSize
    <3>1. i - TreeSize \in i - TreeSize .. i - 1
      BY <1>3, <1>4, <2>2
    <3>2. e \in i - TreeSize .. i - 1 /\ \A j \in i - TreeSize .. i - 1 : e <= j
      BY <2>3, <2>5 DEF Eldest
    <3>3. e <= i - TreeSize
      BY <3>1, <3>2
    <3>4. QED
      BY <1>3, <1>4, <3>2, <3>3
  <2>7. /\ call'[h].at = "forgetting" /\ call'[h].detector = d /\ call'[h].tree = k
        /\ call'[h].oldest = i - TreeSize /\ call'[h].point = c.point
    BY <1>1, <2>5, <2>6
  <2>8. QED
    BY <1>0, <2>1, <2>2, <2>7 DEF Phase, Inside
<1>13. CASE Forget(h)
  <2>1. c.at = "forgetting"
    BY <1>13 DEF Forget
  <2>2. /\ i >= 1 /\ m.leaves[k] = Newest(i - 1) /\ i > TreeSize /\ c.oldest = i - TreeSize
        /\ \A t \in Trees : t < k => m.leaves[t] = Newest(i)
        /\ \A t \in Trees : t > k => m.leaves[t] = Newest(i - 1)
    BY <2>1 DEF Phase
  <2>3. i - 1 \in Nat /\ i - 1 >= TreeSize /\ i - 1 + 1 = i /\ i - 1 - TreeSize + 1 = i - TreeSize
    BY <1>3, <1>4, <2>2
  <2>4. /\ Newest(i - 1) = i - TreeSize .. i - 1
        /\ Newest(i) = (Newest(i - 1) \ {i - TreeSize}) \cup {i} /\ i \notin Newest(i - 1)
    <3>1. /\ Newest(i - 1) = i - 1 - TreeSize + 1 .. i - 1
          /\ Newest(i - 1 + 1) = (Newest(i - 1) \ {i - 1 - TreeSize + 1}) \cup {i - 1 + 1}
          /\ i - 1 + 1 \notin Newest(i - 1)
      BY <2>3, NewestPoints
    <3>2. QED
      BY <2>3, <3>1
  <2>5. c.oldest \in m.leaves[k]
    <3>1. i - TreeSize \in i - TreeSize .. i - 1
      BY <1>3, <1>4, <2>2
    <3>2. QED
      BY <2>2, <2>4, <3>1
  <2>6. Goto(h, "inserting") /\ SetLeaves(h, m.leaves[k] \ {c.oldest})
    BY <1>13, <2>5 DEF Forget, Leaves, Detector
  <2>7. m.leaves[k] \ {c.oldest} \in SUBSET Nat /\ m.leaves[k] \ {c.oldest} = Newest(i) \ {i}
    BY <1>2, <1>3, <2>2, <2>4
  <2>8. /\ made'[d].leaves[k] = Newest(i) \ {i} /\ made'[d].index = i
        /\ made'[d].odd = 0 /\ made'[d].spoilt = {}
        /\ \A t \in Trees : t # k => made'[d].leaves[t] = m.leaves[t]
    BY <1>7, <2>6, <2>7
  <2>9. ASSUME NEW t \in Trees
        PROVE  /\ t < k => made'[d].leaves[t] = Newest(i)
               /\ t > k => made'[d].leaves[t] = Newest(i - 1)
    <3>1. t \in Nat
      BY <1>3
    <3>2. t < k \/ t > k => t # k
      BY <1>3, <3>1
    <3>3. QED
      BY <2>2, <2>8, <3>2
  <2>10. /\ call'[h].at = "inserting" /\ call'[h].detector = d /\ call'[h].tree = k
         /\ call'[h].point = "finite"
    BY <1>5, <1>0, <2>1, <2>6
  <2>11. QED
    BY <2>2, <2>8, <2>9, <2>10 DEF Phase, Inside
<1>14. CASE Insert(h)
  <2>1. c.at = "inserting"
    BY <1>14 DEF Insert
  <2>2. /\ i >= 1 /\ m.leaves[k] = Newest(i) \ {i}
        /\ \A t \in Trees : t < k => m.leaves[t] = Newest(i)
        /\ \A t \in Trees : t > k => m.leaves[t] = Newest(i - 1)
    BY <2>1 DEF Phase
  <2>3. i \in Newest(i) /\ Newest(i) \in SUBSET Nat
    BY <1>3, <1>4, <2>2 DEF Newest
  <2>4. c.point = "finite" /\ i \notin m.leaves[k] /\ Takes(h, i)
    BY <1>0, <2>1, <2>2 DEF Takes, Leaves, Detector
  <2>5. /\ made'[d].index = i /\ made'[d].odd = 0 /\ made'[d].spoilt = {}
        /\ made'[d].leaves[k] = m.leaves[k] \cup {i}
        /\ \A t \in Trees : t # k => made'[d].leaves[t] = m.leaves[t]
    BY <1>14, <1>0, <2>4, PointInserted DEF Detector
  <2>6. /\ made'[d].leaves[k] = Newest(i)
        /\ IF k + 1 \in Trees
           THEN call' = [call EXCEPT ![h].at = "measuring", ![h].tree = @ + 1]
           ELSE Answer(h)
    <3>1. m.leaves[k] \cup {i} = Newest(i)
      BY <2>2, <2>3
    <3>2. QED
      BY <1>14, <2>4, <2>5, <3>1 DEF Insert, Detector
  <2>7. CASE k + 1 \in Trees
    <3>1. /\ call'[h].at = "measuring" /\ call'[h].tree = k + 1 /\ call'[h].detector = d
          /\ call'[h].point = "finite"
      BY <1>1, <2>4, <2>6, <2>7
    <3>2. ASSUME NEW t \in Trees
          PROVE  (t < k + 1 => t = k \/ (t < k /\ t # k)) /\ (t > k + 1 => t > k /\ t # k)
      <4>1. t \in Nat
        BY <1>3
      <4>2. QED
        BY <1>3, <4>1
    <3>3. made'[d].leaves[k + 1] = Newest(i - 1)
      BY <1>3, <2>2, <2>5, <2>7
    <3>4. QED
      BY <2>2, <2>5, <2>6, <3>1, <3>2, <3>3 DEF Phase, Inside
  <2>8. CASE k + 1 \notin Trees
    <3>1. \A t \in Trees : t = k \/ (t < k /\ t # k)
      BY <1>2, <1>3, <2>8, StreamingAssumption DEF Trees
    <3>2. QED
      BY <1>6, <2>2, <2>5, <2>6, <2>8, <3>1
  <2>9. QED
    BY <2>7, <2>8
<1>15. CASE Collide(h)
  BY <1>15 DEF Collide
<1>16. CASE Neutral(h) \/ \E batch \in Batches, decomposed \in BOOLEAN : DetectMany(h, batch, decomposed)
  <2>1. c.at = "detecting" /\ made' = made
    BY <1>16 DEF Neutral, DetectMany
  <2>2. call'[h].at \notin Inside /\ call'[h].at # "raised"
    BY <1>1, <1>6, <1>16 DEF Neutral, DetectMany, Inside
  <2>3. QED
    BY <1>0, <2>1, <2>2 DEF Phase
<1>18. QED
  BY <1>8, <1>9, <1>10, <1>11, <1>12, <1>13, <1>14, <1>15, <1>16 DEF InDetector

LEMMA InItIsInside ==
    ASSUME StreamTypes, NEW d
    PROVE  InIt(d) = {h \in Threads : call[h].at \in Inside /\ call[h].detector = d}
<1>1. \A h \in Threads : call[h].at \in Over \cup Asking \cup Inside
  BY CallFields
<1>2. QED
  BY <1>1 DEF InIt, Over, Asking, Inside

\* A step of one thread that is not in detector d before or after.
LEMMA AloneElsewhere ==
    ASSUME StreamTypes, StreamTypes', NEW h \in Threads, NEW n \in Nat, NEW c \in CallType(n),
           call' = [call EXCEPT ![h] = c], NEW d, made'[d] = made[d], Alone(d),
           call[h].at \in Inside => call[h].detector # d,
           c.at \in Inside \cup {"raised"} => c.detector # d
    PROVE  Alone(d)'
<1>1. call \in [Threads -> CallType(Len(made))]
  BY DEF StreamTypes
<1>2. call'[h] = c /\ \A g \in Threads \ {h} : call'[g] = call[g]
  BY <1>1
<1>3. InIt(d) = {g \in Threads : call[g].at \in Inside /\ call[g].detector = d}
  BY InItIsInside
<1>4. InIt(d)' = {g \in Threads : call'[g].at \in Inside /\ call'[g].detector = d}
  <2>1. \A g \in Threads : call'[g].at \in Over \cup Asking \cup Inside
    BY DEF StreamTypes, CallType, NotCalled, Over, Asking, Inside
  <2>2. QED
    BY <2>1 DEF InIt, Over, Asking, Inside
<1>5. InIt(d)' = InIt(d) /\ h \notin InIt(d)
  BY <1>2, <1>3, <1>4
<1>6. \A g \in InIt(d) : g \in Threads /\ call'[g] = call[g]
  BY <1>2, <1>3, <1>5
<1> HIDE DEF InIt
<1>7. \A g \in Threads : call'[g].at = "raised" => call'[g].detector # d
  BY <1>2 DEF Alone
<1>8. QED
  BY <1>5, <1>6, <1>7 DEF Alone

LEMMA AloneStep ==
    StreamTypes /\ StreamTypes' /\ AloneInv /\ [StreamNext]_streamVars => AloneInv'
<1> SUFFICES ASSUME StreamTypes, StreamTypes', AloneInv, [StreamNext]_streamVars
             PROVE  AloneInv'
  OBVIOUS
<1>0. /\ Len(made) \in Nat /\ made \in Seq(DetectorType)
      /\ call \in [Threads -> CallType(Len(made))] /\ NoDetector \notin 1..Len(made)
  BY StreamingAssumption DEF StreamTypes
<1>1. ASSUME NEW h \in Threads, made' = made, shared' = shared, tainted' = tainted, call[h].at \notin Inside,
             NEW c \in CallType(Len(made)), call' = [call EXCEPT ![h] = c], c.at \notin Inside,
             c.at = "raised" => c.detector = NoDetector
      PROVE  AloneInv'
  <2>1. ASSUME NEW d \in 1..Len(made), d \notin shared \cup tainted
        PROVE  Alone(d)'
    <3>1. Alone(d)
      BY <2>1 DEF AloneInv
    <3>2. c.at \in Inside \cup {"raised"} => c.detector # d
      BY <1>0, <1>1
    <3>3. QED
      BY <1>0, <1>1, <3>1, <3>2, AloneElsewhere
  <2>2. QED
    BY <1>1, <2>1 DEF AloneInv
<1>2. ASSUME NEW h \in Threads, NEW s \in Watched, NEW got \in Queried, Watch(h, s, got)
      PROVE  AloneInv'
  <2>1. made' = made /\ shared' = shared /\ tainted' = tainted /\ call[h].at \notin Inside
    BY <1>2, WatchSteps DEF Over, Inside
  <2>2. PICK c \in CallType(Len(made)) :
            /\ call' = [call EXCEPT ![h] = c] /\ c.at \in {"looking", "idle", "raised"}
            /\ c.at = "raised" => c.detector = NoDetector
    BY <1>2, WatchSteps
  <2>3. c.at \notin Inside
    BY <2>2 DEF Inside
  <2>4. QED
    BY <1>1, <2>1, <2>2, <2>3
<1>3. ASSUME NEW h \in Threads, Look(h)
      PROVE  AloneInv'
  <2>1. made' = made /\ shared' = shared /\ tainted' = tainted /\ call[h].at \notin Inside
    BY <1>3, LookSteps DEF Inside
  <2>2. PICK c \in CallType(Len(made)) :
            call' = [call EXCEPT ![h] = c] /\ c.at \in {"creating", "returning"}
    BY <1>3, LookSteps
  <2>3. c.at \notin Inside /\ c.at # "raised"
    BY <2>2 DEF Inside
  <2>4. QED
    BY <1>1, <2>1, <2>2, <2>3
<1>4. ASSUME NEW h \in Threads, Create(h)
      PROVE  AloneInv'
  <2> DEFINE n == Len(made)
             s == call[h].series
  <2>1. /\ made' = Append(made, New(s)) /\ New(s) \in DetectorType /\ shared' = shared
        /\ tainted' = tainted
        /\ \A k \in Trees : New(s).leaves[k] = {}
    BY <1>4, CreateSteps
  <2>2. call[h].at \notin Inside
    BY <1>4 DEF Create, Inside
  <2>3. PICK c \in CallType(n + 1) : call' = [call EXCEPT ![h] = c] /\ c.at = "returning"
    BY <1>4, CreateSteps
  <2>4. /\ Len(made') = n + 1 /\ made'[n + 1] = New(s) /\ \A d \in 1..n : made'[d] = made[d]
    BY <1>0, <2>1, DetectorAdded
  <2>5. c.at \notin Inside \cup {"raised"} /\ n + 1 \in Nat
    BY <1>0, <2>3 DEF Inside
  <2>6. ASSUME NEW d \in 1..n, d \notin shared \cup tainted
        PROVE  Alone(d)'
    <3>1. Alone(d) /\ made'[d] = made[d]
      BY <2>4, <2>6 DEF AloneInv
    <3>2. QED
      BY <2>2, <2>3, <2>5, <3>1, AloneElsewhere
  <2>7. ASSUME NEW d, d = n + 1
        PROVE  Alone(d)'
    <3>1. \A g \in Threads : /\ call[g].at \in Inside => call[g].detector # d
                             /\ call[g].at = "raised" => call[g].detector # d
      <4>1. \A g \in Threads : /\ call[g].at \in Inside => call[g].detector \in 1..n
                               /\ call[g].at = "raised" => call[g].detector \in 1..n \cup {NoDetector}
        BY CallFields
      <4>2. d \notin 1..n /\ d # NoDetector
        BY <1>0, <2>7, StreamingAssumption
      <4>3. QED
        BY <4>1, <4>2
    <3>2. \A g \in Threads : g # h => call'[g] = call[g]
      BY <1>0, <2>3
    <3>3. call'[h].at = "returning"
      BY <1>0, <2>3
    <3>4. \A g \in Threads : /\ call'[g].at \in Inside => call'[g].detector # d
                             /\ call'[g].at = "raised" => call'[g].detector # d
      BY <3>1, <3>2, <3>3 DEF Inside
    <3>5. InIt(d)' = {}
      <4>1. \A g \in Threads : call'[g].at \in Over \cup Asking \cup Inside
        BY DEF StreamTypes, CallType, NotCalled, Over, Asking, Inside
      <4>2. QED
        BY <3>4, <4>1 DEF InIt, Over, Asking, Inside
    <3>6. \A k \in Trees : made'[d].leaves[k] = Newest(made'[d].index)
      <4>1. made'[d].index = 0 /\ \A k \in Trees : made'[d].leaves[k] = {}
        BY <2>1, <2>4, <2>7 DEF New
      <4>2. Newest(0) = {}
        BY DEF Newest
      <4>3. QED
        BY <4>1, <4>2
    <3>7. made'[d].odd = 0 /\ made'[d].spoilt = {}
      BY <2>1, <2>4, <2>7 DEF New
    <3> HIDE DEF InIt
    <3>8. QED
      BY <3>4, <3>5, <3>6, <3>7 DEF Alone
  <2>8. ASSUME NEW d \in 1..Len(made'), d \notin shared' \cup tainted'
        PROVE  Alone(d)'
    <3>1. d \in 1..n \/ d = n + 1
      BY <1>0, <2>4
    <3>2. QED
      BY <2>1, <2>6, <2>7, <2>8, <3>1
  <2>9. QED
    BY <2>8 DEF AloneInv
<1>5. ASSUME NEW h \in Threads, Return(h)
      PROVE  AloneInv'
  <2>1. made' = made /\ tainted' = tainted /\ call[h].at \notin Inside
    BY <1>5, ReturnSteps DEF Inside
  <2>2. PICK c \in CallType(Len(made)) :
            /\ call' = [call EXCEPT ![h] = c]
            /\ \/ c.at = "raised" /\ c.detector = NoDetector /\ shared' = shared
               \/ /\ c.at = "detecting" /\ c.detector \in 1..Len(made) /\ c.tree = 1
                  /\ shared' = IF InIt(c.detector) # {} THEN shared \cup {c.detector} ELSE shared
    BY <1>5, ReturnSteps
  <2>3. CASE c.at = "raised"
    BY <1>1, <2>1, <2>2, <2>3 DEF Inside
  <2>4. CASE c.at = "detecting"
    <3>1. ASSUME NEW d \in 1..Len(made), d \notin shared' \cup tainted'
          PROVE  Alone(d)'
      <4>1. Alone(d)
        <5>1. shared \subseteq shared' /\ tainted' = tainted
          BY <2>1, <2>2
        <5>2. QED
          BY <3>1, <5>1 DEF AloneInv
      <4>2. CASE c.detector # d
        BY <1>0, <2>1, <2>2, <2>4, <4>1, <4>2, AloneElsewhere
      <4>3. CASE c.detector = d
        <5>1. InIt(d) = {}
          BY <2>2, <2>4, <3>1, <4>3
        <5>2. call'[h] = c /\ \A g \in Threads : g # h => call'[g] = call[g]
          BY <1>0, <2>2
        <5>3. \A g \in Threads : g # h => ~(call[g].at \in Inside /\ call[g].detector = d)
          BY <5>1, InItIsInside
        <5>4. InIt(d)' = {h}
          <6>1. \A g \in Threads : call'[g].at \in Over \cup Asking \cup Inside
            BY DEF StreamTypes, CallType, NotCalled, Over, Asking, Inside
          <6>2. InIt(d)' = {g \in Threads : call'[g].at \in Inside /\ call'[g].detector = d}
            BY <6>1 DEF InIt, Over, Asking, Inside
          <6>3. "detecting" \in Inside
            BY DEF Inside
          <6>4. QED
            BY <2>4, <4>3, <5>2, <5>3, <6>2, <6>3
        <5>5. Phase(made'[d], call'[h])
          BY <2>1, <2>2, <2>4, <4>1, <5>1, <5>2 DEF Alone, Phase
        <5>6. \A g \in Threads : call'[g].at = "raised" => call'[g].detector # d
          BY <2>4, <4>1, <5>2 DEF Alone
        <5>7. made'[d].odd = 0 /\ made'[d].spoilt = {}
          BY <2>1, <4>1 DEF Alone
        <5> HIDE DEF InIt
        <5>8. QED
          BY <5>4, <5>5, <5>6, <5>7 DEF Alone
      <4>4. QED
        BY <4>2, <4>3
    <3>2. QED
      BY <2>1, <3>1 DEF AloneInv
  <2>5. QED
    BY <2>2, <2>3, <2>4
<1>6. ASSUME NEW h \in Threads, call[h].at \in Inside, InDetector(h)
      PROVE  AloneInv'
  <2> DEFINE e == call[h].detector
  <2>1. PICK c \in CallType(Len(made)) : call' = [call EXCEPT ![h] = c] /\ c.detector = e /\ c.at \in After
    BY <1>6, InForestSteps
  <2>2. /\ e \in 1..Len(made) /\ shared' = shared /\ tainted \subseteq tainted'
        /\ Len(made') = Len(made)
        /\ \A d \in 1..Len(made) : d # e => made'[d] = made[d]
    BY <1>0, <1>6, InForestSteps
  <2>3. call'[h] = c /\ \A g \in Threads : g # h => call'[g] = call[g]
    BY <1>0, <2>1
  <2>4. ASSUME NEW d \in 1..Len(made), d \notin shared \cup tainted'
        PROVE  Alone(d)'
    <3>1. Alone(d)
      BY <2>2, <2>4 DEF AloneInv
    <3>2. CASE e # d
      BY <1>0, <2>1, <2>2, <3>1, <3>2, AloneElsewhere
    <3>3. CASE e = d
      <4>1. h \in InIt(d) /\ InIt(d) = {g \in Threads : call[g].at \in Inside /\ call[g].detector = d}
        BY <1>6, <3>3, InItIsInside
      <4>2. InIt(d) \subseteq {h} /\ Phase(made[d], call[h])
        <5> HIDE DEF InIt
        <5>1. QED
          BY <3>1, <4>1 DEF Alone
      <4>3. /\ call'[h].at # "raised"
            /\ made'[d].odd = 0 /\ made'[d].spoilt = {}
            /\ call'[h].at \in Inside => call'[h].detector = d /\ Phase(made'[d], call'[h])
            /\ call'[h].at \notin Inside =>
                   \A k \in Trees : made'[d].leaves[k] = Newest(made'[d].index)
        BY <1>6, <2>4, <3>3, <4>2, PhaseStep
      <4>4. InIt(d)' = IF call'[h].at \in Inside THEN {h} ELSE {}
        <5>1. \A g \in Threads : call'[g].at \in Over \cup Asking \cup Inside
          BY DEF StreamTypes, CallType, NotCalled, Over, Asking, Inside
        <5>2. InIt(d)' = {g \in Threads : call'[g].at \in Inside /\ call'[g].detector = d}
          BY <5>1 DEF InIt, Over, Asking, Inside
        <5>3. \A g \in Threads : g # h => ~(call'[g].at \in Inside /\ call'[g].detector = d)
          BY <2>3, <4>1, <4>2
        <5>4. QED
          BY <4>3, <5>2, <5>3
      <4>5. \A g \in Threads : call'[g].at = "raised" => call'[g].detector # d
        BY <2>3, <3>1, <4>3 DEF Alone
      <4> HIDE DEF InIt
      <4>6. QED
        BY <4>3, <4>4, <4>5 DEF Alone
    <3>4. QED
      BY <3>2, <3>3
  <2>5. QED
    BY <2>2, <2>4 DEF AloneInv
<1>7. CASE (\E s \in Watched : remove_detector(s)) \/ clear \/ UNCHANGED streamVars
  <2>1. made' = made /\ call' = call /\ shared' = shared /\ tainted' = tainted
    BY <1>7 DEF remove_detector, clear, streamVars
  <2>2. QED
    BY <2>1 DEF AloneInv, Alone, InIt
<1>8. QED
  BY <1>2, <1>3, <1>4, <1>5, <1>6, <1>7, StreamSteps

LEMMA AloneInitially == StreamInit => AloneInv
<1>1. ASSUME StreamInit
      PROVE  1..Len(made) = {}
  BY <1>1 DEF StreamInit
<1>2. QED
  BY <1>1 DEF AloneInv

-----------------------------------------------------------------------------
(***************************************************************************)
(* Batches.                                                                *)
(***************************************************************************)

BatchInv ==
    \A h \in Threads : call[h].at = "answered" /\ "batch" \in DOMAIN call[h] =>
        \E decomposed \in BOOLEAN :
            call[h].results = Verdicts(call[h].batch, Clean(call[h].batch, decomposed))

\* What detect_many makes of a batch.
LEMMA VerdictsAreWhole ==
    ASSUME NEW batch, Len(batch) \in Nat, NEW decomposed \in BOOLEAN
    PROVE  LET results == Verdicts(batch, Clean(batch, decomposed))
               judged == {t \in DOMAIN results : results[t] = "judged"}
           IN  IF judged = {} THEN DOMAIN results = Times(batch)
               ELSE NonNull(batch) \subseteq judged /\ Cardinality(judged) >= MinSamples
<1> DEFINE clean == Clean(batch, decomposed)
           results == Verdicts(batch, clean)
           judged == {t \in DOMAIN results : results[t] = "judged"}
<1>1. MinSamples \in Nat /\ MinSamples >= 1
  BY StreamingAssumption
<1>2. IsFiniteSet(clean) /\ Cardinality(clean) \in Nat
  <2>1. IsFiniteSet(Times(batch)) /\ clean \subseteq Times(batch)
    BY FS_Interval DEF Times, NonNull, Clean
  <2>2. QED
    BY <2>1, FS_Subset, FS_CardinalityType
<1>3. NonNull(batch) \subseteq clean
  BY DEF NonNull, Clean
<1> HIDE DEF clean
<1>4. CASE Cardinality(clean) < MinSamples
  <2>1. results = [t \in Times(batch) |-> "neutral"]
    BY <1>4 DEF Verdicts
  <2>2. DOMAIN results = Times(batch) /\ judged = {}
    BY <2>1
  <2>3. QED
    BY <2>2 DEF clean
<1>5. CASE ~(Cardinality(clean) < MinSamples)
  <2>1. results = [t \in clean |-> "judged"]
    BY <1>5 DEF Verdicts
  <2>2. judged = clean
    BY <2>1
  <2>3. clean # {} /\ Cardinality(clean) >= MinSamples
    BY <1>1, <1>2, <1>5, FS_EmptySet
  <2>4. QED
    BY <1>3, <2>2, <2>3 DEF clean
<1>6. QED
  BY <1>4, <1>5

LEMMA BatchStep == StreamTypes /\ BatchInv /\ [StreamNext]_streamVars => BatchInv'
<1> SUFFICES ASSUME StreamTypes, BatchInv, [StreamNext]_streamVars
             PROVE  BatchInv'
  OBVIOUS
<1>0. call \in [Threads -> CallType(Len(made))]
  BY DEF StreamTypes
<1>1. ASSUME NEW h \in Threads, NEW c, call' = [call EXCEPT ![h] = c],
             c.at = "answered" /\ "batch" \in DOMAIN c =>
                 \E decomposed \in BOOLEAN : c.results = Verdicts(c.batch, Clean(c.batch, decomposed))
      PROVE  BatchInv'
  <2>1. call'[h] = c /\ \A g \in Threads : g # h => call'[g] = call[g]
    BY <1>0, <1>1
  <2>2. QED
    BY <1>1, <2>1 DEF BatchInv
<1>2. ASSUME NEW h \in Threads, NEW s \in Watched, NEW got \in Queried, Watch(h, s, got)
      PROVE  BatchInv'
  <2>1. PICK c \in CallType(Len(made)) :
            call' = [call EXCEPT ![h] = c] /\ c.at \in {"looking", "idle", "raised"}
    BY <1>2, WatchSteps
  <2>2. QED
    BY <1>1, <2>1
<1>3. ASSUME NEW h \in Threads, Look(h)
      PROVE  BatchInv'
  <2>1. PICK c \in CallType(Len(made)) :
            call' = [call EXCEPT ![h] = c] /\ c.at \in {"creating", "returning"}
    BY <1>3, LookSteps
  <2>2. QED
    BY <1>1, <2>1
<1>4. ASSUME NEW h \in Threads, Create(h)
      PROVE  BatchInv'
  <2>1. PICK c \in CallType(Len(made) + 1) : call' = [call EXCEPT ![h] = c] /\ c.at = "returning"
    BY <1>4, CreateSteps
  <2>2. QED
    BY <1>1, <2>1
<1>5. ASSUME NEW h \in Threads, Return(h)
      PROVE  BatchInv'
  <2>1. PICK c \in CallType(Len(made)) :
            call' = [call EXCEPT ![h] = c] /\ c.at \in {"raised", "detecting"}
    BY <1>5, ReturnSteps
  <2>2. QED
    BY <1>1, <2>1
<1>6. ASSUME NEW h \in Threads, call[h].at \in Inside, InDetector(h)
      PROVE  BatchInv'
  <2>1. PICK c \in CallType(Len(made)) : call' = [call EXCEPT ![h] = c]
    BY <1>6, InForestSteps
  <2>2. ASSUME NEW place, Goto(h, place), place # "answered"
        PROVE  BatchInv'
    <3>1. call'[h].at = place /\ call'[h] = c
      BY <1>0, <1>6, <2>1, <2>2, CallFields DEF Goto
    <3>2. QED
      BY <1>1, <2>1, <2>2, <3>1
  <2>3. ASSUME Raised(h) \/ Answer(h)
        PROVE  BatchInv'
    <3>1. PICK place \in {"raised", "answered"} :
              call' = [call EXCEPT ![h] = [at |-> place, detector |-> call[h].detector]]
      BY <1>0, <2>3 DEF Raised, Answer
    <3>2. "batch" \notin DOMAIN [at |-> place, detector |-> call[h].detector]
      OBVIOUS
    <3>3. QED
      BY <1>1, <3>1, <3>2
  <2>4. CASE Buffer(h)
    <3>1. ASSUME NEW point,
                 call' = [call EXCEPT ![h].at = "loading", ![h].point = point]
          PROVE  BatchInv'
      <4>1. call'[h].at = "loading" /\ call'[h] = c
        BY <1>0, <1>6, <2>1, <3>1, CallFields
      <4>2. QED
        BY <1>1, <2>1, <4>1
    <3>2. QED
      BY <2>3, <2>4, <3>1 DEF Buffer
  <2>5. CASE Store(h) \/ Measure(h) \/ Forget(h) \/ Collide(h) \/ Neutral(h)
    <3>1. Raised(h) \/ Answer(h) \/ \E place : Goto(h, place) /\ place # "answered"
      BY <2>5 DEF Store, Measure, Forget, Collide, Neutral
    <3>2. QED
      BY <2>2, <2>3, <3>1
  <2>6. CASE Load(h) \/ Choose(h) \/ Insert(h)
    <3>1. Raised(h) \/ Answer(h) \/ call'[h].at # "answered"
      <4>1. call[h] \in [at: Inside, detector: 1..Len(made), point: Shingles,
                         loaded: Nat, tree: Trees, oldest: Nat]
        BY <1>6, CallFields
      <4>2. QED
        BY <1>0, <2>6, <4>1 DEF Load, Choose, Insert
    <3>2. call'[h] = c
      BY <1>0, <2>1
    <3>3. QED
      BY <1>1, <2>1, <2>3, <3>1, <3>2
  <2>7. ASSUME NEW batch \in Batches, NEW decomposed \in BOOLEAN, DetectMany(h, batch, decomposed)
        PROVE  BatchInv'
    <3> DEFINE r == Verdicts(batch, Clean(batch, decomposed))
               a == [at |-> "answered", detector |-> call[h].detector, batch |-> batch, results |-> r]
    <3>1. call' = [call EXCEPT ![h] = a]
      BY <1>0, <2>7 DEF DetectMany
    <3>2. a.batch = batch /\ a.results = r
      <4> HIDE DEF r
      <4>1. QED
        OBVIOUS
    <3> HIDE DEF a
    <3>3. QED
      BY <1>1, <2>7, <3>1, <3>2
  <2>8. QED
    BY <1>6, <2>4, <2>5, <2>6, <2>7 DEF InDetector
<1>7. CASE (\E s \in Watched : remove_detector(s)) \/ clear \/ UNCHANGED streamVars
  <2>1. call' = call
    BY <1>7 DEF remove_detector, clear, streamVars
  <2>2. QED
    BY <2>1 DEF BatchInv
<1>8. QED
  BY <1>2, <1>3, <1>4, <1>5, <1>6, <1>7, StreamSteps

LEMMA BatchInitially == StreamInit => BatchInv
BY DEF StreamInit, BatchInv, NotCalled

LEMMA AnsweredBatch ==
    ASSUME StreamTypes, NEW h \in Threads, call[h].at = "answered", "batch" \in DOMAIN call[h]
    PROVE  Len(call[h].batch) \in Nat
<1>1. call[h] \in CallType(Len(made))
  BY DEF StreamTypes
<1>2. call[h].batch \in Batches
  BY <1>1 DEF CallType, NotCalled, Asking, Inside
<1>3. QED
  BY <1>2, StreamingAssumption

(* Nothing of a series is lost on the way to its detector or in it, as long  *)
(* as one thread watches it and its values are finite, for any threads,      *)
(* series and calls: it has one detector, whose trees hold exactly its       *)
(* newest points and which never raises, and a batch of it is judged point   *)
(* by point or answered neutrally as a whole.                                *)
THEOREM NothingOfASeriesIsLost == StreamSpec => []NothingLost
<1> DEFINE Inv == StreamTypes /\ OneInv /\ AloneInv /\ BatchInv
<1>1. Inv => NothingLost
  <2> SUFFICES ASSUME Inv
               PROVE  NothingLost
    OBVIOUS
  <2>1. OneDetector
    BY OneIsOne
  <2>2. ExactWhenAlone
    BY DEF AloneInv, Alone, ExactWhenAlone, Newest
  <2>3. BatchesAreWhole
    <3>1. ASSUME NEW h \in Threads, call[h].at = "answered", "batch" \in DOMAIN call[h]
          PROVE  LET judged == {t \in DOMAIN call[h].results : call[h].results[t] = "judged"}
                 IN IF judged = {} THEN DOMAIN call[h].results = Times(call[h].batch)
                    ELSE /\ NonNull(call[h].batch) \subseteq judged
                         /\ Cardinality(judged) >= MinSamples
      <4>1. PICK decomposed \in BOOLEAN :
                call[h].results = Verdicts(call[h].batch, Clean(call[h].batch, decomposed))
        BY <3>1 DEF BatchInv
      <4>2. Len(call[h].batch) \in Nat
        BY <3>1, AnsweredBatch
      <4>3. QED
        BY <4>1, <4>2, VerdictsAreWhole
    <3>2. QED
      BY <3>1 DEF BatchesAreWhole
  <2>4. QED
    BY <2>1, <2>2, <2>3 DEF NothingLost
<1>2. StreamInit => Inv
  BY StreamInitTypes, OneInitially, AloneInitially, BatchInitially
<1>3. Inv /\ [StreamNext]_streamVars => Inv'
  BY StreamNextTypes, OneStep, AloneStep, BatchStep
<1>4. QED
  BY <1>1, <1>2, <1>3, PTL DEF StreamSpec

-----------------------------------------------------------------------------
(***************************************************************************)
(* The labels of the store: what both trackers accept stays within the     *)
(* limit, though they add a value before they compare.                     *)
(***************************************************************************)

LEMMA LeastExists ==
    ASSUME NEW T \in SUBSET Nat, T # {}
    PROVE  \E x \in T : \A y \in T : x <= y
<1>1. \E x \in T : \A y \in T : ~(<<y, x>> \in OpToRel(<, Nat))
  BY NatLessThanWellFounded, WFMin
<1>2. \A x, y \in Nat : <<y, x>> \in OpToRel(<, Nat) <=> y < x
  BY DEF OpToRel
<1>3. ASSUME NEW x \in T, NEW y \in T, ~(<<y, x>> \in OpToRel(<, Nat))
      PROVE  x <= y
  <2>1. x \in Nat /\ y \in Nat
    OBVIOUS
  <2>2. ~(y < x)
    BY <1>2, <1>3, <2>1
  <2>3. QED
    BY <2>1, <2>2
<1>4. QED
  BY <1>1, <1>3

\* A set of indices of a sequence has a last one.
LEMMA LastExists ==
    ASSUME NEW n \in Nat, NEW T \in SUBSET (1..n), T # {}
    PROVE  \E x \in T : \A y \in T : y <= x
<1> DEFINE U == {m \in Nat : n - m \in T}
<1>1. U # {}
  <2>1. PICK x \in T : TRUE
    OBVIOUS
  <2>2. n - x \in Nat /\ n - (n - x) = x
    OBVIOUS
  <2>3. n - x \in U
    BY <2>1, <2>2
  <2>4. QED
    BY <2>3
<1>2. PICK m \in U : \A y \in U : m <= y
  <2> HIDE DEF U
  <2>1. U \in SUBSET Nat
    BY DEF U
  <2>2. QED
    BY <1>1, <2>1, LeastExists
<1>3. ASSUME NEW y \in T
      PROVE  y <= n - m
  <2>1. y \in 1..n /\ n - y \in Nat /\ n - (n - y) = y
    OBVIOUS
  <2>2. n - y \in U
    BY <2>1
  <2>3. m <= n - y /\ m \in Nat
    BY <1>2, <2>2
  <2>4. QED
    BY <2>1, <2>3
<1>4. QED
  BY <1>3

\* Whatever set of labels a tracker or the database holds.
Bounded(pairs) == \A p \in pairs : Cardinality(Values(pairs, p[1])) <= MAX_CARDINALITY

LEMMA BoundedShrinks ==
    ASSUME NEW S, IsFiniteSet(S), Bounded(S), NEW T, T \subseteq S
    PROVE  Bounded(T)
<1>1. ASSUME NEW p \in T
      PROVE  Cardinality(Values(T, p[1])) <= MAX_CARDINALITY
  <2>1. Values(S, p[1]) \subseteq S /\ Values(T, p[1]) \subseteq Values(S, p[1])
    BY DEF Values
  <2>2. IsFiniteSet(Values(S, p[1])) /\ IsFiniteSet(Values(T, p[1]))
    BY <2>1, FS_Subset
  <2>3. /\ Cardinality(Values(T, p[1])) <= Cardinality(Values(S, p[1]))
        /\ Cardinality(Values(T, p[1])) \in Nat /\ Cardinality(Values(S, p[1])) \in Nat
    BY <2>1, <2>2, FS_Subset, FS_CardinalityType
  <2>4. Cardinality(Values(S, p[1])) <= MAX_CARDINALITY /\ MAX_CARDINALITY \in Nat
    BY StoreAssumption DEF Bounded
  <2>5. QED
    BY <2>3, <2>4
<1>2. QED
  BY <1>1 DEF Bounded

\* The pairs of a sequence up to an index.
LEMMA PairsFinite ==
    ASSUME NEW labels, NEW i \in Nat
    PROVE  IsFiniteSet({labels[j] : j \in 1..i})
<1> DEFINE T == {labels[j] : j \in 1..i}
           f == [j \in 1..i |-> labels[j]]
<1>1. f \in Surjection(1..i, T)
  BY DEF Surjection
<1>2. IsFiniteSet(1..i)
  BY FS_Interval
<1> HIDE DEF f, T
<1>3. IsFiniteSet(T)
  BY <1>1, <1>2, FS_Surjection
<1>4. QED
  BY <1>3 DEF T

\* A tracker keeps what it holds and, if it accepts the labels, takes them all;
\* what it accepted before and now is then within the limit.
LEMMA CountedLabels ==
    ASSUME NEW pairs, IsFiniteSet(pairs), NEW labels, Len(labels) \in Nat
    PROVE  LET result == Counted(pairs, labels) IN
           /\ IsFiniteSet(result.pairs) /\ pairs \subseteq result.pairs
           /\ result.ok => Pairs(labels) \subseteq result.pairs
           /\ \A S : result.ok /\ S \subseteq pairs /\ Bounded(S) => Bounded(S \cup Pairs(labels))
<1> DEFINE n == Len(labels)
           after == [i \in 0..n |-> pairs \cup {labels[j] : j \in 1..i}]
           over == {i \in 1..n : Exceeds(after[i], labels[i][1])}
           result == Counted(pairs, labels)
<1>1. ASSUME NEW i \in 0..n
      PROVE  after[i] = pairs \cup {labels[j] : j \in 1..i} /\ IsFiniteSet(after[i])
  <2>1. after[i] = pairs \cup {labels[j] : j \in 1..i}
    OBVIOUS
  <2>2. IsFiniteSet({labels[j] : j \in 1..i})
    <3>1. i \in Nat
      OBVIOUS
    <3>2. QED
      BY <3>1, PairsFinite
  <2>3. QED
    BY <2>1, <2>2, FS_Union
<1>2. result = IF over = {} THEN [ok |-> TRUE, pairs |-> after[n]]
               ELSE [ok |-> FALSE, pairs |-> after[CHOOSE i \in over : \A j \in over : i <= j]]
  BY DEF Counted
<1>3. over \subseteq 1..n
  OBVIOUS
<1>4. \A i \in 1..n : i \notin over => ~Exceeds(after[i], labels[i][1])
  OBVIOUS
<1> HIDE DEF after, over, result
<1>5. CASE over # {}
  <2> DEFINE first == CHOOSE i \in over : \A j \in over : i <= j
  <2>1. \E i \in over : \A j \in over : i <= j
    <3>1. over \in SUBSET Nat
      BY <1>3
    <3>2. QED
      BY <1>5, <3>1, LeastExists
  <2>2. first \in over
    BY <2>1
  <2> HIDE DEF first
  <2>3. first \in 0..n
    BY <1>3, <2>2
  <2>4. result.ok = FALSE /\ result.pairs = after[first]
    BY <1>2, <1>5 DEF first
  <2>5. QED
    BY <1>1, <2>3, <2>4 DEF result
<1>6. CASE over = {}
  <2>1. result.ok = TRUE /\ result.pairs = after[n] /\ n \in 0..n
    BY <1>2, <1>6
  <2>2. after[n] = pairs \cup Pairs(labels) /\ IsFiniteSet(after[n])
    BY <1>1, <2>1 DEF Pairs
  <2>3. ASSUME NEW S, S \subseteq pairs, Bounded(S), NEW p \in S \cup Pairs(labels)
        PROVE  Cardinality(Values(S \cup Pairs(labels), p[1])) <= MAX_CARDINALITY
    <3> DEFINE T == {i \in 1..n : labels[i][1] = p[1]}
    <3>1. CASE T = {}
      <4>1. \A q \in Pairs(labels) : q[1] # p[1]
        BY <3>1 DEF Pairs
      <4>2. Values(S \cup Pairs(labels), p[1]) = Values(S, p[1]) /\ p \in S
        BY <2>3, <4>1 DEF Values
      <4>3. QED
        BY <2>3, <4>2 DEF Bounded
    <3>2. CASE T # {}
      <4>1. PICK l \in T : \A i \in T : i <= l
        <5>1. T \in SUBSET (1..n)
          OBVIOUS
        <5> HIDE DEF T
        <5>2. QED
          BY <3>2, <5>1, LastExists
      <4>2. l \in 1..n /\ labels[l][1] = p[1] /\ l \in 0..n
        BY <4>1
      <4>3. ~Exceeds(after[l], p[1])
        BY <1>4, <1>6, <4>2
      <4>4. Values(S \cup Pairs(labels), p[1]) \subseteq Values(after[l], p[1])
        <5>1. ASSUME NEW q \in S \cup Pairs(labels), q[1] = p[1]
              PROVE  q \in after[l]
          <6>1. CASE q \in S
            BY <1>1, <2>3, <4>2, <6>1
          <6>2. CASE q \in Pairs(labels)
            <7>1. PICK i \in 1..n : q = labels[i]
              BY <6>2 DEF Pairs
            <7>2. i \in T
              BY <5>1, <7>1
            <7>3. i <= l /\ i \in 1..l
              BY <4>1, <4>2, <7>1, <7>2
            <7>4. QED
              BY <1>1, <4>2, <7>1, <7>3
          <6>3. QED
            BY <5>1, <6>1, <6>2
        <5>2. QED
          BY <5>1 DEF Values
      <4>5. IsFiniteSet(Values(after[l], p[1])) /\ Cardinality(Values(after[l], p[1])) \in Nat
        <5>1. IsFiniteSet(after[l]) /\ Values(after[l], p[1]) \subseteq after[l]
          BY <1>1, <4>2 DEF Values
        <5>2. QED
          BY <5>1, FS_Subset, FS_CardinalityType
      <4>6. Cardinality(Values(after[l], p[1])) <= MAX_CARDINALITY
        BY <4>3, <4>5, StoreAssumption DEF Exceeds, Values
      <4>7. /\ Cardinality(Values(S \cup Pairs(labels), p[1])) <= Cardinality(Values(after[l], p[1]))
            /\ Cardinality(Values(S \cup Pairs(labels), p[1])) \in Nat
        BY <4>4, <4>5, FS_Subset, FS_CardinalityType
      <4>8. QED
        BY <4>5, <4>6, <4>7, StoreAssumption
    <3>3. QED
      BY <3>1, <3>2
  <2>4. \A S : S \subseteq pairs /\ Bounded(S) => Bounded(S \cup Pairs(labels))
    BY <2>3 DEF Bounded
  <2>5. QED
    BY <2>1, <2>2, <2>4 DEF result
<1>7. QED
  BY <1>5, <1>6

\* What writers have on its way to the database.
InFlight == UNION {writing[w] : w \in Writers}

LabelInv ==
    /\ IsFiniteSet(tracker) /\ IsFiniteSet(known)
    /\ accepted \subseteq tracker /\ Bounded(accepted)
    /\ writing \in [Writers -> SUBSET known]
    /\ written \subseteq known
    /\ Bounded(written \cup InFlight)

\* The metrics of one write, checked in turn.
LEMMA CheckedMetrics ==
    ASSUME NEW metrics \in LabelSets \X LabelSets
    PROVE  LET first == check_cardinality(known, metrics[1]) IN
           Checked(metrics) = IF first.ok THEN check_cardinality(first.pairs, metrics[2]) ELSE first
<1> DEFINE c0 == [ok |-> TRUE, pairs |-> known]
           c1 == check_cardinality(known, metrics[1])
           c2 == IF c1.ok THEN check_cardinality(c1.pairs, metrics[2]) ELSE c1
           Rec(f) == f = [i \in 0..2 |->
                             IF i = 0 THEN [ok |-> TRUE, pairs |-> known]
                             ELSE IF f[i - 1].ok THEN check_cardinality(f[i - 1].pairs, metrics[i])
                                  ELSE f[i - 1]]
           c == CHOOSE f : Rec(f)
           g == [i \in 0..2 |-> IF i = 0 THEN c0 ELSE IF i = 1 THEN c1 ELSE c2]
<1>1. Len(metrics) = 2
  OBVIOUS
<1>2. Checked(metrics) = c[2]
  BY <1>1 DEF Checked
<1>3. Rec(g)
  <2>1. c0.ok = TRUE /\ c0.pairs = known
    OBVIOUS
  <2> HIDE DEF c0, c1
  <2>2. g[0] = c0 /\ g[1] = c1 /\ g[2] = c2 /\ 1 - 1 = 0 /\ 2 - 1 = 1
    OBVIOUS
  <2>3. QED
    BY <2>1, <2>2 DEF c0, c1
<1>4. Rec(c)
  <2> HIDE DEF Rec, g
  <2>1. QED
    BY <1>3
<1>5. c[2] = c2
  <2> HIDE DEF c
  <2>1. c[0] = c0
    BY <1>4
  <2>2. c[1] = c1
    BY <1>4, <2>1
  <2> HIDE DEF c1
  <2>3. QED
    BY <1>4, <2>2
<1>6. QED
  BY <1>2, <1>5

LEMMA CheckedLabels ==
    ASSUME NEW pairs, IsFiniteSet(pairs), NEW labels \in LabelSets
    PROVE  LET result == check_cardinality(pairs, labels) IN
           /\ IsFiniteSet(result.pairs) /\ pairs \subseteq result.pairs
           /\ result.ok => Pairs(labels) \subseteq result.pairs
           /\ \A S : result.ok /\ S \subseteq pairs /\ Bounded(S) => Bounded(S \cup Pairs(labels))
<1>1. Len(labels) \in Nat
  BY StoreAssumption
<1>2. CASE Names(labels) \cap FORBIDDEN # {}
  BY <1>2 DEF check_cardinality
<1>3. CASE Names(labels) \cap FORBIDDEN = {}
  <2>1. check_cardinality(pairs, labels) = Counted(pairs, labels)
    BY <1>3 DEF check_cardinality
  <2>2. QED
    BY <1>1, <2>1, CountedLabels
<1>4. QED
  BY <1>2, <1>3

LEMMA LabelStep == LabelInv /\ [StoreNext]_storeVars => LabelInv'
<1> SUFFICES ASSUME LabelInv, [StoreNext]_storeVars
             PROVE  LabelInv'
  OBVIOUS
<1> DEFINE W == written \cup InFlight
<1>0. W \subseteq known
  BY DEF LabelInv, InFlight
<1>1. ASSUME NEW labels \in LabelSets, validate(labels)
      PROVE  LabelInv'
  <2> DEFINE result == Counted(tracker, labels)
  <2>1. /\ IsFiniteSet(result.pairs) /\ tracker \subseteq result.pairs
        /\ result.ok => Pairs(labels) \subseteq result.pairs
        /\ result.ok /\ accepted \subseteq tracker /\ Bounded(accepted)
               => Bounded(accepted \cup Pairs(labels))
    <3>1. IsFiniteSet(tracker) /\ Len(labels) \in Nat
      BY StoreAssumption DEF LabelInv
    <3>2. QED
      BY <3>1, CountedLabels
  <2>2. /\ tracker' = result.pairs
        /\ accepted' = IF result.ok THEN accepted \cup Pairs(labels) ELSE accepted
        /\ known' = known /\ writing' = writing /\ written' = written
    BY <1>1 DEF validate
  <2> HIDE DEF result
  <2>3. IsFiniteSet(tracker') /\ accepted' \subseteq tracker' /\ Bounded(accepted')
    BY <2>1, <2>2 DEF LabelInv
  <2>4. QED
    BY <2>2, <2>3 DEF LabelInv, InFlight
<1>2. CASE reset
  <2>1. /\ tracker' = {} /\ accepted' = {}
        /\ known' = known /\ writing' = writing /\ written' = written
    BY <1>2 DEF reset
  <2>2. IsFiniteSet(tracker') /\ Bounded(accepted')
    BY <2>1, FS_EmptySet DEF Bounded
  <2>3. QED
    BY <2>1, <2>2 DEF LabelInv, InFlight
<1>3. ASSUME NEW w \in Writers, NEW metrics \in LabelSets \X LabelSets, remote_write(w, metrics)
      PROVE  LabelInv'
  <2> DEFINE first == check_cardinality(known, metrics[1])
             second == check_cardinality(first.pairs, metrics[2])
             P1 == Pairs(metrics[1])
             P2 == Pairs(metrics[2])
             result == Checked(metrics)
  <2>1. metrics[1] \in LabelSets /\ metrics[2] \in LabelSets /\ Len(metrics) = 2
    OBVIOUS
  <2>2. result = IF first.ok THEN second ELSE first
    BY CheckedMetrics
  <2>3. /\ IsFiniteSet(first.pairs) /\ known \subseteq first.pairs
        /\ first.ok => P1 \subseteq first.pairs /\ Bounded(W \cup P1)
    <3>1. IsFiniteSet(known) /\ Bounded(W)
      BY DEF LabelInv
    <3>2. QED
      BY <1>0, <2>1, <3>1, CheckedLabels
  <2>4. /\ IsFiniteSet(second.pairs) /\ first.pairs \subseteq second.pairs
        /\ second.ok => P2 \subseteq second.pairs
        /\ first.ok /\ second.ok => Bounded((W \cup P1) \cup P2)
    <3>1. first.ok => W \cup P1 \subseteq first.pairs
      BY <1>0, <2>3
    <3> HIDE DEF first, W
    <3>2. QED
      BY <2>1, <2>3, <3>1, CheckedLabels
  <2>5. /\ known' = result.pairs
        /\ writing' = [writing EXCEPT ![w] =
                          IF result.ok THEN UNION {Pairs(metrics[i]) : i \in 1..2} ELSE {}]
        /\ writing[w] = {}
        /\ tracker' = tracker /\ accepted' = accepted /\ written' = written
    BY <1>3, <2>1 DEF remote_write
  <2>6. UNION {Pairs(metrics[i]) : i \in 1..2} = P1 \cup P2
    <3>1. 1..2 = {1, 2}
      OBVIOUS
    <3>2. QED
      BY <3>1
  <2> HIDE DEF first, second, P1, P2, result, W
  <2>7. IsFiniteSet(known') /\ known \subseteq known'
    BY <2>2, <2>3, <2>4, <2>5
  <2>8. result.ok => first.ok /\ result = second
    BY <2>2
  <2>9. writing' \in [Writers -> SUBSET known']
    <3>1. result.ok => P1 \cup P2 \subseteq known'
      BY <2>3, <2>4, <2>5, <2>8
    <3>2. QED
      BY <2>5, <2>6, <2>7, <3>1 DEF LabelInv
  <2>10. Bounded((written \cup InFlight)')
    <3>1. (written \cup InFlight)' = IF result.ok THEN (W \cup P1) \cup P2 ELSE W
      <4>1. /\ \A v \in Writers : v # w => writing'[v] = writing[v]
            /\ writing'[w] = IF result.ok THEN P1 \cup P2 ELSE {}
        BY <2>5, <2>6 DEF LabelInv
      <4>2. InFlight' = IF result.ok THEN InFlight \cup P1 \cup P2 ELSE InFlight
        <5>1. \A x : x \in InFlight' <=> \E v \in Writers : x \in writing'[v]
          BY DEF InFlight
        <5>2. \A x : x \in InFlight <=> \E v \in Writers : x \in writing[v]
          BY DEF InFlight
        <5>3. \A x : x \in InFlight' <=> x \in InFlight \/ x \in writing'[w]
          BY <1>3, <2>5, <4>1, <5>1, <5>2
        <5>4. QED
          BY <4>1, <5>3
      <4>3. QED
        BY <2>5, <4>2 DEF W
    <3>2. result.ok => Bounded((W \cup P1) \cup P2)
      BY <2>4, <2>8
    <3>3. QED
      BY <3>1, <3>2 DEF LabelInv, W
  <2>11. QED
    BY <2>5, <2>7, <2>9, <2>10 DEF LabelInv
<1>4. ASSUME NEW w \in Writers, NEW arrived \in BOOLEAN, WriteEnds(w, arrived)
      PROVE  LabelInv'
  <2>1. /\ written' = IF arrived THEN written \cup writing[w] ELSE written
        /\ writing' = [writing EXCEPT ![w] = {}]
        /\ tracker' = tracker /\ accepted' = accepted /\ known' = known
    BY <1>4 DEF WriteEnds
  <2>2. /\ \A v \in Writers : writing'[v] \subseteq writing[v]
        /\ writing' \in [Writers -> SUBSET known] /\ written' \subseteq known
    BY <2>1 DEF LabelInv
  <2>3. (written \cup InFlight)' \subseteq W
    BY <1>4, <2>1, <2>2 DEF InFlight
  <2>4. IsFiniteSet(W)
    BY <1>0, FS_Subset DEF LabelInv
  <2>5. Bounded((written \cup InFlight)')
    <3>1. Bounded(W)
      BY DEF LabelInv
    <3> HIDE DEF W
    <3>2. QED
      BY <2>3, <2>4, <3>1, BoundedShrinks
  <2>6. QED
    BY <2>1, <2>2, <2>5 DEF LabelInv
<1>5. ASSUME UNCHANGED labelVars
      PROVE  LabelInv'
  BY <1>5 DEF labelVars, LabelInv, InFlight
<1>6. ASSUME NEW p \in Pods, \/ \E rule \in Rules : store(p, rule)
                             \/ \E window \in Windows : get_pending(p, window)
                             \/ clear_pod(p)
      PROVE  LabelInv'
  BY <1>5, <1>6 DEF store, get_pending, clear_pod
<1>7. CASE Pass \/ UNCHANGED storeVars
  BY <1>5, <1>7 DEF Pass, storeVars, labelVars
<1>8. QED
  BY <1>1, <1>2, <1>3, <1>4, <1>6, <1>7 DEF StoreNext

(* No label gets more values than the limit into the database or through the *)
(* guard, for any writers, metrics and limit, though both trackers count a   *)
(* value before they compare and writes overlap.                             *)
THEOREM LabelsStayWithinLimit == StoreSpec => []LimitHolds
<1>1. LabelInv => LimitHolds
  <2>1. ASSUME LabelInv
        PROVE  LimitHolds
    <3>1. IsFiniteSet(written \cup InFlight)
      <4>1. written \cup InFlight \subseteq known /\ IsFiniteSet(known)
        BY <2>1 DEF LabelInv, InFlight
      <4>2. QED
        BY <4>1, FS_Subset
    <3>2. Bounded(written)
      BY <2>1, <3>1, BoundedShrinks DEF LabelInv
    <3>3. QED
      BY <2>1, <3>2 DEF LabelInv, LimitHolds, Bounded
  <2>2. QED
    BY <2>1
<1>2. StoreInit => LabelInv
  BY FS_EmptySet DEF StoreInit, LabelInv, InFlight, Bounded
<1>3. LabelInv /\ [StoreNext]_storeVars => LabelInv'
  BY LabelStep
<1>4. QED
  BY <1>1, <1>2, <1>3, PTL DEF StoreSpec

=============================================================================
