---------------------------- MODULE MCDetection -----------------------------
(* Detection with one agent, whose third value can be flagged, an engine of  *)
(* two processes, one of them with two threads, and batches of at most four  *)
(* events, of two namespaces and two windows, one normal and one invalid.    *)
EXTENDS Detection, TLC

CONSTANTS w1, w2, t1, t2, t3

ProcessOf1 == t1 :> w1 @@ t2 :> w1 @@ t3 :> w2

Event(namespace, pod, metric, time, z, flag) ==
    [namespace |-> namespace, pod |-> pod, metric |-> metric, time |-> time, z |-> z,
     is_anomaly |-> flag]

\* "a", "a-b", "b-a"
A == <<1>>
AB == <<1, 2>>
BA == <<2, 1>>

Events1 == {Event(A, BA, "cpu", 2, -3, TRUE), Event(A, A, "restart", 3, 3, TRUE),
            Event(AB, A, "cpu", 2, 4, TRUE), Event(A, A, "gpu", 3, 5, TRUE),
            Event(A, AB, "oom_kill", 4, -3, TRUE), Event(A, A, "storage", 5, 2, TRUE),
            Event(AB, BA, "cpu", 2, 5, FALSE), Event(AB, BA, "disk", 0, 5, TRUE)}

Z1 == <<1, 1>>
Symmetry == Permutations({t1, t2})
=============================================================================
