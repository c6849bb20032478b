------------------------------ MODULE MCKoral -------------------------------
(* The library koral: its detectors in two threads, beside its store.  The   *)
(* two share nothing, so they take the same bound of operations in turn: the *)
(* store is used only while no thread has called a detector.                 *)
EXTENDS Streaming, SeriesStore, TLC

KoralInit == StreamInit /\ StoreInit

KoralNext ==
    \/ ops = 0 /\ now = 1 /\ StreamNext /\ UNCHANGED storeVars
    \/ calls = 0 /\ StoreNext /\ UNCHANGED streamVars

KoralSpec == KoralInit /\ [][KoralNext]_<<streamVars, storeVars>>

Symmetry == Permutations(Threads) \cup Permutations(Writers)

Watched1 == {[pod |-> 1, metric |-> "container_oom_events_total"],
             [pod |-> 1, metric |-> "container_cpu_usage_seconds_total"]}
Batches1 == {<<1, 2, NaN>>, <<1, NaN, 2, 1>>, <<1, 2, 1, NaN, 2>>}

Label(namespace, pod) == <<<<"namespace", namespace>>, <<"pod", pod>>>>
LabelSets1 == {Label("a", "p"), Label("a", "q"), Label("b", "r"),
               <<<<"pod", "p">>, <<"user_id", "u">>>>}
=============================================================================
