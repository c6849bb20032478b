------------------------------ MODULE MCFeeds -------------------------------
(* The two feeds over websockets, of the backend (LiveUpdates) and of the AI *)
(* engine (AIEngine).  They share nothing, so one runs while the other has   *)
(* not begun.  The backend has a message for all and one for administrators  *)
(* who asked for its channel; the AI engine analyses one incident it may fix *)
(* and one it can only alert about.                                          *)
EXTENDS LiveUpdates, AIEngine, TLC

CONSTANTS b1, b2, q1, q2

Levels1 == {1, 3}
Channels1 == {"remediation"}
MinRole1 == b1 :> 1 @@ b2 :> 3
ChannelOf1 == b1 :> "all" @@ b2 :> "remediation"

Requests1 == {q1, q2}
Severity1 == q1 :> "medium" @@ q2 :> "high"
Cause1 == q1 :> "cpu_saturation" @@ q2 :> "service_latency_spike"
Words1 == q1 :> {"cpu", "io"} @@ q2 :> {}

FeedsInit == Init /\ AIInit

FeedsNext ==
    \/ AIInit /\ Next /\ UNCHANGED aiVars
    \/ Init /\ AINext /\ UNCHANGED vars

FeedsSpec == FeedsInit /\ [][FeedsNext]_<<vars, aiVars>> /\ Fairness /\ AIFairness
=============================================================================
