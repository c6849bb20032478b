----------------------------- MODULE MCEngines ------------------------------
(* The engines that act on an approval: the execution engine (Executor) and  *)
(* the verification engine with the backend's calls of it (Verification).    *)
(* What the one asks of the other is a step of each (Verify, VerifyDirectly) *)
(* and they share no state, so one runs while the other has not begun.       *)
EXTENDS Executor, Verification

EnginesInit == Init /\ VerifyInit

EnginesNext ==
    \/ VerifyInit /\ Next /\ UNCHANGED verifyVars
    \/ Init /\ VerifyNext /\ UNCHANGED vars

EnginesSpec ==
    EnginesInit /\ [][EnginesNext]_<<vars, verifyVars>> /\ Fairness /\ VerifyFairness
=============================================================================
