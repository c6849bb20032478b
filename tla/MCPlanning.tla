----------------------------- MODULE MCPlanning -----------------------------
(* Planning with one incident to scale and one to restart a pod for.        *)
EXTENDS Planning, TLC

SomeEvidence == {{"cpu", "memory"}, {"log_error", "restart"}}

Symmetry == Permutations(Handlers) \cup Permutations(Plans) \cup Permutations(Workers)
=============================================================================
