----------------------------- MODULE MCGateway ------------------------------
(* Gateway with two processes and two requests of two clients, who may share *)
(* a key: the second request of an address, or of the key, is over the       *)
(* limit.                                                                    *)
EXTENDS Gateway, TLC

\* Two keys that begin alike.
Prefix1 == [x \in Keys |-> CHOOSE y \in Keys : TRUE]
Limit1 == "ip" :> 1 @@ "key" :> 1
Symmetry == Permutations(Procs) \cup Permutations(Ips)
=============================================================================
