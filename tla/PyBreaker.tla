----------------------------- MODULE PyBreaker -----------------------------
(***************************************************************************)
(* The circuit breaker of the pybreaker library, as the services use it    *)
(* around a call that may raise: after FailMax raising calls in a row it   *)
(* opens and refuses calls; once its reset timeout has passed it lets a    *)
(* call through (half-open), which closes it or opens it again.            *)
(***************************************************************************)
EXTENDS Naturals

CONSTANT FailMax   \* a positive number

Breaker == [open: BOOLEAN, fails: 0 .. FailMax]

Fresh == [open |-> FALSE, fails |-> 0]

\* A call went through and returned, whatever it returned.
Succeeded(b) == Fresh

\* A call went through and raised; in the half-open state one is enough.
Raised(b) ==
    IF b.open \/ b.fails + 1 >= FailMax
    THEN [open |-> TRUE, fails |-> FailMax]
    ELSE [open |-> FALSE, fails |-> b.fails + 1]

=============================================================================
