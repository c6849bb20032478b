------------------------- MODULE ApprovalLifecycle -------------------------
(***************************************************************************)
(* What an approval is to its clients, with the table, the clock and the   *)
(* statements of the handlers abstracted away.  An approval is requested   *)
(* once and may be born approved.  Only a pending one can still come to be *)
(* decided; every handler that found it pending carries its verdict out or *)
(* fails, and the last to do so has the last word.  The stamps say how it  *)
(* was ever answered: approved_at is also that of an expiry.               *)
(***************************************************************************)

CONSTANTS
    Ids,        \* approvals
    Deciders    \* those who can be deciding one

VARIABLES
    status,     \* status of each approval
    stamps,     \* the timestamps each of them bears
    deciding    \* <<d, a, verdict>>: d has found a pending

lifecycleVars == <<status, stamps, deciding>>

Verdicts == {"approved", "rejected", "expired"}

Stamp(verdict) == IF verdict = "rejected" THEN "rejected_at" ELSE "approved_at"

Init ==
    /\ status = [a \in Ids |-> "absent"]
    /\ stamps = [a \in Ids |-> {}]
    /\ deciding = {}

Request(a) ==
    /\ status[a] = "absent"
    /\ \/ status' = [status EXCEPT ![a] = "pending"] /\ UNCHANGED stamps
       \/ /\ status' = [status EXCEPT ![a] = "approved"]
          /\ stamps' = [stamps EXCEPT ![a] = {"approved_at"}]
    /\ UNCHANGED deciding

Admit(d, a, verdict) ==
    /\ status[a] = "pending"
    /\ \A e \in deciding : e[1] # d
    /\ deciding' = deciding \cup {<<d, a, verdict>>}
    /\ UNCHANGED <<status, stamps>>

Settle(d, a, verdict) ==
    /\ <<d, a, verdict>> \in deciding
    /\ status' = [status EXCEPT ![a] = verdict]
    /\ stamps' = [stamps EXCEPT ![a] = @ \cup {Stamp(verdict)}]
    /\ deciding' = deciding \ {<<d, a, verdict>>}

Withdraw(e) ==
    /\ e \in deciding
    /\ deciding' = deciding \ {e}
    /\ UNCHANGED <<status, stamps>>

Next ==
    \/ \E a \in Ids : Request(a)
    \/ \E d \in Deciders, a \in Ids, verdict \in Verdicts :
           Admit(d, a, verdict) \/ Settle(d, a, verdict)
    \/ \E e \in deciding : Withdraw(e)

Spec == Init /\ [][Next]_lifecycleVars

=============================================================================
