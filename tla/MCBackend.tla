----------------------------- MODULE MCBackend ------------------------------
(* The backend's pipelines (Incidents) and its administrator's routes        *)
(* (Administration).  They write different tables, so one runs while the     *)
(* other has not begun.  There are incidents of two pods and two times; the  *)
(* routes begin on tables that hold an administrator, a tenant with its      *)
(* namespace and a cluster.                                                  *)
EXTENDS Incidents, Administration, TLC

CONSTANTS i1, i2, p1, p2, u1, u2, e1, e2, k1, k2, k3, t1, t2, n1, c1, c2, x1, x2

Pod1 == i1 :> p1 @@ i2 :> p2
Time1 == i1 :> 1 @@ i2 :> 2

Users1 == u1 :> [email |-> e1, role |-> Admin, key |-> k1, active |-> TRUE, tenant |-> t1]
          @@ u2 :> NoEntry
Tenants1 == t1 :> [name |-> x1, active |-> TRUE] @@ t2 :> NoEntry
Clusters1 == c1 :> [name |-> x1, active |-> TRUE, status |-> "healthy", tenant |-> t1]
             @@ c2 :> NoEntry
Spaces1 == {<<t1, n1>>}
SomeRoles == {Viewer, Admin}

BackendInit == Init /\ AdminInit

BackendNext ==
    \/ AdminInit /\ Next /\ UNCHANGED adminVars
    \/ Init /\ AdminNext /\ UNCHANGED vars

BackendSpec == BackendInit /\ [][BackendNext]_<<vars, adminVars>> /\ Fairness
=============================================================================
