----------------------------- MODULE Occupancy -----------------------------
(***************************************************************************)
(* What leases, units and tenants together promise: a unit has at most one *)
(* occupant, nobody occupies two units, and a unit changes hands only by   *)
(* being empty in between.                                                 *)
(***************************************************************************)
CONSTANTS Tenant, Unit, Nobody

VARIABLE occupant   \* occupant[u]: who lives in u

Init == occupant = [u \in Unit |-> Nobody]

MoveIn(t, u) ==
  /\ occupant[u] = Nobody
  /\ \A v \in Unit : occupant[v] # t
  /\ occupant' = [occupant EXCEPT ![u] = t]

Leave(u) ==
  /\ occupant[u] # Nobody
  /\ occupant' = [occupant EXCEPT ![u] = Nobody]

Next == \E u \in Unit : Leave(u) \/ \E t \in Tenant : MoveIn(t, u)

Spec == Init /\ [][Next]_occupant
=============================================================================
