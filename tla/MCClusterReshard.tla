-------------------------- MODULE MCClusterReshard --------------------------
(***************************************************************************)
(* ClusterReshard for TLC: three nodes, two slots, two keys in the slot    *)
(* that moves.  The instances, one initial state each:                     *)
(*   Load      clients write while redis-cli moves the slot from A to B;   *)
(*   Fix       redis-cli is killed anywhere, redis-cli --cluster fix runs; *)
(*   Take      C, the replica of A, takes over, up to two times, or A      *)
(*             becomes a replica by hand;                                  *)
(*   TakeMove  C takes over while the slot moves.                          *)
(***************************************************************************)
EXTENDS ClusterReshard

CONSTANTS A, B, C, k1, k2

MCId == (A :> 1) @@ (B :> 2) @@ (C :> 3)
MCSlotOf == (k1 :> 0) @@ (k2 :> 0)

AllMasters == [n \in Nodes |-> None]
CReplicaOfA == [n \in Nodes |-> IF n = C THEN A ELSE None]
Layout == [s \in Slots |-> IF s = 0 THEN A ELSE B]

Load == [links |-> {<<A, B>>, <<B, A>>}, load |-> TRUE, fix |-> FALSE, takeover |-> FALSE, faults |-> 1, moves |-> {0}]
Fix == [links |-> Nodes \X Nodes, load |-> FALSE, fix |-> TRUE, takeover |-> FALSE, faults |-> 3, moves |-> {0}]
Take == [links |-> Nodes \X Nodes, load |-> FALSE, fix |-> FALSE, takeover |-> TRUE, faults |-> 2, moves |-> {}]
TakeMove == [Take EXCEPT !.faults = 1, !.moves = {0}]

Init ==
    \/ InitWith(Layout, CReplicaOfA, Load)
    \/ InitWith(Layout, AllMasters, Fix)
    \/ InitWith(Layout, CReplicaOfA, Take)
    \/ InitWith(Layout, CReplicaOfA, TakeMove)

Spec == Init /\ [][Next]_vars

\* The instance of the run about UPDATE packets.
InitTake == InitWith(Layout, CReplicaOfA, Take)
SpecTake == InitTake /\ [][Next]_vars
=============================================================================
