------------------------ MODULE MCClusterMembership ------------------------
(***************************************************************************)
(* ClusterMembership for TLC: the masters A, B and C, and D, which has not *)
(* met them yet (two faults), or is a replica of A (one fault).  B and C   *)
(* are symmetric.                                                          *)
(***************************************************************************)
EXTENDS ClusterMembership

CONSTANTS A, B, C, D

MCCuts == {{A}, {B}, {C}, {A, D}}
MCOf == [n \in Nodes |-> IF n = D THEN A ELSE None]

Init == InitWith(Voters) \/ InitWith(Nodes)
Spec == Init /\ [][Next]_vars

Symmetry == Permutations({B, C})
=============================================================================
