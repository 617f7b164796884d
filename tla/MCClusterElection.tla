-------------------------- MODULE MCClusterElection --------------------------
(***************************************************************************)
(* Small clusters of one, two and three shards, each served by a master;   *)
(* the two replicas that stand for election belong to the first shard.     *)
(***************************************************************************)
EXTENDS ClusterElection, TLC

CONSTANTS k1, k2, k3, m1, m2, m3, s1, s2

ShardOf1 == (m1 :> k1 @@ s1 :> k1 @@ s2 :> k1)
ShardOf2 == (m2 :> k2 @@ ShardOf1)
ShardOf3 == (m3 :> k3 @@ ShardOf2)

InitOwner1 == (k1 :> m1)
InitOwner2 == (k2 :> m2 @@ InitOwner1)
InitOwner3 == (k3 :> m3 @@ InitOwner2)

InitEpoch1 == (k1 :> 1)
InitEpoch2 == (k2 :> 2 @@ InitEpoch1)
InitEpoch3 == (k3 :> 3 @@ InitEpoch2)

LinkM2S1 == {<<m2, s1>>}
S1OfM1 == {<<s1, m1>>}
=============================================================================
