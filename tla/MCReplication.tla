--------------------------- MODULE MCReplication ---------------------------
(***************************************************************************)
(* Two servers, a master with two replicas, and a chain.                   *)
(***************************************************************************)
EXTENDS Replication, TLC

CONSTANTS a, b, c

Pair == (a :> None @@ b :> a)
Star == (a :> None @@ b :> a @@ c :> a)
Chain == (a :> None @@ b :> a @@ c :> b)
Start(topology, w, cm, f, r, k) ==
    [masters |-> topology,
     left |-> [writes |-> w, commands |-> cm, failures |-> f, restarts |-> r, frees |-> k]]

\* Two servers change roles twice, or once around a restart; three change roles with one write,
\* restart, or form a chain, with a failure.
Small == {Start(Pair, 2, 2, 1, 0, 1), Start(Pair, 2, 1, 1, 1, 0),
          Start(Star, 1, 2, 0, 0, 1), Start(Star, 1, 0, 1, 1, 0), Start(Chain, 1, 1, 1, 0, 0)}
=============================================================================
