-------------------------- MODULE ClusterMembership --------------------------
(***************************************************************************)
(* Who is in the cluster and who is alive (cluster.c): MEET and the        *)
(* handshake, gossip, PFAIL and FAIL with failure reports, FORGET and its  *)
(* blacklist, RESET, and the cluster state.  Time passes in rounds of one  *)
(* cluster_node_timeout: every node has a run of clusterCron in a round,   *)
(* in any order, in which it pings the nodes it knows and has the PONGs of *)
(* those it reaches; FAIL packets arrive later, or are lost with the link. *)
(* Links break and heal between two rounds.                                *)
(***************************************************************************)
EXTENDS Integers, FiniteSets, FiniteSetsExt, TLC

CONSTANTS
    Nodes, None,
    Voters,           \* the masters with slots at the beginning
    Of,               \* the master of every replica, None for the others
    BlacklistTTL,     \* CLUSTER_BLACKLIST_TTL, in ticks
    Cuts,             \* the sets of nodes a network failure cuts off
    MaxFaults         \* bound of the cuts, heals and commands

VARIABLES
    node,             \* what every node has in memory, see InitNode
    fails,            \* the FAIL packets in flight, <<from, to, node that fails>>
    due,              \* the nodes without a run of clusterCron in this round
    cut,              \* pairs of nodes that do not reach each other
    faults,
    watch             \* what the properties refer to, see InitWatch

vars == <<node, fails, due, cut, faults, watch>>

Old == 3              \* an age past two node timeouts, the limit of reports and of FAIL flags
Never == 4
Calm == 6             \* rounds after which the flags of a cut are gone
Older(age) == IF age < Old THEN age + 1 ELSE age

(***************************************************************************)
(* The memory of a node: known and hand are the nodes in the table and in  *)
(* handshake (with its age), meet those to send a MEET to; for every other *)
(* node wait is the age of an unanswered ping, flag and since its failure  *)
(* flag and fail_time, rep the ages of the failure reports, black the rest *)
(* of its time in the blacklist, of its master; state and minority are the *)
(* cluster state and among_minority_time.                                  *)
(***************************************************************************)
InitNode(n, known) ==
    [known |-> known, hand |-> [m \in {} |-> 0], meet |-> {},
     wait |-> [m \in Nodes |-> 0], flag |-> [m \in Nodes |-> "ok"], since |-> [m \in Nodes |-> Old],
     rep |-> [m \in Nodes |-> [r \in Nodes |-> Never]], black |-> [m \in Nodes |-> 0],
     of |-> Of, state |-> "ok", minority |-> Old]

Linked(n, m) == {n, m} \notin cut
nodeIsMaster(v, m) == v.of[m] = None
Size(v) == Cardinality(Voters \cap v.known)
Quorum(v) == Size(v) \div 2 + 1

---------------------------------------------------------------------------
(***************************************************************************)
(* Failure reports and the FAIL flag.                                      *)
(***************************************************************************)
clusterNodeAddFailureReport(v, x, s) == [v EXCEPT !.rep[x][s] = 0]
clusterNodeDelFailureReport(v, x, s) == [v EXCEPT !.rep[x][s] = Never]

clusterNodeFailureReportsCount(v, x) == Cardinality({s \in v.known : v.rep[x][s] < Old})

\* Mutant: one report less is enough.
markNodeAsFailingIfNeeded_OffByOne(v, me, x) ==
    IF v.flag[x] = "pfail" /\ clusterNodeFailureReportsCount(v, x) + 2 >= Quorum(v)
    THEN [v EXCEPT !.flag[x] = "fail", !.since[x] = 0] ELSE v

markNodeAsFailingIfNeeded(v, me, x) ==
    LET failures == clusterNodeFailureReportsCount(v, x) + IF nodeIsMaster(v, me) THEN 1 ELSE 0
    IN  IF v.flag[x] = "pfail" /\ failures >= Quorum(v)
        THEN [v EXCEPT !.flag[x] = "fail", !.since[x] = 0]
        ELSE v

\* Mutant: a master with slots keeps the flag.
clearNodeFailureIfNeeded_MastersStay(v, x) ==
    IF ~nodeIsMaster(v, x) \/ x \notin Voters THEN [v EXCEPT !.flag[x] = "ok"] ELSE v

clearNodeFailureIfNeeded(v, x) ==
    IF ~nodeIsMaster(v, x) \/ x \notin Voters \/ v.since[x] = Old THEN [v EXCEPT !.flag[x] = "ok"] ELSE v

---------------------------------------------------------------------------
(***************************************************************************)
(* The cluster state, computed before sleeping whenever something changed. *)
(***************************************************************************)
\* Mutant: a minority goes on serving.
clusterUpdateState_NoQuorum(v, me) ==
    [v EXCEPT !.state = IF Voters \subseteq v.known /\ \A x \in Voters : v.flag[x] # "fail" THEN "ok" ELSE "fail"]

clusterUpdateState(v, me) ==
    LET covered == Voters \subseteq v.known /\ \A x \in Voters : v.flag[x] # "fail"
        reachable == Cardinality({x \in Voters \cap v.known : v.flag[x] = "ok"})
        among == reachable < Quorum(v)
        w == IF among THEN [v EXCEPT !.minority = 0] ELSE v
        state == IF covered /\ ~among THEN "ok" ELSE "fail"
    IN  IF state = "ok" /\ v.state = "fail" /\ nodeIsMaster(v, me) /\ w.minority = 0
        THEN w ELSE [w EXCEPT !.state = state]

---------------------------------------------------------------------------
(***************************************************************************)
(* The nodes table.                                                        *)
(***************************************************************************)
clusterStartHandshake(v, m) == IF m \in DOMAIN v.hand THEN v ELSE [v EXCEPT !.hand = @ @@ (m :> 0)]
EndHandshake(v, m) == [v EXCEPT !.hand = [x \in DOMAIN @ \ {m} |-> @[x]]]

\* A node that is created starts without flags, reports and pings.
clusterAddNode(v, m, flag) ==
    [v EXCEPT !.known = @ \cup {m}, !.flag[m] = flag, !.since[m] = Old, !.wait[m] = 0,
              !.rep[m] = [r \in Nodes |-> Never]]

clusterDelNode(v, m) ==
    [v EXCEPT !.known = @ \ {m}, !.rep = [x \in Nodes |-> [@[x] EXCEPT ![m] = Never]]]

\* Mutant: the blacklist is not looked up.
clusterBlacklistExists_No(v, m) == FALSE

clusterBlacklistExists(v, m) == v.black[m] > 0

\* One entry of the gossip section: x has the flag f for the known node src.
GossipEntry(v, me, src, x, f) ==
    IF x \in v.known
    THEN IF ~nodeIsMaster(v, src) \/ x = me THEN v
         ELSE IF f # "ok" THEN markNodeAsFailingIfNeeded(clusterNodeAddFailureReport(v, x, src), me, x)
         ELSE clusterNodeDelFailureReport(v, x, src)
    ELSE IF clusterBlacklistExists(v, x) THEN v ELSE clusterAddNode(v, x, f)

\* The gossip section of a packet of u's: all it knows in a small cluster (clusterSendPing).
clusterProcessGossipSection(v, me, u, src) ==
    FoldSet(LAMBDA x, w : GossipEntry(w, me, src, x, u.flag[x]), v, u.known \ {src})

---------------------------------------------------------------------------
(***************************************************************************)
(* Packets.  A node that me knows is heard of; v is me's memory and u that *)
(* of the sender when it built the packet.                                 *)
(***************************************************************************)
ProcessPing(v, me, u, src, meet) ==
    IF src \in v.known
    THEN clusterProcessGossipSection([v EXCEPT !.wait[src] = IF @ > 1 THEN 1 ELSE @, !.of[src] = u.of[src]], me, u, src)
    ELSE IF meet THEN clusterStartHandshake(v, src) ELSE v

\* A PONG on a link of mine: it ends a handshake, or clears failure flags.
ProcessPong(v, me, u, m) ==
    LET answered == [v EXCEPT !.wait[m] = 0, !.of[m] = u.of[m]]
        cleared == IF v.flag[m] = "pfail" THEN [answered EXCEPT !.flag[m] = "ok"]
                   ELSE IF v.flag[m] = "fail" THEN clearNodeFailureIfNeeded(answered, m) ELSE answered
    IN  IF m \in DOMAIN v.hand
        THEN IF m \in v.known THEN EndHandshake(v, m) ELSE clusterAddNode(EndHandshake(v, m), m, "ok")
        ELSE IF m \in v.known THEN clusterProcessGossipSection(cleared, me, u, m) ELSE v

\* n pings m, which answers before it processes the gossip; every node updates its state.
clusterSendPing(ns, n, m) ==
    LET v == IF ns[n].wait[m] = 0 /\ m \in ns[n].known THEN [ns[n] EXCEPT !.wait[m] = 1] ELSE ns[n]
    IN  IF ~Linked(n, m) THEN [ns EXCEPT ![n] = v]
        ELSE [ns EXCEPT ![m] = clusterUpdateState(ProcessPing(@, m, v, n, m \in v.meet), m),
                        ![n] = clusterUpdateState(ProcessPong([v EXCEPT !.meet = @ \ {m}], n, ns[m], m), n)]

Failed(old, new) == {x \in Nodes : old.flag[x] = "pfail" /\ new.flag[x] = "fail"}
clusterSendFail(ns) ==
    UNION {{<<n, m, x>> : m \in {y \in ns[n].known \ {n} : Linked(n, y)}, x \in Failed(node[n], ns[n])} : n \in Nodes}

ProcessFail(from, me, x) ==
    LET v == node[me]
        w == IF from \in v.known /\ x \in v.known /\ x # me /\ v.flag[x] # "fail"
             THEN [v EXCEPT !.flag[x] = "fail", !.since[x] = 0] ELSE v
    IN  /\ <<from, me, x>> \in fails /\ fails' = fails \ {<<from, me, x>>}
        /\ node' = [node EXCEPT ![me] = clusterUpdateState(w, me)]
        /\ watch' = [watch EXCEPT !.marked = {}]
        /\ UNCHANGED <<due, cut, faults>>

---------------------------------------------------------------------------
(***************************************************************************)
(* clusterCron: ages, handshake timeouts, PFAIL, and the pings.            *)
(***************************************************************************)
TimeEvents(v, me) ==
    clusterUpdateState([v EXCEPT
        !.hand = [m \in {x \in DOMAIN @ : @[x] = 0} |-> 1],
        !.meet = {m \in @ : v.hand[m] = 0},
        !.wait = [m \in Nodes |-> IF @[m] > 0 THEN Older(@[m]) ELSE 0],
        !.flag = [m \in Nodes |-> IF m \in v.known /\ v.wait[m] > 0 /\ @[m] = "ok" THEN "pfail" ELSE @[m]],
        !.since = [m \in Nodes |-> Older(@[m])],
        !.rep = [m \in Nodes |-> [r \in Nodes |-> Older(@[m][r])]],
        !.black = [m \in Nodes |-> IF @[m] > 0 THEN @[m] - 1 ELSE 0],
        !.minority = Older(@)], me)

clusterCron(n) ==
    LET v == TimeEvents(node[n], n)
        ns == FoldSet(LAMBDA m, w : clusterSendPing(w, n, m), [node EXCEPT ![n] = v], (v.known \cup DOMAIN v.hand) \ {n})
    IN  /\ n \in due /\ fails = {}
        /\ due' = due \ {n} /\ node' = ns /\ fails' = clusterSendFail(ns)
        /\ watch' = [watch EXCEPT !.marked = UNION {{<<m, x>> : x \in Failed(node[m], ns[m])} : m \in Nodes},
                                    !.suspect[n] = [x \in Nodes |-> IF v.flag[x] # "ok" THEN 0 ELSE @[x]]]
        /\ UNCHANGED <<cut, faults>>

Cutoff(n) == {m \in Nodes \ {n} : ~Linked(n, m)}
Round ==
    /\ due = {} /\ due' = {n \in Nodes : node[n].known # {n} \/ DOMAIN node[n].hand # {}}
    /\ watch' = [watch EXCEPT
          !.marked = {},
          !.suspect = [m \in Nodes |-> [x \in Nodes |-> IF @[m][x] < Never THEN @[m][x] + 1 ELSE Never]],
          !.alone = [n \in Nodes |-> IF Cardinality(Voters \ Cutoff(n)) < Cardinality(Voters) \div 2 + 1
                                     THEN Older(@[n]) ELSE 0],
          !.calm = IF cut = {} THEN (IF @ < Calm THEN @ + 1 ELSE @) ELSE 0]
    /\ UNCHANGED <<node, fails, cut, faults>>

---------------------------------------------------------------------------
(***************************************************************************)
(* Faults and commands.                                                    *)
(***************************************************************************)
Fault == faults < MaxFaults /\ faults' = faults + 1

Cut(S) ==
    /\ Fault /\ due = {} /\ cut = {} /\ cut' = {{n, m} : n \in S, m \in Nodes \ S}
    /\ fails' = {f \in fails : {f[1], f[2]} \notin cut'} /\ watch' = [watch EXCEPT !.calm = 0, !.marked = {}] /\ UNCHANGED <<node, due>>
Heal == /\ due = {} /\ cut # {} /\ cut' = {} /\ watch' = [watch EXCEPT !.calm = 0, !.marked = {}, !.alone = [n \in Nodes |-> 0]] /\ UNCHANGED <<node, fails, due, faults>>

ClusterMeet(n, m) ==
    /\ Fault /\ m \notin node[n].known
    /\ node' = [node EXCEPT ![n] = clusterStartHandshake([@ EXCEPT !.meet = @ \cup {m}], m)]
    /\ watch' = [watch EXCEPT !.gone = IF @ \in {n, m} THEN None ELSE @, !.calm = 0] /\ UNCHANGED <<fails, due, cut>>

\* CLUSTER FORGET of x, sent by an operator to the nodes in turn.
ClusterForget(n, x) ==
    /\ x \in node[n].known /\ n # x /\ node[n].of[n] # x /\ watch.gone \in {None, x}
    /\ x \notin Voters /\ n \notin watch.sent
    /\ IF watch.gone = None THEN Fault ELSE UNCHANGED faults
    /\ node' = [node EXCEPT ![n] = clusterUpdateState(clusterDelNode([@ EXCEPT !.black[x] = BlacklistTTL], x), n)]
    /\ watch' = [watch EXCEPT !.gone = x, !.sent = @ \cup {n}, !.marked = {},
                              !.late = @ \/ \E m \in watch.sent : node[m].black[x] = 0]
    /\ UNCHANGED <<fails, due, cut>>

\* CLUSTER RESET SOFT of a node without slots.
ClusterReset(n) ==
    /\ Fault /\ n \notin Voters
    /\ node' = [node EXCEPT ![n] = clusterUpdateState(
                   [InitNode(n, {n}) EXCEPT !.of = [m \in Nodes |-> IF m = n THEN None ELSE @[m]]], n)]
    /\ watch' = [watch EXCEPT !.calm = 0] /\ UNCHANGED <<fails, due, cut>>
---------------------------------------------------------------------------
InitWatch ==
    [marked |-> {},                                          \* <<n, x>>: n has just marked x by reports
     suspect |-> [m \in Nodes |-> [x \in Nodes |-> Never]],  \* the rounds since m had x flagged
     alone |-> [n \in Nodes |-> 0],                          \* the rounds n has been without a majority
     gone |-> None, sent |-> {}, late |-> FALSE,             \* FORGET: of whom, sent to whom, some after the TTL
     calm |-> 0]                                             \* the rounds since the last fault

\* The nodes of S have met; one fault less when they all have.
InitWith(S) ==
    /\ node = [n \in Nodes |-> IF n \in S THEN InitNode(n, S)
                               ELSE [InitNode(n, {n}) EXCEPT !.of[n] = None, !.state = "fail", !.minority = 0]]
    /\ fails = {} /\ due = S /\ cut = {} /\ watch = InitWatch
    /\ faults = IF S = Nodes THEN 1 ELSE 0

Step == Round \/ (\E n \in Nodes : clusterCron(n)) \/ \E n, m, x \in Nodes : ProcessFail(n, m, x)

Next ==
    \/ Step \/ Heal
    \/ \E S \in Cuts : Cut(S)
    \/ \E n, x \in Nodes : ClusterMeet(n, x) \/ ClusterForget(n, x)
    \/ \E n \in Nodes : ClusterReset(n)


---------------------------------------------------------------------------
(***************************************************************************)
(* Properties.                                                             *)
(***************************************************************************)
\* A node that is marked FAIL by counting reports was flagged by a majority of the masters within
\* the last two node timeouts and the delay of a gossip (markNodeAsFailingIfNeeded,
\* clusterNodeCleanupFailureReports): old reports and reports of replicas do not add up.
FailHasMajority ==
    \A f \in watch.marked :
        Cardinality({m \in Nodes : nodeIsMaster(node[m], m) /\ (node[m].flag[f[2]] # "ok" \/ watch.suspect[m][f[2]] < Never)}) >= Cardinality(Voters) \div 2 + 1

\* A master that cannot reach a majority of the masters for more than two timeouts
\* has stopped to serve (clusterUpdateState).
MinorityStops == \A n \in Voters : watch.alone[n] = Old => node[n].state = "fail"

\* A node forgotten by all others within the time of the blacklist stays forgotten, whatever
\* gossip about it is still under way (clusterBlacklistExists, CLUSTER FORGET).
ForgottenStays ==
    watch.gone # None /\ watch.sent = Nodes \ {watch.gone} /\ ~watch.late
        => \A n \in watch.sent : watch.gone \notin node[n].known

\* A bounded time after the network is whole again, no node has a failure flag for a node that is
\* in its table and every master serves (clearNodeFailureIfNeeded, clusterUpdateState).
RecoversInTime ==
    watch.calm = Calm => \A n \in Nodes : /\ \A m \in node[n].known \ {watch.gone} : node[n].flag[m] = "ok"
                                          /\ n \in Voters => node[n].state = "ok"
=============================================================================
