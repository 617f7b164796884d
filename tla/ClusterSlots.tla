---------------------------- MODULE ClusterSlots ----------------------------
(***************************************************************************)
(* The slot configuration of Redis Cluster (cluster.c): the slots table    *)
(* and the configEpochs every node keeps, the PING/PONG headers and UPDATE *)
(* packets that spread them, configEpoch collisions, changes of role, and  *)
(* the CLUSTER commands that move slots.  All nodes know each other        *)
(* (ClusterMembership has the handshake and failure detection), failovers  *)
(* are takeovers (ClusterElection has the votes), and a replica is in sync *)
(* with its master (Replication).                                          *)
(***************************************************************************)
EXTENDS Integers, FiniteSets, Sequences, FiniteSetsExt, SequencesExt

CONSTANTS
    Nodes, None,
    Slots,           \* a finite set of naturals
    Keys, SlotOf,    \* the keys and the hash slot of each
    Id,              \* the order of the node names
    MaxPackets       \* bound of the packets in flight when a node pings another

VARIABLES
    node,            \* what every node has in memory
    net              \* net[n, m, "out"]: from n to m on the link n keeps to m; "back": replies on the link of m

(***************************************************************************)
(* The memory v of a node: cur is currentEpoch; role, of and epoch are the *)
(* flags, slaveof and configEpoch of every clusterNode; slots, imp and mig *)
(* are the slots, importing_slots_from and migrating_slots_to tables; data *)
(* is the key space.                                                       *)
(***************************************************************************)
NoData == [k \in Keys |-> None]
Closed == [s \in Slots |-> None]
nodeIsMaster(v, m) == v.role[m] = "master"
SlotsOf(v, m) == {s \in Slots : v.slots[s] = m}
KeysInSlot(v, s) == {k \in Keys : SlotOf[k] = s /\ v.data[k] # None}

clusterAddSlot(v, m, s) == [v EXCEPT !.slots[s] = m]
clusterDelSlot(v, s) == [v EXCEPT !.slots[s] = None]
clusterDelNodeSlots(v, m) == [v EXCEPT !.slots = [s \in Slots |-> IF @[s] = m THEN None ELSE @[s]]]
delKeysInSlots(v, S) == [v EXCEPT !.data = [k \in Keys |-> IF SlotOf[k] \in S THEN None ELSE @[k]]]

\* cluster->state with cluster-require-full-coverage and every master reachable.
clusterIsUp(v) == \A s \in Slots : v.slots[s] # None

---------------------------------------------------------------------------
(***************************************************************************)
(* Epochs and roles.                                                       *)
(***************************************************************************)
clusterGetMaxEpoch(v) == Max({v.cur} \cup {v.epoch[m] : m \in Nodes})

clusterBumpConfigEpochWithoutConsensus(v, me) ==
    IF v.epoch[me] = 0 \/ v.epoch[me] # clusterGetMaxEpoch(v)
    THEN [v EXCEPT !.cur = @ + 1, !.epoch[me] = v.cur + 1]
    ELSE v

\* Mutant: the node that collides never moves forward.
HandleConfigEpochCollision_Ignored(v, me, src) == v

clusterHandleConfigEpochCollision(v, me, src) ==
    IF v.epoch[src] # v.epoch[me] \/ ~nodeIsMaster(v, src) \/ ~nodeIsMaster(v, me) \/ Id[src] <= Id[me]
    THEN v
    ELSE [v EXCEPT !.cur = @ + 1, !.epoch[me] = v.cur + 1]

clusterSetNodeAsMaster(v, m) == [v EXCEPT !.role[m] = "master", !.of[m] = None]

\* Mutant: the slots that are migrating and importing stay open.
clusterSetMaster_SlotsStayOpen(v, me, m) == [v EXCEPT !.role[me] = "slave", !.of[me] = m, !.data = NoData]

\* The new replica drops its data set for the one of its master.
clusterSetMaster(v, me, m) ==
    LET w == IF nodeIsMaster(v, me)
             THEN [v EXCEPT !.role[me] = "slave", !.imp = Closed, !.mig = Closed]
             ELSE v
    IN  [w EXCEPT !.of[me] = m, !.data = NoData]

clusterUpdateSlotsConfigWith(v, me, src, epoch, claimed) ==
    LET curmaster == IF nodeIsMaster(v, me) THEN me ELSE v.of[me]
        moved == {s \in claimed : /\ v.slots[s] # src /\ v.imp[s] = None
                                  /\ v.slots[s] = None \/ v.epoch[v.slots[s]] < epoch}
        ours == {s \in moved : v.slots[s] = curmaster}
        dirty == {s \in moved : v.slots[s] = me /\ KeysInSlot(v, s) # {}}
        w == [v EXCEPT !.slots = [s \in Slots |-> IF s \in moved THEN src ELSE @[s]]]
        master == w.of[me]
    IN  IF src = me THEN v
        ELSE IF ours # {} /\ SlotsOf(w, curmaster) = {}
        THEN clusterSetMaster(w, me, src)
        ELSE IF master # None /\ w.of[master] \notin {None, me}
        THEN clusterSetMaster(w, me, w.of[master])
        ELSE delKeysInSlots(w, dirty)

---------------------------------------------------------------------------
(***************************************************************************)
(* Packets.  A replica sends the slots and the configEpoch of its master.  *)
(***************************************************************************)
clusterBuildMessageHdr(v, me, type, dst) ==
    LET m == IF ~nodeIsMaster(v, me) /\ v.of[me] # None THEN v.of[me] ELSE me
    IN  [type |-> type, src |-> me, dst |-> dst, of |-> v.of[me], cur |-> v.cur, epoch |-> v.epoch[m],
         slots |-> SlotsOf(v, m), about |-> None]

clusterSendUpdate(v, me, dst, m) ==
    [clusterBuildMessageHdr(v, me, "UPDATE", dst) EXCEPT
        !.about = [n |-> m, epoch |-> v.epoch[m], slots |-> SlotsOf(v, m)]]

clusterBroadcastPong(v, me) == {clusterBuildMessageHdr(v, me, "PONG", m) : m \in Nodes \ {me}}

ReceivedEpochs(v, p) ==
    [v EXCEPT !.cur = Max({@, p.cur}), !.epoch[p.src] = Max({@, p.epoch})]

RoleSwitch(v, p) ==
    IF p.of = None THEN clusterSetNodeAsMaster(v, p.src)
    ELSE [(IF nodeIsMaster(v, p.src) THEN clusterDelNodeSlots(v, p.src) ELSE v)
             EXCEPT !.role[p.src] = "slave", !.of[p.src] = p.of]

\* The first owner the sender should be told about, if it claims slots of another node.
Outdated(v, p) ==
    LET S == {s \in p.slots : v.slots[s] \notin {p.src, None} /\ v.epoch[v.slots[s]] > p.epoch}
    IN  IF S = {} THEN None ELSE v.slots[Min(S)]

\* Mutant: a sender with an old configuration is not told.
ProcessConfig_NoUpdate(v, me, p) ==
    LET r == RoleSwitch(v, p)
        u == IF nodeIsMaster(r, p.src) THEN clusterUpdateSlotsConfigWith(r, me, p.src, p.epoch, p.slots) ELSE r
    IN  [v |-> clusterHandleConfigEpochCollision(u, me, p.src), about |-> None]

\* The configuration part of a PING or a PONG.
ProcessConfig(v, me, p) ==
    LET r == RoleSwitch(v, p)
        master == IF nodeIsMaster(r, p.src) THEN p.src ELSE r.of[p.src]
        dirty == master # None /\ SlotsOf(r, master) # p.slots
        u == IF nodeIsMaster(r, p.src) /\ dirty
             THEN clusterUpdateSlotsConfigWith(r, me, p.src, p.epoch, p.slots) ELSE r
        collides == nodeIsMaster(u, me) /\ nodeIsMaster(u, p.src) /\ p.epoch = u.epoch[me]
    IN  [v |-> IF collides THEN clusterHandleConfigEpochCollision(u, me, p.src) ELSE u,
         about |-> IF dirty THEN Outdated(u, p) ELSE None]

Channels == Nodes \X Nodes \X {"out", "back"}
InFlight == {c \in Channels : net[c] # <<>>}

\* A packet on the link to p.dst.
clusterSendMessage(q, p) == [q EXCEPT ![p.src, p.dst, "out"] = Append(@, p)]
Broadcast(q, packets) == [c \in Channels |-> q[c] \o SetToSeq({p \in packets : <<p.src, p.dst, "out">> = c})]
Received(c) == [net EXCEPT ![c] = Tail(@)]

clusterSendPing(n, m) ==
    /\ n # m /\ Cardinality(InFlight) < MaxPackets
    /\ net' = clusterSendMessage(net, clusterBuildMessageHdr(node[n], n, "PING", m))
    /\ UNCHANGED node

\* The PONG is built before the configuration of the PING is processed, and goes back on
\* the link of the PING.
clusterProcessPing(c) ==
    LET p == Head(net[c])
        me == p.dst
        v == ReceivedEpochs(node[me], p)
        r == ProcessConfig(v, me, p)
        replied == IF p.type = "PING"
                   THEN [Received(c) EXCEPT ![me, p.src, "back"] =
                           Append(@, clusterBuildMessageHdr(v, me, "PONG", p.src))]
                   ELSE Received(c)
    IN  /\ p.type \in {"PING", "PONG"}
        /\ node' = [node EXCEPT ![me] = r.v]
        /\ net' = IF r.about = None THEN replied
                  ELSE clusterSendMessage(replied, clusterSendUpdate(r.v, me, p.src, r.about))

clusterProcessUpdate(c) ==
    LET p == Head(net[c])
        me == p.dst
        v == ReceivedEpochs(node[me], p)
        n == p.about.n
        known == v.epoch[n] >= p.about.epoch
        w == [(IF nodeIsMaster(v, n) THEN v ELSE clusterSetNodeAsMaster(v, n)) EXCEPT !.epoch[n] = p.about.epoch]
    IN  /\ p.type = "UPDATE"
        /\ node' = [node EXCEPT ![me] =
                      IF known THEN v
                      ELSE clusterUpdateSlotsConfigWith(w, me, n, p.about.epoch, p.about.slots)]
        /\ net' = Received(c)

\* The link n keeps to m breaks, with what is on it in both directions.
freeClusterLink(n, m) ==
    /\ net[n, m, "out"] # <<>> \/ net[m, n, "back"] # <<>>
    /\ net' = [net EXCEPT ![n, m, "out"] = <<>>, ![m, n, "back"] = <<>>]
    /\ UNCHANGED node

---------------------------------------------------------------------------
(***************************************************************************)
(* The CLUSTER commands: each gives whether it is accepted, the memory     *)
(* after it and whether a PONG is broadcast.                               *)
(***************************************************************************)
Refused(v) == [ok |-> FALSE, v |-> v, pong |-> FALSE]
Done(v) == [ok |-> TRUE, v |-> v, pong |-> FALSE]

SetSlotMigrating(v, me, s, n) ==
    IF ~nodeIsMaster(v, me) \/ v.slots[s] # me \/ ~nodeIsMaster(v, n) THEN Refused(v)
    ELSE Done([v EXCEPT !.mig[s] = n])

SetSlotImporting(v, me, s, n) ==
    IF ~nodeIsMaster(v, me) \/ v.slots[s] = me \/ ~nodeIsMaster(v, n) THEN Refused(v)
    ELSE Done([v EXCEPT !.imp[s] = n])

SetSlotStable(v, me, s) ==
    IF ~nodeIsMaster(v, me) THEN Refused(v) ELSE Done([v EXCEPT !.imp[s] = None, !.mig[s] = None])

\* Mutant: an imported slot is closed without a new configEpoch.
SetSlotNode_NoBump(v, me, s, n) ==
    IF ~nodeIsMaster(v, me) \/ ~nodeIsMaster(v, n) \/ (v.slots[s] = me /\ n # me /\ KeysInSlot(v, s) # {})
    THEN Refused(v)
    ELSE Done([v EXCEPT !.slots[s] = n, !.imp[s] = IF n = me THEN None ELSE @])

SetSlotNode(v, me, s, n) ==
    IF ~nodeIsMaster(v, me) \/ ~nodeIsMaster(v, n) \/ (v.slots[s] = me /\ n # me /\ KeysInSlot(v, s) # {})
    THEN Refused(v)
    ELSE LET w == [v EXCEPT !.slots[s] = n, !.mig[s] = IF KeysInSlot(v, s) = {} THEN None ELSE @]
             x == IF v.slots[s] = me /\ n # me /\ SlotsOf(w, me) = {} THEN clusterSetMaster(w, me, n) ELSE w
         IN  IF n = me /\ v.imp[s] # None
             THEN [ok |-> TRUE, pong |-> TRUE,
                   v |-> clusterBumpConfigEpochWithoutConsensus([x EXCEPT !.imp[s] = None], me)]
             ELSE Done(x)

clusterDelSlots(v, s) ==
    IF v.slots[s] = None THEN Refused(v) ELSE Done([clusterDelSlot(v, s) EXCEPT !.imp[s] = None])

clusterAddSlots(v, me, s) ==
    IF v.slots[s] # None THEN Refused(v) ELSE Done([clusterAddSlot(v, me, s) EXCEPT !.imp[s] = None])

clusterReplicate(v, me, n) ==
    IF n = me \/ ~nodeIsMaster(v, n) \/ (nodeIsMaster(v, me) /\ (SlotsOf(v, me) # {} \/ v.data # NoData))
    THEN Refused(v)
    ELSE Done(clusterSetMaster(v, me, n))

\* CLUSTER FAILOVER TAKEOVER: a new epoch without votes, and the slots of the master.
ClusterFailoverTakeover(me) ==
    LET old == node[me].of[me]
        v == clusterSetNodeAsMaster(clusterBumpConfigEpochWithoutConsensus(node[me], me), me)
        w == [v EXCEPT !.slots = [s \in Slots |-> IF @[s] = old THEN me ELSE @[s]], !.data = node[old].data]
    IN  /\ ~nodeIsMaster(node[me], me) /\ old # None
        /\ node' = [node EXCEPT ![me] = w]
        /\ net' = Broadcast(net, clusterBroadcastPong(w, me))

\* What a command leaves behind.
Executed(me, r) ==
    /\ node' = [node EXCEPT ![me] = r.v]
    /\ net' = IF r.pong THEN Broadcast(net, clusterBroadcastPong(r.v, me)) ELSE net

ClusterBumpEpoch(me) == Executed(me, Done(clusterBumpConfigEpochWithoutConsensus(node[me], me)))
=============================================================================
