--------------------------- MODULE ClusterReshard ---------------------------
(***************************************************************************)
(* Moving slots between masters under load: the redirections of            *)
(* getNodeByQuery, MIGRATE and RESTORE-ASKING, and redis-cli --cluster     *)
(* reshard and fix, which run their plan one command at a time and can be  *)
(* killed between two commands.                                            *)
(***************************************************************************)
EXTENDS ClusterSlots, SequencesExt

CONSTANTS
    Values,
    MaxWrites        \* bound of the requests of the client

VARIABLES
    cli,             \* redis-cli: [todo, state, slot, replace]
    client,          \* the request of the client and the node it is sent to
    late,            \* RESTOREs that MIGRATE gave up on, still in the buffers of the target
    doubt,           \* the keys of those
    reply,           \* the last value read
    writes, faults,
    conf             \* what this behaviour contains: [load, fix, takeover], the links in use
                     \* and the bound of faults

bounds == <<writes, faults, conf>>
vars == <<node, net, cli, client, late, doubt, reply, writes, faults, conf>>

Idle == [state |-> "idle"]
Order == SetToSortSeq(Nodes, LAMBDA a, b : Id[a] < Id[b])   \* the node list of redis-cli

---------------------------------------------------------------------------
(***************************************************************************)
(* Redirections.                                                           *)
(***************************************************************************)
\* Mutant: a missing key of a migrating slot is served.
getNodeByQuery_NoAsk(v, me, keys, asking, migrate) ==
    LET s == SlotOf[CHOOSE k \in keys : TRUE] IN
    IF v.slots[s] = me \/ (v.imp[s] # None /\ asking) THEN [kind |-> "serve", n |-> me]
    ELSE [kind |-> "MOVED", n |-> v.slots[s]]

getNodeByQuery(v, me, keys, asking, migrate) ==
    LET s == SlotOf[CHOOSE k \in keys : TRUE]
        n == v.slots[s]
        migrating == n = me /\ v.mig[s] # None
        importing == ~migrating /\ v.imp[s] # None
        missing == {k \in keys : v.data[k] = None}
        to(kind, m) == [kind |-> kind, n |-> m]
    IN  CASE n = None -> to("UNBOUND", None)
          [] n # None /\ ~clusterIsUp(v) -> to("CLUSTERDOWN", None)
          [] n # None /\ clusterIsUp(v) ->
               IF (migrating \/ importing) /\ migrate THEN to("serve", me)
               ELSE IF migrating /\ missing # {}
               THEN IF missing # keys THEN to("TRYAGAIN", None) ELSE to("ASK", v.mig[s])
               ELSE IF importing /\ asking
               THEN IF Cardinality(keys) > 1 /\ missing # {} THEN to("TRYAGAIN", None) ELSE to("serve", me)
               ELSE IF n # me THEN to("MOVED", n) ELSE to("serve", me)

NewRequest ==
    /\ conf.load /\ client = Idle /\ writes < MaxWrites
    /\ \E keys \in (SUBSET Keys) \ {{}}, op \in {"get", "set", "del"}, x \in Values, n \in Nodes :
         /\ \A j, k \in keys : SlotOf[j] = SlotOf[k]
         /\ op # "set" => x = CHOOSE y \in Values : TRUE
         /\ op = "get" => Cardinality(keys) = 1
         /\ client' = [state |-> "ask", op |-> op, keys |-> keys, x |-> x, at |-> n, asking |-> FALSE]
         /\ writes' = writes + 1
    /\ UNCHANGED <<node, net, cli, late, doubt, reply, faults, conf>>

\* A node gets the command of the client (and the ASKING before it).
ProcessCommand ==
    LET q == getNodeByQuery(node[client.at], client.at, client.keys, client.asking, FALSE)
        stored == [k \in Keys |-> IF k \notin client.keys THEN node[client.at].data[k]
                                  ELSE IF client.op = "set" THEN client.x ELSE None]
    IN  /\ client # Idle /\ UNCHANGED <<net, cli, late, doubt, bounds>>
        /\ CASE q.kind \in {"MOVED", "ASK"} ->
                  /\ client' = [client EXCEPT !.at = q.n, !.asking = q.kind = "ASK"]
                  /\ UNCHANGED <<node, reply>>
             [] q.kind = "serve" /\ client.op = "get" ->
                  /\ client' = Idle /\ UNCHANGED node
                  /\ \E k \in client.keys : reply' = [key |-> k, value |-> node[client.at].data[k]]
             [] q.kind = "serve" /\ client.op # "get" ->
                  /\ client' = Idle /\ reply' = None
                  /\ node' = [node EXCEPT ![client.at].data = stored]
             [] OTHER -> client' = Idle /\ reply' = None /\ UNCHANGED node

---------------------------------------------------------------------------
(***************************************************************************)
(* The plans of redis-cli: sequences of steps, most of them one command to *)
(* one node.  The failure of a soft step does not stop redis-cli.          *)
(***************************************************************************)
Step(op, at, n, s) == [op |-> op, at |-> at, n |-> n, s |-> s, soft |-> FALSE]
Soft(op, at, n, s) == [Step(op, at, n, s) EXCEPT !.soft = TRUE]
Masters == SelectSeq(Order, LAMBDA n : nodeIsMaster(node[n], n))
ForEach(seq, Op(_)) == FlattenSeq([i \in DOMAIN seq |-> Op(seq[i])])
Others(seq, S) == SelectSeq(seq, LAMBDA n : n \notin S)


clusterManagerMoveSlot(src, dst, s, cold) ==
    IF cold THEN <<Step("keys", src, dst, s)>>
    ELSE <<Step("importing", dst, src, s), Step("migrating", src, dst, s), Step("keys", src, dst, s),
           Step("node", dst, dst, s), Soft("node", src, dst, s)>>
         \o ForEach(Others(Masters, {src, dst}), LAMBDA n : <<Step("node", n, dst, s)>>)

clusterManagerGetNodeWithMostKeysInSlot(nodes, s) ==
    LET most == Max({Cardinality(KeysInSlot(node[nodes[i]], s)) : i \in DOMAIN nodes})
    IN  SelectSeq(nodes, LAMBDA n : Cardinality(KeysInSlot(node[n], s)) = most)[1]

\* An uncovered slot: keys in no node, in one, or in several.
clusterManagerFixSlotsCoverage(s, random) ==
    LET with == SelectSeq(Masters, LAMBDA n : KeysInSlot(node[n], s) # {})
        target == clusterManagerGetNodeWithMostKeysInSlot(with, s)
    IN  CASE Len(with) = 0 -> <<Step("owner", random, None, s)>>
          [] Len(with) = 1 -> <<Step("owner", with[1], None, s)>>
          [] Len(with) > 1 -> <<Step("clear", target, None, s)>>
               \o ForEach(Others(with, {target}), LAMBDA n :
                     <<Step("node", n, target, s), Step("importing", n, target, s),
                       Step("keys", n, target, s), Step("stable", n, None, s)>>)

OpenOwners(s) == SelectSeq(Masters, LAMBDA n : node[n].slots[s] = n \/ KeysInSlot(node[n], s) # {})


clusterManagerFixOpenSlot(s) ==
    LET owners == OpenOwners(s)
        clear == Len(owners) = 1
        owner == IF clear THEN owners[1] ELSE clusterManagerGetNodeWithMostKeysInSlot(Masters, s)
        mig1 == SelectSeq(Masters, LAMBDA n : node[n].mig[s] # None)
        imp1 == SelectSeq(Masters, LAMBDA n : node[n].mig[s] = None /\
                    (node[n].imp[s] # None \/ ((~clear \/ n # owner) /\ KeysInSlot(node[n], s) # {})))
        others == IF Len(owners) > 1 THEN Others(owners, {owner}) ELSE <<>>
        migrating == IF clear THEN mig1 ELSE Others(mig1, {owner} \cup ToSet(others))
        importing == IF clear THEN imp1 ELSE Others(imp1, {owner} \cup ToSet(others)) \o others
        claim == IF clear THEN <<>> ELSE <<Step("stable", owner, None, s), Step("owner", owner, None, s)>>
        demote == ForEach(others, LAMBDA n : <<Soft("del", n, None, s), Step("node", n, owner, s),
                                               Step("importing", n, owner, s)>>)
        src == migrating[1]
        dst == node[src].mig[s]
        stableAll(seq) == ForEach(seq, LAMBDA n : <<Step("stable", n, None, s)>>)
        close ==
          IF Len(migrating) = 1 /\ Len(importing) = 1
          THEN clusterManagerMoveSlot(src, importing[1], s, FALSE)
          ELSE IF Len(migrating) = 0 /\ Len(importing) > 0
          THEN ForEach(Others(importing, {owner}), LAMBDA n : <<Step("keys", n, owner, s), Step("stable", n, None, s)>>)
               \o ForEach(Others(Masters, {owner}), LAMBDA n : <<Step("node", n, owner, s)>>)
          ELSE IF Len(migrating) = 1 /\ Len(importing) > 1
          THEN IF \E i \in DOMAIN importing : KeysInSlot(node[importing[i]], s) # {}
               THEN <<Step("unhandled", owner, None, s)>>
               ELSE IF dst \in ToSet(importing)
               THEN clusterManagerMoveSlot(src, dst, s, FALSE) \o stableAll(Others(importing, {dst}))
               ELSE stableAll(<<src>> \o importing)
          ELSE IF Len(importing) = 0 /\ Len(migrating) = 1 /\ (owner = src \/ KeysInSlot(node[src], s) = {})
          THEN <<Step("stable", src, None, s)>>
          ELSE <<Step("unhandled", owner, None, s)>>
    IN  claim \o demote \o close

clusterManagerFixMultipleSlotOwners(s) ==
    LET owner == clusterManagerGetNodeWithMostKeysInSlot(
                    SelectSeq(Masters, LAMBDA n : node[n].slots[s] = n), s)
    IN  <<Step("owner", owner, None, s)>>
        \o ForEach(Others(Masters, {owner}), LAMBDA n :
              <<Soft("del", n, None, s), Step("node", n, owner, s)>>
              \o IF KeysInSlot(node[n], s) # {} THEN <<Step("keys", n, owner, s)>> ELSE <<>>)

IsOpen(s) == \E i \in DOMAIN Masters : node[Masters[i]].mig[s] # None \/ node[Masters[i]].imp[s] # None
Claiming(s) == {n \in Nodes : nodeIsMaster(node[n], n) /\ node[n].slots[s] = n}

\* One pass of clusterManagerCheckCluster with --cluster-search-multiple-owners.
clusterManagerCheckCluster(s, random) ==
    IF IsOpen(s) THEN clusterManagerFixOpenSlot(s)
    ELSE IF Claiming(s) = {} THEN clusterManagerFixSlotsCoverage(s, random)
    ELSE IF Cardinality(Claiming(s)) > 1 THEN clusterManagerFixMultipleSlotOwners(s)
    ELSE <<>>

Start(plan, s, goal) == cli' = [todo |-> plan, state |-> "run", goal |-> goal, slot |-> s, replace |-> FALSE]

\* redis-cli --cluster reshard of a slot.
clusterManagerCommandReshard ==
    /\ cli.state = "idle"
    /\ \E s \in conf.moves, src, dst \in ToSet(Masters) :
         /\ src # dst /\ Claiming(s) = {src} /\ ~IsOpen(s)
         /\ Start(clusterManagerMoveSlot(src, dst, s, FALSE), s, "reshard")
    /\ UNCHANGED <<node, net, client, late, doubt, reply, bounds>>

\* redis-cli --cluster fix, the first time or again after a failure.
clusterManagerCommandFix ==
    /\ conf.fix /\ cli.state \in {"killed", "failed"} /\ faults < conf.faults
    /\ \E s \in {cli.slot}, n \in ToSet(Masters) : Start(clusterManagerCheckCluster(s, n), s, "fix")
    /\ faults' = faults + 1
    /\ UNCHANGED <<node, net, client, late, doubt, reply, writes, conf>>

Killed ==
    /\ conf.fix /\ cli.state = "run" /\ cli.goal = "reshard" /\ cli.todo # <<>> /\ faults < conf.faults
    /\ cli' = [cli EXCEPT !.state = "killed", !.todo = <<>>] /\ faults' = faults + 1
    /\ UNCHANGED <<node, net, client, late, doubt, reply, writes, conf>>

---------------------------------------------------------------------------
(***************************************************************************)
(* The commands of a step.                                                 *)
(***************************************************************************)
Advance(r, t) ==
    cli' = IF r.ok \/ t.soft
           THEN [cli EXCEPT !.todo = Tail(@), !.state = IF Len(cli.todo) = 1 THEN "done" ELSE @]
           ELSE [cli EXCEPT !.todo = <<>>, !.state = "failed"]

\* MULTI, DELSLOTS, ADDSLOTS, [SETSLOT STABLE], BUMPEPOCH, EXEC: only ADDSLOTS may not fail.
clusterManagerSetSlotOwner(v, me, s, clear) ==
    LET d == clusterDelSlots(v, s).v
        a == clusterAddSlots(d, me, s)
        c == IF clear THEN SetSlotStable(a.v, me, s).v ELSE a.v
    IN  [ok |-> a.ok, pong |-> FALSE, v |-> clusterBumpConfigEpochWithoutConsensus(c, me)]

Command(t) ==
    LET v == node[t.at] IN
    CASE t.op = "importing" -> SetSlotImporting(v, t.at, t.s, t.n)
      [] t.op = "migrating" -> SetSlotMigrating(v, t.at, t.s, t.n)
      [] t.op = "node" -> SetSlotNode(v, t.at, t.s, t.n)
      [] t.op = "stable" -> SetSlotStable(v, t.at, t.s)
      [] t.op = "del" -> clusterDelSlots(v, t.s)
      [] t.op = "owner" -> clusterManagerSetSlotOwner(v, t.at, t.s, FALSE)
      [] t.op = "clear" -> clusterManagerSetSlotOwner(v, t.at, t.s, TRUE)
      [] t.op = "unhandled" -> Refused(v)

RunStep ==
    /\ cli.state = "run" /\ cli.todo # <<>> /\ Head(cli.todo).op # "keys"
    /\ LET t == Head(cli.todo) r == Command(t) IN Executed(t.at, r) /\ Advance(r, t)
    /\ UNCHANGED <<client, late, doubt, reply, bounds>>

\* A plan without steps: there was nothing to do.
NothingToDo ==
    /\ cli.state = "run" /\ cli.todo = <<>> /\ cli' = [cli EXCEPT !.state = "done"]
    /\ UNCHANGED <<node, net, client, late, doubt, reply, bounds>>

\* RESTORE-ASKING at the target: OK, BUSYKEY, or an error.
restoreCommand(v, me, k, replace) ==
    IF getNodeByQuery(v, me, {k}, TRUE, FALSE).kind # "serve" THEN "error"
    ELSE IF v.data[k] # None /\ ~replace THEN "BUSYKEY"
    ELSE "OK"

\* Mutant: the source deletes the key before the target acknowledges it.
migrateCommand_DeleteFirst(t, k) ==
    /\ node' = [node EXCEPT ![t.at].data[k] = None]
    /\ cli' = [cli EXCEPT !.state = "failed", !.todo = <<>>] /\ faults < conf.faults /\ faults' = faults + 1
    /\ UNCHANGED <<net, client, late, doubt, reply, writes, conf>>

\* MIGRATE of a key: redirected, refused by the target, or done; or an I/O error, with
\* the RESTORE lost or left in the buffers of the target.
migrateCommand(t, k) ==
    LET src == node[t.at] dst == node[t.n]
        served == getNodeByQuery(src, t.at, {k}, FALSE, TRUE).kind = "serve"
        answer == restoreCommand(dst, t.n, k, cli.replace)
        fail == [cli EXCEPT !.state = "failed", !.todo = <<>>]
    IN  \/ /\ served /\ answer = "OK"
           /\ node' = [node EXCEPT ![t.n].data[k] = src.data[k], ![t.at].data[k] = None]
           /\ cli' = [cli EXCEPT !.replace = FALSE]
           /\ UNCHANGED <<net, client, late, doubt, reply, bounds>>
        \/ /\ served /\ answer = "BUSYKEY"       \* equal values: again with REPLACE
           /\ cli' = IF dst.data[k] = src.data[k] THEN [cli EXCEPT !.replace = TRUE] ELSE fail
           /\ UNCHANGED <<node, net, client, late, doubt, reply, bounds>>
        \/ /\ ~served \/ answer = "error"
           /\ IF src.slots[t.s] = None /\ cli.goal = "fix" /\ SetSlotNode(src, t.at, t.s, t.n).ok
              THEN Executed(t.at, SetSlotNode(src, t.at, t.s, t.n)) /\ UNCHANGED cli
              ELSE cli' = fail /\ UNCHANGED <<node, net>>
           /\ UNCHANGED <<client, late, doubt, reply, bounds>>
        \/ /\ served /\ faults < conf.faults /\ faults' = faults + 1
           /\ cli' = fail /\ doubt' = doubt \cup {k}
           /\ \E lost \in BOOLEAN :
                late' = IF lost THEN late ELSE late \cup {[at |-> t.n, k |-> k, x |-> src.data[k], replace |-> cli.replace]}
           /\ UNCHANGED <<node, net, client, reply, writes, conf>>

\* clusterManagerMigrateKeysInSlot.
MigrateKeysInSlot ==
    LET t == Head(cli.todo) keys == KeysInSlot(node[t.at], t.s) IN
    /\ cli.state = "run" /\ cli.todo # <<>> /\ t.op = "keys"
    /\ \/ /\ keys = {} /\ Advance([ok |-> TRUE], t)
          /\ UNCHANGED <<node, net, client, late, doubt, reply, bounds>>
       \/ \E k \in keys : migrateCommand(t, k)

\* The target gets to a RESTORE nobody waits for any more.
RestoreLate ==
    \E r \in late :
        /\ late' = late \ {r}
        /\ node' = IF restoreCommand(node[r.at], r.at, r.k, r.replace) = "OK"
                   THEN [node EXCEPT ![r.at].data[r.k] = r.x] ELSE node
        /\ UNCHANGED <<net, cli, client, doubt, reply, bounds>>

---------------------------------------------------------------------------
Ping(n, m) == <<n, m>> \in conf.links /\ clusterSendPing(n, m) /\ UNCHANGED <<cli, client, late, doubt, reply, bounds>>
Deliver(c) == /\ net[c] # <<>>
              /\ clusterProcessPing(c) \/ clusterProcessUpdate(c)
              /\ UNCHANGED <<cli, client, late, doubt, reply, bounds>>
LinkBreaks(n, m) == /\ faults < conf.faults /\ faults' = faults + 1 /\ freeClusterLink(n, m)
                    /\ UNCHANGED <<cli, client, late, doubt, reply, writes, conf>>
\* An operator takes over with what is a replica of a master in its own table: "in some rare case
\* ... myself is a replica of a replica of myself", and the code leaves that to the operator.
Takeover(n) == /\ conf.takeover /\ node[n].of[n] # None
               /\ nodeIsMaster(node[n], node[n].of[n]) /\ faults < conf.faults /\ faults' = faults + 1 /\ ClusterFailoverTakeover(n)
               /\ UNCHANGED <<cli, client, late, doubt, reply, writes, conf>>
BumpEpoch(n) == /\ conf.takeover /\ faults < conf.faults /\ faults' = faults + 1 /\ ClusterBumpEpoch(n)
                /\ UNCHANGED <<cli, client, late, doubt, reply, writes, conf>>
Replicate(n, m) ==
    LET r == clusterReplicate(node[n], n, m) IN
    /\ conf.takeover /\ faults < conf.faults /\ faults' = faults + 1 /\ r.ok /\ Executed(n, r)
    /\ UNCHANGED <<cli, client, late, doubt, reply, writes, conf>>

Next ==
    \/ NewRequest \/ ProcessCommand
    \/ clusterManagerCommandReshard \/ clusterManagerCommandFix \/ Killed
    \/ RunStep \/ NothingToDo \/ MigrateKeysInSlot \/ RestoreLate
    \/ \E n, m \in Nodes : Ping(n, m) \/ Replicate(n, m) \/ LinkBreaks(n, m)
    \/ \E c \in Channels : Deliver(c)
    \/ \E n \in Nodes : Takeover(n) \/ BumpEpoch(n)

(***************************************************************************)
(* Init: the masters own the slots of `layout', the others are replicas of *)
(* the first master, and the values are at their owners.                   *)
(***************************************************************************)
InitWith(layout, masterOf, c) ==
    \E values \in [Keys -> Values] :
      /\ conf = c
      /\ node = [n \in Nodes |->
           [cur |-> Cardinality(Nodes), role |-> [m \in Nodes |-> IF masterOf[m] = None THEN "master" ELSE "slave"],
            of |-> masterOf, epoch |-> [m \in Nodes |-> IF masterOf[m] = None THEN Id[m] ELSE 0],
            slots |-> layout, imp |-> Closed, mig |-> Closed,
            data |-> [k \in Keys |-> IF layout[SlotOf[k]] = n THEN values[k] ELSE None]]]
      /\ net = [ch \in Channels |-> <<>>] /\ cli = [todo |-> <<>>, state |-> "idle", goal |-> "none", slot |-> 0, replace |-> FALSE]
      /\ client = Idle /\ late = {} /\ doubt = {} /\ reply = None /\ writes = 0 /\ faults = 0

---------------------------------------------------------------------------
(***************************************************************************)
(* Properties.                                                             *)
(***************************************************************************)
TypeOK ==
    /\ \A n \in Nodes : /\ node[n].cur \in Nat /\ node[n].slots \in [Slots -> Nodes \cup {None}]
                        /\ node[n].imp \in [Slots -> Nodes \cup {None}] /\ node[n].mig \in [Slots -> Nodes \cup {None}]
                        /\ node[n].data \in [Keys -> Values \cup {None}] /\ node[n].epoch \in [Nodes -> Nat]
    /\ \A n \in Nodes : ~nodeIsMaster(node[n], n) => node[n].imp = Closed /\ node[n].mig = Closed
    /\ cli.state \in {"idle", "run", "killed", "failed", "done"} /\ doubt \subseteq Keys

\* The node that answers for a slot: the one that claims it with the greatest configEpoch.
Owner(s) ==
    LET owners == Claiming(s) IN
    IF owners = {} THEN None ELSE CHOOSE n \in owners : \A m \in owners : node[m].epoch[m] <= node[n].epoch[n]

Value(k) ==
    LET o == Owner(SlotOf[k]) IN
    IF o = None THEN None
    ELSE IF node[o].data[k] # None \/ node[o].mig[SlotOf[k]] = None THEN node[o].data[k]
    ELSE node[node[o].mig[SlotOf[k]]].data[k]

\* The behaviours with clients and without failovers or interrupted moves implement KeyValueStore.
Abstract == INSTANCE KeyValueStore WITH
    store <- [k \in Keys |-> IF conf.load THEN Value(k) ELSE None],
    doubt <- IF conf.load THEN doubt ELSE {},
    reply <- IF conf.load THEN reply ELSE None


\* What the header n sends now makes of m, and of n by way of the UPDATE of m.
Settled(n, m) ==
    LET v == ReceivedEpochs(node[m], clusterBuildMessageHdr(node[n], n, "PING", m))
        r == ProcessConfig(v, m, clusterBuildMessageHdr(node[n], n, "PING", m))
    IN  r.v = node[m] /\ (r.about # None => node[n].epoch[r.about] >= r.v.epoch[r.about])

\* Gossip has nothing more to change among the nodes of S.
Fixpoint(S) == \A n, m \in S : n # m => Settled(n, m)

\* n owns s for the node m, or m is importing it.
Knows(m, n, s) == node[m].slots[s] = n \/ node[m].imp[s] # None

\* Whatever links are down, a part S of the cluster in which gossip has nothing more to change
\* agrees: a slot that a master n of S claims is its in the table of every node of S, and no two
\* masters of S have the same configEpoch.  Headers are compared both ways, a sender with an
\* old configuration is told by UPDATE even when the new owner is gone, and colliding epochs
\* are separated (clusterProcessPacket, clusterUpdateSlotsConfigWith,
\* clusterHandleConfigEpochCollision).  Excepted is a slot of a master o outside S with the same
\* configEpoch as n, or whose configEpoch n has from another packet, see UpdateReaches.
GossipFixpointAgrees ==
    \A S \in SUBSET Nodes : Fixpoint(S) =>
        \A n, m \in S : n # m /\ nodeIsMaster(node[n], n) =>
            /\ nodeIsMaster(node[m], m) => node[n].epoch[n] # node[m].epoch[m]
            /\ \A s \in SlotsOf(node[n], n) :
                 LET o == node[m].slots[s] IN
                 \/ Knows(m, n, s)
                 \/ o \notin S \cup {None} /\ (node[m].epoch[o] = node[n].epoch[n] \/ node[n].epoch[o] >= node[m].epoch[o])

\* The comment in clusterProcessPacket: when A was replaced by B and B is partitioned away, "other
\* nodes that have an updated table must" inform A, so that "A will stop to act as a master".
UpdateReaches ==
    \A S \in SUBSET Nodes : Fixpoint(S) =>
        \A n, m \in S : n # m /\ nodeIsMaster(node[n], n) =>
            \A s \in SlotsOf(node[n], n) :
                Knows(m, n, s) \/ node[m].slots[s] = None \/ node[m].epoch[node[m].slots[s]] <= node[n].epoch[n]
=============================================================================
