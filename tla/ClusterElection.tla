---------------------------- MODULE ClusterElection ----------------------------
(***************************************************************************)
(* The failover election of Redis Cluster (cluster.c): a replica of a      *)
(* failing master asks the masters for their vote in a new epoch, a master *)
(* votes at most once per epoch and makes the vote durable in nodes.conf,  *)
(* and the replica that counts size/2+1 votes takes over its shard.        *)
(*                                                                         *)
(* Every node runs one event loop (ae.c): packets are read and links       *)
(* written, then clusterCron runs, then clusterBeforeSleep saves           *)
(* nodes.conf.  A packet is queued in the send buffer of a link and leaves *)
(* when a later poll reports the link writable, so after the save: a       *)
(* handler, the save and the sending are one step.  Two packets leave      *)
(* before their save, and have a step of their own: a vote queued on a     *)
(* link that was already waiting to be written (a ping of clusterCron),    *)
(* and a request queued by clusterBeforeSleep itself.                      *)
(*                                                                         *)
(* The slots of a master move as a whole, so they are one shard.  UPDATE   *)
(* packets, configEpoch collisions and resharding are not part of it.      *)
(***************************************************************************)
EXTENDS Integers, FiniteSets

CONSTANTS
    Shards,       \* the sets of slots served by one master each
    Nodes,        \* the masters and the replicas
    ShardOf,      \* ShardOf[n]: the shard n holds the data of
    InitOwner,    \* InitOwner[k]: the master of shard k when the model starts
    InitEpoch,    \* InitEpoch[k]: the configEpoch of that master
    StartEpoch,   \* currentEpoch and everything below it is past when the model starts
    MaxEpoch,     \* bound: no election is started beyond this epoch
    MaxCrashes,   \* bound: crashes of the whole cluster
    InitFailed,   \* the nodes flagged FAIL by everyone when the model starts
    InitManual,   \* the replicas with a CLUSTER FAILOVER FORCE in progress at that time
    Suspicions,   \* the <<n, p>> such that the FAIL flag n holds of p can change
    Admin,        \* the replicas that can receive CLUSTER FAILOVER
    PingLinks,    \* the <<from, to>> links that carry pings and pongs before a takeover
    None          \* the owner of an unassigned shard

ASSUME NoneAssumption == None \notin Nodes
ASSUME ShardsAssumption == IsFiniteSet(Shards) /\ Shards # {}
ASSUME ShardOfAssumption == ShardOf \in [Nodes -> Shards]
ASSUME InitOwnerAssumption ==
    InitOwner \in [Shards -> Nodes] /\ \A k \in Shards : ShardOf[InitOwner[k]] = k
ASSUME EpochAssumption ==
    /\ StartEpoch \in Nat /\ MaxEpoch \in Nat /\ StartEpoch <= MaxEpoch
    /\ InitEpoch \in [Shards -> 0..StartEpoch]
ASSUME BoundsAssumption ==
    /\ MaxCrashes \in Nat /\ InitFailed \subseteq Nodes /\ InitManual \subseteq Nodes
    /\ Admin \subseteq Nodes /\ PingLinks \subseteq Nodes \X Nodes
    /\ Suspicions \subseteq Nodes \X Nodes

VARIABLES
    currentEpoch,         \* server.cluster->currentEpoch of each node
    lastVoteEpoch,        \* server.cluster->lastVoteEpoch of each node
    slots,                \* slots[n][k]: the owner of shard k and its configEpoch, as n sees them
    disk,                 \* nodes.conf of each node
    todo,                 \* todo_before_sleep: a save and a failover check still to be done
    failed,               \* failed[n]: the nodes n flags as FAIL
    mayVote,              \* mayVote[n]: the masters n cast no vote about for 2*node_timeout
    failover_auth_epoch,
    failover_auth_count,
    failover_auth_sent,   \* the nodes that asked for votes in their current attempt
    age,                  \* auth_age: before the start delay, within auth_timeout, or past it
    mf_end,               \* n \in mf_end: a manual failover is in progress
    mf_can_start,         \* the nodes whose manual failover may start
    net,                  \* packets that left their sender; one that stays here forever is lost
    crashes,
    sentVotes,            \* history: the votes that left their voter
    forgot,               \* history: the voters that lost, in a crash, a vote that had left
    tally,                \* history: the votes behind failover_auth_count
    wins                  \* history: the elections won

memory == <<currentEpoch, lastVoteEpoch, slots>>
attempt == <<failover_auth_epoch, failover_auth_count, failover_auth_sent, age, tally>>
manual == <<mf_end, mf_can_start>>
vars == <<memory, disk, todo, failed, mayVote, attempt, manual, net, crashes,
          sentVotes, forgot, wins>>

Epochs == 0..MaxEpoch
Max2(a, b) == IF a >= b THEN a ELSE b

Ages == {"waiting", "valid", "over"}
Claim == [owner: Nodes \cup {None}, epoch: Epochs]
Votes == [voter: Nodes, epoch: Epochs, to: Nodes]
Packets == [type: {"PONG", "REQUEST", "ACK"}, from: Nodes, to: Nodes, epoch: Epochs,
            claim: Claim, mflags: SUBSET {"FORCEACK"}]

nodeIsMaster(n) == slots[n][ShardOf[n]].owner = n
slaveof(n, s) == slots[n][ShardOf[s]].owner
size(n) == Cardinality({k \in Shards : slots[n][k].owner # None})
\* Mutant: half of the masters is enough.
QuorumOffByOne(n) == size(n) \div 2
needed_quorum(n) == (size(n) \div 2) + 1

\* clusterBuildMessageHdr: the currentEpoch, and the configEpoch claimed for the shard of n.
Header(type, n, p, epoch, claim, mflags) ==
    [type |-> type, from |-> n, to |-> p, epoch |-> epoch, claim |-> claim, mflags |-> mflags]
Broadcast(type, n, epoch, claim, mflags) ==
    {Header(type, n, p, epoch, claim, mflags) : p \in Nodes \ {n}}

\* clusterSaveConfig, evaluated on the memory at the end of the step.
Saved(n, save) ==
    IF save
      THEN [disk EXCEPT ![n] = [currentEpoch |-> currentEpoch'[n],
                                lastVoteEpoch |-> lastVoteEpoch'[n], slots |-> slots'[n]]]
      ELSE disk

Init ==
    /\ currentEpoch = [n \in Nodes |-> StartEpoch]
    /\ lastVoteEpoch = [n \in Nodes |-> 0]
    /\ slots = [n \in Nodes |-> [k \in Shards |-> [owner |-> InitOwner[k], epoch |-> InitEpoch[k]]]]
    /\ disk = [n \in Nodes |-> [currentEpoch |-> StartEpoch, lastVoteEpoch |-> 0, slots |-> slots[n]]]
    /\ todo = [n \in Nodes |-> {}]
    /\ failed = [n \in Nodes |-> InitFailed \ {n}]
    /\ mayVote = [n \in Nodes |-> Nodes \cup {None}]
    /\ failover_auth_epoch = [n \in Nodes |-> 0]
    /\ failover_auth_count = [n \in Nodes |-> 0]
    /\ failover_auth_sent = {}
    /\ age = [n \in Nodes |-> "over"]
    /\ mf_end = InitManual
    /\ mf_can_start = InitManual
    /\ net = {}
    /\ crashes = 0
    /\ sentVotes = {}
    /\ forgot = {}
    /\ tally = [n \in Nodes |-> {}]
    /\ wins = {}

(***************************************************************************)
(* clusterHandleSlaveFailover, called by clusterCron (then the save of the *)
(* following clusterBeforeSleep is part of the step) and by                *)
(* clusterBeforeSleep (then it waits for the next one).                    *)
(***************************************************************************)
CanFailover(n) ==
    /\ ~nodeIsMaster(n)
    /\ slaveof(n, n) # None
    /\ \/ slaveof(n, n) \in failed[n]
       \/ n \in mf_end /\ n \in mf_can_start

\* What the step sends, the todo flags it leaves pending, and whether it saves nodes.conf.
Effects(n, packets, flags, save) ==
    /\ net' = net \cup packets
    /\ todo' = [todo EXCEPT ![n] = flags]
    /\ disk' = Saved(n, save \/ "save" \in todo[n])

\* Nothing to do: not a failing master's replica, data too old (a manual failover does not
\* care), still delayed, attempt too old, or no quorum yet.
NoProgress(n) ==
    /\ \/ ~CanFailover(n)
       \/ ~(n \in mf_end /\ n \in mf_can_start)
       \/ age[n] \in {"waiting", "over"}
       \/ /\ age[n] = "valid"
          /\ n \in failover_auth_sent
          /\ failover_auth_count[n] < needed_quorum(n)
    /\ UNCHANGED <<memory, attempt, manual, wins>>
    /\ Effects(n, {}, {}, FALSE)

\* auth_age > auth_retry_time: set up a new attempt, delayed unless it is a manual failover.
Schedule(n) ==
    /\ CanFailover(n)
    /\ age[n] = "over"
    /\ age' = [age EXCEPT ![n] = IF n \in mf_end THEN "valid" ELSE "waiting"]
    /\ failover_auth_count' = [failover_auth_count EXCEPT ![n] = 0]
    /\ failover_auth_sent' = failover_auth_sent \ {n}
    /\ tally' = [tally EXCEPT ![n] = {}]
    /\ UNCHANGED <<memory, failover_auth_epoch, manual, wins>>
    /\ LET siblings == {p \in Nodes \ {slaveof(n, n)} :
                      ShardOf[p] = ShardOf[n] /\ <<n, p>> \in PingLinks}
       IN  Effects(n,
                   {Header("PONG", n, p, currentEpoch[n], slots[n][ShardOf[n]], {}) :
                      p \in siblings},
                   IF n \in mf_end THEN {"failover"} ELSE {}, FALSE)

\* A sibling announced a greater offset before the votes were asked for: delay again.
RankUpdate(n) ==
    /\ CanFailover(n)
    /\ age[n] = "valid" /\ n \notin failover_auth_sent /\ n \notin mf_end
    /\ age' = [age EXCEPT ![n] = "waiting"]
    /\ UNCHANGED <<memory, failover_auth_epoch, failover_auth_count, failover_auth_sent, tally,
                   manual, wins>>
    /\ Effects(n, {}, {}, FALSE)

\* Ask for votes in a new epoch.
AskForVotes(n, cron) ==
    /\ CanFailover(n)
    /\ age[n] = "valid" /\ n \notin failover_auth_sent
    /\ currentEpoch[n] < MaxEpoch
    /\ currentEpoch' = [currentEpoch EXCEPT ![n] = @ + 1]
    /\ failover_auth_epoch' = [failover_auth_epoch EXCEPT ![n] = currentEpoch[n] + 1]
    /\ failover_auth_sent' = failover_auth_sent \cup {n}
    /\ UNCHANGED <<lastVoteEpoch, slots, failover_auth_count, age, tally, manual, wins>>
    /\ Effects(n,
               Broadcast("REQUEST", n, currentEpoch[n] + 1, slots[n][ShardOf[n]],
                         IF n \in mf_end THEN {"FORCEACK"} ELSE {}),
               IF cron THEN {} ELSE {"save"}, cron)

\* The quorum is reached: clusterFailoverReplaceYourMaster.
TakeOver(n) ==
    /\ CanFailover(n)
    /\ age[n] = "valid" /\ n \in failover_auth_sent
    /\ failover_auth_count[n] >= needed_quorum(n)
    /\ UNCHANGED <<currentEpoch, lastVoteEpoch, attempt>>
    /\ LET claim == [owner |-> n, epoch |-> failover_auth_epoch[n]]
       IN  /\ slots' = [slots EXCEPT ![n][ShardOf[n]] = claim]
           /\ wins' = wins \cup {[node |-> n, epoch |-> failover_auth_epoch[n], votes |-> tally[n],
                                  count |-> failover_auth_count[n], size |-> size(n)]}
           /\ Effects(n, Broadcast("PONG", n, currentEpoch[n], claim, {}), {}, TRUE)
    /\ mf_end' = mf_end \ {n}
    /\ mf_can_start' = mf_can_start \ {n}

HandleSlaveFailover(n, cron) ==
    \/ NoProgress(n)
    \/ Schedule(n)
    \/ RankUpdate(n)
    \/ AskForVotes(n, cron)
    \/ TakeOver(n)

clusterCron(n) ==
    /\ ~nodeIsMaster(n)
    /\ HandleSlaveFailover(n, TRUE)
    /\ UNCHANGED <<failed, mayVote, crashes, sentVotes, forgot>>

\* The pings of clusterCron.
Ping(n, p) ==
    /\ <<n, p>> \in PingLinks
    /\ net' = net \cup {Header("PONG", n, p, currentEpoch[n], slots[n][ShardOf[n]], {})}
    /\ UNCHANGED <<memory, disk, todo, failed, mayVote, attempt, manual, crashes, sentVotes,
                   forgot, wins>>

\* clusterBeforeSleep: the flags are read and reset first, so a save asked for by
\* clusterHandleSlaveFailover here waits for the next call.
clusterBeforeSleep(n) ==
    /\ todo[n] # {}
    /\ IF "failover" \in todo[n]
         THEN HandleSlaveFailover(n, FALSE)
         ELSE /\ UNCHANGED <<memory, attempt, manual, wins>>
              /\ Effects(n, {}, {}, FALSE)
    /\ UNCHANGED <<failed, mayVote, crashes, sentVotes, forgot>>

(***************************************************************************)
(* clusterProcessPacket: every packet raises currentEpoch; the type        *)
(* decides the rest.                                                       *)
(***************************************************************************)
ReceiveHeader(n, m) ==
    /\ m \in net /\ m.to = n
    /\ net' = net \ {m}
    /\ currentEpoch' = [currentEpoch EXCEPT ![n] = Max2(@, m.epoch)]

\* PING and PONG: a master that claims its shard with a greater configEpoch gets it; a node
\* known as the owner that announces it is a replica loses it.
ReceivePong(n, m) ==
    LET k    == ShardOf[m.from]
        mine == slots[n][k]
        seen == CASE m.claim.owner = m.from /\ (mine.owner = None \/ mine.epoch < m.claim.epoch)
                       -> m.claim
                  [] m.claim.owner # m.from /\ mine.owner = m.from
                       -> [owner |-> None, epoch |-> 0]
                  [] OTHER -> mine
    IN  /\ m.type = "PONG"
        /\ ReceiveHeader(n, m)
        /\ slots' = [slots EXCEPT ![n][k] = seen]
        /\ LET reset == seen.owner \notin {mine.owner, None} /\ ShardOf[n] = k
           IN  /\ mf_end' = IF reset THEN mf_end \ {n} ELSE mf_end
               /\ mf_can_start' = IF reset THEN mf_can_start \ {n} ELSE mf_can_start
        /\ UNCHANGED <<lastVoteEpoch, failed, mayVote, attempt, crashes, sentVotes, forgot, wins>>
        /\ todo' = [todo EXCEPT ![n] = IF seen # mine THEN @ \ {"save"} ELSE @]
        /\ disk' = Saved(n, seen # mine)

\* Mutant: the check of lastVoteEpoch is dropped.
GrantsTwice(n, m) ==
    LET master == slaveof(n, m.from)
    IN  /\ nodeIsMaster(n)
        /\ m.epoch >= currentEpoch[n]
        /\ master # m.from
        /\ master \in failed[n] \/ "FORCEACK" \in m.mflags
        /\ master \in mayVote[n]
        /\ slots[n][ShardOf[m.from]].epoch <= m.claim.epoch

\* clusterSendFailoverAuthIfNeeded: the reasons to grant a vote, in the order of the code.
Grants(n, m) ==
    LET master == slaveof(n, m.from)
    IN  /\ nodeIsMaster(n)
        /\ m.epoch >= currentEpoch[n]
        /\ lastVoteEpoch[n] # m.epoch
        /\ master # m.from
        /\ master \in failed[n] \/ "FORCEACK" \in m.mflags
        /\ master \in mayVote[n]
        /\ slots[n][ShardOf[m.from]].epoch <= m.claim.epoch

\* The vote leaves after the save, or before it ("early") when the link to the replica was
\* already waiting to be written.
ReceiveAuthRequest(n, m, early) ==
    /\ m.type = "REQUEST"
    /\ early => <<n, m.from>> \in PingLinks
    /\ m \in net /\ m.to = n
    /\ currentEpoch' = [currentEpoch EXCEPT ![n] = Max2(@, m.epoch)]
    /\ IF Grants(n, m)
         THEN /\ lastVoteEpoch' = [lastVoteEpoch EXCEPT ![n] = m.epoch]
              /\ mayVote' = [mayVote EXCEPT ![n] = @ \ {slaveof(n, m.from)}]
              /\ net' = (net \ {m}) \cup
                          {Header("ACK", n, m.from, m.epoch, slots[n][ShardOf[n]], {})}
              /\ sentVotes' = sentVotes \cup {[voter |-> n, epoch |-> m.epoch, to |-> m.from]}
              /\ todo' = [todo EXCEPT ![n] = IF early THEN @ \cup {"save"} ELSE @ \ {"save"}]
         ELSE /\ net' = net \ {m}
              /\ UNCHANGED <<lastVoteEpoch, mayVote, todo, sentVotes>>
    /\ UNCHANGED <<slots, failed, attempt, manual, crashes, forgot, wins>>
    /\ disk' = Saved(n, Grants(n, m) /\ ~early)

\* A vote counts when it comes from a master serving slots and its epoch is not older than
\* failover_auth_epoch; the counter does not remember which election it belongs to.
Counts(n, m) == slaveof(n, m.from) = m.from /\ m.epoch >= failover_auth_epoch[n]

ReceiveAuthAck(n, m) ==
    /\ m.type = "ACK"
    /\ ReceiveHeader(n, m)
    /\ IF Counts(n, m)
         THEN /\ failover_auth_count' = [failover_auth_count EXCEPT ![n] = @ + 1]
              /\ tally' = [tally EXCEPT ![n] = @ \cup
                             {[voter |-> m.from, epoch |-> m.epoch, to |-> n]}]
              /\ todo' = [todo EXCEPT ![n] = @ \cup {"failover"}]
         ELSE UNCHANGED <<failover_auth_count, tally, todo>>
    /\ UNCHANGED <<lastVoteEpoch, slots, disk, failed, mayVote, failover_auth_epoch,
                   failover_auth_sent, age, manual, crashes, sentVotes, forgot, wins>>

\* Mutant: the currentEpoch of the vars line of nodes.conf is skipped.
LoadForgetsEpoch(n) == [disk[n] EXCEPT !.currentEpoch = 0]
\* Mutant: the current epoch is bumped while loading.
LoadBumpsEpoch(n) == [disk[n] EXCEPT !.currentEpoch = @ + 1]

\* clusterLoadConfig: the epochs and the slots found in nodes.conf.
clusterLoadConfig(n) == disk[n]

\* The process dies and restarts from nodes.conf; its connections die with it.
CrashRestart(n) ==
    /\ crashes < MaxCrashes
    /\ crashes' = crashes + 1
    /\ currentEpoch' = [currentEpoch EXCEPT ![n] = clusterLoadConfig(n).currentEpoch]
    /\ lastVoteEpoch' = [lastVoteEpoch EXCEPT ![n] = clusterLoadConfig(n).lastVoteEpoch]
    /\ slots' = [slots EXCEPT ![n] = clusterLoadConfig(n).slots]
    /\ todo' = [todo EXCEPT ![n] = {}]
    /\ mayVote' = [mayVote EXCEPT ![n] = Nodes \cup {None}]
    /\ failover_auth_epoch' = [failover_auth_epoch EXCEPT ![n] = 0]
    /\ failover_auth_count' = [failover_auth_count EXCEPT ![n] = 0]
    /\ failover_auth_sent' = failover_auth_sent \ {n}
    /\ age' = [age EXCEPT ![n] = "over"]
    /\ tally' = [tally EXCEPT ![n] = {}]
    /\ mf_end' = mf_end \ {n}
    /\ mf_can_start' = mf_can_start \ {n}
    /\ net' = {m \in net : m.to # n}
    /\ forgot' = IF \E v \in sentVotes : v.voter = n /\ v.epoch > disk[n].lastVoteEpoch
                   THEN forgot \cup {n} ELSE forgot
    /\ UNCHANGED <<disk, failed, sentVotes, wins>>

(***************************************************************************)
(* Time, failure detection and the administrator.                          *)
(***************************************************************************)
\* The start delay, then auth_timeout elapses.  Whether auth_retry_time elapsed too is left
\* to clusterHandleSlaveFailover, which may take either branch once the attempt is over.
AuthAge(n) ==
    /\ age[n] # "over"
    /\ age' = [age EXCEPT ![n] = IF @ = "waiting" THEN "valid" ELSE "over"]
    /\ UNCHANGED <<memory, disk, todo, failed, mayVote, failover_auth_epoch, failover_auth_count,
                   failover_auth_sent, tally, manual, net, crashes, sentVotes, forgot,
                   wins>>

VotedTimeElapses(n) ==
    /\ mayVote[n] # Nodes \cup {None}
    /\ mayVote' = [mayVote EXCEPT ![n] = Nodes \cup {None}]
    /\ UNCHANGED <<memory, disk, todo, failed, attempt, manual, net, crashes,
                   sentVotes, forgot, wins>>

\* The FAIL flag is set by a quorum of failure reports or a FAIL packet, and can be cleared.
FlagFail(n, p) ==
    /\ <<n, p>> \in Suspicions /\ p # n
    /\ failed' = [failed EXCEPT ![n] = IF p \in @ THEN @ \ {p} ELSE @ \cup {p}]
    /\ UNCHANGED <<memory, disk, todo, mayVote, attempt, manual, net, crashes,
                   sentVotes, forgot, wins>>

\* CLUSTER FAILOVER [FORCE]
ClusterFailover(n, force) ==
    /\ n \in Admin
    /\ ~nodeIsMaster(n)
    /\ force \/ slaveof(n, n) \notin failed[n]
    /\ mf_end' = mf_end \cup {n}
    /\ mf_can_start' = IF force THEN mf_can_start \cup {n} ELSE mf_can_start \ {n}
    /\ UNCHANGED <<memory, disk, todo, failed, mayVote, attempt, net, crashes,
                   sentVotes, forgot, wins>>

\* clusterHandleManualFailover: the offset of the paused master is reached.
ManualFailoverCanStart(n) ==
    /\ n \in mf_end /\ n \notin mf_can_start
    /\ mf_can_start' = mf_can_start \cup {n}
    /\ todo' = [todo EXCEPT ![n] = @ \cup {"failover"}]
    /\ UNCHANGED <<memory, disk, failed, mayVote, attempt, mf_end, net, crashes,
                   sentVotes, forgot, wins>>

\* manualFailoverCheckTimeout
ManualFailoverTimeout(n) ==
    /\ n \in mf_end
    /\ mf_end' = mf_end \ {n}
    /\ mf_can_start' = mf_can_start \ {n}
    /\ UNCHANGED <<memory, disk, todo, failed, mayVote, attempt, net, crashes,
                   sentVotes, forgot, wins>>

Next ==
    \/ \E n \in Nodes : clusterCron(n)
    \/ \E n \in Nodes : clusterBeforeSleep(n)
    \/ \E n, p \in Nodes : Ping(n, p)
    \/ \E m \in net : ReceivePong(m.to, m)
    \/ \E m \in net, early \in BOOLEAN : ReceiveAuthRequest(m.to, m, early)
    \/ \E m \in net : ReceiveAuthAck(m.to, m)
    \/ \E n \in Nodes : CrashRestart(n)
    \/ \E n \in Nodes : AuthAge(n)
    \/ \E n \in Nodes : VotedTimeElapses(n)
    \/ \E n, p \in Nodes : FlagFail(n, p)
    \/ \E n \in Nodes, force \in BOOLEAN : ClusterFailover(n, force)
    \/ \E n \in Nodes : ManualFailoverCanStart(n)
    \/ \E n \in Nodes : ManualFailoverTimeout(n)

Spec == Init /\ [][Next]_vars

(***************************************************************************)
(* Properties.                                                             *)
(***************************************************************************)
Disk == [currentEpoch: Epochs, lastVoteEpoch: Epochs, slots: [Shards -> Claim]]
Wins == [node: Nodes, epoch: Epochs, votes: SUBSET Votes, count: Nat, size: Nat]

\* The values the state of clusterState and of nodes.conf ranges over.
TypeOK ==
    /\ currentEpoch \in [Nodes -> Epochs]
    /\ lastVoteEpoch \in [Nodes -> Epochs]
    /\ slots \in [Nodes -> [Shards -> Claim]]
    /\ disk \in [Nodes -> Disk]
    /\ todo \in [Nodes -> SUBSET {"save", "failover"}]
    /\ failed \in [Nodes -> SUBSET Nodes]
    /\ mayVote \in [Nodes -> SUBSET (Nodes \cup {None})]
    /\ failover_auth_epoch \in [Nodes -> Epochs]
    /\ failover_auth_count \in [Nodes -> Nat]
    /\ failover_auth_sent \subseteq Nodes
    /\ age \in [Nodes -> Ages]
    /\ mf_end \subseteq Nodes
    /\ mf_can_start \subseteq Nodes
    /\ net \subseteq Packets
    /\ crashes \in Nat
    /\ sentVotes \subseteq Votes
    /\ forgot \subseteq Nodes
    /\ tally \in [Nodes -> SUBSET Votes]
    /\ wins \subseteq Wins

\* A master votes for one replica per epoch, whatever it forgets in a crash, as long as
\* clusterBeforeSleep saved lastVoteEpoch before the vote left (clusterSendFailoverAuthIfNeeded).
OneVotePerEpoch ==
    \A v, w \in sentVotes :
        v.voter = w.voter /\ v.epoch = w.epoch /\ v.voter \notin forgot => v.to = w.to

\* The winner counted votes of another election than the one it won.
CountedLateVote(w) == \E v \in w.votes : v.epoch # w.epoch
\* Two nodes both voted as the master of one shard.
TwoVotersOfOneShard(votes) ==
    \E v, w \in votes : v.voter # w.voter /\ ShardOf[v.voter] = ShardOf[w.voter]

\* "It is not possible that different slaves get the same config epoch during a failover
\* election, because the slaves need to get voted by a majority" (cluster.c:1343).  It holds
\* whenever no vote was forgotten in a crash, neither winner counted a late vote, no shard
\* voted through two nodes and both winners saw the full set of masters.
ElectionSafety ==
    \A w1, w2 \in wins :
        \/ w1.epoch # w2.epoch
        \/ w1.node = w2.node
        \/ forgot # {}
        \/ CountedLateVote(w1) \/ CountedLateVote(w2)
        \/ TwoVotersOfOneShard(w1.votes \cup w2.votes)
        \/ w1.size # Cardinality(Shards) \/ w2.size # Cardinality(Shards)

\* The comment of clusterHandleConfigEpochCollision, without any proviso.
DifferentWinnersDifferentEpochs ==
    \A w1, w2 \in wins : w1.epoch = w2.epoch => w1.node = w2.node

\* A vote that left its voter is in nodes.conf: the writable event never fires before the
\* beforeSleep() hook (AE_BARRIER, asked for by clusterSendMessage).
VoteIsDurable ==
    \A v \in sentVotes : v.voter \notin forgot => v.epoch <= disk[v.voter].lastVoteEpoch

\* clusterSaveConfig never moves the epochs of nodes.conf backwards, restarts included.
NodesConfEpochsGrow ==
    [][\A n \in Nodes : /\ disk'[n].currentEpoch >= disk[n].currentEpoch
                        /\ disk'[n].lastVoteEpoch >= disk[n].lastVoteEpoch]_vars

(***************************************************************************)
(* The parts of the inductive invariant behind the properties.             *)
(***************************************************************************)
Acks == {m \in net : m.type = "ACK"}
VoteOf(m) == [voter |-> m.from, epoch |-> m.epoch, to |-> m.to]

\* nodes.conf lags behind the memory, and a vote is never ahead of the current epoch.
EpochsOrdered ==
    \A n \in Nodes : /\ disk[n].lastVoteEpoch <= lastVoteEpoch[n]
                     /\ disk[n].currentEpoch <= currentEpoch[n]
                     /\ disk[n].lastVoteEpoch <= disk[n].currentEpoch
                     /\ lastVoteEpoch[n] <= currentEpoch[n]

\* A voter that forgot nothing has no vote out beyond its lastVoteEpoch.
VotesBounded ==
    \A v \in sentVotes : v.voter \notin forgot => v.epoch <= lastVoteEpoch[v.voter]

\* Every vote in flight or counted was cast, for the node that counts it.
VotesCast ==
    /\ \A m \in Acks : VoteOf(m) \in sentVotes
    /\ \A n \in Nodes : \A v \in tally[n] : v \in sentVotes /\ v.to = n

\* Without forgotten votes, a vote in flight is unique and not counted yet.
VotesFresh ==
    forgot = {} =>
        \A m \in Acks : /\ VoteOf(m) \notin tally[m.to]
                        /\ \A a \in Acks : VoteOf(a) = VoteOf(m) => a = m

\* Without forgotten votes, failover_auth_count is backed by as many different votes.
CountBacked ==
    forgot = {} =>
        \A n \in Nodes : /\ IsFiniteSet(tally[n])
                         /\ failover_auth_count[n] <= Cardinality(tally[n])

\* Every election was won with a quorum of such votes.
WinsBacked ==
    \A w \in wins : /\ \A v \in w.votes : v \in sentVotes /\ v.to = w.node
                    /\ w.count >= (w.size \div 2) + 1
                    /\ forgot = {} => /\ IsFiniteSet(w.votes)
                                      /\ w.count <= Cardinality(w.votes)

VoteInv == EpochsOrdered /\ VotesBounded /\ OneVotePerEpoch /\ VotesCast /\ VotesFresh
           /\ CountBacked /\ WinsBacked

=============================================================================
