------------------------ MODULE ClusterElectionTypes ------------------------
(***************************************************************************)
(* Type correctness of ClusterElection, for every set of nodes and shards and *)
(* every bound.                                                            *)
(***************************************************************************)
EXTENDS ClusterElection, FiniteSetTheorems, TLAPS

LEMMA EpochsInNat == Epochs \subseteq Nat /\ \A e \in Epochs : e <= MaxEpoch /\ 0 <= e
BY EpochAssumption DEF Epochs

LEMMA HeaderType ==
    ASSUME NEW type \in {"PONG", "REQUEST", "ACK"}, NEW n \in Nodes, NEW p \in Nodes,
           NEW epoch \in Epochs, NEW claim \in Claim, NEW mflags \in SUBSET {"FORCEACK"}
    PROVE  Header(type, n, p, epoch, claim, mflags) \in Packets
BY DEF Header, Packets

LEMMA BroadcastType ==
    ASSUME NEW type \in {"PONG", "REQUEST", "ACK"}, NEW n \in Nodes,
           NEW epoch \in Epochs, NEW claim \in Claim, NEW mflags \in SUBSET {"FORCEACK"}
    PROVE  Broadcast(type, n, epoch, claim, mflags) \subseteq Packets
BY HeaderType DEF Broadcast

LEMMA SizeType == \A n \in Nodes : size(n) \in Nat
<1>1. TAKE n \in Nodes
<1>2. {k \in Shards : slots[n][k].owner # None} \in SUBSET Shards
  OBVIOUS
<1>3. QED
  BY <1>2, ShardsAssumption, FS_Subset, FS_CardinalityType DEF size

\* What clusterSaveConfig writes has the type of nodes.conf.
LEMMA SavedType ==
    ASSUME TypeOK, NEW n \in Nodes, NEW save,
           currentEpoch' \in [Nodes -> Epochs], lastVoteEpoch' \in [Nodes -> Epochs],
           slots' \in [Nodes -> [Shards -> Claim]]
    PROVE  Saved(n, save) \in [Nodes -> Disk]
BY DEF Saved, TypeOK, Disk

LEMMA InitType == Init => TypeOK
<1>1. SUFFICES ASSUME Init PROVE TypeOK
  OBVIOUS
<1>2. 0 \in Epochs /\ StartEpoch \in Epochs /\ \A k \in Shards : InitEpoch[k] \in Epochs
  BY EpochAssumption DEF Epochs
<1>3. slots \in [Nodes -> [Shards -> Claim]]
  BY <1>1, <1>2, InitOwnerAssumption DEF Init, Claim
<1>4. disk \in [Nodes -> Disk]
  BY <1>1, <1>2, <1>3, ZenonT(40) DEF Init, Disk
<1>5. QED
  BY <1>1, <1>2, <1>3, <1>4, BoundsAssumption DEF Init, TypeOK, Ages

\* One step per action keeps the types; the branches of clusterHandleSlaveFailover first.
LEMMA HandleSlaveFailoverType ==
    ASSUME TypeOK, NEW n \in Nodes, NEW cron \in BOOLEAN, HandleSlaveFailover(n, cron),
           UNCHANGED <<failed, mayVote, crashes, sentVotes, forgot>>
    PROVE  TypeOK'
<1>0. slots[n][ShardOf[n]] \in Claim /\ currentEpoch[n] \in Epochs
  BY ShardOfAssumption DEF TypeOK
<1>1. CASE NoProgress(n)
  <2>1. disk' \in [Nodes -> Disk]
    BY <1>1, SavedType, ZenonT(40) DEF NoProgress, Effects, memory, TypeOK
  <2>2. QED
    BY <1>1, <2>1 DEF NoProgress, Effects, memory, attempt, manual, TypeOK
<1>2. CASE Schedule(n)
  <2>1. disk' \in [Nodes -> Disk]
    BY <1>2, SavedType, ZenonT(40) DEF Schedule, Effects, memory, TypeOK
  <2>2. net' \subseteq Packets
    <3> DEFINE siblings == {p \in Nodes \ {slaveof(n, n)} :
                              ShardOf[p] = ShardOf[n] /\ <<n, p>> \in PingLinks}
               pongs == {Header("PONG", n, p, currentEpoch[n], slots[n][ShardOf[n]], {}) :
                           p \in siblings}
    <3>1. net' = net \cup pongs
      BY <1>2 DEF Schedule, Effects
    <3>2. pongs \subseteq Packets
      BY <1>0, HeaderType, ZenonT(40)
    <3>3. QED
      BY <3>1, <3>2, ZenonT(40) DEF TypeOK
  <2>3. QED
    BY <1>2, <2>1, <2>2, ZenonT(40) DEF Schedule, Effects, memory, manual, TypeOK, Ages
<1>3. CASE RankUpdate(n)
  <2>1. disk' \in [Nodes -> Disk]
    BY <1>3, SavedType, ZenonT(40) DEF RankUpdate, Effects, memory, TypeOK
  <2>2. QED
    BY <1>3, <2>1 DEF RankUpdate, Effects, memory, manual, TypeOK, Ages
<1>4. CASE AskForVotes(n, cron)
  <2>0. currentEpoch[n] + 1 \in Epochs
    BY <1>0, <1>4, EpochAssumption DEF AskForVotes, Epochs
  <2>1. currentEpoch' \in [Nodes -> Epochs]
    BY <1>4, <2>0, SMTT(40) DEF AskForVotes, TypeOK
  <2>2. disk' \in [Nodes -> Disk]
    BY <1>4, <2>1, SavedType, ZenonT(40) DEF AskForVotes, Effects, TypeOK
  <2>3. net' \subseteq Packets
    <3> DEFINE requests == Broadcast("REQUEST", n, currentEpoch[n] + 1, slots[n][ShardOf[n]],
                                     IF n \in mf_end THEN {"FORCEACK"} ELSE {})
    <3>1. net' = net \cup requests
      BY <1>4 DEF AskForVotes, Effects
    <3>2. requests \subseteq Packets
      BY <1>0, <2>0, BroadcastType
    <3>3. QED
      BY <3>1, <3>2 DEF TypeOK
  <2>4. QED
    BY <1>4, <2>0, <2>1, <2>2, <2>3 DEF AskForVotes, Effects, manual, TypeOK
<1>5. CASE TakeOver(n)
  <2> DEFINE claim == [owner |-> n, epoch |-> failover_auth_epoch[n]]
  <2>0. claim \in Claim
    BY SMTT(40) DEF TypeOK, Claim
  <2>1. slots' \in [Nodes -> [Shards -> Claim]]
    BY <1>5, <2>0, ZenonT(40) DEF TakeOver, TypeOK
  <2>2. disk' \in [Nodes -> Disk]
    BY <1>5, <2>1, SavedType, ZenonT(40) DEF TakeOver, Effects, TypeOK
  <2>3. net' \subseteq Packets
    BY <1>0, <1>5, <2>0, BroadcastType, ZenonT(40) DEF TakeOver, Effects, TypeOK
  <2>4. wins' \subseteq Wins
    BY <1>5, SizeType DEF TakeOver, TypeOK, Wins
  <2>5. QED
    BY <1>5, <2>1, <2>2, <2>3, <2>4 DEF TakeOver, Effects, attempt, TypeOK
<1>6. QED
  BY <1>1, <1>2, <1>3, <1>4, <1>5 DEF HandleSlaveFailover

LEMMA ReceivePongType ==
    ASSUME TypeOK, NEW m \in net, ReceivePong(m.to, m)
    PROVE  TypeOK'
<1> DEFINE n == m.to
           k == ShardOf[m.from]
           mine == slots[n][k]
           seen == CASE m.claim.owner = m.from /\ (mine.owner = None \/ mine.epoch < m.claim.epoch)
                          -> m.claim
                     [] m.claim.owner # m.from /\ mine.owner = m.from
                          -> [owner |-> None, epoch |-> 0]
                     [] OTHER -> mine
<1>0. m \in Packets /\ n \in Nodes /\ k \in Shards /\ mine \in Claim
  BY ShardOfAssumption, SMTT(40) DEF TypeOK, Packets
<1>1. seen \in Claim
  BY <1>0, EpochAssumption, SMTT(40) DEF Packets, Claim, Epochs
<1>2. slots' \in [Nodes -> [Shards -> Claim]]
  BY <1>0, <1>1, ZenonT(40) DEF ReceivePong, TypeOK
<1>3. currentEpoch' \in [Nodes -> Epochs] /\ net' \subseteq Packets
  BY <1>0, ZenonT(40) DEF ReceivePong, ReceiveHeader, TypeOK, Packets, Max2
<1>4. lastVoteEpoch' = lastVoteEpoch
  BY ZenonT(40) DEF ReceivePong
<1>5. disk' \in [Nodes -> Disk]
  BY <1>0, <1>2, <1>3, <1>4, SavedType, ZenonT(40) DEF ReceivePong, TypeOK
<1>6. QED
  BY <1>0, <1>2, <1>3, <1>4, <1>5, ZenonT(40) DEF ReceivePong, attempt, TypeOK

LEMMA ReceiveAuthRequestType ==
    ASSUME TypeOK, NEW m \in net, NEW early \in BOOLEAN, ReceiveAuthRequest(m.to, m, early)
    PROVE  TypeOK'
<1> DEFINE n == m.to
           ack == Header("ACK", n, m.from, m.epoch, slots[n][ShardOf[n]], {})
           vote == [voter |-> n, epoch |-> m.epoch, to |-> m.from]
<1>0. m \in Packets /\ n \in Nodes /\ m.from \in Nodes /\ m.epoch \in Epochs
  BY DEF TypeOK, Packets
<1>1. currentEpoch' \in [Nodes -> Epochs]
  BY <1>0 DEF ReceiveAuthRequest, TypeOK, Max2
<1>2. ack \in Packets /\ vote \in Votes
  <2>1. slots[n][ShardOf[n]] \in Claim
    BY <1>0, ShardOfAssumption, SMTT(40) DEF TypeOK
  <2>2. QED
    BY <1>0, <2>1, HeaderType DEF Votes
<1>3. slots' = slots
  BY SMTT(40) DEF ReceiveAuthRequest
<1>4. CASE Grants(n, m)
  <2>1. /\ lastVoteEpoch' = [lastVoteEpoch EXCEPT ![n] = m.epoch]
        /\ mayVote' = [mayVote EXCEPT ![n] = @ \ {slaveof(n, m.from)}]
        /\ net' = (net \ {m}) \cup {ack}
        /\ sentVotes' = sentVotes \cup {vote}
        /\ todo' = [todo EXCEPT ![n] = IF early THEN @ \cup {"save"} ELSE @ \ {"save"}]
    BY <1>4, ZenonT(40) DEF ReceiveAuthRequest
  <2>2. lastVoteEpoch' \in [Nodes -> Epochs]
    BY <1>0, <2>1, ZenonT(60) DEF TypeOK
  <2>3. disk' \in [Nodes -> Disk]
    BY <1>0, <1>1, <1>3, <2>2, SavedType, ZenonT(40) DEF ReceiveAuthRequest, TypeOK
  <2>4. net' \subseteq Packets /\ sentVotes' \subseteq Votes
    BY <1>2, <2>1 DEF TypeOK
  <2>5. mayVote' \in [Nodes -> SUBSET (Nodes \cup {None})]
    BY <1>0, <2>1, ZenonT(60) DEF TypeOK
  <2>6. todo' \in [Nodes -> SUBSET {"save", "failover"}]
    BY <1>0, <2>1, ZenonT(60) DEF TypeOK
  <2>7. QED
    BY <1>1, <1>3, <2>2, <2>3, <2>4, <2>5, <2>6, ZenonT(60) DEF ReceiveAuthRequest, attempt, manual, TypeOK
<1>5. CASE ~Grants(n, m)
  <2>1. net' = net \ {m} /\ UNCHANGED <<lastVoteEpoch, mayVote, todo, sentVotes>>
    BY <1>5, ZenonT(60) DEF ReceiveAuthRequest
  <2>2. disk' \in [Nodes -> Disk]
    BY <1>0, <1>1, <1>3, <2>1, SavedType, ZenonT(40) DEF ReceiveAuthRequest, TypeOK
  <2>3. QED
    BY <1>1, <1>3, <2>1, <2>2, ZenonT(60) DEF ReceiveAuthRequest, attempt, manual, TypeOK
<1>6. QED
  BY <1>4, <1>5

LEMMA ReceiveAuthAckType ==
    ASSUME TypeOK, NEW m \in net, ReceiveAuthAck(m.to, m)
    PROVE  TypeOK'
<1>0. m \in Packets /\ m.to \in Nodes /\ m.from \in Nodes /\ m.epoch \in Epochs
  BY SMTT(40) DEF TypeOK, Packets
<1>1. currentEpoch' \in [Nodes -> Epochs] /\ net' \subseteq Packets
  BY <1>0, ZenonT(40) DEF ReceiveAuthAck, ReceiveHeader, TypeOK, Max2
<1>2. tally' \in [Nodes -> SUBSET Votes] /\ failover_auth_count' \in [Nodes -> Nat]
  <2> DEFINE vote == [voter |-> m.from, epoch |-> m.epoch, to |-> m.to]
  <2>1. vote \in Votes
    BY <1>0, ZenonT(40) DEF Votes
  <2>2. CASE Counts(m.to, m)
    <3>1. /\ failover_auth_count' = [failover_auth_count EXCEPT ![m.to] = @ + 1]
          /\ tally' = [tally EXCEPT ![m.to] = @ \cup {vote}]
      BY <2>2, SMTT(40) DEF ReceiveAuthAck
    <3>2. QED
      BY <1>0, <2>1, <3>1, SMTT(40) DEF TypeOK
  <2>3. CASE ~Counts(m.to, m)
    BY <2>3, SMTT(40) DEF ReceiveAuthAck, TypeOK
  <2>4. QED
    BY <2>2, <2>3, SMTT(40)
<1>3. todo' \in [Nodes -> SUBSET {"save", "failover"}]
  <2>1. \/ todo' = [todo EXCEPT ![m.to] = @ \cup {"failover"}]
        \/ todo' = todo
    BY ZenonT(60) DEF ReceiveAuthAck
  <2>2. todo \in [Nodes -> SUBSET {"save", "failover"}]
    BY ZenonT(60) DEF TypeOK
  <2>3. todo[m.to] \cup {"failover"} \in SUBSET {"save", "failover"}
    BY <1>0, <2>2
  <2>4. QED
    BY <1>0, <2>1, <2>2, <2>3, ZenonT(60)
<1>4. QED
  BY <1>1, <1>2, <1>3, ZenonT(60) DEF ReceiveAuthAck, manual, TypeOK

LEMMA CrashRestartType ==
    ASSUME TypeOK, NEW n \in Nodes, CrashRestart(n)
    PROVE  TypeOK'
<1>0. disk[n] \in Disk /\ 0 \in Epochs
  BY EpochAssumption, SMTT(40) DEF TypeOK, Epochs
<1>1. /\ currentEpoch' \in [Nodes -> Epochs]
      /\ lastVoteEpoch' \in [Nodes -> Epochs]
      /\ slots' \in [Nodes -> [Shards -> Claim]]
  BY <1>0, ZenonT(60) DEF CrashRestart, clusterLoadConfig, TypeOK, Disk
<1>2. /\ todo' \in [Nodes -> SUBSET {"save", "failover"}]
      /\ mayVote' \in [Nodes -> SUBSET (Nodes \cup {None})]
      /\ age' \in [Nodes -> Ages]
      /\ tally' \in [Nodes -> SUBSET Votes]
  BY ZenonT(60) DEF CrashRestart, TypeOK, Ages
<1>3. /\ failover_auth_epoch' \in [Nodes -> Epochs]
      /\ failover_auth_count' \in [Nodes -> Nat]
  <2>1. 0 \in Nat
    OBVIOUS
  <2>2. QED
    BY <1>0, <2>1, ZenonT(60) DEF CrashRestart, TypeOK
<1>4. crashes' \in Nat
  <2>1. crashes \in Nat /\ crashes' = crashes + 1
    BY ZenonT(60) DEF CrashRestart, TypeOK
  <2>2. QED
    BY <2>1
<1>5. /\ failover_auth_sent' \subseteq Nodes /\ mf_end' \subseteq Nodes
      /\ mf_can_start' \subseteq Nodes /\ net' \subseteq Packets /\ forgot' \subseteq Nodes
  BY ZenonT(60) DEF CrashRestart, TypeOK
<1>6. disk' \in [Nodes -> Disk] /\ failed' \in [Nodes -> SUBSET Nodes]
      /\ sentVotes' \subseteq Votes /\ wins' \subseteq Wins
  BY ZenonT(60) DEF CrashRestart, TypeOK
<1>7. QED
  BY <1>1, <1>2, <1>3, <1>4, <1>5, <1>6, ZenonT(60) DEF TypeOK

LEMMA NextType == TypeOK /\ [Next]_vars => TypeOK'
<1> SUFFICES ASSUME TypeOK, [Next]_vars PROVE TypeOK'
  OBVIOUS
<1>1. ASSUME NEW n \in Nodes, clusterCron(n) PROVE TypeOK'
  BY <1>1, HandleSlaveFailoverType, ZenonT(40) DEF clusterCron
<1>2. ASSUME NEW n \in Nodes, clusterBeforeSleep(n) PROVE TypeOK'
  <2>1. CASE "failover" \in todo[n]
    BY <1>2, <2>1, HandleSlaveFailoverType, ZenonT(40) DEF clusterBeforeSleep
  <2>2. CASE "failover" \notin todo[n]
    <3>1. UNCHANGED <<memory, attempt, manual, wins>> /\ Effects(n, {}, {}, FALSE)
      BY <1>2, <2>2, ZenonT(40) DEF clusterBeforeSleep
    <3>2. disk' \in [Nodes -> Disk]
      BY <3>1, SavedType, ZenonT(40) DEF Effects, memory, TypeOK
    <3>3. QED
      BY <1>2, <3>1, <3>2 DEF clusterBeforeSleep, Effects, memory, attempt, manual, TypeOK
  <2>3. QED
    BY <2>1, <2>2
<1>3. ASSUME NEW n \in Nodes, NEW p \in Nodes, Ping(n, p) PROVE TypeOK'
  <2>1. net' \subseteq Packets
    <3>1. slots[n][ShardOf[n]] \in Claim /\ currentEpoch[n] \in Epochs
      BY ShardOfAssumption, SMTT(40) DEF TypeOK
    <3>2. Header("PONG", n, p, currentEpoch[n], slots[n][ShardOf[n]], {}) \in Packets
      BY <3>1, HeaderType, ZenonT(40)
    <3>3. QED
      BY <1>3, <3>2 DEF Ping, TypeOK
  <2>2. QED
    BY <1>3, <2>1 DEF Ping, memory, attempt, manual, TypeOK
<1>4. ASSUME NEW m \in net, ReceivePong(m.to, m) PROVE TypeOK'
  BY <1>4, ReceivePongType
<1>5. ASSUME NEW m \in net, NEW early \in BOOLEAN, ReceiveAuthRequest(m.to, m, early) PROVE TypeOK'
  BY <1>5, ReceiveAuthRequestType
<1>6. ASSUME NEW m \in net, ReceiveAuthAck(m.to, m) PROVE TypeOK'
  BY <1>6, ReceiveAuthAckType
<1>7. ASSUME NEW n \in Nodes, CrashRestart(n) PROVE TypeOK'
  BY <1>7, CrashRestartType, SMTT(40)
<1>8. ASSUME NEW n \in Nodes, AuthAge(n) PROVE TypeOK'
  BY <1>8, SMTT(40) DEF AuthAge, memory, manual, TypeOK, Ages
<1>9. ASSUME NEW n \in Nodes, VotedTimeElapses(n) PROVE TypeOK'
  BY <1>9, SMTT(40) DEF VotedTimeElapses, memory, attempt, manual, TypeOK
<1>10. ASSUME NEW n \in Nodes, NEW p \in Nodes, FlagFail(n, p) PROVE TypeOK'
  BY <1>10, SMTT(40) DEF FlagFail, memory, attempt, manual, TypeOK
<1>11. ASSUME NEW n \in Nodes, NEW force \in BOOLEAN, ClusterFailover(n, force) PROVE TypeOK'
  BY <1>11, SMTT(40) DEF ClusterFailover, memory, attempt, TypeOK
<1>12. ASSUME NEW n \in Nodes, ManualFailoverCanStart(n) PROVE TypeOK'
  BY <1>12, SMTT(40) DEF ManualFailoverCanStart, memory, attempt, TypeOK
<1>13. ASSUME NEW n \in Nodes, ManualFailoverTimeout(n) PROVE TypeOK'
  BY <1>13, SMTT(40) DEF ManualFailoverTimeout, memory, attempt, TypeOK
<1>14. CASE UNCHANGED vars
  BY <1>14 DEF vars, memory, attempt, manual, TypeOK
<1>15. QED
  BY <1>1, <1>2, <1>3, <1>4, <1>5, <1>6, <1>7, <1>8, <1>9, <1>10, <1>11, <1>12,
     <1>13, <1>14 DEF Next

\* Every variable keeps its type, for any number of nodes, shards, crashes and epochs.
THEOREM TypeCorrect == Spec => []TypeOK
BY InitType, NextType, PTL DEF Spec

=============================================================================
