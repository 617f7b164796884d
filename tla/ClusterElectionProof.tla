------------------------ MODULE ClusterElectionProof ------------------------
(***************************************************************************)
(* The remaining steps of ClusterElection preserve VoteInv, and what follows: *)
(* one vote per epoch and voter, one winner per epoch.                     *)
(***************************************************************************)
EXTENDS ClusterElectionVotes

LEMMA ReceiveAuthAckKeepsVoteInv ==
    ASSUME TypeOK, TypeOK', VoteInv, NEW m \in net, ReceiveAuthAck(m.to, m)
    PROVE  VoteInv'
<1> DEFINE n == m.to
<1>0. /\ n \in Nodes /\ m \in Acks /\ Acks' = Acks \ {m}
      /\ \A p \in Nodes : currentEpoch[p] <= currentEpoch'[p]
      /\ UNCHANGED <<lastVoteEpoch, disk, sentVotes, forgot, wins>>
  BY HeaderRaisesEpoch, ZenonT(40) DEF TypeOK, Packets, ReceiveAuthAck, ReceiveHeader, Acks
<1>1. CASE ~Counts(n, m)
  <2>1. Quiet
    BY <1>0, <1>1 DEF Quiet, ReceiveAuthAck
  <2>2. QED
    BY <2>1, QuietKeepsVoteInv
<1>2. CASE Counts(n, m)
  <2>1. /\ failover_auth_count' = [failover_auth_count EXCEPT ![n] = @ + 1]
        /\ tally' = [tally EXCEPT ![n] = @ \cup {VoteOf(m)}]
    BY <1>2 DEF ReceiveAuthAck, VoteOf
  <2>2. VoteOf(m) \in sentVotes /\ VoteOf(m).to = n
    BY <1>0 DEF VoteInv, VotesCast, VoteOf
  <2>3. EpochsOrdered'
    <3>1. \A p \in Nodes : /\ currentEpoch[p] \in Nat /\ currentEpoch'[p] \in Nat
                           /\ lastVoteEpoch[p] \in Nat /\ disk[p].currentEpoch \in Nat
      BY EpochsInNat, ZenonT(40) DEF TypeOK, Disk
    <3>2. QED
      BY <1>0, <3>1 DEF VoteInv, EpochsOrdered
  <2>4. VotesBounded' /\ OneVotePerEpoch'
    BY <1>0 DEF VoteInv, VotesBounded, OneVotePerEpoch
  <2>5. VotesCast'
    <3>1. \A a \in Acks' : VoteOf(a) \in sentVotes'
      BY <1>0 DEF VoteInv, VotesCast
    <3>2. \A p \in Nodes : \A v \in tally'[p] : v \in sentVotes' /\ v.to = p
      BY <1>0, <2>1, <2>2 DEF VoteInv, VotesCast, TypeOK
    <3>3. QED
      BY <3>1, <3>2 DEF VotesCast, VoteOf
  <2>6. VotesFresh'
    <3> SUFFICES ASSUME forgot = {}, NEW b \in Acks'
                 PROVE  /\ VoteOf(b) \notin tally'[b.to]
                        /\ \A a \in Acks' : VoteOf(a) = VoteOf(b) => a = b
      BY <1>0, ZenonT(40) DEF VotesFresh, VoteOf
    <3>1. /\ b \in Acks /\ b # m /\ b.to \in Nodes /\ VoteOf(b) # VoteOf(m)
          /\ VoteOf(b) \notin tally[b.to]
      BY <1>0 DEF VoteInv, VotesFresh, TypeOK, Packets, Acks
    <3>2. VoteOf(b) \notin tally'[b.to]
      BY <1>0, <2>1, <3>1 DEF TypeOK
    <3>3. QED
      BY <1>0, <3>1, <3>2 DEF VoteInv, VotesFresh
  <2>7. CountBacked'
    <3> SUFFICES ASSUME forgot = {}, NEW p \in Nodes
                 PROVE  /\ IsFiniteSet(tally'[p])
                        /\ failover_auth_count'[p] <= Cardinality(tally'[p])
      BY <1>0 DEF CountBacked
    <3>1. IsFiniteSet(tally[p]) /\ failover_auth_count[p] <= Cardinality(tally[p])
      BY DEF VoteInv, CountBacked
    <3>2. CASE p = n
      <4>1. VoteOf(m) \notin tally[n]
        BY <1>0 DEF VoteInv, VotesFresh
      <4>2. IsFiniteSet(tally[n] \cup {VoteOf(m)})
            /\ Cardinality(tally[n] \cup {VoteOf(m)}) = Cardinality(tally[n]) + 1
        BY <3>1, <3>2, <4>1, FS_AddElement, SMTT(40)
      <4>3. tally'[n] = tally[n] \cup {VoteOf(m)}
            /\ failover_auth_count'[n] = failover_auth_count[n] + 1
        BY <1>0, <2>1 DEF TypeOK
      <4>4. Cardinality(tally[n]) \in Nat /\ failover_auth_count[n] \in Nat
        BY <1>0, <3>1, <3>2, FS_CardinalityType DEF TypeOK
      <4>5. QED
        BY <3>1, <3>2, <4>2, <4>3, <4>4
    <3>3. CASE p # n
      BY <2>1, <3>1, <3>3, SMTT(40) DEF TypeOK
    <3>4. QED
      BY <3>2, <3>3
  <2>8. WinsBacked'
    BY <1>0 DEF VoteInv, WinsBacked
  <2>9. QED
    BY <2>3, <2>4, <2>5, <2>6, <2>7, <2>8 DEF VoteInv
<1>3. QED
  BY <1>1, <1>2

LEMMA CrashRestartKeepsVoteInv ==
    ASSUME TypeOK, TypeOK', VoteInv, NEW n \in Nodes, CrashRestart(n)
    PROVE  VoteInv'
<1>0. /\ forgot \subseteq forgot' /\ UNCHANGED <<disk, sentVotes, wins>> /\ Acks' \subseteq Acks
      /\ lastVoteEpoch' = [lastVoteEpoch EXCEPT ![n] = disk[n].lastVoteEpoch]
      /\ currentEpoch' = [currentEpoch EXCEPT ![n] = disk[n].currentEpoch]
      /\ tally' = [tally EXCEPT ![n] = {}]
      /\ failover_auth_count' = [failover_auth_count EXCEPT ![n] = 0]
  BY DEF CrashRestart, clusterLoadConfig, Acks
<1>1. EpochsOrdered'
  <2> SUFFICES ASSUME NEW p \in Nodes
               PROVE  /\ disk'[p].lastVoteEpoch <= lastVoteEpoch'[p]
                      /\ disk'[p].currentEpoch <= currentEpoch'[p]
                      /\ disk'[p].lastVoteEpoch <= disk'[p].currentEpoch
                      /\ lastVoteEpoch'[p] <= currentEpoch'[p]
    BY DEF EpochsOrdered
  <2>1. disk[p].currentEpoch \in Nat /\ disk[p].lastVoteEpoch \in Nat
    BY EpochsInNat, ZenonT(40) DEF TypeOK, Disk
  <2>2. CASE p = n
    BY <1>0, <2>1, <2>2 DEF VoteInv, EpochsOrdered, TypeOK
  <2>3. CASE p # n
    BY <1>0, <2>3 DEF VoteInv, EpochsOrdered, TypeOK
  <2>4. QED
    BY <2>2, <2>3
<1>2. VotesBounded'
  <2> SUFFICES ASSUME NEW v \in sentVotes, v.voter \notin forgot'
               PROVE  v.epoch <= lastVoteEpoch'[v.voter]
    BY <1>0 DEF VotesBounded
  <2>0. v.voter \in Nodes /\ v.epoch \in Nat /\ disk[n].lastVoteEpoch \in Nat
    BY EpochsInNat, ZenonT(40) DEF TypeOK, Votes, Disk
  <2>1. CASE v.voter = n
    <3>1. ~(v.epoch > disk[n].lastVoteEpoch)
      BY <2>1 DEF CrashRestart
    <3>2. QED
      BY <1>0, <2>0, <2>1, <3>1 DEF TypeOK
  <2>2. CASE v.voter # n
    BY <1>0, <2>0, <2>2 DEF VoteInv, VotesBounded, TypeOK
  <2>3. QED
    BY <2>1, <2>2
<1>3. OneVotePerEpoch'
  BY <1>0 DEF VoteInv, OneVotePerEpoch
<1>4. \A p \in Nodes :
        \/ tally'[p] = tally[p] /\ failover_auth_count'[p] = failover_auth_count[p]
        \/ tally'[p] = {} /\ failover_auth_count'[p] = 0
  BY <1>0 DEF TypeOK
<1>5. VotesCast'
  <2>1. \A m \in Acks' : VoteOf(m) \in sentVotes'
    BY <1>0 DEF VoteInv, VotesCast
  <2>2. \A p \in Nodes : \A v \in tally'[p] : v \in sentVotes' /\ v.to = p
    BY <1>0, <1>4 DEF VoteInv, VotesCast
  <2>3. QED
    BY <2>1, <2>2 DEF VotesCast, VoteOf
<1>6. VotesFresh'
  <2> SUFFICES ASSUME forgot = {}, NEW m \in Acks'
               PROVE  /\ VoteOf(m) \notin tally'[m.to]
                      /\ \A a \in Acks' : VoteOf(a) = VoteOf(m) => a = m
    BY <1>0, ZenonT(40) DEF VotesFresh, VoteOf
  <2>1. m \in Acks /\ m.to \in Nodes
    BY <1>0 DEF Acks, TypeOK, Packets
  <2>2. tally'[m.to] \subseteq tally[m.to]
    BY <1>4, <2>1
  <2>3. QED
    BY <1>0, <2>1, <2>2 DEF VoteInv, VotesFresh
<1>7. CountBacked'
  <2> SUFFICES ASSUME forgot = {}, NEW p \in Nodes
               PROVE  /\ IsFiniteSet(tally'[p])
                      /\ failover_auth_count'[p] <= Cardinality(tally'[p])
    BY <1>0 DEF CountBacked
  <2>1. CASE tally'[p] = tally[p] /\ failover_auth_count'[p] = failover_auth_count[p]
    BY <2>1 DEF VoteInv, CountBacked
  <2>2. CASE tally'[p] = {} /\ failover_auth_count'[p] = 0
    BY <2>2, FS_EmptySet
  <2>3. QED
    BY <1>4, <2>1, <2>2
<1>8. WinsBacked'
  BY <1>0 DEF VoteInv, WinsBacked
<1>9. QED
  BY <1>1, <1>2, <1>3, <1>5, <1>6, <1>7, <1>8 DEF VoteInv

LEMMA InitVoteInv == Init => VoteInv
<1> SUFFICES ASSUME Init PROVE VoteInv
  BY SMTT(40)
<1>1. EpochsOrdered
  BY EpochAssumption, SMTT(40) DEF Init, EpochsOrdered
<1>2. VotesBounded /\ OneVotePerEpoch /\ WinsBacked
  BY DEF Init, VotesBounded, OneVotePerEpoch, WinsBacked
<1>3. VotesCast /\ VotesFresh
  BY DEF Init, VotesCast, VotesFresh, Acks
<1>4. CountBacked
  BY FS_EmptySet DEF Init, CountBacked
<1>5. QED
  BY <1>1, <1>2, <1>3, <1>4 DEF VoteInv

\* The steps that touch neither the network nor nodes.conf nor the epochs.
LEMMA UntouchedIsQuiet ==
    ASSUME TypeOK, UNCHANGED <<memory, disk, failover_auth_count, tally, net, sentVotes, forgot, wins>>
    PROVE  Quiet
<1>1. \A p \in Nodes : currentEpoch[p] \in Nat
  BY EpochsInNat, ZenonT(40) DEF TypeOK
<1>2. QED
  BY <1>1 DEF Quiet, Acks, memory

LEMMA NextVoteInv == TypeOK /\ TypeOK' /\ VoteInv /\ [Next]_vars => VoteInv'
<1> SUFFICES ASSUME TypeOK, TypeOK', VoteInv, [Next]_vars PROVE VoteInv'
  OBVIOUS
<1>1. ASSUME NEW n \in Nodes, clusterCron(n) PROVE VoteInv'
  BY <1>1, HandleSlaveFailoverQuiet, QuietKeepsVoteInv, ZenonT(40) DEF clusterCron
<1>2. ASSUME NEW n \in Nodes, clusterBeforeSleep(n) PROVE VoteInv'
  <2>1. CASE "failover" \in todo[n]
    BY <1>2, <2>1, HandleSlaveFailoverQuiet, QuietKeepsVoteInv, ZenonT(40) DEF clusterBeforeSleep
  <2>2. CASE "failover" \notin todo[n]
    <3>1. UNCHANGED <<memory, attempt, wins, sentVotes, forgot>> /\ Effects(n, {}, {}, FALSE)
      BY <1>2, <2>2, ZenonT(40) DEF clusterBeforeSleep
    <3>2. Acks' \subseteq Acks /\ \A p \in Nodes : currentEpoch[p] \in Nat
      BY <3>1, EpochsInNat, ZenonT(40) DEF Effects, Acks, TypeOK
    <3>3. Quiet
      BY <3>1, <3>2, SavedQuiet DEF Effects, memory, attempt, Quiet
    <3>4. QED
      BY <3>3, QuietKeepsVoteInv
  <2>3. QED
    BY <2>1, <2>2
<1>3. ASSUME NEW n \in Nodes, NEW p \in Nodes, Ping(n, p) PROVE VoteInv'
  <2>1. Acks' \subseteq Acks /\ \A q \in Nodes : currentEpoch[q] \in Nat
    <3> DEFINE pong == Header("PONG", n, p, currentEpoch[n], slots[n][ShardOf[n]], {})
    <3>1. net' = net \cup {pong}
      BY <1>3 DEF Ping
    <3>2. pong.type = "PONG"
      BY DEF Header
    <3> HIDE DEF pong
    <3>3. QED
      BY <3>1, <3>2, EpochsInNat, ZenonT(40) DEF Acks, TypeOK
  <2>2. Quiet
    BY <1>3, <2>1 DEF Ping, memory, attempt, Quiet
  <2>3. QED
    BY <2>2, QuietKeepsVoteInv
<1>4. ASSUME NEW m \in net, ReceivePong(m.to, m) PROVE VoteInv'
  BY <1>4, ReceivePongQuiet, QuietKeepsVoteInv
<1>5. ASSUME NEW m \in net, NEW early \in BOOLEAN, ReceiveAuthRequest(m.to, m, early) PROVE VoteInv'
  BY <1>5, ReceiveAuthRequestKeepsVoteInv
<1>6. ASSUME NEW m \in net, ReceiveAuthAck(m.to, m) PROVE VoteInv'
  BY <1>6, ReceiveAuthAckKeepsVoteInv
<1>7. ASSUME NEW n \in Nodes, CrashRestart(n) PROVE VoteInv'
  BY <1>7, CrashRestartKeepsVoteInv
<1>8. ASSUME NEW n \in Nodes, AuthAge(n) PROVE VoteInv'
  BY <1>8, UntouchedIsQuiet, QuietKeepsVoteInv DEF AuthAge
<1>9. ASSUME NEW n \in Nodes, VotedTimeElapses(n) PROVE VoteInv'
  BY <1>9, UntouchedIsQuiet, QuietKeepsVoteInv DEF VotedTimeElapses, attempt
<1>10. ASSUME NEW n \in Nodes, NEW p \in Nodes, FlagFail(n, p) PROVE VoteInv'
  BY <1>10, UntouchedIsQuiet, QuietKeepsVoteInv DEF FlagFail, attempt
<1>11. ASSUME NEW n \in Nodes, NEW force \in BOOLEAN, ClusterFailover(n, force) PROVE VoteInv'
  BY <1>11, UntouchedIsQuiet, QuietKeepsVoteInv DEF ClusterFailover, attempt
<1>12. ASSUME NEW n \in Nodes, ManualFailoverCanStart(n) PROVE VoteInv'
  BY <1>12, UntouchedIsQuiet, QuietKeepsVoteInv DEF ManualFailoverCanStart, attempt
<1>13. ASSUME NEW n \in Nodes, ManualFailoverTimeout(n) PROVE VoteInv'
  BY <1>13, UntouchedIsQuiet, QuietKeepsVoteInv DEF ManualFailoverTimeout, attempt
<1>14. CASE UNCHANGED vars
  BY <1>14, UntouchedIsQuiet, QuietKeepsVoteInv, SMTT(40) DEF vars, attempt
<1>15. QED
  BY <1>1, <1>2, <1>3, <1>4, <1>5, <1>6, <1>7, <1>8, <1>9, <1>10, <1>11, <1>12,
     <1>13, <1>14 DEF Next

\* Two quorums of the same masters share a voter, and a voter votes once per epoch.
LEMMA VoteInvImpliesElectionSafety == TypeOK /\ VoteInv => ElectionSafety
<1> SUFFICES ASSUME TypeOK, VoteInv, NEW w1 \in wins, NEW w2 \in wins,
                    w1.epoch = w2.epoch, w1.node # w2.node, forgot = {},
                    ~CountedLateVote(w1), ~CountedLateVote(w2),
                    ~TwoVotersOfOneShard(w1.votes \cup w2.votes),
                    w1.size = Cardinality(Shards), w2.size = Cardinality(Shards)
             PROVE  FALSE
  BY ZenonT(40) DEF ElectionSafety
<1> DEFINE S == Cardinality(Shards)
           both == w1.votes \cup w2.votes
           f == [v \in both |-> ShardOf[v.voter]]
<1>1. S \in Nat
  BY ShardsAssumption, FS_CardinalityType, SMTT(40)
<1>2. both \subseteq sentVotes /\ both \subseteq Votes /\ \A v \in both : v.epoch = w1.epoch
  BY SMTT(40) DEF VoteInv, WinsBacked, CountedLateVote, TypeOK
<1>3. w1.votes \cap w2.votes = {}
  BY DEF VoteInv, WinsBacked
<1>4. /\ IsFiniteSet(w1.votes) /\ IsFiniteSet(w2.votes)
      /\ w1.count <= Cardinality(w1.votes) /\ w2.count <= Cardinality(w2.votes)
      /\ w1.count >= (S \div 2) + 1 /\ w2.count >= (S \div 2) + 1
      /\ w1.count \in Nat /\ w2.count \in Nat
  BY DEF VoteInv, WinsBacked, TypeOK, Wins
<1>5. Cardinality(w1.votes) \in Nat /\ Cardinality(w2.votes) \in Nat
  BY <1>4, FS_CardinalityType, SMTT(40)
<1>6. IsFiniteSet(both) /\ Cardinality(both) = Cardinality(w1.votes) + Cardinality(w2.votes)
  <2>1. /\ IsFiniteSet(both)
        /\ Cardinality(both) = Cardinality(w1.votes) + Cardinality(w2.votes)
                                 - Cardinality(w1.votes \cap w2.votes)
    BY <1>4, FS_Union
  <2>2. Cardinality(w1.votes \cap w2.votes) = 0
    BY <1>3, FS_EmptySet
  <2>3. QED
    BY <1>5, <2>1, <2>2
<1>7. S < Cardinality(both)
  <2>1. S < 2 * ((S \div 2) + 1)
    BY <1>1, SMTT(40)
  <2>2. QED
    BY <1>1, <1>4, <1>5, <1>6, <2>1
<1>8. f \in [both -> Shards]
  BY <1>2, ShardOfAssumption DEF Votes
<1>9. PICK v \in both, w \in both : v # w /\ f[v] = f[w]
  <2> HIDE DEF f, both
  <2>1. QED
    BY <1>6, <1>7, <1>8, ShardsAssumption, FS_PigeonHole
<1>10. v.voter = w.voter
  BY <1>9 DEF TwoVotersOfOneShard
<1>11. v.to = w.to
  BY <1>2, <1>10 DEF VoteInv, OneVotePerEpoch
<1>12. v = w
  BY <1>2, <1>10, <1>11 DEF Votes
<1>13. QED
  BY <1>9, <1>12

LEMMA VoteInvariant == Spec => []VoteInv
BY InitType, NextType, InitVoteInv, NextVoteInv, PTL DEF Spec

\* A master whose votes never left before their save votes for one replica per epoch
\* (clusterSendFailoverAuthIfNeeded, clusterSaveConfig, clusterLoadConfig), crashes included.
THEOREM OneVotePerEpochHolds == Spec => []OneVotePerEpoch
<1>1. VoteInv => OneVotePerEpoch
  BY DEF VoteInv
<1>2. QED
  BY <1>1, VoteInvariant, PTL

\* Two replicas never win the election of one epoch (clusterHandleSlaveFailover), for any
\* number of nodes, shards, crashes and elections, under the provisos of ElectionSafety.
THEOREM ElectionSafetyHolds == Spec => []ElectionSafety
BY TypeCorrect, VoteInvariant, VoteInvImpliesElectionSafety, PTL

=============================================================================
