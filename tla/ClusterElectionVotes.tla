------------------------ MODULE ClusterElectionVotes ------------------------
(***************************************************************************)
(* The steps of ClusterElection that cast no vote, and the one that casts one, *)
(* preserve VoteInv.                                                       *)
(***************************************************************************)
EXTENDS ClusterElectionTypes

(***************************************************************************)
(* The votes.  Most steps are quiet: they cast no vote and count none, at  *)
(* most they raise an epoch, save nodes.conf, reset a tally or win.        *)
(***************************************************************************)
Quiet ==
    /\ lastVoteEpoch' = lastVoteEpoch /\ sentVotes' = sentVotes /\ forgot' = forgot
    /\ Acks' \subseteq Acks
    /\ \A n \in Nodes : currentEpoch[n] <= currentEpoch'[n]
    /\ \A n \in Nodes :
          \/ disk'[n] = disk[n]
          \/ /\ disk'[n].currentEpoch = currentEpoch'[n]
             /\ disk'[n].lastVoteEpoch = lastVoteEpoch'[n]
    /\ \A n \in Nodes :
          \/ tally'[n] = tally[n] /\ failover_auth_count'[n] = failover_auth_count[n]
          \/ tally'[n] = {} /\ failover_auth_count'[n] = 0
    /\ \A w \in wins' \ wins :
          /\ w.node \in Nodes /\ w.votes = tally[w.node] /\ w.count = failover_auth_count[w.node]
          /\ w.count >= (w.size \div 2) + 1

LEMMA QuietKeepsVoteInv ==
    ASSUME TypeOK, TypeOK', VoteInv, Quiet
    PROVE  VoteInv'
<1>1. EpochsOrdered'
  <2> SUFFICES ASSUME NEW n \in Nodes
               PROVE  /\ disk'[n].lastVoteEpoch <= lastVoteEpoch'[n]
                      /\ disk'[n].currentEpoch <= currentEpoch'[n]
                      /\ disk'[n].lastVoteEpoch <= disk'[n].currentEpoch
                      /\ lastVoteEpoch'[n] <= currentEpoch'[n]
    BY DEF EpochsOrdered
  <2>1. /\ currentEpoch[n] \in Nat /\ currentEpoch'[n] \in Nat /\ lastVoteEpoch[n] \in Nat
        /\ disk[n].currentEpoch \in Nat /\ disk[n].lastVoteEpoch \in Nat
    BY EpochsInNat, ZenonT(40) DEF TypeOK, Disk
  <2>2. QED
    BY <2>1 DEF Quiet, VoteInv, EpochsOrdered
<1>2. VotesBounded' /\ OneVotePerEpoch'
  BY DEF Quiet, VoteInv, VotesBounded, OneVotePerEpoch
<1>3. VotesCast'
  <2>1. \A m \in Acks' : VoteOf(m) \in sentVotes'
    BY DEF Quiet, VoteInv, VotesCast
  <2>2. \A n \in Nodes : \A v \in tally'[n] : v \in sentVotes' /\ v.to = n
    BY DEF Quiet, VoteInv, VotesCast
  <2>3. QED
    BY <2>1, <2>2 DEF VotesCast, VoteOf
<1>4. VotesFresh'
  <2> SUFFICES ASSUME forgot = {}, NEW m \in Acks'
               PROVE  /\ VoteOf(m) \notin tally'[m.to]
                      /\ \A a \in Acks' : VoteOf(a) = VoteOf(m) => a = m
    BY ZenonT(40) DEF VotesFresh, Quiet, VoteOf
  <2>1. m \in Acks /\ m.to \in Nodes
    BY DEF Quiet, Acks, TypeOK, Packets
  <2>2. tally'[m.to] \subseteq tally[m.to]
    BY <2>1 DEF Quiet
  <2>3. QED
    BY <2>1, <2>2 DEF VoteInv, VotesFresh, Quiet
<1>5. CountBacked'
  <2> SUFFICES ASSUME forgot = {}, NEW n \in Nodes
               PROVE  /\ IsFiniteSet(tally'[n])
                      /\ failover_auth_count'[n] <= Cardinality(tally'[n])
    BY DEF CountBacked, Quiet
  <2>1. CASE tally'[n] = tally[n] /\ failover_auth_count'[n] = failover_auth_count[n]
    BY <2>1 DEF VoteInv, CountBacked
  <2>2. CASE tally'[n] = {} /\ failover_auth_count'[n] = 0
    BY <2>2, FS_EmptySet
  <2>3. QED
    BY <2>1, <2>2 DEF Quiet
<1>6. WinsBacked'
  <2> SUFFICES ASSUME NEW w \in wins'
               PROVE  /\ \A v \in w.votes : v \in sentVotes /\ v.to = w.node
                      /\ w.count >= (w.size \div 2) + 1
                      /\ forgot = {} => /\ IsFiniteSet(w.votes)
                                        /\ w.count <= Cardinality(w.votes)
    BY DEF WinsBacked, Quiet
  <2>1. CASE w \in wins
    BY <2>1 DEF VoteInv, WinsBacked
  <2>2. CASE w \notin wins
    BY <2>2 DEF Quiet, VoteInv, VotesCast, CountBacked
  <2>3. QED
    BY <2>1, <2>2
<1>7. QED
  BY <1>1, <1>2, <1>3, <1>4, <1>5, <1>6 DEF VoteInv

LEMMA SavedQuiet ==
    ASSUME TypeOK, NEW n \in Nodes, NEW save, disk' = Saved(n, save), NEW p \in Nodes
    PROVE  \/ disk'[p] = disk[p]
           \/ /\ disk'[p].currentEpoch = currentEpoch'[p]
              /\ disk'[p].lastVoteEpoch = lastVoteEpoch'[p]
BY DEF TypeOK, Saved

\* Pongs and requests are no votes.
LEMMA NoAckBroadcast ==
    ASSUME NEW type \in {"PONG", "REQUEST"}, NEW n, NEW epoch, NEW claim, NEW mflags,
           net' = net \cup Broadcast(type, n, epoch, claim, mflags)
    PROVE  Acks' \subseteq Acks
BY DEF Acks, Broadcast, Header

LEMMA HandleSlaveFailoverQuiet ==
    ASSUME TypeOK, NEW n \in Nodes, NEW cron \in BOOLEAN, HandleSlaveFailover(n, cron),
           UNCHANGED <<sentVotes, forgot>>
    PROVE  Quiet
<1>0. \A p \in Nodes : currentEpoch[p] \in Nat
  BY EpochsInNat, ZenonT(40) DEF TypeOK
<1>1. CASE NoProgress(n)
  <2>1. Acks' \subseteq Acks
    BY <1>1 DEF NoProgress, Effects, Acks
  <2>2. QED
    BY <1>0, <1>1, <2>1, SavedQuiet DEF NoProgress, Effects, memory, attempt, Quiet
<1>2. CASE Schedule(n)
  <2>1. Acks' \subseteq Acks
    <3> DEFINE siblings == {p \in Nodes \ {slaveof(n, n)} :
                              ShardOf[p] = ShardOf[n] /\ <<n, p>> \in PingLinks}
               pongs == {Header("PONG", n, p, currentEpoch[n], slots[n][ShardOf[n]], {}) :
                           p \in siblings}
    <3>1. net' = net \cup pongs
      BY <1>2 DEF Schedule, Effects
    <3>2. \A m \in pongs : m.type = "PONG"
      <4> HIDE DEF siblings
      <4> QED BY DEF Header
    <3>3. QED
      BY <3>1, <3>2, ZenonT(40) DEF Acks
  <2>2. \A p \in Nodes :
          \/ tally'[p] = tally[p] /\ failover_auth_count'[p] = failover_auth_count[p]
          \/ tally'[p] = {} /\ failover_auth_count'[p] = 0
    BY <1>2 DEF Schedule, TypeOK
  <2>3. disk' = Saved(n, FALSE \/ "save" \in todo[n])
    BY <1>2 DEF Schedule, Effects
  <2>4. UNCHANGED <<currentEpoch, lastVoteEpoch, wins>>
    BY <1>2 DEF Schedule, memory
  <2>5. QED
    BY <1>0, <2>1, <2>2, <2>3, <2>4, SavedQuiet DEF Quiet
<1>3. CASE RankUpdate(n)
  <2>1. Acks' \subseteq Acks
    BY <1>3 DEF RankUpdate, Effects, Acks
  <2>2. QED
    BY <1>0, <1>3, <2>1, SavedQuiet DEF RankUpdate, Effects, memory, Quiet
<1>4. CASE AskForVotes(n, cron)
  <2>1. Acks' \subseteq Acks
    BY <1>4, NoAckBroadcast DEF AskForVotes, Effects
  <2>2. \A p \in Nodes : currentEpoch[p] <= currentEpoch'[p]
    BY <1>0, <1>4, SMTT(40) DEF AskForVotes, TypeOK
  <2>3. QED
    BY <1>4, <2>1, <2>2, SavedQuiet, SMTT(40) DEF AskForVotes, Effects, Quiet
<1>5. CASE TakeOver(n)
  <2>1. Acks' \subseteq Acks
    BY <1>5, NoAckBroadcast DEF TakeOver, Effects
  <2>2. disk' = Saved(n, TRUE \/ "save" \in todo[n])
    BY <1>5 DEF TakeOver, Effects
  <2>3. UNCHANGED <<currentEpoch, lastVoteEpoch, tally, failover_auth_count>>
    BY <1>5 DEF TakeOver, attempt
  <2>4. \A w \in wins' \ wins :
          /\ w.node \in Nodes /\ w.votes = tally[w.node] /\ w.count = failover_auth_count[w.node]
          /\ w.count >= (w.size \div 2) + 1
    BY <1>5 DEF TakeOver, needed_quorum
  <2>5. QED
    BY <1>0, <2>1, <2>2, <2>3, <2>4, SavedQuiet, SMTT(40) DEF Quiet
<1>6. QED
  BY <1>1, <1>2, <1>3, <1>4, <1>5 DEF HandleSlaveFailover

LEMMA HeaderRaisesEpoch ==
    ASSUME TypeOK, NEW m \in net, NEW p \in Nodes,
           currentEpoch' = [currentEpoch EXCEPT ![m.to] = Max2(@, m.epoch)]
    PROVE  currentEpoch[p] <= currentEpoch'[p]
<1>1. m.epoch \in Nat /\ currentEpoch[p] \in Nat
  BY EpochsInNat, ZenonT(40) DEF TypeOK, Packets
<1>2. QED
  BY <1>1 DEF Max2, TypeOK

LEMMA ReceivePongQuiet ==
    ASSUME TypeOK, NEW m \in net, ReceivePong(m.to, m)
    PROVE  Quiet
<1>0. m.to \in Nodes
  BY SMTT(40) DEF TypeOK, Packets
<1>1. Acks' \subseteq Acks
  BY ZenonT(40) DEF ReceivePong, ReceiveHeader, Acks
<1>2. \A p \in Nodes : currentEpoch[p] <= currentEpoch'[p]
  BY HeaderRaisesEpoch, ZenonT(40) DEF ReceivePong, ReceiveHeader
<1>3. PICK save : disk' = Saved(m.to, save)
  BY ZenonT(40) DEF ReceivePong
<1>4. QED
  BY <1>0, <1>1, <1>2, <1>3, SavedQuiet, ZenonT(40) DEF ReceivePong, attempt, Quiet

\* A granted vote is newer than every vote its voter cast: its epoch is at least
\* currentEpoch, hence lastVoteEpoch, and differs from lastVoteEpoch.
LEMMA GrantIsNew ==
    ASSUME TypeOK, VoteInv, NEW m \in net, m.to \notin forgot, Grants(m.to, m)
    PROVE  \A v \in sentVotes : v.voter = m.to => v.epoch < m.epoch
<1>0. /\ m.to \in Nodes /\ m.epoch \in Nat /\ lastVoteEpoch[m.to] \in Nat
      /\ currentEpoch[m.to] \in Nat /\ \A v \in sentVotes : v.epoch \in Nat
  BY EpochsInNat, ZenonT(40) DEF TypeOK, Packets, Votes
<1>1. lastVoteEpoch[m.to] < m.epoch
  BY <1>0 DEF Grants, VoteInv, EpochsOrdered
<1>2. QED
  BY <1>0, <1>1 DEF VoteInv, VotesBounded

LEMMA ReceiveAuthRequestKeepsVoteInv ==
    ASSUME TypeOK, TypeOK', VoteInv, NEW m \in net, NEW early \in BOOLEAN,
           ReceiveAuthRequest(m.to, m, early)
    PROVE  VoteInv'
<1> DEFINE n == m.to
           ack == Header("ACK", n, m.from, m.epoch, slots[n][ShardOf[n]], {})
           vote == [voter |-> n, epoch |-> m.epoch, to |-> m.from]
<1>0. /\ n \in Nodes /\ m.from \in Nodes /\ m.epoch \in Nat
      /\ \A p \in Nodes : currentEpoch[p] <= currentEpoch'[p]
      /\ m.type = "REQUEST"
  BY EpochsInNat, HeaderRaisesEpoch, ZenonT(40) DEF TypeOK, Packets, ReceiveAuthRequest
<1>1. disk' = Saved(n, Grants(n, m) /\ ~early) /\ UNCHANGED <<attempt, forgot, wins>>
  BY DEF ReceiveAuthRequest
<1>2. CASE ~Grants(n, m)
  <2>1. net' = net \ {m} /\ UNCHANGED <<lastVoteEpoch, sentVotes>>
    BY <1>2 DEF ReceiveAuthRequest
  <2>2. Quiet
    BY <1>0, <1>1, <2>1, SavedQuiet DEF Quiet, attempt, Acks
  <2>3. QED
    BY <2>2, QuietKeepsVoteInv
<1>3. CASE Grants(n, m)
  <2>1. /\ lastVoteEpoch' = [lastVoteEpoch EXCEPT ![n] = m.epoch]
        /\ currentEpoch' = [currentEpoch EXCEPT ![n] = Max2(@, m.epoch)]
        /\ net' = (net \ {m}) \cup {ack}
        /\ sentVotes' = sentVotes \cup {vote}
        /\ UNCHANGED <<tally, failover_auth_count>>
    BY <1>1, <1>3 DEF ReceiveAuthRequest, attempt
  <2>2. /\ Acks' = Acks \cup {ack}
        /\ VoteOf(ack) = vote /\ ack.to = m.from /\ ack.type = "ACK"
        /\ vote.voter = n /\ vote.epoch = m.epoch /\ vote.to = m.from
    BY <1>0, <2>1 DEF Acks, Header, VoteOf
  <2>3. n \notin forgot => \A v \in sentVotes : v.voter = n => v.epoch < m.epoch
    BY <1>3, GrantIsNew, SMTT(40)
  <2> HIDE DEF ack, vote
  <2>4. n \notin forgot => vote \notin sentVotes
    <3>1. ~(m.epoch < m.epoch)
      BY <1>0
    <3>2. QED
      BY <2>2, <2>3, <3>1, ZenonT(60)
  <2>5. EpochsOrdered'
    <3> SUFFICES ASSUME NEW p \in Nodes
                 PROVE  /\ disk'[p].lastVoteEpoch <= lastVoteEpoch'[p]
                        /\ disk'[p].currentEpoch <= currentEpoch'[p]
                        /\ disk'[p].lastVoteEpoch <= disk'[p].currentEpoch
                        /\ lastVoteEpoch'[p] <= currentEpoch'[p]
      BY DEF EpochsOrdered
    <3>1. /\ currentEpoch[p] \in Nat /\ currentEpoch'[p] \in Nat /\ lastVoteEpoch[p] \in Nat
          /\ disk[p].currentEpoch \in Nat /\ disk[p].lastVoteEpoch \in Nat
      BY EpochsInNat, ZenonT(40) DEF TypeOK, Disk
    <3>2. lastVoteEpoch[p] <= lastVoteEpoch'[p] /\ lastVoteEpoch'[p] <= currentEpoch'[p]
      <4>1. /\ DOMAIN lastVoteEpoch = Nodes /\ DOMAIN currentEpoch = Nodes
            /\ lastVoteEpoch[p] <= currentEpoch[p]
        BY DEF TypeOK, VoteInv, EpochsOrdered
      <4>2. CASE p = n
        <5>1. m.epoch >= currentEpoch[n]
          BY <1>3 DEF Grants
        <5>2. lastVoteEpoch'[n] = m.epoch /\ currentEpoch'[n] = Max2(currentEpoch[n], m.epoch)
          BY <1>0, <2>1, <4>1
        <5>3. QED
          BY <1>0, <3>1, <4>1, <4>2, <5>1, <5>2, SMTT(40) DEF Max2
      <4>3. CASE p # n
        <5>1. lastVoteEpoch'[p] = lastVoteEpoch[p] /\ currentEpoch'[p] = currentEpoch[p]
          BY <2>1, <4>1, <4>3
        <5>2. QED
          BY <3>1, <4>1, <5>1
      <4>4. QED
        BY <4>2, <4>3
    <3>3. currentEpoch[p] <= currentEpoch'[p] /\ lastVoteEpoch'[p] \in Nat
      BY <1>0, EpochsInNat, ZenonT(40) DEF TypeOK
    <3>4. \/ disk'[p] = disk[p]
          \/ /\ disk'[p].currentEpoch = currentEpoch'[p]
             /\ disk'[p].lastVoteEpoch = lastVoteEpoch'[p]
      BY <1>0, <1>1, SavedQuiet
    <3>5. QED
      BY <3>1, <3>2, <3>3, <3>4 DEF VoteInv, EpochsOrdered
  <2>6. VotesBounded'
    <3> SUFFICES ASSUME NEW v \in sentVotes', v.voter \notin forgot
                 PROVE  v.epoch <= lastVoteEpoch'[v.voter]
      BY <1>1 DEF VotesBounded
    <3>0. v.voter \in Nodes /\ v.epoch \in Nat
      BY EpochsInNat, ZenonT(40) DEF TypeOK, Votes
    <3>1. CASE v.voter = n
      <4>1. lastVoteEpoch'[n] = m.epoch
        BY <1>0, <2>1, ZenonT(60) DEF TypeOK
      <4>2. CASE v = vote
        BY <1>0, <2>2, <4>1, <4>2
      <4>3. CASE v \in sentVotes
        <5>1. v.epoch < m.epoch
          BY <2>3, <3>1, <4>3
        <5>2. QED
          BY <1>0, <3>0, <3>1, <4>1, <5>1
      <4>4. QED
        BY <2>1, <4>2, <4>3
    <3>2. CASE v.voter # n
      <4>1. v \in sentVotes
        BY <2>1, <2>2, <3>2, ZenonT(60)
      <4>2. v.epoch <= lastVoteEpoch[v.voter]
        BY <4>1, ZenonT(60) DEF VoteInv, VotesBounded
      <4>3. lastVoteEpoch'[v.voter] = lastVoteEpoch[v.voter]
        BY <2>1, <3>0, <3>2, ZenonT(60) DEF TypeOK
      <4>4. QED
        BY <4>2, <4>3, ZenonT(60)
    <3>3. QED
      BY <3>1, <3>2
  <2>7. OneVotePerEpoch'
    <3> SUFFICES ASSUME NEW v \in sentVotes', NEW w \in sentVotes', v.voter = w.voter,
                        v.epoch = w.epoch, v.voter \notin forgot
                 PROVE  v.to = w.to
      BY <1>1 DEF OneVotePerEpoch
    <3>1. CASE v \in sentVotes /\ w \in sentVotes
      BY <3>1 DEF VoteInv, OneVotePerEpoch
    <3>2. CASE v = vote \/ w = vote
      BY <1>0, <2>1, <2>2, <2>3, <3>2
    <3>3. QED
      BY <2>1, <3>1, <3>2
  <2>8. VotesCast'
    <3>1. \A a \in Acks' : VoteOf(a) \in sentVotes'
      BY <2>1, <2>2 DEF VoteInv, VotesCast
    <3>2. \A p \in Nodes : \A v \in tally'[p] : v \in sentVotes' /\ v.to = p
      BY <2>1 DEF VoteInv, VotesCast
    <3>3. QED
      BY <3>1, <3>2 DEF VotesCast, VoteOf
  <2>9. VotesFresh'
    <3> SUFFICES ASSUME forgot = {}, NEW b \in Acks'
                 PROVE  /\ VoteOf(b) \notin tally[b.to]
                        /\ \A a \in Acks' : VoteOf(a) = VoteOf(b) => a = b
      BY <1>1, <2>1, ZenonT(40) DEF VotesFresh, VoteOf
    <3>1. \A a \in Acks : VoteOf(a) \in sentVotes /\ VoteOf(a) # vote
      BY <2>4 DEF VoteInv, VotesCast
    <3>2. \A p \in Nodes : vote \notin tally[p]
      BY <2>4 DEF VoteInv, VotesCast
    <3>3. CASE b = ack
      BY <1>0, <2>2, <3>1, <3>2, <3>3
    <3>4. CASE b \in Acks
      BY <2>2, <3>1, <3>4, SMTT(40) DEF VoteInv, VotesFresh
    <3>5. QED
      BY <2>2, <3>3, <3>4
  <2>10. CountBacked'
    BY <1>1, <2>1 DEF VoteInv, CountBacked
  <2>11. WinsBacked'
    BY <1>1, <2>1 DEF VoteInv, WinsBacked
  <2>12. QED
    BY <2>5, <2>6, <2>7, <2>8, <2>9, <2>10, <2>11, SMTT(40) DEF VoteInv
<1>4. QED
  BY <1>2, <1>3

=============================================================================
