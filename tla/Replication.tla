---------------------------- MODULE Replication ----------------------------
(***************************************************************************)
(* Replication between Redis servers (replication.c): the replication      *)
(* stream and the backlog, PSYNC with its two replication ids, the full    *)
(* resynchronisation, changes of master and promotions, restarts from the  *)
(* RDB file, chains of replicas.                                           *)
(*                                                                         *)
(* A byte of the stream stands for a whole command, a write; the dataset   *)
(* is the sequence of the writes that made it, so that two datasets are    *)
(* equal only when they have the same history.  A server has at most one   *)
(* connection to its master; when it closes both ends see it at once, and  *)
(* what was in flight is lost: a master that has not seen the close yet    *)
(* only feeds a client that nobody reads.                                  *)
(*                                                                         *)
(* Synchronisation goes through the RDB file on disk, and save points are  *)
(* configured, so that a BGSAVE goes on when the replicas it was for have  *)
(* left.  The steps of the handshake before PSYNC are one with it.         *)
(***************************************************************************)
EXTENDS Integers, Sequences, SequencesExt

CONSTANTS
    Nodes,        \* the servers
    None,         \* not a server
    BacklogSize,  \* repl-backlog-size
    Scenarios     \* pairs of a topology to start from and the bounds of the behaviours

\* A topology gives each server its master; the bounds are the numbers of commands of clients,
\* REPLICAOF commands, failures of connections and children, restarts, and backlogs freed.
ASSUME ReplicationAssumption ==
    /\ None \notin Nodes
    /\ BacklogSize \in Nat \ {0}
    /\ \A sc \in Scenarios :
         /\ DOMAIN sc.masters \subseteq Nodes
         /\ \A n \in DOMAIN sc.masters : sc.masters[n] \in DOMAIN sc.masters \cup {None}
         /\ sc.left \in [{"writes", "commands", "failures", "restarts", "frees"} -> Nat]

VARIABLES
    srv,      \* the state of each server that runs and of its connection to its master
    ids,      \* replication ids made so far (getRandomHexChars)
    written,  \* writes made so far
    left      \* what is left of the bounds

vars == <<srv, ids, written, left>>

Servers == DOMAIN srv

\* One of the bounded things happens.
Spend(what) == left[what] > 0 /\ left' = [left EXCEPT ![what] = @ - 1]

Zeros == 0          \* the cleared replication id, 40 zeros
Question == -1      \* the id "?" that asks for a full resynchronisation
NoBacklog == <<-1>> \* server.repl_backlog == NULL
NoRdb == [data |-> <<>>, replid |-> Zeros, offset |-> 0, set |-> FALSE]

(***************************************************************************)
(* server.master and server.cached_master are one field, `master`: it is   *)
(* the cached one unless repl_state is CONNECTED.  replstate, out and chan *)
(* are the client of this server at its master: its state, the commands    *)
(* kept for it until its RDB is sent, and what it has still to read.       *)
(***************************************************************************)
Server(m, id) ==
    [data |-> <<>>, replid |-> id, replid2 |-> Zeros, second_replid_offset |-> -1,
     master_repl_offset |-> 0, repl_backlog |-> NoBacklog,
     masterhost |-> m, repl_state |-> IF m = None THEN "NONE" ELSE "CONNECT",
     master |-> None, initial |-> [replid |-> Zeros, offset |-> -1],
     replstate |-> "none", out |-> <<>>, chan |-> <<>>,
     child |-> None, rdb |-> NoRdb]

\* A master and replicas that have just finished their first synchronisation, with no data.
Init ==
    \E sc \in Scenarios :
      /\ srv = [n \in DOMAIN sc.masters |->
                  IF sc.masters[n] = None
                  THEN [Server(None, 1) EXCEPT !.repl_backlog = <<>>]
                  ELSE [Server(sc.masters[n], 1) EXCEPT
                          !.repl_backlog = <<>>, !.repl_state = "CONNECTED",
                          !.replstate = "ONLINE", !.master = [replid |-> 1, reploff |-> 0]]]
      /\ left = sc.left
      /\ ids = 1 /\ written = 0

(***************************************************************************)
(* Calls shared by the handlers.  Each takes the servers and returns them  *)
(* changed.                                                                *)
(***************************************************************************)
Slaves(S, m) == {n \in Servers : S[n].masterhost = m /\ S[n].replstate # "none"}
WaitStart(S, m) == {n \in Slaves(S, m) : S[n].replstate = "WAIT_BGSAVE_START"}
WaitEnd(S, m) == {n \in Slaves(S, m) : S[n].replstate = "WAIT_BGSAVE_END"}

\* freeClient at the master; replicationCacheMaster or cancelReplicationHandshake at the replica.
Disconnected(s) ==
    [s EXCEPT !.repl_state = IF s.masterhost = None THEN "NONE" ELSE "CONNECT",
              !.replstate = "none", !.out = <<>>, !.chan = <<>>]
Disconnect(S, ns) == [n \in DOMAIN S |-> IF n \in ns THEN Disconnected(S[n]) ELSE S[n]]
disconnectSlaves(S, m) == Disconnect(S, Slaves(S, m))

changeReplicationId(S, n) == [S EXCEPT ![n].replid = ids + 1]
clearReplicationId2(S, n) == [S EXCEPT ![n].replid2 = Zeros, ![n].second_replid_offset = -1]
shiftReplicationId(S, n) ==
    changeReplicationId([S EXCEPT ![n].replid2 = S[n].replid,
                                  ![n].second_replid_offset = S[n].master_repl_offset + 1], n)

\* What a master sends: the replies to PSYNC, the RDB file, the commands of the stream.
FullResync(id, off) == [type |-> "FULLRESYNC", replid |-> id, offset |-> off]
Continue(id) == [type |-> "CONTINUE", replid |-> id]
NoMasterLink == [type |-> "NOMASTERLINK"]
Payload(rdb) == [type |-> "RDB", rdb |-> rdb]
Command(w) == [type |-> "COMMAND", write |-> w]
Commands(q) == [i \in 1..Len(q) |-> Command(q[i])]

\* feedReplicationBuffer: the backlog and the clients get the command; the backlog is trimmed to
\* `keep` commands, more than its size while a block is shared or a replica still refers to it.
feedReplicationBuffer(S, m, w, keep) ==
    IF S[m].repl_backlog = NoBacklog THEN S
    ELSE LET fed == Append(S[m].repl_backlog, w)
             F == [S EXCEPT ![m].master_repl_offset = @ + 1,
                            ![m].repl_backlog = SubSeq(fed, Len(fed) - keep + 1, Len(fed))]
         IN [n \in Servers |->
               IF n \in WaitEnd(S, m) THEN [F[n] EXCEPT !.out = Append(@, w)]
               ELSE IF n \in Slaves(S, m) \ WaitStart(S, m)
                    THEN [F[n] EXCEPT !.chan = Append(@, Command(w))]
               ELSE F[n]]
Keeps(S, m) ==
    IF S[m].repl_backlog = NoBacklog THEN {0}
    ELSE LET len == Len(S[m].repl_backlog) + 1
         IN (IF BacklogSize < len THEN BacklogSize ELSE len)..len

\* rdbPopulateSaveInfo: whether the RDB file tells the replication id and offset.
HasSaveInfo(s) ==
    \/ s.masterhost = None /\ s.repl_backlog # NoBacklog
    \/ s.master # None
Rdb(s) == [data |-> s.data, replid |-> s.replid, offset |-> s.master_repl_offset,
           set |-> HasSaveInfo(s)]

\* startBgsaveForReplication: the waiting replicas are set up for the offset of the fork, or
\* closed when no RDB can be made.
startBgsaveForReplication(S, m) ==
    IF HasSaveInfo(S[m])
    THEN [n \in Servers |->
            IF n \in WaitStart(S, m)
            THEN [S[n] EXCEPT !.replstate = "WAIT_BGSAVE_END",
                              !.chan = <<FullResync(S[m].replid, S[m].master_repl_offset)>>]
            ELSE IF n = m THEN [S[n] EXCEPT !.child = Rdb(S[m])] ELSE S[n]]
    ELSE Disconnect(S, WaitStart(S, m))

(***************************************************************************)
(* The master.                                                             *)
(***************************************************************************)
\* A command of a client: call, propagate, replicationFeedSlaves.
Write(m) ==
    /\ srv[m].masterhost = None /\ Spend("writes")
    /\ written' = written + 1
    /\ \E keep \in Keeps(srv, m) :
         srv' = feedReplicationBuffer([srv EXCEPT ![m].data = Append(@, written + 1)],
                                      m, written + 1, keep)
    /\ UNCHANGED ids

\* masterTryPartialResynchronization: the conditions of a partial resynchronisation.
CanContinue(s, id, offset) ==
    /\ id = s.replid \/ (id = s.replid2 /\ offset <= s.second_replid_offset)
    /\ s.repl_backlog # NoBacklog
    /\ offset >= s.master_repl_offset - Len(s.repl_backlog) + 1
    /\ offset <= s.master_repl_offset + 1

\* addReplyReplicationBacklog: the commands of the backlog from an offset on.
BacklogFrom(s, offset) ==
    SubSeq(s.repl_backlog, Len(s.repl_backlog) - (s.master_repl_offset - offset),
           Len(s.repl_backlog))

\* PSYNC is refused by a replica that has lost its own master.
SyncRefused(S, m, n) ==
    /\ S[m].masterhost # None /\ S[m].repl_state # "CONNECTED"
    /\ srv' = [S EXCEPT ![n].chan = <<NoMasterLink>>]
    /\ UNCHANGED ids

SyncPartial(S, m, n, req) ==
    /\ CanContinue(S[m], req.replid, req.offset)
    /\ srv' = [S EXCEPT ![n].replstate = "ONLINE",
                        ![n].chan = <<Continue(S[m].replid)>> \o
                                    Commands(BacklogFrom(S[m], req.offset))]
    /\ UNCHANGED ids

\* The first replica of a server without backlog starts a new history.
BacklogCreated(S, m) ==
    [clearReplicationId2(changeReplicationId(S, m), m) EXCEPT ![m].repl_backlog = <<>>]

\* Mutant: a replica that joins a running BGSAVE misses the commands since the fork.
Attach_NoBuffer(S, m, n) ==
    [S EXCEPT ![n].replstate = "WAIT_BGSAVE_END",
              ![n].chan = <<FullResync(S[m].replid, S[m].child.offset)>>]
\* Joining the running BGSAVE of another replica, whose buffer is copied.
Attach(S, m, n) ==
    LET other == CHOOSE o \in WaitEnd(S, m) : TRUE
    IN [S EXCEPT ![n].replstate = "WAIT_BGSAVE_END", ![n].out = S[other].out,
                 ![n].chan = <<FullResync(S[m].replid, S[m].child.offset)>>]

SyncFull(S, m, n, req) ==
    /\ ~ CanContinue(S[m], req.replid, req.offset)
    /\ LET new == Slaves(S, m) = {} /\ S[m].repl_backlog = NoBacklog
           joined == [S EXCEPT ![n].replstate = "WAIT_BGSAVE_START"]
           J == IF new THEN BacklogCreated(joined, m) ELSE joined
       IN /\ ids' = IF new THEN ids + 1 ELSE ids
          /\ srv' = IF S[m].child = None THEN startBgsaveForReplication(J, m)
                    ELSE IF WaitEnd(J, m) # {} THEN Attach(J, m, n)
                    ELSE J

\* slaveTryPartialResynchronization, the writing half: the cached master, or a full copy.
PsyncRequest(s) ==
    IF s.master # None THEN [replid |-> s.master.replid, offset |-> s.master.reploff + 1]
    ELSE [replid |-> Question, offset |-> -1]

\* The handshake ends, PSYNC is sent and arrives at the master.  Nothing that n does meanwhile
\* changes what it asks for, so sending and receiving are one step.
Psync(n) ==
    LET m == srv[n].masterhost
        req == PsyncRequest(srv[n])
        S == [srv EXCEPT ![n].repl_state = "RECEIVE_PSYNC_REPLY", ![n].initial.offset = -1]
    IN /\ srv[n].repl_state = "CONNECT"
       /\ \/ SyncRefused(S, m, n)
          \/ /\ S[m].masterhost = None \/ S[m].repl_state = "CONNECTED"
             /\ SyncPartial(S, m, n, req) \/ SyncFull(S, m, n, req)
       /\ UNCHANGED <<written, left>>

\* Mutant: a replica waits for its BGSAVE as long as another one is online.
replicationStartPendingFork_NoneOnline(m) ==
    /\ srv[m].child = None /\ WaitStart(srv, m) # {} /\ Slaves(srv, m) = WaitStart(srv, m)
    /\ srv' = startBgsaveForReplication(srv, m)
    /\ UNCHANGED <<ids, written, left>>
\* replicationStartPendingFork, called by the cron.
replicationStartPendingFork(m) ==
    /\ srv[m].child = None /\ WaitStart(srv, m) # {}
    /\ srv' = startBgsaveForReplication(srv, m)
    /\ UNCHANGED <<ids, written, left>>

\* The child is done: the file replaces the RDB file and goes to the waiting replicas, then the
\* commands kept for them (updateSlavesWaitingBgsave, sendBulkToSlave).
BgsaveDone(m) ==
    /\ srv[m].child # None
    /\ srv' = [n \in Servers |->
                 IF n \in WaitEnd(srv, m)
                 THEN [srv[n] EXCEPT !.replstate = "ONLINE", !.out = <<>>,
                         !.chan = @ \o <<Payload(srv[m].child)>> \o Commands(srv[n].out)]
                 ELSE IF n = m THEN [srv[n] EXCEPT !.rdb = srv[m].child, !.child = None]
                 ELSE srv[n]]
    /\ UNCHANGED <<ids, written, left>>

BgsaveFails(m) ==
    /\ srv[m].child # None /\ Spend("failures")
    /\ srv' = [Disconnect(srv, WaitEnd(srv, m)) EXCEPT ![m].child = None]
    /\ UNCHANGED <<ids, written>>

\* Mutant: the replication id outlives the backlog.
FreeBacklog_KeepsId(m) ==
    /\ srv[m].masterhost = None /\ Slaves(srv, m) = {} /\ srv[m].repl_backlog # NoBacklog
    /\ Spend("frees")
    /\ srv' = [srv EXCEPT ![m].repl_backlog = NoBacklog]
    /\ UNCHANGED <<ids, written>>
\* replicationCron: a master that had no replica for repl-backlog-ttl seconds frees its backlog.
FreeBacklog(m) ==
    /\ srv[m].masterhost = None /\ Slaves(srv, m) = {} /\ srv[m].repl_backlog # NoBacklog
    /\ Spend("frees")
    /\ ids' = ids + 1
    /\ srv' = [clearReplicationId2(changeReplicationId(srv, m), m) EXCEPT
                 ![m].repl_backlog = NoBacklog]
    /\ UNCHANGED written

(***************************************************************************)
(* The replica.                                                            *)
(***************************************************************************)
\* The reply to PSYNC, or the next thing to read, is of this type.
Reads(n, state, type) ==
    srv[n].repl_state = state /\ srv[n].chan # <<>> /\ Head(srv[n].chan).type = type
Consumed(s) == [s EXCEPT !.chan = Tail(@)]

\* Mutant: the offset of the reply is not kept.
ReceiveFullResync_NoOffset(n) ==
    /\ Reads(n, "RECEIVE_PSYNC_REPLY", "FULLRESYNC")
    /\ srv' = [srv EXCEPT ![n] = [Consumed(@) EXCEPT
                 !.repl_state = "TRANSFER", !.initial.replid = Head(srv[n].chan).replid]]
    /\ UNCHANGED <<ids, written, left>>
ReceiveFullResync(n) ==
    /\ Reads(n, "RECEIVE_PSYNC_REPLY", "FULLRESYNC")
    /\ srv' = [srv EXCEPT ![n] = [Consumed(@) EXCEPT
                 !.repl_state = "TRANSFER",
                 !.initial = [replid |-> Head(srv[n].chan).replid,
                              offset |-> Head(srv[n].chan).offset]]]
    /\ UNCHANGED <<ids, written, left>>

\* The master continues under another id: it becomes ours, the old one our second id.
Renamed(S, n, id) ==
    disconnectSlaves([S EXCEPT ![n].replid2 = S[n].master.replid,
                               ![n].second_replid_offset = S[n].master_repl_offset + 1,
                               ![n].replid = id, ![n].master.replid = id], n)

ReceiveContinue(n) ==
    /\ Reads(n, "RECEIVE_PSYNC_REPLY", "CONTINUE")
    /\ LET id == Head(srv[n].chan).replid
           S == [srv EXCEPT ![n] = [Consumed(@) EXCEPT
                   !.repl_state = "CONNECTED",
                   !.repl_backlog = IF @ = NoBacklog THEN <<>> ELSE @]]
       IN srv' = IF id # srv[n].master.replid THEN Renamed(S, n, id) ELSE S
    /\ UNCHANGED <<ids, written, left>>

ReceiveNoMasterLink(n) ==
    /\ Reads(n, "RECEIVE_PSYNC_REPLY", "NOMASTERLINK")
    /\ srv' = Disconnect(srv, {n})
    /\ UNCHANGED <<ids, written, left>>

\* replicationAttachToNewMaster and emptyData, with the children stopped before them.
OldDataDropped(S, n) ==
    [disconnectSlaves(S, n) EXCEPT ![n].master = None, ![n].repl_backlog = NoBacklog,
                                   ![n].data = <<>>, ![n].child = None]

\* readSyncBulkPayload: the whole RDB file has arrived and loads.
LoadRdb(n) ==
    /\ Reads(n, "TRANSFER", "RDB")
    /\ LET rdb == Head(srv[n].chan).rdb
           init == srv[n].initial
       IN srv' = [OldDataDropped(srv, n) EXCEPT ![n] = [Consumed(@) EXCEPT
                    !.data = rdb.data, !.rdb = rdb,
                    !.master = [replid |-> init.replid, reploff |-> init.offset],
                    !.repl_state = "CONNECTED", !.replid = init.replid,
                    !.master_repl_offset = init.offset,
                    !.replid2 = Zeros, !.second_replid_offset = -1, !.repl_backlog = <<>>]]
    /\ UNCHANGED <<ids, written, left>>

\* The file cannot be synced or renamed, or it has replaced the old one and cannot be loaded:
\* the old data are gone already.
LoadRdbFails(n) ==
    /\ Reads(n, "TRANSFER", "RDB") /\ Spend("failures")
    /\ \E file \in {srv[n].rdb, Head(srv[n].chan).rdb} :
         srv' = [Disconnect(OldDataDropped(srv, n), {n}) EXCEPT ![n].rdb = file]
    /\ UNCHANGED <<ids, written>>

\* A command from the master is applied and passed on (commandProcessed,
\* replicationFeedStreamFromMasterStream).
ApplyCommand(n) ==
    /\ Reads(n, "CONNECTED", "COMMAND")
    /\ LET w == Head(srv[n].chan).write
           S == [srv EXCEPT ![n] = [Consumed(@) EXCEPT !.data = Append(@, w),
                                                       !.master.reploff = @ + 1]]
       IN \E keep \in Keeps(srv, n) : srv' = feedReplicationBuffer(S, n, w, keep)
    /\ UNCHANGED <<ids, written, left>>

\* The connection breaks, or repl-timeout expires at one of its ends.
LinkDown(n) ==
    /\ srv[n].repl_state \in {"RECEIVE_PSYNC_REPLY", "TRANSFER", "CONNECTED"}
    /\ Spend("failures")
    /\ srv' = Disconnect(srv, {n})
    /\ UNCHANGED <<ids, written>>

(***************************************************************************)
(* Changes of role and restarts.                                           *)
(***************************************************************************)
\* REPLICAOF host port (replicationSetMaster).
replicationSetMaster(n, m) ==
    /\ m # n /\ srv[n].masterhost # m /\ Spend("commands")
    /\ srv' = [srv EXCEPT ![n] = [Disconnected(@) EXCEPT
                 !.masterhost = m, !.repl_state = "CONNECT",
                 !.master = IF srv[n].masterhost = None
                            THEN [replid |-> srv[n].replid, reploff |-> srv[n].master_repl_offset]
                            ELSE @]]
    /\ UNCHANGED <<ids, written>>

\* REPLICAOF NO ONE (replicationUnsetMaster).
replicationUnsetMaster(n) ==
    /\ srv[n].masterhost # None /\ Spend("commands")
    /\ ids' = ids + 1
    /\ srv' = disconnectSlaves(shiftReplicationId(
                 [srv EXCEPT ![n] = [Disconnected(@) EXCEPT
                    !.masterhost = None, !.repl_state = "NONE", !.master = None]], n), n)
    /\ UNCHANGED written

\* A background save, or the one of SHUTDOWN.
rdbSave(n) ==
    /\ srv[n].child = None /\ left.restarts > 0
    /\ srv' = [srv EXCEPT ![n].rdb = Rdb(srv[n])]
    /\ UNCHANGED <<ids, written, left>>

\* The process starts again with the RDB file, as what its configuration says (loadDataFromDisk).
Loaded(n, host) ==
    LET rdb == srv[n].rdb
        s == [Server(host, ids + 1) EXCEPT !.data = rdb.data, !.rdb = rdb]
    IN IF ~ rdb.set THEN s
       ELSE IF host # None
       THEN [s EXCEPT !.replid = rdb.replid, !.master_repl_offset = rdb.offset,
                      !.master = [replid |-> rdb.replid, reploff |-> rdb.offset]]
       ELSE [s EXCEPT !.replid2 = rdb.replid, !.second_replid_offset = rdb.offset + 1,
                      !.master_repl_offset = rdb.offset,
                      !.repl_backlog = IF rdb.offset = 0 THEN NoBacklog ELSE <<>>]

Restart(n) ==
    /\ Spend("restarts")
    /\ ids' = ids + 1
    /\ \E host \in {srv[n].masterhost, None} :
         srv' = [Disconnect(srv, {k \in Servers : srv[k].masterhost = n}) EXCEPT
                   ![n] = Loaded(n, host)]
    /\ UNCHANGED written

Next ==
    \/ \E n \in Servers : Write(n)
    \/ \E n \in Servers : Psync(n)
    \/ \E n \in Servers : replicationStartPendingFork(n)
    \/ \E n \in Servers : BgsaveDone(n)
    \/ \E n \in Servers : BgsaveFails(n)
    \/ \E n \in Servers : FreeBacklog(n)
    \/ \E n \in Servers : ReceiveFullResync(n)
    \/ \E n \in Servers : ReceiveContinue(n)
    \/ \E n \in Servers : ReceiveNoMasterLink(n)
    \/ \E n \in Servers : LoadRdb(n)
    \/ \E n \in Servers : LoadRdbFails(n)
    \/ \E n \in Servers : ApplyCommand(n)
    \/ \E n \in Servers : LinkDown(n)
    \/ \E n, m \in Servers : replicationSetMaster(n, m)
    \/ \E n \in Servers : replicationUnsetMaster(n)
    \/ \E n \in Servers : rdbSave(n)
    \/ \E n \in Servers : Restart(n)

\* Every server keeps running: its cron reconnects, its children end, what arrives is read.
Fairness ==
    \A n \in Nodes :
      /\ WF_vars(n \in Servers /\ Psync(n))
      /\ WF_vars(n \in Servers /\ replicationStartPendingFork(n))
      /\ WF_vars(n \in Servers /\ BgsaveDone(n))
      /\ WF_vars(n \in Servers /\ ReceiveFullResync(n))
      /\ WF_vars(n \in Servers /\ ReceiveContinue(n))
      /\ WF_vars(n \in Servers /\ ReceiveNoMasterLink(n))
      /\ WF_vars(n \in Servers /\ LoadRdb(n))
      /\ WF_vars(n \in Servers /\ ApplyCommand(n))

Spec == Init /\ [][Next]_vars
FairSpec == Spec /\ Fairness

(***************************************************************************)
(* Properties.                                                             *)
(***************************************************************************)
Rdbs == [data : Seq(Nat), replid : Nat, offset : Nat, set : BOOLEAN]
Messages == [type : {"FULLRESYNC"}, replid : Nat, offset : Nat]
    \cup [type : {"CONTINUE"}, replid : Nat]
    \cup [type : {"NOMASTERLINK"}] \cup [type : {"RDB"}, rdb : Rdbs]
    \cup [type : {"COMMAND"}, write : Nat]

\* The values of the replication fields of redisServer and of the connections.
TypeOK ==
    srv \in [Servers ->
        [data : Seq(Nat), replid : Nat, replid2 : Nat, second_replid_offset : Int,
         master_repl_offset : Nat, repl_backlog : Seq(Int), masterhost : Servers \cup {None},
         repl_state : {"NONE", "CONNECT", "RECEIVE_PSYNC_REPLY", "TRANSFER", "CONNECTED"},
         master : [replid : Nat, reploff : Nat] \cup {None},
         initial : [replid : Nat, offset : Int],
         replstate : {"none", "WAIT_BGSAVE_START", "WAIT_BGSAVE_END", "ONLINE"},
         out : Seq(Nat), chan : Seq(Messages), child : Rdbs \cup {None}, rdb : Rdbs]]

Writes(q) ==
    LET cmds == SelectSeq(q, LAMBDA m : m.type = "COMMAND")
    IN [i \in 1..Len(cmds) |-> cmds[i].write]
Files(q) == SelectSeq(q, LAMBDA m : m.type = "RDB")

\* Every replica of a server, whether it continues or starts over, directly or in a chain, gets
\* exactly the writes it lacks: what it has, or the RDB file it will load, followed by what is
\* kept for it and on its way is the dataset of its master.
StreamContinues ==
    \A m \in Servers : \A n \in Slaves(srv, m) :
      /\ srv[n].replstate = "ONLINE" =>
           LET files == Files(srv[n].chan)
           IN (IF files = <<>> THEN srv[n].data ELSE files[1].rdb.data) \o Writes(srv[n].chan)
              = srv[m].data
      /\ srv[n].replstate = "WAIT_BGSAVE_END" => srv[m].child.data \o srv[n].out = srv[m].data

\* A replication id and an offset name one history: whatever server a replica may be pointed at
\* next, a PSYNC that this server would accept comes from a dataset that is the beginning of its
\* own, just as long as the offset says.
AcceptedIsShared ==
    \A m, n \in Servers : m # n /\ srv[n].master # None =>
      LET s == srv[m]
          off == srv[n].master.reploff
      IN CanContinue(s, srv[n].master.replid, off + 1) =>
           srv[n].data = SubSeq(s.data, 1, Len(s.data) - (s.master_repl_offset - off))

\* Masters that are not in a ring of servers replicating from each other.
Top(n) ==
    LET up[i \in 0..Len(SetToSeq(Servers))] ==
          IF i = 0 THEN n ELSE IF up[i - 1] = None THEN None ELSE srv[up[i - 1]].masterhost
    IN up[Len(SetToSeq(Servers))]
\* Once failures and commands stop, every replica below a master ends up connected, with the
\* dataset of its master: no handshake, wait for a BGSAVE or retry gets stuck.
Converges ==
    <>[](\A n \in Servers : srv[n].masterhost # None /\ Top(n) = None =>
           srv[n].repl_state = "CONNECTED" /\ srv[n].data = srv[srv[n].masterhost].data)
=============================================================================
