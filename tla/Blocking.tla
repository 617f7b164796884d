------------------------------ MODULE Blocking ------------------------------
(***************************************************************************)
(* Changes of keys and the clients waiting for them (blocked.c, timeout.c, *)
(* db.c), WAIT (replication.c), and how commands reach the replicas        *)
(* (server.c).  S.blocking is the table of the clients blocked on a key,   *)
(* S.ready the keys that may serve them, S.timeouts the table of timeouts; *)
(* S.also holds what is to be propagated, S.stream what has been, S.rep    *)
(* the copy of a replica, S.off and S.ack the offset of the stream and     *)
(* what the replica has acknowledged.  The assertions of the code that     *)
(* fail are added to S.panic; S.done are the states between two units of   *)
(* execution, since the event loop woke up.                                *)
(***************************************************************************)
EXTENDS Transactions

\* A command that blocks ends with its timeout, 0 for none.
BlockingNames == {"BLPOP", "BLMPOP", "BLMOVE", "BZPOPMIN", "BZPOPMAX", "BZMPOP", "XREAD", "XREADGROUP"}
Panic(S, what, ok) == IF ok THEN S ELSE [S EXCEPT !.panic = @ \cup {what}]

\* The state of the data, as a client can observe it between two commands.
Snapshot(s) == <<Data(s), s.ex>>
Boundary(S) == [S EXCEPT !.done = @ \cup {Snapshot(S.s)}]

---------------------------------------------------------------------------
(***************************************************************************)
(* Propagation.                                                            *)
(***************************************************************************)
areClientsPaused(S) == S.pauseType # "OFF"
\* A unit of the stream is what the replica executes as one; alone, a deletion by itself.
propagateNow(S, ops, alone) ==
    [Panic(S, "propagated while paused", ~areClientsPaused(S) \/ S.pauseTx) EXCEPT
       !.stream = Append(@, [ops |-> SelectSeq(ops, LAMBDA x : x[2][1] \in DataNames), alone |-> alone]),
       !.off = @ + Len(ops)]
\* The replica executes the stream.  Where a unit ends it shows a state the master had between
\* two units, else the stream is torn.
Show(S, u, r) == [S EXCEPT !.rep = r, !.torn = @ \/ (~u.alone /\ Snapshot(r) \notin S.done)]
Receive(S) == [FoldLeft(LAMBDA T, u : Show(T, u, Replay(T.rep, u.ops)), S, S.stream) EXCEPT !.stream = <<>>, !.done = {}]

\* Mutant: several commands are not wrapped.
propagatePendingCommands_Bare(S) ==
    [FoldLeft(LAMBDA T, op : propagateNow(T, <<op>>, FALSE), S, S.also) EXCEPT !.also = <<>>]
\* Several commands are wrapped into MULTI and EXEC: the replica executes them as one.  The
\* deletions of independent keys are not.
propagatePendingCommands(S) ==
    LET arbitrary == S.cur # Nil /\ S.cl[S.cur].cmd # Nil /\ S.cl[S.cur].cmd[1] \in {"RANDOMKEY", "SCAN"}
    IN  IF S.also = <<>> THEN S
        ELSE [IF S.noMulti \/ arbitrary
              THEN FoldLeft(LAMBDA T, op : propagateNow(T, <<op>>, TRUE), S, S.also)
              ELSE propagateNow(S, S.also, FALSE) EXCEPT !.also = <<>>]

afterCommand(S) == IF S.nested > 0 THEN S ELSE trackingHandlePendingKeyInvalidations(propagatePendingCommands(S))

---------------------------------------------------------------------------
(***************************************************************************)
(* Keys that become ready.                                                 *)
(***************************************************************************)
\* The keys of a blocked command, the field of S.cl[c].bkeys.
BlockedOn(S, type) == {c \in ClientIds : S.cl[c].btype = type}
getBlockedTypeByType(t) == IF t \in {"list", "zset", "stream"} THEN t ELSE "none"

signalKeyAsReady(S, K, t) ==
    IF \/ getBlockedTypeByType(t) = "none" \/ BlockedOn(S, t) = {}
       \/ K \notin DOMAIN S.blocking \/ Contains(S.ready, K) THEN S
    ELSE [S EXCEPT !.ready = Append(@, K)]
SignalAll(S, D, Type(_)) == FoldLeft(LAMBDA T, K : signalKeyAsReady(T, K, Type(K)), S, SetToSeq(D))

\* dbAdd, and dbDelete and dbOverwrite of a stream, by what a command did to the keys; RENAME
\* and COPY delete the destination and add it anew.
Renamed(cmd, db) == CASE cmd[1] \in {"RENAME", "RENAMENX"} -> {<<db, cmd[3]>>} [] cmd[1] = "COPY" -> {<<cmd[4], cmd[3]>>} [] OTHER -> {}
SignalChanges(S, old, new, cmd, db) ==
    LET anew == {K \in Renamed(cmd, db) : K \in DOMAIN new /\ (K \notin DOMAIN old \/ new[K] # old[K])}
        added == (DOMAIN new \ DOMAIN old) \cup anew
        gone == {K \in DOMAIN old : old[K].t = "stream" /\ (K \notin DOMAIN new \/ new[K].t # "stream")}
        more == IF cmd[1] = "XADD" \/ (cmd[1] = "XGROUP" /\ cmd[2] = "DESTROY")
                THEN {K \in DOMAIN new \cap DOMAIN old : new[K].t = "stream" /\ new[K] # old[K]} ELSE {}
    IN  SignalAll(SignalAll(S, gone \cup more, LAMBDA K : "stream"), added, LAMBDA K : new[K].t)

scanDatabaseForReadyKeys(S, d) ==
    SignalAll(S, {K \in DOMAIN S.blocking : K[1] = d /\ K \in DOMAIN S.s.db}, LAMBDA K : S.s.db[K].t)
\* A stream of d that is gone, or no stream, in the database that takes its place.
scanDatabaseForDeletedStreams(S, d, new) ==
    LET IsStream(K) == K \in DOMAIN S.s.db /\ S.s.db[K].t = "stream"
    IN  SignalAll(S, {K \in DOMAIN S.blocking : K[1] = d /\ IsStream(K) /\ ~(new # Nil /\ IsStream(<<new, K[2]>>))}, LAMBDA K : "stream")

signalModifiedKey(S, c, K) == trackingInvalidateKey(touchWatchedKey(S, K), c, K[2], TRUE)

signalFlushedDb(S, D) ==
    trackingInvalidateKeysOnFlush(FoldLeft(LAMBDA T, d : touchAllWatchedKeysInDb(scanDatabaseForDeletedStreams(T, d, Nil), d, Nil), S, SetToSeq(D)))

\* A command has given [s, r, p, mod]: the keys are stored and their watchers, the clients that
\* cache them and those waiting for them are told.
Put(S, res) == [S EXCEPT !.s = res.s, !.also = @ \o res.p]
BothWays(Op(_, _, _), S, a, b) == Op(Op(S, a, b), b, a)
Swapped(S, a, b, res) ==
    scanDatabaseForReadyKeys(scanDatabaseForReadyKeys(
      Put(BothWays(scanDatabaseForDeletedStreams, BothWays(touchAllWatchedKeysInDb, S, a, b), a, b), res), a), b)
Apply(S, c, cmd, res) ==
    CASE cmd[1] \in {"FLUSHDB", "FLUSHALL"} -> Put(signalFlushedDb(S, IF cmd[1] = "FLUSHDB" THEN {S.s.sel} ELSE Dbs), res)
      [] cmd[1] = "SWAPDB" -> IF cmd[2] = cmd[3] THEN Put(S, res) ELSE Swapped(S, cmd[2], cmd[3], res)
      [] OTHER -> FoldLeft(LAMBDA T, K : signalModifiedKey(T, c, K),
                           SignalChanges(Put(S, res), S.s.db, res.s.db, cmd, S.s.sel), SetToSeq(res.mod))

\* Expired keys among K are deleted.
ApplyExpire(S, K) ==
    IF areClientsPaused(S) THEN S ELSE Apply(S, Nil, <<"DEL", {}>>, expireIfNeeded(S.s, K) @@ [r |-> Nil])

---------------------------------------------------------------------------
(***************************************************************************)
(* Blocking and unblocking clients.                                        *)
(***************************************************************************)
addClientToTimeoutTable(S, c) ==
    IF S.cl[c].timeout = 0 THEN S ELSE [Set(S, c, {"IN_TO_TABLE"}) EXCEPT !.timeouts = @ \cup {<<S.cl[c].timeout, c>>}]
removeClientFromTimeoutTable(S, c) ==
    IF ~Is(S, c, "IN_TO_TABLE") THEN S
    ELSE [Clear(S, c, {"IN_TO_TABLE"}) EXCEPT !.timeouts = @ \ {<<S.cl[c].timeout, c>>}]

blockClient(S, c, btype) ==
    LET T == addClientToTimeoutTable([Set(S, c, {"BLOCKED"}) EXCEPT !.cl[c].btype = btype], c)
    IN  IF btype = "postpone" THEN [Set(T, c, {"PENDING_COMMAND"}) EXCEPT !.postponed = Append(@, c)] ELSE T

BlockKeys(cmd) ==
    CASE cmd[1] = "BLMOVE" -> <<cmd[2]>>
      [] cmd[1] = "XREAD" -> [i \in DOMAIN cmd[2] |-> cmd[2][i][1]]
      [] cmd[1] = "XREADGROUP" -> [i \in DOMAIN cmd[4] |-> cmd[4][i][1]]
      [] OTHER -> cmd[2]
BlockType(cmd) ==
    CASE cmd[1] \in {"BLPOP", "BLMPOP", "BLMOVE"} -> "list" [] cmd[1] \in {"XREAD", "XREADGROUP"} -> "stream" [] OTHER -> "zset"
blockForKeys(S, c, cmd) ==
    LET db == S.cl[c].db
        Wait(T, k) == IF Contains(T.cl[c].bkeys, k) THEN T
                      ELSE [T EXCEPT !.cl[c].bkeys = Append(@, k), !.blocking = AddTo(@, <<db, k>>, c)]
        T == FoldLeft(Wait, [S EXCEPT !.cl[c].bkeys = <<>>], BlockKeys(cmd))
        for == Last(cmd)
    IN  blockClient([T EXCEPT !.cl[c].timeout = IF for = 0 THEN 0 ELSE S.s.now + for], c, BlockType(cmd))

unblockClientWaitingData(S, c) ==
    [FoldLeft(LAMBDA T, k : [T EXCEPT !.blocking = DropFrom(@, <<S.cl[c].db, k>>, c)], S, S.cl[c].bkeys) EXCEPT !.cl[c].bkeys = <<>>]

queueClientForReprocessing(S, c) ==
    IF Is(S, c, "UNBLOCKED") THEN S ELSE [Set(S, c, {"UNBLOCKED"}) EXCEPT !.unblocked = Append(@, c)]

StopWaiting(S, c, b) ==
    CASE b \in {"list", "zset", "stream"} -> unblockClientWaitingData(S, c)
      [] b = "wait" -> [S EXCEPT !.waiting = Drop(@, c)]
      [] b = "postpone" -> [S EXCEPT !.postponed = Drop(@, c)]
      [] OTHER -> S
ResetUnlessPending(S, c, b) == IF b \in {"postpone", "shutdown"} THEN S ELSE resetClient(S, c)
unblockClient(S, c) ==
    LET b == S.cl[c].btype
    IN  queueClientForReprocessing(removeClientFromTimeoutTable(
          [Clear(ResetUnlessPending(StopWaiting(S, c, b), c, b), c, {"BLOCKED"}) EXCEPT !.cl[c].btype = "none"], c), c)

replicationCountAcksByOffset(S, off) == IF S.ack >= off THEN 1 ELSE 0
replyToBlockedClientTimedOut(S, c) ==
    LET b == S.cl[c].btype
    IN  IF b = "wait" THEN addReply(S, c, <<"acks", replicationCountAcksByOffset(S, S.cl[c].boff)>>)
        ELSE IF b \in {"list", "zset", "stream"} THEN addReply(S, c, Nil)
        ELSE Panic(S, "unknown btype", FALSE)

checkBlockedClientTimeout(S, c) ==
    IF Is(S, c, "BLOCKED") /\ S.cl[c].timeout # 0 /\ S.cl[c].timeout < S.s.now
    THEN unblockClient(replyToBlockedClientTimedOut(S, c), c) ELSE S

\* The earliest timeout first.  The flag is cleared before the client is unblocked, and the
\* entry removed from the table after it.
RECURSIVE handleBlockedClientsTimeout(_)
handleBlockedClientsTimeout(S) ==
    LET due == {e \in S.timeouts : e[1] < S.s.now}
        e == CHOOSE x \in due : \A y \in due : x[1] <= y[1]
    IN  IF due = {} THEN S
        ELSE handleBlockedClientsTimeout(
               [checkBlockedClientTimeout(Clear(S, e[2], {"IN_TO_TABLE"}), e[2]) EXCEPT !.timeouts = @ \ {e}])

\* WAIT numreplicas timeout: until the replicas have acknowledged the client's last write.
waitCommand(S, c, cmd) ==
    LET n == replicationCountAcksByOffset(S, S.cl[c].woff)
    IN  IF n >= cmd[2] \/ Is(S, c, "MULTI") THEN addReply(S, c, <<"acks", n>>)
        ELSE [blockClient([S EXCEPT !.waiting = <<c>> \o @, !.cl[c].need = cmd[2], !.cl[c].boff = S.cl[c].woff,
                                    !.cl[c].timeout = IF cmd[3] = 0 THEN 0 ELSE S.s.now + cmd[3]], c, "wait")
              EXCEPT !.getack = TRUE]
processClientsWaitingReplicas(S) ==
    LET Serve(a, c) ==
            LET x == a.s.cl[c] n == replicationCountAcksByOffset(a.s, x.boff)
                m == IF a.last # 0 /\ a.last >= x.boff /\ a.n >= x.need THEN a.n ELSE n
            IN  IF m < x.need THEN a
                ELSE [s |-> addReply(unblockClient(a.s, c), c, <<"acks", m>>), last |-> IF m = a.n /\ a.last >= x.boff THEN a.last ELSE x.boff, n |-> m]
    IN  FoldLeft(Serve, [s |-> S, last |-> 0, n |-> 0], S.waiting).s

---------------------------------------------------------------------------
(***************************************************************************)
(* Serving the clients blocked on a key.                                   *)
(***************************************************************************)
\* The array replies of LRANGE, and of KEYS with its length at the end; others are one token.
AddResult(S, c, cmd, r) ==
    IF cmd[1] = "KEYS" THEN addReplyDeferred(S, c, SetToSeq(r))
    ELSE IF cmd[1] = "LRANGE" THEN addReplyArray(S, c, r)
    ELSE addReply(S, c, r)

InDb(S, c) == [S.s EXCEPT !.sel = S.cl[c].db]
\* What a client waiting for the key K receives, <<>> if it is passed over: an element of the
\* list, the members of the sorted set,
serveClientsBlockedOnListKey(S, K, c) ==
    IF K \notin DOMAIN S.s.db THEN <<>> ELSE <<serveClientBlockedOnList(InDb(S, c), S.cl[c].cmd, K[2])>>
serveClientsBlockedOnSortedSetKey(S, K, c) ==
    IF K \notin DOMAIN S.s.db THEN <<>> ELSE <<blockingGenericZpopCommand(InDb(S, c), [S.cl[c].cmd EXCEPT ![2] = <<K[2]>>])>>
\* the entries by which the stream has grown, for a group those it has not had yet; a group
\* that is gone ends the wait,
StreamId(cmd, k) == LET q == IF cmd[1] = "XREAD" THEN cmd[2] ELSE cmd[4] IN q[CHOOSE i \in DOMAIN q : q[i][1] = k][2]
GotEntries(k, q) == <<<<k, [i \in DOMAIN q |-> q[i].id]>>>>
GroupRead(s, st, k, cmd, q, new, z) == Dirty(putStream(s, k, [st EXCEPT !.cg[cmd[2]] = z.g]), GotEntries(k, q), new \o z.p, {})
ReadForGroup(s, st, g, k, cmd, q) ==
    GroupRead(s, st, k, cmd, q,
              IF cmd[3] \notin DOMAIN g.cons /\ cmd[6] THEN <<streamPropagateConsumerCreation(k, cmd[2], cmd[3])>> ELSE <<>>,
              streamReplyWithRange(st, streamCreateConsumer(g, cmd[3]), q, k, cmd[2], cmd[3], cmd[6], s.now))
serveClientsBlockedOnStreamKey(S, K, c) ==
    LET cmd == S.cl[c].cmd k == K[2] s == InDb(S, c) st == Get(s, k).v
        grp == cmd[1] = "XREADGROUP" g == st.cg[cmd[2]]
        gt == IF grp THEN g.last ELSE StreamId(cmd, k)
        n == IF grp THEN cmd[5] ELSE cmd[3]
    IN  IF grp /\ cmd[2] \notin DOMAIN st.cg THEN <<Reply(s, "NOGROUP")>>
        ELSE IF st.last <= gt THEN <<>>
        ELSE IF grp THEN <<ReadForGroup(s, st, g, k, cmd, Upto(n, rangeOf(st, gt + 1, MaxID)))>>
        ELSE <<Reply(s, GotEntries(k, Upto(n, rangeOf(st, gt + 1, MaxID))))>>
\* and an error when the key of an XREADGROUP is gone.
unblockDeletedStreamReadgroupClients(S, K, c) ==
    IF S.cl[c].cmd[1] # "XREADGROUP" THEN <<>> ELSE <<Reply(InDb(S, c), "UNBLOCKED")>>

\* What a client receives is done as its own command, a unit of execution.  A client waiting for
\* a stream that is not served stays the current client.
Serve(S, c, res) ==
    LET cmd == S.cl[c].cmd
    IN  [Boundary(afterCommand(unblockClient(AddResult(Apply([S EXCEPT !.cur = c], c, cmd, res), c, cmd, res.r), c)))
         EXCEPT !.cur = S.cur]
ServeOrPass(S, c, t, q) == IF q # <<>> THEN Serve(S, c, Head(q)) ELSE IF t = "stream" THEN [S EXCEPT !.cur = c] ELSE S
\* The clients waiting for the type of the key, in the order they blocked.
Received(S, K, c, t) ==
    CASE t = "list" -> serveClientsBlockedOnListKey(S, K, c)
      [] t = "zset" -> serveClientsBlockedOnSortedSetKey(S, K, c)
      [] t = "stream" -> serveClientsBlockedOnStreamKey(S, K, c)
      [] t = "deleted" -> unblockDeletedStreamReadgroupClients(S, K, c)
ServeClients(S, K, t) ==
    LET type == IF t = "deleted" THEN "stream" ELSE t
    IN  FoldLeft(LAMBDA T, c : IF T.cl[c].btype # type THEN T ELSE ServeOrPass(T, c, t, Received(T, K, c, t)), S, Fetch(S.blocking, K))

\* The key is looked up; the deletion of an expired one is propagated.
Found(S, K) == K \in DOMAIN S.s.db /\ ~keyIsExpired(S.s, K)
Passes(S, K) ==
    IF ~Found(S, K) THEN <<"deleted">>
    ELSE CASE S.s.db[K].t = "stream" -> <<"stream">>
           [] S.s.db[K].t \in {"list", "zset"} -> <<S.s.db[K].t, "deleted">>
           [] OTHER -> <<"deleted">>
ServedKey(S, found) == IF found THEN S ELSE Boundary(propagatePendingCommands(S))
ServeKey(S, K) == ServedKey(FoldLeft(LAMBDA T, t : ServeClients(T, K, t), S, Passes(S, K)), Found(S, K))
\* Mutant: one pass over the keys that were ready at the start.
handleClientsBlockedOnKeys_Once(S) == [FoldLeft(ServeKey, S, S.ready) EXCEPT !.ready = <<>>]
ServeReadyKey(S, K) == [ServeKey(ApplyExpire([S EXCEPT !.ready = Drop(@, K), !.fixed = TRUE], {K}), K) EXCEPT !.fixed = S.fixed]
\* Serving a client may make other keys ready, which are handled in turn.
RECURSIVE handleClientsBlockedOnKeys(_)
handleClientsBlockedOnKeys(S) ==
    IF S.ready = <<>> THEN S
    ELSE handleClientsBlockedOnKeys(FoldLeft(ServeReadyKey, [Panic(S, "propagation pending", S.also = <<>>) EXCEPT !.ready = <<>>], S.ready))

\* The clients blocked by SHUTDOWN learn that it failed; clients blocked on keys are closed when
\* the server becomes a replica.
replyToClientsBlockedOnShutdown(S) ==
    FoldLeft(LAMBDA T, c : IF T.cl[c].btype = "shutdown" THEN unblockClient(addReply(T, c, "ERR_SHUTDOWN"), c) ELSE T, S, S.clients)
disconnectAllBlockedClients(S) ==
    FoldLeft(LAMBDA T, c : IF ~Is(T, c, "BLOCKED") \/ T.cl[c].btype = "postpone" THEN T
                           ELSE Set(unblockClient(addReply(T, c, "UNBLOCKED"), c), c, {"CLOSE_AFTER_REPLY"}), S, S.clients)
=============================================================================
