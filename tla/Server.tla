------------------------------ MODULE Server ------------------------------
(***************************************************************************)
(* A server and its clients: how a command is accepted and executed        *)
(* (server.c, multi.c), how what a client sends is turned into commands    *)
(* (networking.c) and the event loop around it (server.c, blocked.c).      *)
(*                                                                         *)
(* The steps are those of the event loop: data from one client is read and *)
(* the commands in it executed, the loop goes to sleep, a time event is    *)
(* due.  Only a script that runs for long lets other steps happen in       *)
(* between.  The state is S, the memory of the server, todo, the commands  *)
(* each client has still to send, and scn, the scenario: the programs of   *)
(* the clients, how far the clock goes, what a socket may take at a time,  *)
(* how many commands may arrive together, whether scripts take long, which *)
(* clients may go, whether the replica answers, whether SIGTERM comes.     *)
(***************************************************************************)
EXTENDS Scripts

CONSTANTS
    Scenarios   \* a set of [prog, init, ticks, room, burst, step, close, acks, sigterm]: see scn

VARIABLES S, todo, scn
vars == <<S, todo, scn>>

---------------------------------------------------------------------------
(***************************************************************************)
(* Executing a command.                                                    *)
(***************************************************************************)
\* A script runs to its end, or, where the scenario is about long scripts, step by step.
StartScript(M) == IF M.stepping /\ ~M.inExec THEN M ELSE RunScript(M)

\* The end of call(): what a read makes the client be told of, what follows every command.
RememberRead(M, c, cmd) ==
    IF "READONLY" \notin BaseFlags(cmd) \/ cmd[1] \in RoNames \/ ~Is(M, c, "TRACKING") THEN M
    ELSE IF Is(M, c, "BCAST") THEN Keep(M, c, {y[1] : y \in KeysOf(cmd)})
    ELSE trackingRememberKeys(M, c, {y[1] : y \in KeysOf(cmd)})
Outermost(M) == [IF M.nested = 0 THEN Boundary(M) ELSE M EXCEPT !.pauseTx = @ /\ M.inExec]
AfterCommand(M) == Outermost(afterCommand([M EXCEPT !.fixed = M.nested > 0]))
callEnd(M, c, cmd) ==
    AfterCommand(RememberRead(
      [M EXCEPT !.nested = @ - 1,
                !.cl[c].flags = IF "CLOSE_AFTER_COMMAND" \in @ THEN (@ \ {"CLOSE_AFTER_COMMAND"}) \cup {"CLOSE_AFTER_REPLY"} ELSE @], c, cmd))

RECURSIVE call(_, _, _)
\* The commands of the transaction, each checked again against the ACLs, as one unit.
StillRunning(M, c) == Panic(M, "blocked in a transaction", ~Is(M, c, "BLOCKED"))
CallChecked(M, c, cmd, acl) ==
    IF acl # "ok" THEN addReply(addACLLogEntry(M, c, acl, "multi", FullName(cmd), M.cl[c].user), c, "NOPERM")
    ELSE StillRunning(call([M EXCEPT !.cl[c].cmd = cmd], c, cmd), c)
ExecQueued(M, c) ==
    FoldLeft(LAMBDA P, cmd : CallChecked(P, c, cmd, ACLCheckAllUserCommandPerm(P.users[P.cl[c].user], cmd)), M, M.cl[c].mq)
Executing(M, c) == [addReplyArrayLen(unwatchAllKeys(Set(M, c, {"DENY_BLOCKING"}), c), c, Len(M.cl[c].mq)) EXCEPT !.inExec = TRUE]
ExecWatched(M, c, stale) ==
    IF Is(M, c, "DIRTY_EXEC") THEN discardTransaction(addReply(M, c, "EXECABORT"), c)
    ELSE IF Is(M, c, "DIRTY_CAS") THEN discardTransaction(addReply(M, c, Nil), c)
    ELSE [discardTransaction(Clear(ExecQueued(Executing([M EXCEPT !.stale = @ \cup stale], c), c), c, {"DENY_BLOCKING"}), c)
            EXCEPT !.cl[c].cmd = M.cl[c].cmd, !.inExec = FALSE]
execCommand(M, c) ==
    LET x == M.cl[c]
        stale == \E i \in DOMAIN x.watched : Logical(M, x.watched[i].K) # x.watched[i].val
    IN  IF "MULTI" \notin x.flags THEN addReply(M, c, "ERR_NO_MULTI")
        ELSE ExecWatched(IF isWatchedKeyExpired(M, c) THEN Set(M, c, {"DIRTY_CAS"}) ELSE M, c, IF stale THEN {c} ELSE {})

\* The function of a command.
Handler(M, c, cmd) ==
    CASE cmd[1] \in DataNames -> DataCommand(M, c, cmd)
      [] cmd[1] = "PING" -> addReply(M, c, "PONG")
      [] cmd[1] = "MULTI" -> multiCommand(M, c)
      [] cmd[1] = "EXEC" -> execCommand(M, c)
      [] cmd[1] = "DISCARD" -> discardCommand(M, c)
      [] cmd[1] = "WATCH" -> watchCommand(M, c, cmd[2])
      [] cmd[1] = "UNWATCH" -> unwatchCommand(M, c)
      [] cmd[1] = "SUBSCRIBE" -> subscribeCommand(M, c, cmd[2])
      [] cmd[1] = "UNSUBSCRIBE" -> unsubscribeCommand(M, c, cmd[2])
      [] cmd[1] = "PSUBSCRIBE" -> psubscribeCommand(M, c, cmd[2])
      [] cmd[1] = "PUNSUBSCRIBE" -> punsubscribeCommand(M, c, cmd[2])
      [] cmd[1] = "SSUBSCRIBE" -> ssubscribeCommand(M, c, cmd[2])
      [] cmd[1] = "SUNSUBSCRIBE" -> sunsubscribeCommand(M, c, cmd[2])
      [] cmd[1] \in {"PUBLISH", "SPUBLISH"} -> publishCommand(M, c, cmd)
      [] cmd[1] = "PUBSUB" -> pubsubCommand(M, c, cmd[2], cmd[3])
      [] cmd[1] = "CLIENT" -> clientCommand(M, c, cmd)
      [] cmd[1] = "HELLO" -> helloCommand(M, c, cmd[2], cmd[3], cmd[4])
      [] cmd[1] = "AUTH" -> authCommand(M, c, cmd[2], cmd[3])
      [] cmd[1] = "RESET" -> resetCommand(M, c)
      [] cmd[1] = "QUIT" -> quitCommand(M, c)
      [] cmd[1] = "ACL" -> aclCommand(M, c, cmd)
      [] cmd[1] = "WAIT" -> waitCommand(M, c, cmd)
      [] cmd[1] = "SHUTDOWN" -> shutdownCommand(M, c, cmd[2])
      [] cmd[1] \in EvalNames \cup FcallNames ->
           StartScript(IF cmd[1] \in EvalNames THEN evalGenericCommand(M, c, cmd) ELSE fcallCommandGeneric(M, c, cmd))
      [] cmd[1] = "SCRIPT" -> scriptCommand(M, c, cmd)
      [] cmd[1] = "FUNCTION" -> functionCommand(M, c, cmd)
Begun(M, N) == M.script = Nil /\ N.script # Nil
CallReturns(M, N, c, cmd) == IF Begun(M, N) THEN N ELSE callEnd(N, c, cmd)
call(M, c, cmd) == CallReturns(M, Handler([M EXCEPT !.nested = @ + 1, !.fixed = TRUE], c, cmd), c, cmd)

---------------------------------------------------------------------------
(***************************************************************************)
(* Accepting a command.                                                    *)
(***************************************************************************)
\* An error, which also spoils the transaction the command belongs to.
rejectCommand(M, c, e) ==
    IF M.cl[c].cmd[1] = "EXEC" THEN execCommandAbort(flagTransaction(M, c), c) ELSE addReply(flagTransaction(M, c), c, e)
authRequired(M, c) == ~(M.users["default"].nopass /\ M.users["default"].on) /\ ~M.cl[c].auth
isInsideYieldingLongCommand(M) == M.script # Nil /\ M.script.timedout

PubSubNames == {"PING", "SUBSCRIBE", "SSUBSCRIBE", "UNSUBSCRIBE", "SUNSUBSCRIBE", "PSUBSCRIBE", "PUNSUBSCRIBE", "QUIT", "RESET"}
\* The command is executed, and what it made ready is handed to the clients waiting for it.
ServeReady(M) == IF M.ready = <<>> THEN M ELSE handleClientsBlockedOnKeys(M)
AfterCall(M, c) == ServeReady([M EXCEPT !.cl[c].woff = M.off])
Called(M, N, c) == IF Begun(M, N) THEN N ELSE AfterCall(N, c)
CallOrQueue(M, c, cmd, flags) ==
    IF Is(M, c, "MULTI") /\ cmd[1] \notin {"EXEC", "DISCARD", "MULTI", "WATCH", "QUIT", "RESET"}
    THEN addReply(queueMultiCommand(M, c, cmd, flags), c, "QUEUED")
    ELSE Called(M, call(M, c, cmd), c)

\* Mutant: only commands that write data wait for the end of a pause of writes.
Postponed_WritesOnly(M, F) == M.pauseType = "ALL" \/ (M.pauseType = "WRITE" /\ "WRITE" \in F)
Postponed(M, F) == M.pauseType = "ALL" \/ (M.pauseType = "WRITE" /\ F \cap {"WRITE", "MAY_REPLICATE"} # {})
\* The checks from the memory of the data on.
FlagsOf(M, c, cmd, flags) == flags \cup (IF cmd[1] = "EXEC" THEN M.cl[c].mqflags ELSE {})
Mutable(M, c, cmd, flags) ==
    LET F == FlagsOf(M, c, cmd, flags)
        writes == "WRITE" \in F
        denied == CASE "MISCONF" \in M.deny /\ (writes \/ cmd[1] = "PING") -> "MISCONF"
                    [] "NOREPLICAS" \in M.deny /\ writes -> "NOREPLICAS"
                    [] Is(M, c, "PUBSUB") /\ M.cl[c].resp = 2 /\ cmd[1] \notin PubSubNames -> "ERR_PUBSUB"
                    [] isInsideYieldingLongCommand(M) /\ "ALLOW_BUSY" \notin flags -> "BUSY"
                    [] OTHER -> Nil
    IN  IF denied # Nil THEN rejectCommand(M, c, denied)
        ELSE IF Postponed(M, F) THEN blockClient([M EXCEPT !.cl[c].timeout = 0], c, "postpone")
        ELSE CallOrQueue(M, c, cmd, flags)

\* The memory of the server: what is left when keys have been evicted decides.
RejectsOom(M, c, cmd, flags) ==
    "DENYOOM" \in FlagsOf(M, c, cmd, flags) \/ (Is(M, c, "MULTI") /\ cmd[1] \notin {"EXEC", "DISCARD", "QUIT", "RESET"})
Limited(M) == IF \E d \in ClientIds : Is(M, d, "TRACKING") THEN trackingLimitUsedSlots(M) ELSE M
Freed(M, oom, rejects) == [s |-> [M EXCEPT !.oom = IF oom /\ rejects THEN @ ELSE oom], deny |-> oom /\ rejects]
EvictedFor(e, rejects) == Freed(trackingHandlePendingKeyInvalidations(e.s), e.r = "FAIL", rejects)
BelowMaxmemory(M, c, cmd, flags) ==
    IF M.maxmem = 0 \/ isInsideYieldingLongCommand(M) THEN [s |-> M, deny |-> FALSE]
    ELSE EvictedFor(performEvictions(M), RejectsOom(M, c, cmd, flags))
Admitted(f, c, cmd, flags) == IF f.deny THEN rejectCommand(f.s, c, "OOM") ELSE Mutable(Limited(f.s), c, cmd, flags)
WithMemory(M, c, cmd, flags) == IF M.cur = Nil THEN M ELSE Admitted(BelowMaxmemory(M, c, cmd, flags), c, cmd, flags)

\* Who may execute it.
Allowed(M, c, cmd, flags, acl) ==
    IF acl = "ok" THEN WithMemory(evictClients(M), c, cmd, flags)
    ELSE rejectCommand(addACLLogEntry(M, c, acl, Context(M, c), FullName(cmd), M.cl[c].user), c, "NOPERM")
Authorized(M, c, cmd, flags) ==
    IF authRequired(M, c) /\ "NO_AUTH" \notin flags THEN rejectCommand(M, c, "NOAUTH")
    ELSE IF Is(M, c, "MULTI") /\ "NO_MULTI" \in flags THEN rejectCommand(M, c, "ERR_NO_MULTI")
    ELSE Allowed(M, c, cmd, flags, ACLCheckAllUserCommandPerm(M.users[M.cl[c].user], cmd))
processCommand(M, c) ==
    Authorized(Panic(M, "a transaction or a script is running", isInsideYieldingLongCommand(M) \/ (~M.inExec /\ M.script = Nil)),
               c, M.cl[c].cmd, getCommandFlags(M, M.cl[c].cmd))

---------------------------------------------------------------------------
(***************************************************************************)
(* From the query buffer to commands.  [s, st]: st is dead when the client *)
(* is gone, running when a script has started and goes on.                 *)
(***************************************************************************)
commandProcessed(M, c) == IF Is(M, c, "BLOCKED") THEN M ELSE resetClient(M, c)
Processed(M, c, old) ==
    [updateClientMemUsageAndBucket(commandProcessed(M, c), c) EXCEPT !.cur = old]
CommandResult(M, N, c) ==
    IF Begun(M, N) THEN [s |-> N, st |-> "running"]
    ELSE IF N.cur = Nil THEN [s |-> [N EXCEPT !.cur = M.cur], st |-> "dead"]
    ELSE [s |-> Processed(N, c, M.cur), st |-> "ok"]
processCommandAndResetClient(M, c) == CommandResult(M, processCommand([M EXCEPT !.cur = c], c), c)
\* The command that was postponed, if there is one, and those of the query buffer.
RECURSIVE ProcessCommands(_, _, _)
GoOn(r, c) == IF r.st = "ok" THEN ProcessCommands(r.s, c, FALSE) ELSE r
ProcessCommands(M, c, pending) ==
    LET x == M.cl[c]
        Parsed == [M EXCEPT !.cl[c].cmd = Head(x.qb), !.cl[c].qb = Tail(@), !.cl[c].n = @ + 1]
    IN  IF ~pending /\ (x.qb = <<>> \/ x.flags \cap {"BLOCKED", "PENDING_COMMAND", "CLOSE_AFTER_REPLY", "CLOSE_ASAP"} # {})
        THEN [s |-> updateClientMemUsageAndBucket(M, c), st |-> "ok"]
        ELSE GoOn(processCommandAndResetClient(IF pending THEN Clear(M, c, {"PENDING_COMMAND"}) ELSE Parsed, c), c)
processInputBuffer(M, c) == ProcessCommands(M, c, FALSE)
processPendingCommandAndInputBuffer(M, c) ==
    LET pending == Is(M, c, "PENDING_COMMAND")
    IN  IF pending \/ M.cl[c].qb # <<>> THEN ProcessCommands(M, c, pending) ELSE [s |-> M, st |-> "ok"]

Close(r, c) == IF r.st = "ok" THEN beforeNextClient(r.s, c) ELSE r.s
RECURSIVE processUnblockedClients(_)
processUnblockedClients(M) ==
    LET c == Head(M.unblocked)
        N == Clear([M EXCEPT !.unblocked = Tail(@)], c, {"UNBLOCKED"})
    IN  IF M.unblocked = <<>> THEN M
        ELSE processUnblockedClients(IF Is(N, c, "BLOCKED") THEN N ELSE Close(processPendingCommandAndInputBuffer(N, c), c))

---------------------------------------------------------------------------
(***************************************************************************)
(* The event loop.                                                         *)
(***************************************************************************)
sendGetackToReplicas(M) == [M EXCEPT !.off = @ + 1, !.getack = FALSE]
AskUnpaused(M) == IF areClientsPaused(M) THEN M ELSE sendGetackToReplicas(M)
GetAck(M) == IF M.getack THEN AskUnpaused(checkClientPauseTimeoutAndReturnIfPaused(M)) ELSE M
ServeBlocked(M) == handleClientsBlockedOnKeys(trackingBroadcastInvalidationMessages(Panic(M, "invalidations pending", M.pendk = <<>>)))
WriteAndFree(M, room) == freeClientsInAsyncFreeQueue(handleClientsWithPendingWrites(M, room))
\* Before the loop goes to sleep; a script that lets the loop run has most of it wait.
beforeSleep(M, room) ==
    IF M.script # Nil THEN WriteAndFree(M, room)
    ELSE evictClients(WriteAndFree(ServeBlocked(GetAck(
           processUnblockedClients(processClientsWaitingReplicas(handleBlockedClientsTimeout(M))))), room))

\* A sample of the expired keys goes, each on its own.
ActiveExpireCycle(M, keys) ==
    LET B == [Panic(M, "propagation pending", M.also = <<>>) EXCEPT !.noMulti = TRUE]
    IN  [Boundary(propagatePendingCommands(ApplyExpire(B, keys))) EXCEPT !.noMulti = FALSE]
ExpireUnpaused(M, keys) == IF areClientsPaused(M) THEN M ELSE ActiveExpireCycle(M, keys)
ActiveExpire(M, keys) == ExpireUnpaused(checkClientPauseTimeoutAndReturnIfPaused(M), keys)

Measured(M, c, allowed) == IF allowed THEN M ELSE updateClientMemoryUsage(M, c)
ClientCron(M, c) ==
    closeClientOnOutputBufferLimitReached(Measured(updateClientMemUsageAndBucket(M, c), c, clientEvictionAllowed(M, c)), c)
clientsCron(M) == FoldLeft(ClientCron, M, M.clients)

\* A shutdown that waits goes on once the replica has caught up or time is up.
ShutdownCron(M) ==
    IF M.shut.asap /\ ~isShutdownInitiated(M) THEN [prepareForShutdown(M, FALSE, FALSE) EXCEPT !.shut.asap = FALSE]
    ELSE IF isShutdownInitiated(M) /\ (M.s.now >= M.shut.at \/ isReadyToShutdown(M)) THEN finishShutdown(M) ELSE M
CronRest(M, keys) ==
    IF M.exited THEN M ELSE trackingLimitUsedSlots(checkClientPauseTimeoutAndReturnIfPaused(ActiveExpire(clientsCron(M), keys)))
serverCron(M, keys) == CronRest(ShutdownCron(M), keys)

\* A script that has run for long: other clients are heard, until it ends.
ScriptEnds(M, caller, cmd) ==
    Close(processInputBuffer(Processed(AfterCall(callEnd(luaCallFunctionEnd(M), caller, cmd), caller), caller, Nil), caller), caller)
ScriptGoesOn(M, c) == IF M.script.rest = <<>> THEN ScriptEnds(M, c, M.cl[c].cmd) ELSE scriptCall(M)

---------------------------------------------------------------------------
(***************************************************************************)
(* The steps.                                                              *)
(***************************************************************************)
\* What a step shows to the replica is compared with what was reached between two commands.
Fresh == [S EXCEPT !.done = {Snapshot(S.s)}]
Awake == ~S.exited /\ (S.script # Nil => S.script.timedout)
Idle0 == ~S.exited /\ S.script = Nil
Do(M) == S' = Receive(M)
To(M) == Do(M) /\ S' # S

readQueryFromClient(c, k) ==
    /\ Awake /\ S.cl[c].conn /\ ~Is(S, c, "PROTECTED") /\ k \in 1..Len(todo[c])
    /\ LET M == [Fresh EXCEPT !.cl[c].qb = @ \o SubSeq(todo[c], 1, k), !.stepping = scn.step /\ S.script = Nil]
       IN  Do([Close(processInputBuffer(M, c), c) EXCEPT !.stepping = FALSE])
    /\ todo' = [todo EXCEPT ![c] = SubSeq(@, k + 1, Len(@))]
    /\ UNCHANGED scn

\* The client closes the connection.
ReadEof(c) ==
    /\ Awake /\ S.cl[c].conn /\ ~Is(S, c, "PROTECTED") /\ c \in scn.close
    /\ S' = beforeNextClient(freeClientAsync(S, c), c)
    /\ todo' = [todo EXCEPT ![c] = <<>>]
    /\ UNCHANGED scn

sendReplyToClient(c, room) ==
    /\ Awake /\ S.cl[c].conn /\ Is(S, c, "WRITE_HANDLER") /\ ~Is(S, c, "PROTECTED")
    /\ S' = writeToClient(S, c, room) /\ S' # S
    /\ UNCHANGED <<todo, scn>>

BeforeSleep(room) == Awake /\ To(beforeSleep(Fresh, room)) /\ UNCHANGED <<todo, scn>>

ServerCron(keys) == Idle0 /\ To(serverCron(Fresh, keys)) /\ UNCHANGED <<todo, scn>>
EvictionTimeProc == Idle0 /\ S.evictProc /\ To(evictionTimeProc(Fresh)) /\ UNCHANGED <<todo, scn>>

\* Time passes.
Tick == ~S.exited /\ S.s.now < scn.ticks /\ S' = [S EXCEPT !.s.now = @ + 1] /\ UNCHANGED <<todo, scn>>

\* The replica acknowledges what it has; what decides between random choices changes.
ReplicaAck == ~S.exited /\ scn.acks /\ S.ack < S.off /\ S' = [S EXCEPT !.ack = S.off] /\ UNCHANGED <<todo, scn>>
\* A shard channel's slot is given to another node.
SlotLost(ch) == Idle0 /\ ch \in DOMAIN S.ps.shard /\ S.clusterEnabled /\ S' = pubsubShardUnsubscribeAllClients(S, ch) /\ UNCHANGED <<todo, scn>>
\* SIGTERM.
SigShutdown == Idle0 /\ scn.sigterm /\ ~S.shut.asap /\ ~isShutdownInitiated(S) /\ S' = [S EXCEPT !.shut.asap = TRUE] /\ UNCHANGED <<todo, scn>>

ScriptStep ==
    /\ ~S.exited /\ S.script # Nil
    /\ Do(ScriptGoesOn(scriptInterrupt(Fresh), S.script.caller))
    /\ UNCHANGED <<todo, scn>>
ScriptTimeout ==
    ~S.exited /\ S.script # Nil /\ ~S.script.timedout /\ S' = enterScriptTimedoutMode(S) /\ UNCHANGED <<todo, scn>>

\* initServer: no data and no clients.
initServer ==
    [s |-> NewServer("master"), rep |-> NewServer("replica"), off |-> 0, ack |-> 0, also |-> <<>>, noMulti |-> FALSE,
     clients |-> <<>>, cl |-> <<>>, toClose |-> <<>>, pendw |-> <<>>, unblocked |-> <<>>, postponed |-> <<>>, cur |-> Nil,
     watched |-> <<>>, blocking |-> <<>>, ready |-> <<>>, timeouts |-> {}, waiting |-> <<>>, getack |-> FALSE,
     ps |-> [chan |-> <<>>, shard |-> <<>>, pat |-> <<>>], slots |-> {}, clusterEnabled |-> FALSE,
     tt |-> <<>>, pt |-> <<>>, pendk |-> <<>>, fixed |-> FALSE, nested |-> 0, inExec |-> FALSE,
     pause |-> <<>>, pauseType |-> "OFF", pauseEnd |-> 0, pauseTx |-> FALSE,
     cmem |-> [normal |-> 0, pubsub |-> 0], buckets |-> [b \in 1..MemBuckets |-> [sum |-> 0, cls |-> <<>>]], maxClientMem |-> 0,
     users |-> ("default" :> ACLCreateDefaultUser), aclfile |-> <<>>, acllog |-> <<>>,
     shut |-> [at |-> 0, asap |-> FALSE, force |-> FALSE], shutTimeout |-> 0, saveFails |-> FALSE, exited |-> FALSE,
     maxmem |-> 0, policy |-> [all |-> TRUE, by |-> "none"], lru |-> <<>>, pool |-> <<>>, evictProc |-> FALSE, evicted |-> {},
     nextDb |-> 0, slow |-> FALSE, oom |-> FALSE, deny |-> {},
     script |-> Nil, stepping |-> FALSE, scripts |-> {}, libs |-> <<>>, funs |-> <<>>,
     panic |-> {}, stale |-> {}, torn |-> FALSE, stream |-> <<>>, done |-> {}]

Init ==
    \E x \in Scenarios :
      /\ scn = Restrict(x, DOMAIN x \ {"init"})
      /\ todo = x.prog
      /\ S = LET M == x.init @@ initServer
                 q == SetToSeq({c \in ClientIds : x.prog[c] # <<>>})
             IN  [M EXCEPT !.clients = q, !.cl = [c \in ClientIds |-> [NewClient EXCEPT !.conn = Contains(q, c), !.auth = M.users["default"].nopass]]]

Expired == {K \in DOMAIN S.s.ex : keyIsExpired(S.s, K)}
Next ==
    \/ \E c \in ClientIds :
         \/ \E k \in 1..scn.burst : readQueryFromClient(c, k)
         \/ ReadEof(c)
         \/ \E room \in scn.room : sendReplyToClient(c, room)
    \/ \E room \in scn.room : BeforeSleep(room)
    \/ \E keys \in {{}, Expired} : ServerCron(keys)
    \/ EvictionTimeProc
    \/ Tick
    \/ ReplicaAck
    \/ \E ch \in DOMAIN S.ps.shard : SlotLost(ch)
    \/ SigShutdown
    \/ ScriptStep
    \/ ScriptTimeout
Spec == Init /\ [][Next]_vars

---------------------------------------------------------------------------
(***************************************************************************)
(* Properties.                                                             *)
(***************************************************************************)
\* No assertion of the code fails: nothing is propagated while clients are paused (propagateNow),
\* no client blocks inside a transaction (execCommand), no command starts inside a transaction or
\* a script (processCommand), no invalidation or propagation is left over (beforeSleep).
AssertionsHold == S.panic = {}

\* A transaction, a script, a command with several effects and the service of a blocked client
\* each reach the replica as a whole: the replica only shows states that the master had between
\* two of them (propagatePendingCommands), and ends with the data of the master.
PropagatedAtomically ==
    /\ ~S.torn
    /\ S.script = Nil => S.also = <<>> /\ Snapshot(S.rep) = Snapshot(S.s)

\* A transaction runs only if the keys it watches are as they were when they were watched,
\* whatever changed them: other clients, FLUSHALL, SWAPDB, expiration (touchWatchedKey).
WatchIsolation == S.stale = {}

\* A client that waits for a key does not wait while the key could serve it: the change that
\* made it ready has been noticed (signalKeyAsReady, handleClientsBlockedOnKeys).
CanServe(c, k) ==
    LET x == S.cl[c] K == <<x.db, k>>
        st == S.s.db[K].v
        after == IF x.cmd[1] = "XREAD" THEN StreamId(x.cmd, k)
                 ELSE IF x.cmd[2] \in DOMAIN st.cg THEN st.cg[x.cmd[2]].last ELSE -1
    IN  K \in DOMAIN S.s.db /\ ~keyIsExpired(S.s, K) /\ S.s.db[K].t = x.btype /\ (x.btype = "stream" => st.last > after)
NoLostWakeup ==
    S.script = Nil => \A c \in ClientIds : \A i \in DOMAIN S.cl[c].bkeys : ~CanServe(c, S.cl[c].bkeys[i])


\* Replies arrive in the order of the commands, each complete, with messages only between them,
\* whatever the sizes of the buffers and of what the socket takes (_addReplyToBufferOrList,
\* setDeferredReply, _writevToClient); every command that was executed has its reply.  (What
\* subscriptions and CLIENT REPLY SKIP answer, if anything, are messages or errors.)
Unsent(x) == LET q == FlattenSeq(<<x.buf>> \o [i \in DOMAIN x.reply |-> x.reply[i].toks]) IN SubSeq(q, x.sent + 1, Len(q))
Skips(cmd) == cmd[1] = "CLIENT" /\ cmd[2] = "REPLY" /\ cmd[3] = "SKIP"
Silent(q, i) == q[i][1] \in PubSubNames \ {"PING", "QUIT", "RESET"} \/ Skips(q[i]) \/ (i > 1 /\ Skips(q[i - 1]))
ReadReplies(q) ==
    FoldLeft(LAMBDA a, t :
               IF t.i = 0 THEN [a EXCEPT !.ok = @ /\ a.left = 0]
               ELSE IF a.left = 0 THEN [a EXCEPT !.left = t.n, !.is = Append(@, t.i)]
               ELSE [a EXCEPT !.ok = @ /\ t.i = Last(a.is), !.left = @ - 1 + t.n],
             [ok |-> TRUE, left |-> 0, is |-> <<>>], q)
InProgress(c) == S.cl[c].flags \cap {"BLOCKED", "PENDING_COMMAND"} # {} \/ (S.script # Nil /\ S.script.caller = c)
RepliesInOrder ==
    \A c \in ClientIds :
      LET x == S.cl[c]
          a == ReadReplies(x.rcv \o Unsent(x))
          last == IF InProgress(c) THEN x.n - 1 ELSE x.n
          Speaks(i) == ~Silent(scn.prog[c], i)
          heard == SelectSeq(a.is, Speaks)
          due == SelectSeq([i \in 1..last |-> i], Speaks)
      IN  /\ a.ok
          /\ \A i, j \in DOMAIN a.is : i < j => a.is[i] < a.is[j]
          /\ IF x.conn /\ ~Is(S, c, "CLOSE_ASAP") THEN a.left = 0 /\ heard = due ELSE IsPrefix(heard, due)

\* The tables of the server and the records of the clients agree, and no table names a client
\* that is gone (freeClient, resetCommand): watched and blocking keys, subscriptions and the slots
\* of shard channels, prefixes, queues, timeouts, users, memory; the functions are those of the
\* libraries.
Listed(f, c) == {k \in DOMAIN f : Contains(f[k], c)}
SameClients(q, f) == IsInjective(q) /\ \A c \in ClientIds : Contains(q, c) <=> Is(S, c, f)
NoDangling ==
    /\ \A c \in ClientIds :
         LET x == S.cl[c]
         IN  /\ Listed(S.watched, c) = {x.watched[i].K : i \in DOMAIN x.watched}
             /\ Listed(S.blocking, c) = {<<x.db, x.bkeys[i]>> : i \in DOMAIN x.bkeys}
             /\ \A t \in DOMAIN S.ps : Listed(S.ps[t], c) = x.subs[t]
             /\ {p \in DOMAIN S.pt : c \in S.pt[p].cls} = x.prefixes
             /\ {e \in S.timeouts : e[2] = c} = IF Is(S, c, "IN_TO_TABLE") THEN {<<x.timeout, c>>} ELSE {}
             /\ Contains(S.waiting, c) <=> x.btype = "wait"
             /\ Contains(S.postponed, c) <=> x.btype = "postpone"
             /\ Is(S, c, "BLOCKED") <=> x.btype # "none"
             /\ x.conn => x.user \in DOMAIN S.users
             /\ x.watched # <<>> /\ Is(S, c, "MULTI") => x.conn
             /\ ~x.conn => x = [NewClient EXCEPT !.conn = FALSE, !.n = x.n, !.rcv = x.rcv]
    /\ \A f \in {S.watched, S.blocking, S.ps.chan, S.ps.shard, S.ps.pat} : <<>> \notin Range(f)
    /\ \A p \in DOMAIN S.pt : S.pt[p].cls # {}
    /\ SameClients(S.pendw, "PENDING_WRITE") /\ SameClients(S.unblocked, "UNBLOCKED") /\ SameClients(S.toClose, "CLOSE_ASAP")
    /\ S.slots = IF S.clusterEnabled THEN DOMAIN S.ps.shard ELSE {}
    /\ \A t \in DOMAIN S.cmem : S.cmem[t] = FoldSet(LAMBDA c, n : n + (IF S.cl[c].conn /\ S.cl[c].mtype = t THEN S.cl[c].mem ELSE 0), 0, ClientIds)
    /\ \A b \in DOMAIN S.buckets :
         /\ ToSet(S.buckets[b].cls) = {c \in ClientIds : S.cl[c].bucket = b}
         /\ S.buckets[b].sum = FoldLeft(LAMBDA n, c : n + S.cl[c].mem, 0, S.buckets[b].cls)
    /\ DOMAIN S.funs = UNION {DOMAIN LibCode[S.libs[lib]].funs : lib \in DOMAIN S.libs}
    /\ \A f \in DOMAIN S.funs : S.funs[f].lib \in DOMAIN S.libs

\* While a script runs nothing but its own commands changes the data, also when other clients
\* are served because it takes long; a script that was killed has changed nothing (scriptKill).
ScriptAtomic ==
    S.script # Nil => Snapshot(S.s) = S.script.data /\ (S.script.killed => S.script.data = S.script.start)

\* A client listens only to channels its user may access: it is closed, or will be before the
\* event loop goes on, when the rules of the user change, the user is deleted or the users
\* are loaded again (ACLKillPubsubClientsIfNeeded, ACLFreeUserAndKillClients).
SubscriptionsAllowed ==
    \A c \in ClientIds :
      LET x == S.cl[c] u == S.users[x.user]
      IN  x.conn /\ x.flags \cap {"CLOSE_ASAP", "CLOSE_AFTER_COMMAND", "CLOSE_AFTER_REPLY"} = {} =>
            /\ \A ch \in x.subs.chan \cup x.subs.shard : ACLUserCheckChannelPerm(u, ch, FALSE)
            /\ \A p \in x.subs.pat : ACLUserCheckChannelPerm(u, p, TRUE)
=============================================================================
