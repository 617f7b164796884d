------------------------------ MODULE Sessions ------------------------------
(***************************************************************************)
(* The life of a connection (networking.c): closing it, evicting it,       *)
(* pausing all of them, the commands CLIENT, HELLO, RESET and QUIT, the    *)
(* shutdown of the server (server.c) and the users (acl.c).                *)
(*                                                                         *)
(* S.pause holds the pauses by purpose, S.pauseType and S.pauseEnd the one *)
(* in force; S.shut is [at, asap]: until when a shutdown waits for the     *)
(* replica (0: none) and whether one was asked for by a signal.            *)
(***************************************************************************)
EXTENDS Blocking

CONSTANTS
    AclLogMax,   \* acllog-max-len
    Forever      \* a time that is never reached

---------------------------------------------------------------------------
(***************************************************************************)
(* Pausing clients.                                                        *)
(***************************************************************************)
PauseRank(t) == CASE t = "OFF" -> 0 [] t = "WRITE" -> 1 [] t = "ALL" -> 2
Strongest(T) == CHOOSE t \in T \cup {"OFF"} : \A u \in T : PauseRank(u) <= PauseRank(t)

unblockPostponedClients(S) == FoldLeft(unblockClient, S, S.postponed)
updateClientPauseTypeAndEndTime(S) ==
    LET live == {p \in DOMAIN S.pause : S.pause[p].end >= S.s.now}
        type == Strongest({S.pause[p].type : p \in live})
        T == [S EXCEPT !.pause = Restrict(@, live), !.pauseType = type,
                       !.pauseEnd = Max({0} \cup {S.pause[p].end : p \in {q \in live : S.pause[q].type = type}})]
    IN  IF PauseRank(type) < PauseRank(S.pauseType) THEN unblockPostponedClients(T) ELSE T
\* A second pause for the same purpose never weakens or shortens the first.
PauseTx(S) == IF S.inExec THEN [S EXCEPT !.pauseTx = TRUE] ELSE S
pauseClients(S, purpose, end, type) ==
    LET old == IF purpose \in DOMAIN S.pause THEN S.pause[purpose] ELSE [type |-> "OFF", end |-> 0]
        new == [type |-> Strongest({type, old.type}), end |-> Max({end, old.end})]
    IN  PauseTx(updateClientPauseTypeAndEndTime([S EXCEPT !.pause = (purpose :> new) @@ @]))
unpauseClients(S, purpose) ==
    IF purpose \notin DOMAIN S.pause THEN S
    ELSE updateClientPauseTypeAndEndTime([S EXCEPT !.pause = Restrict(@, DOMAIN @ \ {purpose})])
checkClientPauseTimeoutAndReturnIfPaused(S) ==
    IF areClientsPaused(S) /\ S.pauseEnd < S.s.now THEN updateClientPauseTypeAndEndTime(S) ELSE S

---------------------------------------------------------------------------
(***************************************************************************)
(* Closing connections.                                                    *)
(***************************************************************************)
unlinkClient(S, c) ==
    LET T == [S EXCEPT !.cur = IF @ = c THEN Nil ELSE @, !.clients = Drop(@, c), !.pendw = Drop(@, c), !.unblocked = Drop(@, c)]
        U == Clear(T, c, {"PENDING_WRITE", "UNBLOCKED"})
    IN  IF Is(U, c, "TRACKING") THEN disableTracking(U, c) ELSE U

UnsubscribeAll(S, c) ==
    pubsubUnsubscribeAllPatterns(
      pubsubUnsubscribeAllChannelsInternal(pubsubUnsubscribeAllChannelsInternal(S, c, FALSE, "chan"), c, FALSE, "shard"), c, FALSE)

\* No longer waiting to be closed, nor blocked.
Released(S, c) ==
    LET T == IF Is(S, c, "CLOSE_ASAP") THEN [S EXCEPT !.toClose = Drop(@, c)] ELSE S
    IN  IF Is(T, c, "BLOCKED") THEN unblockClient(T, c) ELSE T
\* The memory is no longer counted and the record is gone, but for what the client has received.
Forgotten(S, c) ==
    LET Gone(T) == [T EXCEPT !.cl[c] = [NewClient EXCEPT !.conn = FALSE, !.n = T.cl[c].n, !.rcv = T.cl[c].rcv]]
    IN  Gone(removeClientFromMemUsageBucket([S EXCEPT !.cmem[S.cl[c].mtype] = @ - S.cl[c].mem], c, FALSE))
\* Mutant: the keys a client watches are left in the table when it goes.
freeClient_KeepsWatched(S, c) ==
    IF Is(S, c, "PROTECTED") THEN freeClientAsync(S, c)
    ELSE Forgotten(unlinkClient(UnsubscribeAll(Released(S, c), c), c), c)
\* Everything that refers to the client is undone.
freeClient(S, c) ==
    IF Is(S, c, "PROTECTED") THEN freeClientAsync(S, c)
    ELSE Forgotten(unlinkClient(UnsubscribeAll(unwatchAllKeys(Released(S, c), c), c), c), c)

beforeNextClient(S, c) == IF Is(S, c, "CLOSE_ASAP") THEN freeClient(S, c) ELSE S
freeClientsInAsyncFreeQueue(S) ==
    FoldLeft(LAMBDA T, c : IF Is(T, c, "PROTECTED") THEN T
                           ELSE [freeClient(Clear(T, c, {"CLOSE_ASAP"}), c) EXCEPT !.toClose = Drop(@, c)], S, S.toClose)

\* A protected client is neither closed nor read from nor written to.
protectClient(S, c) == Set(S, c, {"PROTECTED"})
unprotectClient(S, c) ==
    LET T == Clear(S, c, {"PROTECTED"})
    IN  IF Is(S, c, "PROTECTED") /\ clientHasPendingReplies(T, c) THEN putClientInPendingWriteQueue(T, c) ELSE T

\* The clients that use most memory go until the others are within the limit: the highest
\* bucket first, and within it the one that entered it first.
getClientEvictionLimit(S) == S.maxClientMem
evictClients(S) ==
    LET over(T) == getClientEvictionLimit(S) # 0 /\ T.cmem.normal + T.cmem.pubsub >= getClientEvictionLimit(S)
        order == FlattenSeq([i \in 1..MemBuckets |-> S.buckets[MemBuckets + 1 - i].cls])
    IN  FoldLeft(LAMBDA T, c : IF over(T) THEN freeClient(T, c) ELSE T, S, order)

---------------------------------------------------------------------------
(***************************************************************************)
(* The commands on connections.                                            *)
(***************************************************************************)
clientSetDefaultAuth(S, c) ==
    [S EXCEPT !.cl[c].user = "default", !.cl[c].auth = S.users["default"].nopass /\ S.users["default"].on]
clearClientConnectionState(S, c) ==
    LET T == IF Is(S, c, "TRACKING") THEN disableTracking(S, c) ELSE S
        U == clientSetDefaultAuth([T EXCEPT !.cl[c].db = 0, !.cl[c].resp = 2, !.cl[c].name = Nil], c)
    IN  Clear(UnsubscribeAll(discardTransaction(U, c), c), c, {"ASKING", "READONLY", "PUBSUB", "REPLY_OFF", "REPLY_SKIP_NEXT"})
resetCommand(S, c) == addReply(clearClientConnectionState(S, c), c, "RESET")
quitCommand(S, c) == Set(addReply(S, c, Ok), c, {"CLOSE_AFTER_REPLY"})

\* CLIENT KILL by the old form, and by filters: Nil for one that is not given.
KillMatches(S, c, f, d) ==
    /\ f.id = Nil \/ f.id = d
    /\ f.type = Nil \/ getClientType(S, d) = f.type
    /\ f.user = Nil \/ S.cl[d].user = f.user
    /\ ~(c = d /\ f.skipme)
CloseSelf(S, c, q) == IF Contains(q, c) THEN Set(S, c, {"CLOSE_AFTER_REPLY"}) ELSE S
KillAll(S, c, f, q) ==
    CloseSelf(addReply(FoldLeft(LAMBDA T, d : IF d = c THEN T ELSE freeClient(T, d), S, q), c,
                       IF ~f.old THEN Len(q) ELSE IF q = <<>> THEN "ERR_NO_CLIENT" ELSE Ok), c, q)
ClientKill(S, c, f) ==
    IF f.user # Nil /\ f.user \notin DOMAIN S.users THEN addReply(S, c, "ERR_NO_USER")
    ELSE KillAll(S, c, f, SelectSeq(S.clients, LAMBDA d : KillMatches(S, c, f, d)))
ClientUnblock(S, c, d, error) ==
    IF ~S.cl[d].conn \/ ~Is(S, d, "BLOCKED") THEN addReply(S, c, 0)
    ELSE addReply(unblockClient(IF error THEN addReply(S, d, "UNBLOCKED") ELSE replyToBlockedClientTimedOut(S, d), d), c, 1)
ClientReply(S, c, mode) ==
    CASE mode = "ON" -> addReply(Clear(S, c, {"REPLY_SKIP", "REPLY_OFF"}), c, Ok)
      [] mode = "OFF" -> Set(S, c, {"REPLY_OFF"})
      [] mode = "SKIP" -> IF Is(S, c, "REPLY_OFF") THEN S ELSE Set(S, c, {"REPLY_SKIP_NEXT"})
ClientNoEvict(S, c, on) ==
    addReply(IF on THEN removeClientFromMemUsageBucket(Set(S, c, {"NO_EVICT"}), c, FALSE)
             ELSE updateClientMemUsageAndBucket(Clear(S, c, {"NO_EVICT"}), c), c, Ok)

\* CLIENT TRACKING on|off, with the options in a set.
ClientTracking(S, c, on, redir, options, ps) ==
    LET Err(e) == addReply(S, c, e) has(o) == o \in options
    IN  IF redir # Nil /\ ~S.cl[redir].conn THEN Err("ERR_REDIRECT")
        ELSE IF ~on THEN addReply(disableTracking(S, c), c, Ok)
        ELSE IF ~has("BCAST") /\ ps # <<>> THEN Err("ERR_PREFIX")
        ELSE IF Is(S, c, "TRACKING") /\ Is(S, c, "BCAST") # has("BCAST") THEN Err("ERR_SWITCH")
        ELSE IF has("BCAST") /\ (has("OPTIN") \/ has("OPTOUT")) THEN Err("ERR_BCAST")
        ELSE IF has("OPTIN") /\ has("OPTOUT") THEN Err("ERR_BOTH")
        ELSE IF (has("OPTIN") /\ Is(S, c, "OPTOUT")) \/ (has("OPTOUT") /\ Is(S, c, "OPTIN")) THEN Err("ERR_SWITCH")
        ELSE IF has("BCAST") /\ ~checkPrefixCollisionsOrReply(S, c, ps) THEN Err("ERR_COLLISION")
        ELSE addReply(enableTracking(S, c, redir, options, ps), c, Ok)
ClientCaching(S, c, yes) ==
    LET mode == IF yes THEN "OPTIN" ELSE "OPTOUT"
    IN  IF ~Is(S, c, "TRACKING") \/ ~Is(S, c, mode) THEN addReply(S, c, "ERR_CACHING")
        ELSE addReply(Set(S, c, {"TRACKING_CACHING"}), c, Ok)
ClientTrackinginfo(S, c) ==
    LET shown == SelectSeq(<<"TRACKING", "BCAST", "OPTIN", "OPTOUT", "NOLOOP", "BROKEN_REDIR">>, LAMBDA f : Is(S, c, f))
        T == addReplyDeferred(addReplyArrayLen(S, c, 3), c, shown)
        U == addReply(T, c, IF Is(S, c, "TRACKING") THEN S.cl[c].redir ELSE -1)
    IN  addReplyArray(U, c, SetToSeq(S.cl[c].prefixes))

clientCommand(S, c, cmd) ==
    CASE cmd[2] = "KILL" -> ClientKill(S, c, cmd[3])
      [] cmd[2] = "UNBLOCK" -> ClientUnblock(S, c, cmd[3], cmd[4])
      [] cmd[2] = "REPLY" -> ClientReply(S, c, cmd[3])
      [] cmd[2] = "NO-EVICT" -> ClientNoEvict(S, c, cmd[3])
      [] cmd[2] = "PAUSE" -> addReply(pauseClients(S, "command", S.s.now + cmd[3], cmd[4]), c, Ok)
      [] cmd[2] = "UNPAUSE" -> addReply(unpauseClients(S, "command"), c, Ok)
      [] cmd[2] = "TRACKING" -> ClientTracking(S, c, cmd[3], cmd[4], cmd[5], cmd[6])
      [] cmd[2] = "CACHING" -> ClientCaching(S, c, cmd[3])
      [] cmd[2] = "TRACKINGINFO" -> ClientTrackinginfo(S, c)
      [] cmd[2] = "GETREDIR" -> addReply(S, c, IF Is(S, c, "TRACKING") THEN S.cl[c].redir ELSE -1)
      [] cmd[2] = "SETNAME" -> addReply([S EXCEPT !.cl[c].name = cmd[3]], c, Ok)
      [] cmd[2] = "GETNAME" -> addReply(S, c, S.cl[c].name)

---------------------------------------------------------------------------
(***************************************************************************)
(* Users.  S.users is the table of the users, S.aclfile what the ACL file  *)
(* holds: lines [name, rules]; S.acllog the log of what was denied.        *)
(***************************************************************************)
\* An entry like one of the latest ten is counted with it and moved to the front.
addACLLogEntry(S, c, reason, context, object, user) ==
    LET e == [count |-> 1, reason |-> reason, context |-> context, object |-> object, user |-> user]
        like == {i \in DOMAIN S.acllog : i <= 10 /\ [S.acllog[i] EXCEPT !.count = 1] = e}
        i == Min(like)
        q == <<e>> \o S.acllog
    IN  IF like # {} THEN [S EXCEPT !.acllog = <<[@[i] EXCEPT !.count = @ + 1]>> \o RemoveAt(@, i)]
        ELSE [S EXCEPT !.acllog = SubSeq(q, 1, Min({Len(q), AclLogMax}))]
Context(S, c) == IF Is(S, c, "MULTI") THEN "multi" ELSE "toplevel"

ACLAuthenticateUser(S, c, name, pw) ==
    IF ACLCheckUserCredentials(S.users, name, pw) THEN [S EXCEPT !.cl[c].auth = TRUE, !.cl[c].user = name]
    ELSE addACLLogEntry(S, c, "auth", Context(S, c), "AUTH", name)
authCommand(S, c, name, pw) ==
    IF name = Nil /\ S.users["default"].nopass THEN addReply(S, c, "ERR_NO_PASSWORD_SET")
    ELSE LET u == IF name = Nil THEN "default" ELSE name
         IN  addReply(ACLAuthenticateUser(S, c, u, pw), c, IF ACLCheckUserCredentials(S.users, u, pw) THEN Ok ELSE "WRONGPASS")
\* HELLO ver [AUTH user password] [SETNAME name]
helloCommand(S, c, ver, auth, name) ==
    LET T == IF auth = Nil THEN S ELSE ACLAuthenticateUser(S, c, auth[1], auth[2])
        U == IF name = Nil THEN T ELSE [T EXCEPT !.cl[c].name = name]
    IN  IF ver \notin 2..3 THEN addReply(S, c, "NOPROTO")
        ELSE IF auth # Nil /\ ~ACLCheckUserCredentials(S.users, auth[1], auth[2]) THEN addReply(T, c, "WRONGPASS")
        ELSE IF ~U.cl[c].auth THEN addReply(U, c, "NOAUTH")
        ELSE addReply([U EXCEPT !.cl[c].resp = ver], c, <<"hello", ver>>)

\* Mutant: only the channels are looked at, not the patterns.
ACLKillPubsubClientsIfNeeded_NoPatterns(S, new, name) ==
    LET all(u) == \E i \in DOMAIN u.sels : u.sels[i].allchans
        chans(u) == FlattenSeq([i \in DOMAIN u.sels |-> u.sels[i].chans])
        old == S.users[name]
        up == chans(new)
        Kill(T, c) ==
            /\ T.cl[c].user = name /\ getClientType(T, c) = "pubsub"
            /\ \E ch \in T.cl[c].subs.chan \cup T.cl[c].subs.shard : ~ACLCheckChannelAgainstList(up, ch, FALSE)
    IN  IF all(new) \/ (~all(old) /\ ToSet(chans(old)) \subseteq ToSet(up)) THEN S
        ELSE FoldLeft(LAMBDA T, c : IF Kill(T, c) THEN freeClient(T, c) ELSE T, S, S.clients)
\* The subscribers that may no longer listen to what they listen to are closed, unless the
\* user has lost no channel.
ACLKillPubsubClientsIfNeeded(S, new, name) ==
    LET all(u) == \E i \in DOMAIN u.sels : u.sels[i].allchans
        chans(u) == FlattenSeq([i \in DOMAIN u.sels |-> u.sels[i].chans])
        old == S.users[name]
        up == chans(new)
        Kill(T, c) ==
            /\ T.cl[c].user = name /\ getClientType(T, c) = "pubsub"
            /\ \/ \E p \in T.cl[c].subs.pat : ~ACLCheckChannelAgainstList(up, p, TRUE)
               \/ \E ch \in T.cl[c].subs.chan \cup T.cl[c].subs.shard : ~ACLCheckChannelAgainstList(up, ch, FALSE)
    IN  IF all(new) \/ (~all(old) /\ ToSet(chans(old)) \subseteq ToSet(up)) THEN S
        ELSE FoldLeft(LAMBDA T, c : IF Kill(T, c) THEN freeClient(T, c) ELSE T, S, S.clients)

ChangeUser(S, name, known, a) ==
    IF ~a.ok THEN [s |-> S, ok |-> FALSE]
    ELSE [s |-> [(IF known THEN ACLKillPubsubClientsIfNeeded(S, a.u, name) ELSE S) EXCEPT !.users = (name :> a.u) @@ @], ok |-> TRUE]
ACLStringSetUser(S, name, rules) ==
    LET known == name \in DOMAIN S.users IN ChangeUser(S, name, known, ApplyRules(IF known THEN S.users[name] ELSE ACLCreateUser, rules))

\* The clients of a user that is gone become unauthenticated clients of the default user and
\* are closed; the one that executes the command gets its reply first.
ACLFreeUserAndKillClients(S, name) ==
    LET Leave(T, c) ==
            IF T.cl[c].user # name THEN T
            ELSE LET U == [T EXCEPT !.cl[c].user = "default", !.cl[c].auth = FALSE]
                 IN  IF c = T.cur THEN Set(U, c, {"CLOSE_AFTER_COMMAND"}) ELSE freeClientAsync(U, c)
    IN  FoldLeft(Leave, S, S.clients)
DelUsers(S, names) ==
    LET gone == (DOMAIN S.users \cap names) \ {"default"}
    IN  FoldLeft(ACLFreeUserAndKillClients, [S EXCEPT !.users = Restrict(@, DOMAIN @ \ gone)], SetToSeq(gone))

\* All of the file is taken or nothing; the default user is there in any case, and its clients
\* stay, those of every other user are closed.
LoadLines(q) ==
    LET Line(a, name, r) == [ok |-> a.ok /\ r.ok /\ name \notin DOMAIN a.us, us |-> (name :> r.u) @@ a.us]
    IN  FoldLeft(LAMBDA a, l : Line(a, l.name, ApplyRules(ACLCreateUser, l.rules)), [ok |-> TRUE, us |-> <<>>], q)
TakeUsers(S, a) ==
    IF ~a.ok THEN [s |-> S, ok |-> FALSE]
    ELSE [s |-> [FoldLeft(ACLFreeUserAndKillClients, S, SetToSeq(DOMAIN S.users \ {"default"}))
                   EXCEPT !.users = a.us @@ ("default" :> ACLCreateDefaultUser)], ok |-> TRUE]
ACLLoadFromFile(S) == TakeUsers(S, LoadLines(S.aclfile))
AclLoad(S, c) == LET Answer(a) == addReply(a.s, c, IF a.ok THEN Ok ELSE "ERR_FILE") IN Answer(ACLLoadFromFile(S))
ACLSaveToFile(S) ==
    LET q == SetToSeq(DOMAIN S.users)
    IN  [S EXCEPT !.aclfile = [i \in DOMAIN q |-> [name |-> q[i], rules |-> ACLDescribeUser(S.users[q[i]])]]]

AclSetuser(S, c, name, rules) ==
    LET Answer(a) == addReply(a.s, c, IF a.ok THEN Ok ELSE "ERR_RULE") IN Answer(ACLStringSetUser(S, name, rules))
AclDeluser(S, c, names) ==
    IF "default" \in names THEN addReply(S, c, "ERR_DEFAULT")
    ELSE addReply(DelUsers(S, names), c, Cardinality(DOMAIN S.users \cap names))
AclLog(S, c, n) ==
    IF n = "RESET" THEN addReply([S EXCEPT !.acllog = <<>>], c, Ok)
    ELSE addReplyArray(S, c, SubSeq(S.acllog, 1, Min({n, Len(S.acllog)})))
AclDryrun(S, c, name, cmd) ==
    addReply(S, c, IF name \notin DOMAIN S.users THEN "ERR_NO_USER" ELSE ACLCheckAllUserCommandPerm(S.users[name], cmd))
aclCommand(S, c, cmd) ==
    CASE cmd[2] = "SETUSER" -> AclSetuser(S, c, cmd[3], cmd[4])
      [] cmd[2] = "DELUSER" -> AclDeluser(S, c, cmd[3])
      [] cmd[2] = "LOAD" -> AclLoad(S, c)
      [] cmd[2] = "SAVE" -> addReply(ACLSaveToFile(S), c, Ok)
      [] cmd[2] = "WHOAMI" -> addReply(S, c, S.cl[c].user)
      [] cmd[2] = "LOG" -> AclLog(S, c, cmd[3])
      [] cmd[2] = "DRYRUN" -> AclDryrun(S, c, cmd[3], cmd[4])

---------------------------------------------------------------------------
(***************************************************************************)
(* Shutdown: the server stops accepting writes and gives the replica some  *)
(* time to catch up.  S.saveFails: the final snapshot cannot be written.   *)
(***************************************************************************)
isShutdownInitiated(S) == S.shut.at # 0
isReadyToShutdown(S) == S.ack = S.off
cancelShutdown(S) == unpauseClients(replyToClientsBlockedOnShutdown([S EXCEPT !.shut = [at |-> 0, asap |-> FALSE, force |-> FALSE]]), "shutdown")
finishShutdown(S) == IF S.saveFails /\ ~S.shut.force THEN cancelShutdown(S) ELSE [S EXCEPT !.exited = TRUE]
prepareForShutdown(S, now, force) ==
    LET T == [S EXCEPT !.shut.force = force]
        U == IF areClientsPaused(T) THEN T ELSE [T EXCEPT !.getack = TRUE]
    IN  IF isShutdownInitiated(S) THEN S
        ELSE IF ~now /\ S.shutTimeout # 0 /\ ~isReadyToShutdown(S)
        THEN pauseClients([U EXCEPT !.shut.at = S.s.now + S.shutTimeout], "shutdown", Forever, "WRITE")
        ELSE finishShutdown(T)
abortShutdown(S) ==
    IF isShutdownInitiated(S) THEN cancelShutdown(S) ELSE [S EXCEPT !.shut.asap = FALSE]
shutdownCommand(S, c, opts) ==
    IF "ABORT" \in opts
    THEN addReply(abortShutdown(S), c, IF isShutdownInitiated(S) \/ S.shut.asap THEN Ok ELSE "ERR_NO_SHUTDOWN")
    ELSE IF "NOW" \notin opts /\ Is(S, c, "DENY_BLOCKING") THEN addReply(S, c, "ERR_DENY")
    ELSE IF "NOSAVE" \notin opts /\ S.script # Nil THEN addReply(S, c, "BUSY")
    ELSE prepareForShutdown(blockClient(S, c, "shutdown"), "NOW" \in opts, "FORCE" \in opts)
=============================================================================
