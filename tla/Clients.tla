------------------------------ MODULE Clients ------------------------------
(***************************************************************************)
(* The connections of a server (networking.c): the record of a client and  *)
(* the path of a reply, from addReply() through the static buffer and the  *)
(* list of reply blocks to the socket.  S is the memory of the server, a   *)
(* record; an operator models the function of its name and gives the       *)
(* memory after it.  A reply is a sequence of tokens: [i, n, v] belongs to *)
(* the reply of the i-th command of the client (0: a message pushed by the *)
(* server), announces n more elements and carries the value v.             *)
(***************************************************************************)
EXTENDS Acl

CONSTANTS
    ClientIds,    \* the connections
    BufTokens,    \* PROTO_REPLY_CHUNK_BYTES: the size of the static buffer
    BlockTokens,  \* and the least size of a reply block
    ObufHard,     \* client-output-buffer-limit of normal and of pubsub clients: the hard limit,
    ObufSoft,     \* the soft limit (0: none)
    ObufSoftTime, \* and how long the soft limit may be exceeded
    MemBuckets    \* CLIENT_MEM_USAGE_BUCKETS

\* createClient: what a connection starts with.  n counts the commands it has sent.
NewClient ==
    [conn |-> TRUE, flags |-> {}, db |-> 0, resp |-> 2, user |-> "default", auth |-> TRUE, name |-> Nil, qb |-> <<>>, n |-> 0, cmd |-> Nil,
     buf |-> <<>>, sent |-> 0, reply |-> <<>>, soft |-> 0, mq |-> <<>>, mqflags |-> {}, watched |-> <<>>,
     btype |-> "none", bkeys |-> <<>>, timeout |-> 0, woff |-> 0, boff |-> 0, need |-> 0, subs |-> [chan |-> {}, shard |-> {}, pat |-> {}],
     redir |-> Nil, prefixes |-> {}, mem |-> 0, mtype |-> "normal", bucket |-> Nil, rcv |-> <<>>, cache |-> <<>>]

Is(S, c, f) == f \in S.cl[c].flags
Set(S, c, F) == [S EXCEPT !.cl[c].flags = @ \cup F]
Clear(S, c, F) == [S EXCEPT !.cl[c].flags = @ \ F]
Drop(q, c) == SelectSeq(q, LAMBDA d : d # c)

\* The tables from a name to the list of the clients interested in it: an entry that has
\* become empty is removed.
Fetch(f, k) == IF k \in DOMAIN f THEN f[k] ELSE <<>>
AddTo(f, k, c) == (k :> Append(Fetch(f, k), c)) @@ f
DropFrom(f, k, c) == IF Drop(f[k], c) = <<>> THEN Restrict(f, DOMAIN f \ {k}) ELSE [f EXCEPT ![k] = Drop(@, c)]

clientHasPendingReplies(S, c) == S.cl[c].buf # <<>> \/ S.cl[c].reply # <<>>

\* The client is closed when the event loop gets to it.
freeClientAsync(S, c) ==
    IF Is(S, c, "CLOSE_ASAP") THEN S ELSE [Set(S, c, {"CLOSE_ASAP"}) EXCEPT !.toClose = Append(@, c)]

getClientType(S, c) == IF Is(S, c, "PUBSUB") THEN "pubsub" ELSE "normal"
SumSizes(reply) == FoldLeft(LAMBDA a, b : IF b = Nil THEN a ELSE a + b.size, 0, reply)
getClientOutputBufferMemoryUsage(S, c) == SumSizes(S.cl[c].reply)

\* When the soft limit was first exceeded is noted.
Exceeds(used, limit) == limit > 0 /\ used >= limit
SoftSince(since, over, now) == IF ~over THEN 0 ELSE IF since = 0 THEN now ELSE since
CloseOver(S, c, limit) == IF limit THEN freeClientAsync(S, c) ELSE S
checkClientOutputBufferLimits(S, c, since, hard, over) ==
    CloseOver([S EXCEPT !.cl[c].soft = SoftSince(since, over, S.s.now)], c,
              hard \/ (over /\ since # 0 /\ S.s.now - since > ObufSoftTime))
CheckUsed(S, c, used, class) ==
    IF used = 0 THEN S
    ELSE checkClientOutputBufferLimits(S, c, S.cl[c].soft, Exceeds(used, ObufHard[class]), Exceeds(used, ObufSoft[class]))
closeClientOnOutputBufferLimitReached(S, c) ==
    IF ~S.cl[c].conn \/ Is(S, c, "CLOSE_ASAP") THEN S
    ELSE CheckUsed(S, c, getClientOutputBufferMemoryUsage(S, c), getClientType(S, c))

putClientInPendingWriteQueue(S, c) ==
    IF Is(S, c, "PENDING_WRITE") THEN S ELSE [Set(S, c, {"PENDING_WRITE"}) EXCEPT !.pendw = <<c>> \o @]

\* prepareClientToWrite: whether the client gets replies at all, and its place in the queue of
\* the clients to write to.
MayWrite(S, c) ==
    /\ ~Is(S, c, "CLOSE_ASAP")
    /\ S.cl[c].flags \cap {"REPLY_OFF", "REPLY_SKIP"} = {} \/ Is(S, c, "PUSHING")
    /\ S.cl[c].conn
prepareClientToWrite(S, c) == IF clientHasPendingReplies(S, c) THEN S ELSE putClientInPendingWriteQueue(S, c)

Block(size, toks) == [size |-> size, toks |-> toks]
Room(b) == b # Nil /\ Len(b.toks) < b.size
_addReplyProtoToList(S, c, t) ==
    LET q == S.cl[c].reply
    IN  IF q # <<>> /\ Room(Last(q)) THEN [S EXCEPT !.cl[c].reply[Len(q)].toks = Append(@, t)]
        ELSE closeClientOnOutputBufferLimitReached([S EXCEPT !.cl[c].reply = Append(@, Block(BlockTokens, <<t>>))], c)

\* Mutant: the static buffer is used again once it has room, whatever the list holds.
_addReplyToBufferOrList_Jumps(S, c, t) ==
    LET x == S.cl[c]
    IN  IF "CLOSE_AFTER_REPLY" \in x.flags THEN S
        ELSE IF Len(x.buf) < BufTokens THEN [S EXCEPT !.cl[c].buf = Append(@, t)]
        ELSE _addReplyProtoToList(S, c, t)
\* The static buffer is used only while the list is empty.
_addReplyToBufferOrList(S, c, t) ==
    LET x == S.cl[c]
    IN  IF "CLOSE_AFTER_REPLY" \in x.flags THEN S
        ELSE IF x.reply = <<>> /\ Len(x.buf) < BufTokens THEN [S EXCEPT !.cl[c].buf = Append(@, t)]
        ELSE _addReplyProtoToList(S, c, t)

AddToken(S, c, t) == IF MayWrite(S, c) THEN _addReplyToBufferOrList(prepareClientToWrite(S, c), c, t) ELSE S

Token(S, c, n, v) == [i |-> S.cl[c].n, n |-> n, v |-> v]
addReply(S, c, v) == AddToken(S, c, Token(S, c, 0, v))
addReplyArrayLen(S, c, n) == AddToken(S, c, Token(S, c, n, "*"))
AddAll(S, c, q) == FoldLeft(LAMBDA T, v : addReply(T, c, v), S, q)
addReplyArray(S, c, q) == AddAll(addReplyArrayLen(S, c, Len(q)), c, q)

\* A message of the server's own accord, which CLIENT REPLY does not suppress.
addReplyPush(S, c, v) ==
    Clear(AddToken(Set(S, c, {"PUSHING"}), c, [i |-> 0, n |-> 0, v |-> v]), c, IF Is(S, c, "PUSHING") THEN {} ELSE {"PUSHING"})

---------------------------------------------------------------------------
(***************************************************************************)
(* Replies whose length is known only at the end: a node of the list is    *)
(* kept free for the header.                                               *)
(***************************************************************************)
\* A tail that is not nearly full is shrunk to what it holds.
trimReplyUnusedTailSpace(S, c) ==
    LET q == S.cl[c].reply b == Last(q)
    IN  IF q # <<>> /\ b # Nil /\ (b.size - Len(b.toks)) * 4 > b.size /\ Len(b.toks) < BlockTokens
        THEN [S EXCEPT !.cl[c].reply[Len(q)].size = Len(b.toks)] ELSE S

addReplyDeferredLen(S, c) ==
    IF ~MayWrite(S, c) THEN S
    ELSE [trimReplyUnusedTailSpace(prepareClientToWrite(S, c), c) EXCEPT !.cl[c].reply = Append(@, Nil)]

\* The header goes to the end of the node before, to the front of the node after, or into a
\* node of its own.
setDeferredReply(S, c, i, t) ==
    LET q == S.cl[c].reply
    IN  IF i > 1 /\ Room(q[i - 1])
        THEN [S EXCEPT !.cl[c].reply = RemoveAt([q EXCEPT ![i - 1].toks = Append(@, t)], i)]
        ELSE IF i < Len(q) /\ Room(q[i + 1])
        THEN [S EXCEPT !.cl[c].reply = RemoveAt([q EXCEPT ![i + 1].toks = <<t>> \o @], i)]
        ELSE closeClientOnOutputBufferLimitReached([S EXCEPT !.cl[c].reply[i] = Block(1, <<t>>)], c)

FillDeferred(S, c, q) == setDeferredReply(AddAll(S, c, q), c, Len(S.cl[c].reply), Token(S, c, Len(q), "*"))
addReplyDeferred(S, c, q) == IF ~MayWrite(S, c) THEN S ELSE FillDeferred(addReplyDeferredLen(S, c), c, q)

---------------------------------------------------------------------------
(***************************************************************************)
(* The memory of the clients (server.c): what each class of clients uses,  *)
(* S.cmem, and the clients that may be evicted, S.buckets, by the order of *)
(* magnitude of what they use.  Both hold what was measured last.          *)
(***************************************************************************)
getClientMemoryUsage(S, c) ==
    LET x == S.cl[c]
    IN  getClientOutputBufferMemoryUsage(S, c) + Len(x.qb) + Len(x.mq)
        + Cardinality(x.subs.chan) + Cardinality(x.subs.pat) + Cardinality(x.prefixes)
getMemUsageBucket(m) == Min({MemBuckets} \cup {b \in 1..MemBuckets : m < 2^b})
NoteUsage(S, c, m, t) ==
    [S EXCEPT !.cmem = [[@ EXCEPT ![S.cl[c].mtype] = @ - S.cl[c].mem] EXCEPT ![t] = @ + m], !.cl[c].mem = m, !.cl[c].mtype = t]
updateClientMemoryUsage(S, c) == NoteUsage(S, c, getClientMemoryUsage(S, c), getClientType(S, c))
clientEvictionAllowed(S, c) == S.maxClientMem # 0 /\ ~Is(S, c, "NO_EVICT")

LeaveBucket(S, c) ==
    LET b == S.cl[c].bucket
    IN  IF b = Nil THEN S ELSE [S EXCEPT !.buckets[b].cls = Drop(@, c), !.cl[c].bucket = Nil]
\* The sum is corrected at once, the list only if the client does not come back.
removeClientFromMemUsageBucket(S, c, allow) ==
    IF S.cl[c].bucket = Nil THEN S
    ELSE [IF allow THEN S ELSE LeaveBucket(S, c) EXCEPT !.buckets[S.cl[c].bucket].sum = @ - S.cl[c].mem]
EnterBucket(S, c, b) ==
    [IF b = S.cl[c].bucket THEN S ELSE [LeaveBucket(S, c) EXCEPT !.cl[c].bucket = b, !.buckets[b].cls = Append(@, c)]
     EXCEPT !.buckets[b].sum = @ + S.cl[c].mem]
ChooseBucket(S, c) == EnterBucket(S, c, getMemUsageBucket(S.cl[c].mem))
updateClientMemUsageAndBucket(S, c) ==
    IF ~clientEvictionAllowed(S, c) THEN removeClientFromMemUsageBucket(S, c, FALSE)
    ELSE ChooseBucket(updateClientMemoryUsage(removeClientFromMemUsageBucket(S, c, TRUE), c), c)

---------------------------------------------------------------------------
(***************************************************************************)
(* Writing to the socket, which takes as many tokens as it has room for.   *)
(***************************************************************************)
\* The blocks of the list in order, sent tokens of the first one gone already.
RECURSIVE Written(_, _, _)
Written(q, sent, n) ==
    IF n = 0 \/ q = <<>> THEN [q |-> q, sent |-> sent, out |-> <<>>]
    ELSE LET b == Head(q) left == Len(b.toks) - sent
         IN  IF n < left THEN [q |-> q, sent |-> sent + n, out |-> SubSeq(b.toks, sent + 1, sent + n)]
             ELSE LET w == Written(Tail(q), 0, n - left)
                  IN  [w EXCEPT !.out = SubSeq(b.toks, sent + 1, Len(b.toks)) \o @]

\* _writevToClient, and the case of the static buffer alone.
_writeToClient(S, c, room) ==
    LET x == S.cl[c]
        all == (IF x.buf = <<>> THEN <<>> ELSE <<Block(BufTokens, x.buf)>>) \o x.reply
        w == Written(all, x.sent, room)
        inBuf == x.buf # <<>> /\ Len(w.q) = Len(all)
    IN  [S EXCEPT !.cl[c].buf = IF inBuf THEN @ ELSE <<>>, !.cl[c].reply = IF inBuf THEN @ ELSE w.q,
                  !.cl[c].sent = w.sent, !.cl[c].rcv = @ \o w.out]

\* A connection that is to be closed after its last reply is closed once everything is sent;
\* otherwise the write handler waits for room in the socket.
SentAll(S, c) == Clear([S EXCEPT !.cl[c].sent = 0], c, {"WRITE_HANDLER"})
AfterWrite(S, c, pending) ==
    IF ~pending /\ Is(S, c, "CLOSE_AFTER_REPLY") THEN freeClientAsync(SentAll(S, c), c)
    ELSE updateClientMemUsageAndBucket(IF pending THEN Set(S, c, {"WRITE_HANDLER"}) ELSE SentAll(S, c), c)
Wrote(S, c) == AfterWrite(S, c, clientHasPendingReplies(S, c))
writeToClient(S, c, room) == Wrote(_writeToClient(S, c, room), c)

handleClientsWithPendingWrites(S, room) ==
    FoldLeft(LAMBDA T, c : LET U == [Clear(T, c, {"PENDING_WRITE"}) EXCEPT !.pendw = Drop(@, c)]
                           IN  IF Is(U, c, "PROTECTED") \/ Is(U, c, "CLOSE_ASAP") THEN U ELSE writeToClient(U, c, room),
             S, S.pendw)

\* resetClient: the connection is ready for the next command.
resetClient(S, c) ==
    LET x == S.cl[c] prev == IF x.cmd = Nil THEN "" ELSE x.cmd[1]
        caching == IF "MULTI" \notin x.flags /\ prev # "CLIENT" THEN {"TRACKING_CACHING"} ELSE {}
        next == IF "REPLY_SKIP_NEXT" \in x.flags THEN {"REPLY_SKIP"} ELSE {}
    IN  [S EXCEPT !.cl[c].cmd = Nil,
                  !.cl[c].flags = (@ \ (caching \cup {"REPLY_SKIP", "REPLY_SKIP_NEXT"})) \cup next]
=============================================================================
