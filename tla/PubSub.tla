------------------------------- MODULE PubSub -------------------------------
(***************************************************************************)
(* Publish/subscribe (pubsub.c): channels, shard channels and patterns.    *)
(* S.ps[t] is the server's table of the subscribers of each name of type   *)
(* t, cl[c].subs[t] what the client subscribes to; the slots of the shard  *)
(* channels are kept in S.slots.                                           *)
(***************************************************************************)
EXTENDS Clients

clientSubscriptionsCount(S, c) == Cardinality(S.cl[c].subs.chan) + Cardinality(S.cl[c].subs.pat)
clientTotalPubSubSubscriptionCount(S, c) == clientSubscriptionsCount(S, c) + Cardinality(S.cl[c].subs.shard)

pubsubSubscribeChannel(S, c, ch, t) ==
    LET T == IF ch \in S.cl[c].subs[t] THEN S
             ELSE [S EXCEPT !.cl[c].subs[t] = @ \cup {ch}, !.ps[t] = AddTo(@, ch, c)]
    IN  addReplyPush(T, c, <<"subscribed", t, ch, clientSubscriptionsCount(T, c)>>)

DropChannel(S, c, ch, t) ==
    IF ch \notin S.cl[c].subs[t] THEN S ELSE [S EXCEPT !.cl[c].subs[t] = @ \ {ch}, !.ps[t] = DropFrom(@, ch, c)]
ReleaseSlot(S, ch, t) == IF t = "shard" /\ ch \notin DOMAIN S.ps.shard THEN [S EXCEPT !.slots = @ \ {ch}] ELSE S
ReplyUnsubscribed(S, c, ch, notify, t) ==
    IF notify THEN addReplyPush(S, c, <<"unsubscribed", t, ch, clientSubscriptionsCount(S, c)>>) ELSE S
pubsubUnsubscribeChannel(S, c, ch, notify, t) ==
    ReplyUnsubscribed(ReleaseSlot(DropChannel(S, c, ch, t), ch, t), c, ch, notify, t)

\* Patterns are kept apart but handled alike.
pubsubSubscribePattern(S, c, p) == pubsubSubscribeChannel(S, c, p, "pat")
pubsubUnsubscribePattern(S, c, p, notify) == pubsubUnsubscribeChannel(S, c, p, notify, "pat")

pubsubUnsubscribeAllChannelsInternal(S, c, notify, t) ==
    LET q == SetToSeq(S.cl[c].subs[t])
    IN  IF notify /\ q = <<>> THEN addReplyPush(S, c, <<"unsubscribed", t, Nil, clientSubscriptionsCount(S, c)>>)
        ELSE FoldLeft(LAMBDA T, ch : pubsubUnsubscribeChannel(T, c, ch, notify, t), S, q)
pubsubUnsubscribeAllPatterns(S, c, notify) ==
    pubsubUnsubscribeAllChannelsInternal(S, c, notify, "pat")

LeavePubSub(S, c) == IF clientTotalPubSubSubscriptionCount(S, c) = 0 THEN Clear(S, c, {"PUBSUB"}) ELSE S

\* The slot of a shard channel leaves this node: its subscribers are told.
pubsubShardUnsubscribeAllClients(S, ch) ==
    LET Leave(T, c) == LET U == [T EXCEPT !.cl[c].subs.shard = @ \ {ch}]
                       IN  LeavePubSub(addReplyPush(U, c, <<"unsubscribed", "shard", ch, clientSubscriptionsCount(U, c)>>), c)
        T == FoldLeft(Leave, S, S.ps.shard[ch])
    IN  [T EXCEPT !.ps.shard = Restrict(@, DOMAIN @ \ {ch}), !.slots = @ \ {ch}]

\* The message goes to the subscribers of the channel and of every pattern that matches it.
Deliver(S, q, m) == FoldLeft(LAMBDA T, c : updateClientMemUsageAndBucket(addReplyPush(T, c, m), c), S, q)
pubsubPublishMessageInternal(S, ch, msg, t) ==
    LET direct == Fetch(S.ps[t], ch)
        pats == IF t = "shard" THEN <<>>
                ELSE SetToSeq({p \in DOMAIN S.ps.pat : stringmatchlen(p, ch)})
        T == Deliver(S, direct, <<"message", t, ch, msg>>)
        U == FoldLeft(LAMBDA V, p : Deliver(V, V.ps.pat[p], <<"pmessage", p, ch, msg>>), T, pats)
    IN  [s |-> U, n |-> Len(direct) + FoldLeft(LAMBDA a, p : a + Len(S.ps.pat[p]), 0, pats)]

\* The handlers.  PUBLISH is sent to the replicas whatever it did, unless the cluster bus
\* carries it (S.clusterEnabled).
DenyBlocking(S, c) == Is(S, c, "DENY_BLOCKING") /\ ~Is(S, c, "MULTI")
subscribeCommand(S, c, chs) ==
    IF DenyBlocking(S, c) THEN addReply(S, c, "ERR_DENY")
    ELSE Set(FoldLeft(LAMBDA T, ch : pubsubSubscribeChannel(T, c, ch, "chan"), S, chs), c, {"PUBSUB"})
unsubscribeCommand(S, c, chs) ==
    LeavePubSub(IF chs = <<>> THEN pubsubUnsubscribeAllChannelsInternal(S, c, TRUE, "chan")
                ELSE FoldLeft(LAMBDA T, ch : pubsubUnsubscribeChannel(T, c, ch, TRUE, "chan"), S, chs), c)
psubscribeCommand(S, c, ps) ==
    IF DenyBlocking(S, c) THEN addReply(S, c, "ERR_DENY")
    ELSE Set(FoldLeft(LAMBDA T, p : pubsubSubscribePattern(T, c, p), S, ps), c, {"PUBSUB"})
punsubscribeCommand(S, c, ps) ==
    LeavePubSub(IF ps = <<>> THEN pubsubUnsubscribeAllPatterns(S, c, TRUE)
                ELSE FoldLeft(LAMBDA T, p : pubsubUnsubscribePattern(T, c, p, TRUE), S, ps), c)
ssubscribeCommand(S, c, chs) ==
    LET Join(T, ch) ==
            pubsubSubscribeChannel(IF T.clusterEnabled /\ ch \notin DOMAIN T.ps.shard THEN [T EXCEPT !.slots = @ \cup {ch}] ELSE T,
                                   c, ch, "shard")
    IN  IF Is(S, c, "DENY_BLOCKING") THEN addReply(S, c, "ERR_DENY") ELSE Set(FoldLeft(Join, S, chs), c, {"PUBSUB"})
sunsubscribeCommand(S, c, chs) ==
    LeavePubSub(IF chs = <<>> THEN pubsubUnsubscribeAllChannelsInternal(S, c, TRUE, "shard")
                ELSE FoldLeft(LAMBDA T, ch : pubsubUnsubscribeChannel(T, c, ch, TRUE, "shard"), S, chs), c)
PublishType(cmd) == IF cmd[1] = "SPUBLISH" THEN "shard" ELSE "chan"
publishCommand(S, c, cmd) ==
    LET Propagated(T) == IF S.clusterEnabled THEN T ELSE [T EXCEPT !.also = Append(@, <<S.cl[c].db, cmd>>)]
        Answer(p) == addReply(Propagated(p.s), c, p.n)
    IN  Answer(pubsubPublishMessageInternal(S, cmd[2], cmd[3], PublishType(cmd)))
channelList(S, c, p, t) ==
    addReplyDeferred(S, c, SetToSeq({ch \in DOMAIN S.ps[t] : p = Nil \/ stringmatchlen(p, ch)}))
Numsub(S, c, chs, t) ==
    AddAll(addReplyArrayLen(S, c, 2 * Len(chs)), c, FlattenSeq([i \in DOMAIN chs |-> <<chs[i], Len(Fetch(S.ps[t], chs[i]))>>]))
pubsubCommand(S, c, sub, arg) ==
    CASE sub = "CHANNELS"      -> channelList(S, c, arg, "chan")
      [] sub = "SHARDCHANNELS" -> channelList(S, c, arg, "shard")
      [] sub = "NUMSUB"        -> Numsub(S, c, arg, "chan")
      [] sub = "SHARDNUMSUB"   -> Numsub(S, c, arg, "shard")
      [] sub = "NUMPAT"        -> addReply(S, c, Cardinality(DOMAIN S.ps.pat))
=============================================================================
