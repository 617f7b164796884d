------------------------------ MODULE Streams ------------------------------
(***************************************************************************)
(* The stream commands (t_stream.c).  An ID <<ms, seq>> is the integer     *)
(* ms * SeqBase + seq.  A stream is                                        *)
(*   [nodes   the listpacks of the radix tree: entries [id, f, del], del   *)
(*            marking a tombstone,                                         *)
(*    len, first, last, maxdel, added   as in struct stream,               *)
(*    cg      the groups: [last, read (-1: unknown), pel: the pending      *)
(*            entries by ID [c, t, n], cons: the IDs each consumer owns]]. *)
(***************************************************************************)
EXTENDS SortedSets

CONSTANT NodeMaxEntries     \* stream-node-max-entries
\* A replica may be configured with another node size.
NodeMax(s) == IF s.role = "master" THEN NodeMaxEntries ELSE NodeMaxEntries + 1

SeqBase == 4
MaxID == 16 * SeqBase - 1   \* UINT64_MAX-UINT64_MAX; as an argument of XREADGROUP it is ">"

streamNew == [nodes |-> <<>>, len |-> 0, first |-> 0, last |-> 0, maxdel |-> 0, added |-> 0, cg |-> <<>>]
Stream(s, k) == IF Has(s, k) THEN Get(s, k).v ELSE streamNew
putStream(s, k, st) == setKey(s, k, Obj("stream", "stream", st), TRUE)
HasGroup(s, k, g) == Has(s, k) /\ g \in DOMAIN Get(s, k).v.cg

streamNextID(last, now) == IF now > last \div SeqBase THEN now * SeqBase ELSE last + 1
All(st) == FlattenSeq(st.nodes)
Live(q) == SelectSeq(q, LAMBDA e : ~e.del)
\* streamIteratorStart, streamIteratorGetID: the entries from start to end.
rangeOf(st, start, end) == SelectSeq(Live(All(st)), LAMBDA e : start <= e.id /\ e.id <= end)
streamEntryExists(st, id) == rangeOf(st, id, id) # <<>>
streamLastValidID(st) == LET q == Live(All(st)) IN IF q = <<>> THEN 0 ELSE Last(q).id
\* The first ID, MaxID when there is none.
streamGetEdgeID(st, skip) == LET q == IF skip THEN Live(All(st)) ELSE All(st) IN IF q = <<>> THEN MaxID ELSE q[1].id

\* idspec: <<"*">>, <<"ms", ms>> (sequence chosen here) or <<"id", id>>.  The ID, 0 for EDOM.
AppendID(st, idspec, now) ==
    LET id == CASE idspec[1] = "*" -> streamNextID(st.last, now)
                [] idspec[1] = "ms" -> IF st.last \div SeqBase = idspec[2]
                                       THEN IF st.last % SeqBase = SeqBase - 1 THEN 0 ELSE st.last + 1
                                       ELSE idspec[2] * SeqBase
                [] idspec[1] = "id" -> idspec[2]
    IN  IF id <= st.last THEN 0 ELSE id

\* The last node takes the entry unless it is full, tombstones counted.
streamAppendItem(st, f, id, max) ==
    LET e == [id |-> id, f |-> f, del |-> FALSE]
        n == Len(st.nodes)
        nodes == IF n = 0 \/ Len(st.nodes[n]) >= max THEN Append(st.nodes, <<e>>)
                 ELSE [st.nodes EXCEPT ![n] = Append(@, e)]
    IN  [st EXCEPT !.nodes = nodes, !.added = @ + 1, !.last = id, !.len = @ + 1, !.first = IF st.len = 0 THEN id ELSE @]

---------------------------------------------------------------------------
(***************************************************************************)
(* Trimming: [by ("none", "maxlen" or "minid"), approx, n, limit] (limit   *)
(* -1 when it is not given).                                               *)
(***************************************************************************)
NoTrim == [by |-> "none", approx |-> FALSE, n |-> 0, limit |-> -1]

streamParseAddOrTrimArgsOrReply(s, t) == s.role # "master" \/ t.limit <= 0 \/ (t.by # "none" /\ t.approx)
TrimLimit(s, t) == IF s.role # "master" THEN 0 ELSE IF t.limit >= 0 THEN t.limit ELSE IF t.approx THEN 100 * NodeMaxEntries ELSE 0

\* Whole nodes go as long as they may; then, unless the trim is approximate, the entries of
\* the next node are marked one by one.
MarkDeleted(a, node, gone) ==
    [stop |-> TRUE, len |-> a.len - Cardinality(gone), deleted |-> a.deleted + Cardinality(gone),
     nodes |-> Append(a.nodes, [i \in DOMAIN node |-> IF node[i].id \in gone THEN [node[i] EXCEPT !.del = TRUE] ELSE node[i]])]
TrimNode(a, node, t, limit, live) ==
    LET n == Len(live)
        whole == IF t.by = "maxlen" THEN a.len - n >= t.n ELSE Last(node).id < t.n
    IN  IF a.stop \/ (t.by = "maxlen" /\ a.len <= t.n) \/ (limit > 0 /\ a.deleted + n > limit) \/ (~whole /\ t.approx)
        THEN [a EXCEPT !.stop = TRUE, !.nodes = Append(@, node)]
        ELSE IF whole THEN [a EXCEPT !.len = @ - n, !.deleted = @ + n]
        ELSE MarkDeleted(a, node, {live[i].id : i \in {j \in 1..n : IF t.by = "maxlen" THEN j <= a.len - t.n ELSE live[j].id < t.n}})
Trimmed(st, deleted) ==
    [st |-> [st EXCEPT !.first = IF st.len = 0 THEN 0 ELSE IF deleted > 0 THEN streamGetEdgeID(st, TRUE) ELSE @], deleted |-> deleted]
TrimResult(st, z) == Trimmed([st EXCEPT !.nodes = z.nodes, !.len = z.len], z.deleted)
streamTrim(st, t, limit) ==
    IF t.by = "none" THEN [st |-> st, deleted |-> 0]
    ELSE TrimResult(st, FoldLeft(LAMBDA a, node : TrimNode(a, node, t, limit, Live(node)),
                                 [nodes |-> <<>>, len |-> st.len, deleted |-> 0, stop |-> FALSE], st.nodes))

\* Mutant: an approximate trim is left to the replica, whose nodes may differ.
streamRewriteTrimArgument_Not(st, t) == t
\* What the replicas trim exactly: the length or the first ID that stayed.
streamRewriteTrimArgument(st, t) ==
    IF ~t.approx THEN t
    ELSE [t EXCEPT !.approx = FALSE, !.n = IF t.by = "maxlen" THEN st.len ELSE streamGetEdgeID(st, FALSE)]

XaddStream(c, id, trim) == <<"XADD", c[2], <<"id", id>>, c[4], trim, c[6]>>

XaddReply(s, c, id, z) ==
    Dirty(putStream(s, c[2], z.st), id, <<XaddStream(c, id, streamRewriteTrimArgument(z.st, c[5]))>>, {c[2]})
\* XADD key idspec field trim nomkstream
xaddCommand(s, c) ==
    LET k == c[2] st == Stream(s, k) id == AppendID(st, c[3], s.now)
    IN  IF ~streamParseAddOrTrimArgsOrReply(s, c[5]) THEN Reply(s, SyntaxErr)
        ELSE IF c[3] = <<"id", 0>> THEN Reply(s, "ERR The ID specified in XADD must be greater than 0-0")
        ELSE IF checkType(s, k, "stream") THEN Reply(s, WrongType)
        ELSE IF c[6] /\ ~Has(s, k) THEN Reply(s, Nil)
        ELSE IF st.last = MaxID THEN Reply(s, "ERR The stream has exhausted the last possible ID")
        ELSE IF id = 0 THEN Reply(putStream(s, k, st), "ERR The ID is equal or smaller than the top item")
        ELSE XaddReply(s, c, id, streamTrim(streamAppendItem(st, c[4], id, NodeMax(s)), c[5], TrimLimit(s, c[5])))

\* XTRIM key trim
XtrimReply(s, c, z) ==
    IF z.deleted = 0 THEN Reply(putStream(s, c[2], z.st), 0)
    ELSE Dirty(putStream(s, c[2], z.st), z.deleted, <<<<"XTRIM", c[2], streamRewriteTrimArgument(z.st, c[3])>>>>, {c[2]})
xtrimCommand(s, c) ==
    LET k == c[2]
    IN  IF ~streamParseAddOrTrimArgsOrReply(s, c[3]) THEN Reply(s, SyntaxErr)
        ELSE IF ~Has(s, k) THEN Reply(s, 0)
        ELSE IF checkType(s, k, "stream") THEN Reply(s, WrongType)
        ELSE XtrimReply(s, c, streamTrim(Stream(s, k), c[3], TrimLimit(s, c[3])))

\* A tombstone, or the end of the node when it was the last entry there.
streamDeleteItem(st, id) ==
    LET mark(node) == [i \in DOMAIN node |-> IF node[i].id = id THEN [node[i] EXCEPT !.del = TRUE] ELSE node[i]]
        hit(node) == \E i \in DOMAIN node : node[i].id = id
        w == [st EXCEPT !.nodes = SelectSeq([i \in DOMAIN @ |-> IF hit(@[i]) THEN mark(@[i]) ELSE @[i]],
                                            LAMBDA node : ~(hit(node) /\ Live(node) = <<>>)),
                        !.len = @ - 1, !.maxdel = IF id > @ THEN id ELSE @]
    IN  IF streamEntryExists(st, id) THEN w ELSE st

\* XDEL key ids
XdelReply(s, c, st, w) ==
    LET first == IF w.len = 0 THEN 0 ELSE IF ~streamEntryExists(w, st.first) THEN streamGetEdgeID(w, TRUE) ELSE w.first
    IN  IF w.len = st.len THEN Reply(s, 0)
        ELSE Dirty(putStream(s, c[2], [w EXCEPT !.first = first]), st.len - w.len, <<c>>, {c[2]})
xdelCommand(s, c) ==
    LET k == c[2] st == Stream(s, k)
    IN  IF ~Has(s, k) THEN Reply(s, 0)
        ELSE IF checkType(s, k, "stream") THEN Reply(s, WrongType)
        ELSE XdelReply(s, c, st, FoldLeft(streamDeleteItem, st, c[3]))

\* XRANGE/XREVRANGE key start end count (0: no limit)
Upto(n, q) == IF n > 0 /\ n < Len(q) THEN SubSeq(q, 1, n) ELSE q
Entries(q) == [i \in DOMAIN q |-> <<q[i].id, q[i].f>>]
xrangeGenericCommand(s, c, rev) ==
    LET q == rangeOf(Stream(s, c[2]), c[3], c[4])
    IN  Reply(s, IF checkType(s, c[2], "stream") THEN WrongType ELSE Entries(Upto(c[5], IF rev THEN Reverse(q) ELSE q)))
xlenCommand(s, c) == Reply(s, IF checkType(s, c[2], "stream") THEN WrongType ELSE Stream(s, c[2]).len)

---------------------------------------------------------------------------
(***************************************************************************)
(* The counters behind the lag of a group.                                 *)
(***************************************************************************)
streamRangeHasTombstones(st, start) ==
    st.len > 0 /\ st.maxdel > 0 /\ st.first <= st.maxdel /\ start <= st.maxdel

streamEstimateDistanceFromFirstEverEntry(st, id) ==
    IF st.added = 0 THEN 0
    ELSE IF (st.len = 0 /\ id <= st.last) \/ id = st.last THEN st.added
    ELSE IF id > st.last THEN -1
    ELSE IF (st.maxdel = 0 \/ st.maxdel < st.first) /\ id <= st.first
         THEN st.added - st.len + (IF id = st.first THEN 1 ELSE 0) ELSE -1

\* The lag XINFO gives for a group, -1 when it is not known.
streamReplyWithCGLag(st, g) ==
    LET e == streamEstimateDistanceFromFirstEverEntry(st, g.last)
    IN  IF st.added = 0 THEN 0
        ELSE IF g.read # -1 /\ ~streamRangeHasTombstones(st, g.last) THEN st.added - g.read
        ELSE IF e # -1 THEN st.added - e ELSE -1

---------------------------------------------------------------------------
(***************************************************************************)
(* Groups, consumers and pending entries.                                  *)
(***************************************************************************)
streamCreateConsumer(g, c) == IF c \in DOMAIN g.cons THEN g ELSE [g EXCEPT !.cons = With(@, c, {})]
streamDelConsumer(g, c) ==
    [g EXCEPT !.pel = Without(@, g.cons[c]), !.cons = Without(@, {c})]

\* Mutant: the entry stays with its old owner as well.
SetOwner_Both(g, id, c, t, n) ==
    [g EXCEPT !.cons = [x \in DOMAIN @ |-> IF x = c THEN @[x] \cup {id} ELSE @[x]], !.pel = With(@, id, [c |-> c, t |-> t, n |-> n])]
\* The pending entry of id belongs to consumer c and no other.
SetOwner(g, id, c, t, n) ==
    [g EXCEPT !.cons = [x \in DOMAIN @ |-> IF x = c THEN @[x] \cup {id} ELSE @[x] \ {id}],
              !.pel = With(@, id, [c |-> c, t |-> t, n |-> n])]
DropNACK(g, id) == [g EXCEPT !.cons = [x \in DOMAIN @ |-> @[x] \ {id}], !.pel = Without(@, {id})]

streamPropagateXCLAIM(k, gn, g, id) ==
    <<"XCLAIM", k, gn, g.pel[id].c, 0, <<id>>, [time |-> g.pel[id].t, retry |-> g.pel[id].n, force |-> TRUE, justid |-> TRUE, last |-> g.last]>>
streamPropagateGroupID(k, gn, g) == <<"XGROUP", "SETID", k, gn, g.last, g.read>>
streamPropagateConsumerCreation(k, gn, c) == <<"XGROUP", "CREATECONSUMER", k, gn, c>>

\* The entries of q are delivered to a consumer: [g, p].
ReadUpTo(st, g, id) ==
    IF id <= g.last THEN g
    ELSE [g EXCEPT !.last = id,
                   !.read = IF @ # -1 /\ ~streamRangeHasTombstones(st, id) THEN @ + 1
                            ELSE IF st.added > 0 THEN streamEstimateDistanceFromFirstEverEntry(st, id) ELSE @]
Claimed(a, g, k, gn, id) == [a EXCEPT !.g = g, !.p = Append(@, streamPropagateXCLAIM(k, gn, g, id))]
Delivered(a, g, id, k, gn, cn, noack, now) ==
    IF noack THEN [a EXCEPT !.g = g, !.move = @ \/ id > a.g.last] ELSE Claimed(a, SetOwner(g, id, cn, now, 1), k, gn, id)
WithGroupID(z, k, gn) == [g |-> z.g, p |-> IF z.move THEN Append(z.p, streamPropagateGroupID(k, gn, z.g)) ELSE z.p]
streamReplyWithRange(st, g, q, k, gn, cn, noack, now) ==
    WithGroupID(FoldLeft(LAMBDA a, e : Delivered(a, ReadUpTo(st, a.g, e.id), e.id, k, gn, cn, noack, now),
                         [g |-> g, p |-> <<>>, move |-> FALSE], q), k, gn)

\* Redelivery of what the consumer has pending: counted, and not propagated.
streamReplyWithRangeFromConsumerPEL(st, g, ids, now) ==
    [g EXCEPT !.pel = [id \in DOMAIN @ |-> IF id \in ids /\ streamEntryExists(st, id) THEN [@[id] EXCEPT !.t = now, !.n = @ + 1] ELSE @[id]]]

\* XREAD streams count block: streams is a sequence of <<key, id>>.
After(s, x, n) == Upto(n, rangeOf(Stream(s, x[1]), x[2] + 1, MaxID))
XreadReply(s, c, got) ==
    Reply(s, IF got # <<>> THEN [i \in DOMAIN got |-> <<got[i][1], [j \in DOMAIN got[i][2] |-> got[i][2][j].id]>>]
             ELSE IF c[4] THEN MustBlock ELSE Nil)
xreadCommand(s, c) ==
    IF \E i \in DOMAIN c[2] : checkType(s, c[2][i][1], "stream") THEN Reply(s, WrongType)
    ELSE XreadReply(s, c, SelectSeq([i \in DOMAIN c[2] |-> <<c[2][i][1], After(s, c[2][i], c[3])>>], LAMBDA x : x[2] # <<>>))

\* XREADGROUP group consumer streams count noack block; a stream's ID is MaxID for ">".
\* What one of the streams gives: the pending entries of the consumer, or new ones.
GroupServed(a, c, k, st, ids, z) ==
    LET new == c[3] \notin DOMAIN st.cg[c[2]].cons /\ c[6]
    IN  [s |-> putStream(a.s, k, [st EXCEPT !.cg[c[2]] = z.g]),
         p |-> a.p \o (IF new THEN <<streamPropagateConsumerCreation(k, c[2], c[3])>> ELSE <<>>) \o z.p,
         r |-> Append(a.r, <<k, ids>>)]
ServePending(a, c, k, st, g, ids) ==
    GroupServed(a, c, k, st, ids, [g |-> streamReplyWithRangeFromConsumerPEL(st, g, ToSet(ids), a.s.now), p |-> <<>>])
ServeNew(a, c, k, st, g, q) ==
    GroupServed(a, c, k, st, [i \in DOMAIN q |-> q[i].id], streamReplyWithRange(st, g, q, k, c[2], c[3], c[6], a.s.now))
ReadGroup(a, c, x, st, g) ==
    IF x[2] # MaxID THEN ServePending(a, c, x[1], st, g, Upto(c[5], Ascending({id \in g.cons[c[3]] : id > x[2]})))
    ELSE IF st.len > 0 /\ streamLastValidID(st) > g.last THEN ServeNew(a, c, x[1], st, g, Upto(c[5], rangeOf(st, g.last + 1, MaxID)))
    ELSE a
XreadgroupReply(c, z) == Dirty(z.s, IF z.r # <<>> THEN z.r ELSE IF c[7] THEN MustBlock ELSE Nil, z.p, {})
xreadgroupCommand(s, c) ==
    IF \E i \in DOMAIN c[4] : checkType(s, c[4][i][1], "stream") THEN Reply(s, WrongType)
    ELSE IF \E i \in DOMAIN c[4] : ~HasGroup(s, c[4][i][1], c[2]) THEN Reply(s, "NOGROUP")
    ELSE XreadgroupReply(c,
           FoldLeft(LAMBDA a, x : ReadGroup(a, c, x, Get(a.s, x[1]).v, streamCreateConsumer(Get(a.s, x[1]).v.cg[c[2]], c[3])),
                    [s |-> s, p |-> <<>>, r |-> <<>>], c[4]))

\* XGROUP subcommand key group ...; an ID of -1 is "$".
xgroupCommand(s, c) ==
    LET sub == c[2] k == c[3] gn == c[4] st == Stream(s, k) g == st.cg[gn]
        id == IF c[5] = -1 THEN st.last ELSE c[5]
        put(h) == putStream(s, k, [st EXCEPT !.cg = With(@, gn, h)])
        mk == sub = "CREATE" /\ c[7]
    IN  IF checkType(s, k, "stream") THEN Reply(s, WrongType)
        ELSE IF ~Has(s, k) /\ ~mk THEN Reply(s, "ERR The XGROUP subcommand requires the key to exist")
        ELSE IF sub \in {"SETID", "CREATECONSUMER", "DELCONSUMER"} /\ ~HasGroup(s, k, gn) THEN Reply(s, "NOGROUP")
        ELSE CASE sub = "CREATE" /\ gn \in DOMAIN st.cg -> Reply(s, "BUSYGROUP")
               [] sub = "CREATE" /\ gn \notin DOMAIN st.cg ->
                    Dirty(put([last |-> id, read |-> c[6], pel |-> <<>>, cons |-> <<>>]), Ok, <<c>>, IF Has(s, k) THEN {} ELSE {k})
               [] sub = "SETID" -> Dirty(put([g EXCEPT !.last = id, !.read = c[6]]), Ok, <<c>>, {})
               [] sub = "DESTROY" -> IF gn \in DOMAIN st.cg THEN Dirty(putStream(s, k, [st EXCEPT !.cg = Without(@, {gn})]), 1, <<c>>, {})
                                     ELSE Reply(s, 0)
               [] sub = "CREATECONSUMER" -> IF c[5] \in DOMAIN g.cons THEN Reply(s, 0)
                                            ELSE Dirty(put(streamCreateConsumer(g, c[5])), 1, <<c>>, {})
               [] sub = "DELCONSUMER" -> IF c[5] \in DOMAIN g.cons THEN Dirty(put(streamDelConsumer(g, c[5])), Cardinality(g.cons[c[5]]), <<c>>, {})
                                         ELSE Reply(s, 0)

\* XSETID key id entriesadded maxdeletedid (-1 and 0 when not given)
xsetidCommand(s, c) ==
    LET k == c[2] st == Stream(s, k)
    IN  IF c[3] < c[5] THEN Reply(s, "ERR The ID is smaller than the provided max_deleted_entry_id")
        ELSE IF ~Has(s, k) THEN Reply(s, "ERR no such key")
        ELSE IF checkType(s, k, "stream") THEN Reply(s, WrongType)
        ELSE IF st.len > 0 /\ (c[3] < streamLastValidID(st) \/ (c[4] # -1 /\ st.len > c[4])) THEN Reply(s, "ERR smaller")
        ELSE Dirty(putStream(s, k, [st EXCEPT !.last = c[3], !.added = IF c[4] # -1 THEN c[4] ELSE @,
                                               !.maxdel = IF c[5] # 0 THEN c[5] ELSE @]), Ok, <<c>>, {})

\* XACK key group ids
xackCommand(s, c) ==
    LET k == c[2] st == Stream(s, k) g == st.cg[c[3]] D == ToSet(c[4]) \cap DOMAIN g.pel
    IN  IF checkType(s, k, "stream") THEN Reply(s, WrongType)
        ELSE IF ~HasGroup(s, k, c[3]) THEN Reply(s, 0)
        ELSE IF D = {} THEN Reply(s, 0)
        ELSE Dirty(putStream(s, k, [st EXCEPT !.cg[c[3]] = FoldSet(LAMBDA id, h : DropNACK(h, id), g, D)]), Cardinality(D), <<c>>, {})

\* XPENDING key group start end count consumer minidle
xpendingCommand(s, c) ==
    LET g == Stream(s, c[2]).cg[c[3]]
        own == IF c[7] = Nil THEN DOMAIN g.pel ELSE IF c[7] \in DOMAIN g.cons THEN g.cons[c[7]] ELSE {}
        q == Ascending({id \in own : c[4] <= id /\ id <= c[5] /\ s.now - g.pel[id].t >= c[8]})
    IN  IF checkType(s, c[2], "stream") THEN Reply(s, WrongType)
        ELSE IF ~HasGroup(s, c[2], c[3]) THEN Reply(s, "NOGROUP")
        ELSE Reply(s, IF Len(q) > c[6] THEN SubSeq(q, 1, c[6]) ELSE q)

\* One ID of XCLAIM or XAUTOCLAIM: [g, p, r, del].  A pending entry that was deleted from the
\* stream is dropped, and the replicas learn it by a claim that finds no entry.
ClaimID(st, a, id, k, gn, cn, minidle, force, time, retry, justid, now) ==
    LET g == a.g there == id \in DOMAIN g.pel
        idle == there /\ minidle > 0 /\ now - g.pel[id].t < minidle
        n == IF retry >= 0 THEN retry ELSE (IF there THEN g.pel[id].n ELSE 1) + (IF justid THEN 0 ELSE 1)
    IN  IF ~streamEntryExists(st, id)
        THEN IF ~there THEN a
             ELSE [a EXCEPT !.g = DropNACK(g, id), !.p = Append(@, streamPropagateXCLAIM(k, gn, g, id)), !.del = Append(@, id)]
        ELSE IF (~there /\ ~force) \/ idle THEN a
        ELSE Claimed([a EXCEPT !.r = Append(@, id)], SetOwner(streamCreateConsumer(g, cn), id, cn, time, n), k, gn, id)

\* XCLAIM key group consumer minidle ids [time, retry, force, justid, last]
PutGroup(s, k, gn, g) == putStream(s, k, [Stream(s, k) EXCEPT !.cg[gn] = g])
XclaimReply(s, c, g, moved, z) ==
    Dirty(PutGroup(s, c[2], c[3], z.g), z.r, IF z.p = <<>> /\ moved THEN <<streamPropagateGroupID(c[2], c[3], g)>> ELSE z.p, {})
ClaimAll(s, c, st, g, moved) ==
    LET o == c[7] time == IF o.time < 0 \/ o.time > s.now THEN s.now ELSE o.time
    IN  XclaimReply(s, c, g, moved,
          FoldLeft(LAMBDA a, id : ClaimID(st, a, id, c[2], c[3], c[4], c[5], o.force, time, o.retry, o.justid, s.now),
                   [g |-> g, p |-> <<>>, r |-> <<>>, del |-> <<>>], c[6]))
xclaimCommand(s, c) ==
    LET k == c[2] gn == c[3] st == Stream(s, k) moved == c[7].last > st.cg[gn].last
    IN  IF checkType(s, k, "stream") THEN Reply(s, WrongType)
        ELSE IF ~HasGroup(s, k, gn) THEN Reply(s, "NOGROUP")
        ELSE ClaimAll(s, c, st, IF moved THEN [st.cg[gn] EXCEPT !.last = c[7].last] ELSE st.cg[gn], moved)

\* XAUTOCLAIM key group consumer minidle start count justid: at most count entries claimed or
\* dropped, of at most 10 * count looked at.
AutoclaimReply(s, c, q, z) ==
    Dirty(PutGroup(s, c[2], c[3], z.x.g),
          [cursor |-> IF z.n = Len(q) THEN 0 ELSE q[z.n + 1], ids |-> z.x.r, del |-> z.x.del], z.x.p, {})
Autoclaim(s, c, st, g, q) ==
    AutoclaimReply(s, c, q,
      FoldLeft(LAMBDA a, id :
                 IF a.n = 10 * c[7] \/ Len(a.x.r) + Len(a.x.del) = c[7] THEN a
                 ELSE [n |-> a.n + 1, x |-> ClaimID(st, a.x, id, c[2], c[3], c[4], c[5], FALSE, s.now, -1, c[8], s.now)],
               [n |-> 0, x |-> [g |-> g, p |-> <<>>, r |-> <<>>, del |-> <<>>]], q))
xautoclaimCommand(s, c) ==
    LET k == c[2] gn == c[3] st == Stream(s, k) g == st.cg[gn]
    IN  IF checkType(s, k, "stream") THEN Reply(s, WrongType)
        ELSE IF ~HasGroup(s, k, gn) THEN Reply(s, "NOGROUP")
        ELSE Autoclaim(s, c, st, g, Ascending({id \in DOMAIN g.pel : id >= c[6]}))

\* XINFO STREAM key: the groups with their lag.
xinfoReplyWithStreamInfo(s, c) ==
    LET st == Stream(s, c[2])
    IN  IF ~Has(s, c[2]) THEN Reply(s, "ERR no such key") ELSE IF checkType(s, c[2], "stream") THEN Reply(s, WrongType)
        ELSE Reply(s, [len |-> st.len, first |-> st.first, last |-> st.last, added |-> st.added,
                       groups |-> [g \in DOMAIN st.cg |-> [pending |-> Cardinality(DOMAIN st.cg[g].pel), lag |-> streamReplyWithCGLag(st, st.cg[g])]]])

StreamCommands(s, c) ==
    CASE c[1] = "XADD" -> xaddCommand(s, c)
      [] c[1] = "XTRIM" -> xtrimCommand(s, c)
      [] c[1] = "XDEL" -> xdelCommand(s, c)
      [] c[1] = "XRANGE" -> xrangeGenericCommand(s, c, FALSE)
      [] c[1] = "XREVRANGE" -> xrangeGenericCommand(s, c, TRUE)
      [] c[1] = "XLEN" -> xlenCommand(s, c)
      [] c[1] = "XREAD" -> xreadCommand(s, c)
      [] c[1] = "XREADGROUP" -> xreadgroupCommand(s, c)
      [] c[1] = "XGROUP" -> xgroupCommand(s, c)
      [] c[1] = "XSETID" -> xsetidCommand(s, c)
      [] c[1] = "XACK" -> xackCommand(s, c)
      [] c[1] = "XPENDING" -> xpendingCommand(s, c)
      [] c[1] = "XCLAIM" -> xclaimCommand(s, c)
      [] c[1] = "XAUTOCLAIM" -> xautoclaimCommand(s, c)
      [] c[1] = "XINFO" -> xinfoReplyWithStreamInfo(s, c)
=============================================================================
