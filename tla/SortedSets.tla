----------------------------- MODULE SortedSets -----------------------------
(***************************************************************************)
(* The sorted set commands (t_zset.c).  A sorted set is the function from  *)
(* its elements to their scores; the order of a listpack or of a skiplist  *)
(* is derived from it (SkipList models the list with its levels).  Scores  *)
(* are integers with the two infinities and the sums that are not numbers. *)
(* Elements compare as strings in the order of the integers that stand for *)
(* them.                                                                   *)
(***************************************************************************)
EXTENDS Sets

Inf == 1000
NaN == 9999

\* Addition and multiplication of doubles.
FAdd(x, y) ==
    IF {x, y} = {Inf, -Inf} THEN NaN ELSE IF Inf \in {x, y} THEN Inf ELSE IF -Inf \in {x, y} THEN -Inf ELSE x + y
FMul(x, y) ==
    IF {x, y} \cap {Inf, -Inf} = {} THEN x * y
    ELSE IF 0 \in {x, y} THEN NaN ELSE IF (x < 0) = (y < 0) THEN Inf ELSE -Inf

Scores(s, k) == IF Has(s, k) THEN Get(s, k).v ELSE <<>>
zsetCmp(a, b) == a[2] < b[2] \/ (a[2] = b[2] /\ a[1] < b[1])
Sorted(v) == SetToSortSeq({<<e, v[e]>> : e \in DOMAIN v}, zsetCmp)

zsetTypeCreate(e) == Obj("zset", IF MaxListpack = 0 \/ e >= LongElement THEN "skiplist" ELSE "listpack", <<>>)
zsetConvertToListpackIfNeeded(v) ==
    Obj("zset", IF Cardinality(DOMAIN v) <= MaxListpack /\ \A e \in DOMAIN v : e < LongElement
                THEN "listpack" ELSE "skiplist", v)

AddFlag(o, new, e, opts) ==
    IF e \notin DOMAIN o.v THEN IF "XX" \in opts THEN "nop" ELSE "added"
    ELSE IF "NX" \in opts THEN "nop"
    ELSE IF new = NaN THEN "nan"
    ELSE IF ("LT" \in opts /\ new >= o.v[e]) \/ ("GT" \in opts /\ new <= o.v[e]) THEN "nop"
    ELSE IF new = o.v[e] THEN "same" ELSE "updated"
ZsetStore(o, new, e, flag) ==
    LET big == e \notin DOMAIN o.v /\ (Cardinality(DOMAIN o.v) + 1 > MaxListpack \/ e >= LongElement)
    IN  [o |-> IF flag \in {"added", "updated"}
               THEN [o EXCEPT !.v = With(@, e, new), !.enc = IF big THEN "skiplist" ELSE @] ELSE o,
         flag |-> flag, score |-> new]
ZsetAddScore(o, new, e, opts) == ZsetStore(o, new, e, AddFlag(o, new, e, opts))
zsetAdd(o, score, e, opts) ==
    ZsetAddScore(o, IF e \in DOMAIN o.v /\ "INCR" \in opts THEN FAdd(o.v[e], score) ELSE score, e, opts)

\* One element more, with r what zsetAdd made of it, and the reply and the propagation at the end.
ZaddCount(a, r) ==
    [o |-> r.o, score |-> r.score, nan |-> r.flag = "nan", nop |-> r.flag = "nop",
     added |-> a.added + IF r.flag = "added" THEN 1 ELSE 0,
     updated |-> a.updated + IF r.flag = "updated" THEN 1 ELSE 0]
ZaddReply(s, c, z) ==
    LET r == IF "INCR" \in c[3] THEN IF z.nop THEN Nil ELSE z.score
             ELSE IF "CH" \in c[3] THEN z.added + z.updated ELSE z.added
        w == setKey(s, c[2], z.o, TRUE)
    IN  IF z.nan THEN Reply(w, "ERR resulting score is not a number (NaN)")
        ELSE IF z.added + z.updated = 0 THEN Reply(w, r)
        ELSE Dirty(w, r, <<c>>, {c[2]})
\* ZADD/ZINCRBY key options <<score, element>>s
zaddGenericCommand(s, c) ==
    LET k == c[2] opts == c[3] pairs == c[4] incr == "INCR" \in opts
        o == IF Has(s, k) THEN Get(s, k) ELSE zsetTypeCreate(pairs[1][2])
    IN  IF \/ {"NX", "XX"} \subseteq opts \/ Cardinality(opts \cap {"NX", "GT", "LT"}) > 1
           \/ incr /\ Len(pairs) > 1 THEN Reply(s, SyntaxErr)
        ELSE IF checkType(s, k, "zset") THEN Reply(s, WrongType)
        ELSE IF ~Has(s, k) /\ "XX" \in opts THEN Reply(s, IF incr THEN Nil ELSE 0)
        ELSE ZaddReply(s, c, FoldLeft(LAMBDA a, p : ZaddCount(a, zsetAdd(a.o, p[1], p[2], opts)),
                       [o |-> o, score |-> 0, nan |-> FALSE, nop |-> FALSE, added |-> 0, updated |-> 0], pairs))

\* What ZREM, ZREMRANGEBY... and ZPOP... leave of a sorted set.
Removed(s, k, D) == Update(s, k, [Get(s, k) EXCEPT !.v = Without(@, D)], D = DOMAIN Get(s, k).v)

\* ZREM key elements
zremCommand(s, c) ==
    LET k == c[2] D == DOMAIN Scores(s, k) \cap ToSet(c[3])
    IN  IF checkType(s, k, "zset") THEN Reply(s, WrongType)
        ELSE IF D = {} THEN Reply(s, 0) ELSE Dirty(Removed(s, k, D), Cardinality(D), <<c>>, {k})

---------------------------------------------------------------------------
(***************************************************************************)
(* Ranges: by = "RANK", "SCORE" or "LEX"; [min, minex, max, maxex], where  *)
(* -Inf and Inf also stand for the strings "-" and "+".                    *)
(***************************************************************************)
KeyOf(p, by) == IF by = "SCORE" THEN p[2] ELSE p[1]
zslValueGteMin(x, r) == IF r.minex THEN x > r.min ELSE x >= r.min
zslValueLteMax(x, r) == IF r.maxex THEN x < r.max ELSE x <= r.max

zslIsInRange(q, r, by) ==
    /\ ~(r.min > r.max \/ (r.min = r.max /\ (r.minex \/ r.maxex)))
    /\ q # <<>>
    /\ zslValueGteMin(KeyOf(Last(q), by), r)
    /\ zslValueLteMax(KeyOf(Head(q), by), r)
\* The position of the first and the last element in range, 0 when there is none.
IfLteMax(q, r, by, i) == IF zslValueLteMax(KeyOf(q[i], by), r) THEN i ELSE 0
IfGteMin(q, r, by, i) == IF zslValueGteMin(KeyOf(q[i], by), r) THEN i ELSE 0
zslFirstInRange(q, r, by) ==
    IF ~zslIsInRange(q, r, by) THEN 0 ELSE IfLteMax(q, r, by, Min({j \in DOMAIN q : zslValueGteMin(KeyOf(q[j], by), r)}))
zslLastInRange(q, r, by) ==
    IF ~zslIsInRange(q, r, by) THEN 0 ELSE IfGteMin(q, r, by, Max({j \in DOMAIN q : zslValueLteMax(KeyOf(q[j], by), r)}))

\* Start and end of a range of ranks in n elements, as positions from 0; start > end when empty.
RankRange(n, start, end) ==
    LET a == IF start >= 0 THEN start ELSE IF n + start < 0 THEN 0 ELSE n + start
        b == IF end < 0 THEN n + end ELSE end
    IN  IF a > b \/ a >= n THEN [a |-> 1, b |-> 0] ELSE [a |-> a, b |-> IF b >= n THEN n - 1 ELSE b]

\* ZREMRANGEBYRANK/SCORE/LEX key range
WhileLteMax(q, f, r, by) == IF f = 0 THEN {} ELSE {i \in f..Len(q) : \A j \in f..i : zslValueLteMax(KeyOf(q[j], by), r)}
Ranks(g) == (g.a + 1)..(g.b + 1)
ZremrangeReply(s, c, q, I) ==
    IF I = {} THEN Reply(s, 0) ELSE Dirty(Removed(s, c[2], {q[i][1] : i \in I}), Cardinality(I), <<c>>, {c[2]})
ZremrangeOf(s, c, by, q) ==
    ZremrangeReply(s, c, q, IF by = "RANK" THEN Ranks(RankRange(Len(q), c[3].min, c[3].max))
                            ELSE WhileLteMax(q, zslFirstInRange(q, c[3], by), c[3], by))
zremrangeGenericCommand(s, c, by) ==
    IF checkType(s, c[2], "zset") THEN Reply(s, WrongType) ELSE ZremrangeOf(s, c, by, Sorted(Scores(s, c[2])))

genericZrangebyrankCommand(q, r, reverse) ==
    LET n == Len(q) g == RankRange(n, r.min, r.max)
    IN  IF reverse THEN Reverse(SubSeq(q, n - g.b, n - g.a)) ELSE SubSeq(q, g.a + 1, g.b + 1)

\* Mutant: LIMIT counts from the start of the set.
genericZrangebyscoreCommand_OffsetFirst(q, r, by, offset, limit, reverse) ==
    LET seen == IF reverse THEN Reverse(q) ELSE q
        from == SubSeq(seen, offset + 1, Len(seen))
        in == SelectSeq(from, LAMBDA p : zslValueGteMin(KeyOf(p, by), r) /\ zslValueLteMax(KeyOf(p, by), r))
    IN  IF limit < 0 \/ limit > Len(in) THEN in ELSE SubSeq(in, 1, limit)

\* From the first (or last) in range, skip offset, then at most limit while the other bound
\* holds; a negative limit never reaches zero, a negative offset runs off the end.
ZskipOffset(q, by, start, offset, reverse) ==
    IF start = 0 \/ offset < 0 \/ (by = "SCORE" /\ offset > 0 /\ offset >= Len(q)) THEN <<>>
    ELSE IF reverse THEN Reverse(SubSeq(q, 1, start - offset)) ELSE SubSeq(q, start + offset, Len(q))
ZwithinBound(q, r, by, reverse) ==
    {i \in DOMAIN q : \A j \in 1..i : IF reverse THEN zslValueGteMin(KeyOf(q[j], by), r) ELSE zslValueLteMax(KeyOf(q[j], by), r)}
Zlimit(q, n, limit) == SubSeq(q, 1, IF limit >= 0 /\ limit < n THEN limit ELSE n)
ZlimitRun(q, r, by, limit, reverse) == Zlimit(q, Cardinality(ZwithinBound(q, r, by, reverse)), limit)
genericZrangebyscoreCommand(q, r, by, offset, limit, reverse) ==
    ZlimitRun(ZskipOffset(q, by, IF reverse THEN zslLastInRange(q, r, by) ELSE zslFirstInRange(q, r, by), offset, reverse), r, by, limit, reverse)

\* The same walk where elements compare as strings; no length is asked for first.
genericZrangebylexCommand(q, r, offset, limit, reverse) == genericZrangebyscoreCommand(q, r, "LEX", offset, limit, reverse)

\* ZRANGE/ZRANGESTORE key range by reverse offset limit destination; with REV the code swaps
\* min and max back, so that the range here is already the one it searches.
ZrangeReply(s, c, res) ==
    LET dst == c[8] big == c[4] = "RANK" /\ Len(res) > MaxListpack
        o == FoldLeft(LAMBDA z, p : zsetAdd(z, p[2], p[1], {}).o,
                      Obj("zset", IF big THEN "skiplist" ELSE "listpack", <<>>), res)
    IN  IF dst = Nil THEN Reply(s, res)
        ELSE IF res # <<>> THEN Dirty(setKey(s, dst, o, FALSE), Len(res), <<c>>, {dst})
        ELSE IF Has(s, dst) THEN Dirty(dbGenericDelete(s, {dst}), 0, <<c>>, {dst}) ELSE Reply(s, 0)
ZrangeOf(c, q) ==
    CASE c[4] = "RANK" -> genericZrangebyrankCommand(q, c[3], c[5])
      [] c[4] = "LEX" -> genericZrangebylexCommand(q, c[3], c[6], c[7], c[5])
      [] c[4] = "SCORE" -> genericZrangebyscoreCommand(q, c[3], "SCORE", c[6], c[7], c[5])
zrangeGenericCommand(s, c) ==
    IF c[4] = "RANK" /\ c[7] # -1 THEN Reply(s, SyntaxErr)
    ELSE IF checkType(s, c[2], "zset") THEN Reply(s, WrongType)
    ELSE ZrangeReply(s, c, ZrangeOf(c, Sorted(Scores(s, c[2]))))

\* ZCOUNT/ZLEXCOUNT key range: a walk of the listpack; two ranks of the skiplist.
CountRanks(n, f, l) == n - (f - 1) - IF l > 0 THEN n - l ELSE 0
CountFrom(q, f, r, by, enc) ==
    IF f = 0 THEN 0 ELSE IF enc = "listpack" THEN Cardinality(WhileLteMax(q, f, r, by)) ELSE CountRanks(Len(q), f, zslLastInRange(q, r, by))
CountIn(q, r, by, enc) == CountFrom(q, zslFirstInRange(q, r, by), r, by, enc)
zcountCommand(s, c, by) ==
    Reply(s, IF checkType(s, c[2], "zset") THEN WrongType
             ELSE IF ~Has(s, c[2]) THEN 0 ELSE CountIn(Sorted(Scores(s, c[2])), c[3], by, Get(s, c[2]).enc))
zlexcountCommand(s, c) == zcountCommand(s, c, "LEX")

zcardCommand(s, c) == Reply(s, IF checkType(s, c[2], "zset") THEN WrongType ELSE Cardinality(DOMAIN Scores(s, c[2])))
\* ZSCORE and ZMSCORE key elements
zmscoreCommand(s, c) ==
    LET v == Scores(s, c[2])
    IN  Reply(s, IF checkType(s, c[2], "zset") THEN WrongType
                 ELSE [e \in ToSet(c[3]) |-> IF e \in DOMAIN v THEN v[e] ELSE Nil])
zrankGenericCommand(s, c, reverse) ==
    LET q == Sorted(Scores(s, c[2])) I == {i \in DOMAIN q : q[i][1] = c[3]}
    IN  Reply(s, IF checkType(s, c[2], "zset") THEN WrongType
                 ELSE IF I = {} THEN Nil ELSE IF reverse THEN Len(q) - Min(I) ELSE Min(I) - 1)

---------------------------------------------------------------------------
(***************************************************************************)
(* ZUNION, ZINTER and ZDIFF.  c = <<name, keys, destination or Nil,        *)
(* weights, aggregate, limit>>; the sources are sets or sorted sets.       *)
(***************************************************************************)
Source(s, k, w) ==
    LET o == Get(s, k)
    IN  [k |-> k, w |-> w,
         v |-> IF ~Has(s, k) THEN <<>> ELSE IF o.t = "set" THEN [e \in o.v |-> 1] ELSE o.v]
zuiLength(src) == Cardinality(DOMAIN src.v)

NoNaN(x) == IF x = NaN THEN 0 ELSE x
zunionInterAggregate(x, y, aggr) ==
    IF aggr = "SUM" THEN NoNaN(FAdd(x, y)) ELSE IF (aggr = "MIN") = (y < x) THEN y ELSE x

zunionInter(src, aggr, op) ==
    LET all == {i \in DOMAIN src : zuiLength(src[i]) > 0}
        E == IF op = "UNION" THEN UNION {DOMAIN src[i].v : i \in all}
             ELSE {e \in DOMAIN src[1].v : \A i \in DOMAIN src : e \in DOMAIN src[i].v}
        vals(e) == LET in == SelectSeq(src, LAMBDA x : e \in DOMAIN x.v)
                   IN  [i \in DOMAIN in |-> IF i = 1 \/ op = "UNION" THEN NoNaN(FMul(in[i].w, in[i].v[e]))
                                            ELSE FMul(in[i].w, in[i].v[e])]
    IN  [e \in E |-> FoldLeft(LAMBDA x, y : zunionInterAggregate(x, y, aggr), vals(e)[1], Tail(vals(e)))]

zdiffAlgorithm1(src) ==
    LET others == SortSeq(Tail(src), LAMBDA a, b : zuiLength(a) > zuiLength(b))
        D == {e \in DOMAIN src[1].v : \A i \in DOMAIN others : e \notin DOMAIN others[i].v}
    IN  [e \in D |-> src[1].v[e]]
zdiffAlgorithm2(src) ==
    FoldLeft(LAMBDA v, x : IF DOMAIN v = {} THEN v ELSE Without(v, DOMAIN x.v), src[1].v, Tail(src))
zsetChooseDiffAlgorithm(src) ==
    LET one == (Len(src) * zuiLength(src[1])) \div 2
        two == MapThenSumSet(LAMBDA i : zuiLength(src[i]), DOMAIN src)
    IN  IF \E i \in 2..Len(src) : src[i].k = src[1].k THEN 0 ELSE IF one <= two THEN 1 ELSE 2
DiffBy(src, algo) == IF algo = 0 THEN <<>> ELSE IF algo = 1 THEN zdiffAlgorithm1(src) ELSE zdiffAlgorithm2(src)
zdiff(src) == IF zuiLength(src[1]) = 0 THEN <<>> ELSE DiffBy(src, zsetChooseDiffAlgorithm(src))

ZcombineOf(src, c, op) ==
    IF op = "DIFF" THEN zdiff(src) ELSE zunionInter(SortSeq(src, LAMBDA a, b : zuiLength(a) < zuiLength(b)), c[5], op)
ZcombineReply(s, c, v) ==
    LET dst == c[3] n == Cardinality(DOMAIN v)
    IN  IF c[1] = "ZINTERCARD" THEN Reply(s, IF c[6] > 0 /\ n > c[6] THEN c[6] ELSE n)
        ELSE IF dst = Nil THEN Reply(s, Sorted(v))
        ELSE IF n > 0 THEN Dirty(setKey(s, dst, zsetConvertToListpackIfNeeded(v), FALSE), n, <<c>>, {dst})
        ELSE IF Has(s, dst) THEN Dirty(dbGenericDelete(s, {dst}), 0, <<c>>, {dst}) ELSE Reply(s, 0)
zunionInterDiffGenericCommand(s, c, op) ==
    IF \E i \in DOMAIN c[2] : Has(s, c[2][i]) /\ Get(s, c[2][i]).t \notin {"set", "zset"} THEN Reply(s, WrongType)
    ELSE ZcombineReply(s, c, ZcombineOf([i \in DOMAIN c[2] |-> Source(s, c[2][i], c[4][i])], c, op))

---------------------------------------------------------------------------
(***************************************************************************)
(* Pops, blocking pops and random members.                                 *)
(***************************************************************************)
PopCommand(where) == IF where = "MIN" THEN "ZPOPMIN" ELSE "ZPOPMAX"

\* count elements from an end of the first key that is there; the stream gets p.
PopEnd(q, where, n) == IF where = "MIN" THEN SubSeq(q, 1, n) ELSE Reverse(SubSeq(q, Len(q) - n + 1, Len(q)))
Popped(s, k, out, p) == Dirty(Removed(s, k, {out[i][1] : i \in DOMAIN out}), <<k, out>>, <<p>>, {k})
PopCount(q, count) == IF count > Len(q) THEN Len(q) ELSE count
genericZpopCommand(s, k, where, count, Stream(_)) ==
    LET q == Sorted(Scores(s, k)) n == PopCount(q, count) IN Popped(s, k, PopEnd(q, where, n), Stream(n))

\* ZPOPMIN/ZPOPMAX key count
zpopMinMaxCommand(s, c, where) ==
    LET k == c[2] count == IF c[3] = Nil THEN 1 ELSE c[3]
    IN  IF count < 0 THEN Reply(s, "ERR value is out of range, must be positive")
        ELSE IF ~Has(s, k) THEN Reply(s, <<>>)
        ELSE IF checkType(s, k, "zset") THEN Reply(s, WrongType)
        ELSE IF count = 0 THEN Reply(s, <<>>)
        ELSE genericZpopCommand(s, k, where, count, LAMBDA n : c)

\* ZMPOP/BZPOPMIN/BZPOPMAX/BZMPOP keys where count, count = -1 for the two in the middle; the
\* stream gets the pop of the one key.
zmpopGenericCommand(s, c, missing) ==
    LET i == FirstKey(s, c[2]) k == c[2][i] name == PopCommand(c[3])
    IN  IF i = 0 THEN Reply(s, missing)
        ELSE IF checkType(s, k, "zset") THEN Reply(s, WrongType)
        ELSE IF c[4] = -1 THEN genericZpopCommand(s, k, c[3], 1, LAMBDA n : <<name, k, Nil>>)
        ELSE genericZpopCommand(s, k, c[3], c[4], LAMBDA n : <<name, k, n>>)

\* With no key to pop from the client blocks.
blockingGenericZpopCommand(s, c) == zmpopGenericCommand(s, c, MustBlock)

\* ZRANDMEMBER key count
zrandmemberWithCountCommand(s, c) ==
    LET E == DOMAIN Scores(s, c[2])
        n == IF c[3] < 0 THEN -c[3] ELSE IF c[3] > Cardinality(E) THEN Cardinality(E) ELSE c[3]
    IN  IF checkType(s, c[2], "zset") THEN Reply(s, WrongType)
        ELSE Reply(s, IF E = {} \/ n = 0 THEN {} ELSE RandomElements(E, n, s.rnd))

ZsetCommands(s, c) ==
    CASE c[1] \in {"ZADD", "ZINCRBY"} -> zaddGenericCommand(s, c)
      [] c[1] = "ZREM" -> zremCommand(s, c)
      [] c[1] \in {"ZREMRANGEBYRANK", "ZREMRANGEBYSCORE", "ZREMRANGEBYLEX"} ->
           zremrangeGenericCommand(s, c, CASE c[1] = "ZREMRANGEBYRANK" -> "RANK" [] c[1] = "ZREMRANGEBYSCORE" -> "SCORE" [] OTHER -> "LEX")
      [] c[1] \in {"ZRANGE", "ZRANGESTORE"} -> zrangeGenericCommand(s, c)
      [] c[1] = "ZCOUNT" -> zcountCommand(s, c, "SCORE")
      [] c[1] = "ZLEXCOUNT" -> zlexcountCommand(s, c)
      [] c[1] = "ZCARD" -> zcardCommand(s, c)
      [] c[1] = "ZMSCORE" -> zmscoreCommand(s, c)
      [] c[1] \in {"ZRANK", "ZREVRANK"} -> zrankGenericCommand(s, c, c[1] = "ZREVRANK")
      [] c[1] \in {"ZUNION", "ZUNIONSTORE", "ZINTER", "ZINTERSTORE", "ZINTERCARD", "ZDIFF", "ZDIFFSTORE"} ->
           zunionInterDiffGenericCommand(s, c, CASE c[1] \in {"ZUNION", "ZUNIONSTORE"} -> "UNION" [] c[1] \in {"ZDIFF", "ZDIFFSTORE"} -> "DIFF" [] OTHER -> "INTER")
      [] c[1] \in {"ZPOPMIN", "ZPOPMAX"} -> zpopMinMaxCommand(s, c, IF c[1] = "ZPOPMIN" THEN "MIN" ELSE "MAX")
      [] c[1] \in {"ZMPOP", "BZPOPMIN", "BZPOPMAX", "BZMPOP"} -> zmpopGenericCommand(s, c, IF c[1] = "ZMPOP" THEN Nil ELSE MustBlock)
      [] c[1] = "ZRANDMEMBER" -> zrandmemberWithCountCommand(s, c)
=============================================================================
