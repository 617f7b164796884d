------------------------------ MODULE Commands ------------------------------
(***************************************************************************)
(* A server executes the commands of its clients, a replica executes what  *)
(* the server propagates, and an AOF rewrite writes the data set out as    *)
(* commands again (call() in server.c, rewriteAppendOnlyFileRio() in       *)
(* aof.c).  Both copies must hold what the server holds.                   *)
(***************************************************************************)
EXTENDS CommandTable

(***************************************************************************)
(* aof.c: the rewrite.  At most ItemsPerCmd elements go into one command.  *)
(***************************************************************************)
CONSTANT ItemsPerCmd     \* AOF_REWRITE_ITEMS_PER_CMD

Chunks(q) ==
    [i \in 1..((Len(q) + ItemsPerCmd - 1) \div ItemsPerCmd) |->
       SubSeq(q, (i - 1) * ItemsPerCmd + 1, Min({i * ItemsPerCmd, Len(q)}))]
InCommands(q, F(_)) == LET ch == Chunks(q) IN [i \in DOMAIN ch |-> F(ch[i])]

rewriteListObject(k, o) == InCommands(o.v, LAMBDA q : <<"RPUSH", k, q>>)
rewriteSetObject(k, o, rnd) == InCommands(Iterate(o.enc, o.v, rnd), LAMBDA q : <<"SADD", k, q>>)
rewriteSortedSetObject(k, o, rnd) ==
    LET q == Sorted(o.v) d == IF o.enc = "skiplist" /\ rnd % 2 = 1 THEN Reverse(q) ELSE q
    IN  InCommands([i \in DOMAIN d |-> <<d[i][2], d[i][1]>>], LAMBDA x : <<"ZADD", k, {}, x>>)
rewriteHashObject(k, o, rnd) ==
    LET f == Iterate(o.enc, DOMAIN o.v, rnd)
    IN  InCommands([i \in DOMAIN f |-> <<f[i], o.v[f[i]]>>], LAMBDA x : <<"HSET", k, x>>)

rioWriteStreamPendingEntry(k, gn, cn, id, nack) ==
    <<"XCLAIM", k, gn, cn, 0, <<id>>, [time |-> nack.t, retry |-> nack.n, force |-> TRUE, justid |-> TRUE, last |-> 0]>>
rioWriteStreamEmptyConsumer(k, gn, cn) == <<"XGROUP", "CREATECONSUMER", k, gn, cn>>

\* Mutant: the counters of the stream are not written.
rewriteStreamIds_No(k, st) == <<>>
rewriteStreamIds(k, st) == <<<<"XSETID", k, st.last, st.added, st.maxdel>>>>
\* The entries (or one that is trimmed at once), the IDs, then the groups with their consumers.
rewriteStreamObject(k, o) ==
    LET st == o.v q == Live(All(st))
        entries == IF st.len > 0 THEN [i \in DOMAIN q |-> <<"XADD", k, <<"id", q[i].id>>, q[i].f, NoTrim, FALSE>>]
                   ELSE <<<<"XADD", k, <<"id", 1>>, 0, [NoTrim EXCEPT !.by = "maxlen"], FALSE>>>>
        consumer(gn, cn) ==
          LET g == st.cg[gn] own == Ascending(g.cons[cn])
          IN  IF own = <<>> THEN <<rioWriteStreamEmptyConsumer(k, gn, cn)>>
              ELSE [i \in DOMAIN own |-> rioWriteStreamPendingEntry(k, gn, cn, own[i], g.pel[own[i]])]
        group(gn) ==
          LET cs == SetToSeq(DOMAIN st.cg[gn].cons)
          IN  <<<<"XGROUP", "CREATE", k, gn, st.cg[gn].last, st.cg[gn].read, FALSE>>>>
              \o FlattenSeq([i \in DOMAIN cs |-> consumer(gn, cs[i])])
        gs == SetToSeq(DOMAIN st.cg)
    IN  entries \o rewriteStreamIds(k, st) \o FlattenSeq([i \in DOMAIN gs |-> group(gs[i])])

\* The value of an HLL is written as the bytes of its string.
rewriteStringObject(k, o) == <<<<IF o.enc = "hll" THEN "RAW" ELSE "SET", k, o.v, {}, 0>>>>

rewriteObject(k, o, rnd) ==
    CASE o.t = "string" -> rewriteStringObject(k, o)
      [] o.t = "list" -> rewriteListObject(k, o)
      [] o.t = "set" -> rewriteSetObject(k, o, rnd)
      [] o.t = "zset" -> rewriteSortedSetObject(k, o, rnd)
      [] o.t = "hash" -> rewriteHashObject(k, o, rnd)
      [] o.t = "stream" -> rewriteStreamObject(k, o)

rewriteAppendOnlyFileRio(s) ==
    LET keys == SetToSeq(DOMAIN s.db)
        one(x) == LET p == rewriteObject(x[2], s.db[x], s.rnd)
                        \o (IF x \in DOMAIN s.ex THEN <<<<"PEXPIREAT", x[2], s.ex[x], {}>>>> ELSE <<>>)
                  IN  [i \in DOMAIN p |-> <<x[1], p[i]>>]
    IN  FlattenSeq([i \in DOMAIN keys |-> one(keys[i])])

\* The server that loads what the rewrite wrote.
Reloaded(s) == Replay([NewServer("loading") EXCEPT !.now = s.now + 1], rewriteAppendOnlyFileRio(s))

---------------------------------------------------------------------------
(***************************************************************************)
(* A client, the server and one replica.  The workload, chosen at first,   *)
(* fixes the commands; the keys keep within Limit elements.                *)
(***************************************************************************)
CONSTANTS
    Workloads,    \* the names of the workloads, each with its set of commands
    Queries,      \* the commands of each that only read
    MaxClock,     \* the last time of the clock
    Limit         \* the elements a value may have

VARIABLES
    scn,   \* the workload
    m,     \* the server
    rep    \* the replica

vars == <<scn, m, rep>>

\* The number of elements of a value.
Size(o) == CASE o.t \in {"list"} -> Len(o.v)
             [] o.t = "set" -> Cardinality(o.v)
             [] o.t \in {"zset", "hash"} -> Cardinality(DOMAIN o.v)
             [] o.t = "stream" -> o.v.added
             [] o.t = "string" -> 0
Redelivered(o) == o.t = "stream" /\ \E g \in DOMAIN o.v.cg : \E id \in DOMAIN o.v.cg[g].pel : o.v.cg[g].pel[id].n > 2
HighScore(o) == o.t = "zset" /\ \E e \in DOMAIN o.v : o.v[e] \notin {Inf, -Inf, NaN} /\ o.v[e] > Limit
Small(s) == \A x \in DOMAIN s.db : LET o == s.db[x] IN Size(o) <= Limit /\ ~Redelivered(o) /\ ~HighScore(o)

\* The replica executes what is propagated, later and with choices of its own.
Propagate(p) == rep' = [Replay([rep EXCEPT !.now = m.now + 1, !.rnd = 1], p) EXCEPT !.now = 1, !.rnd = 0]

Init == scn \in DOMAIN Workloads /\ m = NewServer("master") /\ rep = NewServer("replica")

\* The commands that choose at random or walk a hash table.
RandomNames == {"RANDOMKEY", "SPOP", "SINTERSTORE", "SUNIONSTORE", "SDIFFSTORE", "SORT"}
Executed(z) == Small(z.s) /\ m' = [z.s EXCEPT !.rnd = 0] /\ Propagate(z.p) /\ UNCHANGED scn
Command ==
    \E c \in Workloads[scn] : \E rnd \in IF c[1] \in RandomNames THEN 0..1 ELSE {0} :
      Executed(Execute([m EXCEPT !.rnd = rnd], c))
Tick == m.ex # <<>> /\ m.now < MaxClock /\ m' = [m EXCEPT !.now = @ + 1] /\ UNCHANGED <<scn, rep>>
ActiveExpire ==
    \E x \in DOMAIN m.ex : LET e == activeExpireCycle(m, {x}) IN m' = e.s /\ Propagate(e.p) /\ UNCHANGED scn

Next == Command \/ Tick \/ ActiveExpire
Spec == Init /\ [][Next]_vars

\* A replica that executes what the server propagates (SPOP as SREM, XADD with its ID, EXPIRE
\* as PEXPIREAT, an approximate trim as an exact one, expired keys as DEL, ...) holds the
\* same keys, values and expire times, whatever its clock, its random choices, its node
\* boundaries and the order of its hash tables.
ReplicaInSync == Data(rep) = Data(m) /\ rep.ex = m.ex

\* What the rewrite can write of the data: no pending entries whose message was deleted.
Durable(s) ==
    [x \in DOMAIN s.db |->
       LET o == s.db[x] h == Held(o)
           pel(g) == [id \in {i \in DOMAIN o.v.cg[g].pel : streamEntryExists(o.v, i)} |-> o.v.cg[g].pel[id]]
       IN  IF o.t # "stream" THEN <<o.t, h>>
           ELSE <<h[1], h[2], h[3], h[4], h[5], h[6], [g \in DOMAIN o.v.cg |-> <<o.v.cg[g].last, o.v.cg[g].read, pel(g)>>]>>]
Restored(w) == Durable(w) = Durable(m) /\ w.ex = m.ex

\* The commands an AOF rewrite writes build the same keys, values and expire times, for
\* values longer than one command takes and whatever the order of the hash tables.  Pending
\* entries whose message was deleted are the exception: XCLAIM cannot write them.
RewriteRestores == \A rnd \in 0..1 : Restored(Reloaded([m EXCEPT !.rnd = rnd]))

\* A list, set, sorted set or hash that has lost its last element is not in the key space, on
\* the server and on the replica.
NoEmptyContainer == \A s \in {m, rep} : \A x \in DOMAIN s.db : s.db[x].t \in {"string", "stream"} \/ Size(s.db[x]) > 0

HllFits(h) ==
    /\ h.card # Nil => h.card = hllRawRegHisto(Registers(h))
    /\ h.enc = "sparse" =>
         /\ Spans(h.ops) = HllRegisters /\ OpBytes(h.ops) <= HllSparseMaxBytes
         /\ \A i \in DOMAIN h.ops :
              LET op == h.ops[i]
              IN  Span(op) \in 1..[VAL |-> ValMaxLen, ZERO |-> ZeroMaxLen, XZERO |-> HllRegisters][op[1]] /\ (op[1] = "VAL" => op[2] \in 1..ValMaxValue)
\* Compact encodings stay within their limits however a value came to be (added to, moved,
\* stored by a set operation, kept by SPOP): an intset has integers only, a listpack no
\* long elements (and no score that is not a number), and neither more than it may have.  The opcodes of a sparse HyperLogLog
\* cover the registers once, each within its limits, and the count it caches is that of its
\* registers.
EncodingsFit ==
    \A s \in {m, rep} : \A x \in DOMAIN s.db :
      LET o == s.db[x]
      IN  CASE o.enc = "intset" -> Cardinality(o.v) <= MaxIntset /\ \A e \in o.v : IsNumber(e)
            [] o.enc = "listpack" -> /\ Cardinality(DOMAIN o.v) <= MaxListpack
                                     /\ \A e \in DOMAIN o.v : e < LongElement
                                     /\ o.t = "zset" => NaN \notin Range(o.v)
                                     /\ o.t = "hash" => \A e \in DOMAIN o.v : o.v[e] < LongElement
            [] o.enc = "int" -> string2ll(o.v)
            [] o.enc = "hll" -> HllFits(o.v)
            [] OTHER -> TRUE

\* The entries and the counters of a stream agree, and a pending entry of a group belongs to
\* exactly the consumer its NACK names, through claims, deletions and redeliveries.
StreamConsistent ==
    \A s \in {m, rep} : \A x \in {y \in DOMAIN s.db : s.db[y].t = "stream"} :
      LET st == s.db[x].v q == Live(All(st))
      IN  /\ st.len = Len(q) /\ st.added >= st.len
          /\ st.first = (IF q = <<>> THEN 0 ELSE q[1].id)
          /\ \A i \in DOMAIN q : q[i].id <= st.last /\ (i > 1 => q[i - 1].id < q[i].id)
          /\ \A g \in DOMAIN st.cg :
               LET cg == st.cg[g]
               IN  /\ DOMAIN cg.pel = UNION Range(cg.cons)
                   /\ \A c \in DOMAIN cg.cons : \A id \in cg.cons[c] : cg.pel[id].c = c

---------------------------------------------------------------------------
\* What a client sees of a key: the value (of a stream its entries) and the expire time.
Seen(s, x) ==
    IF x \notin DOMAIN s.db THEN <<>>
    ELSE LET o == s.db[x] IN <<IF o.enc = "hll" THEN "hll" ELSE o.t,
                             IF o.t = "stream" THEN Held(o)[1] ELSE IF o.enc = "hll" THEN Registers(o.v) ELSE o.v,
                             getExpire([s EXCEPT !.sel = x[1]], x[2])>>
Touched(s, t) == {x \in DOMAIN s.db \cup DOMAIN t.db : Seen(s, x) # Seen(t, x)}

Signalled(z) == Touched(m, z.s) \subseteq z.mod

\* The content of one value is part of that of another.
Within(a, b) ==
    \/ a = <<>>
    \/ /\ b # <<>> /\ a[1] = b[1]
       /\ CASE a[1] \in {"list", "stream"} -> \A e \in ToSet(a[2]) : Cardinality({i \in DOMAIN a[2] : a[2][i] = e}) <= Cardinality({i \in DOMAIN b[2] : b[2][i] = e})
            [] a[1] = "set" -> a[2] \subseteq b[2]
            [] a[1] \in {"hash", "zset"} -> \A e \in DOMAIN a[2] : e \in DOMAIN b[2] /\ a[2][e] = b[2][e]
            [] a[1] = "hll" -> \A i \in DOMAIN a[2] : a[2][i] <= b[2][i]
            [] a[1] = "string" -> IsPrefix(a[2], b[2])

\* What a command c did to the key x of t, with f the flags of its key specs for it: nothing
\* when it is read-only; an INSERT key only grows, a DELETE key only shrinks, and the new
\* value of an overwritten key does not depend on the old one.
FlagsHold(t, c, x, f, x0, x1, same) ==
    /\ f = RO => same \/ (x0 = <<>> /\ x1 = <<>>)
    /\ "INSERT" \in f /\ "DELETE" \notin f => Within(x0, x1)
    /\ "DELETE" \in f /\ "INSERT" \notin f => Within(x1, x0)
    /\ "OW" \in f /\ f \cap {"RO", "RW"} = {} /\ x0 # x1 /\ x0 # <<>> =>
         x1 = Seen(Proc([t EXCEPT !.db[x] = raw(<<9>>)], c).s, x)
KeySpecsHold(t, c, z, specs) ==
    \A x \in DOMAIN t.db \cup DOMAIN z.db :
      /\ z.db # t.db => (x \in DeclaredKeys(t, c) \cup OtherDb(c) \/ specs = {}) \/ Seen(t, x) = Seen(z, x)
      /\ FlagsHold(t, c, x, UNION {y[2] : y \in {w \in specs : w[1] = x[2]}}, Seen(t, x), Seen(z, x),
                   x \in DOMAIN z.db /\ x \in DOMAIN t.db /\ Held(t.db[x]) = Held(z.db[x]))
\* A command changes no key but those its key specs name, and does to them what the flags of
\* the specs allow.  XREADGROUP is the exception: its key is declared read-only, and it
\* changes the group.
KeySpecsHonest ==
    LET t == [m EXCEPT !.ex = <<>>]
    IN  \A c \in Workloads[scn] \cup Queries[scn] :
          c[1] # "XREADGROUP" => KeySpecsHold(t, c, Proc(t, c).s, getKeysFromCommandWithSpecs(c))

---------------------------------------------------------------------------
(***************************************************************************)
(* What some replies should be, from the value alone.                      *)
(***************************************************************************)
\* The bits of a range of a string: from and to count from the end when they are negative, and
\* are limited to the string.
BitsIn(v, start, end, unit) ==
    LET w == IF unit = "BIT" THEN 1 ELSE ByteBits
        n == Len(v) * (ByteBits \div w)
        lo == IF start < 0 THEN Max({n + start, 0}) ELSE start
        hi == IF end < 0 THEN Max({n + end, 0}) ELSE end
    IN  IF start < 0 /\ end < 0 /\ start > end THEN {} ELSE {i \in 0..(Len(v) * ByteBits - 1) : lo * w <= i /\ i < (hi + 1) * w}
\* The common subsequences of two strings.
Picks(a) == {[i \in 1..Cardinality(S) |-> a[Ascending(S)[i]]] : S \in SUBSET DOMAIN a}
\* The elements of a sorted set in a range, after offset and limit.
InOrder(v, r, by, rev, offset, limit) ==
    LET q == SelectSeq(Sorted(v), LAMBDA p : zslValueGteMin(KeyOf(p, by), r) /\ zslValueLteMax(KeyOf(p, by), r))
        d == IF rev THEN Reverse(q) ELSE q
        from == SubSeq(d, offset + 1, Len(d))
    IN  IF limit >= 0 /\ limit < Len(from) THEN SubSeq(from, 1, limit) ELSE from
\* The elements whose index is in a range, negative indexes counted from the end.
Indexed(q, start, end) ==
    LET n == Len(q) lo == IF start < 0 THEN n + start ELSE start hi == IF end < 0 THEN n + end ELSE end
        I == Ascending({i \in 1..n : lo <= i - 1 /\ i - 1 <= hi})
    IN  [i \in DOMAIN I |-> q[I[i]]]

ReplyCorrect(s, c, r) ==
    LET v == IF Has(s, c[2]) THEN Get(s, c[2]).v ELSE <<>>
    IN  r # WrongType =>
        CASE c[1] = "BITCOUNT" -> r = Cardinality({i \in BitsIn(v, c[3], c[4], c[5]) : Bit(v, i) = 1})
          [] c[1] = "BITPOS" ->
               LET P == {i \in BitsIn(v, c[4], IF c[5] = Nil THEN Len(v) ELSE c[5], c[6]) : Bit(v, i) = c[3]}
               IN  IF P # {} THEN r = Min(P)
                   ELSE r = IF c[3] = 0 /\ (v = <<>> \/ (c[5] = Nil /\ c[4] < Len(v))) THEN Len(v) * ByteBits ELSE -1
          [] c[1] = "LCS" ->
               LET b == Bytes(s, c[3]) n == Max({Len(p) : p \in Picks(v) \cap Picks(b)})
               IN  CASE c[4] = {} -> Len(r) = n /\ r \in Picks(v) \cap Picks(b)
                     [] c[4] = {"LEN"} -> r = n
                     [] OTHER -> /\ r[2] = n
                                 /\ \A i \in DOMAIN r[1] : LET t == r[1][i] IN
                                      SubSeq(v, t[1] + 1, t[2] + 1) = SubSeq(b, t[3] + 1, t[4] + 1)
                                 /\ c[5] = 0 => n = FoldLeft(LAMBDA x, t : x + t[2] - t[1] + 1, 0, r[1])
          [] c[1] = "LRANGE" -> r = Indexed(v, c[3], c[4])
          [] c[1] = "SINTER" -> r = {e \in Members(s, c[2][1]) : \A i \in DOMAIN c[2] : e \in Members(s, c[2][i])}
          [] c[1] = "SDIFF" -> r = {e \in Members(s, c[2][1]) : \A i \in 2..Len(c[2]) : e \notin Members(s, c[2][i])}
          [] c[1] = "SUNION" -> r = UNION {Members(s, c[2][i]) : i \in DOMAIN c[2]}
          [] c[1] = "ZRANGE" -> r = IF c[4] # "RANK" THEN InOrder(v, c[3], c[4], c[5], c[6], c[7])
                                    ELSE Indexed(IF c[5] THEN Reverse(Sorted(v)) ELSE Sorted(v), c[3].min, c[3].max)
          [] c[1] \in {"ZCOUNT", "ZLEXCOUNT"} -> r = Len(InOrder(v, c[3], IF c[1] = "ZCOUNT" THEN "SCORE" ELSE "LEX", FALSE, 0, -1))
          [] c[1] = "ZDIFF" -> r = Sorted([e \in {x \in DOMAIN Scores(s, c[2][1]) : \A i \in 2..Len(c[2]) : x \notin DOMAIN Scores(s, c[2][i])} |-> Scores(s, c[2][1])[e]])
          [] c[1] = "PFCOUNT" ->
               LET top(i) == Max({0} \cup {Registers(Get(s, k).v)[i] : k \in {x \in c[2] : Has(s, x)}})
               IN  r = [n \in 0..RegisterMax |-> Cardinality({i \in 1..HllRegisters : top(i) = n})]
          [] OTHER -> TRUE

\* BITFIELD: the sum in exact arithmetic, then wrapped, saturated or refused.
FieldCorrect(s, c, z) ==
    LET op == c[3][1] v == Bytes(s, c[2])
        lo == IF op.sign THEN -(2^(op.bits - 1)) ELSE 0
        hi == IF op.sign THEN 2^(op.bits - 1) - 1 ELSE 2^op.bits - 1
        old == FieldAt(v, op)
        sum == old + op.n
        res == IF sum \in lo..hi THEN sum ELSE IF op.ow = "SAT" THEN (IF sum > hi THEN hi ELSE lo) ELSE lo + ((sum - lo) % 2^op.bits)
        now == FieldAt(Bytes(z.s, c[2]), op)
        out == {i \in 0..(Len(Bytes(z.s, c[2])) * ByteBits - 1) : i < op.at \/ i >= op.at + op.bits}
    IN  op.op = "INCRBY" =>
          /\ z.r = <<res>> /\ now = res
          /\ \A i \in out : Bit(Bytes(z.s, c[2]), i) = IF i < Len(v) * ByteBits THEN Bit(v, i) ELSE 0

\* HyperLogLog: after PFADD and PFMERGE every register is the greatest value that was put into
\* it, in the sparse and in the dense form.
RegistersCorrect(s, c, z) ==
    LET old(k) == IF Has(s, k) THEN Registers(Get(s, k).v) ELSE [i \in 1..HllRegisters |-> 0]
        new == Registers(Get(z.s, c[2]).v)
        put(i) == IF c[1] = "PFADD" THEN {hllPatLen(e).count : e \in {x \in ToSet(c[3]) : hllPatLen(x).index = i - 1}}
                  ELSE {old(k)[i] : k \in c[3]}
    IN  c[1] \in {"PFADD", "PFMERGE"} => \A i \in 1..HllRegisters : new[i] = Max({old(c[2])[i]} \cup put(i))

\* GT and LT never move a score or an expire time the other way.
WriteCorrect(s, c, z) ==
    CASE c[1] = "BITFIELD" -> FieldCorrect(s, c, z)
      [] c[1] \in HllNames -> RegistersCorrect(s, c, z)
      [] c[1] = "INCRBY" -> z.s # s => z.r \in (-MaxLL - 1)..MaxLL
      [] c[1] = "ZADD" ->
           LET a == Scores(s, c[2]) b == Scores(z.s, c[2])
           IN  \A e \in DOMAIN a : ("GT" \in c[3] => b[e] >= a[e]) /\ ("LT" \in c[3] => b[e] <= a[e]) /\ ("NX" \in c[3] => b[e] = a[e])
      [] c[1] \in {"EXPIRE", "PEXPIRE", "EXPIREAT", "PEXPIREAT"} ->
           LET a == getExpire(s, c[2]) b == getExpire(z.s, c[2])
           IN  a # -1 /\ b # -1 => ("GT" \in c[4] => b >= a) /\ ("LT" \in c[4] => b <= a)
      [] OTHER -> TRUE

\* The commands that have an algorithm of their own do what the definition of the command
\* says: bit ranges that start or end inside a byte, the walk of LCS, both ways of SDIFF and
\* ZDIFF, ranges with LIMIT in both directions, the count PFCOUNT caches, BITFIELD with its
\* overflow modes, the registers PFADD and PFMERGE set, and the GT and LT options.
ResultsCorrect ==
    /\ \A c \in Queries[scn] : ReplyCorrect(m, c, Execute(m, c).r)
    /\ \A c \in Workloads[scn] : WriteCorrect(m, c, Execute(m, c))

=============================================================================
