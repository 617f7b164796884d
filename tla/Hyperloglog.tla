---------------------------- MODULE Hyperloglog ----------------------------
(***************************************************************************)
(* The HyperLogLog commands (hyperloglog.c).  The value of the string is   *)
(*   [enc   "sparse": ops, a sequence of <<kind, value, length>> with kind *)
(*          "ZERO" and "VAL" (one byte) or "XZERO" (two bytes);            *)
(*          "dense": reg, the registers packed into bytes,                 *)
(*    card  the cached count, Nil when it is not valid].                   *)
(* The estimate is a function of the histogram of the registers, which     *)
(* stands for it here.  An element hashes to a register and a run length.  *)
(***************************************************************************)
EXTENDS Strings

CONSTANTS
    HllRegisters,          \* HLL_REGISTERS
    HllSparseMaxBytes      \* hll-sparse-max-bytes, header not counted

HllBits == 3
RegisterMax == 2^HllBits - 1
ValMaxValue == 3
ValMaxLen == 2
ZeroMaxLen == 2

\* MurmurHash64A is external: the register and the count an element stands for.
hllPatLen(e) == [index |-> e % HllRegisters, count |-> 1 + ((e \div HllRegisters) % RegisterMax)]

\* HLL_DENSE_GET_REGISTER, HLL_DENSE_SET_REGISTER: a register may lie in two bytes.  There is
\* always a byte behind the last one, the terminator of the string.
DenseSize == (HllRegisters * HllBits + ByteBits - 1) \div ByteBits
GetRegister(reg, i) ==
    LET byte == (i * HllBits) \div ByteBits fb == (i * HllBits) % ByteBits
        b(j) == IF j < Len(reg) THEN reg[j + 1] ELSE 0
    IN  (b(byte) \div 2^fb + b(byte + 1) * 2^(ByteBits - fb)) % 2^HllBits

SetRegister(reg, i, v) ==
    LET byte == (i * HllBits) \div ByteBits fb == (i * HllBits) % ByteBits fb8 == ByteBits - fb
        over == IF fb + HllBits > ByteBits THEN fb + HllBits - ByteBits ELSE 0
        kept == IF fb + HllBits < ByteBits THEN (reg[byte + 1] \div 2^(fb + HllBits)) * 2^(fb + HllBits) ELSE 0
    IN  [j \in DOMAIN reg |->
           IF j = byte + 1 THEN (reg[j] % 2^fb) + ((v * 2^fb) % 2^ByteBits) + kept
           ELSE IF j = byte + 2 THEN (reg[j] \div 2^over) * 2^over + (v \div 2^fb8) ELSE reg[j]]

Index == [i \in 1..HllRegisters |-> i - 1]
ZeroRegisters == [i \in 1..DenseSize |-> 0]
hllDenseSet(reg, i, count) == IF count > GetRegister(reg, i) THEN SetRegister(reg, i, count) ELSE reg
hllDenseRegHisto(reg) == [v \in 0..RegisterMax |-> Cardinality({i \in 0..(HllRegisters - 1) : GetRegister(reg, i) = v})]

---------------------------------------------------------------------------
(***************************************************************************)
(* The sparse representation.                                              *)
(***************************************************************************)
Span(op) == op[3]
Spans(ops) == FoldLeft(LAMBDA n, op : n + Span(op), 0, ops)
OpBytes(ops) == FoldLeft(LAMBDA n, op : n + IF op[1] = "XZERO" THEN 2 ELSE 1, 0, ops)
ZeroOp(n) == IF n > ZeroMaxLen THEN <<"XZERO", 0, n>> ELSE <<"ZERO", 0, n>>
ValOp(v, n) == <<"VAL", v, n>>
\* The value of every register in turn.
SparseValues(ops) == FlattenSeq([j \in DOMAIN ops |-> [i \in 1..Span(ops[j]) |-> ops[j][2]]])

hllSparseToDense(ops) == FoldLeft(LAMBDA reg, i : SetRegister(reg, i, SparseValues(ops)[i + 1]), ZeroRegisters, Index)
hllSparseRegHisto(ops) ==
    [v \in 0..RegisterMax |-> FoldLeft(LAMBDA n, op : n + IF op[2] = v THEN Span(op) ELSE 0, 0, ops)]

\* At most five opcodes from the one before the change: equal values are joined.
MergeVals(ops, from) ==
    LET step(a, n) ==
          LET q == a.q p == a.p
          IN  IF p > Len(q) THEN a
              ELSE IF /\ q[p][1] = "VAL" /\ p < Len(q) /\ q[p + 1][1] = "VAL"
                      /\ q[p][2] = q[p + 1][2] /\ Span(q[p]) + Span(q[p + 1]) <= ValMaxLen
                   THEN [a EXCEPT !.q = SubSeq(q, 1, p - 1) \o <<ValOp(q[p][2], Span(q[p]) + Span(q[p + 1]))>> \o SubSeq(q, p + 2, Len(q))]
              ELSE [a EXCEPT !.p = @ + 1]
    IN  FoldLeft(step, [q |-> ops, p |-> from], <<1, 2, 3, 4, 5>>).q

\* An opcode split around one of its registers.
SplitOp(op, first, index, count) ==
    LET before == index - first after == first + Span(op) - 1 - index
        piece(n) == IF op[1] = "VAL" THEN ValOp(op[2], n) ELSE ZeroOp(n)
    IN  (IF before > 0 THEN <<piece(before)>> ELSE <<>>) \o <<ValOp(count, 1)>> \o (IF after > 0 THEN <<piece(after)>> ELSE <<>>)

\* [h, ok]: the value after the register was raised, and whether it was.
Promote(h, index, count) ==
    [h |-> [h EXCEPT !.enc = "dense", !.reg = hllDenseSet(hllSparseToDense(h.ops), index, count), !.ops = <<>>], ok |-> TRUE]
TooLong(ops, delta) == delta > 0 /\ OpBytes(ops) + delta > HllSparseMaxBytes
ReplaceOp(h, index, count, j, new) ==
    LET ops == h.ops
    IN  IF TooLong(ops, OpBytes(new) - OpBytes(<<ops[j]>>)) THEN Promote(h, index, count)
        ELSE [h |-> [h EXCEPT !.ops = MergeVals(SubSeq(ops, 1, j - 1) \o new \o SubSeq(ops, j + 1, Len(ops)), IF j > 1 THEN j - 1 ELSE 1),
                              !.card = Nil], ok |-> TRUE]
SetInOp(h, index, count, j) ==
    LET op == h.ops[j]
    IN  IF op[1] = "VAL" /\ op[2] >= count THEN [h |-> h, ok |-> FALSE]
        ELSE ReplaceOp(h, index, count, j, IF op[1] # "XZERO" /\ Span(op) = 1 THEN <<ValOp(count, 1)>>
                                           ELSE SplitOp(op, Spans(SubSeq(h.ops, 1, j - 1)), index, count))
hllSparseSet(h, index, count) ==
    IF count > ValMaxValue THEN Promote(h, index, count)
    ELSE SetInOp(h, index, count, Min({i \in DOMAIN h.ops : index <= Spans(SubSeq(h.ops, 1, i)) - 1}))

hllSet(h, index, count) ==
    IF h.enc = "sparse" THEN hllSparseSet(h, index, count)
    ELSE [h |-> [h EXCEPT !.reg = hllDenseSet(@, index, count)], ok |-> count > GetRegister(h.reg, index)]
hllAdd(h, e) == hllSet(h, hllPatLen(e).index, hllPatLen(e).count)

createHLLObject == [enc |-> "sparse", ops |-> <<<<"XZERO", 0, HllRegisters>>>>, reg |-> <<>>, card |-> Nil]
hll(h) == Obj("string", "hll", h)
isHLLObjectOrReply(s, k) == Has(s, k) => Get(s, k).t = "string" /\ Get(s, k).enc = "hll"

\* The registers of a value, and the maximum of some of them.
Registers(h) == [i \in 1..HllRegisters |-> IF h.enc = "dense" THEN GetRegister(h.reg, i - 1) ELSE SparseValues(h.ops)[i]]
hllMerge(s, K) ==
    [i \in 1..HllRegisters |-> Max({0} \cup {Registers(Get(s, k).v)[i] : k \in {x \in K : Has(s, x)}})]
\* hllRawRegHisto
hllRawRegHisto(max) == [v \in 0..RegisterMax |-> Cardinality({i \in DOMAIN max : max[i] = v})]
hllCount(h) == IF h.enc = "dense" THEN hllDenseRegHisto(h.reg) ELSE hllSparseRegHisto(h.ops)

---------------------------------------------------------------------------
Invalidate(h) == [h EXCEPT !.card = Nil]

\* PFADD key elements
PfaddReply(s, c, z) ==
    IF z.up THEN Dirty(setKey(s, c[2], hll(Invalidate(z.h)), TRUE), 1, <<c>>, {c[2]}) ELSE Reply(s, 0)
PfAdded(a, r) == [h |-> r.h, up |-> a.up \/ r.ok]
pfaddCommand(s, c) ==
    LET k == c[2] h == IF Has(s, k) THEN Get(s, k).v ELSE createHLLObject
    IN  IF ~isHLLObjectOrReply(s, k) THEN Reply(s, WrongType)
        ELSE PfaddReply(s, c, FoldLeft(LAMBDA a, e : PfAdded(a, hllAdd(a.h, e)), [h |-> h, up |-> ~Has(s, k)], c[3]))

\* PFCOUNT keys: of one key, with the count kept for the next time.
pfcountCommand(s, c) ==
    LET K == c[2] k == CHOOSE x \in K : TRUE h == Get(s, k).v
    IN  IF \E x \in K : ~isHLLObjectOrReply(s, x) THEN Reply(s, WrongType)
        ELSE IF Cardinality(K) > 1 THEN Reply(s, hllRawRegHisto(hllMerge(s, K)))
        ELSE IF ~Has(s, k) THEN Reply(s, hllRawRegHisto(hllMerge(s, {})))
        ELSE IF h.card # Nil THEN Reply(s, h.card)
        ELSE Dirty(setKey(s, k, hll([h EXCEPT !.card = hllCount(h)]), TRUE), hllCount(h), <<c>>, {k})

\* PFMERGE destination sources
Densified(h) == [h EXCEPT !.enc = "dense", !.reg = hllSparseToDense(h.ops), !.ops = <<>>]
RaiseAll(h, max) == FoldLeft(LAMBDA a, i : IF max[i + 1] = 0 THEN a ELSE hllSet(a, i, max[i + 1]).h, h, Index)
pfmergeCommand(s, c) ==
    LET k == c[2] K == {k} \cup c[3]
        h == IF Has(s, k) THEN Get(s, k).v ELSE createHLLObject
        dense == h.enc = "sparse" /\ \E x \in K : Has(s, x) /\ Get(s, x).v.enc = "dense"
    IN  IF \E x \in K : ~isHLLObjectOrReply(s, x) THEN Reply(s, WrongType)
        ELSE Dirty(setKey(s, k, hll(Invalidate(RaiseAll(IF dense THEN Densified(h) ELSE h, hllMerge(s, K)))), TRUE), Ok, <<c>>, {k})

\* PFDEBUG TODENSE key: not a modification anybody is told of but the replicas.
pfdebugCommand(s, c) ==
    LET k == c[2] h == Get(s, k).v
    IN  IF ~Has(s, k) THEN Reply(s, "ERR The specified key does not exist")
        ELSE IF ~isHLLObjectOrReply(s, k) THEN Reply(s, WrongType)
        ELSE IF h.enc = "dense" THEN Reply(s, 0)
        ELSE Dirty(setKey(s, k, hll(Densified(h)), TRUE), 1, <<c>>, {})

HllCommands(s, c) ==
    CASE c[1] = "PFADD" -> pfaddCommand(s, c)
      [] c[1] = "PFCOUNT" -> pfcountCommand(s, c)
      [] c[1] = "PFMERGE" -> pfmergeCommand(s, c)
      [] c[1] = "PFDEBUG" -> pfdebugCommand(s, c)
=============================================================================
