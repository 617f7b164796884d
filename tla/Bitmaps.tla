------------------------------ MODULE Bitmaps ------------------------------
(***************************************************************************)
(* The bit commands on strings (bitops.c).  An int64_t has LLBits bits.    *)
(***************************************************************************)
EXTENDS Strings

\* Bit i of a string, the most significant bit of the first byte first.
Bit(v, i) == (v[1 + (i \div ByteBits)] \div 2^(ByteBits - 1 - (i % ByteBits))) % 2
BitsOf(v) == [i \in 1..(Len(v) * ByteBits) |-> Bit(v, i - 1)]
Value(bits) == FoldLeft(LAMBDA n, b : 2 * n + b, 0, bits)
BytesOf(bits) == [i \in 1..(Len(bits) \div ByteBits) |-> Value(SubSeq(bits, (i - 1) * ByteBits + 1, i * ByteBits))]

redisPopcount(v) == FoldLeft(+, 0, BitsOf(v))

\* The first bit of the value; zeros follow a string, ones do not.
redisBitpos(v, bit) ==
    LET P == {i \in 1..(Len(v) * ByteBits) : BitsOf(v)[i] = bit}
    IN  IF P # {} THEN Min(P) - 1 ELSE IF bit = 1 THEN -1 ELSE Len(v) * ByteBits

\* The string with room for bit maxbit: grown or created with zeros.
lookupStringForBitCommand(s, k, maxbit) == sdsgrowzero(Bytes(s, k), (maxbit \div ByteBits) + 1)

\* SETBIT key offset bit
setbitCommand(s, c) ==
    LET k == c[2] at == c[3] v == lookupStringForBitCommand(s, k, at)
        new == BytesOf([BitsOf(v) EXCEPT ![at + 1] = c[4]])
    IN  IF at < 0 \/ at \div ByteBits >= MaxStringLen \/ c[4] \notin {0, 1} THEN Reply(s, "ERR out of range")
        ELSE IF checkType(s, k, "string") THEN Reply(s, WrongType)
        ELSE IF Len(v) # Len(Bytes(s, k)) \/ Bit(v, at) # c[4]
             THEN Dirty(setKey(s, k, raw(new), TRUE), Bit(v, at), <<c>>, {k})
        ELSE Reply(setKey(s, k, raw(v), TRUE), Bit(v, at))

getbitCommand(s, c) ==
    LET v == Bytes(s, c[2])
    IN  IF checkType(s, c[2], "string") THEN Reply(s, WrongType)
        ELSE Reply(s, IF c[3] \div ByteBits < Len(v) THEN Bit(v, c[3]) ELSE 0)

\* BITOP op target sources.  Short sources are read as if zeros followed.
bitopCommand(s, c) ==
    LET src == [i \in DOMAIN c[4] |-> Bytes(s, c[4][i])]
        maxlen == Max({Len(src[i]) : i \in DOMAIN src})
        At(i, j) == IF j <= Len(BitsOf(src[i])) THEN BitsOf(src[i])[j] ELSE 0
        Op(a, b) == CASE c[2] = "AND" -> a * b [] c[2] = "OR" -> IF a + b > 0 THEN 1 ELSE 0 [] c[2] = "XOR" -> (a + b) % 2
        res == [j \in 1..(maxlen * ByteBits) |->
                  IF c[2] = "NOT" THEN 1 - At(1, j) ELSE FoldLeft(LAMBDA a, i : Op(a, At(i, j)), At(1, j), [i \in 1..(Len(src) - 1) |-> i + 1])]
    IN  IF c[2] = "NOT" /\ Len(c[4]) # 1 THEN Reply(s, SyntaxErr)
        ELSE IF \E i \in DOMAIN c[4] : checkType(s, c[4][i], "string") THEN Reply(s, WrongType)
        ELSE IF maxlen > 0 THEN Dirty(setKey(s, c[3], raw(BytesOf(res)), FALSE), maxlen, <<c>>, {c[3]})
        ELSE IF Has(s, c[3]) THEN Dirty(dbGenericDelete(s, {c[3]}), 0, <<c>>, {c[3]}) ELSE Reply(s, 0)

\* The bytes a range of BITCOUNT and BITPOS covers, and how many bits of the first and
\* of the last byte it leaves out.  c[4], c[5]: the range; c[6]: its unit.
BytesCovered(z, isbit) ==
    IF isbit /\ z.start <= z.end
    THEN [start |-> z.start \div ByteBits, end |-> z.end \div ByteBits, head |-> z.start % ByteBits, tail |-> ByteBits - 1 - (z.end % ByteBits)]
    ELSE [start |-> z.start, end |-> z.end, head |-> 0, tail |-> 0]
BitRange(v, start, end, unit) == BytesCovered(Clip(start, end, Len(v) * IF unit = "BIT" THEN ByteBits ELSE 1), unit = "BIT")

\* BITCOUNT key start end unit: the ones of the bytes, less those outside of the range.
BitcountIn(v, z) ==
    IF z.start > z.end THEN 0
    ELSE redisPopcount(SubSeq(v, z.start + 1, z.end + 1))
         - redisPopcount(<<v[z.start + 1] \div 2^(ByteBits - z.head)>>) - redisPopcount(<<v[z.end + 1] % 2^z.tail>>)
bitcountCommand(s, c) ==
    LET v == Bytes(s, c[2])
    IN  IF checkType(s, c[2], "string") THEN Reply(s, WrongType)
        ELSE IF v = <<>> \/ (c[3] < 0 /\ c[4] < 0 /\ c[3] > c[4]) THEN Reply(s, 0)
        ELSE Reply(s, BitcountIn(v, BitRange(v, c[3], c[4], c[5])))

\* A byte whose first h and last t bits cannot be taken for the bit that is looked for.
Masked(byte, h, t, bit) ==
    Value([i \in 1..ByteBits |-> IF i <= h \/ i > ByteBits - t THEN 1 - bit ELSE Bit(<<byte>>, i - 1)])

\* Where a bit is, in bytes or what is left of them: its place p after the byte at, in n bytes.
\* The first byte if it is cut, then the whole bytes, then the last byte if it is cut.
BitposTail(v, bit, z, start, left, whole) ==
    [p |-> redisBitpos(<<Masked(v[z.end + 1], 0, z.tail, bit)>>, bit),
     at |-> IF whole > 0 THEN start + whole ELSE start, n |-> IF whole > 0 THEN left - whole ELSE left]
BitposWhole(v, bit, z, start, left, whole) ==
    LET pos == redisBitpos(SubSeq(v, start + 1, start + whole), bit)
    IN  IF whole > 0 /\ (left = whole \/ pos \notin {-1, whole * ByteBits}) THEN [p |-> pos, at |-> start, n |-> left]
        ELSE BitposTail(v, bit, z, start, left, whole)
BitposFrom(v, bit, z, start, left) == BitposWhole(v, bit, z, start, left, left - (IF z.tail > 0 THEN 1 ELSE 0))
BitposHead(v, bit, z, bytes) ==
    LET pos == redisBitpos(<<Masked(v[z.start + 1], z.head, IF bytes = 1 THEN z.tail ELSE 0, bit)>>, bit)
    IN  IF z.head > 0 /\ (bytes = 1 \/ pos \notin {-1, ByteBits}) THEN [p |-> pos, at |-> z.start, n |-> bytes]
        ELSE LET start == IF z.head > 0 THEN z.start + 1 ELSE z.start
             IN  BitposFrom(v, bit, z, start, z.end - start + 1)

BitposReply(s, pos, exact) ==
    Reply(s, IF (exact /\ pos.p = pos.n * ByteBits) \/ pos.p = -1 THEN -1 ELSE pos.p + pos.at * ByteBits)
BitposIn(s, v, bit, z, given) ==
    IF z.start > z.end THEN Reply(s, -1)
    ELSE BitposReply(s, BitposHead(v, bit, z, z.end - z.start + 1), given /\ bit = 0)
\* BITPOS key bit start end unit (end = Nil: not given).
bitposCommand(s, c) ==
    LET v == Bytes(s, c[2]) bit == c[3] given == c[5] # Nil
    IN  IF bit \notin {0, 1} THEN Reply(s, "ERR The bit argument must be 1 or 0.")
        ELSE IF ~Has(s, c[2]) THEN Reply(s, IF bit = 1 THEN -1 ELSE 0)
        ELSE IF checkType(s, c[2], "string") THEN Reply(s, WrongType)
        ELSE BitposIn(s, v, bit, BitRange(v, c[4], IF given THEN c[5] ELSE Len(v) - 1, IF given THEN c[6] ELSE "BYTE"), given)

---------------------------------------------------------------------------
(***************************************************************************)
(* BITFIELD key ops readonly: a sequence of [op, sign, bits, at, n, ow].   *)
(***************************************************************************)
U64(n) == n % 2^LLBits
I64(n) == IF U64(n) > MaxLL THEN U64(n) - 2^LLBits ELSE U64(n)
setUnsignedBitfield(v, at, bits, n) ==
    BytesOf([i \in 1..(Len(v) * ByteBits) |->
               IF i \in (at + 1)..(at + bits) THEN (U64(n) \div 2^(at + bits - i)) % 2 ELSE BitsOf(v)[i]])
getUnsignedBitfield(v, at, bits) == U64(Value([i \in 1..bits |-> IF (at + i - 1) \div ByteBits < Len(v) THEN Bit(v, at + i - 1) ELSE 0]))
TwosComplement(u, bits) == IF u >= 2^(bits - 1) THEN u - 2^bits ELSE u
getSignedBitfield(v, at, bits) == TwosComplement(getUnsignedBitfield(v, at, bits), bits)

\* Each gives whether the sum overflows, and what it becomes under WRAP and SAT.
checkUnsignedBitfieldOverflow(value, incr, bits, ow) ==
    LET max == 2^bits - 1
        up == value > max \/ (incr > 0 /\ incr > I64(max - value))
        down == ~up /\ incr < 0 /\ incr < I64(-value)
    IN  [o |-> up \/ down, v |-> IF ow = "SAT" THEN (IF up THEN max ELSE 0) ELSE U64(value + incr) % 2^bits]
checkSignedBitfieldOverflow(value, incr, bits, ow) ==
    LET max == IF bits = LLBits THEN MaxLL ELSE 2^(bits - 1) - 1
        min == -max - 1
        maxincr == I64(max - value)
        minincr == I64(min - value)
        up == value > max \/ (bits # LLBits /\ incr > maxincr) \/ (value >= 0 /\ incr > 0 /\ incr > maxincr)
        down == ~up /\ (value < min \/ (bits # LLBits /\ incr < minincr) \/ (value < 0 /\ incr < 0 /\ incr < minincr))
        c == U64(value + incr) % 2^bits
    IN  [o |-> up \/ down, v |-> IF ow = "SAT" THEN (IF up THEN max ELSE min)
                                 ELSE IF c >= 2^(bits - 1) THEN c - 2^bits ELSE c]

getBitfieldTypeFromArgument(op) == op.bits \in 1..(IF op.sign THEN LLBits ELSE LLBits - 1)

BitfieldSet(w, op, old, new) ==
    [w EXCEPT !.v = setUnsignedBitfield(@, op.at, op.bits, new),
              !.r = Append(@, IF op.op = "INCRBY" THEN new ELSE old),
              !.changes = IF w.dirty \/ old # new THEN @ + 1 ELSE @]
BitfieldChecked(w, op, old, chk) ==
    IF chk.o /\ op.ow = "FAIL" THEN [w EXCEPT !.r = Append(@, Nil)]
    ELSE BitfieldSet(w, op, old, IF chk.o THEN chk.v ELSE IF op.op = "INCRBY" THEN old + op.n ELSE op.n)
BitfieldOver(w, op, old) ==
    LET add == op.op = "INCRBY"
    IN  BitfieldChecked(w, op, old,
          IF op.sign THEN checkSignedBitfieldOverflow(IF add THEN old ELSE op.n, IF add THEN op.n ELSE 0, op.bits, op.ow)
          ELSE checkUnsignedBitfieldOverflow(IF add THEN old ELSE U64(op.n), IF add THEN op.n ELSE 0, op.bits, op.ow))
BitfieldOp(w, op, old) == IF op.op = "GET" THEN [w EXCEPT !.r = Append(@, old)] ELSE BitfieldOver(w, op, old)

FieldAt(v, op) == IF op.sign THEN getSignedBitfield(v, op.at, op.bits) ELSE getUnsignedBitfield(v, op.at, op.bits)
\* The operations in their order, then the new value if one of them writes.
BitfieldRun(v, ops, grown) ==
    FoldLeft(LAMBDA x, op : BitfieldOp(x, op, FieldAt(x.v, op)), [v |-> v, r |-> <<>>, changes |-> 0, dirty |-> grown], ops)
BitfieldStore(s, c, w) ==
    IF w.changes > 0 THEN Dirty(setKey(s, c[2], raw(w.v), TRUE), w.r, <<c>>, {c[2]})
    ELSE Reply(setKey(s, c[2], raw(w.v), TRUE), w.r)
bitfieldGeneric(s, c) ==
    LET k == c[2] ops == c[3] W == {i \in DOMAIN ops : ops[i].op # "GET"}
        v == lookupStringForBitCommand(s, k, Max({ops[i].at + ops[i].bits - 1 : i \in W}))
    IN  IF \E i \in DOMAIN ops : ~getBitfieldTypeFromArgument(ops[i]) THEN Reply(s, "ERR Invalid bitfield type")
        ELSE IF checkType(s, k, "string") THEN Reply(s, WrongType)
        ELSE IF W = {} THEN Reply(s, BitfieldRun(Bytes(s, k), ops, FALSE).r)
        ELSE IF c[4] THEN Reply(s, "ERR BITFIELD_RO only supports the GET subcommand")
        ELSE BitfieldStore(s, c, BitfieldRun(v, ops, Len(v) # Len(Bytes(s, k))))

BitCommands(s, c) ==
    CASE c[1] = "SETBIT" -> setbitCommand(s, c)
      [] c[1] = "GETBIT" -> getbitCommand(s, c)
      [] c[1] = "BITOP" -> bitopCommand(s, c)
      [] c[1] = "BITCOUNT" -> bitcountCommand(s, c)
      [] c[1] = "BITPOS" -> bitposCommand(s, c)
      [] c[1] = "BITFIELD" -> bitfieldGeneric(s, c)
=============================================================================
