------------------------------ MODULE Strings ------------------------------
(***************************************************************************)
(* The string commands (t_string.c).  A string is a sequence of bytes of   *)
(* four bits: 0 is the NUL byte, 1..10 the digits, 11 the minus sign, the  *)
(* rest are letters.                                                       *)
(***************************************************************************)
EXTENDS Keyspace, Functions

CONSTANT MaxStringLen     \* proto-max-bulk-len

ByteBits == 4
ByteMax == 2^ByteBits - 1
Minus == 11
LLBits == CHOOSE n \in 1..16 : 2^(n - 1) = MaxLL + 1

\* ll2string and string2ll: no leading zeros, no sign but '-', nothing out of range.
Digits[n \in Nat] == IF n < 10 THEN <<n + 1>> ELSE Digits[n \div 10] \o <<1 + (n % 10)>>
ll2string(n) == IF n < 0 THEN <<Minus>> \o Digits[-n] ELSE Digits[n]
Numbers == [v \in {ll2string(n) : n \in (-MaxLL - 1)..MaxLL} |-> CHOOSE n \in (-MaxLL - 1)..MaxLL : ll2string(n) = v]
string2ll(v) == v \in DOMAIN Numbers

tryObjectEncoding(v) == Obj("string", IF string2ll(v) THEN "int" ELSE "raw", v)
raw(v) == Obj("string", "raw", v)
Bytes(s, k) == IF Has(s, k) THEN Get(s, k).v ELSE <<>>
checkStringLength(n) == n <= MaxStringLen

\* The indexes start..end of a sequence of n elements, negative ones counted from its end.
Clip(start, end, n) ==
    LET from(i) == IF i >= 0 THEN i ELSE IF n + i < 0 THEN 0 ELSE n + i
    IN  [start |-> from(start), end |-> IF from(end) >= n THEN n - 1 ELSE from(end)]

Zeros(n) == [i \in 1..n |-> 0]
sdsgrowzero(v, n) == IF Len(v) >= n THEN v ELSE v \o Zeros(n - Len(v))

---------------------------------------------------------------------------
(***************************************************************************)
(* SET key value options time.  The time is relative for EX and PX.        *)
(***************************************************************************)
Times == {"EX", "PX", "EXAT", "PXAT"}
parseExtendedStringArgumentsOrReply(opts, allowed) ==
    /\ opts \subseteq allowed
    /\ ~({"NX", "XX"} \subseteq opts)
    /\ Cardinality(opts \cap (Times \cup {"KEEPTTL", "PERSIST"})) <= 1

getExpireMillisecondsOrReply(s, opts, n) ==
    LET ms == IF opts \cap {"EX", "EXAT"} # {} THEN n * SecondMs ELSE n
        at == IF opts \cap {"EX", "PX"} # {} THEN ms + s.now ELSE ms
    IN  IF n <= 0 \/ ms > MaxLL \/ at > MaxLL THEN -1 ELSE at

getGenericCommand(s, c) ==
    Reply(s, IF ~Has(s, c[2]) THEN Nil ELSE IF checkType(s, c[2], "string") THEN WrongType ELSE Get(s, c[2]).v)

\* What the replicas get of a SET that wrote.
SetStream(c, opts, at) ==
    IF opts \cap Times # {} THEN <<"SET", c[2], c[3], {"PXAT"}, at>>
    ELSE IF "GET" \in opts THEN <<"SET", c[2], c[3], opts \ {"GET"}, 0>> ELSE c

SetTimed(w, c, opts, at, r) ==
    Dirty(IF opts \cap Times # {} THEN setExpire(w, c[2], at) ELSE w, r, <<SetStream(c, opts, at)>>, {c[2]})
SetOrAbort(s, c, opts, okReply, abortReply, at, old) ==
    LET k == c[2] get == "GET" \in opts
    IN  IF opts \cap Times # {} /\ at = -1 THEN Reply(s, "ERR invalid expire time")
        ELSE IF get /\ old.r = WrongType THEN old
        ELSE IF ("NX" \in opts /\ Has(s, k)) \/ ("XX" \in opts /\ ~Has(s, k)) THEN IF get THEN old ELSE Reply(s, abortReply)
        ELSE SetTimed(setKey(s, k, tryObjectEncoding(c[3]), "KEEPTTL" \in opts), c, opts, at, IF get THEN old.r ELSE okReply)
setGenericCommand(s, c, opts, okReply, abortReply) ==
    SetOrAbort(s, c, opts, okReply, abortReply, getExpireMillisecondsOrReply(s, opts, c[5]), getGenericCommand(s, c))

setCommand(s, c) ==
    IF parseExtendedStringArgumentsOrReply(c[4], Times \cup {"NX", "XX", "GET", "KEEPTTL"})
    THEN setGenericCommand(s, c, c[4], Ok, Nil) ELSE Reply(s, SyntaxErr)
setnxCommand(s, c) == setGenericCommand(s, c, {"NX"}, 1, 0)
setexCommand(s, c) == setGenericCommand(s, <<"SETEX", c[2], c[4], {}, c[3]>>, {"EX"}, Ok, Nil)
psetexCommand(s, c) == setGenericCommand(s, <<"PSETEX", c[2], c[4], {}, c[3]>>, {"PX"}, Ok, Nil)

\* GETEX key options time
getexCommand(s, c) ==
    LET k == c[2] opts == c[3] got == getGenericCommand(s, c)
        at == getExpireMillisecondsOrReply(s, opts, c[4])
    IN  IF ~parseExtendedStringArgumentsOrReply(opts, Times \cup {"PERSIST"}) THEN Reply(s, SyntaxErr)
        ELSE IF ~Has(s, k) \/ got.r = WrongType \/ opts = {} THEN got
        ELSE IF opts \cap Times # {} /\ at = -1 THEN Reply(s, "ERR invalid expire time")
        ELSE IF opts \cap {"PXAT", "EXAT"} # {} /\ checkAlreadyExpired(s, at)
             THEN Dirty(dbGenericDelete(s, {k}), got.r, <<<<"DEL", {k}>>>>, {k})
        ELSE IF opts \cap Times # {} THEN Dirty(setExpire(s, k, at), got.r, <<<<"PEXPIREAT", k, at, {}>>>>, {k})
        ELSE IF getExpire(s, k) # -1 THEN Dirty(removeExpire(s, k), got.r, <<<<"PERSIST", k>>>>, {k}) ELSE got

getdelCommand(s, c) ==
    LET got == getGenericCommand(s, c)
    IN  IF got.r = WrongType \/ ~Has(s, c[2]) THEN got
        ELSE Dirty(dbGenericDelete(s, {c[2]}), got.r, <<<<"DEL", {c[2]}>>>>, {c[2]})

getsetCommand(s, c) ==
    LET got == getGenericCommand(s, c)
    IN  IF got.r = WrongType THEN got
        ELSE Dirty(setKey(s, c[2], tryObjectEncoding(c[3]), FALSE), got.r, <<<<"SET", c[2], c[3], {}, 0>>>>, {c[2]})

\* SETRANGE key offset value
setrangeCommand(s, c) ==
    LET k == c[2] at == c[3] v == c[4] old == Bytes(s, k)
        new == [i \in 1..Len(sdsgrowzero(old, at + Len(v))) |->
                  IF i \in (at + 1)..(at + Len(v)) THEN v[i - at] ELSE sdsgrowzero(old, at + Len(v))[i]]
    IN  IF at < 0 THEN Reply(s, "ERR offset is out of range")
        ELSE IF checkType(s, k, "string") THEN Reply(s, WrongType)
        ELSE IF v = <<>> THEN Reply(s, Len(old))
        ELSE IF ~checkStringLength(at + Len(v)) THEN Reply(s, "ERR string exceeds maximum allowed size")
        ELSE Dirty(setKey(s, k, raw(new), TRUE), Len(new), <<c>>, {k})

getrangeCommand(s, c) ==
    LET v == Bytes(s, c[2]) z == Clip(c[3], c[4], Len(v))
    IN  IF checkType(s, c[2], "string") THEN Reply(s, WrongType)
        ELSE IF (c[3] < 0 /\ c[4] < 0 /\ c[3] > c[4]) \/ z.start > z.end \/ v = <<>> THEN Reply(s, <<>>)
        ELSE Reply(s, SubSeq(v, z.start + 1, z.end + 1))

mgetCommand(s, c) == Reply(s, [k \in c[2] |-> IF Has(s, k) /\ Get(s, k).t = "string" THEN Get(s, k).v ELSE Nil])

\* MSET pairs: the keys and values in the order given, so that the last one of a key stays.
msetGenericCommand(s, c) ==
    LET nx == c[1] = "MSETNX"
        Put(t, pair) == setKey(t, pair[1], tryObjectEncoding(pair[2]), FALSE)
    IN  IF nx /\ \E i \in DOMAIN c[2] : Has(s, c[2][i][1]) THEN Reply(s, 0)
        ELSE Dirty(FoldLeft(Put, s, c[2]), IF nx THEN 1 ELSE Ok, <<c>>, {c[2][i][1] : i \in DOMAIN c[2]})

IncrOverflows(old, incr) == (incr < 0 /\ old < 0 /\ incr < -MaxLL - 1 - old) \/ (incr > 0 /\ old > 0 /\ incr > MaxLL - old)

\* INCRBY key incr
incrDecrCommand(s, c, incr) ==
    LET k == c[2] old == IF Has(s, k) THEN Numbers[Get(s, k).v] ELSE 0
    IN  IF checkType(s, k, "string") THEN Reply(s, WrongType)
        ELSE IF Has(s, k) /\ ~string2ll(Get(s, k).v) THEN Reply(s, "ERR value is not an integer or out of range")
        ELSE IF IncrOverflows(old, incr) THEN Reply(s, "ERR increment or decrement would overflow")
        ELSE Dirty(setKey(s, k, tryObjectEncoding(ll2string(old + incr)), TRUE), old + incr, <<c>>, {k})

decrbyCommand(s, c) ==
    IF c[3] = -MaxLL - 1 THEN Reply(s, "ERR decrement would overflow") ELSE incrDecrCommand(s, c, -c[3])

\* A floating point sum is not computed again by the replicas: they get the value.
incrbyfloatCommand(s, c) ==
    LET k == c[2] new == ll2string(c[3] + IF Has(s, k) THEN Numbers[Get(s, k).v] ELSE 0)
    IN  IF checkType(s, k, "string") THEN Reply(s, WrongType)
        ELSE IF Has(s, k) /\ ~string2ll(Get(s, k).v) THEN Reply(s, "ERR value is not a valid float")
        ELSE Dirty(setKey(s, k, raw(new), TRUE), new, <<<<"SET", k, new, {"KEEPTTL"}, 0>>>>, {k})

appendCommand(s, c) ==
    LET k == c[2] new == Bytes(s, k) \o c[3]
    IN  IF checkType(s, k, "string") THEN Reply(s, WrongType)
        ELSE IF Has(s, k) /\ ~checkStringLength(Len(new)) THEN Reply(s, "ERR string exceeds maximum allowed size")
        ELSE Dirty(setKey(s, k, IF Has(s, k) THEN raw(new) ELSE tryObjectEncoding(new), TRUE), Len(new), <<c>>, {k})

strlenCommand(s, c) == Reply(s, IF checkType(s, c[2], "string") THEN WrongType ELSE Len(Bytes(s, c[2])))

(***************************************************************************)
(* LCS: the table of the lengths, and the walk back from its last corner   *)
(* that collects the string and the matching ranges.                       *)
(***************************************************************************)
LCS(a, b) ==
    LET L[i \in 0..Len(a), j \in 0..Len(b)] ==
          IF i = 0 \/ j = 0 THEN 0
          ELSE IF a[i] = b[j] THEN L[i - 1, j - 1] + 1
          ELSE IF L[i - 1, j] > L[i, j - 1] THEN L[i - 1, j] ELSE L[i, j - 1]
    IN  L

\* at: <<i, j>>; open: the range of the match in progress, or <<>>.
lcsEmit(m, r, minlen) == IF minlen = 0 \/ r[2] - r[1] + 1 >= minlen THEN Append(m, r) ELSE m
lcsMatch(w, i, j, x, r, minlen) ==
    [i |-> i - 1, j |-> j - 1, str |-> <<x>> \o w.str,
     open |-> IF i = 1 \/ j = 1 THEN <<>> ELSE r, m |-> IF i = 1 \/ j = 1 THEN lcsEmit(w.m, r, minlen) ELSE w.m]
lcsStep(w, i, j, a, b, L, minlen) ==
    IF i = 0 \/ j = 0 THEN w
    ELSE IF a[i] = b[j]
         THEN lcsMatch(w, i, j, a[i], IF w.open = <<>> THEN <<i - 1, i - 1, j - 1, j - 1>> ELSE <<i - 1, w.open[2], j - 1, w.open[4]>>, minlen)
    ELSE [w EXCEPT !.i = IF L[i - 1, j] > L[i, j - 1] THEN i - 1 ELSE i,
                   !.j = IF L[i - 1, j] > L[i, j - 1] THEN j ELSE j - 1,
                   !.open = <<>>, !.m = IF w.open = <<>> THEN @ ELSE lcsEmit(@, w.open, minlen)]
lcsWalk(a, b, L, minlen) ==
    FoldLeft(LAMBDA w, n : lcsStep(w, w.i, w.j, a, b, L, minlen),
             [i |-> Len(a), j |-> Len(b), str |-> <<>>, open |-> <<>>, m |-> <<>>], [n \in 1..(Len(a) + Len(b)) |-> n])
lcsReply(a, b, L, opts, minlen) ==
    IF "IDX" \in opts THEN <<lcsWalk(a, b, L, minlen).m, L[Len(a), Len(b)]>>
    ELSE IF "LEN" \in opts THEN L[Len(a), Len(b)] ELSE lcsWalk(a, b, L, minlen).str

\* LCS key key options minmatchlen
lcsCommand(s, c) ==
    LET a == Bytes(s, c[2]) b == Bytes(s, c[3])
    IN  IF checkType(s, c[2], "string") \/ checkType(s, c[3], "string") THEN Reply(s, WrongType)
        ELSE IF {"IDX", "LEN"} \subseteq c[4] THEN Reply(s, "ERR please just use IDX")
        ELSE Reply(s, lcsReply(a, b, LCS(a, b), c[4], IF c[5] < 0 THEN 0 ELSE c[5]))

StringCommands(s, c) ==
    CASE c[1] = "SET" -> setCommand(s, c)
      [] c[1] = "SETNX" -> setnxCommand(s, c)
      [] c[1] = "SETEX" -> setexCommand(s, c)
      [] c[1] = "PSETEX" -> psetexCommand(s, c)
      [] c[1] = "GET" -> getGenericCommand(s, c)
      [] c[1] = "GETEX" -> getexCommand(s, c)
      [] c[1] = "GETDEL" -> getdelCommand(s, c)
      [] c[1] = "GETSET" -> getsetCommand(s, c)
      [] c[1] = "SETRANGE" -> setrangeCommand(s, c)
      [] c[1] = "GETRANGE" -> getrangeCommand(s, c)
      [] c[1] = "MGET" -> mgetCommand(s, c)
      [] c[1] \in {"MSET", "MSETNX"} -> msetGenericCommand(s, c)
      [] c[1] = "INCRBY" -> incrDecrCommand(s, c, c[3])
      [] c[1] = "DECRBY" -> decrbyCommand(s, c)
      [] c[1] = "INCRBYFLOAT" -> incrbyfloatCommand(s, c)
      [] c[1] = "APPEND" -> appendCommand(s, c)
      [] c[1] = "STRLEN" -> strlenCommand(s, c)
      [] c[1] = "LCS" -> lcsCommand(s, c)
=============================================================================
