----------------------------- MODULE MCCommands -----------------------------
(***************************************************************************)
(* Workloads for the commands of every type: the commands that write, and  *)
(* the ones that only read, which are tried in every state.                *)
(***************************************************************************)
EXTENDS Commands

K == {"a", "b"}
Sub(S) == {{}} \cup {{x} : x \in S}

\* Keys with a time to live, in two databases.
KeyWork ==
       {<<"SET", "a", <<2>>, o, 1>> : o \in {{}, {"EX", "NX"}, {"KEEPTTL", "GET"}, {"XX", "PXAT"}}}
  \cup {<<"EXPIRE", "a", 1, o>> : o \in Sub({"NX", "XX", "GT", "LT"})} \cup {<<"PEXPIREAT", "b", t, {}>> : t \in {0, 2}}
  \cup {<<"PEXPIRE", "a", 0, {}>>, <<"EXPIREAT", "a", 1, {"GT"}>>, <<"PERSIST", "a">>}
  \cup {<<"RENAME", "a", "b">>, <<"RENAMENX", "a", "b">>, <<"RENAME", "a", "a">>, <<"MOVE", "a", 1>>}
  \cup {<<"COPY", "a", x[1], x[2], x[3]>> : x \in {<<"b", 0, FALSE>>, <<"a", 1, TRUE>>}}
  \cup {<<"SWAPDB", 0, 1>>, <<"FLUSHDB">>, <<"FLUSHALL">>, <<"RANDOMKEY">>, <<"DEL", K>>, <<"UNLINK", {"a"}>>}
  \cup {<<"GETEX", "a", o, 2>> : o \in Sub({"EX", "PERSIST"})} \cup {<<"GETDEL", "b">>, <<"SETEX", "a", 1, <<2>>>>}
KeyReads == {<<"EXISTS", K>>, <<"TOUCH", {"b"}>>, <<"KEYS">>, <<"DBSIZE">>, <<"TYPE", "a">>, <<"TTL", "a">>, <<"PTTL", "b">>}

StringWork ==
       {<<"SET", k, v, {}, 0>> : k \in K, v \in {<<2>>, <<12, 13>>}} \cup {<<"SETNX", "b", <<2>>, {}, 0>>, <<"GETSET", "a", <<3>>>>}
  \cup {<<"SETRANGE", "a", i, v>> : i \in {-1, 0, 2}, v \in {<<>>, <<13>>}}
  \cup {<<"APPEND", k, v>> : k \in K, v \in {<<>>, <<13>>}}
  \cup {<<"INCRBY", "a", i>> : i \in {1, 15}} \cup {<<"DECRBY", "a", -16>>, <<"DECRBY", "a", 1>>, <<"INCRBYFLOAT", "a", 1>>}
  \cup {<<"MSET", <<<<"a", <<2>>>>, <<"b", <<13>>>>, <<"a", <<13>>>>>>>>, <<"MSETNX", <<<<"a", <<2>>>>, <<"b", <<2>>>>>>>>, <<"GETDEL", "a">>, <<"DEL", {"b"}>>}
StringReads ==
       {<<"GETRANGE", "a", i, j>> : i \in {-2, 0, 1}, j \in {-4, -1, 9}} \cup {<<"STRLEN", "a">>, <<"GET", "b">>, <<"MGET", K>>}
  \cup {<<"LCS", "a", "b", o, l>> : o \in {{}, {"IDX"}, {"LEN"}}, l \in {0, 2}}

Ops(op, ow) == {<<[op |-> op, sign |-> g, bits |-> 4, at |-> at, n |-> n, ow |-> ow]>> : g \in BOOLEAN, at \in {0, 3}, n \in {-3, 9}}
BitWork ==
       {<<"SETBIT", "a", i, b>> : i \in {0, 2, 5, 12}, b \in {0, 1}}
  \cup {<<"BITOP", op, "a", <<"a", "b">>>> : op \in {"AND", "OR", "XOR"}} \cup {<<"BITOP", "NOT", "b", <<"b">>>>}
  \cup {<<"SET", "b", <<5>>, {}, 0>>, <<"DEL", {"a"}>>, <<"LPUSH", "b", <<1>>>>}
  \cup {<<"BITFIELD", "a", ops, FALSE>> : ops \in Ops("SET", "SAT") \cup Ops("INCRBY", "WRAP") \cup Ops("INCRBY", "SAT")}
BitReads ==
       {<<"BITCOUNT", "a", i, j, u>> : i \in {-5, 0, 1, 3}, j \in {-9, -3, -1, 0, 4}, u \in {"BIT", "BYTE"}}
  \cup {<<"BITPOS", "a", b, i, j, u>> : b \in {0, 1}, i \in {-7, 0, 1, 3}, j \in {-4, -1, 6}, u \in {"BIT", "BYTE"}}
  \cup {<<"BITPOS", "a", b, i, Nil, "BYTE">> : b \in {0, 1}, i \in {0, 1}} \cup {<<"GETBIT", "a", 7>>, <<"BITFIELD", "a", <<[op |-> "GET", sign |-> TRUE, bits |-> 4, at |-> 3, n |-> 0, ow |-> "WRAP"]>>, TRUE>>}

SortOf(by, d, al, st) == [by |-> by, desc |-> d, alpha |-> al, start |-> 0, count |-> 2, get |-> <<>>, store |-> st]
ListWork ==
       {<<n, k, <<e>>>> : n \in {"LPUSH", "RPUSHX"}, k \in K, e \in {1, 20}} \cup {<<"RPUSH", "a", <<1, 20>>>>, <<"LPUSHX", "b", <<1>>>>}
  \cup {<<"LINSERT", "a", w, 20, 1>> : w \in {"BEFORE", "AFTER"}} \cup {<<"LSET", "a", i, 20>> : i \in {-4, -1, 1}}
  \cup {<<"LTRIM", "a", i, j>> : i \in {-1, 0, 1}, j \in {-2, 0, 5}} \cup {<<n, k, c>> : n \in {"LPOP", "RPOP"}, k \in K, c \in {Nil, 0, 2}}
  \cup {<<"LMPOP", <<"b", "a">>, w, 2>> : w \in {"LEFT", "RIGHT"}} \cup {<<"LREM", "a", n, 1>> : n \in {-1, 0, 1}}
  \cup {<<"LMOVE", k, d, "LEFT", x>> : k \in K, d \in K, x \in {"LEFT", "RIGHT"}}
  \cup {<<"BLPOP", <<"a", "b">>, "LEFT", -1>>, <<"BLMPOP", <<"a", "b">>, "RIGHT", 2>>, <<"BLMOVE", "b", "a", "RIGHT", "LEFT">>}
  \cup {<<"SORT", "a", SortOf(by, d, TRUE, "b")>> : by \in {<<"default">>, <<"nosort">>}, d \in BOOLEAN}
ListReads ==
       {<<"LRANGE", "a", i, j>> : i \in {-5, -1, 0, 2}, j \in {-5, -2, 1, 9}} \cup {<<"LLEN", "a">>, <<"LINDEX", "a", -1>>}
  \cup {<<"LPOS", "a", 1, r, c, 0>> : r \in {-1, 2}, c \in {-1, 0}} \cup {<<"SORT", "a", SortOf(<<"default">>, d, a, Nil)>> : d \in BOOLEAN, a \in BOOLEAN}

SetWork ==
       {<<"SADD", k, <<e>>>> : k \in K, e \in {1, 20}} \cup {<<"SADD", "a", <<1, 2, 3>>>>, <<"SREM", "a", <<1, 20>>>>}
  \cup {<<"SMOVE", "a", "b", 1>>, <<"SMOVE", "b", "a", 20>>, <<"SMOVE", "a", "a", 1>>} \cup {<<"SPOP", "a", n>> : n \in {Nil, 0, 1, 2}}
  \cup {<<"SINTERSTORE", <<"a", "b">>, "a", 0>>, <<"SUNIONSTORE", <<"a", "b">>, "a", 0>>, <<"SDIFFSTORE", <<"b", "c", "a">>, "b", 0>>}
  \cup {<<"SORT", "a", SortOf(by, FALSE, TRUE, "b")>> : by \in {<<"default">>, <<"nosort">>}} \cup {<<"DEL", {"b"}>>}
SetReads ==
       {<<n, q, Nil, 1>> : n \in {"SINTER", "SUNION", "SDIFF", "SINTERCARD"}, q \in {<<"a", "b">>, <<"b", "a">>, <<"a", "c", "b">>}}
  \cup {<<"SMISMEMBER", "a", <<1, 2>>>>, <<"SCARD", "a">>, <<"SRANDMEMBER", "a", 2>>}

HashWork ==
       {<<"HSET", "a", <<<<1, v>>>>>> : v \in {1, 250}} \cup {<<"HSET", "a", <<<<2, 250>>>>>>} \cup {<<"HSET", "a", <<<<1, 1>>, <<2, 2>>, <<3, 3>>>>>>}
  \cup {<<"HSETNX", "a", 1, 5>>, <<"HDEL", "a", <<1, 3>>>>, <<"HDEL", "b", <<1>>>>}
  \cup {<<"HINCRBY", "a", 1, n>> : n \in {7, 15}} \cup {<<"HINCRBYFLOAT", "b", 1, 4>>, <<"COPY", "a", "b", 0, FALSE>>}
HashReads == {<<"HLEN", "a">>, <<"HGETALL", "a">>, <<"HMGET", "a", <<1, 2>>>>, <<"HRANDFIELD", "a", 2>>}

R(lo, lx, hi, hx) == [min |-> lo, minex |-> lx, max |-> hi, maxex |-> hx]
Rs == {R(1, FALSE, 2, FALSE), R(1, TRUE, Inf, FALSE), R(-Inf, FALSE, 2, TRUE), R(2, FALSE, 1, FALSE)}
Flat == [i \in 1..3 |-> 1]
ZsetWork ==
       {<<"ZADD", "a", o, <<<<sc, 1>>>>>> : o \in {{}, {"NX"}, {"GT", "CH"}, {"XX", "LT"}}, sc \in {2, Inf}}
  \cup {<<"ZADD", "a", {}, <<<<1, 1>>, <<2, 2>>, <<2, 3>>>>>>, <<"ZADD", "a", {"INCR", "LT"}, <<<<1, 1>>>>>>, <<"ZINCRBY", "a", {"INCR"}, <<<<-Inf, 1>>>>>>, <<"ZADD", "b", {}, <<<<-Inf, 1>>>>>>}
  \cup {<<"ZREM", "a", <<1, 9>>>>, <<"ZREMRANGEBYRANK", "a", R(-2, FALSE, -2, FALSE)>>} \cup {<<"ZREMRANGEBYSCORE", "a", r>> : r \in Rs}
  \cup {<<"ZRANGESTORE", "a", R(1, TRUE, Inf, FALSE), "SCORE", FALSE, 0, -1, "b">>} \cup {<<"ZUNIONSTORE", <<"a", "b">>, "b", Flat, "SUM", 0>>, <<"ZINTERSTORE", <<"a", "b">>, "b", Flat, "MIN", 0>>, <<"ZDIFFSTORE", <<"a", "b">>, "b", Flat, "SUM", 0>>}
  \cup {<<"ZPOPMIN", "a", 1>>, <<"ZPOPMAX", "a", Nil>>, <<"ZMPOP", <<"b", "a">>, "MAX", 2>>, <<"BZPOPMIN", <<"b">>, "MIN", -1>>}
ZsetReads ==
       {<<"ZCOUNT", "a", r>> : r \in Rs} \cup {<<"ZRANGE", "a", r, "SCORE", rev, o, l, Nil>> : r \in Rs, rev \in BOOLEAN, o \in {0, 1}, l \in {-1, 1}}
  \cup {<<"ZRANGE", "a", R(i, FALSE, j, FALSE), "RANK", rev, 0, -1, Nil>> : i \in {-2, 0, 1}, j \in {-2, -1, 5}, rev \in BOOLEAN}
  \cup {<<n, q, Nil, Flat, "MAX", 1>> : n \in {"ZUNION", "ZINTER", "ZDIFF", "ZINTERCARD"}, q \in {<<"a", "b">>, <<"b", "a", "c">>}}
  \cup {<<"ZCARD", "a">>, <<"ZMSCORE", "a", <<1>>>>, <<"ZRANK", "a", 2>>, <<"ZREVRANK", "a", 2>>, <<"ZRANDMEMBER", "a", 1>>}
LexWork == {<<"ZADD", "a", {}, <<<<1, e>>>>>> : e \in {1, 2, 3}} \cup {<<"ZREMRANGEBYLEX", "a", r>> : r \in Rs}
LexReads == {<<"ZLEXCOUNT", "a", r>> : r \in Rs} \cup {<<"ZRANGE", "a", r, "LEX", rev, o, l, Nil>> : r \in Rs, rev \in BOOLEAN, o \in {0, 1}, l \in {-1, 2}}

HllWork ==
       {<<"PFADD", "a", <<e>>>> : e \in {0, 1, 6, 9, 13, 18}} \cup {<<"PFADD", "b", <<e>>>> : e \in {0, 5, 13}}
  \cup {<<"PFADD", "b", <<>>>>, <<"PFCOUNT", {"a"}>>, <<"PFMERGE", "a", {"b"}>>, <<"PFMERGE", "b", {}>>, <<"PFDEBUG", "b">>}
HllReads == {<<"PFCOUNT", K>>, <<"PFCOUNT", {"b"}>>}

Trim(by, approx, n, limit) == [by |-> by, approx |-> approx, n |-> n, limit |-> limit]
Claim(f) == [time |-> -1, retry |-> -1, force |-> f, justid |-> FALSE, last |-> 0]
StreamWork ==
       {<<"XADD", "a", <<"*">>, 1, Trim("maxlen", TRUE, 1, -1), FALSE>>, <<"XADD", "a", <<"id", 6>>, 1, NoTrim, FALSE>>, <<"XADD", "a", <<"ms", 1>>, 1, Trim("minid", FALSE, 5, -1), FALSE>>}
  \cup {<<"XTRIM", "a", Trim("maxlen", FALSE, 1, -1)>>, <<"XTRIM", "a", Trim("minid", TRUE, 6, -1)>>, <<"XDEL", "a", <<4>>>>}
  \cup {<<"XGROUP", "CREATE", "a", "g", 0, -1, TRUE>>, <<"XGROUP", "SETID", "a", "g", -1, -1, FALSE>>, <<"XGROUP", "DESTROY", "a", "g">>}
  \cup {<<"XGROUP", n, "a", "g", "y">> : n \in {"CREATECONSUMER", "DELCONSUMER"}} \cup {<<"XACK", "a", "g", <<4, 5>>>>}
  \cup {<<"XREADGROUP", "g", "x", <<<<"a", MaxID>>>>, 1, FALSE, FALSE>>, <<"XREADGROUP", "g", "x", <<<<"a", 0>>>>, 1, FALSE, FALSE>>, <<"XREADGROUP", "g", "x", <<<<"a", MaxID>>>>, 2, TRUE, FALSE>>}
  \cup {<<"XCLAIM", "a", "g", "y", 0, <<4, 5>>, Claim(FALSE)>>, <<"XCLAIM", "a", "g", "x", 0, <<6>>, Claim(TRUE)>>, <<"XAUTOCLAIM", "a", "g", "y", 0, 0, 1, FALSE>>}
StreamReads == {<<"XRANGE", "a", 0, MaxID, 2>>, <<"XREVRANGE", "a", 5, MaxID, 0>>, <<"XLEN", "a">>, <<"XREAD", <<<<"a", 4>>>>, 0, TRUE>>, <<"XPENDING", "a", "g", 0, MaxID, 2, Nil, 0>>, <<"XINFO", "a">>}

MCWorkloads ==
    [keys |-> KeyWork, strings |-> StringWork, bits |-> BitWork, lists |-> ListWork, sets |-> SetWork, hashes |-> HashWork,
     zsets |-> ZsetWork, lex |-> LexWork, hll |-> HllWork, streams |-> StreamWork]
MCQueries ==
    [keys |-> KeyReads, strings |-> StringReads, bits |-> BitReads, lists |-> ListReads, sets |-> SetReads, hashes |-> HashReads,
     zsets |-> ZsetReads, lex |-> LexReads, hll |-> HllReads, streams |-> StreamReads]
=============================================================================
