---------------------------- MODULE CommandTable ----------------------------
(***************************************************************************)
(* The commands on data by name (server.c, commands.c): the function that  *)
(* executes a command, the keys its key specs name, and what executing it  *)
(* propagates.                                                             *)
(***************************************************************************)
EXTENDS Streams, Bitmaps, Hyperloglog, Sort

GenericNames == {"DEL", "UNLINK", "EXISTS", "TOUCH", "TYPE", "DBSIZE", "KEYS", "SELECT", "RANDOMKEY", "RENAME", "RENAMENX",
    "MOVE", "COPY", "SWAPDB", "FLUSHDB", "FLUSHALL", "EXPIRE", "EXPIREAT", "PEXPIRE", "PEXPIREAT", "TTL", "PTTL",
    "EXPIRETIME", "PEXPIRETIME", "PERSIST"}
StringNames == {"SET", "SETNX", "SETEX", "PSETEX", "GET", "GETEX", "GETDEL", "GETSET", "SETRANGE", "GETRANGE", "MGET", "MSET",
    "MSETNX", "INCRBY", "DECRBY", "INCRBYFLOAT", "APPEND", "STRLEN", "LCS"}
BitNames == {"SETBIT", "GETBIT", "BITOP", "BITCOUNT", "BITPOS", "BITFIELD"}
ListNames == {"LPUSH", "RPUSH", "LPUSHX", "RPUSHX", "LINSERT", "LLEN", "LINDEX", "LSET", "LRANGE", "LTRIM", "LPOP", "RPOP",
    "LMPOP", "LPOS", "LREM", "LMOVE", "BLPOP", "BLMPOP", "BLMOVE"}
SetNames == {"SADD", "SREM", "SMOVE", "SMISMEMBER", "SMEMBERS", "SCARD", "SPOP", "SRANDMEMBER", "SINTER", "SINTERCARD",
    "SINTERSTORE", "SUNION", "SUNIONSTORE", "SDIFF", "SDIFFSTORE"}
HashNames == {"HSETNX", "HSET", "HINCRBY", "HINCRBYFLOAT", "HMGET", "HDEL", "HLEN", "HGETALL", "HRANDFIELD"}
ZsetNames == {"ZADD", "ZINCRBY", "ZREM", "ZREMRANGEBYRANK", "ZREMRANGEBYSCORE", "ZREMRANGEBYLEX", "ZRANGE", "ZRANGESTORE",
    "ZCOUNT", "ZLEXCOUNT", "ZCARD", "ZMSCORE", "ZRANK", "ZREVRANK", "ZUNION", "ZUNIONSTORE", "ZINTER", "ZINTERSTORE",
    "ZINTERCARD", "ZDIFF", "ZDIFFSTORE", "ZPOPMIN", "ZPOPMAX", "ZMPOP", "BZPOPMIN", "BZPOPMAX", "BZMPOP", "ZRANDMEMBER"}
HllNames == {"PFADD", "PFCOUNT", "PFMERGE", "PFDEBUG"}

(***************************************************************************)
(* commands.c: the keys of a command with the flags of their key specs.    *)
(* RO, RW, OW, RM: the value is read, modified, overwritten or deleted;    *)
(* ACCESS, INSERT, DELETE, UPDATE: what happens to the user data in it.    *)
(***************************************************************************)
Keys(K, f) == K \X {f}
RO == {"RO", "ACCESS"}
Meta == {"RO"}
Pop == {"RW", "ACCESS", "DELETE"}
Store == {"OW", "UPDATE"}
Upd == {"RW", "UPDATE"}
AccUpd == {"RW", "ACCESS", "UPDATE"}
Ins == {"RW", "INSERT"}
Del == {"RW", "DELETE"}

\* The procedures for commands whose keys or flags depend on the other arguments.
setGetKeys(c) == IF "GET" \in c[4] THEN AccUpd ELSE Store
bitfieldGetKeys(c) == IF \A i \in DOMAIN c[3] : c[3][i].op = "GET" THEN RO ELSE AccUpd
\* Mutant: the destination of a SORT is not one of its keys.
sortGetKeys_NoStore(c) == Keys({c[2]}, RO)
sortGetKeys(c) == Keys({c[2]}, RO) \cup (IF c[3].store = Nil THEN {} ELSE Keys({c[3].store}, Store))

GenericKeySpecs(c) ==
    CASE c[1] = "COPY" -> Keys({c[2]}, RO) \cup Keys({c[3]}, Store)
      [] c[1] \in {"DEL", "UNLINK"} -> Keys(c[2], {"RM", "DELETE"})
      [] c[1] \in {"EXISTS", "TOUCH"} -> Keys(c[2], Meta)
      [] c[1] = "TYPE" -> Keys({c[2]}, Meta)
      [] c[1] \in {"TTL", "PTTL", "EXPIRETIME", "PEXPIRETIME"} -> Keys({c[2]}, RO)
      [] c[1] \in {"EXPIRE", "EXPIREAT", "PEXPIRE", "PEXPIREAT", "PERSIST"} -> Keys({c[2]}, Upd)
      [] c[1] = "MOVE" -> Keys({c[2]}, AccUpd)
      [] c[1] = "RENAME" -> Keys({c[2]}, Pop) \cup Keys({c[3]}, Store)
      [] c[1] = "RENAMENX" -> Keys({c[2]}, Pop) \cup Keys({c[3]}, {"OW", "INSERT"})
      [] OTHER -> {}
BitKeySpecs(c) ==
    CASE c[1] = "BITOP" -> Keys({c[3]}, Store) \cup Keys(ToSet(c[4]), RO)
      [] c[1] = "SETBIT" -> Keys({c[2]}, AccUpd)
      [] c[1] = "BITFIELD" -> Keys({c[2]}, bitfieldGetKeys(c))
      [] OTHER -> Keys({c[2]}, RO)
StringKeySpecs(c) ==
    CASE c[1] = "APPEND" -> Keys({c[2]}, Ins)
      [] c[1] \in {"DECRBY", "INCRBY", "INCRBYFLOAT", "GETEX", "GETSET"} -> Keys({c[2]}, AccUpd)
      [] c[1] = "SETRANGE" -> Keys({c[2]}, Upd)
      [] c[1] = "STRLEN" -> Keys({c[2]}, Meta)
      [] c[1] = "GETDEL" -> Keys({c[2]}, Pop)
      [] c[1] = "LCS" -> Keys({c[2], c[3]}, RO)
      [] c[1] = "MGET" -> Keys(c[2], RO)
      [] c[1] \in {"MSET", "MSETNX"} -> Keys({c[2][i][1] : i \in DOMAIN c[2]}, IF c[1] = "MSET" THEN Store ELSE {"OW", "INSERT"})
      [] c[1] \in {"SETEX", "PSETEX"} -> Keys({c[2]}, Store)
      [] c[1] = "SETNX" -> Keys({c[2]}, {"OW", "INSERT"})
      [] c[1] = "SET" -> Keys({c[2]}, setGetKeys(c))
      [] OTHER -> Keys({c[2]}, RO)
ListKeySpecs(c) ==
    CASE c[1] \in {"LMOVE", "BLMOVE"} -> Keys({c[2]}, Pop) \cup Keys({c[3]}, Ins)
      [] c[1] \in {"LMPOP", "BLPOP", "BLMPOP"} -> Keys(ToSet(c[2]), Pop)
      [] c[1] \in {"LPOP", "RPOP"} -> Keys({c[2]}, Pop)
      [] c[1] \in {"LPUSH", "LPUSHX", "RPUSH", "RPUSHX", "LINSERT"} -> Keys({c[2]}, Ins)
      [] c[1] \in {"LREM", "LTRIM"} -> Keys({c[2]}, Del)
      [] c[1] = "LSET" -> Keys({c[2]}, Upd)
      [] c[1] = "LLEN" -> Keys({c[2]}, Meta)
      [] OTHER -> Keys({c[2]}, RO)
HashKeySpecs(c) ==
    CASE c[1] = "HDEL" -> Keys({c[2]}, Del)
      [] c[1] = "HSET" -> Keys({c[2]}, Upd)
      [] c[1] \in {"HINCRBY", "HINCRBYFLOAT"} -> Keys({c[2]}, AccUpd)
      [] c[1] = "HLEN" -> Keys({c[2]}, Meta)
      [] c[1] = "HSETNX" -> Keys({c[2]}, Ins)
      [] OTHER -> Keys({c[2]}, RO)
SetKeySpecs(c) ==
    CASE c[1] = "SADD" -> Keys({c[2]}, Ins)
      [] c[1] = "SREM" -> Keys({c[2]}, Del)
      [] c[1] = "SPOP" -> Keys({c[2]}, Pop)
      [] c[1] = "SCARD" -> Keys({c[2]}, Meta)
      [] c[1] = "SMOVE" -> Keys({c[2]}, Pop) \cup Keys({c[3]}, Ins)
      [] c[1] \in {"SINTER", "SUNION", "SDIFF", "SINTERCARD"} -> Keys(ToSet(c[2]), RO)
      [] c[1] \in {"SUNIONSTORE", "SDIFFSTORE"} -> Keys(ToSet(c[2]), RO) \cup Keys({c[3]}, Store)
      [] c[1] = "SINTERSTORE" -> Keys(ToSet(c[2]), RO) \cup Keys({c[3]}, Upd)
      [] OTHER -> Keys({c[2]}, RO)
ZsetKeySpecs(c) ==
    CASE c[1] = "ZADD" -> Keys({c[2]}, Upd)
      [] c[1] = "ZINCRBY" -> Keys({c[2]}, AccUpd)
      [] c[1] = "ZCARD" -> Keys({c[2]}, Meta)
      [] c[1] \in {"ZREM", "ZREMRANGEBYRANK", "ZREMRANGEBYSCORE", "ZREMRANGEBYLEX"} -> Keys({c[2]}, Del)
      [] c[1] \in {"ZPOPMIN", "ZPOPMAX"} -> Keys({c[2]}, Pop)
      [] c[1] \in {"ZMPOP", "BZPOPMIN", "BZPOPMAX", "BZMPOP"} -> Keys(ToSet(c[2]), Pop)
      [] c[1] \in {"ZUNION", "ZINTER", "ZDIFF", "ZINTERCARD"} -> Keys(ToSet(c[2]), RO)
      [] c[1] \in {"ZUNIONSTORE", "ZINTERSTORE", "ZDIFFSTORE"} -> Keys(ToSet(c[2]), RO) \cup Keys({c[3]}, Store)
      [] c[1] = "ZRANGESTORE" -> Keys({c[2]}, RO) \cup Keys({c[8]}, Store)
      [] OTHER -> Keys({c[2]}, RO)
HllKeySpecs(c) ==
    CASE c[1] = "PFADD" -> Keys({c[2]}, Ins)
      [] c[1] = "PFCOUNT" -> Keys(c[2], {"RW", "ACCESS"})
      [] c[1] = "PFMERGE" -> Keys({c[2]}, {"RW", "ACCESS", "INSERT"}) \cup Keys(c[3], RO)
      [] OTHER -> Keys({c[2]}, {"RW", "ACCESS"})
StreamKeySpecs(c) ==
    CASE c[1] \in {"XACK", "XADD", "XCLAIM", "XSETID"} -> Keys({c[2]}, Upd)
      [] c[1] \in {"XDEL", "XTRIM", "XAUTOCLAIM"} -> Keys({c[2]}, Del)
      [] c[1] = "XGROUP" -> Keys({c[3]}, IF c[2] \in {"CREATE", "CREATECONSUMER"} THEN Ins ELSE IF c[2] = "SETID" THEN Upd ELSE Del)
      [] c[1] = "XLEN" -> Keys({c[2]}, Meta)
      [] c[1] = "XREAD" -> Keys({c[2][i][1] : i \in DOMAIN c[2]}, RO)
      [] c[1] = "XREADGROUP" -> Keys({c[4][i][1] : i \in DOMAIN c[4]}, RO)
      [] OTHER -> Keys({c[2]}, RO)

getKeysFromCommandWithSpecs(c) ==
    CASE c[1] \in GenericNames -> GenericKeySpecs(c)
      [] c[1] \in StringNames -> StringKeySpecs(c)
      [] c[1] \in BitNames -> BitKeySpecs(c)
      [] c[1] \in ListNames -> ListKeySpecs(c)
      [] c[1] \in SetNames -> SetKeySpecs(c)
      [] c[1] \in HashNames -> HashKeySpecs(c)
      [] c[1] \in ZsetNames -> ZsetKeySpecs(c)
      [] c[1] \in HllNames -> HllKeySpecs(c)
      [] c[1] = "SORT" -> sortGetKeys(c)
      [] OTHER -> StreamKeySpecs(c)

\* The function of a command.
Proc(s, c) ==
    CASE c[1] \in GenericNames -> GenericCommands(s, c)
      [] c[1] \in StringNames -> StringCommands(s, c)
      [] c[1] \in BitNames -> BitCommands(s, c)
      [] c[1] \in ListNames -> ListCommands(s, c)
      [] c[1] \in SetNames -> SetCommands(s, c)
      [] c[1] \in HashNames -> HashCommands(s, c)
      [] c[1] \in ZsetNames -> ZsetCommands(s, c)
      [] c[1] \in HllNames -> HllCommands(s, c)
      [] c[1] = "RAW" -> Reply(setKey(s, c[2], hll(c[3]), FALSE), Ok)
      [] c[1] = "SORT" -> sortCommandGeneric(s, c)
      [] OTHER -> StreamCommands(s, c)

\* The keys of a command that are expired are deleted when they are looked up, and the
\* deletions go into the stream before what the command itself propagates.
DeclaredKeys(s, c) == {<<s.sel, x[1]>> : x \in getKeysFromCommandWithSpecs(c)}
OtherDb(c) == CASE c[1] = "MOVE" -> {<<c[3], c[2]>>} [] c[1] = "COPY" -> {<<c[4], c[3]>>} [] OTHER -> {}
\* KEYS looks at every key of its database.
LookedUp(s, c) == IF c[1] = "KEYS" THEN {x \in DOMAIN s.db : x[1] = s.sel} ELSE DeclaredKeys(s, c) \cup OtherDb(c)
ExecuteAfter(e, c) == [Proc(e.s, c) EXCEPT !.p = e.p \o @, !.mod = @ \cup e.mod]
Execute(s, c) == ExecuteAfter(expireIfNeeded(s, LookedUp(s, c)), c)

\* A replica executes the stream: it selects the database of every command.
Replay(s, p) ==
    [FoldLeft(LAMBDA t, x : Proc([t EXCEPT !.sel = x[1]], x[2]).s, s, p) EXCEPT !.sel = s.sel]

---------------------------------------------------------------------------
\* What a value holds, encodings apart.  A replica of a stream does not get the counters of a
\* group, the delivery counts, nor the consumers that own nothing.
Held(o) ==
    CASE o.t = "stream" ->
           LET st == o.v q == Live(All(st))
           IN  <<[i \in DOMAIN q |-> <<q[i].id, q[i].f>>], st.len, st.first, st.last, st.maxdel, st.added,
                 [g \in DOMAIN st.cg |-> <<st.cg[g].last, [id \in DOMAIN st.cg[g].pel |-> st.cg[g].pel[id].c]>>]>>
      [] OTHER -> o.v
Data(s) == [x \in DOMAIN s.db |-> <<s.db[x].t, Held(s.db[x])>>]
=============================================================================
