------------------------------ MODULE Keyspace ------------------------------
(***************************************************************************)
(* The key space of a server (db.c, expire.c, object.c) and the commands   *)
(* on keys of any type.  A command is a tuple, its name first; an operator *)
(* models the function of the same name and gives                          *)
(*   [s    the server after it,                                            *)
(*    r    the reply,                                                      *)
(*    p    the commands that go to the AOF and the replicas,               *)
(*    mod  the keys signalModifiedKey was called for].                     *)
(* A server is [db, ex, now, sel, rnd, role]: the values and the expire    *)
(* times by <<database, key>>, the clock in ms, the database the client    *)
(* has selected, the choice the next random function makes, and            *)
(* "master", "replica" (executing commands of its master) or "loading".    *)
(* A value is [t, enc, v]: its type, encoding and contents.                *)
(***************************************************************************)
EXTENDS Integers, Sequences, FiniteSets, TLC, SequencesExt, FiniteSetsExt

CONSTANTS
    Dbs,        \* the databases, 0..dbnum-1
    MaxLL,      \* LLONG_MAX; LLONG_MIN is -MaxLL-1
    SecondMs,   \* milliseconds in a second
    Nil,        \* the null reply, and an argument that is not given
    WrongType,  \* the WRONGTYPE error
    MustBlock   \* a blocking command has found nothing

Ok == "OK"
SyntaxErr == "ERR syntax error"

NewServer(role) == [db |-> <<>>, ex |-> <<>>, now |-> 1, sel |-> 0, rnd |-> 0, role |-> role]

\* What a function returns that changed nothing, and one that changed keys and goes into the stream.
Reply(s, r) == [s |-> s, r |-> r, p |-> <<>>, mod |-> {}]
Dirty(s, r, p, mod) == [s |-> s, r |-> r, p |-> [i \in DOMAIN p |-> <<s.sel, p[i]>>], mod |-> {<<s.sel, k>> : k \in mod}]

Obj(t, enc, v) == [t |-> t, enc |-> enc, v |-> v]
Has(s, k) == <<s.sel, k>> \in DOMAIN s.db
Get(s, k) == s.db[s.sel, k]
checkType(s, k, t) == Has(s, k) /\ Get(s, k).t # t

Without(f, K) == [x \in DOMAIN f \ K |-> f[x]]
With(f, x, y) == (x :> y) @@ f
InRange(n) == n <= MaxLL /\ n >= -MaxLL - 1

---------------------------------------------------------------------------
(***************************************************************************)
(* db.c.                                                                   *)
(***************************************************************************)
dbAdd(s, k, o) == [s EXCEPT !.db = With(@, <<s.sel, k>>, o)]
dbOverwrite(s, k, o) == [s EXCEPT !.db[s.sel, k] = o]
dbGenericDelete(s, K) ==
    LET D == {<<s.sel, k>> : k \in K} IN [s EXCEPT !.db = Without(@, D), !.ex = Without(@, D)]
removeExpire(s, k) == [s EXCEPT !.ex = Without(@, {<<s.sel, k>>})]
setExpire(s, k, when) == [s EXCEPT !.ex = With(@, <<s.sel, k>>, when)]
getExpire(s, k) == IF <<s.sel, k>> \in DOMAIN s.ex THEN s.ex[s.sel, k] ELSE -1
setKey(s, k, o, keepttl) ==
    [IF Has(s, k) THEN dbOverwrite(s, k, o) ELSE dbAdd(s, k, o) EXCEPT
       !.ex = IF keepttl THEN @ ELSE Without(@, {<<s.sel, k>>})]
\* Keep the value of a key, or drop the key when the container is empty.
Update(s, k, o, empty) == IF empty THEN dbGenericDelete(s, {k}) ELSE setKey(s, k, o, TRUE)

keyIsExpired(s, x) == x \in DOMAIN s.ex /\ s.role # "loading" /\ s.now > s.ex[x]

\* The deletion goes into the stream before the command that looked the keys up.
deleteExpiredKeyAndPropagate(s, K) ==
    [s |-> [s EXCEPT !.db = Without(@, K), !.ex = Without(@, K)], mod |-> K,
     p |-> [i \in 1..Cardinality(K) |-> LET x == SetToSeq(K)[i] IN <<x[1], <<"DEL", {x[2]}>>>>]]

expireIfNeeded(s, K) ==
    deleteExpiredKeyAndPropagate(s, IF s.role = "master" THEN {x \in K : keyIsExpired(s, x)} ELSE {})

emptyData(s, D) ==
    LET K == {x \in DOMAIN s.db : x[1] \in D}
    IN  [s EXCEPT !.db = Without(@, K), !.ex = Without(@, K)]

flushdbCommand(s, c) ==
    [Dirty(emptyData(s, {s.sel}), Ok, <<c>>, {}) EXCEPT !.mod = {x \in DOMAIN s.db : x[1] = s.sel}]
flushallCommand(s, c) == [Dirty(emptyData(s, Dbs), Ok, <<c>>, {}) EXCEPT !.mod = DOMAIN s.db]

delGenericCommand(s, c) ==
    LET D == {k \in c[2] : Has(s, k)}
    IN  IF D = {} THEN Reply(s, 0) ELSE Dirty(dbGenericDelete(s, D), Cardinality(D), <<c>>, D)

existsCommand(s, c) == Reply(s, Cardinality({k \in c[2] : Has(s, k)}))
typeCommand(s, c) == Reply(s, IF Has(s, c[2]) THEN Get(s, c[2]).t ELSE "none")
dbsizeCommand(s, c) == Reply(s, Cardinality({x \in DOMAIN s.db : x[1] = s.sel}))
keysCommand(s, c) == Reply(s, {x[2] : x \in {y \in DOMAIN s.db : y[1] = s.sel /\ ~keyIsExpired(s, y)}})
selectCommand(s, c) == IF c[2] \in Dbs THEN Reply([s EXCEPT !.sel = c[2]], Ok) ELSE Reply(s, "ERR DB index is out of range")

\* A random key that is not expired; expired ones are deleted on the way.
dbRandomKey(s) ==
    LET K == {x \in DOMAIN s.db : x[1] = s.sel}
        q == SetToSeq({x \in K : ~keyIsExpired(s, x)})
        e == expireIfNeeded(s, K)
    IN  [s |-> e.s, p |-> e.p, mod |-> e.mod, r |-> IF q = <<>> THEN Nil ELSE q[1 + (s.rnd % Len(q))][2]]

renameGenericCommand(s, c) ==
    LET k == c[2] new == c[3] nx == c[1] = "RENAMENX"
        when == getExpire(s, k)
        w == dbAdd(dbGenericDelete(s, {new}), new, Get(s, k))
        x == IF when # -1 THEN setExpire(w, new, when) ELSE w
    IN  IF ~Has(s, k) THEN Reply(s, "ERR no such key")
        ELSE IF k = new THEN Reply(s, IF nx THEN 0 ELSE Ok)
        ELSE IF nx /\ Has(s, new) THEN Reply(s, 0)
        ELSE Dirty(dbGenericDelete(x, {k}), IF nx THEN 1 ELSE Ok, <<c>>, {k, new})

\* MOVE key db
moveCommand(s, c) ==
    LET k == c[2] d == [s EXCEPT !.sel = c[3]] when == getExpire(s, k)
        w == dbAdd(d, k, Get(s, k))
        x == IF when # -1 THEN setExpire(w, k, when) ELSE w
        y == dbGenericDelete([x EXCEPT !.sel = s.sel], {k})
    IN  IF c[3] \notin Dbs \/ c[3] = s.sel THEN Reply(s, "ERR source and destination objects are the same")
        ELSE IF ~Has(s, k) \/ Has(d, k) THEN Reply(s, 0)
        ELSE [Dirty(y, 1, <<c>>, {k}) EXCEPT !.mod = {<<s.sel, k>>, <<c[3], k>>}]

\* COPY source destination db replace: a value of its own, with the time to live of the source.
copyCommand(s, c) ==
    LET k == c[2] new == c[3] d == [s EXCEPT !.sel = c[4]] when == getExpire(s, k)
        w == dbAdd(dbGenericDelete(d, {new}), new, Get(s, k))
        x == IF when # -1 THEN setExpire(w, new, when) ELSE w
    IN  IF c[4] = s.sel /\ k = new THEN Reply(s, "ERR source and destination objects are the same")
        ELSE IF ~Has(s, k) \/ (Has(d, new) /\ ~c[5]) THEN Reply(s, 0)
        ELSE [Dirty([x EXCEPT !.sel = s.sel], 1, <<c>>, {}) EXCEPT !.mod = {<<c[4], new>>}]

\* The databases change places; clients stay with the index they selected.
dbSwapDatabases(s, a, b) ==
    LET at(d) == IF d = a THEN b ELSE IF d = b THEN a ELSE d
        Swap(f) == [x \in {<<at(y[1]), y[2]>> : y \in DOMAIN f} |-> f[at(x[1]), x[2]]]
    IN  [s EXCEPT !.db = Swap(@), !.ex = Swap(@)]
swapdbCommand(s, c) ==
    LET both == {c[2], c[3]}
    IN  IF ~(both \subseteq Dbs) THEN Reply(s, "ERR DB index is out of range")
        ELSE [Dirty(dbSwapDatabases(s, c[2], c[3]), Ok, <<c>>, {}) EXCEPT
                !.mod = both \X {x[2] : x \in {y \in DOMAIN s.db : y[1] \in both}}]

---------------------------------------------------------------------------
(***************************************************************************)
(* expire.c.                                                               *)
(***************************************************************************)
checkAlreadyExpired(s, when) == when <= s.now /\ s.role = "master"

parseExtendedExpireArgumentsOrReply(opts) ==
    ~("NX" \in opts /\ opts \cap {"XX", "GT", "LT"} # {}) /\ ~({"GT", "LT"} \subseteq opts)

\* EXPIRE key time options, with the absolute time the command stands for.
expireGenericCommand(s, c, when) ==
    LET k == c[2] opts == c[4] cur == getExpire(s, k)
    IN  IF ~parseExtendedExpireArgumentsOrReply(opts) THEN Reply(s, SyntaxErr)
        ELSE IF ~InRange(when) THEN Reply(s, "ERR invalid expire time")
        ELSE IF \/ ~Has(s, k)
                \/ "NX" \in opts /\ cur # -1
                \/ "XX" \in opts /\ cur = -1
                \/ "GT" \in opts /\ (when <= cur \/ cur = -1)
                \/ "LT" \in opts /\ cur # -1 /\ when >= cur THEN Reply(s, 0)
        ELSE IF checkAlreadyExpired(s, when) THEN Dirty(dbGenericDelete(s, {k}), 1, <<<<"DEL", {k}>>>>, {k})
        ELSE Dirty(setExpire(s, k, when), 1, <<<<"PEXPIREAT", k, when, opts>>>>, {k})

expireCommand(s, c) == expireGenericCommand(s, c, s.now + c[3] * SecondMs)
expireatCommand(s, c) == expireGenericCommand(s, c, c[3] * SecondMs)
pexpireCommand(s, c) == expireGenericCommand(s, c, s.now + c[3])
pexpireatCommand(s, c) == expireGenericCommand(s, c, c[3])

ttlGenericCommand(s, c) ==
    LET k == c[2] when == getExpire(s, k)
        ttl == IF c[1] \in {"EXPIRETIME", "PEXPIRETIME"} THEN when ELSE IF when < s.now THEN 0 ELSE when - s.now
    IN  Reply(s, IF ~Has(s, k) THEN -2 ELSE IF when = -1 THEN -1
                 ELSE IF c[1] \in {"PTTL", "PEXPIRETIME"} THEN ttl ELSE (ttl + SecondMs \div 2) \div SecondMs)

persistCommand(s, c) ==
    IF Has(s, c[2]) /\ getExpire(s, c[2]) # -1 THEN Dirty(removeExpire(s, c[2]), 1, <<c>>, {c[2]}) ELSE Reply(s, 0)

touchCommand(s, c) == existsCommand(s, c)

\* The cycle in the background deletes some of the expired keys of a database.
activeExpireCycle(s, K) == deleteExpiredKeyAndPropagate(s, {x \in K : x \in DOMAIN s.ex /\ s.now > s.ex[x]})

GenericCommands(s, c) ==
    CASE c[1] \in {"DEL", "UNLINK"} -> delGenericCommand(s, c)
      [] c[1] = "EXISTS" -> existsCommand(s, c)
      [] c[1] = "TOUCH" -> touchCommand(s, c)
      [] c[1] = "TYPE" -> typeCommand(s, c)
      [] c[1] = "DBSIZE" -> dbsizeCommand(s, c)
      [] c[1] = "KEYS" -> keysCommand(s, c)
      [] c[1] = "SELECT" -> selectCommand(s, c)
      [] c[1] = "RANDOMKEY" -> dbRandomKey(s)
      [] c[1] \in {"RENAME", "RENAMENX"} -> renameGenericCommand(s, c)
      [] c[1] = "MOVE" -> moveCommand(s, c)
      [] c[1] = "COPY" -> copyCommand(s, c)
      [] c[1] = "SWAPDB" -> swapdbCommand(s, c)
      [] c[1] = "FLUSHDB" -> flushdbCommand(s, c)
      [] c[1] = "FLUSHALL" -> flushallCommand(s, c)
      [] c[1] = "EXPIRE" -> expireCommand(s, c)
      [] c[1] = "EXPIREAT" -> expireatCommand(s, c)
      [] c[1] = "PEXPIRE" -> pexpireCommand(s, c)
      [] c[1] = "PEXPIREAT" -> pexpireatCommand(s, c)
      [] c[1] \in {"TTL", "PTTL", "EXPIRETIME", "PEXPIRETIME"} -> ttlGenericCommand(s, c)
      [] c[1] = "PERSIST" -> persistCommand(s, c)
=============================================================================
