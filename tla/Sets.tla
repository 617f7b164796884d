-------------------------------- MODULE Sets --------------------------------
(***************************************************************************)
(* The set commands (t_set.c) and the hash commands (t_hash.c).  A set is  *)
(* an intset (integers only, at most MaxIntset of them) or a hash table; a *)
(* hash a listpack (short fields and values, at most MaxListpack pairs) or *)
(* a hash table.  The order of a hash table depends on the seed of the     *)
(* server, modelled by its next random choice.                             *)
(***************************************************************************)
EXTENDS Lists

CONSTANTS MaxIntset, MaxListpack

Members(s, k) == IF Has(s, k) THEN Get(s, k).v ELSE {}
Ascending(S) == SetToSortSeq(S, <)
\* The order an iterator visits the elements in, and the random choice of n of them.
Iterate(enc, S, rnd) ==
    LET q == Ascending(S) IN IF enc = "hashtable" /\ rnd % 2 = 1 THEN Reverse(q) ELSE q
RandomElements(S, n, rnd) ==
    LET q == Ascending(S) IN {q[1 + ((rnd + i) % Len(q))] : i \in 1..n}

setTypeCreate(e) == Obj("set", IF IsNumber(e) THEN "intset" ELSE "hashtable", {})
\* Mutant: the size of an intset is not looked at.
setTypeAdd_NoLimit(o, e) == [o EXCEPT !.v = @ \cup {e}, !.enc = IF IsNumber(e) THEN @ ELSE "hashtable"]
setTypeAdd(o, e) ==
    [o EXCEPT !.v = @ \cup {e},
              !.enc = IF ~IsNumber(e) \/ Cardinality(o.v \cup {e}) > MaxIntset THEN "hashtable" ELSE @]
\* A set from nothing, as SUNIONSTORE and the others build their result.
SetFrom(S, first) == FoldLeft(setTypeAdd, Obj("set", "intset", {}), Iterate("hashtable", S, first))

\* SADD key elements
saddCommand(s, c) ==
    LET k == c[2] o == IF Has(s, k) THEN Get(s, k) ELSE setTypeCreate(c[3][1])
        w == FoldLeft(setTypeAdd, o, c[3])
        added == Cardinality(w.v) - Cardinality(o.v)
    IN  IF checkType(s, k, "set") THEN Reply(s, WrongType)
        ELSE IF added = 0 THEN Reply(s, 0)
        ELSE Dirty(setKey(s, k, w, TRUE), added, <<c>>, {k})

\* SREM key elements
sremCommand(s, c) ==
    LET k == c[2] gone == Members(s, k) \cap ToSet(c[3])
    IN  IF checkType(s, k, "set") THEN Reply(s, WrongType)
        ELSE IF gone = {} THEN Reply(s, 0)
        ELSE Dirty(Update(s, k, [Get(s, k) EXCEPT !.v = @ \ gone], Members(s, k) = gone), Cardinality(gone), <<c>>, {k})

\* SMOVE source destination element
smoveCommand(s, c) ==
    LET k == c[2] d == c[3] e == c[4]
        w == Update(s, k, [Get(s, k) EXCEPT !.v = @ \ {e}], Members(s, k) = {e})
        o == IF Has(w, d) THEN Get(w, d) ELSE setTypeCreate(e)
    IN  IF ~Has(s, k) THEN Reply(s, 0)
        ELSE IF checkType(s, k, "set") \/ checkType(s, d, "set") THEN Reply(s, WrongType)
        ELSE IF k = d THEN Reply(s, IF e \in Members(s, k) THEN 1 ELSE 0)
        ELSE IF e \notin Members(s, k) THEN Reply(s, 0)
        ELSE Dirty(setKey(w, d, setTypeAdd(o, e), TRUE), 1, <<c>>, IF e \in o.v THEN {k} ELSE {k, d})

smismemberCommand(s, c) ==
    Reply(s, IF checkType(s, c[2], "set") THEN WrongType ELSE [e \in ToSet(c[3]) |-> e \in Members(s, c[2])])
scardCommand(s, c) == Reply(s, IF checkType(s, c[2], "set") THEN WrongType ELSE Cardinality(Members(s, c[2])))

\* SPOP key count: all of them as a DEL; few as one SREM each; most of them by keeping a new
\* set of the others (which may have another encoding), again with one SREM each.
spopWithCountCommand(s, c) ==
    LET k == c[2] S == Members(s, k) n == Cardinality(S)
        gone == RandomElements(S, c[3], s.rnd)
        kept == Iterate("hashtable", S \ gone, s.rnd)
        left == IF (n - c[3]) * 5 > c[3] THEN [Get(s, k) EXCEPT !.v = @ \ gone]
                ELSE FoldLeft(setTypeAdd, setTypeCreate(kept[1]), kept)
    IN  IF c[3] < 0 THEN Reply(s, "ERR value is out of range, must be positive")
        ELSE IF checkType(s, k, "set") THEN Reply(s, WrongType)
        ELSE IF ~Has(s, k) \/ c[3] = 0 THEN Reply(s, {})
        ELSE IF c[3] >= n THEN Dirty(dbGenericDelete(s, {k}), S, <<<<"DEL", {k}>>>>, {k})
        ELSE Dirty(setKey(s, k, left, TRUE), gone, [i \in 1..c[3] |-> <<"SREM", k, <<Ascending(gone)[i]>>>>], {k})

spopCommand(s, c) ==
    LET k == c[2] S == Members(s, k) gone == RandomElements(S, 1, s.rnd)
    IN  IF c[3] # Nil THEN spopWithCountCommand(s, c)
        ELSE IF ~Has(s, k) THEN Reply(s, Nil)
        ELSE IF checkType(s, k, "set") THEN Reply(s, WrongType)
        ELSE Dirty(Update(s, k, [Get(s, k) EXCEPT !.v = @ \ gone], S = gone), gone, <<<<"SREM", k, Ascending(gone)>>>>, {k})

\* SRANDMEMBER key count: with repetitions when the count is negative.
srandmemberWithCountCommand(s, c) ==
    LET S == Members(s, c[2]) n == IF c[3] < 0 THEN -c[3] ELSE IF c[3] > Cardinality(S) THEN Cardinality(S) ELSE c[3]
    IN  IF checkType(s, c[2], "set") THEN Reply(s, WrongType)
        ELSE IF S = {} \/ n = 0 THEN Reply(s, {}) ELSE Reply(s, RandomElements(S, n, s.rnd))

---------------------------------------------------------------------------
\* The result of a STORE form: written, or the destination deleted.
StoreSet(s, c, d, o) ==
    IF o.v # {} THEN Dirty(setKey(s, d, o, FALSE), Cardinality(o.v), <<c>>, {d})
    ELSE IF Has(s, d) THEN Dirty(dbGenericDelete(s, {d}), 0, <<c>>, {d}) ELSE Reply(s, 0)

\* The smallest set is walked and its elements are looked up in the others, up to a limit.
WalkSmallest(s, q) ==
    SelectSeq(Iterate(Get(s, q[1]).enc, Members(s, q[1]), s.rnd), LAMBDA e : \A i \in 2..Len(q) : e \in Members(s, q[i]))
InterReply(s, c, res) ==
    IF c[3] # Nil THEN StoreSet(s, c, c[3], FoldLeft(setTypeAdd, Obj("set", "intset", {}), res))
    ELSE IF c[1] = "SINTERCARD" THEN Reply(s, IF c[4] > 0 /\ Len(res) > c[4] THEN c[4] ELSE Len(res))
    ELSE Reply(s, ToSet(res))
sinterGenericCommand(s, c) ==
    LET keys == c[2]
    IN  IF \E i \in DOMAIN keys : checkType(s, keys[i], "set") THEN Reply(s, WrongType)
        ELSE InterReply(s, c, IF \E i \in DOMAIN keys : ~Has(s, keys[i]) THEN <<>>
                              ELSE WalkSmallest(s, SortSeq(keys, LAMBDA a, b : Cardinality(Members(s, a)) < Cardinality(Members(s, b)))))

\* The second algorithm takes the sets away one by one, until nothing is left.
sdiffTwo(s, keys, S) ==
    FoldLeft(LAMBDA T, i : IF T = {} THEN T ELSE T \ Members(s, keys[i]), S, [i \in 1..(Len(keys) - 1) |-> i + 1])
\* The first looks every element of the first set up in the others.
sdiffOne(s, keys, S) ==
    LET others == SortSeq(Tail(keys), LAMBDA a, b : Cardinality(Members(s, a)) > Cardinality(Members(s, b)))
    IN  {e \in S : \A i \in DOMAIN others : ~Has(s, others[i]) \/ e \notin Members(s, others[i])}

UnionOrDiff(s, keys, op) ==
    LET first == Members(s, keys[1])
        there == {i \in DOMAIN keys : Has(s, keys[i])}
        sameset == Has(s, keys[1]) /\ \E i \in 2..Len(keys) : keys[i] = keys[1]
        one == (Cardinality(there) * Cardinality(first)) \div 2
        two == MapThenSumSet(LAMBDA i : Cardinality(Members(s, keys[i])), there)
    IN  IF op = "UNION" THEN UNION {Members(s, keys[i]) : i \in DOMAIN keys}
        ELSE IF sameset \/ ~Has(s, keys[1]) THEN {}
        ELSE IF one <= two THEN sdiffOne(s, keys, first) ELSE sdiffTwo(s, keys, first)
UnionDiffReply(s, c, res) == IF c[3] # Nil THEN StoreSet(s, c, c[3], SetFrom(res, s.rnd)) ELSE Reply(s, res)
sunionDiffGenericCommand(s, c, op) ==
    IF \E i \in DOMAIN c[2] : checkType(s, c[2][i], "set") THEN Reply(s, WrongType) ELSE UnionDiffReply(s, c, UnionOrDiff(s, c[2], op))

SetCommands(s, c) ==
    CASE c[1] = "SADD" -> saddCommand(s, c)
      [] c[1] = "SREM" -> sremCommand(s, c)
      [] c[1] = "SMOVE" -> smoveCommand(s, c)
      [] c[1] \in {"SMISMEMBER", "SMEMBERS"} -> smismemberCommand(s, c)
      [] c[1] = "SCARD" -> scardCommand(s, c)
      [] c[1] = "SPOP" -> spopCommand(s, c)
      [] c[1] = "SRANDMEMBER" -> srandmemberWithCountCommand(s, c)
      [] c[1] \in {"SINTER", "SINTERCARD", "SINTERSTORE"} -> sinterGenericCommand(s, c)
      [] c[1] \in {"SUNION", "SUNIONSTORE"} -> sunionDiffGenericCommand(s, c, "UNION")
      [] c[1] \in {"SDIFF", "SDIFFSTORE"} -> sunionDiffGenericCommand(s, c, "DIFF")

---------------------------------------------------------------------------
(***************************************************************************)
(* Hashes (t_hash.c).                                                      *)
(***************************************************************************)
Fields(s, k) == IF Has(s, k) THEN Get(s, k).v ELSE <<>>
NewHash == Obj("hash", "listpack", <<>>)
hashTypeLookupWriteOrCreate(s, k) == IF Has(s, k) THEN Get(s, k) ELSE NewHash

\* Long arguments convert the hash before any of them is stored.
hashTypeTryConversion(o, args) ==
    IF \E e \in args : e >= LongElement THEN [o EXCEPT !.enc = "hashtable"] ELSE o
hashTypeSet(o, f, v) ==
    LET w == With(o.v, f, v)
    IN  [hashTypeTryConversion(o, {f, v}) EXCEPT
           !.v = w, !.enc = IF Cardinality(DOMAIN w) > MaxListpack THEN "hashtable" ELSE @]

hsetnxCommand(s, c) ==
    LET k == c[2] o == hashTypeLookupWriteOrCreate(s, k)
    IN  IF checkType(s, k, "hash") THEN Reply(s, WrongType)
        ELSE IF c[3] \in DOMAIN o.v THEN Reply(s, 0)
        ELSE Dirty(setKey(s, k, hashTypeSet(o, c[3], c[4]), TRUE), 1, <<c>>, {k})

\* HSET key pairs
hsetCommand(s, c) ==
    LET k == c[2] o == hashTypeLookupWriteOrCreate(s, k)
        w == FoldLeft(LAMBDA h, x : hashTypeSet(h, x[1], x[2]), o, c[3])
    IN  IF checkType(s, k, "hash") THEN Reply(s, WrongType)
        ELSE Dirty(setKey(s, k, w, TRUE), Cardinality(DOMAIN w.v) - Cardinality(DOMAIN o.v), <<c>>, {k})

\* HINCRBY key field incr.  The hash is created before the checks: a field that is not
\* there is 0 and cannot fail them.
hincrbyCommand(s, c) ==
    LET k == c[2] o == hashTypeLookupWriteOrCreate(s, k)
        old == IF c[3] \in DOMAIN o.v THEN o.v[c[3]] ELSE 0
        created == setKey(s, k, o, TRUE)
    IN  IF checkType(s, k, "hash") THEN Reply(s, WrongType)
        ELSE IF ~IsNumber(old) THEN Reply(created, "ERR hash value is not an integer")
        ELSE IF IncrOverflows(old, c[4]) THEN Reply(created, "ERR increment or decrement would overflow")
        ELSE Dirty(setKey(s, k, hashTypeSet(o, c[3], old + c[4]), TRUE), old + c[4], <<c>>, {k})

\* The replicas get the sum.
hincrbyfloatCommand(s, c) ==
    LET k == c[2] o == hashTypeLookupWriteOrCreate(s, k)
        old == IF c[3] \in DOMAIN o.v THEN o.v[c[3]] ELSE 0
        created == setKey(s, k, o, TRUE)
    IN  IF checkType(s, k, "hash") THEN Reply(s, WrongType)
        ELSE IF ~IsNumber(old) THEN Reply(created, "ERR hash value is not a float")
        ELSE Dirty(setKey(s, k, hashTypeSet(o, c[3], old + c[4]), TRUE), old + c[4],
                   <<<<"HSET", k, <<<<c[3], old + c[4]>>>>>>>>, {k})

hmgetCommand(s, c) ==
    LET h == Fields(s, c[2])
    IN  Reply(s, IF checkType(s, c[2], "hash") THEN WrongType
                 ELSE [f \in ToSet(c[3]) |-> IF f \in DOMAIN h THEN h[f] ELSE Nil])
\* HDEL key fields
hdelCommand(s, c) ==
    LET k == c[2] h == Fields(s, k) gone == DOMAIN h \cap ToSet(c[3])
    IN  IF checkType(s, k, "hash") THEN Reply(s, WrongType)
        ELSE IF gone = {} THEN Reply(s, 0)
        ELSE Dirty(Update(s, k, [Get(s, k) EXCEPT !.v = Without(@, gone)], gone = DOMAIN h), Cardinality(gone), <<c>>, {k})
hlenCommand(s, c) == Reply(s, IF checkType(s, c[2], "hash") THEN WrongType ELSE Cardinality(DOMAIN Fields(s, c[2])))
genericHgetallCommand(s, c) == Reply(s, IF checkType(s, c[2], "hash") THEN WrongType ELSE Fields(s, c[2]))

\* HRANDFIELD key count
hrandfieldWithCountCommand(s, c) ==
    LET F == DOMAIN Fields(s, c[2]) n == IF c[3] < 0 THEN -c[3] ELSE IF c[3] > Cardinality(F) THEN Cardinality(F) ELSE c[3]
    IN  IF checkType(s, c[2], "hash") THEN Reply(s, WrongType)
        ELSE IF F = {} \/ n = 0 THEN Reply(s, {}) ELSE Reply(s, RandomElements(F, n, s.rnd))

HashCommands(s, c) ==
    CASE c[1] = "HSETNX" -> hsetnxCommand(s, c)
      [] c[1] = "HSET" -> hsetCommand(s, c)
      [] c[1] = "HINCRBY" -> hincrbyCommand(s, c)
      [] c[1] = "HINCRBYFLOAT" -> hincrbyfloatCommand(s, c)
      [] c[1] = "HMGET" -> hmgetCommand(s, c)
      [] c[1] = "HDEL" -> hdelCommand(s, c)
      [] c[1] = "HLEN" -> hlenCommand(s, c)
      [] c[1] = "HGETALL" -> genericHgetallCommand(s, c)
      [] c[1] = "HRANDFIELD" -> hrandfieldWithCountCommand(s, c)
=============================================================================
