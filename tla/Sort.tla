-------------------------------- MODULE Sort --------------------------------
(***************************************************************************)
(* SORT (sort.c).  A pattern is                                            *)
(*   <<"default">>     none was given,                                     *)
(*   <<"nosort">>      it has no '*',                                      *)
(*   <<"#">>           the element itself,                                 *)
(*   <<"key", f>>      the string at the key f[e] of an element e,         *)
(*   <<"hash", f, x>>  the field x of the hash at f[e].                    *)
(***************************************************************************)
EXTENDS SortedSets

\* The list element a string is.
ElementOf(v) == IF string2ll(v) THEN Numbers[v] ELSE 100 + Len(v) + v[Len(v)]
EmptyElement == 100

\* The value, or -1000 when there is none.
NoObj == -1000
lookupKeyByPattern(s, pat, e) ==
    CASE pat[1] = "#" -> e
      [] pat[1] = "key" -> IF Has(s, pat[2][e]) /\ Get(s, pat[2][e]).t = "string" THEN ElementOf(Get(s, pat[2][e]).v) ELSE NoObj
      [] pat[1] = "hash" -> LET h == Fields(s, pat[2][e]) IN
                            IF Has(s, pat[2][e]) /\ Get(s, pat[2][e]).t = "hash" /\ pat[3] \in DOMAIN h THEN h[pat[3]] ELSE NoObj
      [] pat[1] = "nosort" -> NoObj

\* The order of two entries [obj, cmp]: numeric ties by the objects, alphabetic ones are equal.
sortCompare(a, b, alpha, bypattern) ==
    IF ~alpha THEN IF a.cmp # b.cmp THEN a.cmp - b.cmp ELSE a.obj - b.obj
    ELSE IF bypattern THEN a.cmp - b.cmp ELSE a.obj - b.obj

\* The elements in the order they are put into the vector.
ElementsOf(q) == [i \in DOMAIN q |-> q[i][1]]
SortVector(s, o, nosort, desc) ==
    CASE o.t = "list" -> IF nosort /\ desc THEN Reverse(o.v) ELSE o.v
      [] o.t = "set" -> Iterate(o.enc, o.v, s.rnd)
      [] o.t = "zset" -> IF ~nosort THEN Iterate("hashtable", DOMAIN o.v, s.rnd)
                         ELSE LET e == ElementsOf(Sorted(o.v)) IN IF desc THEN Reverse(e) ELSE e

\* The reply or the list that is stored, with t the server after sorting.
SortReply(t, c, out) ==
    LET dst == c[3].store stored == [i \in DOMAIN out |-> IF out[i] = NoObj THEN EmptyElement ELSE out[i]]
    IN  IF dst = Nil THEN Reply(t, out)
        ELSE IF out # <<>> THEN Dirty(setKey(t, dst, list(stored), FALSE), Len(out), <<c>>, {dst})
        ELSE IF Has(t, dst) THEN Dirty(dbGenericDelete(t, {dst}), 0, <<c>>, {dst}) ELSE Reply(t, 0)
\* The part of a sorted vector that LIMIT asks for.
SortLimit(sorted, a, n) ==
    LET start == Min({Max({a.start, 0}), n}) cnt == Min({Max({a.count, -1}), n})
        end == IF start >= n THEN n - 2 ELSE Min({IF cnt < 0 THEN n - 1 ELSE start + cnt - 1, n - 1})
    IN  SubSeq(sorted, (IF start >= n THEN n - 1 ELSE start) + 1, end + 1)
\* The entries of the vector with what they are compared by, and the vector sorted.
ByPattern(by) == by[1] \in {"key", "hash", "#"}
SortEntry(e, i, cmp, alpha) == [obj |-> e, i |-> i, cmp |-> IF cmp = NoObj /\ ~alpha THEN 0 ELSE cmp]
SortEntries(s, q, by, alpha) ==
    [i \in DOMAIN q |-> SortEntry(q[i], i, IF ByPattern(by) THEN lookupKeyByPattern(s, by, q[i]) ELSE q[i], alpha)]
SortBefore(x, y, desc, d) == (IF desc THEN d > 0 ELSE d < 0) \/ (d = 0 /\ x.i < y.i)
Rows(s, get, cut) ==
    FlattenSeq([i \in DOMAIN cut |-> IF get = <<>> THEN <<cut[i].obj>> ELSE [j \in DOMAIN get |-> lookupKeyByPattern(s, get[j], cut[i].obj)]])
SortVec(s, t, c, vec, nosort, alpha) ==
    LET a == c[3]
    IN  IF ~nosort /\ ~alpha /\ \E i \in DOMAIN vec : ~IsNumber(vec[i].cmp)
        THEN Reply(t, "ERR One or more scores can't be converted into double")
        ELSE SortReply(t, c, Rows(s, a.get, SortLimit(IF nosort THEN vec
               ELSE SetToSortSeq(Range(vec), LAMBDA x, y : SortBefore(x, y, a.desc, sortCompare(x, y, alpha, ByPattern(a.by)))), a, Len(vec))))
\* SORT key [by, desc, alpha, start, count, get, store]
sortCommandGeneric(s, c) ==
    LET k == c[2] a == c[3]
        o == IF Has(s, k) THEN Get(s, k) ELSE list(<<>>)
        forced == a.by[1] = "nosort" /\ o.t = "set" /\ a.store # Nil
        nosort == a.by[1] = "nosort" /\ ~forced
        alpha == a.alpha \/ forced
        \* Sorting a sorted set converts it.
        t == IF Has(s, k) /\ o.t = "zset" THEN setKey(s, k, [o EXCEPT !.enc = "skiplist"], TRUE) ELSE s
    IN  IF o.t \notin {"list", "set", "zset"} THEN Reply(s, WrongType)
        ELSE SortVec(s, t, c, SortEntries(s, SortVector(s, o, nosort, a.desc), a.by, alpha), nosort, alpha)
=============================================================================
