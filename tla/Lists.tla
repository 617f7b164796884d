------------------------------- MODULE Lists -------------------------------
(***************************************************************************)
(* The list commands (t_list.c).  A list is a sequence of elements; an     *)
(* element is an integer: one in the range of a long long is a string of   *)
(* digits, a greater one any other string, long from LongElement on.       *)
(***************************************************************************)
EXTENDS Strings

LongElement == 200
IsNumber(e) == InRange(e)

Elements(s, k) == IF Has(s, k) THEN Get(s, k).v ELSE <<>>
list(v) == Obj("list", "quicklist", v)

listTypePush(v, e, where) == IF where = "LEFT" THEN <<e>> \o v ELSE Append(v, e)
\* listTypePop and listTypeDelRange: the first n elements at an end, and what stays.
Ends(v, where, n) == IF where = "LEFT" THEN SubSeq(v, 1, n) ELSE Reverse(SubSeq(v, Len(v) - n + 1, Len(v)))
listTypeDelRange(v, where, n) == IF where = "LEFT" THEN SubSeq(v, n + 1, Len(v)) ELSE SubSeq(v, 1, Len(v) - n)

\* LPUSH/RPUSH/LPUSHX/RPUSHX key elements
pushGenericCommand(s, c, where, xx) ==
    LET k == c[2] v == FoldLeft(LAMBDA l, e : listTypePush(l, e, where), Elements(s, k), c[3])
    IN  IF checkType(s, k, "list") THEN Reply(s, WrongType)
        ELSE IF xx /\ ~Has(s, k) THEN Reply(s, 0)
        ELSE Dirty(setKey(s, k, list(v), TRUE), Len(v), <<c>>, {k})

\* LINSERT key where pivot element
linsertCommand(s, c) ==
    LET k == c[2] v == Elements(s, k)
        at == {i \in DOMAIN v : v[i] = c[4]}
        i == Min(at) - IF c[3] = "BEFORE" THEN 1 ELSE 0
    IN  IF ~Has(s, k) THEN Reply(s, 0)
        ELSE IF checkType(s, k, "list") THEN Reply(s, WrongType)
        ELSE IF at = {} THEN Reply(s, -1)
        ELSE Dirty(setKey(s, k, list(InsertAt(v, i + 1, c[5])), TRUE), Len(v) + 1, <<c>>, {k})

llenCommand(s, c) == Reply(s, IF checkType(s, c[2], "list") THEN WrongType ELSE Len(Elements(s, c[2])))

\* The position of index i from the left, or from the right when it is negative.
Position(v, i) == IF i >= 0 THEN i + 1 ELSE Len(v) + i + 1
lindexCommand(s, c) ==
    LET v == Elements(s, c[2])
    IN  IF checkType(s, c[2], "list") THEN Reply(s, WrongType)
        ELSE Reply(s, IF Position(v, c[3]) \in DOMAIN v THEN v[Position(v, c[3])] ELSE Nil)
lsetCommand(s, c) ==
    LET k == c[2] v == Elements(s, k)
    IN  IF ~Has(s, k) THEN Reply(s, "ERR no such key")
        ELSE IF checkType(s, k, "list") THEN Reply(s, WrongType)
        ELSE IF Position(v, c[3]) \notin DOMAIN v THEN Reply(s, "ERR index out of range")
        ELSE Dirty(setKey(s, k, list([v EXCEPT ![Position(v, c[3])] = c[4]]), TRUE), Ok, <<c>>, {k})

\* The bounds of LRANGE and LTRIM; an empty range when start > end.
addListRangeReply(v, start, end) ==
    LET n == Len(v)
        a == IF start >= 0 THEN start ELSE IF n + start < 0 THEN 0 ELSE n + start
        b == IF end < 0 THEN n + end ELSE IF end >= n THEN n - 1 ELSE end
    IN  IF a > b \/ a >= n THEN <<>> ELSE SubSeq(v, a + 1, b + 1)
lrangeCommand(s, c) ==
    Reply(s, IF checkType(s, c[2], "list") THEN WrongType ELSE addListRangeReply(Elements(s, c[2]), c[3], c[4]))

\* Mutant: an emptied list stays in the key space.
listElementsRemoved_Stays(s, k, v) == setKey(s, k, list(v), TRUE)
listElementsRemoved(s, k, v) == Update(s, k, list(v), v = <<>>)

\* LTRIM signals the key even when nothing is trimmed.
ltrimCommand(s, c) ==
    LET k == c[2] v == Elements(s, k) w == addListRangeReply(v, c[3], c[4])
    IN  IF ~Has(s, k) THEN Reply(s, Ok)
        ELSE IF checkType(s, k, "list") THEN Reply(s, WrongType)
        ELSE Dirty(listElementsRemoved(s, k, w), Ok, IF w = v THEN <<>> ELSE <<c>>, {k})

\* LPOP/RPOP key count, count = Nil when it is not given
popGenericCommand(s, c, where) ==
    LET k == c[2] v == Elements(s, k)
        n == IF c[3] = Nil THEN 1 ELSE IF c[3] > Len(v) THEN Len(v) ELSE c[3]
    IN  IF c[3] # Nil /\ c[3] < 0 THEN Reply(s, "ERR value is out of range, must be positive")
        ELSE IF ~Has(s, k) THEN Reply(s, Nil)
        ELSE IF checkType(s, k, "list") THEN Reply(s, WrongType)
        ELSE IF n = 0 THEN Reply(s, <<>>)
        ELSE Dirty(listElementsRemoved(s, k, listTypeDelRange(v, where, n)), Ends(v, where, n), <<c>>, {k})

PopName(where) == IF where = "LEFT" THEN "LPOP" ELSE "RPOP"
listPopRangeAndReplyWithKey(s, k, where, count) ==
    LET v == Elements(s, k) n == IF count > Len(v) THEN Len(v) ELSE count
    IN  Dirty(listElementsRemoved(s, k, listTypeDelRange(v, where, n)), <<k, Ends(v, where, n)>>,
              <<<<PopName(where), k, n>>>>, {k})

\* The first of the keys that is not missing, or 0.
FirstKey(s, keys) == LET I == {i \in DOMAIN keys : Has(s, keys[i])} IN IF I = {} THEN 0 ELSE Min(I)

\* LMPOP keys where count; the stream gets an LPOP or RPOP of the one key.
mpopGenericCommand(s, c) ==
    LET i == FirstKey(s, c[2])
    IN  IF i = 0 THEN Reply(s, Nil)
        ELSE IF checkType(s, c[2][i], "list") THEN Reply(s, WrongType)
        ELSE listPopRangeAndReplyWithKey(s, c[2][i], c[3], c[4])

\* LPOS key element rank count maxlen, count = -1 when it is not given: the scan stops at
\* the first match that has the rank, or at the count-th after it.
lposCommand(s, c) ==
    LET v == Elements(s, c[2])
        right == c[4] < 0
        rank == IF right THEN -c[4] ELSE c[4]
        seen == IF right THEN Reverse(v) ELSE v
        scan == IF c[6] = 0 \/ c[6] > Len(v) THEN seen ELSE SubSeq(seen, 1, c[6])
        hits == SelectSeq([i \in DOMAIN scan |-> i], LAMBDA i : scan[i] = c[3])
        some(q) == IF c[5] <= 0 \/ c[5] > Len(q) THEN q ELSE SubSeq(q, 1, c[5])
        at(i) == IF right THEN Len(v) - i ELSE i - 1
        reply(q) == IF c[5] # -1 THEN [i \in DOMAIN some(q) |-> at(q[i])] ELSE IF q = <<>> THEN Nil ELSE at(q[1])
    IN  IF c[4] = 0 \/ c[6] < 0 THEN Reply(s, "ERR RANK can't be zero")
        ELSE IF checkType(s, c[2], "list") THEN Reply(s, WrongType)
        ELSE Reply(s, reply(SubSeq(hits, rank, Len(hits))))

\* LREM key count element: count of them from the left, from the right, or all.
lremCommand(s, c) ==
    LET k == c[2] v == Elements(s, k)
        hits == SelectSeq([i \in DOMAIN v |-> i], LAMBDA i : v[i] = c[4])
        count == IF c[3] < 0 THEN -c[3] ELSE c[3]
        n == IF count = 0 \/ Len(hits) <= count THEN Len(hits) ELSE count
        del == ToSet(Ends(hits, IF c[3] < 0 THEN "RIGHT" ELSE "LEFT", n))
        kept == SelectSeq([i \in DOMAIN v |-> i], LAMBDA i : i \notin del)
        w == [i \in DOMAIN kept |-> v[kept[i]]]
    IN  IF ~Has(s, k) THEN Reply(s, 0)
        ELSE IF checkType(s, k, "list") THEN Reply(s, WrongType)
        ELSE IF n = 0 THEN Reply(s, 0)
        ELSE Dirty(listElementsRemoved(s, k, w), n, <<c>>, {k})

\* LMOVE source destination wherefrom whereto; source and destination may be one list.
lmoveHandlePush(s, k, e, where) == setKey(s, k, list(listTypePush(Elements(s, k), e, where)), TRUE)
DeleteIfEmpty(s, k) == IF Elements(s, k) = <<>> THEN dbGenericDelete(s, {k}) ELSE s
lmoveGenericCommand(s, c) ==
    LET k == c[2] d == c[3] v == Elements(s, k)
        e == Ends(v, c[4], 1)[1]
    IN  IF ~Has(s, k) THEN Reply(s, Nil)
        ELSE IF checkType(s, k, "list") \/ checkType(s, d, "list") THEN Reply(s, WrongType)
        ELSE Dirty(DeleteIfEmpty(lmoveHandlePush(setKey(s, k, list(listTypeDelRange(v, c[4], 1)), TRUE), d, e, c[5]), k),
                   e, <<<<"LMOVE", k, d, c[4], c[5]>>>>, {k, d})

---------------------------------------------------------------------------
(***************************************************************************)
(* The blocking forms.  MustBlock: the client waits for one of its keys.   *)
(***************************************************************************)
\* BLPOP/BRPOP/BLMPOP keys where count, count = -1 for the first two
WithKey(r, k) == [r EXCEPT !.r = <<k, @[1]>>]
blockingPopGenericCommand(s, c) ==
    LET i == FirstKey(s, c[2]) k == c[2][i]
    IN  IF i = 0 THEN Reply(s, MustBlock)
        ELSE IF checkType(s, k, "list") THEN Reply(s, WrongType)
        ELSE IF c[4] # -1 THEN listPopRangeAndReplyWithKey(s, k, c[3], c[4])
        ELSE WithKey(popGenericCommand(s, <<PopName(c[3]), k, Nil>>, c[3]), k)

\* BLMOVE source destination wherefrom whereto
blmoveGenericCommand(s, c) ==
    IF ~Has(s, c[2]) THEN Reply(s, MustBlock) ELSE lmoveGenericCommand(s, c)

\* A key has become a list: the blocked command is answered as if it ran now.
\* A wrong destination type is an error for the client and pops nothing.
serveClientBlockedOnList(s, c, k) ==
    IF c[1] = "BLMOVE" THEN lmoveGenericCommand(s, c)
    ELSE IF c[4] # -1 THEN listPopRangeAndReplyWithKey(s, k, c[3], c[4])
    ELSE LET r == popGenericCommand(s, <<PopName(c[3]), k, Nil>>, c[3]) IN [r EXCEPT !.r = <<k, r.r[1]>>]

ListCommands(s, c) ==
    CASE c[1] = "LPUSH" -> pushGenericCommand(s, c, "LEFT", FALSE)
      [] c[1] = "RPUSH" -> pushGenericCommand(s, c, "RIGHT", FALSE)
      [] c[1] = "LPUSHX" -> pushGenericCommand(s, c, "LEFT", TRUE)
      [] c[1] = "RPUSHX" -> pushGenericCommand(s, c, "RIGHT", TRUE)
      [] c[1] = "LINSERT" -> linsertCommand(s, c)
      [] c[1] = "LLEN" -> llenCommand(s, c)
      [] c[1] = "LINDEX" -> lindexCommand(s, c)
      [] c[1] = "LSET" -> lsetCommand(s, c)
      [] c[1] = "LRANGE" -> lrangeCommand(s, c)
      [] c[1] = "LTRIM" -> ltrimCommand(s, c)
      [] c[1] = "LPOP" -> popGenericCommand(s, c, "LEFT")
      [] c[1] = "RPOP" -> popGenericCommand(s, c, "RIGHT")
      [] c[1] = "LMPOP" -> mpopGenericCommand(s, c)
      [] c[1] = "LPOS" -> lposCommand(s, c)
      [] c[1] = "LREM" -> lremCommand(s, c)
      [] c[1] = "LMOVE" -> lmoveGenericCommand(s, c)
      [] c[1] \in {"BLPOP", "BLMPOP"} -> blockingPopGenericCommand(s, c)
      [] c[1] = "BLMOVE" -> blmoveGenericCommand(s, c)
=============================================================================
