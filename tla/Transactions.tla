---------------------------- MODULE Transactions ----------------------------
(***************************************************************************)
(* MULTI, EXEC and WATCH (multi.c).  S.watched is the table of the clients *)
(* watching a key; the client keeps, for each key it watches, whether the  *)
(* key was there but expired when it was watched.                          *)
(***************************************************************************)
EXTENDS Tracking

queueMultiCommand(S, c, cmd, flags) ==
    IF S.cl[c].flags \cap {"DIRTY_CAS", "DIRTY_EXEC"} # {} THEN S
    ELSE [S EXCEPT !.cl[c].mq = Append(@, cmd), !.cl[c].mqflags = @ \cup flags]

\* What a client sees of a key; watchForKey notes it with the key.
Logical(S, K) == IF K \in DOMAIN S.s.db /\ ~keyIsExpired(S.s, K) THEN S.s.db[K] ELSE Nil
\* One entry for a key and database, however often it is watched.
watchForKey(S, c, k) ==
    LET K == <<S.cl[c].db, k>>
    IN  IF \E i \in DOMAIN S.cl[c].watched : S.cl[c].watched[i].K = K THEN S
        ELSE [S EXCEPT !.watched = AddTo(@, K, c),
                       !.cl[c].watched = Append(@, [K |-> K, expired |-> keyIsExpired(S.s, K), val |-> Logical(S, K)])]

unwatchAllKeys(S, c) ==
    [FoldLeft(LAMBDA T, w : [T EXCEPT !.watched = DropFrom(@, w.K, c)], S, S.cl[c].watched) EXCEPT !.cl[c].watched = <<>>]

isWatchedKeyExpired(S, c) ==
    \E i \in DOMAIN S.cl[c].watched : LET w == S.cl[c].watched[i] IN ~w.expired /\ keyIsExpired(S.s, w.K)

SetExpired(S, c, K, e) ==
    [S EXCEPT !.cl[c].watched = [i \in DOMAIN @ |-> IF @[i].K = K THEN [@[i] EXCEPT !.expired = e] ELSE @[i]]]
WatchedExpired(S, c, K) == \E i \in DOMAIN S.cl[c].watched : S.cl[c].watched[i].K = K /\ S.cl[c].watched[i].expired

\* The deletion of a key that was expired when it was watched is no change.  (The loop over the
\* clients ends at one that watches such a key while the key is there.)
RECURSIVE TouchClients(_, _, _)
TouchClients(S, K, q) ==
    IF q = <<>> THEN S
    ELSE LET c == Head(q)
         IN  IF WatchedExpired(S, c, K)
             THEN IF K \in DOMAIN S.s.db THEN S ELSE TouchClients(SetExpired(S, c, K, FALSE), K, Tail(q))
             ELSE TouchClients(unwatchAllKeys(Set(S, c, {"DIRTY_CAS"}), c), K, Tail(q))
touchWatchedKey(S, K) == TouchClients(S, K, Fetch(S.watched, K))

\* Mutant: a key that only exists in the database swapped in does not count as changed.
TouchReplaced_OnlyOld(S, K, N) ==
    IF K \notin DOMAIN S.s.db THEN S
    ELSE FoldLeft(LAMBDA T, c : IF WatchedExpired(T, c, K) THEN SetExpired(T, c, K, FALSE) ELSE Set(T, c, {"DIRTY_CAS"}), S, S.watched[K])
\* The database d is emptied, or replaced by the database new.  Called before that happens.
MarkReplaced(S, c, K, there, after, expired) ==
    IF WatchedExpired(S, c, K)
    THEN IF ~after THEN SetExpired(S, c, K, FALSE) ELSE IF expired THEN S ELSE Set(S, c, {"DIRTY_CAS"})
    ELSE IF ~there /\ expired THEN SetExpired(S, c, K, TRUE) ELSE Set(S, c, {"DIRTY_CAS"})
TouchReplaced(S, K, N) ==
    LET there == K \in DOMAIN S.s.db after == N \in DOMAIN S.s.db
    IN  IF ~there /\ ~after THEN S
        ELSE FoldLeft(LAMBDA T, c : MarkReplaced(T, c, K, there, after, keyIsExpired(S.s, N)), S, S.watched[K])
touchAllWatchedKeysInDb(S, d, new) ==
    FoldLeft(LAMBDA T, K : TouchReplaced(T, K, <<new, K[2]>>), S, SetToSeq({K \in DOMAIN S.watched : K[1] = d}))

discardTransaction(S, c) ==
    unwatchAllKeys(Clear([S EXCEPT !.cl[c].mq = <<>>, !.cl[c].mqflags = {}], c, {"MULTI", "DIRTY_CAS", "DIRTY_EXEC"}), c)

flagTransaction(S, c) == IF Is(S, c, "MULTI") THEN Set(S, c, {"DIRTY_EXEC"}) ELSE S

multiCommand(S, c) == IF Is(S, c, "MULTI") THEN addReply(S, c, "ERR_NESTED") ELSE addReply(Set(S, c, {"MULTI"}), c, Ok)
discardCommand(S, c) ==
    IF Is(S, c, "MULTI") THEN addReply(discardTransaction(S, c), c, Ok) ELSE addReply(S, c, "ERR_NO_MULTI")
execCommandAbort(S, c) == addReply(discardTransaction(S, c), c, "EXECABORT")
watchCommand(S, c, keys) ==
    IF Is(S, c, "MULTI") THEN addReply(S, c, "ERR_WATCH")
    ELSE IF Is(S, c, "DIRTY_CAS") THEN addReply(S, c, Ok)
    ELSE addReply(FoldLeft(LAMBDA T, k : watchForKey(T, c, k), S, keys), c, Ok)
unwatchCommand(S, c) == addReply(Clear(unwatchAllKeys(S, c), c, {"DIRTY_CAS"}), c, Ok)
=============================================================================
