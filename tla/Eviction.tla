------------------------------ MODULE Eviction ------------------------------
(***************************************************************************)
(* Eviction of keys (evict.c).  A key is one unit of memory, S.maxmem the  *)
(* limit (0: none) and S.policy the policy: [all, by] where by is none,    *)
(* lru, ttl or random.  S.lru is the time a key was last accessed, S.pool  *)
(* the candidates with the idle time they had when they were sampled, best *)
(* last; S.evictProc tells that a time event goes on evicting.  S.evicted  *)
(* collects what the last call has evicted and whether it had a time to    *)
(* live.                                                                   *)
(***************************************************************************)
EXTENDS Sessions

CONSTANTS
    EvpoolSize,        \* EVPOOL_SIZE
    MaxmemorySamples,  \* maxmemory-samples
    EvictBatch         \* the keys evicted between two looks at the clock

UsedMemory(S) == Cardinality(DOMAIN S.s.db)
getMaxmemoryState(S) == S.maxmem = 0 \/ UsedMemory(S) <= S.maxmem
estimateObjectIdleTime(S, K) == S.s.now - (IF K \in DOMAIN S.lru THEN S.lru[K] ELSE 0)

\* The dictionary candidates come from: all keys, or those with a time to live.
Candidates(S, d) == {K \in IF S.policy.all THEN DOMAIN S.s.db ELSE DOMAIN S.s.ex : K[1] = d}
Idle(S, K) == IF S.policy.by = "ttl" THEN Forever - S.s.ex[K] ELSE estimateObjectIdleTime(S, K)

\* A sample enters the pool before the first candidate that is not less idle; a full pool loses
\* the least idle one, and a sample less idle than all of a full pool is not taken.
PoolInsert(pool, K, idle) ==
    LET ahead == {i \in DOMAIN pool : pool[i].idle >= idle}
        k == IF ahead = {} THEN Len(pool) ELSE Min(ahead) - 1
        e == [K |-> K, idle |-> idle]
        put(q, n) == SubSeq(q, 1, n) \o <<e>> \o SubSeq(q, n + 1, Len(q))
    IN  IF Len(pool) < EvpoolSize THEN put(pool, k)
        ELSE IF k = 0 THEN pool ELSE put(Tail(pool), k - 1)
\* Which keys are sampled: the first ones from a place that S.s.rnd selects.
Samples(S, q) == [i \in 1..Min({Len(q), MaxmemorySamples}) |-> q[((S.s.rnd + i) % Len(q)) + 1]]
evictionPoolPopulate(S, d) ==
    FoldLeft(LAMBDA T, K : [T EXCEPT !.pool = PoolInsert(@, K, Idle(T, K))], S, Samples(S, SetToSeq(Candidates(S, d))))

\* The best candidate that is still in the dictionary; those before it were ghosts.
TakeBest(S) ==
    LET live == {i \in DOMAIN S.pool : S.pool[i].K \in Candidates(S, S.pool[i].K[1])}
    IN  IF live = {} THEN [s |-> [S EXCEPT !.pool = <<>>], K |-> Nil]
        ELSE [s |-> [S EXCEPT !.pool = SubSeq(@, 1, Max(live) - 1)], K |-> S.pool[Max(live)].K]
RECURSIVE BestOfPool(_)
UnlessGhosts(b) == IF b.K = Nil THEN BestOfPool(b.s) ELSE b
BestOfPool(S) ==
    LET full == {d \in Dbs : Candidates(S, d) # {}}
    IN  IF full = {} THEN [s |-> S, K |-> Nil] ELSE UnlessGhosts(TakeBest(FoldLeft(evictionPoolPopulate, S, SetToSeq(full))))
\* The databases take turns, starting with the one after the last (S.nextDb).
RandomKey(S) ==
    LET n == Cardinality(Dbs)
        full == {i \in 1..n : Candidates(S, (S.nextDb + i) % n) # {}}
        d == (S.nextDb + Min(full)) % n
        q == SetToSeq(Candidates(S, d))
    IN  IF full = {} THEN [s |-> S, K |-> Nil] ELSE [s |-> [S EXCEPT !.nextDb = d], K |-> q[(S.s.rnd % Len(q)) + 1]]

EvictKey(S, K) ==
    LET T == [S EXCEPT !.evicted = @ \cup {<<K, K \in DOMAIN S.s.ex>>}, !.s.db = Without(@, {K}), !.s.ex = Without(@, {K}),
                       !.also = Append(@, <<K[1], <<"DEL", {K[2]}>>>>)]
    IN  signalModifiedKey(SignalChanges(T, S.s.db, T.s.db, <<"DEL", {K[2]}>>, K[1]), Nil, K)

startEvictionTimeProc(S) == [S EXCEPT !.evictProc = TRUE]
isSafeToPerformEvictions(S) == ~(S.script # Nil /\ S.script.timedout) /\ ~areClientsPaused(S)

\* Keys go until the limit is met; when time is up (S.slow) the rest is left to a time event.
RECURSIVE EvictLoop(_, _)
EvictMore(S, n) ==
    IF n % EvictBatch = 0 /\ S.slow THEN [s |-> startEvictionTimeProc(S), r |-> "RUNNING"] ELSE EvictLoop(S, n)
EvictBest(b, n) == IF b.K = Nil THEN [s |-> b.s, r |-> "FAIL"] ELSE EvictMore(EvictKey(b.s, b.K), n + 1)
EvictLoop(S, n) ==
    IF getMaxmemoryState(S) THEN [s |-> S, r |-> IF S.evictProc THEN "RUNNING" ELSE "OK"]
    ELSE EvictBest(IF S.policy.by = "random" THEN RandomKey(S) ELSE BestOfPool(S), n)
EndEviction(e) == [s |-> [Boundary(propagatePendingCommands(e.s)) EXCEPT !.noMulti = FALSE], r |-> e.r]
EvictUnpaused(S) ==
    IF ~isSafeToPerformEvictions(S) \/ getMaxmemoryState(S) THEN [s |-> S, r |-> "OK"]
    ELSE IF S.policy.by = "none" THEN [s |-> S, r |-> "FAIL"]
    ELSE EndEviction(EvictLoop([Panic(S, "propagation pending", S.also = <<>>) EXCEPT !.noMulti = TRUE], 0))
performEvictions(S) == EvictUnpaused(checkClientPauseTimeoutAndReturnIfPaused(S))
EvictedAgain(e) == IF e.r = "RUNNING" THEN e.s ELSE [e.s EXCEPT !.evictProc = FALSE]
evictionTimeProc(S) == EvictedAgain(performEvictions(S))
=============================================================================
