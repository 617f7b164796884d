------------------------------ MODULE Tracking ------------------------------
(***************************************************************************)
(* Server-assisted client-side caching (tracking.c).  S.tt is the table of *)
(* the clients that may hold a copy of a key, S.pt the table of the        *)
(* prefixes clients follow in broadcast mode, each with the keys modified  *)
(* since the last broadcast and the client that modified them, S.pendk the *)
(* keys whose invalidation waits until the current command has replied.    *)
(* Both tables go by the name of the key, whatever its database.           *)
(***************************************************************************)
EXTENDS PubSub

CONSTANT TrackingMaxKeys   \* tracking-table-max-keys (0: no limit)

TrackingFlags == {"TRACKING", "BROKEN_REDIR", "BCAST", "OPTIN", "OPTOUT", "TRACKING_CACHING", "NOLOOP"}
AllKeys == "*"   \* the null invalidation: everything is gone

disableTracking(S, c) ==
    LET Leave(pt, p) == LET b == [pt[p] EXCEPT !.cls = @ \ {c}]
                        IN  IF b.cls = {} THEN Restrict(pt, DOMAIN pt \ {p}) ELSE [pt EXCEPT ![p] = b]
        T == IF Is(S, c, "BCAST")
             THEN [S EXCEPT !.pt = FoldLeft(Leave, @, SetToSeq(S.cl[c].prefixes)), !.cl[c].prefixes = {}] ELSE S
    IN  Clear([T EXCEPT !.cl[c].cache = <<>>], c, TrackingFlags)

\* One of the two begins with the other.
stringCheckPrefix(p, q) == stringmatchlen(p, q) \/ stringmatchlen(q, p)
checkPrefixCollisionsOrReply(S, c, ps) ==
    /\ \A i \in DOMAIN ps, p \in S.cl[c].prefixes : ~stringCheckPrefix(p, ps[i])
    /\ \A i, j \in DOMAIN ps : i < j => ~stringCheckPrefix(ps[i], ps[j])

enableBcastTrackingForPrefix(S, c, p) ==
    LET b == IF p \in DOMAIN S.pt THEN S.pt[p] ELSE [keys |-> <<>>, cls |-> {}]
    IN  [S EXCEPT !.pt = (p :> [b EXCEPT !.cls = @ \cup {c}]) @@ @, !.cl[c].prefixes = @ \cup {p}]
enableTracking(S, c, redirect, options, ps) ==
    LET T == [Set(Clear(S, c, TrackingFlags \ {"TRACKING_CACHING"}), c, {"TRACKING"} \cup options)
              EXCEPT !.cl[c].redir = redirect]
    IN  IF "BCAST" \notin options THEN T
        ELSE FoldLeft(LAMBDA U, p : enableBcastTrackingForPrefix(U, c, p), T, IF ps = <<>> THEN <<"">> ELSE ps)

ValueOf(S, K) == IF K \in DOMAIN S.s.db THEN S.s.db[K] ELSE Nil
Keep(S, c, keys) == [S EXCEPT !.cl[c].cache = [k \in keys |-> ValueOf(S, <<S.cl[c].db, k>>)] @@ @]
\* The keys a command has read.
trackingRememberKeys(S, c, keys) ==
    IF (Is(S, c, "OPTIN") /\ ~Is(S, c, "TRACKING_CACHING")) \/ (Is(S, c, "OPTOUT") /\ Is(S, c, "TRACKING_CACHING")) THEN S
    ELSE [Keep(S, c, keys) EXCEPT !.tt = [k \in keys |-> {c} \cup (IF k \in DOMAIN @ THEN @[k] ELSE {})] @@ @]

\* What a client may still keep: cl[c].cache, the values it has read and not been told to drop.
Forget(S, c, keys) ==
    [S EXCEPT !.cl[c].cache = IF AllKeys \in keys THEN <<>> ELSE Restrict(@, DOMAIN @ \ keys)]
\* A message to the client itself, or to the connection it redirects to, which understands it
\* when it speaks RESP3 or listens to the invalidation channel.
PushInvalidation(S, d, keys) == updateClientMemUsageAndBucket(addReplyPush(S, d, <<"invalidate", keys>>), d)
SendTo(S, c, to, keys) ==
    IF to = Nil THEN IF S.cl[c].resp > 2 THEN PushInvalidation(S, c, keys) ELSE S
    ELSE IF S.cl[to].conn THEN IF S.cl[to].resp > 2 \/ Is(S, to, "PUBSUB") THEN PushInvalidation(S, to, keys) ELSE S
    ELSE IF S.cl[c].resp > 2 THEN addReplyPush(Set(S, c, {"BROKEN_REDIR"}), c, <<"tracking-redir-broken", to>>)
    ELSE Set(S, c, {"BROKEN_REDIR"})
sendTrackingMessage(S, c, keys) == SendTo(Forget(S, c, keys), c, S.cl[c].redir, keys)

\* The last client to modify the key is remembered with it.
trackingRememberKeyToBroadcast(S, c, k) ==
    [S EXCEPT !.pt = [p \in DOMAIN @ |-> IF stringmatchlen(p, k) THEN [@[p] EXCEPT !.keys = (k :> c) @@ @] ELSE @[p]]]

\* A client that may have a copy is told: when it is the one whose command is being executed,
\* after the reply of that command, and not at all if it asked not to be.
TellClient(S, d, k) ==
    IF ~S.cl[d].conn \/ ~Is(S, d, "TRACKING") \/ Is(S, d, "BCAST") THEN S
    ELSE IF Is(S, d, "NOLOOP") /\ d = S.cur THEN Forget(S, d, {k})
    ELSE IF d = S.cur /\ S.fixed THEN [S EXCEPT !.pendk = Append(@, {k})] ELSE sendTrackingMessage(S, d, {k})
\* The clients that may have a copy are told and the key is forgotten.
TellClients(S, k) ==
    IF k \notin DOMAIN S.tt THEN S
    ELSE [FoldLeft(LAMBDA T, d : TellClient(T, d, k), S, SetToSeq(S.tt[k])) EXCEPT !.tt = Restrict(@, DOMAIN @ \ {k})]
trackingInvalidateKey(S, c, k, bcast) ==
    TellClients(IF bcast /\ S.pt # <<>> THEN trackingRememberKeyToBroadcast(S, c, k) ELSE S, k)

trackingHandlePendingKeyInvalidations(S) ==
    [FoldLeft(LAMBDA T, ks : IF T.cur = Nil THEN T ELSE sendTrackingMessage(T, T.cur, ks), S, S.pendk) EXCEPT !.pendk = <<>>]

TellFlushed(S, c) ==
    IF ~Is(S, c, "TRACKING") THEN S
    ELSE IF c = S.cur THEN [S EXCEPT !.pendk = Append(@, {AllKeys})] ELSE sendTrackingMessage(S, c, {AllKeys})
trackingInvalidateKeysOnFlush(S) == [FoldLeft(TellFlushed, S, S.clients) EXCEPT !.tt = <<>>]

\* Random keys are forgotten until the table is within its limit (which key: S.s.rnd).
RECURSIVE trackingLimitUsedSlots(_)
trackingLimitUsedSlots(S) ==
    IF TrackingMaxKeys = 0 \/ Cardinality(DOMAIN S.tt) <= TrackingMaxKeys THEN S
    ELSE LET q == SetToSeq(DOMAIN S.tt) IN trackingLimitUsedSlots(trackingInvalidateKey(S, Nil, q[(S.s.rnd % Len(q)) + 1], FALSE))

\* The keys modified since the last time, except for those the client modified last itself
\* when it asked not to hear of them.
trackingBuildBroadcastReply(S, c, keys) ==
    IF Is(S, c, "NOLOOP") THEN {k \in DOMAIN keys : keys[k] # c} ELSE DOMAIN keys
SendKeys(S, c, keys) == IF keys = {} THEN S ELSE sendTrackingMessage(S, c, keys)
BroadcastPrefix(S, p) ==
    LET b == S.pt[p]
    IN  [FoldLeft(LAMBDA T, c : SendKeys(Forget(T, c, DOMAIN b.keys), c, trackingBuildBroadcastReply(T, c, b.keys)), S, SetToSeq(b.cls))
         EXCEPT !.pt[p].keys = <<>>]
trackingBroadcastInvalidationMessages(S) == FoldLeft(BroadcastPrefix, S, SetToSeq({p \in DOMAIN S.pt : S.pt[p].keys # <<>>}))
=============================================================================
