------------------------------ MODULE MCServer ------------------------------
(***************************************************************************)
(* Scenarios for the server: small programs of two or three clients whose  *)
(* steps are interleaved in every way with the event loop, the clock and   *)
(* the replica.                                                            *)
(***************************************************************************)
EXTENDS Server

MCBegins ==
    {<<p, p>> : p \in {"a", "b", "c1", "c2", "p1"}}
    \cup {<<"", k>> : k \in {"a", "b", "ab"}} \cup {<<"a", "ab">>} \cup {<<"c*", ch>> : ch \in {"c1", "c2"}} \cup {<<"*", k>> : k \in {"a", "b", "c1", "c2"}} \cup {<<"l*", "l1">>}
MCAclCats == [read |-> {"GET", "LLEN"}, write |-> {"SET", "LPUSH"}, pubsub |-> {"SUBSCRIBE", "PSUBSCRIBE", "PUBLISH"}]
MCAclSubs == [ACL |-> {"ACL|WHOAMI", "ACL|SAVE"}]
MCAclCmds == UNION Range(MCAclCats) \cup UNION Range(MCAclSubs) \cup DOMAIN MCAclSubs \cup {"MULTI", "EXEC"}
MCObufHard == [normal |-> 8, pubsub |-> 4]
MCObufSoft == [normal |-> 0, pubsub |-> 2]

SetTo(k, v) == <<"SET", k, <<v>>, {}, 0>>
Push(k, v) == <<"LPUSH", k, v>>
Blpop(keys, t) == <<"BLPOP", keys, "LEFT", -1, t>>
Pick(k) == <<"GET", k>>
Xadd(k) == <<"XADD", k, <<"*">>, 1, NoTrim, FALSE>>

MCScriptText ==
    [two |-> [flags |-> Nil, body |-> <<SetTo("a", 2), Push("b", <<1>>)>>],
     late |-> [flags |-> Nil, body |-> <<Pick("a"), SetTo("a", 3)>>],
     quiet |-> [flags |-> {"no-writes"}, body |-> <<Pick("a"), SetTo("a", 3)>>]]
Fun(f, body) == [flags |-> f, body |-> body]
MCLibCode ==
    [one |-> [lib |-> "l1", funs |-> [f |-> Fun({}, <<SetTo("a", 2), Pick("b")>>), g |-> Fun({"no-writes"}, <<Pick("a")>>)]],
     oneNew |-> [lib |-> "l1", funs |-> [f |-> Fun({"allow-oom"}, <<SetTo("b", 3)>>)]],
     other |-> [lib |-> "l2", funs |-> [h |-> Fun({}, <<Pick("a")>>)]],
     clash |-> [lib |-> "l1", funs |-> [h |-> Fun({}, <<>>), f |-> Fun({}, <<>>)]]]

\* The programs of the clients, the data and the configuration at the start, and the rest.
Three(a, b, c) == <<a, b, c>>
Base == [init |-> <<>>, ticks |-> 1, room |-> {9}, burst |-> 1, step |-> FALSE, close |-> {}, acks |-> FALSE, sigterm |-> FALSE]
Loaded(q) ==
    LET Both(s) == [s |-> s, rep |-> [NewServer("replica") EXCEPT !.db = s.db, !.ex = s.ex]]
    IN  Both(Replay(NewServer("master"), [i \in DOMAIN q |-> <<0, q[i]>>]))
Clients(a, b, c) == [prog |-> <<a, b, c>>]
MULTI == <<"MULTI">>
EXEC == <<"EXEC">>

ScnCas ==
    Clients(<<<<"WATCH", <<"a", "b">>>>, MULTI, SetTo("b", 3), EXEC>>,
            <<<<"SET", "a", <<2>>, {"PX"}, 1>>, <<"SWAPDB", 0, 1>>, <<"SWAPDB", 0, 1>>>>, <<>>)
    @@ [ticks |-> 2, close |-> {1}, init |-> Loaded(<<<<"SET", "b", <<2>>, {"PXAT"}, 1>>>>)] @@ Base
ScnReset ==
    Clients(<<<<"WATCH", <<"a">>>>, MULTI, SetTo("a", 3), <<"RESET">>, <<"WATCH", <<"a">>>>, MULTI, <<"WATCH", <<"a">>>>, SetTo("a", 3), EXEC>>,
            <<SetTo("a", 2), <<"FLUSHALL">>, <<"QUIT">>, SetTo("a", 3)>>, <<>>)
    @@ [burst |-> 2] @@ Base
ScnLists ==
    Clients(<<Blpop(<<"a", "b">>, 0)>>, <<<<"BLMOVE", "a", "b", "LEFT", "RIGHT", 0>>>>,
            <<Push("a", <<1>>), MULTI, Push("a", <<1, 20>>), <<"RPUSH", "b", <<1>>>>, EXEC>>)
    @@ [ticks |-> 2, close |-> {1}] @@ Base
ScnZsets ==
    Clients(<<<<"BZPOPMIN", <<"a", "b">>, "MIN", -1, 0>>>>, <<Blpop(<<"a">>, 0)>>,
            <<<<"ZADD", "b", {}, <<<<1, 1>>>>>>, MULTI, Push("a", <<1>>), <<"DEL", {"a"}>>, <<"ZADD", "a", {}, <<<<1, 1>>>>>>, EXEC, <<"RENAME", "a", "b">>>>)
    @@ Base
ScnStreams ==
    Clients(<<<<"XREAD", <<<<"a", 0>>>>, 0, TRUE, 0>>>>, <<<<"XREADGROUP", "g", "x", <<<<"a", MaxID>>>>, 1, FALSE, TRUE, 0>>, <<"XACK", "a", "g", <<4>>>>>>,
            <<Xadd("a"), <<"XGROUP", "DESTROY", "a", "g">>, <<"DEL", {"a"}>>, Xadd("a")>>)
    @@ [init |-> Loaded(<<<<"XGROUP", "CREATE", "a", "g", 0, -1, TRUE>>>>)] @@ Base
ScnSwap ==
    Clients(<<Blpop(<<"a">>, 0)>>, <<<<"SELECT", 1>>, Push("a", <<1>>), <<"SWAPDB", 0, 1>>>>, <<<<"CLIENT", "UNBLOCK", 1, TRUE>>>>)
    @@ [close |-> {1}] @@ Base
ScnTracking ==
    Clients(<<<<"HELLO", 3, Nil, Nil>>, <<"CLIENT", "TRACKING", TRUE, Nil, {"NOLOOP"}, <<>>>>, Pick("a"), Pick("b"), SetTo("a", 3)>>,
            <<SetTo("a", 2), <<"SET", "b", <<2>>, {"PX"}, 1>>, <<"FLUSHALL">>>>, <<>>)
    @@ [ticks |-> 2] @@ Base
ScnBcast ==
    Clients(<<<<"HELLO", 3, Nil, Nil>>, <<"CLIENT", "TRACKING", TRUE, Nil, {"BCAST"}, <<"a">>>>, Pick("a"), Pick("ab"), <<"CLIENT", "TRACKING", FALSE, Nil, {}, <<>>>>>>,
            <<MULTI, SetTo("a", 2), SetTo("ab", 2), EXEC, <<"DEL", {"a"}>>>>, <<>>)
    @@ [close |-> {1}] @@ Base
ScnRedirect ==
    Clients(<<<<"CLIENT", "TRACKING", TRUE, 2, {"OPTIN"}, <<>>>>, <<"CLIENT", "CACHING", TRUE>>, Pick("a"), <<"CLIENT", "TRACKINGINFO">>>>,
            <<<<"HELLO", 3, Nil, Nil>>>>, <<SetTo("a", 2), SetTo("a", 3)>>)
    @@ [close |-> {2}] @@ Base
ScnPubsub ==
    Clients(<<<<"SUBSCRIBE", <<"c1", "c2">>>>, Pick("a"), <<"UNSUBSCRIBE", <<"c1">>>>, <<"RESET">>, Pick("a")>>,
            <<>>, <<<<"PUBLISH", "c1", 1>>, <<"PUBLISH", "c2", 1>>>>)
    @@ [close |-> {1}] @@ Base
ScnPatterns ==
    Clients(<<<<"HELLO", 3, Nil, Nil>>, <<"PSUBSCRIBE", <<"c*">>>>, Pick("a"), <<"SUBSCRIBE", <<"c1">>>>, <<"PUNSUBSCRIBE", <<>>>>>>,
            <<>>, <<<<"PUBLISH", "c1", 1>>, <<"PUBSUB", "NUMPAT", Nil>>, <<"PUBLISH", "c2", 1>>>>)
    @@ Base
ScnShard ==
    Clients(<<<<"SSUBSCRIBE", <<"c1">>>>, <<"SUNSUBSCRIBE", <<>>>>>>, <<<<"SSUBSCRIBE", <<"c1", "c2">>>>>>, <<<<"SPUBLISH", "c1", 1>>>>)
    @@ [close |-> {2}, init |-> [clusterEnabled |-> TRUE]] @@ Base
ScnPause ==
    Clients(<<<<"CLIENT", "PAUSE", 1, "WRITE">>, <<"CLIENT", "PAUSE", 0, "ALL">>>>, <<MULTI, SetTo("a", 2), EXEC>>,
            <<<<"PUBLISH", "c1", 1>>>>)
    @@ [ticks |-> 2, close |-> {3}, init |-> Loaded(<<<<"SET", "a", <<2>>, {"PXAT"}, 1>>>>)] @@ Base
ScnShutdown ==
    Clients(<<SetTo("a", 2), <<"SHUTDOWN", {}>>>>, <<SetTo("b", 2), <<"SHUTDOWN", {"ABORT"}>>>>, <<<<"CLIENT", "PAUSE", 1, "WRITE">>>>)
    @@ [ticks |-> 2, acks |-> TRUE, sigterm |-> TRUE, init |-> [shutTimeout |-> 1]] @@ Base
ScnWait ==
    Clients(<<SetTo("a", 2), <<"WAIT", 1, 1>>, <<"WAIT", 1, 0>>>>, <<SetTo("b", 2), <<"WAIT", 1, 0>>>>, <<>>)
    @@ [ticks |-> 2, acks |-> TRUE] @@ Base
ScnPipeline ==
    Clients(<<Push("a", <<1, 20, 3>>), <<"LRANGE", "a", 0, -1>>, <<"CLIENT", "TRACKINGINFO">>, Pick("b")>>,
            <<>>, <<<<"LPOP", "a", Nil>>>>)
    @@ [room |-> {1, 2, 9}, burst |-> 2] @@ Base
ScnPushes ==
    Clients(<<<<"HELLO", 3, Nil, Nil>>, <<"SUBSCRIBE", <<"c1">>>>, <<"CLIENT", "REPLY", "SKIP">>, <<"PING">>, Pick("b")>>,
            <<>>, <<<<"PUBLISH", "c1", 1>>, <<"PUBLISH", "c1", 2>>>>)
    @@ [room |-> {1, 9}, burst |-> 2, ticks |-> 2] @@ Base
ScnMemory ==
    Clients(<<MULTI, Pick("a"), Pick("b"), Pick("a"), EXEC>>, <<<<"CLIENT", "NO-EVICT", TRUE>>, MULTI, Pick("a"), <<"DISCARD">>, <<"CLIENT", "NO-EVICT", FALSE>>>>,
            <<<<"PSUBSCRIBE", <<"c*">>>>, <<"SUBSCRIBE", <<"c1", "c2">>>>>>)
    @@ [init |-> [maxClientMem |-> 5]] @@ Base
ScnEvict ==
    Clients(<<<<"SET", "a", <<2>>, {"PX"}, 2>>, <<"PERSIST", "a">>, SetTo("b", 2), SetTo("ab", 2)>>, <<<<"WATCH", <<"a">>>>, MULTI, SetTo("b", 3), EXEC>>, <<>>)
    @@ [ticks |-> 2, init |-> [maxmem |-> 1, policy |-> [all |-> FALSE, by |-> "ttl"]]] @@ Base
ScnEvictLru ==
    Clients(<<SetTo("a", 2), SetTo("b", 2), Pick("a"), SetTo("ab", 2)>>, <<<<"HELLO", 3, Nil, Nil>>, <<"CLIENT", "TRACKING", TRUE, Nil, {}, <<>>>>, Pick("a"), <<"EVAL", "two", {"a", "b"}>>>>, <<>>)
    @@ [init |-> [maxmem |-> 1, slow |-> TRUE, policy |-> [all |-> TRUE, by |-> "lru"]]] @@ Base
ScnScript ==
    Clients(<<<<"EVAL", "two", {"a", "b"}>>, <<"EVAL_RO", "quiet", {"a"}>>>>, <<SetTo("a", 3), <<"SCRIPT", "KILL">>>>,
            <<<<"EVAL", "late", {"a"}>>, <<"SHUTDOWN", {"NOSAVE"}>>>>)
    @@ [step |-> TRUE, close |-> {1}] @@ Base
ScnScriptServes ==
    Clients(<<<<"EVAL", "two", {"a", "b"}>>>>, <<Blpop(<<"b">>, 0), Pick("b")>>, <<Push("b", <<20>>)>>)
    @@ [step |-> TRUE, close |-> {2}] @@ Base
\* A script that has pushed an element a client waits for is still running when another
\* client tries to kill it.
ScnBusy ==
    Clients(<<<<"EVAL", "two", {"a", "b"}>>>>, <<Blpop(<<"b">>, 0)>>, <<<<"SCRIPT", "KILL">>>>) @@ [step |-> TRUE] @@ Base
MCBusyScenario == {ScnBusy}
ScnFunctions ==
    Clients(<<<<"FUNCTION", "LOAD", "one", FALSE>>, <<"FCALL", "f", {"a", "b"}>>, <<"FUNCTION", "LOAD", "clash", TRUE>>, <<"FCALL_RO", "g", {"a"}>>, <<"FUNCTION", "DELETE", "l1">>, <<"FUNCTION", "LIST", "l*">>>>,
            <<<<"FUNCTION", "LOAD", "other", FALSE>>, <<"FUNCTION", "RESTORE", <<"clash">>, "REPLACE">>, <<"FUNCTION", "LOAD", "oneNew", TRUE>>, <<"FUNCTION", "RESTORE", <<"one", "other">>, "FLUSH">>>>,
            <<>>)
    @@ Base
Bob == ApplyRules(ACLCreateUser, <<<<"on">>, <<">", "pw">>, <<"~", "a", {"R"}>>, <<"&", "c*">>, <<"&", "c1">>, <<"+@", "all">>, <<"-@", "write">>,
                                   <<"(", <<<<"+", "SET">>, <<"allkeys">>>>>>>>).u
WithBob == [users |-> [default |-> ACLCreateDefaultUser, bob |-> Bob]]
ScnAclChannels ==
    Clients(<<<<"AUTH", "bob", "pw">>, <<"PSUBSCRIBE", <<"c*">>>>>>, <<<<"HELLO", 3, <<"bob", "pw">>, "me">>, <<"SUBSCRIBE", <<"c1">>>>>>,
            <<<<"ACL", "SETUSER", "bob", <<<<"resetchannels">>, <<"&", "c1">>>>>>, <<"ACL", "DELUSER", {"bob"}>>>>)
    @@ [init |-> WithBob] @@ Base
ScnAclFile ==
    Clients(<<<<"HELLO", 3, <<"bob", "pw">>, Nil>>, MULTI, SetTo("b", 2), Pick("a"), EXEC>>, <<>>,
            <<<<"ACL", "SAVE">>, <<"ACL", "SETUSER", "bob", <<<<"resetkeys">>, <<"~", "b", {"R", "W"}>>>>>>, <<"ACL", "LOAD">>>>)
    @@ [init |-> WithBob] @@ Base

MCScenarios ==
    {ScnCas, ScnReset, ScnLists, ScnZsets, ScnStreams, ScnSwap,
     ScnTracking, ScnBcast, ScnRedirect, ScnPubsub, ScnPatterns, ScnShard, ScnPause, ScnShutdown,
     ScnWait, ScnPipeline, ScnPushes, ScnMemory, ScnEvict, ScnEvictLru,
     ScnScript, ScnScriptServes, ScnFunctions, ScnAclChannels, ScnAclFile}
=============================================================================
