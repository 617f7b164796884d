------------------------------ MODULE Scripts ------------------------------
(***************************************************************************)
(* Scripts and functions (script.c, eval.c, functions.c), and the flags of *)
(* the commands (commands.c).  A script is [flags, body]: the flags of its *)
(* shebang line, Nil when it has none, and the commands it calls one after *)
(* another.  S.script is the run in progress: who called it, the commands  *)
(* left, what it may do and has done, and the last result.                 *)
(***************************************************************************)
EXTENDS Eviction

CONSTANTS
    ScriptText,    \* the scripts, by name
    LibCode    \* the libraries: code |-> [lib, funs], the functions by name

---------------------------------------------------------------------------
(***************************************************************************)
(* The flags of a command.                                                 *)
(***************************************************************************)
ReadNames == {"EXISTS", "TOUCH", "TYPE", "DBSIZE", "KEYS", "RANDOMKEY", "TTL", "PTTL", "EXPIRETIME", "PEXPIRETIME",
    "GET", "GETRANGE", "MGET", "STRLEN", "LCS", "GETBIT", "BITCOUNT", "BITPOS", "LLEN", "LINDEX", "LRANGE", "LPOS",
    "SMISMEMBER", "SMEMBERS", "SCARD", "SRANDMEMBER", "SINTER", "SINTERCARD", "SUNION", "SDIFF",
    "HMGET", "HLEN", "HGETALL", "HRANDFIELD", "ZRANGE", "ZCOUNT", "ZLEXCOUNT", "ZCARD", "ZMSCORE", "ZRANK", "ZREVRANK",
    "ZUNION", "ZINTER", "ZINTERCARD", "ZDIFF", "ZRANDMEMBER", "PFCOUNT", "XRANGE", "XREVRANGE", "XLEN", "XREAD", "XPENDING", "XINFO"}
DenyOomNames == {"COPY", "SET", "SETNX", "SETEX", "PSETEX", "GETSET", "SETRANGE", "MSET", "MSETNX", "INCRBY", "DECRBY",
    "INCRBYFLOAT", "APPEND", "SETBIT", "BITOP", "BITFIELD", "LPUSH", "RPUSH", "LPUSHX", "RPUSHX", "LINSERT", "LSET", "LMOVE",
    "BLMOVE", "SADD", "SINTERSTORE", "SUNIONSTORE", "SDIFFSTORE", "HSETNX", "HSET", "HINCRBY", "HINCRBYFLOAT", "ZADD",
    "ZINCRBY", "ZRANGESTORE", "ZUNIONSTORE", "ZINTERSTORE", "ZDIFFSTORE", "PFADD", "PFMERGE", "PFDEBUG", "SORT", "XADD", "XSETID"}
DataFlags(cmd) ==
    (IF cmd[1] \in ReadNames THEN {"READONLY"} ELSE IF cmd[1] = "SELECT" THEN {} ELSE {"WRITE"})
    \cup (IF cmd[1] \in DenyOomNames \/ (cmd[1] = "XGROUP" /\ cmd[2] \in {"CREATE", "SETID", "CREATECONSUMER"}) THEN {"DENYOOM"} ELSE {})
    \cup (IF cmd[1] = "PFCOUNT" THEN {"MAY_REPLICATE"} ELSE {})
BaseFlags(cmd) ==
    CASE cmd[1] \in DataNames -> DataFlags(cmd)
      [] cmd[1] \in {"PUBLISH", "SPUBLISH"} -> {"MAY_REPLICATE"}
      [] cmd[1] \in RoNames -> {"NOSCRIPT", "READONLY"}
      [] cmd[1] \in (EvalNames \cup FcallNames) \ RoNames -> {"NOSCRIPT", "MAY_REPLICATE"}
      [] cmd[1] = "FUNCTION" /\ cmd[2] \in {"LOAD", "RESTORE"} -> {"NOSCRIPT", "WRITE", "DENYOOM"}
      [] cmd[1] = "FUNCTION" /\ cmd[2] \in {"DELETE", "FLUSH"} -> {"NOSCRIPT", "WRITE"}
      [] cmd[1] \in {"FUNCTION", "SCRIPT"} /\ cmd[2] = "KILL" -> {"NOSCRIPT", "ALLOW_BUSY"}
      [] cmd[1] \in NoAuthNames -> {"NOSCRIPT", "ALLOW_BUSY", "NO_AUTH"}
      [] cmd[1] \in {"MULTI", "DISCARD", "WATCH", "UNWATCH"} -> {"NOSCRIPT", "ALLOW_BUSY"}
      [] cmd[1] = "SHUTDOWN" -> {"NOSCRIPT", "ALLOW_BUSY", "NO_MULTI"}
      [] cmd[1] = "PING" -> {}
      [] OTHER -> {"NOSCRIPT"}

\* What a script declares replaces what its command could do.
scriptFlagsToCmdFlags(base, f) ==
    (base \ {"DENYOOM", "WRITE", "MAY_REPLICATE"})
    \cup (IF f \cap {"allow-oom", "no-writes"} = {} THEN {"DENYOOM"} ELSE {})
    \cup (IF "no-writes" \notin f THEN {"WRITE"} ELSE {})
evalGetCommandFlags(S, cmd) ==
    IF (cmd[1] \in {"EVALSHA", "EVALSHA_RO"} /\ cmd[2] \notin S.scripts) \/ ScriptText[cmd[2]].flags = Nil THEN BaseFlags(cmd)
    ELSE scriptFlagsToCmdFlags(BaseFlags(cmd), ScriptText[cmd[2]].flags)
fcallGetCommandFlags(S, cmd) ==
    IF cmd[2] \notin DOMAIN S.funs THEN BaseFlags(cmd) ELSE scriptFlagsToCmdFlags(BaseFlags(cmd), S.funs[cmd[2]].flags)
getCommandFlags(S, cmd) ==
    CASE cmd[1] \in EvalNames -> evalGetCommandFlags(S, cmd)
      [] cmd[1] \in FcallNames -> fcallGetCommandFlags(S, cmd)
      [] OTHER -> BaseFlags(cmd)

---------------------------------------------------------------------------
(***************************************************************************)
(* The commands on data in the memory of the server: [s, r].               *)
(***************************************************************************)
\* Keys are looked up in the database of the client, expired ones deleted (or only treated as
\* missing while clients are paused); w is the client the changes are ascribed to.
Used(S, cmd) == IF cmd[1] \in {"TYPE", "TTL", "PTTL", "EXISTS"} THEN {} ELSE {K \in DeclaredKeys(S.s, cmd) : K \in DOMAIN S.s.db}
DataResult(S, c, cmd, res) ==
    [s |-> [S EXCEPT !.cl[c].db = IF cmd[1] = "SELECT" THEN res.s.sel ELSE @, !.s.sel = 0, !.lru = [K \in Used(S, cmd) |-> S.s.now] @@ @],
     r |-> res.r]
Executed(S, seen, c, cmd, w, res) == DataResult(IF seen # S.s THEN S ELSE Apply(S, w, cmd, res), c, cmd, res)
ExecSeen(S, seen, c, cmd, w) == Executed(S, seen, c, cmd, w, Proc(seen, cmd))
ExecLooked(S, c, cmd, w, keys) == ExecSeen(S, expireIfNeeded(S.s, keys).s, c, cmd, w)
ExecInDb(S, c, cmd, w, keys) == ExecLooked(ApplyExpire(S, keys), c, cmd, w, keys)
ExecData(S, c, cmd, w) ==
    LET s == [S.s EXCEPT !.sel = S.cl[c].db] IN ExecInDb([S EXCEPT !.s = s], c, cmd, w, LookedUp(s, cmd))

\* A blocking command that finds nothing waits, or replies nothing inside a transaction.
AnswerOrBlock(e, c, cmd) ==
    IF cmd[1] \notin BlockingNames \/ e.r # MustBlock THEN AddResult(e.s, c, cmd, e.r)
    ELSE IF Is(e.s, c, "DENY_BLOCKING") THEN addReply(e.s, c, Nil) ELSE blockForKeys(e.s, c, cmd)
DataCommand(S, c, cmd) == AnswerOrBlock(ExecData(S, c, cmd, c), c, cmd)

---------------------------------------------------------------------------
(***************************************************************************)
(* Running a script.                                                       *)
(***************************************************************************)
\* Why a script with flags may not start, Nil if it may.
PrepareError(S, f, ro) ==
    LET writes == "no-writes" \notin f
    IN  IF "no-cluster" \in f /\ S.clusterEnabled THEN "ERR_CLUSTER"
        ELSE IF writes /\ "MISCONF" \in S.deny THEN "MISCONF"
        ELSE IF writes /\ ro THEN "ERR_RO"
        ELSE IF writes /\ "NOREPLICAS" \in S.deny THEN "NOREPLICAS"
        ELSE IF S.oom /\ f \cap {"allow-oom", "no-writes"} = {} THEN "OOM" ELSE Nil
scriptPrepareForRun(S, c, p, ro, eval) ==
    LET f == IF p.flags = Nil THEN {} ELSE p.flags
        e == IF p.flags = Nil THEN Nil ELSE PrepareError(S, f, ro)
    IN  IF e # Nil THEN addReply(S, c, e)
        ELSE [S EXCEPT !.script = [caller |-> c, rest |-> p.body, eval |-> eval, ro |-> ro \/ "no-writes" \in f,
                                   oomok |-> "allow-oom" \in f, dirty |-> FALSE, timedout |-> FALSE, killed |-> FALSE,
                                   r |-> Nil, start |-> Snapshot(S.s), data |-> Snapshot(S.s)]]

scriptVerifyACL(S, cmd) == ACLCheckAllUserCommandPerm(S.users[S.cl[S.script.caller].user], cmd)
scriptVerifyWriteCommandAllow(S, F) ==
    IF S.script.ro /\ F \cap {"WRITE", "MAY_REPLICATE"} # {} THEN "ERR_READONLY"
    ELSE IF "WRITE" \notin F \/ S.script.dirty THEN Nil
    ELSE IF "MISCONF" \in S.deny THEN "MISCONF" ELSE IF "NOREPLICAS" \in S.deny THEN "NOREPLICAS" ELSE Nil
scriptVerifyOOM(S, F) ==
    IF ~S.script.oomok /\ S.maxmem # 0 /\ ~S.script.dirty /\ S.oom /\ "DENYOOM" \in F THEN "OOM" ELSE Nil

\* The next command of the script; an error ends the script.
ScriptFails(S, e) == [S EXCEPT !.script.r = e, !.script.rest = <<>>]
TrackCaller(S, c, F) ==
    LET x == S.cl[c]
    IN  IF "READONLY" \in F /\ "TRACKING" \in x.flags /\ "BCAST" \notin x.flags /\ x.cmd # Nil
        THEN trackingRememberKeys(S, c, {y[1] : y \in KeysOf(x.cmd)}) ELSE S
ScriptGets(e, c, F) ==
    TrackCaller([e.s EXCEPT !.script.rest = Tail(@), !.script.r = IF e.r = MustBlock THEN Nil ELSE e.r, !.script.data = Snapshot(e.s.s)], c, F)
ScriptVerified(S, c, cmd, F, acl) ==
    LET write == scriptVerifyWriteCommandAllow(S, F)
        oom == scriptVerifyOOM(S, F)
    IN  IF "NOSCRIPT" \in F THEN ScriptFails(S, "ERR_NOSCRIPT")
        ELSE IF acl # "ok" THEN ScriptFails(addACLLogEntry(S, c, acl, "lua", FullName(cmd), S.cl[c].user), "NOPERM")
        ELSE IF write # Nil THEN ScriptFails(S, write)
        ELSE IF oom # Nil THEN ScriptFails(S, oom)
        ELSE ScriptGets(ExecData([S EXCEPT !.script.dirty = @ \/ "WRITE" \in F], c, cmd, Nil), c, F)
scriptCall(S) ==
    LET cmd == Head(S.script.rest) IN ScriptVerified(S, S.script.caller, cmd, BaseFlags(cmd), scriptVerifyACL(S, cmd))

\* The script ends: its reply, then scriptResetRun.
exitScriptTimedoutMode(S) == unprotectClient([S EXCEPT !.script.timedout = FALSE], S.script.caller)
scriptResetRun(S) == [IF S.script.timedout THEN exitScriptTimedoutMode(S) ELSE S EXCEPT !.script = Nil]
luaCallFunctionEnd(S) == scriptResetRun(addReply(S, S.script.caller, IF S.script.killed THEN "ERR_KILLED" ELSE S.script.r))
RECURSIVE RunScript(_)
RunScript(S) == IF S.script = Nil THEN S ELSE IF S.script.rest = <<>> THEN luaCallFunctionEnd(S) ELSE RunScript(scriptCall(S))

\* The hook called while the script runs: after some time other clients may kill it.
enterScriptTimedoutMode(S) == protectClient([S EXCEPT !.script.timedout = TRUE], S.script.caller)
scriptInterrupt(S) == IF S.script.killed THEN [S EXCEPT !.script.rest = <<>>] ELSE S
\* Mutant: a script that has written can be killed.
scriptKill_Dirty(S, c, eval) ==
    IF S.script = Nil THEN addReply(S, c, "NOTBUSY")
    ELSE IF eval # S.script.eval THEN addReply(S, c, "BUSY")
    ELSE addReply([S EXCEPT !.script.killed = TRUE], c, Ok)
\* A script that has written cannot be killed.
scriptKill(S, c, eval) ==
    IF S.script = Nil THEN addReply(S, c, "NOTBUSY")
    ELSE IF S.script.dirty THEN addReply(S, c, "UNKILLABLE")
    ELSE IF eval # S.script.eval THEN addReply(S, c, "BUSY")
    ELSE addReply([S EXCEPT !.script.killed = TRUE], c, Ok)

\* EVAL loads the script, EVALSHA finds it by its name.
evalGenericCommand(S, c, cmd) ==
    IF cmd[1] \in {"EVALSHA", "EVALSHA_RO"} /\ cmd[2] \notin S.scripts THEN addReply(S, c, "NOSCRIPT")
    ELSE scriptPrepareForRun([S EXCEPT !.scripts = @ \cup {cmd[2]}], c, ScriptText[cmd[2]], cmd[1] \in RoNames, TRUE)
scriptCommand(S, c, cmd) ==
    CASE cmd[2] = "LOAD" -> addReply([S EXCEPT !.scripts = @ \cup {cmd[3]}], c, cmd[3])
      [] cmd[2] = "EXISTS" -> addReplyArray(S, c, [i \in DOMAIN cmd[3] |-> IF cmd[3][i] \in S.scripts THEN 1 ELSE 0])
      [] cmd[2] = "FLUSH" -> addReply([S EXCEPT !.scripts = {}], c, Ok)
      [] cmd[2] = "KILL" -> scriptKill(S, c, TRUE)

---------------------------------------------------------------------------
(***************************************************************************)
(* Function libraries.  A context is [libs, funs]: the code of the library *)
(* of each name, and the function of each name with its library.           *)
(***************************************************************************)
FunctionsOf(code) == [f \in DOMAIN LibCode[code].funs |-> LibCode[code].funs[f] @@ [lib |-> LibCode[code].lib]]
libraryUnlink(x, lib) ==
    [libs |-> Restrict(x.libs, DOMAIN x.libs \ {lib}), funs |-> Restrict(x.funs, DOMAIN x.funs \ DOMAIN LibCode[x.libs[lib]].funs)]
\* A function of a name already taken is not added.
libraryLink(x, code) == [libs |-> x.libs @@ (LibCode[code].lib :> code), funs |-> x.funs @@ FunctionsOf(code)]
Clash(x, code) == DOMAIN LibCode[code].funs \cap DOMAIN x.funs # {}

\* [ok, x]: the old library of the name is unlinked while the new one is tried, and linked again
\* when that fails.
functionsCreateWithLibraryCtx(x, code, replace) ==
    LET lib == LibCode[code].lib
        old == lib \in DOMAIN x.libs
        y == IF old THEN libraryUnlink(x, lib) ELSE x
        fails == LibCode[code].funs = <<>> \/ Clash(y, code)
    IN  IF old /\ ~replace THEN [ok |-> FALSE, x |-> x]
        ELSE IF fails THEN [ok |-> FALSE, x |-> IF old THEN libraryLink(y, x.libs[lib]) ELSE y]
        ELSE [ok |-> TRUE, x |-> libraryLink(y, code)]

libraryJoin(dst, src, replace) ==
    LET common == DOMAIN dst.libs \cap DOMAIN src.libs
        y == FoldLeft(libraryUnlink, dst, SetToSeq(common))
    IN  IF common # {} /\ ~replace THEN [ok |-> FALSE, x |-> dst]
        ELSE IF DOMAIN y.funs \cap DOMAIN src.funs # {}
        THEN [ok |-> FALSE, x |-> FoldLeft(LAMBDA z, lib : libraryLink(z, dst.libs[lib]), y, SetToSeq(common))]
        ELSE [ok |-> TRUE, x |-> FoldLeft(libraryLink, y, SetToSeq(Range(src.libs)))]

NoFunctions == [libs |-> <<>>, funs |-> <<>>]
Context0(S) == [libs |-> S.libs, funs |-> S.funs]
\* The payload of FUNCTION RESTORE is a sequence of codes, loaded into a context of its own.
functionRestoreCommand(S, payload, policy) ==
    LET a == FoldLeft(LAMBDA b, code : IF b.ok THEN functionsCreateWithLibraryCtx(b.x, code, FALSE) ELSE b,
                      [ok |-> TRUE, x |-> NoFunctions], payload)
    IN  IF ~a.ok THEN [ok |-> FALSE, x |-> Context0(S)]
        ELSE IF policy = "FLUSH" THEN a ELSE libraryJoin(Context0(S), a.x, policy = "REPLACE")

fcallCommandGeneric(S, c, cmd) ==
    IF cmd[2] \notin DOMAIN S.funs THEN addReply(S, c, "ERR_NO_FUNCTION")
    ELSE scriptPrepareForRun(S, c, S.funs[cmd[2]], cmd[1] \in RoNames, FALSE)
\* A change of the libraries is propagated as it was asked for.
Change(S, c, cmd, a, ok) ==
    IF ~a.ok THEN addReply(S, c, "ERR_FUNCTION")
    ELSE addReply([S EXCEPT !.libs = a.x.libs, !.funs = a.x.funs, !.also = Append(@, <<S.cl[c].db, cmd>>)], c, ok)
functionLoadCommand(S, c, cmd) == Change(S, c, cmd, functionsCreateWithLibraryCtx(Context0(S), cmd[3], cmd[4]), LibCode[cmd[3]].lib)
functionDeleteCommand(S, c, cmd) ==
    IF cmd[3] \in DOMAIN S.libs THEN Change(S, c, cmd, [ok |-> TRUE, x |-> libraryUnlink(Context0(S), cmd[3])], Ok)
    ELSE addReply(S, c, "ERR_NO_LIBRARY")
functionFlushCommand(S, c, cmd) == Change(S, c, cmd, [ok |-> TRUE, x |-> NoFunctions], Ok)
functionDumpCommand(S, c) == addReply(S, c, SetToSeq(Range(S.libs)))
functionListCommand(S, c, pattern) ==
    IF pattern = Nil THEN addReplyArray(S, c, SetToSeq(DOMAIN S.libs))
    ELSE addReplyDeferred(S, c, SetToSeq({lib \in DOMAIN S.libs : stringmatchlen(pattern, lib)}))
functionKillCommand(S, c) == scriptKill(S, c, FALSE)
functionCommand(S, c, cmd) ==
    CASE cmd[2] = "LOAD" -> functionLoadCommand(S, c, cmd)
      [] cmd[2] = "DELETE" -> functionDeleteCommand(S, c, cmd)
      [] cmd[2] = "FLUSH" -> functionFlushCommand(S, c, cmd)
      [] cmd[2] = "RESTORE" -> Change(S, c, cmd, functionRestoreCommand(S, cmd[3], cmd[4]), Ok)
      [] cmd[2] = "DUMP" -> functionDumpCommand(S, c)
      [] cmd[2] = "LIST" -> functionListCommand(S, c, cmd[3])
      [] cmd[2] = "KILL" -> functionKillCommand(S, c)
=============================================================================
