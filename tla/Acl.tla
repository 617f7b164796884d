-------------------------------- MODULE Acl --------------------------------
(***************************************************************************)
(* Access control lists (acl.c): users, the rules that define them and     *)
(* what a user may do.  A user is [on, nopass, pws, sels]: the first of    *)
(* its selectors is the root one.  A selector is [allkeys, pats, allchans, *)
(* chans, allcmds, bits, first]: key patterns with the permissions R and W *)
(* they give, channel patterns, the commands allowed, among them Future    *)
(* for commands that do not exist yet, and the first arguments with which  *)
(* a command that is not allowed may be called.  A rule is a tuple.        *)
(***************************************************************************)
EXTENDS CommandTable

CONSTANTS
    Begins,    \* the pairs <<p, n>> such that the name n begins with p, or the pattern p matches it
    AclCats,   \* the commands of each category
    AclSubs,   \* the subcommands of each container command
    AclCmds    \* every command and subcommand

Future == "future"
AllCmds == AclCmds \cup {Future}
stringmatchlen(p, n) == <<p, n>> \in Begins
InSomeOrder(K) == FoldSet(LAMBDA k, q : Append(q, k), <<>>, K)

ACLCreateSelector ==
    [allkeys |-> FALSE, pats |-> <<>>, allchans |-> FALSE, chans |-> <<>>, allcmds |-> FALSE, bits |-> {}, first |-> <<>>]
ACLCreateUser == [on |-> FALSE, nopass |-> FALSE, pws |-> <<>>, sels |-> <<ACLCreateSelector>>]

AddOnce(q, x) == IF Contains(q, x) THEN q ELSE Append(q, x)

\* The bit of a command; a bit that is cleared ends "all commands".
ACLSetSelectorCommandBit(s, K, on) ==
    IF on THEN [s EXCEPT !.bits = @ \cup K] ELSE [s EXCEPT !.bits = @ \ K, !.allcmds = @ /\ K = {}]
ACLResetFirstArgsForCommand(s, k) == [s EXCEPT !.first = Restrict(@, DOMAIN @ \ {k})]
\* A container command takes its subcommands along.
ACLChangeSelectorPerm(s, k, on) ==
    ACLResetFirstArgsForCommand(ACLSetSelectorCommandBit(s, {k} \cup (IF k \in DOMAIN AclSubs THEN AclSubs[k] ELSE {}), on), k)
ACLSetSelectorCommandBitsForCategory(s, cat, on) ==
    FoldLeft(LAMBDA t, k : ACLChangeSelectorPerm(t, k, on), s, InSomeOrder(AclCats[cat]))

ACLAddAllowedFirstArg(s, k, arg) ==
    [s EXCEPT !.first = (k :> AddOnce(IF k \in DOMAIN @ THEN @[k] ELSE <<>>, arg)) @@ @]

\* A key pattern given again adds its permissions to those it has.
AddPattern(q, p, f) ==
    IF \E i \in DOMAIN q : q[i].p = p THEN [i \in DOMAIN q |-> IF q[i].p = p THEN [q[i] EXCEPT !.f = @ \cup f] ELSE q[i]]
    ELSE Append(q, [p |-> p, f |-> f])

\* One rule applied to a selector: [ok, s].
ACLSetSelector(s, op) ==
    LET Yes(t) == [ok |-> TRUE, s |-> t] No == [ok |-> FALSE, s |-> s]
    IN  CASE op[1] = "allkeys" -> Yes([s EXCEPT !.allkeys = TRUE, !.pats = <<>>])
          [] op[1] = "resetkeys" -> Yes([s EXCEPT !.allkeys = FALSE, !.pats = <<>>])
          [] op[1] = "allchannels" -> Yes([s EXCEPT !.allchans = TRUE, !.chans = <<>>])
          [] op[1] = "resetchannels" -> Yes([s EXCEPT !.allchans = FALSE, !.chans = <<>>])
          [] op[1] = "+@" /\ op[2] = "all" -> Yes([s EXCEPT !.bits = AllCmds, !.allcmds = TRUE, !.first = <<>>])
          [] op[1] = "-@" /\ op[2] = "all" -> Yes([s EXCEPT !.bits = {}, !.allcmds = FALSE, !.first = <<>>])
          [] op[1] = "~" -> IF s.allkeys THEN No ELSE Yes([s EXCEPT !.pats = AddPattern(@, op[2], op[3])])
          [] op[1] = "&" -> IF s.allchans THEN No ELSE Yes([s EXCEPT !.chans = AddOnce(@, op[2])])
          [] op[1] \in {"+", "-"} -> IF op[2] \in AclCmds THEN Yes(ACLChangeSelectorPerm(s, op[2], op[1] = "+")) ELSE No
          [] op[1] = "+|" -> IF op[2] \in AclCmds /\ op[2] \notin DOMAIN AclSubs THEN Yes(ACLAddAllowedFirstArg(s, op[2], op[3])) ELSE No
          [] op[1] \in {"+@", "-@"} /\ op[2] # "all" ->
               IF op[2] \in DOMAIN AclCats THEN Yes(ACLSetSelectorCommandBitsForCategory(s, op[2], op[1] = "+@")) ELSE No
          [] OTHER -> No

aclCreateSelectorFromOpSet(ops) ==
    FoldLeft(LAMBDA a, op : IF a.ok THEN ACLSetSelector(a.s, op) ELSE a, [ok |-> TRUE, s |-> ACLCreateSelector], ops)

\* One rule applied to a user: [ok, u].
RECURSIVE ACLSetUser(_, _)
ACLSetUser(u, op) ==
    LET Yes(v) == [ok |-> TRUE, u |-> v] No == [ok |-> FALSE, u |-> u]
    IN  CASE op[1] = "on" -> Yes([u EXCEPT !.on = TRUE])
          [] op[1] = "off" -> Yes([u EXCEPT !.on = FALSE])
          [] op[1] = "nopass" -> Yes([u EXCEPT !.nopass = TRUE, !.pws = <<>>])
          [] op[1] = "resetpass" -> Yes([u EXCEPT !.nopass = FALSE, !.pws = <<>>])
          [] op[1] = ">" -> Yes([u EXCEPT !.pws = AddOnce(@, op[2]), !.nopass = FALSE])
          [] op[1] = "<" -> IF Contains(u.pws, op[2]) THEN Yes([u EXCEPT !.pws = SelectSeq(@, LAMBDA p : p # op[2])]) ELSE No
          [] op[1] = "(" -> LET a == aclCreateSelectorFromOpSet(op[2]) IN IF a.ok THEN Yes([u EXCEPT !.sels = Append(@, a.s)]) ELSE No
          [] op[1] = "clearselectors" -> Yes([u EXCEPT !.sels = <<Head(@)>>])
          [] op[1] = "reset" ->
               Yes(FoldLeft(LAMBDA v, o : ACLSetUser(v, o).u, u,
                     <<<<"resetpass">>, <<"resetkeys">>, <<"resetchannels">>, <<"off">>, <<"clearselectors">>, <<"-@", "all">>>>))
          [] OTHER -> LET a == ACLSetSelector(Head(u.sels), op) IN IF a.ok THEN Yes([u EXCEPT !.sels[1] = a.s]) ELSE No

\* All rules or none: they are applied to a copy.
ApplyRules(u, ops) == FoldLeft(LAMBDA a, op : IF a.ok THEN ACLSetUser(a.u, op) ELSE a, [ok |-> TRUE, u |-> u], ops)
ACLCreateDefaultUser == ApplyRules(ACLCreateUser, <<<<"+@", "all">>, <<"allkeys">>, <<"allchannels">>, <<"on">>, <<"nopass">>>>).u

---------------------------------------------------------------------------
(***************************************************************************)
(* The rules of a user written out, for ACL LIST, ACL SAVE and CONFIG      *)
(* REWRITE.                                                                *)
(***************************************************************************)
\* The commands by which the selector differs from what the categories give, in the order
\* of the command table; a container comes before its subcommands.
RECURSIVE SingleCommands(_, _, _)
SingleCommands(s, fake, q) ==
    IF q = <<>> THEN [rules |-> <<>>, s |-> fake]
    ELSE LET k == Head(q) bit == k \in s.bits
             differs == bit # (k \in fake.bits)
             f == IF differs THEN ACLChangeSelectorPerm(fake, k, bit) ELSE fake
             w == SingleCommands(s, f, Tail(q))
             args == IF ~bit /\ k \in DOMAIN s.first THEN [i \in DOMAIN s.first[k] |-> <<"+|", k, s.first[k][i]>>] ELSE <<>>
         IN  [w EXCEPT !.rules = (IF differs THEN <<<<IF bit THEN "+" ELSE "-", k>>>> ELSE <<>>) \o args \o @]
TableOrder == InSomeOrder(AclCmds \ UNION Range(AclSubs))
WithSubs(q) == FlattenSeq([i \in DOMAIN q |-> <<q[i]>> \o (IF q[i] \in DOMAIN AclSubs THEN InSomeOrder(AclSubs[q[i]]) ELSE <<>>)])
ACLDescribeSelectorCommandRulesSingleCommands(s, fake) == SingleCommands(s, fake, WithSubs(TableOrder))

ACLCountCategoryBitsForSelector(s, cat) ==
    [on |-> Cardinality(AclCats[cat] \cap s.bits), off |-> Cardinality(AclCats[cat] \ s.bits)]

\* Categories are applied greedily while more of their commands agree than disagree: the one
\* with the fewest to take back, then the one that settles most.
RECURSIVE ApplyCategories(_, _, _, _)
CategoryBits(temp, left, additive) ==
    [cat \in left |-> LET n == ACLCountCategoryBitsForSelector(temp, cat)
                      IN  [diff |-> IF additive THEN n.off ELSE n.on, same |-> IF additive THEN n.on ELSE n.off]]
BestOf(good, n) == CHOOSE a \in good : \A b \in good : n[a].diff < n[b].diff \/ (n[a].diff = n[b].diff /\ n[a].same >= n[b].same)
BestCategory(left, n) == LET good == {cat \in left : n[cat].same > n[cat].diff} IN IF good = {} THEN {} ELSE {BestOf(good, n)}
WithRule(w, rule) == [w EXCEPT !.rules = <<rule>> \o @]
ApplyCategory(temp, fake, left, additive, best) ==
    IF best = {} THEN [rules |-> <<>>, s |-> fake]
    ELSE LET cat == CHOOSE b \in best : TRUE
         IN  WithRule(ApplyCategories(ACLSetSelectorCommandBitsForCategory(temp, cat, ~additive),
                                      ACLSetSelectorCommandBitsForCategory(fake, cat, additive), left \ best, additive),
                      <<IF additive THEN "+@" ELSE "-@", cat>>)
ApplyCategories(temp, fake, left, additive) ==
    ApplyCategory(temp, fake, left, additive, BestCategory(left, CategoryBits(temp, left, additive)))

\* Mutant: commands are described one by one only when they are allowed.
ACLDescribeSelectorCommandRules_OnlyAdds(s) ==
    LET all == <<IF Future \in s.bits THEN "+@" ELSE "-@", "all">>
        cats == ApplyCategories(s, ACLSetSelector(ACLCreateSelector, all).s, DOMAIN AclCats, Future \notin s.bits)
        cmds == ACLDescribeSelectorCommandRulesSingleCommands(s, cats.s)
    IN  [rules |-> <<all>> \o cats.rules \o SelectSeq(cmds.rules, LAMBDA r : r[1] # "-"), s |-> cmds.s]
AfterRules(rules, w) == [w EXCEPT !.rules = rules \o @]
DescribeCommands(s, cats) == AfterRules(cats.rules, ACLDescribeSelectorCommandRulesSingleCommands(s, cats.s))
ACLDescribeSelectorCommandRules(s) ==
    LET all == <<IF Future \in s.bits THEN "+@" ELSE "-@", "all">>
    IN  WithRule(DescribeCommands(s, ApplyCategories(s, ACLSetSelector(ACLCreateSelector, all).s, DOMAIN AclCats, Future \notin s.bits)), all)

ACLDescribeSelector(s) ==
    (IF s.allkeys THEN <<<<"allkeys">>>> ELSE [i \in DOMAIN s.pats |-> <<"~", s.pats[i].p, s.pats[i].f>>])
    \o (IF s.allchans THEN <<<<"allchannels">>>> ELSE <<<<"resetchannels">>>> \o [i \in DOMAIN s.chans |-> <<"&", s.chans[i]>>])
    \o ACLDescribeSelectorCommandRules(s).rules
ACLDescribeUser(u) ==
    <<<<IF u.on THEN "on" ELSE "off">>>> \o (IF u.nopass THEN <<<<"nopass">>>> ELSE <<>>)
    \o [i \in DOMAIN u.pws |-> <<">", u.pws[i]>>]
    \o ACLDescribeSelector(Head(u.sels))
    \o [i \in 1..(Len(u.sels) - 1) |-> <<"(", ACLDescribeSelector(u.sels[i + 1])>>]

---------------------------------------------------------------------------
(***************************************************************************)
(* What a user may do.                                                     *)
(***************************************************************************)
\* The permissions the flags of a key ask for.
KeyPermissions(f) ==
    (IF "ACCESS" \in f THEN {"R"} ELSE {}) \cup (IF f \cap {"INSERT", "DELETE", "UPDATE"} # {} THEN {"W"} ELSE {})
ACLSelectorCheckKey(s, k, f) ==
    s.allkeys \/ \E i \in DOMAIN s.pats : KeyPermissions(f) \subseteq s.pats[i].f /\ stringmatchlen(s.pats[i].p, k)
ACLSelectorHasUnrestrictedKeyAccess(s, f) ==
    s.allkeys \/ \E i \in DOMAIN s.pats : KeyPermissions(f) \subseteq s.pats[i].f /\ s.pats[i].p = "*"

\* A pattern is allowed only when it is listed as it is.
ACLCheckChannelAgainstList(q, ch, isPattern) ==
    \E i \in DOMAIN q : IF isPattern THEN q[i] = ch ELSE stringmatchlen(q[i], ch)

NoAuthNames == {"AUTH", "HELLO", "QUIT", "RESET"}
DataNames == GenericNames \cup StringNames \cup BitNames \cup ListNames \cup SetNames \cup HashNames \cup ZsetNames \cup HllNames
             \cup {"SORT", "XADD", "XTRIM", "XDEL", "XRANGE", "XREVRANGE", "XLEN", "XREAD", "XREADGROUP", "XGROUP", "XSETID", "XACK",
                   "XPENDING", "XCLAIM", "XAUTOCLAIM", "XINFO"}
ContainerNames == {"CLIENT", "ACL", "SCRIPT", "FUNCTION", "PUBSUB", "CONFIG", "XGROUP", "XINFO", "OBJECT"}
FullName(cmd) == IF cmd[1] \in ContainerNames THEN cmd[1] \o "|" \o cmd[2] ELSE cmd[1]
getChannelsFromCommand(cmd) ==
    IF cmd[1] \in {"PUBLISH", "SPUBLISH"} THEN {cmd[2]}
    ELSE IF cmd[1] \in {"SUBSCRIBE", "SSUBSCRIBE", "PSUBSCRIBE"} THEN ToSet(cmd[2]) ELSE {}
\* A script declares its keys, <<"EVAL", script, keys>>.
EvalNames == {"EVAL", "EVALSHA", "EVAL_RO", "EVALSHA_RO"}
FcallNames == {"FCALL", "FCALL_RO"}
RoNames == {"EVAL_RO", "EVALSHA_RO", "FCALL_RO"}
KeysOf(cmd) ==
    IF cmd[1] \in DataNames THEN getKeysFromCommandWithSpecs(cmd)
    ELSE IF cmd[1] \in EvalNames \cup FcallNames THEN Keys(cmd[3], IF cmd[1] \in RoNames THEN RO ELSE AccUpd)
    ELSE IF cmd[1] = "WATCH" THEN Keys(ToSet(cmd[2]), Meta) ELSE {}
ACLSelectorCheckCmd(s, cmd) ==
    LET k == FullName(cmd)
        firstarg == k \in DOMAIN s.first /\ Len(cmd) > 1 /\ \E i \in DOMAIN s.first[k] : s.first[k][i] = cmd[2]
    IN  IF ~s.allcmds /\ cmd[1] \notin NoAuthNames /\ k \notin s.bits /\ ~firstarg THEN "cmd"
        ELSE IF \E x \in KeysOf(cmd) : ~ACLSelectorCheckKey(s, x[1], x[2]) THEN "key"
        ELSE IF ~s.allchans /\ \E ch \in getChannelsFromCommand(cmd) : ~ACLCheckChannelAgainstList(s.chans, ch, cmd[1] = "PSUBSCRIBE")
        THEN "channel" ELSE "ok"

\* Every selector of the user is tried, the most relevant error is reported.
ACLCheckAllUserCommandPerm(u, cmd) ==
    LET Best(R) == IF "ok" \in R THEN "ok" ELSE IF "channel" \in R THEN "channel" ELSE IF "key" \in R THEN "key" ELSE "cmd"
    IN  Best({ACLSelectorCheckCmd(u.sels[i], cmd) : i \in DOMAIN u.sels})
ACLUserCheckKeyPerm(u, k, f) == \E i \in DOMAIN u.sels : ACLSelectorCheckKey(u.sels[i], k, f)
ACLUserCheckCmdWithUnrestrictedKeyAccess(u, cmd, f) ==
    \E i \in DOMAIN u.sels : ACLSelectorCheckCmd(u.sels[i], cmd) = "ok" /\ ACLSelectorHasUnrestrictedKeyAccess(u.sels[i], f)
ACLUserCheckChannelPerm(u, ch, isPattern) ==
    \E i \in DOMAIN u.sels : u.sels[i].allchans \/ ACLCheckChannelAgainstList(u.sels[i].chans, ch, isPattern)

\* The user must exist and be enabled; without a password any will do.
ACLCheckUserCredentials(users, name, pw) ==
    name \in DOMAIN users /\ users[name].on /\ (users[name].nopass \/ Contains(users[name].pws, pw))
=============================================================================
