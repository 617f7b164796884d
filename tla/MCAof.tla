-------------------------------- MODULE MCAof --------------------------------
(***************************************************************************)
(* Configurations of the AOF, each with its bounds and its failures.       *)
(***************************************************************************)
EXTENDS Aof

\* Every failure of a rewrite and of CONFIG SET appendonly, and the death of the process.
Crashing == [fsync |-> "everysec", noFsyncOnRewrite |-> TRUE, rewriteWhenOff |-> FALSE,
             failures |-> {"kill", "manifest", "open", "fork"},
             writes |-> 2, rewrites |-> 2, switches |-> 2, crashes |-> 1]
\* BGREWRITEAOF while the AOF is off.
RewritingWhenOff == [fsync |-> "everysec", noFsyncOnRewrite |-> FALSE, rewriteWhenOff |-> TRUE,
                     failures |-> {}, writes |-> 2, rewrites |-> 2, switches |-> 2, crashes |-> 1]
\* Short and failed writes of the buffer.
WriteErrors == [fsync |-> "everysec", noFsyncOnRewrite |-> FALSE, rewriteWhenOff |-> FALSE,
                failures |-> {"write", "kill"}, writes |-> 3, rewrites |-> 0, switches |-> 0, crashes |-> 1]
\* appendfsync always and a power failure.
Always == [fsync |-> "always", noFsyncOnRewrite |-> FALSE, rewriteWhenOff |-> FALSE,
           failures |-> {"power", "manifest"}, writes |-> 3, rewrites |-> 2, switches |-> 1, crashes |-> 1]

\* A rewrite with the AOF off, then a restart.
OffThenRestart == {[fsync |-> "everysec", noFsyncOnRewrite |-> FALSE, rewriteWhenOff |-> TRUE,
                    failures |-> {"kill"}, writes |-> 2, rewrites |-> 1, switches |-> 1, crashes |-> 1]}
\* A rewrite while the buffer cannot be written.
RewriteAfterError == {[fsync |-> "everysec", noFsyncOnRewrite |-> FALSE, rewriteWhenOff |-> FALSE,
                       failures |-> {"write"}, writes |-> 2, rewrites |-> 1, switches |-> 0, crashes |-> 0]}

Small == {Crashing, RewritingWhenOff, WriteErrors, Always}
=============================================================================
