---------------------------------- MODULE Aof ----------------------------------
(***************************************************************************)
(* The multi-part append-only file of Redis (aof.c): the buffer written    *)
(* before the event loop sleeps, the manifest that lists one BASE and the  *)
(* INCR files, the background rewrite, CONFIG SET appendonly, crashes and  *)
(* the loading of the files at the next start.                             *)
(*                                                                         *)
(* A write command is a number, the dataset is the sequence of the writes  *)
(* applied to it.  The main thread runs one handler at a time; pc stops    *)
(* inside a handler between two system calls, where a crash leaves the     *)
(* directory as it is.  Temporary files whose name is the process id are   *)
(* not part of the model: nothing ever reads them after a crash.           *)
(***************************************************************************)
EXTENDS Integers, Sequences, SequencesExt, FiniteSets

CONSTANT Configs      \* the configurations to consider, each with its bounds

Policies == {"always", "everysec", "no"}
\* write(2) of the AOF, open(2) of an INCR, the manifest, the fsync of its directory, fork(2),
\* the death of the process, the loss of the page cache
AllFailures == {"write", "open", "manifest", "dirsync", "fork", "kill", "power"}

\* server.aof_fsync, server.aof_no_fsync_on_rewrite, whether BGREWRITEAOF is used while the AOF is
\* off, the failures that can happen, and bounds: write commands, rewrites started, CONFIG SET
\* appendonly yes/no, crashes and power failures.
Config == [fsync: Policies, noFsyncOnRewrite: BOOLEAN, rewriteWhenOff: BOOLEAN,
           failures: SUBSET AllFailures, writes: Nat, rewrites: Nat, switches: Nat, crashes: Nat]

ASSUME ConfigsAssumption == Configs \subseteq Config

VARIABLES
    db,              \* the dataset in memory
    writes,          \* the number of write commands so far
    acked,           \* how many writes of db are acknowledged to their clients
    replying,        \* whether a client waits for the reply to its write
    aof_state,       \* "OFF", "WAIT_REWRITE" or "ON"
    aof_buf,
    aof_fd,          \* the file being appended to: a name, -1, or one already unlinked
    fsync_due,       \* aof_last_incr_fsync_offset # aof_last_incr_size
    write_ok,        \* aof_last_write_status = C_OK
    aof_manifest,    \* server.aof_manifest
    temp_am,         \* the manifest a handler is about to persist
    child,           \* server.child_type
    snapshot,        \* the dataset when the rewrite child was forked
    scheduled,       \* server.aof_rewrite_scheduled
    pc,              \* the next system call of the running handler, "idle", "down" or "refused"
    caller,          \* who called rewriteAppendOnlyFileBackground
    files,           \* the AOF directory: name -> data and the length known to be on the disk
    manifest_file,   \* the manifest file
    bio,             \* the files to be fsynced by the background threads
    conf,            \* the configuration, chosen at the start
    rewrites, switches, crashes

persisted == <<files, manifest_file>>
dataset == <<db, writes, acked, replying>>
stream == <<aof_state, aof_buf, aof_fd, fsync_due, write_ok>>
rewrite == <<child, snapshot, scheduled, caller>>
bounds == <<conf, rewrites, switches, crashes>>
vars == <<dataset, stream, aof_manifest, temp_am, rewrite, pc, persisted, bio, bounds>>

AofFsync == conf.fsync
NoFsyncOnRewrite == conf.noFsyncOnRewrite
RewriteWhenOff == conf.rewriteWhenOff
Failures == conf.failures
MaxWrites == conf.writes
MaxRewrites == conf.rewrites
MaxSwitches == conf.switches
MaxCrashes == conf.crashes

Base(n) == [kind |-> "base", seq |-> n]
Incr(n) == [kind |-> "incr", seq |-> n]
TempIncr == [kind |-> "temp", seq |-> 0]
Closed == [kind |-> "closed", seq |-> 0]
Unlinked == [kind |-> "unlinked", seq |-> 0]
NoFile == [base |-> 0, incr |-> <<>>, hist |-> {}]  \* the manifest file does not exist yet
Torn == 0                                           \* a command cut in the middle

(***************************************************************************)
(* The manifest.  base = 0: no BASE file.  History files are a set.        *)
(***************************************************************************)
aofManifestCreate ==
    [base |-> 0, incr |-> <<>>, hist |-> {}, base_seq |-> 0, incr_seq |-> 0, dirty |-> FALSE]

\* getAofManifestAsString
ManifestLines(am) == [base |-> am.base, incr |-> am.incr, hist |-> am.hist]

\* Mutant: the INCR sequence of an empty manifest is left at -1.
aofLoadManifest_NoSeq(lines) ==
    [base |-> lines.base, incr |-> lines.incr, hist |-> lines.hist, base_seq |-> lines.base,
     incr_seq |-> IF lines.incr = <<>> THEN -1 ELSE Last(lines.incr), dirty |-> FALSE]

\* aofLoadManifestFromFile: the sequence numbers are those of the BASE and the last INCR.
aofLoadManifest(lines) ==
    [base |-> lines.base, incr |-> lines.incr, hist |-> lines.hist, base_seq |-> lines.base,
     incr_seq |-> IF lines.incr = <<>> THEN 0 ELSE Last(lines.incr), dirty |-> FALSE]

getNewBaseFileNameAndMarkPreAsHistory(am) ==
    [am EXCEPT !.hist = IF am.base = 0 THEN @ ELSE @ \cup {Base(am.base)},
               !.base_seq = @ + 1, !.base = am.base_seq + 1, !.dirty = TRUE]

getNewIncrAofName(am) ==
    [am EXCEPT !.incr_seq = @ + 1, !.incr = Append(@, am.incr_seq + 1), !.dirty = TRUE]

getLastIncrAofName(am) == IF am.incr = <<>> THEN getNewIncrAofName(am) ELSE am

\* "server.aof_fd != -1" keeps the last INCR, the one being written.
markRewrittenIncrAofAsHistory(am) ==
    LET kept == IF aof_fd # Closed THEN <<Last(am.incr)>> ELSE <<>>
    IN  IF am.incr = <<>> THEN am
        ELSE [am EXCEPT !.incr = kept, !.dirty = TRUE,
                        !.hist = @ \cup {Incr(n) : n \in Range(am.incr) \ Range(kept)}]

\* writeAofManifestFile: "manifest" is a failure before the rename, "dirsync" after it.
Outcomes == {"ok"} \cup (Failures \cap {"manifest", "dirsync"})
persistAofManifest(am, outcome) ==
    manifest_file' = IF am.dirty /\ outcome # "manifest" THEN ManifestLines(am) ELSE manifest_file
Persisted(am, outcome) == ~am.dirty \/ outcome = "ok"

Exists(name) == name \in DOMAIN files
Created(name, file) ==
    [n \in DOMAIN files \cup {name} |-> IF n = name THEN file ELSE files[n]]
Empty == [data |-> <<>>, synced |-> 0]

\* A complete copy of a dataset, as an RDB file or as commands, fsynced before it gets its name.
rewriteAppendOnlyFile(data) == [data |-> data, synced |-> Len(data)]
\* bg_unlink: a descriptor of the file stays open, what is written there is lost.
Unlink(names) ==
    /\ files' = [n \in DOMAIN files \ names |-> files[n]]
    /\ aof_fd' = IF aof_fd \in names THEN Unlinked ELSE aof_fd
    /\ bio' = {IF j.file \in names THEN [j EXCEPT !.file = Unlinked] ELSE j : j \in bio}
Synced(name) ==
    IF Exists(name) THEN [files EXCEPT ![name].synced = Len(files[name].data)] ELSE files

Init ==
    /\ db = <<>> /\ writes = 0 /\ acked = 0 /\ replying = FALSE
    /\ aof_state = "OFF" /\ aof_buf = <<>> /\ aof_fd = Closed /\ fsync_due = FALSE /\ write_ok = TRUE
    /\ aof_manifest = aofManifestCreate /\ temp_am = aofManifestCreate
    /\ child = "none" /\ snapshot = <<>> /\ scheduled = FALSE /\ caller = "cron"
    /\ pc = "down"
    /\ files = <<>> /\ manifest_file = NoFile
    /\ bio = {}
    /\ conf \in Configs
    /\ rewrites = 0 /\ switches = 0 /\ crashes = 0

(***************************************************************************)
(* flushAppendOnlyFile.                                                    *)
(***************************************************************************)
FsyncInProgress == \E j \in bio : j.job = "fsync"
Appended(data) == IF Exists(aof_fd) THEN [files EXCEPT ![aof_fd].data = @ \o data] ELSE files
FdSynced(dir) ==
    IF aof_fd \in DOMAIN dir THEN [dir EXCEPT ![aof_fd].synced = Len(dir[aof_fd].data)] ELSE dir

\* Mutant: no fsync while a child runs, whatever no-appendfsync-on-rewrite says.
TryFsync_NotWithChild(dir, due) ==
    IF child # "none" \/ AofFsync # "always"
      THEN files' = dir /\ fsync_due' = due /\ bio' = bio
      ELSE files' = FdSynced(dir) /\ fsync_due' = FALSE /\ bio' = bio

\* try_fsync: dir is the directory after the write, due whether something is to be synced.
TryFsync(dir, due) ==
    \/ /\ NoFsyncOnRewrite /\ child # "none"
       /\ files' = dir /\ fsync_due' = due /\ bio' = bio
    \/ /\ ~(NoFsyncOnRewrite /\ child # "none") /\ AofFsync = "always"
       /\ files' = FdSynced(dir) /\ fsync_due' = FALSE /\ bio' = bio
    \* a second did not elapse, or the previous fsync is still in progress
    \/ /\ AofFsync # "always"
       /\ files' = dir /\ fsync_due' = due /\ bio' = bio
    \/ /\ ~(NoFsyncOnRewrite /\ child # "none") /\ AofFsync = "everysec" /\ ~FsyncInProgress
       /\ files' = dir /\ fsync_due' = FALSE /\ bio' = bio \cup {[job |-> "fsync", file |-> aof_fd]}

\* The buffer is empty: only a late fsync is left.
FlushEmpty(next) ==
    /\ aof_buf = <<>>
    /\ IF fsync_due THEN TryFsync(files, TRUE) ELSE UNCHANGED <<files, fsync_due, bio>>
    /\ pc' = next
    /\ UNCHANGED <<aof_buf, write_ok>>

\* An fsync is in progress: the write is postponed, unless it is forced or two seconds passed.
FlushPostponed(force, next) ==
    /\ aof_buf # <<>> /\ AofFsync = "everysec" /\ ~force /\ FsyncInProgress
    /\ pc' = next
    /\ UNCHANGED <<aof_buf, write_ok, files, fsync_due, bio>>

FlushWrites(next) ==
    /\ aof_buf # <<>> /\ aof_fd # Closed
    /\ TryFsync(Appended(aof_buf), TRUE)
    /\ aof_buf' = <<>> /\ write_ok' = TRUE
    /\ pc' = next

\* Mutant: the buffer is not trimmed after a short write.
FlushFails_NotTrimmed(k, next) ==
    /\ k < Len(aof_buf) /\ "write" \in Failures /\ aof_fd # Closed /\ AofFsync # "always"
    /\ files' = Appended(SubSeq(aof_buf, 1, k))
    /\ write_ok' = FALSE /\ pc' = next
    /\ UNCHANGED <<aof_buf, fsync_due, bio>>

\* A failed or short write; k commands stay in the file when ftruncate(2) fails too.  A write
\* to no file always fails.
FlushFails(k, next) ==
    /\ k < Len(aof_buf)
    /\ ("write" \in Failures /\ aof_fd # Closed) \/ (aof_fd = Closed /\ k = 0)
    /\ files' = Appended(SubSeq(aof_buf, 1, k))
    /\ IF AofFsync = "always"
         THEN pc' = "down" /\ bio' = {} /\ UNCHANGED <<aof_buf, write_ok, fsync_due>>
         ELSE /\ aof_buf' = SubSeq(aof_buf, k + 1, Len(aof_buf))
              /\ write_ok' = FALSE
              /\ fsync_due' = (fsync_due \/ k > 0)
              /\ pc' = next
              /\ bio' = bio

flushAppendOnlyFile(force, next) ==
    \/ FlushEmpty(next)
    \/ FlushPostponed(force, next)
    \/ FlushWrites(next)
    \/ \E k \in 0..MaxWrites : FlushFails(k, next)

(***************************************************************************)
(* Commands and the event loop.                                            *)
(***************************************************************************)
\* feedAppendOnlyFile, called for every write command; a write is refused after an AOF error.
Write ==
    /\ pc = "idle" /\ writes < MaxWrites
    /\ aof_state = "OFF" \/ write_ok
    /\ writes' = writes + 1
    /\ db' = Append(db, writes + 1)
    /\ aof_buf' = IF aof_state = "ON" \/ (aof_state = "WAIT_REWRITE" /\ child = "aof")
                    THEN Append(aof_buf, writes + 1) ELSE aof_buf
    /\ replying' = TRUE
    /\ UNCHANGED <<acked, aof_state, aof_fd, fsync_due, write_ok, aof_manifest, temp_am, rewrite, pc,
                   persisted, bio, bounds>>

\* beforeSleep: the flush, then the replies.  The flushes of serverCron are followed by it.
beforeSleep ==
    /\ pc = "idle"
    /\ IF aof_state = "OFF"
         THEN UNCHANGED <<aof_buf, write_ok, files, fsync_due, bio, pc>>
         ELSE flushAppendOnlyFile(FALSE, "idle")
    /\ acked' = IF replying /\ pc' = "idle" THEN Len(db) ELSE acked
    /\ replying' = FALSE
    /\ UNCHANGED <<db, writes, aof_state, aof_fd, aof_manifest, temp_am, rewrite, manifest_file,
                   bounds>>

\* bioProcessBackgroundJobs: BIO_AOF_FSYNC and BIO_CLOSE_FILE have a thread each.
bioProcessBackgroundJobs(j) ==
    /\ pc \notin {"down", "refused"}
    /\ bio' = bio \ {j}
    /\ files' = Synced(j.file)
    /\ UNCHANGED <<dataset, stream, aof_manifest, temp_am, rewrite, pc, manifest_file, bounds>>

(***************************************************************************)
(* rewriteAppendOnlyFileBackground: flush, open a new INCR, fork.          *)
(***************************************************************************)
StartRewrite(who) ==
    /\ rewrites < MaxRewrites
    /\ rewrites' = rewrites + 1
    /\ caller' = who
    /\ flushAppendOnlyFile(TRUE, "open_incr")
    /\ UNCHANGED <<dataset, aof_fd, aof_manifest, temp_am, snapshot, manifest_file, crashes, conf>>

\* BGREWRITEAOF, and the growth check of serverCron.
bgrewriteaofCommand ==
    /\ pc = "idle" /\ child = "none"
    /\ aof_state # "OFF" \/ RewriteWhenOff
    /\ StartRewrite("cron")
    /\ UNCHANGED <<aof_state, child, scheduled, switches>>

\* BGREWRITEAOF during a snapshot, or in a transaction.
ScheduleRewrite ==
    /\ pc = "idle" /\ child # "aof" /\ ~scheduled
    /\ aof_state # "OFF" \/ RewriteWhenOff
    /\ scheduled' = TRUE
    /\ UNCHANGED <<dataset, stream, aof_manifest, temp_am, child, snapshot, caller, pc, persisted,
                   bio, bounds>>

\* serverCron starts the rewrite that was scheduled.
serverCron ==
    /\ pc = "idle" /\ child = "none" /\ scheduled
    /\ StartRewrite("cron")
    /\ UNCHANGED <<aof_state, child, scheduled, switches>>

\* rewriteAppendOnlyFileBackground returns C_ERR.
RewriteNotStarted ==
    /\ aof_state' = IF caller = "start" THEN "OFF" ELSE aof_state
    /\ pc' = "idle"

\* openNewIncrAofForAppend, up to the open(2): a temporary file while the AOF is being enabled.
OpenNothing ==
    /\ pc = "open_incr" /\ aof_state = "OFF"
    /\ pc' = "fork"
    /\ UNCHANGED <<dataset, stream, aof_manifest, temp_am, rewrite, persisted, bio, bounds>>

OpenTempIncr ==
    /\ pc = "open_incr" /\ aof_state = "WAIT_REWRITE"
    /\ files' = Created(TempIncr, Empty)
    /\ bio' = IF aof_fd = Closed THEN bio ELSE bio \cup {[job |-> "close", file |-> aof_fd]}
    /\ aof_fd' = TempIncr /\ fsync_due' = FALSE
    /\ pc' = "fork"
    /\ UNCHANGED <<dataset, aof_state, aof_buf, write_ok, aof_manifest, temp_am, rewrite,
                   manifest_file, bounds>>

OpenNewIncr ==
    /\ pc = "open_incr" /\ aof_state = "ON"
    /\ temp_am' = getNewIncrAofName(aof_manifest)
    /\ files' = Created(Incr(aof_manifest.incr_seq + 1), Empty)
    /\ pc' = "persist_incr"
    /\ UNCHANGED <<dataset, stream, aof_manifest, rewrite, manifest_file, bio, bounds>>

OpenFails ==
    /\ pc = "open_incr" /\ aof_state # "OFF" /\ "open" \in Failures
    /\ RewriteNotStarted
    /\ UNCHANGED <<dataset, aof_buf, aof_fd, fsync_due, write_ok, aof_manifest, temp_am, rewrite,
                   persisted, bio, bounds>>

\* openNewIncrAofForAppend, the manifest: the old file is fsynced and closed in background.
PersistNewIncr(outcome) ==
    /\ pc = "persist_incr"
    /\ persistAofManifest(temp_am, outcome)
    /\ IF Persisted(temp_am, outcome)
         THEN /\ aof_manifest' = [temp_am EXCEPT !.dirty = FALSE]
              /\ aof_fd' = Incr(temp_am.incr_seq) /\ fsync_due' = FALSE
              /\ bio' = bio \cup {[job |-> "close", file |-> aof_fd]}
              /\ pc' = "fork"
         ELSE /\ pc' = "idle"
              /\ UNCHANGED <<aof_manifest, aof_fd, fsync_due, bio>>
    /\ UNCHANGED <<dataset, aof_state, aof_buf, write_ok, temp_am, rewrite, files, bounds>>

\* redisFork: the child writes a snapshot of the dataset.
Fork ==
    /\ pc = "fork"
    /\ child' = "aof" /\ snapshot' = db /\ scheduled' = FALSE
    /\ write_ok' = (write_ok \/ caller = "start")
    /\ pc' = "idle"
    /\ UNCHANGED <<dataset, aof_state, aof_buf, aof_fd, fsync_due, aof_manifest, temp_am, caller,
                   persisted, bio, bounds>>

ForkFails ==
    /\ pc = "fork" /\ "fork" \in Failures
    /\ RewriteNotStarted
    /\ UNCHANGED <<dataset, aof_buf, aof_fd, fsync_due, write_ok, aof_manifest, temp_am, rewrite,
                   persisted, bio, bounds>>

(***************************************************************************)
(* backgroundRewriteDoneHandler.                                           *)
(***************************************************************************)
\* The cleanup of the handler while the AOF is still being enabled, and the reset of the child.
Cleanup ==
    /\ child' = "none" /\ UNCHANGED <<snapshot, caller>>
    /\ IF aof_state' = "WAIT_REWRITE"
         THEN aof_buf' = <<>> /\ scheduled' = TRUE
         ELSE UNCHANGED <<aof_buf, scheduled>>

\* The child died or its exit code was not 0, or a rename(2) failed.
RewriteFails ==
    /\ pc = "idle" /\ child = "aof"
    /\ UNCHANGED aof_state
    /\ Cleanup
    /\ Unlink(IF aof_state = "WAIT_REWRITE" THEN {TempIncr} ELSE {})
    /\ UNCHANGED <<dataset, fsync_due, write_ok, aof_manifest, temp_am, pc, manifest_file, bounds>>

\* Mutant: the previous BASE is deleted before the manifest is persisted.
RenameBase_DeletesFirst ==
    /\ pc = "idle" /\ child = "aof"
    /\ temp_am' = getNewBaseFileNameAndMarkPreAsHistory(aof_manifest)
    /\ files' = [n \in {Base(temp_am'.base)} \cup (DOMAIN files \ {Base(aof_manifest.base)}) |->
                   IF n = Base(temp_am'.base) THEN rewriteAppendOnlyFile(snapshot) ELSE files[n]]
    /\ pc' = IF aof_state = "WAIT_REWRITE" THEN "rename_incr" ELSE "persist_base"
    /\ UNCHANGED <<dataset, stream, aof_manifest, rewrite, manifest_file, bio, bounds>>

\* The file of the child, fsynced by it, gets the name of the new BASE.
RenameBase ==
    /\ pc = "idle" /\ child = "aof"
    /\ temp_am' = getNewBaseFileNameAndMarkPreAsHistory(aof_manifest)
    /\ files' = Created(Base(temp_am'.base), rewriteAppendOnlyFile(snapshot))
    /\ pc' = IF aof_state = "WAIT_REWRITE" THEN "rename_incr" ELSE "persist_base"
    /\ UNCHANGED <<dataset, stream, aof_manifest, rewrite, manifest_file, bio, bounds>>

\* While the AOF is being enabled, the temporary INCR becomes a real one.
RenameIncr ==
    /\ pc = "rename_incr" /\ Exists(TempIncr)
    /\ temp_am' = getNewIncrAofName(temp_am)
    /\ LET name == Incr(temp_am'.incr_seq)
           Renamed(n) == IF n = TempIncr THEN name ELSE n
       IN  /\ files' = [n \in {Renamed(m) : m \in DOMAIN files} |->
                          IF n = name THEN files[TempIncr] ELSE files[n]]
           /\ aof_fd' = Renamed(aof_fd)
           /\ bio' = {[j EXCEPT !.file = Renamed(@)] : j \in bio}
    /\ pc' = "persist_base"
    /\ UNCHANGED <<dataset, aof_state, aof_buf, fsync_due, write_ok, aof_manifest, rewrite,
                   manifest_file, bounds>>

\* There is no temporary INCR: the new BASE is removed.
RenameIncrFails ==
    /\ pc = "rename_incr" /\ ~Exists(TempIncr)
    /\ UNCHANGED aof_state
    /\ Cleanup
    /\ Unlink({Base(temp_am.base)})
    /\ pc' = "idle"
    /\ UNCHANGED <<dataset, fsync_due, write_ok, aof_manifest, temp_am, manifest_file, bounds>>

\* The new manifest replaces the old one, or the new files are removed again.
PersistNewBase(outcome) ==
    LET am == markRewrittenIncrAofAsHistory(temp_am)
    IN  /\ pc = "persist_base"
        /\ persistAofManifest(am, outcome)
        /\ IF Persisted(am, outcome)
             THEN /\ aof_manifest' = [am EXCEPT !.dirty = FALSE]
                  /\ aof_state' = IF aof_state = "OFF" THEN "OFF" ELSE "ON"
                  /\ Unlink({})
                  /\ pc' = "unlink"
             ELSE /\ aof_manifest' = aof_manifest
                  /\ aof_state' = aof_state
                  /\ Unlink({Base(am.base)} \cup
                            (IF aof_state = "WAIT_REWRITE" THEN {Incr(am.incr_seq)} ELSE {}))
                  /\ pc' = "idle"
        /\ Cleanup
        /\ UNCHANGED <<dataset, fsync_due, write_ok, temp_am, bounds>>

\* aofDelHistoryFiles: the files first, then the manifest.
UnlinkHistory ==
    /\ pc = "unlink"
    /\ Unlink(aof_manifest.hist)
    /\ IF aof_manifest.hist = {}
         THEN pc' = "idle" /\ UNCHANGED aof_manifest
         ELSE /\ pc' = "persist_hist"
              /\ aof_manifest' = [aof_manifest EXCEPT !.hist = {}, !.dirty = TRUE]
    /\ UNCHANGED <<dataset, aof_state, aof_buf, fsync_due, write_ok, temp_am, rewrite,
                   manifest_file, bounds>>

PersistNoHistory(outcome) ==
    /\ pc = "persist_hist"
    /\ persistAofManifest(aof_manifest, outcome)
    /\ aof_manifest' = [aof_manifest EXCEPT !.dirty = ~Persisted(aof_manifest, outcome)]
    /\ pc' = "idle"
    /\ UNCHANGED <<dataset, stream, temp_am, rewrite, files, bio, bounds>>

(***************************************************************************)
(* CONFIG SET appendonly, and the snapshots that share the child slot.     *)
(***************************************************************************)
stopAppendOnly ==
    /\ pc = "idle" /\ aof_state # "OFF" /\ switches < MaxSwitches
    /\ switches' = switches + 1
    /\ flushAppendOnlyFile(TRUE, "stop")
    /\ UNCHANGED <<dataset, aof_state, aof_fd, aof_manifest, temp_am, rewrite, manifest_file,
                   rewrites, crashes, conf>>

StopClose ==
    /\ pc = "stop"
    /\ files' = FdSynced(files)
    /\ aof_fd' = Closed /\ aof_state' = "OFF" /\ aof_buf' = <<>> /\ fsync_due' = FALSE
    /\ scheduled' = FALSE
    /\ child' = IF child = "aof" THEN "none" ELSE child
    /\ pc' = "idle"
    /\ UNCHANGED <<dataset, write_ok, aof_manifest, temp_am, snapshot, caller, manifest_file, bio,
                   bounds>>

\* A rewrite that runs already is killed, and a new one started.
startAppendOnly ==
    /\ pc = "idle" /\ aof_state = "OFF" /\ child # "rdb" /\ switches < MaxSwitches
    /\ switches' = switches + 1
    /\ aof_state' = "WAIT_REWRITE"
    /\ child' = "none"
    /\ StartRewrite("start")
    /\ UNCHANGED scheduled

\* During a snapshot, or in a transaction, the rewrite is scheduled.
startAppendOnlyLater ==
    /\ pc = "idle" /\ aof_state = "OFF" /\ switches < MaxSwitches
    /\ switches' = switches + 1
    /\ aof_state' = "WAIT_REWRITE"
    /\ scheduled' = TRUE
    /\ write_ok' = TRUE
    /\ UNCHANGED <<dataset, aof_buf, aof_fd, fsync_due, aof_manifest, temp_am, child, snapshot,
                   caller, pc, persisted, bio, rewrites, crashes, conf>>

rdbSaveBackground ==
    /\ pc = "idle" /\ child = "none"
    /\ child' = "rdb"
    /\ UNCHANGED <<dataset, stream, aof_manifest, temp_am, snapshot, scheduled, caller, pc,
                   persisted, bio, bounds>>

backgroundSaveDoneHandler ==
    /\ pc = "idle" /\ child = "rdb"
    /\ child' = "none"
    /\ UNCHANGED <<dataset, stream, aof_manifest, temp_am, snapshot, scheduled, caller, pc,
                   persisted, bio, bounds>>

(***************************************************************************)
(* Crashes, and the start of the server with appendonly yes.               *)
(***************************************************************************)
\* finishShutdown: refused while the initial AOF is written, flushes and fsyncs otherwise.
finishShutdown ==
    /\ pc = "idle" /\ crashes < MaxCrashes
    /\ ~(aof_state = "WAIT_REWRITE" /\ child = "aof")
    /\ crashes' = crashes + 1
    /\ IF aof_state = "OFF"
         THEN pc' = "exit" /\ UNCHANGED <<aof_buf, write_ok, files, fsync_due, bio>>
         ELSE flushAppendOnlyFile(TRUE, "exit")
    /\ UNCHANGED <<dataset, aof_state, aof_fd, aof_manifest, temp_am, rewrite, manifest_file,
                   rewrites, switches, conf>>

Exit ==
    /\ pc = "exit"
    /\ files' = FdSynced(files)
    /\ pc' = "down" /\ bio' = {}
    /\ UNCHANGED <<dataset, stream, aof_manifest, temp_am, rewrite, manifest_file, bounds>>

\* The process dies, maybe right after the write(2) of a flush.  The page cache survives it.
Crash ==
    /\ pc \notin {"down", "refused"} /\ crashes < MaxCrashes /\ "kill" \in Failures
    /\ crashes' = crashes + 1
    /\ files' \in {files} \cup (IF pc = "idle" THEN {Appended(aof_buf)} ELSE {})
    /\ pc' = "down" /\ bio' = {}
    /\ UNCHANGED <<dataset, stream, aof_manifest, temp_am, rewrite, manifest_file, rewrites, switches, conf>>

\* The page cache is lost: a file keeps what was synced and any part of the rest.
Cuts(f) ==
    {[data |-> SubSeq(f.data, 1, i), synced |-> i] : i \in f.synced..Len(f.data)} \cup
    {[data |-> Append(SubSeq(f.data, 1, i), Torn), synced |-> i + 1] : i \in f.synced..(Len(f.data) - 1)}

PowerFailure ==
    /\ pc \notin {"down", "refused"} /\ crashes < MaxCrashes /\ "power" \in Failures
    /\ crashes' = crashes + 1
    /\ pc' = "down" /\ bio' = {}
    /\ \E cut \in [DOMAIN files -> UNION {Cuts(files[n]) : n \in DOMAIN files}] :
          /\ \A n \in DOMAIN files : cut[n] \in Cuts(files[n])
          /\ files' = cut
    /\ UNCHANGED <<dataset, stream, aof_manifest, temp_am, rewrite, manifest_file, rewrites, switches, conf>>

Listed == (IF manifest_file.base = 0 THEN <<>> ELSE <<Base(manifest_file.base)>>) \o
          [i \in 1..Len(manifest_file.incr) |-> Incr(manifest_file.incr[i])]

\* loadAppendOnlyFiles: every listed file exists, and only the last one may be truncated.
Loadable ==
    /\ \A i \in 1..Len(Listed) : Exists(Listed[i])
    /\ \A i \in 1..(Len(Listed) - 1) : Torn \notin Range(files[Listed[i]].data)
    /\ \A i \in 1..(Len(manifest_file.incr) - 1) : manifest_file.incr[i] < manifest_file.incr[i + 1]

Recovered ==
    SelectSeq(FlattenSeq([i \in 1..Len(Listed) |-> files[Listed[i]].data]), LAMBDA c : c # Torn)

\* loadSingleAppendOnlyFile cuts the command that is not complete (aof-load-truncated yes).
Truncated(f) ==
    LET whole == SelectSeq(f.data, LAMBDA c : c # Torn)
    IN  [data |-> whole, synced |-> IF f.synced < Len(whole) THEN f.synced ELSE Len(whole)]

loadDataFromDisk ==
    /\ pc = "down"
    /\ IF Loadable
         THEN /\ db' = Recovered
              /\ acked' = IF acked < Len(db') THEN acked ELSE Len(db')
              /\ files' = [n \in DOMAIN files |-> Truncated(files[n])]
              /\ aof_manifest' = aofLoadManifest(manifest_file)
              /\ pc' = IF Listed = <<>> THEN "start_base" ELSE "start_incr"
         ELSE pc' = "refused" /\ UNCHANGED <<db, acked, files, aof_manifest>>
    /\ aof_state' = "ON" /\ aof_buf' = <<>> /\ aof_fd' = Closed /\ fsync_due' = FALSE /\ write_ok' = TRUE
    /\ temp_am' = aofManifestCreate
    /\ child' = "none" /\ snapshot' = <<>> /\ scheduled' = FALSE /\ caller' = "cron"
    /\ replying' = FALSE
    /\ UNCHANGED <<writes, manifest_file, bio, bounds>>

\* aofOpenIfNeededOnServerStart: a BASE for an empty dataset, the last INCR or a new one opened
\* for appending, the manifest; then aofDelHistoryFiles.
StartBase ==
    /\ pc = "start_base"
    /\ aof_manifest' = getNewBaseFileNameAndMarkPreAsHistory(aof_manifest)
    /\ files' = Created(Base(aof_manifest'.base), rewriteAppendOnlyFile(db))
    /\ pc' = "start_incr"
    /\ UNCHANGED <<dataset, stream, temp_am, rewrite, manifest_file, bio, bounds>>

StartIncr ==
    /\ pc = "start_incr"
    /\ aof_manifest' = getLastIncrAofName(aof_manifest)
    /\ aof_fd' = Incr(Last(aof_manifest'.incr))
    /\ files' = IF Exists(aof_fd') THEN files ELSE Created(aof_fd', Empty)
    /\ pc' = "start_persist"
    /\ UNCHANGED <<dataset, aof_state, aof_buf, fsync_due, write_ok, temp_am, rewrite,
                   manifest_file, bio, bounds>>

StartPersist(outcome) ==
    /\ pc = "start_persist"
    /\ persistAofManifest(aof_manifest, outcome)
    /\ aof_manifest' = [aof_manifest EXCEPT !.dirty = ~Persisted(aof_manifest, outcome)]
    /\ pc' = IF Persisted(aof_manifest, outcome) THEN "unlink" ELSE "down"
    /\ UNCHANGED <<dataset, stream, temp_am, rewrite, files, bio, bounds>>

Next ==
    \/ Write
    \/ beforeSleep
    \/ \E j \in bio : bioProcessBackgroundJobs(j)
    \/ bgrewriteaofCommand
    \/ ScheduleRewrite
    \/ serverCron
    \/ OpenNothing
    \/ OpenTempIncr
    \/ OpenNewIncr
    \/ OpenFails
    \/ \E outcome \in Outcomes : PersistNewIncr(outcome)
    \/ Fork
    \/ ForkFails
    \/ RewriteFails
    \/ RenameBase
    \/ RenameIncr
    \/ RenameIncrFails
    \/ \E outcome \in Outcomes : PersistNewBase(outcome)
    \/ UnlinkHistory
    \/ \E outcome \in Outcomes : PersistNoHistory(outcome)
    \/ stopAppendOnly
    \/ StopClose
    \/ startAppendOnly
    \/ startAppendOnlyLater
    \/ rdbSaveBackground
    \/ backgroundSaveDoneHandler
    \/ finishShutdown
    \/ Exit
    \/ Crash
    \/ PowerFailure
    \/ loadDataFromDisk
    \/ StartBase
    \/ StartIncr
    \/ \E outcome \in Outcomes : StartPersist(outcome)

Spec == Init /\ [][Next]_vars

(***************************************************************************)
(* Properties.                                                             *)
(***************************************************************************)
Names == [kind: {"base", "incr", "temp", "closed", "unlinked"}, seq: Nat]
Manifests == [base: Nat, incr: Seq(Nat), hist: SUBSET Names, base_seq: Nat, incr_seq: Nat,
              dirty: BOOLEAN]

\* The values of the variables of aof.c and of the files it writes.
TypeOK ==
    /\ db \in Seq(Nat) /\ writes \in Nat /\ acked \in Nat /\ replying \in BOOLEAN
    /\ aof_state \in {"OFF", "WAIT_REWRITE", "ON"}
    /\ aof_buf \in Seq(Nat) /\ aof_fd \in Names /\ fsync_due \in BOOLEAN /\ write_ok \in BOOLEAN
    /\ aof_manifest \in Manifests /\ temp_am \in Manifests
    /\ child \in {"none", "rdb", "aof"} /\ snapshot \in Seq(Nat)
    /\ scheduled \in BOOLEAN /\ caller \in {"cron", "start"}
    /\ pc \in {"down", "refused", "idle", "open_incr", "persist_incr", "fork", "rename_incr",
               "persist_base", "unlink", "persist_hist", "stop", "exit", "start_base", "start_incr",
               "start_persist"}
    /\ DOMAIN files \subseteq Names
    /\ \A n \in DOMAIN files : files[n].data \in Seq(Nat) /\ files[n].synced \in 0..Len(files[n].data)
    /\ bio \subseteq [job: {"fsync", "close"}, file: Names]

\* Whatever instant the process dies at, between two system calls of any handler, the files on
\* the disk load (loadAppendOnlyFiles) and rebuild a prefix of the dataset it had: no write is
\* applied twice, skipped or invented.
RecoversPrefix == Loadable /\ IsPrefix(Recovered, db)

\* While the AOF is on, the files and the buffer together hold exactly the dataset, whatever
\* rewrites, switches and restarts happened before: nothing is lost but the unwritten buffer.
NothingLost ==
    aof_state = "ON" /\ pc = "idle" => Loadable /\ Recovered \o aof_buf = db

\* appendfsync always: an acknowledged write is "synced on disk" (flushAppendOnlyFile), and so is
\* every write before it, in the file it was written to: a power failure loses none of them.
DurableData(f) == SubSeq(f.data, 1, f.synced)
Durable == FlattenSeq([i \in 1..Len(Listed) |-> DurableData(files[Listed[i]])])
AckedIsDurable ==
    AofFsync = "always" /\ "kill" \notin Failures /\ aof_state = "ON" /\ pc = "idle" => Loadable /\ IsPrefix(SubSeq(db, 1, acked), Durable)

\* INCR "represents all write commands executed by Redis following the last successful AOF
\* rewrite" (aof.c): no INCR file repeats a write that the BASE file holds.
IncrFollowsBase ==
    \A i \in 2..Len(Listed) : Exists(Listed[1]) /\ Exists(Listed[i]) =>
        Range(files[Listed[i]].data) \cap Range(files[Listed[1]].data) \subseteq {Torn}

=============================================================================
