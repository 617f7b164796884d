# A TLA+ verification of Redis 7.0.11

The repository is Redis 7.0.11 with commented sources. This directory holds TLA+ modules
translated from its C code, the TLC configurations that check them on small instances, and TLAPS
proofs that hold for every instance. `PROJECT.json` maps each definition to the lines it models.

## The system's parts and how they interact

A Redis server is one thread running the event loop of `ae.c`: it polls, reads clients and links,
runs timers (`serverCron`, `clusterCron`, `replicationCron`) and, before it sleeps again,
`beforeSleep`, where buffers are written and files are saved. Children made by `fork` write
snapshots; the threads of `bio.c` fsync, close and free. So most state changes are sequential
within a server. What is hard is between two iterations of the loop, between two system calls of
one handler when the process dies, and between servers.

| Part | Sources | Module |
|---|---|---|
| Cluster: failover election | `cluster.c` | `ClusterElection` |
| Cluster: slot configuration, failure detection, slot migration | `cluster.c` | planned |
| Append-only file, its fsyncs and rewrites | `aof.c`, `bio.c` | `Aof` |
| Replication | `replication.c`, `networking.c`, `rdb.c` | `Replication` |
| Coordinated `FAILOVER` | `replication.c` | planned |
| Sentinel | `sentinel.c` | planned |
| Hash table, `SCAN` | `dict.c` | planned |
| Transactions, blocked clients, expiration, client-side caching | `multi.c`, `blocked.c`, `expire.c`, `tracking.c` | planned |
| Eviction, lazy free, background threads, threaded I/O | `evict.c`, `lazyfree.c`, `bio.c`, `networking.c` | planned |
| Streams and consumer groups | `t_stream.c` | planned |
| Byte formats, encodings, scripting, modules, the CLI tools | many | not modelled |

The parts meet in three places. A cluster election decides which replica calls
`replicationUnsetMaster`, and the others follow with `replicationSetMaster`. A full
resynchronisation stops the AOF and restarts it with a rewrite. Both AOF and replication are fed by
the same `propagate` calls. The complete list, with the reason for what is left out, is under
"components" in `PROJECT.json`.

## The modules

### ClusterElection

A replica of a failing master waits a delay, asks all masters for their vote in a new epoch, and
takes over its shard with `size/2 + 1` votes. A master votes at most once per epoch.

- State: `currentEpoch`, `lastVoteEpoch` and the owner and configEpoch of each shard, per node and
  again in `disk` (nodes.conf); the `failover_auth_*` and `mf_*` counters of a replica; `todo`, the
  flags of `todo_before_sleep`; `net`, the packets that left their sender. A packet may be received
  in any order or never. Time is abstracted to `age` (before the start delay, within the timeout,
  over) and `mayVote` (two node timeouts since the last vote about a master).
- Actions: `clusterCron` and `clusterBeforeSleep` with the whole of `clusterHandleSlaveFailover`;
  `ReceivePong`, `ReceiveAuthRequest` (`clusterSendFailoverAuthIfNeeded`), `ReceiveAuthAck`; `Ping`;
  `CrashRestart` (`clusterLoadConfig`); the passing of time; `FlagFail`; `ClusterFailover` and the
  start and timeout of manual failovers.
- Atomicity: a packet is queued, and leaves at a later poll, after `clusterBeforeSleep` saved
  nodes.conf; so a handler, the save and the sending are one step. The two exceptions are steps of
  their own: a vote queued on a link already waiting to be written (`early`), and a request queued
  by `clusterBeforeSleep` itself (`todo`).
- `sentVotes`, `forgot`, `tally` and `wins` are history variables used by properties only.

### Aof

The multi-part AOF: one BASE file, INCR files and a manifest that lists them.

- State: the dataset is the sequence of the writes that made it; `aof_buf`, `aof_fd`, `aof_state`,
  the manifest in memory (`aof_manifest`, `temp_am`), the child, and the directory: `files` with, for
  each file, its data and the length known to be on the disk, and `manifest_file`.
- Actions: `Write` (`feedAppendOnlyFile`), `beforeSleep` (`flushAppendOnlyFile` with its postponed,
  short and failed writes and the three fsync policies), the background fsync, `BGREWRITEAOF`, the
  cron, `CONFIG SET appendonly`, snapshots that delay rewrites, shutdown, crashes, power failures,
  loading at the next start.
- A handler that makes several system calls is cut between them by `pc`, since a crash there
  leaves the directory as it is: opening the INCR, persisting the manifest, fork; and, at the end of
  a rewrite, the two renames, the manifest, and the deletion of the history files.

### Replication

PSYNC between servers that change roles, lose connections and restart.

- State: one record per server, with the fields of `redisServer` (`replid`, `replid2`,
  `second_replid_offset`, `master_repl_offset`, `repl_backlog`, `repl_state`), the master or the cached
  master, the running child and the RDB file. `replstate`, `out` and `chan` are the client of this
  server at its master. One command stands for one byte of the stream; the dataset is the sequence
  of writes, so two datasets are equal only with the same history.
- Actions: `Write`; `Psync` (the end of the handshake with `syncCommand` at the master: refused,
  partial or full); `replicationStartPendingFork`; the end of a BGSAVE; `FreeBacklog`; the replies
  `ReceiveFullResync`, `ReceiveContinue`, `ReceiveNoMasterLink`; `LoadRdb` and its failures;
  `ApplyCommand`, which also feeds the replicas of a replica; `LinkDown`; `replicationSetMaster`,
  `replicationUnsetMaster`; `rdbSave` and `Restart` (`loadDataFromDisk`).
- The backlog may keep more than its size, since blocks are shared with replicas that lag; how
  much it keeps is a choice (`Keeps`).
- Simplifications: disk-based synchronisation; both ends of a connection see it close at once (a
  master that has not yet seen it feeds a client nobody reads); save points are configured, so a
  BGSAVE goes on when its replicas have left; one database, hence no `SELECT`; a fork that fails is
  a child that fails at once; a killed child is reaped at once.

## The runs

| Run | Instance | Shows |
|---|---|---|
| `election` | 3 shards, 2 replicas competing in one epoch, loss and reordering | `ElectionSafety`: two replicas never win one epoch |
| `election_crash` | 2 shards, 2 replicas, one crash at any point, a link with pings | `OneVotePerEpoch` across restarts; `NodesConfEpochsGrow`: the saved epochs never go back |
| `election_manual` | 1 shard, 3 epochs, `CLUSTER FAILOVER` repeated, forced, timing out, automatic attempts retried | `VoteInv`, the inductive invariant of the proofs |
| `late_vote` | violation | two winners of one epoch by a vote of the previous attempt |
| `early_vote` | violation | a vote leaves before it is in nodes.conf |
| `aof_crash` | everysec; 2 writes, 2 rewrites, 2 switches, one kill; failing manifest, open, fork | `RecoversPrefix`: the files always load to a prefix of the dataset; `NothingLost`: files and buffer together hold all of it |
| `aof_off` | rewrites while the AOF is off | `RecoversPrefix` |
| `aof_write` | short and failed writes, a kill | `NothingLost` |
| `aof_always` | appendfsync always; a power failure, failing manifest | `AckedIsDurable`: an acknowledged write survives |
| `aof_off_rewrite` | violation | after a rewrite with the AOF off and a crash, the file being written is deleted as history |
| `aof_write_error` | violation | a rewrite with an unwritten buffer repeats writes in the INCR |
| `replication` | 2 or 3 servers, star and chain, see below | `StreamContinues`, `AcceptedIsShared`, `Converges` |

`ElectionSafety` has provisos, each a way in which the code does let two replicas win one epoch: a
vote lost in a crash because it left before its save, a vote of an earlier attempt counted late, two
masters of one shard voting, winners that saw clusters of different sizes. The two election findings
are the first two.

### Bounds, and why they are enough

- Elections: `election` has the competition, two candidates of one shard and three shards, for a
  quorum of two; `election_manual` has the retries, up to three epochs; one crash, in
  `election_crash`, suffices for a vote to be repeated. A competition with retries and three shards
  is beyond TLC; the theorems, which have no bounds, cover it.
- AOF: two rewrites, so that the second meets the history of the first; two switches, off and on
  again; one crash, followed by a start that reuses the directory. `MaxWrites` puts a write before,
  between and after.
- Replication: `Small` is a set of starting topologies, each with its own bounds, so that one run
  covers them all: a pair that changes roles twice with two writes (both sides diverge) and frees
  its backlog; a pair with a restart and a failure; a star with two changes of role; a star with a
  restart and a failure (two replicas joining one BGSAVE); a chain. `BacklogSize` 1 makes both the
  partial and the full resynchronisation happen.
- Deadlock is checked in the passing runs of the election and the AOF. Servers at rest with nothing
  left to do are a correct end in `Replication`, so its run does not.

### Fairness

`ClusterElection` and `Aof` have no fairness: only safety is claimed. `Converges` is checked under
weak fairness of what each server does by itself: its cron connects and sends PSYNC and starts the
pending BGSAVE, its children end, and what arrives is read. The event loop and `replicationCron`,
which runs every second, guarantee these. Nothing is assumed of failures, commands or timeouts.

### Findings

1. `clusterHandleSlaveFailover` resets the vote count when an attempt is scheduled, while
   `failover_auth_epoch` keeps its old value until the request is sent (`late_vote`).
2. `AE_BARRIER` orders the events of one descriptor; a vote is read on one link and sent on another,
   so it may leave before nodes.conf is saved (`early_vote`).
3. `BGREWRITEAOF` while the AOF is off moves every INCR to the history. When the process dies before
   these are deleted, the next start numbers its INCR from 1 again, appends to a history file and
   deletes it while it is in use (`aof_off_rewrite`).
4. A rewrite forked while `aof_buf` could not be written: the INCR repeats writes that are in the
   BASE (`aof_write_error`).

### Known limits of the AOF guarantees

The same module with other constants shows where the guarantees end. These are not runs:

- `RecoversPrefix` fails when the manifest is renamed and the fsync of its directory then fails
  (`aof.c:580`): memory is rolled back, the disk is not.
- `RecoversPrefix` fails under everysec with a power failure while the fsync of the previous INCR is
  queued (`aof.c:835`) and the new one is already synced.
- `RecoversPrefix` fails when a fork fails with the AOF off and a temporary INCR open (`aof.c:993`).
- `AckedIsDurable` fails under always after a kill: at the next start the file is taken to be on the
  disk (`aof.c:761`). It fails with `no-appendfsync-on-rewrite yes`, as redis.conf documents.

## The proofs

The theorems are about `ClusterElection`, for every set of nodes and shards, any number of crashes
and any `MaxEpoch`, from the named assumptions of that module only.

- `TypeCorrect` (`ClusterElectionTypes`): `TypeOK` is inductive.
- `OneVotePerEpochHolds` and `ElectionSafetyHolds` (`ClusterElectionProof`).

Neither property is inductive. `VoteInv` is the strengthening: `EpochsOrdered` (nodes.conf is never
ahead of memory, and `lastVoteEpoch` never ahead of `currentEpoch`), `VotesBounded` (a vote that left
is not newer than its voter's `lastVoteEpoch`, unless the voter forgot it), `VotesCast` and
`VotesFresh` (a vote in flight or counted was cast for the node that counts it; in flight it is
unique and not counted yet), `CountBacked` and `WinsBacked` (a count is at most the number of
different votes behind it, and every win had a quorum). The last three hold as long as no vote was
forgotten in a crash.
The heart is `GrantIsNew`: a granted vote is for an epoch of at least `currentEpoch`, hence of at
least `lastVoteEpoch`, and different from it, so it is newer than all votes of that voter. Safety
then follows because two majorities of the same masters share a voter.

`ClusterElectionVotes` shows that steps which touch no vote preserve `VoteInv` (`QuietKeepsVoteInv`),
and treats the granting of a vote; `ClusterElectionProof` treats the counting of a vote and the
crash, and combines the steps.

Only model-checked: `NodesConfEpochsGrow`, everything about `Aof` and `Replication`. Liveness under
fairness is out of the prover's reach and stays with TLC.

## What is not modelled

Within the modelled parts: UPDATE packets, configEpoch collisions and resharding; the upgrade from a
single-file AOF, timestamps in the AOF, the back-off of failing rewrites; diskless synchronisation,
`SELECT` in the stream, `WAIT`, output buffer limits, writable replicas. Outside them, byte formats
(RDB, RESP, listpack, ziplist), scripting and modules: they are codecs or embedded interpreters
without interleavings.

## Plan

1. `ClusterConfig` (slot ownership, UPDATE, collisions, convergence as liveness) with an abstract
   specification of slot ownership that it refines; `ClusterFailure` (PFAIL, FAIL, clearing). Both
   compose with `ClusterElection` through the header of a packet.
2. `Replication` extended by `SELECT` and the coordinated `FAILOVER`; `SentinelFailover` on top of the
   promotions that `Replication` models.
3. Within one server: `Dict` (rehash and `SCAN`: every element that stays is returned), `Transactions`,
   `BlockedClients` (every ready client is served, in order), `Expiry`, `Tracking`, `ConsumerGroup`,
   `Bio` and `IoThreads`.
4. Proofs: `NodesConfEpochsGrow` from `VoteInv`; an inductive invariant for `Aof` that implies
   `RecoversPrefix` without failures; `AcceptedIsShared` for `Replication`; the invariants of `Dict` and
   `Transactions`; the refinement of `ClusterConfig`.
5. As modules are added, runs of one module are merged in the way of `Small`: a set of starting
   points, each with its bounds.
