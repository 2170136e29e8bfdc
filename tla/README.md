# Verification of patroni-for-openGauss

A TLA+ development beside the Patroni fork that keeps an openGauss cluster
highly available (`src/patroni-for-openGauss`): models that TLC checks on small
instances and theorems that TLAPS proves for every instance.

Line numbers refer to the files under `src/`; `PROJECT.json` has, for every
definition of every module, the lines it models.

## 1. Inventory

The repository holds the Patroni fork (Python, 40 files) and scripts and images
that install it (`docker-build`, `simple_install`, `distributed`). The program
logic is in the fork. One Patroni process runs next to every database server
(`gaussdb`); the processes never talk to each other to decide anything. They
share a distributed configuration store (DCS: etcd, etcd3, consul, zookeeper,
kubernetes or a built-in raft) and read each other's REST API.

| Component | State | Operations | Interacts with |
|---|---|---|---|
| HA loop (`ha.py`) | cluster view, `_is_leader`, `_leader_expiry`, `recovering`, start timeout, `_async_response` | `run_cycle`: load view, renew or take the lock, enforce a role, follow, recover, demote, post-bootstrap, shutdown | DCS, watchdog, server, async executor |
| Async executor (`async_executor.py`, `cancellable.py`) | `scheduled_action`, `_is_cancelled`, `_finish_event`, critical task, running child process | `schedule`, `run`, `run_async`, `cancel`, `CriticalTask.cancel/complete/reset` | HA loop and REST threads call it; it runs server operations in a thread |
| Watchdog (`watchdog/`) | configuration, `active_config`, device file | `activate`, `keepalive`, `disable`, `reload_config` | HA loop, safepoint of a stop |
| Server control (`postgresql/__init__.py`, `postmaster.py`, `callback_executor.py`) | `state`, `role`, pending callback, postmaster process | `start`, `stop` (with safepoint), `restart`, `follow`, `promote`, `rebuild`, callbacks | `gaussdb`, `gs_ctl` |
| Server configuration (`postgresql/config.py`, `validator.py`) | effective configuration, `pending_restart`, `synchronous_standby_names` | `reload_config`, `set_synchronous_standby`, `write_postgresql_conf` | server |
| Synchronous replication (`ha.py:450-540`) | `/sync` key, `synchronous_standby_names` | `process_sync_replication`, `while_not_sync_standby` | DCS, server |
| DCS interface (`dcs/__init__.py`) | `Cluster` view, last leader operation | `get_cluster`, `update_leader`, `delete_leader`, `watch`, `get_replication_slots` | back-ends |
| Back-ends (`dcs/etcd.py`, `etcd3.py`, `consul.py`, `zookeeper.py`, `kubernetes.py`, `raft.py`) | leases, sessions, watch caches, the replicated key-value store of `raft.py` | compare-and-set of the keys, expiry, retries | external stores |
| Rewind and rebuild (`postgresql/rewind.py`) | `RewindStatus` | `trigger_check_diverged_lsn`, `execute`, `ensure_clean_shutdown` | HA loop, async executor |
| Bootstrap (`postgresql/bootstrap.py`) | `/initialize` key, bootstrapping flag | `initialize`, `bootstrap`, `post_bootstrap`, `cancel_initialization` | DCS, async executor |
| Replication slots (`postgresql/slots.py`) | cached slots, `_schedule_load_slots` | `sync_replication_slots` | server, DCS view |
| REST API (`api.py`), `patronictl` (`ctl.py`) | failover key, scheduled restart | switchover, failover, restart, reinitialize, reload, pause | HA loop, DCS |
| Configuration and daemon (`config.py`, `daemon.py`, `__init__.py`) | local and dynamic configuration, cache, signals | `set_dynamic_configuration`, `reload_local_configuration`, SIGHUP, SIGTERM | DCS `/config` |
| Helpers (`utils.py`) | attempts, deadline | `Retry`, `polling_loop`, comparison and parsing of settings | everybody |

What is hard about them:

- *Time.* A lease, a watchdog and the `is_leader()` answer of the REST API count
  down independently of each other; an answer to a lock request can be late.
- *Concurrency inside one node.* The HA loop, the thread of the async executor,
  the REST threads and the server itself move between any two statements.
- *Concurrency between nodes.* Everything is coordinated by compare-and-set on
  keys whose answers can be lost or retried.
- *Crashes.* The server, the Patroni process and the host die independently.

What makes each component correct:

- lease: one primary at a time; a primary is always covered by its own lease and
  an armed watchdog; the watchdog is turned off only when no session is left;
- executor: one long action at a time, `busy` while one runs, a cancelled
  critical task is noticed;
- synchronous replication: a node named by `/sync` has every commit;
- raft store: compare-and-set semantics under retries; only expired values expire;
- back-ends: a conditional write is one, a successful renewal means that the key was
  still there, nobody removes or takes the key of a leader that is alive;
- election and switchover: the nodes never decline in favour of each other, the candidate
  goes first, a request that is answered "failed" is not carried out later;
- bootstrap: one initializer and one system; rewind: a former primary that has diverged is
  noticed, and a rewind leaves the log of the leader;
- configuration: what was accepted comes into effect, and the device of the watchdog never
  outlives the lease meanwhile; a scheduled restart happens at most once;
- slots: no slot of a live member is dropped (not modelled).

`PROJECT.json` lists the hazards with their lines.

## 2. Modules

| Module | Contents |
|---|---|
| `PrimaryLock` | the abstract lock: a holder, and writers that start only under the lock and stop before it moves |
| `LeaderLease` | leader key, HA loop, async executor, server and watchdog of every node in discrete time; `LockKept` is its refinement of `PrimaryLock` |
| `MCLeaderLease` | node symmetry for TLC |
| `LeaderLeaseProofs` | the inductive invariants, the theorems and their proofs |
| `AsyncExecutor` | the threads of one node around `scheduled_action`: HA loop, REST threads, the thread that runs a long action; cancellation; the promote, restart, follow, reinitialize and demote jobs |
| `MCAsyncExecutor` | the module as TLC runs it |
| `AsyncExecutorProofs` | the inductive invariant of the executor, the theorems and their proofs |
| `LeaseRegister` | what a back-end promises of the leader key: it changes hands only through being free, and becomes free only by a request of its owner that is under way or when the lease is over |
| `RaftStore` | the leader key in the replicated store of `dcs/raft.py`: requests, retries, expiry, restarts; `RegisterRefined` is its refinement of `LeaseRegister` |
| `MCRaftStore` | node symmetry and view for TLC |
| `RaftStoreProofs` | the inductive invariants of the store, the theorems and their proofs |
| `SyncReplication` | synchronous mode: the `/sync` key, who may take the lock by it, `process_sync_replication`, and servers that replicate, fail and diverge |
| `MCSyncReplication` | three nodes and their `synchronous_standby_names` for TLC |
| `SyncReplicationProofs` | the inductive invariant of synchronous mode, the theorems and their proofs |
| `DcsStore` | a store with keys, versions and sessions, the requests to it, and what the back-ends share: calls, retries, watches and their caches |
| `EtcdV2`, `Etcd3`, `Consul`, `ZooKeeper`, `Kubernetes` | one back-end each: which requests an operation of `dcs/*.py` makes, and what it does with the answers |
| `Backends` | a cluster on the back-end that `get_dcs` selects, and what all of them promise |
| `MCBackends` | node symmetry for TLC |
| `BackendsProofs` | the inductive invariant of the five back-ends, the theorems and their proofs |
| `Switchover` | the race for a free lock, manual failover and switchover: REST requests, `patronictl`, the failover key, the HA loops |
| `MCSwitchover` | node symmetry for TLC |
| `SwitchoverProofs` | one primary, whatever is requested; the candidate goes first, a failed request is over, somebody races |
| `NodeLife` | the data directory of a node: initialization, copy, crash recovery, divergence, rewind, reinitialize |
| `MCNodeLife` | node symmetry for TLC |
| `NodeLifeProofs` | one initializer and one system, the check of a former primary, the rewind |
| `Settings` | how a change of the configuration reaches the watchdog, the server and the DCS object; restarts, at once and scheduled |
| `MCSettings` | the module as TLC runs it |
| `SettingsProofs` | the device within the lease, and scheduled restarts |

How they compose. `Backends` composes the five back-ends over `DcsStore`; `LeaderLease` and
`RaftStore` each implement an abstract module (`PrimaryLock`, `LeaseRegister`). The others meet at
the DCS: what `LeaderLease`, `SyncReplication`, `Switchover` and `NodeLife` assume of the leader
key (taken only when free, given up only by its owner or by expiry) is what `RaftStore` and
`Backends` check of the code below it, and `NoTakeOver`, `RemovesOwn` and `TrueUpdate` say which
back-end does not keep it. `Switchover` and `NodeLife` leave fencing to `LeaderLease`: in both a
node that has lost its lock stops its primary before another one starts, or the demotion is
the step the module is about. `AsyncExecutor` is why there is one long action at a time in
`LeaderLease` (`task`), `NodeLife` and `Settings` (`job`).

### LeaderLease

State and code:

| Variable | Code |
|---|---|
| `leader`, `keyTtl` | the `/leader` key and its time to live (`dcs.ttl`) |
| `pg[n]` | the server: `down`, `standby`, `promoting`, `primary`, `closing` (told to stop, sessions may still commit), `fenced` (told to stop, no session left) |
| `wd[n]`, `device[n]` | countdown of the watchdog device; the process has it open (`is_running`) |
| `pc[n]` | where `_run_cycle`, `demote`, `recover` or `shutdown` is between two interactions with the outside |
| `task[n]` | `AsyncExecutor.scheduled_action` and how far its thread is |
| `failed[n]` | `_async_response.result is False`: the pre-promote script failed |
| `master[n]` | `state_handler.role == 'master'` as the process believes |
| `apiTtl[n]` | how long `Ha.is_leader()` still answers True |
| `age[n]` | auxiliary: time since the DCS granted a lock request the node has not yet acted on |
| `solo` | history: nodes whose server came up as a primary without a promotion (`Alone`) |

A cycle of the HA loop is split where something else can happen in between: the
load of the view (`Load`), the lock request at the DCS (`Renew`, `Acquire`), its
answer (`Renewed`, `Acquired`, or lost: `NotRenewed`, `NotAcquired`), the
activation of the watchdog, the decision (`StayMaster`, `SchedulePromote`,
`RepairStop`, `ReleaseAfterPrePromote`, ...). A demotion is the state the loop
waits in (`nolock`, `release`, `offline`, `shutdown`) while the server goes from
`closing` to `fenced` (safepoint) to `down`. `run_cycle` holds the executor lock
from its first statement to its last; therefore the thread of the executor resets
`scheduled_action` only between two cycles (`TaskReset`, `GracefulEnds`), while the
rest of its work interleaves freely with the loop. `Tick` moves every countdown;
a watchdog that reaches zero resets the host. `PatroniCrash`, `PgCrashes`,
`Expire` and the watchdog happen at any time, `PatroniStart` brings a process back
next to whatever the server is.

Abstractions, all of them named here:

- The watchdog mode is `required` and the device can be disabled; a failed
  activation means the device could not be opened. The cluster is initialized and
  not paused; no one deletes the leader key by hand.
- Which node is the healthiest (`is_healthiest_node`, failover key, tags) is a free
  choice: any standby may try for a free key.
- `recovering`, crash recovery, `handle_starting_instance` and rewind tasks are a
  free choice between `Recover`, `RecoverFailover` and `PostRecover`; the tasks
  start a server as `startPlain` or `startStandby`.
- A failing `gs_ctl failover` has had no effect; a promotion that outlives its
  Patroni process ends before the process is started again; a stop succeeds in the
  end. A cancelled pre-promote thread or interlocked restart is over at once.
- `Lag` bounds the time from the DCS granting a request to the node having acted
  on it. It is an assumption about the environment: the code bounds it only by
  `retry_timeout` (10 s) and, in `should_run_scheduled_action`, `loop_wait`. It may
  exceed the safety margin `Ttl - WdTimeout`; by how much is `Overrun`, and the properties
  bound by it what then goes wrong.
- `PlainStart` is the set of modes in which `gaussdb` may come up when it is
  started without `-M standby`, as `restart`, `recover` without a foreign owner of the lock
  and `reinitialize` do; the model decides nothing about `gaussdb`. The run
  `lease` has both modes, and the theorems any.

What the properties say of the last two. A server that makes itself a primary runs without the
lock and perhaps without a watchdog until a cycle demotes it, and no code prevents that, although ha.py:313
says "we will restart in standby mode". Such a server is in `solo` from the step that brings it
up, until it stops or its node has its own lease and an active watchdog again. The
properties are about the servers that were promoted (`Promoted`): next to such servers each of
them still runs alone under its own lease and watchdog. With answers slower than the margin two promoted
servers can be primaries at the same time. Then one of them has lost the lock, its
watchdog counts, and `NoTwoPrimaries` says that it ends within `Overrun`; with
`Overrun = 0` there are never two.

### AsyncExecutor

One node, and only its threads. `LeaderLease` knows the executor as `task[n]`,
one value that a cycle of the loop sees unchanged; this module shows what that
abstraction rests on and where it ends (forced cancels).

| Variable | Code |
|---|---|
| `action` | `AsyncExecutor._scheduled_action` |
| `isCancelled`, `finish` | `AsyncExecutor._is_cancelled`, `_finish_event` |
| `killed` | `CancellableSubprocess._is_cancelled`, one flag for all jobs |
| `response`, `critical` | `Ha._async_response` (the critical task of the pre-promote script) and `AsyncExecutor.critical_task` (of the start of the postmaster) |
| `loop` | the HA loop: between cycles (lock free), in a cycle (lock held), between telling a promotion and killing its process, in `demote('immediate-nolock')` |
| `client[c]` | a REST thread: in `cancel` lock by lock, waiting for `_finish_event`, between `schedule` and `run_async` |
| `stage[w]`, `job[w]` | a thread of `run_async`: the function it runs and how far it is |
| `told` | history: threads for which `CriticalTask.cancel()` has answered |
| `stray` | history: threads whose slot was given away, by the `cancel()` of a forced reinitialize or by the finally clause of another stray thread |
| `server`, `master` | the database server and `state_handler.role` |

The lock of the executor is `loop = "idle"` plus the atomicity of one action:
the HA loop holds it for a whole cycle (`run_cycle`), the others for a few
statements that never block. Statements outside the lock (`ResetIsCancelled`,
`KillAction`, `WaitForFinish`, `KillPromotion`, `RunAsync`, every step of a job)
are actions of their own that interleave with the loop.

Abstractions: a child process is the flag that kills it; a job is reduced to the
points where it can be cancelled or where it changes what the loop looks at; the
jobs of crash recovery, rewind and bootstrap have the same frame (`Enter`,
`Leave`) and are left out; `gs_ctl`, the scripts and the copy of a reinitialize may
succeed or fail; `FewThreads` bounds by `MaxAlive` the threads that are alive when a cancel begins.

`POST /reinitialize` accepts `force` (api.py:341), and a forced request calls `cancel()` on whatever
runs. `schedule()` sets `_finish_event` and the thread clears it only in its first statement under the lock: a
cancel in between returns from `wait()` at once and clears the slot, the next `schedule()`
clears `_is_cancelled`, and the cancelled thread runs next to the new one, although
cancellable.py:14 says that there is only one such process. When it ends, its finally
clause resets the slot and the critical task of the new one. Such threads are `stray`;
`OneLongAction` and `BusyWhileRunning` are about all the others, and `CancelNoticed`
about the time in which there is none.

### RaftStore

The back-end whose store is part of the program: every node keeps a dictionary
(`KVStoreTTL`) on top of the replicated log of `pysyncobj`. A method marked
`@replicated` sends its arguments to the raft leader, who appends them to the log; each
node applies the log to its own dictionary, and the node of the caller tells it the result.

| Variable | Code |
|---|---|
| `now`, `offset[n]` | real time, and how far `time.time()` of a node is ahead of it |
| `key` | the leader key after all commands of the log (history: no node may have got that far) |
| `store[n]` | the leader key in `KVStoreTTL.__data` of a node |
| `behind[n]` | the committed commands it has yet to apply |
| `early[n]` | it has applied a command that is not in the log (`__early_apply_local_log`) |
| `flight[n]` | its requests between `retry` and the log |
| `raftLeader`, `limb[n]` | `_isLeader()`, the entry of the leader key in `KVStoreTTL.__limb` |
| `call[n]` | where the HA loop is in `retry` or `_update_leader`, and since when |
| `lease[n]`, `told[n]` | history: what the last calls of the node answered |

`AttemptToAcquireLeader`, `UpdateLeader`, `Fallback` (the second half of `_update_leader`)
and `DeleteLeader` are the calls of the HA loop; `Fail` and `Again` are a round of `retry`
without an answer; `ExpireKeys`, `ExpiryCallback` and `StepDown` are `_onTick`. `Elect`,
`Commit`, `Drop` and `Apply` are what the code relies on in `pysyncobj`, modelled from its
use: requests of one node keep their order, any of them may be lost, except that the raft
leader appends its own; the callback is called on the node of the caller when that node
applies the command, with what its own dictionary makes of it.

Abstractions: one key; `created` and `index`, which no request for the leader key
compares apart from `updated`, are dropped; `take_leader` (bootstrap), the other keys and the
membership of the raft cluster are left out. A restarted node has its dictionary again
from its dump and journal (`Restart`), and with `EarlyTail` also the last command that it
had appended as the raft leader and that was not committed (`RestartEarly`); such a node
is not elected before it has met the others. `MaxTime`, `MaxBehind` and `MaxFlight`
bound time, the commands to apply and the requests under way; `Skew` is an assumption
about the clocks.

`RegisterRefined` gives the register the nodes that have a delete request on its way (`Asked`), so the key
may become free by a `_delete` only while such a request of its owner has not arrived, and
everything else that frees it, that is `_expire`, must be a lapse of the lease in real time.

Nothing makes an expired key go, and no property says so: the raft leader asks for the removal of a
value once and notes it in its limb; the callback binds key and value late and pops the entry of the leader key only when
that is the last one of the dictionary (raft.py:232-237). When a late copy of the request that created the key
brings the same value back, it stays as long as this node is the raft leader.

A node may own the key without knowing: when the first copy of a retried
`prevExist=False` request was only late, the second copy is refused by what the first wrote, and
`attempt_to_acquire_leader` answers False. `LeaderLease` has that as a lost answer.

### SyncReplication

| Variable | Code |
|---|---|
| `leader`, `sync` | the leader key and the `/sync` key |
| `pg[n]`, `data[n]` | the server of a node, the commits in its log |
| `attached`, `syncStandby` | the rows of `pg_stat_replication` on the primary, and the one with `sync_state = 'sync'` |
| `acked` | history: commits that clients were told of |
| `pc[n]` | where the HA loop is: in the race (`race`, `acquired`, `enforce`, `promote`) or in `process_sync_replication` (`pick` to `publish`) |
| `fresh[n]` | whether the index of `/sync` that the node has read is still the current one |
| `pick[n]` | the local variables `current`, `picked` and `allow_promote` |
| `Names[n]` (constant) | `synchronous_standby_names` in the configuration files of a server |

`Race` is the decision of `is_healthiest_node`, `Acquire` and `LoadAfterAcquire` the way of
`process_unhealthy_cluster` to `Enforce`, which overwrites `/sync`; `CycleWithLock` is a cycle
that finds the own lock. `PickStandby`, `Clear`, `Assign`, `Reload` and `Publish` are the
requests of `process_sync_replication` in their order; between any two of them the server may
die, the lock may go, the process may restart (`Abort`), or an answer may be lost.

`Names` is a constant because nothing that Patroni does at run time changes it:
`set_synchronous_standby` writes through `write_postgresql_conf`, which returns at once when
`postgresql.base.conf` exists. So `/sync` follows the server, and never the server `/sync`.
With at most one name per server that is safe, which `sync` checks and the theorems state;
with more it is not (`sync_names`).

Abstractions: the lock is that of `LeaderLease` (a primary has it, and loses it only when it is
no primary any more); one candidate (`pick_synchronous_standby` cuts the number to one for
servers below 9.6, which openGauss reports to be); a standby may be left out by its tags or its lag at any
look; the comparison with other members before a race never forbids anything, because their
REST API may not answer. A log is a set of commits; a diverged standby is built again before
it streams. The first state is just after a promotion: until `/sync` is first written, the mode
promises nothing. Left out: switching the mode off, and the failover key, with which
`is_healthiest_node` does not look at `/sync`.

### DcsStore, the back-ends and Backends

| Variable | Code |
|---|---|
| `backend`, `concern` | what `get_dcs` has chosen; the operations that a behaviour is about (a bound) |
| `store`, `rev`, `alive`, `granted` | the server: the keys `leader`, `initialize` and `sync` with value, version and session, its revision, its sessions or leases |
| `session[n]` | `Etcd3._lease`, `Consul._session`, the session of the ZooKeeper client |
| `call[n]` | the operation of a node under way: which request, at which step, and its answer |
| `view[n]` | `AbstractDCS._cluster` |
| `cache[n]`, `stream[n]`, `ready[n]` | `KVCache` of `etcd3.py`, `ObjectCache` of `kubernetes.py`, the children read by `zookeeper.py`; the events on their way; the watch is connected |
| `seen[n]`, `ripe[n]` | Kubernetes: `_leader_observed_record`, and that `_leader_observed_time` is a ttl ago |
| `fetch[n]`, `event[n]` | ZooKeeper: `_fetch_cluster`, `event` |

A request is applied when it is made or never; its answer may be lost either way, and what
`Retry`, `call_rpc` or `kazoo` sends again is applied again. `sync` stands for all keys that
are written with the index they were read with (`/sync`, `/config`, `/failover`): the code goes
through the same compare-and-set. Each module has the operations `LoadCluster`,
`AttemptToAcquireLeader`, `TakeLeader`, `UpdateLeader`, `DeleteLeader`, `Initialize`,
`CancelInitialization`, `SetSyncStateValue` in the shape the class gives them: etcd compares
the value, etcd3 a create or mod revision and the lease, consul its session and `cas`,
ZooKeeper ephemeral nodes and versions, Kubernetes the resource version, with the second look
of `_update_leader_with_retry`.

The back-ends do not promise the same, and the properties name every exception:

- `StoreInv` (a cache that has handled all events shows the server) excepts `KVCache`: it has two
  writers, the watch and the answers to own requests, and an answer that comes after the event
  of a later removal brings a key of the node itself back (etcd3.py:383-390, 552-572).
- `TrueUpdate` (a renewal that is told to have worked found the key still its own) is for etcd
  and Kubernetes. etcd3 and consul renew the lease or session and say nothing of the key;
  ZooKeeper answers True for an ephemeral node it believes to have.
- `NoLostUpdate` excepts the version 0 of ZooKeeper: `index or -1` (zookeeper.py:274) makes an
  unconditional write of it.
- `OneInitializer` excepts a `cancel_initialization` that was sent twice: it removes whatever
  key is there, by then perhaps that of the next initializer. Kubernetes compares the version.
- `RemovesOwn` excepts ZooKeeper, which removes a leader key under its own name and an old
  session without a version (zookeeper.py:212): in between it may have become another node's.
- `NoTakeOver` allows what is meant to be one: `take_leader` of the initializer, Kubernetes
  after it has seen no change for a ttl, and the put in `Etcd3._update_leader` when the lease is
  another one.

Left out: member, optime and history keys, the discovery of servers and choice among them,
authentication, pods, labels and endpoints subsets, HTTP.

### Switchover

| Variable | Code |
|---|---|
| `leader`, `key`, `paused`, `optime` | DCS: `/leader`, `/failover` with its index, `pause` of `/config`, `/optime/leader` |
| `clock` | before, at and after the time of a scheduled switchover |
| `up`, `srv`, `fit`, `wal` | a node: Patroni answers, the server, the watchdog can be activated, position |
| `pc[n]`, `view[n]` | the HA loop between load, decision and its effect; `Ha.cluster` |
| `req[q]` | a REST request or `patronictl`: checked, written, polling, answered |
| `heir`, `late`, `calm` | history: the candidate that was able to take over ever since the lock became free; nodes that act on an older leaderless view; no pause so far |

`PostFailover`, `WriteKey`, `Poll`, `DeleteKey` and the fall back of `patronictl` to the DCS are
`api.py` and `ctl.py`; `KeepLeading`, `DemoteMyself`, `StopServer`, `ReleaseLeaderKeyVoluntarily`
the leader's side; `Race`, `AcquireLock` and `CleanUpAfterRace` the race. What members answer is
`Limited`, `IsLagging` and `IsAhead`; a node asks all of them at one moment and acts later.

What the properties except, because the code does not promise it: in pause the leader may lose
its lock during the demotion it started; a node that saw no leader before the lock was taken and
given back still acts on that view (`late`). A node that is a primary already does not leave the
lock to the candidate: `is_healthiest_node` answers True for a primary before it looks at any
request (ha.py:786-789). It takes a long pause to get there: the key goes during the pause, the
primary sleeps through its end and through a switchover of others, wakes up with its server
still running and races; `CandidateTakesOver` excepts it. A DELETE may be answered while the leader already acts
on the key. Two things were met and are not modelled as properties: `ctl.py:985` uses `r` unbound
when the first member is not accessible; the pause case "the candidate's key is gone and the node
is still a primary" takes four events and is not reached in the run (the theorem covers it).
Left out: standby clusters, `check_timeline`, synchronous mode, tags other than `nofailover`.

### NodeLife

| Variable | Code |
|---|---|
| `init`, `leader`, `member` | the initialize key (absent, empty, a system id), the leader key, role and `checkpoint_after_promote` of the member keys |
| `up`, `srv`, `disk` | Patroni; the server; the data directory: system id, timelines of the log, timeline and state of the control file (shut down, a standby, a primary) |
| `mem[n]` | `Rewind._state` and `_checkpoint_task`, `bootstrapping`, `_async_response` of `post_bootstrap`, `_crash_recovery_executed`, `recovering`, whether the first cycle was done |
| `pc[n]`, `view[n]` | the HA loop and its cluster view |
| `job[n]`, `src[n]` | the long action and the cluster it was given |
| `asked[n]` | a reinitialize request that has passed its check |
| `how` | `use_pg_rewind` or `remove_data_directory_on_diverged_timelines` |
| `systems`, `events` | calls of `initdb`, faults |
| `calm` | no cluster was removed and no node died inside `cancel_initialization` |
| `former` | nodes that were a primary since their data were copied or rewound or a check found nothing |
| `stale` | nodes whose leader was promoted, again, after they read what they know of it |

A log is the sequence of the timelines of its records, which is all that the check of
divergence looks at. `Load` reads the cluster, every other action of `Cycle` is one decision of
`_run_cycle` with its writes; `Background` are the functions that `run_async` runs.

As read, and visible in the model: `take_leader` after a bootstrap is unconditional, so with
`patronictl remove` at the wrong moment there are two systems (`calm` excepts it); so there
are when a node dies between the two steps of `cancel_initialization`, the removal of the key and
of the directory. A bootstrapper that dies leaves an empty initialize key for ever, and nobody
else initializes. A reinitialize that finds no member to copy from has already stopped the
server. `FormerIsChecked` says that the check is asked for, not that what it finds is true for ever:
equal timelines count as "not needed" whatever the logs say, "not needed" is kept until the next
stop of the server, and two promotions on the two sides of a partition use the same timeline
number. With longer logs and more events TLC shows a standby that has diverged after its
check, so a property about the logs themselves would not be true of the code. `RewindWorks`
excepts equal timelines, where `pg_rewind` does nothing, and the stale nodes: `checkpoint_after_promote`
is read with the cluster, and a leader that was demoted and promoted again meanwhile is on a
new timeline without a checkpoint. A leader that restarts its own crashed server and loses the lock during the
start is not checked afterwards; a server that was started as a primary without the lock is.
Left out: custom bootstrap, standby clusters, archives, pause, tags.

### Settings

| Variable | Code |
|---|---|
| `cfg`, `client` | `/config` with its index; a PATCH or `edit-config` between read and write |
| `file`, `sighup`, `conf` | the local file; `_received_sighup`; the `Config` object: `_modify_index`, dynamic and local configuration, cache file |
| `pc`, `view` | `Patroni.run` and the `/config` that the cycle has read |
| `lock`, `primary`, `lease` | the leader key, the role, the ttl it was last renewed with |
| `wd` | `Watchdog`: `config`, `active_config`, implementation, `active`; the device and its timeout |
| `ttl` | the ttl of the DCS object |
| `pg`, `job`, `sched` | `effective_configuration`, `pending_restart`, start time; the long action; `scheduled_restart` |
| `events`, `want`, `flaws` | faults and requests; history: what clients were told is accepted, and which exception of a property has happened |

One node: the other nodes matter only through the lock (`LoseLock`, `AcquireLock`). The
configuration is cut down to a ttl, one parameter of the server that takes a restart and
the mode of the watchdog.

A new ttl costs the leader its key on two back-ends and on the others it does not; `SetTtl` leaves that
free. On Consul `set_ttl` drops the
session and the next `load_cluster` deletes the own key of the old one (consul.py:255-258,
349-353), and on ZooKeeper it restarts the client and the ephemeral key goes
(zookeeper.py:129-137). The primary is then either demoted, during a long action or because another node
was faster, or it takes the key again (`AcquireLock`): that writes the key with the new
ttl and neither activates a device that is open (ha.py:610) nor sends a keepalive, which
only `update_lock` does (ha.py:166). So watchdog/base.py:108-109, by which the timeout changes
together with the leader key, is not what happens; `settings_retaken` shows the lease with the
shorter ttl under the longer timeout, and `DeviceWithinLease` excepts it up to the first
renewal ("retaken" in `flaws`). That another node may take the key in between, from a server
that is still a primary, is outside this module and `LeaderLease`.

Exceptions, each seen as a counterexample before it was named: an armed device keeps the longer
timeout when the ttl is raised and lowered again between two activations, because `keepalive`
compares with `active_config` and never updates it ("back" in `flaws`); a reload that raises
an exception leaves out what comes after it and is not tried again, because the index is
remembered ("reload"); a device that takes no or another timeout is left open by an activation that
answers False, and the next cycle takes it for active (`Takes`). A ttl that is not a number is
remembered by its index and has no effect. A scheduled restart is lost when Patroni restarts.
Left out: a `close()` that fails, pause, the other settings.

## 3. Runs

| Run | Instance | Shows |
|---|---|---|
| `lease` | 2 nodes, `Ttl` 2, `WdTimeout` 1, `Lag` 1, `PlainStart` {standby, primary}; 3.2 million states | `NoTwoPrimaries`, `PrimaryIsWatched`, `LeaderAnswerEnds`, the inductive invariant `FencedInv`, `DisarmAfterFence`, and the refinement `LockKept`, next to servers that made themselves primaries |
| `executor` | 2 threads, 1 REST client that may force, all jobs, 1 thread alive when a cancel begins, fair; 0.4 million states | `OneLongAction`, `BusyWhileRunning`, `CancelNoticed`, the inductive invariant `ExecInv`; `CancelReturns` and `ActionEnds` hold even with forced cancels |
| `raft` | 2 nodes, `Ttl` 1, equal clocks, time 0..1, two requests under way, one command that a node has yet to apply; 1.3 million states | `LeaseHeld`, `ReleasedStays` and the inductive invariant `StoreInv`: when the delete of a node is on its way an earlier renewal or creation may be as well |
| `raft_early` | as `raft` with one request under way and `EarlyTail`; 2.1 million states | the refinement `RegisterRefined`, and `RequestInv`, do not depend on what a restarted node makes of its journal |
| `sync` | 3 nodes in a ring, each server knows one synchronous standby, 2 commits; 3.8 million states | `NoLostCommit`, `Electable`, the inductive invariant `SyncInv` |
| `sync_names` | every server accepts both others | violation of `NoLostCommit`: the primary acknowledges a commit with one standby while `/sync` names the other, which is then elected; ha.py:467 says that the server waits for the one in `/sync` |
| `backends` | 2 nodes on each back-end, 3 changes of the store, one new session per node, one fault, one change on its way to a cache; 3.2 million states | `StoreInv`, `TrueUpdate`, `NoLostUpdate`, `OneInitializer`, `RemovesOwn`, `NoTakeOver`, with the exceptions of section 2 |
| `switchover` | 3 nodes, 2 requests, 3 events, logs of length 0 or 1, no lag allowed; 1.9 million states | `SwitchoverInv` (one primary), `SomeoneRaces`, `CandidateTakesOver`, `FailedIsFinal` |
| `life` | 2 nodes from empty directories or from a running cluster, logs up to 2 records, 2 events; 2.2 million states | `LifeInv`, `OneCluster`, `FormerIsChecked`, `RewindWorks` |
| `life_reinit` | as `life` | violation of `LeaderKeepsData`: `reinitialize()` checks that the node is no leader, gives the executor lock back and takes it again; a node that is elected and promoted in between stops its primary and removes its data. ha.py:1200 says "I am the leader, can not reinitialize" |
| `settings` | one node, ttl 0 to 3, margin 1, `loop_wait` 1, a device that may be fixed at 2, 3 events, a key that a new ttl may cost, fair; 1.4 million states | `DeviceWithinLease`, with its exception for a key that was taken again, `RestartedOnce`, `Converges` |
| `settings_retaken` | as `settings` | violation of `TimeoutMatches`, the property without that exception: after a lower ttl the primary takes its key again, and the new lease runs under the old timeout of the device; watchdog/base.py:108-109 says that the timeout matches up with the update of the leader key |

Deadlock is checked but in `backends`, `switchover`, `life`, `life_reinit`, `settings` and `settings_retaken`: there
the bounds on events, versions or requests let the system come to rest, and idle cycles
are not steps.

### One constant away

Counterexamples that TLC gives when a constant of a cfg, or a premise, is changed:

- `lease` with `WdTimeout` 2, which leaves no margin, and 0 in place of `Overrun` in
  `NoTwoPrimaries`: two promoted servers are primaries at once. A watchdog that is armed on an answer
  later than the safety margin outlives the lease. With `Overrun` (1 there), and servers
  that start as standbys, every invariant of the run holds.
- `lease` with `Active` in place of `Promoted`: `PrimaryIsWatched` fails, by a server that is
  restarted while its node has no lock, and comes up as a primary.
- `lease`: `ReleaseAfterPrePromote` releases the key after a failed pre-promote script and leaves the
  watchdog armed on a healthy standby; its host is reset (ha.py:622).
- `executor` without `stray` in `OneLongAction`: it fails, by the cancel described in section 2.
- `raft` with `EarlyTail = TRUE`: `LeaseHeld` fails. A restarted raft leader applies an uncommitted
  command, another node is elected and commits something else, and the dictionary of the first
  stays apart from all others.
- `sync` with `LateRacers = TRUE`: `NoLostCommit` fails. ha.py:827 says that only the last master and
  its synchronous standby are promoted, but a node that decided to race and was held up for a whole
  term of another leader takes the lock, reads `/sync` again, and overwrites it without asking
  whether it is still in it.

### Fairness

`executor`: a cycle of the loop and every job end (weak fairness: each is a thread that
runs, and its child processes end or are killed); whoever waits for the lock gets it in the
end (strong fairness, because the loop takes and frees the lock for ever; it sleeps `loop_wait`
between two cycles without it). A client that makes no request is under no obligation.

`settings`: the main loop goes on (`Patroni.run` has no way out but the end of the process, and a
cycle that raises is caught) and a long action ends. Clients, signals and faults come or not.

The others check safety only: a loop that stops anywhere is the interesting case.

### Why the bounds are enough

- The executor has one slot; an overlap needs two threads and one client, a lost wakeup one
  waiting client. A client that another one cancels while it starts its thread needs two: that is
  for the theorems.
- The properties of `LeaderLease` relate at most two nodes. With `WdTimeout` 1 and `Ttl` 2 the
  lease outlives the watchdog by exactly the margin, and `Lag` 1 uses up the whole margin, the
  tightest setting in which `Overrun` is still 0. Longer timeouts, answers that are later than
  the margin and more nodes are for the theorems.
- In `RaftStore` two nodes compete for one key; with one request under way a retry meets its
  own late copy or an expiry, with two a late renewal is on its way before the delete; a store that
  swaps the two is found with two and would not be with one. Longer leases, clocks that differ
  and more requests are what the theorems are for.
- In `SyncReplication` an old leader, a new one and a standby that is neither are the roles
  there are; a failover needs one commit to be lost, and the second lets logs diverge both ways.
- A hazard of a back-end is one request of each of two nodes with one lost answer, broken
  connection or lost session between; three changes of the store are a creation, a removal and a
  creation by somebody else. `concern` lets a behaviour have only the operations on one
  subject; no property relates two of them.
- In `Switchover` the leader, the candidate and a bystander are the roles; the second request is
  what overwrites, or deletes, the first; three events are a request and two faults, or both
  requests (the second counts two).
- In `NodeLife` divergence needs one record on each side after the switch; a rewind that
  goes wrong needs the leader to change once. The theorems have no bound.
- In `Settings` two changes of the configuration and one fault or signal are what the
  exceptions took to be found.

Every property of a passing run has a mutant, a plausible bug of the code (a safepoint
that comes too early, a compare-and-set without its index, a check that is skipped, a flag
that is reset too late, ...) that the run finds.

## 4. Proofs

`LeaderLeaseProofs` proves for any set of nodes, any `Ttl`, `WdTimeout` and `Lag` that satisfy
`ConstantsOK`, and any `PlainStart`:

- `TypeCorrect`, `LeaseCorrect`, `AnswerEnds`, `FencedCorrect`, `PrimaryWatched`, `OnePrimary` and
  `DisarmSafe`, with no further assumption. What they except is in the properties: servers in
  `solo`, and up to `Overrun` between the end of a lease and that of its watchdog;
- `LockRefined` for `Overrun = 0`, that is, when a node acts on the answer to a lock request within
  the safety margin. Beyond it the abstract lock does move while a writer is left.

The argument. `NoTwoPrimaries` follows from `PrimaryIsWatched` (two nodes cannot
both own the key), and that is not inductive: it says nothing of a promotion that
is still in a background thread or of a request whose answer is on its way. The
strengthening has two layers. `LeaseInv` bounds the age of every granted request
(`keyTtl + age >= Ttl`) and of the `is_leader()` answer, and says in which states of
the loop the executor is idle. `FencedInv` adds, per node, which states of the
server go with which task (`TaskAndServer`) and that the lease and the watchdog cover
a server that is or may become promoted (`Covered`, by `Guarded`): a scheduled promotion on a
running standby, a loop in `enforce_master_role` with an active watchdog. `PromotedStep` says that a
server that counts as promoted after a step did not just come up, and leaves `solo` only with an active
watchdog and a granted request. Each layer
is one lemma with a step per action (`LeaseStep`, `FencedStep`), built on `TypeStep`;
`OverrunOK` is the arithmetic of the margin, `WatchdogStep` the step fact behind
`DisarmSafe`, and `FencedMoves` those behind the refinement.

`AsyncExecutorProofs` proves for any sets of threads and clients and any set of
jobs, whether clients force or not: `TypeCorrect`, `ExecCorrect`, `OneAction`, `BusyAction` and `CancelHeeded`. The
invariant `ExecInv` says that whoever is not `stray`, a thread or a REST thread about to
start one, is alone and owns `scheduled_action` (`Owner`, which implies `OneLongAction` and
`BusyWhileRunning`); and, while nobody is stray, that the
critical tasks speak of the action in progress (`TasksCurrent`: a task left over from
an earlier restart would swallow the next cancel), and in which stages a thread
that was told to stop can be (`ToldStops`, which gives `CancelNoticed`). Both come back when the
last stray thread has left, because its finally clause resets what they are about (`StrayEnds`).

`RaftStoreProofs` proves for any nodes, `Ttl`, `RetryTimeout` and `Skew`:

- unconditionally, `RequestsCorrect` and `RegisterImplemented`: the leader key of the log is
  a lease register in real time, and becomes free only by a request of its owner that is under
  way or after its lease;
- under `JournalCommitted` (no node applies an uncommitted command), `StoreCorrect`,
  `LeaseKept` and `ReleaseKept`: what a node is told agrees with that register.
  `EarlyTail = TRUE` shows that the assumption is needed.

The argument. The only danger to the register is a renewal or a creation that arrives
late. `RequestInv` says that the requests of a node on their way, and the commands it
has yet to apply, are no newer than its call in progress and in the order in which they were
sent (`Requests`), that a value of the key is not newer than what its owner writes
next (`KeyRecent`), and which steps of a call go with live requests (`Callers`). So a late
renewal never carries a smaller `updated` than the key it meets, and an expiry
names a value whose lease was over by the clock of some node, `Skew` away from
its owner's at most. For what nodes are told one needs their dictionaries: `Chain` says that
the entries a node has yet to apply lead from its dictionary to the key (each entry
remembers, as history, the key before it), so the answer computed at one node is what
happened to the key; `Claims` relates `lease` and `told` to the key and to what is under way.
`NoneIsNoValue` says that the absence of the key is not one of its values.

`SyncReplicationProofs` proves for any nodes and commits `TypeCorrect` and, when a server knows at
most one synchronous standby (`OneName`) and no racer is held up (`~LateRacers`), `SyncCorrect`,
`ElectableCorrect` and `CommitsKept`. The argument: `NoLostCommit` needs that who takes the lock has
every commit, that is `Electable`; and `Electable` needs that nobody but the primary writes
`/sync` while commits are acknowledged. `SyncInv` therefore says that a primary owns the key and
no other node that is about to write it has a current index (`Settled`, from the write before the
promotion on); that a node between the race and that write has every commit because no one
has been a primary since it decided (`LockInv`); that the synchronous standby is the one the server knows
(`StandbyInv`); and that what a loop is about to publish is still complete if it can be published at all
(`PickInv`).

`SwitchoverProofs` proves `SwitchoverCorrect` (`SwitchoverInv`: types, and one primary until
somebody pauses the cluster) for any nodes, tags, logs, lags and requests. The argument:
`OnePrimary` follows from "a primary has the lock"; that is inductive only together with: without
a pause no view says that there is one, and a node that is down, or that has stopped its server
or given the lock back in a demotion, is no primary (`PrimaryInv`). The failover key plays no
part in it, which is the point: a wrong request can cost availability, never a second
primary. `KeyInv` bounds how many versions of the key stem from one request. Most steps of a node
are quiet (they move neither a lock nor a primary of another node), which lemma `Quiet` uses once.

`CandidateCorrect` and `FailedCorrect` rest on `RaceInv` as well. Keys that stem from one request,
wherever they are remembered, want the same candidate, and a failed request is not in the key
(`RequestInv`). While somebody has the lock, every node that has seen no leader is late (`LoopInv`), so
when the lock becomes free everybody else reads the cluster anew, finds the key with the candidate
and declines as long as the candidate is able (`HeirInv`). A node that may still carry out a
request (`Stands`) keeps it in the key: whoever removes the key does so after taking or losing the
lock, so a request can be answered "failed" only when no node stands (`FailInv`); the exceptions are
the history variables. `SomeoneRacesCorrect` needs none of it: a primary races; else the able
candidate does; else, of the able nodes, one with the furthest log (lemma `FurthestNode`, from the
well-foundedness of `<`), which no other is ahead of; else, when nobody else is able, the former leader.

`BackendsProofs` proves for any nodes and any bounds the six properties of the run `backends`:
`StoreCorrect`, `UpdateCorrect`, `IndexCorrect`, `InitializerCorrect`, `RemoveCorrect` and
`TakeOverCorrect`, all from one inductive invariant, `Inv`. The argument is about forms, not about
the actions of the five back-ends one by one: a request is made (`Asks`), an operation goes on or is
over (`Ends`), a cache watches (`Watches`), a session expires with its key (`Expires`). Each form
preserves `Inv`, once, and every action of a back-end is shown to be of one of them. What a back-end adds is that its
requests are sound (`Sound`): a renewal or removal of the leader key carries a condition that only a key
of the node itself meets, a write with an index carries that index, and so on.
`VersionInv` says why a version can carry so much: with all stores but ZooKeeper two entries of a
key that anybody knows (from the store, a view, a cache, an event or an answer under way: `Known`)
and that have the same version are the same, so whoever compares a version compares the owner.
That survives a lost answer and a retry because the version of the next write is newer than any
that is known. `CacheInv` says the same of the events on their way: the last one of a key is what
the store has, and a cache never replaces a newer entry by an older one. `InitInv` says that who
initializes owns the key, and `KubeInv` and `SessionInv` what is special to Kubernetes and Consul.
`HandOver` is proved of every step together with the invariant. The lemmas `V2Is` to `KuIs` say
that each back-end's instance of `DcsStore` has the same operators as `Backends` itself.
`NoneIsNoEntry` says that the absence of a key is not one of its entries.

`NodeLifeProofs` proves four theorems for any nodes, logs and events. `LifeInv` (`LifeCorrect`) and
`OneCluster` (`OneSystem`) are not inductive. `KeyInv` says what the initialize key means: who bootstraps
is alone and the key is empty meanwhile; whoever holds a system has the one in the key, or is the
only one as long as that is not written. `ViewInv` is about what the loops have read before: nobody
leads, or is seen to lead, before the key is written; a valid key that was read is the key of
today; who is about to publish has seen it empty. So a copy or a rewind, which takes the data of
a leader, can only bring the system of the key (lemma `QuietStep`), and the steps that write
the key find nobody else with a system (lemma `Alone`). `JobInv` ties the long actions to the loop
and the server. A crash between the two steps of `cancel_initialization`, and a removal of
the cluster, end `calm`: the proof needs both exceptions.

`FormerCorrect` (`FormerIsChecked`) needs to know why a former primary that comes up as a standby
is checked: the start under way was asked for by the step that asked for the check, or the copy or
a check has cleared the node (`FormerInv`). It also says that such a node is not bootstrapping or
about to take the leader key after a bootstrap, since `take_leader` ends the first cycle without a
check. `RewindCorrect` (`RewindWorks`) is about two nodes and a message between them, the member key of the leader.
`pg_rewind` compares the control files, so both must show their timelines. The own one does after a
shutdown; the leader's does when it says it is ready, because that follows the checkpoint and only a
promotion makes it untrue (`RewindOK`). What a node has read of the leader, in its view or with its long action,
is therefore true until that promotion, which puts the node in `stale` (`SourceOK`). A promotion finds
the member key not ready because every cycle, and every loop during a long action, has said so
while the server was a standby. The proofs have one lemma per form of a step: one that leaves the data alone (`LeavesDataStep`), that
leaves the server down (`RewindDown`), that starts a primary (`RewindPrimary`), that
changes data only (`RewindData`).

`SettingsProofs` proves for any `Margin`, `LoopWait`, device, events and either kind of back-end
`DeviceSafe` and `RestartOnce`. `DeviceWithinLease` speaks of three copies of the ttl, in the watchdog,
its device and the lease. The invariant: an open device means an active watchdog, and an active one
of a node that has the lock a primary (`RoleInv`); the DCS object and the watchdog have the same ttl
unless a reload has failed (`SameTtl`); a device that takes timeouts has that of its activation as long as
the ttl is the same (`TimeoutInv`); while the loop waits for a scheduled restart nothing else
starts the server (`SleepInv`). A renewal restores the property because it sends the keepalive
(`UpdateLockStep`, `LeadStep`), taking the key does so only for a device that it activates
(`AcquireStep`), and a demotion closes the device (`DemoteStep`).

Only model-checked: the violations, and liveness
(`CancelReturns`, `ActionEnds`, `Converges`: liveness under fairness and
`ENABLED` are out of the prover's reach, as are induction over data and `RECURSIVE` operators).

## 5. Plan

1. Done: `LeaderLease` and `AsyncExecutor`; `RaftStore`; `SyncReplication`; the back-ends;
   `Switchover` with the election; `NodeLife` (bootstrap, rewind, reinitialize); `Settings`
   (configuration, watchdog facade, restarts).
2. Next: `handle_starting_instance` and a pause in `LeaderLease`; the failover key in
   `SyncReplication`, with which a race does not look at `/sync`; a close of the
   device that fails.
3. `Slots` and the callback executor; `Retry` and the parsing helpers as operators checked
   against reference definitions.

## 6. Not modelled

- Replication slots (`slots.py`): they share only the member list with the rest.
- The callback executor (`callback_executor.py`), custom bootstrap, standby clusters, archives,
  delayed standbys, and health checks and metrics of the REST API.
- The arithmetic of `Retry`, `polling_loop`, and the parsing and comparison of settings: every
  request of the models may be sent again, fail or time out.
- Text of configuration files, logging, schema validation, command line formatting, the cloud
  scripts, exhibitor's host polling, images and installation scripts: pure input and output,
  no decision of the cluster depends on their state.
