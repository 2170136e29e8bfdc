--------------------------- MODULE SyncReplication ---------------------------
(***************************************************************************)
(* Synchronous mode: the /sync key, the node that holds the leader lock,   *)
(* the standbys it replicates to, and who may take the lock after it.      *)
(*                                                                         *)
(* synchronous_standby_names of a server is a constant.  Patroni assigns   *)
(* it in set_synchronous_standby, but write_postgresql_conf returns at     *)
(* once when postgresql.base.conf exists or custom_conf is set, that is,   *)
(* after the first start, and the server goes on with what it has.         *)
(*                                                                         *)
(* The lock is the one of LeaderLease: a primary holds it, and it is lost  *)
(* only when the server is no primary any more.                            *)
(***************************************************************************)
EXTENDS Integers, FiniteSets

CONSTANTS
    Node,
    None,
    CommitId,       \* transactions
    Names,          \* synchronous_standby_names of the server of a node
    LateRacers      \* BOOLEAN: may a node in the race for the lock be held up
                    \* for longer than the key lives?

ASSUME ConstantsOK ==
    /\ None \notin Node
    /\ Names \in [Node -> SUBSET Node] /\ \A n \in Node : n \notin Names[n]
    /\ LateRacers \in BOOLEAN

VARIABLES
    leader,         \* the owner of the leader key
    sync,           \* the /sync key
    pg,             \* the server of a node
    data,           \* the commits in its log
    attached,       \* the standbys that stream from the primary
    syncStandby,    \* the one that has sync_state = 'sync'
    acked,          \* history: commits reported to clients
    pc,             \* where the HA loop of a node is
    fresh,          \* nobody has written /sync since it was read
    pick            \* local variables of process_sync_replication

serverVars == <<pg, data, attached, syncStandby, acked>>
loopVars   == <<pc, fresh, pick>>
vars == <<leader, sync, serverVars, loopVars>>

----------------------------------------------------------------------------

SyncState == [leader : Node, members : SUBSET Node]

\* current is sync_common once that is computed.
Pick == [current : SUBSET Node, picked : SUBSET Node, allow : SUBSET Node]

NoPick == [current |-> {}, picked |-> {}, allow |-> {}]

Pc == {"idle", "race", "acquired", "enforce", "promote",
       "pick", "clear", "assign", "reload", "publish"}

TypeOK ==
    /\ leader \in Node \cup {None}
    /\ sync \in SyncState
    /\ pg \in [Node -> {"down", "standby", "primary"}]
    /\ data \in [Node -> SUBSET CommitId]
    /\ attached \subseteq Node
    /\ syncStandby \in Node \cup {None}
    /\ acked \subseteq CommitId
    /\ pc \in [Node -> Pc]
    /\ fresh \in [Node -> BOOLEAN]
    /\ pick \in [Node -> Pick]

\* A node has just been promoted in synchronous mode.  (Before the first write
\* of /sync the mode promises nothing; the key never goes while it is on.)
Init ==
    /\ \E n \in Node :
         /\ leader = n
         /\ sync = [leader |-> n, members |-> {}]
         /\ pg = [m \in Node |-> IF m = n THEN "primary" ELSE "standby"]
    /\ data = [n \in Node |-> {}]
    /\ attached = {} /\ syncStandby = None
    /\ acked = {}
    /\ pc = [n \in Node |-> "idle"]
    /\ fresh = [n \in Node |-> FALSE]
    /\ pick = [n \in Node |-> NoPick]

----------------------------------------------------------------------------
\* The servers.

\* A transaction reaches the log of the primary.
CommitLocally(n) ==
    /\ pg[n] = "primary"
    /\ \E c \in CommitId \ (acked \cup UNION {data[m] : m \in Node}) :
         data' = [data EXCEPT ![n] = @ \cup {c}]
    /\ UNCHANGED <<leader, sync, pg, attached, syncStandby, acked, loopVars>>

\* The client hears of it once the synchronous standby has it.
Acknowledge(n) ==
    /\ pg[n] = "primary"
    /\ \E c \in data[n] \ acked :
         /\ Names[n] # {} => syncStandby # None /\ c \in data[syncStandby]
         /\ acked' = acked \cup {c}
    /\ UNCHANGED <<leader, sync, pg, data, attached, syncStandby, loopVars>>

\* A standby whose log is a part of the primary's receives more of it.
Stream(n, m) ==
    /\ pg[n] = "primary" /\ pg[m] = "standby" /\ data[m] \subseteq data[n]
    /\ \E c \in data[n] \ data[m] : data' = [data EXCEPT ![m] = @ \cup {c}]
    /\ UNCHANGED <<leader, sync, pg, attached, syncStandby, acked, loopVars>>

\* A standby has caught up (state = 'streaming'); a diverged one is built again
\* from the primary before.  A name of the list that comes back may have a
\* higher priority than the present synchronous standby.
Attach(n, m) ==
    /\ pg[n] = "primary" /\ pg[m] = "standby" /\ m \notin attached
    /\ data[m] = data[n] \/ ~(data[m] \subseteq data[n])
    /\ data' = [data EXCEPT ![m] = data[n]]
    /\ attached' = attached \cup {m}
    /\ syncStandby' \in IF m \notin Names[n] THEN {syncStandby}
                        ELSE IF syncStandby = None THEN {m} ELSE {syncStandby, m}
    /\ UNCHANGED <<leader, sync, pg, acked, loopVars>>

\* The standby that is synchronous when those in left are connected to n.
NextSync(n, left) ==
    IF syncStandby \in left THEN {syncStandby}
    ELSE IF Names[n] \cap left = {} THEN {None} ELSE Names[n] \cap left

\* The connection of a standby breaks, with or without its server.
Detach(m) ==
    /\ m \in attached
    /\ attached' = attached \ {m}
    /\ \E n \in Node : pg[n] = "primary" /\ syncStandby' \in NextSync(n, attached')
    /\ pg' \in {pg, [pg EXCEPT ![m] = "down"]}
    /\ UNCHANGED <<leader, sync, data, acked, loopVars>>

\* The server of a node stops or dies.
StopServer(m) ==
    /\ pg[m] # "down" /\ m \notin attached
    /\ pg' = [pg EXCEPT ![m] = "down"]
    /\ IF pg[m] = "primary" THEN attached' = {} /\ syncStandby' = None
                            ELSE UNCHANGED <<attached, syncStandby>>
    /\ UNCHANGED <<leader, sync, data, acked, loopVars>>

\* Patroni starts a server as a standby.
StartServer(m) ==
    /\ pg[m] = "down"
    /\ pg' = [pg EXCEPT ![m] = "standby"]
    /\ UNCHANGED <<leader, sync, data, attached, syncStandby, acked, loopVars>>

\* The leader key is released or expires, which takes longer than the step
\* from acquire_lock to load_cluster_from_dcs unless the node is held up.
LoseLock(n) ==
    /\ leader = n /\ pg[n] # "primary"
    /\ LateRacers \/ pc[n] # "acquired"
    /\ leader' = None
    /\ UNCHANGED <<sync, serverVars, loopVars>>

----------------------------------------------------------------------------
\* The HA loop.

Goto(n, l) == pc' = [pc EXCEPT ![n] = l]

\* The cycle ends.
Return(n) ==
    /\ Goto(n, "idle")
    /\ fresh' = [fresh EXCEPT ![n] = FALSE]
    /\ pick' = [pick EXCEPT ![n] = NoPick]

\* get_cluster: the node knows the index of /sync.
ReadSync(n) == fresh' = [fresh EXCEPT ![n] = TRUE]

\* Mutant: the index is not compared.
WriteAnyway(n, members) ==
    /\ sync' = [leader |-> n, members |-> members]
    /\ fresh' = [m \in Node |-> FALSE]

\* write_sync_state succeeds: nobody has written since n has read the key.
WriteSync(n, members) ==
    /\ fresh[n]
    /\ sync' = [leader |-> n, members |-> members]
    /\ fresh' = [m \in Node |-> FALSE]

Matches(n) == n = sync.leader \/ n \in sync.members

\* DCS or server errors, an answer that says no, a restart of the process.
Abort(n) ==
    /\ pc[n] # "idle"
    /\ Return(n)
    /\ UNCHANGED <<leader, sync, serverVars>>

\* Mutant: any node may enter the race.
RaceOfAll(n) ==
    /\ pc[n] = "idle" /\ leader = None /\ pg[n] = "standby"
    /\ Goto(n, "race")
    /\ UNCHANGED <<leader, sync, serverVars, fresh, pick>>

\* is_healthiest_node of a cycle that finds no leader.  The comparison with the
\* other members needs their REST API, which may not answer any of the calls.
Race(n) ==
    /\ pc[n] = "idle" /\ leader = None /\ pg[n] = "standby"
    /\ Matches(n)
    /\ Goto(n, "race")
    /\ UNCHANGED <<leader, sync, serverVars, fresh, pick>>

\* acquire_lock, and the end of the race for the others: their requests fail
\* while this owner still has the key.
Acquire(n) ==
    /\ pc[n] = "race" /\ leader = None
    /\ leader' = n
    /\ pc' = [m \in Node |-> IF m = n THEN "acquired"
                             ELSE IF pc[m] = "race" /\ ~LateRacers THEN "idle"
                             ELSE pc[m]]
    /\ UNCHANGED <<sync, serverVars, fresh, pick>>

\* load_cluster_from_dcs before enforce_master_role; nothing checks what it finds.
LoadAfterAcquire(n) ==
    /\ pc[n] = "acquired"
    /\ Goto(n, "enforce") /\ ReadSync(n)
    /\ UNCHANGED <<leader, sync, serverVars, pick>>

\* A cycle of the owner of the lock, which renews it.
CycleWithLock(n) ==
    /\ pc[n] = "idle" /\ leader = n /\ pg[n] # "down"
    /\ IF pg[n] = "primary"
       THEN /\ Goto(n, "pick")
            /\ pick' = [pick EXCEPT ![n] = [NoPick EXCEPT !.current = sync.members]]
       ELSE Goto(n, "enforce") /\ UNCHANGED pick
    /\ ReadSync(n)
    /\ UNCHANGED <<leader, sync, serverVars>>

\* enforce_master_role on a standby: only the new leader may be elected.  The
\* answer to the request may be lost, and the promotion is postponed then.
Enforce(n) ==
    /\ pc[n] = "enforce"
    /\ WriteSync(n, {})
    /\ \E l \in {"promote", "idle"} : Goto(n, l)
    /\ UNCHANGED <<leader, serverVars, pick>>

\* The promotion in the background thread, under the lock (see LeaderLease).
Promote(n) ==
    /\ pc[n] = "promote" /\ leader = n /\ pg[n] = "standby"
    /\ pg' = [pg EXCEPT ![n] = "primary"]
    /\ Goto(n, "idle")
    /\ attached' = {} /\ syncStandby' = None
    /\ UNCHANGED <<leader, sync, data, acked, fresh, pick>>

----------------------------------------------------------------------------
\* process_sync_replication.

\* Mutant: sync_state is not looked at.
CandidatesInAnyState ==
    {[picked |-> {}, allow |-> {}]}
    \cup {[picked |-> {m}, allow |-> {m}] : m \in attached}

\* pick_synchronous_standby: candidates and synchronous ones among them.  One
\* candidate (the version of the server is below 9.6): the standby with
\* sync_state = 'sync' comes first, and any may be left out because of its
\* tags or its lag.
Candidates ==
    {[picked |-> {}, allow |-> {}]}
    \cup {[picked |-> {m}, allow |-> {m} \cap {syncStandby}] : m \in attached}

PickStandby(n) ==
    /\ pc[n] = "pick" /\ pg[n] = "primary"
    /\ \E c \in Candidates :
         \/ c.picked = pick[n].current /\ Return(n)
         \/ /\ c.picked # pick[n].current
            /\ pick' = [pick EXCEPT ![n].picked = c.picked, ![n].allow = c.allow]
            /\ Goto(n, IF pick[n].current \subseteq c.allow THEN "assign" ELSE "clear")
            /\ UNCHANGED fresh
    /\ UNCHANGED <<leader, sync, serverVars>>

\* The members that are no longer synchronous leave the key first.  The answer
\* may be lost, and the cycle ends.
Clear(n) ==
    /\ pc[n] = "clear"
    /\ LET common == pick[n].current \cap pick[n].allow
       IN /\ WriteSync(n, common)
          /\ \/ /\ pick' = [pick EXCEPT ![n].current = common]
                /\ Goto(n, "assign")
             \/ /\ pick' = [pick EXCEPT ![n] = NoPick]
                /\ Goto(n, "idle")
    /\ UNCHANGED <<leader, serverVars>>

\* set_synchronous_standby changes nothing in the server; then the second look
\* at who is synchronous, two seconds later.
Assign(n) ==
    /\ pc[n] = "assign" /\ pg[n] = "primary"
    /\ \E allow \in IF pick[n].picked # {} /\ pick[n].allow = {}
                    THEN {c.allow : c \in Candidates} ELSE {pick[n].allow} :
         \/ allow \in {{}, pick[n].current} /\ Return(n)
         \/ /\ allow \notin {{}, pick[n].current}
            /\ pick' = [pick EXCEPT ![n].allow = allow]
            /\ Goto(n, "reload")
            /\ UNCHANGED fresh
    /\ UNCHANGED <<leader, sync, serverVars>>

\* get_cluster gives the index for the next request.
Reload(n) ==
    /\ pc[n] = "reload"
    /\ sync.leader = n
    /\ Goto(n, "publish") /\ ReadSync(n)
    /\ UNCHANGED <<leader, sync, serverVars, pick>>

Publish(n) ==
    /\ pc[n] = "publish"
    /\ WriteSync(n, pick[n].allow)
    /\ Goto(n, "idle")
    /\ pick' = [pick EXCEPT ![n] = NoPick]
    /\ UNCHANGED <<leader, serverVars>>

----------------------------------------------------------------------------

Server(n) ==
    \/ CommitLocally(n) \/ Acknowledge(n)
    \/ \E m \in Node \ {n} : Stream(n, m) \/ Attach(n, m)
    \/ Detach(n) \/ StopServer(n) \/ StartServer(n)

Loop(n) ==
    \/ Abort(n)
    \/ Race(n) \/ Acquire(n) \/ LoadAfterAcquire(n)
    \/ CycleWithLock(n) \/ Enforce(n) \/ Promote(n)

ProcessSyncReplication(n) ==
    \/ PickStandby(n) \/ Clear(n) \/ Assign(n) \/ Reload(n) \/ Publish(n)

Next == \E n \in Node : Server(n) \/ LoseLock(n) \/ Loop(n) \/ ProcessSyncReplication(n)

Spec == Init /\ [][Next]_vars

----------------------------------------------------------------------------
\* Properties.

HasAll(n) == acked \subseteq data[n]

\* No commit that a client was told of is lost in a failover: whoever runs as
\* the primary has them all (process_sync_replication, is_healthiest_node).
NoLostCommit == \A n \in Node : pg[n] = "primary" => HasAll(n)

\* /sync names only nodes that have every such commit, at any time, for each
\* of them may be the next to find the cluster without a leader: "we only
\* consider promoting standbys that were guaranteed to be replicating
\* synchronously" (ha.py:470-471).
Electable == \A n \in Node : Matches(n) => HasAll(n)

Primary(n) == pg[n] = "primary"

Writer(n) == fresh[n] /\ pc[n] \in {"enforce", "clear", "publish"}

\* n owns /sync and no other node is about to replace it.
Settled(n) == sync.leader = n /\ \A m \in Node \ {n} : ~Writer(m)

LockInv ==
    /\ leader # None => HasAll(leader)
    /\ \A n \in Node :
         /\ Primary(n) => leader = n /\ Settled(n)
         /\ pc[n] = "race" => leader = None /\ HasAll(n)
         /\ pc[n] = "acquired" => leader = n
         /\ pc[n] = "enforce" /\ fresh[n] => HasAll(n)
         /\ pc[n] = "promote" /\ leader = n => Settled(n)

StandbyInv ==
    /\ sync.members \subseteq Names[sync.leader]
    /\ attached # {} => leader # None /\ Primary(leader)
    /\ leader \notin attached
    /\ syncStandby # None => /\ leader # None /\ Primary(leader)
                            /\ syncStandby \in Names[leader] /\ HasAll(syncStandby)
    /\ \A n \in Node : Primary(n) => Names[n] \cap attached \subseteq {syncStandby}

PickInv == \A n \in Node :
    /\ pc[n] \in {"pick", "clear", "publish"} /\ fresh[n] => sync.leader = n
    /\ pc[n] \in {"clear", "assign", "reload", "publish"} /\ sync.leader = n
         => pick[n].allow \subseteq Names[n] /\ \A m \in pick[n].allow : HasAll(m)

\* The inductive invariant, for servers that know one standby each: a primary
\* owns /sync, nobody else can write it, and the nodes that are in it, or that
\* the primary is about to put into it, have what clients were told of.
SyncInv == TypeOK /\ LockInv /\ StandbyInv /\ PickInv /\ Electable

============================================================================
