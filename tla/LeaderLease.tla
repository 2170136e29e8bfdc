---------------------------- MODULE LeaderLease ----------------------------
(***************************************************************************)
(* The leader key, the HA loop of every node and its watchdog, in time.    *)
(*                                                                         *)
(* The /leader key of the DCS is a lease: it carries its owner and a time  *)
(* to live.  A node promotes its database server only while it owns the    *)
(* key, and arms a watchdog device that resets the host when the HA loop   *)
(* stops renewing the lease.  Time is discrete: Tick moves every countdown *)
(* by one and everything else happens between two ticks, in any number and *)
(* any order.  Watchdog mode is "required", the cluster is initialized and *)
(* not paused, and nobody removes the leader key by hand.                  *)
(***************************************************************************)
EXTENDS Integers

CONSTANTS
    Node,       \* the members of the cluster
    None,       \* the owner of an absent leader key
    Ttl,        \* dcs.ttl, the time to live of the leader key
    WdTimeout,  \* WatchdogConfig.timeout, ttl - safety_margin
    Lag,        \* longest time between the DCS applying a lock request and
                \* the node having acted on the answer (see Pending)
    PlainStart  \* the modes gaussdb may come up in without "-M standby"

ASSUME ConstantsOK ==
    /\ None \notin Node
    /\ Ttl \in Nat /\ WdTimeout \in Nat /\ Lag \in Nat
    /\ 0 < WdTimeout /\ WdTimeout <= Ttl
    /\ Lag < Ttl
    /\ PlainStart \subseteq {"standby", "primary"}

VARIABLES
    leader,     \* the owner of the leader key
    keyTtl,     \* what is left of its time to live
    pg,         \* the database server of every node
    wd,         \* the countdown of every watchdog device, 0 when it is off
    device,     \* the Patroni process has the watchdog device open (is_running)
    pc,         \* where the HA loop of every node is
    task,       \* AsyncExecutor.scheduled_action
    failed,     \* Ha._async_response.result is False
    master,     \* state_handler.role = 'master'
    apiTtl,     \* how long Ha.is_leader() will still answer True
    age,        \* time since the DCS applied the last unanswered lock request
    solo        \* history: nodes whose server made itself a primary (see Alone)

dcsVars  == <<leader, keyTtl>>
hostVars == <<pg, wd>>
haVars   == <<device, pc, task, failed, master, apiTtl, age>>
vars     == <<leader, keyTtl, pg, wd, device, pc, task, failed, master,
              apiTtl, age, solo>>

PgState == {"down", "standby", "promoting", "primary",
            "closing",      \* told to stop, sessions may still commit
            "fenced"}       \* told to stop, no session is left

LoopState ==
    {"off",                                     \* no Patroni process
     "idle",                                    \* between two cycles
     "owner", "follower", "unlocked",           \* the cluster view is loaded
     "renewed", "acquired",                     \* a lock request was granted
     "leading", "repairing",                    \* inside enforce_master_role
     "recoverOwner", "recoverRenewed", "recover",
     "nolock", "release", "offline",            \* inside demote(mode)
     "shutdown"}

Task == {"none", "prepromote", "failover", "promoting", "demote",
         "startStandby", "startPlain", "restart",
         "done"}            \* the thread is over and waits for the HA loop

TypeOK ==
    /\ leader \in Node \cup {None}
    /\ keyTtl \in 0..Ttl
    /\ pg \in [Node -> PgState]
    /\ wd \in [Node -> 0..WdTimeout]
    /\ device \in [Node -> BOOLEAN]
    /\ pc \in [Node -> LoopState]
    /\ task \in [Node -> Task]
    /\ failed \in [Node -> BOOLEAN]
    /\ master \in [Node -> BOOLEAN]
    /\ apiTtl \in [Node -> 0..Ttl]
    /\ age \in [Node -> 0..Lag]
    /\ solo \subseteq Node

\* Servers that can, or are about to, commit writes.
Active(n) == pg[n] \in {"promoting", "primary", "closing"}

\* The DCS has granted the lock to n and n has not yet acted on it: the answer
\* is on its way, or it has arrived and the watchdog is not yet active.
Pending(n) ==
    \/ pc[n] \in {"renewed", "acquired", "recoverRenewed"}
    \/ pc[n] = "leading" /\ ~device[n]

Init ==
    /\ leader = None /\ keyTtl = 0
    /\ pg \in [Node -> {"standby", "down"}]
    /\ wd = [n \in Node |-> 0]
    /\ device = [n \in Node |-> FALSE]
    /\ pc = [n \in Node |-> "idle"]
    /\ task = [n \in Node |-> "none"]
    /\ failed = [n \in Node |-> FALSE]
    /\ master = [n \in Node |-> FALSE]
    /\ apiTtl = [n \in Node |-> 0]
    /\ age = [n \in Node |-> 0]
    /\ solo = {}

----------------------------------------------------------------------------
\* Time, the DCS, the watchdog devices and the database servers.

\* What the watchdog does to a host whose countdown ends.
ResetBy(n) == wd[n] = 1

\* One unit of time passes everywhere.  A node is not slower than Lag in acting
\* on a granted lock request.
Tick ==
    LET live(n) == ~ResetBy(n) IN
    /\ \A n \in Node : Pending(n) => age[n] < Lag
    /\ keyTtl' = IF keyTtl > 0 THEN keyTtl - 1 ELSE 0
    /\ wd' = [n \in Node |-> IF wd[n] > 0 THEN wd[n] - 1 ELSE 0]
    /\ age' = [n \in Node |->
                 IF Pending(n) /\ live(n) THEN age[n] + 1 ELSE 0]
    /\ pg' = [n \in Node |-> IF live(n) THEN pg[n] ELSE "down"]
    /\ device' = [n \in Node |-> device[n] /\ live(n)]
    /\ pc' = [n \in Node |-> IF live(n) THEN pc[n] ELSE "off"]
    /\ task' = [n \in Node |-> IF live(n) THEN task[n] ELSE "none"]
    /\ failed' = [n \in Node |-> failed[n] /\ live(n)]
    /\ master' = [n \in Node |-> master[n] /\ live(n)]
    /\ apiTtl' = [n \in Node |->
                    IF apiTtl[n] > 0 /\ live(n) THEN apiTtl[n] - 1 ELSE 0]
    /\ UNCHANGED leader

\* The DCS removes the leader key some time after its ttl has run out.
Expire ==
    /\ leader # None /\ keyTtl = 0
    /\ leader' = None
    /\ UNCHANGED <<keyTtl, hostVars, haVars>>

PgMoves(n, from, to) ==
    /\ pg[n] = from
    /\ pg' = [pg EXCEPT ![n] = to]
    /\ UNCHANGED <<dcsVars, wd, haVars>>

\* A stopping server loses its last session, and exits.
BackendsClosed(n) == PgMoves(n, "closing", "fenced")
PgExits(n) == PgMoves(n, "fenced", "down")

\* The database server dies on its own.
PgCrashes(n) ==
    \/ PgMoves(n, "standby", "down")
    \/ PgMoves(n, "primary", "down")

\* What a stop signal makes of a server.
Signaled(s) ==
    CASE s = "standby" -> "fenced"
      [] s \in {"promoting", "primary"} -> "closing"
      [] OTHER -> s

----------------------------------------------------------------------------
\* The Patroni process.

\* Killed or crashed: the device is not closed cleanly, so it keeps counting.
PatroniCrash(n) ==
    /\ pc[n] # "off"
    /\ pc' = [pc EXCEPT ![n] = "off"]
    /\ device' = [device EXCEPT ![n] = FALSE]
    /\ task' = [task EXCEPT ![n] = "none"]
    /\ failed' = [failed EXCEPT ![n] = FALSE]
    /\ master' = [master EXCEPT ![n] = FALSE]
    /\ apiTtl' = [apiTtl EXCEPT ![n] = 0]
    /\ age' = [age EXCEPT ![n] = 0]
    /\ UNCHANGED <<dcsVars, hostVars>>

\* A promotion that was under way ends without Patroni.
OrphanPromotionEnds(n) ==
    /\ pc[n] = "off"
    /\ \/ PgMoves(n, "promoting", "primary")
       \/ PgMoves(n, "promoting", "standby")

PatroniStart(n) ==
    /\ pc[n] = "off"
    /\ pg[n] # "promoting"
    /\ pc' = [pc EXCEPT ![n] = "idle"]
    /\ master' = [master EXCEPT ![n] = pg[n] = "primary"]
    /\ UNCHANGED <<dcsVars, hostVars, device, task, failed, apiTtl, age>>

Goto(n, l) == pc' = [pc EXCEPT ![n] = l]

\* Demotion: tell the server to stop and wait in the HA loop for its end.
Demote(n, mode) ==
    /\ pg' = [pg EXCEPT ![n] = Signaled(@)]
    /\ Goto(n, mode)

Disable(n) ==
    /\ wd' = [wd EXCEPT ![n] = IF device[n] THEN 0 ELSE @]
    /\ device' = [device EXCEPT ![n] = FALSE]

\* delete_leader removes the key only from its owner; errors are ignored.
DeleteLeader(n) ==
    \/ leader = n /\ leader' = None /\ keyTtl' = 0
    \/ UNCHANGED dcsVars

SetTask(n, t) == task' = [task EXCEPT ![n] = t]
SetAge(n) == age' = [age EXCEPT ![n] = 0]

\* Mutant: the answer expires one unit of time too late.
SetIsLeaderLate(n, t) ==
    apiTtl' = [apiTtl EXCEPT ![n] = IF t = 0 THEN 0 ELSE t + 1]

SetIsLeader(n, t) == apiTtl' = [apiTtl EXCEPT ![n] = t]

----------------------------------------------------------------------------
\* One cycle of the HA loop: load the view, keep or take the lock, act.

Load(n) ==
    /\ pc[n] = "idle"
    /\ Goto(n, IF leader = n THEN "owner"
               ELSE IF leader = None THEN "unlocked" ELSE "follower")
    /\ SetIsLeader(n, IF leader = n THEN apiTtl[n] ELSE 0)
    /\ UNCHANGED <<dcsVars, hostVars, device, task, failed, master, age>>

\* DCSError: a node that runs a primary demotes itself at once.
DcsError(n) ==
    /\ pc[n] \in {"idle", "acquired", "recover"}
    /\ IF pg[n] = "primary"
       THEN Demote(n, "offline")
       ELSE Goto(n, "idle") /\ UNCHANGED pg
    /\ IF pc[n] = "acquired" THEN SetIsLeader(n, Ttl) ELSE UNCHANGED apiTtl
    /\ SetAge(n)
    /\ UNCHANGED <<dcsVars, wd, device, task, failed, master>>

\* The connection to the database server fails: leave the cycle.
PgError(n) ==
    /\ pc[n] \in {"owner", "follower", "unlocked", "leading"}
    /\ Goto(n, "idle")
    /\ SetAge(n)
    /\ UNCHANGED <<dcsVars, hostVars, device, task, failed, master, apiTtl>>

Busy(n) == task[n] # "none"

\* The server answers queries; a cycle that meets one that does not ends with
\* PgError or Recover.
Connects(n) == pg[n] \in {"standby", "promoting", "primary"}

\* update_lock: the DCS renews the lease of its owner ...
Renew(n) ==
    /\ leader = n
    /\ \/ pc[n] = "owner" /\ (Busy(n) \/ Connects(n)) /\ Goto(n, "renewed")
       \/ pc[n] = "recoverOwner" /\ Goto(n, "recoverRenewed")
    /\ keyTtl' = Ttl
    /\ UNCHANGED <<leader, hostVars, device, task, failed, master, apiTtl, age>>

\* ... and the node gets the answer, and pets the watchdog.
Renewed(n) ==
    /\ pc[n] \in {"renewed", "recoverRenewed"}
    /\ SetIsLeader(n, Ttl)
    /\ wd' = [wd EXCEPT ![n] = IF device[n] THEN WdTimeout ELSE @]
    /\ IF pc[n] = "recoverRenewed" THEN Goto(n, "recover") /\ SetAge(n)
       ELSE IF Busy(n) THEN Goto(n, "idle") /\ SetAge(n)
       ELSE Goto(n, "leading") /\ (IF device[n] THEN SetAge(n) ELSE UNCHANGED age)
    /\ UNCHANGED <<dcsVars, pg, device, task, failed, master>>

\* The long action in progress when the node does not have the lock: a
\* promotion is cancelled unless it is past the pre-promote script, a master
\* is demoted.
LostDuringAction(n) ==
    CASE task[n] = "prepromote" ->
           SetTask(n, "done") /\ Goto(n, "idle") /\ UNCHANGED pg
      [] task[n] # "prepromote" /\ master[n] ->
           /\ IF task[n] = "restart" THEN SetTask(n, "done") ELSE UNCHANGED task
           /\ Demote(n, "nolock")
      [] OTHER -> Goto(n, "idle") /\ UNCHANGED <<pg, task>>

\* update_lock answers False: somebody else has the key, the request or its
\* answer was lost.  In the last case the lease was renewed all the same.
NotRenewed(n) ==
    /\ pc[n] = "owner" /\ (Busy(n) \/ Connects(n))
    /\ \/ UNCHANGED dcsVars
       \/ leader = n /\ keyTtl' = Ttl /\ UNCHANGED leader
    /\ SetIsLeader(n, 0)
    /\ IF Busy(n) THEN LostDuringAction(n)
       ELSE /\ UNCHANGED task
            /\ IF pg[n] = "primary" THEN Demote(n, "nolock")
               ELSE Goto(n, "idle") /\ UNCHANGED pg
    /\ UNCHANGED <<wd, device, failed, master, age>>

\* follow: a primary is demoted, an abnormal standby is restarted.
Follow(n) ==
    \/ pg[n] = "primary" /\ Demote(n, "nolock") /\ UNCHANGED task
    \/ pg[n] # "primary" /\ Goto(n, "idle") /\ UNCHANGED <<pg, task>>
    \/ /\ pg[n] = "standby" /\ Demote(n, "idle")
       /\ SetTask(n, "startStandby")

\* A cycle without the lock: nobody may stay primary.
WithoutLock(n) ==
    /\ pc[n] \in {"follower", "unlocked"} /\ (Busy(n) \/ Connects(n))
    /\ IF Busy(n) THEN LostDuringAction(n) ELSE Follow(n)
    /\ UNCHANGED <<dcsVars, wd, device, failed, master, apiTtl, age>>

\* attempt_to_acquire_leader creates the key if it is absent ...
Acquire(n) ==
    /\ pc[n] = "unlocked" /\ ~Busy(n) /\ pg[n] \in {"standby", "primary"}
    /\ leader = None
    /\ leader' = n /\ keyTtl' = Ttl
    /\ Goto(n, "acquired")
    /\ UNCHANGED <<hostVars, device, task, failed, master, apiTtl, age>>

\* ... the node gets the answer and loads the view again ...
Acquired(n) ==
    /\ pc[n] = "acquired"
    /\ SetIsLeader(n, IF leader = n THEN Ttl ELSE 0)
    /\ Goto(n, "leading")
    /\ IF device[n] THEN SetAge(n) ELSE UNCHANGED age
    /\ UNCHANGED <<dcsVars, hostVars, device, task, failed, master>>

\* ... or somebody was faster, or the answer was lost after the key was created.
NotAcquired(n) ==
    /\ pc[n] = "unlocked" /\ ~Busy(n) /\ pg[n] \in {"standby", "primary"}
    /\ \/ UNCHANGED dcsVars
       \/ leader = None /\ leader' = n /\ keyTtl' = Ttl
    /\ SetIsLeader(n, 0)
    /\ Follow(n)
    /\ UNCHANGED <<wd, device, failed, master, age>>

----------------------------------------------------------------------------
\* enforce_master_role: the watchdog first, then the pre-promote result, then
\* the server.

ActivateWatchdog(n) ==
    /\ pc[n] = "leading" /\ ~device[n]
    /\ device' = [device EXCEPT ![n] = TRUE]
    /\ wd' = [wd EXCEPT ![n] = WdTimeout]
    /\ SetAge(n)
    /\ UNCHANGED <<dcsVars, pg, pc, task, failed, master, apiTtl>>

\* Mutant: a primary gives up the key as a standby does.
ActivationFailsUndemoted(n) ==
    /\ pc[n] = "leading" /\ ~device[n]
    /\ DeleteLeader(n) /\ SetIsLeader(n, 0)
    /\ Goto(n, "idle") /\ SetAge(n)
    /\ UNCHANGED <<hostVars, device, task, failed, master>>

\* The device cannot be opened: a primary is demoted, a standby gives up the key.
ActivationFails(n) ==
    /\ pc[n] = "leading" /\ ~device[n]
    /\ IF pg[n] = "primary"
       THEN Demote(n, "release") /\ UNCHANGED <<dcsVars, apiTtl>>
       ELSE /\ DeleteLeader(n) /\ SetIsLeader(n, 0)
            /\ Goto(n, "idle") /\ UNCHANGED pg
    /\ SetAge(n)
    /\ UNCHANGED <<wd, device, task, failed, master>>

\* Mutant: whether the watchdog is active is not asked.
EnforcingUnwatched(n) == pc[n] = "leading" /\ ~failed[n]

Enforcing(n) == pc[n] = "leading" /\ device[n] /\ ~failed[n]

\* Mutant: _delete_leader forgets set_is_leader(False).
ReleaseKeepsAnswer(n) ==
    /\ pc[n] = "leading" /\ device[n] /\ failed[n]
    /\ DeleteLeader(n)
    /\ failed' = [failed EXCEPT ![n] = FALSE]
    /\ Goto(n, "idle")
    /\ UNCHANGED <<hostVars, device, task, master, apiTtl, age>>

\* The pre-promote script has failed: give up the key, the watchdog stays on.
ReleaseAfterPrePromote(n) ==
    /\ pc[n] = "leading" /\ device[n] /\ failed[n]
    /\ DeleteLeader(n) /\ SetIsLeader(n, 0)
    /\ failed' = [failed EXCEPT ![n] = FALSE]
    /\ Goto(n, "idle")
    /\ UNCHANGED <<hostVars, device, task, master, age>>

StayMaster(n) ==
    /\ Enforcing(n) /\ pg[n] = "primary"
    /\ master' = [master EXCEPT ![n] = TRUE]
    /\ Goto(n, "idle")
    /\ UNCHANGED <<dcsVars, hostVars, device, task, failed, apiTtl, age>>

\* check_and_repair_leader finds the server abnormal: stop it and start it again.
RepairStop(n) ==
    /\ Enforcing(n) /\ (pg[n] \in {"primary", "down"} \/ master[n])
    /\ pg' = [pg EXCEPT ![n] = Signaled(@)]
    /\ Goto(n, "repairing")
    /\ UNCHANGED <<dcsVars, wd, device, task, failed, master, apiTtl, age>>

RepairStart(n) ==
    /\ pc[n] = "repairing" /\ pg[n] = "down"
    /\ \E s \in PlainStart \cup {"down"} : pg' = [pg EXCEPT ![n] = s]
    /\ master' = [master EXCEPT ![n] = TRUE]
    /\ Goto(n, "idle")
    /\ UNCHANGED <<dcsVars, wd, device, task, failed, apiTtl, age>>

SchedulePromote(n) ==
    /\ Enforcing(n) /\ pg[n] = "standby" /\ ~master[n]
    /\ SetTask(n, "prepromote")
    /\ Goto(n, "idle")
    /\ UNCHANGED <<dcsVars, hostVars, device, failed, master, apiTtl, age>>

\* A switchover is requested: demote('graceful') in the async executor.
ManualFailover(n) ==
    /\ pc[n] = "renewed" /\ ~Busy(n)
    /\ SetIsLeader(n, Ttl)
    /\ wd' = [wd EXCEPT ![n] = IF device[n] THEN WdTimeout ELSE @]
    /\ pg' = [pg EXCEPT ![n] = Signaled(@)]
    /\ SetTask(n, "demote")
    /\ Goto(n, "idle") /\ SetAge(n)
    /\ UNCHANGED <<dcsVars, device, failed, master>>

----------------------------------------------------------------------------
\* The promotion, in the async executor.

PrePromoteEnds(n) ==
    /\ task[n] = "prepromote"
    /\ \/ SetTask(n, "failover") /\ UNCHANGED failed
       \/ SetTask(n, "done") /\ failed' = [failed EXCEPT ![n] = TRUE]
    /\ UNCHANGED <<dcsVars, hostVars, device, pc, master, apiTtl, age>>

\* gs_ctl failover; it fails on a server that is not a running standby.
Failover(n) ==
    /\ task[n] = "failover"
    /\ IF pg[n] = "standby"
       THEN pg' = [pg EXCEPT ![n] = "promoting"] /\ SetTask(n, "promoting")
       ELSE UNCHANGED pg /\ SetTask(n, "done")
    /\ UNCHANGED <<dcsVars, wd, device, pc, failed, master, apiTtl, age>>

PgPromoted(n) == pc[n] # "off" /\ PgMoves(n, "promoting", "primary")

FailoverFails(n) ==
    /\ task[n] = "promoting" /\ pg[n] = "promoting"
    /\ pg' = [pg EXCEPT ![n] = "standby"]
    /\ SetTask(n, "done")
    /\ UNCHANGED <<dcsVars, wd, device, pc, failed, master, apiTtl, age>>

FailoverReturns(n) ==
    /\ task[n] = "promoting" /\ pg[n] # "promoting"
    /\ SetTask(n, "done")
    /\ \E ok \in {TRUE, pg[n] = "primary"} :
          master' = [master EXCEPT ![n] = ok \/ master[n]]
    /\ UNCHANGED <<dcsVars, hostVars, device, pc, failed, apiTtl, age>>

----------------------------------------------------------------------------
\* The end of a demotion.

Stopping(n) ==
    \/ pc[n] \in {"nolock", "release", "offline", "shutdown"}
    \/ task[n] = "demote"

\* Mutant: the callback runs before the sessions are gone.
SafepointEarly(n) ==
    /\ Stopping(n) /\ device[n] /\ pg[n] \in {"closing", "fenced", "down"}
    /\ Disable(n)
    /\ UNCHANGED <<dcsVars, pg, pc, task, failed, master, apiTtl, age>>

\* on_safepoint: no session is left, the watchdog may be turned off.
Safepoint(n) ==
    /\ Stopping(n) /\ device[n] /\ pg[n] \in {"fenced", "down"}
    /\ Disable(n)
    /\ UNCHANGED <<dcsVars, pg, pc, task, failed, master, apiTtl, age>>

Stopped(n) == pg[n] = "down" /\ ~device[n]

\* Start as a standby in the async executor, unless it is busy or the DCS
\* cannot tell whom to follow.
StartAfterDemotion(n) ==
    IF Busy(n) THEN UNCHANGED task
    ELSE \E t \in {"startStandby", "none"} : SetTask(n, t)

DemoteEnds(n) ==
    /\ pc[n] \in {"nolock", "release"} /\ Stopped(n)
    /\ master' = [master EXCEPT ![n] = FALSE]
    /\ SetIsLeader(n, 0)
    /\ IF pc[n] = "release" THEN DeleteLeader(n) ELSE UNCHANGED dcsVars
    /\ StartAfterDemotion(n)
    /\ Goto(n, "idle")
    /\ UNCHANGED <<hostVars, device, failed, age>>

\* demote('offline') starts the standby itself, whatever the executor does.
OfflineEnds(n) ==
    /\ pc[n] = "offline" /\ Stopped(n)
    /\ master' = [master EXCEPT ![n] = FALSE]
    /\ SetIsLeader(n, 0)
    /\ \E s \in {"standby", "down"} : pg' = [pg EXCEPT ![n] = s]
    /\ Goto(n, "idle")
    /\ UNCHANGED <<dcsVars, wd, device, task, failed, age>>

\* Mutant: the key is released while the server is still stopping.
GracefulReleasesFirst(n) ==
    /\ task[n] = "demote" /\ pc[n] = "idle"
    /\ SetIsLeader(n, 0) /\ DeleteLeader(n)
    /\ UNCHANGED <<hostVars, device, pc, task, failed, master, age>>

\* The graceful demotion releases the key between two cycles of the HA loop.
GracefulEnds(n) ==
    /\ task[n] = "demote" /\ pc[n] \in {"idle", "shutdown"} /\ Stopped(n)
    /\ master' = [master EXCEPT ![n] = FALSE]
    /\ SetIsLeader(n, 0)
    /\ DeleteLeader(n)
    /\ \E t \in {"startStandby", "done"} : SetTask(n, t)
    /\ UNCHANGED <<hostVars, device, pc, failed, age>>

\* SIGTERM: leave the cycle wherever it is and stop the server.
Shutdown(n) ==
    /\ pc[n] \notin {"off", "shutdown"}
    /\ Demote(n, "shutdown")
    /\ SetAge(n)
    /\ UNCHANGED <<dcsVars, wd, device, task, failed, master, apiTtl>>

\* The process ends; the key goes with it only if the server is stopped.
ShutdownEnds(n) ==
    /\ pc[n] = "shutdown" /\ ~device[n]
    /\ pg[n] \notin {"closing", "fenced"}
    /\ IF pg[n] = "down" /\ apiTtl[n] > 0
       THEN DeleteLeader(n) ELSE UNCHANGED dcsVars
    /\ Goto(n, "off")
    /\ SetTask(n, "none") /\ SetIsLeader(n, 0)
    /\ failed' = [failed EXCEPT ![n] = FALSE]
    /\ master' = [master EXCEPT ![n] = FALSE]
    /\ UNCHANGED <<hostVars, device, age>>

----------------------------------------------------------------------------
\* recover: a server that does not run is started again, without a watchdog.

\* Mutant: the server is recovered in the middle of a long action.
RecoverBusy(n) ==
    /\ pc[n] \in {"owner", "follower", "unlocked"} /\ pg[n] = "down"
    /\ Disable(n)
    /\ Goto(n, IF pc[n] = "owner" THEN "recoverOwner" ELSE "recover")
    /\ UNCHANGED <<dcsVars, pg, task, failed, master, apiTtl, age>>

Recover(n) ==
    /\ pc[n] \in {"owner", "follower", "unlocked"} /\ ~Busy(n)
    /\ pg[n] = "down"
    /\ Disable(n)
    /\ Goto(n, IF pc[n] = "owner" THEN "recoverOwner" ELSE "recover")
    /\ UNCHANGED <<dcsVars, pg, task, failed, master, apiTtl, age>>

RecoverNotRenewed(n) ==
    /\ pc[n] = "recoverOwner"
    /\ \/ UNCHANGED dcsVars
       \/ leader = n /\ keyTtl' = Ttl /\ UNCHANGED leader
    /\ SetIsLeader(n, 0)
    /\ Goto(n, "recover")
    /\ UNCHANGED <<hostVars, device, task, failed, master, age>>

\* master_start_timeout is 0 and somebody else can take over.
RecoverFailover(n) ==
    /\ pc[n] = "recoverRenewed"
    /\ SetIsLeader(n, Ttl)
    /\ Goto(n, "release") /\ SetAge(n)
    /\ UNCHANGED <<dcsVars, hostVars, device, task, failed, master>>

\* "-M standby" is passed only when somebody else holds the lock.
RecoverStart(n) ==
    /\ pc[n] = "recover"
    /\ SetTask(n, IF leader \in {None, n} THEN "startPlain"
                  ELSE "startStandby")
    /\ SetIsLeader(n, IF leader = n THEN apiTtl[n] ELSE 0)
    /\ Goto(n, "idle")
    /\ UNCHANGED <<dcsVars, hostVars, device, failed, master, age>>

\* post_recover: the start has failed, do not keep the key.
PostRecover(n) ==
    /\ pc[n] \in {"owner", "follower", "unlocked"} /\ ~Busy(n)
    /\ pg[n] = "down"
    /\ Disable(n)
    /\ IF pc[n] = "owner"
       THEN /\ DeleteLeader(n) /\ SetIsLeader(n, 0)
            /\ master' = [master EXCEPT ![n] = FALSE]
       ELSE UNCHANGED <<dcsVars, apiTtl, master>>
    /\ Goto(n, "idle")
    /\ UNCHANGED <<pg, task, failed, age>>

\* The REST API: restart the server, or rebuild a standby; both stop it without
\* a safepoint callback and start it without "-M standby".
ApiRestart(n) ==
    /\ pc[n] = "idle" /\ ~Busy(n) /\ pg[n] \in {"standby", "primary"}
    /\ pg' = [pg EXCEPT ![n] = Signaled(@)]
    /\ SetTask(n, "restart")
    /\ UNCHANGED <<dcsVars, wd, device, pc, failed, master, apiTtl, age>>

Reinitialize(n) ==
    /\ pc[n] = "idle" /\ ~Busy(n) /\ leader \notin {None, n}
    /\ pg' = [pg EXCEPT ![n] = Signaled(@)]
    /\ SetTask(n, "startPlain")
    /\ UNCHANGED <<dcsVars, wd, device, pc, failed, master, apiTtl, age>>

\* The start in the async executor.
StartEnds(n) ==
    /\ task[n] \in {"startStandby", "startPlain", "restart"}
    /\ pg[n] \notin {"closing", "fenced"}
    /\ \E s \in {"down"} \cup
                (IF task[n] = "startStandby" THEN {"standby"} ELSE PlainStart) :
          pg' = [pg EXCEPT ![n] = IF @ = "down" THEN s ELSE @]
    /\ master' = [master EXCEPT ![n] = task[n] = "restart"]
    /\ SetTask(n, "done")
    /\ UNCHANGED <<dcsVars, wd, device, pc, failed, apiTtl, age>>

\* The thread of the async executor resets scheduled_action under the lock that
\* run_cycle holds from its first statement to its last.
TaskReset(n) ==
    /\ task[n] = "done" /\ pc[n] \in {"idle", "shutdown"}
    /\ SetTask(n, "none")
    /\ UNCHANGED <<dcsVars, hostVars, device, pc, failed, master, apiTtl, age>>

----------------------------------------------------------------------------

Host(n) ==
    \/ BackendsClosed(n) \/ PgExits(n) \/ PgCrashes(n) \/ PgPromoted(n)
    \/ OrphanPromotionEnds(n)

Cycle(n) ==
    \/ Load(n) \/ DcsError(n) \/ PgError(n)
    \/ Renew(n) \/ Renewed(n) \/ NotRenewed(n) \/ WithoutLock(n)
    \/ Acquire(n) \/ Acquired(n) \/ NotAcquired(n)
    \/ ActivateWatchdog(n) \/ ActivationFails(n) \/ ReleaseAfterPrePromote(n)
    \/ StayMaster(n) \/ RepairStop(n) \/ RepairStart(n)
    \/ SchedulePromote(n) \/ ManualFailover(n)
    \/ Safepoint(n) \/ DemoteEnds(n) \/ OfflineEnds(n)
    \/ Recover(n) \/ RecoverNotRenewed(n) \/ RecoverFailover(n)
    \/ RecoverStart(n) \/ PostRecover(n)

Background(n) ==
    \/ PrePromoteEnds(n) \/ Failover(n) \/ FailoverFails(n)
    \/ FailoverReturns(n) \/ GracefulEnds(n)
    \/ ApiRestart(n) \/ Reinitialize(n) \/ StartEnds(n) \/ TaskReset(n)

Process(n) ==
    \/ PatroniCrash(n) \/ PatroniStart(n) \/ Shutdown(n) \/ ShutdownEnds(n)

Step ==
    \/ Tick
    \/ Expire
    \/ \E n \in Node : Host(n) \/ Cycle(n) \/ Background(n) \/ Process(n)

\* The server of n has come up as a primary without a promotion: it was started
\* without "-M standby".  Nothing ties such a start to the lease or the watchdog;
\* it is over when the server stops, or when the node has its own lease and an
\* active watchdog again and no pre-promote result to act on.
Alone(n) ==
    /\ n \in solo \/ pg[n] = "down"
    /\ ~(Pending(n) /\ device'[n] /\ ~failed[n])

Next == Step /\ solo' = {n \in Node : Active(n)' /\ Alone(n)}

Spec == Init /\ [][Next]_vars

----------------------------------------------------------------------------
\* Properties.

\* A server that can commit writes and did not make itself a primary.
Promoted(n) == Active(n) /\ n \notin solo

\* How long a watchdog may outlive the lease: it is fed, or armed, up to Lag after
\* the request was granted, and the safety margin makes up for Ttl - WdTimeout.
Overrun == IF WdTimeout + Lag > Ttl THEN WdTimeout + Lag - Ttl ELSE 0

\* Of two servers that can commit writes or are being promoted one has lost the
\* lock, and its watchdog ends it within Overrun: at most one if the safety margin
\* covers the slowest answer.  The lock, its renewal, the watchdog and the order
\* of a demotion exist for this.  A server that made itself a primary is excepted.
NoTwoPrimaries ==
    \A m, n \in Node : Promoted(m) /\ Promoted(n) /\ m # n =>
        \E k \in {m, n} : leader # k /\ 0 < wd[k] /\ wd[k] <= Overrun

\* A node that does not own the key stops answering "leader" (REST health
\* checks, HAProxy) no later than Lag after the key is gone: _is_leader is set
\* to now + ttl when the answer arrives, not when the request is applied.
LeaderAnswerEnds ==
    \A n \in Node : leader # n => apiTtl[n] <= Lag

\* While a promoted server can commit writes its watchdog is counting and ends
\* with the lease of this node, or Overrun after it if answers are slower than the
\* safety margin: "watchdog is not needed until we promote".
PrimaryIsWatched ==
    \A n \in Node : Promoted(n) =>
        /\ wd[n] > 0
        /\ wd[n] <= Overrun + (IF leader = n THEN keyTtl ELSE 0)

\* A watchdog stops counting only when the server cannot commit any more: it is
\* turned off after the last session (on_safepoint of a demotion, shutdown,
\* recover), or its reset ends the server, whatever made that a primary.
DisarmAfterFence ==
    [][\A n \in Node : wd[n] > 0 /\ wd'[n] = 0 => ~Active(n)']_vars

\* The lock of the cluster and the servers that can commit writes, as the
\* abstract lock of PrimaryLock: writers start only under the lock and stop
\* before it moves on.
Lock == INSTANCE PrimaryLock
            WITH holder <- leader, writers <- {n \in Node : Promoted(n)}

LockKept == Lock!LockSpec

----------------------------------------------------------------------------
\* The inductive invariant behind these properties.

Promotion == {"prepromote", "failover"}
Waiting == {"nolock", "release", "offline", "shutdown"}
Recovering == {"recoverOwner", "recoverRenewed", "recover"}

\* The watchdog counts and ends no later than Overrun after the lease of the node.
Guarded(n) ==
    /\ wd[n] > 0
    /\ wd[n] <= Overrun + (IF leader = n THEN keyTtl ELSE 0)

\* A granted request that the node has not acted on is at most age[n] old, and
\* the is_leader() answer outlives the lease by Lag at most.
LeaseFresh(n) ==
    /\ Pending(n) => leader = n /\ Ttl <= keyTtl + age[n]
    /\ apiTtl[n] <= Lag + (IF leader = n THEN keyTtl ELSE 0)

\* Where the HA loop stands while the async executor has nothing to do.
LoopAndTask(n) ==
    pc[n] \in {"off", "acquired", "leading", "repairing"} \cup Recovering
       => task[n] = "none"

\* What the server can be while the executor, or the loop, is at work on it.
TaskAndServer(n) ==
    /\ task[n] \in Promotion \cup {"startStandby"} => ~Active(n)
    /\ task[n] \in Promotion => pc[n] # "offline"
    /\ pg[n] = "promoting" => pc[n] = "off" \/ task[n] = "promoting"
    /\ pc[n] \in Recovering => pg[n] = "down"
    /\ pg[n] = "closing" =>
          /\ pc[n] \notin {"acquired", "leading"}
          /\ pc[n] = "renewed" => task[n] \in {"demote", "restart", "startPlain"}
          /\ task[n] \in {"promoting", "done"} => pc[n] \in Waiting
    /\ failed[n] => ~Promoted(n) /\ task[n] \notin Promotion \cup {"promoting"}

\* The lease and the watchdog cover every server that is, or is about to be, a
\* primary.
Covered(n) ==
    /\ device[n] => wd[n] > 0
    /\ Promoted(n) => Guarded(n)
    /\ task[n] \in Promotion /\ pg[n] = "standby" => Guarded(n) /\ device[n]
    /\ pc[n] = "leading" /\ device[n] => Guarded(n)

\* Everything a step of one node relies on, for that node and for the others.
LeaseInv ==
    /\ TypeOK
    /\ \A n \in Node : LeaseFresh(n) /\ LoopAndTask(n)

FencedInv ==
    /\ LeaseInv
    /\ \A n \in Node : TaskAndServer(n) /\ Covered(n)

=============================================================================
