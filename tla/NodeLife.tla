------------------------------ MODULE NodeLife ------------------------------
(***************************************************************************)
(* The life of the data directory of a node: the race to initialize the    *)
(* cluster (ha.py bootstrap, post_bootstrap, cancel_initialization), the   *)
(* copy from another member (bootstrap.py), the start after a crash (ha.py *)
(* recover, post_recover), the check whether a former primary has diverged *)
(* and its repair (rewind.py, ha.py _handle_rewind_or_reinitialize), and   *)
(* reinitialize requests.  The HA loop reads the cluster into a view and   *)
(* acts in a later step; the long actions run in the background, one at a  *)
(* time (module AsyncExecutor).                                            *)
(*                                                                         *)
(* The log of a server is the sequence of the timelines of its records.    *)
(* Pause, tags, standby clusters and custom bootstrap scripts are left     *)
(* out; that a deposed primary is fenced in time is the subject of module  *)
(* LeaderLease.                                                            *)
(***************************************************************************)
EXTENDS Naturals, FiniteSets, Sequences

CONSTANTS Node, None,
          MaxWal,        \* bound: records in a log
          MaxEvents      \* bound: faults and requests of operators

ASSUME NodeLifeAssumption ==
    /\ IsFiniteSet(Node) /\ None \notin Node
    /\ MaxWal \in Nat \ {0} /\ MaxEvents \in Nat

VARIABLES
    init, leader, member,   \* DCS: the initialize key, the leader key, the member keys
    up, srv, disk,          \* Patroni runs; the server; the data directory
    mem,                    \* what Patroni keeps in memory
    pc, view,               \* the HA loop
    job, src,               \* the long action and the member it was given
    asked,                  \* a reinitialize request past its check
    how,                    \* configuration: how a diverged node is repaired
    systems, events,        \* initdb calls, faults
    calm, former, stale     \* history, see below and at the properties

dcs == <<init, leader, member>>
node == <<up, srv, disk>>
loop == <<pc, view>>
bg == <<job, src>>
hist == <<calm, former, stale>>
aux == <<how, systems, events, calm, former, stale>>
vars == <<dcs, node, mem, loop, bg, asked, aux>>

\* Values of the initialize key, besides system identifiers.
NoKey == 0
InProgress == 1
Valid(sysid) == sysid > 1

\* A directory without a valid identifier is empty or half filled.
\* state is that of the control file: shut down, a standby that runs or has died ("in
\* archive recovery"), or a primary that does ("in production").
Empty == [sys |-> 0, wal |-> <<>>, ctl |-> 0, state |-> "clean"]
Partial == [Empty EXCEPT !.ctl = 1]

Mem0 == [rw |-> "initial", task |-> "none", boot |-> FALSE, resp |-> "none",
         tried |-> FALSE, recovering |-> FALSE, cb |-> FALSE]

NoView == [leader |-> None, init |-> NoKey, ready |-> "absent"]

Event == events < MaxEvents /\ events' = events + 1
Free == UNCHANGED events

----------------------------------------------------------------------------
\* Logs.

Tl(n) == LET w == disk[n].wal IN IF w = <<>> THEN 0 ELSE w[Len(w)]

IsPrefixOf(v, w) == Len(v) <= Len(w) /\ \A i \in 1..Len(v) : v[i] = w[i]

Diverged(n, l) == ~IsPrefixOf(disk[n].wal, disk[l].wal)

\* Where the history of a server leaves a timeline; 0 if it never was on it.
SwitchPoint(w, tl) ==
    Cardinality(IF \E i \in 1..Len(w) : w[i] = tl THEN {i \in 1..Len(w) : w[i] <= tl} ELSE {})

----------------------------------------------------------------------------
\* The rewind status.

Executed(s) == s \in {"success", "failed"}
IsNeeded(s) == s \in {"check", "need"}

\* trigger_check_diverged_lsn
Trigger(s) == IF s # "need" THEN "check" ELSE s

\* _check_timeline_and_lsn with the leader l: a server that is down tells its position only
\* after a clean shutdown, and the leader must say that it is a primary and be one.
CheckTimelineAndLsn(n, l, s) ==
    LET here == Tl(n)
        there == Tl(l)
        switch == SwitchPoint(disk[l].wal, here)
        asks == /\ srv[n] = "down" => disk[n].state = "clean"
                /\ member[l] \in {"wait", "ready"} /\ srv[l] = "master"
        need == here > there \/ (here < there /\ switch > 0 /\ Len(disk[n].wal) > switch)
    IN  IF s # "check" \/ ~asks THEN s ELSE IF need THEN "need" ELSE "not_need"

\* rewind_or_reinitialize_needed_and_possible
Status(n, l, s) == IF l \in {None, n} \/ member[l] = "absent" THEN s ELSE CheckTimelineAndLsn(n, l, s)
Possible(n, l, s) == l \notin {None, n} /\ member[l] # "absent" /\ Status(n, l, s) = "need"
\* The check is done and finds nothing.
Passes(n, l, s) == s = "check" /\ Status(n, l, s) = "not_need"

----------------------------------------------------------------------------
\* The DCS.

\* initialize(create_new, sysid): create_new iff the key was missing in the view.
Initialize(seen, sysid) ==
    init' = IF (seen = NoKey) = (init = NoKey) THEN sysid ELSE init

ReleaseLeader(n) == leader' = IF leader = n THEN None ELSE leader

\* touch_member, at the end of every cycle: role and checkpoint_after_promote.
TouchMember(n) ==
    member' = [member EXCEPT ![n] =
        IF srv'[n] # "master" \/ leader' # n THEN "replica"
        ELSE IF mem'[n].rw = "checkpoint" THEN "ready" ELSE "wait"]

\* What load_cluster_from_dcs returns of it.
Cluster ==
    [leader |-> leader, init |-> init,
     ready |-> IF leader = None THEN "absent" ELSE member[leader]]

----------------------------------------------------------------------------
\* The HA loop.

Goto(n, label) == pc' = [pc EXCEPT ![n] = label]
EndCycle(n) == Goto(n, "idle") /\ view' = [view EXCEPT ![n] = NoView] /\ TouchMember(n)

RunAsync(n, action, m) == job' = [job EXCEPT ![n] = action] /\ src' = [src EXCEPT ![n] = m]

SetMem(n, m) == mem' = [mem EXCEPT ![n] = m]
SetSrv(n, s) == srv' = [srv EXCEPT ![n] = s]
SetDisk(n, d) == disk' = [disk EXCEPT ![n] = d]

\* stop: a shutdown of the server, with a checkpoint.
ShutDown(n) ==
    /\ SetSrv(n, "down")
    /\ SetDisk(n, IF srv[n] = "down" THEN disk[n] ELSE [disk[n] EXCEPT !.state = "clean", !.ctl = Tl(n)])

\* A cycle that would change nothing.
Idles(n) ==
    \/ ~Valid(disk[n].sys) /\ ~mem[n].boot /\ member[n] = "replica"
       /\ (disk[n] = Partial \/ (leader = None /\ init # NoKey)) /\ srv[n] = "down"
    \/ /\ Valid(disk[n].sys) /\ init = disk[n].sys
       /\ ~mem[n].recovering /\ ~mem[n].boot /\ mem[n].cb
       /\ \/ leader \notin {None, n} /\ srv[n] = "replica" /\ ~IsNeeded(mem[n].rw) /\ member[n] = "replica"
          \/ leader = n /\ srv[n] = "master" /\ member[n] \in {"wait", "ready"}
             /\ (mem[n].rw = "initial" => mem[n].task = "running")
             /\ (mem[n].rw = "checkpoint" => member[n] = "ready")

Load(n) ==
    /\ up[n] /\ pc[n] = "idle" /\ job[n] = "none" /\ ~Idles(n)
    /\ view' = [view EXCEPT ![n] = Cluster] /\ Goto(n, "loaded")
    /\ stale' = stale \ {n}
    /\ UNCHANGED <<dcs, node, mem, bg, asked, how, systems, events, calm, former>>

\* The loop runs while a long action does; it keeps its member key up to date.
HandleLongActionInProgress(n) ==
    /\ up[n] /\ pc[n] = "idle" /\ job[n] # "none"
    /\ UNCHANGED <<init, leader, node, mem, loop, bg, asked, aux>>
    /\ TouchMember(n) /\ member' # member

LacksSystemId(n) == view[n].leader = n /\ ~Valid(view[n].init) /\ Valid(disk[n].sys)

\* The cluster has a leader key but no initialize key.
WriteSystemId(n) ==
    /\ up[n] /\ pc[n] = "loaded" /\ LacksSystemId(n)
    /\ Initialize(view[n].init, disk[n].sys)
    /\ view' = [view EXCEPT ![n].init = disk[n].sys]
    /\ UNCHANGED <<leader, member, node, mem, pc, bg, asked, aux>>

Loaded(n) == up[n] /\ pc[n] = "loaded" /\ ~LacksSystemId(n)

----------------------------------------------------------------------------
\* Mutant: bootstrapping is not reset.
PostBootstrapKeepsFlag(n) ==
    /\ Loaded(n) /\ mem[n].boot
    /\ UNCHANGED <<init, leader, node, asked, how, systems, hist>>
    /\ \/ /\ srv[n] = "down" \/ mem[n].resp = "failed"
          /\ Goto(n, "cancel") /\ Free /\ UNCHANGED <<member, mem, view, bg>>
       \/ /\ srv[n] # "down" /\ mem[n].resp = "none"
          /\ RunAsync(n, "post_bootstrap", NoView)
          /\ Free /\ UNCHANGED mem /\ EndCycle(n)
       \/ /\ srv[n] # "down" /\ mem[n].resp = "ok"
          /\ UNCHANGED mem
          /\ (Goto(n, "publish") /\ Free) \/ (Goto(n, "cancel") /\ Event)
          /\ UNCHANGED <<member, view, bg>>

\* post_bootstrap and cancel_initialization.

PostBootstrap(n) ==
    /\ Loaded(n) /\ mem[n].boot
    /\ UNCHANGED <<init, leader, node, asked, how, systems, hist>>
    /\ \/ /\ srv[n] = "down" \/ mem[n].resp = "failed"
          /\ Goto(n, "cancel") /\ Free /\ UNCHANGED <<member, mem, view, bg>>
       \/ /\ srv[n] # "down" /\ mem[n].resp = "none"
          /\ RunAsync(n, "post_bootstrap", NoView)
          /\ Free /\ UNCHANGED mem /\ EndCycle(n)
       \/ /\ srv[n] # "down" /\ mem[n].resp = "ok"
          /\ SetMem(n, [mem[n] EXCEPT !.boot = FALSE])
          /\ (Goto(n, "publish") /\ Free) \/ (Goto(n, "cancel") /\ Event)
          /\ UNCHANGED <<member, view, bg>>

PublishSystemId(n) ==
    /\ up[n] /\ pc[n] = "publish"
    /\ Initialize(view[n].init, disk[n].sys) /\ Goto(n, "take")
    /\ UNCHANGED <<leader, member, node, mem, view, bg, asked, aux>>

TakeLeader(n) ==
    /\ up[n] /\ pc[n] = "take"
    /\ leader' = n
    /\ SetMem(n, [mem[n] EXCEPT !.cb = TRUE])
    /\ UNCHANGED <<init, node, bg, asked, aux>> /\ EndCycle(n)

CancelInitialization(n) ==
    /\ up[n] /\ pc[n] = "cancel"
    /\ init' = NoKey /\ Goto(n, "moving")
    /\ UNCHANGED <<leader, member, node, mem, view, bg, asked, aux>>

\* The process ends.
Exit(n) ==
    /\ up' = [up EXCEPT ![n] = FALSE] /\ SetMem(n, Mem0)
    /\ Goto(n, "idle") /\ view' = [view EXCEPT ![n] = NoView]
    /\ asked' = [asked EXCEPT ![n] = FALSE]

MoveDataDirectory(n) ==
    /\ up[n] /\ pc[n] = "moving"
    /\ SetSrv(n, "down") /\ disk' = [disk EXCEPT ![n] = Empty]
    /\ Exit(n) /\ UNCHANGED <<dcs, bg, aux>>

----------------------------------------------------------------------------
\* The start of a server has failed, or ended; post_recover.

Recovered(n) == mem[n].recovering /\ ~IsNeeded(mem[n].rw)

PostRecover(n) ==
    /\ Loaded(n) /\ ~mem[n].boot /\ Recovered(n)
    /\ IF srv[n] = "down"
       THEN /\ SetMem(n, [mem[n] EXCEPT !.recovering = FALSE])
            /\ IF view[n].leader = n THEN ReleaseLeader(n) ELSE UNCHANGED leader
            /\ UNCHANGED srv /\ EndCycle(n)
       ELSE /\ SetMem(n, [mem[n] EXCEPT !.recovering = FALSE, !.tried = FALSE,
                            !.rw = IF @ = "success" THEN "initial" ELSE @,
                            !.task = IF mem[n].rw = "success" THEN "none" ELSE @])
            /\ UNCHANGED <<leader, member, loop, srv>>
    /\ UNCHANGED <<init, up, disk, bg, asked, aux>>

Rest(n) == Loaded(n) /\ ~mem[n].boot /\ ~Recovered(n)

\* Mutant: the outcome of the race for the initialize key is ignored.
EmptyDirectoryAnyway(n) ==
    /\ Rest(n) /\ disk[n] = Empty
    /\ SetSrv(n, "down")
    /\ IF view[n].leader = n
       THEN ReleaseLeader(n) /\ UNCHANGED <<init, mem, bg>>
       ELSE /\ UNCHANGED leader
            /\ CASE view[n].leader # None -> RunAsync(n, "clone", view[n]) /\ UNCHANGED <<init, mem>>
                 [] view[n].leader = None /\ view[n].init = NoKey ->
                        /\ init' = InProgress
                        /\ SetMem(n, [mem[n] EXCEPT !.boot = TRUE, !.resp = "none"])
                        /\ RunAsync(n, "bootstrap", NoView)
                 [] OTHER -> UNCHANGED <<init, mem, bg>>
    /\ UNCHANGED <<up, disk, asked, aux>> /\ EndCycle(n)

\* The data directory is empty: bootstrap()
EmptyDirectory(n) ==
    /\ Rest(n) /\ disk[n] = Empty
    /\ SetSrv(n, "down")
    /\ IF view[n].leader = n
       THEN ReleaseLeader(n) /\ UNCHANGED <<init, mem, bg>>
       ELSE /\ UNCHANGED leader
            /\ CASE view[n].leader # None -> RunAsync(n, "clone", view[n]) /\ UNCHANGED <<init, mem>>
                 [] view[n].leader = None /\ view[n].init = NoKey /\ init = NoKey ->
                        /\ init' = InProgress
                        /\ SetMem(n, [mem[n] EXCEPT !.boot = TRUE, !.resp = "none"])
                        /\ RunAsync(n, "bootstrap", NoView)
                 [] OTHER -> UNCHANGED <<init, mem, bg>>
    /\ UNCHANGED <<up, disk, asked, aux>> /\ EndCycle(n)

InvalidSystemId(n) ==
    /\ Rest(n) /\ disk[n] = Partial
    /\ UNCHANGED <<init, leader, node, mem, bg, asked, aux>> /\ EndCycle(n)

\* The data belong to a different cluster; the server is shut down.
Mismatch(n) ==
    /\ Rest(n) /\ Valid(disk[n].sys) /\ Valid(view[n].init) /\ view[n].init # disk[n].sys
    /\ ShutDown(n) /\ ReleaseLeader(n)
    /\ Exit(n) /\ UNCHANGED <<init, member, bg, aux>>

\* "bootstrap", but the data directory is not empty.
Join(n) ==
    /\ Rest(n) /\ Valid(disk[n].sys) /\ ~Valid(view[n].init) /\ view[n].leader = None
    /\ IF srv[n] = "replica" /\ ~mem[n].cb
       THEN Exit(n) /\ UNCHANGED <<init, leader, srv>>
       ELSE /\ Initialize(view[n].init, disk[n].sys)
            /\ view' = [view EXCEPT ![n].init = disk[n].sys]
            /\ UNCHANGED <<leader, srv, up, mem, pc, asked>>
    /\ UNCHANGED <<member, disk, bg, aux>>

\* The node is allowed to join.
Member(n) ==
    /\ Rest(n) /\ Valid(disk[n].sys)
    /\ view[n].init = disk[n].sys \/ (~Valid(view[n].init) /\ view[n].leader # None)

\* The last step of a cycle: the callback of the first start, and its check.
FirstCycle(n, m, busy) ==
    IF m.cb \/ busy THEN m
    ELSE [m EXCEPT !.cb = TRUE,
                   !.rw = IF srv[n] # "master" /\ how # "none" THEN Trigger(@) ELSE @]

\* _handle_rewind_or_reinitialize, once the status is "need"; c: the cluster it read
Repair(n, c) == RunAsync(n, IF how = "rewind" THEN "rewind" ELSE "reinitialize", c)

Start(n, l) == RunAsync(n, IF l \in {None, n} THEN "start" ELSE "start standby", NoView)

\* Mutant: a server that is found down is not checked.
RecoverWithoutCheck(n) ==
    LET m == mem[n]
        s == m.rw
    IN  /\ Member(n) /\ srv[n] = "down"
        /\ UNCHANGED <<init, leader, node, asked, how, systems, events, calm>>
        /\ former' = IF leader = n \/ m.rw = "success" \/ Passes(n, leader, s)
                     THEN former \ {n} ELSE former
        /\ stale' = stale \ {n}
        /\ IF disk[n].state = "dirty" /\ ~m.tried /\ (view[n].leader = None \/ how = "rewind")
           THEN /\ SetMem(n, [m EXCEPT !.tried = TRUE])
                /\ RunAsync(n, "crash recovery", NoView)
           ELSE IF leader # n /\ Possible(n, leader, s)
           THEN SetMem(n, [m EXCEPT !.rw = "need"]) /\ Repair(n, Cluster)
           ELSE /\ SetMem(n, [m EXCEPT !.rw = Status(n, leader, s), !.recovering = TRUE])
                /\ Start(n, leader)
        /\ EndCycle(n)

\* The server is not running: recover(), with the leader read again.
Recover(n) ==
    LET m == mem[n]
        s == IF leader # n /\ ~Executed(m.rw) THEN Trigger(m.rw) ELSE m.rw
    IN  /\ Member(n) /\ srv[n] = "down"
        /\ UNCHANGED <<init, leader, node, asked, how, systems, events, calm>>
        /\ former' = IF leader = n \/ m.rw = "success" \/ Passes(n, leader, s)
                     THEN former \ {n} ELSE former
        /\ stale' = stale \ {n}
        /\ IF disk[n].state = "dirty" /\ ~m.tried /\ (view[n].leader = None \/ how = "rewind")
           THEN /\ SetMem(n, [m EXCEPT !.tried = TRUE])
                /\ RunAsync(n, "crash recovery", NoView)
           ELSE IF leader # n /\ Possible(n, leader, s)
           THEN SetMem(n, [m EXCEPT !.rw = "need"]) /\ Repair(n, Cluster)
           ELSE /\ SetMem(n, [m EXCEPT !.rw = Status(n, leader, s), !.recovering = TRUE])
                /\ Start(n, leader)
        /\ EndCycle(n)

\* demote("immediate-nolock"), and the start that follows in the background.
Demote(n, l) ==
    /\ SetSrv(n, "down") /\ UNCHANGED <<disk, former>>
    /\ SetMem(n, FirstCycle(n, [mem[n] EXCEPT !.rw = Trigger(@)], TRUE))
    /\ Start(n, l)

\* A running standby; c: the cluster whose leader it is to follow.
Follow(n, c) ==
    LET s == mem[n].rw
        l == c.leader
    IN  /\ UNCHANGED <<srv, disk>>
        /\ former' = IF Passes(n, l, s) THEN former \ {n} ELSE former
        /\ IF Possible(n, l, s)
           THEN SetMem(n, [mem[n] EXCEPT !.rw = "need"]) /\ Repair(n, c)
           ELSE /\ SetMem(n, FirstCycle(n, [mem[n] EXCEPT !.rw = Status(n, l, s)], FALSE))
                /\ UNCHANGED bg

DemoteOrFollow(n, c) == IF srv[n] = "master" THEN Demote(n, c.leader) ELSE Follow(n, c)

\* ensure_checkpoint_after_promote
EnsureCheckpointAfterPromote(m) ==
    IF m.rw # "initial" THEN m
    ELSE CASE m.task = "none" -> [m EXCEPT !.task = "running"]
           [] m.task = "done" -> [m EXCEPT !.rw = "checkpoint"]
           [] OTHER -> m

\* The node has the lock.
EnforceMasterRole(n) ==
    /\ UNCHANGED <<srv, disk, former>>
    /\ IF srv[n] = "master"
       THEN UNCHANGED bg /\ SetMem(n, FirstCycle(n, mem[n], FALSE))
       ELSE RunAsync(n, "promote", NoView) /\ UNCHANGED mem

\* process_healthy_cluster
Lead(n) ==
    /\ Member(n) /\ srv[n] # "down" /\ view[n].leader = n
    /\ UNCHANGED <<init, leader, up, asked, how, systems, events, calm, stale>>
    /\ IF leader # n
       THEN IF srv[n] = "master" THEN Demote(n, leader) ELSE UNCHANGED <<srv, disk, mem, bg, former>>
       ELSE IF srv[n] = "master"
       THEN /\ SetMem(n, FirstCycle(n, EnsureCheckpointAfterPromote(mem[n]), FALSE))
            /\ UNCHANGED <<srv, disk, bg, former>>
       ELSE EnforceMasterRole(n)
    /\ EndCycle(n)

FollowLeader(n) ==
    /\ Member(n) /\ srv[n] # "down" /\ view[n].leader \notin {None, n}
    /\ UNCHANGED <<init, leader, up, asked, how, systems, events, calm, stale>>
    /\ DemoteOrFollow(n, view[n])
    /\ EndCycle(n)

IsHealthiestNode(n) ==
    \/ srv[n] = "master"
    \/ \A m \in Node : up[m] /\ srv[m] # "down" => srv[m] = "replica" /\ Len(disk[m].wal) <= Len(disk[n].wal)

\* process_unhealthy_cluster
Race(n) ==
    /\ Member(n) /\ srv[n] # "down" /\ view[n].leader = None
    /\ UNCHANGED <<init, up, asked, how, systems, events, calm>>
    /\ stale' = stale \ {n}
    /\ IF IsHealthiestNode(n) /\ leader = None
       THEN leader' = n /\ EnforceMasterRole(n)
       ELSE UNCHANGED leader /\ DemoteOrFollow(n, Cluster)
    /\ EndCycle(n)

----------------------------------------------------------------------------
\* Long actions.

Ends(n) == RunAsync(n, "none", NoView)
Then(n, action) == RunAsync(n, action, src[n])
Doing(n, action) == up[n] /\ job[n] = action

\* Bootstrap.bootstrap: initdb, then the start of the new server.
InitDb(n) ==
    /\ Doing(n, "bootstrap") /\ disk[n] = Empty
    /\ SetDisk(n, Partial)
    /\ UNCHANGED <<dcs, up, srv, mem, loop, bg, asked, aux>>

BootstrapEnds(n) ==
    /\ Doing(n, "bootstrap") /\ disk[n] = Partial
    /\ \/ /\ systems' = systems + 1
          /\ SetDisk(n, [sys |-> systems + 2, wal |-> <<1>>, ctl |-> 1, state |-> "dirty"])
          /\ SetSrv(n, "master") /\ Free /\ former' = former \cup {n}
       \/ Event /\ UNCHANGED <<systems, srv, disk, former>>
    /\ Ends(n)
    /\ UNCHANGED <<dcs, up, mem, loop, asked, how, calm, stale>>

\* Bootstrap.post_bootstrap
PostBootstrapEnds(n) ==
    /\ Doing(n, "post_bootstrap")
    /\ \/ srv[n] = "master" /\ Free /\ SetMem(n, [mem[n] EXCEPT !.resp = "ok"])
       \/ /\ (srv[n] = "down" /\ Free) \/ (srv[n] = "master" /\ Event)
          /\ SetMem(n, [mem[n] EXCEPT !.resp = "failed"])
    /\ Ends(n)
    /\ UNCHANGED <<dcs, node, loop, asked, how, systems, hist>>

\* clone: the old data go first.
Clone(n) ==
    /\ Doing(n, "clone")
    /\ SetMem(n, [mem[n] EXCEPT !.rw = "initial", !.task = "none"])
    /\ SetDisk(n, Partial) /\ Then(n, "copy")
    /\ UNCHANGED <<dcs, up, srv, loop, asked, aux>>

\* basebackup from a member that runs; else, or when it fails, the directory is removed.
CreateReplica(n) ==
    LET m == src[n].leader
    IN  /\ Doing(n, "copy")
        /\ \/ /\ srv[m] # "down" /\ Valid(disk[m].sys) /\ Free
              /\ SetDisk(n, [disk[m] EXCEPT !.ctl = Tl(m)])
              /\ Start(n, leader) /\ former' = former \ {n}
           \/ /\ (srv[m] = "down" /\ Free) \/ (srv[m] # "down" /\ Event)
              /\ SetDisk(n, Empty) /\ Ends(n) /\ UNCHANGED former
        /\ UNCHANGED <<dcs, up, srv, mem, loop, asked, how, systems, calm, stale>>

\* Without "-M standby" a server may come up as a primary.
StartServer(n) ==
    /\ job[n] \in {"start", "start standby"} /\ up[n]
    /\ \/ /\ SetSrv(n, "replica") /\ SetDisk(n, [disk[n] EXCEPT !.state = "standby"])
          /\ Free /\ UNCHANGED former
       \/ /\ job[n] = "start" /\ SetSrv(n, "master") /\ Free
          /\ SetDisk(n, [disk[n] EXCEPT !.state = "dirty", !.ctl = Tl(n)])
          /\ former' = former \cup {n}
       \/ Event /\ UNCHANGED <<srv, disk, former>>
    /\ Ends(n)
    /\ UNCHANGED <<dcs, up, mem, loop, asked, how, systems, calm, stale>>

\* ensure_clean_shutdown
EnsureCleanShutdown(n) ==
    /\ Doing(n, "crash recovery")
    /\ \/ Free /\ SetDisk(n, [disk[n] EXCEPT !.state = "clean", !.ctl = Tl(n)])
       \/ Event /\ UNCHANGED disk
    /\ Ends(n)
    /\ UNCHANGED <<dcs, up, srv, mem, loop, asked, how, systems, hist>>

\* Rewind.execute: stop the server, ask the leader, run pg_rewind.
StopForRewind(n) ==
    /\ Doing(n, "rewind")
    /\ ShutDown(n)
    /\ Then(n, "pg_rewind")
    /\ UNCHANGED <<dcs, up, mem, loop, asked, aux>>

\* pg_rewind does nothing if both control files show the same timeline.
PgRewind(n, m) ==
    IF disk[n].ctl = disk[m].ctl THEN disk[n] ELSE [disk[m] EXCEPT !.state = "standby"]

\* Mutant: pg_rewind does not wait for the checkpoint of the leader.
RewindEarly(n) ==
    LET m == src[n].leader
        refused == srv[m] # "master"
    IN  /\ Doing(n, "pg_rewind") /\ Ends(n)
        /\ \/ refused /\ Free /\ UNCHANGED <<disk, mem, former>>
           \/ /\ ~refused /\ disk[n].state = "clean" /\ Free
              /\ SetDisk(n, PgRewind(n, m)) /\ SetMem(n, [mem[n] EXCEPT !.rw = "success"])
              /\ former' = former \ {n}
           \/ /\ ~refused
              /\ IF disk[n].state = "clean" THEN Event ELSE Free
              /\ \/ SetDisk(n, Empty) /\ SetMem(n, [mem[n] EXCEPT !.rw = "initial"])
                 \/ UNCHANGED disk /\ SetMem(n, [mem[n] EXCEPT !.rw = "failed"])
              /\ UNCHANGED former
        /\ UNCHANGED <<dcs, up, srv, loop, asked, how, systems, calm, stale>>

Rewind(n) ==
    LET m == src[n].leader
        refused == src[n].ready # "ready" \/ srv[m] # "master"
    IN  /\ Doing(n, "pg_rewind") /\ Ends(n)
        /\ \/ refused /\ Free /\ UNCHANGED <<disk, mem, former>>
           \/ /\ ~refused /\ disk[n].state = "clean" /\ Free
              /\ SetDisk(n, PgRewind(n, m)) /\ SetMem(n, [mem[n] EXCEPT !.rw = "success"])
              /\ former' = former \ {n}
           \/ /\ ~refused
              /\ IF disk[n].state = "clean" THEN Event ELSE Free
              /\ \/ SetDisk(n, Empty) /\ SetMem(n, [mem[n] EXCEPT !.rw = "initial"])
                 \/ UNCHANGED disk /\ SetMem(n, [mem[n] EXCEPT !.rw = "failed"])
              /\ UNCHANGED former
        /\ UNCHANGED <<dcs, up, srv, loop, asked, how, systems, calm, stale>>

\* promote, cancelled if the lock is gone.
Promote(n) ==
    /\ Doing(n, "promote") /\ Ends(n)
    /\ IF leader = n /\ srv[n] = "replica"
       THEN /\ Len(disk[n].wal) < MaxWal
            /\ SetSrv(n, "master")
            /\ SetDisk(n, [disk[n] EXCEPT !.wal = Append(@, Tl(n) + 1), !.state = "dirty"])
            /\ SetMem(n, [mem[n] EXCEPT !.rw = "initial", !.task = "none"])
            /\ former' = former \cup {n}
            /\ stale' = stale \cup {k \in Node : n \in {view[k].leader, src[k].leader}}
       ELSE UNCHANGED <<srv, disk, mem, former, stale>>
    /\ UNCHANGED <<dcs, up, loop, asked, how, systems, events, calm>>

\* The thread that runs the checkpoint.
Checkpoint(n) ==
    /\ up[n] /\ mem[n].task = "running"
    /\ IF srv[n] = "master"
       THEN SetDisk(n, [disk[n] EXCEPT !.ctl = Tl(n)]) /\ SetMem(n, [mem[n] EXCEPT !.task = "done"])
       ELSE SetMem(n, [mem[n] EXCEPT !.task = "failed"]) /\ UNCHANGED disk
    /\ UNCHANGED <<dcs, up, srv, loop, bg, asked, aux>>

----------------------------------------------------------------------------
\* reinitialize: the check that the node is not the leader, and later the action.

CheckReinitialize(n) ==
    /\ up[n] /\ ~asked[n] /\ pc[n] = "idle" /\ leader \notin {None, n}
    /\ asked' = [asked EXCEPT ![n] = TRUE]
    /\ Event /\ UNCHANGED <<dcs, node, mem, loop, bg, how, systems, hist>>

Reinitialize(n) ==
    /\ up[n] /\ asked[n] /\ job[n] = "none" /\ pc[n] = "idle"
    /\ asked' = [asked EXCEPT ![n] = FALSE]
    /\ RunAsync(n, "reinitialize", Cluster)
    /\ UNCHANGED <<dcs, node, mem, loop, aux>>

\* _do_reinitialize; without a leader there is no member to copy from.
DoReinitialize(n) ==
    /\ Doing(n, "reinitialize")
    /\ SetSrv(n, "down")
    /\ IF src[n].leader = None THEN Ends(n) ELSE Then(n, "clone")
    /\ UNCHANGED <<dcs, up, disk, mem, loop, asked, aux>>

----------------------------------------------------------------------------
\* Servers, faults and operators.

Write(n) ==
    /\ srv[n] = "master" /\ leader = n /\ Len(disk[n].wal) < MaxWal
    /\ SetDisk(n, [disk[n] EXCEPT !.wal = Append(@, Tl(n))])
    /\ UNCHANGED <<dcs, up, srv, mem, loop, bg, asked, aux>>

Replicate(n, m) ==
    /\ srv[n] = "master" /\ leader = n /\ srv[m] = "replica" /\ disk[m].sys = disk[n].sys
    /\ ~Diverged(m, n) /\ Len(disk[m].wal) < Len(disk[n].wal)
    /\ LET w == SubSeq(disk[n].wal, 1, Len(disk[m].wal) + 1)
       IN  SetDisk(m, [disk[m] EXCEPT !.wal = w, !.ctl = w[Len(w)]])
    /\ UNCHANGED <<dcs, up, srv, mem, loop, bg, asked, aux>>

ServerDies(n) == SetSrv(n, "down") /\ UNCHANGED disk

CrashServer(n) ==
    /\ Event /\ srv[n] # "down" /\ ServerDies(n)
    /\ UNCHANGED <<dcs, up, mem, loop, bg, asked, how, systems, hist>>

\* The node dies.  calm: no cluster was removed, and no node died between the two steps of
\* cancel_initialization.
CrashNode(n) ==
    /\ Event /\ up[n] /\ ServerDies(n)
    /\ Exit(n) /\ Ends(n)
    /\ calm' = (calm /\ pc[n] # "moving")
    /\ UNCHANGED <<dcs, how, systems, former, stale>>

StartPatroni(n) ==
    /\ ~up[n] /\ up' = [up EXCEPT ![n] = TRUE]
    /\ UNCHANGED <<dcs, srv, disk, mem, loop, bg, asked, aux>>

KeysExpire(n) ==
    /\ ~up[n] /\ (leader = n \/ member[n] # "absent")
    /\ ReleaseLeader(n) /\ member' = [member EXCEPT ![n] = "absent"]
    /\ UNCHANGED <<init, node, mem, loop, bg, asked, aux>>

\* patronictl remove
RemoveCluster ==
    /\ Event /\ init # NoKey
    /\ init' = NoKey /\ leader' = None /\ member' = [n \in Node |-> "absent"]
    /\ calm' = FALSE
    /\ UNCHANGED <<node, mem, loop, bg, asked, how, systems, former, stale>>

----------------------------------------------------------------------------
Cycle(n) ==
    \/ Load(n) \/ HandleLongActionInProgress(n) \/ WriteSystemId(n)
    \/ PostBootstrap(n) \/ PublishSystemId(n) \/ TakeLeader(n)
    \/ CancelInitialization(n) \/ MoveDataDirectory(n) \/ PostRecover(n)
    \/ EmptyDirectory(n) \/ InvalidSystemId(n) \/ Mismatch(n) \/ Join(n)
    \/ Recover(n) \/ Lead(n) \/ FollowLeader(n) \/ Race(n)

Background(n) ==
    \/ InitDb(n) \/ BootstrapEnds(n) \/ PostBootstrapEnds(n)
    \/ Clone(n) \/ CreateReplica(n) \/ StartServer(n) \/ EnsureCleanShutdown(n)
    \/ StopForRewind(n) \/ Rewind(n) \/ Promote(n) \/ Checkpoint(n) \/ DoReinitialize(n)

Environment ==
    \/ \E n \in Node : CheckReinitialize(n) \/ Reinitialize(n) \/ Write(n)
                     \/ CrashServer(n) \/ CrashNode(n) \/ StartPatroni(n) \/ KeysExpire(n)
    \/ \E n, m \in Node : Replicate(n, m)
    \/ RemoveCluster

\* Empty directories, or a cluster that runs.
Init ==
    /\ how \in {"rewind", "reinitialize"}
    /\ up = [n \in Node |-> TRUE]
    /\ \/ /\ init = NoKey /\ leader = None /\ systems = 0 /\ former = {}
          /\ member = [n \in Node |-> "replica"]
          /\ srv = [n \in Node |-> "down"] /\ disk = [n \in Node |-> Empty]
          /\ mem = [n \in Node |-> Mem0]
       \/ /\ init = 2 /\ leader \in Node /\ systems = 1 /\ former = {leader}
          /\ member = [n \in Node |-> IF n = leader THEN "ready" ELSE "replica"]
          /\ srv = [n \in Node |-> IF n = leader THEN "master" ELSE "replica"]
          /\ disk = [n \in Node |-> [sys |-> 2, wal |-> <<1>>, ctl |-> 1,
                                state |-> IF n = leader THEN "dirty" ELSE "standby"]]
          /\ mem = [n \in Node |-> [Mem0 EXCEPT !.cb = TRUE,
                        !.rw = IF n = leader THEN "checkpoint" ELSE "not_need"]]
    /\ pc = [n \in Node |-> "idle"] /\ view = [n \in Node |-> NoView]
    /\ job = [n \in Node |-> "none"] /\ src = [n \in Node |-> NoView]
    /\ asked = [n \in Node |-> FALSE]
    /\ events = 0 /\ calm = TRUE /\ stale = {}

Next == \E n \in Node : Cycle(n) \/ Background(n)
        \/ Environment

Spec == Init /\ [][Next]_vars

----------------------------------------------------------------------------
\* Properties.

Disk == [sys : Nat, wal : Seq(Nat), ctl : Nat,
         state : {"clean", "standby", "dirty"}]

View == [leader : Node \cup {None}, init : Nat,
         ready : {"absent", "replica", "wait", "ready"}]

Memory == [rw : {"initial", "checkpoint", "check", "need", "not_need", "success", "failed"},
           task : {"none", "running", "done", "failed"}, boot : BOOLEAN,
           resp : {"none", "ok", "failed"}, tried : BOOLEAN,
           recovering : BOOLEAN, cb : BOOLEAN]

Pc == {"idle", "loaded", "publish", "take", "cancel", "moving"}

Job == {"none", "bootstrap", "post_bootstrap", "clone", "copy", "start", "start standby",
        "crash recovery", "rewind", "pg_rewind", "promote", "reinitialize"}

\* Types.
TypeOK ==
    /\ init \in Nat /\ leader \in Node \cup {None}
    /\ member \in [Node -> {"absent", "replica", "wait", "ready"}]
    /\ up \in [Node -> BOOLEAN] /\ srv \in [Node -> {"down", "replica", "master"}]
    /\ disk \in [Node -> Disk] /\ \A n \in Node : Len(disk[n].wal) <= MaxWal
    /\ mem \in [Node -> Memory] /\ pc \in [Node -> Pc] /\ view \in [Node -> View]
    /\ job \in [Node -> Job] /\ src \in [Node -> View]
    /\ asked \in [Node -> BOOLEAN] /\ how \in {"rewind", "reinitialize"}
    /\ systems \in Nat /\ events \in 0..MaxEvents
    /\ calm \in BOOLEAN /\ former \subseteq Node /\ stale \subseteq Node

\* The node that bootstraps, until it has published the system identifier or given up.
Bootstraps(n) == pc[n] # "moving" /\ (mem[n].boot \/ pc[n] \in {"publish", "cancel"})

\* Types, and: one node at a time bootstraps, and the initialize key says so meanwhile.
LifeInv ==
    /\ TypeOK
    /\ calm => \A n \in Node : Bootstraps(n) =>
            init = InProgress /\ \A m \in Node : Bootstraps(m) => m = n

\* Without a removal of the cluster there is one system: whatever has a system identifier
\* has the one of the initialize key, as long as that is written at all.
OneCluster ==
    calm => \A n, m \in Node :
        Valid(disk[n].sys) /\ Valid(disk[m].sys) /\ "moving" \notin {pc[n], pc[m]}
        => disk[n].sys = disk[m].sys /\ (Valid(init) => init = disk[n].sys)

\* A node that was a primary and runs as a standby is to be checked, is to be repaired, or
\* could not be, from its first cycle on.  former: the nodes that were a primary since their
\* data were copied or rewound, or a check found nothing; recover() asks for no check of a
\* node that has the lock, or whose rewind has succeeded.
FormerIsChecked ==
    \A n \in former : srv[n] = "replica" /\ mem[n].cb => mem[n].rw \in {"check", "need", "failed"}

\* A rewind that succeeds leaves the log of the leader, if the leader is on another timeline.
\* stale: the nodes whose leader was promoted, again, after they read that it may be used.
RewindWorks ==
    [][\A n \in Node \ stale : LET l == src[n].leader IN
          /\ job[n] = "pg_rewind" /\ mem'[n].rw = "success" /\ mem[n].rw # "success"
          /\ Tl(n) # Tl(l)
          => IsPrefixOf(disk'[n].wal, disk[l].wal)]_vars

\* A leader that runs as a primary never loses its data because of a request.
LeaderKeepsData ==
    [][\A n \in Node : srv[n] = "master" /\ leader = n => job'[n] # "reinitialize"]_vars
=============================================================================
