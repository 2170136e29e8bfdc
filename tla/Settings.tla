------------------------------ MODULE Settings ------------------------------
(***************************************************************************)
(* How a change of the configuration comes into effect on a node, and what *)
(* it meets on its way: the /config key that the REST API and patronictl   *)
(* write, the local file and the signal to read it, the Config object that *)
(* merges both, reload_config of the watchdog, of the server and of the    *)
(* DCS object, the HA loop that renews the lock and pets the device with   *)
(* the new values, and restarts, at once or scheduled.                     *)
(*                                                                         *)
(* The configuration is cut down to the ttl (0 stands for a value that is  *)
(* not a number), one parameter of the server that takes a restart, and    *)
(* the mode of the watchdog.  Pause, and whatever other nodes do but for   *)
(* the lock, are left out; so is a close() of the device that fails.       *)
(***************************************************************************)
EXTENDS Naturals

CONSTANTS Margin, LoopWait,     \* safety_margin, loop_wait
          Fixed,                \* timeout of a device that does not take another one
          MaxEvents             \* bound: requests, edits, faults

ASSUME SettingsAssumption ==
    {Margin, LoopWait, Fixed, MaxEvents} \subseteq Nat

VARIABLES
    cfg, client,            \* DCS: /config; a PATCH or edit-config past its read
    file, sighup,           \* the local file, the flag of the signal handler
    conf,                   \* the Config object and its cache file
    pc, view,               \* the main loop and the /config it has read
    lock, primary, lease,   \* the leader key is ours; role; the ttl it was renewed with
    wd,                     \* the watchdog facade and its device
    ttl,                    \* the ttl of the DCS object
    pg, job,                \* the server as Patroni knows it, the long action
    sched,                  \* the scheduled restart
    events, want, flaws    \* faults and requests; history, see the properties

vars == <<cfg, client, file, sighup, conf, pc, view, lock, primary, lease, wd, ttl, pg, job,
          sched, events, want, flaws>>

dcs == <<cfg, client>>
local == <<file, sighup>>
role == <<lock, primary, lease>>
server == <<pg, job>>
aux == <<events, want, flaws>>

Ttls == 0..3                       \* 1 is too short for a watchdog
Values == [ttl : Ttls, par : {1, 2}]
Modes == {"off", "automatic", "required"}
Absent == [ttl |-> 0, par |-> 0]
ServerPar == 2                     \* what the server was first started with

Event == events < MaxEvents /\ events' = events + 1
Free == UNCHANGED events

Goto(label) == pc' = label

----------------------------------------------------------------------------
\* The Config object.

\* _build_effective_configuration
Effective(c) == [ttl |-> c.dyn.ttl, par |-> c.dyn.par, mode |-> c.mode]

\* set_dynamic_configuration with a ClusterConfig; a value that cannot be built is logged, and
\* its index is remembered all the same.
SetDynamic(c, new) ==
    IF c.seen = new.idx THEN c
    ELSE IF new.val = c.dyn \/ new.val.ttl = 0 THEN [c EXCEPT !.seen = new.idx]
    ELSE [c EXCEPT !.seen = new.idx, !.dyn = new.val, !.save = TRUE]

----------------------------------------------------------------------------
\* The watchdog facade.

Timeout(t) == IF t > Margin THEN t - Margin ELSE 0

\* get_impl: a Linux device that is not open yet.
Device(w) == [w EXCEPT !.impl = "device", !.open = FALSE]
Null(w) == [w EXCEPT !.impl = "null", !.open = FALSE]

\* Whether the device takes this timeout.
Takes(w, t) == ~w.fixed /\ t > 0

\* _activate, once the device has opened, or could not be (opens = FALSE).
Activate(w, opens) ==
    LET act == [w EXCEPT !.act = w.conf]
        new == Timeout(w.conf.ttl)
        dev == IF w.fixed THEN Fixed ELSE new
    IN  CASE new < LoopWait \/ w.impl = "null" \/ ~opens -> Null(act)
          [] dev < LoopWait -> Null(act)
          [] OTHER -> [act EXCEPT !.open = TRUE, !.dev = dev]

\* What activate() returns, for the facade it leaves.
Activated(w) ==
    w.conf.mode = "required" => w.open /\ w.dev <= Timeout(w.conf.ttl)

\* reload_config.  Turned off while active it closes the device, and stays active.
ReloadWatchdog(w, eff) ==
    LET new == [mode |-> eff.mode, ttl |-> eff.ttl]
        w1 == [w EXCEPT !.conf = new]
        w2 == IF new.mode = "off" THEN [Null(w1) EXCEPT !.act = new] ELSE w1
    IN  IF w.active THEN w2 ELSE [w2 EXCEPT !.act = new]

\* disable
Disable(w) == [w EXCEPT !.open = FALSE, !.active = FALSE]

\* demote disables a watchdog whose device runs, when the server has stopped.
Demoted(w) == IF w.open THEN Disable(w) ELSE w

\* Mutant: the timeout of the device is left alone.
KeepaliveOnly(w, opens) ==
    IF ~w.active \/ w.conf = w.act THEN w
    ELSE IF w.conf.mode # "off" /\ w.act.mode = "off" THEN Activate(Device(w), opens) ELSE w

\* keepalive: the pending changes of the configuration are applied; active_config is not set
\* when only the timeout changes.
Keepalive(w, opens) ==
    IF ~w.active \/ w.conf = w.act THEN w
    ELSE LET w1 == IF w.conf.mode # "off" /\ w.act.mode = "off"
                   THEN Activate(Device(w), opens) ELSE w
             new == Timeout(w1.conf.ttl)
         IN  IF new # Timeout(w1.act.ttl) /\ w1.open /\ Takes(w1, new)
             THEN [w1 EXCEPT !.dev = new] ELSE w1

Renewed == lease' = ttl

----------------------------------------------------------------------------
\* reload_config of the daemon: watchdog, server, DCS object, in this order; an exception of
\* one leaves out those that follow, and only a message says so.

\* The ttl of an active watchdog goes back to the one of its activation.
Back == IF wd.active /\ wd.conf.ttl # wd.act.ttl /\ wd'.conf.ttl = wd.act.ttl
        THEN flaws \cup {"back"} ELSE flaws

\* set_ttl.  On Consul and ZooKeeper another ttl takes another session, and the leader key of the
\* old one goes (Consul: the next load_cluster deletes it; nobody reads it in between).  The
\* other back-ends keep the key.
SetTtl(new) ==
    /\ ttl' = new
    /\ \/ UNCHANGED lock
       \/ new # ttl /\ lock' = FALSE

\* The server counts as running unless a long action is under way.
Running == pg.up /\ job = "none"

Reload(c) ==
    LET eff == Effective(c)
    IN  /\ wd' = ReloadWatchdog(wd, eff)
        /\ \/ /\ pg' = [pg EXCEPT !.par = eff.par, !.pending = Running /\ eff.par # ServerPar]
              /\ SetTtl(eff.ttl)
              /\ flaws' = Back \ {"reload"} /\ Free
           \/ /\ Running /\ Event        \* the query of the current settings fails
              /\ flaws' = Back \cup {"reload"} /\ UNCHANGED <<pg, ttl, lock>>
        /\ UNCHANGED <<primary, lease>>

----------------------------------------------------------------------------
\* The main loop.

\* run: the flag is reset before the file is read.
TakeSignal ==
    /\ pc = "top" /\ sighup
    /\ sighup' = FALSE /\ Goto("read")
    /\ UNCHANGED <<dcs, file, conf, view, role, wd, ttl, server, sched, aux>>

\* reload_local_configuration
ReadLocal ==
    /\ pc = "read" /\ Goto("reload")
    /\ conf' = IF file = "broken" THEN conf ELSE [conf EXCEPT !.mode = file]
    /\ UNCHANGED <<dcs, local, view, role, wd, ttl, server, sched, aux>>

\* Mutant: the flag is reset when the file has been read.
ReloadAndReset ==
    /\ pc = "reload" /\ Goto("cycle")
    /\ Reload(conf) /\ sighup' = FALSE
    /\ UNCHANGED <<dcs, file, conf, view, job, sched, want>>

\* reload_config, whatever the reading has returned.
ReloadConfig ==
    /\ pc = "reload" /\ Goto("cycle")
    /\ Reload(conf)
    /\ UNCHANGED <<dcs, local, conf, view, job, sched, want>>

NoSignal ==
    /\ pc = "top" /\ ~sighup /\ Goto("cycle")
    /\ UNCHANGED <<dcs, local, conf, view, role, wd, ttl, server, sched, aux>>

\* The leader writes the configuration that it runs with if the key is gone.
LoadCluster ==
    /\ pc = "cycle" /\ Goto("ha")
    /\ IF cfg.val = Absent /\ lock
       THEN /\ cfg' = [idx |-> cfg.idx + 1, val |-> conf.dyn]
            /\ want' = [want EXCEPT !.ttl = conf.dyn.ttl, !.par = conf.dyn.par]
       ELSE UNCHANGED <<cfg, want>>
    /\ view' = cfg'
    /\ UNCHANGED <<client, local, conf, role, wd, ttl, server, sched, events, flaws>>

\* A device that does not run may fail to open.
MayOpen(opens) == IF opens THEN Free ELSE ~wd.open /\ Event

\* update_lock, and no more
UpdateLock ==
    /\ Renewed /\ flaws' = flaws \ {"retaken"}
    /\ \E opens \in BOOLEAN : MayOpen(opens) /\ wd' = Keepalive(wd, opens)

\* demote, but for what becomes of the watchdog
Demote ==
    /\ lock' = FALSE /\ primary' = FALSE /\ pg' = [pg EXCEPT !.up = FALSE]
    /\ flaws' = flaws \ {"back", "retaken"}

\* handle_long_action_in_progress: a primary that has lost its key is demoted.
LongAction ==
    /\ pc = "ha" /\ job # "none" /\ Goto("apply")
    /\ \/ lock /\ UpdateLock /\ UNCHANGED <<lock, primary, pg>>
       \/ ~lock /\ primary /\ Demote /\ wd' = Demoted(wd) /\ Free /\ UNCHANGED lease
       \/ ~lock /\ ~primary /\ Free /\ UNCHANGED <<role, wd, pg, flaws>>
    /\ UNCHANGED <<dcs, local, conf, view, ttl, job, sched, want>>

\* The server is down: it is started again, as a standby.
Recover ==
    /\ pc = "ha" /\ job = "none" /\ ~pg.up /\ Goto("apply")
    /\ job' = "start" /\ primary' = FALSE /\ wd' = Disable(wd)
    /\ flaws' = flaws \ {"back", "retaken"}
    /\ IF lock THEN Renewed ELSE UNCHANGED lease
    /\ UNCHANGED <<dcs, local, conf, view, lock, ttl, pg, sched, events, want>>

Healthy == pc = "ha" /\ job = "none" /\ pg.up

\* enforce_master_role, for the watchdog w: if its device does not run it is activated first;
\* if it has to be and cannot, the key is given back, and a primary demoted.
EnforceMasterRole(w, opens) ==
    LET new == IF w.open THEN w ELSE [Activate(w, opens) EXCEPT !.active = TRUE]
    IN  IF w.open \/ Activated(new)
        THEN wd' = new /\ lock' = TRUE /\ primary' = TRUE /\ UNCHANGED <<pg, job>>
        ELSE IF primary
        THEN wd' = Demoted(new) /\ lock' = FALSE /\ primary' = FALSE
             /\ pg' = [pg EXCEPT !.up = FALSE] /\ job' = "start"
        ELSE wd' = new /\ lock' = FALSE /\ UNCHANGED <<primary, pg, job>>

\* process_healthy_cluster, with the lock
Lead ==
    /\ Healthy /\ lock /\ Goto("evaluate")
    /\ Renewed /\ flaws' = flaws \ {"retaken"}
    /\ \E opens \in BOOLEAN :
          MayOpen(opens) /\ EnforceMasterRole(Keepalive(wd, opens), opens)
    /\ UNCHANGED <<dcs, local, conf, view, ttl, sched, want>>

\* The renewal fails.
LoseLock ==
    /\ Healthy /\ lock /\ Event /\ Goto("apply")
    /\ IF primary THEN Demote /\ wd' = Demoted(wd) /\ job' = "start"
       ELSE lock' = FALSE /\ UNCHANGED <<primary, wd, flaws, server>>
    /\ UNCHANGED <<dcs, local, conf, view, lease, ttl, sched, want>>

\* process_unhealthy_cluster: there is no leader, and this node wins the race.  The key is new,
\* and the device of a primary is neither activated again nor sent a keepalive.
AcquireLock ==
    /\ Healthy /\ ~lock /\ Goto("apply")
    /\ Renewed
    /\ flaws' = IF primary /\ wd.open THEN flaws \cup {"retaken"} ELSE flaws
    /\ \E opens \in BOOLEAN : MayOpen(opens) /\ EnforceMasterRole(wd, opens)
    /\ UNCHANGED <<dcs, local, conf, view, ttl, sched, want>>

\* follow: there is another leader, or this node has not become it.
Follow ==
    /\ Healthy /\ ~lock /\ pc' \in {"apply", "evaluate"}
    /\ IF primary THEN Demote /\ wd' = Demoted(wd) /\ job' = "start"
       ELSE UNCHANGED <<lock, primary, wd, flaws, server>>
    /\ Free
    /\ UNCHANGED <<dcs, local, conf, view, lease, ttl, sched, want>>

\* set_dynamic_configuration, and reload_config if it changed something.
ApplyDynamic ==
    /\ pc = "apply" /\ Goto("save")
    /\ LET c == IF view.val = Absent THEN conf ELSE SetDynamic(conf, view)
       IN  /\ conf' = c
           /\ IF c.dyn # conf.dyn THEN Reload(c)
              ELSE Free /\ UNCHANGED <<wd, pg, ttl, role, flaws>>
    /\ UNCHANGED <<dcs, local, view, job, sched, want>>

\* save_cache; when it fails the next cycle tries again.
SaveCache ==
    /\ pc = "save" /\ Goto("top")
    /\ \/ Free /\ conf' = [conf EXCEPT !.cache = IF conf.save THEN conf.dyn ELSE @, !.save = FALSE]
       \/ Event /\ conf.save /\ UNCHANGED conf
    /\ UNCHANGED <<dcs, local, view, role, wd, ttl, server, sched, want, flaws>>

----------------------------------------------------------------------------
\* Restarts.  The executor lock is held for a whole cycle of the HA loop.

LockFree == pc \notin {"ha", "evaluate", "sleep"}
NoRestart == [set |-> FALSE, start |-> 0, pending |-> FALSE]

\* schedule_future_restart; the start time is unknown (0) if the server is down.
ScheduleFutureRestart ==
    /\ Event /\ LockFree /\ ~sched.set
    /\ \E pending \in BOOLEAN :
       sched' = [set |-> TRUE, start |-> IF pg.up THEN pg.start ELSE 0, pending |-> pending]
    /\ UNCHANGED <<dcs, local, conf, pc, view, role, wd, ttl, server, want, flaws>>

\* delete_future_restart
DeleteFutureRestart ==
    /\ LockFree /\ sched.set /\ sched' = NoRestart
    /\ UNCHANGED <<dcs, local, conf, pc, view, role, wd, ttl, server, aux>>

\* Mutant: the lock of the executor is not taken.
RestartAtOnce ==
    /\ Event /\ job = "none"
    /\ job' = "restart"
    /\ UNCHANGED <<dcs, local, conf, pc, view, role, wd, ttl, pg, sched, want, flaws>>

\* POST restart
Restart ==
    /\ Event /\ LockFree /\ job = "none"
    /\ job' = "restart"
    /\ UNCHANGED <<dcs, local, conf, pc, view, role, wd, ttl, pg, sched, want, flaws>>

\* effective_configuration: a standby does not start with less than its data directory asks for.
KeepsOldPar == ~primary /\ pg.par < ServerPar

\* The server stops and starts, or fails to.
StartServer ==
    /\ job # "none" /\ job' = "none"
    /\ \/ /\ Free
          /\ pg' = [pg EXCEPT !.up = TRUE, !.start = @ + 1, !.pending = KeepsOldPar]
       \/ Event /\ pg' = [pg EXCEPT !.up = FALSE, !.pending = FALSE]
    /\ UNCHANGED <<dcs, local, conf, pc, view, role, wd, ttl, sched, want, flaws>>

\* evaluate_scheduled_restart: a restart since the request cancels it.  It is in the future,
\* too long ago, or due.
Evaluate ==
    /\ pc = "evaluate"
    /\ IF job # "none" \/ ~sched.set THEN Goto("apply") /\ UNCHANGED sched
       ELSE IF 0 \notin {sched.start, pg.start} /\ sched.start # pg.start
       THEN Goto("apply") /\ sched' = NoRestart
       ELSE \/ Goto("apply") /\ UNCHANGED sched
            \/ Goto("apply") /\ sched' = NoRestart
            \/ Goto("sleep") /\ UNCHANGED sched
    /\ UNCHANGED <<dcs, local, conf, view, role, wd, ttl, server, aux>>

\* The time has come; restart_matches
RestartMatches == sched.pending => pg.pending

RunScheduledRestart ==
    /\ pc = "sleep" /\ Goto("apply")
    /\ job' = IF RestartMatches /\ job = "none" THEN "restart" ELSE job
    /\ sched' = NoRestart
    /\ UNCHANGED <<dcs, local, conf, view, role, wd, ttl, pg, aux>>

----------------------------------------------------------------------------
\* Clients of the configuration.

Write(val) == cfg' = [idx |-> cfg.idx + 1, val |-> val]

Clients == UNCHANGED <<local, conf, pc, view, role, wd, ttl, server, sched, flaws>>

NoClient == [idx |-> 0, val |-> Absent]

\* PATCH /config and patronictl edit-config: read, and write if the index has not moved.
ReadConfig ==
    /\ Event /\ cfg.val # Absent /\ client = NoClient
    /\ client' = cfg
    /\ UNCHANGED <<cfg, want>> /\ Clients

PatchConfig ==
    /\ client # NoClient /\ client' = NoClient
    /\ IF client.idx = cfg.idx
       THEN \/ \E t \in Ttls :
                 Write([client.val EXCEPT !.ttl = t]) /\ want' = [want EXCEPT !.ttl = t]
            \/ \E p \in {1, 2} :
                 Write([client.val EXCEPT !.par = p]) /\ want' = [want EXCEPT !.par = p]
       ELSE UNCHANGED <<cfg, want>>
    /\ Free /\ Clients

\* PUT /config replaces the value.
PutConfig ==
    /\ Event /\ cfg.val # Absent
    /\ \E v \in Values :
         Write(v) /\ v # cfg.val /\ want' = [want EXCEPT !.ttl = v.ttl, !.par = v.par]
    /\ UNCHANGED client /\ Clients

\* The DCS loses the key.
WipeConfig ==
    /\ Event /\ cfg.val # Absent
    /\ cfg' = [cfg EXCEPT !.val = Absent]
    /\ UNCHANGED <<client, want>> /\ Clients

EditFile ==
    /\ Event
    /\ \E f \in Modes \cup {"broken"} : f # file /\ file' = f
    /\ want' = [want EXCEPT !.files = @ \cup {file'}]
    /\ UNCHANGED <<dcs, sighup, conf, pc, view, role, wd, ttl, server, sched, flaws>>

\* SIGHUP, POST /reload, patronictl reload.
Signal ==
    /\ Event
    /\ sighup' = TRUE
    /\ want' = [want EXCEPT !.files = {file}]
    /\ UNCHANGED <<dcs, file, conf, pc, view, role, wd, ttl, server, sched, flaws>>

CrashServer ==
    /\ Event /\ pg.up /\ job = "none" /\ pg' = [pg EXCEPT !.up = FALSE]
    /\ UNCHANGED <<dcs, local, conf, pc, view, role, wd, ttl, job, sched, want, flaws>>

\* Patroni is stopped and started: the file, the cache, then the DCS.
RestartPatroni ==
    /\ Event /\ file # "broken" /\ LockFree /\ job = "none"
    /\ LET old == [conf EXCEPT !.mode = file, !.dyn = conf.cache, !.seen = 0, !.save = FALSE]
           c == IF cfg.val = Absent THEN old ELSE SetDynamic(old, cfg)
           eff == Effective(c)
           new == [mode |-> eff.mode, ttl |-> eff.ttl]
       IN  /\ conf' = c /\ ttl' = eff.ttl
           /\ wd' = [wd EXCEPT !.conf = new, !.act = new, !.active = FALSE, !.open = FALSE,
                               !.impl = IF eff.mode = "off" THEN "null" ELSE "device"]
           /\ pg' = [pg EXCEPT !.up = FALSE, !.par = eff.par, !.pending = FALSE]
    /\ want' = [want EXCEPT !.files = {file}]
    /\ sighup' = FALSE /\ Goto("top") /\ sched' = NoRestart
    /\ lock' = FALSE /\ primary' = FALSE /\ flaws' = {}
    /\ UNCHANGED <<dcs, file, view, lease, job>>

----------------------------------------------------------------------------
Loop ==
    \/ TakeSignal \/ ReadLocal \/ ReloadConfig \/ NoSignal \/ LoadCluster
    \/ LongAction \/ Recover \/ Lead \/ LoseLock \/ AcquireLock \/ Follow
    \/ Evaluate \/ RunScheduledRestart \/ ApplyDynamic \/ SaveCache

Environment ==
    \/ ScheduleFutureRestart \/ DeleteFutureRestart \/ Restart
    \/ ReadConfig \/ PatchConfig \/ PutConfig \/ WipeConfig
    \/ EditFile \/ Signal \/ CrashServer \/ RestartPatroni

Next == Loop \/ StartServer \/ Environment

\* A node that has just started.
Init ==
    LET first == [ttl |-> 2, par |-> ServerPar]
    IN  \E mode \in Modes, fixed \in BOOLEAN :
        /\ cfg = [idx |-> 1, val |-> first] /\ client = NoClient
        /\ file = mode /\ sighup = FALSE
        /\ conf = [dyn |-> first, seen |-> 1, mode |-> mode, cache |-> first, save |-> FALSE]
        /\ pc = "top" /\ view = cfg
        /\ lock = FALSE /\ primary = FALSE /\ lease = 2
        /\ wd = [conf |-> [mode |-> mode, ttl |-> 2], act |-> [mode |-> mode, ttl |-> 2],
                 impl |-> IF mode = "off" THEN "null" ELSE "device",
                 active |-> FALSE, open |-> FALSE, dev |-> 0, fixed |-> fixed]
        /\ ttl = 2
        /\ pg = [up |-> TRUE, start |-> 1, par |-> ServerPar, pending |-> FALSE] /\ job = "none"
        /\ sched = NoRestart
        /\ events = 0 /\ flaws = {}
        /\ want = [ttl |-> 2, par |-> ServerPar, files |-> {mode}]

Spec == Init /\ [][Next]_vars

\* The loop goes on, and so does a long action; signals and clients may come or not.
FairSpec == Spec /\ WF_vars(Loop) /\ WF_vars(StartServer)

----------------------------------------------------------------------------
\* Properties.

\* When the leader has renewed its key, or has taken it, an armed device fires before the key
\* expires.  Excepted: a device that takes no timeout, or not this one; a configuration that is
\* again the one the watchdog was activated with (keepalive then sees no change); and a reload
\* that failed halfway.
TimeoutMatches ==
    /\ primary /\ wd.open /\ pc \in {"apply", "evaluate", "sleep"}
    /\ Takes(wd, Timeout(wd.conf.ttl)) /\ flaws \subseteq {"retaken"}
    => wd.dev <= Timeout(lease)

\* The same, but for the key that a primary loses to a new ttl and takes again, up to the first
\* renewal of that key: taking it changes nothing of the device.
DeviceWithinLease == "retaken" \notin flaws => TimeoutMatches

\* A scheduled restart does not run when the server has been restarted since it was accepted.
RestartedOnce ==
    [][pc = "sleep" /\ job' # job /\ sched.start # 0 => pg.start = sched.start]_vars

\* What the clients were told has been done comes into effect: the last accepted value of
\* every setting, and the file as it was at the last signal or later.  Excepted: a value that
\* is not a number, a file that is not valid, a key that is lost, and a reload that failed halfway.
InEffect ==
    /\ want.ttl # 0 /\ cfg.val # Absent /\ "reload" \notin flaws
          => ttl = want.ttl /\ wd.conf.ttl = want.ttl /\ pg.par = want.par
    /\ "broken" \in want.files \/ conf.mode \in want.files

Converges == <>[]InEffect
=============================================================================
