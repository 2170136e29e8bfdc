----------------------------- MODULE Switchover -----------------------------
(***************************************************************************)
(* Manual switchover and failover, and the race of the nodes for a lock    *)
(* that nobody holds: the REST requests that write, poll and delete the    *)
(* failover key (api.py), patronictl that writes it by itself when the     *)
(* REST call breaks off (ctl.py), and the HA loop that reads the cluster   *)
(* into a view, decides from the view and from what the other members      *)
(* answer, and acts later (ha.py).                                         *)
(*                                                                         *)
(* synchronous_mode, check_timeline and standby_cluster are off.  A node   *)
(* asks all members at one moment; what it decides then is acted upon in a *)
(* later step.  Time is a clock with three values: a scheduled switchover  *)
(* is due at 1 and stale at 2.                                             *)
(***************************************************************************)
EXTENDS Naturals, FiniteSets

CONSTANTS Node, None,
          Tagged,        \* the nodes with the nofailover tag
          MaxWal, MaxLag,
          MaxRequests, MaxEvents    \* bounds; a fault or a pause counts 1, request q counts q

ASSUME SwitchoverAssumption ==
    /\ IsFiniteSet(Node) /\ None \notin Node /\ Tagged \subseteq Node
    /\ {MaxWal, MaxLag, MaxRequests, MaxEvents} \subseteq Nat

VARIABLES
    leader, key, paused, optime,            \* the keys of the DCS
    clock, events,                          \* time, the events so far
    up, srv, fit, wal,                      \* node: alive, server, watchdog, position
    pc, view,                               \* node: the HA loop and self.cluster
    req,                                    \* REST requests and patronictl
    heir, late, calm                        \* history, see the properties

dcs == <<leader, key, paused, optime>>
env == <<clock, events, calm>>
nodes == <<up, srv, fit, wal>>
vars == <<dcs, env, nodes, pc, view, req, heir, late>>

Someone == Node \cup {None}
Request == 1..MaxRequests

----------------------------------------------------------------------------
\* The failover key.  A key without leader and candidate counts as none (__len__).

\* Its index only has to tell the versions apart that somebody may compare it with:
\* <<q, i>> is the i-th key that stems from request q.
NoKey == [leader |-> None, cand |-> None, at |-> None, index |-> <<0, 0>>]

Wanted(f) == f.leader # None \/ f.cand # None

\* manual_failover('', ''), whatever the key is by now, and with the index of a view.
CleanUp == key' = NoKey
CleanUpIf(index) == key' = IF key.index = index THEN NoKey ELSE key

----------------------------------------------------------------------------
\* What GET /patroni of a member tells (_MemberStatus).  A server that is down and
\* no primary has no xlog in its answer, which counts as not reachable.

Limited(m) == ~up[m] \/ srv[m] = "stopped" \/ m \in Tagged \/ ~fit[m]

WalOf(m) == IF srv[m] = "master" THEN 0 ELSE wal[m]

IsLagging(v, position) == v.optime > position + MaxLag

Others(n, ms) == {m \in ms : m # n /\ m \notin Tagged}

IsFailoverPossible(n, v, ms) ==
    \E m \in Others(n, ms) : ~Limited(m) /\ ~IsLagging(v, WalOf(m))

\* _is_healthiest_node
IsAhead(n, v, ms, checkLag) ==
    /\ checkLag => ~IsLagging(v, wal[n])
    /\ \A m \in Others(n, ms) :
          Limited(m) \/ (srv[m] = "replica" /\ wal[m] <= wal[n])

\* A request for now, in pause; its candidate gone and the node still a primary.  Out of
\* pause a dead node does not count, whether its member key is still there or not.
Manual(n, v) == v.paused /\ n \notin Tagged /\ Wanted(v.key) /\ v.key.at = None

MayBeGone(n, v) == v.key.cand \notin {None, n} /\ ~up[v.key.cand] /\ srv[n] = "master"

\* Variants of the code that it does not have; none of the properties survives its own.
ManualTurnWaits(n, v) ==
    \/ v.key.cand = n
    \/ v.key.cand = None /\ IsAhead(n, v, Node \ {v.key.leader}, FALSE)

ManualTurnAny(n, v) == v.key.cand = n \/ IsAhead(n, v, Node \ {v.key.leader}, FALSE)

\* manual_failover_process_no_leader, out of pause: the candidate goes first; the former
\* leader only if nobody else can.
ManualTurn(n, v) ==
    LET f == v.key
        waits == f.cand # None /\ ~Limited(f.cand)
        comesBack == ~IsFailoverPossible(n, v, Node \ {f.cand, n})
    IN  \/ f.cand = n
        \/ ~waits /\ f.leader = n /\ comesBack
        \/ ~waits /\ f.leader # n /\ IsAhead(n, v, Node \ {f.leader}, FALSE)

\* is_healthiest_node, for a view v; gone: the member key of the candidate is gone.
IsHealthiestNode(n, v, gone) ==
    IF Manual(n, v) /\ ~gone
    THEN v.key.cand = n
    ELSE \/ srv[n] = "master"
         \/ /\ ~v.paused /\ n \notin Tagged
            /\ IF Wanted(v.key) THEN ManualTurn(n, v) ELSE fit[n] /\ IsAhead(n, v, Node, TRUE)

----------------------------------------------------------------------------
\* History.

\* heir: the candidate of the request when the lock became free, as long as it is able
\* to take over and the request stands.  late: the nodes that saw no leader before the
\* lock was taken the last time, and still act on that.  calm: there was no pause so far.
LockFreed ==
    /\ heir' = IF ~paused /\ key.cand # None /\ ~Limited(key.cand) THEN key.cand ELSE None
    /\ UNCHANGED late
LockTaken(n) ==
    /\ heir' = None
    /\ late' = {m \in Node \ {n} : pc[m] = "race" \/ (pc[m] = "loaded" /\ view[m].leader = None)}
LockKept == UNCHANGED <<heir, late>>
Unable(n) == heir' = IF heir = n THEN None ELSE heir

ReleaseLock(n) ==
    IF leader = n THEN leader' = None /\ LockFreed ELSE UNCHANGED leader /\ LockKept

Event(cost) == events + cost <= MaxEvents /\ events' = events + cost /\ UNCHANGED clock

Goto(n, label) == pc' = [pc EXCEPT ![n] = label]

\* What load_cluster_from_dcs returns.
Cluster == [leader |-> leader, key |-> key, paused |-> paused, optime |-> optime]
NoView == [leader |-> None, key |-> NoKey, paused |-> FALSE, optime |-> 0]

\* The view is kept as long as a decision depends on it.
Leave(n, label) == Goto(n, label) /\ view' = [view EXCEPT ![n] = NoView]

----------------------------------------------------------------------------
\* The HA loop.

\* A replica that follows the leader has nothing to do here, nor has a leader without
\* request that only renews its lock.
Idles(n) ==
    \/ leader \notin {None, n} /\ srv[n] # "master"
    \/ leader = n /\ srv[n] = "master" /\ optime = wal[n] /\ fit[n] /\ ~Wanted(key)

Load(n) ==
    /\ up[n] /\ pc[n] = "idle" /\ ~Idles(n)
    /\ view' = [view EXCEPT ![n] = Cluster]
    /\ Goto(n, "loaded")
    /\ UNCHANGED <<dcs, env, nodes, req>> /\ LockKept

Loaded(n) == up[n] /\ pc[n] = "loaded"

Demoted(n, inPause) ==
    srv' = IF srv[n] = "master" /\ ~inPause THEN [srv EXCEPT ![n] = "replica"] ELSE srv

\* Another node has the lock: a primary demotes itself, or stays a primary in pause.
FollowLeader(n) ==
    /\ Loaded(n) /\ view[n].leader \notin {None, n}
    /\ Demoted(n, view[n].paused) /\ Leave(n, "idle")
    /\ UNCHANGED <<dcs, env, up, fit, wal, req>> /\ LockKept

\* enforce_master_role: the primary goes on, a replica promotes itself; without a
\* watchdog the lock is given back.
EnforceMasterRole(n, inPause) ==
    IF inPause \/ fit[n]
    THEN /\ Leave(n, IF srv[n] = "master" THEN "idle" ELSE "promote")
         /\ UNCHANGED <<leader, srv>> /\ LockKept
    ELSE /\ ReleaseLock(n)
         /\ Leave(n, IF srv[n] = "master" THEN "released" ELSE "idle")
         /\ srv' = IF srv[n] = "master" THEN [srv EXCEPT ![n] = "stopped"] ELSE srv

\* The view says that the node has the lock.
Leads(n) == Loaded(n) /\ view[n].leader = n

NotPrimaryInPause(n) == view[n].paused /\ srv[n] # "master"

WaitForPromotion(n) ==
    /\ Leads(n) /\ NotPrimaryInPause(n)
    /\ IF view[n].key.cand = n THEN UNCHANGED leader /\ LockKept ELSE ReleaseLock(n)
    /\ Leave(n, "idle")
    /\ UNCHANGED <<key, paused, optime, env, nodes, req>>

\* update_leader fails.
LoseLock(n) ==
    /\ Leads(n) /\ ~NotPrimaryInPause(n) /\ leader # n
    /\ Demoted(n, view[n].paused) /\ Leave(n, "idle")
    /\ UNCHANGED <<dcs, env, up, fit, wal, req>> /\ LockKept

Renews(n) == Leads(n) /\ ~NotPrimaryInPause(n) /\ leader = n

\* should_run_scheduled_action
Due(v) == ~v.paused /\ clock = v.key.at
Stale(v) == ~v.paused /\ clock > v.key.at

\* process_manual_failover_from_leader: it is time, and there is somebody to take over.
Applies(v) == Wanted(v.key) /\ (v.key.at # None => Due(v))

MayDemote(n, v) ==
    LET f == v.key
    IN  /\ f.leader \in {None, n} /\ f.cand # n
        /\ f.cand # None \/ ~v.paused
        /\ IsFailoverPossible(n, v, IF f.cand = None THEN Node ELSE {f.cand})

DemoteAndClean(n) ==
    /\ Renews(n) /\ Applies(view[n]) /\ MayDemote(n, view[n])
    /\ optime' = wal[n] /\ CleanUp
    /\ Goto(n, "demote")
    /\ UNCHANGED <<leader, paused, env, nodes, view, req>> /\ LockKept

DemoteWithoutStop(n) ==
    /\ Renews(n) /\ Applies(view[n]) /\ MayDemote(n, view[n])
    /\ optime' = wal[n]
    /\ Goto(n, "stopped")
    /\ UNCHANGED <<leader, key, paused, env, nodes, view, req>> /\ LockKept

\* The graceful demotion starts in the background.
DemoteMyself(n) ==
    /\ Renews(n) /\ Applies(view[n]) /\ MayDemote(n, view[n])
    /\ optime' = wal[n]
    /\ Goto(n, "demote")
    /\ UNCHANGED <<leader, key, paused, env, nodes, view, req>> /\ LockKept

\* No request, or not yet; one that is stale or cannot be met is removed.
KeepLeading(n) ==
    LET v == view[n]
        removes == Applies(v) \/ (Wanted(v.key) /\ v.key.at # None /\ Stale(v))
    IN  /\ Renews(n) /\ ~(Applies(v) /\ MayDemote(n, v))
        /\ IF removes THEN CleanUpIf(v.key.index) ELSE UNCHANGED key
        /\ optime' = wal[n]
        /\ EnforceMasterRole(n, v.paused)
        /\ UNCHANGED <<paused, env, up, fit, wal, req>>

\* The promotion in the background, which may fail; it is cancelled when the lock is lost.
Promote(n) ==
    /\ up[n] /\ pc[n] = "promote"
    /\ \/ (leader = n \/ paused) /\ srv' = [srv EXCEPT ![n] = "master"]
       \/ UNCHANGED srv
    /\ Goto(n, "idle")
    /\ UNCHANGED <<dcs, env, up, fit, wal, view, req>> /\ LockKept

\* demote("graceful"): stop the server, release the lock, start as a replica.
StopServer(n) ==
    /\ up[n] /\ pc[n] = "demote"
    /\ srv' = [srv EXCEPT ![n] = "stopped"]
    /\ Goto(n, "stopped")
    /\ UNCHANGED <<dcs, env, up, fit, wal, view, req, late>> /\ Unable(n)

ReleaseLeaderKeyVoluntarily(n) ==
    /\ up[n] /\ pc[n] = "stopped"
    /\ optime' = IF leader = n THEN wal[n] ELSE optime
    /\ ReleaseLock(n)
    /\ Leave(n, "released")
    /\ UNCHANGED <<key, paused, env, nodes, req>>

Follow(n) ==
    /\ up[n] /\ pc[n] = "released"
    /\ srv' = [srv EXCEPT ![n] = "replica"]
    /\ Goto(n, "idle")
    /\ UNCHANGED <<dcs, env, up, fit, wal, view, req>> /\ LockKept

\* process_unhealthy_cluster
Race(n) ==
    /\ Loaded(n) /\ view[n].leader = None
    /\ \E gone \in BOOLEAN :
         /\ gone => Manual(n, view[n]) /\ MayBeGone(n, view[n])
         /\ IF gone THEN CleanUpIf(view[n].key.index) ELSE UNCHANGED key
         /\ IF IsHealthiestNode(n, view[n], gone)
            THEN Goto(n, "race") /\ UNCHANGED <<view, srv, late>>
            ELSE Leave(n, "idle") /\ Demoted(n, paused) /\ late' = late \ {n}
    /\ UNCHANGED <<leader, paused, optime, env, up, fit, wal, req, heir>>

AcquireLock(n) ==
    /\ up[n] /\ pc[n] = "race"
    /\ IF leader = None
       THEN leader' = n /\ LockTaken(n) /\ Goto(n, "won") /\ UNCHANGED <<view, srv>>
       ELSE /\ Demoted(n, paused) /\ Leave(n, "idle")
            /\ late' = late \ {n} /\ UNCHANGED <<leader, heir>>
    /\ UNCHANGED <<key, paused, optime, env, up, fit, wal, req>>

\* The winner removes the key, whatever it is by now, and reads the cluster again.
CleanUpAfterRace(n) ==
    /\ up[n] /\ pc[n] = "won"
    /\ LET f == view[n].key
       IN  CASE ~Wanted(f) -> UNCHANGED key
             [] view[n].paused /\ f.leader # None /\ f.cand # None ->
                    key' = IF key.index = f.index
                           THEN [f EXCEPT !.leader = None, !.index[2] = @ + 2] ELSE key
             [] OTHER -> CleanUp
    /\ EnforceMasterRole(n, paused)
    /\ UNCHANGED <<paused, optime, env, up, fit, wal, req>>

----------------------------------------------------------------------------
\* REST requests.  st: "new", "checked", "polling", "failed" or another answer ("closed").
\* patronictl sends the request to the leader, or to the candidate if there is none.

NoRequest == [st |-> "new", leader |-> None, cand |-> None, at |-> None,
              base |-> None, over |-> FALSE]

Via(q) == IF req[q].base # None THEN req[q].base ELSE req[q].cand

Closed == [NoRequest EXCEPT !.st = "closed"]
Failed(q) == [NoRequest EXCEPT !.st = "failed", !.over = req[q].over]

\* is_failover_possible of the API: it asks the candidates, whatever their position.
Possible(l, c) ==
    /\ l # None => l = leader
    /\ \E m \in (IF c # None THEN {c} ELSE Node \ {leader}) : ~Limited(m)

\* do_POST_failover, do_POST_switchover up to the write of the key.
PostFailover(q, action, l, c, at) ==
    /\ req[q].st = "new" /\ \A r \in Request : r < q => req[r].st # "new"
    /\ CASE action = "failover" -> c # None [] action = "switchover" -> l # None
    /\ IF at = None THEN Possible(l, c) ELSE l # None /\ ~paused /\ clock < at
    /\ paused => c # None
    /\ leader # None \/ c # None
    /\ up[IF leader # None THEN leader ELSE c]
    /\ req' = [req EXCEPT ![q] = [NoRequest EXCEPT !.st = "checked", !.leader = l,
                                 !.cand = c, !.at = at, !.base = leader]]
    /\ Event(q) /\ UNCHANGED <<dcs, calm, nodes, pc, view>> /\ LockKept

\* The key is written over whatever another request has written.
WriteKey(q, version) ==
    /\ key' = [leader |-> req[q].leader, cand |-> req[q].cand, at |-> req[q].at,
               index |-> <<q, version>>]
    /\ heir' = None
    /\ UNCHANGED <<leader, paused, optime, env, nodes, pc, view, late>>

Overwrite == [r \in Request |-> [req[r] EXCEPT !.over = @ \/ req[r].st = "polling"]]

PostWrites(q) ==
    /\ req[q].st = "checked" /\ up[Via(q)]
    /\ WriteKey(q, 1)
    /\ req' = [Overwrite EXCEPT ![q] = IF req[q].at = None THEN [req[q] EXCEPT !.st = "polling"]
                                      ELSE Closed]

\* poll_failover_result asks once per second; it may also give up, which changes nothing.
Poll(q) ==
    /\ req[q].st = "polling" /\ up[Via(q)]
    /\ \/ leader \notin {None, req[q].base} /\ req' = [req EXCEPT ![q] = Closed]
       \/ leader \in {None, req[q].base} /\ ~Wanted(key) /\ req' = [req EXCEPT ![q] = Failed(q)]
    /\ UNCHANGED <<dcs, env, nodes, pc, view>> /\ LockKept

\* patronictl: the call of the API breaks off, the key is written into the DCS directly.
FallBackToDcs(q) ==
    /\ req[q].st \in {"checked", "polling"} /\ ~up[Via(q)]
    /\ WriteKey(q, 2)
    /\ req' = [Overwrite EXCEPT ![q] = Closed]

\* do_DELETE_switchover and flush of patronictl: a compare-and-set with the index just
\* read does nothing unless nothing came in between, so it is one step.
DeleteSwitchover ==
    /\ Wanted(key) /\ key.at # None
    /\ CleanUp /\ heir' = None
    /\ UNCHANGED <<leader, paused, optime, env, nodes, pc, view, req, late>>

\* patronictl pause and resume.
TogglePause ==
    /\ Event(1) /\ paused' = ~paused /\ calm' = FALSE
    /\ UNCHANGED <<leader, key, optime, nodes, pc, view, req>> /\ LockKept

----------------------------------------------------------------------------
\* Servers, time and faults.

\* The primary writes nothing; a replica catches up with it step by step.
Replicate(n, m) ==
    /\ up[n] /\ srv[n] = "master" /\ up[m] /\ srv[m] = "replica" /\ wal[m] < wal[n]
    /\ wal' = [wal EXCEPT ![m] = @ + 1]
    /\ UNCHANGED <<dcs, env, up, srv, fit, pc, view, req>> /\ LockKept

\* Time matters to a scheduled request only.
Tick ==
    /\ clock < 2 /\ clock' = clock + 1
    /\ {key.at} \cup {view[n].key.at : n \in Node} \cup {req[q].at : q \in Request} # {None}
    /\ UNCHANGED <<dcs, events, calm, nodes, pc, view, req>> /\ LockKept

Crash(n) ==
    /\ Event(1) /\ up[n]
    /\ up' = [up EXCEPT ![n] = FALSE] /\ srv' = [srv EXCEPT ![n] = "stopped"]
    /\ Unable(n) /\ late' = late \ {n}
    /\ Leave(n, "idle")
    /\ UNCHANGED <<dcs, calm, fit, wal, req>>

WatchdogFails(n) ==
    /\ Event(1) /\ fit[n]
    /\ fit' = [fit EXCEPT ![n] = FALSE]
    /\ Unable(n)
    /\ UNCHANGED <<dcs, calm, up, srv, wal, pc, view, req, late>>

LeaderExpires ==
    /\ leader # None /\ ~up[leader]
    /\ leader' = None /\ LockFreed
    /\ UNCHANGED <<key, paused, optime, env, nodes, pc, view, req>>

\* In pause a primary goes on when it cannot renew its lock.
LeaderUnreachable ==
    /\ Event(1) /\ leader # None /\ up[leader] /\ paused /\ srv[leader] = "master"
    /\ leader' = None /\ LockFreed
    /\ UNCHANGED <<key, paused, optime, calm, nodes, pc, view, req>>

----------------------------------------------------------------------------
Cycle(n) ==
    \/ Load(n) \/ FollowLeader(n) \/ WaitForPromotion(n) \/ LoseLock(n)
    \/ DemoteMyself(n) \/ KeepLeading(n) \/ Race(n) \/ AcquireLock(n) \/ CleanUpAfterRace(n)

Background(n) ==
    Promote(n) \/ StopServer(n) \/ ReleaseLeaderKeyVoluntarily(n) \/ Follow(n)

Client ==
    \/ \E q \in Request : PostWrites(q) \/ Poll(q) \/ FallBackToDcs(q)
    \/ \E q \in Request, action \in {"failover", "switchover"},
         l, c \in Someone, at \in {None, 1} : PostFailover(q, action, l, c, at)
    \/ DeleteSwitchover \/ TogglePause

Environment ==
    \/ \E n \in Node : Crash(n) \/ WatchdogFails(n)
    \/ \E n, m \in Node : Replicate(n, m)
    \/ Tick \/ LeaderExpires \/ LeaderUnreachable

Init ==
    /\ leader \in Node \ Tagged
    /\ key = NoKey /\ paused = FALSE /\ optime = MaxWal
    /\ clock = 0 /\ events = 0
    /\ up = [n \in Node |-> TRUE] /\ fit = [n \in Node |-> TRUE]
    /\ srv = [n \in Node |-> IF n = leader THEN "master" ELSE "replica"]
    /\ wal \in {w \in [Node -> 0..MaxWal] : w[leader] = MaxWal}
    /\ pc = [n \in Node |-> "idle"] /\ view = [n \in Node |-> NoView]
    /\ req = [q \in Request |-> NoRequest]
    /\ heir = None /\ late = {} /\ calm = TRUE

Next ==
    \/ \E n \in Node : Cycle(n) \/ Background(n)
    \/ Client
    \/ Environment

Spec == Init /\ [][Next]_vars

----------------------------------------------------------------------------
\* Properties.

Key == [leader : Someone, cand : Someone, at : {None, 1},
        index : (0..MaxRequests) \X (0..4)]

View == [leader : Someone, key : Key, paused : BOOLEAN, optime : 0..MaxWal]

TypeOK ==
    /\ leader \in Someone /\ paused \in BOOLEAN /\ optime \in 0..MaxWal
    /\ key \in Key
    /\ clock \in 0..2 /\ events \in 0..MaxEvents
    /\ up \in [Node -> BOOLEAN] /\ fit \in [Node -> BOOLEAN]
    /\ srv \in [Node -> {"master", "replica", "stopped"}]
    /\ wal \in [Node -> 0..MaxWal]
    /\ pc \in [Node -> {"idle", "loaded", "race", "won", "promote", "demote", "stopped",
                        "released"}]
    /\ view \in [Node -> View]
    /\ req \in [Request ->
         [st : {"new", "checked", "polling", "closed", "failed"},
          leader : Someone, cand : Someone, at : {None, 1}, base : Someone, over : BOOLEAN]]
    /\ heir \in Someone /\ late \subseteq Node /\ calm \in BOOLEAN

\* Without pause the demotion and the promotion that a request leads to never overlap.
OnePrimary == calm => \A n, m \in Node : srv[n] = "master" /\ srv[m] = "master" => n = m

SwitchoverInv == TypeOK /\ OnePrimary

Takes(n) == leader = None /\ leader' = n

\* A candidate that could take over ever since the lock became free is the one who takes
\* it, unless that node saw an earlier leaderless time, did not see the request, or is a
\* primary still: is_healthiest_node does not look at the key then, and a primary that has
\* slept through the end of a pause and a whole switchover takes the lock.
CandidateTakesOver ==
    [][\A n \in Node :
          /\ Takes(n) /\ srv[n] # "master"
          /\ heir \notin {None, n} /\ heir = key.cand /\ n \notin late
          => view[n].key.index # key.index]_vars

\* Without pause, a request that is answered "failed" is not carried out afterwards: nobody
\* demotes itself or takes the lock because of it, unless the key was overwritten in between
\* or a node acts on what it saw before the lock was taken and given back.  (In pause the
\* leader may lose its lock during the demotion that the request has started.)
OnBehalfOf(n, q) == view[n].key.index[1] = q

FailedIsFinal ==
    [][\A n \in Node, q \in Request :
          /\ calm /\ req[q].st = "failed" /\ ~req[q].over /\ OnBehalfOf(n, q)
          => /\ pc[n] # pc'[n] => pc'[n] \notin {"demote", "stopped"}
             /\ Takes(n) /\ srv[n] = "replica" => n \in late]_vars

\* The nodes never decline in favour of each other: if somebody who is able to take over
\* is not too far behind, some node that looks at the cluster now races.
SomeoneRaces ==
    leader = None /\ ~paused
    /\ (\E n \in Node : ~Limited(n) /\ ~IsLagging(Cluster, wal[n]))
    => \E n \in Node : up[n] /\ srv[n] # "stopped" /\ IsHealthiestNode(n, Cluster, FALSE)
=============================================================================
