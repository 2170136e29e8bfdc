-------------------------- MODULE SwitchoverProofs --------------------------
(***************************************************************************)
(* Proofs about Switchover, for any nodes, tags, requests and lags: as     *)
(* long as nobody pauses the cluster, a manual switchover or failover      *)
(* never leads to two primaries.                                           *)
(***************************************************************************)
EXTENDS Switchover, WellFoundedInduction, TLAPS

\* A key that has lost its leader in a race does not lose it again.
KeyOK(f) == f \in Key /\ (f.leader # None => f.index[2] <= 2)

KeyInv == KeyOK(key) /\ \A n \in Node : KeyOK(view[n].key)

\* A primary has the lock, and who gives it back is none.
PrimaryInv ==
    /\ \A n \in Node : ~up[n] \/ pc[n] \in {"stopped", "released"} => srv[n] # "master"
    /\ calm =>
         /\ ~paused
         /\ \A n \in Node : /\ ~view[n].paused
                            /\ srv[n] = "master" => leader = n

Inv == TypeOK /\ KeyInv /\ PrimaryInv

Pc == {"idle", "loaded", "race", "won", "promote", "demote", "stopped", "released"}
Srv == {"master", "replica", "stopped"}
Requests == [st : {"new", "checked", "polling", "closed", "failed"},
             leader : Someone, cand : Someone, at : {None, 1}, base : Someone, over : BOOLEAN]

----------------------------------------------------------------------------
\* Types of what the actions write.

LEMMA NoKeyType == KeyOK(NoKey)
BY SwitchoverAssumption DEF KeyOK, Key, NoKey, Someone

LEMMA ClusterType ==
  ASSUME TypeOK, KeyInv
  PROVE Cluster \in View /\ KeyOK(Cluster.key) /\ Cluster.paused = paused
BY DEF TypeOK, KeyInv, KeyOK, Cluster, View

LEMMA NoViewType == NoView \in View /\ KeyOK(NoView.key) /\ ~NoView.paused
BY NoKeyType, SwitchoverAssumption DEF KeyOK, NoView, View, Someone

\* A step of the loop of one node.
LEMMA GotoType ==
  ASSUME TypeOK, NEW n \in Node, NEW label \in Pc, Goto(n, label)
  PROVE pc' \in [Node -> Pc] /\ pc'[n] = label /\ \A m \in Node \ {n} : pc'[m] = pc[m]
BY DEF TypeOK, Goto, Pc

LEMMA LeaveType ==
  ASSUME TypeOK, KeyInv, NEW n \in Node, NEW label \in Pc, Leave(n, label)
  PROVE /\ pc' \in [Node -> Pc] /\ pc'[n] = label /\ \A m \in Node \ {n} : pc'[m] = pc[m]
        /\ view' \in [Node -> View]
        /\ \A m \in Node : KeyOK(view'[m].key)
        /\ \A m \in Node : view'[m].paused => view[m].paused
<1>1. Goto(n, label) /\ view' = [view EXCEPT ![n] = NoView] BY DEF Leave
<1>2. view \in [Node -> View] BY DEF TypeOK
<1> QED BY <1>1, <1>2, GotoType, NoViewType DEF KeyInv

\* The three ways in which the key goes.
LEMMA CleanUpType ==
  ASSUME KeyOK(key), NEW i, CleanUp \/ CleanUpIf(i) \/ UNCHANGED key
  PROVE KeyOK(key')
BY NoKeyType DEF CleanUp, CleanUpIf

\* What the history remembers.
LEMMA HistoryType ==
  ASSUME TypeOK, NEW n \in Node,
         \/ LockFreed \/ LockKept \/ LockTaken(n) \/ ReleaseLock(n)
         \/ UNCHANGED <<heir, late>>
         \/ heir' = None /\ UNCHANGED late
         \/ Unable(n) /\ (late' = late \/ late' = late \ {n})
         \/ UNCHANGED heir /\ late' = late \ {n}
  PROVE heir' \in Someone /\ late' \subseteq Node
BY DEF TypeOK, LockFreed, LockKept, LockTaken, ReleaseLock, Unable, Someone, Key

\* The server of a node that demotes itself.
LEMMA DemotedType ==
  ASSUME TypeOK, NEW n \in Node, NEW inPause, Demoted(n, inPause)
  PROVE /\ srv' \in [Node -> Srv]
        /\ \A m \in Node : srv'[m] = "master" => srv[m] = "master"
        /\ ~inPause => srv'[n] # "master"
BY DEF TypeOK, Demoted, Srv

LEMMA ReleaseLockType ==
  ASSUME TypeOK, NEW n \in Node, ReleaseLock(n)
  PROVE /\ leader' \in Someone /\ heir' \in Someone /\ late' \subseteq Node
        /\ leader' = leader \/ leader = n
<1>1. heir' \in Someone /\ late' \subseteq Node BY HistoryType
<1> QED BY <1>1 DEF ReleaseLock, Someone, TypeOK

\* enforce_master_role stops the server whose lock it gives back.
LEMMA EnforceType ==
  ASSUME TypeOK, KeyInv, NEW n \in Node, NEW inPause, EnforceMasterRole(n, inPause)
  PROVE /\ pc' \in [Node -> Pc] /\ \A m \in Node \ {n} : pc'[m] = pc[m]
        /\ view' \in [Node -> View]
        /\ \A m \in Node : KeyOK(view'[m].key)
        /\ \A m \in Node : view'[m].paused => view[m].paused
        /\ leader' \in Someone /\ heir' \in Someone /\ late' \subseteq Node
        /\ leader' = leader \/ (leader = n /\ srv'[n] # "master")
        /\ srv' \in [Node -> Srv]
        /\ \A m \in Node : srv'[m] = "master" => srv[m] = "master"
        /\ pc'[n] \in {"stopped", "released"} => srv'[n] # "master"
<1>1. CASE inPause \/ fit[n]
  <2>1. /\ Leave(n, IF srv[n] = "master" THEN "idle" ELSE "promote")
        /\ UNCHANGED <<leader, srv>> /\ LockKept
    BY <1>1 DEF EnforceMasterRole
  <2>2. PICK label \in {"idle", "promote"} : Leave(n, label) BY <2>1
  <2>3. label \in Pc BY DEF Pc
  <2>4. heir' \in Someone /\ late' \subseteq Node BY <2>1, HistoryType
  <2> QED BY <2>1, <2>2, <2>3, <2>4, LeaveType DEF TypeOK, Srv
<1>2. CASE ~(inPause \/ fit[n])
  <2>1. /\ ReleaseLock(n)
        /\ Leave(n, IF srv[n] = "master" THEN "released" ELSE "idle")
        /\ srv' = IF srv[n] = "master" THEN [srv EXCEPT ![n] = "stopped"] ELSE srv
    BY <1>2 DEF EnforceMasterRole
  <2>2. PICK label \in {"idle", "released"} : Leave(n, label) BY <2>1
  <2>3. label \in Pc BY DEF Pc
  <2>4. /\ srv' \in [Node -> Srv] /\ srv'[n] # "master"
        /\ \A m \in Node : srv'[m] = "master" => srv[m] = "master"
    BY <2>1 DEF TypeOK, Srv
  <2> QED BY <2>1, <2>2, <2>3, <2>4, LeaveType, ReleaseLockType
<1> QED BY <1>1, <1>2

----------------------------------------------------------------------------
\* The steps.

\* What a step of node n may do to the nodes: nobody becomes a primary, no other node
\* moves, and the lock goes only from n or to n.
Quiet(n) ==
    /\ UNCHANGED up
    /\ \A m \in Node \ {n} : pc'[m] = pc[m]
    /\ \A m \in Node : /\ view'[m].paused => view[m].paused
                       /\ srv'[m] = "master" => srv[m] = "master"
    /\ pc'[n] \in {"stopped", "released"} => srv'[n] # "master"
    /\ leader' = leader \/ (leader = n /\ srv'[n] # "master")
    /\ UNCHANGED <<paused, calm>>

LEMMA QuietStep ==
  ASSUME PrimaryInv, NEW n \in Node, Quiet(n) PROVE PrimaryInv'
BY DEF PrimaryInv, Quiet

\* The steps of the HA loop up to the decision of a leader.
LEMMA LoadStep ==
  ASSUME Inv, NEW n \in Node, Load(n) PROVE Inv'
<1>1. Cluster \in View /\ KeyOK(Cluster.key) /\ Cluster.paused = paused
  BY ClusterType DEF Inv
<1>2. "loaded" \in Pc BY DEF Pc
<1>3. pc' \in [Node -> Pc] /\ pc'[n] = "loaded" /\ \A m \in Node \ {n} : pc'[m] = pc[m]
  BY <1>2, GotoType DEF Load, Inv
<1>4. TypeOK'
  BY <1>1, <1>3 DEF Inv, TypeOK, Load, LockKept, dcs, env, nodes, Pc
<1>5. KeyInv' BY <1>1 DEF Inv, TypeOK, KeyInv, Load, dcs
<1>6. PrimaryInv'
  BY <1>1, <1>3 DEF Inv, TypeOK, PrimaryInv, Load, dcs, env, nodes
<1> QED BY <1>4, <1>5, <1>6 DEF Inv

LEMMA FollowLeaderStep ==
  ASSUME Inv, NEW n \in Node, FollowLeader(n) \/ LoseLock(n) PROVE Inv'
<1>1. /\ Demoted(n, view[n].paused) /\ Leave(n, "idle")
      /\ UNCHANGED <<dcs, env, up, fit, wal, req, heir, late>>
  BY DEF FollowLeader, LoseLock, LockKept
<1>2. "idle" \in Pc BY DEF Pc
<1>3. TypeOK'
  BY <1>1, <1>2, LeaveType, DemotedType DEF Inv, TypeOK, dcs, env, Pc, Srv
<1>4. KeyInv' BY <1>1, <1>2, LeaveType DEF Inv, KeyInv, dcs
<1>5. Quiet(n)
  BY <1>1, <1>2, LeaveType, DemotedType DEF Inv, Quiet, dcs, env
<1> QED BY <1>3, <1>4, <1>5, QuietStep DEF Inv

LEMMA WaitForPromotionStep ==
  ASSUME Inv, NEW n \in Node, WaitForPromotion(n) PROVE Inv'
<1>1. /\ (UNCHANGED leader /\ LockKept) \/ ReleaseLock(n)
      /\ Leave(n, "idle") /\ view[n].paused /\ srv[n] # "master"
      /\ UNCHANGED <<key, paused, optime, env, nodes, req>>
  BY DEF WaitForPromotion, NotPrimaryInPause
<1>2. "idle" \in Pc BY DEF Pc
<1>3. leader' \in Someone /\ heir' \in Someone /\ late' \subseteq Node
  BY <1>1, HistoryType, ReleaseLockType DEF Inv, TypeOK
<1>4. leader' = leader \/ leader = n BY <1>1, ReleaseLockType DEF Inv
<1>5. TypeOK' BY <1>1, <1>2, <1>3, LeaveType DEF Inv, TypeOK, env, nodes, Pc
<1>6. KeyInv' BY <1>1, <1>2, LeaveType DEF Inv, KeyInv
<1>7. Quiet(n) BY <1>1, <1>2, <1>4, LeaveType DEF Inv, Quiet, env, nodes
<1> QED BY <1>5, <1>6, <1>7, QuietStep DEF Inv

LEMMA DemoteMyselfStep ==
  ASSUME Inv, NEW n \in Node, DemoteMyself(n) PROVE Inv'
<1>1. /\ optime' = wal[n] /\ Goto(n, "demote")
      /\ UNCHANGED <<leader, key, paused, env, nodes, view, req, heir, late>>
  BY DEF DemoteMyself, LockKept
<1>2. "demote" \in Pc BY DEF Pc
<1>3. TypeOK' BY <1>1, <1>2, GotoType DEF Inv, TypeOK, env, nodes, Pc
<1>4. KeyInv' BY <1>1 DEF Inv, KeyInv
<1>5. Quiet(n) BY <1>1, <1>2, GotoType DEF Inv, Quiet, env, nodes
<1> QED BY <1>3, <1>4, <1>5, QuietStep DEF Inv

LEMMA KeepLeadingStep ==
  ASSUME Inv, NEW n \in Node, KeepLeading(n) PROVE Inv'
<1>1. /\ CleanUpIf(view[n].key.index) \/ UNCHANGED key
      /\ optime' = wal[n] /\ EnforceMasterRole(n, view[n].paused)
      /\ UNCHANGED <<paused, env, up, fit, wal, req>>
  BY DEF KeepLeading
<1>2. KeyOK(key') BY <1>1, CleanUpType DEF Inv, KeyInv
<1>3. TypeOK'
  BY <1>1, <1>2, EnforceType DEF Inv, TypeOK, env, Pc, Srv, KeyOK
<1>4. KeyInv' BY <1>1, <1>2, EnforceType DEF Inv, KeyInv
<1>5. Quiet(n) BY <1>1, EnforceType DEF Inv, Quiet, env
<1> QED BY <1>3, <1>4, <1>5, QuietStep DEF Inv

\* The background of a promotion and of a demotion.
LEMMA PromoteStep ==
  ASSUME Inv, NEW n \in Node, Promote(n) PROVE Inv'
<1>1. /\ up[n] /\ Goto(n, "idle")
      /\ \/ (leader = n \/ paused) /\ srv' = [srv EXCEPT ![n] = "master"]
         \/ UNCHANGED srv
      /\ UNCHANGED <<dcs, env, up, fit, wal, view, req, heir, late>>
  BY DEF Promote, LockKept
<1>2. "idle" \in Pc BY DEF Pc
<1>3. pc' \in [Node -> Pc] /\ pc'[n] = "idle" /\ \A m \in Node \ {n} : pc'[m] = pc[m]
  BY <1>1, <1>2, GotoType DEF Inv
<1>4. TypeOK' BY <1>1, <1>3 DEF Inv, TypeOK, dcs, env, Pc
<1>5. KeyInv' BY <1>1 DEF Inv, KeyInv, dcs
<1>6. PrimaryInv' BY <1>1, <1>3 DEF Inv, TypeOK, PrimaryInv, dcs, env
<1> QED BY <1>4, <1>5, <1>6 DEF Inv

LEMMA StopServerStep ==
  ASSUME Inv, NEW n \in Node, StopServer(n) PROVE Inv'
<1>1. /\ srv' = [srv EXCEPT ![n] = "stopped"] /\ Goto(n, "stopped")
      /\ UNCHANGED <<dcs, env, up, fit, wal, view, req, late>> /\ Unable(n)
  BY DEF StopServer
<1>2. "stopped" \in Pc BY DEF Pc
<1>3. heir' \in Someone BY <1>1, HistoryType DEF Inv
<1>4. TypeOK' BY <1>1, <1>2, <1>3, GotoType DEF Inv, TypeOK, dcs, env, Pc
<1>5. KeyInv' BY <1>1 DEF Inv, KeyInv, dcs
<1>6. Quiet(n) BY <1>1, <1>2, GotoType DEF Inv, TypeOK, Quiet, dcs, env
<1> QED BY <1>4, <1>5, <1>6, QuietStep DEF Inv

LEMMA ReleaseStep ==
  ASSUME Inv, NEW n \in Node, ReleaseLeaderKeyVoluntarily(n) PROVE Inv'
<1>1. /\ pc[n] = "stopped" /\ ReleaseLock(n) /\ Leave(n, "released")
      /\ optime' = wal[n] \/ optime' = optime
      /\ UNCHANGED <<key, paused, env, nodes, req>>
  BY DEF ReleaseLeaderKeyVoluntarily
<1>2. "released" \in Pc BY DEF Pc
<1>3. TypeOK'
  BY <1>1, <1>2, LeaveType, ReleaseLockType DEF Inv, TypeOK, env, nodes, Pc
<1>4. KeyInv' BY <1>1, <1>2, LeaveType DEF Inv, KeyInv
<1>5. srv[n] # "master" BY <1>1 DEF Inv, PrimaryInv
<1>6. Quiet(n)
  BY <1>1, <1>2, <1>5, LeaveType, ReleaseLockType DEF Inv, Quiet, env, nodes
<1> QED BY <1>3, <1>4, <1>6, QuietStep DEF Inv

LEMMA FollowStep ==
  ASSUME Inv, NEW n \in Node, Follow(n) PROVE Inv'
<1>1. /\ srv' = [srv EXCEPT ![n] = "replica"] /\ Goto(n, "idle")
      /\ UNCHANGED <<dcs, env, up, fit, wal, view, req, heir, late>>
  BY DEF Follow, LockKept
<1>2. "idle" \in Pc BY DEF Pc
<1>3. TypeOK' BY <1>1, <1>2, GotoType DEF Inv, TypeOK, dcs, env, Pc
<1>4. KeyInv' BY <1>1 DEF Inv, KeyInv, dcs
<1>5. Quiet(n) BY <1>1, <1>2, GotoType DEF Inv, TypeOK, Quiet, dcs, env
<1> QED BY <1>3, <1>4, <1>5, QuietStep DEF Inv

\* The race.
LEMMA RaceStep ==
  ASSUME Inv, NEW n \in Node, Race(n) PROVE Inv'
<1>1. /\ CleanUpIf(view[n].key.index) \/ UNCHANGED key
      /\ \/ Goto(n, "race") /\ UNCHANGED <<view, srv, late>>
         \/ Leave(n, "idle") /\ Demoted(n, paused) /\ late' = late \ {n}
      /\ UNCHANGED <<leader, paused, optime, env, up, fit, wal, req, heir>>
  BY DEF Race
<1>2. "idle" \in Pc /\ "race" \in Pc BY DEF Pc
<1>3. KeyOK(key') BY <1>1, CleanUpType DEF Inv, KeyInv
<1>4. CASE Goto(n, "race") /\ UNCHANGED <<view, srv, late>>
  <2>1. TypeOK' BY <1>1, <1>2, <1>3, <1>4, GotoType DEF Inv, TypeOK, env, Pc, KeyOK
  <2>2. KeyInv' BY <1>3, <1>4 DEF Inv, KeyInv
  <2>3. Quiet(n) BY <1>1, <1>2, <1>4, GotoType DEF Inv, Quiet, env
  <2> QED BY <2>1, <2>2, <2>3, QuietStep DEF Inv
<1>5. CASE Leave(n, "idle") /\ Demoted(n, paused) /\ late' = late \ {n}
  <2>1. TypeOK'
    BY <1>1, <1>2, <1>3, <1>5, LeaveType, DemotedType DEF Inv, TypeOK, env, Pc, Srv, KeyOK
  <2>2. KeyInv' BY <1>2, <1>3, <1>5, LeaveType DEF Inv, KeyInv
  <2>3. Quiet(n) BY <1>1, <1>2, <1>5, LeaveType, DemotedType DEF Inv, Quiet, env
  <2> QED BY <2>1, <2>2, <2>3, QuietStep DEF Inv
<1> QED BY <1>1, <1>4, <1>5

\* The lock goes to a node only when nobody has it, and then nobody is a primary but, maybe,
\* that node.
LEMMA AcquireLockStep ==
  ASSUME Inv, NEW n \in Node, AcquireLock(n) PROVE Inv'
<1>1. UNCHANGED <<key, paused, optime, env, up, fit, wal, req>> BY DEF AcquireLock
<1>2. "idle" \in Pc /\ "won" \in Pc BY DEF Pc
<1>3. CASE leader = None
  <2>1. leader' = n /\ LockTaken(n) /\ Goto(n, "won") /\ UNCHANGED <<view, srv>>
    BY <1>3 DEF AcquireLock
  <2>2. heir' \in Someone /\ late' \subseteq Node BY <2>1, HistoryType DEF Inv
  <2>3. TypeOK' BY <1>1, <1>2, <2>1, <2>2, GotoType DEF Inv, TypeOK, Someone, env, Pc
  <2>4. KeyInv' BY <1>1, <2>1 DEF Inv, KeyInv
  <2>5. PrimaryInv'
    <3>1. pc'[n] = "won" /\ \A m \in Node \ {n} : pc'[m] = pc[m]
      BY <1>2, <2>1, GotoType DEF Inv
    <3>2. calm => \A m \in Node : srv[m] # "master"
      BY <1>3, SwitchoverAssumption DEF Inv, PrimaryInv
    <3> QED BY <1>1, <2>1, <3>1, <3>2 DEF Inv, PrimaryInv, env
  <2> QED BY <2>3, <2>4, <2>5 DEF Inv
<1>4. CASE leader # None
  <2>1. /\ Demoted(n, paused) /\ Leave(n, "idle")
        /\ late' = late \ {n} /\ UNCHANGED <<leader, heir>>
    BY <1>4 DEF AcquireLock
  <2>2. TypeOK'
    BY <1>1, <1>2, <2>1, LeaveType, DemotedType DEF Inv, TypeOK, env, Pc, Srv
  <2>3. KeyInv' BY <1>1, <1>2, <2>1, LeaveType DEF Inv, KeyInv
  <2>4. Quiet(n) BY <1>1, <1>2, <2>1, LeaveType, DemotedType DEF Inv, Quiet, env
  <2> QED BY <2>2, <2>3, <2>4, QuietStep DEF Inv
<1> QED BY <1>3, <1>4

LEMMA CleanUpAfterRaceStep ==
  ASSUME Inv, NEW n \in Node, CleanUpAfterRace(n) PROVE Inv'
<1> DEFINE f == view[n].key
           g == [f EXCEPT !.leader = None, !.index[2] = @ + 2]
<1>1. /\ \/ UNCHANGED key \/ CleanUp
         \/ f.leader # None /\ key' = g
      /\ EnforceMasterRole(n, paused)
      /\ UNCHANGED <<paused, optime, env, up, fit, wal, req>>
  BY DEF CleanUpAfterRace
<1>2. KeyOK(key')
  <2>1. CASE UNCHANGED key \/ CleanUp BY <2>1, CleanUpType DEF Inv, KeyInv
  <2>2. CASE f.leader # None /\ key' = g
    <3>1. f \in Key /\ f.index[2] <= 2 BY <2>2 DEF Inv, KeyInv, KeyOK
    <3>2. f.index \in (0..MaxRequests) \X (0..4) BY <3>1 DEF Key
    <3>3. [f.index EXCEPT ![2] = @ + 2] = <<f.index[1], f.index[2] + 2>> BY <3>2
    <3>4. g = [f EXCEPT !.leader = None, !.index = <<f.index[1], f.index[2] + 2>>]
      BY <3>1, <3>3 DEF Key
    <3>5. <<f.index[1], f.index[2] + 2>> \in (0..MaxRequests) \X (0..4) BY <3>1, <3>2
    <3>6. g \in Key /\ g.leader = None BY <3>1, <3>4, <3>5 DEF Key, Someone
    <3> QED BY <2>2, <3>6 DEF KeyOK
  <2> QED BY <1>1, <2>1, <2>2
<1>3. TypeOK'
  BY <1>1, <1>2, EnforceType DEF Inv, TypeOK, env, Pc, Srv, KeyOK
<1>4. KeyInv' BY <1>1, <1>2, EnforceType DEF Inv, KeyInv
<1>5. Quiet(n) BY <1>1, EnforceType DEF Inv, Quiet, env
<1> QED BY <1>3, <1>4, <1>5, QuietStep DEF Inv

----------------------------------------------------------------------------
\* Requests, faults and time leave the loops alone.

Still == UNCHANGED <<leader, paused, calm, up, srv, pc, view>>

LEMMA StillStep == ASSUME PrimaryInv, Still PROVE PrimaryInv'
BY DEF PrimaryInv, Still

LEMMA PostFailoverStep ==
  ASSUME Inv, NEW q \in Request, NEW action, NEW l \in Someone, NEW c \in Someone,
         NEW at \in {None, 1}, PostFailover(q, action, l, c, at)
  PROVE Inv'
<1> DEFINE r == [NoRequest EXCEPT !.st = "checked", !.leader = l, !.cand = c, !.at = at,
                                  !.base = leader]
<1>1. /\ req' = [req EXCEPT ![q] = r]
      /\ events' = events + q /\ events + q <= MaxEvents
      /\ UNCHANGED <<dcs, clock, calm, nodes, pc, view, heir, late>>
  BY DEF PostFailover, Event, LockKept
<1>2. r \in Requests BY DEF Inv, TypeOK, Requests, NoRequest, Someone
<1>3. events' \in 0..MaxEvents
  BY <1>1, SwitchoverAssumption DEF Inv, TypeOK, Request
<1> HIDE DEF r
<1>4. req' \in [Request -> Requests] BY <1>1, <1>2 DEF Inv, TypeOK, Requests
<1>5. TypeOK' BY <1>1, <1>3, <1>4 DEF Inv, TypeOK, dcs, nodes, Requests
<1>6. KeyInv' BY <1>1 DEF Inv, KeyInv, dcs
<1>7. Still BY <1>1 DEF Still, dcs, nodes
<1> QED BY <1>5, <1>6, <1>7, StillStep DEF Inv

\* A write of the key by the API or by patronictl.
LEMMA WriteKeyStep ==
  ASSUME Inv, NEW q \in Request, PostWrites(q) \/ FallBackToDcs(q) PROVE Inv'
<1>1. PICK version \in {1, 2} : WriteKey(q, version)
  BY DEF PostWrites, FallBackToDcs
<1>2. \/ req' = [Overwrite EXCEPT ![q] = [req[q] EXCEPT !.st = "polling"]]
      \/ req' = [Overwrite EXCEPT ![q] = Closed]
  BY DEF PostWrites, FallBackToDcs
<1>3. Overwrite \in [Request -> Requests]
  BY DEF Inv, TypeOK, Overwrite, Requests
<1>4. Closed \in Requests /\ [req[q] EXCEPT !.st = "polling"] \in Requests
  BY DEF Inv, TypeOK, Closed, NoRequest, Requests, Someone
<1>5. req' \in [Request -> Requests] BY <1>2, <1>3, <1>4
<1>6. KeyOK(key')
  <2>1. key' = [leader |-> req[q].leader, cand |-> req[q].cand, at |-> req[q].at,
                index |-> <<q, version>>]
    BY <1>1 DEF WriteKey
  <2>2. req[q].leader \in Someone /\ req[q].cand \in Someone /\ req[q].at \in {None, 1}
    BY DEF Inv, TypeOK
  <2>3. q \in 0..MaxRequests /\ version \in 0..4 /\ version <= 2
    BY SwitchoverAssumption DEF Request
  <2> QED BY <2>1, <2>2, <2>3 DEF KeyOK, Key
<1>7. heir' = None /\ UNCHANGED <<leader, paused, optime, env, nodes, pc, view, late>>
  BY <1>1 DEF WriteKey
<1>8. TypeOK'
  BY <1>5, <1>6, <1>7 DEF Inv, TypeOK, env, nodes, Requests, KeyOK, Someone
<1>9. KeyInv' BY <1>6, <1>7 DEF Inv, KeyInv
<1>10. Still BY <1>7 DEF Still, env, nodes
<1> QED BY <1>8, <1>9, <1>10, StillStep DEF Inv

LEMMA PollStep == ASSUME Inv, NEW q \in Request, Poll(q) PROVE Inv'
<1>1. /\ req' = [req EXCEPT ![q] = Closed] \/ req' = [req EXCEPT ![q] = Failed(q)]
      /\ UNCHANGED <<dcs, env, nodes, pc, view, heir, late>>
  BY DEF Poll, LockKept
<1>2. Closed \in Requests /\ Failed(q) \in Requests
  BY DEF Inv, TypeOK, Closed, Failed, NoRequest, Requests, Someone
<1>3. req' \in [Request -> Requests] BY <1>1, <1>2 DEF Inv, TypeOK, Requests
<1>4. TypeOK' BY <1>1, <1>3 DEF Inv, TypeOK, dcs, env, nodes, Requests
<1>5. KeyInv' BY <1>1 DEF Inv, KeyInv, dcs
<1>6. Still BY <1>1 DEF Still, dcs, env, nodes
<1> QED BY <1>4, <1>5, <1>6, StillStep DEF Inv

LEMMA DeleteSwitchoverStep == ASSUME Inv, DeleteSwitchover PROVE Inv'
<1>1. /\ CleanUp /\ heir' = None
      /\ UNCHANGED <<leader, paused, optime, env, nodes, pc, view, req, late>>
  BY DEF DeleteSwitchover
<1>2. KeyOK(key') BY <1>1, CleanUpType DEF Inv, KeyInv
<1>3. TypeOK' BY <1>1, <1>2 DEF Inv, TypeOK, env, nodes, KeyOK, Someone
<1>4. KeyInv' BY <1>1, <1>2 DEF Inv, KeyInv
<1>5. Still BY <1>1 DEF Still, env, nodes
<1> QED BY <1>3, <1>4, <1>5, StillStep DEF Inv

\* The bound of the events is not exceeded.
LEMMA EventType == ASSUME TypeOK, Event(1) PROVE events' \in 0..MaxEvents /\ clock' = clock
BY SwitchoverAssumption DEF TypeOK, Event

LEMMA TogglePauseStep == ASSUME Inv, TogglePause PROVE Inv'
<1>1. /\ paused' = ~paused /\ calm' = FALSE
      /\ UNCHANGED <<leader, key, optime, clock, nodes, pc, view, req, heir, late>>
      /\ events' \in 0..MaxEvents
  BY EventType DEF Inv, TogglePause, LockKept
<1>2. TypeOK' BY <1>1 DEF Inv, TypeOK, nodes
<1>3. KeyInv' BY <1>1 DEF Inv, KeyInv
<1>4. PrimaryInv' BY <1>1 DEF Inv, PrimaryInv, nodes
<1> QED BY <1>2, <1>3, <1>4 DEF Inv

LEMMA ReplicateStep ==
  ASSUME Inv, NEW n \in Node, NEW m \in Node, Replicate(n, m) PROVE Inv'
<1>1. /\ wal[m] < wal[n] /\ wal' = [wal EXCEPT ![m] = @ + 1]
      /\ UNCHANGED <<dcs, env, up, srv, fit, pc, view, req, heir, late>>
  BY DEF Replicate, LockKept
<1>2. wal[m] + 1 \in 0..MaxWal
  BY <1>1, SwitchoverAssumption DEF Inv, TypeOK
<1>3. wal' \in [Node -> 0..MaxWal] BY <1>1, <1>2 DEF Inv, TypeOK
<1>4. TypeOK' BY <1>1, <1>3 DEF Inv, TypeOK, dcs, env
<1>5. KeyInv' BY <1>1 DEF Inv, KeyInv, dcs
<1>6. Still BY <1>1 DEF Still, dcs, env
<1> QED BY <1>4, <1>5, <1>6, StillStep DEF Inv

LEMMA TickStep == ASSUME Inv, Tick PROVE Inv'
<1>1. clock < 2 /\ clock' = clock + 1
      /\ UNCHANGED <<dcs, events, calm, nodes, pc, view, req, heir, late>>
  BY DEF Tick, LockKept
<1>2. TypeOK' BY <1>1 DEF Inv, TypeOK, dcs, nodes
<1>3. KeyInv' BY <1>1 DEF Inv, KeyInv, dcs
<1>4. Still BY <1>1 DEF Still, dcs, nodes
<1> QED BY <1>2, <1>3, <1>4, StillStep DEF Inv

LEMMA CrashStep == ASSUME Inv, NEW n \in Node, Crash(n) PROVE Inv'
<1>1. /\ up' = [up EXCEPT ![n] = FALSE] /\ srv' = [srv EXCEPT ![n] = "stopped"]
      /\ Unable(n) /\ late' = late \ {n} /\ Leave(n, "idle")
      /\ UNCHANGED <<dcs, calm, clock, fit, wal, req>> /\ events' \in 0..MaxEvents
  BY EventType DEF Inv, Crash
<1>2. "idle" \in Pc BY DEF Pc
<1>3. heir' \in Someone /\ late' \subseteq Node BY <1>1, HistoryType DEF Inv
<1>4. TypeOK' BY <1>1, <1>2, <1>3, LeaveType DEF Inv, TypeOK, dcs, Pc
<1>5. KeyInv' BY <1>1, <1>2, LeaveType DEF Inv, KeyInv, dcs
<1>6. PrimaryInv'
  <2>1. /\ pc'[n] = "idle" /\ \A m \in Node \ {n} : pc'[m] = pc[m]
        /\ \A m \in Node : view'[m].paused => view[m].paused
    BY <1>1, <1>2, LeaveType DEF Inv
  <2> QED BY <1>1, <2>1 DEF Inv, TypeOK, PrimaryInv, dcs
<1> QED BY <1>4, <1>5, <1>6 DEF Inv

LEMMA WatchdogFailsStep == ASSUME Inv, NEW n \in Node, WatchdogFails(n) PROVE Inv'
<1>1. /\ fit' = [fit EXCEPT ![n] = FALSE] /\ Unable(n)
      /\ UNCHANGED <<dcs, calm, clock, up, srv, wal, pc, view, req, late>>
      /\ events' \in 0..MaxEvents
  BY EventType DEF Inv, WatchdogFails
<1>2. heir' \in Someone BY <1>1, HistoryType DEF Inv
<1>3. TypeOK' BY <1>1, <1>2 DEF Inv, TypeOK, dcs
<1>4. KeyInv' BY <1>1 DEF Inv, KeyInv, dcs
<1>5. Still BY <1>1 DEF Still, dcs
<1> QED BY <1>3, <1>4, <1>5, StillStep DEF Inv

\* The lock of a node that is dead or, in pause, of one that cannot renew it.
LEMMA LockGoesStep == ASSUME Inv, LeaderExpires \/ LeaderUnreachable PROVE Inv'
<1>1. /\ leader # None /\ (~up[leader] \/ paused)
      /\ leader' = None /\ LockFreed
      /\ UNCHANGED <<key, paused, optime, clock, calm, nodes, pc, view, req>>
      /\ events' \in 0..MaxEvents
  <2>1. CASE LeaderExpires BY <2>1 DEF LeaderExpires, env, Inv, TypeOK
  <2>2. CASE LeaderUnreachable BY <2>2, EventType DEF LeaderUnreachable, Inv
  <2> QED BY <2>1, <2>2
<1>2. leader \in Node BY <1>1 DEF Inv, TypeOK, Someone
<1>3. heir' \in Someone /\ late' \subseteq Node BY <1>1, <1>2, HistoryType DEF Inv
<1>4. TypeOK' BY <1>1, <1>3 DEF Inv, TypeOK, nodes, Someone
<1>5. KeyInv' BY <1>1 DEF Inv, KeyInv
<1>6. PrimaryInv' BY <1>1, <1>2 DEF Inv, PrimaryInv, nodes
<1> QED BY <1>4, <1>5, <1>6 DEF Inv

LEMMA NextStep == ASSUME Inv, [Next]_vars PROVE Inv'
<1>1. ASSUME NEW n \in Node, Cycle(n) PROVE Inv'
  BY <1>1, LoadStep, FollowLeaderStep, WaitForPromotionStep, DemoteMyselfStep, KeepLeadingStep,
     RaceStep, AcquireLockStep, CleanUpAfterRaceStep DEF Cycle
<1>2. ASSUME NEW n \in Node, Background(n) PROVE Inv'
  BY <1>2, PromoteStep, StopServerStep, ReleaseStep, FollowStep DEF Background
<1>3. CASE Client
  BY <1>3, PostFailoverStep, WriteKeyStep, PollStep, DeleteSwitchoverStep, TogglePauseStep
     DEF Client
<1>4. CASE Environment
  BY <1>4, CrashStep, WatchdogFailsStep, ReplicateStep, TickStep, LockGoesStep DEF Environment
<1>5. CASE UNCHANGED vars
  <2>1. TypeOK' BY <1>5 DEF Inv, TypeOK, vars, dcs, env, nodes
  <2>2. KeyInv' BY <1>5 DEF Inv, KeyInv, vars, dcs
  <2>3. Still BY <1>5 DEF Still, vars, dcs, env, nodes
  <2> QED BY <2>1, <2>2, <2>3, StillStep DEF Inv
<1> QED BY <1>1, <1>2, <1>3, <1>4, <1>5 DEF Next

----------------------------------------------------------------------------
\* The theorems.

LEMMA Initially == Init => Inv
<1> SUFFICES ASSUME Init PROVE Inv OBVIOUS
<1>1. NoView \in View /\ KeyOK(NoKey) /\ KeyOK(NoView.key) /\ ~NoView.paused
  BY NoViewType, NoKeyType
<1>2. NoRequest \in Requests BY DEF NoRequest, Requests, Someone
<1>3. TypeOK
  <2>1. leader \in Someone /\ heir \in Someone /\ late \subseteq Node BY DEF Init, Someone
  <2>2. req \in [Request -> Requests] BY <1>2 DEF Init
  <2>3. wal \in [Node -> 0..MaxWal] BY DEF Init
  <2>4. events \in 0..MaxEvents /\ optime \in 0..MaxWal BY SwitchoverAssumption DEF Init
  <2>5. view \in [Node -> View] /\ key \in Key BY <1>1 DEF Init, KeyOK
  <2>6. srv \in [Node -> Srv] /\ pc \in [Node -> Pc] BY DEF Init, Srv, Pc
  <2>7. /\ paused \in BOOLEAN /\ calm \in BOOLEAN /\ clock \in 0..2
        /\ up \in [Node -> BOOLEAN] /\ fit \in [Node -> BOOLEAN]
    <3>1. /\ paused = FALSE /\ calm = TRUE /\ clock = 0
          /\ up = [n \in Node |-> TRUE] /\ fit = [n \in Node |-> TRUE]
      BY DEF Init
    <3>2. paused \in BOOLEAN /\ calm \in BOOLEAN BY <3>1
    <3>3. clock \in 0..2 BY <3>1
    <3>4. up \in [Node -> BOOLEAN] /\ fit \in [Node -> BOOLEAN] BY <3>1
    <3> QED BY <3>2, <3>3, <3>4
  <2> QED BY <2>1, <2>2, <2>3, <2>4, <2>5, <2>6, <2>7 DEF TypeOK, Requests, Srv, Pc
<1>4. KeyInv BY <1>1 DEF Init, KeyInv
<1>5. PrimaryInv BY <1>1 DEF Init, PrimaryInv
<1> QED BY <1>3, <1>4, <1>5 DEF Inv

\* As long as nobody pauses the cluster there is one primary, whatever is requested, overwritten,
\* deleted or polled, and whoever dies; and every variable has its type.
THEOREM SwitchoverCorrect == Spec => []SwitchoverInv
<1>1. Init => Inv BY Initially
<1>2. Inv /\ [Next]_vars => Inv' BY NextStep
<1>3. Inv => SwitchoverInv BY DEF Inv, PrimaryInv, SwitchoverInv, OnePrimary
<1> QED BY <1>1, <1>2, <1>3, PTL DEF Spec
----------------------------------------------------------------------------
\* Requests and the race.

Keys == {key} \cup {view[n].key : n \in Node}

\* Keys that stem from one request want the same candidate; no request that is answered
\* "failed" is in the key any more.
RequestInv ==
    /\ \A f \in Keys : Wanted(f) <=> f.index[1] # 0
    /\ \A f, g \in Keys : f.index[1] = g.index[1] => f.cand = g.cand
    /\ \A q \in Request, f \in Keys : f.index[1] = q =>
          /\ req[q].st \in {"polling", "failed", "closed"}
          /\ req[q].st = "polling" => f.cand = req[q].cand /\ f.at = None
    /\ \A q \in Request :
          /\ key.index[1] = q => req[q].st # "failed"
          /\ req[q].st \in {"checked", "polling"} => Wanted(req[q])
          /\ req[q].st = "polling" => req[q].at = None

\* A node that has seen no leader, and one that leads.
SeesNone(n) == pc[n] = "race" \/ (pc[n] = "loaded" /\ view[n].leader = None)
Leading(n) == pc[n] \in {"won", "demote"} \/ (pc[n] = "loaded" /\ view[n].leader = n)

\* Without a pause a leading node still has the lock; while somebody has it, whoever
\* saw no leader is late.
LoopInv ==
    /\ \A n \in Node : /\ ~up[n] => pc[n] = "idle"
                       /\ pc[n] = "race" => view[n].leader = None
                       /\ calm /\ Leading(n) => leader = n
    /\ leader # None => \A n \in Node : SeesNone(n) => n \in late

\* The heir is able to take over, and nobody else has decided to race for its request.
HeirInv ==
    heir # None =>
      /\ leader = None /\ ~Limited(heir)
      /\ \A n \in Node :
            /\ pc[n] = "race" /\ n \notin late /\ srv[n] # "master"
            /\ view[n].key.cand = heir
            => n = heir

\* A node that may still carry out the request that it has seen.
Stands(n) ==
    \/ leader = n /\ Leading(n) /\ pc[n] # "won"
    \/ leader = None /\ SeesNone(n) /\ n \notin late

\* As long as there is such a node, the request is in the key, so it cannot fail.
FailInv ==
    calm => \A n \in Node, q \in Request :
        /\ view[n].key.index[1] = q /\ Stands(n)
        /\ req[q].st \in {"polling", "failed"} /\ ~req[q].over
        => key.index[1] = q

RaceInv == RequestInv /\ LoopInv /\ HeirInv /\ FailInv

----------------------------------------------------------------------------
\* What the parts of the steps do.

LEMMA GotoDoes ==
  ASSUME TypeOK, NEW n \in Node, NEW label, Goto(n, label)
  PROVE pc'[n] = label /\ \A m \in Node \ {n} : pc'[m] = pc[m]
BY DEF TypeOK, Goto

LEMMA LeaveDoes ==
  ASSUME TypeOK, NEW n \in Node, NEW label, Leave(n, label)
  PROVE /\ pc'[n] = label /\ \A m \in Node \ {n} : pc'[m] = pc[m]
        /\ view'[n] = NoView /\ \A m \in Node \ {n} : view'[m] = view[m]
BY GotoDoes DEF TypeOK, Leave

LEMMA NoKeyIs == NoKey.index[1] = 0 /\ NoKey.cand = None /\ ~Wanted(NoKey) /\ NoView.key = NoKey
BY DEF NoKey, Wanted, NoView

\* The keys are those that were there, or gone.
LEMMA RequestKept ==
  ASSUME RequestInv, UNCHANGED req, key' \in {key, NoKey},
         \A n \in Node : view'[n].key \in {view[n].key, key, NoKey}
  PROVE RequestInv'
<1>1. \A f \in Keys' : f \in Keys \/ f = NoKey BY DEF Keys
<1>2. \A f \in Keys : f.index[1] = 0 => f.cand = None BY DEF RequestInv, Wanted
<1>3. \A q \in Request : q # 0 BY SwitchoverAssumption DEF Request
<1>4. \A f \in Keys' : Wanted(f) <=> f.index[1] # 0 BY <1>1, NoKeyIs DEF RequestInv
<1>5. \A f, g \in Keys' : f.index[1] = g.index[1] => f.cand = g.cand
  BY <1>1, <1>2, NoKeyIs DEF RequestInv
<1>6. \A q \in Request, f \in Keys' : f.index[1] = q =>
          /\ req'[q].st \in {"polling", "failed", "closed"}
          /\ req'[q].st = "polling" => f.cand = req'[q].cand /\ f.at = None
  BY <1>1, <1>3, NoKeyIs DEF RequestInv
<1>7. \A q \in Request :
          /\ key'.index[1] = q => req'[q].st # "failed"
          /\ req'[q].st \in {"checked", "polling"} => Wanted(req'[q])
          /\ req'[q].st = "polling" => req'[q].at = None
  BY <1>3, NoKeyIs DEF RequestInv
<1> QED BY <1>4, <1>5, <1>6, <1>7 DEF RequestInv

\* A step of the loop of n after which n does not race for anybody.
Elsewhere(n) ==
    \A m \in Node \ {n} : /\ pc'[m] = pc[m] /\ view'[m] = view[m] /\ up'[m] = up[m]
                          /\ m \in late' <=> m \in late

LEMMA HeirKept ==
  ASSUME HeirInv, NEW n \in Node, Elsewhere(n), pc'[n] # "race",
         \A m \in Node \ {n} : srv'[m] = srv[m],
         heir' \in {heir, None},
         heir' # None => leader' = None /\ ~Limited(heir)'
  PROVE HeirInv'
BY DEF HeirInv, Elsewhere

\* The lock becomes free.
LEMMA HeirFreed ==
  ASSUME Inv, LoopInv, NEW n \in Node, leader # None, leader' = None, Elsewhere(n),
         LockFreed, pc'[n] # "race", heir' # None => ~Limited(heir)'
  PROVE HeirInv'
<1>1. \A m \in Node \ {n} : pc'[m] # "race" \/ m \in late'
  BY DEF LoopInv, SeesNone, Elsewhere
<1> QED BY <1>1 DEF HeirInv
LEMMA LoopKept ==
  ASSUME LoopInv, NEW n \in Node, Elsewhere(n), UNCHANGED calm,
         leader' = leader \/ (leader = n /\ leader' = None),
         ~up'[n] => pc'[n] = "idle",
         pc'[n] = "race" => view'[n].leader = None,
         calm /\ Leading(n)' => leader' = n,
         leader' # None /\ SeesNone(n)' => n \in late'
  PROVE LoopInv'
<1>1. \A m \in Node \ {n} : /\ Leading(m)' <=> Leading(m)
                            /\ SeesNone(m)' <=> SeesNone(m)
  BY DEF Elsewhere, Leading, SeesNone
<1>2. \A m \in Node \ {n} : calm /\ Leading(m) => leader' = m BY DEF LoopInv
<1>3. leader' # None => \A m \in Node : SeesNone(m)' => m \in late'
  BY <1>1 DEF LoopInv, Elsewhere
<1> QED BY <1>1, <1>2, <1>3 DEF LoopInv, Elsewhere

LEMMA FailKept ==
  ASSUME FailInv, NEW n \in Node, Elsewhere(n), UNCHANGED <<calm, req, leader, key>>,
         Stands(n)' => \/ view'[n].key.index[1] = key.index[1]
                       \/ Stands(n) /\ view'[n].key = view[n].key
  PROVE FailInv'
<1>1. \A m \in Node \ {n} : Stands(m)' <=> Stands(m)
  BY DEF Elsewhere, Stands, Leading, SeesNone
<1> QED BY <1>1 DEF FailInv, Elsewhere

\* While n leads, nobody else stands, whatever n does to the lock.
LEMMA NobodyStands ==
  ASSUME Inv, LoopInv, NEW n \in Node, Elsewhere(n), leader = n, leader' \in {n, None},
         pc'[n] \notin {"loaded", "demote", "race"}
  PROVE FailInv'
<1>1. \A m \in Node \ {n} : ~Stands(m)'
  BY SwitchoverAssumption DEF LoopInv, Elsewhere, Stands, Leading, SeesNone
<1>2. ~Stands(n)' BY DEF Stands, Leading, SeesNone
<1> QED BY <1>1, <1>2 DEF FailInv

\* Without a view no request is seen, and nobody stands.
LEMMA NoViewStandsNot ==
  ASSUME NEW n \in Node, view'[n] = NoView
  PROVE \A q \in Request : view'[n].key.index[1] # q
BY NoKeyIs, SwitchoverAssumption DEF Request

LEMMA DemotedDoes ==
  ASSUME TypeOK, NEW n \in Node, NEW inPause, Demoted(n, inPause)
  PROVE /\ \A m \in Node \ {n} : srv'[m] = srv[m]
        /\ \A m \in Node : srv'[m] = "stopped" => srv[m] = "stopped"
BY DEF TypeOK, Demoted

\* Who was able to take over still is.
LEMMA AbleKept ==
  ASSUME UNCHANGED <<up, fit>>,
         \A m \in Node : srv'[m] = "stopped" => srv[m] = "stopped"
  PROVE \A m \in Node : Limited(m)' => Limited(m)
BY DEF Limited

LEMMA AbleHeir ==
  ASSUME Inv, HeirInv, UNCHANGED <<up, fit, heir, leader>>,
         \A m \in Node : srv'[m] = "stopped" => srv[m] = "stopped"
  PROVE heir' # None => leader' = None /\ ~Limited(heir)'
<1>1. heir # None => heir \in Node BY DEF Inv, TypeOK, Someone
<1> QED BY <1>1 DEF HeirInv, Limited

\* The lock is given back by n, or was not its own.
LEMMA ReleaseDoes ==
  ASSUME Inv, HeirInv, LoopInv, NEW n \in Node, ReleaseLock(n), UNCHANGED <<up, fit>>,
         Elsewhere(n), pc'[n] # "race", \A m \in Node \ {n} : srv'[m] = srv[m],
         srv'[n] = "stopped" => Limited(n)
  PROVE /\ HeirInv' /\ UNCHANGED late
        /\ leader' = leader \/ (leader = n /\ leader' = None)
<1>1. CASE leader = n
  <2>1. leader' = None /\ LockFreed BY <1>1 DEF ReleaseLock
  <2>2. leader # None BY <1>1, SwitchoverAssumption
  <2>3. heir' # None => heir' \in Node /\ ~Limited(heir')
    BY <2>1 DEF LockFreed, Inv, TypeOK, Key, Someone
  <2>4. heir' # None => ~Limited(heir)' BY <2>3 DEF Limited
  <2>5. HeirInv' BY <2>1, <2>2, <2>4, HeirFreed
  <2> QED BY <1>1, <2>1, <2>5 DEF LockFreed
<1>2. CASE leader # n
  <2>1. UNCHANGED <<leader, heir, late>> BY <1>2 DEF ReleaseLock, LockKept
  <2>2. heir # None => heir \in Node BY DEF Inv, TypeOK, Someone
  <2>3. heir' # None => leader' = None /\ ~Limited(heir)'
    BY <2>1, <2>2 DEF HeirInv, Limited
  <2>4. HeirInv' BY <2>1, <2>3, HeirKept
  <2> QED BY <2>1, <2>4
<1> QED BY <1>1, <1>2

----------------------------------------------------------------------------
\* The steps again.

LEMMA LoadRaces ==
  ASSUME Inv, RaceInv, NEW n \in Node, Load(n) PROVE RaceInv'
<1>1. /\ up[n] /\ view' = [view EXCEPT ![n] = Cluster] /\ Goto(n, "loaded")
      /\ UNCHANGED <<dcs, env, nodes, req, heir, late>>
  BY DEF Load, LockKept
<1>2. pc'[n] = "loaded" /\ \A m \in Node \ {n} : pc'[m] = pc[m]
  BY <1>1, GotoDoes DEF Inv
<1>3. view'[n] = Cluster /\ \A m \in Node \ {n} : view'[m] = view[m]
  BY <1>1 DEF Inv, TypeOK
<1>4. Elsewhere(n) BY <1>1, <1>2, <1>3 DEF Elsewhere, nodes
<1>5. RequestInv' BY <1>1, <1>3, RequestKept DEF RaceInv, dcs, Cluster
<1>6. LoopInv'
  BY <1>1, <1>2, <1>3, <1>4, LoopKept
     DEF RaceInv, dcs, env, nodes, Leading, SeesNone, Cluster
<1>7. HeirInv'
  BY <1>1, <1>2, <1>4, HeirKept, AbleHeir DEF Inv, RaceInv, dcs, nodes
<1>8. FailInv' BY <1>1, <1>3, <1>4, FailKept DEF RaceInv, dcs, env, Cluster
<1> QED BY <1>5, <1>6, <1>7, <1>8 DEF RaceInv

LEMMA FollowLeaderRaces ==
  ASSUME Inv, RaceInv, NEW n \in Node, FollowLeader(n) \/ LoseLock(n) PROVE RaceInv'
<1>1. /\ Demoted(n, view[n].paused) /\ Leave(n, "idle")
      /\ UNCHANGED <<dcs, env, up, fit, wal, req, heir, late>>
  BY DEF FollowLeader, LoseLock, LockKept
<1>2. /\ pc'[n] = "idle" /\ \A m \in Node \ {n} : pc'[m] = pc[m]
      /\ view'[n] = NoView /\ \A m \in Node \ {n} : view'[m] = view[m]
  BY <1>1, LeaveDoes DEF Inv
<1>3. /\ \A m \in Node \ {n} : srv'[m] = srv[m]
      /\ \A m \in Node : srv'[m] = "stopped" => srv[m] = "stopped"
  BY <1>1, DemotedDoes DEF Inv
<1>4. Elsewhere(n) BY <1>1, <1>2 DEF Elsewhere
<1>5. RequestInv' BY <1>1, <1>2, NoKeyIs, RequestKept DEF RaceInv, dcs
<1>6. LoopInv'
  BY <1>1, <1>2, <1>4, LoopKept DEF RaceInv, dcs, env, Leading, SeesNone
<1>7. HeirInv'
  BY <1>1, <1>2, <1>3, <1>4, HeirKept, AbleHeir DEF Inv, RaceInv, dcs
<1>8. FailInv'
  BY <1>1, <1>2, <1>4, FailKept DEF RaceInv, dcs, env, Stands, Leading, SeesNone
<1> QED BY <1>5, <1>6, <1>7, <1>8 DEF RaceInv

\* This happens in a pause only.
LEMMA WaitForPromotionRaces ==
  ASSUME Inv, RaceInv, NEW n \in Node, WaitForPromotion(n) PROVE RaceInv'
<1>1. /\ (UNCHANGED leader /\ LockKept) \/ ReleaseLock(n)
      /\ Leave(n, "idle") /\ view[n].paused
      /\ UNCHANGED <<key, paused, optime, env, nodes, req>>
  BY DEF WaitForPromotion, NotPrimaryInPause
<1>2. /\ pc'[n] = "idle" /\ \A m \in Node \ {n} : pc'[m] = pc[m]
      /\ view'[n] = NoView /\ \A m \in Node \ {n} : view'[m] = view[m]
  BY <1>1, LeaveDoes DEF Inv
<1>3. UNCHANGED late
  BY <1>1 DEF LockKept, ReleaseLock, LockFreed
<1>4. Elsewhere(n) BY <1>1, <1>2, <1>3 DEF Elsewhere, nodes
<1>5. RequestInv' BY <1>1, <1>2, NoKeyIs, RequestKept DEF RaceInv
<1>6. HeirInv' /\ (leader' = leader \/ (leader = n /\ leader' = None))
  <2>1. CASE UNCHANGED leader /\ LockKept
    BY <1>1, <1>2, <1>4, <2>1, HeirKept, AbleHeir DEF Inv, RaceInv, LockKept, nodes
  <2>2. CASE ReleaseLock(n)
    <3>1. srv[n] = "stopped" => Limited(n) BY DEF Limited
    <3> QED BY <1>1, <1>2, <1>4, <2>2, <3>1, ReleaseDoes DEF RaceInv, nodes
  <2> QED BY <1>1, <2>1, <2>2
<1>7. LoopInv'
  BY <1>1, <1>2, <1>4, <1>6, LoopKept DEF RaceInv, env, Leading, SeesNone
<1>8. FailInv' BY <1>1 DEF Inv, PrimaryInv, FailInv, env
<1> QED BY <1>5, <1>6, <1>7, <1>8 DEF RaceInv

LEMMA DemoteMyselfRaces ==
  ASSUME Inv, RaceInv, NEW n \in Node, DemoteMyself(n) PROVE RaceInv'
<1>1. /\ Renews(n) /\ Goto(n, "demote")
      /\ UNCHANGED <<leader, key, paused, env, nodes, view, req, heir, late>>
  BY DEF DemoteMyself, LockKept
<1>2. pc'[n] = "demote" /\ \A m \in Node \ {n} : pc'[m] = pc[m]
  BY <1>1, GotoDoes DEF Inv
<1>3. Elsewhere(n) BY <1>1, <1>2 DEF Elsewhere, nodes
<1>4. RequestInv' BY <1>1, RequestKept DEF RaceInv
<1>5. up[n] /\ pc[n] = "loaded" /\ view[n].leader = n /\ leader = n
  BY <1>1 DEF Renews, Leads, Loaded
<1>6. LoopInv'
  BY <1>1, <1>2, <1>3, <1>5, LoopKept DEF RaceInv, env, nodes, SeesNone
<1>7. HeirInv' BY <1>1, <1>2, <1>3, HeirKept, AbleHeir DEF Inv, RaceInv, nodes
<1>8. Stands(n) BY <1>5 DEF Stands, Leading
<1>9. FailInv' BY <1>1, <1>3, <1>8, FailKept DEF RaceInv, env
<1> QED BY <1>4, <1>6, <1>7, <1>9 DEF RaceInv

\* What enforce_master_role leaves behind.
LEMMA EnforceRaces ==
  ASSUME Inv, RaceInv, NEW n \in Node, NEW inPause, EnforceMasterRole(n, inPause), up[n],
         UNCHANGED <<paused, env, up, fit, wal, req>>
  PROVE /\ Elsewhere(n) /\ view'[n] = NoView
        /\ \A m \in Node \ {n} : view'[m] = view[m]
        /\ pc'[n] \in {"idle", "promote", "released"}
        /\ leader' = leader \/ (leader = n /\ leader' = None)
        /\ HeirInv' /\ LoopInv'
<1>1. PICK label \in {"idle", "promote", "released"} : Leave(n, label)
  BY DEF EnforceMasterRole
<1>2. /\ pc'[n] = label /\ \A m \in Node \ {n} : pc'[m] = pc[m]
      /\ view'[n] = NoView /\ \A m \in Node \ {n} : view'[m] = view[m]
  BY <1>1, LeaveDoes DEF Inv
<1>3. Elsewhere(n) /\ HeirInv' /\ (leader' = leader \/ (leader = n /\ leader' = None))
  <2>1. CASE inPause \/ fit[n]
    <3>1. UNCHANGED <<leader, srv, heir, late>>
      BY <2>1 DEF EnforceMasterRole, LockKept
    <3>2. Elsewhere(n) BY <1>2, <3>1 DEF Elsewhere
    <3> QED BY <1>2, <3>1, <3>2, HeirKept, AbleHeir DEF Inv, RaceInv
  <2>2. CASE ~(inPause \/ fit[n])
    <3>1. /\ ReleaseLock(n) /\ Limited(n)
          /\ \A m \in Node \ {n} : srv'[m] = srv[m]
      BY <2>2 DEF EnforceMasterRole, Limited, Inv, TypeOK
    <3>2. UNCHANGED late BY <3>1 DEF ReleaseLock, LockFreed, LockKept
    <3>3. Elsewhere(n) BY <1>2, <3>2 DEF Elsewhere
    <3> QED BY <1>2, <3>1, <3>3, ReleaseDoes DEF RaceInv
  <2> QED BY <2>1, <2>2
<1>4. LoopInv'
  BY <1>2, <1>3, LoopKept DEF RaceInv, env, Leading, SeesNone
<1> QED BY <1>2, <1>3, <1>4

LEMMA KeepLeadingRaces ==
  ASSUME Inv, RaceInv, NEW n \in Node, KeepLeading(n) PROVE RaceInv'
<1>1. /\ CleanUpIf(view[n].key.index) \/ UNCHANGED key
      /\ EnforceMasterRole(n, view[n].paused) /\ up[n] /\ leader = n
      /\ UNCHANGED <<paused, env, up, fit, wal, req>>
  BY DEF KeepLeading, Renews, Leads, Loaded
<1>2. /\ Elsewhere(n) /\ view'[n] = NoView
      /\ \A m \in Node \ {n} : view'[m] = view[m]
      /\ pc'[n] \in {"idle", "promote", "released"}
      /\ leader' \in {n, None}
      /\ HeirInv' /\ LoopInv'
  BY <1>1, EnforceRaces
<1>3. key' \in {key, NoKey} BY <1>1 DEF CleanUpIf
<1>4. RequestInv' BY <1>1, <1>2, <1>3, NoKeyIs, RequestKept DEF RaceInv
<1>5. FailInv' BY <1>1, <1>2, NobodyStands DEF RaceInv
<1> QED BY <1>2, <1>4, <1>5 DEF RaceInv

\* The key that the winner of a race leaves in a pause still stems from the same request.
LEMMA CleanUpAfterRaceRaces ==
  ASSUME Inv, RaceInv, NEW n \in Node, CleanUpAfterRace(n) PROVE RaceInv'
<1> DEFINE f == view[n].key
           g == [f EXCEPT !.leader = None, !.index[2] = @ + 2]
<1>1. /\ \/ UNCHANGED key \/ CleanUp
         \/ f.cand # None /\ key.index = f.index /\ key' = g
      /\ EnforceMasterRole(n, paused) /\ up[n] /\ pc[n] = "won"
      /\ UNCHANGED <<paused, optime, env, up, fit, wal, req>>
  BY DEF CleanUpAfterRace
<1>2. /\ Elsewhere(n) /\ view'[n] = NoView
      /\ \A m \in Node \ {n} : view'[m] = view[m]
      /\ pc'[n] \in {"idle", "promote", "released"}
      /\ leader' = leader \/ (leader = n /\ leader' = None)
      /\ HeirInv' /\ LoopInv'
  BY <1>1, EnforceRaces
<1>3. RequestInv'
  <2>1. CASE UNCHANGED key \/ CleanUp
    BY <1>1, <1>2, <2>1, NoKeyIs, RequestKept DEF RaceInv, CleanUp
  <2>2. CASE f.cand # None /\ key.index = f.index /\ key' = g
    <3>1. /\ g.index[1] = f.index[1] /\ g.cand = f.cand /\ g.at = f.at /\ Wanted(g)
      <4>1. f \in Key BY DEF Inv, TypeOK, View
      <4>2. f.index \in (0..MaxRequests) \X (0..4) BY <4>1 DEF Key
      <4>3. [f.index EXCEPT ![2] = @ + 2] = <<f.index[1], f.index[2] + 2>> BY <4>2
      <4>4. g = [f EXCEPT !.leader = None, !.index = <<f.index[1], f.index[2] + 2>>]
        BY <4>1, <4>3 DEF Key
      <4> QED BY <2>2, <4>1, <4>4 DEF Key, Wanted
    <3>2. f \in Keys /\ key \in Keys /\ Wanted(f) BY <2>2 DEF Keys, Wanted
    <3>3. \A h \in Keys' : h \in Keys \/ h = NoKey \/ h = g
      BY <1>2, <2>2, NoKeyIs DEF Keys
    <3>4. \A h \in Keys : h.index[1] = 0 => h.cand = None
      BY DEF RaceInv, RequestInv, Wanted
    <3>5. \A q \in Request : q # 0 BY SwitchoverAssumption DEF Request
    <3> HIDE DEF f, g
    <3>6. \A h \in Keys' : Wanted(h) <=> h.index[1] # 0
      BY <3>1, <3>2, <3>3, NoKeyIs DEF RaceInv, RequestInv
    <3>7. \A h, i \in Keys' : h.index[1] = i.index[1] => h.cand = i.cand
      BY <3>1, <3>2, <3>3, <3>4, NoKeyIs DEF RaceInv, RequestInv
    <3>8. \A q \in Request, h \in Keys' : h.index[1] = q =>
              /\ req'[q].st \in {"polling", "failed", "closed"}
              /\ req'[q].st = "polling" => h.cand = req'[q].cand /\ h.at = None
      BY <1>1, <3>1, <3>2, <3>3, <3>5, NoKeyIs DEF RaceInv, RequestInv
    <3>9. \A q \in Request :
              /\ key'.index[1] = q => req'[q].st # "failed"
              /\ req'[q].st \in {"checked", "polling"} => Wanted(req'[q])
              /\ req'[q].st = "polling" => req'[q].at = None
      BY <1>1, <2>2, <3>1, <3>2 DEF RaceInv, RequestInv
    <3> QED BY <3>6, <3>7, <3>8, <3>9 DEF RequestInv
  <2> QED BY <1>1, <2>1, <2>2
<1>4. FailInv'
  <2>1. CASE calm
    <3>1. leader = n BY <1>1, <2>1 DEF RaceInv, LoopInv, Leading
    <3> QED BY <1>2, <3>1, NobodyStands DEF RaceInv
  <2>2. CASE ~calm BY <1>1, <2>2 DEF FailInv, env
  <2> QED BY <2>1, <2>2
<1> QED BY <1>2, <1>3, <1>4 DEF RaceInv

\* The background.
LEMMA PromoteRaces ==
  ASSUME Inv, RaceInv, NEW n \in Node, Promote(n) PROVE RaceInv'
<1>1. /\ up[n] /\ pc[n] = "promote" /\ Goto(n, "idle")
      /\ \/ srv' = [srv EXCEPT ![n] = "master"]
         \/ UNCHANGED srv
      /\ UNCHANGED <<dcs, env, up, fit, wal, view, req, heir, late>>
  BY DEF Promote, LockKept
<1>2. pc'[n] = "idle" /\ \A m \in Node \ {n} : pc'[m] = pc[m]
  BY <1>1, GotoDoes DEF Inv
<1>3. Elsewhere(n) BY <1>1, <1>2 DEF Elsewhere
<1>4. /\ \A m \in Node \ {n} : srv'[m] = srv[m]
      /\ \A m \in Node : srv'[m] = "stopped" => srv[m] = "stopped"
  BY <1>1 DEF Inv, TypeOK
<1>5. RequestInv' BY <1>1, RequestKept DEF RaceInv, dcs
<1>6. LoopInv' BY <1>1, <1>2, <1>3, LoopKept DEF RaceInv, dcs, env, Leading, SeesNone
<1>7. HeirInv' BY <1>1, <1>2, <1>3, <1>4, HeirKept, AbleHeir DEF Inv, RaceInv, dcs
<1>8. FailInv'
  BY <1>1, <1>2, <1>3, FailKept DEF RaceInv, dcs, env, Stands, Leading, SeesNone
<1> QED BY <1>5, <1>6, <1>7, <1>8 DEF RaceInv

LEMMA StopServerRaces ==
  ASSUME Inv, RaceInv, NEW n \in Node, StopServer(n) PROVE RaceInv'
<1>1. /\ srv' = [srv EXCEPT ![n] = "stopped"] /\ Goto(n, "stopped")
      /\ UNCHANGED <<dcs, env, up, fit, wal, view, req, late>> /\ Unable(n) /\ up[n]
  BY DEF StopServer
<1>2. pc'[n] = "stopped" /\ \A m \in Node \ {n} : pc'[m] = pc[m]
  BY <1>1, GotoDoes DEF Inv
<1>3. Elsewhere(n) BY <1>1, <1>2 DEF Elsewhere
<1>4. \A m \in Node \ {n} : srv'[m] = srv[m] BY <1>1 DEF Inv, TypeOK
<1>5. RequestInv' BY <1>1, RequestKept DEF RaceInv, dcs
<1>6. LoopInv' BY <1>1, <1>2, <1>3, LoopKept DEF RaceInv, dcs, env, Leading, SeesNone
<1>7. HeirInv'
  <2>1. heir' \in {heir, None} /\ (heir' # None => heir \in Node \ {n})
    BY <1>1 DEF Unable, Inv, TypeOK, Someone
  <2>2. heir' # None => leader' = None /\ ~Limited(heir)'
    BY <1>1, <1>4, <2>1 DEF RaceInv, HeirInv, Limited, dcs
  <2> QED BY <1>2, <1>3, <1>4, <2>1, <2>2, HeirKept DEF RaceInv
<1>8. FailInv'
  BY <1>1, <1>2, <1>3, FailKept DEF RaceInv, dcs, env, Stands, Leading, SeesNone
<1> QED BY <1>5, <1>6, <1>7, <1>8 DEF RaceInv

\* Who gives the lock back was the only one that may have stood.
LEMMA ReleaseRaces ==
  ASSUME Inv, RaceInv, NEW n \in Node, ReleaseLeaderKeyVoluntarily(n) PROVE RaceInv'
<1>1. /\ up[n] /\ ReleaseLock(n) /\ Leave(n, "released")
      /\ UNCHANGED <<key, paused, env, nodes, req>>
  BY DEF ReleaseLeaderKeyVoluntarily
<1>2. /\ pc'[n] = "released" /\ \A m \in Node \ {n} : pc'[m] = pc[m]
      /\ view'[n] = NoView /\ \A m \in Node \ {n} : view'[m] = view[m]
  BY <1>1, LeaveDoes DEF Inv
<1>3. UNCHANGED late BY <1>1 DEF ReleaseLock, LockFreed, LockKept
<1>4. Elsewhere(n) BY <1>1, <1>2, <1>3 DEF Elsewhere, nodes
<1>5. RequestInv' BY <1>1, <1>2, NoKeyIs, RequestKept DEF RaceInv
<1>6. HeirInv' /\ (leader' = leader \/ (leader = n /\ leader' = None))
  <2>1. srv[n] = "stopped" => Limited(n) BY DEF Limited
  <2> QED BY <1>1, <1>2, <1>4, <2>1, ReleaseDoes DEF RaceInv, nodes
<1>7. LoopInv' BY <1>1, <1>2, <1>4, <1>6, LoopKept DEF RaceInv, env, nodes, Leading, SeesNone
<1>8. FailInv'
  <2>1. CASE leader = n BY <1>2, <1>4, <1>6, <2>1, NobodyStands DEF RaceInv
  <2>2. CASE leader # n
    BY <1>1, <1>2, <1>4, <1>6, <2>2, FailKept DEF RaceInv, env, Stands, Leading, SeesNone
  <2> QED BY <2>1, <2>2
<1> QED BY <1>5, <1>6, <1>7, <1>8 DEF RaceInv

LEMMA FollowRaces ==
  ASSUME Inv, RaceInv, NEW n \in Node, Follow(n) PROVE RaceInv'
<1>1. /\ srv' = [srv EXCEPT ![n] = "replica"] /\ Goto(n, "idle")
      /\ UNCHANGED <<dcs, env, up, fit, wal, view, req, heir, late>>
  BY DEF Follow, LockKept
<1>2. pc'[n] = "idle" /\ \A m \in Node \ {n} : pc'[m] = pc[m]
  BY <1>1, GotoDoes DEF Inv
<1>3. Elsewhere(n) BY <1>1, <1>2 DEF Elsewhere
<1>4. /\ \A m \in Node \ {n} : srv'[m] = srv[m]
      /\ \A m \in Node : srv'[m] = "stopped" => srv[m] = "stopped"
  BY <1>1 DEF Inv, TypeOK
<1>5. RequestInv' BY <1>1, RequestKept DEF RaceInv, dcs
<1>6. LoopInv' BY <1>1, <1>2, <1>3, LoopKept DEF RaceInv, dcs, env, Leading, SeesNone
<1>7. HeirInv' BY <1>1, <1>2, <1>3, <1>4, HeirKept, AbleHeir DEF Inv, RaceInv, dcs
<1>8. FailInv'
  BY <1>1, <1>2, <1>3, FailKept DEF RaceInv, dcs, env, Stands, Leading, SeesNone
<1> QED BY <1>5, <1>6, <1>7, <1>8 DEF RaceInv

\* A replica does not race for the heir of a request that it has seen.
LEMMA WaitsForHeir ==
  ASSUME Inv, HeirInv, NEW n \in Node, heir # None, view[n].key.cand = heir,
         srv[n] # "master", NEW gone \in BOOLEAN,
         gone => MayBeGone(n, view[n]), IsHealthiestNode(n, view[n], gone)
  PROVE n = heir
<1>1. ~gone BY DEF MayBeGone
<1>2. CASE Manual(n, view[n]) BY <1>1, <1>2 DEF IsHealthiestNode
<1>3. CASE ~Manual(n, view[n])
  <2>1. Wanted(view[n].key) BY DEF Wanted
  <2>2. ManualTurn(n, view[n])
    BY <1>1, <1>3, <2>1 DEF IsHealthiestNode
  <2> QED BY <2>2 DEF ManualTurn, HeirInv
<1> QED BY <1>2, <1>3

LEMMA RaceRaces ==
  ASSUME Inv, RaceInv, NEW n \in Node, Race(n) PROVE RaceInv'
<1> DEFINE v == view[n]
<1>1. PICK gone \in BOOLEAN :
         /\ gone => Manual(n, v) /\ MayBeGone(n, v)
         /\ IF gone THEN CleanUpIf(v.key.index) ELSE UNCHANGED key
         /\ IF IsHealthiestNode(n, v, gone)
            THEN Goto(n, "race") /\ UNCHANGED <<view, srv, late>>
            ELSE Leave(n, "idle") /\ Demoted(n, paused) /\ late' = late \ {n}
  BY DEF Race
<1>2. /\ up[n] /\ pc[n] = "loaded" /\ v.leader = None
      /\ UNCHANGED <<leader, paused, optime, env, up, fit, wal, req, heir>>
  BY DEF Race, Loaded
<1>3. /\ pc'[n] \in {"race", "idle"} /\ \A m \in Node \ {n} : pc'[m] = pc[m]
      /\ view'[n] \in {v, NoView} /\ \A m \in Node \ {n} : view'[m] = view[m]
      /\ pc'[n] = "race" => /\ UNCHANGED <<view, srv, late>>
                            /\ IsHealthiestNode(n, v, gone)
      /\ pc'[n] = "idle" => view'[n] = NoView
      /\ \A m \in Node \ {n} : m \in late' <=> m \in late
      /\ \A m \in Node \ {n} : srv'[m] = srv[m]
      /\ \A m \in Node : srv'[m] = "stopped" => srv[m] = "stopped"
  <2>1. CASE IsHealthiestNode(n, v, gone)
    BY <1>1, <2>1, GotoDoes DEF Inv
  <2>2. CASE ~IsHealthiestNode(n, v, gone)
    BY <1>1, <2>2, LeaveDoes, DemotedDoes DEF Inv
  <2> QED BY <2>1, <2>2
<1>4. Elsewhere(n) BY <1>2, <1>3 DEF Elsewhere
<1>5. key' \in {key, NoKey} BY <1>1 DEF CleanUpIf
<1>6. RequestInv' BY <1>2, <1>3, <1>5, NoKeyIs, RequestKept DEF RaceInv
<1>7. LoopInv'
  BY <1>2, <1>3, <1>4, LoopKept DEF RaceInv, LoopInv, env, Leading, SeesNone
<1>8. HeirInv'
  <2>1. heir' # None => leader' = None /\ ~Limited(heir)'
    BY <1>2, <1>3, AbleHeir DEF RaceInv
  <2>2. CASE pc'[n] # "race" BY <1>2, <1>3, <1>4, <2>1, <2>2, HeirKept DEF RaceInv
  <2>3. CASE pc'[n] = "race"
    <3>1. heir # None /\ view[n].key.cand = heir /\ srv[n] # "master" => n = heir
      BY <1>1, <1>3, <2>3, WaitsForHeir DEF RaceInv
    <3> QED BY <1>2, <1>3, <1>4, <2>1, <2>3, <3>1 DEF RaceInv, HeirInv, Elsewhere
  <2> QED BY <2>2, <2>3
<1>9. FailInv'
  <2>1. CASE gone
    <3>1. ~calm BY <1>1, <2>1 DEF Manual, Inv, PrimaryInv
    <3> QED BY <1>2, <3>1 DEF FailInv, env
  <2>2. CASE ~gone
    <3>1. Stands(n)' => Stands(n) /\ view'[n].key = view[n].key
      BY <1>2, <1>3 DEF Stands, SeesNone, Leading
    <3> QED BY <1>1, <1>2, <1>4, <2>2, <3>1, FailKept DEF RaceInv, env
  <2> QED BY <2>1, <2>2
<1> QED BY <1>6, <1>7, <1>8, <1>9 DEF RaceInv

\* Whoever takes the lock, nobody stands now: a node that saw no leader is late.
LEMMA AcquireLockRaces ==
  ASSUME Inv, RaceInv, NEW n \in Node, AcquireLock(n) PROVE RaceInv'
<1>1. up[n] /\ pc[n] = "race" /\ UNCHANGED <<key, paused, optime, env, up, fit, wal, req>>
  BY DEF AcquireLock
<1>2. CASE leader = None
  <2>1. leader' = n /\ LockTaken(n) /\ Goto(n, "won") /\ UNCHANGED <<view, srv>>
    BY <1>2 DEF AcquireLock
  <2>2. pc'[n] = "won" /\ \A m \in Node \ {n} : pc'[m] = pc[m] BY <2>1, GotoDoes DEF Inv
  <2>3. RequestInv' BY <1>1, <2>1, RequestKept DEF RaceInv
  <2>4. \A m \in Node : SeesNone(m)' => m \in late'
    BY <2>1, <2>2 DEF SeesNone, LockTaken
  <2>5. n # None BY SwitchoverAssumption
  <2>6. LoopInv'
    <3>1. \A m \in Node : ~up'[m] => pc'[m] = "idle" BY <1>1, <2>2 DEF RaceInv, LoopInv
    <3>2. \A m \in Node : pc'[m] = "race" => view'[m].leader = None
      BY <2>1, <2>2 DEF RaceInv, LoopInv
    <3>3. \A m \in Node : calm' /\ Leading(m)' => leader' = m
      <4>1. \A m \in Node \ {n} : ~(calm /\ Leading(m))
        BY <1>2, SwitchoverAssumption DEF RaceInv, LoopInv
      <4>2. \A m \in Node \ {n} : Leading(m)' <=> Leading(m)
        BY <2>1, <2>2 DEF Leading
      <4> QED BY <1>1, <2>1, <4>1, <4>2 DEF env
    <3> QED BY <2>4, <3>1, <3>2, <3>3 DEF LoopInv
  <2>7. HeirInv' BY <2>1 DEF LockTaken, HeirInv
  <2>8. FailInv'
    <3>1. \A m \in Node : ~(calm' /\ Stands(m)')
      BY <2>1, <2>2, <2>5, <2>6 DEF LoopInv, Stands, Leading
    <3> QED BY <3>1 DEF FailInv
  <2> QED BY <2>3, <2>6, <2>7, <2>8 DEF RaceInv
<1>3. CASE leader # None
  <2>1. /\ Demoted(n, paused) /\ Leave(n, "idle")
        /\ late' = late \ {n} /\ UNCHANGED <<leader, heir>>
    BY <1>3 DEF AcquireLock
  <2>2. /\ pc'[n] = "idle" /\ \A m \in Node \ {n} : pc'[m] = pc[m]
        /\ view'[n] = NoView /\ \A m \in Node \ {n} : view'[m] = view[m]
    BY <2>1, LeaveDoes DEF Inv
  <2>3. Elsewhere(n) BY <1>1, <2>1, <2>2 DEF Elsewhere
  <2>4. RequestInv' BY <1>1, <2>2, NoKeyIs, RequestKept DEF RaceInv
  <2>5. LoopInv' BY <1>1, <2>1, <2>2, <2>3, LoopKept DEF RaceInv, env, Leading, SeesNone
  <2>6. HeirInv' BY <1>3, <2>1 DEF RaceInv, HeirInv
  <2>7. FailInv'
    BY <1>1, <2>1, <2>2, <2>3, FailKept DEF RaceInv, env, Stands, Leading, SeesNone
  <2> QED BY <2>4, <2>5, <2>6, <2>7 DEF RaceInv
<1> QED BY <1>2, <1>3

\* Requests leave the loops and the lock alone.
LEMMA StillRaces ==
  ASSUME Inv, RaceInv, Still, UNCHANGED <<fit, late>>, heir' \in {heir, None}
  PROVE LoopInv' /\ HeirInv' /\ \A n \in Node : Stands(n)' <=> Stands(n)
<1>1. \A n \in Node : /\ Leading(n)' <=> Leading(n)
                      /\ SeesNone(n)' <=> SeesNone(n)
                      /\ Limited(n)' <=> Limited(n)
  BY DEF Still, Leading, SeesNone, Limited
<1>2. LoopInv' BY <1>1 DEF Still, RaceInv, LoopInv
<1>3. heir' # None => heir' \in Node /\ ~Limited(heir')
  BY DEF Inv, TypeOK, Someone, RaceInv, HeirInv
<1>4. heir' # None => ~Limited(heir)' BY <1>3 DEF Still, Limited
<1>5. HeirInv' BY <1>4 DEF Still, RaceInv, HeirInv
<1>6. \A n \in Node : Stands(n)' <=> Stands(n) BY <1>1 DEF Still, Stands
<1> QED BY <1>2, <1>5, <1>6

LEMMA PostFailoverRaces ==
  ASSUME Inv, RaceInv, NEW q \in Request, NEW action \in {"failover", "switchover"},
         NEW l \in Someone, NEW c \in Someone, NEW at \in {None, 1},
         PostFailover(q, action, l, c, at)
  PROVE RaceInv'
<1> DEFINE r == [NoRequest EXCEPT !.st = "checked", !.leader = l, !.cand = c, !.at = at,
                                  !.base = leader]
<1>1. /\ req' = [req EXCEPT ![q] = r] /\ req[q].st = "new"
      /\ UNCHANGED <<dcs, calm, nodes, pc, view, heir, late>>
  BY DEF PostFailover, LockKept
<1>2. c # None \/ l # None
  <2>1. CASE action = "failover" BY <2>1 DEF PostFailover
  <2>2. CASE action = "switchover" BY <2>2 DEF PostFailover
  <2> QED BY <2>1, <2>2
<1>3. r.st = "checked" /\ Wanted(r) BY <1>2 DEF NoRequest, Wanted
<1> HIDE DEF r
<1>4. req'[q] = r /\ \A s \in Request \ {q} : req'[s] = req[s]
  BY <1>1 DEF Inv, TypeOK
<1>5. Keys' = Keys BY <1>1 DEF Keys, dcs
<1>6. RequestInv'
  <2>1. \A f \in Keys : f.index[1] # q BY <1>1 DEF RaceInv, RequestInv
  <2>2. key \in Keys BY DEF Keys
  <2>3. UNCHANGED key BY <1>1 DEF dcs
  <2> QED BY <1>3, <1>4, <1>5, <2>1, <2>2, <2>3 DEF RaceInv, RequestInv
<1>7. Still BY <1>1 DEF Still, dcs, nodes
<1>8. FailInv'
  BY <1>1, <1>3, <1>4, <1>7, StillRaces DEF RaceInv, FailInv, dcs, nodes
<1> QED BY <1>1, <1>6, <1>7, <1>8, StillRaces DEF RaceInv, nodes

LEMMA WriteKeyRaces ==
  ASSUME Inv, RaceInv, NEW q \in Request, PostWrites(q) \/ FallBackToDcs(q) PROVE RaceInv'
<1>1. PICK version \in {1, 2} : WriteKey(q, version)
  BY DEF PostWrites, FallBackToDcs
<1>2. /\ heir' = None /\ UNCHANGED <<leader, paused, optime, env, nodes, pc, view, late>>
      /\ key'.index[1] = q /\ key'.cand = req[q].cand /\ key'.at = req[q].at
      /\ key'.leader = req[q].leader
  BY <1>1 DEF WriteKey
<1>3. /\ req[q].st \in {"checked", "polling"}
      /\ \/ req' = [Overwrite EXCEPT ![q] = [req[q] EXCEPT !.st = "polling"]] /\ req[q].at = None
         \/ req' = [Overwrite EXCEPT ![q] = Closed]
  BY DEF PostWrites, FallBackToDcs
<1>4. \A s \in Request \ {q} :
          /\ req'[s].st = req[s].st /\ req'[s].cand = req[s].cand /\ req'[s].at = req[s].at
          /\ req'[s].leader = req[s].leader
          /\ ~req'[s].over => ~req[s].over /\ req[s].st # "polling"
  BY <1>3 DEF Overwrite, Inv, TypeOK
<1>5. /\ req'[q].st \in {"polling", "closed"}
      /\ req'[q].st = "polling" => /\ req'[q].cand = req[q].cand /\ req'[q].at = None
                                   /\ req'[q].leader = req[q].leader /\ req[q].at = None
  BY <1>3 DEF Overwrite, Closed, NoRequest, Inv, TypeOK
<1>6. \A f \in Keys' : f \in Keys \/ f = key' BY <1>2 DEF Keys
<1>7. Wanted(key') BY <1>2, <1>3 DEF RaceInv, RequestInv, Wanted
<1>8. q # 0 BY SwitchoverAssumption DEF Request
<1>9. \A f \in Keys : f.index[1] = q => f.cand = req[q].cand
  BY <1>3 DEF RaceInv, RequestInv
<1>10. RequestInv'
  <2>1. \A f \in Keys' : Wanted(f) <=> f.index[1] # 0
    BY <1>2, <1>6, <1>7, <1>8 DEF RaceInv, RequestInv
  <2>2. \A f, g \in Keys' : f.index[1] = g.index[1] => f.cand = g.cand
    BY <1>2, <1>6, <1>9 DEF RaceInv, RequestInv
  <2>3. \A s \in Request, f \in Keys' : f.index[1] = s =>
          /\ req'[s].st \in {"polling", "failed", "closed"}
          /\ req'[s].st = "polling" => f.cand = req'[s].cand /\ f.at = None
    <3>1. ASSUME NEW f \in Keys', f.index[1] = q
          PROVE req'[q].st = "polling" => f.cand = req'[q].cand /\ f.at = None
      <4>1. CASE f = key' BY <1>2, <1>5, <4>1
      <4>2. CASE f \in Keys
        <5>1. req[q].st = "polling" BY <1>3, <3>1, <4>2 DEF RaceInv, RequestInv
        <5> QED BY <1>5, <3>1, <4>2, <5>1 DEF RaceInv, RequestInv
      <4> QED BY <1>6, <4>1, <4>2
    <3> QED BY <1>2, <1>4, <1>5, <1>6, <3>1 DEF RaceInv, RequestInv
  <2>4. \A s \in Request :
          /\ key'.index[1] = s => req'[s].st # "failed"
          /\ req'[s].st \in {"checked", "polling"} => Wanted(req'[s])
          /\ req'[s].st = "polling" => req'[s].at = None
    BY <1>2, <1>3, <1>4, <1>5 DEF RaceInv, RequestInv, Wanted
  <2> QED BY <2>1, <2>2, <2>3, <2>4 DEF RequestInv
<1>11. Still BY <1>2 DEF Still, env, nodes
<1>12. FailInv'
  <2> SUFFICES ASSUME calm', NEW m \in Node, NEW s \in Request,
                      view'[m].key.index[1] = s, Stands(m)',
                      req'[s].st \in {"polling", "failed"}, ~req'[s].over
               PROVE key'.index[1] = s
    BY DEF FailInv
  <2>1. CASE s = q BY <1>2, <2>1
  <2>2. CASE s # q
    <3>1. calm /\ Stands(m) /\ view[m].key.index[1] = s
      BY <1>2, <1>11, StillRaces DEF env, nodes
    <3>2. req[s].st = "failed" /\ ~req[s].over BY <1>4, <2>2
    <3> QED BY <3>1, <3>2 DEF RaceInv, FailInv, RequestInv
  <2> QED BY <2>1, <2>2
<1> QED BY <1>2, <1>10, <1>11, <1>12, StillRaces DEF RaceInv, nodes

LEMMA PollRaces == ASSUME Inv, RaceInv, NEW q \in Request, Poll(q) PROVE RaceInv'
<1>1. /\ req[q].st = "polling"
      /\ \/ req' = [req EXCEPT ![q] = Closed]
         \/ req' = [req EXCEPT ![q] = Failed(q)] /\ ~Wanted(key)
      /\ UNCHANGED <<dcs, env, nodes, pc, view, heir, late>>
  BY DEF Poll, LockKept
<1>2. \A s \in Request \ {q} : req'[s] = req[s] BY <1>1 DEF Inv, TypeOK
<1>3. \/ req'[q].st = "closed"
      \/ req'[q].st = "failed" /\ ~Wanted(key) /\ req'[q].over = req[q].over
  <2>1. Closed.st = "closed" /\ Failed(q).st = "failed" /\ Failed(q).over = req[q].over
    BY DEF Closed, Failed, NoRequest
  <2>2. req'[q] = Closed \/ (req'[q] = Failed(q) /\ ~Wanted(key))
    BY <1>1 DEF Inv, TypeOK
  <2> QED BY <2>1, <2>2
<1>4. q # 0 BY SwitchoverAssumption DEF Request
<1>5. Keys' = Keys /\ key \in Keys BY <1>1 DEF Keys, dcs
<1>6. ~Wanted(key) => key.index[1] = 0 BY <1>5 DEF RaceInv, RequestInv
<1>7. RequestInv'
  <2>1. \A s \in Request, f \in Keys' : f.index[1] = s =>
          /\ req'[s].st \in {"polling", "failed", "closed"}
          /\ req'[s].st = "polling" => f.cand = req'[s].cand /\ f.at = None
    BY <1>2, <1>3, <1>5 DEF RaceInv, RequestInv
  <2>2. \A s \in Request :
          /\ key.index[1] = s => req'[s].st # "failed"
          /\ req'[s].st \in {"checked", "polling"} => Wanted(req'[s])
          /\ req'[s].st = "polling" => req'[s].at = None
    BY <1>2, <1>3, <1>4, <1>6 DEF RaceInv, RequestInv
  <2>3. UNCHANGED key BY <1>1 DEF dcs
  <2> QED BY <1>5, <2>1, <2>2, <2>3 DEF RaceInv, RequestInv
<1>8. Still BY <1>1 DEF Still, dcs, env, nodes
<1>9. FailInv'
  BY <1>1, <1>2, <1>3, <1>4, <1>6, <1>8, StillRaces DEF RaceInv, FailInv, dcs, env, nodes
<1> QED BY <1>1, <1>7, <1>8, <1>9, StillRaces DEF RaceInv, nodes

\* A request that is polled for has no time, so nobody deletes it.
LEMMA DeleteSwitchoverRaces == ASSUME Inv, RaceInv, DeleteSwitchover PROVE RaceInv'
<1>1. /\ key.at # None /\ key' = NoKey /\ heir' = None
      /\ UNCHANGED <<leader, paused, optime, env, nodes, pc, view, req, late>>
  BY DEF DeleteSwitchover, CleanUp
<1>2. RequestInv' BY <1>1, RequestKept DEF RaceInv
<1>3. Still BY <1>1 DEF Still, env, nodes
<1>4. key \in Keys BY DEF Keys
<1>5. FailInv'
  BY <1>1, <1>3, <1>4, StillRaces DEF RaceInv, FailInv, RequestInv, env, nodes
<1> QED BY <1>1, <1>2, <1>3, <1>5, StillRaces DEF RaceInv, nodes

LEMMA TogglePauseRaces == ASSUME Inv, RaceInv, TogglePause PROVE RaceInv'
<1>1. /\ calm' = FALSE
      /\ UNCHANGED <<leader, key, nodes, pc, view, req, heir, late>>
  BY DEF TogglePause, LockKept
<1>2. RequestInv' BY <1>1, RequestKept DEF RaceInv
<1>3. LoopInv' BY <1>1 DEF RaceInv, LoopInv, SeesNone, nodes
<1>4. HeirInv' BY <1>1 DEF RaceInv, HeirInv, Limited, nodes
<1>5. FailInv' BY <1>1 DEF FailInv
<1> QED BY <1>2, <1>3, <1>4, <1>5 DEF RaceInv

\* Data, time, and a step that does nothing.
LEMMA QuietRaces ==
  ASSUME Inv, RaceInv,
         \/ \E n, m \in Node : Replicate(n, m)
         \/ Tick \/ UNCHANGED vars
  PROVE RaceInv'
<1>1. UNCHANGED <<leader, key, paused, calm, up, srv, fit, pc, view, req, heir, late>>
  BY DEF Replicate, Tick, LockKept, vars, dcs, env, nodes
<1>2. RequestInv' BY <1>1, RequestKept DEF RaceInv
<1>3. Still BY <1>1 DEF Still
<1>4. FailInv' BY <1>1, <1>3, StillRaces DEF RaceInv, FailInv
<1> QED BY <1>1, <1>2, <1>3, <1>4, StillRaces DEF RaceInv

\* Faults.
LEMMA CrashRaces == ASSUME Inv, RaceInv, NEW n \in Node, Crash(n) PROVE RaceInv'
<1>1. /\ up' = [up EXCEPT ![n] = FALSE] /\ srv' = [srv EXCEPT ![n] = "stopped"]
      /\ Unable(n) /\ late' = late \ {n} /\ Leave(n, "idle")
      /\ UNCHANGED <<dcs, calm, fit, wal, req>>
  BY DEF Crash
<1>2. /\ pc'[n] = "idle" /\ \A m \in Node \ {n} : pc'[m] = pc[m]
      /\ view'[n] = NoView /\ \A m \in Node \ {n} : view'[m] = view[m]
  BY <1>1, LeaveDoes DEF Inv
<1>3. \A m \in Node \ {n} : srv'[m] = srv[m] /\ up'[m] = up[m] BY <1>1 DEF Inv, TypeOK
<1>4. Elsewhere(n) BY <1>1, <1>2, <1>3 DEF Elsewhere
<1>5. RequestInv' BY <1>1, <1>2, NoKeyIs, RequestKept DEF RaceInv, dcs
<1>6. LoopInv' BY <1>1, <1>2, <1>4, LoopKept DEF RaceInv, dcs, Leading, SeesNone
<1>7. HeirInv'
  <2>1. heir' \in {heir, None} /\ (heir' # None => heir' \in Node \ {n})
    BY <1>1 DEF Unable, Inv, TypeOK, Someone
  <2>2. heir' # None => leader' = None /\ ~Limited(heir)'
    BY <1>1, <1>3, <2>1 DEF RaceInv, HeirInv, Limited, dcs
  <2> QED BY <1>2, <1>3, <1>4, <2>1, <2>2, HeirKept DEF RaceInv
<1>8. FailInv'
  BY <1>1, <1>2, <1>4, FailKept DEF RaceInv, dcs, Stands, Leading, SeesNone
<1> QED BY <1>5, <1>6, <1>7, <1>8 DEF RaceInv

LEMMA WatchdogFailsRaces ==
  ASSUME Inv, RaceInv, NEW n \in Node, WatchdogFails(n) PROVE RaceInv'
<1>1. /\ fit' = [fit EXCEPT ![n] = FALSE] /\ Unable(n)
      /\ UNCHANGED <<dcs, calm, up, srv, wal, pc, view, req, late>>
  BY DEF WatchdogFails
<1>2. RequestInv' BY <1>1, RequestKept DEF RaceInv, dcs
<1>3. LoopInv' BY <1>1 DEF RaceInv, LoopInv, Leading, SeesNone, dcs
<1>4. HeirInv'
  <2>1. heir' # None => heir' = heir /\ heir \in Node \ {n}
    BY <1>1 DEF Unable, Inv, TypeOK, Someone
  <2>2. heir' # None => ~Limited(heir)'
    BY <1>1, <2>1 DEF RaceInv, HeirInv, Limited, Inv, TypeOK
  <2> QED BY <1>1, <2>1, <2>2 DEF RaceInv, HeirInv, dcs
<1>5. FailInv' BY <1>1 DEF RaceInv, FailInv, Stands, Leading, SeesNone, dcs
<1> QED BY <1>2, <1>3, <1>4, <1>5 DEF RaceInv

\* Until now somebody had the lock, so whoever saw no leader is late.
LEMMA LockGoesRaces ==
  ASSUME Inv, RaceInv, LeaderExpires \/ LeaderUnreachable PROVE RaceInv'
<1>1. /\ leader \in Node /\ leader' = None /\ LockFreed
      /\ ~up[leader] \/ paused
      /\ UNCHANGED <<key, paused, calm, nodes, pc, view, req, late>>
  BY DEF LeaderExpires, LeaderUnreachable, Event, LockFreed, env, Inv, TypeOK, Someone
<1>2. leader # None BY <1>1, SwitchoverAssumption
<1>3. RequestInv' BY <1>1, RequestKept DEF RaceInv
<1>4. \A n \in Node : SeesNone(n)' => n \in late'
  BY <1>1, <1>2 DEF RaceInv, LoopInv, SeesNone
<1>5. \A n \in Node : ~(calm /\ Leading(n))
  <2>1. calm => ~up[leader] BY <1>1 DEF Inv, PrimaryInv
  <2> QED BY <1>1, <2>1 DEF RaceInv, LoopInv, Leading
<1>6. LoopInv'
  BY <1>1, <1>5 DEF RaceInv, LoopInv, Leading, SeesNone, nodes
<1>7. HeirInv'
  <2>1. heir' # None => heir' \in Node /\ ~Limited(heir')
    BY <1>1 DEF LockFreed, Inv, TypeOK, Key, Someone
  <2>2. heir' # None => ~Limited(heir)' BY <1>1, <2>1 DEF Limited, nodes
  <2> QED BY <1>1, <1>4, <2>2 DEF HeirInv, SeesNone
<1>8. FailInv'
  <2>1. \A n \in Node : ~Stands(n)' BY <1>1, <1>4, SwitchoverAssumption DEF Stands
  <2> QED BY <2>1 DEF FailInv
<1> QED BY <1>3, <1>6, <1>7, <1>8 DEF RaceInv

LEMMA NextRaces == ASSUME Inv, RaceInv, [Next]_vars PROVE RaceInv'
<1>1. ASSUME NEW n \in Node, Cycle(n) PROVE RaceInv'
  BY <1>1, LoadRaces, FollowLeaderRaces, WaitForPromotionRaces, DemoteMyselfRaces,
     KeepLeadingRaces, RaceRaces, AcquireLockRaces, CleanUpAfterRaceRaces DEF Cycle
<1>2. ASSUME NEW n \in Node, Background(n) PROVE RaceInv'
  BY <1>2, PromoteRaces, StopServerRaces, ReleaseRaces, FollowRaces DEF Background
<1>3. CASE Client
  BY <1>3, PostFailoverRaces, WriteKeyRaces, PollRaces, DeleteSwitchoverRaces,
     TogglePauseRaces DEF Client
<1>4. CASE Environment
  BY <1>4, CrashRaces, WatchdogFailsRaces, QuietRaces, LockGoesRaces DEF Environment
<1> QED BY <1>1, <1>2, <1>3, <1>4, QuietRaces DEF Next

LEMMA RaceInitially == Init => RaceInv
<1> SUFFICES ASSUME Init PROVE RaceInv OBVIOUS
<1>1. /\ key = NoKey /\ heir = None /\ pc = [n \in Node |-> "idle"]
      /\ view = [n \in Node |-> NoView] /\ req = [q \in Request |-> NoRequest]
      /\ up = [n \in Node |-> TRUE]
  BY DEF Init
<1>2. \A f \in Keys : f = NoKey BY <1>1, NoKeyIs DEF Keys
<1>3. \A q \in Request : q # 0 BY SwitchoverAssumption DEF Request
<1>4. RequestInv BY <1>1, <1>2, <1>3, NoKeyIs DEF RequestInv, NoRequest
<1>5. LoopInv BY <1>1 DEF LoopInv, Leading, SeesNone
<1>6. HeirInv BY <1>1 DEF HeirInv
<1>7. FailInv BY <1>1 DEF FailInv, Stands, Leading, SeesNone
<1> QED BY <1>4, <1>5, <1>6, <1>7 DEF RaceInv

\* The lock is taken by a node that races, and by nobody else.
LEMMA TakesByAcquiring ==
  ASSUME Inv, RaceInv, [Next]_vars, NEW n \in Node, Takes(n)
  PROVE pc[n] = "race" /\ leader = None
<1>1. leader = None /\ leader' = n /\ n # None
  BY SwitchoverAssumption DEF Takes
<1>2. ASSUME NEW m \in Node, Cycle(m) PROVE AcquireLock(m)
  <2>1. \/ Load(m) \/ FollowLeader(m) \/ WaitForPromotion(m) \/ LoseLock(m)
        \/ DemoteMyself(m) \/ KeepLeading(m) \/ Race(m) \/ CleanUpAfterRace(m)
        => leader' \in {leader, None}
    BY DEF Load, FollowLeader, WaitForPromotion, LoseLock, DemoteMyself, KeepLeading, Race,
           CleanUpAfterRace, EnforceMasterRole, ReleaseLock, dcs
  <2> QED BY <1>1, <1>2, <2>1 DEF Cycle
<1>3. ASSUME NEW m \in Node, Background(m) PROVE leader' \in {leader, None}
  BY <1>3 DEF Background, Promote, StopServer, ReleaseLeaderKeyVoluntarily, Follow,
              ReleaseLock, dcs
<1>4. CASE Client
  <2>1. leader' = leader
    BY <1>4 DEF Client, PostWrites, Poll, FallBackToDcs, PostFailover, DeleteSwitchover,
                TogglePause, WriteKey, dcs
  <2> QED BY <1>1, <2>1
<1>5. CASE Environment
  <2>1. leader' \in {leader, None}
    BY <1>5 DEF Environment, Crash, WatchdogFails, Replicate, Tick, LeaderExpires,
                LeaderUnreachable, dcs
  <2> QED BY <1>1, <2>1
<1>6. CASE UNCHANGED vars BY <1>1, <1>6 DEF vars, dcs
<1>7. CASE \E m \in Node : Cycle(m) \/ Background(m)
  <2>1. PICK m \in Node : AcquireLock(m) BY <1>1, <1>2, <1>3, <1>7
  <2> QED BY <1>1, <2>1 DEF AcquireLock
<1> QED BY <1>4, <1>5, <1>6, <1>7 DEF Next

\* The able candidate of a request is the one who takes the lock; the others that race have
\* not seen the request, are late, or are primaries still.
THEOREM CandidateCorrect == Spec => CandidateTakesOver
<1>1. ASSUME Inv, RaceInv, [Next]_vars, NEW n \in Node, Takes(n), srv[n] # "master",
             heir \notin {None, n}, heir = key.cand, n \notin late
      PROVE view[n].key.index # key.index
  <2>1. pc[n] = "race" BY <1>1, TakesByAcquiring
  <2>2. view[n].key.cand # key.cand BY <1>1, <2>1 DEF RaceInv, HeirInv
  <2>3. key \in Keys /\ view[n].key \in Keys BY DEF Keys
  <2> QED BY <1>1, <2>2, <2>3 DEF RaceInv, RequestInv
<1>2. Inv /\ RaceInv /\ [Next]_vars =>
        [\A n \in Node :
          /\ Takes(n) /\ srv[n] # "master"
          /\ heir \notin {None, n} /\ heir = key.cand /\ n \notin late
          => view[n].key.index # key.index]_vars
  BY <1>1
<1>3. Init => Inv /\ RaceInv BY Initially, RaceInitially
<1>4. Inv /\ RaceInv /\ [Next]_vars => (Inv /\ RaceInv)' BY NextStep, NextRaces
<1> QED BY <1>2, <1>3, <1>4, PTL DEF Spec, CandidateTakesOver

\* Only the leader starts a demotion, and only who started one stops its server.
LEMMA DemotionBegins ==
  ASSUME Inv, RaceInv, [Next]_vars, calm, NEW n \in Node, pc[n] # pc'[n],
         pc'[n] \in {"demote", "stopped"}
  PROVE Stands(n)
<1>1. ASSUME NEW m \in Node, NEW label, label \notin {"demote", "stopped"}, Goto(m, label)
      PROVE FALSE
  BY <1>1, GotoDoes DEF Inv
<1>2. ASSUME NEW m \in Node, Cycle(m) PROVE m = n /\ DemoteMyself(n)
  <2>1. CASE Load(m) BY <1>1, <2>1 DEF Load
  <2>2. CASE FollowLeader(m) \/ LoseLock(m) \/ WaitForPromotion(m)
    BY <1>1, <2>2 DEF FollowLeader, LoseLock, WaitForPromotion, Leave
  <2>3. CASE DemoteMyself(m)
    <3>1. Goto(m, "demote") BY <2>3 DEF DemoteMyself
    <3>2. m = n BY <3>1, GotoDoes DEF Inv
    <3> QED BY <2>3, <3>2
  <2>4. CASE KeepLeading(m) \/ CleanUpAfterRace(m)
    <3>1. PICK label \in {"idle", "promote", "released"} : Goto(m, label)
      BY <2>4 DEF KeepLeading, CleanUpAfterRace, EnforceMasterRole, Leave
    <3> QED BY <1>1, <3>1
  <2>5. CASE Race(m) BY <1>1, <2>5 DEF Race, Leave
  <2>6. CASE AcquireLock(m) BY <1>1, <2>6 DEF AcquireLock, Leave
  <2> QED BY <1>2, <2>1, <2>2, <2>3, <2>4, <2>5, <2>6 DEF Cycle
<1>3. ASSUME NEW m \in Node, Background(m) PROVE m = n /\ StopServer(n)
  <2>1. CASE Promote(m) \/ ReleaseLeaderKeyVoluntarily(m) \/ Follow(m)
    BY <1>1, <2>1 DEF Promote, ReleaseLeaderKeyVoluntarily, Follow, Leave
  <2>2. CASE StopServer(m)
    <3>1. Goto(m, "stopped") BY <2>2 DEF StopServer
    <3>2. m = n BY <3>1, GotoDoes DEF Inv
    <3> QED BY <2>2, <3>2
  <2> QED BY <1>3, <2>1, <2>2 DEF Background
<1>4. CASE Client
  BY <1>4 DEF Client, PostWrites, Poll, FallBackToDcs, PostFailover, DeleteSwitchover,
              TogglePause, WriteKey
<1>5. CASE Environment
  <2>1. ASSUME NEW m \in Node, Crash(m) PROVE FALSE BY <1>1, <2>1 DEF Crash, Leave
  <2> QED
    BY <1>5, <2>1 DEF Environment, WatchdogFails, Replicate, Tick, LeaderExpires,
                      LeaderUnreachable
<1>6. CASE UNCHANGED vars BY <1>6 DEF vars
<1>7. CASE DemoteMyself(n)
  BY <1>7 DEF DemoteMyself, Renews, Leads, Loaded, Stands, Leading
<1>8. CASE StopServer(n)
  BY <1>8 DEF StopServer, RaceInv, LoopInv, Stands, Leading
<1> QED BY <1>2, <1>3, <1>4, <1>5, <1>6, <1>7, <1>8 DEF Next

\* A request that was answered "failed" is not carried out any more.
THEOREM FailedCorrect == Spec => FailedIsFinal
<1>1. ASSUME Inv, RaceInv, [Next]_vars, NEW n \in Node, NEW q \in Request,
             calm, req[q].st = "failed", ~req[q].over, OnBehalfOf(n, q)
      PROVE /\ pc[n] # pc'[n] => pc'[n] \notin {"demote", "stopped"}
            /\ Takes(n) /\ srv[n] = "replica" => n \in late
  <2>1. ~Stands(n)
    BY <1>1 DEF RaceInv, FailInv, RequestInv, OnBehalfOf
  <2>2. Takes(n) => n \in late
    <3>1. Takes(n) => pc[n] = "race" /\ leader = None BY <1>1, TakesByAcquiring
    <3> QED BY <2>1, <3>1 DEF Stands, SeesNone
  <2> QED BY <1>1, <2>1, <2>2, DemotionBegins
<1>2. Inv /\ RaceInv /\ [Next]_vars =>
        [\A n \in Node, q \in Request :
          /\ calm /\ req[q].st = "failed" /\ ~req[q].over /\ OnBehalfOf(n, q)
          => /\ pc[n] # pc'[n] => pc'[n] \notin {"demote", "stopped"}
             /\ Takes(n) /\ srv[n] = "replica" => n \in late]_vars
  BY <1>1
<1>3. Init => Inv /\ RaceInv BY Initially, RaceInitially
<1>4. Inv /\ RaceInv /\ [Next]_vars => (Inv /\ RaceInv)' BY NextStep, NextRaces
<1> QED BY <1>2, <1>3, <1>4, PTL DEF Spec, FailedIsFinal

----------------------------------------------------------------------------
\* The nodes never decline in favour of each other.

\* Among any nodes there is one that is ahead of the others, or level with them.
LEMMA FurthestNode ==
  ASSUME TypeOK, NEW S \in SUBSET Node, S # {}
  PROVE \E n \in S : \A m \in S : wal[m] <= wal[n]
<1> DEFINE T == {MaxWal - wal[n] : n \in S}
<1>1. \A n \in S : wal[n] \in 0..MaxWal BY DEF TypeOK
<1>2. MaxWal \in Nat BY SwitchoverAssumption
<1>3. T \subseteq Nat /\ T # {} BY <1>1, <1>2
<1>4. PICK d \in T : \A e \in T : <<e, d>> \notin OpToRel(<, Nat)
  BY <1>3, WFMin, NatLessThanWellFounded, Zenon
<1>5. \A e \in T : ~(e < d)
  <2>1. d \in Nat BY <1>3
  <2> QED BY <1>3, <1>4, <2>1 DEF OpToRel
<1>6. PICK n \in S : d = MaxWal - wal[n] BY <1>4
<1>7. ASSUME NEW m \in S PROVE wal[m] <= wal[n]
  <2>1. ~(MaxWal - wal[m] < MaxWal - wal[n]) BY <1>5, <1>6
  <2> QED BY <1>1, <1>2, <2>1
<1> QED BY <1>7

\* An able node that is ahead of all those it asks says so.
LEMMA AheadOfAll ==
  ASSUME Inv, NEW n \in Node, NEW ms \in SUBSET Node, NEW checkLag \in BOOLEAN,
         \A m \in Node : srv[m] # "master",
         \A m \in ms : ~Limited(m) => wal[m] <= wal[n],
         checkLag => ~IsLagging(Cluster, wal[n])
  PROVE IsAhead(n, Cluster, ms, checkLag)
<1>1. ASSUME NEW m \in ms, ~Limited(m) PROVE srv[m] = "replica"
  BY <1>1 DEF Limited, Inv, TypeOK
<1> QED BY <1>1 DEF IsAhead, Others

\* A primary races; without one it is the able candidate, the able node that is furthest, or
\* the former leader when nobody else is able.
LEMMA SomeoneAlwaysRaces == ASSUME Inv PROVE SomeoneRaces
<1> DEFINE Races(n) == up[n] /\ srv[n] # "stopped" /\ IsHealthiestNode(n, Cluster, FALSE)
           Able == {n \in Node : ~Limited(n)}
<1> SUFFICES ASSUME ~paused, NEW s \in Node, ~Limited(s), ~IsLagging(Cluster, wal[s])
             PROVE \E n \in Node : Races(n)
  BY DEF SomeoneRaces
<1>1. Cluster.key = key /\ Cluster.paused = FALSE /\ Cluster.optime = optime
  BY DEF Cluster, Inv, TypeOK
<1>2. \A n \in Node : ~Manual(n, Cluster) BY <1>1 DEF Manual
<1>3. \A n \in Able : n \in Node /\ up[n] /\ srv[n] # "stopped" /\ n \notin Tagged /\ fit[n]
  BY DEF Limited
<1>4. CASE \E n \in Node : srv[n] = "master"
  <2>1. PICK n \in Node : srv[n] = "master" BY <1>4
  <2>2. up[n] BY <2>1 DEF Inv, PrimaryInv
  <2>3. IsHealthiestNode(n, Cluster, FALSE) BY <1>2, <2>1 DEF IsHealthiestNode
  <2> QED BY <2>1, <2>2, <2>3
<1>5. CASE (\A n \in Node : srv[n] # "master") /\ ~Wanted(key)
  <2>1. PICK n \in Able : \A m \in Able : wal[m] <= wal[n] BY FurthestNode DEF Inv
  <2>2. ~IsLagging(Cluster, wal[n])
    <3>1. wal[s] <= wal[n] BY <2>1
    <3>2. wal[s] \in Nat /\ wal[n] \in Nat /\ MaxLag \in Nat /\ Cluster.optime \in Nat
      BY <1>1, SwitchoverAssumption DEF Inv, TypeOK
    <3> QED BY <3>1, <3>2 DEF IsLagging
  <2>3. IsAhead(n, Cluster, Node, TRUE) BY <1>5, <2>1, <2>2, AheadOfAll
  <2>4. Races(n) BY <1>1, <1>2, <1>3, <1>5, <2>3 DEF IsHealthiestNode
  <2> QED BY <1>3, <2>4
<1>6. CASE (\A n \in Node : srv[n] # "master") /\ Wanted(key)
  <2>1. ASSUME NEW n \in Able, ManualTurn(n, Cluster) PROVE Races(n)
    BY <1>1, <1>2, <1>3, <1>6, <2>1 DEF IsHealthiestNode
  <2>2. CASE key.cand # None /\ ~Limited(key.cand)
    <3>1. key.cand \in Able BY <2>2 DEF Inv, TypeOK, Key, Someone
    <3>2. ManualTurn(key.cand, Cluster) BY <1>1 DEF ManualTurn
    <3> QED BY <1>3, <2>1, <3>1, <3>2
  <2>3. CASE ~(key.cand # None /\ ~Limited(key.cand)) /\ Able \ {key.leader} # {}
    <3>1. PICK n \in Able \ {key.leader} : \A m \in Able \ {key.leader} : wal[m] <= wal[n]
      BY <2>3, FurthestNode DEF Inv
    <3>2. IsAhead(n, Cluster, Node \ {key.leader}, FALSE) BY <1>6, <3>1, AheadOfAll
    <3>3. ManualTurn(n, Cluster) BY <1>1, <2>3, <3>1, <3>2 DEF ManualTurn
    <3> QED BY <1>3, <2>1, <3>1, <3>3
  <2>4. CASE ~(key.cand # None /\ ~Limited(key.cand)) /\ Able \ {key.leader} = {}
    <3>1. s \in Able /\ s = key.leader BY <2>4
    <3>2. ~IsFailoverPossible(s, Cluster, Node \ {key.cand, s})
      BY <2>4, <3>1 DEF IsFailoverPossible, Others
    <3>3. ManualTurn(s, Cluster) BY <1>1, <2>4, <3>1, <3>2 DEF ManualTurn
    <3> QED BY <2>1, <3>1, <3>3
  <2> QED BY <2>2, <2>3, <2>4
<1> QED BY <1>4, <1>5, <1>6

\* Whenever the lock is free and an able node is not too far behind, some node races for it.
THEOREM SomeoneRacesCorrect == Spec => []SomeoneRaces
<1>1. Init => Inv BY Initially
<1>2. Inv /\ [Next]_vars => Inv' BY NextStep
<1>3. Inv => SomeoneRaces BY SomeoneAlwaysRaces
<1> QED BY <1>1, <1>2, <1>3, PTL DEF Spec
=============================================================================
