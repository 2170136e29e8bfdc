------------------------- MODULE LeaderLeaseProofs -------------------------
(***************************************************************************)
(* Proofs about LeaderLease, for every set of nodes, every ttl, however    *)
(* slow a node is within Lag and whatever mode a server comes up in.       *)
(*                                                                         *)
(* LeaseInv is about the lease and the is_leader() answer; FencedInv       *)
(* carries the promise of the watchdog: a server that was promoted ends    *)
(* with the lease of its node, or Overrun later.  Only the refinement of   *)
(* the abstract lock assumes that Overrun is 0.                            *)
(***************************************************************************)
EXTENDS LeaderLease, TLAPS

\* The leader key is granted, and taken away, only while nobody can commit.
KeyMoves ==
    \/ leader' = leader
    \/ leader = None /\ leader' \in Node /\ \A n \in Node : ~Promoted(n)'
    \/ leader' = None /\ \A n \in Node : ~Promoted(n)

\* A watchdog that stops counting leaves no server that can commit.
WatchdogMoves == \A n \in Node : wd[n] > 0 /\ wd'[n] = 0 => ~Active(n)'

----------------------------------------------------------------------------
\* The steps.

\* Every step keeps every variable in its type.
LEMMA TypeStep == ASSUME TypeOK, [Next]_vars PROVE TypeOK'
<1>0. solo' \subseteq Node BY DEF TypeOK, Next, vars
<1> USE <1>0, ConstantsOK DEF PgState, LoopState, Task, TypeOK
<1>1. CASE Tick BY <1>1 DEF Tick, Pending, ResetBy
<1>2. CASE Expire BY <1>2 DEF Expire, hostVars, haVars
<1>3. ASSUME NEW n \in Node, Host(n) PROVE TypeOK'
  <2>1. CASE BackendsClosed(n)
      BY <2>1 DEF BackendsClosed, PgMoves, dcsVars, haVars
  <2>2. CASE PgExits(n) BY <2>2 DEF PgExits, PgMoves, dcsVars, haVars
  <2>3. CASE PgCrashes(n) BY <2>3 DEF PgCrashes, PgMoves, dcsVars, haVars
  <2>4. CASE PgPromoted(n) BY <2>4 DEF PgPromoted, PgMoves, dcsVars, haVars
  <2>5. CASE OrphanPromotionEnds(n)
      BY <2>5 DEF OrphanPromotionEnds, PgMoves, dcsVars, haVars
  <2> QED BY <1>3, <2>1, <2>2, <2>3, <2>4, <2>5 DEF Host
<1>4. ASSUME NEW n \in Node, Cycle(n) PROVE TypeOK'
  <2>1. CASE Load(n) BY <2>1 DEF Load, Goto, SetIsLeader, dcsVars, hostVars
  <2>2. CASE DcsError(n)
      BY <2>2 DEF DcsError, Signaled, Goto, Demote, SetIsLeader, SetAge,
           dcsVars
  <2>3. CASE PgError(n) BY <2>3 DEF PgError, Goto, SetAge, dcsVars, hostVars
  <2>4. CASE Renew(n) BY <2>4 DEF Renew, Goto, Busy, Connects, hostVars
  <2>5. CASE Renewed(n)
      BY <2>5 DEF Renewed, Goto, SetIsLeader, SetAge, Busy, dcsVars
  <2>6. CASE NotRenewed(n)
      BY <2>6 DEF NotRenewed, Signaled, Goto, Demote, SetIsLeader,
           SetTask, Busy, Connects, LostDuringAction, dcsVars
  <2>7. CASE WithoutLock(n)
      BY <2>7 DEF WithoutLock, Signaled, Goto, Demote, SetTask, Busy,
           Connects, LostDuringAction, Follow, dcsVars
  <2>8. CASE Acquire(n) BY <2>8 DEF Acquire, Goto, Busy, hostVars
  <2>9. CASE Acquired(n)
      BY <2>9 DEF Acquired, Goto, SetIsLeader, SetAge, dcsVars, hostVars
  <2>10. CASE NotAcquired(n)
      BY <2>10 DEF NotAcquired, Signaled, Goto, Demote, SetIsLeader,
           SetTask, Busy, Follow, dcsVars
  <2>11. CASE ActivateWatchdog(n) BY <2>11 DEF ActivateWatchdog, SetAge, dcsVars
  <2>12. CASE ActivationFails(n)
      BY <2>12 DEF ActivationFails, Signaled, Goto, Demote, DeleteLeader,
           SetIsLeader, SetAge, dcsVars
  <2>13. CASE ReleaseAfterPrePromote(n)
      BY <2>13 DEF ReleaseAfterPrePromote, Goto, DeleteLeader,
           SetIsLeader, dcsVars, hostVars
  <2>14. CASE StayMaster(n)
      BY <2>14 DEF StayMaster, Goto, Enforcing, dcsVars, hostVars
  <2>15. CASE RepairStop(n)
      BY <2>15 DEF RepairStop, Signaled, Goto, Enforcing, dcsVars
  <2>16. CASE RepairStart(n) BY <2>16 DEF RepairStart, Goto, dcsVars
  <2>17. CASE SchedulePromote(n)
      BY <2>17 DEF SchedulePromote, Goto, SetTask, Enforcing, dcsVars,
           hostVars
  <2>18. CASE ManualFailover(n)
      BY <2>18 DEF ManualFailover, Signaled, Goto, SetIsLeader, SetTask,
           SetAge, Busy, dcsVars
  <2>19. CASE Safepoint(n) BY <2>19 DEF Safepoint, Disable, Stopping, dcsVars
  <2>20. CASE DemoteEnds(n)
      BY <2>20 DEF DemoteEnds, Goto, DeleteLeader, SetIsLeader, SetTask,
           Busy, Stopped, StartAfterDemotion, dcsVars, hostVars
  <2>21. CASE OfflineEnds(n)
      BY <2>21 DEF OfflineEnds, Goto, SetIsLeader, Stopped, dcsVars
  <2>22. CASE Recover(n) BY <2>22 DEF Recover, Goto, Disable, Busy, dcsVars
  <2>23. CASE RecoverNotRenewed(n)
      BY <2>23 DEF RecoverNotRenewed, Goto, SetIsLeader, dcsVars, hostVars
  <2>24. CASE RecoverFailover(n)
      BY <2>24 DEF RecoverFailover, Goto, SetIsLeader, SetAge, dcsVars,
           hostVars
  <2>25. CASE RecoverStart(n)
      BY <2>25 DEF RecoverStart, Goto, SetIsLeader, SetTask, dcsVars,
           hostVars
  <2>26. CASE PostRecover(n)
    <3>1. CASE pc[n] = "owner"
      <4>1. leader' \in Node \cup {None} /\ keyTtl' \in 0..Ttl
        BY <2>26, <3>1 DEF PostRecover, DeleteLeader, dcsVars
      <4>2. /\ pg' \in [Node -> PgState] /\ wd' \in [Node -> 0..WdTimeout]
            /\ device' \in [Node -> BOOLEAN] /\ pc' \in [Node -> LoopState]
        BY <2>26, <3>1 DEF PostRecover, Disable, Goto
      <4>3. /\ task' \in [Node -> Task] /\ failed' \in [Node -> BOOLEAN]
            /\ age' \in [Node -> 0..Lag]
        BY <2>26, <3>1 DEF PostRecover
      <4>4. apiTtl' \in [Node -> 0..Ttl]
        BY <2>26, <3>1 DEF PostRecover, SetIsLeader
      <4>5. master' \in [Node -> BOOLEAN]
        BY <2>26, <3>1 DEF PostRecover
      <4> QED BY <4>1, <4>2, <4>3, <4>4, <4>5
    <3>2. CASE pc[n] # "owner"
      BY <2>26, <3>2 DEF PostRecover, Goto, Disable, DeleteLeader, SetIsLeader,
           Busy, dcsVars
    <3> QED BY <3>1, <3>2
  <2> QED
      BY <1>4, <2>1, <2>2, <2>3, <2>4, <2>5, <2>6, <2>7, <2>8, <2>9,
           <2>10, <2>11, <2>12, <2>13, <2>14, <2>15, <2>16, <2>17, <2>18,
           <2>19, <2>20, <2>21, <2>22, <2>23, <2>24, <2>25, <2>26 DEF
           Cycle
<1>5. ASSUME NEW n \in Node, Background(n) PROVE TypeOK'
  <2>1. CASE PrePromoteEnds(n)
      BY <2>1 DEF PrePromoteEnds, SetTask, dcsVars, hostVars
  <2>2. CASE Failover(n) BY <2>2 DEF Failover, SetTask, dcsVars
  <2>3. CASE FailoverFails(n) BY <2>3 DEF FailoverFails, SetTask, dcsVars
  <2>4. CASE FailoverReturns(n)
      BY <2>4 DEF FailoverReturns, SetTask, dcsVars, hostVars
  <2>5. CASE GracefulEnds(n)
      BY <2>5 DEF GracefulEnds, DeleteLeader, SetIsLeader, SetTask,
           Stopped, dcsVars, hostVars
  <2>6. CASE ApiRestart(n)
      BY <2>6 DEF ApiRestart, Signaled, SetTask, Busy, dcsVars
  <2>7. CASE Reinitialize(n)
      BY <2>7 DEF Reinitialize, Signaled, SetTask, Busy, dcsVars
  <2>8. CASE StartEnds(n) BY <2>8 DEF StartEnds, SetTask, dcsVars
  <2>9. CASE TaskReset(n) BY <2>9 DEF TaskReset, SetTask, dcsVars, hostVars
  <2> QED
      BY <1>5, <2>1, <2>2, <2>3, <2>4, <2>5, <2>6, <2>7, <2>8, <2>9 DEF
           Background
<1>6. ASSUME NEW n \in Node, Process(n) PROVE TypeOK'
  <2>1. CASE PatroniCrash(n) BY <2>1 DEF PatroniCrash, dcsVars, hostVars
  <2>2. CASE PatroniStart(n) BY <2>2 DEF PatroniStart, dcsVars, hostVars
  <2>3. CASE Shutdown(n)
      BY <2>3 DEF Shutdown, Signaled, Goto, Demote, SetAge, dcsVars
  <2>4. CASE ShutdownEnds(n)
      BY <2>4 DEF ShutdownEnds, Goto, DeleteLeader, SetIsLeader, SetTask,
           dcsVars, hostVars
  <2> QED BY <1>6, <2>1, <2>2, <2>3, <2>4 DEF Process
<1>7. CASE UNCHANGED vars BY <1>7 DEF vars
<1> QED BY <1>1, <1>2, <1>3, <1>4, <1>5, <1>6, <1>7 DEF Next, Step

\* Every step keeps LeaseInv.
LEMMA LeaseStep == ASSUME LeaseInv, [Next]_vars PROVE LeaseInv'
<1> USE ConstantsOK DEF PgState, LoopState, Task, TypeOK, LeaseInv
<1> SUFFICES ASSUME NEW m \in Node, TypeOK'
             PROVE LeaseFresh(m)' /\ LoopAndTask(m)'
  BY TypeStep
<1>1. CASE Tick
    BY <1>1 DEF Tick, ResetBy, LeaseFresh, Pending, LoopAndTask, Recovering
<1>2. CASE Expire
    BY <1>2 DEF Expire, hostVars, haVars, LeaseFresh, Pending, LoopAndTask,
         Recovering
<1>3. ASSUME NEW n \in Node, Host(n) PROVE LeaseFresh(m)' /\ LoopAndTask(m)'
  <2>1. CASE BackendsClosed(n)
      BY <2>1 DEF BackendsClosed, PgMoves, dcsVars, haVars, LeaseFresh,
           Pending, LoopAndTask, Recovering
  <2>2. CASE PgExits(n)
      BY <2>2 DEF PgExits, PgMoves, dcsVars, haVars, LeaseFresh, Pending,
           LoopAndTask, Recovering
  <2>3. CASE PgCrashes(n)
      BY <2>3 DEF PgCrashes, PgMoves, dcsVars, haVars, LeaseFresh,
           Pending, LoopAndTask, Recovering
  <2>4. CASE PgPromoted(n)
      BY <2>4 DEF PgPromoted, PgMoves, dcsVars, haVars, LeaseFresh,
           Pending, LoopAndTask, Recovering
  <2>5. CASE OrphanPromotionEnds(n)
      BY <2>5 DEF OrphanPromotionEnds, PgMoves, dcsVars, haVars,
           LeaseFresh, Pending, LoopAndTask, Recovering
  <2> QED BY <1>3, <2>1, <2>2, <2>3, <2>4, <2>5 DEF Host
<1>4. ASSUME NEW n \in Node, Cycle(n) PROVE LeaseFresh(m)' /\ LoopAndTask(m)'
  <2>1. CASE Load(n)
      BY <2>1 DEF Load, Goto, SetIsLeader, dcsVars, hostVars, LeaseFresh,
           Pending, LoopAndTask, Recovering
  <2>2. CASE DcsError(n)
      BY <2>2 DEF DcsError, Signaled, Goto, Demote, SetIsLeader, SetAge,
           dcsVars, LeaseFresh, Pending, LoopAndTask, Recovering
  <2>3. CASE PgError(n)
      BY <2>3 DEF PgError, Goto, SetAge, dcsVars, hostVars, LeaseFresh,
           Pending, LoopAndTask, Recovering
  <2>4. CASE Renew(n)
      BY <2>4 DEF Renew, Goto, Busy, Connects, hostVars, LeaseFresh,
           Pending, LoopAndTask, Recovering
  <2>5. CASE Renewed(n)
      BY <2>5 DEF Renewed, Goto, SetIsLeader, SetAge, Busy, dcsVars,
           LeaseFresh, Pending, LoopAndTask, Recovering
  <2>6. CASE NotRenewed(n)
      BY <2>6 DEF NotRenewed, Signaled, Goto, Demote, SetIsLeader,
           SetTask, Busy, Connects, LostDuringAction, dcsVars, LeaseFresh,
           Pending, LoopAndTask, Recovering
  <2>7. CASE WithoutLock(n)
      BY <2>7 DEF WithoutLock, Signaled, Goto, Demote, SetTask, Busy,
           Connects, LostDuringAction, Follow, dcsVars, LeaseFresh,
           Pending, LoopAndTask, Recovering
  <2>8. CASE Acquire(n)
      BY <2>8 DEF Acquire, Goto, Busy, hostVars, LeaseFresh, Pending,
           LoopAndTask, Recovering
  <2>9. CASE Acquired(n)
      BY <2>9 DEF Acquired, Goto, SetIsLeader, SetAge, dcsVars, hostVars,
           LeaseFresh, Pending, LoopAndTask, Recovering
  <2>10. CASE NotAcquired(n)
      BY <2>10 DEF NotAcquired, Signaled, Goto, Demote, SetIsLeader,
           SetTask, Busy, Follow, dcsVars, LeaseFresh, Pending,
           LoopAndTask, Recovering
  <2>11. CASE ActivateWatchdog(n)
      BY <2>11 DEF ActivateWatchdog, SetAge, dcsVars, LeaseFresh, Pending,
           LoopAndTask, Recovering
  <2>12. CASE ActivationFails(n)
      BY <2>12 DEF ActivationFails, Signaled, Goto, Demote, DeleteLeader,
           SetIsLeader, SetAge, dcsVars, LeaseFresh, Pending, LoopAndTask,
           Recovering
  <2>13. CASE ReleaseAfterPrePromote(n)
      BY <2>13 DEF ReleaseAfterPrePromote, Goto, DeleteLeader,
           SetIsLeader, dcsVars, hostVars, LeaseFresh, Pending,
           LoopAndTask, Recovering
  <2>14. CASE StayMaster(n)
      BY <2>14 DEF StayMaster, Goto, Enforcing, dcsVars, hostVars,
           LeaseFresh, Pending, LoopAndTask, Recovering
  <2>15. CASE RepairStop(n)
      BY <2>15 DEF RepairStop, Signaled, Goto, Enforcing, dcsVars,
           LeaseFresh, Pending, LoopAndTask, Recovering
  <2>16. CASE RepairStart(n)
      BY <2>16 DEF RepairStart, Goto, dcsVars, LeaseFresh, Pending,
           LoopAndTask, Recovering
  <2>17. CASE SchedulePromote(n)
      BY <2>17 DEF SchedulePromote, Goto, SetTask, Enforcing, dcsVars,
           hostVars, LeaseFresh, Pending, LoopAndTask, Recovering
  <2>18. CASE ManualFailover(n)
      BY <2>18 DEF ManualFailover, Signaled, Goto, SetIsLeader, SetTask,
           SetAge, Busy, dcsVars, LeaseFresh, Pending, LoopAndTask,
           Recovering
  <2>19. CASE Safepoint(n)
      BY <2>19 DEF Safepoint, Disable, Stopping, dcsVars, LeaseFresh,
           Pending, LoopAndTask, Recovering
  <2>20. CASE DemoteEnds(n)
      BY <2>20 DEF DemoteEnds, Goto, DeleteLeader, SetIsLeader, SetTask,
           Busy, Stopped, StartAfterDemotion, dcsVars, hostVars,
           LeaseFresh, Pending, LoopAndTask, Recovering
  <2>21. CASE OfflineEnds(n)
      BY <2>21 DEF OfflineEnds, Goto, SetIsLeader, Stopped, dcsVars,
           LeaseFresh, Pending, LoopAndTask, Recovering
  <2>22. CASE Recover(n)
      BY <2>22 DEF Recover, Goto, Disable, Busy, dcsVars, LeaseFresh,
           Pending, LoopAndTask, Recovering
  <2>23. CASE RecoverNotRenewed(n)
      BY <2>23 DEF RecoverNotRenewed, Goto, SetIsLeader, dcsVars,
           hostVars, LeaseFresh, Pending, LoopAndTask, Recovering
  <2>24. CASE RecoverFailover(n)
      BY <2>24 DEF RecoverFailover, Goto, SetIsLeader, SetAge, dcsVars,
           hostVars, LeaseFresh, Pending, LoopAndTask, Recovering
  <2>25. CASE RecoverStart(n)
      BY <2>25 DEF RecoverStart, Goto, SetIsLeader, SetTask, dcsVars,
           hostVars, LeaseFresh, Pending, LoopAndTask, Recovering
  <2>26. CASE PostRecover(n)
      BY <2>26 DEF PostRecover, Goto, Disable, DeleteLeader, SetIsLeader,
           Busy, dcsVars, LeaseFresh, Pending, LoopAndTask, Recovering
  <2> QED
      BY <1>4, <2>1, <2>2, <2>3, <2>4, <2>5, <2>6, <2>7, <2>8, <2>9,
           <2>10, <2>11, <2>12, <2>13, <2>14, <2>15, <2>16, <2>17, <2>18,
           <2>19, <2>20, <2>21, <2>22, <2>23, <2>24, <2>25, <2>26 DEF
           Cycle
<1>5. ASSUME NEW n \in Node, Background(n) PROVE LeaseFresh(m)' /\ LoopAndTask(m)'
  <2>1. CASE PrePromoteEnds(n)
      BY <2>1 DEF PrePromoteEnds, SetTask, dcsVars, hostVars, LeaseFresh,
           Pending, LoopAndTask, Recovering
  <2>2. CASE Failover(n)
      BY <2>2 DEF Failover, SetTask, dcsVars, LeaseFresh, Pending,
           LoopAndTask, Recovering
  <2>3. CASE FailoverFails(n)
      BY <2>3 DEF FailoverFails, SetTask, dcsVars, LeaseFresh, Pending,
           LoopAndTask, Recovering
  <2>4. CASE FailoverReturns(n)
      BY <2>4 DEF FailoverReturns, SetTask, dcsVars, hostVars, LeaseFresh,
           Pending, LoopAndTask, Recovering
  <2>5. CASE GracefulEnds(n)
      BY <2>5 DEF GracefulEnds, DeleteLeader, SetIsLeader, SetTask,
           Stopped, dcsVars, hostVars, LeaseFresh, Pending, LoopAndTask,
           Recovering
  <2>6. CASE ApiRestart(n)
      BY <2>6 DEF ApiRestart, Signaled, SetTask, Busy, dcsVars,
           LeaseFresh, Pending, LoopAndTask, Recovering
  <2>7. CASE Reinitialize(n)
      BY <2>7 DEF Reinitialize, Signaled, SetTask, Busy, dcsVars,
           LeaseFresh, Pending, LoopAndTask, Recovering
  <2>8. CASE StartEnds(n)
      BY <2>8 DEF StartEnds, SetTask, dcsVars, LeaseFresh, Pending,
           LoopAndTask, Recovering
  <2>9. CASE TaskReset(n)
      BY <2>9 DEF TaskReset, SetTask, dcsVars, hostVars, LeaseFresh,
           Pending, LoopAndTask, Recovering
  <2> QED
      BY <1>5, <2>1, <2>2, <2>3, <2>4, <2>5, <2>6, <2>7, <2>8, <2>9 DEF
           Background
<1>6. ASSUME NEW n \in Node, Process(n) PROVE LeaseFresh(m)' /\ LoopAndTask(m)'
  <2>1. CASE PatroniCrash(n)
      BY <2>1 DEF PatroniCrash, dcsVars, hostVars, LeaseFresh, Pending,
           LoopAndTask, Recovering
  <2>2. CASE PatroniStart(n)
      BY <2>2 DEF PatroniStart, dcsVars, hostVars, LeaseFresh, Pending,
           LoopAndTask, Recovering
  <2>3. CASE Shutdown(n)
      BY <2>3 DEF Shutdown, Signaled, Goto, Demote, SetAge, dcsVars,
           LeaseFresh, Pending, LoopAndTask, Recovering
  <2>4. CASE ShutdownEnds(n)
      BY <2>4 DEF ShutdownEnds, Goto, DeleteLeader, SetIsLeader, SetTask,
           dcsVars, hostVars, LeaseFresh, Pending, LoopAndTask, Recovering
  <2> QED BY <1>6, <2>1, <2>2, <2>3, <2>4 DEF Process
<1>7. CASE UNCHANGED vars
    BY <1>7 DEF vars, LeaseFresh, Pending, LoopAndTask, Recovering
<1> QED BY <1>1, <1>2, <1>3, <1>4, <1>5, <1>6, <1>7 DEF Next, Step

\* The overrun makes up for an answer slower than the safety margin.
LEMMA OverrunOK == Overrun \in Nat /\ WdTimeout + Lag <= Ttl + Overrun
BY ConstantsOK DEF Overrun

\* A server that counts as promoted after a step did so before, or its node has
\* just acted on a granted request with the watchdog active.
LEMMA PromotedStep ==
    ASSUME [Next]_vars, NEW m \in Node, Promoted(m)'
    PROVE  \/ m \notin solo /\ pg[m] # "down"
           \/ Pending(m) /\ device'[m] /\ ~failed[m]
<1>1. CASE Next BY <1>1 DEF Next, Alone, Promoted
<1>2. CASE UNCHANGED vars BY <1>2 DEF vars, Promoted, Active
<1> QED BY <1>1, <1>2

\* Every step keeps FencedInv.
LEMMA FencedStep == ASSUME FencedInv, [Next]_vars PROVE FencedInv'
<1> USE ConstantsOK, OverrunOK DEF PgState, LoopState, Task, TypeOK, LeaseInv,
      LeaseFresh, LoopAndTask, FencedInv, TaskAndServer, Covered, Promotion, Waiting,
      Recovering, Promoted, Active
<1> SUFFICES ASSUME NEW m \in Node, LeaseInv',
                    Promoted(m)' => \/ m \notin solo /\ pg[m] # "down"
                                    \/ Pending(m) /\ device'[m] /\ ~failed[m]
             PROVE TaskAndServer(m)' /\ Covered(m)'
  <2> USE PromotedStep DEF Guarded
  <2> QED BY LeaseStep
<1>1. CASE Tick
  <2>1. CASE wd[m] = 1
    <3>1. /\ pg'[m] = "down" /\ pc'[m] = "off" /\ task'[m] = "none"
          /\ ~device'[m] /\ ~failed'[m]
      BY <1>1, <2>1 DEF Tick, ResetBy
    <3> QED BY <3>1
  <2>2. CASE wd[m] # 1
    <3>1. /\ pg'[m] = pg[m] /\ pc'[m] = pc[m] /\ task'[m] = task[m]
          /\ device'[m] = device[m] /\ failed'[m] = failed[m]
      BY <1>1, <2>2 DEF Tick, ResetBy
    <3>2. Guarded(m) => Guarded(m)'
      BY <1>1, <2>2 DEF Tick, Guarded
    <3>3. device[m] => wd'[m] > 0
      BY <1>1, <2>2 DEF Tick
    <3>4. TaskAndServer(m)' BY <3>1
    <3>5. Pending(m) /\ device'[m] => Guarded(m)'
      <4> SUFFICES ASSUME Pending(m), device[m] PROVE Guarded(m)'
        BY <3>1
      <4>1. Pending(m)' BY <3>1 DEF Pending
      <4>2. leader' = m /\ Ttl <= keyTtl' + age'[m] /\ age'[m] <= Lag
        BY <4>1
      <4> QED BY <3>1, <3>3, <4>2 DEF Guarded
    <3>6. Promoted(m)' => Guarded(m)' BY <3>1, <3>2, <3>5
    <3>7. Covered(m)' BY <3>1, <3>2, <3>3, <3>6
    <3> QED BY <3>4, <3>7
  <2> QED BY <2>1, <2>2
<1>2. CASE Expire BY <1>2 DEF Expire, hostVars, haVars, Guarded, Pending
<1>3. ASSUME NEW n \in Node, Host(n) PROVE TaskAndServer(m)' /\ Covered(m)'
  <2>1. CASE BackendsClosed(n)
      BY <2>1 DEF BackendsClosed, PgMoves, dcsVars, haVars, Guarded,
           Pending
  <2>2. CASE PgExits(n)
      BY <2>2 DEF PgExits, PgMoves, dcsVars, haVars, Guarded, Pending
  <2>3. CASE PgCrashes(n)
      BY <2>3 DEF PgCrashes, PgMoves, dcsVars, haVars, Guarded, Pending
  <2>4. CASE PgPromoted(n)
      BY <2>4 DEF PgPromoted, PgMoves, dcsVars, haVars, Guarded, Pending
  <2>5. CASE OrphanPromotionEnds(n)
      BY <2>5 DEF OrphanPromotionEnds, PgMoves, dcsVars, haVars, Guarded,
           Pending
  <2> QED BY <1>3, <2>1, <2>2, <2>3, <2>4, <2>5 DEF Host
<1>4. ASSUME NEW n \in Node, Cycle(n) PROVE TaskAndServer(m)' /\ Covered(m)'
  <2>1. CASE Load(n)
      BY <2>1 DEF Load, Goto, SetIsLeader, dcsVars, hostVars, Guarded,
           Pending
  <2>2. CASE DcsError(n)
      BY <2>2 DEF DcsError, Signaled, Goto, Demote, SetIsLeader, SetAge,
           dcsVars, Guarded, Pending
  <2>3. CASE PgError(n)
      BY <2>3 DEF PgError, Goto, SetAge, dcsVars, hostVars, Guarded,
           Pending
  <2>4. CASE Renew(n)
      BY <2>4 DEF Renew, Goto, Busy, Connects, hostVars, Guarded, Pending
  <2>5. CASE Renewed(n)
      BY <2>5 DEF Renewed, Goto, SetIsLeader, SetAge, Busy, dcsVars,
           Guarded, Pending
  <2>6. CASE NotRenewed(n)
      BY <2>6 DEF NotRenewed, Signaled, Goto, Demote, SetIsLeader,
           SetTask, Busy, Connects, LostDuringAction, dcsVars, Guarded,
           Pending
  <2>7. CASE WithoutLock(n)
      BY <2>7 DEF WithoutLock, Signaled, Goto, Demote, SetTask, Busy,
           Connects, LostDuringAction, Follow, dcsVars, Guarded, Pending
  <2>8. CASE Acquire(n)
      BY <2>8 DEF Acquire, Goto, Busy, hostVars, Guarded, Pending
  <2>9. CASE Acquired(n)
      BY <2>9 DEF Acquired, Goto, SetIsLeader, SetAge, dcsVars, hostVars,
           Guarded, Pending
  <2>10. CASE NotAcquired(n)
      BY <2>10 DEF NotAcquired, Signaled, Goto, Demote, SetIsLeader,
           SetTask, Busy, Follow, dcsVars, Guarded, Pending
  <2>11. CASE ActivateWatchdog(n)
      BY <2>11 DEF ActivateWatchdog, SetAge, dcsVars, Guarded, Pending
  <2>12. CASE ActivationFails(n)
      BY <2>12 DEF ActivationFails, Signaled, Goto, Demote, DeleteLeader,
           SetIsLeader, SetAge, dcsVars, Guarded, Pending
  <2>13. CASE ReleaseAfterPrePromote(n)
      BY <2>13 DEF ReleaseAfterPrePromote, Goto, DeleteLeader,
           SetIsLeader, dcsVars, hostVars, Guarded, Pending
  <2>14. CASE StayMaster(n)
      BY <2>14 DEF StayMaster, Goto, Enforcing, dcsVars, hostVars, Guarded,
           Pending
  <2>15. CASE RepairStop(n)
      BY <2>15 DEF RepairStop, Signaled, Goto, Enforcing, dcsVars, Guarded,
           Pending
  <2>16. CASE RepairStart(n)
      BY <2>16 DEF RepairStart, Goto, dcsVars, Guarded, Pending
  <2>17. CASE SchedulePromote(n)
      BY <2>17 DEF SchedulePromote, Goto, SetTask, Enforcing, dcsVars,
           hostVars, Guarded, Pending
  <2>18. CASE ManualFailover(n)
      BY <2>18 DEF ManualFailover, Signaled, Goto, SetIsLeader, SetTask,
           SetAge, Busy, dcsVars, Guarded, Pending
  <2>19. CASE Safepoint(n)
      BY <2>19 DEF Safepoint, Disable, Stopping, dcsVars, Guarded, Pending
  <2>20. CASE DemoteEnds(n)
      BY <2>20 DEF DemoteEnds, Goto, DeleteLeader, SetIsLeader, SetTask,
           Busy, Stopped, StartAfterDemotion, dcsVars, hostVars, Guarded,
           Pending
  <2>21. CASE OfflineEnds(n)
      BY <2>21 DEF OfflineEnds, Goto, SetIsLeader, Stopped, dcsVars,
           Guarded, Pending
  <2>22. CASE Recover(n)
      BY <2>22 DEF Recover, Goto, Disable, Busy, dcsVars, Guarded, Pending
  <2>23. CASE RecoverNotRenewed(n)
      BY <2>23 DEF RecoverNotRenewed, Goto, SetIsLeader, dcsVars,
           hostVars, Guarded, Pending
  <2>24. CASE RecoverFailover(n)
      BY <2>24 DEF RecoverFailover, Goto, SetIsLeader, SetAge, dcsVars,
           hostVars, Guarded, Pending
  <2>25. CASE RecoverStart(n)
      BY <2>25 DEF RecoverStart, Goto, SetIsLeader, SetTask, dcsVars,
           hostVars, Guarded, Pending
  <2>26. CASE PostRecover(n)
      BY <2>26 DEF PostRecover, Goto, Disable, DeleteLeader, SetIsLeader,
           Busy, dcsVars, Guarded, Pending
  <2> QED
      BY <1>4, <2>1, <2>2, <2>3, <2>4, <2>5, <2>6, <2>7, <2>8, <2>9,
           <2>10, <2>11, <2>12, <2>13, <2>14, <2>15, <2>16, <2>17, <2>18,
           <2>19, <2>20, <2>21, <2>22, <2>23, <2>24, <2>25, <2>26 DEF
           Cycle
<1>5. ASSUME NEW n \in Node, Background(n) PROVE TaskAndServer(m)' /\ Covered(m)'
  <2>1. CASE PrePromoteEnds(n)
      BY <2>1 DEF PrePromoteEnds, SetTask, dcsVars, hostVars, Guarded,
           Pending
  <2>2. CASE Failover(n) BY <2>2 DEF Failover, SetTask, dcsVars, Guarded, Pending
  <2>3. CASE FailoverFails(n)
      BY <2>3 DEF FailoverFails, SetTask, dcsVars, Guarded, Pending
  <2>4. CASE FailoverReturns(n)
      BY <2>4 DEF FailoverReturns, SetTask, dcsVars, hostVars, Guarded,
           Pending
  <2>5. CASE GracefulEnds(n)
      BY <2>5 DEF GracefulEnds, DeleteLeader, SetIsLeader, SetTask,
           Stopped, dcsVars, hostVars, Guarded, Pending
  <2>6. CASE ApiRestart(n)
      BY <2>6 DEF ApiRestart, Signaled, SetTask, Busy, dcsVars, Guarded,
           Pending
  <2>7. CASE Reinitialize(n)
      BY <2>7 DEF Reinitialize, Signaled, SetTask, Busy, dcsVars, Guarded,
           Pending
  <2>8. CASE StartEnds(n)
      BY <2>8 DEF StartEnds, SetTask, dcsVars, Guarded, Pending
  <2>9. CASE TaskReset(n)
      BY <2>9 DEF TaskReset, SetTask, dcsVars, hostVars, Guarded, Pending
  <2> QED
      BY <1>5, <2>1, <2>2, <2>3, <2>4, <2>5, <2>6, <2>7, <2>8, <2>9 DEF
           Background
<1>6. ASSUME NEW n \in Node, Process(n) PROVE TaskAndServer(m)' /\ Covered(m)'
  <2>1. CASE PatroniCrash(n)
      BY <2>1 DEF PatroniCrash, dcsVars, hostVars, Guarded, Pending
  <2>2. CASE PatroniStart(n)
      BY <2>2 DEF PatroniStart, dcsVars, hostVars, Guarded, Pending
  <2>3. CASE Shutdown(n)
      BY <2>3 DEF Shutdown, Signaled, Goto, Demote, SetAge, dcsVars,
           Guarded, Pending
  <2>4. CASE ShutdownEnds(n)
      BY <2>4 DEF ShutdownEnds, Goto, DeleteLeader, SetIsLeader, SetTask,
           dcsVars, hostVars, Guarded, Pending
  <2> QED BY <1>6, <2>1, <2>2, <2>3, <2>4 DEF Process
<1>7. CASE UNCHANGED vars BY <1>7 DEF vars, Guarded, Pending
<1> QED BY <1>1, <1>2, <1>3, <1>4, <1>5, <1>6, <1>7 DEF Next, Step

\* If the margin covers every answer the key moves only while no promoted server
\* can commit.
LEMMA FencedMoves == ASSUME Overrun = 0, FencedInv, FencedInv', [Next]_vars
                      PROVE KeyMoves
<1> USE ConstantsOK DEF PgState, LoopState, Task, TypeOK, LeaseInv,
      LoopAndTask, FencedInv, TaskAndServer, Covered, Guarded, Promotion, Waiting,
      Recovering, Promoted, Active
<1>0. /\ \A m \in Node : Promoted(m) => leader = m
      /\ \A m \in Node : Promoted(m)' => leader' = m
  OBVIOUS
<1>p. \A m \in Node : Promoted(m)' => \/ m \notin solo /\ pg[m] # "down"
                                      \/ Pending(m)
  BY PromotedStep
<1> USE <1>0, <1>p
<1>1. CASE Tick BY <1>1 DEF Tick, ResetBy, KeyMoves
<1>2. CASE Expire BY <1>2 DEF Expire, hostVars, haVars, KeyMoves
<1>3. ASSUME NEW n \in Node, Host(n) PROVE KeyMoves
  <2>1. CASE BackendsClosed(n)
      BY <2>1 DEF BackendsClosed, PgMoves, dcsVars, haVars, KeyMoves
  <2>2. CASE PgExits(n)
      BY <2>2 DEF PgExits, PgMoves, dcsVars, haVars, KeyMoves
  <2>3. CASE PgCrashes(n)
      BY <2>3 DEF PgCrashes, PgMoves, dcsVars, haVars, KeyMoves
  <2>4. CASE PgPromoted(n)
      BY <2>4 DEF PgPromoted, PgMoves, dcsVars, haVars, KeyMoves
  <2>5. CASE OrphanPromotionEnds(n)
      BY <2>5 DEF OrphanPromotionEnds, PgMoves, dcsVars, haVars, KeyMoves
  <2> QED BY <1>3, <2>1, <2>2, <2>3, <2>4, <2>5 DEF Host
<1>4. ASSUME NEW n \in Node, Cycle(n) PROVE KeyMoves
  <2>1. CASE Load(n)
      BY <2>1 DEF Load, Goto, SetIsLeader, dcsVars, hostVars, KeyMoves
  <2>2. CASE DcsError(n)
      BY <2>2 DEF DcsError, Signaled, Goto, Demote, SetIsLeader, SetAge,
           dcsVars, KeyMoves
  <2>3. CASE PgError(n)
      BY <2>3 DEF PgError, Goto, SetAge, dcsVars, hostVars, KeyMoves
  <2>4. CASE Renew(n)
      BY <2>4 DEF Renew, Goto, Busy, Connects, hostVars, KeyMoves
  <2>5. CASE Renewed(n)
      BY <2>5 DEF Renewed, Goto, SetIsLeader, SetAge, Busy, dcsVars,
           KeyMoves
  <2>6. CASE NotRenewed(n)
      BY <2>6 DEF NotRenewed, Signaled, Goto, Demote, SetIsLeader,
           SetTask, Busy, Connects, LostDuringAction, dcsVars, KeyMoves
  <2>7. CASE WithoutLock(n)
      BY <2>7 DEF WithoutLock, Signaled, Goto, Demote, SetTask, Busy,
           Connects, LostDuringAction, Follow, dcsVars, KeyMoves
  <2>8. CASE Acquire(n)
    <3>1. leader = None /\ leader' = n /\ pg' = pg /\ ~Pending(n)
      BY <2>8 DEF Acquire, hostVars, Pending
    <3>2. ~Promoted(n)' BY <1>0, <1>p, <3>1
    <3> QED BY <1>0, <3>1, <3>2 DEF KeyMoves
  <2>9. CASE Acquired(n)
      BY <2>9 DEF Acquired, Goto, SetIsLeader, SetAge, dcsVars, hostVars,
           KeyMoves
  <2>10. CASE NotAcquired(n)
    <3>1. CASE leader' = leader BY <3>1 DEF KeyMoves
    <3>2. CASE leader' # leader
      <4>1. leader = None /\ leader' = n /\ ~Pending(n)
        BY <2>10, <3>2 DEF NotAcquired, dcsVars, Pending
      <4>2. pg[n] \in {"standby", "primary"} /\ (Active(n)' => pg[n] = "primary")
        BY <2>10 DEF NotAcquired, Follow, Demote, Signaled
      <4>3. ~Promoted(n)' BY <1>0, <1>p, <4>1, <4>2
      <4> QED BY <1>0, <4>1, <4>3 DEF KeyMoves
    <3> QED BY <3>1, <3>2
  <2>11. CASE ActivateWatchdog(n)
      BY <2>11 DEF ActivateWatchdog, SetAge, dcsVars, KeyMoves
  <2>12. CASE ActivationFails(n)
      BY <2>12 DEF ActivationFails, Signaled, Goto, Demote, DeleteLeader,
           SetIsLeader, SetAge, dcsVars, KeyMoves
  <2>13. CASE ReleaseAfterPrePromote(n)
      BY <2>13 DEF ReleaseAfterPrePromote, Goto, DeleteLeader,
           SetIsLeader, dcsVars, hostVars, KeyMoves
  <2>14. CASE StayMaster(n)
      BY <2>14 DEF StayMaster, Goto, Enforcing, dcsVars, hostVars,
           KeyMoves
  <2>15. CASE RepairStop(n)
      BY <2>15 DEF RepairStop, Signaled, Goto, Enforcing, dcsVars,
           KeyMoves
  <2>16. CASE RepairStart(n)
      BY <2>16 DEF RepairStart, Goto, dcsVars, KeyMoves
  <2>17. CASE SchedulePromote(n)
      BY <2>17 DEF SchedulePromote, Goto, SetTask, Enforcing, dcsVars,
           hostVars, KeyMoves
  <2>18. CASE ManualFailover(n)
      BY <2>18 DEF ManualFailover, Signaled, Goto, SetIsLeader, SetTask,
           SetAge, Busy, dcsVars, KeyMoves
  <2>19. CASE Safepoint(n)
      BY <2>19 DEF Safepoint, Disable, Stopping, dcsVars, KeyMoves
  <2>20. CASE DemoteEnds(n)
      BY <2>20 DEF DemoteEnds, Goto, DeleteLeader, SetIsLeader, SetTask,
           Busy, Stopped, StartAfterDemotion, dcsVars, hostVars, KeyMoves
  <2>21. CASE OfflineEnds(n)
      BY <2>21 DEF OfflineEnds, Goto, SetIsLeader, Stopped, dcsVars,
           KeyMoves
  <2>22. CASE Recover(n)
      BY <2>22 DEF Recover, Goto, Disable, Busy, dcsVars, KeyMoves
  <2>23. CASE RecoverNotRenewed(n)
      BY <2>23 DEF RecoverNotRenewed, Goto, SetIsLeader, dcsVars,
           hostVars, KeyMoves
  <2>24. CASE RecoverFailover(n)
      BY <2>24 DEF RecoverFailover, Goto, SetIsLeader, SetAge, dcsVars,
           hostVars, KeyMoves
  <2>25. CASE RecoverStart(n)
      BY <2>25 DEF RecoverStart, Goto, SetIsLeader, SetTask, dcsVars,
           hostVars, KeyMoves
  <2>26. CASE PostRecover(n)
      BY <2>26 DEF PostRecover, Goto, Disable, DeleteLeader, SetIsLeader,
           Busy, dcsVars, KeyMoves
  <2> QED
      BY <1>4, <2>1, <2>2, <2>3, <2>4, <2>5, <2>6, <2>7, <2>8, <2>9,
           <2>10, <2>11, <2>12, <2>13, <2>14, <2>15, <2>16, <2>17, <2>18,
           <2>19, <2>20, <2>21, <2>22, <2>23, <2>24, <2>25, <2>26 DEF
           Cycle
<1>5. ASSUME NEW n \in Node, Background(n) PROVE KeyMoves
  <2>1. CASE PrePromoteEnds(n)
      BY <2>1 DEF PrePromoteEnds, SetTask, dcsVars, hostVars, KeyMoves
  <2>2. CASE Failover(n)
      BY <2>2 DEF Failover, SetTask, dcsVars, KeyMoves
  <2>3. CASE FailoverFails(n)
      BY <2>3 DEF FailoverFails, SetTask, dcsVars, KeyMoves
  <2>4. CASE FailoverReturns(n)
      BY <2>4 DEF FailoverReturns, SetTask, dcsVars, hostVars, KeyMoves
  <2>5. CASE GracefulEnds(n)
      BY <2>5 DEF GracefulEnds, DeleteLeader, SetIsLeader, SetTask,
           Stopped, dcsVars, hostVars, KeyMoves
  <2>6. CASE ApiRestart(n)
      BY <2>6 DEF ApiRestart, Signaled, SetTask, Busy, dcsVars, KeyMoves
  <2>7. CASE Reinitialize(n)
      BY <2>7 DEF Reinitialize, Signaled, SetTask, Busy, dcsVars,
           KeyMoves
  <2>8. CASE StartEnds(n)
      BY <2>8 DEF StartEnds, SetTask, dcsVars, KeyMoves
  <2>9. CASE TaskReset(n)
      BY <2>9 DEF TaskReset, SetTask, dcsVars, hostVars, KeyMoves
  <2> QED
      BY <1>5, <2>1, <2>2, <2>3, <2>4, <2>5, <2>6, <2>7, <2>8, <2>9 DEF
           Background
<1>6. ASSUME NEW n \in Node, Process(n) PROVE KeyMoves
  <2>1. CASE PatroniCrash(n)
      BY <2>1 DEF PatroniCrash, dcsVars, hostVars, KeyMoves
  <2>2. CASE PatroniStart(n)
      BY <2>2 DEF PatroniStart, dcsVars, hostVars, KeyMoves
  <2>3. CASE Shutdown(n)
      BY <2>3 DEF Shutdown, Signaled, Goto, Demote, SetAge, dcsVars,
           KeyMoves
  <2>4. CASE ShutdownEnds(n)
      BY <2>4 DEF ShutdownEnds, Goto, DeleteLeader, SetIsLeader, SetTask,
           dcsVars, hostVars, KeyMoves
  <2> QED BY <1>6, <2>1, <2>2, <2>3, <2>4 DEF Process
<1>7. CASE UNCHANGED vars BY <1>7 DEF vars, KeyMoves
<1> QED BY <1>1, <1>2, <1>3, <1>4, <1>5, <1>6, <1>7 DEF Next, Step

\* Whatever turns a watchdog off does it while the server is not able to commit; a
\* watchdog whose time is over resets the host.
LEMMA WatchdogStep == ASSUME TypeOK, [Next]_vars PROVE WatchdogMoves
<1> USE ConstantsOK DEF TypeOK, WatchdogMoves, Active
<1>1. CASE Tick BY <1>1 DEF Tick, ResetBy
<1>2. CASE Expire BY <1>2 DEF Expire, hostVars
<1>3. ASSUME NEW n \in Node, Host(n) PROVE WatchdogMoves
  BY <1>3 DEF Host, BackendsClosed, PgExits, PgCrashes, PgPromoted,
       OrphanPromotionEnds, PgMoves
<1>4. ASSUME NEW n \in Node, Cycle(n) PROVE WatchdogMoves
  <2>1. CASE UNCHANGED wd BY <2>1
  <2>2. CASE Renewed(n) BY <2>2 DEF Renewed
  <2>3. CASE ActivateWatchdog(n) BY <2>3 DEF ActivateWatchdog
  <2>4. CASE ManualFailover(n) BY <2>4 DEF ManualFailover
  <2>5. CASE Safepoint(n) BY <2>5 DEF Safepoint, Disable
  <2>6. CASE Recover(n) BY <2>6 DEF Recover, Disable
  <2>7. CASE PostRecover(n) BY <2>7 DEF PostRecover, Disable
  <2> QED
    BY <1>4, <2>1, <2>2, <2>3, <2>4, <2>5, <2>6, <2>7
    DEF Cycle, hostVars, Load, DcsError, PgError, Renew, NotRenewed, WithoutLock,
        Acquire, Acquired, NotAcquired, ActivationFails, ReleaseAfterPrePromote,
        StayMaster, RepairStop, RepairStart, SchedulePromote, DemoteEnds,
        OfflineEnds, RecoverNotRenewed, RecoverFailover, RecoverStart
<1>5. ASSUME NEW n \in Node, Background(n) PROVE WatchdogMoves
  BY <1>5 DEF Background, hostVars, PrePromoteEnds, Failover, FailoverFails,
       FailoverReturns, GracefulEnds, ApiRestart, Reinitialize, StartEnds,
       TaskReset
<1>6. ASSUME NEW n \in Node, Process(n) PROVE WatchdogMoves
  BY <1>6 DEF Process, hostVars, PatroniCrash, PatroniStart, Shutdown,
       ShutdownEnds
<1>7. CASE UNCHANGED vars BY <1>7 DEF vars
<1> QED BY <1>1, <1>2, <1>3, <1>4, <1>5, <1>6, <1>7 DEF Next, Step

----------------------------------------------------------------------------
\* The invariants.

\* Every variable keeps its type: ttl, watchdog countdown and is_leader()
\* answer stay within their bounds, the HA loop and the executor in theirs.
THEOREM TypeCorrect == Spec => []TypeOK
<1>1. Init => TypeOK
  BY ConstantsOK DEF Init, TypeOK, PgState, LoopState, Task
<1>2. TypeOK /\ [Next]_vars => TypeOK'
  BY TypeStep
<1> QED BY <1>1, <1>2, PTL DEF Spec

\* A granted lock request that was not acted on belongs to a lease at most Lag
\* old, whatever mode a server is started in.
THEOREM LeaseCorrect == Spec => []LeaseInv
<1>1. Init => LeaseInv
  BY ConstantsOK DEF Init, TypeOK, PgState, LoopState, Task, LeaseInv,
       LeaseFresh, LoopAndTask, Pending, Recovering
<1>2. LeaseInv /\ [Next]_vars => LeaseInv'
  BY LeaseStep
<1> QED BY <1>1, <1>2, PTL DEF Spec

\* A node that lost the leader key stops answering is_leader() within Lag: the
\* REST health check a load balancer polls cannot name two leaders for longer.
THEOREM AnswerEnds == Spec => []LeaderAnswerEnds
<1>1. LeaseInv => LeaderAnswerEnds
  BY ConstantsOK DEF LeaseInv, LeaseFresh, LeaderAnswerEnds, TypeOK
<1> QED BY <1>1, LeaseCorrect, PTL

\* The lease and the watchdog cover every promoted server and every promotion
\* under way, through crashes, lost answers and cancelled promotions.
THEOREM FencedCorrect == Spec => []FencedInv
<1>1. Init => FencedInv
  <2> SUFFICES ASSUME Init PROVE FencedInv
    OBVIOUS
  <2>1. LeaseInv
    BY ConstantsOK DEF Init, TypeOK, PgState, LoopState, Task, LeaseInv,
         LeaseFresh, LoopAndTask, Pending, Recovering
  <2>2. ASSUME NEW n \in Node PROVE TaskAndServer(n) /\ Covered(n)
    BY DEF Init, TaskAndServer, Covered, Promoted, Active, Promotion, Recovering
  <2> QED BY <2>1, <2>2 DEF FencedInv
<1>2. FencedInv /\ [Next]_vars => FencedInv'
  BY FencedStep
<1> QED BY <1>1, <1>2, PTL DEF Spec

\* A promoted server runs under a watchdog that ends with the lease of its node, or
\* Overrun later.
THEOREM PrimaryWatched == Spec => []PrimaryIsWatched
<1>1. FencedInv => PrimaryIsWatched
  BY DEF FencedInv, Covered, Guarded, PrimaryIsWatched
<1> QED BY <1>1, FencedCorrect, PTL

\* Of two promoted servers one has lost the lock and ends within Overrun; there are
\* no two if the margin covers every answer.
THEOREM OnePrimary == Spec => []NoTwoPrimaries
<1>1. FencedInv => NoTwoPrimaries
  <2> SUFFICES ASSUME FencedInv, NEW m \in Node, NEW n \in Node,
                      Promoted(m), Promoted(n), m # n
               PROVE \E k \in {m, n} : leader # k /\ 0 < wd[k] /\ wd[k] <= Overrun
    BY DEF NoTwoPrimaries
  <2>1. PICK k \in {m, n} : leader # k OBVIOUS
  <2>2. Guarded(k) BY DEF FencedInv, Covered
  <2>3. wd[k] \in Nat BY DEF FencedInv, LeaseInv, TypeOK
  <2> QED BY <2>1, <2>2, <2>3, OverrunOK DEF Guarded
<1> QED BY <1>1, FencedCorrect, PTL

\* No watchdog stops counting and leaves a server that can commit.
THEOREM DisarmSafe == Spec => DisarmAfterFence
<1>1. TypeOK /\ [Next]_vars => [WatchdogMoves]_vars
  BY WatchdogStep
<1>2. Spec => [][WatchdogMoves]_vars
  BY <1>1, TypeCorrect, PTL DEF Spec
<1> QED BY <1>2 DEF DisarmAfterFence, WatchdogMoves

\* If the safety margin covers the slowest answer the HA loop, the leader key and the
\* watchdog implement the abstract lock, whose writers are the promoted servers.
THEOREM LockRefined == ASSUME Overrun = 0 PROVE Spec => LockKept
<1> DEFINE writers == {n \in Node : Promoted(n)}
<1>1. Init => Lock!LockInit
  BY DEF Init, Lock!LockInit, Promoted, Active
<1>2. FencedInv /\ FencedInv' /\ [Next]_vars
         => [Lock!LockNext]_<<leader, writers>>
  <2> SUFFICES ASSUME FencedInv, FencedInv', [Next]_vars
               PROVE Lock!LockNext \/ UNCHANGED <<leader, writers>>
    OBVIOUS
  <2>1. \A n \in Node : Promoted(n) => leader = n
    BY Overrun = 0 DEF FencedInv, LeaseInv, TypeOK, Covered, Guarded
  <2>2. \A n \in Node : Promoted(n)' => leader' = n
    BY Overrun = 0 DEF FencedInv, LeaseInv, TypeOK, Covered, Guarded
  <2>3. leader \in Node \cup {None} /\ leader' \in Node \cup {None}
    BY DEF FencedInv, LeaseInv, TypeOK
  <2>4. KeyMoves
    BY Overrun = 0, FencedMoves
  <2>5. CASE leader' = leader
    <3>1. CASE leader = None
      <4>1. writers = {} /\ writers' = {}
        BY <2>1, <2>2, <2>5, <3>1, ConstantsOK
      <4> QED BY <2>5, <4>1
    <3>2. CASE leader \in Node
      <4>1. /\ writers = {} \/ writers = {leader}
            /\ writers' = {} \/ writers' = {leader}
        BY <2>1, <2>2, <2>5, <3>2
      <4> QED BY <2>5, <3>2, <4>1
           DEF Lock!LockNext, Lock!StartWriting, Lock!StopWriting
    <3> QED BY <2>3, <3>1, <3>2
  <2>6. CASE leader = None /\ leader' \in Node /\ \A n \in Node : ~Promoted(n)'
    <3>1. writers = {} /\ writers' = {}
      BY <2>1, <2>6, ConstantsOK
    <3> QED BY <2>6, <3>1 DEF Lock!LockNext, Lock!Grant
  <2>7. CASE leader' = None /\ leader # None /\ \A n \in Node : ~Promoted(n)
    <3>1. writers = {} /\ writers' = {}
      BY <2>2, <2>7, ConstantsOK
    <3> QED BY <2>7, <3>1 DEF Lock!LockNext, Lock!Release
  <2> QED BY <2>4, <2>5, <2>6, <2>7 DEF KeyMoves
<1> QED BY <1>1, <1>2, FencedCorrect, PTL
         DEF Spec, LockKept, Lock!LockSpec
=============================================================================
