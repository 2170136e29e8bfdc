----------------------- MODULE SyncReplicationProofs -----------------------
(***************************************************************************)
(* Proofs about SyncReplication, for any nodes and commits, when every     *)
(* server knows at most one synchronous standby and no node is held up in  *)
(* the race for the lock.                                                  *)
(***************************************************************************)
EXTENDS SyncReplication, TLAPS

\* The assumption of all theorems but the first.
OneName == \A n \in Node : \A x, y \in Names[n] : x = y

\* A successful write of /sync keeps the types.
LEMMA WriteType ==
  ASSUME NEW n \in Node, NEW members \in SUBSET Node, WriteSync(n, members)
  PROVE sync' \in SyncState /\ fresh' \in [Node -> BOOLEAN]
BY DEF WriteSync, SyncState

\* What a loop writes into its local variables keeps their type.
LEMMA PickType ==
  ASSUME NEW p \in Pick, NEW picked \in SUBSET Node, NEW set \in SUBSET Node
  PROVE /\ NoPick \in Pick
        /\ [p EXCEPT !.current = set] \in Pick
        /\ [p EXCEPT !.allow = set] \in Pick
        /\ [p EXCEPT !.picked = picked, !.allow = set] \in Pick
<1>1. NoPick \in Pick BY DEF NoPick, Pick
<1>2. [p EXCEPT !.current = set] \in Pick BY DEF Pick
<1>3. [p EXCEPT !.allow = set] \in Pick BY DEF Pick
<1>4. [p EXCEPT !.picked = picked, !.allow = set] \in Pick
  <2>1. [p EXCEPT !.picked = picked] \in Pick BY DEF Pick
  <2>2. [p EXCEPT !.picked = picked, !.allow = set]
          = [[p EXCEPT !.picked = picked] EXCEPT !.allow = set]
    BY DEF Pick
  <2> QED BY <2>1, <2>2 DEF Pick
<1> QED BY <1>1, <1>2, <1>3, <1>4

\* Every step keeps every variable in its type.
LEMMA TypeStep == ASSUME TypeOK, [Next]_vars PROVE TypeOK'
<1> USE ConstantsOK DEF TypeOK, SyncState, Pick, Pc, NoPick
<1>1. ASSUME NEW n \in Node, CommitLocally(n) PROVE TypeOK'
    BY <1>1 DEF CommitLocally, serverVars, loopVars
<1>2. ASSUME NEW n \in Node, Acknowledge(n) PROVE TypeOK'
    BY <1>2 DEF Acknowledge, serverVars, loopVars
<1>3. ASSUME NEW n \in Node, NEW m \in Node \ {n}, Stream(n, m) PROVE TypeOK'
    BY <1>3 DEF Stream, serverVars, loopVars
<1>4. ASSUME NEW n \in Node, NEW m \in Node \ {n}, Attach(n, m) PROVE TypeOK'
    BY <1>4 DEF Attach, serverVars, loopVars
<1>5. ASSUME NEW n \in Node, Detach(n) PROVE TypeOK'
    BY <1>5 DEF Detach, NextSync, serverVars, loopVars
<1>6. ASSUME NEW n \in Node, StopServer(n) PROVE TypeOK'
    BY <1>6 DEF StopServer, serverVars, loopVars
<1>7. ASSUME NEW n \in Node, StartServer(n) PROVE TypeOK'
    BY <1>7 DEF StartServer, serverVars, loopVars
<1>8. ASSUME NEW n \in Node, LoseLock(n) PROVE TypeOK'
    BY <1>8 DEF LoseLock, serverVars, loopVars
<1>9. ASSUME NEW n \in Node, Abort(n) PROVE TypeOK'
    BY <1>9 DEF Abort, Goto, Return, serverVars, loopVars
<1>10. ASSUME NEW n \in Node, Race(n) PROVE TypeOK'
    BY <1>10 DEF Race, Goto, Matches, serverVars, loopVars
<1>11. ASSUME NEW n \in Node, Acquire(n) PROVE TypeOK'
    BY <1>11 DEF Acquire, serverVars, loopVars
<1>12. ASSUME NEW n \in Node, LoadAfterAcquire(n) PROVE TypeOK'
    BY <1>12 DEF LoadAfterAcquire, Goto, ReadSync, serverVars, loopVars
<1>13. ASSUME NEW n \in Node, CycleWithLock(n) PROVE TypeOK'
  <2>1. sync.members \in SUBSET Node OBVIOUS
  <2>2. pick' \in [Node -> Pick]
    <3> HIDE DEF Pick, NoPick
    <3>1. [NoPick EXCEPT !.current = sync.members] \in Pick BY <2>1, PickType
    <3>2. CASE pick' = [pick EXCEPT ![n] = [NoPick EXCEPT !.current = sync.members]]
      BY <3>1, <3>2
    <3>3. CASE UNCHANGED pick BY <3>3
    <3> HIDE DEF TypeOK
    <3> QED BY <1>13, <3>2, <3>3 DEF CycleWithLock
  <2>3. pc' \in [Node -> Pc] BY <1>13 DEF CycleWithLock, Goto
  <2>4. fresh' \in [Node -> BOOLEAN] BY <1>13 DEF CycleWithLock, ReadSync
  <2> QED BY <1>13, <2>2, <2>3, <2>4 DEF CycleWithLock, serverVars
<1>14. ASSUME NEW n \in Node, Enforce(n) PROVE TypeOK'
  <2>1. sync' \in SyncState /\ fresh' \in [Node -> BOOLEAN]
    BY <1>14, WriteType DEF Enforce
  <2>2. pc' \in [Node -> Pc] BY <1>14 DEF Enforce, Goto
  <2> QED BY <1>14, <2>1, <2>2 DEF Enforce, serverVars
<1>15. ASSUME NEW n \in Node, Promote(n) PROVE TypeOK'
    BY <1>15 DEF Promote, Goto, serverVars, loopVars
<1>16. ASSUME NEW n \in Node, PickStandby(n) PROVE TypeOK'
  <2>1. PICK c \in Candidates :
           \/ Return(n)
           \/ /\ pick' = [pick EXCEPT ![n].picked = c.picked, ![n].allow = c.allow]
              /\ Goto(n, IF pick[n].current \subseteq c.allow THEN "assign" ELSE "clear")
              /\ UNCHANGED fresh
    BY <1>16 DEF PickStandby
  <2>2. c.picked \subseteq Node /\ c.allow \subseteq Node BY DEF Candidates
  <2>3. pick' \in [Node -> Pick]
    <3> HIDE DEF Pick, NoPick
    <3>1. CASE Return(n)
      <4>1. NoPick \in Pick BY PickType
      <4> QED BY <3>1, <4>1 DEF Return
    <3>2. CASE pick' = [pick EXCEPT ![n].picked = c.picked, ![n].allow = c.allow]
      <4>1. [pick[n] EXCEPT !.picked = c.picked, !.allow = c.allow] \in Pick
        BY <2>2, PickType
      <4>2. pick' = [pick EXCEPT ![n] = [pick[n] EXCEPT !.picked = c.picked,
                                                        !.allow = c.allow]]
        BY <3>2
      <4> QED BY <4>1, <4>2
    <3> QED BY <2>1, <3>1, <3>2
  <2>4. pc' \in [Node -> Pc] /\ fresh' \in [Node -> BOOLEAN] BY <2>1 DEF Return, Goto
  <2> QED BY <1>16, <2>3, <2>4 DEF PickStandby, serverVars
<1>17. ASSUME NEW n \in Node, Clear(n) PROVE TypeOK'
  <2>1. pick[n].current \cap pick[n].allow \in SUBSET Node OBVIOUS
  <2>2. sync' \in SyncState /\ fresh' \in [Node -> BOOLEAN]
    BY <1>17, <2>1, WriteType DEF Clear
  <2>3. CASE pick' = [pick EXCEPT ![n].current = pick[n].current \cap pick[n].allow]
    <3>1. pick' \in [Node -> Pick] BY <2>1, <2>3
    <3>2. pc' \in [Node -> Pc] BY <1>17 DEF Clear, Goto
    <3> QED BY <1>17, <2>2, <3>1, <3>2 DEF Clear, serverVars
  <2>4. CASE pick' = [pick EXCEPT ![n] = NoPick]
    <3>1. pick' \in [Node -> Pick] BY <2>4
    <3>2. pc' \in [Node -> Pc] BY <1>17 DEF Clear, Goto
    <3> QED BY <1>17, <2>2, <3>1, <3>2 DEF Clear, serverVars
  <2> QED BY <1>17, <2>3, <2>4 DEF Clear
<1>18. ASSUME NEW n \in Node, Assign(n) PROVE TypeOK'
  <2>1. PICK allow \in SUBSET Node :
           \/ Return(n)
           \/ /\ pick' = [pick EXCEPT ![n].allow = allow]
              /\ Goto(n, "reload")
              /\ UNCHANGED fresh
    <3>1. {c.allow : c \in Candidates} \subseteq SUBSET Node BY DEF Candidates
    <3>2. pick[n].allow \in SUBSET Node OBVIOUS
    <3> QED BY <1>18, <3>1, <3>2 DEF Assign
  <2>2. pick' \in [Node -> Pick]
    <3> HIDE DEF Pick, NoPick
    <3>1. CASE Return(n)
      <4>1. NoPick \in Pick BY PickType
      <4> QED BY <3>1, <4>1 DEF Return
    <3>2. CASE pick' = [pick EXCEPT ![n].allow = allow]
      <4>1. [pick[n] EXCEPT !.allow = allow] \in Pick BY PickType
      <4>2. pick' = [pick EXCEPT ![n] = [pick[n] EXCEPT !.allow = allow]] BY <3>2
      <4> QED BY <4>1, <4>2
    <3> QED BY <2>1, <3>1, <3>2
  <2>3. pc' \in [Node -> Pc] /\ fresh' \in [Node -> BOOLEAN] BY <2>1 DEF Return, Goto
  <2> QED BY <1>18, <2>2, <2>3 DEF Assign, serverVars
<1>19. ASSUME NEW n \in Node, Reload(n) PROVE TypeOK'
    BY <1>19 DEF Reload, Goto, ReadSync, serverVars, loopVars
<1>20. ASSUME NEW n \in Node, Publish(n) PROVE TypeOK'
    BY <1>20 DEF Publish, Goto, WriteSync, serverVars, loopVars
<1>21. CASE UNCHANGED vars
    BY <1>21 DEF vars, serverVars, loopVars
<1> QED
  BY <1>1, <1>2, <1>3, <1>4, <1>5, <1>6, <1>7, <1>8, <1>9, <1>10, <1>11, <1>12, <1>13,
     <1>14, <1>15, <1>16, <1>17, <1>18, <1>19, <1>20, <1>21
     DEF Next, Server, Loop, ProcessSyncReplication

----------------------------------------------------------------------------

\* Every step keeps the lock, /sync and its writers together.
LEMMA LockStep == ASSUME SyncInv, OneName, ~LateRacers, [Next]_vars PROVE LockInv'
<1> TypeOK /\ TypeOK' BY TypeStep DEF SyncInv
<1> USE ConstantsOK DEF OneName, SyncInv, TypeOK, SyncState, Pick, NoPick,
      LockInv, Settled, Writer, Primary, HasAll, StandbyInv, PickInv, Electable, Matches
<1>1. ASSUME NEW n \in Node, CommitLocally(n) PROVE LockInv'
    BY <1>1 DEF CommitLocally, serverVars, loopVars
<1>2. ASSUME NEW n \in Node, Acknowledge(n) PROVE LockInv'
    BY <1>2 DEF Acknowledge, serverVars, loopVars
<1>3. ASSUME NEW n \in Node, NEW m \in Node \ {n}, Stream(n, m) PROVE LockInv'
    BY <1>3 DEF Stream, serverVars, loopVars
<1>4. ASSUME NEW n \in Node, NEW m \in Node \ {n}, Attach(n, m) PROVE LockInv'
    BY <1>4 DEF Attach, serverVars, loopVars
<1>5. ASSUME NEW n \in Node, Detach(n) PROVE LockInv'
    BY <1>5 DEF Detach, NextSync, serverVars, loopVars
<1>6. ASSUME NEW n \in Node, StopServer(n) PROVE LockInv'
    BY <1>6 DEF StopServer, serverVars, loopVars
<1>7. ASSUME NEW n \in Node, StartServer(n) PROVE LockInv'
    BY <1>7 DEF StartServer, serverVars, loopVars
<1>8. ASSUME NEW n \in Node, LoseLock(n) PROVE LockInv'
    BY <1>8 DEF LoseLock, serverVars, loopVars
<1>9. ASSUME NEW n \in Node, Abort(n) PROVE LockInv'
    BY <1>9 DEF Abort, Goto, Return, serverVars, loopVars
<1>10. ASSUME NEW n \in Node, Race(n) PROVE LockInv'
    BY <1>10 DEF Race, Goto, Matches, serverVars, loopVars
<1>11. ASSUME NEW n \in Node, Acquire(n) PROVE LockInv'
    BY <1>11 DEF Acquire, serverVars, loopVars
<1>12. ASSUME NEW n \in Node, LoadAfterAcquire(n) PROVE LockInv'
    BY <1>12 DEF LoadAfterAcquire, Goto, ReadSync, serverVars, loopVars
<1>13. ASSUME NEW n \in Node, CycleWithLock(n) PROVE LockInv'
    BY <1>13 DEF CycleWithLock, Goto, ReadSync, serverVars, loopVars
<1>14. ASSUME NEW n \in Node, Enforce(n) PROVE LockInv'
    BY <1>14 DEF Enforce, Goto, WriteSync, serverVars, loopVars
<1>15. ASSUME NEW n \in Node, Promote(n) PROVE LockInv'
    BY <1>15 DEF Promote, Goto, serverVars, loopVars
<1>16. ASSUME NEW n \in Node, PickStandby(n) PROVE LockInv'
    BY <1>16 DEF PickStandby, Goto, Return, Candidates, serverVars, loopVars
<1>17. ASSUME NEW n \in Node, Clear(n) PROVE LockInv'
    BY <1>17 DEF Clear, Goto, WriteSync, serverVars, loopVars
<1>18. ASSUME NEW n \in Node, Assign(n) PROVE LockInv'
    BY <1>18 DEF Assign, Goto, Return, Candidates, serverVars, loopVars
<1>19. ASSUME NEW n \in Node, Reload(n) PROVE LockInv'
    BY <1>19 DEF Reload, Goto, ReadSync, serverVars, loopVars
<1>20. ASSUME NEW n \in Node, Publish(n) PROVE LockInv'
    BY <1>20 DEF Publish, Goto, WriteSync, serverVars, loopVars
<1>21. CASE UNCHANGED vars
    BY <1>21 DEF vars, serverVars, loopVars
<1> QED
  BY <1>1, <1>2, <1>3, <1>4, <1>5, <1>6, <1>7, <1>8, <1>9, <1>10, <1>11, <1>12, <1>13,
     <1>14, <1>15, <1>16, <1>17, <1>18, <1>19, <1>20, <1>21
     DEF Next, Server, Loop, ProcessSyncReplication

----------------------------------------------------------------------------

\* Every step keeps the synchronous standby the one that the primary knows.
LEMMA StandbyStep == ASSUME SyncInv, OneName, ~LateRacers, [Next]_vars PROVE StandbyInv'
<1> TypeOK /\ TypeOK' BY TypeStep DEF SyncInv
<1> USE ConstantsOK DEF OneName, SyncInv, TypeOK, SyncState, Pick, NoPick,
      LockInv, Settled, Writer, Primary, HasAll, StandbyInv, PickInv, Electable, Matches
<1>1. ASSUME NEW n \in Node, CommitLocally(n) PROVE StandbyInv'
    BY <1>1 DEF CommitLocally, serverVars, loopVars
<1>2. ASSUME NEW n \in Node, Acknowledge(n) PROVE StandbyInv'
    BY <1>2 DEF Acknowledge, serverVars, loopVars
<1>3. ASSUME NEW n \in Node, NEW m \in Node \ {n}, Stream(n, m) PROVE StandbyInv'
    BY <1>3 DEF Stream, serverVars, loopVars
<1>4. ASSUME NEW n \in Node, NEW m \in Node \ {n}, Attach(n, m) PROVE StandbyInv'
    BY <1>4 DEF Attach, serverVars, loopVars
<1>5. ASSUME NEW n \in Node, Detach(n) PROVE StandbyInv'
  <2>1. PICK k \in Node : pg[k] = "primary" /\ syncStandby' \in NextSync(k, attached')
    BY <1>5 DEF Detach
  <2>2. /\ n \in attached /\ attached' = attached \ {n}
        /\ pg' \in {pg, [pg EXCEPT ![n] = "down"]}
        /\ UNCHANGED <<leader, sync, data, acked>>
    BY <1>5 DEF Detach
  <2>3. k = leader /\ n # k /\ pg'[k] = "primary" BY <2>1, <2>2
  <2>4. \A m \in Node : pg'[m] = "primary" => m = leader BY <2>2
  <2>5. syncStandby' # None => syncStandby' \in Names[k] /\ syncStandby' = syncStandby
    BY <2>1, <2>2, <2>3 DEF NextSync
  <2>6. Names[k] \cap attached' \subseteq {syncStandby'} BY <2>1, <2>2, <2>3 DEF NextSync
  <2> QED BY <2>2, <2>3, <2>4, <2>5, <2>6
<1>6. ASSUME NEW n \in Node, StopServer(n) PROVE StandbyInv'
    BY <1>6 DEF StopServer, serverVars, loopVars
<1>7. ASSUME NEW n \in Node, StartServer(n) PROVE StandbyInv'
    BY <1>7 DEF StartServer, serverVars, loopVars
<1>8. ASSUME NEW n \in Node, LoseLock(n) PROVE StandbyInv'
    BY <1>8 DEF LoseLock, serverVars, loopVars
<1>9. ASSUME NEW n \in Node, Abort(n) PROVE StandbyInv'
    BY <1>9 DEF Abort, Goto, Return, serverVars, loopVars
<1>10. ASSUME NEW n \in Node, Race(n) PROVE StandbyInv'
    BY <1>10 DEF Race, Goto, Matches, serverVars, loopVars
<1>11. ASSUME NEW n \in Node, Acquire(n) PROVE StandbyInv'
    BY <1>11 DEF Acquire, serverVars, loopVars
<1>12. ASSUME NEW n \in Node, LoadAfterAcquire(n) PROVE StandbyInv'
    BY <1>12 DEF LoadAfterAcquire, Goto, ReadSync, serverVars, loopVars
<1>13. ASSUME NEW n \in Node, CycleWithLock(n) PROVE StandbyInv'
    BY <1>13 DEF CycleWithLock, Goto, ReadSync, serverVars, loopVars
<1>14. ASSUME NEW n \in Node, Enforce(n) PROVE StandbyInv'
    BY <1>14 DEF Enforce, Goto, WriteSync, serverVars, loopVars
<1>15. ASSUME NEW n \in Node, Promote(n) PROVE StandbyInv'
    BY <1>15 DEF Promote, Goto, serverVars, loopVars
<1>16. ASSUME NEW n \in Node, PickStandby(n) PROVE StandbyInv'
    BY <1>16 DEF PickStandby, Goto, Return, Candidates, serverVars, loopVars
<1>17. ASSUME NEW n \in Node, Clear(n) PROVE StandbyInv'
    BY <1>17 DEF Clear, Goto, WriteSync, serverVars, loopVars
<1>18. ASSUME NEW n \in Node, Assign(n) PROVE StandbyInv'
    BY <1>18 DEF Assign, Goto, Return, Candidates, serverVars, loopVars
<1>19. ASSUME NEW n \in Node, Reload(n) PROVE StandbyInv'
    BY <1>19 DEF Reload, Goto, ReadSync, serverVars, loopVars
<1>20. ASSUME NEW n \in Node, Publish(n) PROVE StandbyInv'
    BY <1>20 DEF Publish, Goto, WriteSync, serverVars, loopVars
<1>21. CASE UNCHANGED vars
    BY <1>21 DEF vars, serverVars, loopVars
<1> QED
  BY <1>1, <1>2, <1>3, <1>4, <1>5, <1>6, <1>7, <1>8, <1>9, <1>10, <1>11, <1>12, <1>13,
     <1>14, <1>15, <1>16, <1>17, <1>18, <1>19, <1>20, <1>21
     DEF Next, Server, Loop, ProcessSyncReplication

----------------------------------------------------------------------------

\* Every step keeps the choice that a primary works on valid.
LEMMA PickStep == ASSUME SyncInv, OneName, ~LateRacers, [Next]_vars PROVE PickInv'
<1> TypeOK /\ TypeOK' BY TypeStep DEF SyncInv
<1> USE ConstantsOK DEF OneName, SyncInv, TypeOK, SyncState, Pick, NoPick,
      LockInv, Settled, Writer, Primary, HasAll, StandbyInv, PickInv, Electable, Matches
<1>1. ASSUME NEW n \in Node, CommitLocally(n) PROVE PickInv'
    BY <1>1 DEF CommitLocally, serverVars, loopVars
<1>2. ASSUME NEW n \in Node, Acknowledge(n) PROVE PickInv'
    BY <1>2 DEF Acknowledge, serverVars, loopVars
<1>3. ASSUME NEW n \in Node, NEW m \in Node \ {n}, Stream(n, m) PROVE PickInv'
    BY <1>3 DEF Stream, serverVars, loopVars
<1>4. ASSUME NEW n \in Node, NEW m \in Node \ {n}, Attach(n, m) PROVE PickInv'
    BY <1>4 DEF Attach, serverVars, loopVars
<1>5. ASSUME NEW n \in Node, Detach(n) PROVE PickInv'
    BY <1>5 DEF Detach, NextSync, serverVars, loopVars
<1>6. ASSUME NEW n \in Node, StopServer(n) PROVE PickInv'
    BY <1>6 DEF StopServer, serverVars, loopVars
<1>7. ASSUME NEW n \in Node, StartServer(n) PROVE PickInv'
    BY <1>7 DEF StartServer, serverVars, loopVars
<1>8. ASSUME NEW n \in Node, LoseLock(n) PROVE PickInv'
    BY <1>8 DEF LoseLock, serverVars, loopVars
<1>9. ASSUME NEW n \in Node, Abort(n) PROVE PickInv'
    BY <1>9 DEF Abort, Goto, Return, serverVars, loopVars
<1>10. ASSUME NEW n \in Node, Race(n) PROVE PickInv'
    BY <1>10 DEF Race, Goto, Matches, serverVars, loopVars
<1>11. ASSUME NEW n \in Node, Acquire(n) PROVE PickInv'
    BY <1>11 DEF Acquire, serverVars, loopVars
<1>12. ASSUME NEW n \in Node, LoadAfterAcquire(n) PROVE PickInv'
    BY <1>12 DEF LoadAfterAcquire, Goto, ReadSync, serverVars, loopVars
<1>13. ASSUME NEW n \in Node, CycleWithLock(n) PROVE PickInv'
    BY <1>13 DEF CycleWithLock, Goto, ReadSync, serverVars, loopVars
<1>14. ASSUME NEW n \in Node, Enforce(n) PROVE PickInv'
    BY <1>14 DEF Enforce, Goto, WriteSync, serverVars, loopVars
<1>15. ASSUME NEW n \in Node, Promote(n) PROVE PickInv'
    BY <1>15 DEF Promote, Goto, serverVars, loopVars
<1>16. ASSUME NEW n \in Node, PickStandby(n) PROVE PickInv'
    BY <1>16 DEF PickStandby, Goto, Return, Candidates, serverVars, loopVars
<1>17. ASSUME NEW n \in Node, Clear(n) PROVE PickInv'
  <2>1. /\ pc[n] = "clear" /\ fresh[n] /\ sync'.leader = n
        /\ fresh' = [m \in Node |-> FALSE]
        /\ UNCHANGED <<data, acked>>
        /\ \A m \in Node \ {n} : pc'[m] = pc[m] /\ pick'[m] = pick[m]
    BY <1>17 DEF Clear, WriteSync, Goto, serverVars
  <2>2. pick'[n].allow = pick[n].allow \/ pc'[n] = "idle"
    BY <1>17 DEF Clear, Goto
  <2>3. sync.leader = n BY <2>1
  <2> QED BY <2>1, <2>2, <2>3
<1>18. ASSUME NEW n \in Node, Assign(n) PROVE PickInv'
    BY <1>18 DEF Assign, Goto, Return, Candidates, serverVars, loopVars
<1>19. ASSUME NEW n \in Node, Reload(n) PROVE PickInv'
    BY <1>19 DEF Reload, Goto, ReadSync, serverVars, loopVars
<1>20. ASSUME NEW n \in Node, Publish(n) PROVE PickInv'
    BY <1>20 DEF Publish, Goto, WriteSync, serverVars, loopVars
<1>21. CASE UNCHANGED vars
    BY <1>21 DEF vars, serverVars, loopVars
<1> QED
  BY <1>1, <1>2, <1>3, <1>4, <1>5, <1>6, <1>7, <1>8, <1>9, <1>10, <1>11, <1>12, <1>13,
     <1>14, <1>15, <1>16, <1>17, <1>18, <1>19, <1>20, <1>21
     DEF Next, Server, Loop, ProcessSyncReplication

----------------------------------------------------------------------------

\* Every step keeps the nodes that /sync names complete.
LEMMA ElectableStep == ASSUME SyncInv, OneName, ~LateRacers, [Next]_vars PROVE Electable'
<1> TypeOK /\ TypeOK' BY TypeStep DEF SyncInv
<1> USE ConstantsOK DEF OneName, SyncInv, TypeOK, SyncState, Pick, NoPick,
      LockInv, Settled, Writer, Primary, HasAll, StandbyInv, PickInv, Electable, Matches
<1>1. ASSUME NEW n \in Node, CommitLocally(n) PROVE Electable'
    BY <1>1 DEF CommitLocally, serverVars, loopVars
<1>2. ASSUME NEW n \in Node, Acknowledge(n) PROVE Electable'
    BY <1>2 DEF Acknowledge, serverVars, loopVars
<1>3. ASSUME NEW n \in Node, NEW m \in Node \ {n}, Stream(n, m) PROVE Electable'
    BY <1>3 DEF Stream, serverVars, loopVars
<1>4. ASSUME NEW n \in Node, NEW m \in Node \ {n}, Attach(n, m) PROVE Electable'
    BY <1>4 DEF Attach, serverVars, loopVars
<1>5. ASSUME NEW n \in Node, Detach(n) PROVE Electable'
    BY <1>5 DEF Detach, NextSync, serverVars, loopVars
<1>6. ASSUME NEW n \in Node, StopServer(n) PROVE Electable'
    BY <1>6 DEF StopServer, serverVars, loopVars
<1>7. ASSUME NEW n \in Node, StartServer(n) PROVE Electable'
    BY <1>7 DEF StartServer, serverVars, loopVars
<1>8. ASSUME NEW n \in Node, LoseLock(n) PROVE Electable'
    BY <1>8 DEF LoseLock, serverVars, loopVars
<1>9. ASSUME NEW n \in Node, Abort(n) PROVE Electable'
    BY <1>9 DEF Abort, Goto, Return, serverVars, loopVars
<1>10. ASSUME NEW n \in Node, Race(n) PROVE Electable'
    BY <1>10 DEF Race, Goto, Matches, serverVars, loopVars
<1>11. ASSUME NEW n \in Node, Acquire(n) PROVE Electable'
    BY <1>11 DEF Acquire, serverVars, loopVars
<1>12. ASSUME NEW n \in Node, LoadAfterAcquire(n) PROVE Electable'
    BY <1>12 DEF LoadAfterAcquire, Goto, ReadSync, serverVars, loopVars
<1>13. ASSUME NEW n \in Node, CycleWithLock(n) PROVE Electable'
    BY <1>13 DEF CycleWithLock, Goto, ReadSync, serverVars, loopVars
<1>14. ASSUME NEW n \in Node, Enforce(n) PROVE Electable'
    BY <1>14 DEF Enforce, Goto, WriteSync, serverVars, loopVars
<1>15. ASSUME NEW n \in Node, Promote(n) PROVE Electable'
    BY <1>15 DEF Promote, Goto, serverVars, loopVars
<1>16. ASSUME NEW n \in Node, PickStandby(n) PROVE Electable'
    BY <1>16 DEF PickStandby, Goto, Return, Candidates, serverVars, loopVars
<1>17. ASSUME NEW n \in Node, Clear(n) PROVE Electable'
    BY <1>17 DEF Clear, Goto, WriteSync, serverVars, loopVars
<1>18. ASSUME NEW n \in Node, Assign(n) PROVE Electable'
    BY <1>18 DEF Assign, Goto, Return, Candidates, serverVars, loopVars
<1>19. ASSUME NEW n \in Node, Reload(n) PROVE Electable'
    BY <1>19 DEF Reload, Goto, ReadSync, serverVars, loopVars
<1>20. ASSUME NEW n \in Node, Publish(n) PROVE Electable'
    BY <1>20 DEF Publish, Goto, WriteSync, serverVars, loopVars
<1>21. CASE UNCHANGED vars
    BY <1>21 DEF vars, serverVars, loopVars
<1> QED
  BY <1>1, <1>2, <1>3, <1>4, <1>5, <1>6, <1>7, <1>8, <1>9, <1>10, <1>11, <1>12, <1>13,
     <1>14, <1>15, <1>16, <1>17, <1>18, <1>19, <1>20, <1>21
     DEF Next, Server, Loop, ProcessSyncReplication

----------------------------------------------------------------------------
\* The theorems.

\* Every reachable state is type correct, whatever the servers know.
THEOREM TypeCorrect == Spec => []TypeOK
<1>1. Init => TypeOK
  BY ConstantsOK DEF Init, TypeOK, SyncState, Pick, NoPick, Pc
<1>2. TypeOK /\ [Next]_vars => TypeOK' BY TypeStep
<1> QED BY <1>1, <1>2, PTL DEF Spec

\* A primary owns /sync, and whoever is in it, or about to be put into it, has
\* every commit that a client was told of.
THEOREM SyncCorrect == ASSUME OneName, ~LateRacers PROVE Spec => []SyncInv
<1>1. Init => SyncInv
  <2> SUFFICES ASSUME Init PROVE SyncInv OBVIOUS
  <2>1. TypeOK BY ConstantsOK DEF Init, TypeOK, SyncState, Pick, NoPick, Pc
  <2>2. LockInv BY ConstantsOK DEF Init, LockInv, HasAll, Primary, Settled, Writer
  <2>3. StandbyInv BY ConstantsOK DEF Init, StandbyInv, HasAll, Primary
  <2>4. PickInv BY DEF Init, PickInv
  <2>5. Electable BY DEF Init, Electable, HasAll
  <2> QED BY <2>1, <2>2, <2>3, <2>4, <2>5 DEF SyncInv
<1>2. SyncInv /\ [Next]_vars => SyncInv'
  BY OneName, ~LateRacers, TypeStep, LockStep, StandbyStep, PickStep, ElectableStep
     DEF SyncInv
<1> QED BY <1>1, <1>2, PTL DEF Spec

\* No node that may be elected lacks such a commit ...
THEOREM ElectableCorrect == ASSUME OneName, ~LateRacers PROVE Spec => []Electable
<1>1. SyncInv => Electable BY DEF SyncInv
<1>2. Spec => []SyncInv BY OneName, ~LateRacers, SyncCorrect
<1> QED BY <1>1, <1>2, PTL

\* ... and no primary does: a failover loses nothing that was acknowledged.
THEOREM CommitsKept == ASSUME OneName, ~LateRacers PROVE Spec => []NoLostCommit
<1>1. SyncInv => NoLostCommit
  BY ConstantsOK DEF SyncInv, TypeOK, LockInv, Primary, HasAll, NoLostCommit
<1>2. Spec => []SyncInv BY OneName, ~LateRacers, SyncCorrect
<1> QED BY <1>1, <1>2, PTL
============================================================================
