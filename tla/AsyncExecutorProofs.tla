----------------------- MODULE AsyncExecutorProofs -----------------------
(***************************************************************************)
(* Proofs about AsyncExecutor, for every number of threads and clients,    *)
(* forced cancels included.                                                *)
(***************************************************************************)
EXTENDS AsyncExecutor, TLAPS

\* What CancelNoticed says of one step.
ToldHeeds ==
    stray = {} =>
      \A w \in told \cap Worker :
        /\ stage'[w] # "failover"
        /\ stage[w] = "start" => stage'[w] # "starting"

----------------------------------------------------------------------------

\* Every step keeps every variable in its type.
LEMMA TypeStep == ASSUME TypeOK, [Next]_vars PROVE TypeOK'
<1> USE ConstantsOK DEF TypeOK, Job, Stage, LoopState, ClientState, CriticalTask,
      Result, NewTask, Alive, LeavesOthers
<1>1. CASE CycleBegins
    BY <1>1 DEF CycleBegins, LoopMoves, execVars, taskVars, threadVars,
         serverVars
<1>2. CASE ServerCrash BY <1>2 DEF ServerCrash, execVars, taskVars, threadVars
<1>3. CASE LoopStep
  <2>1. CASE CycleEnds
      BY <2>1 DEF CycleEnds, LoopMoves, execVars, taskVars, threadVars,
           serverVars
  <2>2. CASE CancelPromotion
      BY <2>2 DEF CancelPromotion, LoopMoves, execVars, serverVars
  <2>3. CASE KillPromotion
    <3>1. /\ isCancelled' \in BOOLEAN /\ finish' \in BOOLEAN
          /\ killed' \in BOOLEAN /\ master' \in BOOLEAN
         
        BY <2>3, Zenon DEF KillPromotion, LoopMoves, taskVars,
             threadVars, serverVars
    <3> QED
        BY <2>3, <3>1 DEF KillPromotion, LoopMoves, taskVars,
             threadVars, serverVars
  <2>4. CASE LostDuringAction BY <2>4 DEF LostDuringAction, LoopMoves, execVars
  <2>5. CASE LostKey
      BY <2>5 DEF LostKey, LoopMoves, execVars, taskVars, threadVars,
           serverVars
  <2>6. CASE DemoteNoLock
    <3>1. /\ isCancelled' \in BOOLEAN /\ finish' \in BOOLEAN
          /\ killed' \in BOOLEAN /\ master' \in BOOLEAN
         
        BY <2>6, Zenon DEF DemoteNoLock, Schedule, Spawn, TryRunAsync,
             LoopMoves, taskVars
    <3> QED
        BY <2>6, <3>1 DEF DemoteNoLock, Schedule, Spawn, TryRunAsync,
             LoopMoves, taskVars
  <2>7. CASE SchedulePromote
    <3>1. /\ isCancelled' \in BOOLEAN /\ finish' \in BOOLEAN
          /\ killed' \in BOOLEAN /\ master' \in BOOLEAN
         
        BY <2>7, Zenon DEF SchedulePromote, Schedule, Spawn,
             TryRunAsync, LoopMoves, serverVars
    <3> QED
        BY <2>7, <3>1 DEF SchedulePromote, Schedule, Spawn, TryRunAsync,
             LoopMoves, serverVars
  <2>8. CASE ScheduleFollow
    <3>1. /\ isCancelled' \in BOOLEAN /\ finish' \in BOOLEAN
          /\ killed' \in BOOLEAN /\ master' \in BOOLEAN
         
        BY <2>8, Zenon DEF ScheduleFollow, Schedule, Spawn, TryRunAsync,
             LoopMoves, taskVars, serverVars
    <3> QED
        BY <2>8, <3>1 DEF ScheduleFollow, Schedule, Spawn, TryRunAsync,
             LoopMoves, taskVars, serverVars
  <2>9. CASE ScheduleDemote
    <3>1. /\ isCancelled' \in BOOLEAN /\ finish' \in BOOLEAN
          /\ killed' \in BOOLEAN /\ master' \in BOOLEAN
         
        BY <2>9, Zenon DEF ScheduleDemote, Schedule, Spawn, TryRunAsync,
             LoopMoves, taskVars, serverVars
    <3> QED
        BY <2>9, <3>1 DEF ScheduleDemote, Schedule, Spawn, TryRunAsync,
             LoopMoves, taskVars, serverVars
  <2>10. CASE ScheduleRestart
    <3>1. /\ isCancelled' \in BOOLEAN /\ finish' \in BOOLEAN
          /\ killed' \in BOOLEAN /\ master' \in BOOLEAN
         
        BY <2>10, Zenon DEF ScheduleRestart, Schedule, Spawn,
             TryRunAsync, LoopMoves, taskVars, serverVars
    <3> QED
        BY <2>10, <3>1 DEF ScheduleRestart, Schedule, Spawn,
             TryRunAsync, LoopMoves, taskVars, serverVars
  <2> QED BY <1>3, <2>1, <2>2, <2>3, <2>4, <2>5, <2>6, <2>7, <2>8, <2>9, <2>10
           DEF LoopStep
<1>4. ASSUME NEW w \in Worker, LockStep(w) PROVE TypeOK'
  <2>1. CASE Enter(w)
    <3>1. /\ isCancelled' \in BOOLEAN /\ finish' \in BOOLEAN
          /\ killed' \in BOOLEAN /\ master' \in BOOLEAN
          BY <2>1, Zenon DEF Enter, Unlocked, StageMoves, taskVars, serverVars
    <3> QED BY <2>1, <3>1 DEF Enter, Unlocked, StageMoves, taskVars, serverVars
  <2>2. CASE Leave(w)
    <3>1. /\ isCancelled' \in BOOLEAN /\ finish' \in BOOLEAN
          /\ killed' \in BOOLEAN /\ master' \in BOOLEAN
          BY <2>2, Zenon DEF Leave, Unlocked, StageMoves, serverVars
    <3> QED BY <2>2, <3>1 DEF Leave, Unlocked, StageMoves, serverVars
  <2>3. CASE PrepareStart(w)
    <3>1. /\ isCancelled' \in BOOLEAN /\ finish' \in BOOLEAN
          /\ killed' \in BOOLEAN /\ master' \in BOOLEAN
         
        BY <2>3, Zenon DEF PrepareStart, Unlocked, StageMoves,
             KeyReleased, execVars, taskVars
    <3> QED
        BY <2>3, <3>1 DEF PrepareStart, Unlocked, StageMoves,
             KeyReleased, execVars, taskVars
  <2> QED BY <1>4, <2>1, <2>2, <2>3 DEF LockStep
<1>5. ASSUME NEW w \in Worker, JobStep(w) PROVE TypeOK'
  <2>1. CASE ResetIsCancelled(w)
    <3>1. /\ isCancelled' \in BOOLEAN /\ finish' \in BOOLEAN
          /\ killed' \in BOOLEAN /\ master' \in BOOLEAN
          BY <2>1, Zenon DEF ResetIsCancelled, StageMoves, taskVars, serverVars
    <3> QED BY <2>1, <3>1 DEF ResetIsCancelled, StageMoves, taskVars, serverVars
  <2>2. CASE PrePromote(w)
      BY <2>2 DEF PrePromote, StageMoves, execVars, serverVars
  <2>3. CASE CheckCancelled(w)
      BY <2>3 DEF CheckCancelled, StageMoves, execVars, taskVars,
           serverVars
  <2>4. CASE Failover(w)
    <3>1. /\ isCancelled' \in BOOLEAN /\ finish' \in BOOLEAN
          /\ killed' \in BOOLEAN /\ master' \in BOOLEAN
         
        BY <2>4, Zenon DEF Failover, StageMoves, execVars, taskVars,
             serverVars
    <3> QED
        BY <2>4, <3>1 DEF Failover, StageMoves, execVars, taskVars,
             serverVars
  <2>5. CASE StopServer(w)
    <3>1. /\ isCancelled' \in BOOLEAN /\ finish' \in BOOLEAN
          /\ killed' \in BOOLEAN /\ master' \in BOOLEAN
          BY <2>5, Zenon DEF StopServer, StageMoves, execVars, taskVars
    <3> QED BY <2>5, <3>1 DEF StopServer, StageMoves, execVars, taskVars
  <2>6. CASE StartPostmaster(w)
      BY <2>6 DEF StartPostmaster, StageMoves, execVars
  <2>7. CASE StartEnds(w)
      BY <2>7 DEF StartEnds, StageMoves, execVars, taskVars, serverVars
  <2> QED BY <1>5, <2>1, <2>2, <2>3, <2>4, <2>5, <2>6, <2>7 DEF JobStep
<1>6. ASSUME NEW c \in Client, ClientStep(c) PROVE TypeOK'
  <2>1. CASE CancelAction(c)
    <3>1. /\ isCancelled' \in BOOLEAN /\ finish' \in BOOLEAN
          /\ killed' \in BOOLEAN /\ master' \in BOOLEAN
         
        BY <2>1, Zenon DEF CancelAction, Unlocked, ClientMoves,
             taskVars, threadVars, serverVars
    <3> QED
        BY <2>1, <3>1 DEF CancelAction, Unlocked, ClientMoves, taskVars,
             threadVars, serverVars
  <2>2. CASE KillAction(c)
    <3>1. /\ isCancelled' \in BOOLEAN /\ finish' \in BOOLEAN
          /\ killed' \in BOOLEAN /\ master' \in BOOLEAN
         
        BY <2>2, Zenon DEF KillAction, ClientMoves, taskVars,
             threadVars, serverVars
    <3> QED
        BY <2>2, <3>1 DEF KillAction, ClientMoves, taskVars, threadVars,
             serverVars
  <2>3. CASE WaitForFinish(c)
      BY <2>3 DEF WaitForFinish, ClientMoves, execVars, taskVars,
           threadVars, serverVars
  <2>4. CASE ClearAction(c)
      BY <2>4 DEF ClearAction, Unlocked, ClientMoves, taskVars,
           threadVars, serverVars
  <2>5. CASE ScheduleReinitialize(c)
    <3>1. /\ isCancelled' \in BOOLEAN /\ finish' \in BOOLEAN
          /\ killed' \in BOOLEAN /\ master' \in BOOLEAN
         
        BY <2>5, Zenon DEF ScheduleReinitialize, Unlocked, Schedule,
             ClientMoves, taskVars, threadVars, serverVars
    <3> QED
        BY <2>5, <3>1 DEF ScheduleReinitialize, Unlocked, Schedule,
             ClientMoves, taskVars, threadVars, serverVars
  <2>6. CASE RunAsync(c)
      BY <2>6 DEF RunAsync, Spawn, execVars, taskVars, serverVars
  <2> QED BY <1>6, <2>1, <2>2, <2>3, <2>4, <2>5, <2>6 DEF ClientStep
<1>7. ASSUME NEW c \in Client, RequestRestart(c) PROVE TypeOK'
  <2>1. /\ isCancelled' \in BOOLEAN /\ finish' \in BOOLEAN
        /\ killed' \in BOOLEAN /\ master' \in BOOLEAN
       
      BY <1>7, Zenon DEF RequestRestart, Unlocked, Schedule, ClientMoves,
           taskVars, threadVars, serverVars
  <2> QED
      BY <1>7, <2>1 DEF RequestRestart, Unlocked, Schedule, ClientMoves,
           taskVars, threadVars, serverVars
<1>8. ASSUME NEW c \in Client, RequestReinitialize(c) PROVE TypeOK'
     
    BY <1>8 DEF RequestReinitialize, Unlocked, ClientMoves, execVars,
         taskVars, threadVars, serverVars
<1>9. CASE UNCHANGED vars
    BY <1>9 DEF vars, execVars, taskVars, threadVars, serverVars
<1> QED BY <1>1, <1>2, <1>3, <1>4, <1>5, <1>6, <1>7, <1>8, <1>9 DEF Next

\* Every step keeps the owner of the action the only one but for the strays.
LEMMA OwnerStep ==
  ASSUME TypeOK, TypeOK', Owner, NoForcedCancel, [Next]_vars
  PROVE  Owner' /\ NoForcedCancel'
<1> USE ConstantsOK DEF TypeOK, Job, Stage, LoopState, ClientState, Owner,
      NoForcedCancel, Spawning, Alive, LeavesOthers
<1>1. CASE CycleBegins
    BY <1>1 DEF CycleBegins, LoopMoves, execVars, taskVars, threadVars,
         serverVars
<1>2. CASE ServerCrash BY <1>2 DEF ServerCrash, execVars, taskVars, threadVars
<1>3. CASE LoopStep
  <2>1. CASE CycleEnds
      BY <2>1 DEF CycleEnds, LoopMoves, execVars, taskVars, threadVars,
           serverVars
  <2>2. CASE CancelPromotion
      BY <2>2 DEF CancelPromotion, LoopMoves, execVars, serverVars
  <2>3. CASE KillPromotion
      BY <2>3 DEF KillPromotion, LoopMoves, taskVars, threadVars,
           serverVars
  <2>4. CASE LostDuringAction BY <2>4 DEF LostDuringAction, LoopMoves, execVars
  <2>5. CASE LostKey
      BY <2>5 DEF LostKey, LoopMoves, execVars, taskVars, threadVars,
           serverVars
  <2>6. CASE DemoteNoLock
      BY <2>6 DEF DemoteNoLock, Schedule, Spawn, TryRunAsync, LoopMoves,
           taskVars
  <2>7. CASE SchedulePromote
      BY <2>7 DEF SchedulePromote, Schedule, Spawn, TryRunAsync,
           LoopMoves, serverVars
  <2>8. CASE ScheduleFollow
      BY <2>8 DEF ScheduleFollow, Schedule, Spawn, TryRunAsync, LoopMoves,
           taskVars, serverVars
  <2>9. CASE ScheduleDemote
      BY <2>9 DEF ScheduleDemote, Schedule, Spawn, TryRunAsync, LoopMoves,
           taskVars, serverVars
  <2>10. CASE ScheduleRestart
      BY <2>10 DEF ScheduleRestart, Schedule, Spawn, TryRunAsync,
           LoopMoves, taskVars, serverVars
  <2> QED BY <1>3, <2>1, <2>2, <2>3, <2>4, <2>5, <2>6, <2>7, <2>8, <2>9, <2>10
           DEF LoopStep
<1>4. ASSUME NEW w \in Worker, LockStep(w) PROVE Owner' /\ NoForcedCancel'
  <2>1. CASE Enter(w)
      BY <2>1 DEF Enter, Unlocked, StageMoves, taskVars, serverVars
  <2>2. CASE Leave(w) BY <2>2 DEF Leave, Unlocked, StageMoves, serverVars
  <2>3. CASE PrepareStart(w)
      BY <2>3 DEF PrepareStart, Unlocked, StageMoves, KeyReleased,
           execVars, taskVars
  <2> QED BY <1>4, <2>1, <2>2, <2>3 DEF LockStep
<1>5. ASSUME NEW w \in Worker, JobStep(w) PROVE Owner' /\ NoForcedCancel'
  <2>1. CASE ResetIsCancelled(w)
      BY <2>1 DEF ResetIsCancelled, StageMoves, taskVars, serverVars
  <2>2. CASE PrePromote(w)
      BY <2>2 DEF PrePromote, StageMoves, execVars, serverVars
  <2>3. CASE CheckCancelled(w)
      BY <2>3 DEF CheckCancelled, StageMoves, execVars, taskVars,
           serverVars
  <2>4. CASE Failover(w)
      BY <2>4 DEF Failover, StageMoves, execVars, taskVars, serverVars
  <2>5. CASE StopServer(w)
      BY <2>5 DEF StopServer, StageMoves, execVars, taskVars
  <2>6. CASE StartPostmaster(w)
      BY <2>6 DEF StartPostmaster, StageMoves, execVars
  <2>7. CASE StartEnds(w)
      BY <2>7 DEF StartEnds, StageMoves, execVars, taskVars, serverVars
  <2> QED BY <1>5, <2>1, <2>2, <2>3, <2>4, <2>5, <2>6, <2>7 DEF JobStep
<1>6. ASSUME NEW c \in Client, ClientStep(c) PROVE Owner' /\ NoForcedCancel'
  <2>1. CASE CancelAction(c)
      BY <2>1 DEF CancelAction, Unlocked, ClientMoves, taskVars,
           threadVars, serverVars
  <2>2. CASE KillAction(c)
      BY <2>2 DEF KillAction, ClientMoves, taskVars, threadVars,
           serverVars
  <2>3. CASE WaitForFinish(c)
      BY <2>3 DEF WaitForFinish, ClientMoves, execVars, taskVars,
           threadVars, serverVars
  <2>4. CASE ClearAction(c)
      BY <2>4 DEF ClearAction, Unlocked, ClientMoves, taskVars,
           threadVars, serverVars
  <2>5. CASE ScheduleReinitialize(c)
      BY <2>5 DEF ScheduleReinitialize, Unlocked, Schedule, ClientMoves,
           taskVars, threadVars, serverVars
  <2>6. CASE RunAsync(c)
      BY <2>6 DEF RunAsync, Spawn, execVars, taskVars, serverVars
  <2> QED BY <1>6, <2>1, <2>2, <2>3, <2>4, <2>5, <2>6 DEF ClientStep
<1>7. ASSUME NEW c \in Client, RequestRestart(c) PROVE Owner' /\ NoForcedCancel'
     
    BY <1>7 DEF RequestRestart, Unlocked, Schedule, ClientMoves, taskVars,
         threadVars, serverVars
<1>8. ASSUME NEW c \in Client, RequestReinitialize(c) PROVE Owner' /\ NoForcedCancel'
     
    BY <1>8 DEF RequestReinitialize, Unlocked, ClientMoves, execVars,
         taskVars, threadVars, serverVars
<1>9. CASE UNCHANGED vars
    BY <1>9 DEF vars, execVars, taskVars, threadVars, serverVars
<1> QED BY <1>1, <1>2, <1>3, <1>4, <1>5, <1>6, <1>7, <1>8, <1>9 DEF Next

\* The last stray is over when it leaves and nobody else is alive.
LEMMA StrayEnds ==
  ASSUME TypeOK, Owner, stray # {}, stray' = {}, [Next]_vars
  PROVE  \E w \in Worker : Leave(w) /\ Alive' = {}
<1>1. ASSUME NEW w \in Worker, Leave(w)
      PROVE  \E v \in Worker : Leave(v) /\ Alive' = {}
  <2>1. w \in stray /\ Alive \ {w} = {}
    BY <1>1 DEF Leave, LeavesOthers
  <2>2. Alive' \subseteq Alive
    BY <1>1 DEF Leave, StageMoves, Alive, Spawning, TypeOK
  <2>3. w \notin Alive'
    <3>1. stage'[w] = "free" BY <1>1 DEF Leave, StageMoves, TypeOK
    <3>2. w \notin Client BY ConstantsOK
    <3> QED BY <3>1, <3>2 DEF Alive
  <2> QED BY <1>1, <2>1, <2>2, <2>3
<1>2. ASSUME NEW c \in Client, ClearAction(c) PROVE FALSE
  BY <1>2 DEF ClearAction, Owner
<1>3. ASSUME NEW c \in Client, RunAsync(c) PROVE FALSE
  BY <1>3 DEF RunAsync
<1>4. CASE UNCHANGED stray BY <1>4
<1> QED
  BY <1>1, <1>2, <1>3, <1>4
  DEF Next, vars, threadVars, CycleBegins, LoopStep, CycleEnds, CancelPromotion,
      KillPromotion, LostDuringAction, LostKey, DemoteNoLock, SchedulePromote,
      ScheduleFollow, ScheduleDemote, ScheduleRestart, ServerCrash, LockStep,
      Enter, PrepareStart, JobStep, ResetIsCancelled, PrePromote, CheckCancelled,
      Failover, StopServer, StartPostmaster, StartEnds, RequestRestart,
      RequestReinitialize, ClientStep, CancelAction, KillAction, WaitForFinish,
      ScheduleReinitialize

\* With nobody alive the critical task is nobody's.
LEMMA TasksLast ==
  ASSUME NEW w \in Worker, Leave(w), Alive' = {}, TypeOK', Owner'
  PROVE  TasksCurrent' /\ ToldStops'
<1>1. \A v \in Worker : stage'[v] = "free" BY DEF Alive
<1>2. \A c \in Client : ~Spawning(c)' BY DEF Alive
<1>3. told' = {} BY DEF Owner
<1>4. critical' = NewTask BY DEF Leave
<1> QED BY <1>1, <1>2, <1>3, <1>4 DEF TasksCurrent, ToldStops, NewTask

\* ... and the critical tasks those of the action in progress.
LEMMA TasksStep ==
  ASSUME ExecInv, TypeOK', Owner', stray = {}, stray' = {}, [Next]_vars
  PROVE  TasksCurrent' /\ ToldStops'
<1> USE ConstantsOK DEF ExecInv, TypeOK, Job, Stage, LoopState,
      ClientState, CriticalTask, Result, NewTask, Owner, Spawning,
      Alive, LeavesOthers, TasksCurrent, ToldStops
<1>1. CASE CycleBegins
    BY <1>1 DEF CycleBegins, LoopMoves, execVars, taskVars, threadVars,
         serverVars
<1>2. CASE ServerCrash BY <1>2 DEF ServerCrash, execVars, taskVars, threadVars
<1>3. CASE LoopStep
  <2>1. CASE CycleEnds
      BY <2>1 DEF CycleEnds, LoopMoves, execVars, taskVars, threadVars,
           serverVars
  <2>2. CASE CancelPromotion
    <3>1. TasksCurrent' BY <2>2 DEF CancelPromotion, LoopMoves, execVars
    <3>2. ASSUME NEW w \in told' \cap Worker
          PROVE  \/ /\ job'[w] = "promote" /\ response'.cancelled
                    /\ stage'[w] \in {"enter", "clear", "work", "leave"}
                 \/ /\ job'[w] = "restart"
                    /\ critical'.cancelled \/ stage'[w] \in {"starting", "leave"}
      BY <2>2, <3>2 DEF CancelPromotion, LoopMoves, execVars
    <3> QED BY <2>2, <3>1, <3>2 DEF CancelPromotion, LoopMoves, execVars
  <2>3. CASE KillPromotion
      BY <2>3 DEF KillPromotion, LoopMoves, taskVars, threadVars,
           serverVars
  <2>4. CASE LostDuringAction BY <2>4 DEF LostDuringAction, LoopMoves, execVars
  <2>5. CASE LostKey
      BY <2>5 DEF LostKey, LoopMoves, execVars, taskVars, threadVars,
           serverVars
  <2>6. CASE DemoteNoLock
      BY <2>6 DEF DemoteNoLock, Schedule, Spawn, TryRunAsync, LoopMoves,
           taskVars
  <2>7. CASE SchedulePromote
      BY <2>7 DEF SchedulePromote, Schedule, Spawn, TryRunAsync,
           LoopMoves, serverVars
  <2>8. CASE ScheduleFollow
      BY <2>8 DEF ScheduleFollow, Schedule, Spawn, TryRunAsync, LoopMoves,
           taskVars, serverVars
  <2>9. CASE ScheduleDemote
      BY <2>9 DEF ScheduleDemote, Schedule, Spawn, TryRunAsync, LoopMoves,
           taskVars, serverVars
  <2>10. CASE ScheduleRestart
      BY <2>10 DEF ScheduleRestart, Schedule, Spawn, TryRunAsync,
           LoopMoves, taskVars, serverVars
  <2> QED BY <1>3, <2>1, <2>2, <2>3, <2>4, <2>5, <2>6, <2>7, <2>8, <2>9, <2>10
           DEF LoopStep
<1>4. ASSUME NEW w \in Worker, LockStep(w) PROVE TasksCurrent' /\ ToldStops'
  <2>1. CASE Enter(w)
      BY <2>1 DEF Enter, Unlocked, StageMoves, taskVars, serverVars
  <2>2. CASE Leave(w) BY <2>2 DEF Leave, Unlocked, StageMoves, serverVars
  <2>3. CASE PrepareStart(w)
      BY <2>3 DEF PrepareStart, Unlocked, StageMoves, KeyReleased,
           execVars, taskVars
  <2> QED BY <1>4, <2>1, <2>2, <2>3 DEF LockStep
<1>5. ASSUME NEW w \in Worker, JobStep(w) PROVE TasksCurrent' /\ ToldStops'
  <2>1. CASE ResetIsCancelled(w)
      BY <2>1 DEF ResetIsCancelled, StageMoves, taskVars, serverVars
  <2>2. CASE PrePromote(w)
      BY <2>2 DEF PrePromote, StageMoves, execVars, serverVars
  <2>3. CASE CheckCancelled(w)
      BY <2>3 DEF CheckCancelled, StageMoves, execVars, taskVars,
           serverVars
  <2>4. CASE Failover(w)
      BY <2>4 DEF Failover, StageMoves, execVars, taskVars, serverVars
  <2>5. CASE StopServer(w)
      BY <2>5 DEF StopServer, StageMoves, execVars, taskVars
  <2>6. CASE StartPostmaster(w)
      BY <2>6 DEF StartPostmaster, StageMoves, execVars
  <2>7. CASE StartEnds(w)
      BY <2>7 DEF StartEnds, StageMoves, execVars, taskVars, serverVars
  <2> QED BY <1>5, <2>1, <2>2, <2>3, <2>4, <2>5, <2>6, <2>7 DEF JobStep
<1>6. ASSUME NEW c \in Client, ClientStep(c) PROVE TasksCurrent' /\ ToldStops'
  <2>1. CASE CancelAction(c)
      BY <2>1 DEF CancelAction, Unlocked, ClientMoves, taskVars,
           threadVars, serverVars
  <2>2. CASE KillAction(c)
      BY <2>2 DEF KillAction, ClientMoves, taskVars, threadVars,
           serverVars
  <2>3. CASE WaitForFinish(c)
      BY <2>3 DEF WaitForFinish, ClientMoves, execVars, taskVars,
           threadVars, serverVars
  <2>4. CASE ClearAction(c)
      BY <2>4 DEF ClearAction, Unlocked, ClientMoves, taskVars,
           threadVars, serverVars
  <2>5. CASE ScheduleReinitialize(c)
      BY <2>5 DEF ScheduleReinitialize, Unlocked, Schedule, ClientMoves,
           taskVars, threadVars, serverVars
  <2>6. CASE RunAsync(c)
      BY <2>6 DEF RunAsync, Spawn, execVars, taskVars, serverVars
  <2> QED BY <1>6, <2>1, <2>2, <2>3, <2>4, <2>5, <2>6 DEF ClientStep
<1>7. ASSUME NEW c \in Client, RequestRestart(c) PROVE TasksCurrent' /\ ToldStops'
     
    BY <1>7 DEF RequestRestart, Unlocked, Schedule, ClientMoves, taskVars,
         threadVars, serverVars
<1>8. ASSUME NEW c \in Client, RequestReinitialize(c) PROVE TasksCurrent' /\ ToldStops'
     
    BY <1>8 DEF RequestReinitialize, Unlocked, ClientMoves, execVars,
         taskVars, threadVars, serverVars
<1>9. CASE UNCHANGED vars
    BY <1>9 DEF vars, execVars, taskVars, threadVars, serverVars
<1> QED BY <1>1, <1>2, <1>3, <1>4, <1>5, <1>6, <1>7, <1>8, <1>9 DEF Next

\* A thread that was told to stop takes no step that it was told not to take.
LEMMA NoticedStep == ASSUME ExecInv, [Next]_vars PROVE ToldHeeds
<1> USE ConstantsOK DEF ExecInv, TypeOK, Job, Stage, LoopState, ClientState,
      CriticalTask, Result, NewTask, Owner, Spawning, TasksCurrent, ToldStops,
      ToldHeeds, Alive, LeavesOthers
<1>1. CASE CycleBegins
    BY <1>1 DEF CycleBegins, LoopMoves, execVars, taskVars, threadVars,
         serverVars
<1>2. CASE ServerCrash BY <1>2 DEF ServerCrash, execVars, taskVars, threadVars
<1>3. CASE LoopStep
  <2>1. CASE CycleEnds
      BY <2>1 DEF CycleEnds, LoopMoves, execVars, taskVars, threadVars,
           serverVars
  <2>2. CASE CancelPromotion
      BY <2>2 DEF CancelPromotion, LoopMoves, execVars, serverVars
  <2>3. CASE KillPromotion
      BY <2>3 DEF KillPromotion, LoopMoves, taskVars, threadVars,
           serverVars
  <2>4. CASE LostDuringAction BY <2>4 DEF LostDuringAction, LoopMoves, execVars
  <2>5. CASE LostKey
      BY <2>5 DEF LostKey, LoopMoves, execVars, taskVars, threadVars,
           serverVars
  <2>6. CASE DemoteNoLock
      BY <2>6 DEF DemoteNoLock, Schedule, Spawn, TryRunAsync, LoopMoves,
           taskVars
  <2>7. CASE SchedulePromote
      BY <2>7 DEF SchedulePromote, Schedule, Spawn, TryRunAsync,
           LoopMoves, serverVars
  <2>8. CASE ScheduleFollow
      BY <2>8 DEF ScheduleFollow, Schedule, Spawn, TryRunAsync, LoopMoves,
           taskVars, serverVars
  <2>9. CASE ScheduleDemote
      BY <2>9 DEF ScheduleDemote, Schedule, Spawn, TryRunAsync, LoopMoves,
           taskVars, serverVars
  <2>10. CASE ScheduleRestart
      BY <2>10 DEF ScheduleRestart, Schedule, Spawn, TryRunAsync,
           LoopMoves, taskVars, serverVars
  <2> QED BY <1>3, <2>1, <2>2, <2>3, <2>4, <2>5, <2>6, <2>7, <2>8, <2>9, <2>10
           DEF LoopStep
<1>4. ASSUME NEW w \in Worker, LockStep(w) PROVE ToldHeeds
  <2>1. CASE Enter(w)
      BY <2>1 DEF Enter, Unlocked, StageMoves, taskVars, serverVars
  <2>2. CASE Leave(w) BY <2>2 DEF Leave, Unlocked, StageMoves, serverVars
  <2>3. CASE PrepareStart(w)
      BY <2>3 DEF PrepareStart, Unlocked, StageMoves, KeyReleased,
           execVars, taskVars
  <2> QED BY <1>4, <2>1, <2>2, <2>3 DEF LockStep
<1>5. ASSUME NEW w \in Worker, JobStep(w) PROVE ToldHeeds
  <2>1. CASE ResetIsCancelled(w)
      BY <2>1 DEF ResetIsCancelled, StageMoves, taskVars, serverVars
  <2>2. CASE PrePromote(w)
      BY <2>2 DEF PrePromote, StageMoves, execVars, serverVars
  <2>3. CASE CheckCancelled(w)
      BY <2>3 DEF CheckCancelled, StageMoves, execVars, taskVars,
           serverVars
  <2>4. CASE Failover(w)
      BY <2>4 DEF Failover, StageMoves, execVars, taskVars, serverVars
  <2>5. CASE StopServer(w)
      BY <2>5 DEF StopServer, StageMoves, execVars, taskVars
  <2>6. CASE StartPostmaster(w)
      BY <2>6 DEF StartPostmaster, StageMoves, execVars
  <2>7. CASE StartEnds(w)
      BY <2>7 DEF StartEnds, StageMoves, execVars, taskVars, serverVars
  <2> QED BY <1>5, <2>1, <2>2, <2>3, <2>4, <2>5, <2>6, <2>7 DEF JobStep
<1>6. ASSUME NEW c \in Client, ClientStep(c) PROVE ToldHeeds
  <2>1. CASE CancelAction(c)
      BY <2>1 DEF CancelAction, Unlocked, ClientMoves, taskVars,
           threadVars, serverVars
  <2>2. CASE KillAction(c)
      BY <2>2 DEF KillAction, ClientMoves, taskVars, threadVars,
           serverVars
  <2>3. CASE WaitForFinish(c)
      BY <2>3 DEF WaitForFinish, ClientMoves, execVars, taskVars,
           threadVars, serverVars
  <2>4. CASE ClearAction(c)
      BY <2>4 DEF ClearAction, Unlocked, ClientMoves, taskVars,
           threadVars, serverVars
  <2>5. CASE ScheduleReinitialize(c)
      BY <2>5 DEF ScheduleReinitialize, Unlocked, Schedule, ClientMoves,
           taskVars, threadVars, serverVars
  <2>6. CASE RunAsync(c)
      BY <2>6 DEF RunAsync, Spawn, execVars, taskVars, serverVars
  <2> QED BY <1>6, <2>1, <2>2, <2>3, <2>4, <2>5, <2>6 DEF ClientStep
<1>7. ASSUME NEW c \in Client, RequestRestart(c) PROVE ToldHeeds
     
    BY <1>7 DEF RequestRestart, Unlocked, Schedule, ClientMoves, taskVars,
         threadVars, serverVars
<1>8. ASSUME NEW c \in Client, RequestReinitialize(c) PROVE ToldHeeds
     
    BY <1>8 DEF RequestReinitialize, Unlocked, ClientMoves, execVars,
         taskVars, threadVars, serverVars
<1>9. CASE UNCHANGED vars
    BY <1>9 DEF vars, execVars, taskVars, threadVars, serverVars
<1> QED BY <1>1, <1>2, <1>3, <1>4, <1>5, <1>6, <1>7, <1>8, <1>9 DEF Next

\* The initial states are type correct.
LEMMA InitType == ASSUME Init PROVE TypeOK
<1>1. /\ isCancelled \in BOOLEAN /\ finish \in BOOLEAN /\ killed \in BOOLEAN
      /\ master \in BOOLEAN
  BY Zenon DEF Init
<1> QED
  BY <1>1 DEF Init, TypeOK, Job, Stage, LoopState, ClientState, CriticalTask, Result,
           NewTask

----------------------------------------------------------------------------
\* The theorems.

\* Every reachable state is type correct, forced cancels or not.
THEOREM TypeCorrect == Spec => []TypeOK
<1>1. Init => TypeOK BY InitType
<1>2. TypeOK /\ [Next]_vars => TypeOK' BY TypeStep
<1> QED BY <1>1, <1>2, PTL DEF Spec

\* Who has not been left behind by a forced cancel owns scheduled_action and is
\* the only thread at work; the critical tasks are its own if nobody was left.
THEOREM ExecCorrect == Spec => []ExecInv
<1>1. Init => ExecInv
  <2> SUFFICES ASSUME Init PROVE ExecInv
    OBVIOUS
  <2>1. Alive = {} BY DEF Init, Alive, Spawning
  <2>2. Owner BY <2>1 DEF Init, Owner, Spawning
  <2> QED BY InitType, <2>2 DEF Init, ExecInv, Spawning, NoForcedCancel,
                       TasksCurrent, ToldStops, NewTask
<1>2. ExecInv /\ [Next]_vars => ExecInv'
  <2> SUFFICES ASSUME ExecInv, [Next]_vars PROVE ExecInv'
    OBVIOUS
  <2>1. TypeOK' /\ Owner' /\ NoForcedCancel'
    BY TypeStep, OwnerStep DEF ExecInv
  <2>2. ASSUME stray' = {} PROVE TasksCurrent' /\ ToldStops'
    <3>1. CASE stray = {} BY <2>1, <2>2, <3>1, TasksStep
    <3>2. CASE stray # {}
      <4>1. PICK w \in Worker : Leave(w) /\ Alive' = {}
        BY <2>2, <3>2, StrayEnds DEF ExecInv
      <4> QED BY <2>1, <4>1, TasksLast
    <3> QED BY <3>1, <3>2
  <2> QED BY <2>1, <2>2 DEF ExecInv
<1> QED BY <1>1, <1>2, PTL DEF Spec

\* There is one long action at a time next to what forced cancels left behind ...
THEOREM OneAction == Spec => []OneLongAction
<1>1. ExecInv => OneLongAction
  BY ConstantsOK DEF ExecInv, Owner, Alive, OneLongAction, Running
<1> QED BY <1>1, ExecCorrect, PTL

\* ... the executor is busy with it while it runs ...
THEOREM BusyAction == Spec => []BusyWhileRunning
<1>1. ExecInv => BusyWhileRunning
  BY DEF ExecInv, Owner, BusyWhileRunning, Running
<1> QED BY <1>1, ExecCorrect, PTL

\* ... and a cancelled promotion or restart notices, unless a thread is left.
THEOREM CancelHeeded == Spec => CancelNoticed
<1>1. ExecInv /\ [Next]_vars => [ToldHeeds]_vars BY NoticedStep
<1> QED BY <1>1, ExecCorrect, PTL DEF Spec, CancelNoticed, ToldHeeds
=============================================================================
