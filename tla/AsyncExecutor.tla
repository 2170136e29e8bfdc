--------------------------- MODULE AsyncExecutor ---------------------------
(***************************************************************************)
(* The long actions of one node: the HA loop and the threads of the REST   *)
(* API schedule them, a thread of their own runs them, and a lost leader   *)
(* key or a forced reinitialize cancels them.                              *)
(*                                                                         *)
(* The HA loop holds the lock of the executor for a whole cycle.  Everyone *)
(* else holds it for a few statements that never block; these are one      *)
(* action each, with the guard that the loop is between two cycles.        *)
(***************************************************************************)
EXTENDS FiniteSets, Naturals

CONSTANTS
    Worker,     \* the threads that run_async starts
    Client,     \* the threads of the REST API
    Forced,     \* BOOLEAN: may a client ask for reinitialize(force=True)?
    Jobs,       \* the long actions considered, a bound
    MaxAlive    \* how many threads may be alive when a cancel begins, a bound

Job == {"promote", "restart", "follow", "reinitialize", "demote"}

ASSUME ConstantsOK ==
    /\ IsFiniteSet(Worker) /\ IsFiniteSet(Client) /\ Worker \cap Client = {}
    /\ Forced \in BOOLEAN
    /\ Jobs \subseteq Job /\ "follow" \in Jobs
    /\ MaxAlive \in Nat

VARIABLES
    action,         \* AsyncExecutor._scheduled_action
    isCancelled,    \* AsyncExecutor._is_cancelled
    finish,         \* AsyncExecutor._finish_event is set
    killed,         \* CancellableSubprocess._is_cancelled
    response,       \* Ha._async_response, the critical task of a promotion
    critical,       \* AsyncExecutor.critical_task, the one of a restart
    loop,           \* where the HA loop is
    client,         \* where each REST thread is
    stage,          \* where each thread of the executor is
    job,            \* what it runs
    told,           \* threads whose critical task cancel() has answered for
    stray,          \* history: threads whose slot a cancel() has given away
    server,         \* the database server
    master          \* state_handler.role = 'master'

execVars   == <<action, isCancelled, finish, killed>>
taskVars   == <<response, critical>>
threadVars == <<stage, job, told, stray>>
serverVars == <<server, master>>
vars == <<execVars, taskVars, loop, client, threadVars, serverVars>>

Result == {"none", "failed", "done"}

Stage ==
    {"free",
     "enter",       \* started, wants the lock to look at _is_cancelled
     "clear",       \* _finish_event is cleared
     "work",        \* func has begun
     "checked",     \* promote: past the pre-promote script
     "failover",    \* promote: gs_ctl failover
     "stopped",     \* the server is stopped
     "start",       \* about to start the postmaster
     "starting",    \* waits for the postmaster it has started
     "leave"}       \* wants the lock to reset the executor

LoopState == {"idle", "cycle", "kill", "demote"}

ClientState == {"idle", "cancel", "kill", "check", "wait", "clear",
                "schedule", "restart", "reinitialize"}

CriticalTask == [cancelled : BOOLEAN, result : Result]

TypeOK ==
    /\ action \in Job \cup {"none"}
    /\ isCancelled \in BOOLEAN /\ finish \in BOOLEAN /\ killed \in BOOLEAN
    /\ response \in CriticalTask /\ critical \in CriticalTask
    /\ loop \in LoopState
    /\ client \in [Client -> ClientState]
    /\ stage \in [Worker -> Stage]
    /\ job \in [Worker -> Job \cup {"none"}]
    /\ told \in SUBSET (Worker \cup Client)
    /\ stray \in SUBSET (Worker \cup Client)
    /\ server \in {"down", "up", "primary"}
    /\ master \in BOOLEAN

NewTask == [cancelled |-> FALSE, result |-> "none"]

Init ==
    /\ action = "none"
    /\ isCancelled = FALSE /\ finish = FALSE /\ killed = FALSE
    /\ response = NewTask /\ critical = NewTask
    /\ loop = "idle"
    /\ client = [c \in Client |-> "idle"]
    /\ stage = [w \in Worker |-> "free"]
    /\ job = [w \in Worker |-> "none"]
    /\ told = {}
    /\ stray = {}
    /\ server \in {"down", "up", "primary"}
    /\ master = (server = "primary")

----------------------------------------------------------------------------
\* Operations of the executor.

Unlocked == loop = "idle"

\* Mutant: schedule does not look at the action in progress.
ScheduleAnyway(j) ==
    /\ j \in Jobs
    /\ action' = j /\ isCancelled' = FALSE /\ finish' = TRUE

Schedule(j) ==
    /\ j \in Jobs /\ action = "none"
    /\ action' = j /\ isCancelled' = FALSE /\ finish' = TRUE

Spawn(w, j) ==
    /\ stage[w] = "free"
    /\ stage' = [stage EXCEPT ![w] = "enter"]
    /\ job' = [job EXCEPT ![w] = j]

TryRunAsync(j) ==
    /\ Schedule(j)
    /\ \E w \in Worker : Spawn(w, j)

StageMoves(w, from, to) ==
    /\ stage[w] = from
    /\ stage' = [stage EXCEPT ![w] = to]

ClientMoves(c, from, to) ==
    /\ client[c] = from
    /\ client' = [client EXCEPT ![c] = to]

\* A REST thread that has scheduled an action and not yet started its thread.
Spawning(c) == client[c] \in {"restart", "reinitialize"}

\* Who counts on scheduled_action: threads, and REST threads about to start one.
Alive == {w \in Worker : stage[w] # "free"} \cup {c \in Client : Spawning(c)}

----------------------------------------------------------------------------
\* AsyncExecutor.run, around the function.

Enter(w) ==
    /\ Unlocked
    /\ \/ isCancelled /\ StageMoves(w, "enter", "leave") /\ UNCHANGED finish
       \/ ~isCancelled /\ StageMoves(w, "enter", "clear") /\ finish' = FALSE
    /\ UNCHANGED <<action, isCancelled, killed, taskVars, loop, client, job,
                   told, stray, serverVars>>

\* Mutant: the action is forgotten when its thread has started.
ResetAndForget(w) ==
    /\ StageMoves(w, "clear", "work")
    /\ killed' = FALSE /\ action' = "none"
    /\ UNCHANGED <<isCancelled, finish, taskVars, loop, client, job, told,
                   stray, serverVars>>

ResetIsCancelled(w) ==
    /\ StageMoves(w, "clear", "work")
    /\ killed' = FALSE
    /\ UNCHANGED <<action, isCancelled, finish, taskVars, loop, client, job,
                   told, stray, serverVars>>

\* The thread that a cancel() has left behind resets the slot of the next one.
LeavesOthers(w) == stray' = IF w \in stray THEN Alive \ {w} ELSE stray

\* Mutant: the finally clause does not set the event.
LeaveSilently(w) ==
    /\ Unlocked
    /\ StageMoves(w, "leave", "free")
    /\ action' = "none"
    /\ critical' = NewTask
    /\ job' = [job EXCEPT ![w] = "none"]
    /\ told' = told \ {w}
    /\ LeavesOthers(w)
    /\ UNCHANGED <<isCancelled, finish, killed, response, loop, client,
                   serverVars>>

\* Mutant: the finally clause does not reset scheduled_action.
LeaveBusy(w) ==
    /\ Unlocked
    /\ StageMoves(w, "leave", "free")
    /\ finish' = TRUE
    /\ critical' = NewTask
    /\ client' = [c \in Client |->
                    IF client[c] = "wait" THEN "clear" ELSE client[c]]
    /\ job' = [job EXCEPT ![w] = "none"]
    /\ told' = told \ {w}
    /\ LeavesOthers(w)
    /\ UNCHANGED <<action, isCancelled, killed, response, loop, serverVars>>

\* Mutant: the finally clause does not reset the critical task.
LeaveCritical(w) ==
    /\ Unlocked
    /\ StageMoves(w, "leave", "free")
    /\ action' = "none" /\ finish' = TRUE
    /\ client' = [c \in Client |->
                    IF client[c] = "wait" THEN "clear" ELSE client[c]]
    /\ job' = [job EXCEPT ![w] = "none"]
    /\ told' = told \ {w}
    /\ LeavesOthers(w)
    /\ UNCHANGED <<isCancelled, killed, taskVars, loop, serverVars>>

\* The finally clause.
Leave(w) ==
    /\ Unlocked
    /\ StageMoves(w, "leave", "free")
    /\ action' = "none" /\ finish' = TRUE
    /\ critical' = NewTask
    /\ client' = [c \in Client |->
                    IF client[c] = "wait" THEN "clear" ELSE client[c]]
    /\ job' = [job EXCEPT ![w] = "none"]
    /\ told' = told \ {w}
    /\ LeavesOthers(w)
    /\ UNCHANGED <<isCancelled, killed, response, loop, serverVars>>

----------------------------------------------------------------------------
\* Postgresql.promote.

\* There is nothing to promote, the pre-promote script does not start, or it
\* ends with ret.
PrePromote(w) ==
    /\ job[w] = "promote"
    /\ \/ /\ master \/ killed \/ response.cancelled
          /\ StageMoves(w, "work", "leave") /\ UNCHANGED response
       \/ /\ ~master /\ ~response.cancelled
          /\ \E ret \in BOOLEAN :
                /\ StageMoves(w, "work", IF ret THEN "checked" ELSE "leave")
                /\ response' = [response EXCEPT !.result =
                                  IF ret THEN "done" ELSE "failed"]
    /\ UNCHANGED <<execVars, critical, loop, client, job, told, stray, serverVars>>

CheckCancelled(w) ==
    /\ StageMoves(w, "checked", IF killed THEN "leave" ELSE "failover")
    /\ UNCHANGED <<execVars, taskVars, loop, client, job, told, stray, serverVars>>

Failover(w) ==
    /\ StageMoves(w, "failover", "leave")
    /\ \/ server = "up" /\ server' = "primary" /\ master' = TRUE
       \/ UNCHANGED serverVars
    /\ UNCHANGED <<execVars, taskVars, loop, client, job, told, stray>>

----------------------------------------------------------------------------
\* Postgresql.stop, follow, restart and start.

StopServer(w) ==
    /\ job[w] \in {"restart", "follow", "reinitialize", "demote"}
    /\ \/ StageMoves(w, "work", "stopped") /\ server' = "down"
       \/ /\ StageMoves(w, "work", "leave")         \* pg_ctl stop failed
          /\ job[w] \in {"restart", "follow"}
          /\ UNCHANGED server
    /\ master' = IF job[w] = "demote" THEN FALSE ELSE master
    /\ UNCHANGED <<execVars, taskVars, loop, client, job, told, stray>>

\* A graceful demotion releases the leader key under the lock.
KeyReleased(w) == job[w] = "demote" => Unlocked

\* A server that runs is not started; the copy of a reinitialize may fail and a
\* demotion may leave the start to a rewind.
PrepareStart(w) ==
    /\ KeyReleased(w)
    /\ \/ /\ server # "down" \/ job[w] \in {"reinitialize", "demote"}
          /\ StageMoves(w, "stopped", "leave") /\ UNCHANGED master
       \/ /\ server = "down"
          /\ StageMoves(w, "stopped", IF killed THEN "leave" ELSE "start")
          /\ master' = (job[w] = "restart")
    /\ UNCHANGED <<execVars, taskVars, loop, client, job, told, stray, server>>

\* Mutant: the critical task is completed, but not asked.
StartPostmasterAnyway(w) ==
    /\ StageMoves(w, "start", "starting") /\ server' = "up"
    /\ critical' = IF job[w] = "restart"
                   THEN [critical EXCEPT !.result = "done"] ELSE critical
    /\ UNCHANGED <<execVars, response, loop, client, job, told, stray, master>>

\* Only a restart has a critical task.
StartPostmaster(w) ==
    /\ \/ /\ job[w] = "restart" /\ critical.cancelled
          /\ StageMoves(w, "start", "leave") /\ UNCHANGED <<server, critical>>
       \/ /\ ~(job[w] = "restart" /\ critical.cancelled)
          /\ StageMoves(w, "start", "starting") /\ server' = "up"
          /\ critical' = IF job[w] = "restart"
                         THEN [critical EXCEPT !.result = "done"] ELSE critical
    /\ UNCHANGED <<execVars, response, loop, client, job, told, stray, master>>

StartEnds(w) ==
    /\ StageMoves(w, "starting", "leave")
    /\ UNCHANGED <<execVars, taskVars, loop, client, job, told, stray, serverVars>>

----------------------------------------------------------------------------
\* The HA loop, which holds the lock from CycleBegins to the end of the cycle.

LoopMoves(from, to) == loop = from /\ loop' = to

CycleBegins ==
    /\ LoopMoves("idle", "cycle")
    /\ UNCHANGED <<execVars, taskVars, client, threadVars, serverVars>>

\* The lock is kept during a long action, or there is nothing to do.
CycleEnds ==
    /\ LoopMoves("cycle", "idle")
    /\ UNCHANGED <<execVars, taskVars, client, threadVars, serverVars>>

\* handle_long_action_in_progress without the leader key: a promotion is told
\* first, its process is killed next.
CancelPromotion ==
    /\ action = "promote" /\ response.result = "none"
    /\ LoopMoves("cycle", "kill")
    /\ response' = [response EXCEPT !.cancelled = TRUE]
    /\ told' = told \cup {w \in Worker : job[w] = "promote"}
    /\ UNCHANGED <<execVars, critical, client, stage, job, serverVars, stray>>

KillPromotion ==
    /\ LoopMoves("kill", "idle")
    /\ killed' = TRUE
    /\ UNCHANGED <<action, isCancelled, finish, taskVars, client, threadVars,
                   serverVars>>

\* Demotion of a master during a long action; a restart is told not to start the
\* postmaster, or the postmaster it has started is terminated.
LostDuringAction ==
    /\ action # "none" /\ master
    /\ action = "promote" => response.result # "none"
    /\ LoopMoves("cycle", "demote")
    /\ IF action # "restart" THEN UNCHANGED <<critical, told, server>>
       ELSE /\ told' = told \cup {w \in Worker : job[w] = "restart"}
                            \cup {c \in Client : client[c] = "restart"}
            /\ IF critical.result = "none"
               THEN /\ critical' = [critical EXCEPT !.cancelled = TRUE]
                    /\ UNCHANGED server
               ELSE server' = "down" /\ UNCHANGED critical
    /\ UNCHANGED <<execVars, response, client, stage, job, master, stray>>

\* Without a long action in progress a primary that lost the key is demoted.
LostKey ==
    /\ action = "none" /\ server = "primary"
    /\ LoopMoves("cycle", "demote")
    /\ UNCHANGED <<execVars, taskVars, client, threadVars, serverVars>>

\* demote('immediate-nolock'): the start as a standby is for the executor, which
\* refuses it while an action is in progress.
DemoteNoLock ==
    /\ LoopMoves("demote", "idle")
    /\ server' = "down" /\ master' = FALSE
    /\ IF action = "none" THEN TryRunAsync("follow")
       ELSE UNCHANGED <<action, isCancelled, finish, stage, job>>
    /\ UNCHANGED <<killed, taskVars, client, told, stray>>

\* What a cycle that finds the executor idle may schedule.
SchedulePromote ==
    /\ server = "up" /\ ~master
    /\ LoopMoves("cycle", "idle")
    /\ response' = NewTask
    /\ TryRunAsync("promote")
    /\ UNCHANGED <<killed, critical, client, told, stray, serverVars>>

ScheduleFollow ==
    /\ server = "down"
    /\ LoopMoves("cycle", "idle")
    /\ TryRunAsync("follow")
    /\ UNCHANGED <<killed, taskVars, client, told, stray, serverVars>>

ScheduleDemote ==
    /\ server = "primary"
    /\ LoopMoves("cycle", "idle")
    /\ TryRunAsync("demote")
    /\ UNCHANGED <<killed, taskVars, client, told, stray, serverVars>>

\* A scheduled restart is due.
ScheduleRestart ==
    /\ server # "down"
    /\ LoopMoves("cycle", "idle")
    /\ TryRunAsync("restart")
    /\ UNCHANGED <<killed, taskVars, client, told, stray, serverVars>>

ServerCrash ==
    /\ server # "down" /\ server' = "down"
    /\ UNCHANGED <<execVars, taskVars, loop, client, threadVars, master>>

----------------------------------------------------------------------------
\* The threads of the REST API.

RequestRestart(c) ==
    /\ Unlocked
    /\ ClientMoves(c, "idle", "restart")
    /\ Schedule("restart")
    /\ UNCHANGED <<killed, taskVars, loop, threadVars, serverVars>>

RequestReinitialize(c) ==
    /\ Unlocked
    /\ \E to \in {"schedule"} \cup (IF Forced THEN {"cancel"} ELSE {}) :
          ClientMoves(c, "idle", to)
    /\ UNCHANGED <<execVars, taskVars, loop, threadVars, serverVars>>

\* A bound, so that the clients leave no more than a few threads each behind.
FewThreads == Cardinality({w \in Worker : stage[w] # "free"}) <= MaxAlive

\* AsyncExecutor.cancel, lock by lock.
CancelAction(c) ==
    /\ Unlocked /\ FewThreads
    /\ IF action = "none"
       THEN ClientMoves(c, "cancel", "schedule") /\ UNCHANGED isCancelled
       ELSE ClientMoves(c, "cancel", "kill") /\ isCancelled' = TRUE
    /\ UNCHANGED <<action, finish, killed, taskVars, loop, threadVars,
                   serverVars>>

KillAction(c) ==
    /\ ClientMoves(c, "kill", "check")
    /\ killed' = TRUE
    /\ UNCHANGED <<action, isCancelled, finish, taskVars, loop, threadVars,
                   serverVars>>

WaitForFinish(c) ==
    /\ ClientMoves(c, "check", IF finish THEN "clear" ELSE "wait")
    /\ UNCHANGED <<execVars, taskVars, loop, threadVars, serverVars>>

ClearAction(c) ==
    /\ Unlocked
    /\ ClientMoves(c, "clear", "schedule")
    /\ action' = "none"
    /\ stray' = Alive
    /\ UNCHANGED <<isCancelled, finish, killed, taskVars, loop, stage, job, told,
                   serverVars>>

ScheduleReinitialize(c) ==
    /\ Unlocked
    /\ \/ /\ action # "none"            \* already in progress
          /\ ClientMoves(c, "schedule", "idle")
          /\ UNCHANGED <<action, isCancelled, finish>>
       \/ /\ ClientMoves(c, "schedule", "reinitialize")
          /\ Schedule("reinitialize")
    /\ UNCHANGED <<killed, taskVars, loop, threadVars, serverVars>>

\* run_async, after the lock has been released; the thread inherits told and stray.
RunAsync(c) ==
    /\ client[c] \in {"restart", "reinitialize"}
    /\ client' = [client EXCEPT ![c] = "idle"]
    /\ \E w \in Worker :
          /\ Spawn(w, client[c])
          /\ told' = IF c \in told THEN (told \ {c}) \cup {w} ELSE told
          /\ stray' = IF c \in stray THEN (stray \ {c}) \cup {w} ELSE stray
    /\ UNCHANGED <<execVars, taskVars, loop, serverVars>>

----------------------------------------------------------------------------

LockStep(w) == Enter(w) \/ Leave(w) \/ PrepareStart(w)

JobStep(w) ==
    \/ ResetIsCancelled(w)
    \/ PrePromote(w) \/ CheckCancelled(w) \/ Failover(w)
    \/ StopServer(w) \/ StartPostmaster(w) \/ StartEnds(w)

LoopStep ==
    \/ CycleEnds \/ CancelPromotion \/ KillPromotion \/ LostDuringAction
    \/ LostKey \/ DemoteNoLock
    \/ SchedulePromote \/ ScheduleFollow \/ ScheduleDemote \/ ScheduleRestart

ClientStep(c) ==
    \/ CancelAction(c) \/ KillAction(c) \/ WaitForFinish(c) \/ ClearAction(c)
    \/ ScheduleReinitialize(c) \/ RunAsync(c)

Next ==
    \/ CycleBegins \/ LoopStep \/ ServerCrash
    \/ \E w \in Worker : LockStep(w) \/ JobStep(w)
    \/ \E c \in Client :
          RequestRestart(c) \/ RequestReinitialize(c) \/ ClientStep(c)

Spec == Init /\ [][Next]_vars

\* A cycle of the HA loop ends, a job ends, and who waits for the lock gets it
\* in the end: the loop sleeps between two cycles without the lock.
Fairness ==
    /\ WF_vars(LoopStep)
    /\ \A w \in Worker : WF_vars(JobStep(w)) /\ SF_vars(LockStep(w))
    /\ \A c \in Client : SF_vars(ClientStep(c))

FairSpec == Spec /\ Fairness

----------------------------------------------------------------------------
\* Properties.

\* Threads between the two critical sections of AsyncExecutor.run.
Running(w) == stage[w] \notin {"free", "enter", "leave"}

\* There is only one long action, so that the executor can cancel its process: a
\* second one runs only next to what a forced cancel() has left behind.
OneLongAction ==
    \A v, w \in Worker \ stray : Running(v) /\ Running(w) => v = w

\* While a thread runs its function the executor is busy with that function, unless
\* a forced cancel() has given its slot away: the HA loop and the REST API look at
\* scheduled_action before they touch the server.
BusyWhileRunning == \A w \in Worker \ stray : Running(w) => action = job[w]

\* After CriticalTask.cancel() the thread notices: it promotes nothing and
\* starts no postmaster.  As long as a thread is left behind by a forced cancel()
\* this is not so: it shares the critical task with the next one.
CancelNoticed ==
    [][stray = {} =>
        \A w \in told \cap Worker :
          /\ stage'[w] # "failover"
          /\ stage[w] = "start" => stage'[w] # "starting"]_vars

\* A forced reinitialize does not wait for ever for the action it cancels.
CancelReturns ==
    \A c \in Client : client[c] = "wait" ~> client[c] # "wait"

\* No long action keeps the executor busy for ever.
ActionEnds == action # "none" ~> action = "none"

----------------------------------------------------------------------------
\* The inductive invariant behind the safety properties.

\* Who has not been left behind by a cancel() is alone and owns scheduled_action.
Owner ==
    /\ stray \subseteq Alive /\ told \subseteq Alive
    /\ \A w \in Worker : stage[w] = "free" <=> job[w] = "none"
    /\ \A w \in Worker \ stray : stage[w] # "free" => job[w] = action
    /\ \A c \in Client \ stray : Spawning(c) => client[c] = action
    /\ \A x, y \in Alive \ stray : x = y
    /\ action # "none" => Alive # {}

\* Nobody is left behind if nobody forces a cancel.
NoForcedCancel ==
    ~Forced =>
        /\ stray = {}
        /\ \A c \in Client :
              client[c] \in {"idle", "schedule", "restart", "reinitialize"}

\* The critical task of a restart, and the response of a promotion, speak of the
\* action in progress.
TasksCurrent ==
    /\ action # "restart" => critical = NewTask
    /\ \A c \in Client : Spawning(c) => critical.result = "none"
    /\ \A w \in Worker : critical.result # "none" =>
          stage[w] \in {"free", "starting", "leave"}
    /\ \A w \in Worker : stage[w] \in {"checked", "failover"} =>
          response.result # "none" /\ job[w] = "promote"
    /\ \A w \in Worker : stage[w] \in {"stopped", "start", "starting"} =>
          job[w] # "promote"

\* What a thread that was told to stop can still do.
ToldStops ==
    /\ \A c \in told \cap Client : client[c] = "restart" /\ critical.cancelled
    /\ \A w \in told \cap Worker :
          \/ /\ job[w] = "promote" /\ response.cancelled
             /\ stage[w] \in {"enter", "clear", "work", "leave"}
          \/ /\ job[w] = "restart"
             /\ critical.cancelled \/ stage[w] \in {"starting", "leave"}

ExecInv ==
    /\ TypeOK /\ Owner /\ NoForcedCancel
    /\ stray = {} => TasksCurrent /\ ToldStops

=============================================================================
