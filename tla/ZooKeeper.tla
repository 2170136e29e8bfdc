----------------------------- MODULE ZooKeeper -----------------------------
(***************************************************************************)
(* The class ZooKeeper (dcs/zookeeper.py): the leader key is an ephemeral  *)
(* node, and the last Cluster is good until a watch fires.                 *)
(***************************************************************************)
EXTENDS DcsStore

rest == <<setting, kubeVars>>
idleVars == <<rest, session, view, cache, zooVars>>

\* cluster_watcher: the Cluster is to be read again.
Watcher(n) ==
    /\ fetch' = [fetch EXCEPT ![n] = TRUE]
    /\ event' = [event EXCEPT ![n] = TRUE]

\* session_listener.
SessionListener(n) ==
    /\ Fault /\ Watcher(n)
    /\ UNCHANGED <<rest, data, call, clientVars, watchVars, history>>

WatchFires(n) ==
    /\ stream[n] # << >> /\ stream' = [stream EXCEPT ![n] = Tail(@)]
    /\ Watcher(n)
    /\ UNCHANGED <<rest, server, call, clientVars, cache, ready, history>>

\* _inner_load_cluster up to the names of the keys; the watch is set with them.
LoadNames(n) ==
    /\ Free(n) /\ (fetch[n] \/ view[n] = None)
    /\ fetch' = [fetch EXCEPT ![n] = (store = NoKeys)]
    /\ event' = [event EXCEPT ![n] = FALSE]
    /\ ready' = [ready EXCEPT ![n] = TRUE]
    /\ cache' = [cache EXCEPT ![n] = store]
    /\ call' = [call EXCEPT ![n] = [Failed EXCEPT !.step = "read", !.ans = "ok"]]
    /\ UNCHANGED <<rest, server, clientVars, stream, history>>

ReadingKeys(n) == call[n].op = "load" /\ call[n].step = "read"

\* What is still there of the names that were read.
Read_(n) == [k \in Key |-> IF cache[n][k] = None THEN None ELSE store[k]]

NotMine(n) ==
    LET leader == Read_(n)["leader"] IN
    OwnedBy(n, leader) /\ leader.session # session[n]

\* Its rest.  The last assignment to _fetch_cluster forgets what a watch has set
\* since; every leader has a member key here.
LoadKeys(n) ==
    /\ ReadingKeys(n) /\ ~NotMine(n) /\ Return(n, FALSE)
    /\ view' = [view EXCEPT ![n] = Read_(n)]
    /\ fetch' = [fetch EXCEPT ![n] = @ /\ Read_(n)["leader"] = None]
    /\ UNCHANGED <<rest, server, session, watchVars, event, history>>

\* The own name with another session: the key is removed, whosever it is by now.
RemoveOldKey(n) ==
    /\ ReadingKeys(n) /\ NotMine(n)
    /\ view' = [view EXCEPT ![n] = [Read_(n) EXCEPT !["leader"] = None]]
    /\ call' = [call EXCEPT ![n].step = "grant"]
    /\ UNCHANGED <<rest, server, session, watchVars, zooVars, history>>

SendRemoval(n) ==
    /\ call[n].op = "load" /\ call[n].step = "grant"
    /\ Proceed(n, "then", Delete("leader", "exists", None))
    /\ UNCHANGED <<rest, clientVars, cache, zooVars, history>>

\* An exception.
LoadFails(n) ==
    /\ call[n].op = "load" /\ ~Free(n) /\ Return(n, FALSE)
    /\ view' = [view EXCEPT ![n] = None]
    /\ IF Lost(n) THEN UNCHANGED faults ELSE Fault
    /\ Watcher(n)
    /\ UNCHANGED <<rest, data, session, watchVars, history>>

\* watch(): the event is set, so the last Cluster is not good any more.
Watch(n) ==
    /\ Free(n) /\ event[n] /\ ~fetch[n]
    /\ fetch' = [fetch EXCEPT ![n] = TRUE]
    /\ UNCHANGED <<rest, server, call, clientVars, watchVars, event, history>>

AttemptToAcquireLeader(n) ==
    /\ SeesNoLeader(n) /\ session[n] # None
    /\ Ask(n, "acquire", Put("leader", n, session[n], "absent", None), None)
    /\ UNCHANGED <<idleVars, history>>

\* The server is not asked.
UpdateLeader(n) ==
    /\ SeesItself(n) /\ ReturnAtOnce(n, "update", TRUE)
    /\ UNCHANGED <<idleVars, server, stream, ready, history>>

\* _delete_leader: restart() closes the session, if the server can be reached.
DeleteLeader(n) ==
    /\ SeesItself(n) /\ session[n] # None /\ ReturnAtOnce(n, "delete", TRUE)
    /\ End(session[n]) \/ UNCHANGED <<server, stream, ready>>
    /\ session' = [session EXCEPT ![n] = None]
    /\ Watcher(n)
    /\ UNCHANGED <<rest, view, cache, history>>

Initialize(n) ==
    /\ SeesNoCluster(n)
    /\ Ask(n, "initialize", Put("initialize", n, None, "absent", None), None)
    /\ UNCHANGED <<idleVars, history>>

ReadInitialize == [Read EXCEPT !.key = "initialize"]

CancelInitialization(n) ==
    /\ n \in initializing /\ initializing' = initializing \ {n}
    /\ Ask(n, "cancel", ReadInitialize, None)
    /\ UNCHANGED <<idleVars, again>>

\* _cancel_initialization has read the key.
DeleteInitialize(n) ==
    /\ call[n].op = "cancel" /\ call[n].step = "first" /\ call[n].ans = "ok"
    /\ call[n].hit # None
    /\ Proceed(n, "then", Delete("initialize", "version", call[n].hit.version))
    /\ UNCHANGED <<idleVars, history>>

\* _set_or_create: a version of 0 is no condition.
SetSyncStateValue(n) ==
    /\ SeesItself(n)
    /\ LET i == SyncIndex(n) IN
       Ask(n, "sync",
           Put("sync", n, None, IF i \in {None, 0} THEN "exists" ELSE "version", i), i)
    /\ UNCHANGED <<idleVars, history>>

CreateSync(n) ==
    /\ call[n].op = "sync" /\ call[n].ans = "nokey" /\ call[n].index = None
    /\ call[n].step = "first"
    /\ Proceed(n, "then", Put("sync", n, None, "absent", None))
    /\ UNCHANGED <<idleVars, history>>

\* KazooRetry; a cancellation starts from its beginning.
Retry(n) ==
    /\ call[n].op \in {"acquire", "initialize", "sync", "cancel"} /\ Lost(n)
    /\ IF call[n].op = "cancel" THEN Proceed(n, "first", ReadInitialize) ELSE Again(n)
    /\ again' = (again \/ (call[n].op = "cancel" /\ call[n].step = "then"))
    /\ UNCHANGED <<idleVars, initializing>>

Finish(n) ==
    /\ ~Free(n) /\ (call[n].op = "load" => call[n].step = "then" /\ call[n].ans = "ok")
    /\ ~(call[n].op = "cancel" /\ call[n].step = "first" /\ call[n].ans = "ok"
         /\ call[n].hit # None)
    /\ ~(call[n].op = "sync" /\ call[n].ans = "nokey" /\ call[n].index = None
         /\ call[n].step = "first")
    /\ Return(n, call[n].ans = "ok")
    /\ NoteInitialize(n, call[n].op = "initialize" /\ call[n].ans = "ok")
    /\ UNCHANGED <<idleVars, server, stream, ready>>

\* kazoo makes a session when it has none, or has learned that it has expired.
Connect(n) ==
    /\ Free(n) /\ session[n] \notin alive /\ NewSessionOf(n)
    /\ session' = [session EXCEPT ![n] = Latest(n)']
    /\ ready' = [ready EXCEPT ![n] = FALSE] /\ stream' = [stream EXCEPT ![n] = << >>]
    /\ Watcher(n)
    /\ UNCHANGED <<rest, store, rev, faults, call, view, cache, history>>

Expire ==
    /\ \E s \in alive : End(s)
    /\ UNCHANGED <<idleVars, call, history>>

Next ==
    \/ Expire
    \/ \E n \in Node :
          \/ SessionListener(n) \/ WatchFires(n) \/ LoadNames(n) \/ LoadKeys(n)
          \/ RemoveOldKey(n) \/ SendRemoval(n) \/ LoadFails(n) \/ Watch(n)
          \/ AttemptToAcquireLeader(n) \/ UpdateLeader(n) \/ DeleteLeader(n)
          \/ Initialize(n) \/ CancelInitialization(n) \/ DeleteInitialize(n)
          \/ SetSyncStateValue(n) \/ CreateSync(n) \/ Retry(n) \/ Finish(n) \/ Connect(n)
=============================================================================
