------------------------------- MODULE EtcdV2 -------------------------------
(***************************************************************************)
(* The class Etcd (dcs/etcd.py): the leader key has a ttl of its own, and  *)
(* its value says whose it is.                                             *)
(***************************************************************************)
EXTENDS DcsStore

rest == <<setting, session, cache, kubeVars, zooVars>>

\* _load_cluster; an exception makes get_cluster forget the last cluster.
LoadCluster(n) ==
    /\ Free(n)
    /\ view' = [view EXCEPT ![n] = store] \/ view' = [view EXCEPT ![n] = None]
    /\ call' = [call EXCEPT ![n] = Failed]
    /\ UNCHANGED <<rest, server, stream, ready, history>>

AttemptToAcquireLeader(n) ==
    /\ SeesNoLeader(n)
    /\ Ask(n, "acquire", Put("leader", n, None, "absent", None), None)
    /\ UNCHANGED <<rest, view, history>>

\* Only after the initialization of the cluster.
TakeLeader(n) ==
    /\ n \in initializing
    /\ Ask(n, "take", Put("leader", n, None, "none", None), None)
    /\ UNCHANGED <<rest, view, history>>

UpdateLeader(n) ==
    /\ SeesItself(n)
    /\ Ask(n, "update", Put("leader", n, None, "owner", n), None)
    /\ UNCHANGED <<rest, view, history>>

DeleteLeader(n) ==
    /\ SeesItself(n)
    /\ Ask(n, "delete", Delete("leader", "owner", n), None)
    /\ UNCHANGED <<rest, view, history>>

Initialize(n) ==
    /\ SeesNoCluster(n)
    /\ Ask(n, "initialize", Put("initialize", n, None, "absent", None), None)
    /\ UNCHANGED <<rest, view, history>>

CancelInitialization(n) ==
    /\ n \in initializing /\ initializing' = initializing \ {n}
    /\ Ask(n, "cancel", Delete("initialize", "none", None), None)
    /\ UNCHANGED <<rest, view, again>>

\* Mutant: prevIndex is forgotten.
SetAnyway(n) ==
    /\ SeesItself(n)
    /\ Ask(n, "sync", Put("sync", n, None, "none", None), SyncIndex(n))
    /\ UNCHANGED <<rest, view, history>>

\* Without an index there is no condition.
SetSyncStateValue(n) ==
    /\ SeesItself(n)
    /\ LET i == SyncIndex(n) IN
       Ask(n, "sync", Put("sync", n, None, IF i = None THEN "none" ELSE "version", i), i)
    /\ UNCHANGED <<rest, view, history>>

\* api_execute and the retry around it; _delete_leader has neither.
Retry(n) ==
    /\ call[n].op # "delete" /\ Again(n)
    /\ again' = (again \/ call[n].op = "cancel")
    /\ UNCHANGED <<rest, view, initializing>>

\* catch_etcd_errors: what is an exception or has not come is False.
Finish(n) ==
    /\ ~Free(n) /\ Return(n, call[n].ans = "ok")
    /\ NoteInitialize(n, call[n].op = "initialize" /\ call[n].ans = "ok")
    /\ UNCHANGED <<rest, server, view, stream, ready>>

\* The ttl of the leader key is over.
Expire ==
    /\ store["leader"] # None /\ rev < MaxRev /\ rev' = rev + 1
    /\ store' = [store EXCEPT !["leader"] = None]
    /\ Publish("leader")
    /\ UNCHANGED <<rest, granted, alive, faults, call, view, history>>

Next ==
    \/ Expire
    \/ \E n \in Node :
          \/ LoadCluster(n) \/ AttemptToAcquireLeader(n) \/ TakeLeader(n)
          \/ UpdateLeader(n) \/ DeleteLeader(n) \/ Initialize(n)
          \/ CancelInitialization(n) \/ SetSyncStateValue(n) \/ Retry(n) \/ Finish(n)
=============================================================================
