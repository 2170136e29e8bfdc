------------------------------- MODULE Etcd3 -------------------------------
(***************************************************************************)
(* The class Etcd3 (dcs/etcd3.py): the leader key is bound to a lease, and *)
(* a thread keeps a cache of all keys, which get_cluster reads.            *)
(***************************************************************************)
EXTENDS DcsStore

rest == <<setting, kubeVars, zooVars>>
local == <<rest, session, view, cache>>

\* get_cluster of PatroniEtcd3Client waits for the cache and copies it, or raises.
LoadCluster(n) ==
    /\ Free(n)
    /\ view' = [view EXCEPT ![n] = IF ready[n] THEN cache[n] ELSE None]
    /\ call' = [call EXCEPT ![n] = Failed]
    /\ UNCHANGED <<rest, session, server, watchVars, history>>

\* touch_member: _do_refresh_lease, unless it has been done in this loop_wait.
TouchMember(n) ==
    /\ Ask(n, "touch", IF session[n] = None THEN Grant(n) ELSE KeepAlive(session[n]), None)
    /\ UNCHANGED <<local, history>>

\* The put with the create revision 0.
AttemptToAcquireLeader(n) ==
    /\ SeesNoLeader(n)
    /\ Ask(n, "acquire", IF session[n] = None THEN Grant(n)
                         ELSE Put("leader", n, session[n], "absent", None), None)
    /\ UNCHANGED <<local, history>>

TakeLeader(n) ==
    /\ n \in initializing
    /\ Ask(n, "take", Put("leader", n, session[n], "none", None), None)
    /\ UNCHANGED <<local, history>>

UpdateLeader(n) ==
    /\ SeesItself(n)
    /\ Ask(n, "update", IF session[n] = None THEN Grant(n) ELSE KeepAlive(session[n]), None)
    /\ UNCHANGED <<local, history>>

DeleteLeader(n) ==
    /\ SeesItself(n)
    /\ Ask(n, "delete", Delete("leader", "version", view[n]["leader"].version), None)
    /\ UNCHANGED <<local, history>>

Initialize(n) ==
    /\ SeesNoCluster(n)
    /\ Ask(n, "initialize", Put("initialize", n, None, "absent", None), None)
    /\ UNCHANGED <<local, history>>

CancelInitialization(n) ==
    /\ n \in initializing /\ initializing' = initializing \ {n}
    /\ Ask(n, "cancel", Delete("initialize", "none", None), None)
    /\ UNCHANGED <<local, again>>

\* Without an index the put has no condition.
SetSyncStateValue(n) ==
    /\ SeesItself(n)
    /\ LET i == SyncIndex(n) IN
       Ask(n, "sync", Put("sync", n, None, IF i = None THEN "none" ELSE "version", i), i)
    /\ UNCHANGED <<local, history>>

Retry(n) ==
    /\ call[n].op # "delete" /\ Again(n)
    /\ again' = (again \/ call[n].op = "cancel")
    /\ UNCHANGED <<local, initializing>>

Granted(n) == call[n].ans = "ok" /\ call[n].req.kind = "grant"

\* The server does not know the lease: _do_refresh_lease, and the second attempt of
\* _do_attempt_to_acquire_leader, ask for another.
NewLease(n) ==
    /\ call[n].ans = "nosession" /\ call[n].step = "first"
    /\ call[n].op \in {"touch", "acquire"}
    /\ session' = [session EXCEPT ![n] = None]
    /\ Proceed(n, "grant", Grant(n))
    /\ UNCHANGED <<rest, view, cache, history>>

AcquireWithNewLease(n) ==
    /\ call[n].op = "acquire" /\ Granted(n)
    /\ session' = [session EXCEPT ![n] = Latest(n)]
    /\ Proceed(n, IF call[n].step = "first" THEN "first" ELSE "then",
               Put("leader", n, Latest(n), "absent", None))
    /\ UNCHANGED <<rest, view, cache, history>>

\* The lease of the leader that the node has read last.
LeaderLease(n) ==
    IF view[n] = None \/ view[n]["leader"] = None THEN None
    ELSE view[n]["leader"].session

\* _update_leader has an answer about its lease, whichever it is.
LeaseAnswered(n) ==
    /\ call[n].op = "update" /\ call[n].step = "first"
    /\ call[n].ans \in {"ok", "nosession"}

OwnLease(n) == IF Granted(n) THEN Latest(n) ELSE session[n]

\* The key has another lease than the node: take_leader.
TakeOver(n) ==
    /\ LeaseAnswered(n) /\ LeaderLease(n) # OwnLease(n)
    /\ session' = [session EXCEPT ![n] = OwnLease(n)]
    /\ Proceed(n, "then", Put("leader", n, OwnLease(n), "none", None))
    /\ UNCHANGED <<rest, view, cache, history>>

\* catch_etcd_errors turns every value that is not None into True: _update_leader is
\* successful whenever it has had an answer, and take_leader does not matter.
Result(n) ==
    \/ call[n].ans = "ok"
    \/ call[n].op = "update" /\ (call[n].step = "then" \/ call[n].ans = "nosession")

Finish(n) ==
    /\ ~Free(n) /\ ~(call[n].op = "acquire" /\ Granted(n))
    /\ ~(call[n].op \in {"touch", "acquire"} /\ call[n].ans = "nosession"
         /\ call[n].step = "first")
    /\ ~(LeaseAnswered(n) /\ LeaderLease(n) # OwnLease(n))
    /\ Return(n, Result(n))
    /\ NoteInitialize(n, call[n].op = "initialize" /\ call[n].ans = "ok")
    /\ session' = [session EXCEPT ![n] =
                     IF Granted(n) THEN Latest(n)
                     ELSE IF call[n].op = "acquire" /\ call[n].ans = "nosession"
                     THEN None ELSE @]
    /\ cache' = [cache EXCEPT ![n] = Noted(n)]    \* call_rpc
    /\ UNCHANGED <<rest, server, view, stream, ready>>

SetTtl(n) ==
    /\ Free(n) /\ "ttl" \in concern
    /\ session[n] # None /\ session' = [session EXCEPT ![n] = None]
    /\ UNCHANGED <<rest, server, call, view, watchVars, history>>

----------------------------------------------------------------------------
\* KVCache.

watching == <<rest, data, call, clientVars, history>>

\* _build_cache: the range request, and the watch from its revision.
BuildCache(n) == Rebuild(n) /\ UNCHANGED watching

ProcessEvent(n) == HandleEvent(n) /\ UNCHANGED watching

\* The watch ends: an error, kill_stream after another server was chosen or after
\* authenticate.
EndWatch(n) == Break(n) /\ UNCHANGED watching

Expire ==
    /\ \E s \in alive : End(s)
    /\ UNCHANGED <<local, call, history>>

Next ==
    \/ Expire
    \/ \E n \in Node :
          \/ LoadCluster(n) \/ TouchMember(n) \/ AttemptToAcquireLeader(n)
          \/ TakeLeader(n) \/ UpdateLeader(n) \/ DeleteLeader(n) \/ Initialize(n)
          \/ CancelInitialization(n) \/ SetSyncStateValue(n) \/ Retry(n)
          \/ NewLease(n) \/ AcquireWithNewLease(n) \/ TakeOver(n) \/ Finish(n)
          \/ SetTtl(n) \/ BuildCache(n) \/ ProcessEvent(n) \/ EndWatch(n)
=============================================================================
