------------------------------- MODULE Consul -------------------------------
(***************************************************************************)
(* The class Consul (dcs/consul.py): the leader key is bound to a session, *)
(* which a node keeps alive, and replaces when it is gone.                 *)
(***************************************************************************)
EXTENDS DcsStore

rest == <<setting, cache, kubeVars, zooVars>>

\* _load_cluster.  A leader key under the own name and another session is removed
\* after the cluster has been read.
LoadCluster(n) ==
    /\ Free(n)
    /\ \/ /\ view' = [view EXCEPT ![n] = None]
          /\ call' = [call EXCEPT ![n] = Failed]
       \/ IF OwnedBy(n, store["leader"]) /\ store["leader"].session # session[n]
          THEN /\ view' = [view EXCEPT ![n] = [store EXCEPT !["leader"] = None]]
               /\ call' = [call EXCEPT ![n] =
                    [Failed EXCEPT !.step = "read", !.ans = "ok",
                                   !.index = store["leader"].version]]
          ELSE /\ view' = [view EXCEPT ![n] = store]
               /\ call' = [call EXCEPT ![n] = Failed]
    /\ UNCHANGED <<rest, server, session, stream, ready, history>>

\* Mutant: the removal does not look at the index.
RemoveAnyKey(n) ==
    /\ call[n].op = "load" /\ call[n].step = "read"
    /\ Proceed(n, "then", Delete("leader", "none", None))
    /\ UNCHANGED <<rest, session, view, history>>

RemoveOldKey(n) ==
    /\ call[n].op = "load" /\ call[n].step = "read"
    /\ Proceed(n, "then", Delete("leader", "version", call[n].index))
    /\ UNCHANGED <<rest, session, view, history>>

\* touch_member: _do_refresh_session, unless it has been done in this loop_wait.
TouchMember(n) ==
    /\ session[n] # None
    /\ Ask(n, "touch", KeepAlive(session[n]), None)
    /\ UNCHANGED <<rest, session, view, history>>

CreateSession(n) ==
    /\ session[n] = None
    /\ Ask(n, "touch", Grant(n), None)
    /\ UNCHANGED <<rest, session, view, history>>

AttemptToAcquireLeader(n) ==
    /\ SeesNoLeader(n)
    /\ Ask(n, "acquire", IF session[n] = None THEN Grant(n)
                         ELSE Put("leader", n, session[n], "acquire", None), None)
    /\ UNCHANGED <<rest, session, view, history>>

\* The renewal of the session says nothing of the key.
UpdateLeader(n) ==
    /\ SeesItself(n)
    /\ IF session[n] = None
       THEN ReturnAtOnce(n, "update", FALSE) /\ UNCHANGED <<server, stream, ready>>
       ELSE Ask(n, "update", KeepAlive(session[n]), None)
    /\ UNCHANGED <<rest, session, view, history>>

DeleteLeader(n) ==
    /\ SeesItself(n)
    /\ Ask(n, "delete", Delete("leader", "version", view[n]["leader"].version), None)
    /\ UNCHANGED <<rest, session, view, history>>

\* Mutant: the key is put without cas.
InitializeAnyway(n) ==
    /\ SeesNoCluster(n)
    /\ Ask(n, "initialize", Put("initialize", n, None, "none", None), None)
    /\ UNCHANGED <<rest, session, view, history>>

Initialize(n) ==
    /\ SeesNoCluster(n)
    /\ Ask(n, "initialize", Put("initialize", n, None, "absent", None), None)
    /\ UNCHANGED <<rest, session, view, history>>

CancelInitialization(n) ==
    /\ n \in initializing /\ initializing' = initializing \ {n}
    /\ Ask(n, "cancel", Delete("initialize", "none", None), None)
    /\ UNCHANGED <<rest, session, view, again>>

SetSyncStateValue(n) ==
    /\ SeesItself(n)
    /\ LET i == SyncIndex(n) IN
       Ask(n, "sync", Put("sync", n, None, IF i = None THEN "none" ELSE "version", i), i)
    /\ UNCHANGED <<rest, session, view, history>>

Retry(n) ==
    /\ call[n].op \notin {"delete", "load"} /\ Again(n)
    /\ again' = (again \/ call[n].op = "cancel")
    /\ UNCHANGED <<rest, session, view, initializing>>

\* The session is gone: _do_refresh_session, and _do_attempt_to_acquire_leader after
\* its first attempt, make another.
NewSession(n) ==
    /\ call[n].ans = "nosession" /\ call[n].step = "first"
    /\ call[n].op \in {"touch", "acquire"}
    /\ session' = [session EXCEPT ![n] = None]
    /\ Proceed(n, "grant", Grant(n))
    /\ UNCHANGED <<rest, view, history>>

Granted(n) == call[n].ans = "ok" /\ call[n].req.kind = "grant"

\* With the new session the key is tried once more.
AcquireWithNewSession(n) ==
    /\ call[n].op = "acquire" /\ Granted(n)
    /\ session' = [session EXCEPT ![n] = Latest(n)]
    /\ Proceed(n, IF call[n].step = "first" THEN "first" ELSE "then",
               Put("leader", n, Latest(n), "acquire", None))
    /\ UNCHANGED <<rest, view, history>>

\* catch_consul_errors: what is an exception or has not come is False.  A failed
\* removal makes _load_cluster raise.
Finish(n) ==
    /\ ~Free(n) /\ ~(call[n].op = "load" /\ call[n].step = "read")
    /\ ~(call[n].op = "acquire" /\ Granted(n))
    /\ ~(call[n].op \in {"touch", "acquire"} /\ call[n].ans = "nosession"
         /\ call[n].step = "first")
    /\ Return(n, call[n].ans = "ok")
    /\ NoteInitialize(n, call[n].op = "initialize" /\ call[n].ans = "ok")
    /\ session' = [session EXCEPT ![n] =
                     IF Granted(n) THEN Latest(n) ELSE @]
    /\ view' = [view EXCEPT ![n] =
                  IF call[n].op = "load" /\ Lost(n) THEN None ELSE @]
    /\ UNCHANGED <<rest, server, stream, ready>>

\* set_ttl with another ttl.
SetTtl(n) ==
    /\ Free(n) /\ "ttl" \in concern
    /\ session[n] # None /\ session' = [session EXCEPT ![n] = None]
    /\ UNCHANGED <<rest, server, call, view, stream, ready, history>>

Expire ==
    /\ \E s \in alive : End(s)
    /\ UNCHANGED <<rest, call, clientVars, history>>

Next ==
    \/ Expire
    \/ \E n \in Node :
          \/ LoadCluster(n) \/ RemoveOldKey(n) \/ TouchMember(n) \/ CreateSession(n)
          \/ AttemptToAcquireLeader(n) \/ UpdateLeader(n) \/ DeleteLeader(n)
          \/ Initialize(n) \/ CancelInitialization(n) \/ SetSyncStateValue(n)
          \/ Retry(n) \/ NewSession(n) \/ AcquireWithNewSession(n) \/ Finish(n)
          \/ SetTtl(n)
=============================================================================
