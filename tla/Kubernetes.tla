----------------------------- MODULE Kubernetes -----------------------------
(***************************************************************************)
(* The class Kubernetes (dcs/kubernetes.py): the leader is an annotation   *)
(* that no server lets expire.  Every node measures for how long it has    *)
(* not changed, and writes only over the resource version it knows.        *)
(***************************************************************************)
EXTENDS DcsStore

rest == <<setting, session, zooVars>>
local == <<rest, view, cache, kubeVars>>

\* The condition of _patch_or_create: patch the version, or create.
Over(e) == IF e = None THEN "absent" ELSE "version"
Version(e) == IF e = None THEN None ELSE e.version

\* _load_cluster, from the caches; the ttl of a changed leader starts anew.
LoadCluster(n) ==
    /\ Free(n)
    /\ call' = [call EXCEPT ![n] = Failed]
    /\ LET leader == cache[n]["leader"]
           old    == ripe[n] /\ leader = seen[n] IN
       IF ready[n]
       THEN /\ seen' = [seen EXCEPT ![n] = leader] /\ ripe' = [ripe EXCEPT ![n] = old]
            /\ view' = [view EXCEPT ![n] =
                  [cache[n] EXCEPT !["leader"] =
                      IF leader # None /\ old THEN [leader EXCEPT !.value = None]
                      ELSE leader]]
       ELSE view' = [view EXCEPT ![n] = None] /\ UNCHANGED kubeVars
    /\ UNCHANGED <<rest, server, watchVars, history>>

\* A ttl since the leader was seen to change.
TtlOver(n) ==
    /\ seen[n] # None /\ ~ripe[n] /\ ripe' = [ripe EXCEPT ![n] = TRUE]
    /\ UNCHANGED <<rest, server, call, view, watchVars, seen, history>>

\* Mutant: the patch is made without the resource version.
AcquireAnyVersion(n) ==
    /\ SeesNoLeader(n)
    /\ Ask(n, "acquire", Put("leader", n, None,
                             IF seen[n] = None THEN "absent" ELSE "exists",
                             Version(seen[n])), None)
    /\ UNCHANGED <<local, history>>

AttemptToAcquireLeader(n) ==
    /\ SeesNoLeader(n)
    /\ Ask(n, "acquire", Put("leader", n, None, Over(seen[n]), Version(seen[n])), None)
    /\ UNCHANGED <<local, history>>

\* update_leader goes by the cache, not by the last Cluster.
UpdateLeader(n) ==
    /\ SeesItself(n)
    /\ LET kind == cache[n]["leader"] IN
       IF kind # None /\ kind.value # n
       THEN ReturnAtOnce(n, "update", FALSE) /\ UNCHANGED <<server, stream, ready>>
       ELSE Ask(n, "update", Put("leader", n, None, Over(kind), Version(kind)),
                Version(kind))
    /\ UNCHANGED <<local, history>>

\* _update_leader_with_retry after a conflict: what does the server say?
ReadLeader(n) ==
    /\ call[n].op = "update" /\ call[n].step = "first" /\ call[n].ans = "refused"
    /\ Proceed(n, "read", Read)
    /\ UNCHANGED <<local, history>>

\* Mutant: after a conflict the node does not look whose key it is.
MayPatchAnyway(n) ==
    /\ call[n].op = "update" /\ call[n].step = "read" /\ call[n].ans = "ok"
    /\ call[n].hit # None

\* The own name and another version than the one that was refused.
MayPatch(n) ==
    /\ call[n].op = "update" /\ call[n].step = "read" /\ call[n].ans = "ok"
    /\ OwnedBy(n, call[n].hit) /\ call[n].hit.version # call[n].index

PatchAgain(n) ==
    /\ MayPatch(n)
    /\ cache' = [cache EXCEPT ![n] = CacheSet(@, "leader", call[n].hit)]
    /\ Proceed(n, "then", Put("leader", n, None, "version", call[n].hit.version))
    /\ UNCHANGED <<rest, view, kubeVars, history>>

\* The annotation goes, the object stays.
DeleteLeader(n) ==
    /\ Free(n) /\ OwnedBy(n, cache[n]["leader"])
    /\ Ask(n, "delete", Put("leader", None, None, "version",
                            cache[n]["leader"].version), None)
    /\ UNCHANGED <<local, history>>

\* initialize is an annotation of the config object.
Initialize(n) ==
    /\ SeesNoCluster(n)
    /\ LET config == view[n]["initialize"] IN
       Ask(n, "initialize", Put("initialize", n, None, Over(config), Version(config)), None)
    /\ UNCHANGED <<local, history>>

CancelInitialization(n) ==
    /\ n \in initializing /\ initializing' = initializing \ {n}
    /\ LET config == cache[n]["initialize"] IN
       Ask(n, "cancel", Put("initialize", None, None,
                            IF config = None THEN "exists" ELSE "version",
                            Version(config)), None)
    /\ UNCHANGED <<local, again>>

\* write_sync_state: without an index the object is created.
SetSyncStateValue(n) ==
    /\ SeesItself(n)
    /\ LET i == SyncIndex(n) IN
       Ask(n, "sync", Put("sync", n, None, IF i = None THEN "absent" ELSE "version", i), i)
    /\ UNCHANGED <<local, history>>

\* retry; delete_leader has none.
Retry(n) ==
    /\ call[n].op # "delete" /\ Again(n)
    /\ again' = (again \/ call[n].op = "cancel")
    /\ UNCHANGED <<local, initializing>>

\* catch_kubernetes_errors, or no time is left for another request.  What has been
\* written, or read after a conflict, goes into the cache; delete_leader forgets the
\* last Cluster.
Finish(n) ==
    /\ ~Free(n)
    /\ Return(n, call[n].ans = "ok" /\ call[n].step # "read")
    /\ NoteInitialize(n, call[n].op = "initialize" /\ call[n].ans = "ok")
    /\ cache' = [cache EXCEPT ![n] =
                   IF call[n].step = "read" /\ call[n].ans = "ok" /\ call[n].hit # None
                   THEN CacheSet(@, "leader", call[n].hit) ELSE Noted(n)]
    /\ view' = [view EXCEPT ![n] = IF call[n].op = "delete" THEN None ELSE @]
    /\ UNCHANGED <<rest, server, stream, ready, kubeVars>>

----------------------------------------------------------------------------
\* ObjectCache.

watching == <<rest, data, call, view, kubeVars, history>>

BuildCache(n) == Rebuild(n) /\ UNCHANGED watching

WatchEvent(n) == HandleEvent(n) /\ UNCHANGED watching

EndWatch(n) == Break(n) /\ UNCHANGED watching

Next ==
    \E n \in Node :
       \/ LoadCluster(n) \/ TtlOver(n) \/ AttemptToAcquireLeader(n) \/ UpdateLeader(n)
       \/ ReadLeader(n) \/ PatchAgain(n) \/ DeleteLeader(n) \/ Initialize(n)
       \/ CancelInitialization(n) \/ SetSyncStateValue(n) \/ Retry(n) \/ Finish(n)
       \/ BuildCache(n) \/ WatchEvent(n) \/ EndWatch(n)
=============================================================================
