------------------------------ MODULE Backends ------------------------------
(***************************************************************************)
(* A cluster on the back-end that its configuration selects, and what all  *)
(* back-ends are to do alike (dcs/__init__.py).                            *)
(***************************************************************************)
EXTENDS DcsStore

V2 == INSTANCE EtcdV2
V3 == INSTANCE Etcd3
Co == INSTANCE Consul
Zk == INSTANCE ZooKeeper
Ku == INSTANCE Kubernetes

\* The order of the modules, in which get_dcs looks for a section of their name.
Modules == <<"consul", "etcd", "etcd3", "kubernetes", "zookeeper">>

GetDcs(sections) ==
    Modules[CHOOSE i \in DOMAIN Modules :
                /\ Modules[i] \in sections
                /\ \A j \in 1..(i - 1) : Modules[j] \notin sections]

\* A bound on what the nodes do in one behaviour.
Concern == {{"acquire", "update", "touch"}, {"acquire", "delete"}, {"acquire", "ttl"}, {"sync"}, {"initialize", "cancel", "take"}}

Init ==
    /\ concern \in Concern
    /\ \E sections \in (SUBSET Backend) \ {{}} : backend = GetDcs(sections)
    /\ InitServer

Next ==
    \/ backend = "etcd" /\ V2!Next
    \/ backend = "etcd3" /\ V3!Next
    \/ backend = "consul" /\ Co!Next
    \/ backend = "zookeeper" /\ Zk!Next
    \/ backend = "kubernetes" /\ Ku!Next

Spec == Init /\ [][Next]_vars

Change == [key : Key, entry : Stored, version : 1..MaxRev]

TypeOK ==
    /\ backend \in Backend /\ concern \in Concern /\ faults \in 0..MaxFaults
    /\ store \in [Key -> Stored] /\ rev \in 0..MaxRev
    /\ granted \in [Node -> 0..MaxGrants] /\ alive \subseteq Session
    /\ session \in [Node -> Session \cup {None}]
    /\ call \in [Node -> Call]
    /\ view \in [Node -> [Key -> Stored] \cup {None}]
    /\ cache \in [Node -> [Key -> Stored]]
    /\ stream \in [Node -> Seq(Change)]
    /\ ready \in [Node -> BOOLEAN]
    /\ seen \in [Node -> Stored] /\ ripe \in [Node -> BOOLEAN]
    /\ fetch \in [Node -> BOOLEAN] /\ event \in [Node -> BOOLEAN]
    /\ initializing \subseteq Node /\ again \in BOOLEAN

----------------------------------------------------------------------------
\* Properties.

Returned(n, op) == Free(n) /\ call[n].ans = "true" /\ call[n].op = op

\* A cache that watches and has handled every event shows what the server has.  Only
\* KVCache of Etcd3 may keep a key of the node itself that is gone: the answer to its
\* request comes after the event of the removal, and set() has nothing to compare.
CacheShows ==
    backend \in {"etcd3", "kubernetes"} =>
        \A n \in Node, k \in Key :
            ready[n] /\ stream[n] = << >> /\ cache[n][k] # store[k] =>
                /\ backend = "etcd3" /\ store[k] = None
                /\ cache[n][k].value = n

StoreInv == TypeOK /\ CacheShows

\* update_leader of etcd and Kubernetes is successful only if the key was still the
\* node's own when the server handled the request.
AsksForKey == backend \in {"etcd", "kubernetes"}

TrueUpdate ==
    AsksForKey =>
        \A n \in Node : Returned(n, "update") => OwnedBy(n, call[n].hit)

\* Who is told that it wrote over the index it had read did not write over anything
\* newer.  ZooKeeper cannot tell the version 0 from no version.
NoLostUpdate ==
    \A n \in Node :
        /\ Returned(n, "sync") /\ call[n].index # None
        /\ ~(backend = "zookeeper" /\ call[n].index = 0)
        => call[n].hit # None /\ call[n].hit.version = call[n].index

\* One node at a time believes to initialize the cluster, as long as no
\* cancel_initialization has been retried; with Kubernetes even then.
OneInitializer ==
    backend = "kubernetes" \/ ~again => Cardinality(initializing) <= 1

\* Nobody removes the leader key of another node, except in ZooKeeper.
RemovesOwn ==
    backend # "zookeeper" =>
        \A n \in Node :
            /\ call[n].ans = "ok" /\ call[n].req.key = "leader"
            /\ Writes(call[n].req) /\ call[n].req.value = None
            => OwnedBy(n, call[n].hit)

\* The leader key goes straight from one node to another only if the taker has seen
\* just this leader for a ttl (Kubernetes), or by a take_leader: of the node that
\* initializes the cluster, or of Etcd3 for a node whose lease is another one.
MayTakeOver(n, m) ==
    \/ backend = "kubernetes" /\ ripe[m] /\ seen[m] = store["leader"]
    \/ backend = "etcd3" /\ call[m].op = "update"
    \/ backend \in {"etcd", "etcd3"} /\ m \in initializing

HandOver ==
    \A n, m \in Node :
        n # m /\ OwnedBy(n, store["leader"]) /\ OwnedBy(m, store'["leader"])
        => MayTakeOver(n, m)

NoTakeOver == [][HandOver]_vars
=============================================================================
