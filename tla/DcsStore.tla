------------------------------ MODULE DcsStore ------------------------------
(***************************************************************************)
(* The server side of a DCS and the requests of the nodes to it, as far as *)
(* the back-ends in patroni/dcs share them.  A back-end (Etcd, Etcd3,      *)
(* Consul, ZooKeeper, Kubernetes) says which requests an operation makes   *)
(* and what it does with the answers.                                      *)
(*                                                                         *)
(* A request is applied when it is made, or never arrives.  The answer may *)
(* be lost in both cases; what is retried is then applied again.           *)
(***************************************************************************)
EXTENDS FiniteSets, Integers, Sequences

CONSTANTS
    Node,
    None,
    MaxRev,         \* bound: changes of the store
    MaxGrants,      \* bound: sessions of a node after its first
    MaxFaults,      \* bound: answers that are lost, connections that break
    MaxStream       \* bound: changes on their way to a cache

ASSUME StoreConstants ==
    /\ None \notin Node \cup Int /\ None \notin Node \X Nat
    /\ MaxRev \in Nat /\ MaxGrants \in Nat
    /\ MaxFaults \in Nat /\ MaxStream \in Nat

VARIABLES
    backend,        \* what get_dcs has chosen
    concern,        \* bound: the operations that this behaviour is about
    store,          \* the keys
    rev,            \* the number of changes so far
    granted,        \* the number of sessions that a node has got since its first
    alive,          \* the sessions (leases) that the server keeps
    faults,         \* the number of faults so far
    session,        \* the one a node believes to have
    call,           \* the request of a node that is not finished
    view,           \* dcs.cluster: the Cluster of its last get_cluster
    cache, stream,  \* its watch cache, and the changes yet to come to it
    ready,          \* it is watching
    seen, ripe,     \* Kubernetes: the leader object, and unchanged for a ttl
    fetch, event,   \* ZooKeeper: _fetch_cluster, and the event of watch()
    initializing,   \* history: it was told to initialize the cluster
    again           \* history: a cancel_initialization has been retried

setting    == <<backend, concern>>
data       == <<store, rev, granted, alive>>
server     == <<data, faults>>
watchVars  == <<cache, stream, ready>>
kubeVars   == <<seen, ripe>>
zooVars    == <<fetch, event>>
history    == <<initializing, again>>
clientVars == <<session, view>>
vars == <<setting, server, call, clientVars, watchVars, kubeVars, zooVars, history>>

Backend == {"consul", "etcd", "etcd3", "kubernetes", "zookeeper"}

\* Those whose leader key is bound to a session.
Bound == {"consul", "etcd3", "zookeeper"}

\* sync stands for every key that is written with the index it was read with.
Key == {"leader", "initialize", "sync"}

Session == Node \X (0..MaxGrants)

\* A key as a node reads it; value is a node name.
Entry == [value : Node \cup {None}, version : 0..MaxRev, session : Session \cup {None}]

ASSUME NoneIsNoEntry == None \notin Entry

Stored == Entry \cup {None}

\* Kubernetes keeps an object whose annotation is gone.
Held(e) == e # None /\ e.value # None

OwnedBy(n, e) == e # None /\ e.value = n

----------------------------------------------------------------------------
\* Requests.

\* cond: what the server compares with arg before it writes.
Request == [kind : {"put", "delete", "keepalive", "grant", "read"},
            key : Key, value : Node \cup {None}, session : Session \cup {None},
            cond : {"none", "absent", "exists", "owner", "version", "acquire"},
            arg : Node \cup 0..MaxRev \cup {None}]

Put(key, value, s, cond, arg) ==
    [kind |-> "put", key |-> key, value |-> value, session |-> s,
     cond |-> cond, arg |-> arg]

Delete(key, cond, arg) ==
    [kind |-> "delete", key |-> key, value |-> None, session |-> None,
     cond |-> cond, arg |-> arg]

Other(kind, s) ==
    [kind |-> kind, key |-> "leader", value |-> None, session |-> s,
     cond |-> "none", arg |-> None]

KeepAlive(s) == Other("keepalive", s)
Grant(n) == [Other("grant", None) EXCEPT !.value = n]
Read == Other("read", None)

\* acquire is that of Consul: nobody else's session holds the key.
Holds(r) ==
    LET e == store[r.key] IN
    \/ r.cond = "none"
    \/ r.cond = "absent" /\ e = None
    \/ r.cond = "exists" /\ e # None
    \/ r.cond = "owner" /\ OwnedBy(r.arg, e)
    \/ r.cond = "version" /\ e # None /\ e.version = r.arg
    \/ r.cond = "acquire" /\ (e = None \/ e.session \in {None, r.session})

Answer(r) ==
    IF r.session \notin alive \cup {None} THEN "nosession"
    ELSE IF Holds(r) THEN "ok"
    ELSE IF store[r.key] = None THEN "nokey" ELSE "refused"

Writes(r) == r.kind \in {"put", "delete"}

\* znode versions start again with every new znode, all others never repeat.
NextVersion(key) ==
    IF backend # "zookeeper" THEN rev + 1
    ELSE IF store[key] = None THEN 0 ELSE store[key].version + 1

After(r) ==
    IF r.kind = "put"
    THEN [value |-> r.value, version |-> NextVersion(r.key), session |-> r.session]
    ELSE None

\* Every watching node is to hear of a change; a watch of ZooKeeper fires once.
Publish(key) ==
    /\ \A n \in Node : Len(stream[n]) < MaxStream
    /\ stream' = [n \in Node |->
                    IF ready[n]
                    THEN Append(stream[n], [key |-> key, entry |-> store'[key],
                                            version |-> rev + 1])
                    ELSE stream[n]]
    /\ ready' = IF backend = "zookeeper" THEN [n \in Node |-> FALSE] ELSE ready

NewSessionOf(n) ==
    /\ granted[n] < MaxGrants
    /\ granted' = [granted EXCEPT ![n] = @ + 1]
    /\ alive' = alive \cup {<<n, granted[n] + 1>>}

Latest(n) == <<n, granted[n]>>

Serve(r) ==
    CASE Writes(r) /\ Answer(r) = "ok" ->
            /\ rev < MaxRev /\ rev' = rev + 1
            /\ store' = [store EXCEPT ![r.key] = After(r)]
            /\ Publish(r.key)
            /\ UNCHANGED <<granted, alive>>
      [] r.kind = "grant" ->
            /\ NewSessionOf(r.value)
            /\ UNCHANGED <<store, rev, stream, ready>>
      [] OTHER -> UNCHANGED <<data, stream, ready>>

\* The server ends session s, and with it the key that is bound to it.
End(s) ==
    /\ s \in alive /\ alive' = alive \ {s}
    /\ IF store["leader"] # None /\ store["leader"].session = s
       THEN /\ rev < MaxRev /\ rev' = rev + 1
            /\ store' = [store EXCEPT !["leader"] = None]
            /\ Publish("leader")
       ELSE UNCHANGED <<store, rev, stream, ready>>
    /\ UNCHANGED <<granted, faults>>

----------------------------------------------------------------------------
\* Operations of a node.

Op == {"load", "acquire", "take", "update", "delete", "initialize", "cancel",
       "sync", "touch", "ttl"}

\* The node waits for an answer until ans is "true" or "false", what the operation
\* has returned.  hit is the key as the last request met it, index the version
\* that the caller handed over, at the revision of the answer.
Call == [op : Op, step : {"first", "read", "grant", "then"}, req : Request,
         ans : {"ok", "refused", "nokey", "nosession", "lost", "true", "false"},
         hit : Stored, index : 0..MaxRev \cup {None}, at : 0..MaxRev]

Failed == [op |-> "load", step |-> "first", req |-> Read, ans |-> "false",
           hit |-> None, index |-> None, at |-> 0]

Free(n) == call[n].ans \in {"true", "false"}

Fault == faults < MaxFaults /\ faults' = faults + 1

\* The request r of step of the operation is made.
Send(n, op, step, r, index) ==
    \E reached, answered \in BOOLEAN :
        /\ answered => reached
        /\ IF answered THEN UNCHANGED faults ELSE Fault
        /\ IF reached THEN Serve(r) ELSE UNCHANGED <<data, stream, ready>>
        /\ call' = [call EXCEPT ![n] =
              [op |-> op, step |-> step, req |-> r, index |-> index,
               ans |-> IF answered THEN Answer(r) ELSE "lost",
               hit |-> IF reached THEN store[r.key] ELSE call[n].hit,
               at |-> IF answered THEN rev' ELSE 0]]

Ask(n, op, r, index) ==
    /\ Free(n) /\ op \in concern
    /\ Send(n, op, "first", r, index)

\* A further request of the same operation.
Proceed(n, step, r) == Send(n, call[n].op, step, r, call[n].index)

Lost(n) == call[n].ans = "lost"

\* retry: the same request again.
Again(n) == Lost(n) /\ Proceed(n, call[n].step, call[n].req)

\* The operation returns.  History: its success, as far as a property is about it.
Return(n, ok) ==
    call' = [call EXCEPT ![n] =
                IF ok /\ call[n].op \in {"update", "sync"} THEN [Failed EXCEPT !.op = call[n].op, !.ans = "true",
                                          !.hit = call[n].hit, !.index = call[n].index]
                ELSE Failed]

\* An operation that needs no server.
ReturnAtOnce(n, op, ok) ==
    /\ Free(n) /\ op \in concern
    /\ call' = [call EXCEPT ![n] =
                IF ok /\ op = "update" THEN [Failed EXCEPT !.op = op, !.ans = "true",
                                                       !.hit = store["leader"]]
                ELSE Failed]

\* initialize() and cancel_initialization() as the bootstrap sees them.
NoteInitialize(n, ok) ==
    /\ initializing' = IF ok THEN initializing \cup {n} ELSE initializing
    /\ UNCHANGED again

\* What the HA loop of a node has seen when it calls an operation (ha.py).
SeesNoLeader(n) == view[n] # None /\ ~Held(view[n]["leader"])
SeesItself(n) == view[n] # None /\ OwnedBy(n, view[n]["leader"])
SeesNoCluster(n) == view[n] # None /\ ~Held(view[n]["initialize"])

\* dcs.cluster.sync.index
SyncIndex(n) ==
    IF view[n]["sync"] = None THEN None ELSE view[n]["sync"].version

NoKeys == [k \in Key |-> None]

\* Either nothing has happened yet, or n is the leader of a running cluster.  A node
\* goes on only when it has a session: create_session, create_lease.
Running(n) ==
    [k \in Key |-> [value |-> n, version |-> 0,
                    session |-> IF k = "leader" /\ backend \in Bound
                                THEN Latest(n) ELSE None]]

InitServer ==
    /\ rev = 0 /\ faults = 0 /\ granted = [n \in Node |-> 0]
    /\ alive = {Latest(n) : n \in Node}
    /\ store = NoKeys \/ \E n \in Node : store = Running(n)
    /\ call = [n \in Node |-> Failed]
    /\ session = [n \in Node |-> Latest(n)] /\ view = [n \in Node |-> None]
    /\ cache = [n \in Node |-> NoKeys] /\ stream = [n \in Node |-> << >>]
    /\ ready = [n \in Node |-> FALSE]
    /\ seen = [n \in Node |-> None] /\ ripe = [n \in Node |-> FALSE]
    /\ fetch = [n \in Node |-> TRUE] /\ event = [n \in Node |-> FALSE]
    /\ initializing = {} /\ again = FALSE

----------------------------------------------------------------------------
\* The watch caches: KVCache of etcd3.py, ObjectCache of kubernetes.py.

\* Mutant: whatever comes last stays.
CacheSetAnyway(c, k, e) == [c EXCEPT ![k] = e]

\* set: only a newer version replaces what is there.
CacheSet(c, k, e) ==
    IF c[k] = None \/ c[k].version < e.version THEN [c EXCEPT ![k] = e] ELSE c

\* delete: only what is older goes.
CacheDelete(c, k, version) ==
    IF c[k] # None /\ c[k].version < version THEN [c EXCEPT ![k] = None] ELSE c

\* The keys are read, and the changes from then on are watched.
Rebuild(n) ==
    /\ ~ready[n] /\ ready' = [ready EXCEPT ![n] = TRUE]
    /\ cache' = [cache EXCEPT ![n] = store]
    /\ stream' = [stream EXCEPT ![n] = << >>]
    /\ UNCHANGED faults

HandleEvent(n) ==
    /\ stream[n] # << >>
    /\ stream' = [stream EXCEPT ![n] = Tail(@)]
    /\ LET e == Head(stream[n]) IN
       cache' = [cache EXCEPT ![n] =
          IF e.entry = None THEN CacheDelete(@, e.key, e.version)
          ELSE CacheSet(@, e.key, e.entry)]
    /\ UNCHANGED <<ready, faults>>

Break(n) ==
    /\ ready[n] /\ ready' = [ready EXCEPT ![n] = FALSE]
    /\ stream' = [stream EXCEPT ![n] = << >>]
    /\ Fault /\ UNCHANGED cache

\* The answer to a request of the node itself, by now perhaps long ago.
Noted(n) ==
    LET r == call[n].req IN
    IF ~(Writes(r) /\ call[n].ans = "ok") THEN cache[n]
    ELSE IF r.kind = "put"
    THEN CacheSet(cache[n], r.key,
                  [value |-> r.value, version |-> call[n].at, session |-> r.session])
    ELSE CacheDelete(cache[n], r.key, call[n].at)
=============================================================================
