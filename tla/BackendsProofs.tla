--------------------------- MODULE BackendsProofs ---------------------------
(***************************************************************************)
(* Proofs about Backends, for any nodes and any bounds.                    *)
(*                                                                         *)
(* The actions of the five back-ends are steps of a few common forms: a    *)
(* request is made, an operation is over, a cache watches, a key expires.  *)
(* What makes a request safe is said once (Sound); each back-end is shown  *)
(* to make sound requests only.  The rest is proved about the forms.       *)
(***************************************************************************)
EXTENDS Backends, FiniteSetTheorems, SequenceTheorems, TLAPS

----------------------------------------------------------------------------
\* What the nodes and the server know.

Answered(n) == call[n].ans \in {"ok", "refused", "nokey", "nosession"}

\* A put that has been answered, and what it wrote.
Wrote(n) == call[n].ans = "ok" /\ call[n].req.kind = "put"
Written(n) ==
    [value |-> call[n].req.value, version |-> call[n].at, session |-> call[n].req.session]

\* The leader key in the last Cluster of Kubernetes may be masked; seen is what it was.
Reads(n, k, e) ==
    \/ view[n] # None /\ e = view[n][k] /\ (backend = "kubernetes" => k # "leader")
    \/ e = cache[n][k]
    \/ k = "leader" /\ e = seen[n]

Hears(n, k, e) == \E i \in DOMAIN stream[n] : stream[n][i].key = k /\ stream[n][i].entry = e

IsTold(n, k, e) ==
    \/ Answered(n) /\ call[n].req.key = k /\ e = call[n].hit
    \/ Wrote(n) /\ call[n].req.key = k /\ e = Written(n)

Known(k) ==
    {e \in Entry : e = store[k] \/ \E n \in Node : Reads(n, k, e) \/ Hears(n, k, e)
                                                   \/ IsTold(n, k, e)}

\* A version says what was written; nobody knows anything newer than the store.
VersionInv ==
    /\ \A k \in Key : store[k] # None => store[k].version <= rev
    /\ \A n \in Node : call[n].at <= rev
    /\ backend # "zookeeper" => \A k \in Key : \A e, f \in Known(k) :
          /\ e.version <= rev
          /\ e.version = f.version => e = f
          /\ store[k] # None => e.version <= store[k].version
    /\ backend = "kubernetes" => \A k \in Key : store[k] = None => Known(k) = {}

\* Whatever has version v of key k, its value is x.
VersionIs(k, v, x) == v \in 0..rev /\ \A e \in Known(k) : e.version = v => e.value = x

----------------------------------------------------------------------------
\* Sound requests.

\* The request is for the leader key, on condition that it is n's.
Mine(n, r) ==
    /\ r.key = "leader"
    /\ \/ r.cond = "owner" /\ r.arg = n
       \/ backend # "zookeeper" /\ r.cond = "version" /\ VersionIs("leader", r.arg, n)

OwnSession(n, s) == s = None \/ \E i \in 0..MaxGrants : s = <<n, i>>

\* What a node may rely on when it puts its name into the leader key.
LeaderPut(n, op, r) ==
    /\ r.value = n
    /\ backend = "consul" => r.session # None /\ OwnSession(n, r.session)
    /\ \/ r.cond = "absent" \/ Mine(n, r)
       \/ backend = "consul" /\ r.cond = "acquire"
       \/ backend \in {"etcd", "etcd3"} /\ op = "take" /\ n \in initializing
       \/ backend = "etcd3" /\ op = "update"
       \/ /\ backend = "kubernetes" /\ r.cond = "version" /\ seen[n] # None
          /\ r.arg = seen[n].version /\ (ripe[n] \/ seen[n].value = None)

\* What a node may rely on when it writes the initialize key.
InitializePut(n, r) ==
    /\ r.kind = "put" /\ r.value = n
    /\ \/ r.cond = "absent"
       \/ /\ backend = "kubernetes" /\ r.cond = "version"
          /\ VersionIs("initialize", r.arg, None)

CancelPut(n, r) ==
    IF backend = "kubernetes"
    THEN r.kind = "put" /\ r.value = None /\ r.cond = "version" /\ VersionIs("initialize", r.arg, n)
    ELSE r.kind = "delete"

Sound(n, op, step, r, i) ==
    /\ op = "update" /\ AsksForKey /\ step # "read" => r.kind = "put" /\ Mine(n, r)
    /\ op = "sync" /\ i # None /\ ~(backend = "zookeeper" /\ i = 0) =>
          Writes(r) /\ r.key = "sync" /\ r.cond = "version" /\ r.arg = i
    /\ Writes(r) /\ r.key = "leader" /\ r.value = None /\ backend # "zookeeper" => Mine(n, r)
    /\ r.kind = "put" /\ r.key = "leader" /\ r.value # None => LeaderPut(n, op, r)
    /\ r.kind = "put" /\ backend # "kubernetes" => r.value = n
    /\ r.kind = "grant" => r.value = n
    /\ Writes(r) /\ r.key = "initialize" =>
          \/ op = "initialize" /\ InitializePut(n, r)
          \/ op = "cancel" /\ CancelPut(n, r)
    /\ op = "initialize" => r.kind = "put" /\ r.key = "initialize"
    /\ op = "take" => n \in initializing
    /\ backend = "kubernetes" => r.kind # "delete"
    /\ op = "cancel" => step \in {"first", "then"}
    /\ backend = "zookeeper" /\ op = "cancel" /\ step = "first" => r.kind = "read"
    /\ step = "read" => op = (IF backend = "kubernetes" THEN "update" ELSE "load") /\ r = Read

\* What the answer "ok" says of the key that the request has met.
Met(r, e) ==
    /\ r.cond = "absent" => e = None
    /\ r.cond = "exists" => e # None
    /\ r.cond = "owner" => OwnedBy(r.arg, e)
    /\ r.cond = "version" => e # None /\ e.version = r.arg

\* Consul has read a leader key of its own name that it is going to remove.
RemovesOld(n) == backend = "consul" /\ call[n].op = "load" /\ call[n].step = "read"

Waits(n) ==
    /\ Free(n) => call[n].step = "first"
    /\ ~Free(n) =>
         /\ Sound(n, call[n].op, call[n].step, call[n].req, call[n].index)
         /\ call[n].op = "cancel" => n \notin initializing
         /\ RemovesOld(n) => VersionIs("leader", call[n].index, n)
    /\ call[n].ans = "ok" /\ Writes(call[n].req) => Met(call[n].req, call[n].hit)

CallInv == \A n \in Node : Waits(n)

\* TrueUpdate and NoLostUpdate for one node.
Truly(n) ==
    /\ AsksForKey /\ Returned(n, "update") => OwnedBy(n, call[n].hit)
    /\ Returned(n, "sync") /\ call[n].index # None
       /\ ~(backend = "zookeeper" /\ call[n].index = 0) =>
          call[n].hit # None /\ call[n].hit.version = call[n].index

ResultInv == \A n \in Node : Truly(n)

\* Who initializes the cluster, is being told so or is about to look at its key.
Initializes(n) ==
    \/ n \in initializing
    \/ call[n].op = "initialize" /\ call[n].ans = "ok"
    \/ /\ backend = "zookeeper" /\ call[n].op = "cancel" /\ call[n].step = "first"
       /\ ~Free(n)

InitInv ==
    (backend = "kubernetes" \/ ~again) =>
        \A n \in Node : Initializes(n) => OwnedBy(n, store["initialize"])

SessionInv ==
    /\ \A n \in Node : OwnSession(n, session[n])
    /\ backend = "consul" /\ store["leader"] # None =>
          /\ store["leader"].session # None
          /\ OwnSession(store["leader"].value, store["leader"].session)

\* A cache of Kubernetes never loses an object, and the node that initializes the
\* cluster has the newest one of the initialize key.
Kubes(n) ==
    /\ n \in initializing => cache[n]["initialize"] = store["initialize"]
    /\ call[n].op = "initialize" /\ call[n].ans = "ok" =>
          store["initialize"] # None /\ store["initialize"].version = call[n].at
    /\ view[n] # None =>
          /\ \A k \in Key : view[n][k] # None => cache[n][k] # None
          /\ IF seen[n] = None THEN view[n]["leader"] = None
             ELSE \/ view[n]["leader"] = seen[n]
                  \/ ripe[n] /\ view[n]["leader"] = [seen[n] EXCEPT !.value = None]
    /\ seen[n] # None => cache[n]["leader"] # None
    /\ \A i \in DOMAIN stream[n] : stream[n][i].entry # None

KubeInv == backend = "kubernetes" => \A n \in Node : Kubes(n)

\* The last change of a key on its way to a cache is what the store has.
IsLast(n, k, i) ==
    /\ i \in DOMAIN stream[n] /\ stream[n][i].key = k
    /\ \A j \in DOMAIN stream[n] : j > i => stream[n][j].key # k

\* The entry e of key k in the cache of n is what the store has; see CacheShows.
Shows(n, k, e) ==
    \/ e = store[k]
    \/ backend = "etcd3" /\ store[k] = None /\ e # None /\ e.value = n

Watching(n) ==
    /\ ~ready[n] => stream[n] = << >>
    /\ \A k \in Key :
         /\ ready[n] /\ (\A i \in DOMAIN stream[n] : stream[n][i].key # k) =>
               Shows(n, k, cache[n][k])
         /\ \A i \in DOMAIN stream[n] : IsLast(n, k, i) =>
               /\ stream[n][i].entry = store[k]
               /\ store[k] = None => \A e \in Known(k) : e.version < stream[n][i].version
         /\ /\ call[n].ans = "ok" /\ call[n].req.kind = "delete"
            /\ call[n].req.key = k /\ store[k] # None
            => call[n].at < store[k].version

CacheInv == backend \in {"etcd3", "kubernetes"} => \A n \in Node : Watching(n)

Inv ==
    /\ TypeOK /\ VersionInv /\ CallInv /\ ResultInv /\ InitInv /\ SessionInv /\ KubeInv
    /\ CacheInv

----------------------------------------------------------------------------
\* The back-ends share the operators of DcsStore.

LEMMA V2Is ==
  /\ V2!Failed = Failed
  /\ V2!Read = Read
  /\ \A n : /\ V2!Free(n) <=> Free(n)
            /\ V2!SeesNoLeader(n) <=> SeesNoLeader(n)
            /\ V2!SeesItself(n) <=> SeesItself(n)
            /\ V2!SeesNoCluster(n) <=> SeesNoCluster(n)
            /\ V2!SyncIndex(n) = SyncIndex(n)
            /\ V2!Again(n) <=> Again(n)
            /\ V2!Publish(n) <=> Publish(n)
  /\ \A n, x : /\ V2!Return(n, x) <=> Return(n, x)
               /\ V2!NoteInitialize(n, x) <=> NoteInitialize(n, x)
  /\ \A n, x, y : V2!Delete(n, x, y) = Delete(n, x, y)
  /\ \A n, x, y, z : V2!Ask(n, x, y, z) <=> Ask(n, x, y, z)
  /\ \A n, x, y, z, u : V2!Put(n, x, y, z, u) = Put(n, x, y, z, u)
BY DEF V2!Failed, Failed, V2!Read, Read, V2!Free, Free, V2!SeesNoLeader, SeesNoLeader,
    V2!SeesItself, SeesItself, V2!SeesNoCluster, SeesNoCluster, V2!SyncIndex, SyncIndex,
    V2!Again, Again, V2!Ask, Ask, V2!Put, Put, V2!Delete, Delete, V2!Return, Return,
    V2!NoteInitialize, NoteInitialize, V2!Publish, Publish, V2!Other, Other, V2!Held, Held,
    V2!OwnedBy, OwnedBy, V2!Lost, Lost, V2!Proceed, Proceed, V2!Send, Send, V2!Serve, Serve,
    V2!Fault, Fault, V2!Answer, Answer, V2!data, data, V2!Writes, Writes, V2!After, After,
    V2!NewSessionOf, NewSessionOf, V2!Holds, Holds, V2!NextVersion, NextVersion

LEMMA V3Is ==
  /\ V3!Failed = Failed
  /\ V3!Read = Read
  /\ \A n : /\ V3!Free(n) <=> Free(n)
            /\ V3!SeesNoLeader(n) <=> SeesNoLeader(n)
            /\ V3!SeesItself(n) <=> SeesItself(n)
            /\ V3!SeesNoCluster(n) <=> SeesNoCluster(n)
            /\ V3!SyncIndex(n) = SyncIndex(n)
            /\ V3!Again(n) <=> Again(n)
            /\ V3!Lost(n) <=> Lost(n)
            /\ V3!Grant(n) = Grant(n)
            /\ V3!KeepAlive(n) = KeepAlive(n)
            /\ V3!Latest(n) = Latest(n)
            /\ V3!End(n) <=> End(n)
            /\ V3!Rebuild(n) <=> Rebuild(n)
            /\ V3!HandleEvent(n) <=> HandleEvent(n)
            /\ V3!Break(n) <=> Break(n)
            /\ V3!Noted(n) = Noted(n)
  /\ \A n, x : /\ V3!Return(n, x) <=> Return(n, x)
               /\ V3!NoteInitialize(n, x) <=> NoteInitialize(n, x)
  /\ \A n, x, y : /\ V3!Proceed(n, x, y) <=> Proceed(n, x, y)
                  /\ V3!Delete(n, x, y) = Delete(n, x, y)
  /\ \A n, x, y, z : V3!Ask(n, x, y, z) <=> Ask(n, x, y, z)
  /\ \A n, x, y, z, u : V3!Put(n, x, y, z, u) = Put(n, x, y, z, u)
BY DEF V3!Failed, Failed, V3!Read, Read, V3!Free, Free, V3!SeesNoLeader, SeesNoLeader,
    V3!SeesItself, SeesItself, V3!SeesNoCluster, SeesNoCluster, V3!SyncIndex, SyncIndex,
    V3!Again, Again, V3!Lost, Lost, V3!Ask, Ask, V3!Proceed, Proceed, V3!Put, Put,
    V3!Delete, Delete, V3!Grant, Grant, V3!KeepAlive, KeepAlive, V3!Latest, Latest,
    V3!Return, Return, V3!NoteInitialize, NoteInitialize, V3!End, End, V3!Rebuild, Rebuild,
    V3!HandleEvent, HandleEvent, V3!Break, Break, V3!Noted, Noted, V3!Other, Other, V3!Held,
    Held, V3!OwnedBy, OwnedBy, V3!Send, Send, V3!Publish, Publish, V3!CacheDelete,
    CacheDelete, V3!CacheSet, CacheSet, V3!Fault, Fault, V3!Writes, Writes, V3!Serve, Serve,
    V3!Answer, Answer, V3!data, data, V3!After, After, V3!NewSessionOf, NewSessionOf,
    V3!Holds, Holds, V3!NextVersion, NextVersion

LEMMA CoIs ==
  /\ Co!Failed = Failed
  /\ Co!Read = Read
  /\ \A n : /\ Co!Free(n) <=> Free(n)
            /\ Co!SeesNoLeader(n) <=> SeesNoLeader(n)
            /\ Co!SeesItself(n) <=> SeesItself(n)
            /\ Co!SeesNoCluster(n) <=> SeesNoCluster(n)
            /\ Co!SyncIndex(n) = SyncIndex(n)
            /\ Co!Again(n) <=> Again(n)
            /\ Co!Lost(n) <=> Lost(n)
            /\ Co!Grant(n) = Grant(n)
            /\ Co!KeepAlive(n) = KeepAlive(n)
            /\ Co!Latest(n) = Latest(n)
            /\ Co!End(n) <=> End(n)
  /\ \A n, x : /\ Co!OwnedBy(n, x) <=> OwnedBy(n, x)
               /\ Co!Return(n, x) <=> Return(n, x)
               /\ Co!NoteInitialize(n, x) <=> NoteInitialize(n, x)
  /\ \A n, x, y : /\ Co!Proceed(n, x, y) <=> Proceed(n, x, y)
                  /\ Co!Delete(n, x, y) = Delete(n, x, y)
                  /\ Co!ReturnAtOnce(n, x, y) <=> ReturnAtOnce(n, x, y)
  /\ \A n, x, y, z : Co!Ask(n, x, y, z) <=> Ask(n, x, y, z)
  /\ \A n, x, y, z, u : Co!Put(n, x, y, z, u) = Put(n, x, y, z, u)
BY DEF Co!Failed, Failed, Co!Read, Read, Co!Free, Free, Co!OwnedBy, OwnedBy,
    Co!SeesNoLeader, SeesNoLeader, Co!SeesItself, SeesItself, Co!SeesNoCluster,
    SeesNoCluster, Co!SyncIndex, SyncIndex, Co!Again, Again, Co!Lost, Lost, Co!Ask, Ask,
    Co!Proceed, Proceed, Co!Put, Put, Co!Delete, Delete, Co!Grant, Grant, Co!KeepAlive,
    KeepAlive, Co!Latest, Latest, Co!Return, Return, Co!ReturnAtOnce, ReturnAtOnce,
    Co!NoteInitialize, NoteInitialize, Co!End, End, Co!Other, Other, Co!Held, Held, Co!Send,
    Send, Co!Publish, Publish, Co!Serve, Serve, Co!Fault, Fault, Co!Answer, Answer, Co!data,
    data, Co!Writes, Writes, Co!After, After, Co!NewSessionOf, NewSessionOf, Co!Holds,
    Holds, Co!NextVersion, NextVersion

LEMMA ZkIs ==
  /\ Zk!Failed = Failed
  /\ Zk!Read = Read
  /\ Zk!Fault <=> Fault
  /\ \A n : /\ Zk!Free(n) <=> Free(n)
            /\ Zk!SeesNoLeader(n) <=> SeesNoLeader(n)
            /\ Zk!SeesItself(n) <=> SeesItself(n)
            /\ Zk!SeesNoCluster(n) <=> SeesNoCluster(n)
            /\ Zk!SyncIndex(n) = SyncIndex(n)
            /\ Zk!Again(n) <=> Again(n)
            /\ Zk!Lost(n) <=> Lost(n)
            /\ Zk!Latest(n) = Latest(n)
            /\ Zk!NewSessionOf(n) <=> NewSessionOf(n)
            /\ Zk!End(n) <=> End(n)
  /\ \A n, x : /\ Zk!OwnedBy(n, x) <=> OwnedBy(n, x)
               /\ Zk!Return(n, x) <=> Return(n, x)
               /\ Zk!NoteInitialize(n, x) <=> NoteInitialize(n, x)
  /\ \A n, x, y : /\ Zk!Proceed(n, x, y) <=> Proceed(n, x, y)
                  /\ Zk!Delete(n, x, y) = Delete(n, x, y)
                  /\ Zk!ReturnAtOnce(n, x, y) <=> ReturnAtOnce(n, x, y)
  /\ \A n, x, y, z : Zk!Ask(n, x, y, z) <=> Ask(n, x, y, z)
  /\ \A n, x, y, z, u : Zk!Put(n, x, y, z, u) = Put(n, x, y, z, u)
BY DEF Zk!Failed, Failed, Zk!Read, Read, Zk!Fault, Fault, Zk!Free, Free, Zk!OwnedBy,
    OwnedBy, Zk!SeesNoLeader, SeesNoLeader, Zk!SeesItself, SeesItself, Zk!SeesNoCluster,
    SeesNoCluster, Zk!SyncIndex, SyncIndex, Zk!Again, Again, Zk!Lost, Lost, Zk!Ask, Ask,
    Zk!Proceed, Proceed, Zk!Put, Put, Zk!Delete, Delete, Zk!Latest, Latest, Zk!Return,
    Return, Zk!ReturnAtOnce, ReturnAtOnce, Zk!NoteInitialize, NoteInitialize,
    Zk!NewSessionOf, NewSessionOf, Zk!End, End, Zk!Other, Other, Zk!Held, Held, Zk!Send,
    Send, Zk!Publish, Publish, Zk!Serve, Serve, Zk!Answer, Answer, Zk!data, data, Zk!Writes,
    Writes, Zk!After, After, Zk!Holds, Holds, Zk!NextVersion, NextVersion

LEMMA KuIs ==
  /\ Ku!Failed = Failed
  /\ Ku!Read = Read
  /\ \A n : /\ Ku!Free(n) <=> Free(n)
            /\ Ku!SeesNoLeader(n) <=> SeesNoLeader(n)
            /\ Ku!SeesItself(n) <=> SeesItself(n)
            /\ Ku!SeesNoCluster(n) <=> SeesNoCluster(n)
            /\ Ku!SyncIndex(n) = SyncIndex(n)
            /\ Ku!Again(n) <=> Again(n)
            /\ Ku!Lost(n) <=> Lost(n)
            /\ Ku!Rebuild(n) <=> Rebuild(n)
            /\ Ku!HandleEvent(n) <=> HandleEvent(n)
            /\ Ku!Break(n) <=> Break(n)
            /\ Ku!Noted(n) = Noted(n)
  /\ \A n, x : /\ Ku!OwnedBy(n, x) <=> OwnedBy(n, x)
               /\ Ku!Return(n, x) <=> Return(n, x)
               /\ Ku!NoteInitialize(n, x) <=> NoteInitialize(n, x)
  /\ \A n, x, y : /\ Ku!Proceed(n, x, y) <=> Proceed(n, x, y)
                  /\ Ku!ReturnAtOnce(n, x, y) <=> ReturnAtOnce(n, x, y)
                  /\ Ku!CacheSet(n, x, y) = CacheSet(n, x, y)
  /\ \A n, x, y, z : Ku!Ask(n, x, y, z) <=> Ask(n, x, y, z)
  /\ \A n, x, y, z, u : Ku!Put(n, x, y, z, u) = Put(n, x, y, z, u)
BY DEF Ku!Failed, Failed, Ku!Read, Read, Ku!Free, Free, Ku!OwnedBy, OwnedBy,
    Ku!SeesNoLeader, SeesNoLeader, Ku!SeesItself, SeesItself, Ku!SeesNoCluster,
    SeesNoCluster, Ku!SyncIndex, SyncIndex, Ku!Again, Again, Ku!Lost, Lost, Ku!Ask, Ask,
    Ku!Proceed, Proceed, Ku!Put, Put, Ku!Return, Return, Ku!ReturnAtOnce, ReturnAtOnce,
    Ku!NoteInitialize, NoteInitialize, Ku!Rebuild, Rebuild, Ku!HandleEvent, HandleEvent,
    Ku!Break, Break, Ku!CacheSet, CacheSet, Ku!Noted, Noted, Ku!Other, Other, Ku!Held, Held,
    Ku!Send, Send, Ku!CacheDelete, CacheDelete, Ku!Fault, Fault, Ku!Writes, Writes,
    Ku!Serve, Serve, Ku!Answer, Answer, Ku!data, data, Ku!After, After, Ku!Publish, Publish,
    Ku!NewSessionOf, NewSessionOf, Ku!Holds, Holds, Ku!NextVersion, NextVersion

----------------------------------------------------------------------------
\* What a change of the store does to what is known.

\* The server writes e to key k, or removes the key, and publishes that.
Changes(k, e) ==
    /\ rev < MaxRev /\ rev' = rev + 1
    /\ store' = [store EXCEPT ![k] = e]
    /\ Publish(k)

LEMMA ChangesDoes ==
  ASSUME TypeOK, NEW k \in Key, NEW e \in Stored, Changes(k, e)
  PROVE /\ store' \in [Key -> Stored] /\ rev' \in 0..MaxRev
        /\ store'[k] = e /\ \A j \in Key \ {k} : store'[j] = store[j]
        /\ stream' \in [Node -> Seq(Change)] /\ ready' \in [Node -> BOOLEAN]
        /\ backend # "zookeeper" => ready' = ready
        /\ \A n \in Node :
              IF ready[n]
              THEN /\ Len(stream'[n]) = Len(stream[n]) + 1
                   /\ \A i \in 1..Len(stream[n]) : stream'[n][i] = stream[n][i]
                   /\ stream'[n][Len(stream[n]) + 1] = [key |-> k, entry |-> e, version |-> rev + 1]
              ELSE stream'[n] = stream[n]
<1>1. store' \in [Key -> Stored] /\ store'[k] = e /\ \A j \in Key \ {k} : store'[j] = store[j]
  BY DEF TypeOK, Changes
<1>2. rev' \in 0..MaxRev BY StoreConstants DEF TypeOK, Changes
<1> DEFINE c == [key |-> k, entry |-> e, version |-> rev + 1]
<1>3. c \in Change BY <1>2, StoreConstants DEF Change, TypeOK, Changes
<1>4. stream' = [n \in Node |-> IF ready[n] THEN Append(stream[n], c) ELSE stream[n]]
  BY <1>1 DEF Changes, Publish
<1> HIDE DEF c
<1>5. \A n \in Node : stream[n] \in Seq(Change) BY DEF TypeOK
<1>6. stream' \in [Node -> Seq(Change)] BY <1>3, <1>4, <1>5
<1>7. ready' \in [Node -> BOOLEAN] /\ (backend # "zookeeper" => ready' = ready)
  BY DEF Changes, Publish, TypeOK
<1>8. ASSUME NEW n \in Node
      PROVE IF ready[n]
            THEN /\ Len(stream'[n]) = Len(stream[n]) + 1
                 /\ \A i \in 1..Len(stream[n]) : stream'[n][i] = stream[n][i]
                 /\ stream'[n][Len(stream[n]) + 1] = c
            ELSE stream'[n] = stream[n]
  BY <1>3, <1>4, <1>5
<1> QED BY <1>1, <1>2, <1>6, <1>7, <1>8 DEF c

\* A change is the last on its way to the caches that watch.
LEMMA ChangeComes ==
  ASSUME TypeOK, NEW k \in Key, NEW e \in Stored, Changes(k, e), NEW n \in Node
  PROVE /\ \A i \in DOMAIN stream'[n] :
              \/ i \in DOMAIN stream[n] /\ stream'[n][i] = stream[n][i]
              \/ /\ ready[n] /\ i = Len(stream[n]) + 1
                 /\ stream'[n][i] = [key |-> k, entry |-> e, version |-> rev + 1]
        /\ \A i \in DOMAIN stream[n] : i \in DOMAIN stream'[n] /\ i < Len(stream[n]) + 1
        /\ ready[n] => Len(stream[n]) + 1 \in DOMAIN stream'[n]
        /\ ~ready[n] => stream'[n] = stream[n]
<1>1. stream[n] \in Seq(Change) /\ stream'[n] \in Seq(Change)
  BY ChangesDoes DEF TypeOK
<1>2. CASE ready[n]
  <2>1. /\ Len(stream'[n]) = Len(stream[n]) + 1
        /\ \A i \in 1..Len(stream[n]) : stream'[n][i] = stream[n][i]
        /\ stream'[n][Len(stream[n]) + 1] = [key |-> k, entry |-> e, version |-> rev + 1]
    BY <1>2, ChangesDoes
  <2> QED BY <1>1, <1>2, <2>1
<1>3. CASE ~ready[n]
  <2>1. stream'[n] = stream[n] BY <1>3, ChangesDoes
  <2> QED BY <1>1, <1>3, <2>1
<1> QED BY <1>2, <1>3

\* What the nodes but n have of the state.
Elsewhere(n) ==
    \A m \in Node \ {n} :
       /\ call'[m] = call[m] /\ view'[m] = view[m] /\ cache'[m] = cache[m]
       /\ seen'[m] = seen[m] /\ ripe'[m] = ripe[m] /\ session'[m] = session[m]

\* Node n learns nothing but what is known, or what is written to key k now.
Learns(n, k, e) ==
    \A j \in Key, x \in Entry :
        (Reads(n, j, x) \/ IsTold(n, j, x))' => x \in Known(j) \/ (j = k /\ x = e)

LEMMA KnownByChange ==
  ASSUME TypeOK, NEW n \in Node, Elsewhere(n), UNCHANGED backend,
         NEW k \in Key, NEW e \in Stored, Changes(k, e), backend # "zookeeper", Learns(n, k, e)
  PROVE \A j \in Key, x \in Entry : x \in Known(j)' => x \in Known(j) \/ (j = k /\ x = e)
<1> SUFFICES ASSUME NEW j \in Key, NEW x \in Entry, x \in Known(j)', ~(j = k /\ x = e)
             PROVE x \in Known(j)
  OBVIOUS
<1>1. CASE x = store'[j] BY <1>1, ChangesDoes DEF Known
<1>2. ASSUME NEW m \in Node, Reads(m, j, x)' \/ IsTold(m, j, x)' PROVE x \in Known(j)
  <2>1. CASE m = n BY <1>2, <2>1 DEF Learns
  <2>2. CASE m # n
    <3>1. Reads(m, j, x) \/ IsTold(m, j, x)
      BY <1>2, <2>2 DEF Elsewhere, Reads, IsTold, Answered, Wrote, Written
    <3> QED BY <3>1 DEF Known
  <2> QED BY <2>1, <2>2
<1>3. ASSUME NEW m \in Node, Hears(m, j, x)' PROVE x \in Known(j)
  <2>1. PICK i \in DOMAIN stream'[m] : stream'[m][i].key = j /\ stream'[m][i].entry = x
    BY <1>3 DEF Hears
  <2>2. \/ i \in DOMAIN stream[m] /\ stream'[m][i] = stream[m][i]
        \/ stream'[m][i] = [key |-> k, entry |-> e, version |-> rev + 1]
    BY ChangeComes
  <2>3. i \in DOMAIN stream[m] /\ stream'[m][i] = stream[m][i] BY <2>1, <2>2
  <2> QED BY <2>1, <2>3 DEF Known, Hears
<1> QED BY <1>1, <1>2, <1>3 DEF Known

\* Streams may only get shorter at their front, or be forgotten.
LEMMA KnownByRest ==
  ASSUME NEW n \in Node, Elsewhere(n), UNCHANGED <<backend, store>>, Learns(n, "leader", None),
         \A m \in Node, j \in Key, x \in Entry : Hears(m, j, x)' => Hears(m, j, x)
  PROVE \A j \in Key : Known(j)' \subseteq Known(j)
<1> SUFFICES ASSUME NEW j \in Key, NEW x \in Entry, x \in Known(j)' PROVE x \in Known(j)
  BY DEF Known
<1>1. CASE x = store'[j] BY <1>1 DEF Known
<1>2. ASSUME NEW m \in Node, Reads(m, j, x)' \/ IsTold(m, j, x)' PROVE x \in Known(j)
  <2>1. CASE m = n BY <1>2, <2>1, NoneIsNoEntry DEF Learns, Key
  <2>2. CASE m # n
    <3>1. Reads(m, j, x) \/ IsTold(m, j, x)
      BY <1>2, <2>2 DEF Elsewhere, Reads, IsTold, Answered, Wrote, Written
    <3> QED BY <3>1 DEF Known
  <2> QED BY <2>1, <2>2
<1>3. ASSUME NEW m \in Node, Hears(m, j, x)' PROVE x \in Known(j)
  BY <1>3 DEF Known
<1> QED BY <1>1, <1>2, <1>3 DEF Known

\* What a version says stays true.
Keeps == backend # "zookeeper" => \A k \in Key : \A v, x : VersionIs(k, v, x) => VersionIs(k, v, x)'

LEMMA VersionByRest ==
  ASSUME TypeOK, VersionInv, UNCHANGED <<backend, store, rev>>,
         backend # "zookeeper" => \A j \in Key : Known(j)' \subseteq Known(j),
         \A n \in Node : call'[n].at <= rev
  PROVE VersionInv' /\ Keeps
<1>1. Keeps BY DEF Keeps, VersionIs
<1>2. VersionInv' BY DEF VersionInv
<1> QED BY <1>1, <1>2

LEMMA VersionByChange ==
  ASSUME TypeOK, VersionInv, UNCHANGED backend,
         NEW k \in Key, NEW e \in Stored, Changes(k, e),
         e # None => e.version = NextVersion(k), backend = "kubernetes" => e # None,
         backend # "zookeeper" =>
            \A j \in Key, x \in Entry : x \in Known(j)' => x \in Known(j) \/ (j = k /\ x = e),
         \A n \in Node : call'[n].at <= rev'
  PROVE VersionInv' /\ Keeps
<1>1. rev \in Nat /\ rev' = rev + 1 BY DEF TypeOK, Changes
<1>2. store' \in [Key -> Stored] /\ store'[k] = e /\ \A j \in Key \ {k} : store'[j] = store[j]
  BY ChangesDoes
<1>3. \A j \in Key : \A x \in Known(j) : x \in Entry /\ x # None /\ x.version \in Nat
  BY NoneIsNoEntry DEF Known, Entry
<1>4. \A j \in Key : \A x \in Known(j)' : x \in Entry BY DEF Known
<1>5. backend # "zookeeper" => (e # None => e \in Entry /\ e.version = rev + 1)
  BY DEF NextVersion, Stored
<1>6. Keeps
  <2> SUFFICES ASSUME backend # "zookeeper", NEW j \in Key, NEW v, NEW x, VersionIs(j, v, x)
               PROVE VersionIs(j, v, x)'
    BY DEF Keeps
  <2>1. v \in 0..rev' BY <1>1 DEF VersionIs
  <2>2. ASSUME NEW y \in Known(j)', y.version = v PROVE y.value = x
    <3>1. y \in Known(j) \/ y = e BY <1>4
    <3>2. CASE y \in Known(j) BY <2>2, <3>2 DEF VersionIs
    <3>3. CASE y = e
      <4>1. e \in Entry BY <1>4, <3>3
      <4>2. e # None BY <4>1, NoneIsNoEntry
      <4>3. v = rev + 1 BY <1>5, <2>2, <3>3, <4>2
      <4> QED BY <1>1, <4>3 DEF VersionIs
    <3> QED BY <3>1, <3>2, <3>3
  <2> QED BY <2>1, <2>2 DEF VersionIs
<1>7. \A j \in Key : store'[j] # None => store'[j].version <= rev'
  <2>1. e # None => e.version <= rev'
    <3>1. store[k] # None => store[k].version <= rev /\ store[k].version \in Nat
      BY DEF VersionInv, TypeOK, Stored, Entry
    <3> QED BY <1>1, <3>1 DEF NextVersion
  <2>2. ASSUME NEW j \in Key \ {k}, store[j] # None PROVE store[j].version <= rev'
    <3>1. store[j].version <= rev /\ store[j].version \in Nat
      BY <2>2 DEF VersionInv, TypeOK, Stored, Entry
    <3> QED BY <1>1, <3>1
  <2>3. ASSUME NEW j \in Key, store'[j] # None PROVE store'[j].version <= rev'
    <3>1. CASE j = k BY <1>2, <2>1, <2>3, <3>1
    <3>2. CASE j # k
      <4>1. store'[j] = store[j] BY <1>2, <3>2
      <4> QED BY <2>2, <2>3, <3>2, <4>1
    <3> QED BY <3>1, <3>2
  <2> QED BY <2>3
<1>8. ASSUME backend # "zookeeper", NEW j \in Key, NEW x \in Known(j)', NEW y \in Known(j)'
      PROVE /\ x.version <= rev'
            /\ x.version = y.version => x = y
            /\ store'[j] # None => x.version <= store'[j].version
  <2>1. (x \in Known(j) \/ (j = k /\ x = e)) /\ (y \in Known(j) \/ (j = k /\ y = e))
    BY <1>4, <1>8
  <2>2. x \in Known(j) => x.version <= rev BY <1>8 DEF VersionInv
  <2>3. y \in Known(j) => y.version <= rev BY <1>8 DEF VersionInv
  <2>4. (x = e \/ y = e) => e.version = rev + 1
    BY <1>4, <1>5, <1>8, NoneIsNoEntry
  <2>5. x.version \in Nat /\ y.version \in Nat BY <1>4 DEF Entry
  <2>6. x.version <= rev' BY <1>1, <2>1, <2>2, <2>4, <2>5
  <2>7. x.version = y.version => x = y
    <3>1. x \in Known(j) /\ y \in Known(j) /\ x.version = y.version => x = y
      BY <1>8 DEF VersionInv
    <3> QED BY <1>1, <2>1, <2>2, <2>3, <2>4, <2>5, <3>1
  <2>8. store'[j] # None => x.version <= store'[j].version
    <3>1. CASE j = k
      <4>1. store'[j] = e BY <1>2, <3>1
      <4> QED BY <1>1, <1>5, <1>8, <2>6, <4>1
    <3>2. CASE j # k
      <4>1. store'[j] = store[j] BY <1>2, <3>2
      <4> QED BY <1>8, <2>1, <3>2, <4>1 DEF VersionInv
    <3> QED BY <3>1, <3>2
  <2> QED BY <2>6, <2>7, <2>8
<1>9. ASSUME backend = "kubernetes", NEW j \in Key, store'[j] = None PROVE Known(j)' = {}
  <2>1. j # k /\ store[j] = None BY <1>2, <1>9
  <2>2. Known(j) = {} BY <1>9, <2>1 DEF VersionInv
  <2> QED BY <1>4, <1>9, <2>1, <2>2
<1>10. UNCHANGED backend OBVIOUS
<1>11. VersionInv' BY <1>7, <1>8, <1>9, <1>10 DEF VersionInv
<1> QED BY <1>6, <1>11

----------------------------------------------------------------------------
\* A request that is sound stays so until it is answered.

\* What node n relies on while it waits stays as it is.
Stands(n) ==
    /\ seen'[n] = seen[n] /\ (ripe[n] => ripe'[n])
    /\ n \in initializing => n \in initializing'

LEMMA SoundKept ==
  ASSUME Keeps, UNCHANGED backend, NEW n \in Node, seen'[n] = seen[n], ripe[n] => ripe'[n],
         NEW op, NEW step, NEW r, NEW i, Sound(n, op, step, r, i),
         op = "take" /\ n \in initializing => n \in initializing'
  PROVE Sound(n, op, step, r, i)'
<1>1. Mine(n, r) => Mine(n, r)' BY DEF Keeps, VersionIs, Mine, Key
<1>2. LeaderPut(n, op, r) => LeaderPut(n, op, r)'
  BY <1>1 DEF LeaderPut
<1>3. InitializePut(n, r) => InitializePut(n, r)'
  BY DEF Keeps, VersionIs, InitializePut, Key
<1>4. CancelPut(n, r) => CancelPut(n, r)'
  BY DEF Keeps, VersionIs, CancelPut, Key
<1> QED BY <1>1, <1>2, <1>3, <1>4 DEF Sound, AsksForKey

LEMMA WaitsKept ==
  ASSUME Keeps, UNCHANGED backend, NEW n \in Node, Waits(n), call'[n] = call[n],
         ~Free(n) => Stands(n),
         ~Free(n) /\ call[n].op = "cancel" => (n \in initializing' => n \in initializing)
  PROVE Waits(n)'
<1>1. ASSUME ~Free(n) PROVE Sound(n, call[n].op, call[n].step, call[n].req, call[n].index)'
  <2>1. PICK op, step, r, i : op = call[n].op /\ step = call[n].step /\ r = call[n].req /\ i = call[n].index
    OBVIOUS
  <2>2. Sound(n, op, step, r, i) BY <1>1, <2>1 DEF Waits
  <2>3. Sound(n, op, step, r, i)' BY <1>1, <2>2, SoundKept DEF Stands
  <2> QED BY <2>1, <2>3
<1>2. ASSUME RemovesOld(n), VersionIs("leader", call[n].index, n)
      PROVE VersionIs("leader", call[n].index, n)'
  BY <1>2 DEF Keeps, VersionIs, RemovesOld, Key
<1> QED BY <1>1, <1>2 DEF Waits, RemovesOld, Free

----------------------------------------------------------------------------
\* What a request does.

Step == {"first", "read", "grant", "then"}

\* The request r of step of op is made, and answered or not.
LEMMA ServeDoes ==
  ASSUME TypeOK, VersionInv, NEW n \in Node, NEW r \in Request, r.kind = "grant" => r.value = n,
         UNCHANGED backend, Serve(r)
  PROVE /\ IF Writes(r) /\ Answer(r) = "ok"
           THEN Changes(r.key, After(r)) ELSE UNCHANGED <<store, rev, stream, ready>>
        /\ granted' \in [Node -> 0..MaxGrants] /\ alive' \subseteq Session
<1>1. CASE Writes(r) /\ Answer(r) = "ok"
  <2>1. r.kind # "grant" BY <1>1 DEF Writes
  <2> QED BY <1>1, <2>1 DEF Serve, Changes, TypeOK
<1>2. CASE r.kind = "grant"
  <2>1. ~Writes(r) BY <1>2 DEF Writes
  <2>2. NewSessionOf(n) /\ UNCHANGED <<store, rev, stream, ready>>
    BY <1>2, <2>1 DEF Serve
  <2>3. granted[n] + 1 \in 0..MaxGrants
    BY <2>2, StoreConstants DEF NewSessionOf, TypeOK
  <2> QED BY <2>1, <2>2, <2>3 DEF NewSessionOf, TypeOK, Session
<1>3. CASE ~(Writes(r) /\ Answer(r) = "ok") /\ r.kind # "grant"
  BY <1>3 DEF Serve, data, TypeOK
<1> QED BY <1>1, <1>2, <1>3 DEF Writes

LEMMA AfterIs ==
  ASSUME TypeOK, VersionInv, NEW r \in Request, rev < MaxRev
  PROVE /\ After(r) \in Stored
        /\ After(r) # None <=> r.kind = "put"
        /\ r.kind = "put" => /\ After(r).value = r.value
                             /\ After(r).version = NextVersion(r.key)
                             /\ After(r).session = r.session
<1>1. r.key \in Key /\ r.value \in Node \cup {None} /\ r.session \in Session \cup {None}
  BY DEF Request
<1>2. NextVersion(r.key) \in 0..MaxRev
  <2>1. store[r.key] # None => store[r.key].version <= rev /\ store[r.key].version \in Nat
    BY <1>1 DEF VersionInv, TypeOK, Stored, Entry
  <2> QED BY <2>1, StoreConstants DEF NextVersion, TypeOK
<1>3. r.kind = "put" => After(r) \in Entry BY <1>1, <1>2 DEF After, Entry
<1> QED BY <1>3, NoneIsNoEntry DEF After, Stored

LEMMA SendDoes ==
  ASSUME TypeOK, VersionInv, NEW n \in Node, NEW op \in Op, NEW step \in Step,
         NEW r \in Request, r.kind = "grant" => r.value = n,
         NEW i \in (0..MaxRev) \cup {None}, UNCHANGED backend, Send(n, op, step, r, i)
  PROVE /\ \/ Changes(r.key, After(r)) /\ Writes(r) /\ Holds(r)
           \/ UNCHANGED <<store, rev, stream, ready>> /\ ~(call'[n].ans = "ok" /\ Writes(r))
        /\ granted' \in [Node -> 0..MaxGrants] /\ alive' \subseteq Session
        /\ faults' \in 0..MaxFaults
        /\ call' \in [Node -> Call] /\ \A m \in Node \ {n} : call'[m] = call[m]
        /\ call'[n].op = op /\ call'[n].step = step /\ call'[n].req = r /\ call'[n].index = i
        /\ call'[n].ans \in {"ok", "refused", "nokey", "nosession", "lost"}
        /\ call'[n].ans = "ok" => Holds(r) /\ call'[n].at = rev'
        /\ call'[n].ans # "lost" => call'[n].hit = store[r.key]
        /\ call'[n].at <= rev'
<1>1. PICK reached \in BOOLEAN, answered \in BOOLEAN :
        /\ answered => reached
        /\ IF answered THEN UNCHANGED faults ELSE Fault
        /\ IF reached THEN Serve(r) ELSE UNCHANGED <<data, stream, ready>>
        /\ call' = [call EXCEPT ![n] =
              [op |-> op, step |-> step, req |-> r, index |-> i,
               ans |-> IF answered THEN Answer(r) ELSE "lost",
               hit |-> IF reached THEN store[r.key] ELSE call[n].hit,
               at |-> IF answered THEN rev' ELSE 0]]
  BY DEF Send
<1>2. /\ IF reached /\ Writes(r) /\ Answer(r) = "ok"
         THEN Changes(r.key, After(r)) ELSE UNCHANGED <<store, rev, stream, ready>>
      /\ granted' \in [Node -> 0..MaxGrants] /\ alive' \subseteq Session
  <2>1. CASE reached BY <1>1, <2>1, ServeDoes
  <2>2. CASE ~reached BY <1>1, <2>2 DEF data, TypeOK
  <2> QED BY <2>1, <2>2
<1>3. faults' \in 0..MaxFaults BY <1>1, StoreConstants DEF Fault, TypeOK
<1>4. rev' \in 0..MaxRev BY <1>2, StoreConstants DEF Changes, TypeOK
<1>5. Answer(r) \in {"ok", "refused", "nokey", "nosession"} /\ (Answer(r) = "ok" => Holds(r))
  BY DEF Answer
<1>6. r.key \in Key BY DEF Request
<1>7. store[r.key] \in Stored /\ call[n] \in Call BY <1>6 DEF TypeOK
<1> DEFINE c == [op |-> op, step |-> step, req |-> r, index |-> i,
                 ans |-> IF answered THEN Answer(r) ELSE "lost",
                 hit |-> IF reached THEN store[r.key] ELSE call[n].hit,
                 at |-> IF answered THEN rev' ELSE 0]
<1>8. c \in Call BY <1>4, <1>5, <1>7, StoreConstants DEF Call, Step
<1>9. call' = [call EXCEPT ![n] = c] BY <1>1
<1>10. call' \in [Node -> Call] /\ call'[n] = c /\ \A m \in Node \ {n} : call'[m] = call[m]
  BY <1>8, <1>9 DEF TypeOK
<1>11. c.at <= rev' BY <1>4
<1>12. c.ans = "ok" => answered /\ reached /\ Answer(r) = "ok" BY <1>1, <1>5
<1>13. c.ans # "lost" => reached BY <1>1
<1>14. \/ Changes(r.key, After(r)) /\ Writes(r) /\ Holds(r)
       \/ UNCHANGED <<store, rev, stream, ready>> /\ ~(call'[n].ans = "ok" /\ Writes(r))
  BY <1>2, <1>5, <1>10, <1>12
<1> QED BY <1>2, <1>3, <1>5, <1>10, <1>11, <1>12, <1>13, <1>14

----------------------------------------------------------------------------
\* The watch caches.

LEMMA CacheSetIs ==
  ASSUME NEW c \in [Key -> Stored], NEW k \in Key, NEW e \in Entry
  PROVE /\ CacheSet(c, k, e) \in [Key -> Stored]
        /\ \A j \in Key \ {k} : CacheSet(c, k, e)[j] = c[j]
        /\ CacheSet(c, k, e)[k] =
              IF c[k] = None \/ c[k].version < e.version THEN e ELSE c[k]
        /\ CacheSet(c, k, e)[k] # None
<1>1. e # None /\ e \in Stored BY NoneIsNoEntry DEF Stored
<1> QED BY <1>1 DEF CacheSet

LEMMA CacheDeleteIs ==
  ASSUME NEW c \in [Key -> Stored], NEW k \in Key, NEW v
  PROVE /\ CacheDelete(c, k, v) \in [Key -> Stored]
        /\ \A j \in Key \ {k} : CacheDelete(c, k, v)[j] = c[j]
        /\ CacheDelete(c, k, v)[k] =
              IF c[k] # None /\ c[k].version < v THEN None ELSE c[k]
BY DEF CacheDelete, Stored

\* What is known brings a cache no further from the store.
LEMMA CacheSetShows ==
  ASSUME TypeOK, VersionInv, NEW n \in Node, NEW k \in Key, NEW e \in Known(k),
         backend = "kubernetes" \/ (backend = "etcd3" /\ e.value = n),
         Shows(n, k, cache[n][k])
  PROVE Shows(n, k, CacheSet(cache[n], k, e)[k])
<1>1. cache[n] \in [Key -> Stored] /\ e \in Entry BY DEF TypeOK, Known
<1>2. CacheSet(cache[n], k, e)[k] =
         IF cache[n][k] = None \/ cache[n][k].version < e.version THEN e ELSE cache[n][k]
  BY <1>1, CacheSetIs
<1>3. e # None /\ e.version \in Nat BY <1>1, NoneIsNoEntry DEF Entry
<1>4. CASE store[k] = None
  <2>1. backend # "kubernetes" BY <1>4 DEF VersionInv
  <2> QED BY <1>2, <1>3, <1>4, <2>1 DEF Shows
<1>5. CASE store[k] # None
  <2>1. cache[n][k] = store[k] BY <1>5 DEF Shows
  <2>2. store[k] \in Known(k) BY <1>5 DEF Known, TypeOK, Stored
  <2>3. e.version <= store[k].version BY <1>5 DEF VersionInv
  <2>4. store[k].version \in Nat BY <2>2 DEF Known, Entry
  <2> QED BY <1>2, <1>3, <1>5, <2>1, <2>3, <2>4 DEF Shows
<1> QED BY <1>4, <1>5

----------------------------------------------------------------------------
\* A request is made.

\* Some request r of step of op, with all that goes with it.
Asks(n, op, step, r, i) ==
    /\ Send(n, op, step, r, i) /\ Sound(n, op, step, r, i)
    /\ backend = "consul" /\ op = "load" => step # "read"
    /\ backend = "etcd3" /\ op = "update" /\ r.kind = "put" => call[n].op = "update"
    /\ again' \in BOOLEAN /\ (again => again')
    /\ IF op = "cancel"
       THEN /\ initializing' = initializing \ {n}
            /\ backend = "kubernetes" \/ again' \/ OwnedBy(n, store["initialize"])
       ELSE UNCHANGED initializing
    /\ UNCHANGED <<setting, view, kubeVars, zooVars>>
    /\ \/ UNCHANGED session
       \/ \E s : OwnSession(n, s) /\ session' = [session EXCEPT ![n] = s]
    /\ \/ UNCHANGED cache
       \/ /\ backend = "kubernetes"
          /\ \E e \in Known("leader") :
                cache' = [cache EXCEPT ![n] = CacheSet(cache[n], "leader", e)]

LEMMA AsksDoes ==
  ASSUME Inv, NEW n \in Node, NEW op \in Op, NEW step \in Step, NEW r \in Request,
         NEW i \in (0..MaxRev) \cup {None}, Asks(n, op, step, r, i)
  PROVE /\ TypeOK' /\ Elsewhere(n) /\ UNCHANGED <<backend, view, seen, ripe>>
        /\ OwnSession(n, session'[n])
        /\ \A k \in Key, m \in Node :
              \/ cache'[m][k] = cache[m][k]
              \/ /\ backend = "kubernetes" /\ k = "leader" /\ m = n
                 /\ \E e \in Known("leader") : cache'[m][k] = CacheSet(cache[m], k, e)[k]
                 /\ cache'[m][k] # None /\ cache'[m][k] \in Known("leader")
<1> USE DEF Inv
<1>1. UNCHANGED <<backend, concern, view, seen, ripe, fetch, event>>
  BY DEF Asks, setting, kubeVars, zooVars
<1>2. /\ \/ Changes(r.key, After(r))
         \/ UNCHANGED <<store, rev, stream, ready>>
      /\ granted' \in [Node -> 0..MaxGrants] /\ alive' \subseteq Session
      /\ faults' \in 0..MaxFaults
      /\ call' \in [Node -> Call] /\ \A m \in Node \ {n} : call'[m] = call[m]
  <2>1. Send(n, op, step, r, i) /\ (r.kind = "grant" => r.value = n) BY DEF Asks, Sound
  <2> QED BY <1>1, <2>1, SendDoes
<1>3. /\ store' \in [Key -> Stored] /\ rev' \in 0..MaxRev
      /\ stream' \in [Node -> Seq(Change)] /\ ready' \in [Node -> BOOLEAN]
  <2>1. CASE Changes(r.key, After(r))
    <3>1. rev < MaxRev /\ r.key \in Key BY <2>1 DEF Changes, Request
    <3> QED BY <2>1, <3>1, AfterIs, ChangesDoes
  <2>2. CASE UNCHANGED <<store, rev, stream, ready>> BY <2>2 DEF TypeOK
  <2> QED BY <1>2, <2>1, <2>2
<1>4. /\ session' \in [Node -> Session \cup {None}] /\ OwnSession(n, session'[n])
      /\ \A m \in Node \ {n} : session'[m] = session[m]
  <2>1. CASE UNCHANGED session BY <2>1 DEF TypeOK, SessionInv
  <2>2. ASSUME NEW s, OwnSession(n, s), session' = [session EXCEPT ![n] = s]
        PROVE  /\ session' \in [Node -> Session \cup {None}] /\ OwnSession(n, session'[n])
               /\ \A m \in Node \ {n} : session'[m] = session[m]
    <3>1. s \in Session \cup {None} BY <2>2 DEF OwnSession, Session
    <3>2. session'[n] = s BY <2>2 DEF TypeOK
    <3> QED BY <2>2, <3>1, <3>2 DEF TypeOK
  <2> QED BY <2>1, <2>2 DEF Asks
<1>5. /\ cache' \in [Node -> [Key -> Stored]]
      /\ \A m \in Node \ {n} : cache'[m] = cache[m]
      /\ \A k \in Key, m \in Node :
            \/ cache'[m][k] = cache[m][k]
            \/ /\ backend = "kubernetes" /\ k = "leader" /\ m = n
               /\ \E e \in Known("leader") : cache'[m][k] = CacheSet(cache[m], k, e)[k]
               /\ cache'[m][k] # None /\ cache'[m][k] \in Known("leader")
  <2>1. CASE UNCHANGED cache BY <2>1 DEF TypeOK
  <2>2. ASSUME backend = "kubernetes", NEW e \in Known("leader"),
               cache' = [cache EXCEPT ![n] = CacheSet(cache[n], "leader", e)]
        PROVE <1>5!:
    <3>1. e \in Entry /\ cache[n] \in [Key -> Stored] /\ "leader" \in Key
      BY DEF Known, TypeOK, Key
    <3> DEFINE c == CacheSet(cache[n], "leader", e)
    <3>2. /\ c \in [Key -> Stored] /\ \A j \in Key \ {"leader"} : c[j] = cache[n][j]
          /\ c["leader"] # None
          /\ c["leader"] = e \/ c["leader"] = cache[n]["leader"]
      BY <3>1, CacheSetIs
    <3>3. c["leader"] \in Known("leader")
      <4>1. CASE c["leader"] = e BY <4>1
      <4>2. CASE c["leader"] = cache[n]["leader"]
        <5>1. c["leader"] \in Entry BY <3>1, <3>2 DEF Stored
        <5> QED BY <4>2, <5>1 DEF Known, Reads
      <4> QED BY <3>2, <4>1, <4>2
    <3>4. cache'[n] = c /\ \A m \in Node \ {n} : cache'[m] = cache[m] BY <2>2 DEF TypeOK
    <3>5. cache' \in [Node -> [Key -> Stored]] BY <2>2, <3>2 DEF TypeOK
    <3> HIDE DEF c
    <3>6. ASSUME NEW k \in Key, NEW m \in Node
          PROVE  \/ cache'[m][k] = cache[m][k]
                 \/ /\ backend = "kubernetes" /\ k = "leader" /\ m = n
                    /\ cache'[m][k] = c[k]
                    /\ cache'[m][k] # None /\ cache'[m][k] \in Known("leader")
      BY <2>2, <3>2, <3>3, <3>4
    <3> QED BY <3>4, <3>5, <3>6 DEF c
  <2> QED BY <2>1, <2>2 DEF Asks
<1>6. initializing' \subseteq Node /\ again' \in BOOLEAN BY DEF Asks, TypeOK
<1>7. TypeOK' BY <1>1, <1>2, <1>3, <1>4, <1>5, <1>6 DEF TypeOK
<1>8. Elsewhere(n) BY <1>1, <1>2, <1>4, <1>5 DEF Elsewhere
<1> QED BY <1>1, <1>4, <1>5, <1>7, <1>8

LEMMA AsksLearns ==
  ASSUME Inv, NEW n \in Node, NEW op \in Op, NEW step \in Step, NEW r \in Request,
         NEW i \in (0..MaxRev) \cup {None}, Asks(n, op, step, r, i), backend # "zookeeper",
         NEW e, Wrote(n)' => e = After(r)
  PROVE Learns(n, r.key, e)
<1> USE DEF Inv
<1> SUFFICES ASSUME NEW j \in Key, NEW x \in Entry, (Reads(n, j, x) \/ IsTold(n, j, x))'
             PROVE x \in Known(j) \/ (j = r.key /\ x = e)
  BY DEF Learns
<1>1. Send(n, op, step, r, i) /\ (r.kind = "grant" => r.value = n) /\ UNCHANGED backend
  BY DEF Asks, Sound, setting
<1>2. CASE Reads(n, j, x)'
  <2>1. \/ Reads(n, j, x) \/ x = cache'[n][j] BY <1>2, AsksDoes DEF Reads
  <2>2. CASE Reads(n, j, x) BY <2>2 DEF Known
  <2>3. CASE x = cache'[n][j]
    <3>1. x = cache[n][j] \/ x \in Known(j) BY <2>3, AsksDoes
    <3> QED BY <3>1 DEF Known, Reads
  <2> QED BY <2>1, <2>2, <2>3
<1>3. CASE IsTold(n, j, x)'
  <2>1. call'[n].req = r /\ (call'[n].ans # "lost" => call'[n].hit = store[r.key])
    BY <1>1, SendDoes
  <2>2. CASE Answered(n)' /\ call'[n].req.key = j /\ x = call'[n].hit
    <3>1. call'[n].ans # "lost" BY <2>2 DEF Answered
    <3> QED BY <2>1, <2>2, <3>1 DEF Known
  <2>3. CASE Wrote(n)' /\ call'[n].req.key = j /\ x = Written(n)'
    <3>1. call'[n].ans = "ok" /\ r.kind = "put" BY <2>1, <2>3 DEF Wrote
    <3>2. call'[n].at = rev' /\ Changes(r.key, After(r))
      <4>1. Writes(r) BY <3>1 DEF Writes
      <4> QED BY <1>1, <3>1, <4>1, SendDoes
    <3>3. After(r) = [value |-> r.value, version |-> rev + 1, session |-> r.session]
      BY <3>1 DEF After, NextVersion
    <3>4. x = After(r) BY <2>1, <2>3, <3>2, <3>3 DEF Written, Changes
    <3> QED BY <2>1, <2>3, <3>4
  <2> QED BY <1>3, <2>2, <2>3 DEF IsTold
<1> QED BY <1>2, <1>3

LEMMA AsksVersion ==
  ASSUME Inv, NEW n \in Node, NEW op \in Op, NEW step \in Step, NEW r \in Request,
         NEW i \in (0..MaxRev) \cup {None}, Asks(n, op, step, r, i)
  PROVE /\ VersionInv' /\ Keeps
        /\ backend # "zookeeper" => \A j \in Key : \A x \in Known(j)' :
              x \in Known(j) \/ (j = r.key /\ x = store'[j])
<1> USE DEF Inv
<1>1. Send(n, op, step, r, i) /\ (r.kind = "grant" => r.value = n) /\ UNCHANGED backend
  BY DEF Asks, Sound, setting
<1>2. Elsewhere(n) /\ TypeOK' BY AsksDoes
<1>3. ASSUME rev <= rev' PROVE \A m \in Node : call'[m].at <= rev'
  <2>1. call'[n].at <= rev' BY <1>1, SendDoes
  <2>2. ASSUME NEW m \in Node \ {n} PROVE call'[m].at <= rev'
    <3>1. call'[m] = call[m] /\ call[m].at <= rev BY <1>2 DEF Elsewhere, VersionInv
    <3>2. call[m].at \in Int /\ rev \in Int /\ rev' \in Int BY <1>2 DEF TypeOK, Call
    <3> QED BY <1>3, <3>1, <3>2
  <2> QED BY <2>1, <2>2
<1>4. CASE Changes(r.key, After(r)) /\ Writes(r) /\ Holds(r)
  <2>1. PICK e : e = After(r) OBVIOUS
  <2>2. rev < MaxRev /\ rev' = rev + 1 /\ rev \in Nat /\ r.key \in Key
    BY <1>4 DEF Changes, Request, TypeOK
  <2>3. e \in Stored /\ (e # None <=> r.kind = "put") /\ (e # None => e.version = NextVersion(r.key))
    BY <2>1, <2>2, AfterIs
  <2>4. backend = "kubernetes" => e # None
    BY <1>4, <2>3 DEF Asks, Sound, Writes
  <2>5. Changes(r.key, e) BY <1>4, <2>1
  <2>6. backend # "zookeeper" =>
          \A j \in Key, x \in Entry : x \in Known(j)' => x \in Known(j) \/ (j = r.key /\ x = e)
    BY <1>1, <1>2, <2>1, <2>2, <2>3, <2>5, AsksLearns, KnownByChange
  <2>7. \A m \in Node : call'[m].at <= rev' BY <1>3, <2>2
  <2>8. VersionInv' /\ Keeps BY <1>1, <2>2, <2>3, <2>4, <2>5, <2>6, <2>7, VersionByChange
  <2>9. store'[r.key] = e BY <2>2, <2>3, <2>5, ChangesDoes
  <2> QED BY <2>6, <2>8, <2>9 DEF Known
<1>5. CASE UNCHANGED <<store, rev, stream, ready>> /\ ~(call'[n].ans = "ok" /\ Writes(r))
  <2>1. r.key \in Key BY DEF Request
  <2>2. backend # "zookeeper" => Learns(n, r.key, None)
    <3>1. ~Wrote(n)'
      <4>1. call'[n].req = r BY <1>1, SendDoes
      <4> QED BY <1>5, <4>1 DEF Wrote, Writes
    <3> QED BY <3>1, AsksLearns
  <2>3. backend # "zookeeper" => Learns(n, "leader", None)
    BY <2>2, NoneIsNoEntry DEF Learns
  <2>4. \A m \in Node, j \in Key, x \in Entry : Hears(m, j, x)' => Hears(m, j, x)
    BY <1>5 DEF Hears
  <2>5. backend # "zookeeper" => \A j \in Key : Known(j)' \subseteq Known(j)
    BY <1>1, <1>2, <1>5, <2>3, <2>4, KnownByRest
  <2>6. \A m \in Node : call'[m].at <= rev' /\ call'[m].at <= rev
    BY <1>3, <1>5 DEF TypeOK
  <2>7. VersionInv' /\ Keeps BY <1>1, <1>5, <2>5, <2>6, VersionByRest
  <2> QED BY <2>5, <2>7
<1> QED BY <1>1, <1>4, <1>5, SendDoes

LEMMA AsksWaits ==
  ASSUME Inv, NEW n \in Node, NEW op \in Op, NEW step \in Step, NEW r \in Request,
         NEW i \in (0..MaxRev) \cup {None}, Asks(n, op, step, r, i)
  PROVE CallInv' /\ ResultInv'
<1> USE DEF Inv
<1>1. Send(n, op, step, r, i) /\ (r.kind = "grant" => r.value = n) /\ UNCHANGED backend
  BY DEF Asks, Sound, setting
<1>2. /\ call'[n].op = op /\ call'[n].step = step /\ call'[n].req = r /\ call'[n].index = i
      /\ call'[n].ans \in {"ok", "refused", "nokey", "nosession", "lost"}
      /\ call'[n].ans = "ok" => Holds(r)
      /\ call'[n].ans # "lost" => call'[n].hit = store[r.key]
  BY <1>1, SendDoes
<1>3. Keeps /\ Elsewhere(n) /\ UNCHANGED <<seen, ripe>> BY AsksVersion, AsksDoes
<1>4. Waits(n)'
  <2>1. Sound(n, op, step, r, i)'
    <3>1. op = "take" /\ n \in initializing => n \in initializing' BY DEF Asks
    <3>2. Sound(n, op, step, r, i) BY DEF Asks
    <3> QED BY <1>1, <1>3, <3>1, <3>2, SoundKept
  <2>2. op = "cancel" => n \notin initializing' BY DEF Asks
  <2>3. ~RemovesOld(n)' BY <1>1, <1>2 DEF RemovesOld, Asks
  <2>4. call'[n].ans = "ok" /\ Writes(r) => Met(r, call'[n].hit) BY <1>2 DEF Holds, Met, OwnedBy
  <2>5. ~Free(n)' BY <1>2 DEF Free
  <2> QED BY <1>2, <2>1, <2>2, <2>3, <2>4, <2>5 DEF Waits
<1>5. ASSUME NEW m \in Node \ {n} PROVE Waits(m)'
  <2>1. Waits(m) /\ call'[m] = call[m] BY <1>3 DEF CallInv, Elsewhere
  <2>2. m \in initializing' <=> m \in initializing BY DEF Asks
  <2>3. Stands(m) BY <1>3, <2>2 DEF Stands
  <2> QED BY <1>1, <1>3, <2>1, <2>2, <2>3, WaitsKept
<1>6. ASSUME NEW m \in Node PROVE Truly(m)'
  <2>1. CASE m = n BY <1>2, <2>1 DEF Truly, Returned, Free
  <2>2. CASE m # n
    <3>1. call'[m] = call[m] /\ Truly(m) BY <1>3, <2>2 DEF Elsewhere, ResultInv
    <3> QED BY <1>1, <3>1 DEF Truly, Returned, Free, AsksForKey
  <2> QED BY <2>1, <2>2
<1> QED BY <1>4, <1>5, <1>6 DEF CallInv, ResultInv

\* The initialize key changes only when nobody holds it, or is given up by its holder.
LEMMA InitializeKept ==
  ASSUME Inv, NEW n \in Node, NEW op \in Op, NEW step \in Step, NEW r \in Request,
         NEW i \in (0..MaxRev) \cup {None}, Asks(n, op, step, r, i),
         backend = "kubernetes" \/ ~again', NEW m \in Node,
         OwnedBy(m, store["initialize"]), m # n \/ op # "cancel"
  PROVE store'["initialize"] = store["initialize"]
<1> USE DEF Inv
<1>1. Send(n, op, step, r, i) /\ (r.kind = "grant" => r.value = n) /\ UNCHANGED backend
  BY DEF Asks, Sound, setting
<1> DEFINE s == store["initialize"]
<1>2. s \in Known("initialize") /\ s # None /\ s.value = m
  <2>1. s \in Stored BY DEF TypeOK, Key
  <2> QED BY <2>1 DEF OwnedBy, Known, Stored
<1>3. m # None BY StoreConstants
<1>4. ASSUME Changes(r.key, After(r)), Writes(r), Holds(r), r.key = "initialize" PROVE FALSE
  <2>1. CASE op = "initialize" /\ InitializePut(n, r)
    BY <1>2, <1>3, <1>4, <2>1 DEF InitializePut, VersionIs, Holds
  <2>2. CASE op = "cancel" /\ CancelPut(n, r)
    <3>1. CASE backend = "kubernetes"
      <4>1. s.value = n BY <1>2, <1>4, <2>2, <3>1 DEF CancelPut, VersionIs, Holds
      <4> QED BY <1>2, <2>2, <4>1
    <3>2. CASE backend # "kubernetes"
      <4>1. OwnedBy(n, s) BY <2>2, <3>2 DEF Asks
      <4> QED BY <1>2, <2>2, <4>1 DEF OwnedBy
    <3> QED BY <3>1, <3>2
  <2> QED BY <1>4, <2>1, <2>2 DEF Asks, Sound
<1>5. CASE Changes(r.key, After(r)) /\ Writes(r) /\ Holds(r)
  <2>1. r.key # "initialize" BY <1>4, <1>5
  <2>2. r.key \in Key /\ "initialize" \in Key BY DEF Request, Key
  <2> QED BY <1>5, <2>1, <2>2 DEF Changes, TypeOK
<1>6. CASE UNCHANGED store BY <1>6
<1> QED BY <1>1, <1>5, <1>6, SendDoes

\* A successful initialize() has written the name of the node.
LEMMA InitializeDone ==
  ASSUME Inv, NEW n \in Node, NEW op \in Op, NEW step \in Step, NEW r \in Request,
         NEW i \in (0..MaxRev) \cup {None}, Asks(n, op, step, r, i),
         call'[n].op = "initialize", call'[n].ans = "ok"
  PROVE /\ OwnedBy(n, store'["initialize"])
        /\ backend = "kubernetes" => store'["initialize"].version = call'[n].at
<1> USE DEF Inv
<1>1. Send(n, op, step, r, i) /\ (r.kind = "grant" => r.value = n) /\ UNCHANGED backend
  BY DEF Asks, Sound, setting
<1>2. op = "initialize" /\ call'[n].at = rev' BY <1>1, SendDoes
<1>3. r.kind = "put" /\ r.key = "initialize" BY <1>2 DEF Asks, Sound
<1>4. Writes(r) BY <1>3 DEF Writes
<1>5. r.value = n BY <1>2, <1>3, <1>4 DEF Asks, Sound, InitializePut
<1>6. Changes(r.key, After(r)) BY <1>1, <1>4, SendDoes
<1>7. store'["initialize"] = After(r) /\ rev' = rev + 1 /\ rev < MaxRev
  BY <1>3, <1>6 DEF Changes, TypeOK, Key
<1>8. /\ After(r) # None /\ After(r).value = n
      /\ backend = "kubernetes" => After(r).version = rev + 1
  BY <1>3, <1>5, <1>7, AfterIs DEF NextVersion
<1> QED BY <1>2, <1>7, <1>8 DEF OwnedBy

LEMMA AsksInit ==
  ASSUME Inv, NEW n \in Node, NEW op \in Op, NEW step \in Step, NEW r \in Request,
         NEW i \in (0..MaxRev) \cup {None}, Asks(n, op, step, r, i)
  PROVE InitInv'
<1> USE DEF Inv
<1>1. Send(n, op, step, r, i) /\ (r.kind = "grant" => r.value = n) /\ UNCHANGED backend
  BY DEF Asks, Sound, setting
<1>2. /\ call'[n].op = op /\ call'[n].step = step
      /\ \A m \in Node \ {n} : call'[m] = call[m]
  BY <1>1, SendDoes
<1> SUFFICES ASSUME (backend = "kubernetes" \/ ~again)', NEW m \in Node, Initializes(m)'
             PROVE OwnedBy(m, store'["initialize"])
  BY DEF InitInv, OwnedBy
<1>3. backend = "kubernetes" \/ (~again /\ ~again') BY <1>1 DEF Asks
<1>4. \A x \in Node : Initializes(x) => OwnedBy(x, store["initialize"])
  BY <1>3 DEF InitInv
<1>5. CASE m # n
  <2>1. Initializes(m) BY <1>1, <1>2, <1>5 DEF Initializes, Free, Asks
  <2> QED BY <1>3, <1>4, <1>5, <2>1, InitializeKept
<1>6. CASE m = n /\ n \in initializing'
  <2>1. op # "cancel" /\ Initializes(n) BY <1>6 DEF Asks, Initializes
  <2> QED BY <1>3, <1>4, <1>6, <2>1, InitializeKept
<1>7. CASE m = n /\ call'[n].op = "initialize" /\ call'[n].ans = "ok"
  BY <1>7, InitializeDone
<1>8. CASE m = n /\ backend = "zookeeper" /\ op = "cancel" /\ step = "first"
  <2>1. r.kind = "read" BY <1>8 DEF Asks, Sound
  <2>2. UNCHANGED store BY <1>1, <2>1, SendDoes DEF Writes
  <2>3. OwnedBy(n, store["initialize"]) BY <1>3, <1>8 DEF Asks
  <2> QED BY <1>8, <2>2, <2>3
<1> QED BY <1>1, <1>2, <1>5, <1>6, <1>7, <1>8 DEF Initializes

LEMMA AsksSession ==
  ASSUME Inv, NEW n \in Node, NEW op \in Op, NEW step \in Step, NEW r \in Request,
         NEW i \in (0..MaxRev) \cup {None}, Asks(n, op, step, r, i)
  PROVE SessionInv'
<1> USE DEF Inv
<1>1. Send(n, op, step, r, i) /\ (r.kind = "grant" => r.value = n) /\ UNCHANGED backend
  BY DEF Asks, Sound, setting
<1>2. ASSUME NEW m \in Node PROVE OwnSession(m, session'[m])
  <2>1. CASE m = n BY <2>1, AsksDoes
  <2>2. CASE m # n
    <3>1. session'[m] = session[m] BY <2>2, AsksDoes DEF Elsewhere
    <3> QED BY <3>1 DEF SessionInv
  <2> QED BY <2>1, <2>2
<1>3. ASSUME backend = "consul", store'["leader"] # None
      PROVE /\ store'["leader"].session # None
            /\ OwnSession(store'["leader"].value, store'["leader"].session)
  <2>1. CASE store'["leader"] = store["leader"] BY <1>3, <2>1 DEF SessionInv
  <2>2. CASE store'["leader"] # store["leader"]
    <3>1. Changes(r.key, After(r)) /\ Writes(r) BY <1>1, <2>2, SendDoes
    <3>2. r.key = "leader" /\ store'["leader"] = After(r)
      BY <2>2, <3>1 DEF Changes, TypeOK, Key
    <3>3. r.kind = "put" BY <1>3, <3>2 DEF After
    <3>4. r.value = n /\ n # None BY <1>3, <3>3, StoreConstants DEF Asks, Sound
    <3>5. r.session # None /\ OwnSession(n, r.session)
      BY <1>3, <3>2, <3>3, <3>4 DEF Asks, Sound, LeaderPut
    <3> QED BY <3>2, <3>3, <3>4, <3>5 DEF After
  <2> QED BY <2>1, <2>2
<1> QED BY <1>1, <1>2, <1>3 DEF SessionInv, OwnSession

LEMMA AsksKube ==
  ASSUME Inv, NEW n \in Node, NEW op \in Op, NEW step \in Step, NEW r \in Request,
         NEW i \in (0..MaxRev) \cup {None}, Asks(n, op, step, r, i)
  PROVE KubeInv'
<1> USE DEF Inv
<1>1. Send(n, op, step, r, i) /\ (r.kind = "grant" => r.value = n) /\ UNCHANGED backend
  BY DEF Asks, Sound, setting
<1> SUFFICES ASSUME backend = "kubernetes", NEW m \in Node PROVE Kubes(m)'
  BY <1>1 DEF KubeInv
<1>2. Kubes(m) /\ (\A x \in Node : Initializes(x) => OwnedBy(x, store["initialize"]))
  BY DEF KubeInv, InitInv
<1>3. /\ UNCHANGED <<view, seen, ripe>>
      /\ cache'[m]["initialize"] = cache[m]["initialize"]
      /\ \A k \in Key : cache[m][k] # None => cache'[m][k] # None
  BY AsksDoes DEF Key
<1>4. ASSUME m \in initializing' PROVE cache'[m]["initialize"] = store'["initialize"]
  <2>1. (m # n \/ op # "cancel") /\ Initializes(m) BY <1>4 DEF Asks, Initializes
  <2>2. store'["initialize"] = store["initialize"] BY <1>2, <2>1, InitializeKept
  <2> QED BY <1>2, <1>3, <2>1, <2>2, <1>4 DEF Kubes, Asks
<1>5. ASSUME call'[m].op = "initialize", call'[m].ans = "ok"
      PROVE store'["initialize"] # None /\ store'["initialize"].version = call'[m].at
  <2>1. CASE m = n BY <1>5, <2>1, InitializeDone DEF OwnedBy
  <2>2. CASE m # n
    <3>1. call'[m] = call[m] BY <2>2, AsksDoes DEF Elsewhere
    <3>2. Initializes(m) BY <1>5, <3>1 DEF Initializes
    <3>3. store'["initialize"] = store["initialize"] BY <1>2, <2>2, <3>2, InitializeKept
    <3> QED BY <1>2, <1>5, <3>1, <3>3 DEF Kubes
  <2> QED BY <2>1, <2>2
<1>6. ASSUME NEW j \in DOMAIN stream'[m] PROVE stream'[m][j].entry # None
  <2>1. CASE UNCHANGED stream BY <1>2, <1>6, <2>1 DEF Kubes
  <2>2. CASE Changes(r.key, After(r)) /\ Writes(r)
    <3>1. r.key \in Key /\ rev < MaxRev BY <2>2 DEF Request, Changes
    <3>2. r.kind = "put" BY <2>2 DEF Asks, Sound, Writes
    <3>3. After(r) \in Stored /\ After(r) # None BY <3>1, <3>2, AfterIs
    <3>4. PICK e \in Stored : e = After(r) BY <3>3
    <3>5. Changes(r.key, e) BY <2>2, <3>4
    <3>6. \/ j \in DOMAIN stream[m] /\ stream'[m][j] = stream[m][j]
          \/ stream'[m][j] = [key |-> r.key, entry |-> e, version |-> rev + 1]
      BY <1>6, <3>1, <3>5, ChangeComes
    <3> QED BY <1>2, <3>3, <3>4, <3>6 DEF Kubes
  <2> QED BY <1>1, <2>1, <2>2, SendDoes
<1>7. /\ view'[m] # None => \A k \in Key : view'[m][k] # None => cache'[m][k] # None
      /\ seen'[m] # None => cache'[m]["leader"] # None
  BY <1>2, <1>3 DEF Kubes, Key
<1>8. view'[m] # None =>
         IF seen'[m] = None THEN view'[m]["leader"] = None
         ELSE \/ view'[m]["leader"] = seen'[m]
              \/ ripe'[m] /\ view'[m]["leader"] = [seen'[m] EXCEPT !.value = None]
  BY <1>2, <1>3 DEF Kubes
<1> QED BY <1>4, <1>5, <1>6, <1>7, <1>8 DEF Kubes

\* Whoever takes the leader key from another node may do so.
LEMMA AsksHandOver ==
  ASSUME Inv, NEW n \in Node, NEW op \in Op, NEW step \in Step, NEW r \in Request,
         NEW i \in (0..MaxRev) \cup {None}, Asks(n, op, step, r, i)
  PROVE HandOver
<1> USE DEF Inv
<1>1. Send(n, op, step, r, i) /\ (r.kind = "grant" => r.value = n) /\ UNCHANGED backend
  BY DEF Asks, Sound, setting
<1> SUFFICES ASSUME NEW x \in Node, NEW m \in Node, x # m, OwnedBy(x, store["leader"]),
                    OwnedBy(m, store'["leader"])
             PROVE MayTakeOver(x, m)
  BY DEF HandOver
<1> DEFINE e == store["leader"]
<1>2. x # None /\ m # None BY StoreConstants
<1>3. e # None /\ e.value = x /\ e \in Known("leader")
  <2>1. e \in Stored BY DEF TypeOK, Key
  <2> QED BY <2>1 DEF OwnedBy, Known, Stored
<1>4. Changes(r.key, After(r)) /\ Writes(r) /\ Holds(r)
  <2>1. store'["leader"] # store["leader"] BY DEF OwnedBy
  <2> QED BY <1>1, <2>1, SendDoes
<1>5. r.key = "leader" /\ OwnedBy(m, After(r))
  <2>1. r.key \in Key BY DEF Request
  <2>2. r.key # "leader" => store'["leader"] = store["leader"]
    BY <1>4, <2>1 DEF Changes, TypeOK, Key
  <2>3. r.key = "leader" BY <2>2 DEF OwnedBy
  <2> QED BY <1>4, <2>3 DEF Changes, TypeOK, Key
<1>6. r.kind = "put" /\ r.value = m BY <1>5 DEF After, OwnedBy
<1>7. LeaderPut(n, op, r) BY <1>2, <1>5, <1>6 DEF Asks, Sound
<1>8. m = n BY <1>6, <1>7 DEF LeaderPut
<1>9. r.cond # "absent" BY <1>3, <1>4, <1>5 DEF Holds
<1>10. ~Mine(n, r)
  <2>1. ASSUME r.cond = "owner", r.arg = n PROVE FALSE
    BY <1>3, <1>4, <1>5, <1>8, <2>1 DEF Holds, OwnedBy
  <2>2. ASSUME r.cond = "version", VersionIs("leader", r.arg, n) PROVE FALSE
    BY <1>3, <1>4, <1>5, <1>8, <2>2 DEF Holds, VersionIs
  <2> QED BY <2>1, <2>2 DEF Mine
<1>11. CASE backend = "consul" /\ r.cond = "acquire"
  <2>1. e.session # None /\ OwnSession(x, e.session)
    BY <1>3, <1>11 DEF SessionInv
  <2>2. e.session = r.session BY <1>3, <1>4, <1>5, <1>11, <2>1 DEF Holds
  <2>3. OwnSession(n, r.session) BY <1>7, <1>11 DEF LeaderPut
  <2> QED BY <1>8, <2>1, <2>2, <2>3 DEF OwnSession
<1>12. CASE backend \in {"etcd", "etcd3"} /\ op = "take" /\ n \in initializing
  BY <1>8, <1>12 DEF MayTakeOver
<1>13. CASE backend = "etcd3" /\ op = "update"
  <2>1. call[n].op = "update" BY <1>6, <1>13 DEF Asks
  <2> QED BY <1>8, <1>13, <2>1 DEF MayTakeOver
<1>14. CASE /\ backend = "kubernetes" /\ r.cond = "version" /\ seen[n] # None
            /\ r.arg = seen[n].version /\ (ripe[n] \/ seen[n].value = None)
  <2>1. seen[n] \in Known("leader") BY <1>14 DEF Known, Reads, TypeOK, Stored
  <2>2. e.version = seen[n].version BY <1>4, <1>5, <1>14 DEF Holds
  <2>3. e = seen[n] BY <1>3, <1>14, <2>1, <2>2 DEF VersionInv, Key
  <2> QED BY <1>2, <1>3, <1>8, <1>14, <2>3 DEF MayTakeOver
<1> QED BY <1>7, <1>9, <1>10, <1>11, <1>12, <1>13, <1>14 DEF LeaderPut

----------------------------------------------------------------------------
\* What a change of the store does to the caches that watch.

\* No new answer to a delete that the store has not followed.
NoDelete(n) ==
    \/ call'[n] = call[n]
    \/ /\ call'[n].ans = "ok" /\ call'[n].req.kind = "delete"
       => store'[call'[n].req.key] = None

LEMMA WatchingByRest ==
  ASSUME TypeOK, UNCHANGED <<backend, store, rev>>, backend \in {"etcd3", "kubernetes"},
         \A j \in Key : Known(j)' \subseteq Known(j),
         NEW n \in Node, Watching(n), stream'[n] = stream[n], ready'[n] = ready[n], NoDelete(n),
         \A j \in Key : Shows(n, j, cache[n][j]) => Shows(n, j, cache'[n][j])
  PROVE Watching(n)'
<1>1. ~ready'[n] => stream'[n] = << >> BY DEF Watching
<1>2. ASSUME NEW j \in Key
      PROVE /\ ready'[n] /\ (\A i \in DOMAIN stream'[n] : stream'[n][i].key # j) =>
                  Shows(n, j, cache[n][j])'
            /\ \A i \in DOMAIN stream'[n] : IsLast(n, j, i)' =>
                  /\ stream'[n][i].entry = store'[j]
                  /\ store'[j] = None => \A e \in Known(j)' : e.version < stream'[n][i].version
            /\ /\ call'[n].ans = "ok" /\ call'[n].req.kind = "delete"
               /\ call'[n].req.key = j /\ store'[j] # None
               => call'[n].at < store'[j].version
  <2>1. ready'[n] /\ (\A i \in DOMAIN stream'[n] : stream'[n][i].key # j) =>
                  Shows(n, j, cache[n][j])'
    BY DEF Watching, Shows
  <2>2. \A i \in DOMAIN stream'[n] : IsLast(n, j, i)' =>
                  /\ stream'[n][i].entry = store'[j]
                  /\ store'[j] = None => \A e \in Known(j)' : e.version < stream'[n][i].version
    BY DEF Watching, IsLast
  <2>3. /\ call'[n].ans = "ok" /\ call'[n].req.kind = "delete"
        /\ call'[n].req.key = j /\ store'[j] # None
        => call'[n].at < store'[j].version
    BY DEF Watching, NoDelete
  <2> QED BY <2>1, <2>2, <2>3
<1> QED BY <1>1, <1>2 DEF Watching

LEMMA WatchingByChange ==
  ASSUME TypeOK, VersionInv, UNCHANGED backend, backend \in {"etcd3", "kubernetes"},
         NEW k \in Key, NEW e \in Stored, Changes(k, e), e # None => e.version = rev + 1,
         \A j \in Key : \A x \in Known(j)' : x \in Known(j) \/ (j = k /\ x = store'[j]),
         NEW n \in Node, Watching(n), NoDelete(n),
         \A j \in Key \ {k} : Shows(n, j, cache[n][j]) => Shows(n, j, cache'[n][j])
  PROVE Watching(n)'
<1>1. /\ store'[k] = e /\ \A j \in Key \ {k} : store'[j] = store[j]
      /\ ready' = ready
  BY ChangesDoes
<1>2. ~ready'[n] => stream'[n] = << >> BY <1>1, ChangeComes DEF Watching
<1>3. ASSUME NEW j \in Key, ready'[n], \A i \in DOMAIN stream'[n] : stream'[n][i].key # j
      PROVE Shows(n, j, cache[n][j])'
  <2>1. j # k
    <3>1. Len(stream[n]) + 1 \in DOMAIN stream'[n] BY <1>1, <1>3, ChangeComes
    <3>2. ~(Len(stream[n]) + 1 \in DOMAIN stream[n] /\ Len(stream[n]) + 1 < Len(stream[n]) + 1)
      BY DEF TypeOK
    <3>3. ~(Len(stream[n]) + 1 \in DOMAIN stream[n]) BY <3>2, ChangeComes
    <3>4. stream'[n][Len(stream[n]) + 1] = [key |-> k, entry |-> e, version |-> rev + 1]
      BY <3>1, <3>3, ChangeComes
    <3> QED BY <1>3, <3>1, <3>4
  <2>2. ASSUME NEW i \in DOMAIN stream[n] PROVE stream[n][i].key # j
    <3>1. i \in DOMAIN stream'[n] /\ i < Len(stream[n]) + 1 BY ChangeComes
    <3>2. i # Len(stream[n]) + 1 BY <3>1 DEF TypeOK
    <3>3. stream'[n][i] = stream[n][i] BY <3>1, <3>2, ChangeComes
    <3> QED BY <1>3, <3>1, <3>3
  <2>3. Shows(n, j, cache[n][j]) BY <1>1, <1>3, <2>2 DEF Watching
  <2>4. Shows(n, j, cache'[n][j]) /\ store'[j] = store[j] BY <1>1, <2>1, <2>3
  <2> QED BY <2>4 DEF Shows
<1>4. ASSUME NEW j \in Key, NEW i \in DOMAIN stream'[n], IsLast(n, j, i)'
      PROVE /\ stream'[n][i].entry = store'[j]
            /\ store'[j] = None => \A x \in Known(j)' : x.version < stream'[n][i].version
  <2>1. CASE j = k
    <3>1. CASE ready[n]
      <4>1. Len(stream[n]) + 1 \in DOMAIN stream'[n] BY <3>1, ChangeComes
      <4>2. ~(Len(stream[n]) + 1 < Len(stream[n]) + 1) BY DEF TypeOK
      <4>3. ~(Len(stream[n]) + 1 \in DOMAIN stream[n]) BY <4>2, ChangeComes
      <4>4. stream'[n][Len(stream[n]) + 1] = [key |-> k, entry |-> e, version |-> rev + 1]
        BY <4>1, <4>3, ChangeComes
      <4>5. i = Len(stream[n]) + 1
        <5>1. ASSUME i \in DOMAIN stream[n] PROVE FALSE
          <6>1. i < Len(stream[n]) + 1 BY <5>1, ChangeComes
          <6> QED BY <1>4, <2>1, <4>1, <4>4, <6>1 DEF IsLast
        <5> QED BY <5>1, ChangeComes
      <4>6. stream'[n][i].entry = store'[j] /\ stream'[n][i].version = rev + 1
        BY <1>1, <2>1, <4>4, <4>5
      <4>7. ASSUME store'[j] = None, NEW x \in Known(j)' PROVE x.version < rev + 1
        <5>1. x \in Entry /\ x # None BY <4>7, NoneIsNoEntry DEF Known
        <5>2. x \in Known(j) BY <4>7, <5>1
        <5>3. x.version <= rev /\ x.version \in Int /\ rev \in Int
          BY <5>1, <5>2 DEF VersionInv, Entry, TypeOK
        <5> QED BY <5>3
      <4> QED BY <4>6, <4>7
    <3>2. CASE ~ready[n]
      <4>1. stream'[n] = << >> BY <3>2, ChangeComes DEF Watching
      <4> QED BY <4>1
    <3> QED BY <3>1, <3>2
  <2>2. CASE j # k
    <3>1. store'[j] = store[j] BY <1>1, <2>2
    <3>2. i \in DOMAIN stream[n] /\ stream'[n][i] = stream[n][i]
      <4>1. stream'[n][i].key = j BY <1>4 DEF IsLast
      <4>2. stream'[n][i] # [key |-> k, entry |-> e, version |-> rev + 1] BY <2>2, <4>1
      <4> QED BY <4>2, ChangeComes
    <3>3. ASSUME NEW h \in DOMAIN stream[n], h > i PROVE stream[n][h].key # j
      <4>1. h \in DOMAIN stream'[n] /\ h < Len(stream[n]) + 1 BY ChangeComes
      <4>2. h # Len(stream[n]) + 1 BY <4>1 DEF TypeOK
      <4>3. stream'[n][h] = stream[n][h] BY <4>1, <4>2, ChangeComes
      <4> QED BY <1>4, <3>3, <4>1, <4>3 DEF IsLast
    <3>4. IsLast(n, j, i) BY <1>4, <3>2, <3>3 DEF IsLast
    <3>5. /\ stream[n][i].entry = store[j]
          /\ store[j] = None => \A x \in Known(j) : x.version < stream[n][i].version
      BY <3>2, <3>4 DEF Watching
    <3>6. \A x \in Known(j)' : x \in Known(j) BY <2>2
    <3> QED BY <3>1, <3>2, <3>5, <3>6
  <2> QED BY <2>1, <2>2
<1>5. ASSUME NEW j \in Key, call'[n].ans = "ok", call'[n].req.kind = "delete",
             call'[n].req.key = j, store'[j] # None
      PROVE call'[n].at < store'[j].version
  <2>1. call'[n] = call[n] BY <1>5 DEF NoDelete
  <2>2. CASE j = k
    <3>1. store'[j].version = rev + 1 BY <1>1, <1>5, <2>2
    <3>2. call[n].at <= rev /\ call[n].at \in Int /\ rev \in Int
      BY DEF VersionInv, TypeOK, Call
    <3> QED BY <2>1, <3>1, <3>2
  <2>3. CASE j # k
    <3>1. store'[j] = store[j] BY <1>1, <2>3
    <3> QED BY <1>5, <2>1, <3>1 DEF Watching
  <2> QED BY <2>2, <2>3
<1> QED BY <1>2, <1>3, <1>4, <1>5 DEF Watching

LEMMA AsksCache ==
  ASSUME Inv, NEW n \in Node, NEW op \in Op, NEW step \in Step, NEW r \in Request,
         NEW i \in (0..MaxRev) \cup {None}, Asks(n, op, step, r, i)
  PROVE CacheInv'
<1> USE DEF Inv
<1>1. Send(n, op, step, r, i) /\ (r.kind = "grant" => r.value = n) /\ UNCHANGED backend
  BY DEF Asks, Sound, setting
<1>2. call'[n].req = r BY <1>1, SendDoes
<1> SUFFICES ASSUME backend \in {"etcd3", "kubernetes"}, NEW m \in Node PROVE Watching(m)'
  BY <1>1 DEF CacheInv
<1>3. Watching(m) BY DEF CacheInv
<1>4. \A j \in Key : \A x \in Known(j)' : x \in Known(j) \/ (j = r.key /\ x = store'[j])
  BY AsksVersion
<1>5. ASSUME NEW j \in Key, Shows(m, j, cache[m][j]) PROVE Shows(m, j, cache'[m][j])
  <2>1. CASE cache'[m][j] = cache[m][j] BY <1>5, <2>1
  <2>2. ASSUME backend = "kubernetes", NEW e \in Known("leader"), j = "leader",
               cache'[m][j] = CacheSet(cache[m], j, e)[j]
        PROVE Shows(m, j, cache'[m][j])
    BY <1>5, <2>2, CacheSetShows
  <2> QED BY <2>1, <2>2, AsksDoes
<1>6. CASE Changes(r.key, After(r)) /\ Writes(r)
  <2>1. rev < MaxRev /\ r.key \in Key BY <1>6 DEF Changes, Request
  <2>2. PICK e \in Stored : e = After(r) BY <2>1, AfterIs
  <2>3. Changes(r.key, e) /\ (e # None => e.version = rev + 1)
    BY <1>6, <2>1, <2>2, AfterIs DEF NextVersion
  <2>4. NoDelete(m)
    <3>1. CASE m = n
      <4>1. store'[r.key] = e BY <2>1, <2>3, ChangesDoes
      <4> QED BY <1>2, <2>2, <3>1, <4>1 DEF NoDelete, After
    <3>2. CASE m # n BY <1>1, <3>2, SendDoes DEF NoDelete
    <3> QED BY <3>1, <3>2
  <2> QED BY <1>1, <1>3, <1>4, <1>5, <2>1, <2>3, <2>4, WatchingByChange
<1>7. CASE UNCHANGED <<store, rev, stream, ready>> /\ ~(call'[n].ans = "ok" /\ Writes(r))
  <2>1. \A j \in Key : Known(j)' \subseteq Known(j)
    <3>1. ASSUME NEW j \in Key, NEW x \in Known(j)' PROVE x \in Known(j)
      <4>1. x \in Known(j) \/ x = store[j] BY <1>4, <1>7
      <4>2. x \in Entry BY DEF Known
      <4> QED BY <4>1, <4>2 DEF Known
    <3> QED BY <3>1
  <2>2. NoDelete(m)
    <3>1. CASE m = n BY <1>2, <1>7, <3>1 DEF NoDelete, Writes
    <3>2. CASE m # n BY <1>1, <3>2, SendDoes DEF NoDelete
    <3> QED BY <3>1, <3>2
  <2> QED BY <1>1, <1>3, <1>5, <1>7, <2>1, <2>2, WatchingByRest
<1> QED BY <1>1, <1>6, <1>7, SendDoes

LEMMA AsksInv ==
  ASSUME Inv, NEW n \in Node, NEW op \in Op, NEW step \in Step, NEW r \in Request,
         NEW i \in (0..MaxRev) \cup {None}, Asks(n, op, step, r, i)
  PROVE Inv' /\ HandOver
BY AsksDoes, AsksVersion, AsksWaits, AsksInit, AsksSession, AsksKube, AsksCache, AsksHandOver
   DEF Inv

----------------------------------------------------------------------------
\* An operation is over, or a node does something of its own.

\* The server is not asked: n has its result, starts to load, or has heard of a session.
Ends(n) ==
    /\ UNCHANGED <<backend, again>>
    /\ UNCHANGED <<store, rev>> \/ (backend = "zookeeper" /\ Changes("leader", None))
    /\ backend # "zookeeper" => UNCHANGED <<stream, ready>>
    /\ Elsewhere(n)
    /\ \/ UNCHANGED call /\ Stands(n)
       \/ Free(n)' /\ call'[n].step = "first" /\ call'[n].at = 0 /\ Truly(n)'
       \/ /\ backend # "kubernetes"
          /\ call'[n].op = "load" /\ ~Free(n)' /\ call'[n].req = Read
          /\ call'[n].at \in {0, call[n].at}
          /\ backend = "consul" => \E v : VersionIs("leader", v, n) /\ call'[n].index = v
    /\ initializing \subseteq initializing'
    /\ \A m \in initializing' \ initializing :
          m = n /\ call[n].op = "initialize" /\ call[n].ans = "ok"
    /\ OwnSession(n, session'[n])
    /\ backend # "zookeeper" => Learns(n, "leader", None)
    /\ backend = "kubernetes" => Kubes(n)'
    /\ backend \in {"etcd3", "kubernetes"} =>
          \A j \in Key : Shows(n, j, cache[n][j]) => Shows(n, j, cache'[n][j])

LEMMA EndsVersion ==
  ASSUME Inv, TypeOK', NEW n \in Node, Ends(n)
  PROVE /\ VersionInv' /\ Keeps
        /\ backend # "zookeeper" => \A j \in Key : Known(j)' \subseteq Known(j)
<1> USE DEF Inv
<1>1. Elsewhere(n) /\ UNCHANGED backend BY DEF Ends
<1>2. rev \in Int /\ rev' \in Int /\ 0 <= rev /\ 0 <= rev' BY DEF TypeOK
<1>3. ASSUME rev <= rev' PROVE \A m \in Node : call'[m].at <= rev'
  <2> SUFFICES ASSUME NEW m \in Node PROVE call'[m].at <= rev' OBVIOUS
  <2>1. call[m].at <= rev /\ call[m].at \in Int BY DEF VersionInv, TypeOK, Call
  <2>2. call'[m].at \in {0, call[m].at} BY <1>1 DEF Ends, Elsewhere
  <2> QED BY <1>2, <1>3, <2>1, <2>2
<1>4. CASE UNCHANGED <<store, rev>>
  <2>1. ASSUME backend # "zookeeper" PROVE \A j \in Key : Known(j)' \subseteq Known(j)
    <3>1. UNCHANGED stream /\ Learns(n, "leader", None) BY <2>1 DEF Ends
    <3>2. \A m \in Node, j \in Key, x \in Entry : Hears(m, j, x)' => Hears(m, j, x)
      BY <3>1 DEF Hears
    <3> QED BY <1>1, <1>4, <2>1, <3>1, <3>2, KnownByRest
  <2>2. \A m \in Node : call'[m].at <= rev BY <1>2, <1>3, <1>4
  <2> QED BY <1>1, <1>4, <2>1, <2>2, VersionByRest
<1>5. CASE backend = "zookeeper" /\ Changes("leader", None)
  <2>1. rev <= rev' BY <1>2, <1>5 DEF Changes
  <2>2. "leader" \in Key /\ None \in Stored BY DEF Key, Stored
  <2> QED BY <1>1, <1>3, <1>5, <2>1, <2>2, VersionByChange
<1> QED BY <1>4, <1>5 DEF Ends

LEMMA EndsInv ==
  ASSUME Inv, TypeOK', NEW n \in Node, Ends(n)
  PROVE Inv' /\ HandOver
<1> USE DEF Inv
<1>1. /\ Elsewhere(n) /\ UNCHANGED <<backend, again>> /\ OwnSession(n, session'[n])
      /\ VersionInv' /\ Keeps
  BY EndsVersion DEF Ends
<1>2. /\ store'["initialize"] = store["initialize"]
      /\ store'["leader"] # None => store'["leader"] = store["leader"]
  BY DEF Ends, Changes, TypeOK, Key
<1>3. \A m \in Node \ {n} : m \in initializing' <=> m \in initializing BY DEF Ends
<1>4. CallInv'
  <2>1. ASSUME NEW m \in Node \ {n} PROVE Waits(m)'
    <3>1. Waits(m) /\ call'[m] = call[m] /\ Stands(m)
      BY <1>1, <1>3 DEF CallInv, Elsewhere, Stands
    <3> QED BY <1>1, <1>3, <3>1, WaitsKept
  <2>2. Waits(n)'
    <3>1. CASE UNCHANGED call /\ Stands(n)
      <4>1. call[n].op = "cancel" => (n \in initializing' => n \in initializing) BY DEF Ends
      <4> QED BY <1>1, <3>1, <4>1, WaitsKept DEF CallInv
    <3>2. CASE Free(n)' /\ call'[n].step = "first"
      <4>1. call'[n].ans # "ok" BY <3>2 DEF Free
      <4> QED BY <3>2, <4>1 DEF Waits
    <3>3. CASE /\ backend # "kubernetes"
               /\ call'[n].op = "load" /\ ~Free(n)' /\ call'[n].req = Read
               /\ backend = "consul" => \E v : VersionIs("leader", v, n) /\ call'[n].index = v
      <4>1. Sound(n, call[n].op, call[n].step, call[n].req, call[n].index)'
        BY <1>1, <3>3 DEF Sound, Writes, Read, Other
      <4>2. RemovesOld(n)' => VersionIs("leader", call[n].index, n)'
        <5>1. ASSUME backend = "consul" PROVE VersionIs("leader", call[n].index, n)'
          <6>1. PICK v : VersionIs("leader", v, n) /\ call'[n].index = v BY <3>3, <5>1
          <6>2. VersionIs("leader", v, n)' BY <1>1, <5>1, <6>1 DEF Keeps, Key
          <6> QED BY <6>1, <6>2
        <5> QED BY <1>1, <5>1 DEF RemovesOld
      <4> QED BY <3>3, <4>1, <4>2 DEF Waits, Writes, Read, Other
    <3> QED BY <3>1, <3>2, <3>3 DEF Ends
  <2> QED BY <2>1, <2>2 DEF CallInv
<1>5. ResultInv'
  <2>1. ASSUME NEW m \in Node, call'[m] = call[m] PROVE Truly(m)'
    <3>1. Truly(m) BY DEF ResultInv
    <3> QED BY <1>1, <2>1, <3>1 DEF Truly, Returned, Free, AsksForKey
  <2>2. Truly(n)'
    BY <2>1 DEF Ends, Truly, Returned
  <2> QED BY <1>1, <2>1, <2>2 DEF ResultInv, Elsewhere
<1>6. InitInv'
  <2>1. ASSUME NEW m \in Node, Initializes(m)' PROVE Initializes(m)
    <3>1. CASE m # n
      <4>1. call'[m] = call[m] BY <1>1, <3>1 DEF Elsewhere
      <4> QED BY <1>1, <1>3, <2>1, <3>1, <4>1 DEF Initializes, Free
    <3>2. CASE m = n /\ n \in initializing' BY <3>2 DEF Ends, Initializes
    <3>3. CASE m = n /\ n \notin initializing'
      <4>1. call'[n] = call[n] BY <2>1, <3>3 DEF Ends, Initializes, Free
      <4> QED BY <1>1, <2>1, <3>3, <4>1 DEF Initializes, Free
    <3> QED BY <3>1, <3>2, <3>3
  <2> QED BY <1>1, <1>2, <2>1 DEF InitInv, OwnedBy
<1>7. SessionInv'
  <2>1. ASSUME NEW m \in Node PROVE OwnSession(m, session'[m])
    <3>1. m # n => session'[m] = session[m] BY <1>1 DEF Elsewhere
    <3> QED BY <1>1, <3>1 DEF SessionInv
  <2> QED BY <1>1, <1>2, <2>1 DEF SessionInv, OwnSession
<1>8. KubeInv'
  <2> SUFFICES ASSUME backend = "kubernetes", NEW m \in Node PROVE Kubes(m)'
    BY <1>1 DEF KubeInv
  <2>1. CASE m = n BY <2>1 DEF Ends
  <2>2. CASE m # n
    <3>1. /\ call'[m] = call[m] /\ view'[m] = view[m] /\ cache'[m] = cache[m]
          /\ seen'[m] = seen[m] /\ ripe'[m] = ripe[m] /\ stream' = stream
          /\ m \in initializing' <=> m \in initializing
      BY <1>1, <1>3, <2>2 DEF Elsewhere, Ends
    <3>2. Kubes(m) BY DEF KubeInv
    <3> QED BY <1>2, <3>1, <3>2 DEF Kubes
  <2> QED BY <2>1, <2>2
<1>9. CacheInv'
  <2> SUFFICES ASSUME backend \in {"etcd3", "kubernetes"}, NEW m \in Node PROVE Watching(m)'
    BY <1>1 DEF CacheInv
  <2>1. UNCHANGED <<store, rev, stream, ready>> BY DEF Ends
  <2>2. \A j \in Key : Known(j)' \subseteq Known(j) BY EndsVersion
  <2>3. \A j \in Key : Shows(m, j, cache[m][j]) => Shows(m, j, cache'[m][j])
    BY <1>1 DEF Ends, Elsewhere
  <2>4. NoDelete(m)
    <3>1. m # n => call'[m] = call[m] BY <1>1 DEF Elsewhere
    <3>2. call'[n] = call[n] \/ ~(call'[n].ans = "ok" /\ call'[n].req.kind = "delete")
      BY DEF Ends, Free, Read, Other
    <3> QED BY <3>1, <3>2 DEF NoDelete
  <2> QED BY <1>1, <2>1, <2>2, <2>3, <2>4, WatchingByRest DEF CacheInv
<1>10. HandOver BY <1>2 DEF HandOver, OwnedBy
<1> QED BY <1>1, <1>4, <1>5, <1>6, <1>7, <1>8, <1>9, <1>10

----------------------------------------------------------------------------
\* The server lets a key expire.

Expires ==
    /\ backend # "kubernetes"
    /\ Changes("leader", None) \/ UNCHANGED <<store, rev, stream, ready>>
    /\ UNCHANGED <<backend, call, view, cache, seen, ripe, session, history>>

LEMMA ExpiresVersion ==
  ASSUME Inv, Expires
  PROVE /\ VersionInv' /\ Keeps
        /\ \A j \in Key : Known(j)' \subseteq Known(j)
<1> USE DEF Inv
<1>1. "leader" \in Key /\ None \in Stored BY DEF Key, Stored
<1>2. rev \in Int BY DEF TypeOK
<1>3. \A m \in Node : call'[m].at <= rev /\ call'[m].at \in Int
  BY DEF Expires, VersionInv, TypeOK, Call
<1>4. ASSUME NEW m \in Node, NEW j \in Key, NEW x \in Entry, Hears(m, j, x)'
      PROVE Hears(m, j, x)
  <2>1. CASE Changes("leader", None)
    <3>1. PICK i \in DOMAIN stream'[m] : stream'[m][i].key = j /\ stream'[m][i].entry = x
      BY <1>4 DEF Hears
    <3>2. stream'[m][i] # [key |-> "leader", entry |-> None, version |-> rev + 1]
      BY <3>1, NoneIsNoEntry
    <3>3. i \in DOMAIN stream[m] /\ stream'[m][i] = stream[m][i]
      BY <1>1, <2>1, <3>2, ChangeComes
    <3> QED BY <3>1, <3>3 DEF Hears
  <2>2. CASE UNCHANGED stream BY <1>4, <2>2 DEF Hears
  <2> QED BY <2>1, <2>2 DEF Expires
<1>5. ASSUME NEW j \in Key, NEW x \in Known(j)' PROVE x \in Known(j)
  <2>1. x \in Entry /\ x # None BY NoneIsNoEntry DEF Known
  <2>2. CASE x = store'[j]
    <3>1. x = store[j] BY <2>1, <2>2 DEF Expires, Changes, TypeOK
    <3> QED BY <2>1, <3>1 DEF Known
  <2>3. ASSUME NEW m \in Node, Hears(m, j, x)' PROVE x \in Known(j)
    BY <1>4, <2>1, <2>3 DEF Known
  <2>4. ASSUME NEW m \in Node, (Reads(m, j, x) \/ IsTold(m, j, x))' PROVE x \in Known(j)
    <3>1. Reads(m, j, x) \/ IsTold(m, j, x)
      BY <2>4 DEF Expires, Reads, IsTold, Answered, Wrote, Written
    <3> QED BY <2>1, <3>1 DEF Known
  <2> QED BY <2>2, <2>3, <2>4 DEF Known
<1>6. CASE Changes("leader", None)
  <2>1. \A m \in Node : call'[m].at <= rev' BY <1>2, <1>3, <1>6 DEF Changes
  <2> QED BY <1>1, <1>5, <1>6, <2>1, VersionByChange DEF Expires
<1>7. CASE UNCHANGED <<store, rev, stream, ready>>
  BY <1>3, <1>5, <1>7, VersionByRest DEF Expires
<1> QED BY <1>5, <1>6, <1>7 DEF Expires

LEMMA ExpiresInv ==
  ASSUME Inv, TypeOK', Expires
  PROVE Inv' /\ HandOver
<1> USE DEF Inv
<1>1. /\ VersionInv' /\ Keeps
      /\ UNCHANGED <<backend, call, view, cache, seen, ripe, session, initializing, again>>
  BY ExpiresVersion DEF Expires, history
<1>2. /\ store'["initialize"] = store["initialize"]
      /\ store'["leader"] # None => store'["leader"] = store["leader"]
  BY DEF Expires, Changes, TypeOK, Key
<1>3. CallInv' BY <1>1, WaitsKept DEF CallInv, Stands
<1>4. ResultInv' BY <1>1 DEF ResultInv, Truly, Returned, Free, AsksForKey
<1>5. InitInv' BY <1>1, <1>2 DEF InitInv, Initializes, Free, OwnedBy
<1>6. SessionInv' BY <1>1, <1>2 DEF SessionInv, OwnSession
<1>7. KubeInv' BY <1>1 DEF KubeInv, Expires
<1>8. CacheInv'
  <2> SUFFICES ASSUME backend \in {"etcd3", "kubernetes"}, NEW m \in Node PROVE Watching(m)'
    BY <1>1 DEF CacheInv
  <2>1. NoDelete(m) /\ Watching(m) BY <1>1 DEF NoDelete, CacheInv
  <2>2. \A j \in Key : Known(j)' \subseteq Known(j) BY ExpiresVersion
  <2>3. "leader" \in Key /\ None \in Stored BY DEF Key, Stored
  <2>4. CASE Changes("leader", None)
    BY <1>1, <2>1, <2>2, <2>3, <2>4, WatchingByChange
  <2>5. CASE UNCHANGED <<store, rev, stream, ready>>
    BY <1>1, <2>1, <2>2, <2>5, WatchingByRest
  <2> QED BY <2>4, <2>5 DEF Expires
<1>9. HandOver BY <1>2 DEF HandOver, OwnedBy
<1> QED BY <1>1, <1>3, <1>4, <1>5, <1>6, <1>7, <1>8, <1>9

----------------------------------------------------------------------------
\* A cache watches.

Watches(n) ==
    /\ Rebuild(n) \/ HandleEvent(n) \/ Break(n)
    /\ backend \in {"etcd3", "kubernetes"}
    /\ UNCHANGED <<setting, data, call, clientVars, kubeVars, zooVars, history>>

LEMMA WatchesTyped ==
  ASSUME Inv, NEW n \in Node, Watches(n)
  PROVE /\ TypeOK' /\ Elsewhere(n)
        /\ \A m \in Node \ {n} : stream'[m] = stream[m] /\ ready'[m] = ready[m]
<1> USE DEF Inv
<1>1. UNCHANGED <<backend, concern, store, rev, granted, alive, call, session, view, seen, ripe,
                  fetch, event, initializing, again>>
  BY DEF Watches, setting, data, clientVars, kubeVars, zooVars, history
<1>2. /\ cache' \in [Node -> [Key -> Stored]] /\ stream' \in [Node -> Seq(Change)]
      /\ ready' \in [Node -> BOOLEAN] /\ faults' \in 0..MaxFaults
      /\ \A m \in Node \ {n} :
            cache'[m] = cache[m] /\ stream'[m] = stream[m] /\ ready'[m] = ready[m]
  <2>1. CASE Rebuild(n)
    <3>1. << >> \in Seq(Change) OBVIOUS
    <3> QED BY <2>1, <3>1 DEF Rebuild, TypeOK
  <2>2. CASE HandleEvent(n)
    <3>1. stream[n] \in Seq(Change) /\ stream[n] # << >> BY <2>2 DEF HandleEvent, TypeOK
    <3>2. Tail(stream[n]) \in Seq(Change) /\ Head(stream[n]) \in Change BY <3>1
    <3> DEFINE e == Head(stream[n])
               c == IF e.entry = None THEN CacheDelete(cache[n], e.key, e.version)
                    ELSE CacheSet(cache[n], e.key, e.entry)
    <3>3. c \in [Key -> Stored]
      <4>1. cache[n] \in [Key -> Stored] BY DEF TypeOK
      <4>2. e.key \in Key /\ e.entry \in Stored BY <3>2 DEF Change
      <4>3. CASE e.entry = None
        <5>1. \A v : CacheDelete(cache[n], e.key, v) \in [Key -> Stored]
          BY <4>1, <4>2 DEF CacheDelete, Stored
        <5> QED BY <4>3, <5>1
      <4>4. CASE e.entry # None
        <5>1. \A x \in Stored : CacheSet(cache[n], e.key, x) \in [Key -> Stored]
          BY <4>1, <4>2 DEF CacheSet
        <5> QED BY <4>2, <4>4, <5>1
      <4> QED BY <4>3, <4>4
    <3>4. cache' = [cache EXCEPT ![n] = c] BY <2>2 DEF HandleEvent
    <3> HIDE DEF c
    <3> QED BY <2>2, <3>2, <3>3, <3>4 DEF HandleEvent, TypeOK
  <2>3. CASE Break(n)
    <3>1. << >> \in Seq(Change) OBVIOUS
    <3> QED BY <2>3, <3>1, StoreConstants DEF Break, Fault, TypeOK
  <2> QED BY <2>1, <2>2, <2>3 DEF Watches
<1> QED BY <1>1, <1>2 DEF TypeOK, Elsewhere

LEMMA HandleDoes ==
  ASSUME TypeOK, NEW n \in Node, HandleEvent(n)
  PROVE /\ 1 \in DOMAIN stream[n] /\ stream[n][1] \in Change
        /\ \A k \in Key : cache'[n][k] =
              LET c == cache[n][k]
                  e == stream[n][1] IN
              IF k # e.key THEN c
              ELSE IF e.entry = None THEN IF c # None /\ c.version < e.version THEN None ELSE c
              ELSE IF c = None \/ c.version < e.entry.version THEN e.entry ELSE c
        /\ \A i \in DOMAIN stream'[n] :
              i + 1 \in DOMAIN stream[n] /\ stream'[n][i] = stream[n][i + 1]
        /\ \A i \in DOMAIN stream[n] :
              i # 1 => i - 1 \in DOMAIN stream'[n] /\ stream'[n][i - 1] = stream[n][i]
<1>1. stream[n] \in Seq(Change) /\ stream[n] # << >> /\ stream'[n] = Tail(stream[n])
  BY DEF HandleEvent, TypeOK
<1>2. 1 \in DOMAIN stream[n] /\ stream[n][1] \in Change /\ Head(stream[n]) = stream[n][1]
  BY <1>1
<1>3. /\ \A i \in DOMAIN stream'[n] :
            i + 1 \in DOMAIN stream[n] /\ stream'[n][i] = stream[n][i + 1]
      /\ \A i \in DOMAIN stream[n] :
            i # 1 => i - 1 \in DOMAIN stream'[n] /\ stream'[n][i - 1] = stream[n][i]
  BY <1>1
<1> DEFINE e == stream[n][1]
<1>4. cache[n] \in [Key -> Stored] /\ e.key \in Key /\ e.entry \in Stored
  BY <1>2 DEF TypeOK, Change
<1>5. cache'[n] = IF e.entry = None THEN CacheDelete(cache[n], e.key, e.version)
                  ELSE CacheSet(cache[n], e.key, e.entry)
  BY <1>2 DEF HandleEvent, TypeOK
<1>6. ASSUME NEW k \in Key
      PROVE cache'[n][k] =
              IF k # e.key THEN cache[n][k]
              ELSE IF e.entry = None
              THEN IF cache[n][k] # None /\ cache[n][k].version < e.version THEN None ELSE cache[n][k]
              ELSE IF cache[n][k] = None \/ cache[n][k].version < e.entry.version THEN e.entry
              ELSE cache[n][k]
  <2>1. CASE e.entry = None BY <1>4, <1>5, <2>1 DEF CacheDelete
  <2>2. CASE e.entry # None BY <1>4, <1>5, <2>2 DEF CacheSet
  <2> QED BY <2>1, <2>2
<1> QED BY <1>2, <1>3, <1>6

LEMMA WatchesVersion ==
  ASSUME Inv, NEW n \in Node, Watches(n)
  PROVE /\ VersionInv' /\ Keeps
        /\ \A j \in Key : Known(j)' \subseteq Known(j)
<1> USE DEF Inv
<1>1. /\ UNCHANGED <<backend, store, rev, call, view, seen>> /\ backend # "zookeeper"
      /\ Elsewhere(n) /\ TypeOK'
      /\ \A m \in Node \ {n} : stream'[m] = stream[m]
  BY WatchesTyped DEF Watches, setting, data, clientVars, kubeVars
<1>2. ASSUME NEW j \in Key, NEW x \in Entry, x = cache'[n][j] PROVE x \in Known(j)
  <2>1. CASE Rebuild(n) BY <1>2, <2>1 DEF Rebuild, TypeOK, Known
  <2>2. CASE HandleEvent(n)
    <3>1. \/ x = cache[n][j]
          \/ stream[n][1].key = j /\ stream[n][1].entry = x /\ 1 \in DOMAIN stream[n]
      BY <1>2, <2>2, HandleDoes, NoneIsNoEntry
    <3> QED BY <3>1 DEF Known, Reads, Hears
  <2>3. CASE Break(n) BY <1>2, <2>3 DEF Break, Known, Reads
  <2> QED BY <2>1, <2>2, <2>3 DEF Watches
<1>3. Learns(n, "leader", None)
  <2> SUFFICES ASSUME NEW j \in Key, NEW x \in Entry, (Reads(n, j, x) \/ IsTold(n, j, x))'
               PROVE x \in Known(j)
    BY DEF Learns
  <2>1. CASE x = cache'[n][j] BY <1>2, <2>1
  <2>2. CASE x # cache'[n][j]
    <3>1. Reads(n, j, x) \/ IsTold(n, j, x)
      BY <1>1, <2>2 DEF Reads, IsTold, Answered, Wrote, Written
    <3> QED BY <3>1 DEF Known
  <2> QED BY <2>1, <2>2
<1>4. ASSUME NEW m \in Node, NEW j \in Key, NEW x \in Entry, Hears(m, j, x)'
      PROVE Hears(m, j, x)
  <2>1. PICK i \in DOMAIN stream'[m] : stream'[m][i].key = j /\ stream'[m][i].entry = x
    BY <1>4 DEF Hears
  <2>2. CASE m # n BY <1>1, <2>1, <2>2 DEF Hears
  <2>3. CASE m = n
    <3>1. CASE HandleEvent(n) BY <2>1, <2>3, <3>1, HandleDoes DEF Hears
    <3>2. CASE Rebuild(n) \/ Break(n)
      <4>1. stream'[n] = << >> BY <3>2 DEF Rebuild, Break, TypeOK
      <4> QED BY <2>1, <2>3, <4>1
    <3> QED BY <3>1, <3>2 DEF Watches
  <2> QED BY <2>2, <2>3
<1>5. \A j \in Key : Known(j)' \subseteq Known(j) BY <1>1, <1>3, <1>4, KnownByRest
<1>6. \A m \in Node : call'[m].at <= rev BY <1>1 DEF VersionInv
<1> QED BY <1>1, <1>5, <1>6, VersionByRest

LEMMA WatchesKube ==
  ASSUME Inv, NEW n \in Node, Watches(n), backend = "kubernetes"
  PROVE Kubes(n)'
<1> USE DEF Inv
<1>1. UNCHANGED <<backend, store, call, view, seen, ripe, initializing>>
  BY DEF Watches, setting, data, clientVars, kubeVars, history
<1>2. Kubes(n) BY DEF KubeInv
<1>3. ASSUME NEW j \in Key, cache[n][j] # None PROVE cache'[n][j] # None
  <2>1. CASE Rebuild(n)
    <3>1. cache[n][j] \in Known(j) BY <1>3 DEF TypeOK, Stored, Known, Reads
    <3>2. store[j] # None BY <3>1 DEF VersionInv
    <3> QED BY <2>1, <3>2 DEF Rebuild, TypeOK
  <2>2. CASE HandleEvent(n)
    <3>1. 1 \in DOMAIN stream[n] /\ stream[n][1].entry # None
      BY <1>2, <2>2, HandleDoes DEF Kubes
    <3> QED BY <1>3, <2>2, <3>1, HandleDoes
  <2>3. CASE Break(n) BY <1>3, <2>3 DEF Break
  <2> QED BY <2>1, <2>2, <2>3 DEF Watches
<1>4. ASSUME n \in initializing PROVE cache'[n]["initialize"] = store["initialize"]
  <2> DEFINE s == store["initialize"]
  <2>1. cache[n]["initialize"] = s /\ s # None
    BY <1>2, <1>4 DEF Kubes, InitInv, Initializes, OwnedBy
  <2>2. CASE Rebuild(n) BY <2>2 DEF Rebuild, TypeOK
  <2>3. CASE HandleEvent(n)
    <3>1. CASE stream[n][1].key # "initialize"
      BY <2>1, <2>3, <3>1, HandleDoes DEF Key
    <3>2. CASE stream[n][1].key = "initialize"
      <4> DEFINE e == stream[n][1].entry
      <4>1. 1 \in DOMAIN stream[n] /\ e \in Stored /\ e # None
        BY <1>2, <2>3, HandleDoes DEF Kubes, Change
      <4>2. e \in Entry /\ e \in Known("initialize")
        BY <3>2, <4>1 DEF Stored, Known, Hears
      <4>3. e.version <= s.version BY <2>1, <4>2 DEF VersionInv, Key
      <4>4. s \in Entry BY <2>1 DEF TypeOK, Stored, Key
      <4>5. ~(s.version < e.version) BY <4>2, <4>3, <4>4 DEF Entry
      <4>6. cache'[n]["initialize"] =
               IF cache[n]["initialize"] = None \/ cache[n]["initialize"].version < e.version
               THEN e ELSE cache[n]["initialize"]
        BY <2>3, <3>2, <4>1, HandleDoes DEF Key
      <4> QED BY <2>1, <4>5, <4>6
    <3> QED BY <3>1, <3>2
  <2>4. CASE Break(n) BY <2>1, <2>4 DEF Break
  <2> QED BY <2>2, <2>3, <2>4 DEF Watches
<1>5. ASSUME NEW i \in DOMAIN stream'[n] PROVE stream'[n][i].entry # None
  <2>1. CASE HandleEvent(n) BY <1>2, <1>5, <2>1, HandleDoes DEF Kubes
  <2>2. CASE Rebuild(n) \/ Break(n)
    <3>1. stream'[n] = << >> BY <2>2 DEF Rebuild, Break, TypeOK
    <3> QED BY <3>1
  <2> QED BY <2>1, <2>2 DEF Watches
<1>6. /\ view'[n] # None => \A k \in Key : view'[n][k] # None => cache'[n][k] # None
      /\ seen'[n] # None => cache'[n]["leader"] # None
  BY <1>1, <1>2, <1>3 DEF Kubes, Key
<1>7. view'[n] # None =>
         IF seen'[n] = None THEN view'[n]["leader"] = None
         ELSE \/ view'[n]["leader"] = seen'[n]
              \/ ripe'[n] /\ view'[n]["leader"] = [seen'[n] EXCEPT !.value = None]
  BY <1>1, <1>2 DEF Kubes
<1>8. call'[n].op = "initialize" /\ call'[n].ans = "ok" =>
         store'["initialize"] # None /\ store'["initialize"].version = call'[n].at
  BY <1>1, <1>2 DEF Kubes
<1> QED BY <1>1, <1>4, <1>5, <1>6, <1>7, <1>8 DEF Kubes

LEMMA WatchesCache ==
  ASSUME Inv, NEW n \in Node, Watches(n)
  PROVE Watching(n)'
<1> USE DEF Inv
<1>1. /\ UNCHANGED <<backend, store, call>> /\ backend \in {"etcd3", "kubernetes"}
      /\ Watching(n) /\ (\A j \in Key : Known(j)' \subseteq Known(j))
  BY WatchesVersion DEF Watches, setting, data, CacheInv
<1>2. CASE Rebuild(n) \/ Break(n)
  <2>1. /\ stream'[n] = << >>
        /\ ready'[n] => cache'[n] = store
    BY <1>2 DEF Rebuild, Break, TypeOK
  <2>2. \A j \in Key : ready'[n] => Shows(n, j, cache[n][j])' BY <1>1, <2>1 DEF Shows
  <2>3. \A j \in Key : /\ call'[n].ans = "ok" /\ call'[n].req.kind = "delete"
                       /\ call'[n].req.key = j /\ store'[j] # None
                       => call'[n].at < store'[j].version
    BY <1>1 DEF Watching
  <2> QED BY <2>1, <2>2, <2>3 DEF Watching
<1>3. CASE HandleEvent(n)
  <2> DEFINE e == stream[n][1]
  <2>1. UNCHANGED ready BY <1>3 DEF HandleEvent
  <2>2. stream[n] # << >> /\ 1 \in DOMAIN stream[n] /\ e \in Change /\ ready[n]
    BY <1>1, <1>3, HandleDoes DEF HandleEvent, Watching
  <2>3. ASSUME NEW j \in Key, \A i \in DOMAIN stream'[n] : stream'[n][i].key # j
        PROVE Shows(n, j, cache'[n][j])
    <3>1. \A i \in DOMAIN stream[n] : i # 1 => stream[n][i].key # j
      BY <1>3, <2>3, HandleDoes
    <3>2. CASE e.key # j
      <4>1. Shows(n, j, cache[n][j]) BY <1>1, <2>2, <3>1, <3>2 DEF Watching
      <4> QED BY <1>3, <3>2, <4>1, HandleDoes
    <3>3. CASE e.key = j
      <4>1. IsLast(n, j, 1) BY <2>2, <3>1, <3>3 DEF IsLast
      <4>2. /\ e.entry = store[j]
            /\ store[j] = None => \A x \in Known(j) : x.version < e.version
        BY <1>1, <2>2, <4>1 DEF Watching
      <4>3. cache[n][j] = None \/ cache[n][j] \in Known(j)
        BY DEF TypeOK, Stored, Known, Reads
      <4>4. cache'[n][j] =
               IF e.entry = None
               THEN IF cache[n][j] # None /\ cache[n][j].version < e.version THEN None ELSE cache[n][j]
               ELSE IF cache[n][j] = None \/ cache[n][j].version < e.entry.version THEN e.entry
               ELSE cache[n][j]
        BY <1>3, <3>3, HandleDoes
      <4>5. CASE store[j] = None BY <4>2, <4>3, <4>4, <4>5 DEF Shows
      <4>6. CASE store[j] # None
        <5>1. store[j] \in Known(j) BY <4>6 DEF TypeOK, Stored, Known
        <5>2. CASE cache[n][j] = None \/ cache[n][j].version < store[j].version
          BY <4>2, <4>4, <4>6, <5>2 DEF Shows
        <5>3. CASE ~(cache[n][j] = None \/ cache[n][j].version < store[j].version)
          <6>1. cache[n][j] \in Known(j) BY <4>3, <5>3
          <6>2. cache[n][j].version <= store[j].version BY <1>1, <4>6, <6>1 DEF VersionInv
          <6>3. cache[n][j].version \in Nat /\ store[j].version \in Nat
            BY <5>1, <6>1 DEF Known, Entry
          <6>4. cache[n][j].version = store[j].version BY <5>3, <6>2, <6>3
          <6>5. cache[n][j] = store[j] BY <1>1, <5>1, <6>1, <6>4 DEF VersionInv
          <6> QED BY <4>2, <4>4, <5>3, <6>5 DEF Shows
        <5> QED BY <5>2, <5>3
      <4> QED BY <4>5, <4>6
    <3> QED BY <3>2, <3>3
  <2>4. ASSUME NEW j \in Key, NEW i \in DOMAIN stream'[n], IsLast(n, j, i)'
        PROVE /\ stream'[n][i].entry = store[j]
              /\ store[j] = None => \A x \in Known(j)' : x.version < stream'[n][i].version
    <3>1. i + 1 \in DOMAIN stream[n] /\ stream'[n][i] = stream[n][i + 1]
      BY <1>3, HandleDoes
    <3>2. ASSUME NEW h \in DOMAIN stream[n], h > i + 1 PROVE stream[n][h].key # j
      <4>1. i \in Nat /\ h \in Nat
        <5>1. stream[n] \in Seq(Change) /\ stream'[n] \in Seq(Change)
          BY WatchesTyped DEF TypeOK
        <5> QED BY <5>1
      <4>2. h # 1 /\ h - 1 > i BY <3>2, <4>1
      <4>3. h - 1 \in DOMAIN stream'[n] /\ stream'[n][h - 1] = stream[n][h]
        BY <1>3, <4>2, HandleDoes
      <4> QED BY <2>4, <4>2, <4>3 DEF IsLast
    <3>3. IsLast(n, j, i + 1) BY <2>4, <3>1, <3>2 DEF IsLast
    <3> QED BY <1>1, <3>1, <3>3 DEF Watching
  <2>5. \A j \in Key : Shows(n, j, cache'[n][j]) => Shows(n, j, cache[n][j])'
    BY <1>1 DEF Shows
  <2>6. \A j \in Key : /\ call'[n].ans = "ok" /\ call'[n].req.kind = "delete"
                       /\ call'[n].req.key = j /\ store'[j] # None
                       => call'[n].at < store'[j].version
    BY <1>1 DEF Watching
  <2> QED BY <1>1, <2>1, <2>2, <2>3, <2>4, <2>5, <2>6 DEF Watching
<1> QED BY <1>2, <1>3 DEF Watches

LEMMA WatchesInv ==
  ASSUME Inv, NEW n \in Node, Watches(n)
  PROVE Inv' /\ HandOver
<1> USE DEF Inv
<1>1. /\ TypeOK' /\ Elsewhere(n) /\ VersionInv' /\ Keeps
      /\ \A m \in Node \ {n} : stream'[m] = stream[m] /\ ready'[m] = ready[m]
      /\ \A j \in Key : Known(j)' \subseteq Known(j)
  BY WatchesTyped, WatchesVersion
<1>2. UNCHANGED <<backend, store, rev, call, view, session, seen, ripe, initializing, again>>
  BY DEF Watches, setting, data, clientVars, kubeVars, history
<1>3. CallInv' BY <1>1, <1>2, WaitsKept DEF CallInv, Stands
<1>4. ResultInv' BY <1>2 DEF ResultInv, Truly, Returned, Free, AsksForKey
<1>5. InitInv' BY <1>2 DEF InitInv, Initializes, Free, OwnedBy
<1>6. SessionInv' BY <1>2 DEF SessionInv, OwnSession
<1>7. KubeInv'
  <2> SUFFICES ASSUME backend = "kubernetes", NEW m \in Node PROVE Kubes(m)'
    BY <1>2 DEF KubeInv
  <2>1. CASE m = n BY <2>1, WatchesKube
  <2>2. CASE m # n
    <3>1. cache'[m] = cache[m] /\ stream'[m] = stream[m] BY <1>1, <2>2 DEF Elsewhere
    <3>2. Kubes(m) BY DEF KubeInv
    <3> QED BY <1>2, <3>1, <3>2 DEF Kubes
  <2> QED BY <2>1, <2>2
<1>8. CacheInv'
  <2> SUFFICES ASSUME backend \in {"etcd3", "kubernetes"}, NEW m \in Node PROVE Watching(m)'
    BY <1>2 DEF CacheInv
  <2>1. CASE m = n BY <2>1, WatchesCache
  <2>2. CASE m # n
    BY <1>1, <1>2, <2>2, WatchingByRest DEF CacheInv, Elsewhere, NoDelete
  <2> QED BY <2>1, <2>2
<1>9. HandOver BY <1>2 DEF HandOver, OwnedBy
<1> QED BY <1>1, <1>3, <1>4, <1>5, <1>6, <1>7, <1>8, <1>9

----------------------------------------------------------------------------
\* The forms in which the back-ends make requests.

Unasked == UNCHANGED <<setting, session, view, cache, kubeVars, zooVars>>

LEMMA AskInv ==
  ASSUME Inv, NEW n \in Node, NEW op \in Op \ {"cancel"}, NEW r \in Request,
         NEW i \in (0..MaxRev) \cup {None}, Ask(n, op, r, i), Sound(n, op, "first", r, i),
         ~(backend = "etcd3" /\ op = "update" /\ r.kind = "put"),
         Unasked, UNCHANGED history
  PROVE Inv' /\ HandOver
<1>1. "first" \in Step BY DEF Step
<1>2. again' \in BOOLEAN /\ (again => again') /\ UNCHANGED initializing
  BY DEF Inv, TypeOK, history
<1>3. Asks(n, op, "first", r, i) BY <1>2 DEF Asks, Ask, Unasked
<1> QED BY <1>1, <1>3, AsksInv

LEMMA CancelInv ==
  ASSUME Inv, NEW n \in Node, NEW r \in Request, Ask(n, "cancel", r, None),
         Sound(n, "cancel", "first", r, None),
         n \in initializing, initializing' = initializing \ {n}, Unasked, UNCHANGED again
  PROVE Inv' /\ HandOver
<1>1. "first" \in Step /\ "cancel" \in Op BY DEF Step, Op
<1>2. again' \in BOOLEAN BY DEF Inv, TypeOK
<1>3. backend = "kubernetes" \/ again' \/ OwnedBy(n, store["initialize"])
  BY DEF Inv, InitInv, Initializes
<1>4. Asks(n, "cancel", "first", r, None) BY <1>2, <1>3 DEF Asks, Ask, Unasked
<1> QED BY <1>1, <1>4, AsksInv

\* A further request; the session may be another.
LEMMA ProceedInv ==
  ASSUME Inv, NEW n \in Node, NEW step \in Step, NEW r \in Request, Proceed(n, step, r),
         Sound(n, call[n].op, step, r, call[n].index), call[n].op # "cancel",
         backend = "consul" /\ call[n].op = "load" => step # "read",
         UNCHANGED <<setting, view, kubeVars, zooVars, history>>,
         \/ UNCHANGED session
         \/ \E s : OwnSession(n, s) /\ session' = [session EXCEPT ![n] = s],
         \/ UNCHANGED cache
         \/ /\ backend = "kubernetes"
            /\ \E e \in Known("leader") :
                  cache' = [cache EXCEPT ![n] = CacheSet(cache[n], "leader", e)]
  PROVE Inv' /\ HandOver
<1>1. call[n].op \in Op /\ call[n].index \in (0..MaxRev) \cup {None}
  BY DEF Inv, TypeOK, Call
<1>2. again' \in BOOLEAN /\ (again => again') /\ UNCHANGED initializing
  BY DEF Inv, TypeOK, history
<1>3. Asks(n, call[n].op, step, r, call[n].index) BY <1>2 DEF Asks, Proceed
<1> QED BY <1>1, <1>3, AsksInv

LEMMA RetryInv ==
  ASSUME Inv, NEW n \in Node, Again(n), backend = "consul" => call[n].op # "load",
         again' = (again \/ call[n].op = "cancel"), UNCHANGED initializing, Unasked
  PROVE Inv' /\ HandOver
<1> DEFINE c == call[n]
<1>1. c.op \in Op /\ c.step \in Step /\ c.req \in Request /\ c.index \in (0..MaxRev) \cup {None}
  BY DEF Inv, TypeOK, Call, Step
<1>2. Send(n, c.op, c.step, c.req, c.index) /\ ~Free(n) BY DEF Again, Lost, Proceed, Free
<1>3. Sound(n, c.op, c.step, c.req, c.index) /\ (c.op = "cancel" => n \notin initializing)
  BY <1>2 DEF Inv, CallInv, Waits
<1>4. again' \in BOOLEAN /\ (again => again') /\ (c.op = "cancel" => again')
  BY DEF Inv, TypeOK
<1>5. c.op = "cancel" => initializing' = initializing \ {n} BY <1>3
<1>6. Asks(n, c.op, c.step, c.req, c.index)
  BY <1>2, <1>3, <1>4, <1>5 DEF Asks, Unasked
<1> QED BY <1>1, <1>6, AsksInv

LEMMA PutIs ==
  ASSUME NEW key \in Key, NEW value \in Node \cup {None}, NEW s \in Session \cup {None},
         NEW cond \in {"none", "absent", "exists", "owner", "version", "acquire"},
         NEW arg \in (Node \cup 0..MaxRev) \cup {None}
  PROVE /\ Put(key, value, s, cond, arg) \in Request
        /\ Delete(key, cond, arg) \in Request
BY DEF Put, Delete, Request

LEMMA OtherIs ==
  ASSUME NEW n \in Node, NEW s \in Session \cup {None}
  PROVE /\ Grant(n) \in Request /\ Grant(n).kind = "grant" /\ Grant(n).value = n
        /\ KeepAlive(s) \in Request /\ KeepAlive(s).kind = "keepalive"
        /\ Read \in Request /\ Read.kind = "read"
BY DEF Grant, KeepAlive, Read, Other, Request, Key

----------------------------------------------------------------------------
\* The end of an operation.

\* The call of n is over, with a result that is true.
IsOver(n) ==
    /\ call' \in [Node -> Call] /\ \A m \in Node \ {n} : call'[m] = call[m]
    /\ Free(n)' /\ call'[n].step = "first" /\ call'[n].at = 0 /\ Truly(n)'

LEMMA FailedIs ==
  Failed \in Call
BY StoreConstants, OtherIs DEF Failed, Call, Op, Read, Other, Request, Key, Stored

LEMMA FailedOver ==
  ASSUME TypeOK, NEW n \in Node, call' = [call EXCEPT ![n] = Failed]
  PROVE IsOver(n)
<1>1. call' \in [Node -> Call] /\ call'[n] = Failed /\ \A m \in Node \ {n} : call'[m] = call[m]
  BY FailedIs DEF TypeOK
<1> QED BY <1>1 DEF IsOver, Free, Truly, Returned, Failed

\* What has been written on condition that it was n's was n's.
LEMMA HitMine ==
  ASSUME Inv, NEW n \in Node, call[n].ans = "ok", Writes(call[n].req), Mine(n, call[n].req)
  PROVE OwnedBy(n, call[n].hit)
<1> DEFINE r == call[n].req
<1>1. Met(r, call[n].hit) BY DEF Inv, CallInv, Waits
<1>2. CASE r.cond = "owner" /\ r.arg = n BY <1>1, <1>2 DEF Met
<1>3. CASE r.cond = "version" /\ VersionIs("leader", r.arg, n)
  <2>1. call[n].hit # None /\ call[n].hit.version = r.arg BY <1>1, <1>3 DEF Met
  <2>2. call[n].hit \in Entry BY <2>1 DEF Inv, TypeOK, Call, Stored
  <2>3. call[n].hit \in Known("leader")
    BY <2>2 DEF Known, IsTold, Answered, Mine
  <2> QED BY <1>3, <2>1, <2>3 DEF VersionIs, OwnedBy
<1> QED BY <1>2, <1>3 DEF Mine

LEMMA ReturnOver ==
  ASSUME Inv, UNCHANGED backend, NEW n \in Node, NEW ok \in BOOLEAN, ~Free(n), Return(n, ok),
         ok /\ (AsksForKey \/ call[n].op = "sync") =>
            call[n].ans = "ok" /\ (call[n].op = "update" => call[n].step # "read")
  PROVE IsOver(n)
<1> DEFINE c == [Failed EXCEPT !.op = call[n].op, !.ans = "true",
                               !.hit = call[n].hit, !.index = call[n].index]
<1>1. CASE call' = [call EXCEPT ![n] = Failed] BY <1>1, FailedOver DEF Inv
<1>2. CASE ok /\ call[n].op \in {"update", "sync"} /\ call' = [call EXCEPT ![n] = c]
  <2>1. call[n] \in Call BY DEF Inv, TypeOK
  <2>2. c \in Call BY <2>1, FailedIs DEF Call, Failed
  <2>3. call' \in [Node -> Call] /\ call'[n] = c /\ \A m \in Node \ {n} : call'[m] = call[m]
    BY <1>2, <2>2 DEF Inv, TypeOK
  <2>4. /\ c.ans = "true" /\ c.op = call[n].op /\ c.hit = call[n].hit
        /\ c.index = call[n].index /\ c.at = 0 /\ c.step = "first"
    BY DEF Failed
  <2>5. Sound(n, call[n].op, call[n].step, call[n].req, call[n].index)
    BY DEF Inv, CallInv, Waits
  <2>6. ASSUME AsksForKey, call[n].op = "update" PROVE OwnedBy(n, call[n].hit)
    <3>1. call[n].ans = "ok" /\ call[n].step # "read" BY <1>2, <2>6
    <3>2. Writes(call[n].req) /\ Mine(n, call[n].req)
      BY <2>5, <2>6, <3>1 DEF Sound, Writes
    <3> QED BY <3>1, <3>2, HitMine
  <2>7. ASSUME call[n].op = "sync", call[n].index # None,
               ~(backend = "zookeeper" /\ call[n].index = 0)
        PROVE call[n].hit # None /\ call[n].hit.version = call[n].index
    <3>1. call[n].ans = "ok" BY <1>2, <2>7
    <3>2. Writes(call[n].req) /\ call[n].req.cond = "version" /\ call[n].req.arg = call[n].index
      BY <2>5, <2>7 DEF Sound
    <3> QED BY <3>1, <3>2 DEF Inv, CallInv, Waits, Met
  <2>8. Truly(n)'
    BY <2>3, <2>4, <2>6, <2>7 DEF Truly, Returned, AsksForKey, OwnedBy
  <2> QED BY <2>3, <2>4, <2>8 DEF IsOver, Free
<1> QED BY <1>1, <1>2 DEF Return

----------------------------------------------------------------------------
\* What is known.

LEMMA KnownIs ==
  ASSUME TypeOK, NEW n \in Node, NEW k \in Key
  PROVE /\ store[k] = None \/ store[k] \in Known(k)
        /\ cache[n][k] = None \/ cache[n][k] \in Known(k)
        /\ seen[n] = None \/ seen[n] \in Known("leader")
        /\ view[n] # None /\ (backend = "kubernetes" => k # "leader") =>
              view[n][k] = None \/ view[n][k] \in Known(k)
        /\ Answered(n) /\ call[n].req.key = k => call[n].hit = None \/ call[n].hit \in Known(k)
<1>1. /\ store[k] \in Stored /\ cache[n][k] \in Stored /\ seen[n] \in Stored
      /\ call[n].hit \in Stored
      /\ view[n] # None => view[n][k] \in Stored
  BY DEF TypeOK, Call
<1> QED BY <1>1 DEF Stored, Known, Reads, IsTold, Key

LEMMA LearnsOver ==
  ASSUME Inv, UNCHANGED backend, NEW n \in Node, Free(n)' \/ UNCHANGED call,
         \A j \in Key :
            /\ \/ view'[n] = view[n] \/ view'[n] = None
               \/ (backend = "kubernetes" /\ j = "leader")
               \/ view'[n][j] = None \/ view'[n][j] \in Known(j)
            /\ cache'[n][j] = None \/ cache'[n][j] \in Known(j),
         seen'[n] = None \/ seen'[n] \in Known("leader")
  PROVE Learns(n, "leader", None)
<1> SUFFICES ASSUME NEW j \in Key, NEW x \in Entry, (Reads(n, j, x) \/ IsTold(n, j, x))'
             PROVE x \in Known(j)
  BY DEF Learns
<1>1. x # None BY NoneIsNoEntry
<1>2. CASE IsTold(n, j, x)'
  <2>1. UNCHANGED call BY <1>2 DEF IsTold, Answered, Wrote, Free
  <2>2. IsTold(n, j, x) BY <1>2, <2>1 DEF IsTold, Answered, Wrote, Written
  <2> QED BY <2>2 DEF Known
<1>3. CASE x = cache'[n][j] BY <1>1, <1>3
<1>4. CASE j = "leader" /\ x = seen'[n] BY <1>1, <1>4
<1>5. CASE view'[n] # None /\ x = view'[n][j] /\ (backend = "kubernetes" => j # "leader")
  <2>1. CASE view'[n] = view[n] BY <1>5, <2>1 DEF Known, Reads
  <2>2. CASE view'[n] # view[n] BY <1>1, <1>5, <2>2
  <2> QED BY <2>1, <2>2
<1> QED BY <1>2, <1>3, <1>4, <1>5 DEF Reads

----------------------------------------------------------------------------
\* What the answer to a request does to the cache.

LEMMA NotedIs ==
  ASSUME Inv, backend \in {"etcd3", "kubernetes"}, NEW n \in Node, ~Free(n)
  PROVE /\ Noted(n) \in [Key -> Stored]
        /\ \A j \in Key : Noted(n)[j] = None \/ Noted(n)[j] \in Known(j)
        /\ \A j \in Key : Shows(n, j, cache[n][j]) => Shows(n, j, Noted(n)[j])
<1> USE DEF Inv
<1> DEFINE r == call[n].req
<1>1. cache[n] \in [Key -> Stored] /\ call[n] \in Call /\ r \in Request /\ r.key \in Key
  BY DEF TypeOK, Call, Request
<1>2. \A j \in Key : cache[n][j] = None \/ cache[n][j] \in Known(j) BY KnownIs
<1>3. CASE Noted(n) = cache[n] BY <1>1, <1>2, <1>3
<1>4. CASE Wrote(n) /\ Noted(n) = CacheSet(cache[n], r.key, Written(n))
  <2>1. Written(n) \in Entry BY <1>1 DEF Written, Entry, Call, Request
  <2>2. Written(n) \in Known(r.key) BY <1>4, <2>1 DEF Known, IsTold
  <2>3. backend = "etcd3" => Written(n).value = n
    BY <1>4 DEF CallInv, Waits, Sound, Wrote, Written
  <2>4. /\ Noted(n) \in [Key -> Stored]
        /\ \A j \in Key \ {r.key} : Noted(n)[j] = cache[n][j]
        /\ Noted(n)[r.key] \in {cache[n][r.key], Written(n)}
    BY <1>1, <1>4, <2>1, CacheSetIs
  <2>5. Shows(n, r.key, cache[n][r.key]) => Shows(n, r.key, Noted(n)[r.key])
    BY <1>1, <1>4, <2>2, <2>3, CacheSetShows
  <2> QED BY <1>1, <1>2, <2>2, <2>4, <2>5
<1>5. CASE call[n].ans = "ok" /\ r.kind = "delete"
           /\ Noted(n) = CacheDelete(cache[n], r.key, call[n].at)
  <2>1. backend = "etcd3" BY <1>5 DEF CallInv, Waits, Sound
  <2>2. /\ Noted(n) \in [Key -> Stored]
        /\ \A j \in Key \ {r.key} : Noted(n)[j] = cache[n][j]
        /\ Noted(n)[r.key] = IF cache[n][r.key] # None /\ cache[n][r.key].version < call[n].at
                             THEN None ELSE cache[n][r.key]
    BY <1>1, <1>5, CacheDeleteIs
  <2>3. store[r.key] # None => call[n].at < store[r.key].version
    BY <1>1, <1>5, <2>1 DEF CacheInv, Watching
  <2>4. store[r.key] # None => store[r.key].version \in Nat /\ call[n].at \in Nat
    BY <1>1 DEF TypeOK, Stored, Entry, Call
  <2>5. Shows(n, r.key, cache[n][r.key]) => Shows(n, r.key, Noted(n)[r.key])
    BY <2>1, <2>2, <2>3, <2>4 DEF Shows
  <2> QED BY <1>1, <1>2, <2>2, <2>5
<1>6. \/ Noted(n) = cache[n]
      \/ Wrote(n) /\ Noted(n) = CacheSet(cache[n], r.key, Written(n))
      \/ call[n].ans = "ok" /\ r.kind = "delete"
         /\ Noted(n) = CacheDelete(cache[n], r.key, call[n].at)
  BY DEF Noted, Wrote, Written, Writes
<1> QED BY <1>3, <1>4, <1>5, <1>6

\* Kubernetes: the node that initializes the cluster has the newest version of its key.
LEMMA KubeNoted ==
  ASSUME Inv, backend = "kubernetes", NEW n \in Node, ~Free(n)
  PROVE /\ \A j \in Key : cache[n][j] # None => Noted(n)[j] # None
        /\ n \in initializing \/ (call[n].op = "initialize" /\ call[n].ans = "ok") =>
              Noted(n)["initialize"] = store["initialize"]
<1> USE DEF Inv
<1> DEFINE r == call[n].req
           k == "initialize"
<1>1. cache[n] \in [Key -> Stored] /\ call[n] \in Call /\ r \in Request /\ r.key \in Key /\ k \in Key
  BY DEF TypeOK, Call, Request, Key
<1>2. Kubes(n) /\ Waits(n) BY DEF KubeInv, CallInv
<1>3. Noted(n) = IF Wrote(n) THEN CacheSet(cache[n], r.key, Written(n)) ELSE cache[n]
  BY <1>2 DEF Noted, Wrote, Written, Writes, Waits, Sound
<1>4. CASE ~Wrote(n)
  <2>1. Noted(n) = cache[n] BY <1>3, <1>4
  <2>2. ~(call[n].op = "initialize" /\ call[n].ans = "ok")
    BY <1>2, <1>4 DEF Waits, Sound, Wrote
  <2> QED BY <1>2, <2>1, <2>2 DEF Kubes
<1>5. CASE Wrote(n)
  <2>1. Written(n) \in Entry BY <1>1 DEF Written, Entry, Call, Request
  <2>2. Written(n) \in Known(r.key) BY <1>5, <2>1 DEF Known, IsTold
  <2>3. /\ \A j \in Key \ {r.key} : Noted(n)[j] = cache[n][j]
        /\ Noted(n)[r.key] = IF cache[n][r.key] = None \/ cache[n][r.key].version < Written(n).version
                             THEN Written(n) ELSE cache[n][r.key]
        /\ Noted(n)[r.key] # None
    BY <1>1, <1>3, <1>5, <2>1, CacheSetIs
  <2>4. store[r.key] # None BY <1>1, <2>2 DEF VersionInv
  <2>5. /\ Written(n).version <= store[r.key].version
        /\ cache[n][r.key] # None => cache[n][r.key].version <= store[r.key].version
        /\ store[r.key] \in Known(r.key)
    BY <1>1, <2>2, <2>4, KnownIs DEF VersionInv
  <2>6. Written(n).version \in Nat /\ store[r.key].version \in Nat
        /\ (cache[n][r.key] # None => cache[n][r.key].version \in Nat)
    BY <1>1, <2>1, <2>5 DEF Entry, Known, Stored
  <2>7. ASSUME n \in initializing PROVE Noted(n)[k] = store[k]
    <3>1. cache[n][k] = store[k] BY <1>2, <2>7 DEF Kubes
    <3>2. CASE r.key = k BY <2>3, <2>4, <2>5, <2>6, <3>1, <3>2
    <3> QED BY <1>1, <2>3, <3>1, <3>2
  <2>8. ASSUME call[n].op = "initialize" PROVE Noted(n)[k] = store[k]
    <3>1. r.key = k BY <1>2, <2>8 DEF Waits, Sound
    <3>2. store[k] # None /\ store[k].version = Written(n).version
      BY <1>2, <1>5, <2>8 DEF Kubes, Wrote, Written
    <3>3. Written(n) = store[k] BY <1>1, <2>2, <2>5, <3>1, <3>2 DEF VersionInv
    <3>4. CASE cache[n][k] = None BY <2>3, <3>1, <3>3, <3>4
    <3>5. CASE cache[n][k] # None
      <4>1. cache[n][k] \in Known(k) BY <1>1, <3>5, KnownIs
      <4>2. cache[n][k].version = store[k].version => cache[n][k] = store[k]
        BY <1>1, <2>5, <3>1, <4>1 DEF VersionInv
      <4> QED BY <2>3, <2>5, <2>6, <3>1, <3>3, <3>5, <4>2
    <3> QED BY <3>4, <3>5
  <2> QED BY <2>3, <2>7, <2>8
<1> QED BY <1>4, <1>5

----------------------------------------------------------------------------
\* What a node has seen when it makes a request.

LEMMA SyncIs ==
  ASSUME TypeOK, NEW n \in Node, SeesItself(n)
  PROVE SyncIndex(n) \in (0..MaxRev) \cup {None}
<1>1. view[n] \in [Key -> Stored] BY DEF TypeOK, SeesItself
<1> QED BY <1>1 DEF SyncIndex, Stored, Entry, Key

LEMMA KnownVersion ==
  ASSUME TypeOK, VersionInv, backend # "zookeeper", NEW k \in Key, NEW e \in Known(k)
  PROVE /\ VersionIs(k, e.version, e.value) /\ e.version \in 0..MaxRev
        /\ e # None /\ e \in Entry
<1>1. e \in Entry /\ e # None BY NoneIsNoEntry DEF Known
<1>2. e.version \in 0..MaxRev /\ e.version <= rev BY <1>1 DEF Entry, VersionInv
<1>3. \A f \in Known(k) : f.version = e.version => f.value = e.value
  BY DEF VersionInv
<1> QED BY <1>1, <1>2, <1>3 DEF VersionIs, TypeOK

LEMMA VersionBound ==
  ASSUME TypeOK, NEW k, NEW v, NEW x, VersionIs(k, v, x)
  PROVE v \in 0..MaxRev
<1>1. v \in 0..rev BY DEF VersionIs
<1>2. rev \in 0..MaxRev /\ MaxRev \in Nat BY StoreConstants DEF TypeOK
<1> QED BY <1>1, <1>2

\* The leader that n sees, on a back-end whose leader key does not grow old.
LEMMA SeesOwn ==
  ASSUME TypeOK, VersionInv, backend \notin {"zookeeper", "kubernetes"},
         NEW n \in Node, SeesItself(n)
  PROVE /\ VersionIs("leader", view[n]["leader"].version, n)
        /\ view[n]["leader"].version \in 0..MaxRev
<1>1. view[n] # None /\ view[n]["leader"] # None /\ view[n]["leader"].value = n
  BY DEF SeesItself, OwnedBy
<1>2. view[n]["leader"] \in Known("leader") /\ "leader" \in Key BY <1>1, KnownIs DEF Key
<1> QED BY <1>1, <1>2, KnownVersion

----------------------------------------------------------------------------
\* Requests that are sound.

LEMMA NodeIs ==
  ASSUME NEW n \in Node
  PROVE n # None /\ None \notin 0..MaxRev
BY StoreConstants

LEMMA SoundLeader ==
  ASSUME NEW n \in Node, NEW op \in {"acquire", "take", "update"},
         NEW step \in {"first", "grant", "then"}, NEW s, NEW cond, NEW arg, NEW i,
         LeaderPut(n, op, Put("leader", n, s, cond, arg)),
         op = "take" => n \in initializing,
         op = "update" /\ AsksForKey => Mine(n, Put("leader", n, s, cond, arg))
  PROVE Sound(n, op, step, Put("leader", n, s, cond, arg), i)
<1> SUFFICES ASSUME NEW r, r = Put("leader", n, s, cond, arg) PROVE Sound(n, op, step, r, i)
  OBVIOUS
<1>1. r.kind = "put" /\ r.key = "leader" /\ r.value = n BY DEF Put
<1>2. n # None BY NodeIs
<1> QED BY <1>1, <1>2 DEF Sound, Writes

LEMMA SoundInitialize ==
  ASSUME NEW n \in Node, NEW cond, NEW arg, NEW i,
         InitializePut(n, Put("initialize", n, None, cond, arg))
  PROVE Sound(n, "initialize", "first", Put("initialize", n, None, cond, arg), i)
<1> SUFFICES ASSUME NEW r, r = Put("initialize", n, None, cond, arg)
               PROVE  Sound(n, "initialize", "first", r, i)
  OBVIOUS
<1>1. r.kind = "put" /\ r.key = "initialize" /\ r.value = n BY DEF Put
<1> QED BY <1>1 DEF Sound, Writes

LEMMA SoundSync ==
  ASSUME NEW n \in Node, NEW step \in {"first", "then"}, NEW cond, NEW arg, NEW i,
         i # None /\ ~(backend = "zookeeper" /\ i = 0) => cond = "version" /\ arg = i
  PROVE Sound(n, "sync", step, Put("sync", n, None, cond, arg), i)
<1> SUFFICES ASSUME NEW r, r = Put("sync", n, None, cond, arg) PROVE Sound(n, "sync", step, r, i)
  OBVIOUS
<1>1. r.kind = "put" /\ r.key = "sync" /\ r.value = n /\ r.cond = cond /\ r.arg = arg BY DEF Put
<1> QED BY <1>1 DEF Sound, Writes

LEMMA SoundDelete ==
  ASSUME NEW n \in Node, backend # "kubernetes", NEW op \in {"delete", "load"},
         NEW step \in {"first", "then"}, NEW cond, NEW arg, NEW i,
         backend # "zookeeper" => Mine(n, Delete("leader", cond, arg))
  PROVE Sound(n, op, step, Delete("leader", cond, arg), i)
<1> SUFFICES ASSUME NEW r, r = Delete("leader", cond, arg) PROVE Sound(n, op, step, r, i)
  OBVIOUS
<1>1. r.kind = "delete" /\ r.key = "leader" BY DEF Delete
<1> QED BY <1>1 DEF Sound, Writes

LEMMA SoundCancel ==
  ASSUME NEW n \in Node, backend # "kubernetes", NEW step \in {"first", "then"},
         NEW cond, NEW arg, NEW i, backend = "zookeeper" => step = "then"
  PROVE Sound(n, "cancel", step, Delete("initialize", cond, arg), i)
<1> SUFFICES ASSUME NEW r, r = Delete("initialize", cond, arg) PROVE Sound(n, "cancel", step, r, i)
  OBVIOUS
<1>1. r.kind = "delete" /\ r.key = "initialize" BY DEF Delete
<1> QED BY <1>1 DEF Sound, Writes, CancelPut

\* Nothing is written.
LEMMA SoundOther ==
  ASSUME NEW n \in Node, NEW op \in {"load", "acquire", "update", "touch", "cancel"},
         NEW step \in Step, NEW r, NEW i, r.kind \in {"keepalive", "grant", "read"},
         r.kind = "grant" => r.value = n,
         op = "update" /\ AsksForKey => step = "read",
         op = "cancel" => backend = "zookeeper" /\ step = "first" /\ r.kind = "read",
         step = "read" => op = "update" /\ r = Read /\ backend = "kubernetes"
  PROVE Sound(n, op, step, r, i)
BY DEF Sound, Writes, Step

----------------------------------------------------------------------------
\* Etcd.

LEMMA V2Asks ==
  ASSUME Inv, backend = "etcd", NEW n \in Node,
         \/ V2!AttemptToAcquireLeader(n) \/ V2!TakeLeader(n) \/ V2!UpdateLeader(n)
         \/ V2!DeleteLeader(n) \/ V2!Initialize(n) \/ V2!SetSyncStateValue(n)
  PROVE Inv' /\ HandOver
<1> USE V2Is, PutIs DEF Key, Op
<1>1. Unasked /\ UNCHANGED history
  BY DEF V2!AttemptToAcquireLeader, V2!TakeLeader, V2!UpdateLeader, V2!DeleteLeader,
     V2!Initialize, V2!SetSyncStateValue, V2!rest, V2!setting, V2!kubeVars, V2!zooVars,
     V2!history, Unasked, setting, kubeVars, zooVars, history
<1>2. CASE V2!AttemptToAcquireLeader(n)
  <2> DEFINE r == Put("leader", n, None, "absent", None)
  <2>1. Ask(n, "acquire", r, None) BY <1>2 DEF V2!AttemptToAcquireLeader
  <2>2. Sound(n, "acquire", "first", r, None) BY SoundLeader DEF LeaderPut, Put
  <2> QED BY <1>1, <2>1, <2>2, AskInv
<1>3. CASE V2!TakeLeader(n)
  <2> DEFINE r == Put("leader", n, None, "none", None)
  <2>1. Ask(n, "take", r, None) /\ n \in initializing BY <1>3 DEF V2!TakeLeader
  <2>2. Sound(n, "take", "first", r, None) BY <2>1, SoundLeader DEF LeaderPut, Put
  <2> QED BY <1>1, <2>1, <2>2, AskInv
<1>4. CASE V2!UpdateLeader(n)
  <2> DEFINE r == Put("leader", n, None, "owner", n)
  <2>1. Ask(n, "update", r, None) BY <1>4 DEF V2!UpdateLeader
  <2>2. Sound(n, "update", "first", r, None) BY SoundLeader DEF LeaderPut, Mine, Put
  <2> QED BY <1>1, <2>1, <2>2, AskInv
<1>5. CASE V2!DeleteLeader(n)
  <2> DEFINE r == Delete("leader", "owner", n)
  <2>1. Ask(n, "delete", r, None) BY <1>5 DEF V2!DeleteLeader
  <2>2. Sound(n, "delete", "first", r, None) BY SoundDelete DEF Mine, Delete
  <2> QED BY <1>1, <2>1, <2>2, AskInv
<1>6. CASE V2!Initialize(n)
  <2> DEFINE r == Put("initialize", n, None, "absent", None)
  <2>1. Ask(n, "initialize", r, None) BY <1>6 DEF V2!Initialize
  <2>2. Sound(n, "initialize", "first", r, None) BY SoundInitialize DEF InitializePut, Put
  <2> QED BY <1>1, <2>1, <2>2, AskInv
<1>7. CASE V2!SetSyncStateValue(n)
  <2> DEFINE i == SyncIndex(n)
             r == Put("sync", n, None, IF i = None THEN "none" ELSE "version", i)
  <2>1. Ask(n, "sync", r, i) /\ SeesItself(n) BY <1>7 DEF V2!SetSyncStateValue
  <2>2. i \in (0..MaxRev) \cup {None} BY <2>1, SyncIs DEF Inv
  <2>3. Sound(n, "sync", "first", r, i) BY SoundSync
  <2>4. r \in Request BY <2>2
  <2> QED BY <1>1, <2>1, <2>2, <2>3, <2>4, AskInv
<1> QED BY <1>2, <1>3, <1>4, <1>5, <1>6, <1>7

LEMMA V2Inv ==
  ASSUME Inv, backend = "etcd", V2!Next
  PROVE Inv' /\ HandOver
<1> USE V2Is DEF Inv
<1> USE DEF V2!rest, V2!setting, V2!kubeVars, V2!zooVars, V2!history, V2!server, V2!data,
        setting, kubeVars, zooVars, history, server, data
<1>1. CASE V2!Expire
  <2>1. UNCHANGED <<setting, granted, alive, faults, session, call, view, cache, kubeVars,
                    zooVars, history>>
    BY <1>1 DEF V2!Expire
  <2>2. Changes("leader", None) BY <1>1 DEF V2!Expire, Changes
  <2>3. Expires BY <2>1, <2>2 DEF Expires
  <2>4. "leader" \in Key /\ None \in Stored BY DEF Key, Stored
  <2>5. TypeOK' BY <2>1, <2>2, <2>4, ChangesDoes DEF TypeOK
  <2> QED BY <2>3, <2>5, ExpiresInv
<1>2. ASSUME NEW n \in Node,
             \/ V2!AttemptToAcquireLeader(n) \/ V2!TakeLeader(n) \/ V2!UpdateLeader(n)
             \/ V2!DeleteLeader(n) \/ V2!Initialize(n) \/ V2!SetSyncStateValue(n)
      PROVE Inv' /\ HandOver
  BY <1>2, V2Asks
<1>3. ASSUME NEW n \in Node, V2!CancelInitialization(n) PROVE Inv' /\ HandOver
  <2> DEFINE r == Delete("initialize", "none", None)
  <2>1. Ask(n, "cancel", r, None) /\ n \in initializing /\ initializing' = initializing \ {n}
    BY <1>3 DEF V2!CancelInitialization
  <2>2. Unasked /\ UNCHANGED again BY <1>3 DEF V2!CancelInitialization, Unasked
  <2>3. Sound(n, "cancel", "first", r, None) BY SoundCancel
  <2>4. r \in Request BY PutIs DEF Key
  <2> QED BY <2>1, <2>2, <2>3, <2>4, CancelInv
<1>4. ASSUME NEW n \in Node, V2!Retry(n) PROVE Inv' /\ HandOver
  BY <1>4, RetryInv DEF V2!Retry, Unasked
<1>5. ASSUME NEW n \in Node, V2!LoadCluster(n) PROVE Inv' /\ HandOver
  <2>1. UNCHANGED <<setting, session, cache, kubeVars, zooVars, server, stream, ready, history>>
    BY <1>5 DEF V2!LoadCluster
  <2>2. /\ call' = [call EXCEPT ![n] = Failed]
        /\ view' = [view EXCEPT ![n] = store] \/ view' = [view EXCEPT ![n] = None]
    BY <1>5 DEF V2!LoadCluster
  <2>3. IsOver(n) BY <2>2, FailedOver
  <2>4. view' \in [Node -> [Key -> Stored] \cup {None}] /\ view'[n] \in {store, None}
        /\ \A m \in Node \ {n} : view'[m] = view[m]
    BY <2>2 DEF TypeOK
  <2>5. TypeOK' BY <2>1, <2>3, <2>4 DEF TypeOK, IsOver
  <2>6. Elsewhere(n) BY <2>1, <2>3, <2>4 DEF Elsewhere, IsOver
  <2>7. Learns(n, "leader", None)
    <3>1. \A j \in Key : view'[n] = None \/ view'[n][j] = None \/ view'[n][j] \in Known(j)
      BY <2>4, KnownIs
    <3>2. UNCHANGED <<backend, cache, seen>> /\ Free(n)' BY <2>1, <2>3 DEF IsOver
    <3>3. \A j \in Key : cache[n][j] = None \/ cache[n][j] \in Known(j) BY KnownIs
    <3>4. seen[n] = None \/ seen[n] \in Known("leader") BY KnownIs DEF Key
    <3> QED BY <3>1, <3>2, <3>3, <3>4, LearnsOver
  <2>8. Ends(n) BY <2>1, <2>3, <2>6, <2>7 DEF Ends, IsOver, SessionInv
  <2> QED BY <2>5, <2>8, EndsInv
<1>6. ASSUME NEW n \in Node, V2!Finish(n) PROVE Inv' /\ HandOver
  <2>1. UNCHANGED <<setting, session, cache, kubeVars, zooVars, server, view, stream, ready, again>>
    BY <1>6 DEF V2!Finish, NoteInitialize
  <2>2. ~Free(n) /\ Return(n, call[n].ans = "ok")
        /\ NoteInitialize(n, call[n].op = "initialize" /\ call[n].ans = "ok")
    BY <1>6 DEF V2!Finish
  <2>3. Sound(n, call[n].op, call[n].step, call[n].req, call[n].index)
    BY <2>2 DEF CallInv, Waits
  <2>4. IsOver(n)
    <3>1. UNCHANGED backend BY <2>1
    <3>2. call[n].op = "update" => call[n].step # "read" BY <2>3 DEF Sound
    <3> QED BY <2>2, <3>1, <3>2, ReturnOver
  <2>5. TypeOK' BY <2>1, <2>2, <2>4 DEF TypeOK, IsOver, NoteInitialize
  <2>6. Elsewhere(n) BY <2>1, <2>4 DEF Elsewhere, IsOver
  <2>7. Learns(n, "leader", None)
    <3>1. UNCHANGED <<backend, cache, seen, view>> /\ Free(n)' BY <2>1, <2>4 DEF IsOver
    <3>2. \A j \in Key : cache[n][j] = None \/ cache[n][j] \in Known(j) BY KnownIs
    <3>3. seen[n] = None \/ seen[n] \in Known("leader") BY KnownIs DEF Key
    <3> QED BY <3>1, <3>2, <3>3, LearnsOver
  <2>8. Ends(n) BY <2>1, <2>2, <2>4, <2>6, <2>7 DEF Ends, IsOver, SessionInv, NoteInitialize
  <2> QED BY <2>5, <2>8, EndsInv
<1> QED BY <1>1, <1>2, <1>3, <1>4, <1>5, <1>6 DEF V2!Next

----------------------------------------------------------------------------
\* Etcd3.

LEMMA LatestIs ==
  ASSUME TypeOK, NEW n \in Node
  PROVE Latest(n) \in Session /\ Latest(n) # None /\ OwnSession(n, Latest(n))
<1>1. granted[n] \in 0..MaxGrants BY DEF TypeOK
<1>2. Latest(n) \in Node \X Nat BY <1>1, StoreConstants DEF Latest
<1> QED BY <1>1, <1>2, StoreConstants DEF Latest, Session, OwnSession

\* The server ends a session.
LEMMA ExpireInv ==
  ASSUME Inv, backend # "kubernetes", NEW s, End(s),
         UNCHANGED <<backend, concern, call, session, view, cache, seen, ripe, fetch, event,
                     initializing, again>>
  PROVE Inv' /\ HandOver
<1>1. Changes("leader", None) \/ UNCHANGED <<store, rev, stream, ready>>
  BY DEF End, Changes
<1>2. UNCHANGED <<granted, faults>> /\ alive' \subseteq alive BY DEF End
<1>3. Expires BY <1>1 DEF Expires, history
<1>4. "leader" \in Key /\ None \in Stored BY DEF Key, Stored
<1>5. TypeOK' BY <1>1, <1>2, <1>4, ChangesDoes DEF TypeOK, Inv
<1> QED BY <1>3, <1>5, ExpiresInv

LEMMA V3Asks ==
  ASSUME Inv, backend = "etcd3", NEW n \in Node,
         \/ V3!TouchMember(n) \/ V3!AttemptToAcquireLeader(n) \/ V3!TakeLeader(n)
         \/ V3!UpdateLeader(n) \/ V3!DeleteLeader(n) \/ V3!Initialize(n)
         \/ V3!SetSyncStateValue(n)
  PROVE Inv' /\ HandOver
<1> USE V3Is, PutIs DEF Key, Op, Step
<1>1. Unasked /\ UNCHANGED history
  BY DEF V3!TouchMember, V3!AttemptToAcquireLeader, V3!TakeLeader, V3!UpdateLeader,
     V3!DeleteLeader, V3!Initialize, V3!SetSyncStateValue, V3!local, V3!rest, V3!setting,
     V3!kubeVars, V3!zooVars, V3!history, Unasked, setting, kubeVars, zooVars, history
<1>2. session[n] \in Session \cup {None} /\ ~AsksForKey
  BY DEF Inv, TypeOK, AsksForKey
<1> DEFINE l == IF session[n] = None THEN Grant(n) ELSE KeepAlive(session[n])
<1>3. l \in Request /\ l.kind \in {"grant", "keepalive"} /\ (l.kind = "grant" => l.value = n)
  BY <1>2, OtherIs
<1>4. CASE V3!TouchMember(n)
  <2>1. Ask(n, "touch", l, None) BY <1>4 DEF V3!TouchMember
  <2> HIDE DEF l
  <2>2. Sound(n, "touch", "first", l, None) BY <1>3, SoundOther
  <2> QED BY <1>1, <1>3, <2>1, <2>2, AskInv
<1>5. CASE V3!AttemptToAcquireLeader(n)
  <2> DEFINE p == Put("leader", n, session[n], "absent", None)
             r == IF session[n] = None THEN Grant(n) ELSE p
  <2>1. Ask(n, "acquire", r, None) BY <1>5 DEF V3!AttemptToAcquireLeader
  <2>2. Sound(n, "acquire", "first", p, None) BY SoundLeader DEF LeaderPut, Put
  <2>3. Sound(n, "acquire", "first", Grant(n), None) BY OtherIs, SoundOther
  <2>4. r \in Request /\ Sound(n, "acquire", "first", r, None) BY <1>2, <2>2, <2>3, OtherIs
  <2> HIDE DEF r
  <2> QED BY <1>1, <2>1, <2>4, AskInv
<1>6. CASE V3!TakeLeader(n)
  <2> DEFINE r == Put("leader", n, session[n], "none", None)
  <2>1. Ask(n, "take", r, None) /\ n \in initializing BY <1>6 DEF V3!TakeLeader
  <2>2. Sound(n, "take", "first", r, None) BY <2>1, SoundLeader DEF LeaderPut, Put
  <2>3. r \in Request BY <1>2
  <2> HIDE DEF r
  <2> QED BY <1>1, <2>1, <2>2, <2>3, AskInv
<1>7. CASE V3!UpdateLeader(n)
  <2>1. Ask(n, "update", l, None) BY <1>7 DEF V3!UpdateLeader
  <2> HIDE DEF l
  <2>2. Sound(n, "update", "first", l, None) BY <1>2, <1>3, SoundOther
  <2> QED BY <1>1, <1>3, <2>1, <2>2, AskInv
<1>8. CASE V3!DeleteLeader(n)
  <2> DEFINE v == view[n]["leader"].version
             r == Delete("leader", "version", v)
  <2>1. Ask(n, "delete", r, None) /\ SeesItself(n) BY <1>8 DEF V3!DeleteLeader
  <2>2. VersionIs("leader", v, n) /\ v \in 0..MaxRev BY <2>1, SeesOwn DEF Inv
  <2>3. Mine(n, r) BY <2>2 DEF Mine, Delete
  <2>4. r \in Request /\ Sound(n, "delete", "first", r, None) BY <2>2, <2>3, SoundDelete
  <2> HIDE DEF r
  <2> QED BY <1>1, <2>1, <2>4, AskInv
<1>9. CASE V3!Initialize(n)
  <2> DEFINE r == Put("initialize", n, None, "absent", None)
  <2>1. Ask(n, "initialize", r, None) BY <1>9 DEF V3!Initialize
  <2>2. Sound(n, "initialize", "first", r, None) BY SoundInitialize DEF InitializePut, Put
  <2> QED BY <1>1, <2>1, <2>2, AskInv
<1>10. CASE V3!SetSyncStateValue(n)
  <2> DEFINE i == SyncIndex(n)
             r == Put("sync", n, None, IF i = None THEN "none" ELSE "version", i)
  <2>1. Ask(n, "sync", r, i) /\ SeesItself(n) BY <1>10 DEF V3!SetSyncStateValue
  <2>2. i \in (0..MaxRev) \cup {None} BY <2>1, SyncIs DEF Inv
  <2>3. Sound(n, "sync", "first", r, i) BY SoundSync
  <2>4. r \in Request BY <2>2
  <2> QED BY <1>1, <2>1, <2>2, <2>3, <2>4, AskInv
<1> QED BY <1>4, <1>5, <1>6, <1>7, <1>8, <1>9, <1>10

\* Another request of the same operation.
LEMMA V3Proceeds ==
  ASSUME Inv, backend = "etcd3", NEW n \in Node,
         V3!NewLease(n) \/ V3!AcquireWithNewLease(n) \/ V3!TakeOver(n)
  PROVE Inv' /\ HandOver
<1> USE V3Is, PutIs DEF Key, Step
<1>1. UNCHANGED <<setting, view, cache, kubeVars, zooVars, history>>
  BY DEF V3!NewLease, V3!AcquireWithNewLease, V3!TakeOver, V3!rest, V3!setting,
     V3!kubeVars, V3!zooVars, V3!history, setting, kubeVars, zooVars, history
<1>2. /\ session[n] \in Session \cup {None} /\ OwnSession(n, session[n])
      /\ OwnSession(n, None) /\ ~AsksForKey
      /\ Latest(n) \in Session /\ OwnSession(n, Latest(n))
  BY LatestIs DEF Inv, TypeOK, SessionInv, AsksForKey, OwnSession
<1>3. CASE V3!NewLease(n)
  <2>1. /\ Proceed(n, "grant", Grant(n)) /\ call[n].op \in {"touch", "acquire"}
        /\ session' = [session EXCEPT ![n] = None]
    BY <1>3 DEF V3!NewLease
  <2>2. Sound(n, call[n].op, "grant", Grant(n), call[n].index) BY <2>1, OtherIs, SoundOther
  <2> QED BY <1>1, <1>2, <2>1, <2>2, OtherIs, ProceedInv
<1>4. CASE V3!AcquireWithNewLease(n)
  <2> DEFINE r == Put("leader", n, Latest(n), "absent", None)
             s == IF call[n].step = "first" THEN "first" ELSE "then"
  <2>1. /\ Proceed(n, s, r) /\ call[n].op = "acquire"
        /\ session' = [session EXCEPT ![n] = Latest(n)]
    BY <1>4 DEF V3!AcquireWithNewLease
  <2>2. Sound(n, "acquire", s, r, call[n].index)
    BY SoundLeader DEF LeaderPut, Put
  <2>3. r \in Request /\ s \in {"first", "then"} BY <1>2
  <2> HIDE DEF r, s
  <2> QED BY <1>1, <1>2, <2>1, <2>2, <2>3, ProceedInv
<1>5. CASE V3!TakeOver(n)
  <2> DEFINE o == V3!OwnLease(n)
             r == Put("leader", n, o, "none", None)
  <2>1. /\ Proceed(n, "then", r) /\ call[n].op = "update"
        /\ session' = [session EXCEPT ![n] = o]
    BY <1>5 DEF V3!TakeOver, V3!LeaseAnswered
  <2>2. o \in Session \cup {None} /\ OwnSession(n, o) BY <1>2 DEF V3!OwnLease
  <2>3. Sound(n, "update", "then", r, call[n].index)
    BY <1>2, SoundLeader DEF LeaderPut, Put
  <2>4. r \in Request BY <2>2
  <2> HIDE DEF r, o
  <2> QED BY <1>1, <2>1, <2>2, <2>3, <2>4, ProceedInv
<1> QED BY <1>3, <1>4, <1>5

LEMMA V3Ends ==
  ASSUME Inv, backend = "etcd3", NEW n \in Node,
         V3!LoadCluster(n) \/ V3!Finish(n) \/ V3!SetTtl(n)
  PROVE Inv' /\ HandOver
<1> USE V3Is DEF Inv
<1> USE DEF V3!rest, V3!setting, V3!kubeVars, V3!zooVars, V3!history, V3!server, V3!data,
        V3!watchVars, setting, kubeVars, zooVars, history, server, data, watchVars
<1>1. /\ \A j \in Key : cache[n][j] = None \/ cache[n][j] \in Known(j)
      /\ seen[n] = None \/ seen[n] \in Known("leader")
  BY KnownIs DEF Key
<1>2. OwnSession(n, session[n]) /\ OwnSession(n, None) BY DEF SessionInv, OwnSession
<1>3. CASE V3!LoadCluster(n)
  <2>1. UNCHANGED <<setting, session, cache, kubeVars, zooVars, server, stream, ready, history>>
    BY <1>3 DEF V3!LoadCluster
  <2>2. /\ call' = [call EXCEPT ![n] = Failed]
        /\ view' = [view EXCEPT ![n] = IF ready[n] THEN cache[n] ELSE None]
    BY <1>3 DEF V3!LoadCluster
  <2>3. IsOver(n) BY <2>2, FailedOver
  <2>4. view' \in [Node -> [Key -> Stored] \cup {None}] /\ view'[n] \in {cache[n], None}
        /\ \A m \in Node \ {n} : view'[m] = view[m]
    BY <2>2 DEF TypeOK
  <2>5. TypeOK' BY <2>1, <2>3, <2>4 DEF TypeOK, IsOver
  <2>6. Elsewhere(n) BY <2>1, <2>3, <2>4 DEF Elsewhere, IsOver
  <2>7. Learns(n, "leader", None)
    <3>1. UNCHANGED <<backend, cache, seen>> /\ Free(n)' BY <2>1, <2>3 DEF IsOver
    <3> QED BY <1>1, <2>4, <3>1, LearnsOver
  <2>8. Ends(n) BY <1>2, <2>1, <2>3, <2>6, <2>7 DEF Ends, IsOver
  <2> QED BY <2>5, <2>8, EndsInv
<1>4. CASE V3!Finish(n)
  <2>1. UNCHANGED <<setting, kubeVars, zooVars, server, view, stream, ready, again>>
    BY <1>4 DEF V3!Finish, NoteInitialize
  <2>2. /\ ~Free(n) /\ Return(n, V3!Result(n))
        /\ NoteInitialize(n, call[n].op = "initialize" /\ call[n].ans = "ok")
        /\ cache' = [cache EXCEPT ![n] = Noted(n)]
    BY <1>4 DEF V3!Finish
  <2>3. \E s \in {Latest(n), None, session[n]} : session' = [session EXCEPT ![n] = s]
    BY <1>4 DEF V3!Finish
  <2>4. IsOver(n)
    <3>1. UNCHANGED backend /\ ~AsksForKey BY <2>1 DEF AsksForKey
    <3>2. V3!Result(n) \in BOOLEAN /\ (V3!Result(n) /\ call[n].op = "sync" => call[n].ans = "ok")
      BY DEF V3!Result
    <3>3. call[n].op = "update" => call[n].step # "read"
      BY <2>2 DEF CallInv, Waits, Sound
    <3> QED BY <2>2, <3>1, <3>2, <3>3, ReturnOver
  <2>5. /\ Noted(n) \in [Key -> Stored]
        /\ \A j \in Key : Noted(n)[j] = None \/ Noted(n)[j] \in Known(j)
        /\ \A j \in Key : Shows(n, j, cache[n][j]) => Shows(n, j, Noted(n)[j])
    BY <2>2, NotedIs
  <2>6. /\ cache' \in [Node -> [Key -> Stored]] /\ cache'[n] = Noted(n)
        /\ \A m \in Node \ {n} : cache'[m] = cache[m]
    BY <2>2, <2>5 DEF TypeOK
  <2>7. /\ session' \in [Node -> Session \cup {None}] /\ OwnSession(n, session'[n])
        /\ \A m \in Node \ {n} : session'[m] = session[m]
    <3>1. PICK s \in {Latest(n), None, session[n]} : session' = [session EXCEPT ![n] = s]
      BY <2>3
    <3>2. s \in Session \cup {None} /\ OwnSession(n, s) BY <1>2, LatestIs DEF TypeOK
    <3> QED BY <3>1, <3>2 DEF TypeOK
  <2>8. TypeOK' BY <2>1, <2>2, <2>4, <2>6, <2>7 DEF TypeOK, IsOver, NoteInitialize
  <2>9. Elsewhere(n) BY <2>1, <2>4, <2>6, <2>7 DEF Elsewhere, IsOver
  <2>10. Learns(n, "leader", None)
    <3>1. UNCHANGED <<backend, view, seen>> /\ Free(n)' BY <2>1, <2>4 DEF IsOver
    <3> QED BY <1>1, <2>5, <2>6, <3>1, LearnsOver
  <2>11. Ends(n)
    BY <2>1, <2>2, <2>4, <2>5, <2>6, <2>7, <2>9, <2>10 DEF Ends, IsOver, NoteInitialize
  <2> QED BY <2>8, <2>11, EndsInv
<1>5. CASE V3!SetTtl(n)
  <2>1. UNCHANGED <<setting, kubeVars, zooVars, server, call, view, cache, stream, ready, history>>
        /\ session' = [session EXCEPT ![n] = None]
    BY <1>5 DEF V3!SetTtl
  <2>2. /\ session' \in [Node -> Session \cup {None}] /\ session'[n] = None
        /\ \A m \in Node \ {n} : session'[m] = session[m]
    BY <2>1 DEF TypeOK
  <2>3. TypeOK' BY <2>1, <2>2 DEF TypeOK
  <2>4. Elsewhere(n) /\ Stands(n) BY <2>1, <2>2 DEF Elsewhere, Stands
  <2>5. Learns(n, "leader", None)
    <3>1. UNCHANGED <<backend, call, view, cache, seen>> BY <2>1
    <3> QED BY <1>1, <3>1, LearnsOver
  <2>6. Ends(n) BY <1>2, <2>1, <2>2, <2>4, <2>5 DEF Ends
  <2> QED BY <2>3, <2>6, EndsInv
<1> QED BY <1>3, <1>4, <1>5

LEMMA V3Inv ==
  ASSUME Inv, backend = "etcd3", V3!Next
  PROVE Inv' /\ HandOver
<1> USE V3Is
<1> USE DEF V3!rest, V3!local, V3!setting, V3!kubeVars, V3!zooVars, V3!history, V3!data,
        V3!clientVars, V3!watching, setting, kubeVars, zooVars, history, data, clientVars
<1>1. CASE V3!Expire
  <2>1. PICK s \in alive : End(s)
    BY <1>1 DEF V3!Expire
  <2>2. UNCHANGED <<backend, concern, call, session, view, cache, seen, ripe, fetch, event,
                    initializing, again>>
    BY <1>1 DEF V3!Expire
  <2> QED BY <2>1, <2>2, ExpireInv
<1>2. ASSUME NEW n \in Node, V3!CancelInitialization(n) PROVE Inv' /\ HandOver
  <2> DEFINE r == Delete("initialize", "none", None)
  <2>1. Ask(n, "cancel", r, None) /\ n \in initializing /\ initializing' = initializing \ {n}
    BY <1>2 DEF V3!CancelInitialization
  <2>2. Unasked /\ UNCHANGED again BY <1>2 DEF V3!CancelInitialization, Unasked
  <2>3. Sound(n, "cancel", "first", r, None) BY SoundCancel
  <2>4. r \in Request BY PutIs DEF Key
  <2> QED BY <2>1, <2>2, <2>3, <2>4, CancelInv
<1>3. ASSUME NEW n \in Node, V3!Retry(n) PROVE Inv' /\ HandOver
  BY <1>3, RetryInv DEF V3!Retry, Unasked
<1>4. ASSUME NEW n \in Node, V3!BuildCache(n) \/ V3!ProcessEvent(n) \/ V3!EndWatch(n)
      PROVE Inv' /\ HandOver
  <2>1. Watches(n) BY <1>4 DEF V3!BuildCache, V3!ProcessEvent, V3!EndWatch, Watches
  <2> QED BY <2>1, WatchesInv
<1> QED BY <1>1, <1>2, <1>3, <1>4, V3Asks, V3Proceeds, V3Ends DEF V3!Next

----------------------------------------------------------------------------
\* Consul.

LEMMA CoAsks ==
  ASSUME Inv, backend = "consul", NEW n \in Node,
         \/ Co!TouchMember(n) \/ Co!CreateSession(n) \/ Co!AttemptToAcquireLeader(n)
         \/ Co!UpdateLeader(n) /\ session[n] # None
         \/ Co!DeleteLeader(n) \/ Co!Initialize(n) \/ Co!SetSyncStateValue(n)
  PROVE Inv' /\ HandOver
<1> USE CoIs, PutIs DEF Key, Op, Step
<1>1. Unasked /\ UNCHANGED history
  BY DEF Co!TouchMember, Co!CreateSession, Co!AttemptToAcquireLeader, Co!UpdateLeader,
     Co!DeleteLeader, Co!Initialize, Co!SetSyncStateValue, Co!rest, Co!setting,
     Co!kubeVars, Co!zooVars, Co!history, Unasked, setting, kubeVars, zooVars, history
<1>2. /\ session[n] \in Session \cup {None} /\ OwnSession(n, session[n]) /\ ~AsksForKey
  BY DEF Inv, TypeOK, SessionInv, AsksForKey
<1>3. CASE Co!TouchMember(n)
  <2> DEFINE r == KeepAlive(session[n])
  <2>1. Ask(n, "touch", r, None) BY <1>3 DEF Co!TouchMember
  <2>2. r \in Request /\ Sound(n, "touch", "first", r, None) BY <1>2, OtherIs, SoundOther
  <2> HIDE DEF r
  <2> QED BY <1>1, <2>1, <2>2, AskInv
<1>4. CASE Co!CreateSession(n)
  <2> DEFINE r == Grant(n)
  <2>1. Ask(n, "touch", r, None) BY <1>4 DEF Co!CreateSession
  <2>2. r \in Request /\ Sound(n, "touch", "first", r, None) BY OtherIs, SoundOther
  <2> HIDE DEF r
  <2> QED BY <1>1, <2>1, <2>2, AskInv
<1>5. CASE Co!AttemptToAcquireLeader(n)
  <2> DEFINE p == Put("leader", n, session[n], "acquire", None)
             r == IF session[n] = None THEN Grant(n) ELSE p
  <2>1. Ask(n, "acquire", r, None) BY <1>5 DEF Co!AttemptToAcquireLeader
  <2>2. ASSUME session[n] # None PROVE Sound(n, "acquire", "first", p, None)
    BY <1>2, <2>2, SoundLeader DEF LeaderPut, Put
  <2>3. Sound(n, "acquire", "first", Grant(n), None) BY OtherIs, SoundOther
  <2>4. r \in Request /\ Sound(n, "acquire", "first", r, None) BY <1>2, <2>2, <2>3, OtherIs
  <2> HIDE DEF r
  <2> QED BY <1>1, <2>1, <2>4, AskInv
<1>6. CASE Co!UpdateLeader(n) /\ session[n] # None
  <2> DEFINE r == KeepAlive(session[n])
  <2>1. Ask(n, "update", r, None) BY <1>6 DEF Co!UpdateLeader
  <2>2. r \in Request /\ r.kind = "keepalive" /\ Sound(n, "update", "first", r, None)
    BY <1>2, OtherIs, SoundOther
  <2> HIDE DEF r
  <2> QED BY <1>1, <2>1, <2>2, AskInv
<1>7. CASE Co!DeleteLeader(n)
  <2> DEFINE v == view[n]["leader"].version
             r == Delete("leader", "version", v)
  <2>1. Ask(n, "delete", r, None) /\ SeesItself(n) BY <1>7 DEF Co!DeleteLeader
  <2>2. VersionIs("leader", v, n) /\ v \in 0..MaxRev BY <2>1, SeesOwn DEF Inv
  <2>3. Mine(n, r) BY <2>2 DEF Mine, Delete
  <2>4. r \in Request /\ Sound(n, "delete", "first", r, None) BY <2>2, <2>3, SoundDelete
  <2> HIDE DEF r
  <2> QED BY <1>1, <2>1, <2>4, AskInv
<1>8. CASE Co!Initialize(n)
  <2> DEFINE r == Put("initialize", n, None, "absent", None)
  <2>1. Ask(n, "initialize", r, None) BY <1>8 DEF Co!Initialize
  <2>2. Sound(n, "initialize", "first", r, None) BY SoundInitialize DEF InitializePut, Put
  <2> QED BY <1>1, <2>1, <2>2, AskInv
<1>9. CASE Co!SetSyncStateValue(n)
  <2> DEFINE i == SyncIndex(n)
             r == Put("sync", n, None, IF i = None THEN "none" ELSE "version", i)
  <2>1. Ask(n, "sync", r, i) /\ SeesItself(n) BY <1>9 DEF Co!SetSyncStateValue
  <2>2. i \in (0..MaxRev) \cup {None} BY <2>1, SyncIs DEF Inv
  <2>3. Sound(n, "sync", "first", r, i) BY SoundSync
  <2>4. r \in Request BY <2>2
  <2> QED BY <1>1, <2>1, <2>2, <2>3, <2>4, AskInv
<1> QED BY <1>3, <1>4, <1>5, <1>6, <1>7, <1>8, <1>9

LEMMA CoProceeds ==
  ASSUME Inv, backend = "consul", NEW n \in Node,
         Co!RemoveOldKey(n) \/ Co!NewSession(n) \/ Co!AcquireWithNewSession(n)
  PROVE Inv' /\ HandOver
<1> USE CoIs, PutIs DEF Key, Step
<1>1. UNCHANGED <<setting, view, cache, kubeVars, zooVars, history>>
  BY DEF Co!RemoveOldKey, Co!NewSession, Co!AcquireWithNewSession, Co!rest, Co!setting,
     Co!kubeVars, Co!zooVars, Co!history, setting, kubeVars, zooVars, history
<1>2. /\ OwnSession(n, None) /\ ~AsksForKey
      /\ Latest(n) \in Session /\ Latest(n) # None /\ OwnSession(n, Latest(n))
  BY LatestIs DEF Inv, AsksForKey, OwnSession
<1>3. CASE Co!RemoveOldKey(n)
  <2> DEFINE v == call[n].index
             r == Delete("leader", "version", v)
  <2>1. /\ Proceed(n, "then", r) /\ call[n].op = "load" /\ call[n].step = "read"
        /\ UNCHANGED session
    BY <1>3 DEF Co!RemoveOldKey
  <2>2. Waits(n) BY DEF Inv, CallInv
  <2>3. VersionIs("leader", v, n) BY <2>1, <2>2 DEF Waits, RemovesOld
  <2>4. v \in 0..MaxRev BY <2>3, VersionBound DEF Inv
  <2>5. Mine(n, r) BY <2>3 DEF Mine, Delete
  <2>6. r \in Request /\ Sound(n, "load", "then", r, v) BY <2>4, <2>5, SoundDelete
  <2> HIDE DEF r
  <2> QED BY <1>1, <2>1, <2>6, ProceedInv
<1>4. CASE Co!NewSession(n)
  <2>1. /\ Proceed(n, "grant", Grant(n)) /\ call[n].op \in {"touch", "acquire"}
        /\ session' = [session EXCEPT ![n] = None]
    BY <1>4 DEF Co!NewSession
  <2>2. Sound(n, call[n].op, "grant", Grant(n), call[n].index) BY <2>1, OtherIs, SoundOther
  <2> QED BY <1>1, <1>2, <2>1, <2>2, OtherIs, ProceedInv
<1>5. CASE Co!AcquireWithNewSession(n)
  <2> DEFINE r == Put("leader", n, Latest(n), "acquire", None)
             s == IF call[n].step = "first" THEN "first" ELSE "then"
  <2>1. /\ Proceed(n, s, r) /\ call[n].op = "acquire"
        /\ session' = [session EXCEPT ![n] = Latest(n)]
    BY <1>5 DEF Co!AcquireWithNewSession
  <2>2. Sound(n, "acquire", s, r, call[n].index)
    BY <1>2, SoundLeader DEF LeaderPut, Put
  <2>3. r \in Request /\ s \in {"first", "then"} BY <1>2
  <2> HIDE DEF r, s
  <2> QED BY <1>1, <1>2, <2>1, <2>2, <2>3, ProceedInv
<1> QED BY <1>3, <1>4, <1>5

LEMMA CoLoads ==
  ASSUME Inv, backend = "consul", NEW n \in Node, Co!LoadCluster(n)
  PROVE Inv' /\ HandOver
<1> USE CoIs DEF Inv
<1>1. UNCHANGED <<setting, session, cache, kubeVars, zooVars, server, stream, ready, history>>
      /\ UNCHANGED <<backend, concern, seen, ripe, fetch, event, store, rev, granted, alive, faults,
                     initializing, again>>
  BY DEF Co!LoadCluster, Co!rest, Co!setting, Co!kubeVars, Co!zooVars, Co!history, Co!server,
     Co!data, setting, kubeVars, zooVars, history, server, data
<1>2. OwnSession(n, session[n]) BY DEF SessionInv
<1> DEFINE leader == store["leader"]
           c == [Failed EXCEPT !.step = "read", !.ans = "ok", !.index = leader.version]
           noLeader == [store EXCEPT !["leader"] = None]
<1>3. \/ view' = [view EXCEPT ![n] = None] /\ call' = [call EXCEPT ![n] = Failed]
      \/ view' = [view EXCEPT ![n] = store] /\ call' = [call EXCEPT ![n] = Failed]
      \/ /\ OwnedBy(n, leader)
         /\ view' = [view EXCEPT ![n] = noLeader] /\ call' = [call EXCEPT ![n] = c]
  BY DEF Co!LoadCluster
<1>4. noLeader \in [Key -> Stored] /\ \A j \in Key : noLeader[j] \in {None, store[j]}
  BY DEF TypeOK, Stored
<1>5. /\ view' \in [Node -> [Key -> Stored] \cup {None}] /\ view'[n] \in {None, store, noLeader}
      /\ \A m \in Node \ {n} : view'[m] = view[m]
  <2>1. \E w \in {None, store, noLeader} : view' = [view EXCEPT ![n] = w] BY <1>3
  <2>2. PICK w \in {None, store, noLeader} : view' = [view EXCEPT ![n] = w] BY <2>1
  <2>3. w \in [Key -> Stored] \cup {None} BY <1>4 DEF TypeOK
  <2> QED BY <2>2, <2>3 DEF TypeOK
<1>6. IsOver(n) \/ (OwnedBy(n, leader) /\ call' = [call EXCEPT ![n] = c])
  BY <1>3, FailedOver
<1>7. ASSUME OwnedBy(n, leader), call' = [call EXCEPT ![n] = c]
      PROVE /\ call' \in [Node -> Call] /\ \A m \in Node \ {n} : call'[m] = call[m]
            /\ call'[n].op = "load" /\ ~Free(n)' /\ call'[n].req = Read /\ call'[n].at = 0
            /\ call'[n].index = leader.version /\ VersionIs("leader", leader.version, n)
            /\ ~(call'[n].req.kind = "put") /\ call'[n].hit = None
  <2>1. leader # None /\ leader \in Known("leader") /\ leader.value = n /\ "leader" \in Key
    BY <1>7, KnownIs DEF OwnedBy, Key
  <2>2. VersionIs("leader", leader.version, n) /\ leader.version \in 0..MaxRev
    BY <2>1, KnownVersion
  <2>3. c \in Call BY <2>2, FailedIs DEF Call, Failed
  <2>4. call' \in [Node -> Call] /\ call'[n] = c /\ \A m \in Node \ {n} : call'[m] = call[m]
    BY <1>7, <2>3 DEF TypeOK
  <2>5. c.op = "load" /\ c.ans = "ok" /\ c.req = Read /\ c.at = 0 /\ c.index = leader.version
        /\ c.hit = None /\ Read.kind # "put"
    BY DEF Failed, Read, Other
  <2> QED BY <2>2, <2>4, <2>5 DEF Free
<1>8. call' \in [Node -> Call] /\ \A m \in Node \ {n} : call'[m] = call[m]
  BY <1>6, <1>7 DEF IsOver
<1>9. TypeOK' BY <1>1, <1>5, <1>8 DEF TypeOK
<1>10. Elsewhere(n) BY <1>1, <1>5, <1>8 DEF Elsewhere
<1>11. Learns(n, "leader", None)
  <2>1. /\ \A j \in Key : cache'[n][j] = None \/ cache'[n][j] \in Known(j)
        /\ seen'[n] = None \/ seen'[n] \in Known("leader")
    BY <1>1, KnownIs DEF Key
  <2>2. \A j \in Key : view'[n] = None \/ view'[n][j] = None \/ view'[n][j] \in Known(j)
    BY <1>4, <1>5, KnownIs
  <2>3. CASE Free(n)' BY <1>1, <2>1, <2>2, <2>3, LearnsOver
  <2>4. CASE ~Free(n)'
    <3>1. ~(call'[n].req.kind = "put") /\ call'[n].hit = None BY <1>6, <1>7, <2>4 DEF IsOver
    <3> SUFFICES ASSUME NEW j \in Key, NEW x \in Entry, (Reads(n, j, x) \/ IsTold(n, j, x))'
                 PROVE x \in Known(j)
      BY DEF Learns
    <3>2. x # None BY NoneIsNoEntry
    <3>3. Reads(n, j, x)' BY <3>1, <3>2 DEF IsTold, Wrote
    <3> QED BY <1>1, <2>1, <2>2, <3>2, <3>3 DEF Reads
  <2> QED BY <2>3, <2>4
<1>12. Ends(n) BY <1>1, <1>2, <1>6, <1>7, <1>10, <1>11 DEF Ends, IsOver
<1> QED BY <1>9, <1>12, EndsInv

LEMMA CoEnds ==
  ASSUME Inv, backend = "consul", NEW n \in Node,
         \/ Co!UpdateLeader(n) /\ session[n] = None
         \/ Co!Finish(n) \/ Co!SetTtl(n)
  PROVE Inv' /\ HandOver
<1> USE CoIs DEF Inv
<1> USE DEF Co!rest, Co!setting, Co!kubeVars, Co!zooVars, Co!history, Co!server, Co!data,
        setting, kubeVars, zooVars, history, server, data
<1>1. UNCHANGED <<setting, cache, kubeVars, zooVars, server, stream, ready, again>>
  BY DEF Co!UpdateLeader, Co!Finish, Co!SetTtl, NoteInitialize
<1>2. /\ \A j \in Key : cache[n][j] = None \/ cache[n][j] \in Known(j)
      /\ seen[n] = None \/ seen[n] \in Known("leader")
  BY KnownIs DEF Key
<1>3. OwnSession(n, session[n]) /\ OwnSession(n, None) BY DEF SessionInv, OwnSession
<1>4. CASE Co!UpdateLeader(n) /\ session[n] = None
  <2>1. UNCHANGED <<view, session, initializing>> /\ call' = [call EXCEPT ![n] = Failed]
    <3>1. ReturnAtOnce(n, "update", FALSE) /\ UNCHANGED <<view, session, initializing>>
      BY <1>4 DEF Co!UpdateLeader
    <3> QED BY <3>1 DEF ReturnAtOnce
  <2>2. IsOver(n) BY <2>1, FailedOver
  <2>3. TypeOK' BY <1>1, <2>1, <2>2 DEF TypeOK, IsOver
  <2>4. Elsewhere(n) BY <1>1, <2>1, <2>2 DEF Elsewhere, IsOver
  <2>5. Learns(n, "leader", None)
    <3>1. UNCHANGED <<backend, view, cache, seen>> /\ Free(n)' BY <1>1, <2>1, <2>2 DEF IsOver
    <3> QED BY <1>2, <3>1, LearnsOver
  <2>6. Ends(n) BY <1>1, <1>3, <2>1, <2>2, <2>4, <2>5 DEF Ends, IsOver
  <2> QED BY <2>3, <2>6, EndsInv
<1>5. CASE Co!Finish(n)
  <2>1. /\ ~Free(n) /\ Return(n, call[n].ans = "ok")
        /\ NoteInitialize(n, call[n].op = "initialize" /\ call[n].ans = "ok")
        /\ \E s \in {Latest(n), session[n]} : session' = [session EXCEPT ![n] = s]
        /\ \E w \in {None, view[n]} : view' = [view EXCEPT ![n] = w]
    BY <1>5 DEF Co!Finish
  <2>2. IsOver(n)
    <3>1. call[n].op = "update" => call[n].step # "read"
      BY <2>1 DEF CallInv, Waits, Sound
    <3>2. UNCHANGED backend BY <1>1
    <3> QED BY <2>1, <3>1, <3>2, ReturnOver
  <2>3. /\ session' \in [Node -> Session \cup {None}] /\ OwnSession(n, session'[n])
        /\ \A m \in Node \ {n} : session'[m] = session[m]
    <3>1. PICK s \in {Latest(n), session[n]} : session' = [session EXCEPT ![n] = s]
      BY <2>1
    <3>2. s \in Session \cup {None} /\ OwnSession(n, s) BY <1>3, LatestIs DEF TypeOK
    <3> QED BY <3>1, <3>2 DEF TypeOK
  <2>4. /\ view' \in [Node -> [Key -> Stored] \cup {None}] /\ view'[n] \in {None, view[n]}
        /\ \A m \in Node \ {n} : view'[m] = view[m]
    <3>1. PICK w \in {None, view[n]} : view' = [view EXCEPT ![n] = w]
      BY <2>1
    <3> QED BY <3>1 DEF TypeOK
  <2>5. TypeOK' BY <1>1, <2>1, <2>2, <2>3, <2>4 DEF TypeOK, IsOver, NoteInitialize
  <2>6. Elsewhere(n) BY <1>1, <2>2, <2>3, <2>4 DEF Elsewhere, IsOver
  <2>7. Learns(n, "leader", None)
    <3>1. UNCHANGED <<backend, cache, seen>> /\ Free(n)' BY <1>1, <2>2 DEF IsOver
    <3> QED BY <1>2, <2>4, <3>1, LearnsOver
  <2>8. Ends(n) BY <1>1, <2>1, <2>2, <2>3, <2>6, <2>7 DEF Ends, IsOver, NoteInitialize
  <2> QED BY <2>5, <2>8, EndsInv
<1>6. CASE Co!SetTtl(n)
  <2>1. UNCHANGED <<call, view, initializing>> /\ session' = [session EXCEPT ![n] = None]
    BY <1>6 DEF Co!SetTtl
  <2>2. /\ session' \in [Node -> Session \cup {None}] /\ session'[n] = None
        /\ \A m \in Node \ {n} : session'[m] = session[m]
    BY <2>1 DEF TypeOK
  <2>3. TypeOK' BY <1>1, <2>1, <2>2 DEF TypeOK
  <2>4. Elsewhere(n) /\ Stands(n) BY <1>1, <2>1, <2>2 DEF Elsewhere, Stands
  <2>5. Learns(n, "leader", None)
    <3>1. UNCHANGED <<backend, call, view, cache, seen>> BY <1>1, <2>1
    <3> QED BY <1>2, <3>1, LearnsOver
  <2>6. Ends(n) BY <1>1, <1>3, <2>1, <2>2, <2>4, <2>5 DEF Ends
  <2> QED BY <2>3, <2>6, EndsInv
<1> QED BY <1>4, <1>5, <1>6

LEMMA CoInv ==
  ASSUME Inv, backend = "consul", Co!Next
  PROVE Inv' /\ HandOver
<1> USE CoIs
<1> USE DEF Co!rest, Co!setting, Co!kubeVars, Co!zooVars, Co!history, Co!data,
        Co!clientVars, setting, kubeVars, zooVars, history, data, clientVars
<1>1. CASE Co!Expire
  <2>1. PICK s \in alive : End(s)
    BY <1>1 DEF Co!Expire
  <2>2. UNCHANGED <<backend, concern, call, session, view, cache, seen, ripe, fetch, event,
                    initializing, again>>
    BY <1>1 DEF Co!Expire
  <2> QED BY <2>1, <2>2, ExpireInv
<1>2. ASSUME NEW n \in Node, Co!CancelInitialization(n) PROVE Inv' /\ HandOver
  <2> DEFINE r == Delete("initialize", "none", None)
  <2>1. Ask(n, "cancel", r, None) /\ n \in initializing /\ initializing' = initializing \ {n}
    BY <1>2 DEF Co!CancelInitialization
  <2>2. Unasked /\ UNCHANGED again BY <1>2 DEF Co!CancelInitialization, Unasked
  <2>3. Sound(n, "cancel", "first", r, None) BY SoundCancel
  <2>4. r \in Request BY PutIs DEF Key
  <2> QED BY <2>1, <2>2, <2>3, <2>4, CancelInv
<1>3. ASSUME NEW n \in Node, Co!Retry(n) PROVE Inv' /\ HandOver
  BY <1>3, RetryInv DEF Co!Retry, Unasked
<1>4. ASSUME NEW n \in Node, Co!UpdateLeader(n) PROVE Inv' /\ HandOver
  BY <1>4, CoAsks, CoEnds
<1> QED BY <1>1, <1>2, <1>3, <1>4, CoAsks, CoProceeds, CoLoads, CoEnds DEF Co!Next

----------------------------------------------------------------------------
\* ZooKeeper.

LEMMA ReadInitializeIs ==
  /\ Zk!ReadInitialize \in Request
  /\ Zk!ReadInitialize.kind = "read"
BY ZkIs, OtherIs DEF Zk!ReadInitialize, Read, Other, Request, Key

LEMMA ZkAsks ==
  ASSUME Inv, backend = "zookeeper", NEW n \in Node,
         Zk!AttemptToAcquireLeader(n) \/ Zk!Initialize(n) \/ Zk!SetSyncStateValue(n)
  PROVE Inv' /\ HandOver
<1> USE ZkIs, PutIs DEF Key, Op, Step
<1>1. Unasked /\ UNCHANGED history
  BY DEF Zk!AttemptToAcquireLeader, Zk!Initialize, Zk!SetSyncStateValue, Zk!idleVars, Zk!rest,
     Zk!setting, Zk!kubeVars, Zk!zooVars, Zk!history, Unasked, setting, kubeVars, zooVars, history
<1>2. session[n] \in Session \cup {None} /\ ~AsksForKey BY DEF Inv, TypeOK, AsksForKey
<1>3. CASE Zk!AttemptToAcquireLeader(n)
  <2> DEFINE r == Put("leader", n, session[n], "absent", None)
  <2>1. Ask(n, "acquire", r, None) BY <1>3 DEF Zk!AttemptToAcquireLeader
  <2>2. Sound(n, "acquire", "first", r, None) BY SoundLeader DEF LeaderPut, Put
  <2>3. r \in Request BY <1>2
  <2> HIDE DEF r
  <2> QED BY <1>1, <2>1, <2>2, <2>3, AskInv
<1>4. CASE Zk!Initialize(n)
  <2> DEFINE r == Put("initialize", n, None, "absent", None)
  <2>1. Ask(n, "initialize", r, None) BY <1>4 DEF Zk!Initialize
  <2>2. Sound(n, "initialize", "first", r, None) BY SoundInitialize DEF InitializePut, Put
  <2> QED BY <1>1, <2>1, <2>2, AskInv
<1>5. CASE Zk!SetSyncStateValue(n)
  <2> DEFINE i == SyncIndex(n)
             r == Put("sync", n, None, IF i \in {None, 0} THEN "exists" ELSE "version", i)
  <2>1. Ask(n, "sync", r, i) /\ SeesItself(n) BY <1>5 DEF Zk!SetSyncStateValue
  <2>2. i \in (0..MaxRev) \cup {None} BY <2>1, SyncIs DEF Inv
  <2>3. Sound(n, "sync", "first", r, i) BY SoundSync
  <2>4. r \in Request BY <2>2
  <2> QED BY <1>1, <2>1, <2>2, <2>3, <2>4, AskInv
<1> QED BY <1>3, <1>4, <1>5

LEMMA ZkProceeds ==
  ASSUME Inv, backend = "zookeeper", NEW n \in Node, Zk!SendRemoval(n) \/ Zk!CreateSync(n)
  PROVE Inv' /\ HandOver
<1> USE ZkIs, PutIs DEF Key, Step
<1>1. UNCHANGED <<setting, session, view, cache, kubeVars, zooVars, history>>
  BY DEF Zk!SendRemoval, Zk!CreateSync, Zk!idleVars, Zk!rest, Zk!setting, Zk!clientVars,
     Zk!kubeVars, Zk!zooVars, Zk!history, setting, kubeVars, zooVars, history
<1>2. CASE Zk!SendRemoval(n)
  <2> DEFINE r == Delete("leader", "exists", None)
  <2>1. Proceed(n, "then", r) /\ call[n].op = "load" BY <1>2 DEF Zk!SendRemoval
  <2>2. Sound(n, "load", "then", r, call[n].index) BY SoundDelete
  <2> QED BY <1>1, <2>1, <2>2, ProceedInv
<1>3. CASE Zk!CreateSync(n)
  <2> DEFINE r == Put("sync", n, None, "absent", None)
  <2>1. Proceed(n, "then", r) /\ call[n].op = "sync" /\ call[n].index = None
    BY <1>3 DEF Zk!CreateSync
  <2>2. Sound(n, "sync", "then", r, call[n].index) BY <2>1, SoundSync
  <2> QED BY <1>1, <2>1, <2>2, ProceedInv
<1> QED BY <1>2, <1>3

\* _cancel_initialization: the node that begins it owns the key, unless it has been
\* tried before.
LEMMA ZkCancels ==
  ASSUME Inv, backend = "zookeeper", NEW n \in Node,
         \/ Zk!CancelInitialization(n) \/ Zk!DeleteInitialize(n)
         \/ (Zk!Retry(n) /\ call[n].op = "cancel")
  PROVE Inv' /\ HandOver
<1> USE ZkIs DEF Inv
<1>1. Unasked
  BY DEF Zk!CancelInitialization, Zk!DeleteInitialize, Zk!Retry, Zk!idleVars, Zk!rest,
     Zk!setting, Zk!kubeVars, Zk!zooVars, Zk!history, Unasked, setting, kubeVars, zooVars, history
<1> DEFINE r == Zk!ReadInitialize
<1>2. r \in Request /\ Sound(n, "cancel", "first", r, None)
      /\ \A i : Sound(n, "cancel", "first", r, i)
  BY ReadInitializeIs, SoundOther DEF Step
<1>3. "cancel" \in Op /\ "first" \in Step /\ "then" \in Step BY DEF Op, Step
<1>4. CASE Zk!CancelInitialization(n)
  <2>1. Ask(n, "cancel", r, None) /\ n \in initializing /\ initializing' = initializing \ {n}
        /\ UNCHANGED again
    BY <1>4 DEF Zk!CancelInitialization
  <2> HIDE DEF r
  <2> QED BY <1>1, <1>2, <2>1, CancelInv
<1>5. ASSUME call[n].op = "cancel", ~Free(n)
      PROVE /\ n \notin initializing /\ initializing \ {n} = initializing
            /\ ~again /\ call[n].step = "first" => OwnedBy(n, store["initialize"])
            /\ call[n].step \in {"first", "then"}
            /\ call[n].index \in (0..MaxRev) \cup {None}
  <2>1. Waits(n) /\ call[n] \in Call BY DEF CallInv, TypeOK
  <2>2. n \notin initializing /\ call[n].step \in {"first", "then"}
    BY <1>5, <2>1 DEF Waits, Sound
  <2>3. call[n].step = "first" => Initializes(n) BY <1>5 DEF Initializes
  <2> QED BY <2>1, <2>2, <2>3 DEF InitInv, Call
<1>6. CASE Zk!DeleteInitialize(n)
  <2> DEFINE d == Delete("initialize", "version", call[n].hit.version)
  <2>1. /\ call[n].op = "cancel" /\ call[n].step = "first" /\ call[n].ans = "ok"
        /\ call[n].hit # None /\ Proceed(n, "then", d) /\ UNCHANGED history
    BY <1>6 DEF Zk!DeleteInitialize, Zk!history, history
  <2>2. ~Free(n) BY <2>1 DEF Free
  <2>3. call[n].hit \in Entry BY <2>1 DEF TypeOK, Call, Stored
  <2>4. d \in Request BY <2>3, PutIs DEF Entry, Key
  <2>5. Sound(n, "cancel", "then", d, call[n].index) BY SoundCancel
  <2>6. Send(n, "cancel", "then", d, call[n].index) BY <2>1 DEF Proceed
  <2> HIDE DEF d
  <2>7. again' = again /\ initializing' = initializing \ {n} /\ again' \in BOOLEAN
    BY <1>5, <2>1, <2>2 DEF history, TypeOK
  <2>8. again' \/ OwnedBy(n, store["initialize"]) BY <1>5, <2>1, <2>2, <2>7
  <2>9. Asks(n, "cancel", "then", d, call[n].index)
    BY <1>1, <2>5, <2>6, <2>7, <2>8 DEF Asks, Unasked
  <2> QED BY <1>3, <1>5, <2>1, <2>2, <2>4, <2>9, AsksInv
<1>7. CASE Zk!Retry(n) /\ call[n].op = "cancel"
  <2>1. /\ Lost(n) /\ Proceed(n, "first", r) /\ UNCHANGED initializing
        /\ again' = (again \/ call[n].step = "then")
    BY <1>7 DEF Zk!Retry
  <2>2. ~Free(n) BY <2>1 DEF Lost, Free
  <2>3. Send(n, "cancel", "first", r, call[n].index) BY <1>7, <2>1 DEF Proceed
  <2> HIDE DEF r
  <2>4. again' \in BOOLEAN /\ (again => again') /\ initializing' = initializing \ {n}
    BY <1>5, <1>7, <2>1, <2>2 DEF TypeOK
  <2>5. again' \/ OwnedBy(n, store["initialize"]) BY <1>5, <1>7, <2>1, <2>2
  <2>6. Sound(n, "cancel", "first", r, call[n].index) BY <1>2
  <2>7. Asks(n, "cancel", "first", r, call[n].index)
    BY <1>1, <2>3, <2>4, <2>5, <2>6 DEF Asks, Unasked
  <2> QED BY <1>2, <1>3, <1>5, <1>7, <2>2, <2>7, AsksInv
<1> QED BY <1>4, <1>6, <1>7

\* The last Cluster is read, or the operation fails.
LEMMA ZkLoads ==
  ASSUME Inv, backend = "zookeeper", NEW n \in Node,
         \/ Zk!LoadNames(n) \/ Zk!LoadKeys(n) \/ Zk!RemoveOldKey(n) \/ Zk!LoadFails(n)
  PROVE Inv' /\ HandOver
<1> USE ZkIs DEF Inv
<1>1. /\ UNCHANGED <<backend, concern, store, rev, granted, alive, session, seen, ripe, stream,
                     initializing, again>>
  BY DEF Zk!LoadNames, Zk!LoadKeys, Zk!RemoveOldKey, Zk!LoadFails, Zk!rest, Zk!setting,
     Zk!kubeVars, Zk!zooVars, Zk!history, Zk!server, Zk!data, Zk!clientVars, Zk!watchVars
<1>2. OwnSession(n, session[n]) BY DEF SessionInv
<1> DEFINE e == Zk!Read_(n)
           f == [e EXCEPT !["leader"] = None]
           c == [Failed EXCEPT !.step = "read", !.ans = "ok"]
           d == [call[n] EXCEPT !.step = "grant"]
<1>3. e \in [Key -> Stored] /\ f \in [Key -> Stored]
  <2>1. e \in [Key -> Stored] BY DEF Zk!Read_, Zk!Key, Key, TypeOK, Stored
  <2>2. \A g \in [Key -> Stored] : [g EXCEPT !["leader"] = None] \in [Key -> Stored]
    BY DEF Stored
  <2> QED BY <2>1, <2>2
<1>4. c \in Call /\ c.op = "load" /\ c.ans = "ok" /\ c.req = Read /\ c.at = 0
  BY FailedIs DEF Failed, Call
<1>5. ASSUME Zk!RemoveOldKey(n)
      PROVE /\ d \in Call /\ d.op = "load" /\ d.ans = call[n].ans /\ d.req = Read
            /\ d.at = call[n].at /\ ~Free(n)
  <2>1. call[n].op = "load" /\ call[n].step = "read" /\ call[n] \in Call /\ Waits(n)
    BY <1>5 DEF Zk!RemoveOldKey, Zk!ReadingKeys, CallInv, TypeOK
  <2>2. ~Free(n) BY <2>1 DEF Waits
  <2>3. call[n].req = Read BY <2>1, <2>2 DEF Waits, Sound
  <2> QED BY <2>1, <2>2, <2>3 DEF Call
<1>6. /\ call' \in [Node -> Call] /\ \A m \in Node \ {n} : call'[m] = call[m]
      /\ \/ IsOver(n)
         \/ /\ call'[n].op = "load" /\ ~Free(n)' /\ call'[n].req = Read
            /\ call'[n].at \in {0, call[n].at}
  <2>1. CASE Zk!LoadNames(n)
    <3>1. call' = [call EXCEPT ![n] = c] BY <2>1 DEF Zk!LoadNames
    <3>2. call' \in [Node -> Call] /\ call'[n] = c /\ \A m \in Node \ {n} : call'[m] = call[m]
      BY <1>4, <3>1 DEF TypeOK
    <3> QED BY <1>4, <3>2 DEF Free
  <2>2. CASE Zk!LoadKeys(n) \/ Zk!LoadFails(n)
    <3>1. Return(n, FALSE) BY <2>2 DEF Zk!LoadKeys, Zk!LoadFails
    <3>2. call' = [call EXCEPT ![n] = Failed] BY <3>1 DEF Return
    <3> QED BY <3>2, FailedOver DEF IsOver
  <2>3. CASE Zk!RemoveOldKey(n)
    <3>1. call' = [call EXCEPT ![n] = d] BY <2>3 DEF Zk!RemoveOldKey
    <3>2. call' \in [Node -> Call] /\ call'[n] = d /\ \A m \in Node \ {n} : call'[m] = call[m]
      BY <1>5, <2>3, <3>1 DEF TypeOK
    <3> QED BY <1>5, <2>3, <3>2 DEF Free
  <2> QED BY <2>1, <2>2, <2>3
<1>7. /\ view' \in [Node -> [Key -> Stored] \cup {None}]
      /\ \A m \in Node \ {n} : view'[m] = view[m]
  <2>1. \E w \in {None, e, f, view[n]} : view' = [view EXCEPT ![n] = w]
    BY DEF Zk!LoadNames, Zk!LoadKeys, Zk!RemoveOldKey, Zk!LoadFails, Zk!clientVars, TypeOK
  <2>2. PICK w \in {None, e, f, view[n]} : view' = [view EXCEPT ![n] = w] BY <2>1
  <2>3. w \in [Key -> Stored] \cup {None} BY <1>3 DEF TypeOK
  <2> QED BY <2>2, <2>3 DEF TypeOK
<1>8. /\ cache' \in [Node -> [Key -> Stored]] /\ ready' \in [Node -> BOOLEAN]
      /\ \A m \in Node \ {n} : cache'[m] = cache[m]
  <2>1. CASE Zk!LoadNames(n)
    <3>1. cache' = [cache EXCEPT ![n] = store] /\ ready' = [ready EXCEPT ![n] = TRUE]
      BY <2>1 DEF Zk!LoadNames
    <3> QED BY <3>1 DEF TypeOK
  <2>2. CASE Zk!LoadKeys(n) \/ Zk!RemoveOldKey(n) \/ Zk!LoadFails(n)
    <3>1. UNCHANGED <<cache, ready>>
      BY <2>2 DEF Zk!LoadKeys, Zk!RemoveOldKey, Zk!LoadFails, Zk!watchVars
    <3> QED BY <3>1 DEF TypeOK
  <2> QED BY <2>1, <2>2
<1>9. /\ fetch' \in [Node -> BOOLEAN] /\ event' \in [Node -> BOOLEAN]
      /\ faults' \in 0..MaxFaults
  <2>1. CASE Zk!LoadNames(n) \/ Zk!LoadKeys(n) \/ Zk!RemoveOldKey(n)
    BY <2>1 DEF Zk!LoadNames, Zk!LoadKeys, Zk!RemoveOldKey, Zk!zooVars, Zk!server, TypeOK
  <2>2. CASE Zk!LoadFails(n)
    <3>1. faults' \in 0..MaxFaults
      BY <2>2, StoreConstants DEF Zk!LoadFails, Fault, TypeOK
    <3> QED BY <2>2, <3>1 DEF Zk!LoadFails, Zk!Watcher, TypeOK
  <2> QED BY <2>1, <2>2
<1>10. TypeOK' BY <1>1, <1>6, <1>7, <1>8, <1>9 DEF TypeOK
<1>11. Elsewhere(n) BY <1>1, <1>6, <1>7, <1>8 DEF Elsewhere
<1>12. Ends(n) BY <1>1, <1>2, <1>6, <1>11 DEF Ends, IsOver
<1> QED BY <1>10, <1>12, EndsInv

\* No request is made, and the last Cluster stays.
LEMMA ZkEnds ==
  ASSUME Inv, backend = "zookeeper", NEW n \in Node,
         \/ Zk!SessionListener(n) \/ Zk!WatchFires(n) \/ Zk!Watch(n) \/ Zk!UpdateLeader(n)
         \/ Zk!DeleteLeader(n) \/ Zk!Finish(n) \/ Zk!Connect(n)
  PROVE Inv' /\ HandOver
<1> USE ZkIs DEF Inv
<1>1. UNCHANGED <<backend, concern, view, cache, seen, ripe, again>>
  BY DEF Zk!SessionListener, Zk!WatchFires, Zk!Watch, Zk!UpdateLeader, Zk!DeleteLeader,
     Zk!Finish, Zk!Connect, Zk!idleVars, Zk!rest, Zk!setting, Zk!kubeVars, Zk!zooVars, Zk!history,
     Zk!clientVars, Zk!watchVars, NoteInitialize
<1>2. OwnSession(n, session[n]) /\ OwnSession(n, None) BY DEF SessionInv, OwnSession
<1>3. /\ fetch' \in [Node -> BOOLEAN] /\ event' \in [Node -> BOOLEAN]
  BY DEF Zk!SessionListener, Zk!WatchFires, Zk!Watch, Zk!UpdateLeader, Zk!DeleteLeader,
     Zk!Finish, Zk!Connect, Zk!Watcher, Zk!idleVars, Zk!zooVars, TypeOK
<1>4. CASE Zk!SessionListener(n) \/ Zk!WatchFires(n) \/ Zk!Watch(n)
  <2>1. /\ UNCHANGED <<store, rev, granted, alive, call, session, ready, initializing>>
        /\ UNCHANGED stream \/ (stream[n] # << >> /\ stream' = [stream EXCEPT ![n] = Tail(@)])
    BY <1>4 DEF Zk!SessionListener, Zk!WatchFires, Zk!Watch, Zk!data, Zk!server, Zk!watchVars,
       Zk!clientVars, Zk!history
  <2>2. faults' \in 0..MaxFaults
    BY <1>4, StoreConstants DEF Zk!SessionListener, Zk!WatchFires, Zk!Watch, Zk!server, Fault, TypeOK
  <2>3. stream' \in [Node -> Seq(Change)]
    <3>1. stream[n] \in Seq(Change) BY DEF TypeOK
    <3>2. stream[n] # << >> => Tail(stream[n]) \in Seq(Change) BY <3>1
    <3> QED BY <2>1, <3>2 DEF TypeOK
  <2>4. TypeOK' BY <1>1, <1>3, <2>1, <2>2, <2>3 DEF TypeOK
  <2>5. Elsewhere(n) /\ Stands(n) BY <1>1, <2>1 DEF Elsewhere, Stands
  <2>6. Ends(n) BY <1>1, <1>2, <2>1, <2>5 DEF Ends
  <2> QED BY <2>4, <2>6, EndsInv
<1>5. CASE Zk!UpdateLeader(n)
  <2> DEFINE c == [Failed EXCEPT !.op = "update", !.ans = "true", !.hit = store["leader"]]
  <2>1. /\ UNCHANGED <<store, rev, granted, alive, faults, session, stream, ready, initializing>>
        /\ call' = [call EXCEPT ![n] = c]
    BY <1>5 DEF Zk!UpdateLeader, ReturnAtOnce, Zk!idleVars, Zk!data, Zk!server, Zk!history
  <2>2. c \in Call /\ c.ans = "true" /\ c.op = "update" /\ c.at = 0 /\ c.step = "first"
    BY FailedIs DEF Failed, Call, Op, TypeOK, Key
  <2>3. call' \in [Node -> Call] /\ call'[n] = c /\ \A m \in Node \ {n} : call'[m] = call[m]
    BY <2>1, <2>2 DEF TypeOK
  <2>4. IsOver(n) BY <1>1, <2>2, <2>3 DEF IsOver, Free, Truly, Returned, AsksForKey
  <2>5. TypeOK' BY <1>1, <1>3, <2>1, <2>3 DEF TypeOK
  <2>6. Elsewhere(n) BY <1>1, <2>1, <2>3 DEF Elsewhere
  <2>7. Ends(n) BY <1>1, <1>2, <2>1, <2>4, <2>6 DEF Ends, IsOver
  <2> QED BY <2>5, <2>7, EndsInv
<1>6. CASE Zk!DeleteLeader(n)
  <2>1. /\ UNCHANGED <<initializing>> /\ call' = [call EXCEPT ![n] = Failed]
        /\ End(session[n]) \/ UNCHANGED <<store, rev, granted, alive, faults, stream, ready>>
        /\ session' = [session EXCEPT ![n] = None]
    <3>1. ReturnAtOnce(n, "delete", TRUE) BY <1>6 DEF Zk!DeleteLeader
    <3>2. call' = [call EXCEPT ![n] = Failed] BY <3>1 DEF ReturnAtOnce
    <3> QED BY <1>6, <3>2 DEF Zk!DeleteLeader, Zk!server, Zk!data, Zk!history
  <2>2. Changes("leader", None) \/ UNCHANGED <<store, rev, stream, ready>>
    BY <2>1 DEF End, Changes
  <2>3. UNCHANGED <<granted, faults>> /\ alive' \subseteq alive BY <2>1 DEF End
  <2>4. "leader" \in Key /\ None \in Stored BY DEF Key, Stored
  <2>5. IsOver(n) BY <2>1, FailedOver
  <2>6. /\ session' \in [Node -> Session \cup {None}] /\ session'[n] = None
        /\ \A m \in Node \ {n} : session'[m] = session[m]
    BY <2>1 DEF TypeOK
  <2>7. /\ store' \in [Key -> Stored] /\ rev' \in 0..MaxRev
        /\ stream' \in [Node -> Seq(Change)] /\ ready' \in [Node -> BOOLEAN]
    BY <2>2, <2>4, ChangesDoes DEF TypeOK
  <2>8. TypeOK' BY <1>1, <1>3, <2>1, <2>3, <2>5, <2>6, <2>7 DEF TypeOK, IsOver
  <2>9. Elsewhere(n) BY <1>1, <2>5, <2>6 DEF Elsewhere, IsOver
  <2>10. Ends(n) BY <1>1, <1>2, <2>1, <2>2, <2>5, <2>6, <2>9 DEF Ends, IsOver
  <2> QED BY <2>8, <2>10, EndsInv
<1>7. CASE Zk!Finish(n)
  <2>1. /\ UNCHANGED <<store, rev, granted, alive, faults, session, stream, ready>>
        /\ ~Free(n) /\ Return(n, call[n].ans = "ok")
        /\ NoteInitialize(n, call[n].op = "initialize" /\ call[n].ans = "ok")
    BY <1>7 DEF Zk!Finish, Zk!idleVars, Zk!data, Zk!server
  <2>2. IsOver(n)
    <3>1. call[n].op = "update" => call[n].step # "read"
      BY <2>1 DEF CallInv, Waits, Sound
    <3> QED BY <1>1, <2>1, <3>1, ReturnOver
  <2>3. TypeOK' BY <1>1, <1>3, <2>1, <2>2 DEF TypeOK, IsOver, NoteInitialize
  <2>4. Elsewhere(n) BY <1>1, <2>1, <2>2 DEF Elsewhere, IsOver
  <2>5. Ends(n) BY <1>1, <1>2, <2>1, <2>2, <2>4 DEF Ends, IsOver, NoteInitialize
  <2> QED BY <2>3, <2>5, EndsInv
<1>8. CASE Zk!Connect(n)
  <2>1. /\ UNCHANGED <<store, rev, faults, call, initializing>>
        /\ NewSessionOf(n) /\ session' = [session EXCEPT ![n] = Latest(n)']
        /\ ready' = [ready EXCEPT ![n] = FALSE] /\ stream' = [stream EXCEPT ![n] = << >>]
    BY <1>8 DEF Zk!Connect, Zk!Latest, Latest, Zk!history
  <2>2. /\ granted' \in [Node -> 0..MaxGrants] /\ granted'[n] = granted[n] + 1
        /\ granted[n] + 1 \in 0..MaxGrants
        /\ alive' \subseteq Session
    <3>1. granted[n] + 1 \in 0..MaxGrants
      BY <2>1, StoreConstants DEF NewSessionOf, TypeOK
    <3> QED BY <2>1, <3>1 DEF NewSessionOf, TypeOK, Session
  <2>3. Latest(n)' \in Session /\ OwnSession(n, Latest(n)')
    BY <2>2 DEF Latest, Session, OwnSession
  <2>4. /\ session' \in [Node -> Session \cup {None}] /\ session'[n] = Latest(n)'
        /\ \A m \in Node \ {n} : session'[m] = session[m]
    BY <2>1, <2>3 DEF TypeOK
  <2>5. stream' \in [Node -> Seq(Change)] /\ ready' \in [Node -> BOOLEAN]
    <3>1. << >> \in Seq(Change) OBVIOUS
    <3> QED BY <2>1, <3>1 DEF TypeOK
  <2>6. TypeOK' BY <1>1, <1>3, <2>1, <2>2, <2>4, <2>5 DEF TypeOK
  <2>7. Elsewhere(n) /\ Stands(n) BY <1>1, <2>1, <2>4 DEF Elsewhere, Stands
  <2>8. OwnSession(n, session'[n]) BY <2>3, <2>4
  <2>9. Ends(n) BY <1>1, <2>1, <2>7, <2>8 DEF Ends
  <2> QED BY <2>6, <2>9, EndsInv
<1> QED BY <1>4, <1>5, <1>6, <1>7, <1>8

LEMMA ZkInv ==
  ASSUME Inv, backend = "zookeeper", Zk!Next
  PROVE Inv' /\ HandOver
<1> USE ZkIs
<1> USE DEF Zk!rest, Zk!idleVars, Zk!setting, Zk!kubeVars, Zk!zooVars, Zk!history, setting,
        kubeVars, zooVars, history
<1>1. CASE Zk!Expire
  <2>1. PICK s \in alive : End(s)
    BY <1>1 DEF Zk!Expire
  <2>2. UNCHANGED <<backend, concern, call, session, view, cache, seen, ripe, fetch, event,
                    initializing, again>>
    BY <1>1 DEF Zk!Expire
  <2> QED BY <2>1, <2>2, ExpireInv
<1>2. ASSUME NEW n \in Node, Zk!Retry(n), call[n].op # "cancel" PROVE Inv' /\ HandOver
  <2>1. Again(n) /\ UNCHANGED initializing /\ Unasked BY <1>2 DEF Zk!Retry, Unasked
  <2>2. again' = (again \/ call[n].op = "cancel")
    <3>1. again' = (again \/ (call[n].op = "cancel" /\ call[n].step = "then"))
      BY <1>2 DEF Zk!Retry
    <3>2. (call[n].op = "cancel" /\ call[n].step = "then") <=> call[n].op = "cancel" BY <1>2
    <3> QED BY <3>1, <3>2, Zenon
  <2> QED BY <2>1, <2>2, RetryInv
<1> QED BY <1>1, <1>2, ZkAsks, ZkProceeds, ZkCancels, ZkLoads, ZkEnds DEF Zk!Next

----------------------------------------------------------------------------
\* Kubernetes.

LEMMA KuAcquires ==
  ASSUME Inv, backend = "kubernetes", NEW n \in Node, Ku!AttemptToAcquireLeader(n)
  PROVE Inv' /\ HandOver
<1> USE KuIs
<1>1. Unasked /\ UNCHANGED history
  BY DEF Ku!AttemptToAcquireLeader, Ku!local, Ku!rest, Ku!setting, Ku!kubeVars, Ku!zooVars,
     Ku!history, Unasked, setting, kubeVars, zooVars, history
<1> DEFINE cond == Ku!Over(seen[n])
           arg == Ku!Version(seen[n])
           r == Put("leader", n, None, cond, arg)
<1>2. Ask(n, "acquire", r, None) /\ SeesNoLeader(n) BY DEF Ku!AttemptToAcquireLeader
<1>4. \/ seen[n] = None /\ cond = "absent" /\ arg = None
      \/ /\ seen[n] # None /\ cond = "version" /\ arg = seen[n].version
         /\ arg \in 0..MaxRev
  <2>1. seen[n] \in Stored BY DEF Inv, TypeOK
  <2> QED BY <2>1 DEF Ku!Over, Ku!Version, Stored, Entry
<1>5. seen[n] # None => ripe[n] \/ seen[n].value = None
  <2>1. Kubes(n) /\ view[n] # None /\ ~Held(view[n]["leader"])
    BY <1>2 DEF Inv, KubeInv, SeesNoLeader
  <2> QED BY <2>1 DEF Kubes, Held
<1>6. LeaderPut(n, "acquire", r) BY <1>4, <1>5 DEF LeaderPut, Put
<1>7. Sound(n, "acquire", "first", r, None) BY <1>6, SoundLeader
<1>8. r \in Request /\ "acquire" \in Op BY <1>4, PutIs DEF Key, Op
<1> HIDE DEF r
<1> QED BY <1>1, <1>2, <1>7, <1>8, AskInv

LEMMA KuUpdates ==
  ASSUME Inv, backend = "kubernetes", NEW n \in Node, Ku!UpdateLeader(n)
  PROVE Inv' /\ HandOver
<1> USE KuIs DEF Inv
<1>1. Unasked /\ UNCHANGED history
  BY DEF Ku!UpdateLeader, Ku!local, Ku!rest, Ku!setting, Ku!kubeVars, Ku!zooVars,
     Ku!history, Unasked, setting, kubeVars, zooVars, history
<1> DEFINE kind == cache[n]["leader"]
           v == Ku!Version(kind)
           r == Put("leader", n, None, Ku!Over(kind), v)
<1>2. kind # None
  <2>1. SeesItself(n) /\ Kubes(n) BY DEF Ku!UpdateLeader, KubeInv
  <2> QED BY <2>1 DEF SeesItself, OwnedBy, Kubes, Key
<1>3. kind \in Known("leader") /\ "leader" \in Key BY <1>2, KnownIs DEF Key
<1>4. VersionIs("leader", kind.version, kind.value) /\ kind.version \in 0..MaxRev
  BY <1>3, KnownVersion
<1>5. CASE kind.value # n
  <2>1. ReturnAtOnce(n, "update", FALSE)
        /\ UNCHANGED <<store, rev, granted, alive, faults, stream, ready>>
    BY <1>2, <1>5 DEF Ku!UpdateLeader, Ku!server, Ku!data
  <2>2. call' = [call EXCEPT ![n] = Failed] BY <2>1 DEF ReturnAtOnce
  <2>3. IsOver(n) BY <2>2, FailedOver
  <2>4. UNCHANGED <<backend, concern, session, view, cache, seen, ripe, fetch, event,
                    initializing, again>>
    BY <1>1 DEF Unasked, setting, kubeVars, zooVars, history
  <2>5. TypeOK' BY <2>1, <2>3, <2>4 DEF TypeOK, IsOver
  <2>6. Elsewhere(n) BY <2>3, <2>4 DEF Elsewhere, IsOver
  <2>7. Learns(n, "leader", None)
    <3>1. /\ \A j \in Key : cache[n][j] = None \/ cache[n][j] \in Known(j)
          /\ seen[n] = None \/ seen[n] \in Known("leader")
      BY KnownIs DEF Key
    <3>2. Free(n)' BY <2>3 DEF IsOver
    <3> QED BY <2>4, <3>1, <3>2, LearnsOver
  <2>8. Kubes(n)'
    <3>1. Kubes(n) /\ ~(call'[n].ans = "ok") BY <2>3 DEF KubeInv, IsOver, Free
    <3> QED BY <2>1, <2>4, <3>1 DEF Kubes
  <2>9. OwnSession(n, session[n]) BY DEF SessionInv
  <2>10. Ends(n) BY <2>1, <2>3, <2>4, <2>6, <2>7, <2>8, <2>9 DEF Ends, IsOver
  <2> QED BY <2>5, <2>10, EndsInv
<1>6. CASE kind.value = n
  <2>1. Ask(n, "update", r, v) BY <1>6 DEF Ku!UpdateLeader
  <2>2. v = kind.version /\ Ku!Over(kind) = "version" BY <1>2 DEF Ku!Version, Ku!Over
  <2>3. Mine(n, r) /\ LeaderPut(n, "update", r)
    BY <1>4, <1>6, <2>2 DEF Mine, LeaderPut, Put
  <2>4. Sound(n, "update", "first", r, v) BY <2>3, SoundLeader
  <2>5. r \in Request /\ "update" \in Op BY <1>4, <2>2, PutIs DEF Key, Op
  <2>6. v \in 0..MaxRev BY <1>4, <2>2
  <2> HIDE DEF r, v
  <2> QED BY <1>1, <2>1, <2>4, <2>5, <2>6, AskInv
<1> QED BY <1>5, <1>6

\* After a conflict.
LEMMA KuProceeds ==
  ASSUME Inv, backend = "kubernetes", NEW n \in Node, Ku!ReadLeader(n) \/ Ku!PatchAgain(n)
  PROVE Inv' /\ HandOver
<1> USE KuIs DEF Inv
<1>1. UNCHANGED <<setting, session, view, kubeVars, zooVars, history>>
  BY DEF Ku!ReadLeader, Ku!PatchAgain, Ku!local, Ku!rest, Ku!setting, Ku!kubeVars, Ku!zooVars,
     Ku!history, setting, kubeVars, zooVars, history
<1>2. CASE Ku!ReadLeader(n)
  <2>1. Proceed(n, "read", Read) /\ call[n].op = "update" /\ UNCHANGED cache
    BY <1>2 DEF Ku!ReadLeader, Ku!local
  <2>2. "read" \in Step BY DEF Step
  <2>3. Sound(n, call[n].op, "read", Read, call[n].index) BY <2>1, <2>2, OtherIs, SoundOther
  <2> QED BY <1>1, <2>1, <2>2, <2>3, OtherIs, ProceedInv
<1>3. CASE Ku!PatchAgain(n)
  <2> DEFINE e == call[n].hit
             r == Put("leader", n, None, "version", e.version)
  <2>1. /\ Proceed(n, "then", r) /\ call[n].op = "update" /\ call[n].step = "read"
        /\ call[n].ans = "ok" /\ OwnedBy(n, e)
        /\ cache' = [cache EXCEPT ![n] = CacheSet(cache[n], "leader", e)]
    BY <1>3 DEF Ku!PatchAgain, Ku!MayPatch, TypeOK
  <2>2. Waits(n) /\ ~Free(n) BY <2>1 DEF CallInv, Free
  <2>3. call[n].req.key = "leader" BY <2>1, <2>2 DEF Waits, Sound, Read, Other
  <2>4. e \in Known("leader") /\ "leader" \in Key
    BY <2>1, <2>3, KnownIs DEF Answered, OwnedBy, Key
  <2>5. VersionIs("leader", e.version, n) /\ e.version \in 0..MaxRev
    BY <2>1, <2>4, KnownVersion DEF OwnedBy
  <2>6. Mine(n, r) /\ LeaderPut(n, "update", r) BY <2>5 DEF Mine, LeaderPut, Put
  <2>7. Sound(n, "update", "then", r, call[n].index) BY <2>6, SoundLeader
  <2>8. r \in Request /\ "then" \in Step BY <2>5, PutIs DEF Key, Step
  <2> HIDE DEF r
  <2> QED BY <1>1, <2>1, <2>4, <2>7, <2>8, ProceedInv
<1> QED BY <1>2, <1>3

LEMMA KuAsks ==
  ASSUME Inv, backend = "kubernetes", NEW n \in Node,
         Ku!DeleteLeader(n) \/ Ku!Initialize(n) \/ Ku!CancelInitialization(n)
         \/ Ku!SetSyncStateValue(n)
  PROVE Inv' /\ HandOver
<1> USE KuIs DEF Inv
<1>1. Unasked /\ UNCHANGED again
  BY DEF Ku!DeleteLeader, Ku!Initialize, Ku!CancelInitialization, Ku!SetSyncStateValue,
     Ku!local, Ku!rest, Ku!setting, Ku!kubeVars, Ku!zooVars, Ku!history, Unasked, setting,
     kubeVars, zooVars, history
<1>2. Kubes(n) BY DEF KubeInv
<1>3. CASE Ku!DeleteLeader(n)
  <2> DEFINE e == cache[n]["leader"]
             r == Put("leader", None, None, "version", e.version)
  <2>1. Ask(n, "delete", r, None) /\ OwnedBy(n, e) /\ UNCHANGED history
    BY <1>3 DEF Ku!DeleteLeader, Ku!history, history
  <2>2. e \in Known("leader") /\ "leader" \in Key BY <2>1, KnownIs DEF OwnedBy, Key
  <2>3. VersionIs("leader", e.version, n) /\ e.version \in 0..MaxRev
    BY <2>1, <2>2, KnownVersion DEF OwnedBy
  <2>4. r.kind = "put" /\ r.key = "leader" /\ r.value = None /\ Mine(n, r)
    BY <2>3 DEF Mine, Put
  <2>5. r \in Request /\ "delete" \in Op BY <2>3, PutIs DEF Key, Op
  <2> HIDE DEF r
  <2>6. Sound(n, "delete", "first", r, None) BY <2>4 DEF Sound
  <2> QED BY <1>1, <2>1, <2>5, <2>6, AskInv
<1>4. CASE Ku!Initialize(n)
  <2> DEFINE e == view[n]["initialize"]
             cond == Ku!Over(e)
             arg == Ku!Version(e)
             r == Put("initialize", n, None, cond, arg)
  <2>1. Ask(n, "initialize", r, None) /\ view[n] # None /\ ~Held(e) /\ UNCHANGED history
    BY <1>4 DEF Ku!Initialize, SeesNoCluster, Ku!history, history
  <2>2. "initialize" \in Key /\ "initialize" \in Op BY DEF Key, Op
  <2>3. ASSUME e # None
        PROVE VersionIs("initialize", e.version, None) /\ e.version \in 0..MaxRev
    <3>1. e \in Known("initialize") BY <2>1, <2>2, <2>3, KnownIs
    <3> QED BY <2>1, <2>2, <2>3, <3>1, KnownVersion DEF Held
  <2>4. \/ e = None /\ cond = "absent" /\ arg = None
        \/ e # None /\ cond = "version" /\ arg = e.version
    BY DEF Ku!Over, Ku!Version
  <2>5. InitializePut(n, r) BY <2>3, <2>4 DEF InitializePut, Put
  <2>6. Sound(n, "initialize", "first", r, None) BY <2>5, SoundInitialize
  <2>7. r \in Request BY <2>2, <2>3, <2>4, PutIs
  <2> HIDE DEF r
  <2> QED BY <1>1, <2>1, <2>2, <2>6, <2>7, AskInv
<1>5. CASE Ku!CancelInitialization(n)
  <2> DEFINE e == cache[n]["initialize"]
             r == Put("initialize", None, None, IF e = None THEN "exists" ELSE "version",
                      Ku!Version(e))
  <2>1. Ask(n, "cancel", r, None) /\ n \in initializing /\ initializing' = initializing \ {n}
    BY <1>5 DEF Ku!CancelInitialization
  <2>2. OwnedBy(n, e)
    <3>1. e = store["initialize"] BY <1>2, <2>1 DEF Kubes
    <3> QED BY <2>1, <3>1 DEF InitInv, Initializes
  <2>3. e \in Known("initialize") /\ "initialize" \in Key BY <2>2, KnownIs DEF OwnedBy, Key
  <2>4. VersionIs("initialize", e.version, n) /\ e.version \in 0..MaxRev
    BY <2>2, <2>3, KnownVersion DEF OwnedBy
  <2>5. r = Put("initialize", None, None, "version", e.version)
    BY <2>2 DEF Ku!Version, OwnedBy
  <2> HIDE DEF r
  <2>6. r.kind = "put" /\ r.key = "initialize" /\ r.value = None /\ CancelPut(n, r)
    BY <2>4, <2>5 DEF CancelPut, Put
  <2>7. r \in Request BY <2>4, <2>5, PutIs DEF Key
  <2>8. Sound(n, "cancel", "first", r, None) BY <2>6 DEF Sound
  <2> QED BY <1>1, <2>1, <2>7, <2>8, CancelInv
<1>6. CASE Ku!SetSyncStateValue(n)
  <2> DEFINE i == SyncIndex(n)
             r == Put("sync", n, None, IF i = None THEN "absent" ELSE "version", i)
  <2>1. Ask(n, "sync", r, i) /\ SeesItself(n) /\ UNCHANGED history
    BY <1>6 DEF Ku!SetSyncStateValue, Ku!history, history
  <2>2. i \in (0..MaxRev) \cup {None} BY <2>1, SyncIs
  <2>3. Sound(n, "sync", "first", r, i) BY SoundSync
  <2>4. r \in Request /\ "sync" \in Op BY <2>2, PutIs DEF Key, Op
  <2> HIDE DEF r
  <2> QED BY <1>1, <2>1, <2>2, <2>3, <2>4, AskInv
<1> QED BY <1>3, <1>4, <1>5, <1>6

LEMMA KuLoads ==
  ASSUME Inv, backend = "kubernetes", NEW n \in Node, Ku!LoadCluster(n) \/ Ku!TtlOver(n)
  PROVE Inv' /\ HandOver
<1> USE KuIs DEF Inv
<1>1. UNCHANGED <<backend, concern, store, rev, granted, alive, faults, session, cache, stream,
                  ready, fetch, event, initializing, again>>
  BY DEF Ku!LoadCluster, Ku!TtlOver, Ku!rest, Ku!setting, Ku!zooVars, Ku!server, Ku!data,
     Ku!watchVars, Ku!history
<1>2. /\ \A j \in Key : cache[n][j] = None \/ cache[n][j] \in Known(j)
      /\ seen[n] = None \/ seen[n] \in Known("leader")
  BY KnownIs DEF Key
<1>3. OwnSession(n, session[n]) BY DEF SessionInv
<1>4. Kubes(n) BY DEF KubeInv
<1>5. CASE Ku!LoadCluster(n)
  <2> DEFINE leader == cache[n]["leader"]
             old == ripe[n] /\ leader = seen[n]
             w == IF leader # None /\ old
                  THEN [cache[n] EXCEPT !["leader"] = [leader EXCEPT !.value = None]]
                  ELSE cache[n]
  <2>1. call' = [call EXCEPT ![n] = Failed] BY <1>5 DEF Ku!LoadCluster
  <2>2. IsOver(n) BY <2>1, FailedOver
  <2>3. cache[n] \in [Key -> Stored] /\ leader \in Stored /\ "leader" \in Key
    BY DEF TypeOK, Key
  <2>4. leader # None => [leader EXCEPT !.value = None] \in Entry
                         /\ [leader EXCEPT !.value = None] # None
    <3>1. leader # None => leader \in Entry BY <2>3 DEF Stored
    <3>2. leader # None => [leader EXCEPT !.value = None] \in Entry BY <3>1 DEF Entry
    <3> QED BY <3>2, NoneIsNoEntry
  <2>5. /\ w \in [Key -> Stored] /\ \A j \in Key \ {"leader"} : w[j] = cache[n][j]
        /\ w["leader"] = IF leader # None /\ old THEN [leader EXCEPT !.value = None] ELSE leader
    BY <2>3, <2>4 DEF Stored
  <2>6. \/ /\ seen' = [seen EXCEPT ![n] = leader] /\ ripe' = [ripe EXCEPT ![n] = old]
           /\ view' = [view EXCEPT ![n] = w]
        \/ view' = [view EXCEPT ![n] = None] /\ UNCHANGED <<seen, ripe>>
    <3>1. [cache[n] EXCEPT !["leader"] =
              IF leader # None /\ old THEN [leader EXCEPT !.value = None] ELSE leader] = w
      BY <2>3, <2>4
    <3> QED BY <1>5, <3>1 DEF Ku!LoadCluster, Ku!kubeVars
  <2> HIDE DEF w
  <2>7. /\ seen' \in [Node -> Stored] /\ ripe' \in [Node -> BOOLEAN]
        /\ view' \in [Node -> [Key -> Stored] \cup {None}]
        /\ \A m \in Node \ {n} : /\ seen'[m] = seen[m] /\ ripe'[m] = ripe[m]
                                 /\ view'[m] = view[m]
        /\ \/ seen'[n] = leader /\ ripe'[n] = old /\ view'[n] = w
           \/ seen'[n] = seen[n] /\ view'[n] = None
    <3>1. /\ seen \in [Node -> Stored] /\ ripe \in [Node -> BOOLEAN]
          /\ view \in [Node -> [Key -> Stored] \cup {None}] /\ old \in BOOLEAN
      BY DEF TypeOK
    <3> HIDE DEF leader, old
    <3>2. CASE /\ seen' = [seen EXCEPT ![n] = leader] /\ ripe' = [ripe EXCEPT ![n] = old]
               /\ view' = [view EXCEPT ![n] = w]
      BY <2>3, <2>5, <3>1, <3>2
    <3>3. CASE view' = [view EXCEPT ![n] = None] /\ UNCHANGED <<seen, ripe>>
      BY <3>1, <3>3
    <3> QED BY <2>6, <3>2, <3>3
  <2>8. TypeOK' BY <1>1, <2>2, <2>7 DEF TypeOK, IsOver
  <2>9. Elsewhere(n) BY <1>1, <2>2, <2>7 DEF Elsewhere, IsOver
  <2>10. Learns(n, "leader", None)
    <3>1. seen'[n] = None \/ seen'[n] \in Known("leader") BY <1>2, <2>3, <2>7
    <3>2. \A j \in Key : \/ view'[n] = None \/ j = "leader"
                         \/ view'[n][j] = None \/ view'[n][j] \in Known(j)
      BY <1>2, <2>5, <2>7
    <3>3. Free(n)' BY <2>2 DEF IsOver
    <3> QED BY <1>1, <1>2, <3>1, <3>2, <3>3, LearnsOver
  <2>11. Kubes(n)'
    <3>1. call'[n].ans # "ok" BY <2>2 DEF IsOver, Free
    <3>2. n \in initializing' => cache'[n]["initialize"] = store'["initialize"]
      BY <1>1, <1>4 DEF Kubes
    <3>3. \A i \in DOMAIN stream'[n] : stream'[n][i].entry # None BY <1>1, <1>4 DEF Kubes
    <3>4. seen'[n] # None => cache'[n]["leader"] # None BY <1>1, <1>4, <2>7 DEF Kubes
    <3>5. ASSUME view'[n] # None
          PROVE /\ \A k \in Key : view'[n][k] # None => cache'[n][k] # None
                /\ IF seen'[n] = None THEN view'[n]["leader"] = None
                   ELSE \/ view'[n]["leader"] = seen'[n]
                        \/ ripe'[n] /\ view'[n]["leader"] = [seen'[n] EXCEPT !.value = None]
      <4>1. seen'[n] = leader /\ ripe'[n] = old /\ view'[n] = w BY <2>7, <3>5
      <4>2. \A k \in Key : view'[n][k] # None => cache'[n][k] # None
        BY <1>1, <2>3, <2>5, <4>1
      <4> QED BY <2>5, <4>1, <4>2
    <3> QED BY <3>1, <3>2, <3>3, <3>4, <3>5 DEF Kubes
  <2>12. Ends(n) BY <1>1, <1>3, <2>2, <2>9, <2>10, <2>11 DEF Ends, IsOver
  <2> QED BY <2>8, <2>12, EndsInv
<1>6. CASE Ku!TtlOver(n)
  <2>1. UNCHANGED <<call, view, seen>> /\ ripe' = [ripe EXCEPT ![n] = TRUE]
    BY <1>6 DEF Ku!TtlOver
  <2>2. ripe' \in [Node -> BOOLEAN] /\ ripe'[n] /\ \A m \in Node \ {n} : ripe'[m] = ripe[m]
    BY <2>1 DEF TypeOK
  <2>3. TypeOK' BY <1>1, <2>1, <2>2 DEF TypeOK
  <2>4. Elsewhere(n) /\ Stands(n) BY <1>1, <2>1, <2>2 DEF Elsewhere, Stands
  <2>5. Learns(n, "leader", None) BY <1>1, <1>2, <2>1, LearnsOver
  <2>6. Kubes(n)' BY <1>1, <1>4, <2>1, <2>2 DEF Kubes
  <2>7. Ends(n) BY <1>1, <1>3, <2>1, <2>4, <2>5, <2>6 DEF Ends
  <2> QED BY <2>3, <2>7, EndsInv
<1> QED BY <1>5, <1>6

LEMMA KuFinishes ==
  ASSUME Inv, backend = "kubernetes", NEW n \in Node, Ku!Finish(n)
  PROVE Inv' /\ HandOver
<1> USE KuIs DEF Inv
<1>1. UNCHANGED <<backend, concern, store, rev, granted, alive, faults, session, stream,
                  ready, seen, ripe, fetch, event, again>>
  BY DEF Ku!Finish, Ku!rest, Ku!setting, Ku!zooVars, Ku!server, Ku!data, Ku!kubeVars,
     NoteInitialize
<1>2. /\ ~Free(n) /\ Return(n, call[n].ans = "ok" /\ call[n].step # "read")
      /\ NoteInitialize(n, call[n].op = "initialize" /\ call[n].ans = "ok")
      /\ \E w \in {None, view[n]} : view' = [view EXCEPT ![n] = w]
  BY DEF Ku!Finish
<1> DEFINE hit == call[n].hit
           reads == call[n].step = "read" /\ call[n].ans = "ok" /\ hit # None
           c == IF reads THEN CacheSet(cache[n], "leader", hit) ELSE Noted(n)
<1>3. cache' = [cache EXCEPT ![n] = c] BY DEF Ku!Finish, TypeOK
<1>4. /\ \A j \in Key : cache[n][j] = None \/ cache[n][j] \in Known(j)
      /\ seen[n] = None \/ seen[n] \in Known("leader")
      /\ "leader" \in Key /\ "initialize" \in Key /\ cache[n] \in [Key -> Stored]
  BY KnownIs DEF Key, TypeOK
<1>5. Kubes(n) /\ Waits(n) /\ OwnSession(n, session[n]) BY DEF KubeInv, CallInv, SessionInv
<1>6. /\ c \in [Key -> Stored]
      /\ \A j \in Key : c[j] = None \/ c[j] \in Known(j)
      /\ \A j \in Key : Shows(n, j, cache[n][j]) => Shows(n, j, c[j])
      /\ \A j \in Key : cache[n][j] # None => c[j] # None
      /\ n \in initializing \/ (call[n].op = "initialize" /\ call[n].ans = "ok") =>
            c["initialize"] = store["initialize"]
  <2>1. CASE ~reads BY <1>2, <2>1, NotedIs, KubeNoted
  <2>2. CASE reads
    <3>1. call[n].op = "update" /\ call[n].req.key = "leader"
      BY <1>2, <1>5, <2>2 DEF Waits, Sound, Read, Other
    <3>2. hit \in Known("leader") BY <2>2, <3>1, KnownIs DEF Answered, Key
    <3>3. hit \in Entry BY <3>2 DEF Known
    <3>4. c = CacheSet(cache[n], "leader", hit) BY <2>2
    <3>5. /\ c \in [Key -> Stored] /\ \A j \in Key \ {"leader"} : c[j] = cache[n][j]
          /\ c["leader"] \in {hit, cache[n]["leader"]} /\ c["leader"] # None
      BY <1>4, <3>3, <3>4, CacheSetIs
    <3>6. Shows(n, "leader", cache[n]["leader"]) => Shows(n, "leader", c["leader"])
      BY <1>4, <3>2, <3>4, CacheSetShows
    <3>7. n \in initializing => c["initialize"] = store["initialize"]
      BY <1>4, <1>5, <3>5 DEF Kubes
    <3> HIDE DEF c
    <3> QED BY <1>4, <3>1, <3>2, <3>5, <3>6, <3>7
  <2> QED BY <2>1, <2>2
<1> HIDE DEF c
<1>7. /\ cache' \in [Node -> [Key -> Stored]] /\ cache'[n] = c
      /\ \A m \in Node \ {n} : cache'[m] = cache[m]
  BY <1>3, <1>6 DEF TypeOK
<1>8. IsOver(n)
  <2>1. (call[n].ans = "ok" /\ call[n].step # "read") \in BOOLEAN OBVIOUS
  <2> QED BY <1>1, <1>2, <2>1, ReturnOver
<1>9. /\ view' \in [Node -> [Key -> Stored] \cup {None}] /\ view'[n] \in {None, view[n]}
      /\ \A m \in Node \ {n} : view'[m] = view[m]
  <2>1. PICK w \in {None, view[n]} : view' = [view EXCEPT ![n] = w] BY <1>2
  <2> QED BY <2>1 DEF TypeOK
<1>10. TypeOK' BY <1>1, <1>2, <1>7, <1>8, <1>9 DEF TypeOK, IsOver, NoteInitialize
<1>11. Elsewhere(n) BY <1>1, <1>7, <1>8, <1>9 DEF Elsewhere, IsOver
<1>12. Learns(n, "leader", None)
  <2>1. Free(n)' BY <1>8 DEF IsOver
  <2> QED BY <1>1, <1>4, <1>6, <1>7, <1>9, <2>1, LearnsOver
<1>13. Kubes(n)'
  <2>1. call'[n].ans # "ok" BY <1>8 DEF IsOver, Free
  <2>2. n \in initializing' => cache'[n]["initialize"] = store'["initialize"]
    <3>1. n \in initializing' => n \in initializing \/ (call[n].op = "initialize" /\ call[n].ans = "ok")
      BY <1>2 DEF NoteInitialize
    <3> QED BY <1>1, <1>6, <1>7, <3>1
  <2>3. \A j \in Key : cache[n][j] # None => cache'[n][j] # None BY <1>6, <1>7
  <2>4. view'[n] = None \/ view'[n] = view[n] BY <1>9
  <2> QED BY <1>1, <1>4, <1>5, <2>1, <2>2, <2>3, <2>4 DEF Kubes
<1>14. Ends(n)
  BY <1>1, <1>2, <1>5, <1>6, <1>7, <1>8, <1>11, <1>12, <1>13 DEF Ends, IsOver, NoteInitialize
<1> QED BY <1>10, <1>14, EndsInv

LEMMA KuInv ==
  ASSUME Inv, backend = "kubernetes", Ku!Next
  PROVE Inv' /\ HandOver
<1> USE KuIs
<1> USE DEF Ku!rest, Ku!local, Ku!setting, Ku!kubeVars, Ku!zooVars, Ku!history, Ku!data,
        Ku!watching, setting, kubeVars, zooVars, history, data, clientVars
<1>1. ASSUME NEW n \in Node, Ku!Retry(n) PROVE Inv' /\ HandOver
  BY <1>1, RetryInv DEF Ku!Retry, Unasked
<1>2. ASSUME NEW n \in Node, Ku!BuildCache(n) \/ Ku!WatchEvent(n) \/ Ku!EndWatch(n)
      PROVE Inv' /\ HandOver
  <2>1. Watches(n) BY <1>2 DEF Ku!BuildCache, Ku!WatchEvent, Ku!EndWatch, Watches
  <2> QED BY <2>1, WatchesInv
<1> QED BY <1>1, <1>2, KuAcquires, KuUpdates, KuProceeds, KuAsks, KuLoads, KuFinishes
     DEF Ku!Next
----------------------------------------------------------------------------
\* The invariant holds at first.

LEMMA GetDcsIs ==
  ASSUME NEW sections \in SUBSET Backend, sections # {}
  PROVE GetDcs(sections) \in Backend
<1> DEFINE First(i) == /\ Modules[i] \in sections
                       /\ \A j \in 1..(i - 1) : Modules[j] \notin sections
<1>1. /\ DOMAIN Modules = 1..5
      /\ Modules[1] = "consul" /\ Modules[2] = "etcd" /\ Modules[3] = "etcd3"
      /\ Modules[4] = "kubernetes" /\ Modules[5] = "zookeeper"
  BY DEF Modules
<1>2. \A s \in sections : s \in {"consul", "etcd", "etcd3", "kubernetes", "zookeeper"}
  BY DEF Backend
<1>3. \E i \in 1..5 : First(i)
  <2>1. CASE "consul" \in sections
    <3>1. First(1) BY <1>1, <2>1
    <3> QED BY <3>1
  <2>2. CASE "consul" \notin sections /\ "etcd" \in sections
    <3>1. First(2) BY <1>1, <2>2
    <3> QED BY <3>1
  <2>3. CASE "consul" \notin sections /\ "etcd" \notin sections /\ "etcd3" \in sections
    <3>1. First(3) BY <1>1, <2>3
    <3> QED BY <3>1
  <2>4. CASE /\ "consul" \notin sections /\ "etcd" \notin sections
             /\ "etcd3" \notin sections /\ "kubernetes" \in sections
    <3>1. First(4) BY <1>1, <2>4
    <3> QED BY <3>1
  <2>5. CASE /\ "consul" \notin sections /\ "etcd" \notin sections
             /\ "etcd3" \notin sections /\ "kubernetes" \notin sections
    <3>1. "zookeeper" \in sections BY <1>2, <2>5
    <3>2. First(5) BY <1>1, <2>5, <3>1
    <3> QED BY <3>2
  <2> QED BY <2>1, <2>2, <2>3, <2>4, <2>5
<1>4. GetDcs(sections) = Modules[CHOOSE i \in 1..5 : First(i)] BY <1>1 DEF GetDcs
<1>5. (CHOOSE i \in 1..5 : First(i)) \in 1..5 BY <1>3
<1> DEFINE c == CHOOSE i \in 1..5 : First(i)
<1>6. GetDcs(sections) = Modules[c] /\ c \in 1..5 BY <1>4, <1>5
<1> HIDE DEF c
<1> QED BY <1>1, <1>6 DEF Backend

LEMMA Initially ==
  ASSUME Init
  PROVE Inv
<1>1. InitServer /\ backend \in Backend /\ concern \in Concern BY GetDcsIs DEF Init
<1>2. /\ rev = 0 /\ faults = 0 /\ initializing = {} /\ again = FALSE
      /\ granted \in [Node -> {0}] /\ alive = {Latest(n) : n \in Node}
      /\ \A n \in Node :
            /\ session[n] = <<n, 0>> /\ call[n] = Failed /\ view[n] = None
            /\ cache[n] = NoKeys /\ stream[n] = << >> /\ ~ready[n] /\ seen[n] = None
            /\ ~ripe[n]
  BY <1>1 DEF InitServer, Latest
<1>3. \A k \in Key : NoKeys[k] = None BY DEF NoKeys
<1>4. Failed \in Call /\ Failed.ans = "false" /\ Failed.step = "first" /\ Failed.op = "load"
      /\ Failed.at = 0 /\ Failed.hit = None /\ Failed.req = Read /\ Failed.index = None
  <2>1. Read \in Request BY DEF Read, Other, Request, Key
  <2> QED BY <2>1, StoreConstants DEF Failed, Call, Op, Stored
<1>5. \/ store = NoKeys
      \/ \E n \in Node : store \in [Key -> Entry] /\ \A k \in Key :
            /\ store[k].value = n /\ store[k].version = 0
            /\ store[k].session = IF k = "leader" /\ backend \in Bound THEN <<n, 0>> ELSE None
  <2>1. ASSUME NEW n \in Node, store = Running(n)
        PROVE store \in [Key -> Entry] /\ \A k \in Key :
                /\ store[k].value = n /\ store[k].version = 0
                /\ store[k].session = IF k = "leader" /\ backend \in Bound THEN <<n, 0>> ELSE None
    <3>1. Latest(n) = <<n, 0>> /\ <<n, 0>> \in Session
      BY <1>2, StoreConstants DEF Latest, Session
    <3>2. \A k \in Key : store[k] =
            [value |-> n, version |-> 0,
             session |-> IF k = "leader" /\ backend \in Bound THEN <<n, 0>> ELSE None]
      BY <2>1, <3>1 DEF Running
    <3>3. \A k \in Key : store[k] \in Entry
      <4>1. \A s \in Session \cup {None} :
              [value |-> n, version |-> 0, session |-> s] \in Entry
        BY StoreConstants DEF Entry
      <4> QED BY <3>1, <3>2, <4>1
    <3> QED BY <2>1, <3>2, <3>3 DEF Running
  <2> QED BY <1>1, <2>1 DEF InitServer
<1>6. store \in [Key -> Stored] BY <1>5, <1>3 DEF Stored, NoKeys
<1>7. TypeOK
  <2>1. /\ session \in [Node -> Session \cup {None}] /\ granted \in [Node -> 0..MaxGrants]
        /\ alive \subseteq Session
    <3>1. 0 \in 0..MaxGrants BY StoreConstants
    <3>2. \A n \in Node : Latest(n) = <<n, 0>> /\ <<n, 0>> \in Session
      BY <1>2, <3>1 DEF Latest, Session
    <3> QED BY <1>1, <1>2, <3>1, <3>2 DEF InitServer
  <2>2. /\ call \in [Node -> Call] /\ view \in [Node -> [Key -> Stored] \cup {None}]
        /\ seen \in [Node -> Stored] /\ ripe \in [Node -> BOOLEAN]
    BY <1>1, <1>4 DEF InitServer, Stored
  <2>3. cache \in [Node -> [Key -> Stored]]
    <3>1. NoKeys \in [Key -> Stored] BY DEF NoKeys, Stored
    <3> QED BY <1>1, <3>1 DEF InitServer
  <2>4. stream \in [Node -> Seq(Change)]
    <3>1. << >> \in Seq(Change) OBVIOUS
    <3> QED BY <1>1, <3>1 DEF InitServer
  <2>5. /\ ready \in [Node -> BOOLEAN] /\ fetch \in [Node -> BOOLEAN]
        /\ event \in [Node -> BOOLEAN]
    BY <1>1 DEF InitServer
  <2>6. faults \in 0..MaxFaults /\ rev \in 0..MaxRev BY <1>2, StoreConstants
  <2>7. initializing \subseteq Node /\ again \in BOOLEAN BY <1>2
  <2>8. backend \in Backend /\ concern \in Concern BY <1>1
  <2> QED BY <1>6, <2>1, <2>2, <2>3, <2>4, <2>5, <2>6, <2>7, <2>8 DEF TypeOK
<1>8. \A n \in Node : ~Answered(n) /\ Free(n) /\ ~Wrote(n)
  BY <1>2, <1>4 DEF Answered, Free, Wrote
<1>9. \A k \in Key : \A e \in Known(k) : e = store[k]
  BY <1>2, <1>3, <1>8, NoneIsNoEntry DEF Known, Reads, Hears, IsTold
<1>10. \A k \in Key : store[k] # None => store[k].version = 0 BY <1>3, <1>5
<1>11. VersionInv
  <2>1. \A k \in Key : store[k] = None => Known(k) = {} BY <1>9, NoneIsNoEntry DEF Known
  <2>2. \A n \in Node : call[n].at <= rev BY <1>2, <1>4
  <2>3. \A k \in Key : \A e \in Known(k) : e = store[k] /\ store[k] # None
    BY <1>9, NoneIsNoEntry DEF Known
  <2> QED BY <1>2, <1>10, <2>1, <2>2, <2>3 DEF VersionInv
<1>12. CallInv
  BY <1>2, <1>4, <1>8 DEF CallInv, Waits, RemovesOld
<1>13. ResultInv BY <1>2, <1>4 DEF ResultInv, Truly, Returned
<1>14. InitInv BY <1>2, <1>4, <1>8 DEF InitInv, Initializes
<1>15. SessionInv
  <2>1. \A n \in Node : <<n, 0>> # None BY StoreConstants
  <2>2. \A n \in Node : OwnSession(n, <<n, 0>>) BY StoreConstants DEF OwnSession
  <2>3. backend = "consul" /\ store["leader"] # None =>
          /\ store["leader"].session # None
          /\ OwnSession(store["leader"].value, store["leader"].session)
    BY <1>3, <1>5, <2>1, <2>2 DEF Key, Bound
  <2> QED BY <1>2, <2>2, <2>3 DEF SessionInv
<1>16. KubeInv BY <1>2, <1>4 DEF KubeInv, Kubes
<1>17. CacheInv BY <1>2, <1>4 DEF CacheInv, Watching, IsLast
<1> QED BY <1>7, <1>11, <1>12, <1>13, <1>14, <1>15, <1>16, <1>17 DEF Inv

\* A step in which nothing changes.
LEMMA Stutters ==
  ASSUME Inv, UNCHANGED vars
  PROVE Inv'
<1> USE DEF vars, setting, server, data, clientVars, watchVars, kubeVars, zooVars, history
<1>1. TypeOK' BY DEF Inv, TypeOK
<1>2. \A k \in Key : Known(k)' = Known(k)
  BY DEF Known, Reads, Hears, IsTold, Answered, Wrote, Written
<1>3. VersionInv' BY <1>2 DEF Inv, VersionInv
<1>4. \A k \in Key : \A v, x : VersionIs(k, v, x)' <=> VersionIs(k, v, x)
  BY <1>2 DEF VersionIs
<1>5. \A n \in Node : \A r : Mine(n, r)' <=> Mine(n, r) BY <1>4 DEF Mine, Key
<1>6. CallInv'
  <2>1. ASSUME NEW n \in Node PROVE Waits(n)'
    <3>1. Waits(n) BY DEF Inv, CallInv
    <3>2. \A op, step, r, i : Sound(n, op, step, r, i) => Sound(n, op, step, r, i)'
      <4>1. \A op, r : LeaderPut(n, op, r)' <=> LeaderPut(n, op, r)
        BY <1>5 DEF LeaderPut, OwnSession
      <4>2. \A r : /\ InitializePut(n, r)' <=> InitializePut(n, r)
                   /\ CancelPut(n, r)' <=> CancelPut(n, r)
        BY <1>4 DEF InitializePut, CancelPut, Key
      <4> QED BY <1>5, <4>1, <4>2 DEF Sound, AsksForKey
    <3> QED BY <1>4, <3>1, <3>2 DEF Waits, Free, RemovesOld, Key, Writes, Met, OwnedBy
  <2> QED BY <2>1 DEF CallInv
<1>7. ResultInv' BY DEF Inv, ResultInv, Truly, AsksForKey, Returned, OwnedBy, Free
<1>8. InitInv' BY DEF Inv, InitInv, Initializes, OwnedBy, Free
<1>9. SessionInv' BY DEF Inv, SessionInv, OwnSession
<1>10. KubeInv' BY DEF Inv, KubeInv, Kubes
<1>11. CacheInv'
  <2>1. ASSUME NEW n \in Node, Watching(n) PROVE Watching(n)'
    BY <1>2, <2>1 DEF Watching, Shows, IsLast
  <2> QED BY <2>1 DEF Inv, CacheInv
<1> QED BY <1>1, <1>3, <1>6, <1>7, <1>8, <1>9, <1>10, <1>11 DEF Inv
----------------------------------------------------------------------------
\* Theorems.

LEMMA StepInv ==
  ASSUME Inv, Next
  PROVE Inv' /\ HandOver
BY V2Inv, V3Inv, CoInv, ZkInv, KuInv DEF Next

LEMMA StutterHandsNothing ==
  ASSUME UNCHANGED vars
  PROVE HandOver
BY DEF HandOver, OwnedBy, vars, server, data

\* What the nodes know of the store, what their requests rely on and what the server
\* says of them stay consistent with any of the five back-ends.
THEOREM BackendsCorrect == Spec => []Inv
<1>1. Init => Inv BY Initially
<1>2. Inv /\ [Next]_vars => Inv' BY StepInv, Stutters
<1> QED BY <1>1, <1>2, PTL DEF Spec

\* A watch cache of Etcd3 or Kubernetes that has handled every event shows the keys as
\* the server has them, but that Etcd3 may keep a key of the node itself that is gone.
THEOREM StoreCorrect == Spec => []StoreInv
<1>1. ASSUME Inv PROVE StoreInv
  <2>1. ASSUME backend \in {"etcd3", "kubernetes"}, NEW n \in Node, NEW k \in Key,
               ready[n], stream[n] = << >>, cache[n][k] # store[k]
        PROVE backend = "etcd3" /\ store[k] = None /\ cache[n][k].value = n
    <3>1. Watching(n) BY <1>1, <2>1 DEF Inv, CacheInv
    <3>2. DOMAIN stream[n] = {} BY <2>1
    <3>3. Shows(n, k, cache[n][k]) BY <2>1, <3>1, <3>2 DEF Watching
    <3> QED BY <2>1, <3>3 DEF Shows
  <2> QED BY <1>1, <2>1 DEF Inv, StoreInv, CacheShows
<1> QED BY <1>1, BackendsCorrect, PTL

\* A successful update_leader of etcd or Kubernetes has met the node's own leader key.
THEOREM UpdateCorrect == Spec => []TrueUpdate
<1>1. ASSUME Inv PROVE TrueUpdate BY <1>1 DEF Inv, ResultInv, Truly, TrueUpdate
<1> QED BY <1>1, BackendsCorrect, PTL

\* A successful write of /sync with an index has met the key at this version.
THEOREM IndexCorrect == Spec => []NoLostUpdate
<1>1. ASSUME Inv PROVE NoLostUpdate BY <1>1 DEF Inv, ResultInv, Truly, NoLostUpdate
<1> QED BY <1>1, BackendsCorrect, PTL

\* Two nodes never both initialize the cluster, unless a retried
\* cancel_initialization has removed the key of the second one.
THEOREM InitializerCorrect == Spec => []OneInitializer
<1>1. ASSUME Inv, backend = "kubernetes" \/ ~again PROVE Cardinality(initializing) <= 1
  <2>1. \A n \in initializing : n \in Node /\ OwnedBy(n, store["initialize"])
    BY <1>1 DEF Inv, InitInv, Initializes, TypeOK
  <2>2. CASE initializing = {} BY <2>2, FS_EmptySet
  <2>3. CASE initializing # {}
    <3>1. PICK n \in initializing : TRUE BY <2>3
    <3>2. initializing = {n} BY <2>1, <3>1 DEF OwnedBy
    <3> QED BY <3>2, FS_Singleton
  <2> QED BY <2>2, <2>3
<1>2. Inv => OneInitializer BY <1>1 DEF OneInitializer
<1> QED BY <1>2, BackendsCorrect, PTL

\* A request that removes the leader key, and is applied, has met the key of the node
\* that made it; znodes are removed without a condition.
THEOREM RemoveCorrect == Spec => []RemovesOwn
<1>1. ASSUME Inv, backend # "zookeeper", NEW n \in Node, call[n].ans = "ok",
             call[n].req.key = "leader", Writes(call[n].req), call[n].req.value = None
      PROVE OwnedBy(n, call[n].hit)
  <2>1. Waits(n) /\ ~Free(n) BY <1>1 DEF Inv, CallInv, Free
  <2>2. Mine(n, call[n].req) /\ Met(call[n].req, call[n].hit)
    BY <1>1, <2>1 DEF Waits, Sound
  <2> QED BY <1>1, <2>2, HitMine
<1>2. Inv => RemovesOwn BY <1>1 DEF RemovesOwn
<1> QED BY <1>2, BackendsCorrect, PTL

\* The leader key goes straight from one node to another only where MayTakeOver says
\* so, whatever answers were lost and whatever was retried.
THEOREM TakeOverCorrect == Spec => NoTakeOver
<1>1. Inv /\ [Next]_vars => HandOver BY StepInv, StutterHandsNothing
<1> QED BY <1>1, BackendsCorrect, PTL DEF Spec, NoTakeOver
=============================================================================
