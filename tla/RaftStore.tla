------------------------------ MODULE RaftStore ------------------------------
(***************************************************************************)
(* The leader key in KVStoreTTL, the key-value store that every node keeps *)
(* on top of the replicated log of pysyncobj.                              *)
(*                                                                         *)
(* A request goes to the raft leader and into the log, and every node      *)
(* applies the log to its own dictionary; the caller is told what its own  *)
(* node computes when it applies the request.  The requests of one node    *)
(* arrive in order, but any of them may be lost.                           *)
(***************************************************************************)
EXTENDS FiniteSets, Integers, Sequences

CONSTANTS
    Node,
    None,
    Ttl,            \* time to live of the leader key
    RetryTimeout,   \* how long a request is retried
    Skew,           \* how far the clocks of two nodes are apart at most
    EarlyTail,      \* BOOLEAN: may the journal of a node end uncommitted?
    MaxTime, MaxFlight, MaxBehind           \* bounds

ASSUME ConstantsOK ==
    /\ None \notin Node
    /\ Ttl \in Nat /\ RetryTimeout \in Nat /\ Skew \in Nat
    /\ EarlyTail \in BOOLEAN
    /\ MaxTime \in Nat /\ MaxFlight \in Nat /\ MaxBehind \in Nat

VARIABLES
    now,            \* real time
    offset,         \* how much the clock of a node is ahead of it
    key,            \* the key after all commands in the log
    store,          \* the key in the dictionary of a node
    behind,         \* the commands in the log that a node has yet to apply
    early,          \* it has applied a command before that is in the log
    flight,         \* its requests on their way into the log
    raftLeader,
    limb,           \* the value whose expiry the raft leader has requested
    call,           \* what the HA loop of a node waits for
    lease,          \* since when a node has the key, as it was last told
    told            \* history: the answer to the last call, if it matters

logVars  == <<key, store, behind, early>>
raftVars == <<raftLeader, limb>>
haVars   == <<call, lease, told>>
vars == <<now, offset, logVars, flight, raftVars, haVars>>

----------------------------------------------------------------------------

\* A value of the key, by the clock of its owner; it expires at updated + Ttl.
Value == [owner : Node, updated : Nat]

ASSUME NoneIsNoValue == None \notin Value

\* create is _set with prevExist=False; renew is _set, and delete is _delete,
\* with the own name as prevValue.
Op == {"create", "renew", "delete", "expire"}

Command == [op : Op, by : Node, value : Value \cup {None},
            live : BOOLEAN]         \* someone waits for its callback

\* A command in the log of a node; before: history, the key before the command.
Entry == [op : Op, by : Node, value : Value \cup {None}, live : BOOLEAN,
          before : Value \cup {None}]

Idle == [at |-> "idle", op |-> "none", since |-> 0]

RenewFailed == [at |-> "fallback", op |-> "none", since |-> 0]

Call == [at : {"wait", "sleep"}, op : {"create", "renew", "delete"}, since : Nat]
        \cup {Idle, RenewFailed}

TypeOK ==
    /\ now \in Nat /\ offset \in [Node -> 0..Skew]
    /\ key \in Value \cup {None} /\ store \in [Node -> Value \cup {None}]
    /\ behind \in [Node -> Seq(Entry)] /\ early \in [Node -> BOOLEAN]
    /\ flight \in [Node -> Seq(Command)]
    /\ raftLeader \in Node \cup {None} /\ limb \in [Node -> Value \cup {None}]
    /\ call \in [Node -> Call]
    /\ lease \in [Node -> Nat \cup {None}]
    /\ told \in [Node -> {"none", "released"}]

Init ==
    /\ now = 0 /\ offset \in [Node -> 0..Skew]
    /\ \E n \in Node : offset[n] = 0
    /\ key = None /\ store = [n \in Node |-> None]
    /\ behind = [n \in Node |-> << >>] /\ early = [n \in Node |-> FALSE]
    /\ flight = [n \in Node |-> << >>]
    /\ raftLeader = None /\ limb = [n \in Node |-> None]
    /\ call = [n \in Node |-> Idle]
    /\ lease = [n \in Node |-> None] /\ told = [n \in Node |-> "none"]

Clock(n) == now + offset[n]

Owns(n, value) == value # None /\ value.owner = n

----------------------------------------------------------------------------
\* The replicated methods _set, _delete and _expire.

\* Mutant: values_match compares no more than the owner.
ExpireByName(c, value) ==
    \/ c.op = "create" /\ value = None
    \/ c.op \in {"renew", "delete"} /\ Owns(c.by, value)
    \/ c.op = "expire" /\ Owns(c.value.owner, value)

CheckRequirements(c, value) ==
    \/ c.op = "create" /\ value = None
    \/ c.op \in {"renew", "delete"} /\ Owns(c.by, value)
    \/ c.op = "expire" /\ value = c.value

\* The key after command c.
Effect(c, value) ==
    IF ~CheckRequirements(c, value) THEN value
    ELSE IF c.op \in {"create", "renew"} THEN c.value ELSE None

----------------------------------------------------------------------------
\* retry: one request at a time, the same value each time.

\* A bound on the requests of all nodes that are on their way.
FewRequests ==
    Cardinality(UNION {{m} \X DOMAIN flight[m] : m \in Node}) < MaxFlight

Send(n, command) ==
    /\ FewRequests
    /\ flight' = [flight EXCEPT ![n] = Append(@, command)]

Request(n, op, since) ==
    Send(n, [op |-> op, by |-> n, live |-> TRUE,
             value |-> IF op = "delete" THEN None
                       ELSE [owner |-> n, updated |-> since + offset[n]]])

\* set and delete.  What the own dictionary refuses is not sent.
Retry(n, op) ==
    /\ Request(n, op, now)
    /\ call' = [call EXCEPT ![n] = [at |-> "wait", op |-> op, since |-> now]]
    /\ told' = [told EXCEPT ![n] = "none"]

\* The call returns ok.
Return(n, ok) ==
    LET op == call[n].op IN
    /\ call' = [call EXCEPT ![n] =
                  IF op = "renew" /\ ~ok THEN RenewFailed ELSE Idle]
    /\ lease' = IF op # "delete" /\ ok
                THEN [lease EXCEPT ![n] = call[n].since] ELSE lease
    /\ told' = [told EXCEPT ![n] =
                  IF op = "delete" /\ ok THEN "released" ELSE "none"]

\* Nobody waits for the callbacks of these requests any more.
Unheard(requests) ==
    [i \in DOMAIN requests |-> [requests[i] EXCEPT !.live = FALSE]]

Orphan(n) ==
    /\ flight' = [flight EXCEPT ![n] = Unheard(@)]
    /\ behind' = [behind EXCEPT ![n] = Unheard(@)]

Timeout(op) == IF op = "delete" THEN 1 ELSE RetryTimeout

\* The callback reports an error, or nothing comes until the deadline.
Fail(n) ==
    /\ call[n].at = "wait"
    /\ Orphan(n)
    /\ \/ Return(n, FALSE)
       \/ /\ now - call[n].since < Timeout(call[n].op)
          /\ call' = [call EXCEPT ![n].at = "sleep"]
          /\ UNCHANGED <<lease, told>>
    /\ UNCHANGED <<now, offset, key, store, early, raftVars>>

Again(n) ==
    /\ call[n].at = "sleep"
    /\ Request(n, call[n].op, call[n].since)
    /\ call' = [call EXCEPT ![n].at = "wait"]
    /\ UNCHANGED <<now, offset, logVars, raftVars, lease, told>>

----------------------------------------------------------------------------
\* Raft.

AttemptToAcquireLeader(n) ==
    /\ call[n].at = "idle" /\ store[n] = None
    /\ Retry(n, "create")
    /\ UNCHANGED <<now, offset, logVars, raftVars, lease>>

UpdateLeader(n) ==
    /\ call[n].at = "idle" /\ Owns(n, store[n])
    /\ Retry(n, "renew")
    /\ UNCHANGED <<now, offset, logVars, raftVars, lease>>

\* _update_leader after a failed renewal: the key may be gone.
Fallback(n) ==
    /\ call[n].at = "fallback"
    /\ \/ store[n] = None /\ Retry(n, "create")
       \/ /\ store[n] # None
          /\ call' = [call EXCEPT ![n] = Idle]
          /\ UNCHANGED <<flight, told>>
    /\ UNCHANGED <<now, offset, logVars, raftVars, lease>>

DeleteLeader(n) ==
    /\ call[n].at = "idle" /\ Owns(n, store[n])
    /\ Retry(n, "delete")
    /\ lease' = [lease EXCEPT ![n] = None]
    /\ UNCHANGED <<now, offset, logVars, raftVars>>

----------------------------------------------------------------------------
\* _onTick.

\* Mutant: a key expires one unit of time before its time.
ExpireEarly(n) ==
    /\ raftLeader = n
    /\ store[n] # None /\ store[n].updated + Ttl <= Clock(n) + 1
    /\ limb[n] # store[n]
    /\ limb' = [limb EXCEPT ![n] = store[n]]
    /\ Send(n, [op |-> "expire", by |-> n, value |-> store[n], live |-> FALSE])
    /\ UNCHANGED <<now, offset, logVars, raftLeader, haVars>>

\* The raft leader asks for the removal of what it sees expired, once.
ExpireKeys(n) ==
    /\ raftLeader = n
    /\ store[n] # None /\ store[n].updated + Ttl <= Clock(n)
    /\ limb[n] # store[n]
    /\ limb' = [limb EXCEPT ![n] = store[n]]
    /\ Send(n, [op |-> "expire", by |-> n, value |-> store[n], live |-> FALSE])
    /\ UNCHANGED <<now, offset, logVars, raftLeader, haVars>>

\* The callback of some expiry; its key is whatever the loop has seen last.
ExpiryCallback(n) ==
    /\ limb[n] # None
    /\ limb' = [limb EXCEPT ![n] = None]
    /\ UNCHANGED <<now, offset, logVars, flight, raftLeader, haVars>>

StepDown(n) ==
    /\ raftLeader = n /\ raftLeader' = None
    /\ limb' = [limb EXCEPT ![n] = None]
    /\ UNCHANGED <<now, offset, logVars, flight, haVars>>

----------------------------------------------------------------------------
\* pysyncobj.

\* Somebody who is not ahead of the log.
Elect(n) ==
    /\ raftLeader = None /\ ~early[n] /\ raftLeader' = n
    /\ UNCHANGED <<now, offset, logVars, flight, limb, haVars>>

\* Only the node that made the request has its callback.
EntryFor(m, c) ==
    [op |-> c.op, by |-> c.by, value |-> c.value,
     live |-> c.live /\ m = c.by, before |-> key]

\* Mutant: the requests of a node arrive in any order.
CommitOutOfOrder(n, i) ==
    /\ i \in DOMAIN flight[n] /\ raftLeader # None
    /\ \A m \in Node : Len(behind[m]) < MaxBehind
    /\ key' = Effect(flight[n][i], key)
    /\ flight' = [flight EXCEPT ![n] =
                     SubSeq(@, 1, i - 1) \o SubSeq(@, i + 1, Len(@))]
    /\ behind' = [m \in Node |->
                    IF early[m] THEN behind[m]
                    ELSE Append(behind[m], EntryFor(m, flight[n][i]))]
    /\ early' = [m \in Node |-> FALSE]
    /\ UNCHANGED <<now, offset, store, raftVars, haVars>>

\* The i-th request of n gets into the log, those before it are lost.  The raft
\* leader loses none of its own.
Commit(n, i) ==
    /\ i \in DOMAIN flight[n] /\ raftLeader # None
    /\ raftLeader = n => i = 1
    /\ \A m \in Node : Len(behind[m]) < MaxBehind
    /\ key' = Effect(flight[n][i], key)
    /\ flight' = [flight EXCEPT ![n] = SubSeq(@, i + 1, Len(@))]
    /\ behind' = [m \in Node |->
                    IF early[m] THEN behind[m]
                    ELSE Append(behind[m], EntryFor(m, flight[n][i]))]
    /\ early' = [m \in Node |-> FALSE]
    /\ UNCHANGED <<now, offset, store, raftVars, haVars>>

\* The connection of n to the raft leader is lost.
Drop(n) ==
    /\ flight[n] # << >> /\ n # raftLeader
    /\ flight' = [flight EXCEPT ![n] = << >>]
    /\ UNCHANGED <<now, offset, logVars, raftVars, haVars>>

Apply(n) ==
    /\ behind[n] # << >>
    /\ LET c == Head(behind[n]) IN
       /\ store' = [store EXCEPT ![n] = Effect(c, @)]
       /\ IF c.live THEN Return(n, CheckRequirements(c, store[n]))
          ELSE UNCHANGED haVars
    /\ behind' = [behind EXCEPT ![n] = Tail(@)]
    /\ UNCHANGED <<now, offset, key, early, flight, raftVars>>

Forget(n) ==
    /\ raftLeader' = IF raftLeader = n THEN None ELSE raftLeader
    /\ limb' = [limb EXCEPT ![n] = None]
    /\ call' = [call EXCEPT ![n] = Idle]
    /\ lease' = [lease EXCEPT ![n] = None]
    /\ told' = [told EXCEPT ![n] = "none"]
    /\ UNCHANGED <<now, offset, key>>

Restart(n) ==
    /\ Orphan(n)
    /\ Forget(n)
    /\ UNCHANGED <<store, early>>

\* _onTick makes a node apply its journal to the end before it has met another
\* node.  The last command there is one that it got as the raft leader; who comes
\* after it may know the command, or commit others in its place.
RestartEarly(n) ==
    /\ EarlyTail /\ raftLeader = n
    /\ \E m \in Node : \E i \in DOMAIN flight[m] :
          store' = [store EXCEPT ![n] = Effect(flight[m][i], key)]
    /\ behind' = [behind EXCEPT ![n] = << >>]
    /\ early' = [early EXCEPT ![n] = TRUE]
    /\ flight' = [flight EXCEPT ![n] = Unheard(@)]
    /\ Forget(n)

Tick ==
    /\ now < MaxTime /\ now' = now + 1
    /\ UNCHANGED <<offset, logVars, flight, raftVars, haVars>>

----------------------------------------------------------------------------

Next ==
    \/ Tick
    \/ \E n \in Node :
          \/ AttemptToAcquireLeader(n) \/ UpdateLeader(n) \/ Fallback(n)
          \/ DeleteLeader(n) \/ Fail(n) \/ Again(n)
          \/ ExpireKeys(n) \/ ExpiryCallback(n) \/ StepDown(n)
          \/ Elect(n) \/ Drop(n) \/ Apply(n) \/ Restart(n) \/ RestartEarly(n)
          \/ \E i \in DOMAIN flight[n] : Commit(n, i)

Spec == Init /\ [][Next]_vars

----------------------------------------------------------------------------
\* Properties.

\* Whoever was told that it has the key has it for the rest of its time to live,
\* counted from the start of the call and less the difference of the clocks: no
\* other node takes the key, no late expiry and no late request of its own
\* removes or shortens it.
LeaseHeld ==
    \A n \in Node :
        lease[n] # None /\ now < lease[n] + Ttl - Skew => Owns(n, key)

\* A node that was told that its key is gone does not get it back through a
\* request that it sent before, gave up waiting for, and that is still on its way
\* when the delete request is sent.
ReleasedStays == \A n \in Node : told[n] = "released" => ~Owns(n, key)

NoDelete(n) == \A i \in DOMAIN flight[n] : flight[n][i].op # "delete"

\* Who may yet be seen to give the key up.
Asked == {n \in Node : ~NoDelete(n)}

Register == INSTANCE LeaseRegister WITH
    asked <- Asked,
    holder <- IF key = None THEN None ELSE key.owner,
    due <- IF key = None THEN 0
           ELSE key.updated - offset[key.owner] + Ttl - Skew

\* In real time the key is a lease register: whoever has it loses it through a
\* delete request of its own that is under way, or not before its lease is over.
RegisterRefined == Register!RegisterSpec

----------------------------------------------------------------------------
\* The inductive invariant behind the safety properties.

\* The setting under which it holds.
JournalCommitted == EarlyTail = FALSE

\* When the lease in a value ends at the earliest.
Due(value) == value.updated - offset[value.owner] + Ttl - Skew

\* The entries a node has yet to apply lead from its dictionary to the key.
ChainOK(n) ==
    /\ ~early[n]
    /\ store[n] = IF behind[n] = << >> THEN key ELSE behind[n][1].before
    /\ \A i \in DOMAIN behind[n] :
          Effect(behind[n][i], behind[n][i].before) =
              IF i = Len(behind[n]) THEN key ELSE behind[n][i + 1].before

Chain == \A n \in Node : ChainOK(n)

InCall(n) == call[n].at \in {"wait", "sleep"}

\* value is not newer than what the call in progress, or the next one, writes.
Past(n, value) ==
    /\ value.updated <= Clock(n)
    /\ InCall(n) => value.updated <= call[n].since + offset[n]

SetOp == {"create", "renew"}

\* A request to set the key is not newer than the present, nor than the requests
\* behind it, and not older than the key; what is to expire is over.
RequestOK(n, i) ==
    LET c == flight[n][i] IN
    /\ c.by = n
    /\ c.op \in SetOp =>
          /\ Owns(n, c.value) /\ Past(n, c.value)
          /\ Owns(n, key) => key.updated <= c.value.updated
          /\ \A j \in DOMAIN flight[n] :
                j > i /\ flight[n][j].op \in SetOp =>
                    c.value.updated <= flight[n][j].value.updated
    /\ c.op = "expire" => c.value # None /\ Due(c.value) <= now

Requests == \A n \in Node : \A i \in DOMAIN flight[n] : RequestOK(n, i)

KeyRecent == key # None => Past(key.owner, key)

OnlyExpiry(n) == \A i \in DOMAIN flight[n] : flight[n][i].op = "expire"

\* A request with a caller is the one of the call in progress, and the last.
Live(n, c) ==
    /\ call[n].at = "wait" /\ c.by = n /\ c.op = call[n].op
    /\ c.op # "delete" => c.value.updated = call[n].since + offset[n]

CallerOK(n) ==
    /\ call[n].since <= now
    /\ \A i \in DOMAIN flight[n] : flight[n][i].live =>
          /\ Live(n, flight[n][i])
          /\ \A j \in DOMAIN flight[n] : j > i => flight[n][j].op = "expire"
    /\ \A i \in DOMAIN behind[n] : behind[n][i].live =>
          /\ Live(n, behind[n][i])
          /\ OnlyExpiry(n)
          /\ \A j \in DOMAIN behind[n] : behind[n][j].live => j = i

Callers == \A n \in Node : CallerOK(n)

\* n may rely on the key since that time.
Holds(n, since) ==
    now < since + Ttl - Skew =>
        Owns(n, key) /\ key.updated >= since + offset[n]

\* What a node was told, or will be told, about the key.
ToldOK(n) ==
    /\ lease[n] # None =>
          Holds(n, lease[n]) /\ NoDelete(n) /\ call[n].op # "delete"
    /\ told[n] = "released" =>
          ~Owns(n, key) /\ OnlyExpiry(n) /\ call[n].at = "idle"

WillBeTold(n) ==
    \A i \in DOMAIN behind[n] :
        LET e == behind[n][i] IN
        e.live /\ CheckRequirements(e, e.before) =>
            IF e.op = "delete" THEN ~Owns(n, key)
            ELSE Holds(n, call[n].since)

Claims == \A n \in Node : ToldOK(n) /\ WillBeTold(n)

\* What holds whatever a journal ends with.
RequestInv == TypeOK /\ Requests /\ KeyRecent /\ Callers

\* What holds if every journal ends committed.
StoreInv == RequestInv /\ Chain /\ Claims

=============================================================================
