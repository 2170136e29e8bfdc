--------------------------- MODULE RaftStoreProofs ---------------------------
(***************************************************************************)
(* Proofs about RaftStore, for every set of nodes, every ttl, every        *)
(* difference of the clocks and every bound.                               *)
(*                                                                         *)
(* RequestInv holds whatever a journal ends with; the refinement of the    *)
(* lease register follows from it.  What nodes are told of the key needs   *)
(* JournalCommitted: it also rests on their dictionaries (StoreInv).       *)
(***************************************************************************)
EXTENDS RaftStore, SequenceTheorems, TLAPS

\* Requests nobody waits for are the same requests.
LEMMA UnheardType ==
    ASSUME NEW q \in Seq(Command)
    PROVE  /\ Unheard(q) \in Seq(Command)
           /\ DOMAIN Unheard(q) = DOMAIN q
           /\ \A i \in DOMAIN q :
                 /\ Unheard(q)[i].op = q[i].op /\ Unheard(q)[i].by = q[i].by
                 /\ Unheard(q)[i].value = q[i].value /\ ~Unheard(q)[i].live
<1>1. /\ Len(q) \in Nat /\ DOMAIN q = 1..Len(q)
      /\ \A i \in 1..Len(q) : q[i] \in Command
  BY LenProperties
<1>2. ASSUME NEW i \in 1..Len(q)
      PROVE  /\ [q[i] EXCEPT !.live = FALSE] \in Command
             /\ [q[i] EXCEPT !.live = FALSE].op = q[i].op
             /\ [q[i] EXCEPT !.live = FALSE].by = q[i].by
             /\ [q[i] EXCEPT !.live = FALSE].value = q[i].value
             /\ ~[q[i] EXCEPT !.live = FALSE].live
  BY <1>1 DEF Command
<1>3. Unheard(q) \in [1..Len(q) -> Command]
  BY <1>1, <1>2 DEF Unheard
<1>4. Unheard(q) \in Seq(Command)
  BY <1>1, <1>3, SeqDef
<1> QED BY <1>1, <1>2, <1>3, <1>4 DEF Unheard

\* The same of entries in the log of a node.
LEMMA UnheardEntryType ==
    ASSUME NEW q \in Seq(Entry)
    PROVE  /\ Unheard(q) \in Seq(Entry)
           /\ Len(Unheard(q)) = Len(q)
           /\ DOMAIN Unheard(q) = DOMAIN q
           /\ \A i \in DOMAIN q :
                 /\ Unheard(q)[i].op = q[i].op /\ Unheard(q)[i].by = q[i].by
                 /\ Unheard(q)[i].value = q[i].value /\ ~Unheard(q)[i].live
                 /\ Unheard(q)[i].before = q[i].before
<1>1. /\ Len(q) \in Nat /\ DOMAIN q = 1..Len(q)
      /\ \A i \in 1..Len(q) : q[i] \in Entry
  BY LenProperties
<1>2. ASSUME NEW i \in 1..Len(q)
      PROVE  /\ [q[i] EXCEPT !.live = FALSE] \in Entry
             /\ [q[i] EXCEPT !.live = FALSE].op = q[i].op
             /\ [q[i] EXCEPT !.live = FALSE].by = q[i].by
             /\ [q[i] EXCEPT !.live = FALSE].value = q[i].value
             /\ ~[q[i] EXCEPT !.live = FALSE].live
             /\ [q[i] EXCEPT !.live = FALSE].before = q[i].before
  BY <1>1 DEF Entry
<1>3. Unheard(q) \in [1..Len(q) -> Entry]
  BY <1>1, <1>2 DEF Unheard
<1>4. Unheard(q) \in Seq(Entry)
  BY <1>1, <1>3, SeqDef
<1>5. Len(Unheard(q)) = Len(q)
  BY <1>1, <1>3, <1>4, LenProperties
<1> QED BY <1>1, <1>2, <1>3, <1>4, <1>5 DEF Unheard

\* What is left of a sequence after its i-th element.
LEMMA Rest ==
    ASSUME NEW S, NEW q \in Seq(S), NEW i \in DOMAIN q
    PROVE  /\ SubSeq(q, i + 1, Len(q)) \in Seq(S)
           /\ Len(SubSeq(q, i + 1, Len(q))) = Len(q) - i
           /\ DOMAIN SubSeq(q, i + 1, Len(q)) = 1..(Len(q) - i)
           /\ \A j \in 1..(Len(q) - i) : SubSeq(q, i + 1, Len(q))[j] = q[i + j]
BY SubSeqProperties

\* A command leaves a value or nothing.
LEMMA EffectType ==
    ASSUME NEW c, c.op \in Op, c.value \in Value \cup {None},
           NEW value \in Value \cup {None}
    PROVE  Effect(c, value) \in Value \cup {None}
BY DEF Effect

\* Sending keeps the requests on their way in their type.
LEMMA SendType ==
    ASSUME TypeOK, NEW n \in Node, NEW c \in Command, Send(n, c)
    PROVE  flight' \in [Node -> Seq(Command)]
BY DEF TypeOK, Send

\* So does a request of set or delete.
LEMMA RequestType ==
    ASSUME TypeOK, NEW n \in Node, NEW op \in {"create", "renew", "delete"},
           NEW since \in Nat, Request(n, op, since)
    PROVE  flight' \in [Node -> Seq(Command)]
<1>1. offset[n] \in Nat
  BY ConstantsOK DEF TypeOK
<1>2. [owner |-> n, updated |-> since + offset[n]] \in Value
  BY <1>1 DEF Value
<1>3. [op |-> op, by |-> n, live |-> TRUE,
       value |-> IF op = "delete" THEN None
                 ELSE [owner |-> n, updated |-> since + offset[n]]] \in Command
  BY <1>2 DEF Command, Op
<1> QED BY <1>3, SendType DEF Request

\* A call in progress is a set or a delete.
LEMMA CallType ==
    ASSUME NEW x \in Call, x.at \in {"wait", "sleep"}
    PROVE  /\ x.op \in {"create", "renew", "delete"} /\ x.since \in Nat
           /\ [x EXCEPT !.at = "sleep"] \in Call
           /\ [x EXCEPT !.at = "wait"] \in Call
<1>1. x # Idle /\ x # RenewFailed
  BY DEF Idle, RenewFailed
<1>2. x \in [at : {"wait", "sleep"}, op : {"create", "renew", "delete"}, since : Nat]
  BY <1>1 DEF Call
<1> QED BY <1>2 DEF Call

\* Every step keeps every variable in its type.
LEMMA TypeStep ==
    ASSUME TypeOK, [Next]_vars
    PROVE  TypeOK'
<1> USE ConstantsOK DEF TypeOK, logVars, raftVars, haVars
<1>1. CASE Tick
  BY <1>1 DEF Tick
<1>2. ASSUME NEW n \in Node,
             \/ AttemptToAcquireLeader(n) \/ UpdateLeader(n)
             \/ DeleteLeader(n) \/ Fallback(n)
      PROVE TypeOK'
  <2>1. ASSUME NEW op \in {"create", "renew", "delete"}, Retry(n, op)
        PROVE  /\ flight' \in [Node -> Seq(Command)] /\ call' \in [Node -> Call]
               /\ told' \in [Node -> {"none", "released"}]
    <3>1. flight' \in [Node -> Seq(Command)]
      BY <2>1, RequestType DEF Retry
    <3> QED BY <2>1, <3>1 DEF Retry, Call
  <2>2. CASE AttemptToAcquireLeader(n)
    BY <2>1, <2>2 DEF AttemptToAcquireLeader
  <2>3. CASE UpdateLeader(n)
    BY <2>1, <2>3 DEF UpdateLeader
  <2>4. CASE DeleteLeader(n)
    BY <2>1, <2>4 DEF DeleteLeader
  <2>5. CASE Fallback(n)
    <3>1. CASE store[n] = None
      BY <2>1, <2>5, <3>1 DEF Fallback
    <3>2. CASE store[n] # None
      BY <2>5, <3>2 DEF Fallback, Idle, RenewFailed, Call
    <3> QED BY <3>1, <3>2
  <2> QED BY <1>2, <2>2, <2>3, <2>4, <2>5
<1>3. ASSUME NEW n \in Node, NEW ok \in BOOLEAN, Return(n, ok)
      PROVE  /\ call' \in [Node -> Call] /\ lease' \in [Node -> Nat \cup {None}]
             /\ told' \in [Node -> {"none", "released"}]
  BY <1>3 DEF Return, Idle, RenewFailed, Call
<1>4. ASSUME NEW n \in Node, Orphan(n)
      PROVE  /\ flight' \in [Node -> Seq(Command)] /\ behind' \in [Node -> Seq(Entry)]
  BY <1>4, UnheardType, UnheardEntryType DEF Orphan
<1>5. ASSUME NEW n \in Node, Fail(n) PROVE TypeOK'
  <2>1. CASE Return(n, FALSE)
    BY <1>3, <1>4, <1>5, <2>1 DEF Fail
  <2>2. CASE ~Return(n, FALSE)
    <3>1. [call[n] EXCEPT !.at = "sleep"] \in Call
      BY <1>5, CallType DEF Fail
    <3> QED BY <1>4, <1>5, <2>2, <3>1 DEF Fail
  <2> QED BY <2>1, <2>2
<1>6. ASSUME NEW n \in Node, Again(n) PROVE TypeOK'
  <2>1. [call[n] EXCEPT !.at = "wait"] \in Call /\ call[n].since \in Nat
    BY <1>6, CallType DEF Again
  <2>2. call[n].op \in {"create", "renew", "delete"}
    BY <1>6, CallType DEF Again
  <2> QED BY <1>6, <2>1, <2>2, RequestType DEF Again
<1>7. ASSUME NEW n \in Node, ExpireKeys(n) PROVE TypeOK'
  <2>1. [op |-> "expire", by |-> n, value |-> store[n], live |-> FALSE] \in Command
    BY DEF Command, Op
  <2> QED BY <1>7, <2>1, SendType DEF ExpireKeys
<1>8. ASSUME NEW n \in Node, ExpiryCallback(n) \/ StepDown(n) \/ Elect(n) \/ Drop(n)
      PROVE TypeOK'
  <2>1. CASE Drop(n)
    <3>1. << >> \in Seq(Command)
      OBVIOUS
    <3> QED BY <2>1, <3>1 DEF Drop
  <2>2. CASE ExpiryCallback(n)
    BY <2>2 DEF ExpiryCallback
  <2> QED BY <1>8, <2>1, <2>2 DEF StepDown, Elect
<1>9. ASSUME NEW n \in Node, NEW i \in DOMAIN flight[n], Commit(n, i) PROVE TypeOK'
  <2> DEFINE c == flight[n][i]
  <2>1. c \in Command
    BY LenProperties, ElementOfSeq
  <2>2. key' \in Value \cup {None}
    BY <1>9, <2>1, EffectType DEF Commit, Command
  <2>3. flight' \in [Node -> Seq(Command)]
    BY <1>9, Rest DEF Commit
  <2>4. ASSUME NEW m \in Node PROVE EntryFor(m, c) \in Entry
    BY <2>1 DEF EntryFor, Entry, Command
  <2>5. behind' \in [Node -> Seq(Entry)]
    BY <1>9, <2>4 DEF Commit
  <2> QED BY <1>9, <2>2, <2>3, <2>5 DEF Commit
<1>10. ASSUME NEW n \in Node, Apply(n) PROVE TypeOK'
  <2> DEFINE c == Head(behind[n])
  <2>1. c \in Entry /\ Tail(behind[n]) \in Seq(Entry)
    BY <1>10, HeadTailProperties DEF Apply
  <2>2. store' \in [Node -> Value \cup {None}]
    BY <1>10, <2>1, EffectType DEF Apply, Entry
  <2>3. CheckRequirements(c, store[n]) \in BOOLEAN
    BY DEF CheckRequirements
  <2>4. /\ call' \in [Node -> Call] /\ lease' \in [Node -> Nat \cup {None}]
        /\ told' \in [Node -> {"none", "released"}]
    <3>1. CASE c.live
      BY <1>3, <1>10, <2>3, <3>1 DEF Apply
    <3> QED BY <1>10, <3>1 DEF Apply
  <2> QED BY <1>10, <2>1, <2>2, <2>4 DEF Apply
<1>11. ASSUME NEW n \in Node, Restart(n) \/ RestartEarly(n) PROVE TypeOK'
  <2>1. ASSUME Forget(n)
        PROVE  /\ raftLeader' \in Node \cup {None}
               /\ limb' \in [Node -> Value \cup {None}] /\ call' \in [Node -> Call]
               /\ lease' \in [Node -> Nat \cup {None}]
               /\ told' \in [Node -> {"none", "released"}]
               /\ UNCHANGED <<now, offset, key>>
    BY <2>1 DEF Forget, Idle, Call
  <2>2. CASE Restart(n)
    BY <1>4, <2>1, <2>2 DEF Restart
  <2>3. CASE RestartEarly(n)
    <3>1. ASSUME NEW m \in Node, NEW i \in DOMAIN flight[m]
          PROVE  Effect(flight[m][i], key) \in Value \cup {None}
      <4>1. flight[m][i] \in Command
        BY LenProperties, ElementOfSeq
      <4> QED BY <4>1, EffectType DEF Command
    <3> QED BY <2>1, <2>3, <3>1, UnheardType, EmptySeq DEF RestartEarly
  <2> QED BY <1>11, <2>2, <2>3
<1>12. CASE UNCHANGED vars
  BY <1>12 DEF vars
<1> QED
  BY <1>1, <1>2, <1>5, <1>6, <1>7, <1>8, <1>9, <1>10, <1>11, <1>12 DEF Next

----------------------------------------------------------------------------
\* The effect of a command depends on op, by and value only.
LEMMA EffectSame ==
    ASSUME NEW c, NEW d, c.op = d.op, c.by = d.by, c.value = d.value, NEW value
    PROVE  /\ Effect(c, value) = Effect(d, value)
           /\ CheckRequirements(c, value) = CheckRequirements(d, value)
BY DEF Effect, CheckRequirements

\* Callbacks nobody waits for leave the log as it is.
LEMMA ChainOrphan ==
    ASSUME TypeOK, Chain, NEW n \in Node, Orphan(n), UNCHANGED <<key, store, early>>
    PROVE  Chain'
<1> SUFFICES ASSUME NEW m \in Node PROVE ChainOK(m)'
  BY DEF Chain
<1>1. CASE m # n
  BY <1>1 DEF TypeOK, Orphan, Chain, ChainOK
<1>2. CASE m = n
  <2> DEFINE q == behind[n]  r == Unheard(q)
  <2>1. q \in Seq(Entry) /\ behind'[n] = r
    BY DEF TypeOK, Orphan
  <2>2. /\ r \in Seq(Entry) /\ Len(r) = Len(q) /\ DOMAIN r = DOMAIN q
        /\ \A i \in DOMAIN q :
              r[i].op = q[i].op /\ r[i].by = q[i].by /\ r[i].value = q[i].value
              /\ r[i].before = q[i].before
    BY <2>1, UnheardEntryType
  <2>3. DOMAIN q = 1..Len(q) /\ Len(q) \in Nat /\ (q = << >> <=> Len(q) = 0)
    BY <2>1
  <2>4. r = << >> <=> q = << >>
    BY <2>2, <2>3
  <2>5. \A i \in DOMAIN q : Effect(r[i], r[i].before) = Effect(q[i], q[i].before)
    BY <2>2, EffectSame
  <2>6. ChainOK(n)
    BY DEF Chain
  <2> HIDE DEF q, r
  <2>7. ASSUME NEW i \in DOMAIN r
        PROVE  Effect(r[i], r[i].before) = IF i = Len(r) THEN key ELSE r[i + 1].before
    BY <2>2, <2>3, <2>5, <2>6 DEF ChainOK, q
  <2>8. store[n] = IF r = << >> THEN key ELSE r[1].before
    BY <2>2, <2>3, <2>4, <2>6 DEF ChainOK, q
  <2> QED BY <1>2, <2>1, <2>2, <2>6, <2>7, <2>8 DEF ChainOK
<1> QED BY <1>1, <1>2

\* Every node stays on the way to the key that the log leads to.
LEMMA ChainStep ==
    ASSUME JournalCommitted, TypeOK, Chain, [Next]_vars
    PROVE  Chain'
<1>1. CASE UNCHANGED logVars
  BY <1>1 DEF logVars, Chain, ChainOK
<1>2. ASSUME NEW n \in Node, Fail(n) \/ Restart(n) PROVE Chain'
  BY <1>2, ChainOrphan DEF Fail, Restart, Forget
<1>3. ASSUME NEW n \in Node, NEW i \in DOMAIN flight[n], Commit(n, i) PROVE Chain'
  <2> SUFFICES ASSUME NEW m \in Node PROVE ChainOK(m)'
    BY DEF Chain
  <2> DEFINE c == flight[n][i]  q == behind[m]  e == EntryFor(m, c)
  <2>1. ChainOK(m)
    BY DEF Chain
  <2>2. /\ behind'[m] = Append(q, e) /\ store'[m] = store[m] /\ ~early'[m]
        /\ key' = Effect(c, key)
    BY <1>3, <2>1 DEF Commit, TypeOK, ChainOK
  <2>3. /\ q \in Seq(Entry) /\ Len(q) \in Nat /\ DOMAIN q = 1..Len(q)
        /\ (q = << >> <=> Len(q) = 0)
    BY DEF TypeOK
  <2>4. e.before = key /\ Effect(e, key) = Effect(c, key)
    BY EffectSame DEF EntryFor
  <2> HIDE DEF q, e, c
  <2>5. /\ Len(Append(q, e)) = Len(q) + 1 /\ DOMAIN Append(q, e) = 1..Len(q) + 1
        /\ Append(q, e)[Len(q) + 1] = e
        /\ \A j \in 1..Len(q) : Append(q, e)[j] = q[j]
    BY <2>3
  <2>6. ASSUME NEW j \in DOMAIN Append(q, e)
        PROVE  Effect(Append(q, e)[j], Append(q, e)[j].before) =
                   IF j = Len(Append(q, e)) THEN key' ELSE Append(q, e)[j + 1].before
    <3>1. CASE j = Len(q) + 1
      BY <2>2, <2>4, <2>5, <3>1
    <3>2. CASE j \in 1..Len(q)
      BY <2>1, <2>3, <2>4, <2>5, <3>2 DEF ChainOK, q
    <3> QED BY <2>3, <2>5, <3>1, <3>2
  <2>7. store[m] = Append(q, e)[1].before /\ Append(q, e) # << >>
    BY <2>1, <2>3, <2>4, <2>5 DEF ChainOK, q
  <2> QED BY <2>2, <2>6, <2>7 DEF ChainOK
<1>4. ASSUME NEW n \in Node, Apply(n) PROVE Chain'
  <2> SUFFICES ASSUME NEW m \in Node PROVE ChainOK(m)'
    BY DEF Chain
  <2>1. ChainOK(m)
    BY DEF Chain
  <2>2. CASE m # n
    BY <1>4, <2>1, <2>2 DEF Apply, TypeOK, ChainOK
  <2>3. CASE m = n
    <3> DEFINE q == behind[n]  r == Tail(q)
    <3>1. /\ behind'[n] = r /\ store'[n] = Effect(q[1], store[n])
          /\ key' = key /\ early' = early /\ q # << >>
      BY <1>4, HeadTailProperties DEF Apply, TypeOK
    <3>5. q \in Seq(Entry)
      BY DEF TypeOK
    <3> HIDE DEF q
    <3>6. /\ r \in Seq(Entry) /\ Len(r) = Len(q) - 1
          /\ \A j \in 1..Len(r) : r[j] = q[j + 1]
      BY <3>1, <3>5, HeadTailProperties
    <3> HIDE DEF r
    <3>2. /\ Len(q) \in Nat \ {0} /\ DOMAIN q = 1..Len(q)
          /\ Len(r) = Len(q) - 1 /\ DOMAIN r = 1..Len(r)
          /\ (r = << >> <=> Len(r) = 0)
          /\ \A j \in 1..Len(r) : r[j] = q[j + 1]
      BY <3>1, <3>5, <3>6
    <3>3. store'[n] = IF r = << >> THEN key ELSE r[1].before
      <4>1. store[n] = q[1].before
        BY <2>1, <2>3, <3>1 DEF ChainOK, q
      <4>2. Effect(q[1], q[1].before) = IF 1 = Len(q) THEN key ELSE q[2].before
        BY <2>1, <2>3, <3>2 DEF ChainOK, q
      <4> QED BY <3>1, <3>2, <4>1, <4>2
    <3>4. ASSUME NEW j \in DOMAIN r
          PROVE  Effect(r[j], r[j].before) = IF j = Len(r) THEN key ELSE r[j + 1].before
      <4>1. j \in 1..Len(q) - 1 /\ r[j] = q[j + 1] /\ j + 1 \in DOMAIN q
        BY <3>2
      <4>2. Effect(q[j + 1], q[j + 1].before) =
                IF j + 1 = Len(q) THEN key ELSE q[j + 2].before
        BY <2>1, <2>3, <4>1 DEF ChainOK, q
      <4>3. j # Len(r) => r[j + 1] = q[j + 2]
        BY <3>2, <4>1
      <4> QED BY <3>2, <4>1, <4>2, <4>3
    <3> QED BY <2>1, <2>3, <3>1, <3>3, <3>4 DEF ChainOK
  <2> QED BY <2>2, <2>3
<1>5. ASSUME NEW n \in Node, RestartEarly(n) PROVE FALSE
  BY <1>5 DEF RestartEarly, JournalCommitted
<1> QED
  BY <1>1, <1>2, <1>3, <1>4, <1>5
     DEF Next, Tick, AttemptToAcquireLeader, UpdateLeader, Fallback, DeleteLeader,
         Again, ExpireKeys, ExpiryCallback, StepDown, Elect, Drop, vars

----------------------------------------------------------------------------
\* What TypeOK says of the parts of the state.
LEMMA Types ==
    ASSUME TypeOK
    PROVE  /\ now \in Nat /\ Ttl \in Nat /\ Skew \in Nat
           /\ \A n \in Node : offset[n] \in Nat /\ offset[n] <= Skew
           /\ key # None => key \in Value /\ key.owner \in Node /\ key.updated \in Nat
           /\ \A n \in Node : call[n].since \in Nat
           /\ \A n \in Node : \A i \in DOMAIN flight[n] :
                 /\ flight[n][i] \in Command
                 /\ flight[n][i].value # None =>
                       flight[n][i].value.owner \in Node /\ flight[n][i].value.updated \in Nat
           /\ \A n \in Node : flight[n] \in Seq(Command) /\ Len(flight[n]) \in Nat
                              /\ DOMAIN flight[n] = 1..Len(flight[n])
<1> USE ConstantsOK DEF TypeOK
<1>1. ASSUME NEW n \in Node PROVE call[n].since \in Nat
  <2>1. CASE InCall(n)
    BY <2>1, CallType DEF InCall
  <2>2. CASE ~InCall(n)
    <3>1. call[n] \in Call
      OBVIOUS
    <3>2. call[n] = Idle \/ call[n] = RenewFailed
      BY <2>2, <3>1 DEF InCall, Call
    <3> QED BY <3>2 DEF Idle, RenewFailed
  <2> QED BY <2>1, <2>2
<1>2. ASSUME NEW n \in Node, NEW i \in DOMAIN flight[n]
      PROVE  /\ flight[n][i] \in Command
             /\ flight[n][i].value # None =>
                   flight[n][i].value.owner \in Node /\ flight[n][i].value.updated \in Nat
  <2>1. flight[n][i] \in Command
    BY LenProperties, ElementOfSeq
  <2> QED BY <2>1 DEF Command, Value
<1>3. key # None => key \in Value /\ key.owner \in Node /\ key.updated \in Nat
  BY DEF Value
<1> QED BY <1>1, <1>2, <1>3

\* Requests of a node that stay, under a key it does not get.
LEMMA RequestsSame ==
    ASSUME TypeOK, Requests, NEW m \in Node,
           DOMAIN flight'[m] = DOMAIN flight[m],
           \A i \in DOMAIN flight[m] :
              /\ flight'[m][i].op = flight[m][i].op
              /\ flight'[m][i].by = flight[m][i].by
              /\ flight'[m][i].value = flight[m][i].value,
           offset' = offset, now' \in Nat, now <= now',
           Owns(m, key') => key' = key,
           InCall(m)' => InCall(m) /\ call'[m].since = call[m].since
    PROVE  \A i \in DOMAIN flight'[m] : RequestOK(m, i)'
<1> SUFFICES ASSUME NEW i \in DOMAIN flight[m] PROVE RequestOK(m, i)'
  OBVIOUS
<1> DEFINE c == flight[m][i]
<1>1. RequestOK(m, i)
  BY DEF Requests
<1>2. c.op \in SetOp => Past(m, c.value)'
  BY <1>1, Types DEF RequestOK, Past, Clock, Owns
<1>3. c.op = "expire" => c.value # None /\ Due(c.value)' <= now'
  <2>1. ASSUME c.op = "expire"
        PROVE  c.value # None /\ Due(c.value) <= now /\ Due(c.value) \in Int
    BY <1>1, <2>1, Types DEF RequestOK, Due
  <2>2. c.op = "expire" => Due(c.value)' = Due(c.value)
    BY DEF Due
  <2> QED BY <2>1, <2>2, Types
<1> QED BY <1>1, <1>2, <1>3 DEF RequestOK, Owns, Past

\* A commit: the requests that are left are not older than the key.
LEMMA RequestsRest ==
    ASSUME TypeOK, Requests, NEW n \in Node, NEW k \in DOMAIN flight[n],
           flight' = [flight EXCEPT ![n] = SubSeq(@, k + 1, Len(@))],
           key' = Effect(flight[n][k], key), UNCHANGED <<now, offset, call>>
    PROVE  Requests'
<1> DEFINE c == flight[n][k]
<1>1. RequestOK(n, k) /\ c.by = n
  BY DEF Requests, RequestOK
<1>2. ASSUME NEW m \in Node, m # n
      PROVE  \A i \in DOMAIN flight'[m] : RequestOK(m, i)'
  <2>1. flight'[m] = flight[m]
    BY <1>2 DEF TypeOK
  <2>2. Owns(m, key') => key' = key
    BY <1>1, <1>2 DEF Effect, Owns, RequestOK, SetOp
  <2>3. now' \in Nat /\ now <= now'
    BY Types
  <2>4. InCall(m)' => InCall(m) /\ call'[m].since = call[m].since
    BY DEF InCall
  <2> QED BY <2>1, <2>2, <2>3, <2>4, RequestsSame
<1>3. ASSUME NEW j \in DOMAIN flight'[n] PROVE RequestOK(n, j)'
  <2> DEFINE q == flight[n]  r == SubSeq(q, k + 1, Len(q))
  <2>1. flight'[n] = r /\ q \in Seq(Command) /\ Len(q) \in Nat /\ DOMAIN q = 1..Len(q)
    BY Types DEF TypeOK
  <2>2. DOMAIN r = 1..(Len(q) - k) /\ \A i \in 1..(Len(q) - k) : r[i] = q[k + i]
    BY <2>1, Rest
  <2>3. k \in 1..Len(q) /\ j \in 1..(Len(q) - k) /\ k + j \in DOMAIN q /\ k + j > k
    BY <1>3, <2>1, <2>2
  <2>4. RequestOK(n, k + j) /\ r[j] = q[k + j]
    BY <2>2, <2>3 DEF Requests
  <2> HIDE DEF q, r
  <2>5. r[j].op \in SetOp => (Owns(n, key') => key'.updated <= r[j].value.updated)
    <3>1. ASSUME r[j].op \in SetOp, Owns(n, key'), key' # key
          PROVE  key'.updated <= r[j].value.updated
      <4>1. c.op \in SetOp /\ key' = c.value
        BY <3>1 DEF Effect, Owns, SetOp
      <4> QED BY <1>1, <2>3, <2>4, <3>1, <4>1 DEF RequestOK, q
    <3> QED BY <2>4, <3>1 DEF RequestOK, q
  <2>6. ASSUME r[j].op \in SetOp, NEW i \in DOMAIN r, i > j, r[i].op \in SetOp
        PROVE  r[j].value.updated <= r[i].value.updated
    <3>1. i \in 1..(Len(q) - k) /\ k + i \in DOMAIN q /\ k + i > k + j /\ r[i] = q[k + i]
      <4>1. k \in Nat /\ j \in Nat /\ Len(q) \in Nat
        BY <2>1, <2>3
      <4>2. i \in 1..(Len(q) - k) /\ r[i] = q[k + i]
        BY <2>2, <2>6
      <4>3. k + i \in 1..Len(q) /\ k + i > k + j
        BY <2>6, <4>1, <4>2
      <4> QED BY <2>1, <4>2, <4>3
    <3> QED BY <2>4, <2>6, <3>1 DEF RequestOK, q
  <2>7. /\ r[j].by = n
        /\ r[j].op \in SetOp => Owns(n, r[j].value) /\ Past(n, r[j].value)
        /\ r[j].op = "expire" => r[j].value # None /\ Due(r[j].value) <= now
    BY <2>4 DEF q, RequestOK
  <2> QED
    BY <2>1, <2>5, <2>6, <2>7
       DEF RequestOK, Owns, Past, Clock, InCall, Due
<1> QED BY <1>2, <1>3 DEF Requests

\* What a sent request changes.
LEMMA Added ==
    ASSUME TypeOK, NEW n \in Node, NEW c \in Command, Send(n, c)
    PROVE  /\ \A m \in Node : m # n => flight'[m] = flight[m]
           /\ DOMAIN flight'[n] = 1..Len(flight[n]) + 1
           /\ flight'[n][Len(flight[n]) + 1] = c
           /\ \A i \in DOMAIN flight[n] : flight'[n][i] = flight[n][i]
<1> DEFINE q == flight[n]
<1>1. /\ q \in Seq(Command) /\ flight'[n] = Append(q, c)
      /\ \A m \in Node : m # n => flight'[m] = flight[m]
  BY DEF TypeOK, Send
<1> HIDE DEF q
<1>2. /\ DOMAIN Append(q, c) = 1..Len(q) + 1 /\ Append(q, c)[Len(q) + 1] = c
      /\ \A i \in DOMAIN q : Append(q, c)[i] = q[i]
  BY <1>1, AppendProperties
<1> QED BY <1>1, <1>2 DEF q

\* Past, after the step.
PastThen(n, value) ==
    /\ value.updated <= Clock(n)
    /\ call'[n].at \in {"wait", "sleep"} =>
          value.updated <= call'[n].since + offset[n]

\* A new request at the end of the queue.
LEMMA RequestsAppend ==
    ASSUME TypeOK, Requests, NEW n \in Node, NEW c \in Command, Send(n, c),
           c.by = n,
           UNCHANGED <<now, offset, key>>,
           \A m \in Node : m # n => call'[m] = call[m],
           c.op \in SetOp =>
              /\ Owns(n, c.value) /\ PastThen(n, c.value)
              /\ Owns(n, key) => key.updated <= c.value.updated
              /\ \A j \in DOMAIN flight[n] :
                    flight[n][j].op \in SetOp =>
                        flight[n][j].value.updated <= c.value.updated,
           c.op = "expire" => c.value # None /\ Due(c.value) <= now,
           \A i \in DOMAIN flight[n] :
              flight[n][i].op \in SetOp => PastThen(n, flight[n][i].value)
    PROVE  Requests'
<1>1. ASSUME NEW m \in Node, m # n
      PROVE  \A i \in DOMAIN flight'[m] : RequestOK(m, i)'
  <2>1. flight'[m] = flight[m] /\ call'[m] = call[m]
    BY <1>1, Added
  <2>2. now' \in Nat /\ now <= now'
    BY Types
  <2>3. InCall(m)' => InCall(m) /\ call'[m].since = call[m].since
    BY <2>1 DEF InCall
  <2> QED BY <2>1, <2>2, <2>3, RequestsSame
<1>2. ASSUME NEW i \in DOMAIN flight'[n] PROVE RequestOK(n, i)'
  <2> DEFINE q == flight[n]  r == flight'[n]
  <2>1. /\ Len(q) \in Nat /\ DOMAIN q = 1..Len(q) /\ DOMAIN r = 1..Len(q) + 1
        /\ r[Len(q) + 1] = c /\ \A j \in DOMAIN q : r[j] = q[j]
    BY Added, Types
  <2>2. CASE i = Len(q) + 1
    <3>1. \A j \in DOMAIN r : ~(j > i)
      BY <2>1, <2>2
    <3>2. r[i] = c
      BY <2>1, <2>2
    <3> QED BY <3>1, <3>2 DEF RequestOK, Owns, Past, PastThen, Clock, InCall, Due
  <2>3. CASE i \in DOMAIN q
    <3>1. RequestOK(n, i) /\ r[i] = q[i]
      BY <2>1, <2>3 DEF Requests
    <3>2. r[i].op \in SetOp => PastThen(n, r[i].value)
      BY <2>3, <3>1
    <3>3. ASSUME r[i].op \in SetOp, NEW j \in DOMAIN r, j > i, r[j].op \in SetOp
          PROVE  r[i].value.updated <= r[j].value.updated
      <4>1. CASE j = Len(q) + 1
        BY <2>1, <2>3, <3>1, <3>3, <4>1
      <4>2. CASE j \in DOMAIN q
        BY <2>1, <3>1, <3>3, <4>2 DEF RequestOK
      <4> QED BY <2>1, <4>1, <4>2
    <3>4. /\ r[i].by = n
          /\ r[i].op \in SetOp =>
                Owns(n, r[i].value) /\ (Owns(n, key) => key.updated <= r[i].value.updated)
          /\ r[i].op = "expire" => r[i].value # None /\ Due(r[i].value) <= now
      BY <3>1 DEF RequestOK
    <3> QED
      BY <3>2, <3>3, <3>4 DEF RequestOK, Owns, Past, PastThen, Clock, InCall, Due
  <2> QED BY <1>2, <2>1, <2>2, <2>3
<1> QED BY <1>1, <1>2 DEF Requests

\* A request of retry.
LEMMA RequestStep ==
    ASSUME TypeOK, Requests, KeyRecent, NEW n \in Node,
           NEW op \in {"create", "renew", "delete"}, NEW since \in Nat, since <= now,
           Request(n, op, since), UNCHANGED <<now, offset, key>>,
           \A m \in Node : m # n => call'[m] = call[m],
           call'[n].since = since,
           \/ since = now
           \/ InCall(n) /\ call[n].since = since
    PROVE  Requests'
<1> DEFINE t == since + offset[n]
           v == [owner |-> n, updated |-> t]
           c == [op |-> op, by |-> n, live |-> TRUE,
                 value |-> IF op = "delete" THEN None ELSE v]
<1>0. offset[n] \in Nat /\ now \in Nat
  BY Types
<1>1. v \in Value
  BY <1>0 DEF Value
<1>2. c \in Command /\ Send(n, c)
  BY <1>1 DEF Command, Op, Request
<1>3. \A x : Past(n, x) /\ x.updated \in Nat => x.updated <= t /\ PastThen(n, x)
  BY <1>0 DEF Past, PastThen, Clock, InCall
<1>4. PastThen(n, v)
  BY <1>0 DEF PastThen, Clock
<1>5. Owns(n, key) => key.updated <= t
  BY <1>3, Types DEF KeyRecent, Owns
<1>6. ASSUME NEW i \in DOMAIN flight[n], flight[n][i].op \in SetOp
      PROVE  flight[n][i].value.updated <= t /\ PastThen(n, flight[n][i].value)
  <2>1. Past(n, flight[n][i].value) /\ Owns(n, flight[n][i].value)
    BY <1>6 DEF Requests, RequestOK
  <2>2. flight[n][i].value.updated \in Nat
    BY <2>1, Types DEF Owns
  <2> QED BY <1>3, <2>1, <2>2
<1>7. /\ c.by = n /\ c.op # "expire"
      /\ c.op \in SetOp => c.value = v
      /\ v.updated = t /\ Owns(n, v)
  <2>1. v # None
    BY <1>1, NoneIsNoValue
  <2> QED BY <2>1 DEF SetOp, Owns
<1> HIDE DEF c, v, t
<1>8. c.op \in SetOp =>
        /\ Owns(n, c.value) /\ PastThen(n, c.value)
        /\ Owns(n, key) => key.updated <= c.value.updated
        /\ \A j \in DOMAIN flight[n] :
              flight[n][j].op \in SetOp => flight[n][j].value.updated <= c.value.updated
  BY <1>4, <1>5, <1>6, <1>7
<1>9. \A i \in DOMAIN flight[n] : flight[n][i].op \in SetOp => PastThen(n, flight[n][i].value)
  BY <1>6
<1> QED BY <1>2, <1>7, <1>8, <1>9, RequestsAppend

\* What set and delete change.
LEMMA RetryFacts ==
    ASSUME TypeOK, NEW n \in Node, NEW op \in {"create", "renew", "delete"}, Retry(n, op)
    PROVE  /\ Request(n, op, now)
           /\ call'[n] = [at |-> "wait", op |-> op, since |-> now]
           /\ told'[n] = "none"
           /\ \A m \in Node : m # n => call'[m] = call[m] /\ told'[m] = told[m]
BY DEF Retry, TypeOK

\* What Orphan changes.
LEMMA OrphanFacts ==
    ASSUME TypeOK, NEW n \in Node, Orphan(n)
    PROVE  /\ \A m \in Node : DOMAIN flight'[m] = DOMAIN flight[m]
           /\ \A m \in Node : \A i \in DOMAIN flight[m] :
                 /\ flight'[m][i].op = flight[m][i].op
                 /\ flight'[m][i].by = flight[m][i].by
                 /\ flight'[m][i].value = flight[m][i].value
           /\ \A i \in DOMAIN flight'[n] : ~flight'[n][i].live
           /\ \A i \in DOMAIN behind'[n] : ~behind'[n][i].live
           /\ \A m \in Node : m # n => flight'[m] = flight[m] /\ behind'[m] = behind[m]
<1>1. flight'[n] = Unheard(flight[n]) /\ behind'[n] = Unheard(behind[n])
  BY DEF Orphan, TypeOK
<1>2. \A m \in Node : m # n => flight'[m] = flight[m] /\ behind'[m] = behind[m]
  BY DEF Orphan, TypeOK
<1>3. flight[n] \in Seq(Command) /\ behind[n] \in Seq(Entry)
  BY DEF TypeOK
<1>4. /\ DOMAIN flight'[n] = DOMAIN flight[n]
      /\ \A i \in DOMAIN flight[n] :
            /\ flight'[n][i].op = flight[n][i].op
            /\ flight'[n][i].by = flight[n][i].by
            /\ flight'[n][i].value = flight[n][i].value
            /\ ~flight'[n][i].live
  BY <1>1, <1>3, UnheardType
<1>5. \A i \in DOMAIN behind'[n] : ~behind'[n][i].live
  BY <1>1, <1>3, UnheardEntryType
<1> QED BY <1>2, <1>4, <1>5

\* What a failed attempt changes.
LEMMA FailFacts ==
    ASSUME TypeOK, NEW n \in Node, Fail(n)
    PROVE  /\ Orphan(n) /\ UNCHANGED <<now, offset, key, store, early, raftVars, lease>>
           /\ call[n].at = "wait" /\ call'[n].at # "wait"
           /\ \A m \in Node : m # n => call'[m] = call[m] /\ told'[m] = told[m]
           /\ \/ call'[n].at \notin {"wait", "sleep"} /\ call'[n].since = 0
                 /\ call'[n].op = "none" /\ told'[n] # "released"
              \/ call'[n].at = "sleep" /\ call'[n].since = call[n].since
                 /\ call'[n].op = call[n].op /\ told'[n] = told[n]
<1> USE DEF TypeOK
<1>1. CASE Return(n, FALSE)
  BY <1>1 DEF Fail, Return, Idle, RenewFailed
<1>2. CASE call' = [call EXCEPT ![n].at = "sleep"] /\ UNCHANGED <<lease, told>>
  <2>1. call[n].at = "wait"
    BY DEF Fail
  <2>2. /\ [call[n] EXCEPT !.at = "sleep"].at = "sleep"
        /\ [call[n] EXCEPT !.at = "sleep"].since = call[n].since
        /\ [call[n] EXCEPT !.at = "sleep"].op = call[n].op
    <3>1. call[n] \in [at : {"wait", "sleep"}, op : {"create", "renew", "delete"}, since : Nat]
      BY <2>1 DEF Call, Idle, RenewFailed
    <3> QED BY <3>1
  <2> QED BY <1>2, <2>1, <2>2 DEF Fail
<1> QED BY <1>1, <1>2 DEF Fail

\* What a repeated request changes.
LEMMA AgainFacts ==
    ASSUME TypeOK, NEW n \in Node, Again(n)
    PROVE  /\ Request(n, call[n].op, call[n].since)
           /\ call[n].op \in {"create", "renew", "delete"}
           /\ call[n].at = "sleep" /\ call'[n].at = "wait"
           /\ call'[n].op = call[n].op /\ call'[n].since = call[n].since
           /\ \A m \in Node : m # n => call'[m] = call[m]
           /\ UNCHANGED <<now, offset, key, store, behind, lease, told>>
<1>1. call[n] \in [at : {"wait", "sleep"}, op : {"create", "renew", "delete"}, since : Nat]
  BY DEF Again, TypeOK, Call, Idle, RenewFailed
<1>2. /\ [call[n] EXCEPT !.at = "wait"].at = "wait"
      /\ [call[n] EXCEPT !.at = "wait"].since = call[n].since
      /\ [call[n] EXCEPT !.at = "wait"].op = call[n].op
  BY <1>1
<1> QED BY <1>1, <1>2 DEF Again, TypeOK, logVars

\* What a call that returns changes.
LEMMA ReturnFacts ==
    ASSUME TypeOK, NEW n \in Node, NEW ok \in BOOLEAN, Return(n, ok)
    PROVE  /\ call'[n].at \notin {"wait", "sleep"} /\ call'[n].since = 0
           /\ call'[n].op = "none"
           /\ \A m \in Node : m # n =>
                 call'[m] = call[m] /\ told'[m] = told[m] /\ lease'[m] = lease[m]
           /\ lease'[n] = IF call[n].op # "delete" /\ ok THEN call[n].since ELSE lease[n]
           /\ told'[n] = "released" => call[n].op = "delete" /\ ok
           /\ told'[n] = "released" => call'[n].at = "idle"
BY DEF TypeOK, Return, Idle, RenewFailed

\* What an applied entry changes.
LEMMA ApplyFacts ==
    ASSUME TypeOK, NEW n \in Node, Apply(n)
    PROVE  /\ UNCHANGED <<now, offset, key, early, flight>>
           /\ Len(behind[n]) \in Nat \ {0} /\ DOMAIN behind[n] = 1..Len(behind[n])
           /\ \A m \in Node : m # n =>
                 /\ behind'[m] = behind[m] /\ call'[m] = call[m]
                 /\ told'[m] = told[m] /\ lease'[m] = lease[m]
           /\ DOMAIN behind'[n] = 1..Len(behind[n]) - 1
           /\ \A i \in DOMAIN behind'[n] : behind'[n][i] = behind[n][i + 1]
           /\ IF behind[n][1].live
              THEN Return(n, CheckRequirements(behind[n][1], store[n]))
              ELSE UNCHANGED haVars
<1> DEFINE q == behind[n]
<1>1. q \in Seq(Entry) /\ q # << >> /\ behind'[n] = Tail(q)
  BY DEF Apply, TypeOK
<1>2. \A m \in Node : m # n => behind'[m] = behind[m]
  BY DEF Apply, TypeOK
<1>3. IF q[1].live THEN Return(n, CheckRequirements(q[1], store[n])) ELSE UNCHANGED haVars
  BY <1>1 DEF Apply
<1>4. \A m \in Node : m # n =>
          call'[m] = call[m] /\ told'[m] = told[m] /\ lease'[m] = lease[m]
  BY <1>3, ReturnFacts DEF haVars, CheckRequirements
<1>5. UNCHANGED <<now, offset, key, early, flight>>
  BY DEF Apply
<1> HIDE DEF q
<1>6. /\ Len(q) \in Nat \ {0} /\ DOMAIN q = 1..Len(q)
      /\ Tail(q) \in Seq(Entry) /\ Len(Tail(q)) = Len(q) - 1
      /\ \A i \in 1..Len(Tail(q)) : Tail(q)[i] = q[i + 1]
  BY <1>1, HeadTailProperties, LenProperties, EmptySeq
<1> QED BY <1>1, <1>2, <1>3, <1>4, <1>5, <1>6 DEF q

\* The start of a call changes only when the call begins.
LEMMA CallMoves ==
    ASSUME TypeOK, [Next]_vars, NEW m \in Node, InCall(m)'
    PROVE  \/ InCall(m) /\ call'[m].since = call[m].since
           \/ ~InCall(m) /\ call'[m].since = now /\ now' = now
<1> USE DEF InCall
<1>1. ASSUME NEW n \in Node, NEW op \in {"create", "renew", "delete"}, Retry(n, op),
             ~InCall(n), now' = now
      PROVE  \/ InCall(m) /\ call'[m].since = call[m].since
             \/ ~InCall(m) /\ call'[m].since = now /\ now' = now
  BY <1>1, RetryFacts
<1>0. ASSUME NEW n \in Node, call' = [call EXCEPT ![n] = Idle]
      PROVE  InCall(m) /\ call'[m].since = call[m].since
  <2>1. m # n
    <3>1. m = n => call'[m] = Idle
      BY <1>0 DEF TypeOK
    <3> QED BY <3>1 DEF Idle
  <2> QED BY <1>0, <2>1 DEF TypeOK
<1>2. ASSUME NEW n \in Node,
             AttemptToAcquireLeader(n) \/ UpdateLeader(n) \/ DeleteLeader(n) \/ Fallback(n)
      PROVE  \/ InCall(m) /\ call'[m].since = call[m].since
             \/ ~InCall(m) /\ call'[m].since = now /\ now' = now
  <2>1. CASE AttemptToAcquireLeader(n)
    BY <1>1, <2>1 DEF AttemptToAcquireLeader
  <2>2. CASE UpdateLeader(n)
    BY <1>1, <2>2 DEF UpdateLeader
  <2>3. CASE DeleteLeader(n)
    BY <1>1, <2>3 DEF DeleteLeader
  <2>4. CASE Fallback(n)
    <3>1. CASE store[n] = None
      BY <1>1, <2>4, <3>1 DEF Fallback
    <3>2. CASE store[n] # None
      BY <1>0, <2>4, <3>2 DEF Fallback
    <3> QED BY <3>1, <3>2
  <2> QED BY <1>2, <2>1, <2>2, <2>3, <2>4
<1>3. ASSUME NEW n \in Node, Fail(n)
      PROVE  InCall(m) /\ call'[m].since = call[m].since
  BY <1>3, FailFacts
<1>4. ASSUME NEW n \in Node, Again(n)
      PROVE  InCall(m) /\ call'[m].since = call[m].since
  BY <1>4, AgainFacts
<1>5. ASSUME NEW n \in Node, Apply(n)
      PROVE  InCall(m) /\ call'[m].since = call[m].since
  BY <1>5, ApplyFacts, ReturnFacts DEF CheckRequirements, haVars
<1>6. ASSUME NEW n \in Node, Restart(n) \/ RestartEarly(n)
      PROVE  InCall(m) /\ call'[m].since = call[m].since
  BY <1>6, <1>0 DEF Restart, RestartEarly, Forget
<1>7. CASE UNCHANGED call
  BY <1>7
<1> QED
  BY <1>2, <1>3, <1>4, <1>5, <1>6, <1>7
     DEF Next, vars, Tick, ExpireKeys, ExpiryCallback, StepDown, Elect, Drop, Commit, haVars

\* No request and no key moves.
LEMMA RequestsKept ==
    ASSUME TypeOK, Requests, UNCHANGED <<offset, key>>, now' \in Nat, now <= now',
           \A m \in Node :
              /\ DOMAIN flight'[m] = DOMAIN flight[m]
              /\ \A i \in DOMAIN flight[m] :
                    /\ flight'[m][i].op = flight[m][i].op
                    /\ flight'[m][i].by = flight[m][i].by
                    /\ flight'[m][i].value = flight[m][i].value,
           \A m \in Node :
              call'[m].at \in {"wait", "sleep"} =>
                 InCall(m) /\ call'[m].since = call[m].since
    PROVE  Requests'
<1> SUFFICES ASSUME NEW m \in Node PROVE \A i \in DOMAIN flight'[m] : RequestOK(m, i)'
  BY DEF Requests
<1>1. InCall(m)' => InCall(m) /\ call'[m].since = call[m].since
  BY DEF InCall
<1> QED BY <1>1, RequestsSame

\* Requests stay in order and not older than the key.
LEMMA RequestsStep ==
    ASSUME TypeOK, Requests, KeyRecent, Callers, [Next]_vars
    PROVE  Requests'
<1>0. now \in Nat /\ now <= now
  BY Types
<1>1. CASE UNCHANGED <<now, offset, key, flight, call>>
  BY <1>0, <1>1, RequestsKept DEF InCall
<1>2. CASE Tick
  <2>1. now' \in Nat /\ now <= now'
    BY <1>0, <1>2 DEF Tick
  <2> QED BY <1>2, <2>1, RequestsKept DEF Tick, logVars, haVars, InCall
<1>3. ASSUME NEW n \in Node, NEW op \in {"create", "renew", "delete"},
             Retry(n, op), UNCHANGED <<now, offset, key>>
      PROVE  Requests'
  BY <1>0, <1>3, RetryFacts, RequestStep
<1>4. ASSUME NEW n \in Node,
             AttemptToAcquireLeader(n) \/ UpdateLeader(n) \/ DeleteLeader(n)
      PROVE  Requests'
  BY <1>3, <1>4 DEF AttemptToAcquireLeader, UpdateLeader, DeleteLeader, logVars
<1>5. ASSUME NEW n \in Node, call' = [call EXCEPT ![n] = Idle], NEW m \in Node,
             call'[m].at \in {"wait", "sleep"}
      PROVE  InCall(m) /\ call'[m].since = call[m].since
  <2>1. m # n
    <3>1. m = n => call'[m] = Idle
      BY <1>5 DEF TypeOK
    <3> QED BY <1>5, <3>1 DEF Idle
  <2> QED BY <1>5, <2>1 DEF TypeOK, InCall
<1>6. ASSUME NEW n \in Node, Fallback(n) PROVE Requests'
  <2>1. CASE store[n] = None
    BY <1>3, <1>6, <2>1 DEF Fallback, logVars
  <2>2. CASE store[n] # None
    <3>1. /\ call' = [call EXCEPT ![n] = Idle]
          /\ UNCHANGED <<now, offset, key, flight>>
      BY <1>6, <2>2 DEF Fallback, logVars
    <3> QED BY <1>0, <1>5, <3>1, RequestsKept
  <2> QED BY <2>1, <2>2
<1>7. ASSUME NEW n \in Node, Fail(n) PROVE Requests'
  <2>1. \A m \in Node : call'[m].at \in {"wait", "sleep"} =>
            InCall(m) /\ call'[m].since = call[m].since
    BY <1>7, FailFacts DEF InCall
  <2> QED BY <1>0, <1>7, <2>1, FailFacts, OrphanFacts, RequestsKept
<1>8. ASSUME NEW n \in Node, Again(n) PROVE Requests'
  <2>1. call[n].since <= now /\ call[n].since \in Nat
    BY Types DEF Callers, CallerOK
  <2>2. InCall(n)
    BY <1>8, AgainFacts DEF InCall
  <2> QED BY <1>8, <2>1, <2>2, AgainFacts, RequestStep
<1>9. ASSUME NEW n \in Node, ExpireKeys(n) PROVE Requests'
  <2> DEFINE v == store[n]
             c == [op |-> "expire", by |-> n, value |-> v, live |-> FALSE]
  <2>1. v \in Value /\ v # None
    BY <1>9 DEF ExpireKeys, TypeOK
  <2>2. c \in Command /\ Send(n, c) /\ c.by = n /\ c.op = "expire" /\ c.value = v
    BY <1>9, <2>1 DEF ExpireKeys, Command, Op
  <2>3. Due(v) <= now
    <3>1. v.updated + Ttl <= now + offset[n] /\ v.updated \in Nat /\ v.owner \in Node
      BY <1>9, <2>1 DEF ExpireKeys, Clock, Value
    <3>2. /\ offset[n] \in Nat /\ offset[n] <= Skew /\ offset[v.owner] \in Nat
          /\ Ttl \in Nat /\ Skew \in Nat /\ now \in Nat
      BY <3>1, Types
    <3> HIDE DEF v
    <3> QED BY <3>1, <3>2 DEF Due
  <2>4. UNCHANGED <<now, offset, key, call>>
    BY <1>9 DEF ExpireKeys, logVars, haVars
  <2>5. \A i \in DOMAIN flight[n] :
            flight[n][i].op \in SetOp => PastThen(n, flight[n][i].value)
    BY <2>4 DEF Requests, RequestOK, Past, PastThen, InCall
  <2> HIDE DEF c, v
  <2> QED BY <2>1, <2>2, <2>3, <2>4, <2>5, RequestsAppend DEF SetOp
<1>10. ASSUME NEW n \in Node, Drop(n) PROVE Requests'
  <2>1. ASSUME NEW m \in Node, m # n
        PROVE  \A i \in DOMAIN flight'[m] : RequestOK(m, i)'
    <3>1. /\ flight'[m] = flight[m]
          /\ UNCHANGED <<now, offset, key, call>>
      BY <1>10, <2>1 DEF Drop, TypeOK, logVars, haVars
    <3>2. InCall(m)' => InCall(m) /\ call'[m].since = call[m].since
      BY <3>1 DEF InCall
    <3> QED BY <1>0, <3>1, <3>2, RequestsSame
  <2>2. DOMAIN flight'[n] = {}
    <3>1. flight'[n] = << >>
      BY <1>10 DEF Drop, TypeOK
    <3> QED BY <3>1
  <2> QED BY <2>1, <2>2 DEF Requests
<1>11. ASSUME NEW n \in Node, NEW i \in DOMAIN flight[n], Commit(n, i)
       PROVE  Requests'
  BY <1>11, RequestsRest DEF Commit, haVars
<1>12. ASSUME NEW n \in Node, Apply(n) PROVE Requests'
  <2>1. \A m \in Node : call'[m].at \in {"wait", "sleep"} =>
            InCall(m) /\ call'[m].since = call[m].since
    BY <1>12, ApplyFacts, ReturnFacts DEF CheckRequirements, haVars, InCall
  <2> QED BY <1>0, <1>12, <2>1, ApplyFacts, RequestsKept
<1>13. ASSUME NEW n \in Node, Restart(n) \/ RestartEarly(n) PROVE Requests'
  <2>1. /\ call' = [call EXCEPT ![n] = Idle] /\ UNCHANGED <<now, offset, key>>
    BY <1>13 DEF Restart, RestartEarly, Forget
  <2>2. flight' = [flight EXCEPT ![n] = Unheard(flight[n])]
    BY <1>13 DEF Restart, RestartEarly, Orphan
  <2>3. \A m \in Node :
              /\ DOMAIN flight'[m] = DOMAIN flight[m]
              /\ \A i \in DOMAIN flight[m] :
                    /\ flight'[m][i].op = flight[m][i].op
                    /\ flight'[m][i].by = flight[m][i].by
                    /\ flight'[m][i].value = flight[m][i].value
    <3>1. flight'[n] = Unheard(flight[n]) /\ flight[n] \in Seq(Command)
      BY <2>2 DEF TypeOK
    <3>2. \A m \in Node : m # n => flight'[m] = flight[m]
      BY <2>2 DEF TypeOK
    <3>3. /\ DOMAIN flight'[n] = DOMAIN flight[n]
          /\ \A i \in DOMAIN flight[n] :
                /\ flight'[n][i].op = flight[n][i].op
                /\ flight'[n][i].by = flight[n][i].by
                /\ flight'[n][i].value = flight[n][i].value
      BY <3>1, UnheardType
    <3> QED BY <3>2, <3>3
  <2> QED BY <1>0, <1>5, <2>1, <2>3, RequestsKept
<1> QED
  BY <1>1, <1>2, <1>4, <1>6, <1>7, <1>8, <1>9, <1>10, <1>11, <1>12, <1>13
     DEF Next, vars, ExpiryCallback, StepDown, Elect, logVars, haVars

\* Time moves by Tick and the key by Commit.
LEMMA StepKinds ==
    ASSUME TypeOK, [Next]_vars
    PROVE  \/ UNCHANGED <<now, offset, key>>
           \/ Tick
           \/ \E n \in Node : \E i \in DOMAIN flight[n] : Commit(n, i)
<1>1. ASSUME NEW n \in Node,
             \/ AttemptToAcquireLeader(n) \/ UpdateLeader(n) \/ DeleteLeader(n)
             \/ Fallback(n) \/ Again(n) \/ ExpireKeys(n)
      PROVE  UNCHANGED <<now, offset, key>>
  BY <1>1
     DEF AttemptToAcquireLeader, UpdateLeader, DeleteLeader, Fallback, Again,
         ExpireKeys, logVars
<1>2. ASSUME NEW n \in Node,
             \/ Fail(n) \/ ExpiryCallback(n) \/ StepDown(n) \/ Elect(n) \/ Drop(n)
             \/ Apply(n) \/ Restart(n) \/ RestartEarly(n)
      PROVE  UNCHANGED <<now, offset, key>>
  BY <1>2
     DEF Fail, ExpiryCallback, StepDown, Elect, Drop, Apply, Restart, RestartEarly,
         Forget, logVars
<1>3. CASE UNCHANGED vars
  BY <1>3 DEF vars, logVars
<1> QED
  BY <1>1, <1>2, <1>3 DEF Next

\* The key moves to the effect of a committed command.
LEMMA KeyMoves ==
    ASSUME TypeOK, [Next]_vars
    PROVE  /\ offset' = offset /\ now' \in Nat /\ now <= now'
           /\ \/ key' = key
              \/ \E n \in Node : \E i \in DOMAIN flight[n] :
                    Commit(n, i) /\ key' = Effect(flight[n][i], key)
<1>1. now \in Nat
  BY Types
<1>2. CASE Tick
  BY <1>1, <1>2 DEF Tick, logVars
<1>3. ASSUME NEW n \in Node, NEW i \in DOMAIN flight[n], Commit(n, i)
      PROVE  UNCHANGED <<now, offset>> /\ key' = Effect(flight[n][i], key)
  BY <1>3 DEF Commit
<1>4. CASE UNCHANGED <<now, offset, key>>
  BY <1>1, <1>4
<1>5. CASE \E n \in Node : \E i \in DOMAIN flight[n] : Commit(n, i)
  BY <1>1, <1>3, <1>5
<1> QED
  BY <1>2, <1>4, <1>5, StepKinds

\* The key is never newer than the call of its owner.
LEMMA KeyRecentStep ==
    ASSUME TypeOK, Requests, KeyRecent, [Next]_vars
    PROVE  KeyRecent'
<1>1. /\ offset' = offset /\ now' \in Nat /\ now <= now' /\ now \in Nat
      /\ \A m \in Node : offset[m] \in Nat
  BY KeyMoves, Types
<1>2. ASSUME NEW v, v.owner \in Node, v.updated \in Nat, Past(v.owner, v)
      PROVE  /\ v.updated <= now' + offset'[v.owner]
             /\ call'[v.owner].at \in {"wait", "sleep"} =>
                   v.updated <= call'[v.owner].since + offset'[v.owner]
  BY <1>1, <1>2, CallMoves DEF Past, Clock, InCall
<1>3. key' # None =>
         key'.owner \in Node /\ key'.updated \in Nat /\ Past(key'.owner, key')
  <2>1. CASE key' = key
    BY <2>1, Types DEF KeyRecent
  <2>2. ASSUME NEW n \in Node, NEW i \in DOMAIN flight[n],
               key' = Effect(flight[n][i], key), key' # key, key' # None
        PROVE  key'.owner \in Node /\ key'.updated \in Nat /\ Past(key'.owner, key')
    <3>1. RequestOK(n, i)
      BY DEF Requests
    <3>2. flight[n][i].op \in SetOp /\ key' = flight[n][i].value
      BY <2>2 DEF Effect, SetOp
    <3>3. flight[n][i].value # None
      BY <2>2, <3>2
    <3> QED BY <3>1, <3>2, <3>3, Types DEF RequestOK, Owns
  <2> QED BY <2>1, <2>2, KeyMoves
<1> QED BY <1>2, <1>3 DEF KeyRecent, Past, Clock, InCall

----------------------------------------------------------------------------
\* Live, after the step.
LiveThen(n, c) ==
    /\ call'[n].at = "wait" /\ c.by = n /\ c.op = call'[n].op
    /\ c.op # "delete" => c.value.updated = call'[n].since + offset'[n]

\* A step that does not concern a node.
LEMMA CallersOthers ==
    ASSUME Callers, NEW m \in Node, TypeOK,
           offset' = offset, now' \in Nat, now <= now',
           call'[m] = call[m], flight'[m] = flight[m], behind'[m] = behind[m]
    PROVE  CallerOK(m)'
<1>1. call[m].since \in Nat /\ now \in Nat
  BY Types
<1>2. CallerOK(m)
  BY DEF Callers
<1>3. \A c : Live(m, c) => call'[m].at = "wait" /\ c.by = m /\ c.op = call'[m].op
              /\ (c.op # "delete" => c.value.updated = call'[m].since + offset'[m])
  BY DEF Live
<1> QED BY <1>1, <1>2, <1>3 DEF CallerOK, Live, OnlyExpiry

\* Nobody waits after the step.
LEMMA CallersQuiet ==
    ASSUME NEW m \in Node, call'[m].since <= now',
           \A i \in DOMAIN flight'[m] : ~flight'[m][i].live,
           \A i \in DOMAIN behind'[m] : ~behind'[m][i].live
    PROVE  CallerOK(m)'
BY DEF CallerOK

\* Only a node that waits has a callback.
LEMMA NobodyWaits ==
    ASSUME Callers, NEW n \in Node, call[n].at # "wait"
    PROVE  /\ \A i \in DOMAIN flight[n] : ~flight[n][i].live
           /\ \A i \in DOMAIN behind[n] : ~behind[n][i].live
BY DEF Callers, CallerOK, Live

\* The request of a call is the last of its node.
LEMMA CallersRequest ==
    ASSUME TypeOK, Callers, NEW n \in Node, NEW op \in {"create", "renew", "delete"},
           NEW since \in Nat, since <= now,
           Request(n, op, since), UNCHANGED <<now, offset, behind>>,
           call[n].at # "wait",
           call'[n].at = "wait", call'[n].op = op, call'[n].since = since,
           \A m \in Node : m # n => call'[m] = call[m]
    PROVE  Callers'
<1> DEFINE v == [owner |-> n, updated |-> since + offset[n]]
           c == [op |-> op, by |-> n, live |-> TRUE,
                 value |-> IF op = "delete" THEN None ELSE v]
<1>1. offset[n] \in Nat /\ now \in Nat
  BY Types
<1>2. v \in Value
  BY <1>1 DEF Value
<1>3. c \in Command /\ Send(n, c)
  BY <1>2 DEF Command, Op, Request
<1>4. /\ c.by = n /\ c.op = op
      /\ op # "delete" => c.value.updated = since + offset[n]
  OBVIOUS
<1> HIDE DEF c
<1>5. /\ \A m \in Node : m # n => flight'[m] = flight[m]
      /\ DOMAIN flight'[n] = 1..Len(flight[n]) + 1
      /\ flight'[n][Len(flight[n]) + 1] = c
      /\ \A i \in DOMAIN flight[n] : flight'[n][i] = flight[n][i]
  BY <1>3, Added
<1>6. ASSUME NEW m \in Node, m # n PROVE CallerOK(m)'
  BY <1>1, <1>5, <1>6, CallersOthers
<1>7. CallerOK(n)'
  <2>1. Len(flight[n]) \in Nat /\ DOMAIN flight[n] = 1..Len(flight[n])
    BY Types
  <2>2. \A i \in DOMAIN behind'[n] : ~behind'[n][i].live
    BY NobodyWaits
  <2>3. ASSUME NEW i \in DOMAIN flight'[n], flight'[n][i].live
        PROVE  i = Len(flight[n]) + 1
    BY <1>5, <2>1, <2>3, NobodyWaits
  <2>4. ASSUME NEW i \in DOMAIN flight'[n], flight'[n][i].live
        PROVE  /\ flight'[n][i] = c
               /\ \A j \in DOMAIN flight'[n] : ~(j > i)
    BY <1>5, <2>1, <2>3, <2>4
  <2>5. ASSUME NEW i \in DOMAIN flight'[n], flight'[n][i].live
        PROVE  LiveThen(n, flight'[n][i])
    BY <1>4, <2>4, <2>5 DEF LiveThen
  <2> QED BY <2>2, <2>4, <2>5 DEF CallerOK, Live, LiveThen
<1> QED BY <1>6, <1>7 DEF Callers

\* At most one callback is outstanding, for the call in progress.
LEMMA CallersStep ==
    ASSUME TypeOK, Requests, Callers, [Next]_vars
    PROVE  Callers'
<1>0. now \in Nat /\ now <= now /\ \A m \in Node : call[m].since \in Nat
  BY Types
<1>1. CASE UNCHANGED <<now, offset, flight, behind, call>>
  BY <1>0, <1>1, CallersOthers DEF Callers
<1>2. CASE Tick
  <2>1. now' \in Nat /\ now <= now'
    BY <1>0, <1>2 DEF Tick
  <2> QED BY <1>2, <2>1, CallersOthers DEF Tick, logVars, haVars, Callers
<1>3. ASSUME NEW n \in Node, NEW op \in {"create", "renew", "delete"},
             Retry(n, op), UNCHANGED <<now, offset, behind>>, call[n].at # "wait"
      PROVE  Callers'
  BY <1>0, <1>3, RetryFacts, CallersRequest
<1>4. ASSUME NEW n \in Node,
             AttemptToAcquireLeader(n) \/ UpdateLeader(n) \/ DeleteLeader(n)
      PROVE  Callers'
  BY <1>3, <1>4 DEF AttemptToAcquireLeader, UpdateLeader, DeleteLeader, logVars
<1>6. ASSUME NEW n \in Node, Fallback(n) PROVE Callers'
  <2>1. CASE store[n] = None
    BY <1>3, <1>6, <2>1 DEF Fallback, logVars
  <2>2. CASE store[n] # None
    <3>1. /\ UNCHANGED <<now, offset, flight, behind>>
          /\ call'[n] = Idle /\ \A m \in Node : m # n => call'[m] = call[m]
      BY <1>6, <2>2 DEF Fallback, logVars, TypeOK
    <3>2. CallerOK(n)'
      <4>1. call[n].at # "wait"
        BY <1>6 DEF Fallback
      <4> QED BY <1>0, <3>1, <4>1, NobodyWaits, CallersQuiet DEF Idle
    <3>3. ASSUME NEW m \in Node, m # n PROVE CallerOK(m)'
      BY <1>0, <3>1, <3>3, CallersOthers
    <3> QED BY <3>2, <3>3 DEF Callers
  <2> QED BY <2>1, <2>2
<1>7. ASSUME NEW n \in Node, Fail(n) PROVE Callers'
  <2>1. CallerOK(n)'
    <3>1. call'[n].since <= now'
      BY <1>0, <1>7, FailFacts DEF Callers, CallerOK
    <3> QED BY <1>7, <3>1, FailFacts, OrphanFacts, CallersQuiet
  <2>2. ASSUME NEW m \in Node, m # n PROVE CallerOK(m)'
    BY <1>0, <1>7, <2>2, FailFacts, OrphanFacts, CallersOthers
  <2> QED BY <2>1, <2>2 DEF Callers
<1>8. ASSUME NEW n \in Node, Again(n) PROVE Callers'
  <2>1. call[n].since <= now
    BY DEF Callers, CallerOK
  <2> QED BY <1>0, <1>8, <2>1, AgainFacts, CallersRequest
<1>9. ASSUME NEW n \in Node, ExpireKeys(n) PROVE Callers'
  <2> DEFINE c == [op |-> "expire", by |-> n, value |-> store[n], live |-> FALSE]
  <2>1. c \in Command /\ Send(n, c) /\ c.op = "expire" /\ ~c.live
    BY <1>9 DEF ExpireKeys, Command, Op, TypeOK
  <2>2. UNCHANGED <<now, offset, behind, call>>
    BY <1>9 DEF ExpireKeys, logVars, haVars
  <2> HIDE DEF c
  <2>3. /\ \A m \in Node : m # n => flight'[m] = flight[m]
        /\ DOMAIN flight'[n] = 1..Len(flight[n]) + 1
        /\ flight'[n][Len(flight[n]) + 1] = c
        /\ \A i \in DOMAIN flight[n] : flight'[n][i] = flight[n][i]
    BY <2>1, Added
  <2>4. ASSUME NEW m \in Node, m # n PROVE CallerOK(m)'
    BY <1>0, <2>2, <2>3, <2>4, CallersOthers
  <2>5. CallerOK(n)'
    <3>1. Len(flight[n]) \in Nat /\ DOMAIN flight[n] = 1..Len(flight[n]) /\ CallerOK(n)
      BY Types DEF Callers
    <3>2. \A i \in DOMAIN flight'[n] :
             \/ i \in DOMAIN flight[n] /\ flight'[n][i] = flight[n][i]
             \/ flight'[n][i].op = "expire" /\ ~flight'[n][i].live
      <4>1. ASSUME NEW i \in DOMAIN flight'[n], i # Len(flight[n]) + 1
            PROVE  i \in DOMAIN flight[n]
        BY <2>3, <3>1, <4>1
      <4>2. ASSUME NEW i \in DOMAIN flight'[n]
            PROVE  \/ i \in DOMAIN flight[n] /\ flight'[n][i] = flight[n][i]
                   \/ flight'[n][i] = c
        BY <2>3, <4>1
      <4>3. \A x : x = c => x.op = "expire" /\ ~x.live
        BY <2>1
      <4> QED BY <4>2, <4>3
    <3>3. ASSUME NEW i \in DOMAIN flight'[n], flight'[n][i].live
          PROVE  /\ Live(n, flight'[n][i])
                 /\ \A j \in DOMAIN flight'[n] : j > i => flight'[n][j].op = "expire"
      BY <3>1, <3>2, <3>3 DEF CallerOK
    <3>4. \A i \in DOMAIN flight'[n] : flight'[n][i].live => LiveThen(n, flight'[n][i])
      BY <2>2, <3>3 DEF Live, LiveThen
    <3>5. OnlyExpiry(n) => OnlyExpiry(n)'
      BY <3>2 DEF OnlyExpiry
    <3>6. ASSUME NEW i \in DOMAIN behind'[n], behind'[n][i].live
          PROVE  /\ LiveThen(n, behind'[n][i]) /\ OnlyExpiry(n)'
                 /\ \A j \in DOMAIN behind'[n] : behind'[n][j].live => j = i
      BY <2>2, <3>1, <3>5, <3>6 DEF CallerOK, Live, LiveThen
    <3> QED BY <2>2, <3>1, <3>3, <3>4, <3>6 DEF CallerOK, Live, LiveThen
  <2> QED BY <2>4, <2>5 DEF Callers
<1>10. ASSUME NEW n \in Node, Drop(n) PROVE Callers'
  <2>1. /\ flight'[n] = << >> /\ \A m \in Node : m # n => flight'[m] = flight[m]
        /\ UNCHANGED <<now, offset, behind, call>>
    BY <1>10 DEF Drop, TypeOK, logVars, haVars
  <2>2. ASSUME NEW m \in Node, m # n PROVE CallerOK(m)'
    BY <1>0, <2>1, <2>2, CallersOthers
  <2>3. CallerOK(n)'
    <3>1. DOMAIN flight'[n] = {}
      BY <2>1
    <3> QED BY <2>1, <3>1 DEF Callers, CallerOK, Live, OnlyExpiry
  <2> QED BY <2>2, <2>3 DEF Callers
<1>12. ASSUME NEW n \in Node, Apply(n) PROVE Callers'
  <2>1. ASSUME NEW m \in Node, m # n PROVE CallerOK(m)'
    BY <1>0, <1>12, <2>1, ApplyFacts, CallersOthers
  <2>2. CallerOK(n)'
    <3> DEFINE q == behind[n]
    <3>0. CallerOK(n)
      BY DEF Callers
    <3>1. /\ UNCHANGED <<now, offset, flight>>
          /\ Len(q) \in Nat \ {0} /\ DOMAIN q = 1..Len(q)
          /\ DOMAIN behind'[n] = 1..Len(q) - 1
          /\ \A i \in DOMAIN behind'[n] : behind'[n][i] = q[i + 1] /\ i + 1 \in DOMAIN q
      BY <1>12, ApplyFacts
    <3>2. CASE q[1].live
      <4>1. call'[n].since <= now'
        <5>1. CheckRequirements(q[1], store[n]) \in BOOLEAN
          BY DEF CheckRequirements
        <5>2. call'[n].since = 0
          BY <1>12, <3>2, <5>1, ApplyFacts, ReturnFacts
        <5> QED BY <1>0, <3>1, <5>2
      <4>2. /\ Live(n, q[1]) /\ OnlyExpiry(n)
            /\ \A j \in DOMAIN q : q[j].live => j = 1
        BY <3>0, <3>1, <3>2 DEF CallerOK
      <4>3. \A i \in DOMAIN flight'[n] : ~flight'[n][i].live
        <5>1. call[n].op # "expire"
          BY <4>2, CallType DEF Live, TypeOK
        <5> QED BY <3>0, <3>1, <4>2, <5>1 DEF OnlyExpiry, CallerOK, Live
      <4>4. \A i \in DOMAIN behind'[n] : ~behind'[n][i].live
        <5>1. ASSUME NEW i \in DOMAIN behind'[n], behind'[n][i].live PROVE FALSE
          <6>1. i + 1 \in DOMAIN q /\ q[i + 1].live /\ i \in Nat \ {0}
            BY <3>1, <5>1
          <6> QED BY <4>2, <6>1
        <5> QED BY <5>1
      <4> QED BY <4>1, <4>3, <4>4, CallersQuiet
    <3>3. CASE ~q[1].live
      <4>1. UNCHANGED call
        BY <1>12, <3>3, ApplyFacts DEF haVars
      <4>2. ASSUME NEW i \in DOMAIN behind'[n], behind'[n][i].live
            PROVE  /\ LiveThen(n, behind'[n][i]) /\ OnlyExpiry(n)'
                   /\ \A j \in DOMAIN behind'[n] : behind'[n][j].live => j = i
        <5>1. i + 1 \in DOMAIN q /\ q[i + 1].live /\ i \in Nat
          BY <3>1, <4>2
        <5>2. /\ Live(n, q[i + 1]) /\ OnlyExpiry(n)
              /\ \A j \in DOMAIN q : q[j].live => j = i + 1
          BY <3>0, <5>1 DEF CallerOK
        <5>3. \A j \in DOMAIN behind'[n] : behind'[n][j].live => j = i
          <6>1. ASSUME NEW j \in DOMAIN behind'[n], behind'[n][j].live PROVE j = i
            <7>1. j + 1 = i + 1 /\ j \in Nat
              BY <3>1, <5>2, <6>1
            <7> QED BY <5>1, <7>1
          <6> QED BY <6>1
        <5> QED BY <3>1, <4>1, <4>2, <5>2, <5>3 DEF Live, LiveThen, OnlyExpiry
      <4>3. \A i \in DOMAIN flight'[n] : flight'[n][i].live =>
               /\ LiveThen(n, flight'[n][i])
               /\ \A j \in DOMAIN flight'[n] : j > i => flight'[n][j].op = "expire"
        BY <3>0, <3>1, <4>1 DEF CallerOK, Live, LiveThen
      <4> QED BY <3>0, <3>1, <4>1, <4>2, <4>3 DEF CallerOK, Live, LiveThen
    <3> QED BY <3>2, <3>3
  <2> QED BY <2>1, <2>2 DEF Callers
<1>13. ASSUME NEW n \in Node, Restart(n) \/ RestartEarly(n) PROVE Callers'
  <2>1. /\ UNCHANGED <<now, offset>>
        /\ call'[n] = Idle /\ \A m \in Node : m # n => call'[m] = call[m]
    BY <1>13 DEF Restart, RestartEarly, Forget, TypeOK
  <2>2. /\ \A i \in DOMAIN flight'[n] : ~flight'[n][i].live
        /\ \A i \in DOMAIN behind'[n] : ~behind'[n][i].live
        /\ \A m \in Node : m # n => flight'[m] = flight[m] /\ behind'[m] = behind[m]
    <3>1. CASE Restart(n)
      BY <3>1, OrphanFacts DEF Restart
    <3>2. CASE RestartEarly(n)
      <4>1. /\ flight'[n] = Unheard(flight[n]) /\ flight[n] \in Seq(Command)
            /\ behind'[n] = << >>
            /\ \A m \in Node : m # n => flight'[m] = flight[m] /\ behind'[m] = behind[m]
        BY <3>2 DEF RestartEarly, TypeOK
      <4>2. DOMAIN behind'[n] = {}
        BY <4>1
      <4> QED BY <4>1, <4>2, UnheardType
    <3> QED BY <1>13, <3>1, <3>2
  <2>3. CallerOK(n)'
    BY <1>0, <2>1, <2>2, CallersQuiet DEF Idle
  <2>4. ASSUME NEW m \in Node, m # n PROVE CallerOK(m)'
    BY <1>0, <2>1, <2>2, <2>4, CallersOthers
  <2> QED BY <2>3, <2>4 DEF Callers
<1>11. ASSUME NEW n \in Node, NEW k \in DOMAIN flight[n], Commit(n, k)
       PROVE  Callers'
  <2> DEFINE c == flight[n][k]  q == flight[n]
  <2>1. RequestOK(n, k) /\ c.by = n /\ CallerOK(n)
    BY DEF Requests, RequestOK, Callers
  <2>2. /\ UNCHANGED <<now, offset, call>>
        /\ flight'[n] = SubSeq(q, k + 1, Len(q))
        /\ \A m \in Node : m # n => flight'[m] = flight[m]
        /\ \A m \in Node :
              behind'[m] = behind[m] \/ behind'[m] = Append(behind[m], EntryFor(m, c))
    BY <1>11 DEF Commit, TypeOK, haVars
  <2>3. q \in Seq(Command) /\ Len(q) \in Nat /\ DOMAIN q = 1..Len(q) /\ k \in 1..Len(q)
    BY Types
  <2>4. /\ DOMAIN flight'[n] = 1..(Len(q) - k)
        /\ \A i \in DOMAIN flight'[n] : flight'[n][i] = q[k + i]
    <3>1. /\ DOMAIN SubSeq(q, k + 1, Len(q)) = 1..(Len(q) - k)
          /\ \A i \in 1..(Len(q) - k) : SubSeq(q, k + 1, Len(q))[i] = q[k + i]
      BY <2>3, Rest
    <3> HIDE DEF q
    <3> QED BY <2>2, <3>1
  <2>5. ASSUME NEW i \in DOMAIN flight'[n]
        PROVE  k + i \in DOMAIN q /\ k + i > k /\ i \in Nat
    BY <2>3, <2>4, <2>5
  <2>6. \A m \in Node : m # n => OnlyExpiry(m)' = OnlyExpiry(m)
    BY <2>2 DEF OnlyExpiry
  <2>7. OnlyExpiry(n) \/ c.live => OnlyExpiry(n)'
    BY <2>1, <2>4, <2>5 DEF OnlyExpiry, CallerOK
  <2> DEFINE N(m) == Len(behind[m])
  <2>8. ASSUME NEW m \in Node, NEW i \in DOMAIN behind'[m]
        PROVE  \/ i \in DOMAIN behind[m] /\ behind'[m][i] = behind[m][i]
               \/ i = N(m) + 1 /\ behind'[m][i] = EntryFor(m, c)
    <3>1. behind[m] \in Seq(Entry)
      BY DEF TypeOK
    <3>2. /\ DOMAIN Append(behind[m], EntryFor(m, c)) = 1..N(m) + 1
          /\ Append(behind[m], EntryFor(m, c))[N(m) + 1] = EntryFor(m, c)
          /\ \A j \in 1..N(m) : Append(behind[m], EntryFor(m, c))[j] = behind[m][j]
          /\ N(m) \in Nat /\ DOMAIN behind[m] = 1..N(m)
      BY <3>1
    <3> QED BY <2>2, <2>8, <3>2
  <2> HIDE DEF c, q, N
  <2>9. \A m \in Node :
           LET e == EntryFor(m, c) IN
           e.op = c.op /\ e.by = c.by /\ e.value = c.value /\ e.live = (c.live /\ m = n)
    BY <2>1 DEF EntryFor
  <2>10. ASSUME NEW m \in Node, NEW i \in DOMAIN flight'[m], flight'[m][i].live
         PROVE  /\ LiveThen(m, flight'[m][i])
                /\ \A j \in DOMAIN flight'[m] : j > i => flight'[m][j].op = "expire"
    <3>1. CallerOK(m)
      BY DEF Callers
    <3>2. CASE m # n
      BY <2>2, <2>10, <3>1, <3>2 DEF CallerOK, Live, LiveThen
    <3>3. CASE m = n
      <4>1. k + i \in DOMAIN q /\ q[k + i] = flight'[m][i]
        BY <2>4, <2>5, <3>3
      <4>2. Live(n, q[k + i]) /\ \A j \in DOMAIN q : j > k + i => q[j].op = "expire"
        BY <2>1, <2>10, <4>1 DEF CallerOK, q
      <4>3. ASSUME NEW j \in DOMAIN flight'[m], j > i
            PROVE  flight'[m][j].op = "expire"
        <5>1. k + j \in DOMAIN q /\ q[k + j] = flight'[m][j] /\ k + j > k + i
          <6>1. k + j \in DOMAIN q /\ j \in Nat /\ q[k + j] = flight'[m][j]
            BY <2>4, <2>5, <3>3, <4>3
          <6>2. i \in Nat /\ k \in Nat
            BY <2>3, <2>5, <3>3
          <6> QED BY <4>3, <6>1, <6>2
        <5> QED BY <4>2, <5>1
      <4> QED BY <2>2, <3>3, <4>1, <4>2, <4>3 DEF Live, LiveThen
    <3> QED BY <3>2, <3>3
  <2>11. ASSUME NEW m \in Node, NEW i \in DOMAIN behind'[m], behind'[m][i].live
         PROVE  /\ LiveThen(m, behind'[m][i]) /\ OnlyExpiry(m)'
                /\ \A j \in DOMAIN behind'[m] : behind'[m][j].live => j = i
    <3>1. CallerOK(m)
      BY DEF Callers
    <3>2. CASE m = n /\ c.live
      <4>1. Live(n, c) /\ c.op # "expire"
        <5>1. Live(n, c)
          BY <2>1, <3>2 DEF CallerOK, c
        <5>2. call[n].op # "expire"
          BY <5>1, CallType DEF Live, TypeOK
        <5> QED BY <5>1, <5>2 DEF Live
      <4>2. \A j \in DOMAIN behind[n] : ~behind[n][j].live
        BY <2>1, <4>1 DEF CallerOK, OnlyExpiry, c
      <4>3. \A j \in DOMAIN behind'[n] : behind'[n][j].live => j = N(n) + 1
        BY <2>8, <4>2
      <4>4. behind'[n][i].op = c.op /\ behind'[n][i].by = c.by /\ behind'[n][i].value = c.value
        BY <2>8, <2>9, <2>11, <3>2, <4>2
      <4> QED BY <2>2, <2>7, <2>11, <3>2, <4>1, <4>3, <4>4 DEF Live, LiveThen
    <3>3. CASE ~(m = n /\ c.live)
      <4>1. \A j \in DOMAIN behind'[m] : behind'[m][j].live =>
               j \in DOMAIN behind[m] /\ behind'[m][j] = behind[m][j]
        BY <2>8, <2>9, <3>3
      <4>2. /\ Live(m, behind[m][i]) /\ OnlyExpiry(m)
            /\ \A j \in DOMAIN behind[m] : behind[m][j].live => j = i
        BY <2>11, <3>1, <4>1 DEF CallerOK
      <4>3. OnlyExpiry(m)'
        BY <2>6, <2>7, <4>2
      <4> QED BY <2>2, <2>11, <4>1, <4>2, <4>3 DEF Live, LiveThen
    <3> QED BY <3>2, <3>3
  <2> QED BY <1>0, <2>2, <2>10, <2>11 DEF Callers, CallerOK, Live, LiveThen
<1> QED
  BY <1>1, <1>2, <1>4, <1>6, <1>7, <1>8, <1>9, <1>10, <1>11, <1>12, <1>13
     DEF Next, vars, ExpiryCallback, StepDown, Elect, logVars, haVars

----------------------------------------------------------------------------
\* Holds, after the step.
HoldsThen(n, since) ==
    now' < since + Ttl - Skew =>
        Owns(n, key') /\ key'.updated >= since + offset'[n]

\* While a node relies on the key only it can change the key.
LEMMA HoldsKept ==
    ASSUME TypeOK, Requests, [Next]_vars, NEW m \in Node, NEW since \in Nat,
           Holds(m, since), NoDelete(m)
    PROVE  HoldsThen(m, since)
<1>1. /\ offset' = offset /\ now' \in Nat /\ now \in Nat /\ now <= now'
      /\ offset[m] \in Nat /\ Ttl \in Nat /\ Skew \in Nat
  BY KeyMoves, Types
<1>2. SUFFICES ASSUME now' < since + Ttl - Skew
               PROVE  Owns(m, key') /\ key'.updated >= since + offset[m]
  BY <1>1 DEF HoldsThen
<1>3. Owns(m, key) /\ key.updated >= since + offset[m] /\ now < since + Ttl - Skew
  BY <1>1, <1>2 DEF Holds
<1>4. key # None /\ key.owner = m /\ key.updated \in Nat
  BY <1>3, Types DEF Owns
<1>5. ASSUME NEW n \in Node, NEW i \in DOMAIN flight[n], key' = Effect(flight[n][i], key),
             key' # key
      PROVE  Owns(m, key') /\ key'.updated >= since + offset[m]
  <2> DEFINE c == flight[n][i]
  <2>1. RequestOK(n, i) /\ c.by = n
    BY DEF Requests, RequestOK
  <2>2. CheckRequirements(c, key) /\ c.op # "create"
    BY <1>4, <1>5 DEF Effect, CheckRequirements
  <2>3. c.op # "expire"
    <3>1. c.op = "expire" => Due(key) <= now /\ Due(key) = key.updated - offset[m] + Ttl - Skew
      BY <1>4, <2>1, <2>2 DEF RequestOK, CheckRequirements, Due
    <3> QED BY <1>1, <1>3, <1>4, <3>1
  <2>4. n = m /\ c.op # "delete"
    BY <1>4, <2>1, <2>2, <2>3 DEF CheckRequirements, Owns, NoDelete
  <2>5. c.op = "renew" /\ key' = c.value
    BY <1>5, <2>2, <2>3, <2>4 DEF CheckRequirements, Effect
  <2>6. Owns(m, c.value) /\ key.updated <= c.value.updated
    BY <1>3, <2>1, <2>4, <2>5 DEF RequestOK, SetOp
  <2>7. c.value.updated \in Nat
    BY <2>6, Types DEF Owns
  <2> QED BY <1>1, <1>3, <1>4, <2>5, <2>6, <2>7
<1> QED BY <1>3, <1>5, KeyMoves

\* With expiries alone on their way no node gets the key.
LEMMA NotOwnedKept ==
    ASSUME TypeOK, Requests, [Next]_vars, NEW m \in Node,
           ~Owns(m, key), OnlyExpiry(m)
    PROVE  ~Owns(m, key')
<1>1. ASSUME NEW n \in Node, NEW i \in DOMAIN flight[n], key' = Effect(flight[n][i], key),
             key' # key, Owns(m, key')
      PROVE  FALSE
  <2>1. RequestOK(n, i)
    BY DEF Requests
  <2>2. flight[n][i].op \in SetOp /\ key' = flight[n][i].value
    BY <1>1 DEF Effect, SetOp, Owns
  <2>3. n = m
    BY <1>1, <2>1, <2>2 DEF RequestOK, Owns
  <2> QED BY <2>2, <2>3 DEF OnlyExpiry, SetOp
<1> QED BY <1>1, KeyMoves

\* What a node was told stays true unless it is told something new.
LEMMA ToldSame ==
    ASSUME TypeOK, Requests, Claims, [Next]_vars, NEW m \in Node,
           lease'[m] = lease[m] \/ lease'[m] = None,
           told'[m] = "released" => told[m] = "released" /\ call'[m].at = "idle",
           lease'[m] # None => call'[m].op # "delete",
           \A i \in DOMAIN flight'[m] :
              \/ flight'[m][i].op = "expire"
              \/ \E j \in DOMAIN flight[m] : flight'[m][i].op = flight[m][j].op
              \/ /\ told'[m] # "released"
                 /\ lease'[m] # None => flight'[m][i].op # "delete"
    PROVE  ToldOK(m)'
<1>1. ToldOK(m)
  BY DEF Claims
<1>2. ASSUME lease'[m] # None
      PROVE  HoldsThen(m, lease'[m]) /\ NoDelete(m)'
  <2>1. lease'[m] = lease[m] /\ lease[m] # None
    BY <1>2
  <2>2. lease[m] \in Nat
    BY <2>1 DEF TypeOK
  <2> QED BY <1>1, <1>2, <2>1, <2>2, HoldsKept DEF ToldOK, NoDelete
<1>3. ASSUME told'[m] = "released"
      PROVE  ~Owns(m, key') /\ OnlyExpiry(m)' /\ call'[m].at = "idle"
  BY <1>1, <1>3, NotOwnedKept DEF ToldOK, OnlyExpiry
<1> QED BY <1>2, <1>3 DEF ToldOK, Holds, HoldsThen, Owns

\* WillBeTold of one entry, after the step.
WillThen(m, e) ==
    e.live /\ CheckRequirements(e, e.before) =>
        IF e.op = "delete" THEN ~Owns(m, key') ELSE HoldsThen(m, call'[m].since)

\* What a node will be told stays true.
LEMMA WillSame ==
    ASSUME TypeOK, Requests, Callers, Claims, [Next]_vars, NEW m \in Node,
           NEW j \in DOMAIN behind[m],
           behind[m][j].live => call'[m].since = call[m].since
    PROVE  WillThen(m, behind[m][j])
<1> DEFINE e == behind[m][j]
<1> SUFFICES ASSUME e.live, CheckRequirements(e, e.before)
             PROVE  IF e.op = "delete" THEN ~Owns(m, key')
                    ELSE HoldsThen(m, call'[m].since)
  BY DEF WillThen
<1>1. OnlyExpiry(m) /\ NoDelete(m)
  BY DEF Callers, CallerOK, OnlyExpiry, NoDelete
<1>2. IF e.op = "delete" THEN ~Owns(m, key) ELSE Holds(m, call[m].since)
  BY DEF Claims, WillBeTold
<1>3. call[m].since \in Nat
  BY Types
<1> QED BY <1>1, <1>2, <1>3, HoldsKept, NotOwnedKept

\* The entries a node will be told of, after the step.
LEMMA WillQuiet ==
    ASSUME NEW m \in Node,
           \A i \in DOMAIN behind'[m] : behind'[m][i].live => WillThen(m, behind'[m][i])
    PROVE  WillBeTold(m)'
BY DEF WillBeTold, WillThen, CheckRequirements, Owns, Holds, HoldsThen

\* A step that tells a node nothing.
LEMMA ClaimsOthers ==
    ASSUME TypeOK, Requests, Callers, Claims, [Next]_vars, NEW m \in Node,
           lease'[m] = lease[m], told'[m] = told[m], call'[m] = call[m],
           behind'[m] = behind[m],
           \A i \in DOMAIN flight'[m] :
              \/ flight'[m][i].op = "expire"
              \/ \E j \in DOMAIN flight[m] : flight'[m][i].op = flight[m][j].op
    PROVE  ToldOK(m)' /\ WillBeTold(m)'
<1>1. ToldOK(m)
  BY DEF Claims
<1>2. ToldOK(m)'
  BY <1>1, ToldSame DEF ToldOK
<1>3. WillBeTold(m)'
  BY WillSame, WillQuiet
<1> QED BY <1>2, <1>3

\* A request takes back nothing that a node was told.
LEMMA ClaimsRequest ==
    ASSUME TypeOK, Requests, Callers, Claims, [Next]_vars, NEW n \in Node,
           NEW op \in {"create", "renew", "delete"}, NEW since \in Nat,
           Request(n, op, since), UNCHANGED behind,
           call[n].at # "wait", call'[n].op = op,
           \A m \in Node : m # n =>
              call'[m] = call[m] /\ told'[m] = told[m] /\ lease'[m] = lease[m],
           told'[n] # "released",
           lease'[n] = lease[n] \/ lease'[n] = None,
           op = "delete" => lease'[n] = None
    PROVE  Claims'
<1> DEFINE v == [owner |-> n, updated |-> since + offset[n]]
           c == [op |-> op, by |-> n, live |-> TRUE,
                 value |-> IF op = "delete" THEN None ELSE v]
<1>1. c \in Command /\ Send(n, c) /\ c.op = op
  <2>1. offset[n] \in Nat
    BY Types
  <2>2. v \in Value
    BY <2>1 DEF Value
  <2> QED BY <2>2 DEF Command, Op, Request
<1> HIDE DEF c
<1>2. /\ \A m \in Node : m # n => flight'[m] = flight[m]
      /\ DOMAIN flight'[n] = 1..Len(flight[n]) + 1
      /\ flight'[n][Len(flight[n]) + 1] = c
      /\ \A i \in DOMAIN flight[n] : flight'[n][i] = flight[n][i]
  BY <1>1, Added
<1>3. Len(flight[n]) \in Nat /\ DOMAIN flight[n] = 1..Len(flight[n])
  BY Types
<1>4. ASSUME NEW m \in Node, m # n PROVE ToldOK(m)' /\ WillBeTold(m)'
  BY <1>2, <1>4, ClaimsOthers
<1>5. ToldOK(n)'
  <2>1. ASSUME NEW i \in DOMAIN flight'[n]
        PROVE  \/ \E j \in DOMAIN flight[n] : flight'[n][i].op = flight[n][j].op
               \/ lease'[n] # None => flight'[n][i].op # "delete"
    <3>1. CASE i = Len(flight[n]) + 1
      BY <1>1, <1>2, <3>1
    <3>2. CASE i # Len(flight[n]) + 1
      <4>1. i \in DOMAIN flight[n]
        BY <1>2, <1>3, <3>2
      <4> QED BY <1>2, <4>1
    <3> QED BY <3>1, <3>2
  <2> QED BY <2>1, ToldSame
<1>6. WillBeTold(n)'
  BY NobodyWaits, WillQuiet
<1> QED BY <1>4, <1>5, <1>6 DEF Claims

\* What nodes are told of the key is true.
LEMMA ClaimsStep ==
    ASSUME JournalCommitted, TypeOK, Chain, Requests, Callers, Claims, [Next]_vars
    PROVE  Claims'
<1>0. now \in Nat /\ \A m \in Node : call[m].since \in Nat
  BY Types
<1>1. ASSUME UNCHANGED <<haVars, behind>>,
             \A m \in Node : \A i \in DOMAIN flight'[m] :
                \/ flight'[m][i].op = "expire"
                \/ \E j \in DOMAIN flight[m] : flight'[m][i].op = flight[m][j].op
      PROVE  Claims'
  BY <1>1, ClaimsOthers DEF haVars, Claims
<1>2. CASE UNCHANGED <<haVars, behind, flight>>
  BY <1>1, <1>2
<1>3. ASSUME NEW n \in Node, NEW op \in {"create", "renew", "delete"}, Retry(n, op),
             UNCHANGED behind, call[n].at # "wait",
             \A m \in Node : m # n => lease'[m] = lease[m],
             lease'[n] = lease[n] \/ lease'[n] = None,
             op = "delete" => lease'[n] = None
      PROVE  Claims'
  <2>1. /\ Request(n, op, now) /\ told'[n] # "released" /\ call'[n].op = op
        /\ \A m \in Node : m # n => call'[m] = call[m] /\ told'[m] = told[m]
    BY <1>3, RetryFacts
  <2> QED BY <1>0, <1>3, <2>1, ClaimsRequest
<1>4. ASSUME NEW n \in Node,
             AttemptToAcquireLeader(n) \/ UpdateLeader(n) \/ DeleteLeader(n)
      PROVE  Claims'
  <2>1. CASE AttemptToAcquireLeader(n) \/ UpdateLeader(n)
    BY <1>3, <2>1 DEF AttemptToAcquireLeader, UpdateLeader, logVars
  <2>2. CASE DeleteLeader(n)
    <3>1. lease'[n] = None /\ \A m \in Node : m # n => lease'[m] = lease[m]
      BY <2>2 DEF DeleteLeader, TypeOK
    <3> QED BY <1>3, <2>2, <3>1 DEF DeleteLeader, logVars
  <2> QED BY <1>4, <2>1, <2>2
<1>5. ASSUME NEW n \in Node, Fallback(n) PROVE Claims'
  <2>1. CASE store[n] = None
    BY <1>3, <1>5, <2>1 DEF Fallback, logVars
  <2>2. CASE store[n] # None
    <3>1. /\ UNCHANGED <<flight, behind, lease, told>>
          /\ call'[n] = Idle /\ \A m \in Node : m # n => call'[m] = call[m]
      BY <1>5, <2>2 DEF Fallback, logVars, TypeOK
    <3>2. ToldOK(n)'
      <4>1. call'[n].at = "idle" /\ call'[n].op # "delete"
        BY <3>1 DEF Idle
      <4> QED BY <3>1, <4>1, ToldSame
    <3>3. WillBeTold(n)'
      <4>1. call[n].at # "wait"
        BY <1>5 DEF Fallback
      <4> QED BY <3>1, <4>1, NobodyWaits, WillQuiet
    <3>4. ASSUME NEW m \in Node, m # n PROVE ToldOK(m)' /\ WillBeTold(m)'
      BY <3>1, <3>4, ClaimsOthers
    <3> QED BY <3>2, <3>3, <3>4 DEF Claims
  <2> QED BY <2>1, <2>2
<1>6. ASSUME NEW n \in Node, Fail(n) PROVE Claims'
  <2>1. ToldOK(n)'
    <3>1. lease'[n] = lease[n] /\ told[n] # "released"
      BY <1>6, FailFacts DEF Claims, ToldOK
    <3>2. told'[n] # "released" /\ (lease'[n] # None => call'[n].op # "delete")
      BY <1>6, <3>1, FailFacts DEF Claims, ToldOK
    <3>3. \A i \in DOMAIN flight'[n] :
             \E j \in DOMAIN flight[n] : flight'[n][i].op = flight[n][j].op
      BY <1>6, FailFacts, OrphanFacts
    <3> QED BY <3>1, <3>2, <3>3, ToldSame
  <2>2. WillBeTold(n)'
    BY <1>6, FailFacts, OrphanFacts, WillQuiet
  <2>3. ASSUME NEW m \in Node, m # n PROVE ToldOK(m)' /\ WillBeTold(m)'
    BY <1>6, <2>3, FailFacts, OrphanFacts, ClaimsOthers
  <2> QED BY <2>1, <2>2, <2>3 DEF Claims
<1>7. ASSUME NEW n \in Node, Again(n) PROVE Claims'
  <2>1. told'[n] # "released" /\ (call[n].op = "delete" => lease'[n] = None)
    BY <1>7, AgainFacts DEF Claims, ToldOK
  <2> QED BY <1>0, <1>7, <2>1, AgainFacts, ClaimsRequest
<1>8. ASSUME NEW n \in Node, ExpireKeys(n) PROVE Claims'
  <2> DEFINE c == [op |-> "expire", by |-> n, value |-> store[n], live |-> FALSE]
  <2>1. c \in Command /\ Send(n, c) /\ c.op = "expire"
    BY <1>8 DEF ExpireKeys, Command, Op, TypeOK
  <2> HIDE DEF c
  <2>2. /\ \A m \in Node : m # n => flight'[m] = flight[m]
        /\ DOMAIN flight'[n] = 1..Len(flight[n]) + 1
        /\ flight'[n][Len(flight[n]) + 1] = c
        /\ \A i \in DOMAIN flight[n] : flight'[n][i] = flight[n][i]
    BY <2>1, Added
  <2>3. ASSUME NEW i \in DOMAIN flight'[n], i # Len(flight[n]) + 1
        PROVE  i \in DOMAIN flight[n]
    <3>1. Len(flight[n]) \in Nat /\ DOMAIN flight[n] = 1..Len(flight[n])
      BY Types
    <3> QED BY <2>2, <2>3, <3>1
  <2>4. \A m \in Node : \A i \in DOMAIN flight'[m] :
                \/ flight'[m][i].op = "expire"
                \/ \E j \in DOMAIN flight[m] : flight'[m][i].op = flight[m][j].op
    BY <2>1, <2>2, <2>3
  <2> QED BY <1>1, <1>8, <2>4 DEF ExpireKeys, logVars
<1>9. ASSUME NEW n \in Node, Drop(n) PROVE Claims'
  <2>1. flight'[n] = << >> /\ \A m \in Node : m # n => flight'[m] = flight[m]
    BY <1>9 DEF Drop, TypeOK
  <2>2. DOMAIN flight'[n] = {}
    BY <2>1
  <2> QED BY <1>1, <1>9, <2>1, <2>2 DEF Drop, logVars
<1>10. ASSUME NEW n \in Node, NEW k \in DOMAIN flight[n], Commit(n, k) PROVE Claims'
  <2> DEFINE c == flight[n][k]  q == flight[n]
  <2>1. /\ RequestOK(n, k) /\ c.by = n /\ CallerOK(n) /\ c \in Command
    BY Types DEF Requests, RequestOK, Callers
  <2>2. /\ UNCHANGED <<now, offset, call, lease, told>>
        /\ flight'[n] = SubSeq(q, k + 1, Len(q)) /\ key' = Effect(c, key)
        /\ \A m \in Node : m # n => flight'[m] = flight[m]
        /\ \A m \in Node :
              behind'[m] = behind[m] \/ behind'[m] = Append(behind[m], EntryFor(m, c))
    BY <1>10 DEF Commit, TypeOK, haVars
  <2>3. \A m \in Node : \A i \in DOMAIN flight'[m] :
            \E j \in DOMAIN flight[m] : flight'[m][i].op = flight[m][j].op
    <3>1. /\ DOMAIN SubSeq(q, k + 1, Len(q)) = 1..(Len(q) - k)
          /\ \A i \in 1..(Len(q) - k) : SubSeq(q, k + 1, Len(q))[i] = q[k + i]
          /\ Len(q) \in Nat /\ DOMAIN q = 1..Len(q) /\ k \in 1..Len(q)
      BY Types, Rest
    <3>2. \A i \in 1..(Len(q) - k) : k + i \in DOMAIN q
      BY <3>1
    <3> HIDE DEF q
    <3>3. \A i \in DOMAIN flight'[n] : \E j \in DOMAIN q : flight'[n][i].op = q[j].op
      BY <2>2, <3>1, <3>2
    <3> QED BY <2>2, <3>3 DEF q
  <2>4. ASSUME NEW m \in Node PROVE ToldOK(m)'
    BY <2>2, <2>3, ToldSame DEF Claims, ToldOK
  <2>5. ASSUME NEW m \in Node PROVE WillBeTold(m)'
    <3> DEFINE b == behind[m]  e == EntryFor(m, c)
    <3>1. /\ b \in Seq(Entry) /\ Len(b) \in Nat /\ DOMAIN b = 1..Len(b)
      BY DEF TypeOK
    <3>2. /\ DOMAIN Append(b, e) = 1..Len(b) + 1 /\ Append(b, e)[Len(b) + 1] = e
          /\ \A j \in 1..Len(b) : Append(b, e)[j] = b[j]
      BY <3>1
    <3>3. e.live => c.live /\ m = n /\ e.op = c.op /\ e.before = key
      BY <2>1 DEF EntryFor
    <3>4. CheckRequirements(e, key) = CheckRequirements(c, key)
      BY EffectSame DEF EntryFor
    <3> HIDE DEF b, e
    <3>5. ASSUME e.live, CheckRequirements(e, e.before)
          PROVE  IF e.op = "delete" THEN ~Owns(m, key')
                 ELSE HoldsThen(m, call'[m].since)
      <4>1. m = n /\ c.live /\ CheckRequirements(c, key) /\ e.op = c.op
        BY <3>3, <3>4, <3>5
      <4>2. Live(n, c) /\ c.op \in {"create", "renew", "delete"}
        <5>1. Live(n, c)
          BY <2>1, <4>1 DEF CallerOK
        <5> QED BY <5>1, CallType DEF Live, TypeOK
      <4>3. CASE c.op = "delete"
        BY <2>2, <4>1, <4>3 DEF Effect, Owns
      <4>4. CASE c.op # "delete"
        <5>1. /\ c.op \in SetOp /\ key' = c.value /\ Owns(n, c.value)
              /\ c.value.updated = call[n].since + offset[n]
          BY <2>1, <2>2, <4>1, <4>2, <4>4 DEF Effect, SetOp, RequestOK, Live
        <5>2. call[n].since \in Nat /\ offset[n] \in Nat
          BY Types
        <5> HIDE DEF c
        <5>3. key'.updated >= call[n].since + offset[n]
          BY <5>1, <5>2
        <5> QED BY <2>2, <4>1, <4>4, <5>1, <5>3 DEF HoldsThen
      <4> QED BY <4>3, <4>4
    <3>6. WillThen(m, e)
      BY <3>5 DEF WillThen
    <3>7. \A j \in DOMAIN b : WillThen(m, b[j])
      BY <2>2, WillSame DEF b
    <3>8. ASSUME NEW i \in DOMAIN behind'[m]
          PROVE  WillThen(m, behind'[m][i])
      <4>1. CASE behind'[m] = b
        BY <3>7, <3>8, <4>1
      <4>2. CASE behind'[m] = Append(b, e)
        <5>1. CASE i = Len(b) + 1
          BY <3>2, <3>6, <4>2, <5>1
        <5>2. CASE i # Len(b) + 1
          <6>1. i \in DOMAIN b /\ behind'[m][i] = b[i]
            BY <3>1, <3>2, <3>8, <4>2, <5>2
          <6> QED BY <3>7, <6>1
        <5> QED BY <5>1, <5>2
      <4> QED BY <2>2, <4>1, <4>2 DEF b, e
    <3> QED BY <3>8, WillQuiet
  <2> QED BY <2>4, <2>5 DEF Claims
<1>11. ASSUME NEW n \in Node, Apply(n) PROVE Claims'
  <2> DEFINE q == behind[n]
  <2>1. ASSUME NEW m \in Node, m # n PROVE ToldOK(m)' /\ WillBeTold(m)'
    BY <1>11, <2>1, ApplyFacts, ClaimsOthers
  <2>2. /\ UNCHANGED <<now, offset, key, flight>>
        /\ Len(q) \in Nat \ {0} /\ DOMAIN q = 1..Len(q)
        /\ DOMAIN behind'[n] = 1..Len(q) - 1
        /\ \A i \in DOMAIN behind'[n] : behind'[n][i] = q[i + 1]
    BY <1>11, ApplyFacts
  <2>3. \A i \in DOMAIN behind'[n] : i + 1 \in DOMAIN q /\ i + 1 # 1
    BY <2>2
  <2>4. ToldOK(n) /\ WillBeTold(n) /\ CallerOK(n) /\ ChainOK(n)
    BY DEF Claims, Callers, Chain
  <2>5. CASE ~q[1].live
    <3>1. UNCHANGED <<call, lease, told>>
      BY <1>11, <2>5, ApplyFacts DEF haVars
    <3>2. ToldOK(n)'
      BY <2>2, <2>4, <3>1, ToldSame DEF ToldOK
    <3>3. WillBeTold(n)'
      BY <2>2, <2>3, <3>1, WillSame, WillQuiet
    <3> QED BY <2>1, <3>2, <3>3 DEF Claims
  <2>6. CASE q[1].live
    <3> DEFINE e == q[1]  ok == CheckRequirements(e, store[n])
    <3>1. ok \in BOOLEAN /\ Return(n, ok)
      BY <1>11, <2>6, ApplyFacts DEF CheckRequirements
    <3>2. /\ e.op = call[n].op /\ e.op \in {"create", "renew", "delete"} /\ OnlyExpiry(n)
          /\ \A j \in DOMAIN q : q[j].live => j = 1
      <4>1. /\ Live(n, e) /\ OnlyExpiry(n) /\ \A j \in DOMAIN q : q[j].live => j = 1
        BY <2>2, <2>4, <2>6 DEF CallerOK
      <4> QED BY <4>1, CallType DEF Live, TypeOK
    <3>3. store[n] = e.before
      <4>1. q # << >>
        BY <2>2
      <4> QED BY <2>4, <4>1 DEF ChainOK
    <3>4. ok => IF e.op = "delete" THEN ~Owns(n, key) ELSE Holds(n, call[n].since)
      BY <2>2, <2>4, <2>6, <3>3 DEF WillBeTold
    <3> HIDE DEF e, ok
    <3>5. /\ call'[n].at \notin {"wait", "sleep"} /\ call'[n].op = "none"
          /\ lease'[n] = IF e.op # "delete" /\ ok THEN call[n].since ELSE lease[n]
          /\ told'[n] = "released" =>
                e.op = "delete" /\ ok /\ call'[n].at = "idle"
      BY <3>1, <3>2, ReturnFacts
    <3>6. lease'[n] # None => Holds(n, lease'[n]) /\ NoDelete(n)
      <4>1. NoDelete(n)
        BY <3>2 DEF OnlyExpiry, NoDelete
      <4> QED BY <2>4, <3>4, <3>5, <4>1 DEF ToldOK
    <3>7. told'[n] = "released" => ~Owns(n, key) /\ OnlyExpiry(n)
      BY <3>2, <3>4, <3>5
    <3>8. ToldOK(n)'
      BY <2>2, <3>5, <3>6, <3>7 DEF ToldOK, Holds, NoDelete, OnlyExpiry, Owns
    <3>9. WillBeTold(n)'
      BY <2>2, <2>3, <3>2, WillQuiet
    <3> QED BY <2>1, <3>8, <3>9 DEF Claims
  <2> QED BY <2>5, <2>6
<1>12. ASSUME NEW n \in Node, Restart(n) PROVE Claims'
  <2>1. /\ Orphan(n) /\ lease'[n] = None /\ told'[n] = "none"
        /\ \A m \in Node : m # n =>
              call'[m] = call[m] /\ lease'[m] = lease[m] /\ told'[m] = told[m]
    BY <1>12 DEF Restart, Forget, TypeOK
  <2>2. ToldOK(n)' /\ WillBeTold(n)'
    BY <2>1, OrphanFacts, WillQuiet DEF ToldOK
  <2>3. ASSUME NEW m \in Node, m # n PROVE ToldOK(m)' /\ WillBeTold(m)'
    BY <2>1, <2>3, OrphanFacts, ClaimsOthers
  <2> QED BY <2>2, <2>3 DEF Claims
<1>13. ASSUME NEW n \in Node, RestartEarly(n) PROVE FALSE
  BY <1>13 DEF RestartEarly, JournalCommitted
<1>14. ASSUME NEW n \in Node, ExpiryCallback(n) \/ StepDown(n) \/ Elect(n)
       PROVE  Claims'
  BY <1>2, <1>14 DEF ExpiryCallback, StepDown, Elect, logVars
<1>15. CASE Tick \/ UNCHANGED vars
  BY <1>2, <1>15 DEF Tick, vars, logVars
<1> QED
  BY <1>4, <1>5, <1>6, <1>7, <1>8, <1>9, <1>10, <1>11, <1>12, <1>13, <1>14, <1>15
     DEF Next

----------------------------------------------------------------------------
\* The initial state is type correct.
LEMMA InitType == Init => TypeOK
<1> SUFFICES ASSUME Init PROVE TypeOK
  OBVIOUS
<1>1. << >> \in Seq(Entry) /\ << >> \in Seq(Command)
  OBVIOUS
<1> QED BY <1>1, ConstantsOK DEF Init, TypeOK, Call

\* The initial state satisfies the invariant.
LEMMA InitStore == Init => StoreInv
<1> SUFFICES ASSUME Init PROVE StoreInv
  OBVIOUS
<1>1. /\ \A n \in Node : flight[n] = << >> /\ behind[n] = << >>
      /\ key = None /\ now = 0
      /\ \A n \in Node : store[n] = None /\ ~early[n] /\ call[n] = Idle
                         /\ lease[n] = None /\ told[n] = "none"
  BY DEF Init
<1>2. \A n \in Node : DOMAIN flight[n] = {} /\ DOMAIN behind[n] = {}
  BY <1>1
<1>3. Chain
  BY <1>1, <1>2 DEF Chain, ChainOK
<1>4. Requests /\ KeyRecent
  BY <1>1, <1>2 DEF Requests, KeyRecent
<1>5. Callers
  BY <1>1, <1>2 DEF Callers, CallerOK, Idle
<1>6. Claims
  BY <1>1, <1>2 DEF Claims, ToldOK, WillBeTold
<1> QED BY <1>3, <1>4, <1>5, <1>6, InitType DEF StoreInv, RequestInv

\* Every reachable state is type correct.
THEOREM TypeCorrect == Spec => []TypeOK
<1>1. TypeOK /\ [Next]_vars => TypeOK'
  BY TypeStep
<1> QED BY <1>1, InitType, PTL DEF Spec

\* The requests of a node stay in order, none is older than the key it would
\* change, and what is to expire is over, even if journals end uncommitted.
THEOREM RequestsCorrect == Spec => []RequestInv
<1>1. Init => RequestInv
  BY InitStore DEF StoreInv
<1>2. RequestInv /\ [Next]_vars => RequestInv'
  BY TypeStep, RequestsStep, KeyRecentStep, CallersStep DEF RequestInv
<1> QED BY <1>1, <1>2, PTL DEF Spec

\* A step is about the requests of one node, and asks for it at most.
LEMMA FlightMoves ==
    ASSUME TypeOK, [Next]_vars
    PROVE  \/ flight' = flight
           \/ \E n \in Node : \A m \in Node : m # n => flight'[m] = flight[m]
<1>1. ASSUME NEW n \in Node,
             \/ AttemptToAcquireLeader(n) \/ UpdateLeader(n) \/ DeleteLeader(n)
             \/ Fallback(n) \/ Again(n) \/ ExpireKeys(n)
      PROVE  \/ flight' = flight
             \/ \A m \in Node : m # n => flight'[m] = flight[m]
  BY <1>1
     DEF AttemptToAcquireLeader, UpdateLeader, DeleteLeader, Fallback, Again,
         ExpireKeys, Retry, Request, Send, TypeOK
<1>2. ASSUME NEW n \in Node,
             \/ Fail(n) \/ ExpiryCallback(n) \/ StepDown(n) \/ Elect(n) \/ Drop(n)
             \/ Apply(n) \/ Restart(n) \/ RestartEarly(n)
             \/ \E i \in DOMAIN flight[n] : Commit(n, i)
      PROVE  \/ flight' = flight
             \/ \A m \in Node : m # n => flight'[m] = flight[m]
  BY <1>2
     DEF Fail, ExpiryCallback, StepDown, Elect, Drop, Apply, Restart, RestartEarly,
         Commit, Orphan, TypeOK
<1>3. CASE Tick \/ UNCHANGED vars
  BY <1>3 DEF Tick, vars
<1> QED
  BY <1>1, <1>2, <1>3 DEF Next

\* A request that gets into the log is one request less that is under way.
LEMMA CommitSettles ==
    ASSUME TypeOK, NEW n \in Node, NEW i \in DOMAIN flight[n], Commit(n, i),
           NEW m \in Node, NoDelete(m)
    PROVE  NoDelete(m)'
<1>1. /\ flight[n] \in Seq(Command) /\ i \in 1..Len(flight[n])
      /\ flight' = [flight EXCEPT ![n] = SubSeq(@, i + 1, Len(@))]
      /\ flight \in [Node -> Seq(Command)]
  BY DEF Commit, TypeOK
<1>2. CASE m # n
  BY <1>1, <1>2 DEF NoDelete
<1>3. CASE m = n
  <2>1. flight'[n] = SubSeq(flight[n], i + 1, Len(flight[n]))
    BY <1>1
  <2>2. \A j \in DOMAIN flight'[n] :
            i + j \in DOMAIN flight[n] /\ flight'[n][j] = flight[n][i + j]
    BY <1>1, <2>1
  <2> QED BY <1>3, <2>2 DEF NoDelete
<1> QED BY <1>2, <1>3

\* In real time the leader key of raft.py is a lease register: compare-and-set,
\* retries, expiry and restarts from an uncommitted journal never hand it over
\* before the lease is over.
THEOREM RegisterImplemented == Spec => RegisterRefined
<1> DEFINE holder == IF key = None THEN None ELSE key.owner
           due == IF key = None THEN 0
                  ELSE key.updated - offset[key.owner] + Ttl - Skew
<1>1. Init => Register!RegisterInit
  BY DEF Init, Asked, NoDelete, Register!RegisterInit
<1>2. RequestInv /\ [Next]_vars
      => [Register!RegisterNext]_<<holder, due, Asked, now>>
  <2> SUFFICES ASSUME RequestInv, [Next]_vars
               PROVE  Register!RegisterNext \/ UNCHANGED <<holder, due, Asked, now>>
    OBVIOUS
  <2>1. /\ now \in Nat /\ Ttl \in Nat /\ Skew \in Nat /\ offset' = offset
        /\ \A n \in Node : offset[n] \in Nat
    BY Types, KeyMoves DEF RequestInv
  <2>2. CASE Tick
    BY <2>1, <2>2
       DEF Tick, logVars, Asked, NoDelete, Register!RegisterNext, Register!Advance
  <2>3. ASSUME NEW n \in Node, NEW i \in DOMAIN flight[n], Commit(n, i), key' # key
        PROVE  Register!RegisterNext
    <3> DEFINE c == flight[n][i]
    <3>0. Asked' \subseteq Asked
      BY <2>3, CommitSettles DEF RequestInv, Asked
    <3>1. /\ RequestOK(n, i) /\ c.by = n /\ key' = Effect(c, key) /\ now' = now
      BY <2>3 DEF RequestInv, Requests, RequestOK, Commit
    <3>2. CheckRequirements(c, key)
      BY <2>3, <3>1 DEF Effect
    <3>3. c.op \in {"create", "renew", "delete", "expire"}
      BY <3>2 DEF CheckRequirements
    <3>4. c.op \in SetOp => /\ key' = c.value /\ key' # None /\ key'.owner = n
                            /\ key'.updated \in Nat
      BY <3>1, <3>2, Types DEF RequestInv, Effect, SetOp, RequestOK, Owns
    <3>5. c.op \notin SetOp => key' = None
      BY <3>1, <3>2 DEF Effect, SetOp
    <3>6. CASE c.op = "create"
      <4>1. key = None
        BY <3>2, <3>6 DEF CheckRequirements
      <4>2. Register!Grant(n)
        BY <2>1, <3>0, <3>1, <3>4, <3>6, <4>1 DEF SetOp, Register!Grant
      <4> QED BY <4>2 DEF Register!RegisterNext
    <3>7. CASE c.op = "renew"
      <4>1. key # None /\ key.owner = n /\ key.updated \in Nat
        BY <3>1, <3>2, <3>7, Types DEF RequestInv, CheckRequirements, Owns
      <4>2. key.updated <= key'.updated
        BY <3>1, <3>4, <3>7, <4>1 DEF SetOp, RequestOK, Owns
      <4>3. Register!Renew(n)
        BY <2>1, <3>0, <3>1, <3>4, <3>7, <4>1, <4>2
           DEF SetOp, Register!Renew
      <4> QED BY <4>3 DEF Register!RegisterNext
    <3>8. CASE c.op = "delete"
      <4>1. key # None /\ key.owner = n
        BY <3>1, <3>2, <3>8 DEF CheckRequirements, Owns
      <4>2. n \in Asked
        BY <3>8 DEF Asked, NoDelete
      <4>3. Register!GiveUp(n)
        BY <3>0, <3>1, <3>5, <3>8, <4>1, <4>2, ConstantsOK DEF SetOp, Register!GiveUp
      <4> QED BY <4>3 DEF Register!RegisterNext
    <3>9. CASE c.op = "expire"
      <4>1. key = c.value /\ key # None /\ Due(key) <= now
        BY <3>1, <3>2, <3>9 DEF CheckRequirements, RequestOK
      <4>2. due <= now /\ due \in Int /\ holder # None
        BY <2>1, <4>1, Types, ConstantsOK DEF RequestInv, Due
      <4>3. Register!Lapse
        BY <2>1, <3>0, <3>1, <3>5, <3>9, <4>1, <4>2
           DEF SetOp, Register!Lapse
      <4> QED BY <4>3 DEF Register!RegisterNext
    <3> QED BY <3>3, <3>6, <3>7, <3>8, <3>9
  <2>4. CASE UNCHANGED <<now, offset, key>>
    <3>1. UNCHANGED <<holder, due, now>>
      BY <2>4
    <3>2. CASE Asked' \subseteq Asked
      <4>1. Register!Settle
        BY <3>1, <3>2 DEF Register!Settle
      <4> QED BY <4>1 DEF Register!RegisterNext
    <3>3. CASE ~(Asked' \subseteq Asked)
      <4>1. PICK n \in Node : \A m \in Node : m # n => flight'[m] = flight[m]
        BY <3>3, FlightMoves DEF RequestInv, Asked, NoDelete
      <4>2. \A m \in Node : m # n => (m \in Asked' <=> m \in Asked)
        BY <4>1 DEF Asked, NoDelete
      <4>3. n \in Asked'
        BY <3>3, <4>2 DEF Asked
      <4>4. Asked' = Asked \cup {n}
        BY <4>2, <4>3 DEF Asked
      <4>5. Register!Ask(n)
        BY <3>1, <4>4 DEF Register!Ask
      <4> QED BY <4>5 DEF Register!RegisterNext
    <3> QED BY <3>2, <3>3
  <2>5. \/ UNCHANGED <<now, offset, key>> \/ Tick
        \/ \E n \in Node : \E i \in DOMAIN flight[n] : Commit(n, i)
    BY StepKinds DEF RequestInv
  <2>6. ASSUME NEW n \in Node, NEW i \in DOMAIN flight[n], Commit(n, i), key' = key
        PROVE  UNCHANGED <<now, offset, key>>
    BY <2>6 DEF Commit
  <2> QED BY <2>2, <2>3, <2>4, <2>5, <2>6
<1> QED BY <1>1, <1>2, RequestsCorrect, PTL
           DEF Spec, RegisterRefined, Register!RegisterSpec, Register!registerVars

\* With committed journals every dictionary is on the way to the key and what
\* nodes are told of the key is true.
THEOREM StoreCorrect == ASSUME JournalCommitted PROVE Spec => []StoreInv
<1>1. StoreInv /\ [Next]_vars => StoreInv'
  BY JournalCommitted, TypeStep, ChainStep, RequestsStep, KeyRecentStep,
     CallersStep,
     ClaimsStep DEF StoreInv, RequestInv
<1> QED BY <1>1, InitStore, PTL DEF Spec

\* A node that attempt_to_acquire_leader or update_leader answered True has the
\* key until its ttl, counted from the call, is over.
THEOREM LeaseKept == ASSUME JournalCommitted PROVE Spec => []LeaseHeld
<1>1. StoreInv => LeaseHeld
  BY DEF StoreInv, Claims, ToldOK, Holds, LeaseHeld
<1> QED BY <1>1, JournalCommitted, StoreCorrect, PTL

\* A node whose delete_leader answered True does not own the key.
THEOREM ReleaseKept == ASSUME JournalCommitted PROVE Spec => []ReleasedStays
<1>1. StoreInv => ReleasedStays
  BY DEF StoreInv, Claims, ToldOK, ReleasedStays
<1> QED BY <1>1, JournalCommitted, StoreCorrect, PTL
=============================================================================
