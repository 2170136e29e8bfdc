--------------------------- MODULE NodeLifeProofs ---------------------------
(***************************************************************************)
(* Proofs about NodeLife, for any nodes and any length of their logs: one  *)
(* node at a time initializes the cluster, and there is one cluster; a     *)
(* node that was a primary is checked before it follows anybody, and a     *)
(* rewind that succeeds leaves the log of the leader.                      *)
(***************************************************************************)
EXTENDS NodeLife, SequenceTheorems, TLAPS

\* The data directory of a node counts unless it is about to be moved away.
Moving(n) == pc[n] = "moving"
Holds(n) == Valid(disk[n].sys) /\ ~Moving(n)

\* What a long action has found, and leaves to the HA loop.
JobOK(n) ==
    /\ job[n] # "none" => pc[n] = "idle"
    /\ srv[n] # "down" => Valid(disk[n].sys)
    /\ job[n] \in {"clone", "copy", "pg_rewind"} => srv[n] = "down"
    /\ job[n] \in {"start", "start standby"} => Valid(disk[n].sys)
    /\ job[n] \in {"clone", "copy", "rewind", "pg_rewind"} => src[n].leader # None
    /\ job[n] = "bootstrap" => mem[n].boot
    /\ pc[n] = "publish" => Valid(disk[n].sys)
    /\ pc[n] \in {"publish", "take"} => ~mem[n].boot

JobInv == \A n \in Node : JobOK(n)

\* The initialize key says who may have a system: nobody, the one that bootstraps or has died
\* of it, or whoever has its value.
KeyInv ==
    /\ \A n \in Node : Bootstraps(n) => init = InProgress
    /\ \A n, m \in Node : Bootstraps(n) /\ Bootstraps(m) => n = m
    /\ \A n, m \in Node : Bootstraps(n) /\ Holds(m) => n = m
    /\ \A n \in Node : Holds(n) => init # NoKey /\ (Valid(init) => disk[n].sys = init)
    /\ \A n, m \in Node : Holds(n) /\ Holds(m) /\ ~Valid(init) => n = m

\* Nobody leads before the key is written, and nobody who leads is moving its data.
Leads(l) == l # None => Valid(init) /\ ~Moving(l)

\* What the loops have read before is not contradicted later.
ViewInv ==
    /\ Leads(leader)
    /\ \A n \in Node :
        /\ Leads(view[n].leader) /\ Leads(src[n].leader)
        /\ Valid(view[n].init) => view[n].init = init
        /\ view[n].leader # None => Valid(view[n].init)
        /\ (pc[n] = "loaded" /\ mem[n].boot) \/ pc[n] = "publish" => view[n].init = InProgress
        /\ pc[n] = "loaded" /\ Valid(disk[n].sys) => view[n].init # NoKey
        /\ pc[n] = "take" => Valid(init)

Inv == TypeOK /\ JobInv /\ (calm => KeyInv /\ ViewInv)

----------------------------------------------------------------------------
\* Types of what the actions write.

LEMMA Mem0Type == Mem0 \in Memory
BY DEF Mem0, Memory

LEMMA NoViewType == NoView \in View /\ NoView.leader = None /\ NoView.init = NoKey
BY DEF NoView, View, NoKey

LEMMA EmptyType ==
  /\ Empty \in Disk /\ Len(Empty.wal) = 0 /\ ~Valid(Empty.sys)
  /\ Partial \in Disk /\ Len(Partial.wal) = 0 /\ ~Valid(Partial.sys)
<1> DEFINE w == <<>>
<1>1. w \in Seq(Nat) /\ Len(w) = 0 BY EmptySeq
<1>2. Empty = [sys |-> 0, wal |-> w, ctl |-> 0, state |-> "clean"] BY DEF Empty
<1> HIDE DEF w
<1>3. Empty \in Disk /\ Empty.wal = w /\ Empty.sys = 0 BY <1>1, <1>2 DEF Disk
<1>4. Partial \in Disk /\ Partial.wal = w /\ Partial.sys = 0 BY <1>3 DEF Partial, Disk
<1> QED BY <1>1, <1>3, <1>4 DEF Valid

LEMMA TlType == ASSUME TypeOK, NEW n \in Node PROVE Tl(n) \in Nat
<1>1. disk[n].wal \in Seq(Nat) BY DEF TypeOK, Disk
<1>2. CASE disk[n].wal = <<>> BY <1>2 DEF Tl
<1>3. CASE disk[n].wal # <<>>
  <2>1. Len(disk[n].wal) \in 1..Len(disk[n].wal) BY <1>1, <1>3, EmptySeq
  <2>2. disk[n].wal[Len(disk[n].wal)] \in Nat BY <1>1, <2>1, ElementOfSeq
  <2> QED BY <1>3, <2>2 DEF Tl
<1> QED BY <1>2, <1>3

LEMMA ClusterType ==
  ASSUME TypeOK PROVE Cluster \in View /\ Cluster.leader = leader /\ Cluster.init = init
<1>1. CASE leader = None BY <1>1 DEF Cluster, View, TypeOK
<1>2. CASE leader # None
  <2>1. leader \in Node BY <1>2 DEF TypeOK
  <2>2. member[leader] \in {"absent", "replica", "wait", "ready"} BY <2>1 DEF TypeOK
  <2> QED BY <1>2, <2>1, <2>2 DEF Cluster, View, TypeOK
<1> QED BY <1>1, <1>2

LEMMA RunAsyncType ==
  ASSUME TypeOK, NEW n \in Node, NEW action \in Job, NEW m \in View, RunAsync(n, action, m)
  PROVE /\ job' \in [Node -> Job] /\ src' \in [Node -> View]
        /\ job'[n] = action /\ src'[n] = m
        /\ \A k \in Node \ {n} : job'[k] = job[k] /\ src'[k] = src[k]
BY DEF TypeOK, RunAsync

LEMMA StartType ==
  ASSUME TypeOK, NEW n \in Node, NEW l, Start(n, l)
  PROVE /\ job' \in [Node -> Job] /\ src' \in [Node -> View]
        /\ job'[n] \in {"start", "start standby"} /\ src'[n] = NoView
        /\ \A k \in Node \ {n} : job'[k] = job[k] /\ src'[k] = src[k]
<1>1. PICK action \in {"start", "start standby"} : RunAsync(n, action, NoView)
  BY DEF Start
<1>2. action \in Job BY DEF Job
<1> QED BY <1>1, <1>2, NoViewType, RunAsyncType

LEMMA RepairType ==
  ASSUME TypeOK, NEW n \in Node, NEW c \in View, Repair(n, c)
  PROVE /\ job' \in [Node -> Job] /\ src' \in [Node -> View]
        /\ job'[n] \in {"rewind", "reinitialize"} /\ src'[n] = c
        /\ \A k \in Node \ {n} : job'[k] = job[k] /\ src'[k] = src[k]
<1>1. PICK action \in {"rewind", "reinitialize"} : RunAsync(n, action, c)
  BY DEF Repair
<1>2. action \in Job BY DEF Job
<1> QED BY <1>1, <1>2, RunAsyncType

LEMMA EndsType ==
  ASSUME TypeOK, NEW n \in Node, Ends(n)
  PROVE /\ job' \in [Node -> Job] /\ src' \in [Node -> View]
        /\ job'[n] = "none" /\ src'[n] = NoView
        /\ \A k \in Node \ {n} : job'[k] = job[k] /\ src'[k] = src[k]
<1>1. "none" \in Job BY DEF Job
<1> QED BY <1>1, NoViewType, RunAsyncType DEF Ends

LEMMA SetMemType ==
  ASSUME TypeOK, NEW n \in Node, NEW m \in Memory, SetMem(n, m)
  PROVE mem' \in [Node -> Memory] /\ mem'[n] = m /\ \A k \in Node \ {n} : mem'[k] = mem[k]
BY DEF TypeOK, SetMem

LEMMA SetDiskType ==
  ASSUME TypeOK, NEW n \in Node, NEW d \in Disk, Len(d.wal) <= MaxWal, SetDisk(n, d)
  PROVE /\ disk' \in [Node -> Disk] /\ \A k \in Node : Len(disk'[k].wal) <= MaxWal
        /\ disk'[n] = d /\ \A k \in Node \ {n} : disk'[k] = disk[k]
BY DEF TypeOK, SetDisk

LEMMA GotoType ==
  ASSUME TypeOK, NEW n \in Node, NEW label \in Pc, Goto(n, label)
  PROVE pc' \in [Node -> Pc] /\ pc'[n] = label /\ \A k \in Node \ {n} : pc'[k] = pc[k]
BY DEF TypeOK, Goto

LEMMA TouchMemberType ==
  ASSUME TypeOK, NEW n \in Node, TouchMember(n)
  PROVE member' \in [Node -> {"absent", "replica", "wait", "ready"}]
BY DEF TypeOK, TouchMember

LEMMA EndCycleType ==
  ASSUME TypeOK, NEW n \in Node, EndCycle(n)
  PROVE /\ pc' \in [Node -> Pc] /\ pc'[n] = "idle"
        /\ view' \in [Node -> View] /\ view'[n] = NoView
        /\ member' \in [Node -> {"absent", "replica", "wait", "ready"}]
        /\ \A k \in Node \ {n} : pc'[k] = pc[k] /\ view'[k] = view[k]
<1>1. Goto(n, "idle") /\ view' = [view EXCEPT ![n] = NoView] /\ TouchMember(n) BY DEF EndCycle
<1>2. "idle" \in Pc BY DEF Pc
<1> QED BY <1>1, <1>2, GotoType, TouchMemberType, NoViewType DEF TypeOK

LEMMA ExitType ==
  ASSUME TypeOK, NEW n \in Node, Exit(n)
  PROVE /\ up' \in [Node -> BOOLEAN] /\ asked' \in [Node -> BOOLEAN]
        /\ mem' \in [Node -> Memory] /\ mem'[n] = Mem0
        /\ pc' \in [Node -> Pc] /\ pc'[n] = "idle"
        /\ view' \in [Node -> View] /\ view'[n] = NoView
        /\ \A k \in Node \ {n} : pc'[k] = pc[k] /\ view'[k] = view[k] /\ mem'[k] = mem[k]
<1>1. "idle" \in Pc BY DEF Pc
<1>2. SetMem(n, Mem0) /\ Goto(n, "idle") /\ view' = [view EXCEPT ![n] = NoView]
      /\ up' = [up EXCEPT ![n] = FALSE] /\ asked' = [asked EXCEPT ![n] = FALSE]
  BY DEF Exit
<1>3. up' \in [Node -> BOOLEAN] /\ asked' \in [Node -> BOOLEAN] BY <1>2 DEF TypeOK
<1> QED BY <1>1, <1>2, <1>3, GotoType, SetMemType, NoViewType, Mem0Type DEF TypeOK

LEMMA ReleaseLeaderType ==
  ASSUME TypeOK, NEW n \in Node, ReleaseLeader(n)
  PROVE leader' \in Node \cup {None} /\ leader' \in {leader, None}
BY DEF TypeOK, ReleaseLeader

LEMMA InitializeType ==
  ASSUME TypeOK, NEW seen \in Nat, NEW sysid \in Nat, Initialize(seen, sysid)
  PROVE init' \in Nat
BY DEF TypeOK, Initialize

LEMMA EventType == ASSUME TypeOK, Event \/ Free PROVE events' \in 0..MaxEvents
BY NodeLifeAssumption DEF TypeOK, Event, Free

\* The memory of a node stays one, whatever part of it an action changes.
LEMMA RwType ==
  ASSUME NEW m \in Memory,
         NEW s \in {"initial", "checkpoint", "check", "need", "not_need", "success", "failed"}
  PROVE [m EXCEPT !.rw = s] \in Memory /\ [m EXCEPT !.rw = s].boot = m.boot
BY DEF Memory

LEMMA StatusType ==
  ASSUME NEW n, NEW l,
         NEW s \in {"initial", "checkpoint", "check", "need", "not_need", "success", "failed"}
  PROVE /\ Status(n, l, s)
             \in {"initial", "checkpoint", "check", "need", "not_need", "success", "failed"}
        /\ Trigger(s)
             \in {"initial", "checkpoint", "check", "need", "not_need", "success", "failed"}
BY DEF Status, CheckTimelineAndLsn, Trigger

LEMMA ViewInitType ==
  ASSUME NEW v \in View, NEW i \in Nat
  PROVE LET w == [v EXCEPT !.init = i] IN w \in View /\ w.init = i /\ w.leader = v.leader
BY DEF View

LEMMA FirstCycleType ==
  ASSUME NEW n, NEW m \in Memory, NEW busy
  PROVE FirstCycle(n, m, busy) \in Memory /\ FirstCycle(n, m, busy).boot = m.boot
BY DEF FirstCycle, Memory, Trigger

----------------------------------------------------------------------------
\* Most steps of a node leave the initialize key alone and give nobody a system that is
\* not the one of a leader.

OthersStay(n) ==
    \A k \in Node \ {n} :
        /\ pc'[k] = pc[k] /\ view'[k] = view[k] /\ job'[k] = job[k] /\ src'[k] = src[k]
        /\ mem'[k].boot = mem[k].boot /\ srv'[k] = srv[k] /\ disk'[k].sys = disk[k].sys

Quiet(n) ==
    /\ UNCHANGED init /\ (calm' => calm)
    /\ leader' \in {leader, None} \/ (leader' = n /\ pc'[n] = "idle" /\ (Valid(view[n].init) \/ pc[n] = "take"))
    /\ OthersStay(n)
    /\ \/ pc'[n] = pc[n] /\ view'[n] = view[n]
       \/ pc'[n] = "idle" /\ view'[n] = NoView /\ pc[n] # "moving"
    /\ src'[n] \in {src[n], NoView, view[n], Cluster}
    /\ mem'[n].boot => mem[n].boot
    /\ \/ disk'[n].sys = disk[n].sys
       \/ pc[n] = "idle" /\ ~Valid(disk'[n].sys)
       \/ pc[n] = "idle" /\ src[n].leader # None /\ disk'[n].sys = disk[src[n].leader].sys

LEMMA OthersJobs ==
  ASSUME Inv, NEW n \in Node, OthersStay(n), JobOK(n)' PROVE JobInv'
<1> SUFFICES ASSUME NEW k \in Node PROVE JobOK(k)' BY DEF JobInv
<1>1. CASE k = n BY <1>1
<1>2. CASE k # n BY <1>2 DEF Inv, JobInv, JobOK, OthersStay
<1> QED BY <1>1, <1>2

LEMMA QuietStep ==
  ASSUME Inv, NEW n \in Node, Quiet(n), JobOK(n)'
  PROVE JobInv' /\ (calm' => KeyInv' /\ ViewInv')
<1>1. JobInv' BY OthersJobs DEF Quiet
<1>2. ASSUME calm' PROVE KeyInv' /\ ViewInv'
  <2>1. KeyInv /\ ViewInv BY <1>2 DEF Inv, Quiet
  <2>2. ASSUME NEW k \in Node PROVE /\ Bootstraps(k)' => Bootstraps(k)
                                    /\ Moving(k)' <=> Moving(k)
    <3>1. CASE k = n BY <3>1 DEF Quiet, Bootstraps, Moving
    <3>2. CASE k # n BY <3>2 DEF Quiet, OthersStay, Bootstraps, Moving
    <3> QED BY <3>1, <3>2
  <2>3. ASSUME NEW k \in Node, Holds(k)' PROVE Holds(k) \/ (Valid(init) /\ disk'[k].sys = init)
    <3>1. CASE k = n
      <4>1. CASE src[n].leader # None /\ disk'[n].sys = disk[src[n].leader].sys
        <5>1. src[n].leader \in Node BY <4>1 DEF Inv, TypeOK, View
        <5>2. Valid(init) /\ ~Moving(src[n].leader) BY <2>1, <4>1 DEF ViewInv, Leads
        <5>3. Valid(disk[src[n].leader].sys) BY <2>3, <3>1, <4>1 DEF Holds
        <5> QED BY <2>1, <3>1, <4>1, <5>1, <5>2, <5>3 DEF KeyInv, Holds
      <4>2. CASE disk'[n].sys = disk[n].sys BY <2>2, <2>3, <3>1, <4>2 DEF Holds
      <4> QED BY <2>3, <3>1, <4>1, <4>2 DEF Quiet, Holds
    <3>2. CASE k # n BY <2>2, <2>3, <3>2 DEF Quiet, OthersStay, Holds
    <3> QED BY <3>1, <3>2
  <2>4. KeyInv'
    <3>1. init' = init /\ (calm' => calm) BY DEF Quiet
    <3>2. \A k, m \in Node : Bootstraps(k)' /\ Holds(m)' => k = m
      BY <2>1, <2>2, <2>3 DEF KeyInv, Valid, InProgress
    <3>3. \A k \in Node : Holds(k)' => init' # NoKey /\ (Valid(init') => disk'[k].sys = init')
      <4> SUFFICES ASSUME NEW k \in Node, Holds(k)'
                   PROVE init' # NoKey /\ (Valid(init') => disk'[k].sys = init')
        OBVIOUS
      <4>1. CASE Valid(init) /\ disk'[k].sys = init BY <3>1, <4>1 DEF Valid, NoKey
      <4>2. CASE Holds(k) /\ disk'[k].sys = disk[k].sys
        BY <2>1, <3>1, <4>2 DEF KeyInv
      <4>3. CASE k = n /\ disk'[k].sys # disk[k].sys
        <5>1. src[n].leader # None /\ disk'[n].sys = disk[src[n].leader].sys
          BY <4>3 DEF Quiet, Holds
        <5>2. src[n].leader \in Node BY <5>1 DEF Inv, TypeOK, View
        <5>3. Valid(init) /\ ~Moving(src[n].leader) BY <2>1, <5>1 DEF ViewInv, Leads
        <5>4. Valid(disk[src[n].leader].sys) BY <4>3, <5>1 DEF Holds
        <5> QED BY <2>1, <3>1, <4>3, <5>1, <5>2, <5>3, <5>4 DEF KeyInv, Holds, Valid, NoKey
      <4> QED BY <2>3, <4>1, <4>2, <4>3 DEF Quiet, OthersStay
    <3>4. \A k, m \in Node : Holds(k)' /\ Holds(m)' /\ ~Valid(init') => k = m
      BY <2>1, <2>3, <3>1 DEF KeyInv
    <3> QED BY <2>1, <2>2, <3>1, <3>2, <3>3, <3>4 DEF KeyInv
  <2>5. ViewInv'
    <3>1. init' = init BY DEF Quiet
    <3>2. \A l \in Node \cup {None} : Leads(l) => Leads(l)'
      BY <2>2, <3>1 DEF Leads
    <3>3. Leads(leader)'
      <4>1. CASE leader' \in {leader, None} BY <2>1, <3>2, <4>1 DEF Inv, TypeOK, ViewInv, Leads
      <4>2. CASE leader' = n /\ pc'[n] = "idle" /\ (Valid(view[n].init) \/ pc[n] = "take")
        BY <2>1, <3>1, <4>2 DEF ViewInv, Leads, Moving
      <4> QED BY <4>1, <4>2 DEF Quiet
    <3>4. ASSUME NEW k \in Node PROVE Leads(view[k].leader)' /\ Leads(src[k].leader)'
      <4>1. Leads(view[k].leader) /\ Leads(src[k].leader) /\ Leads(leader) BY <2>1 DEF ViewInv
      <4>2. /\ view[k].leader \in Node \cup {None} /\ src[k].leader \in Node \cup {None}
            /\ leader \in Node \cup {None}
        BY DEF Inv, TypeOK, View
      <4>3. view'[k] \in {view[k], NoView} /\ src'[k] \in {src[k], NoView, view[k], Cluster}
        BY DEF Quiet, OthersStay
      <4>4. Cluster.leader = leader /\ NoView.leader = None
        BY ClusterType, NoViewType DEF Inv
      <4>5. Leads(None)' BY DEF Leads
      <4> QED BY <3>2, <4>1, <4>2, <4>3, <4>4, <4>5 DEF Leads
    <3>5. ASSUME NEW k \in Node
          PROVE /\ Valid(view'[k].init) => view'[k].init = init'
                /\ view'[k].leader # None => Valid(view'[k].init)
      <4>1. view'[k] \in {view[k], NoView} BY DEF Quiet, OthersStay
      <4> QED BY <2>1, <3>1, <4>1, NoViewType DEF ViewInv, Valid, NoKey
    <3>6. ASSUME NEW k \in Node
          PROVE /\ (pc'[k] = "loaded" /\ mem'[k].boot) \/ pc'[k] = "publish"
                      => view'[k].init = InProgress
                /\ pc'[k] = "loaded" /\ Valid(disk'[k].sys) => view'[k].init # NoKey
                /\ pc'[k] = "take" => Valid(init')
      <4>1. CASE k = n
        <5>1. CASE pc'[n] = pc[n] /\ view'[n] = view[n]
          <6>1. pc[n] # "idle" => disk'[n].sys = disk[n].sys BY DEF Quiet
          <6> QED BY <2>1, <3>1, <4>1, <5>1, <6>1 DEF Quiet, ViewInv
        <5>2. CASE pc'[n] = "idle" BY <4>1, <5>2
        <5> QED BY <5>1, <5>2 DEF Quiet
      <4>2. CASE k # n BY <2>1, <3>1, <4>2 DEF Quiet, OthersStay, ViewInv
      <4> QED BY <4>1, <4>2
    <3> QED BY <3>3, <3>4, <3>5, <3>6 DEF ViewInv
  <2> QED BY <2>4, <2>5
<1> QED BY <1>1, <1>2

----------------------------------------------------------------------------
\* The steps of the HA loop that leave the initialize key alone.

LEMMA LongActionStep ==
  ASSUME Inv, NEW n \in Node, HandleLongActionInProgress(n) PROVE Inv'
<1>1. TypeOK /\ JobOK(n) BY DEF Inv, JobInv
<1>2. TouchMember(n) /\ UNCHANGED <<init, leader, node, mem, loop, bg, asked, aux>>
  BY DEF HandleLongActionInProgress
<1>3. TypeOK' BY <1>1, <1>2, TouchMemberType DEF TypeOK, node, loop, bg, aux
<1>4. Quiet(n) BY <1>2 DEF Quiet, OthersStay, node, loop, bg, aux
<1>5. JobOK(n)' BY <1>1, <1>2 DEF JobOK, node, loop, bg, aux
<1> QED BY <1>3, <1>4, <1>5, QuietStep DEF Inv

LEMMA PostRecoverStep == ASSUME Inv, NEW n \in Node, PostRecover(n) PROVE Inv'
<1>1. TypeOK /\ JobOK(n) /\ mem[n] \in Memory BY DEF Inv, JobInv, TypeOK
<1>2. pc[n] = "loaded" /\ UNCHANGED <<init, up, disk, bg, asked, aux>>
  BY DEF PostRecover, Loaded
<1>3. CASE srv[n] = "down"
  <2>1. /\ SetMem(n, [mem[n] EXCEPT !.recovering = FALSE]) /\ EndCycle(n) /\ UNCHANGED srv
        /\ ReleaseLeader(n) \/ UNCHANGED leader
    BY <1>3 DEF PostRecover
  <2>2. [mem[n] EXCEPT !.recovering = FALSE] \in Memory BY <1>1 DEF Memory
  <2>3. [mem[n] EXCEPT !.recovering = FALSE].boot = mem[n].boot BY <1>1 DEF Memory
  <2>4. leader' \in Node \cup {None} /\ leader' \in {leader, None}
    BY <1>1, <2>1, ReleaseLeaderType DEF TypeOK
  <2>5. /\ mem' \in [Node -> Memory] /\ mem'[n].boot = mem[n].boot
        /\ \A k \in Node \ {n} : mem'[k] = mem[k]
    BY <1>1, <2>1, <2>2, <2>3, SetMemType
  <2>6. TypeOK' BY <1>1, <1>2, <2>1, <2>4, <2>5, EndCycleType DEF TypeOK, bg, aux
  <2>7. Quiet(n)
    BY <1>1, <1>2, <2>1, <2>4, <2>5, EndCycleType DEF Quiet, OthersStay, bg, aux
  <2>8. JobOK(n)' BY <1>1, <1>2, <2>1, <2>5, EndCycleType DEF JobOK, bg
  <2> QED BY <2>6, <2>7, <2>8, QuietStep DEF Inv
<1>4. CASE srv[n] # "down"
  <2>1. PICK s \in {"initial", mem[n].rw}, t \in {"none", mem[n].task} :
           SetMem(n, [mem[n] EXCEPT !.recovering = FALSE, !.tried = FALSE, !.rw = s, !.task = t])
           /\ UNCHANGED <<leader, member, loop, srv>>
    BY <1>4 DEF PostRecover
  <2> DEFINE m == [mem[n] EXCEPT !.recovering = FALSE, !.tried = FALSE, !.rw = s, !.task = t]
  <2>2. m \in Memory /\ m.boot = mem[n].boot BY <1>1 DEF Memory
  <2>3. SetMem(n, m) BY <2>1
  <2> HIDE DEF m
  <2>4. /\ mem' \in [Node -> Memory] /\ mem'[n].boot = mem[n].boot
        /\ \A k \in Node \ {n} : mem'[k] = mem[k]
    BY <1>1, <2>2, <2>3, SetMemType
  <2>5. TypeOK' BY <1>1, <1>2, <2>1, <2>4 DEF TypeOK, loop, bg, aux
  <2>6. Quiet(n) BY <1>1, <1>2, <2>1, <2>4 DEF Quiet, OthersStay, loop, bg, aux
  <2>7. JobOK(n)' BY <1>1, <1>2, <2>1, <2>4 DEF JobOK, loop, bg
  <2> QED BY <2>5, <2>6, <2>7, QuietStep DEF Inv
<1> QED BY <1>3, <1>4

LEMMA InvalidSystemIdStep == ASSUME Inv, NEW n \in Node, InvalidSystemId(n) PROVE Inv'
<1>1. TypeOK /\ JobOK(n) BY DEF Inv, JobInv
<1>2. /\ pc[n] = "loaded" /\ EndCycle(n)
      /\ UNCHANGED <<init, leader, node, mem, bg, asked, aux>>
  BY DEF InvalidSystemId, Rest, Loaded
<1>3. TypeOK' BY <1>1, <1>2, EndCycleType DEF TypeOK, node, bg, aux
<1>4. Quiet(n) BY <1>1, <1>2, EndCycleType DEF Quiet, OthersStay, node, bg, aux
<1>5. JobOK(n)' BY <1>1, <1>2, EndCycleType DEF JobOK, node, bg
<1> QED BY <1>3, <1>4, <1>5, QuietStep DEF Inv

LEMMA SetSrvType ==
  ASSUME TypeOK, NEW n \in Node, NEW s \in {"down", "replica", "master"}, SetSrv(n, s)
  PROVE /\ srv' \in [Node -> {"down", "replica", "master"}] /\ srv'[n] = s
        /\ \A k \in Node \ {n} : srv'[k] = srv[k]
BY DEF TypeOK, SetSrv

\* The control file changes, the identifier and the log do not.
LEMMA CtlType ==
  ASSUME NEW d \in Disk, NEW c \in Nat
  PROVE LET e == [d EXCEPT !.ctl = c] IN
        e \in Disk /\ e.sys = d.sys /\ e.wal = d.wal /\ e.ctl = c /\ e.state = d.state
BY DEF Disk

LEMMA StateType ==
  ASSUME NEW d \in Disk, NEW s \in {"clean", "standby", "dirty"}
  PROVE LET e == [d EXCEPT !.state = s] IN
        e \in Disk /\ e.sys = d.sys /\ e.wal = d.wal /\ e.ctl = d.ctl /\ e.state = s
BY DEF Disk

\* A checkpoint: of a shutdown, or of the start of a primary.
Checkpoints(d, s, c) == [d EXCEPT !.state = s, !.ctl = c]

LEMMA CheckpointsType ==
  ASSUME NEW d \in Disk, NEW s \in {"clean", "standby", "dirty"}, NEW c \in Nat
  PROVE /\ Checkpoints(d, s, c) \in Disk
        /\ Checkpoints(d, s, c).sys = d.sys /\ Checkpoints(d, s, c).wal = d.wal
        /\ Checkpoints(d, s, c).ctl = c /\ Checkpoints(d, s, c).state = s
BY DEF Disk, Checkpoints

\* The control file of a clean shutdown.
LEMMA CleanType ==
  ASSUME TypeOK, NEW n \in Node
  PROVE LET c == Checkpoints(disk[n], "clean", Tl(n)) IN
        /\ c \in Disk /\ c.wal = disk[n].wal /\ c.sys = disk[n].sys
        /\ c.state = "clean" /\ c.ctl = Tl(n)
<1> DEFINE d == disk[n]
           t == Tl(n)
<1>1. d \in Disk BY DEF TypeOK
<1>2. t \in Nat BY TlType
<1> HIDE DEF d, t
<1>3. /\ Checkpoints(d, "clean", t) \in Disk
      /\ Checkpoints(d, "clean", t).sys = d.sys /\ Checkpoints(d, "clean", t).wal = d.wal
      /\ Checkpoints(d, "clean", t).ctl = t /\ Checkpoints(d, "clean", t).state = "clean"
  BY <1>1, <1>2, CheckpointsType
<1> QED BY <1>3 DEF d, t

\* A shutdown writes what the log says into the control file.
LEMMA ShutDownType ==
  ASSUME TypeOK, NEW n \in Node, ShutDown(n)
  PROVE /\ srv' \in [Node -> {"down", "replica", "master"}] /\ srv'[n] = "down"
        /\ disk' \in [Node -> Disk] /\ \A k \in Node : Len(disk'[k].wal) <= MaxWal
        /\ \A k \in Node : disk'[k].wal = disk[k].wal /\ disk'[k].sys = disk[k].sys
        /\ \A k \in Node \ {n} : srv'[k] = srv[k] /\ disk'[k] = disk[k]
        /\ IF srv[n] = "down" THEN disk'[n] = disk[n]
           ELSE disk'[n].state = "clean" /\ disk'[n].ctl = Tl(n)
<1> DEFINE c == Checkpoints(disk[n], "clean", Tl(n))
           d == IF srv[n] = "down" THEN disk[n] ELSE c
<1>1. disk[n] \in Disk /\ Len(disk[n].wal) <= MaxWal BY DEF TypeOK
<1>2. c \in Disk /\ c.wal = disk[n].wal /\ c.sys = disk[n].sys
      /\ c.state = "clean" /\ c.ctl = Tl(n)
  BY CleanType
<1>3. SetSrv(n, "down") /\ SetDisk(n, d) BY DEF ShutDown, Checkpoints
<1> HIDE DEF c
<1>4. d \in Disk /\ d.wal = disk[n].wal /\ d.sys = disk[n].sys
      /\ IF srv[n] = "down" THEN d = disk[n] ELSE d.state = "clean" /\ d.ctl = Tl(n)
  BY <1>1, <1>2
<1> HIDE DEF d
<1>5. Len(d.wal) <= MaxWal BY <1>1, <1>4
<1> QED BY <1>3, <1>4, <1>5, SetDiskType, SetSrvType

LEMMA MismatchStep == ASSUME Inv, NEW n \in Node, Mismatch(n) PROVE Inv'
<1>1. TypeOK /\ JobOK(n) BY DEF Inv, JobInv
<1>2. /\ pc[n] = "loaded" /\ ShutDown(n)
      /\ ReleaseLeader(n) /\ Exit(n) /\ UNCHANGED <<init, member, bg, aux>>
  BY DEF Mismatch, Rest, Loaded
<1>3. /\ disk' \in [Node -> Disk] /\ \A k \in Node : disk'[k].wal = disk[k].wal
      /\ \A k \in Node : disk'[k].sys = disk[k].sys
  BY <1>1, <1>2, ShutDownType
<1>4. /\ srv' \in [Node -> {"down", "replica", "master"}] /\ srv'[n] = "down"
      /\ \A k \in Node \ {n} : srv'[k] = srv[k]
  BY <1>1, <1>2, ShutDownType
<1>5. TypeOK' BY <1>1, <1>2, <1>3, <1>4, ExitType, ReleaseLeaderType DEF TypeOK, bg, aux
<1>6. ~mem'[n].boot BY <1>1, <1>2, ExitType DEF Mem0
<1>7. Quiet(n)
  BY <1>1, <1>2, <1>3, <1>4, <1>6, ExitType, ReleaseLeaderType DEF Quiet, OthersStay, bg, aux
<1>8. JobOK(n)' BY <1>1, <1>2, <1>3, <1>4, <1>6, ExitType DEF JobOK, bg
<1> QED BY <1>5, <1>7, <1>8, QuietStep DEF Inv

\* What a member of the cluster does in a cycle: a part of its memory, at most a stop of its
\* server, and at most one long action.
Changes(n) ==
    /\ srv' \in [Node -> {"down", "replica", "master"}] /\ srv'[n] \in {srv[n], "down"}
    /\ disk' \in [Node -> Disk]
    /\ \A k \in Node : disk'[k].wal = disk[k].wal /\ disk'[k].sys = disk[k].sys
    /\ mem' \in [Node -> Memory] /\ mem'[n].boot = mem[n].boot
    /\ job' \in [Node -> Job] /\ src' \in [Node -> View]
    /\ \A k \in Node \ {n} : /\ srv'[k] = srv[k] /\ mem'[k] = mem[k]
                             /\ job'[k] = job[k] /\ src'[k] = src[k]
    /\ \/ job'[n] = "none" /\ src'[n] = src[n]
       \/ job'[n] \in {"start", "start standby", "promote", "crash recovery"} /\ src'[n] = NoView
       \/ /\ job'[n] \in {"rewind", "reinitialize"} /\ src'[n] \in {view[n], Cluster}
          /\ src'[n].leader # None

LEMMA CycleStep ==
  ASSUME Inv, NEW n \in Node, Member(n), Changes(n), EndCycle(n),
         UNCHANGED <<init, up, asked, how, systems, events, calm>>, former' \subseteq Node, stale' \subseteq Node,
         UNCHANGED leader \/ (leader' = n /\ Valid(view[n].init))
  PROVE Inv'
<1>1. TypeOK /\ JobOK(n) /\ pc[n] = "loaded" /\ Valid(disk[n].sys) /\ ~mem[n].boot
  BY DEF Inv, JobInv, Member, Rest, Loaded
<1>2. /\ srv' \in [Node -> {"down", "replica", "master"}] /\ disk' \in [Node -> Disk]
      /\ mem' \in [Node -> Memory] /\ job' \in [Node -> Job] /\ src' \in [Node -> View]
      /\ \A k \in Node : disk'[k].wal = disk[k].wal
  BY DEF Changes
<1>3. TypeOK' BY <1>1, <1>2, EndCycleType DEF TypeOK
<1>4. Quiet(n) BY <1>1, EndCycleType, ClusterType DEF Quiet, OthersStay, Changes
<1>5. JobOK(n)' BY <1>1, EndCycleType DEF JobOK, Changes
<1> QED BY <1>3, <1>4, <1>5, QuietStep DEF Inv

LEMMA DemoteChanges ==
  ASSUME Inv, NEW n \in Node, NEW l, Demote(n, l) PROVE Changes(n)
<1> DEFINE s == Trigger(mem[n].rw)
           m == [mem[n] EXCEPT !.rw = s]
           f == FirstCycle(n, m, TRUE)
<1>1. TypeOK /\ mem[n] \in Memory BY DEF Inv, TypeOK
<1>2. mem[n].rw \in {"initial", "checkpoint", "check", "need", "not_need", "success", "failed"}
  BY <1>1 DEF Memory
<1>3. m \in Memory /\ m.boot = mem[n].boot BY <1>1, <1>2, RwType, StatusType
<1>4. SetMem(n, f) /\ Start(n, l) /\ SetSrv(n, "down") /\ UNCHANGED disk
  BY DEF Demote
<1> HIDE DEF m
<1>5. f \in Memory /\ f.boot = mem[n].boot BY <1>3, FirstCycleType
<1> HIDE DEF f
<1>6. mem' \in [Node -> Memory] /\ mem'[n] = f /\ \A k \in Node \ {n} : mem'[k] = mem[k]
  BY <1>1, <1>4, <1>5, SetMemType
<1>7. /\ disk' \in [Node -> Disk]
      /\ \A k \in Node : disk'[k].wal = disk[k].wal /\ disk'[k].sys = disk[k].sys
  BY <1>1, <1>4 DEF TypeOK
<1>8. /\ srv' \in [Node -> {"down", "replica", "master"}] /\ srv'[n] = "down"
      /\ \A k \in Node \ {n} : srv'[k] = srv[k]
  BY <1>1, <1>4 DEF TypeOK, SetSrv
<1>9. /\ job' \in [Node -> Job] /\ src' \in [Node -> View]
      /\ job'[n] \in {"start", "start standby"} /\ src'[n] = NoView
      /\ \A k \in Node \ {n} : job'[k] = job[k] /\ src'[k] = src[k]
  BY <1>1, <1>4, StartType
<1> QED BY <1>5, <1>6, <1>7, <1>8, <1>9 DEF Changes

\* The server and its data are left as they are.
LEMMA SameServer ==
  ASSUME Inv, NEW n \in Node, UNCHANGED <<srv, disk>>
  PROVE /\ srv' \in [Node -> {"down", "replica", "master"}] /\ disk' \in [Node -> Disk]
        /\ srv'[n] = srv[n]
        /\ \A k \in Node : /\ srv'[k] = srv[k] /\ disk'[k].wal = disk[k].wal
                           /\ disk'[k].sys = disk[k].sys
BY DEF Inv, TypeOK

LEMMA FollowChanges ==
  ASSUME Inv, NEW n \in Node, JobOK(n), pc[n] = "loaded",
         NEW c \in {view[n], Cluster}, Follow(n, c)
  PROVE Changes(n)
<1> DEFINE s == mem[n].rw
           t == Status(n, c.leader, s)
           m == [mem[n] EXCEPT !.rw = t]
           f == FirstCycle(n, m, FALSE)
           d == [mem[n] EXCEPT !.rw = "need"]
<1>1. TypeOK /\ mem[n] \in Memory /\ c \in View BY ClusterType DEF Inv, TypeOK
<1>2. s \in {"initial", "checkpoint", "check", "need", "not_need", "success", "failed"}
  BY <1>1 DEF Memory
<1>3. m \in Memory /\ m.boot = mem[n].boot
  <2>1. t \in {"initial", "checkpoint", "check", "need", "not_need", "success", "failed"}
    BY <1>2 DEF Status, CheckTimelineAndLsn
  <2> HIDE DEF t
  <2> QED BY <1>1, <2>1, RwType
<1>4. d \in Memory /\ d.boot = mem[n].boot BY <1>1, RwType
<1>5. UNCHANGED <<srv, disk>> BY DEF Follow
<1>6. CASE Possible(n, c.leader, s)
  <2>1. SetMem(n, d) /\ Repair(n, c) BY <1>6 DEF Follow
  <2> HIDE DEF d
  <2>2. mem' \in [Node -> Memory] /\ mem'[n] = d /\ \A k \in Node \ {n} : mem'[k] = mem[k]
    BY <1>1, <1>4, <2>1, SetMemType
  <2>3. c.leader # None BY <1>6 DEF Possible
  <2>4. /\ job' \in [Node -> Job] /\ src' \in [Node -> View]
        /\ job'[n] \in {"rewind", "reinitialize"} /\ src'[n] = c
        /\ \A k \in Node \ {n} : job'[k] = job[k] /\ src'[k] = src[k]
    BY <1>1, <2>1, RepairType
  <2> QED BY <1>4, <1>5, <2>2, <2>3, <2>4, SameServer DEF Changes
<1>7. CASE ~Possible(n, c.leader, s)
  <2>1. SetMem(n, f) /\ UNCHANGED <<job, src>> BY <1>7 DEF Follow, bg
  <2> HIDE DEF m
  <2>2. f \in Memory /\ f.boot = mem[n].boot BY <1>3, FirstCycleType
  <2> HIDE DEF f
  <2>3. mem' \in [Node -> Memory] /\ mem'[n] = f /\ \A k \in Node \ {n} : mem'[k] = mem[k]
    BY <1>1, <2>1, <2>2, SetMemType
  <2>4. job[n] = "none" BY DEF JobOK
  <2>5. job' \in [Node -> Job] /\ src' \in [Node -> View] BY <1>1, <2>1 DEF TypeOK
  <2> QED BY <1>5, <2>1, <2>2, <2>3, <2>4, <2>5, SameServer DEF Changes
<1> QED BY <1>6, <1>7

LEMMA EnforceChanges ==
  ASSUME Inv, NEW n \in Node, JobOK(n), pc[n] = "loaded", EnforceMasterRole(n)
  PROVE Changes(n)
<1> DEFINE f == FirstCycle(n, mem[n], FALSE)
<1>1. TypeOK /\ mem[n] \in Memory /\ UNCHANGED <<srv, disk>> BY DEF Inv, TypeOK, EnforceMasterRole
<1>2. CASE srv[n] = "master"
  <2>1. SetMem(n, f) /\ UNCHANGED <<job, src>> BY <1>2 DEF EnforceMasterRole, bg
  <2>2. f \in Memory /\ f.boot = mem[n].boot BY <1>1, FirstCycleType
  <2> HIDE DEF f
  <2>3. mem' \in [Node -> Memory] /\ mem'[n] = f /\ \A k \in Node \ {n} : mem'[k] = mem[k]
    BY <1>1, <2>1, <2>2, SetMemType
  <2>4. job[n] = "none" BY DEF JobOK
  <2>5. job' \in [Node -> Job] /\ src' \in [Node -> View] BY <1>1, <2>1 DEF TypeOK
  <2> QED BY <1>1, <2>1, <2>2, <2>3, <2>4, <2>5, SameServer DEF Changes
<1>3. CASE srv[n] # "master"
  <2>1. RunAsync(n, "promote", NoView) /\ UNCHANGED mem BY <1>3 DEF EnforceMasterRole
  <2>2. "promote" \in Job BY DEF Job
  <2>3. /\ job' \in [Node -> Job] /\ src' \in [Node -> View]
        /\ job'[n] = "promote" /\ src'[n] = NoView
        /\ \A k \in Node \ {n} : job'[k] = job[k] /\ src'[k] = src[k]
    BY <1>1, <2>1, <2>2, NoViewType, RunAsyncType
  <2>4. mem' \in [Node -> Memory] BY <1>1, <2>1 DEF TypeOK
  <2> QED BY <1>1, <2>1, <2>3, <2>4, SameServer DEF Changes
<1> QED BY <1>2, <1>3

LEMMA RecoverStep == ASSUME Inv, NEW n \in Node, Recover(n) PROVE Inv'
<1> DEFINE m == mem[n]
           s == IF leader # n /\ ~Executed(m.rw) THEN Trigger(m.rw) ELSE m.rw
           t == Status(n, leader, s)
           tried == [m EXCEPT !.tried = TRUE]
           need == [m EXCEPT !.rw = "need"]
           started == [m EXCEPT !.rw = t, !.recovering = TRUE]
<1>1. /\ TypeOK /\ JobOK(n) /\ mem[n] \in Memory /\ pc[n] = "loaded"
      /\ Member(n) /\ EndCycle(n)
      /\ UNCHANGED <<init, leader, up, srv, disk, asked, how, systems, events, calm>>
      /\ former' \subseteq Node /\ stale' \subseteq Node
  BY DEF Inv, JobInv, TypeOK, Recover, Member, Rest, Loaded, node
<1>2. t \in {"initial", "checkpoint", "check", "need", "not_need", "success", "failed"}
  BY <1>1 DEF Memory, Status, CheckTimelineAndLsn, Trigger
<1>3. \/ SetMem(n, tried) /\ RunAsync(n, "crash recovery", NoView)
      \/ Possible(n, leader, s) /\ SetMem(n, need) /\ Repair(n, Cluster)
      \/ SetMem(n, started) /\ Start(n, leader)
  BY DEF Recover
<1> HIDE DEF s, t
<1>4. Changes(n)
  <2>1. CASE SetMem(n, tried) /\ RunAsync(n, "crash recovery", NoView)
    <3>1. tried \in Memory /\ tried.boot = mem[n].boot BY <1>1 DEF Memory
    <3> HIDE DEF tried
    <3>2. mem' \in [Node -> Memory] /\ mem'[n] = tried /\ \A k \in Node \ {n} : mem'[k] = mem[k]
      BY <1>1, <2>1, <3>1, SetMemType
    <3>3. "crash recovery" \in Job BY DEF Job
    <3>4. /\ job' \in [Node -> Job] /\ src' \in [Node -> View]
          /\ job'[n] = "crash recovery" /\ src'[n] = NoView
          /\ \A k \in Node \ {n} : job'[k] = job[k] /\ src'[k] = src[k]
      BY <1>1, <2>1, <3>3, NoViewType, RunAsyncType
    <3> QED BY <1>1, <3>1, <3>2, <3>4, SameServer DEF Changes
  <2>2. CASE Possible(n, leader, s) /\ SetMem(n, need) /\ Repair(n, Cluster)
    <3>1. need \in Memory /\ need.boot = mem[n].boot BY <1>1, RwType
    <3> HIDE DEF need
    <3>2. mem' \in [Node -> Memory] /\ mem'[n] = need /\ \A k \in Node \ {n} : mem'[k] = mem[k]
      BY <1>1, <2>2, <3>1, SetMemType
    <3>3. Cluster.leader # None /\ Cluster \in View BY <1>1, <2>2, ClusterType DEF Possible
    <3>4. /\ job' \in [Node -> Job] /\ src' \in [Node -> View]
          /\ job'[n] \in {"rewind", "reinitialize"} /\ src'[n] = Cluster
          /\ \A k \in Node \ {n} : job'[k] = job[k] /\ src'[k] = src[k]
      BY <1>1, <2>2, <3>3, RepairType
    <3> QED BY <1>1, <3>1, <3>2, <3>3, <3>4, SameServer DEF Changes
  <2>3. CASE SetMem(n, started) /\ Start(n, leader)
    <3>1. started \in Memory /\ started.boot = mem[n].boot
      <4>1. [m EXCEPT !.rw = t] \in Memory /\ [m EXCEPT !.rw = t].boot = m.boot
        BY <1>1, <1>2, RwType
      <4>2. started = [[m EXCEPT !.rw = t] EXCEPT !.recovering = TRUE] OBVIOUS
      <4> DEFINE w == [m EXCEPT !.rw = t]
      <4> HIDE DEF w
      <4>3. [w EXCEPT !.recovering = TRUE] \in Memory /\ [w EXCEPT !.recovering = TRUE].boot = w.boot
        BY <4>1 DEF Memory, w
      <4> QED BY <4>1, <4>2, <4>3 DEF w
    <3> HIDE DEF started
    <3>2. mem' \in [Node -> Memory] /\ mem'[n] = started /\ \A k \in Node \ {n} : mem'[k] = mem[k]
      BY <1>1, <2>3, <3>1, SetMemType
    <3>3. /\ job' \in [Node -> Job] /\ src' \in [Node -> View]
          /\ job'[n] \in {"start", "start standby"} /\ src'[n] = NoView
          /\ \A k \in Node \ {n} : job'[k] = job[k] /\ src'[k] = src[k]
      BY <1>1, <2>3, StartType
    <3> QED BY <1>1, <3>1, <3>2, <3>3, SameServer DEF Changes
  <2> QED BY <1>3, <2>1, <2>2, <2>3
<1> QED BY <1>1, <1>4, CycleStep

LEMMA LeadStep == ASSUME Inv, NEW n \in Node, Lead(n) PROVE Inv'
<1> DEFINE m == EnsureCheckpointAfterPromote(mem[n])
           f == FirstCycle(n, m, FALSE)
<1>1. /\ TypeOK /\ JobOK(n) /\ mem[n] \in Memory /\ pc[n] = "loaded"
      /\ Member(n) /\ EndCycle(n)
      /\ UNCHANGED <<init, leader, up, asked, how, systems, events, calm>>
      /\ former' \subseteq Node /\ stale' \subseteq Node
  BY DEF Inv, JobInv, TypeOK, Lead, Demote, EnforceMasterRole, Member, Rest, Loaded
<1>2. Changes(n)
  <2>1. CASE Demote(n, leader) BY <2>1, DemoteChanges
  <2>2. CASE EnforceMasterRole(n) BY <1>1, <2>2, EnforceChanges
  <2>3. CASE UNCHANGED <<srv, disk, mem, bg>>
    <3>1. job[n] = "none" BY <1>1 DEF JobOK
    <3>2. mem' \in [Node -> Memory] /\ job' \in [Node -> Job] /\ src' \in [Node -> View]
      BY <1>1, <2>3 DEF TypeOK, bg
    <3> QED BY <2>3, <3>1, <3>2, SameServer DEF Changes, bg
  <2>4. CASE SetMem(n, f) /\ UNCHANGED <<srv, disk, bg>>
    <3>1. m \in Memory /\ m.boot = mem[n].boot
      BY <1>1 DEF EnsureCheckpointAfterPromote, Memory
    <3> HIDE DEF m
    <3>2. f \in Memory /\ f.boot = mem[n].boot BY <3>1, FirstCycleType
    <3> HIDE DEF f
    <3>3. mem' \in [Node -> Memory] /\ mem'[n] = f /\ \A k \in Node \ {n} : mem'[k] = mem[k]
      BY <1>1, <2>4, <3>2, SetMemType
    <3>4. job[n] = "none" BY <1>1 DEF JobOK
    <3>5. job' \in [Node -> Job] /\ src' \in [Node -> View] BY <1>1, <2>4 DEF TypeOK, bg
    <3> QED BY <2>4, <3>2, <3>3, <3>4, <3>5, SameServer DEF Changes, bg
  <2> QED BY <2>1, <2>2, <2>3, <2>4 DEF Lead
<1> QED BY <1>1, <1>2, CycleStep

LEMMA FollowLeaderStep == ASSUME Inv, NEW n \in Node, FollowLeader(n) PROVE Inv'
<1>1. /\ TypeOK /\ JobOK(n) /\ pc[n] = "loaded" /\ Member(n) /\ EndCycle(n)
      /\ UNCHANGED <<init, leader, up, asked, how, systems, events, calm>>
      /\ former' \subseteq Node /\ stale' \subseteq Node
      /\ Demote(n, view[n].leader) \/ Follow(n, view[n])
  BY DEF Inv, JobInv, TypeOK, FollowLeader, DemoteOrFollow, Demote, Follow, Member, Rest, Loaded
<1>2. Changes(n) BY <1>1, DemoteChanges, FollowChanges
<1> QED BY <1>1, <1>2, CycleStep

LEMMA RaceStep == ASSUME Inv, NEW n \in Node, Race(n) PROVE Inv'
<1>1. /\ TypeOK /\ JobOK(n) /\ pc[n] = "loaded" /\ Member(n) /\ EndCycle(n)
      /\ UNCHANGED <<init, up, asked, how, systems, events, calm>>
      /\ former' \subseteq Node /\ stale' \subseteq Node
      /\ \/ leader' = n /\ EnforceMasterRole(n)
         \/ UNCHANGED leader /\ (Demote(n, Cluster.leader) \/ Follow(n, Cluster))
  BY DEF Inv, JobInv, TypeOK, Race, DemoteOrFollow, Demote, Follow, EnforceMasterRole, Member, Rest, Loaded
<1>2. Valid(view[n].init) BY DEF Race, Member
<1>3. Changes(n) BY <1>1, DemoteChanges, FollowChanges, EnforceChanges
<1> QED BY <1>1, <1>2, <1>3, CycleStep

----------------------------------------------------------------------------
\* The steps around the initialize key.

LEMMA LoadStep == ASSUME Inv, NEW n \in Node, Load(n) PROVE Inv'
<1>1. TypeOK /\ JobOK(n) /\ pc[n] = "idle" /\ job[n] = "none" BY DEF Inv, JobInv, Load
<1>2. /\ view' = [view EXCEPT ![n] = Cluster] /\ Goto(n, "loaded")
      /\ UNCHANGED <<init, leader, member, up, srv, disk, mem, job, src, asked,
                     how, systems, events, calm, former>>
      /\ stale' = stale \ {n}
  BY DEF Load, dcs, node, bg
<1>3. "loaded" \in Pc BY DEF Pc
<1>4. pc' \in [Node -> Pc] /\ pc'[n] = "loaded" /\ \A k \in Node \ {n} : pc'[k] = pc[k]
  BY <1>1, <1>2, <1>3, GotoType
<1>5. view' \in [Node -> View] /\ view'[n] = Cluster /\ \A k \in Node \ {n} : view'[k] = view[k]
  BY <1>1, <1>2, ClusterType DEF TypeOK
<1>6. TypeOK' BY <1>1, <1>2, <1>4, <1>5 DEF TypeOK
<1>7. JobOK(n)' BY <1>1, <1>2, <1>4 DEF JobOK
<1>8. JobInv' BY <1>2, <1>4, <1>5, <1>7, OthersJobs DEF OthersStay
<1>9. ASSUME calm' PROVE KeyInv' /\ ViewInv'
  <2>1. KeyInv /\ ViewInv BY <1>2, <1>9 DEF Inv
  <2>2. \A k \in Node : /\ Bootstraps(k)' <=> Bootstraps(k)
                        /\ Holds(k)' <=> Holds(k)
                        /\ Moving(k)' <=> Moving(k)
    BY <1>1, <1>2, <1>4 DEF Bootstraps, Holds, Moving
  <2> init' = init /\ leader' = leader /\ disk' = disk /\ src' = src BY <1>2
  <2>3. KeyInv' BY <2>1, <2>2 DEF KeyInv
  <2>4. \A l \in Node \cup {None} : Leads(l) => Leads(l)' BY <2>2 DEF Leads
  <2>5. Leads(leader) /\ (leader = None \/ leader \in Node) BY <1>1, <2>1 DEF TypeOK, ViewInv
  <2>6. Cluster.leader = leader /\ Cluster.init = init BY <1>1, ClusterType
  <2>7. /\ mem[n].boot => init = InProgress
        /\ Valid(disk[n].sys) => init # NoKey
    BY <1>1, <2>1 DEF KeyInv, Bootstraps, Holds, Moving
  <2>8. ViewInv'
    <3>1. ASSUME NEW k \in Node, k # n
          PROVE /\ Leads(view[k].leader)' /\ Leads(src[k].leader)'
                /\ Valid(view[k].init)' => view'[k].init = init'
                /\ view'[k].leader # None => Valid(view'[k].init)
      <4>1. /\ view[k].leader = None \/ view[k].leader \in Node
            /\ src[k].leader = None \/ src[k].leader \in Node
        BY <1>1 DEF TypeOK, View
      <4>2. Leads(view[k].leader)' /\ Leads(src[k].leader)'
        BY <1>2, <1>5, <2>1, <2>4, <3>1, <4>1 DEF ViewInv, Leads
      <4> QED BY <1>2, <1>5, <2>1, <3>1, <4>2 DEF ViewInv
    <3>2. ASSUME NEW k \in Node, k # n
          PROVE /\ (pc'[k] = "loaded" /\ mem'[k].boot) \/ pc'[k] = "publish"
                      => view'[k].init = InProgress
                /\ pc'[k] = "loaded" /\ Valid(disk'[k].sys) => view'[k].init # NoKey
                /\ pc'[k] = "take" => Valid(init')
      BY <1>2, <1>4, <1>5, <2>1, <3>2 DEF ViewInv
    <3>3. Leads(src[n].leader)'
      <4>1. src[n].leader = None \/ src[n].leader \in Node BY <1>1 DEF TypeOK, View
      <4> QED BY <1>2, <2>1, <2>4, <4>1 DEF ViewInv, Leads
    <3>4. Leads(view[n].leader)' /\ Leads(leader)'
      BY <1>2, <1>5, <2>4, <2>5, <2>6 DEF Leads
    <3>5. /\ Valid(view'[n].init) => view'[n].init = init'
          /\ view'[n].leader # None => Valid(view'[n].init)
      BY <1>2, <1>5, <2>5, <2>6 DEF Leads
    <3>6. /\ (pc'[n] = "loaded" /\ mem'[n].boot) \/ pc'[n] = "publish" => view'[n].init = InProgress
          /\ pc'[n] = "loaded" /\ Valid(disk'[n].sys) => view'[n].init # NoKey
          /\ pc'[n] # "take"
      BY <1>2, <1>4, <1>5, <2>6, <2>7
    <3> QED BY <3>1, <3>2, <3>3, <3>4, <3>5, <3>6 DEF ViewInv
  <2> QED BY <2>3, <2>8
<1> QED BY <1>6, <1>8, <1>9 DEF Inv

LEMMA WriteSystemIdStep == ASSUME Inv, NEW n \in Node, WriteSystemId(n) PROVE Inv'
<1>1. TypeOK /\ JobOK(n) BY DEF Inv, JobInv
<1>2. /\ Initialize(view[n].init, disk[n].sys) /\ view' = [view EXCEPT ![n].init = disk[n].sys]
      /\ UNCHANGED <<leader, member, up, srv, disk, mem, pc, job, src, asked, aux>>
      /\ view[n].leader = n /\ ~Valid(view[n].init)
  BY DEF WriteSystemId, LacksSystemId, node, bg
<1>3. disk[n].sys \in Nat /\ view[n].init \in Nat BY <1>1 DEF TypeOK, Disk, View
<1>4. view' \in [Node -> View]
  <2>1. [view[n] EXCEPT !.init = disk[n].sys] \in View BY <1>1, <1>3, ViewInitType DEF TypeOK
  <2>2. view' = [view EXCEPT ![n] = [view[n] EXCEPT !.init = disk[n].sys]] BY <1>2
  <2> QED BY <1>1, <2>1, <2>2 DEF TypeOK
<1>5. TypeOK' BY <1>1, <1>2, <1>3, <1>4, InitializeType DEF TypeOK, aux
<1>6. ~calm
  <2>1. n # None BY NodeLifeAssumption
  <2> QED BY <1>2, <2>1 DEF Inv, ViewInv
<1>7. JobInv' BY <1>2 DEF Inv, JobInv, JobOK
<1> QED BY <1>2, <1>5, <1>6, <1>7 DEF Inv, aux

LEMMA PostBootstrapStep == ASSUME Inv, NEW n \in Node, PostBootstrap(n) PROVE Inv'
<1>1. /\ TypeOK /\ JobOK(n) /\ mem[n] \in Memory /\ pc[n] = "loaded" /\ mem[n].boot
      /\ UNCHANGED <<init, leader, up, srv, disk, asked, how, systems, calm, former, stale>>
  BY DEF Inv, JobInv, TypeOK, PostBootstrap, Loaded, node, hist
<1>2. CASE RunAsync(n, "post_bootstrap", NoView) /\ Free /\ UNCHANGED mem /\ EndCycle(n)
  <2>1. "post_bootstrap" \in Job BY DEF Job
  <2>2. /\ job' \in [Node -> Job] /\ src' \in [Node -> View]
        /\ job'[n] = "post_bootstrap" /\ src'[n] = NoView
        /\ \A k \in Node \ {n} : job'[k] = job[k] /\ src'[k] = src[k]
    BY <1>1, <1>2, <2>1, NoViewType, RunAsyncType
  <2>3. TypeOK' BY <1>1, <1>2, <2>2, EndCycleType, EventType DEF TypeOK
  <2>4. Quiet(n) BY <1>1, <1>2, <2>2, EndCycleType DEF Quiet, OthersStay
  <2>5. JobOK(n)' BY <1>1, <1>2, <2>2, EndCycleType DEF JobOK
  <2> QED BY <2>3, <2>4, <2>5, QuietStep DEF Inv
<1>3. CASE /\ UNCHANGED <<member, view, bg>> /\ (Event \/ Free)
           /\ \/ Goto(n, "cancel") /\ UNCHANGED mem
              \/ /\ SetMem(n, [mem[n] EXCEPT !.boot = FALSE]) /\ srv[n] # "down"
                 /\ Goto(n, "publish") \/ Goto(n, "cancel")
  <2>1. PICK label \in {"publish", "cancel"} : Goto(n, label)
    BY <1>3
  <2>2. label \in Pc BY DEF Pc
  <2>3. pc' \in [Node -> Pc] /\ pc'[n] = label /\ \A k \in Node \ {n} : pc'[k] = pc[k]
    BY <1>1, <2>1, <2>2, GotoType
  <2>4. /\ mem' \in [Node -> Memory] /\ \A k \in Node \ {n} : mem'[k] = mem[k]
        /\ pc'[n] = "publish" => ~mem'[n].boot /\ srv[n] # "down"
    <3>1. CASE UNCHANGED mem /\ Goto(n, "cancel")
      <4>1. pc'[n] = "cancel" BY <1>1, <3>1 DEF Goto, TypeOK
      <4> QED BY <1>1, <3>1, <4>1 DEF TypeOK
    <3>2. CASE SetMem(n, [mem[n] EXCEPT !.boot = FALSE]) /\ srv[n] # "down"
      <4> DEFINE m == [mem[n] EXCEPT !.boot = FALSE]
      <4>1. m \in Memory /\ ~m.boot BY <1>1 DEF Memory
      <4> HIDE DEF m
      <4>2. SetMem(n, m) BY <3>2 DEF m
      <4> QED BY <1>1, <3>2, <4>1, <4>2, SetMemType
    <3> QED BY <1>3, <3>1, <3>2
  <2>5. UNCHANGED <<init, leader, member, srv, disk, view, job, src, calm>> BY <1>1, <1>3 DEF bg
  <2>6. TypeOK' BY <1>1, <1>3, <2>3, <2>4, <2>5, EventType DEF TypeOK
  <2>7. JobOK(n)' BY <1>1, <2>3, <2>4, <2>5 DEF JobOK
  <2>8. JobInv' BY <2>3, <2>4, <2>5, <2>7, OthersJobs DEF OthersStay
  <2>9. ASSUME calm' PROVE KeyInv' /\ ViewInv'
    <3>1. KeyInv /\ ViewInv BY <2>5, <2>9 DEF Inv
    <3>2. ASSUME NEW k \in Node PROVE /\ Bootstraps(k)' => Bootstraps(k)
                                      /\ Holds(k)' <=> Holds(k)
                                      /\ Moving(k)' <=> Moving(k)
      BY <1>1, <2>3, <2>4, <2>5 DEF Bootstraps, Holds, Moving
    <3> init' = init /\ leader' = leader /\ disk' = disk /\ src' = src /\ view' = view BY <2>5
    <3>3. KeyInv' BY <3>1, <3>2 DEF KeyInv
    <3>4. \A l \in Node \cup {None} : Leads(l) => Leads(l)' BY <3>2 DEF Leads
    <3>5. ASSUME NEW k \in Node
          PROVE Leads(view[k].leader)' /\ Leads(src[k].leader)' /\ Leads(leader)'
      <4>1. view[k].leader \in Node \cup {None} /\ src[k].leader \in Node \cup {None}
            /\ leader \in Node \cup {None}
        BY <1>1 DEF TypeOK, View
      <4> QED BY <3>1, <3>4, <4>1 DEF ViewInv, Leads
    <3>6. ASSUME NEW k \in Node
          PROVE /\ (pc'[k] = "loaded" /\ mem'[k].boot) \/ pc'[k] = "publish"
                      => view'[k].init = InProgress
                /\ pc'[k] = "loaded" /\ Valid(disk'[k].sys) => view'[k].init # NoKey
                /\ pc'[k] = "take" => Valid(init')
      <4>1. CASE k = n BY <1>1, <2>3, <3>1, <4>1 DEF ViewInv
      <4>2. CASE k # n BY <2>3, <2>4, <3>1, <4>2 DEF ViewInv
      <4> QED BY <4>1, <4>2
    <3>7. ViewInv' BY <3>1, <3>5, <3>6 DEF ViewInv
    <3> QED BY <3>3, <3>7
  <2> QED BY <2>6, <2>8, <2>9 DEF Inv
<1> QED BY <1>2, <1>3 DEF PostBootstrap

\* Once the node that bootstraps has a system and the key says so, or gives up, nobody else
\* has one, leads or has seen a leader.
LEMMA Alone ==
  ASSUME Inv, KeyInv, ViewInv, NEW n \in Node, Bootstraps(n) \/ init = NoKey
  PROVE /\ leader = None /\ ~Valid(init)
        /\ \A k \in Node : /\ Bootstraps(k) \/ Holds(k) => k = n /\ Bootstraps(n)
                           /\ view[k].leader = None /\ src[k].leader = None
                           /\ ~Valid(view[k].init) /\ pc[k] # "take"
<1>1. ~Valid(init) BY DEF KeyInv, Valid, InProgress, NoKey
<1> QED BY <1>1 DEF KeyInv, ViewInv, Leads, InProgress, NoKey

LEMMA PublishSystemIdStep == ASSUME Inv, NEW n \in Node, PublishSystemId(n) PROVE Inv'
<1>1. /\ TypeOK /\ JobOK(n) /\ pc[n] = "publish" /\ disk[n].sys \in Nat /\ view[n].init \in Nat
      /\ UNCHANGED <<leader, member, up, srv, disk, mem, view, job, src, asked, aux>>
      /\ Initialize(view[n].init, disk[n].sys) /\ Goto(n, "take")
  BY DEF Inv, JobInv, TypeOK, PublishSystemId, node, bg, Disk, View
<1>2. "take" \in Pc BY DEF Pc
<1>3. pc' \in [Node -> Pc] /\ pc'[n] = "take" /\ \A k \in Node \ {n} : pc'[k] = pc[k]
  BY <1>1, <1>2, GotoType
<1>4. TypeOK' BY <1>1, <1>3, InitializeType DEF TypeOK, aux
<1>5. JobOK(n)' BY <1>1, <1>3 DEF JobOK
<1>6. JobInv' BY <1>1, <1>3, <1>5, OthersJobs DEF OthersStay
<1>7. ASSUME calm' PROVE KeyInv' /\ ViewInv'
  <2>1. KeyInv /\ ViewInv BY <1>1, <1>7 DEF Inv, aux
  <2>2. Bootstraps(n) /\ ~mem[n].boot /\ Valid(disk[n].sys) BY <1>1 DEF Bootstraps, JobOK
  <2>3. init' = disk[n].sys
    <3>1. init = InProgress /\ view[n].init = InProgress BY <1>1, <2>1, <2>2 DEF KeyInv, ViewInv
    <3> QED BY <1>1, <3>1 DEF Initialize, InProgress, NoKey
  <2> /\ leader' = leader /\ disk' = disk /\ src' = src /\ view' = view /\ mem' = mem BY <1>1
  <2>4. ASSUME NEW k \in Node PROVE ~Bootstraps(k)' /\ (Holds(k)' => k = n)
    <3>1. CASE k = n BY <1>3, <2>2, <3>1 DEF Bootstraps
    <3>2. CASE k # n
      BY <1>3, <2>1, <2>2, <3>2, Alone DEF Bootstraps, Holds, Moving
    <3> QED BY <3>1, <3>2
  <2>5. KeyInv' BY <2>2, <2>3, <2>4 DEF KeyInv, Valid, NoKey
  <2>6. Leads(None)' BY DEF Leads
  <2>7. ViewInv'
    <3>1. ASSUME NEW k \in Node
          PROVE /\ view[k].leader = None /\ src[k].leader = None /\ ~Valid(view[k].init)
                /\ leader = None
      BY <2>1, <2>2, Alone
    <3>2. ASSUME NEW k \in Node
          PROVE /\ ~(pc'[k] = "loaded" /\ mem[k].boot) /\ pc'[k] # "publish"
                /\ pc'[k] = "loaded" /\ Valid(disk[k].sys) => view[k].init # NoKey
      <4>1. ~Bootstraps(k)' BY <2>4
      <4>2. CASE k = n BY <1>3, <4>2
      <4>3. CASE k # n BY <1>3, <2>1, <4>1, <4>3 DEF ViewInv, Bootstraps
      <4> QED BY <4>2, <4>3
    <3> QED BY <2>2, <2>3, <2>6, <3>1, <3>2 DEF ViewInv, Leads
  <2> QED BY <2>5, <2>7
<1> QED BY <1>4, <1>6, <1>7 DEF Inv

LEMMA TakeLeaderStep == ASSUME Inv, NEW n \in Node, TakeLeader(n) PROVE Inv'
<1> DEFINE m == [mem[n] EXCEPT !.cb = TRUE]
<1>1. /\ TypeOK /\ JobOK(n) /\ mem[n] \in Memory /\ pc[n] = "take" /\ leader' = n
      /\ SetMem(n, m) /\ EndCycle(n)
      /\ UNCHANGED <<init, up, srv, disk, job, src, asked, aux>>
  BY DEF Inv, JobInv, TypeOK, TakeLeader, node, bg
<1>2. m \in Memory /\ m.boot = mem[n].boot BY <1>1 DEF Memory
<1> HIDE DEF m
<1>3. mem' \in [Node -> Memory] /\ mem'[n] = m /\ \A k \in Node \ {n} : mem'[k] = mem[k]
  BY <1>1, <1>2, SetMemType
<1>4. TypeOK' BY <1>1, <1>3, EndCycleType DEF TypeOK, aux
<1>5. Quiet(n) BY <1>1, <1>2, <1>3, EndCycleType DEF Quiet, OthersStay, aux
<1>6. JobOK(n)' BY <1>1, <1>2, <1>3, EndCycleType DEF JobOK
<1> QED BY <1>4, <1>5, <1>6, QuietStep DEF Inv

LEMMA CancelInitializationStep ==
  ASSUME Inv, NEW n \in Node, CancelInitialization(n) PROVE Inv'
<1>1. /\ TypeOK /\ JobOK(n) /\ pc[n] = "cancel" /\ init' = NoKey /\ Goto(n, "moving")
      /\ UNCHANGED <<leader, member, up, srv, disk, mem, view, job, src, asked, aux>>
  BY DEF Inv, JobInv, CancelInitialization, node, bg
<1>2. "moving" \in Pc BY DEF Pc
<1>3. pc' \in [Node -> Pc] /\ pc'[n] = "moving" /\ \A k \in Node \ {n} : pc'[k] = pc[k]
  BY <1>1, <1>2, GotoType
<1>4. TypeOK' BY <1>1, <1>3 DEF TypeOK, aux, NoKey
<1>5. JobOK(n)' BY <1>1, <1>3 DEF JobOK
<1>6. JobInv' BY <1>1, <1>3, <1>5, OthersJobs DEF OthersStay
<1>7. ASSUME calm' PROVE KeyInv' /\ ViewInv'
  <2>1. KeyInv /\ ViewInv BY <1>1, <1>7 DEF Inv, aux
  <2>2. Bootstraps(n) BY <1>1 DEF Bootstraps
  <2> /\ leader' = leader /\ disk' = disk /\ src' = src /\ view' = view /\ mem' = mem BY <1>1
  <2>3. ASSUME NEW k \in Node PROVE ~Bootstraps(k)' /\ ~Holds(k)'
    <3>1. CASE k = n BY <1>3, <3>1 DEF Bootstraps, Holds, Moving
    <3>2. CASE k # n
      BY <1>3, <2>1, <2>2, <3>2, Alone DEF Bootstraps, Holds, Moving
    <3> QED BY <3>1, <3>2
  <2>4. KeyInv' BY <2>3 DEF KeyInv
  <2>5. ViewInv'
    <3>1. ASSUME NEW k \in Node
          PROVE /\ view[k].leader = None /\ src[k].leader = None /\ ~Valid(view[k].init)
                /\ leader = None /\ pc'[k] # "take"
      BY <1>3, <2>1, <2>2, Alone
    <3>2. ASSUME NEW k \in Node
          PROVE /\ ~(pc'[k] = "loaded" /\ mem[k].boot) /\ pc'[k] # "publish"
                /\ ~(pc'[k] = "loaded" /\ Valid(disk[k].sys))
      BY <2>3 DEF Bootstraps, Holds, Moving
    <3> QED BY <3>1, <3>2 DEF ViewInv, Leads
  <2> QED BY <2>4, <2>5
<1> QED BY <1>4, <1>6, <1>7 DEF Inv

LEMMA MoveDataDirectoryStep ==
  ASSUME Inv, NEW n \in Node, MoveDataDirectory(n) PROVE Inv'
<1>1. /\ TypeOK /\ JobOK(n) /\ pc[n] = "moving" /\ job[n] = "none"
      /\ SetSrv(n, "down") /\ disk' = [disk EXCEPT ![n] = Empty] /\ Exit(n)
      /\ UNCHANGED <<init, leader, member, job, src, aux>>
  BY DEF Inv, JobInv, JobOK, MoveDataDirectory, dcs, bg
<1>2. /\ srv' \in [Node -> {"down", "replica", "master"}] /\ srv'[n] = "down"
      /\ \A k \in Node \ {n} : srv'[k] = srv[k]
  BY <1>1 DEF TypeOK, SetSrv
<1>3. /\ disk' \in [Node -> Disk] /\ \A k \in Node : Len(disk'[k].wal) <= MaxWal
      /\ ~Valid(disk'[n].sys) /\ \A k \in Node \ {n} : disk'[k] = disk[k]
  <2>1. Empty \in Disk /\ Len(Empty.wal) <= MaxWal /\ ~Valid(Empty.sys)
    BY EmptyType, NodeLifeAssumption
  <2> QED BY <1>1, <2>1 DEF TypeOK
<1>4. TypeOK' BY <1>1, <1>2, <1>3, ExitType DEF TypeOK, aux
<1>5. ~mem'[n].boot BY <1>1, ExitType DEF Mem0
<1>6. JobOK(n)' BY <1>1, <1>2, ExitType DEF JobOK
<1>7. JobInv' BY <1>1, <1>2, <1>3, <1>6, ExitType, OthersJobs DEF OthersStay
<1>8. ASSUME calm' PROVE KeyInv' /\ ViewInv'
  <2>1. KeyInv /\ ViewInv BY <1>1, <1>8 DEF Inv, aux
  <2>2. /\ pc'[n] = "idle" /\ view'[n] = NoView
        /\ \A k \in Node \ {n} : pc'[k] = pc[k] /\ view'[k] = view[k] /\ mem'[k] = mem[k]
    BY <1>1, ExitType
  <2>3. ASSUME NEW k \in Node PROVE /\ Bootstraps(k)' => Bootstraps(k)
                                    /\ Holds(k)' => Holds(k) /\ disk'[k] = disk[k]
                                    /\ Moving(k)' => Moving(k)
    <3>1. CASE k = n BY <1>3, <1>5, <2>2, <3>1 DEF Bootstraps, Holds, Moving
    <3>2. CASE k # n BY <1>3, <2>2, <3>2 DEF Bootstraps, Holds, Moving
    <3> QED BY <3>1, <3>2
  <2> init' = init /\ leader' = leader /\ src' = src BY <1>1
  <2>4. KeyInv' BY <2>1, <2>3 DEF KeyInv
  <2>5. \A l \in Node \cup {None} : Leads(l) => Leads(l)' BY <2>3 DEF Leads
  <2>6. ASSUME NEW k \in Node
        PROVE /\ Leads(view[k].leader)' /\ Leads(src[k].leader)' /\ Leads(leader)'
              /\ Valid(view'[k].init) => view'[k].init = init
              /\ view'[k].leader # None => Valid(view'[k].init)
    <3>1. view[k].leader \in Node \cup {None} /\ src[k].leader \in Node \cup {None}
          /\ leader \in Node \cup {None}
      BY <1>1 DEF TypeOK, View
    <3>2. view'[k] \in {view[k], NoView} BY <2>2
    <3>3. Leads(src[k].leader)' /\ Leads(leader)' BY <2>1, <2>5, <3>1 DEF ViewInv, Leads
    <3>4. Leads(view[k].leader)'
      <4>1. CASE view'[k] = view[k] BY <2>1, <2>5, <3>1, <4>1 DEF ViewInv, Leads
      <4>2. CASE view'[k] = NoView BY <4>2, NoViewType DEF Leads
      <4> QED BY <3>2, <4>1, <4>2
    <3>5. /\ Valid(view'[k].init) => view'[k].init = init
          /\ view'[k].leader # None => Valid(view'[k].init)
      BY <2>1, <3>2, NoViewType DEF ViewInv, Valid, NoKey
    <3> QED BY <3>3, <3>4, <3>5
  <2>7. ASSUME NEW k \in Node
        PROVE /\ (pc'[k] = "loaded" /\ mem'[k].boot) \/ pc'[k] = "publish"
                    => view'[k].init = InProgress
              /\ pc'[k] = "loaded" /\ Valid(disk'[k].sys) => view'[k].init # NoKey
              /\ pc'[k] = "take" => Valid(init')
    <3>1. CASE k = n BY <2>2, <3>1
    <3>2. CASE k # n BY <1>3, <2>1, <2>2, <3>2 DEF ViewInv
    <3> QED BY <3>1, <3>2
  <2>8. ViewInv' BY <2>6, <2>7 DEF ViewInv, Leads
  <2> QED BY <2>4, <2>8
<1> QED BY <1>4, <1>7, <1>8 DEF Inv

LEMMA EmptyDirectoryStep == ASSUME Inv, NEW n \in Node, EmptyDirectory(n) PROVE Inv'
<1>1. /\ TypeOK /\ JobOK(n) /\ mem[n] \in Memory /\ pc[n] = "loaded" /\ ~mem[n].boot
      /\ job[n] = "none" /\ disk[n] = Empty /\ view[n] \in View
      /\ UNCHANGED <<up, disk, asked, aux>> /\ SetSrv(n, "down") /\ EndCycle(n)
  BY DEF Inv, JobInv, JobOK, TypeOK, EmptyDirectory, Rest, Loaded
<1>2. /\ srv' \in [Node -> {"down", "replica", "master"}] /\ srv'[n] = "down"
      /\ \A k \in Node \ {n} : srv'[k] = srv[k]
  BY <1>1 DEF TypeOK, SetSrv
<1>3. CASE (ReleaseLeader(n) \/ UNCHANGED leader) /\ UNCHANGED <<init, mem, bg>>
  <2>1. leader' \in Node \cup {None} /\ leader' \in {leader, None}
    BY <1>1, <1>3, ReleaseLeaderType DEF TypeOK
  <2>2. TypeOK' BY <1>1, <1>2, <1>3, <2>1, EndCycleType DEF TypeOK, aux, bg
  <2>3. Quiet(n) BY <1>1, <1>2, <1>3, <2>1, EndCycleType DEF Quiet, OthersStay, aux, bg
  <2>4. JobOK(n)' BY <1>1, <1>2, <1>3, EndCycleType DEF JobOK, bg
  <2> QED BY <2>2, <2>3, <2>4, QuietStep DEF Inv
<1>4. CASE /\ RunAsync(n, "clone", view[n]) /\ UNCHANGED <<init, mem, leader>>
           /\ view[n].leader # None
  <2>1. "clone" \in Job BY DEF Job
  <2>2. /\ job' \in [Node -> Job] /\ src' \in [Node -> View]
        /\ job'[n] = "clone" /\ src'[n] = view[n]
        /\ \A k \in Node \ {n} : job'[k] = job[k] /\ src'[k] = src[k]
    BY <1>1, <1>4, <2>1, RunAsyncType
  <2>3. TypeOK' BY <1>1, <1>2, <1>4, <2>2, EndCycleType DEF TypeOK, aux
  <2>4. Quiet(n) BY <1>1, <1>2, <1>4, <2>2, EndCycleType DEF Quiet, OthersStay, aux
  <2>5. JobOK(n)' BY <1>1, <1>2, <1>4, <2>2, EndCycleType DEF JobOK
  <2> QED BY <2>3, <2>4, <2>5, QuietStep DEF Inv
<1>5. CASE /\ UNCHANGED leader /\ init = NoKey /\ init' = InProgress
           /\ SetMem(n, [mem[n] EXCEPT !.boot = TRUE, !.resp = "none"])
           /\ RunAsync(n, "bootstrap", NoView)
  <2> DEFINE m == [mem[n] EXCEPT !.boot = TRUE, !.resp = "none"]
  <2>1. m \in Memory /\ m.boot BY <1>1 DEF Memory
  <2>2. SetMem(n, m) BY <1>5
  <2> HIDE DEF m
  <2>3. mem' \in [Node -> Memory] /\ mem'[n] = m /\ \A k \in Node \ {n} : mem'[k] = mem[k]
    BY <1>1, <2>1, <2>2, SetMemType
  <2>4. "bootstrap" \in Job BY DEF Job
  <2>5. /\ job' \in [Node -> Job] /\ src' \in [Node -> View]
        /\ job'[n] = "bootstrap" /\ src'[n] = NoView
        /\ \A k \in Node \ {n} : job'[k] = job[k] /\ src'[k] = src[k]
    BY <1>1, <1>5, <2>4, NoViewType, RunAsyncType
  <2>6. /\ pc' \in [Node -> Pc] /\ pc'[n] = "idle"
        /\ view' \in [Node -> View] /\ view'[n] = NoView
        /\ member' \in [Node -> {"absent", "replica", "wait", "ready"}]
        /\ \A k \in Node \ {n} : pc'[k] = pc[k] /\ view'[k] = view[k]
    BY <1>1, EndCycleType
  <2>7. TypeOK' BY <1>1, <1>2, <1>5, <2>3, <2>5, <2>6 DEF TypeOK, aux, InProgress
  <2>8. JobOK(n)' BY <1>1, <1>2, <2>1, <2>3, <2>5, <2>6 DEF JobOK
  <2>9. JobInv' BY <1>1, <1>2, <2>3, <2>5, <2>6, <2>8, OthersJobs DEF OthersStay
  <2>10. ASSUME calm' PROVE KeyInv' /\ ViewInv'
    <3>1. KeyInv /\ ViewInv BY <1>1, <2>10 DEF Inv, aux
    <3>2. ~Valid(init') BY <1>5 DEF Valid, InProgress
    <3>3. ASSUME NEW k \in Node PROVE (Bootstraps(k)' => k = n) /\ ~Holds(k)'
      <4>1. CASE k = n BY <1>1, <4>1, EmptyType DEF Holds
      <4>2. CASE k # n
        BY <1>1, <1>5, <2>3, <2>6, <3>1, <4>2, Alone DEF Bootstraps, Holds, Moving, InProgress, NoKey, KeyInv
      <4> QED BY <4>1, <4>2
    <3>4. KeyInv' BY <1>5, <3>3 DEF KeyInv
    <3>5. ASSUME NEW k \in Node
          PROVE /\ view'[k].leader = None /\ src'[k].leader = None /\ ~Valid(view'[k].init)
                /\ leader' = None /\ pc'[k] # "take"
      BY <1>5, <2>5, <2>6, <3>1, Alone, NoViewType DEF Valid, NoKey
    <3>6. ASSUME NEW k \in Node
          PROVE /\ ~(pc'[k] = "loaded" /\ mem'[k].boot) /\ pc'[k] # "publish"
                /\ ~(pc'[k] = "loaded" /\ Valid(disk'[k].sys))
      BY <2>6, <3>3 DEF Bootstraps, Holds, Moving
    <3>7. ViewInv' BY <3>5, <3>6 DEF ViewInv, Leads
    <3> QED BY <3>4, <3>7
  <2> QED BY <2>7, <2>9, <2>10 DEF Inv
<1> QED BY <1>1, <1>3, <1>4, <1>5 DEF EmptyDirectory

LEMMA JoinStep == ASSUME Inv, NEW n \in Node, Join(n) PROVE Inv'
<1>1. /\ TypeOK /\ JobOK(n) /\ pc[n] = "loaded" /\ ~mem[n].boot /\ Valid(disk[n].sys)
      /\ ~Valid(view[n].init) /\ view[n].leader = None
      /\ disk[n].sys \in Nat /\ view[n] \in View /\ view[n].init \in Nat
      /\ UNCHANGED <<member, disk, job, src, aux>>
  BY DEF Inv, JobInv, TypeOK, Join, Rest, Loaded, Disk, View, bg
<1>2. CASE Exit(n) /\ UNCHANGED <<init, leader, srv>>
  <2>1. TypeOK' BY <1>1, <1>2, ExitType DEF TypeOK, aux
  <2>2. ~mem'[n].boot BY <1>1, <1>2, ExitType DEF Mem0
  <2>3. Quiet(n) BY <1>1, <1>2, <2>2, ExitType DEF Quiet, OthersStay, aux
  <2>4. JobOK(n)' BY <1>1, <1>2, <2>2, ExitType DEF JobOK
  <2> QED BY <2>1, <2>3, <2>4, QuietStep DEF Inv
<1>3. CASE /\ Initialize(view[n].init, disk[n].sys)
           /\ view' = [view EXCEPT ![n].init = disk[n].sys]
           /\ UNCHANGED <<leader, srv, up, mem, pc, asked>>
  <2> DEFINE v == [view[n] EXCEPT !.init = disk[n].sys]
  <2>1. v \in View /\ v.init = disk[n].sys /\ v.leader = None BY <1>1, ViewInitType
  <2>2. view' = [view EXCEPT ![n] = v] BY <1>3
  <2> HIDE DEF v
  <2>3. view' \in [Node -> View] /\ view'[n] = v /\ \A k \in Node \ {n} : view'[k] = view[k]
    BY <1>1, <2>1, <2>2 DEF TypeOK
  <2>4. TypeOK' BY <1>1, <1>3, <2>3, InitializeType DEF TypeOK, aux
  <2>5. JobInv' BY <1>1, <1>3 DEF Inv, JobInv, JobOK
  <2>6. ASSUME calm' PROVE KeyInv' /\ ViewInv'
    <3>1. KeyInv /\ ViewInv BY <1>1, <2>6 DEF Inv, aux
    <3>2. Holds(n) /\ ~Bootstraps(n) BY <1>1 DEF Holds, Moving, Bootstraps
    <3>3. init # NoKey /\ view[n].init # NoKey /\ (Valid(init) => disk[n].sys = init)
      BY <1>1, <3>1, <3>2 DEF KeyInv, ViewInv
    <3>4. init' = disk[n].sys BY <1>3, <3>3 DEF Initialize
    <3> /\ leader' = leader /\ disk' = disk /\ src' = src /\ mem' = mem /\ pc' = pc BY <1>1, <1>3
    <3>5. Valid(init') /\ (Valid(init) => init' = init) BY <1>1, <3>3, <3>4
    <3>6. ASSUME NEW k \in Node
          PROVE /\ Bootstraps(k)' <=> Bootstraps(k)
                /\ Holds(k)' <=> Holds(k)
                /\ Moving(k)' <=> Moving(k)
                /\ ~Bootstraps(k)
      BY <3>1, <3>2 DEF Bootstraps, Holds, Moving, KeyInv
    <3>7. ASSUME NEW k \in Node, Holds(k) PROVE disk[k].sys = init'
      BY <3>1, <3>2, <3>4, <3>5, <3>7 DEF KeyInv
    <3>8. KeyInv' BY <3>5, <3>6, <3>7 DEF KeyInv, Valid, NoKey
    <3>9. \A l \in Node \cup {None} : Leads(l) => Leads(l)' BY <3>5, <3>6 DEF Leads
    <3>10. ASSUME NEW k \in Node
           PROVE /\ Leads(view[k].leader)' /\ Leads(src[k].leader)' /\ Leads(leader)'
                 /\ Valid(view'[k].init) => view'[k].init = init'
                 /\ view'[k].leader # None => Valid(view'[k].init)
      <4>1. /\ view[k].leader \in Node \cup {None} /\ src[k].leader \in Node \cup {None}
            /\ leader \in Node \cup {None}
        BY <1>1 DEF TypeOK, View
      <4>2. Leads(src[k].leader)' /\ Leads(leader)' BY <3>1, <3>9, <4>1 DEF ViewInv, Leads
      <4>3. CASE k = n BY <2>1, <2>3, <3>4, <4>2, <4>3 DEF Leads
      <4>4. CASE k # n
        <5>1. view'[k] = view[k] BY <2>3, <4>4
        <5>2. Leads(view[k].leader)' BY <3>1, <3>9, <4>1, <5>1 DEF ViewInv, Leads
        <5>3. Valid(view[k].init) => view[k].init = init /\ Valid(init)
          BY <3>1 DEF ViewInv
        <5> QED BY <3>1, <3>5, <4>2, <5>1, <5>2, <5>3 DEF ViewInv
      <4> QED BY <4>3, <4>4
    <3>11. ASSUME NEW k \in Node
           PROVE /\ ~(pc[k] = "loaded" /\ mem[k].boot) /\ pc[k] # "publish"
                 /\ pc[k] = "loaded" /\ Valid(disk[k].sys) => view'[k].init # NoKey
      <4>1. ~Bootstraps(k) BY <3>6
      <4>2. CASE k = n BY <1>1, <2>1, <2>3, <4>2 DEF Valid, NoKey
      <4>3. CASE k # n BY <2>3, <3>1, <4>1, <4>3 DEF Bootstraps, ViewInv
      <4> QED BY <4>1, <4>2, <4>3 DEF Bootstraps
    <3>12. ViewInv' BY <3>5, <3>10, <3>11 DEF ViewInv, Leads
    <3> QED BY <3>8, <3>12
  <2> QED BY <2>4, <2>5, <2>6 DEF Inv
<1> QED BY <1>2, <1>3 DEF Join

----------------------------------------------------------------------------
\* The long actions, and what happens to a server.

\* A step that changes the server, the data, the memory or the long action of a node.
LEMMA JobStep ==
  ASSUME Inv, NEW n \in Node,
         UNCHANGED <<init, leader, member, up, pc, view, asked, how, systems, calm>>,
         events' \in 0..MaxEvents, former' \subseteq Node, stale' \subseteq Node,
         srv' \in [Node -> {"down", "replica", "master"}],
         disk' \in [Node -> Disk], \A k \in Node : Len(disk'[k].wal) <= MaxWal,
         mem' \in [Node -> Memory], mem'[n].boot = mem[n].boot,
         job' \in [Node -> Job], src' \in [Node -> View],
         src'[n] \in {src[n], NoView, Cluster},
         \A k \in Node \ {n} : /\ srv'[k] = srv[k] /\ disk'[k] = disk[k] /\ mem'[k] = mem[k]
                               /\ job'[k] = job[k] /\ src'[k] = src[k],
         \/ disk'[n].sys = disk[n].sys
         \/ pc[n] = "idle" /\ ~Valid(disk'[n].sys)
         \/ pc[n] = "idle" /\ src[n].leader # None /\ disk'[n].sys = disk[src[n].leader].sys,
         JobOK(n)'
  PROVE Inv'
<1>1. TypeOK' BY DEF Inv, TypeOK
<1>2. Quiet(n) BY DEF Quiet, OthersStay
<1> QED BY <1>1, <1>2, QuietStep DEF Inv

LEMMA WalType ==
  ASSUME NEW d \in Disk, NEW w \in Seq(Nat), NEW b \in {"clean", "standby", "dirty"}
  PROVE /\ [d EXCEPT !.wal = w] \in Disk
        /\ [d EXCEPT !.wal = w].sys = d.sys /\ [d EXCEPT !.wal = w].wal = w
        /\ [d EXCEPT !.wal = w, !.state = b] \in Disk
        /\ [d EXCEPT !.wal = w, !.state = b].sys = d.sys
        /\ [d EXCEPT !.wal = w, !.state = b].wal = w
BY DEF Disk

LEMMA InitDbStep == ASSUME Inv, NEW n \in Node, InitDb(n) PROVE Inv'
<1>1. /\ TypeOK /\ JobOK(n) /\ SetDisk(n, Partial) /\ disk[n] = Empty /\ job[n] = "bootstrap"
      /\ UNCHANGED <<init, leader, member, up, srv, mem, pc, view, job, src, asked,
                     how, systems, events, calm, former, stale>>
  BY DEF Inv, JobInv, InitDb, Doing, dcs, loop, bg, aux
<1>2. Partial \in Disk /\ Len(Partial.wal) <= MaxWal /\ ~Valid(Partial.sys)
  BY EmptyType, NodeLifeAssumption
<1>3. /\ disk' \in [Node -> Disk] /\ \A k \in Node : Len(disk'[k].wal) <= MaxWal
      /\ disk'[n] = Partial /\ \A k \in Node \ {n} : disk'[k] = disk[k]
  BY <1>1, <1>2, SetDiskType
<1>4. JobOK(n)' BY <1>1, <1>3, EmptyType DEF JobOK
<1>5. pc[n] = "idle" BY <1>1 DEF JobOK
<1> QED BY <1>1, <1>2, <1>3, <1>4, <1>5, JobStep DEF TypeOK

LEMMA BootstrapEndsStep == ASSUME Inv, NEW n \in Node, BootstrapEnds(n) PROVE Inv'
<1>1. /\ TypeOK /\ JobOK(n) /\ disk[n] = Partial /\ job[n] = "bootstrap" /\ mem[n].boot
      /\ pc[n] = "idle" /\ Ends(n)
      /\ UNCHANGED <<init, leader, member, up, mem, pc, view, asked, how, calm, stale>>
      /\ former' \subseteq Node
  BY DEF Inv, JobInv, JobOK, TypeOK, BootstrapEnds, Doing, dcs, loop
<1>2. /\ job' \in [Node -> Job] /\ src' \in [Node -> View]
      /\ job'[n] = "none" /\ src'[n] = NoView
      /\ \A k \in Node \ {n} : job'[k] = job[k] /\ src'[k] = src[k]
  BY <1>1, EndsType
<1>3. CASE Event /\ UNCHANGED <<systems, srv, disk>>
  <2>1. JobOK(n)' BY <1>1, <1>2, <1>3 DEF JobOK
  <2>2. events' \in 0..MaxEvents BY <1>1, <1>3, EventType
  <2> QED BY <1>1, <1>2, <1>3, <2>1, <2>2, JobStep DEF TypeOK
<1>4. CASE /\ systems' = systems + 1 /\ SetSrv(n, "master") /\ Free
           /\ SetDisk(n, [sys |-> systems + 2, wal |-> <<1>>, ctl |-> 1, state |-> "dirty"])
  <2> DEFINE w == <<1>>
             d == [sys |-> systems + 2, wal |-> w, ctl |-> 1, state |-> "dirty"]
  <2>1. w \in Seq(Nat) /\ Len(w) = 1 OBVIOUS
  <2> HIDE DEF w
  <2>2. systems \in Nat BY <1>1 DEF TypeOK
  <2>3. d \in Disk /\ d.wal = w /\ Valid(d.sys) BY <2>1, <2>2 DEF Disk, Valid
  <2>4. SetDisk(n, d) BY <1>4 DEF w
  <2> HIDE DEF d
  <2>5. Len(d.wal) <= MaxWal
    <3>1. Len(d.wal) = 1 BY <2>1, <2>3
    <3>2. 1 <= MaxWal BY NodeLifeAssumption
    <3> QED BY <3>1, <3>2
  <2>6. /\ disk' \in [Node -> Disk] /\ \A k \in Node : Len(disk'[k].wal) <= MaxWal
        /\ disk'[n] = d /\ \A k \in Node \ {n} : disk'[k] = disk[k]
    BY <1>1, <2>3, <2>4, <2>5, SetDiskType
  <2>7. /\ srv' \in [Node -> {"down", "replica", "master"}] /\ srv'[n] = "master"
        /\ \A k \in Node \ {n} : srv'[k] = srv[k]
    BY <1>1, <1>4, SetSrvType
  <2>8. TypeOK' BY <1>1, <1>2, <1>4, <2>2, <2>6, <2>7, EventType DEF TypeOK
  <2>9. JobOK(n)' BY <1>1, <1>2, <2>3, <2>6, <2>7 DEF JobOK
  <2>10. JobInv' BY <1>1, <1>2, <2>6, <2>7, <2>9, OthersJobs DEF OthersStay
  <2>11. ASSUME calm' PROVE KeyInv' /\ ViewInv'
    <3>1. KeyInv /\ ViewInv BY <1>1, <2>11 DEF Inv
    <3>2. Bootstraps(n) BY <1>1 DEF Bootstraps
    <3> /\ init' = init /\ leader' = leader /\ mem' = mem /\ pc' = pc /\ view' = view BY <1>1
    <3>3. ASSUME NEW k \in Node
          PROVE Bootstraps(k)' <=> Bootstraps(k)
      BY DEF Bootstraps
    <3>4. ASSUME NEW k \in Node, Holds(k)' PROVE k = n
      <4> SUFFICES ASSUME k # n PROVE FALSE OBVIOUS
      <4> QED BY <2>6, <3>1, <3>2, <3>4, Alone DEF Holds, Moving
    <3>5. init = InProgress BY <3>1, <3>2 DEF KeyInv
    <3>6. KeyInv'
      <4>1. ~Valid(init') /\ init' # NoKey BY <3>5 DEF Valid, InProgress, NoKey
      <4>2. \A k \in Node : Bootstraps(k)' => init' = InProgress /\ k = n
        BY <3>1, <3>2, <3>3, <3>5 DEF KeyInv
      <4> QED BY <3>4, <4>1, <4>2 DEF KeyInv
    <3>7. ASSUME NEW k \in Node
          PROVE /\ view[k].leader = None /\ src'[k].leader = None /\ ~Valid(view[k].init)
                /\ leader = None /\ pc[k] # "take"
      BY <1>2, <3>1, <3>2, Alone, NoViewType
    <3>8. ASSUME NEW k \in Node
          PROVE /\ (pc[k] = "loaded" /\ mem[k].boot) \/ pc[k] = "publish"
                      => view[k].init = InProgress
                /\ pc[k] = "loaded" /\ Valid(disk'[k].sys) => view[k].init # NoKey
      BY <1>1, <2>6, <3>1 DEF ViewInv
    <3>9. ViewInv' BY <3>7, <3>8 DEF ViewInv, Leads
    <3> QED BY <3>6, <3>9
  <2> QED BY <2>8, <2>10, <2>11 DEF Inv
<1> QED BY <1>3, <1>4 DEF BootstrapEnds

LEMMA PostBootstrapEndsStep == ASSUME Inv, NEW n \in Node, PostBootstrapEnds(n) PROVE Inv'
<1>1. /\ TypeOK /\ JobOK(n) /\ mem[n] \in Memory /\ job[n] = "post_bootstrap" /\ Ends(n)
      /\ UNCHANGED <<init, leader, member, up, srv, disk, pc, view, asked,
                     how, systems, calm, former, stale>>
      /\ Event \/ Free
  BY DEF Inv, JobInv, TypeOK, PostBootstrapEnds, Doing, dcs, node, loop, hist
<1>2. PICK answer \in {"ok", "failed"} : SetMem(n, [mem[n] EXCEPT !.resp = answer])
  BY DEF PostBootstrapEnds
<1> DEFINE m == [mem[n] EXCEPT !.resp = answer]
<1>3. m \in Memory /\ m.boot = mem[n].boot BY <1>1 DEF Memory
<1> HIDE DEF m
<1>4. mem' \in [Node -> Memory] /\ mem'[n] = m /\ \A k \in Node \ {n} : mem'[k] = mem[k]
  <2>1. SetMem(n, m) BY <1>2 DEF m
  <2> QED BY <1>1, <1>3, <2>1, SetMemType
<1>5. /\ job' \in [Node -> Job] /\ src' \in [Node -> View]
      /\ job'[n] = "none" /\ src'[n] = NoView
      /\ \A k \in Node \ {n} : job'[k] = job[k] /\ src'[k] = src[k]
  BY <1>1, EndsType
<1>6. JobOK(n)' BY <1>1, <1>3, <1>4, <1>5 DEF JobOK
<1>7. events' \in 0..MaxEvents BY <1>1, EventType
<1> QED BY <1>1, <1>3, <1>4, <1>5, <1>6, <1>7, JobStep DEF TypeOK

LEMMA CloneStep == ASSUME Inv, NEW n \in Node, Clone(n) PROVE Inv'
<1> DEFINE m == [mem[n] EXCEPT !.rw = "initial", !.task = "none"]
<1>1. /\ TypeOK /\ JobOK(n) /\ mem[n] \in Memory /\ job[n] = "clone" /\ src[n] \in View
      /\ SetDisk(n, Partial) /\ RunAsync(n, "copy", src[n])
      /\ UNCHANGED <<init, leader, member, up, srv, pc, view, asked,
                     how, systems, events, calm, former, stale>>
  BY DEF Inv, JobInv, TypeOK, Clone, Doing, Then, dcs, loop, aux
<1>2. m \in Memory /\ m.boot = mem[n].boot BY <1>1 DEF Memory
<1>3. SetMem(n, m) BY DEF Clone
<1> HIDE DEF m
<1>4. mem' \in [Node -> Memory] /\ mem'[n] = m /\ \A k \in Node \ {n} : mem'[k] = mem[k]
  BY <1>1, <1>2, <1>3, SetMemType
<1>5. /\ job' \in [Node -> Job] /\ src' \in [Node -> View]
      /\ job'[n] = "copy" /\ src'[n] = src[n]
      /\ \A k \in Node \ {n} : job'[k] = job[k] /\ src'[k] = src[k]
  <2>1. "copy" \in Job BY DEF Job
  <2> QED BY <1>1, <2>1, RunAsyncType
<1>6. Partial \in Disk /\ Len(Partial.wal) <= MaxWal /\ ~Valid(Partial.sys)
  BY EmptyType, NodeLifeAssumption
<1>7. /\ disk' \in [Node -> Disk] /\ \A k \in Node : Len(disk'[k].wal) <= MaxWal
      /\ disk'[n] = Partial /\ \A k \in Node \ {n} : disk'[k] = disk[k]
  BY <1>1, <1>6, SetDiskType
<1>8. JobOK(n)' BY <1>1, <1>2, <1>4, <1>5, <1>6, <1>7 DEF JobOK
<1>9. pc[n] = "idle" BY <1>1 DEF JobOK
<1> QED BY <1>1, <1>2, <1>4, <1>5, <1>6, <1>7, <1>8, <1>9, JobStep DEF TypeOK

LEMMA CreateReplicaStep == ASSUME Inv, NEW n \in Node, CreateReplica(n) PROVE Inv'
<1> DEFINE l == src[n].leader
           copy == [disk[l] EXCEPT !.ctl = Tl(l)]
<1>1. /\ TypeOK /\ JobOK(n) /\ job[n] = "copy" /\ pc[n] = "idle" /\ srv[n] = "down"
      /\ l \in Node /\ l # None
      /\ UNCHANGED <<init, leader, member, up, srv, mem, pc, view, asked, how, systems, calm, stale>>
  BY DEF Inv, JobInv, JobOK, TypeOK, View, CreateReplica, Doing, dcs, loop
<1>2. CASE /\ Valid(disk[l].sys) /\ Free /\ SetDisk(n, copy)
           /\ Start(n, leader) /\ former' = former \ {n}
  <2>1. disk[l] \in Disk /\ Len(disk[l].wal) <= MaxWal BY <1>1 DEF TypeOK
  <2>2. /\ copy \in Disk /\ copy.sys = disk[l].sys /\ copy.wal = disk[l].wal
    BY <1>1, <2>1, TlType, CtlType
  <2> HIDE DEF copy
  <2>3. /\ disk' \in [Node -> Disk] /\ \A k \in Node : Len(disk'[k].wal) <= MaxWal
        /\ disk'[n] = copy /\ \A k \in Node \ {n} : disk'[k] = disk[k]
    BY <1>1, <1>2, <2>1, <2>2, SetDiskType
  <2>4. /\ job' \in [Node -> Job] /\ src' \in [Node -> View]
        /\ job'[n] \in {"start", "start standby"} /\ src'[n] = NoView
        /\ \A k \in Node \ {n} : job'[k] = job[k] /\ src'[k] = src[k]
    BY <1>1, <1>2, StartType
  <2>5. JobOK(n)' BY <1>1, <1>2, <2>2, <2>3, <2>4 DEF JobOK
  <2>6. events' \in 0..MaxEvents /\ former' \subseteq Node /\ stale' \subseteq Node
    BY <1>1, <1>2, EventType DEF TypeOK
  <2> QED BY <1>1, <2>2, <2>3, <2>4, <2>5, <2>6, JobStep DEF TypeOK
<1>3. CASE (Event \/ Free) /\ SetDisk(n, Empty) /\ Ends(n) /\ UNCHANGED former
  <2>1. Empty \in Disk /\ Len(Empty.wal) <= MaxWal /\ ~Valid(Empty.sys)
    BY EmptyType, NodeLifeAssumption
  <2>2. /\ disk' \in [Node -> Disk] /\ \A k \in Node : Len(disk'[k].wal) <= MaxWal
        /\ disk'[n] = Empty /\ \A k \in Node \ {n} : disk'[k] = disk[k]
    BY <1>1, <1>3, <2>1, SetDiskType
  <2>3. /\ job' \in [Node -> Job] /\ src' \in [Node -> View]
        /\ job'[n] = "none" /\ src'[n] = NoView
        /\ \A k \in Node \ {n} : job'[k] = job[k] /\ src'[k] = src[k]
    BY <1>1, <1>3, EndsType
  <2>4. JobOK(n)' BY <1>1, <2>1, <2>2, <2>3 DEF JobOK
  <2>5. events' \in 0..MaxEvents /\ former' \subseteq Node /\ stale' \subseteq Node
    BY <1>1, <1>3, EventType DEF TypeOK
  <2> QED BY <1>1, <2>1, <2>2, <2>3, <2>4, <2>5, JobStep DEF TypeOK
<1> QED BY <1>2, <1>3 DEF CreateReplica

LEMMA StartServerStep == ASSUME Inv, NEW n \in Node, StartServer(n) PROVE Inv'
<1>1. /\ TypeOK /\ JobOK(n) /\ job[n] \in {"start", "start standby"} /\ Ends(n)
      /\ Valid(disk[n].sys) /\ pc[n] = "idle"
      /\ UNCHANGED <<init, leader, member, up, mem, pc, view, asked, how, systems, calm>>
      /\ Event \/ Free
  BY DEF Inv, JobInv, JobOK, StartServer, dcs, loop
<1>2. /\ job' \in [Node -> Job] /\ src' \in [Node -> View]
      /\ job'[n] = "none" /\ src'[n] = NoView
      /\ \A k \in Node \ {n} : job'[k] = job[k] /\ src'[k] = src[k]
  BY <1>1, EndsType
<1>3. /\ srv' \in [Node -> {"down", "replica", "master"}]
      /\ \A k \in Node \ {n} : srv'[k] = srv[k]
  BY <1>1 DEF StartServer, SetSrv, TypeOK
<1>4. /\ disk' \in [Node -> Disk] /\ \A k \in Node : disk'[k].wal = disk[k].wal
      /\ disk'[n].sys = disk[n].sys /\ \A k \in Node \ {n} : disk'[k] = disk[k]
  <2> DEFINE standby == [disk[n] EXCEPT !.state = "standby"]
             primary == Checkpoints(disk[n], "dirty", Tl(n))
  <2>1. PICK d \in {disk[n], standby, primary} : SetDisk(n, d)
    <3>1. CASE UNCHANGED disk BY <1>1, <3>1 DEF TypeOK, SetDisk
    <3>2. CASE SetDisk(n, standby) \/ SetDisk(n, primary) BY <3>2
    <3> QED BY <3>1, <3>2 DEF StartServer, Checkpoints
  <2>2. disk[n] \in Disk /\ Len(disk[n].wal) <= MaxWal BY <1>1 DEF TypeOK
  <2>3. d \in Disk /\ d.sys = disk[n].sys /\ d.wal = disk[n].wal
    <3>1. Tl(n) \in Nat BY <1>1, TlType
    <3>2. primary \in Disk /\ primary.sys = disk[n].sys /\ primary.wal = disk[n].wal
      BY <2>2, <3>1, CheckpointsType
    <3>3. standby \in Disk /\ standby.sys = disk[n].sys /\ standby.wal = disk[n].wal
      BY <2>2, StateType
    <3> HIDE DEF standby, primary
    <3> QED BY <2>1, <2>2, <3>2, <3>3
  <2>4. Len(d.wal) <= MaxWal BY <2>2, <2>3
  <2> QED BY <1>1, <2>1, <2>3, <2>4, SetDiskType
<1>5. former' \subseteq Node /\ stale' \subseteq Node BY <1>1 DEF StartServer, TypeOK
<1>6. JobOK(n)' BY <1>1, <1>2, <1>4 DEF JobOK
<1>7. events' \in 0..MaxEvents BY <1>1, EventType
<1> QED BY <1>1, <1>2, <1>3, <1>4, <1>5, <1>6, <1>7, JobStep DEF TypeOK

LEMMA EnsureCleanShutdownStep ==
  ASSUME Inv, NEW n \in Node, EnsureCleanShutdown(n) PROVE Inv'
<1> DEFINE d == Checkpoints(disk[n], "clean", Tl(n))
<1>1. /\ TypeOK /\ JobOK(n) /\ job[n] = "crash recovery" /\ Ends(n) /\ disk[n] \in Disk
      /\ Len(disk[n].wal) <= MaxWal
      /\ UNCHANGED <<init, leader, member, up, srv, mem, pc, view, asked, how, systems, calm, former, stale>>
      /\ Event \/ Free
  BY DEF Inv, JobInv, TypeOK, EnsureCleanShutdown, Doing, dcs, loop, hist
<1>2. /\ job' \in [Node -> Job] /\ src' \in [Node -> View]
      /\ job'[n] = "none" /\ src'[n] = NoView
      /\ \A k \in Node \ {n} : job'[k] = job[k] /\ src'[k] = src[k]
  BY <1>1, EndsType
<1>3. d \in Disk /\ d.sys = disk[n].sys /\ d.wal = disk[n].wal
  BY <1>1, CleanType
<1>4. SetDisk(n, d) \/ UNCHANGED disk BY DEF EnsureCleanShutdown, Checkpoints
<1> HIDE DEF d
<1>5. /\ disk' \in [Node -> Disk] /\ \A k \in Node : Len(disk'[k].wal) <= MaxWal
      /\ disk'[n].sys = disk[n].sys /\ \A k \in Node \ {n} : disk'[k] = disk[k]
  BY <1>1, <1>3, <1>4, SetDiskType DEF TypeOK
<1>6. JobOK(n)' BY <1>1, <1>2, <1>5 DEF JobOK
<1>7. events' \in 0..MaxEvents BY <1>1, EventType
<1> QED BY <1>1, <1>2, <1>5, <1>6, <1>7, JobStep DEF TypeOK

LEMMA StopForRewindStep == ASSUME Inv, NEW n \in Node, StopForRewind(n) PROVE Inv'
<1>1. /\ TypeOK /\ JobOK(n) /\ job[n] = "rewind" /\ RunAsync(n, "pg_rewind", src[n])
      /\ src[n] \in View /\ ShutDown(n)
      /\ UNCHANGED <<init, leader, member, up, mem, pc, view, asked,
                     how, systems, events, calm, former, stale>>
  BY DEF Inv, JobInv, TypeOK, StopForRewind, Doing, Then, dcs, loop, aux
<1>2. /\ job' \in [Node -> Job] /\ src' \in [Node -> View]
      /\ job'[n] = "pg_rewind" /\ src'[n] = src[n]
      /\ \A k \in Node \ {n} : job'[k] = job[k] /\ src'[k] = src[k]
  <2>1. "pg_rewind" \in Job BY DEF Job
  <2> QED BY <1>1, <2>1, RunAsyncType
<1>3. JobOK(n)' BY <1>1, <1>2, ShutDownType DEF JobOK
<1> QED BY <1>1, <1>2, <1>3, ShutDownType, JobStep DEF TypeOK

\* What a rewind makes of the data, and of the memory of the node.
LEMMA RewindStep == ASSUME Inv, NEW n \in Node, Rewind(n) PROVE Inv'
<1> DEFINE l == src[n].leader
           r == PgRewind(n, l)
           copy == [disk[l] EXCEPT !.state = "standby"]
<1>1. /\ TypeOK /\ JobOK(n) /\ mem[n] \in Memory /\ job[n] = "pg_rewind" /\ Ends(n)
      /\ pc[n] = "idle" /\ srv[n] = "down" /\ l \in Node /\ l # None
      /\ UNCHANGED <<init, leader, member, up, srv, pc, view, asked, how, systems, calm>>
      /\ Event \/ Free
  BY DEF Inv, JobInv, JobOK, TypeOK, View, Rewind, Doing, dcs, loop
<1>2. /\ job' \in [Node -> Job] /\ src' \in [Node -> View]
      /\ job'[n] = "none" /\ src'[n] = NoView
      /\ \A k \in Node \ {n} : job'[k] = job[k] /\ src'[k] = src[k]
  BY <1>1, EndsType
<1>3. /\ disk[l] \in Disk /\ Len(disk[l].wal) <= MaxWal
      /\ disk[n] \in Disk /\ Len(disk[n].wal) <= MaxWal
  BY <1>1 DEF TypeOK
<1>4. r \in Disk /\ Len(r.wal) <= MaxWal /\ r.sys \in {disk[n].sys, disk[l].sys}
  <2>1. copy \in Disk /\ copy.sys = disk[l].sys /\ copy.wal = disk[l].wal
    BY <1>3, StateType
  <2>2. r \in {disk[n], copy} BY DEF PgRewind
  <2> HIDE DEF r, copy
  <2> QED BY <1>3, <2>1, <2>2
<1>5. Empty \in Disk /\ Len(Empty.wal) <= MaxWal /\ ~Valid(Empty.sys)
  BY EmptyType, NodeLifeAssumption
<1>6. UNCHANGED disk \/ SetDisk(n, r) \/ SetDisk(n, Empty) BY DEF Rewind
<1>7. UNCHANGED mem \/ \E s \in {"success", "initial", "failed"} : SetMem(n, [mem[n] EXCEPT !.rw = s])
  BY DEF Rewind
<1>8. former' \subseteq Node /\ stale' \subseteq Node BY <1>1 DEF Rewind, TypeOK
<1> HIDE DEF r
<1>9. /\ disk' \in [Node -> Disk] /\ \A k \in Node : Len(disk'[k].wal) <= MaxWal
      /\ disk'[n].sys \in {disk[n].sys, disk[l].sys} \/ ~Valid(disk'[n].sys)
      /\ \A k \in Node \ {n} : disk'[k] = disk[k]
  BY <1>1, <1>4, <1>5, <1>6, SetDiskType DEF TypeOK
<1>10. /\ mem' \in [Node -> Memory] /\ mem'[n].boot = mem[n].boot
       /\ \A k \in Node \ {n} : mem'[k] = mem[k]
  <2>1. CASE UNCHANGED mem BY <1>1, <2>1 DEF TypeOK
  <2>2. CASE \E s \in {"success", "initial", "failed"} : SetMem(n, [mem[n] EXCEPT !.rw = s])
    <3>1. PICK s \in {"success", "initial", "failed"} : SetMem(n, [mem[n] EXCEPT !.rw = s])
      BY <2>2
    <3> DEFINE m == [mem[n] EXCEPT !.rw = s]
    <3>2. m \in Memory /\ m.boot = mem[n].boot BY <1>1, RwType
    <3>3. SetMem(n, m) BY <3>1
    <3> HIDE DEF m
    <3> QED BY <1>1, <3>2, <3>3, SetMemType
  <2> QED BY <1>7, <2>1, <2>2
<1>11. JobOK(n)' BY <1>1, <1>2, <1>10 DEF JobOK
<1>12. events' \in 0..MaxEvents BY <1>1, EventType
<1> QED BY <1>1, <1>2, <1>8, <1>9, <1>10, <1>11, <1>12, JobStep DEF TypeOK

LEMMA PromoteStep == ASSUME Inv, NEW n \in Node, Promote(n) PROVE Inv'
<1> DEFINE w == Append(disk[n].wal, Tl(n) + 1)
           d == [disk[n] EXCEPT !.wal = w, !.state = "dirty"]
           m == [mem[n] EXCEPT !.rw = "initial", !.task = "none"]
<1>1. /\ TypeOK /\ JobOK(n) /\ mem[n] \in Memory /\ job[n] = "promote" /\ Ends(n)
      /\ pc[n] = "idle" /\ disk[n] \in Disk /\ disk[n].wal \in Seq(Nat)
      /\ UNCHANGED <<init, leader, member, up, pc, view, asked, how, systems, events, calm>>
  BY DEF Inv, JobInv, JobOK, TypeOK, Disk, Promote, Doing, dcs, loop
<1>2. /\ job' \in [Node -> Job] /\ src' \in [Node -> View]
      /\ job'[n] = "none" /\ src'[n] = NoView
      /\ \A k \in Node \ {n} : job'[k] = job[k] /\ src'[k] = src[k]
  BY <1>1, EndsType
<1>3. CASE UNCHANGED <<srv, disk, mem, former, stale>>
  <2>1. JobOK(n)' BY <1>1, <1>2, <1>3 DEF JobOK
  <2> QED BY <1>1, <1>2, <1>3, <2>1, JobStep DEF TypeOK
<1>4. CASE /\ Len(disk[n].wal) < MaxWal /\ srv[n] = "replica" /\ SetSrv(n, "master")
           /\ SetDisk(n, d) /\ SetMem(n, m) /\ former' \subseteq Node /\ stale' \subseteq Node
  <2>1. w \in Seq(Nat) /\ Len(w) = Len(disk[n].wal) + 1 /\ Len(disk[n].wal) \in Nat
    <3>1. Tl(n) + 1 \in Nat BY <1>1, TlType
    <3> QED BY <1>1, <3>1, AppendProperties, LenProperties
  <2>2. Len(w) <= MaxWal BY <1>4, <2>1, NodeLifeAssumption
  <2>3. m \in Memory /\ m.boot = mem[n].boot BY <1>1 DEF Memory
  <2> HIDE DEF w
  <2>4. d \in Disk /\ d.sys = disk[n].sys /\ d.wal = w BY <1>1, <2>1, WalType
  <2> HIDE DEF d, m
  <2>5. /\ disk' \in [Node -> Disk] /\ \A k \in Node : Len(disk'[k].wal) <= MaxWal
        /\ disk'[n] = d /\ \A k \in Node \ {n} : disk'[k] = disk[k]
    <3>1. Len(d.wal) <= MaxWal BY <2>2, <2>4
    <3> QED BY <1>1, <1>4, <2>4, <3>1, SetDiskType
  <2>6. mem' \in [Node -> Memory] /\ mem'[n] = m /\ \A k \in Node \ {n} : mem'[k] = mem[k]
    BY <1>1, <1>4, <2>3, SetMemType
  <2>7. /\ srv' \in [Node -> {"down", "replica", "master"}] /\ srv'[n] = "master"
        /\ \A k \in Node \ {n} : srv'[k] = srv[k]
    BY <1>1, <1>4, SetSrvType
  <2>8. JobOK(n)' BY <1>1, <1>2, <1>4, <2>3, <2>4, <2>5, <2>6 DEF JobOK
  <2> QED BY <1>1, <1>2, <1>4, <2>3, <2>4, <2>5, <2>6, <2>7, <2>8, JobStep DEF TypeOK
<1>5. \/ UNCHANGED <<srv, disk, mem, former, stale>>
      \/ /\ Len(disk[n].wal) < MaxWal /\ srv[n] = "replica" /\ SetSrv(n, "master")
         /\ SetDisk(n, d) /\ SetMem(n, m) /\ former' \subseteq Node /\ stale' \subseteq Node
  BY <1>1 DEF Promote, TypeOK
<1> QED BY <1>3, <1>4, <1>5

LEMMA CheckpointStep == ASSUME Inv, NEW n \in Node, Checkpoint(n) PROVE Inv'
<1> DEFINE d == [disk[n] EXCEPT !.ctl = Tl(n)]
<1>1. /\ TypeOK /\ JobOK(n) /\ mem[n] \in Memory /\ disk[n] \in Disk
      /\ Len(disk[n].wal) <= MaxWal
      /\ UNCHANGED <<init, leader, member, up, srv, pc, view, job, src, asked,
                     how, systems, events, calm, former, stale>>
  BY DEF Inv, JobInv, TypeOK, Checkpoint, dcs, loop, bg, aux
<1>2. PICK t \in {"done", "failed"} : SetMem(n, [mem[n] EXCEPT !.task = t])
  BY DEF Checkpoint
<1> DEFINE m == [mem[n] EXCEPT !.task = t]
<1>3. m \in Memory /\ m.boot = mem[n].boot BY <1>1 DEF Memory
<1>4. SetMem(n, m) BY <1>2
<1>5. d \in Disk /\ d.sys = disk[n].sys /\ d.wal = disk[n].wal
  BY <1>1, TlType, CtlType
<1>6. SetDisk(n, d) \/ UNCHANGED disk BY DEF Checkpoint
<1> HIDE DEF d, m
<1>7. /\ disk' \in [Node -> Disk] /\ \A k \in Node : Len(disk'[k].wal) <= MaxWal
      /\ disk'[n].sys = disk[n].sys /\ \A k \in Node \ {n} : disk'[k] = disk[k]
  BY <1>1, <1>5, <1>6, SetDiskType DEF TypeOK
<1>8. mem' \in [Node -> Memory] /\ mem'[n] = m /\ \A k \in Node \ {n} : mem'[k] = mem[k]
  BY <1>1, <1>3, <1>4, SetMemType
<1>9. JobOK(n)' BY <1>1, <1>3, <1>7, <1>8 DEF JobOK
<1> QED BY <1>1, <1>3, <1>7, <1>8, <1>9, JobStep DEF TypeOK

LEMMA DoReinitializeStep == ASSUME Inv, NEW n \in Node, DoReinitialize(n) PROVE Inv'
<1>1. /\ TypeOK /\ JobOK(n) /\ job[n] = "reinitialize" /\ src[n] \in View
      /\ UNCHANGED <<init, leader, member, up, disk, mem, pc, view, asked,
                     how, systems, events, calm, former, stale>>
      /\ SetSrv(n, "down")
  BY DEF Inv, JobInv, TypeOK, DoReinitialize, Doing, dcs, loop, aux
<1>2. /\ job' \in [Node -> Job] /\ src' \in [Node -> View]
      /\ job'[n] = "none" \/ (job'[n] = "clone" /\ src[n].leader # None)
      /\ src'[n] \in {src[n], NoView} /\ (job'[n] = "clone" => src'[n] = src[n])
      /\ \A k \in Node \ {n} : job'[k] = job[k] /\ src'[k] = src[k]
  <2>1. CASE src[n].leader = None
    <3>1. Ends(n) BY <2>1 DEF DoReinitialize
    <3> QED BY <1>1, <3>1, EndsType
  <2>2. CASE src[n].leader # None
    <3>1. RunAsync(n, "clone", src[n]) BY <2>2 DEF DoReinitialize, Then
    <3>2. "clone" \in Job BY DEF Job
    <3> QED BY <1>1, <2>2, <3>1, <3>2, RunAsyncType
  <2> QED BY <2>1, <2>2
<1>5. /\ srv' \in [Node -> {"down", "replica", "master"}] /\ srv'[n] = "down"
      /\ \A k \in Node \ {n} : srv'[k] = srv[k]
  BY <1>1, SetSrvType
<1>6. JobOK(n)' BY <1>1, <1>2, <1>5 DEF JobOK
<1> QED BY <1>1, <1>2, <1>5, <1>6, JobStep DEF TypeOK

LEMMA CheckReinitializeStep ==
  ASSUME Inv, NEW n \in Node, CheckReinitialize(n) PROVE Inv'
<1>1. /\ TypeOK /\ JobOK(n) /\ asked' = [asked EXCEPT ![n] = TRUE] /\ Event
      /\ UNCHANGED <<init, leader, member, up, srv, disk, mem, pc, view, job, src,
                     how, systems, calm, former, stale>>
  BY DEF Inv, JobInv, CheckReinitialize, dcs, node, loop, bg, hist
<1>2. TypeOK' BY <1>1, EventType DEF TypeOK
<1>3. Quiet(n) BY <1>1 DEF Quiet, OthersStay
<1>4. JobOK(n)' BY <1>1 DEF JobOK
<1> QED BY <1>2, <1>3, <1>4, QuietStep DEF Inv

LEMMA ReinitializeStep == ASSUME Inv, NEW n \in Node, Reinitialize(n) PROVE Inv'
<1>1. /\ TypeOK /\ JobOK(n) /\ asked' = [asked EXCEPT ![n] = FALSE] /\ pc[n] = "idle"
      /\ RunAsync(n, "reinitialize", Cluster)
      /\ UNCHANGED <<init, leader, member, up, srv, disk, mem, pc, view,
                     how, systems, events, calm, former, stale>>
  BY DEF Inv, JobInv, Reinitialize, dcs, node, loop, aux
<1>2. /\ job' \in [Node -> Job] /\ src' \in [Node -> View]
      /\ job'[n] = "reinitialize" /\ src'[n] = Cluster
      /\ \A k \in Node \ {n} : job'[k] = job[k] /\ src'[k] = src[k]
  <2>1. "reinitialize" \in Job BY DEF Job
  <2> QED BY <1>1, <2>1, ClusterType, RunAsyncType
<1>3. TypeOK' BY <1>1, <1>2 DEF TypeOK
<1>4. Quiet(n) BY <1>1, <1>2 DEF Quiet, OthersStay
<1>5. JobOK(n)' BY <1>1, <1>2 DEF JobOK
<1> QED BY <1>3, <1>4, <1>5, QuietStep DEF Inv

LEMMA WriteStep == ASSUME Inv, NEW n \in Node, Write(n) PROVE Inv'
<1> DEFINE w == Append(disk[n].wal, Tl(n))
           d == [disk[n] EXCEPT !.wal = w]
<1>1. /\ TypeOK /\ JobOK(n) /\ disk[n] \in Disk /\ disk[n].wal \in Seq(Nat)
      /\ Len(disk[n].wal) < MaxWal /\ SetDisk(n, d)
      /\ UNCHANGED <<init, leader, member, up, srv, mem, pc, view, job, src, asked,
                     how, systems, events, calm, former, stale>>
  BY DEF Inv, JobInv, TypeOK, Disk, Write, dcs, loop, bg, aux
<1>2. w \in Seq(Nat) /\ Len(w) = Len(disk[n].wal) + 1 /\ Len(disk[n].wal) \in Nat
  BY <1>1, TlType, AppendProperties, LenProperties
<1>3. Len(w) <= MaxWal BY <1>1, <1>2, NodeLifeAssumption
<1> HIDE DEF w
<1>4. d \in Disk /\ d.sys = disk[n].sys /\ d.wal = w BY <1>1, <1>2, WalType
<1> HIDE DEF d
<1>5. /\ disk' \in [Node -> Disk] /\ \A k \in Node : Len(disk'[k].wal) <= MaxWal
      /\ disk'[n].sys = disk[n].sys /\ \A k \in Node \ {n} : disk'[k] = disk[k]
  <2>1. Len(d.wal) <= MaxWal BY <1>3, <1>4
  <2> QED BY <1>1, <1>4, <2>1, SetDiskType
<1>6. JobOK(n)' BY <1>1, <1>5 DEF JobOK
<1> QED BY <1>1, <1>5, <1>6, JobStep DEF TypeOK

LEMMA ReplicateStep == ASSUME Inv, NEW n \in Node, NEW m \in Node, Replicate(n, m) PROVE Inv'
<1> DEFINE w == SubSeq(disk[n].wal, 1, Len(disk[m].wal) + 1)
           c == w[Len(w)]
           d == [disk[m] EXCEPT !.wal = w, !.ctl = c]
<1>1. /\ TypeOK /\ JobOK(m) /\ disk[m] \in Disk /\ disk[n].wal \in Seq(Nat)
      /\ disk[m].wal \in Seq(Nat) /\ Len(disk[n].wal) <= MaxWal
      /\ Len(disk[m].wal) < Len(disk[n].wal) /\ SetDisk(m, d)
      /\ UNCHANGED <<init, leader, member, up, srv, mem, pc, view, job, src, asked,
                     how, systems, events, calm, former, stale>>
  BY DEF Inv, JobInv, TypeOK, Disk, Replicate, dcs, loop, bg, aux
<1>2. /\ Len(disk[m].wal) \in Nat /\ Len(disk[n].wal) \in Nat
      /\ Len(disk[m].wal) + 1 \in 1..Len(disk[n].wal)
  BY <1>1, LenProperties
<1>3. w \in Seq(Nat) /\ Len(w) = Len(disk[m].wal) + 1
  BY <1>1, <1>2, SubSeqProperties
<1>4. Len(w) <= MaxWal /\ Len(w) \in 1..Len(w) BY <1>1, <1>2, <1>3, NodeLifeAssumption
<1> HIDE DEF w
<1>5. c \in Nat BY <1>3, <1>4, ElementOfSeq
<1> HIDE DEF c
<1>6. d \in Disk /\ d.sys = disk[m].sys /\ d.wal = w
  <2> DEFINE x == disk[m]
  <2>1. x \in Disk BY <1>1
  <2> HIDE DEF x
  <2>2. /\ [x EXCEPT !.wal = w, !.ctl = c] \in Disk
        /\ [x EXCEPT !.wal = w, !.ctl = c].sys = x.sys
        /\ [x EXCEPT !.wal = w, !.ctl = c].wal = w
    BY <1>3, <1>5, <2>1 DEF Disk
  <2> QED BY <2>2 DEF x
<1> HIDE DEF d
<1>7. /\ disk' \in [Node -> Disk] /\ \A k \in Node : Len(disk'[k].wal) <= MaxWal
      /\ disk'[m].sys = disk[m].sys /\ \A k \in Node \ {m} : disk'[k] = disk[k]
  <2>1. Len(d.wal) <= MaxWal BY <1>4, <1>6
  <2> QED BY <1>1, <1>6, <2>1, SetDiskType
<1>8. JobOK(m)' BY <1>1, <1>7 DEF JobOK
<1> QED BY <1>1, <1>7, <1>8, JobStep DEF TypeOK

\* The server of a node dies: its data keep their identifier and their log.
LEMMA ServerDiesType ==
  ASSUME TypeOK, NEW n \in Node, ServerDies(n)
  PROVE /\ srv' \in [Node -> {"down", "replica", "master"}] /\ srv'[n] = "down"
        /\ disk' \in [Node -> Disk] /\ \A k \in Node : Len(disk'[k].wal) <= MaxWal
        /\ disk'[n].sys = disk[n].sys
        /\ \A k \in Node \ {n} : srv'[k] = srv[k] /\ disk'[k] = disk[k]
BY SetSrvType DEF ServerDies, TypeOK

LEMMA CrashServerStep == ASSUME Inv, NEW n \in Node, CrashServer(n) PROVE Inv'
<1>1. /\ TypeOK /\ JobOK(n) /\ ServerDies(n) /\ Event
      /\ UNCHANGED <<init, leader, member, up, mem, pc, view, job, src, asked,
                     how, systems, calm, former, stale>>
  BY DEF Inv, JobInv, CrashServer, dcs, loop, bg, hist
<1>2. JobOK(n)' BY <1>1, ServerDiesType DEF JobOK
<1>3. events' \in 0..MaxEvents BY <1>1, EventType
<1> QED BY <1>1, <1>2, <1>3, ServerDiesType, JobStep DEF TypeOK

LEMMA CrashNodeStep == ASSUME Inv, NEW n \in Node, CrashNode(n) PROVE Inv'
<1>1. /\ TypeOK /\ JobOK(n) /\ ServerDies(n) /\ Event /\ Exit(n) /\ Ends(n)
      /\ calm' = (calm /\ pc[n] # "moving")
      /\ UNCHANGED <<init, leader, member, how, systems, former, stale>>
  BY DEF Inv, JobInv, CrashNode, dcs
<1>2. TypeOK'
  BY <1>1, ServerDiesType, ExitType, EndsType, EventType DEF TypeOK
<1>3. ~mem'[n].boot BY <1>1, ExitType DEF Mem0
<1>4. JobOK(n)' BY <1>1, <1>3, ServerDiesType, ExitType, EndsType DEF JobOK
<1>5. OthersStay(n) BY <1>1, ServerDiesType, ExitType, EndsType DEF OthersStay
<1>6. CASE pc[n] = "moving" BY <1>1, <1>2, <1>4, <1>5, <1>6, OthersJobs DEF Inv
<1>7. CASE pc[n] # "moving"
  <2>1. Quiet(n) BY <1>1, <1>3, <1>5, <1>7, ServerDiesType, ExitType, EndsType DEF Quiet
  <2> QED BY <1>2, <1>4, <2>1, QuietStep DEF Inv
<1> QED BY <1>6, <1>7

LEMMA StartPatroniStep == ASSUME Inv, NEW n \in Node, StartPatroni(n) PROVE Inv'
<1>1. /\ TypeOK /\ JobOK(n) /\ up' = [up EXCEPT ![n] = TRUE]
      /\ UNCHANGED <<init, leader, member, srv, disk, mem, pc, view, job, src, asked,
                     how, systems, events, calm, former, stale>>
  BY DEF Inv, JobInv, StartPatroni, dcs, loop, bg, aux
<1>2. TypeOK' BY <1>1 DEF TypeOK
<1>3. Quiet(n) BY <1>1 DEF Quiet, OthersStay
<1>4. JobOK(n)' BY <1>1 DEF JobOK
<1> QED BY <1>2, <1>3, <1>4, QuietStep DEF Inv

LEMMA KeysExpireStep == ASSUME Inv, NEW n \in Node, KeysExpire(n) PROVE Inv'
<1>1. /\ TypeOK /\ JobOK(n) /\ ReleaseLeader(n) /\ member' = [member EXCEPT ![n] = "absent"]
      /\ UNCHANGED <<init, up, srv, disk, mem, pc, view, job, src, asked,
                     how, systems, events, calm, former, stale>>
  BY DEF Inv, JobInv, KeysExpire, node, loop, bg, aux
<1>2. leader' \in Node \cup {None} /\ leader' \in {leader, None} BY <1>1, ReleaseLeaderType
<1>3. TypeOK' BY <1>1, <1>2 DEF TypeOK
<1>4. Quiet(n) BY <1>1, <1>2 DEF Quiet, OthersStay
<1>5. JobOK(n)' BY <1>1 DEF JobOK
<1> QED BY <1>3, <1>4, <1>5, QuietStep DEF Inv

LEMMA RemoveClusterStep == ASSUME Inv, RemoveCluster PROVE Inv'
<1>1. /\ TypeOK /\ Event /\ init' = NoKey /\ leader' = None
      /\ member' = [n \in Node |-> "absent"] /\ ~calm'
      /\ calm' \in BOOLEAN
      /\ UNCHANGED <<up, srv, disk, mem, pc, view, job, src, asked, how, systems, former, stale>>
  BY DEF Inv, RemoveCluster, node, loop, bg
<1>2. TypeOK' BY <1>1, EventType DEF TypeOK, NoKey
<1>3. JobInv' BY <1>1 DEF Inv, JobInv, JobOK
<1> QED BY <1>1, <1>2, <1>3 DEF Inv

----------------------------------------------------------------------------
\* The theorems.

LEMMA Initially == Init => Inv
<1> SUFFICES ASSUME Init PROVE Inv OBVIOUS
<1>1. /\ pc = [n \in Node |-> "idle"] /\ view = [n \in Node |-> NoView]
      /\ job = [n \in Node |-> "none"] /\ src = [n \in Node |-> NoView]
      /\ asked = [n \in Node |-> FALSE] /\ up = [n \in Node |-> TRUE]
      /\ how \in {"rewind", "reinitialize"} /\ events = 0 /\ calm = TRUE /\ stale = {}
  BY DEF Init
<1>2. /\ pc \in [Node -> Pc] /\ view \in [Node -> View] /\ job \in [Node -> Job]
      /\ src \in [Node -> View] /\ events \in 0..MaxEvents
  BY <1>1, NoViewType, NodeLifeAssumption DEF Pc, Job
<1>3. CASE /\ init = NoKey /\ leader = None /\ systems = 0 /\ former = {}
           /\ member = [n \in Node |-> "replica"]
           /\ srv = [n \in Node |-> "down"] /\ disk = [n \in Node |-> Empty]
           /\ mem = [n \in Node |-> Mem0]
  <2>1. Empty \in Disk /\ Len(Empty.wal) <= MaxWal /\ ~Valid(Empty.sys)
    BY EmptyType, NodeLifeAssumption
  <2>2. disk \in [Node -> Disk] /\ \A n \in Node : Len(disk[n].wal) <= MaxWal
    BY <1>3, <2>1
  <2>3. mem \in [Node -> Memory] BY <1>3, Mem0Type
  <2>4. TypeOK BY <1>1, <1>2, <1>3, <2>2, <2>3 DEF TypeOK, NoKey
  <2>5. ASSUME NEW n \in Node PROVE ~Bootstraps(n) /\ ~Holds(n)
    BY <1>1, <1>3, <2>1 DEF Bootstraps, Holds, Mem0
  <2>6. JobInv BY <1>1, <1>3, <2>1 DEF JobInv, JobOK
  <2>7. KeyInv BY <2>5 DEF KeyInv
  <2>8. ViewInv BY <1>1, <1>3, NoViewType DEF ViewInv, Leads, Valid, NoKey
  <2> QED BY <2>4, <2>6, <2>7, <2>8 DEF Inv
<1>4. CASE /\ init = 2 /\ leader \in Node /\ systems = 1 /\ former = {leader}
           /\ member = [n \in Node |-> IF n = leader THEN "ready" ELSE "replica"]
           /\ srv = [n \in Node |-> IF n = leader THEN "master" ELSE "replica"]
           /\ disk = [n \in Node |-> [sys |-> 2, wal |-> <<1>>, ctl |-> 1, state |-> IF n = leader THEN "dirty" ELSE "standby"]]
           /\ mem = [n \in Node |-> [Mem0 EXCEPT !.cb = TRUE,
                        !.rw = IF n = leader THEN "checkpoint" ELSE "not_need"]]
  <2> DEFINE w == <<1>>
  <2>1. w \in Seq(Nat) /\ Len(w) = 1 OBVIOUS
  <2>2. disk = [n \in Node |-> [sys |-> 2, wal |-> w, ctl |-> 1, state |-> IF n = leader THEN "dirty" ELSE "standby"]]
    BY <1>4
  <2> HIDE DEF w
  <2>3. disk \in [Node -> Disk] /\ \A n \in Node : disk[n].sys = 2 /\ disk[n].wal = w
    BY <2>1, <2>2 DEF Disk
  <2>4. \A n \in Node : Len(disk[n].wal) <= MaxWal
    <3>1. Len(w) <= MaxWal BY <2>1, NodeLifeAssumption
    <3> QED BY <2>3, <3>1
  <2>5. mem \in [Node -> Memory] /\ \A n \in Node : ~mem[n].boot
    BY <1>4 DEF Mem0, Memory
  <2>6. TypeOK BY <1>1, <1>2, <1>4, <2>3, <2>4, <2>5 DEF TypeOK
  <2>7. ASSUME NEW n \in Node PROVE ~Bootstraps(n)
    BY <1>1, <2>5 DEF Bootstraps
  <2>8. JobInv BY <1>1, <2>3, <2>5 DEF JobInv, JobOK, Valid
  <2> init = 2 BY <1>4
  <2> Valid(init) /\ init # NoKey BY DEF Valid, NoKey
  <2>9. KeyInv
    <3>1. \A n \in Node : disk[n].sys = init BY <1>4, <2>3
    <3> QED BY <2>7, <3>1 DEF KeyInv
  <2>10. ViewInv
    <3>1. Leads(leader)
      <4>1. pc[leader] = "idle" BY <1>1, <1>4
      <4> QED BY <4>1 DEF Leads, Moving
    <3> QED BY <1>1, <3>1, NoViewType DEF ViewInv, Leads, Valid, NoKey
  <2> QED BY <2>6, <2>8, <2>9, <2>10 DEF Inv
<1> QED BY <1>3, <1>4 DEF Init

LEMMA Stutters == Inv /\ UNCHANGED vars => Inv'
<1> SUFFICES ASSUME Inv, UNCHANGED vars PROVE Inv' OBVIOUS
<1>1. UNCHANGED <<init, leader, member, up, srv, disk, mem, pc, view, job, src, asked,
                  how, systems, events, calm, former, stale>>
  BY DEF vars, dcs, node, loop, bg, aux
<1>2. TypeOK' BY <1>1 DEF Inv, TypeOK
<1>3. JobInv' BY <1>1 DEF Inv, JobInv, JobOK
<1>4. ASSUME calm' PROVE KeyInv' /\ ViewInv'
  <2> UNCHANGED <<init, leader, srv, disk, mem, pc, view, src, calm>> BY <1>1
  <2>1. KeyInv /\ ViewInv BY <1>4 DEF Inv
  <2> QED BY <2>1 DEF KeyInv, ViewInv, Bootstraps, Holds, Moving, Leads
<1> QED BY <1>2, <1>3, <1>4 DEF Inv

LEMMA NextStep == Inv /\ [Next]_vars => Inv'
<1> SUFFICES ASSUME Inv, Next PROVE Inv' BY Stutters
<1>1. ASSUME NEW n \in Node, Cycle(n) PROVE Inv'
  BY <1>1, LoadStep, LongActionStep, WriteSystemIdStep, PostBootstrapStep, PublishSystemIdStep,
     TakeLeaderStep, CancelInitializationStep, MoveDataDirectoryStep, PostRecoverStep,
     EmptyDirectoryStep, InvalidSystemIdStep, MismatchStep, JoinStep, RecoverStep, LeadStep,
     FollowLeaderStep, RaceStep DEF Cycle
<1>2. ASSUME NEW n \in Node, Background(n) PROVE Inv'
  BY <1>2, InitDbStep, BootstrapEndsStep, PostBootstrapEndsStep, CloneStep, CreateReplicaStep,
     StartServerStep, EnsureCleanShutdownStep, StopForRewindStep, RewindStep, PromoteStep,
     CheckpointStep, DoReinitializeStep DEF Background
<1>3. ASSUME Environment PROVE Inv'
  BY <1>3, CheckReinitializeStep, ReinitializeStep, WriteStep, CrashServerStep, CrashNodeStep,
     StartPatroniStep, KeysExpireStep, ReplicateStep, RemoveClusterStep DEF Environment
<1> QED BY <1>1, <1>2, <1>3 DEF Next

\* One node at a time initializes the cluster, and the key says so meanwhile: for any number
\* of nodes, crashes, failed bootstraps and cancellations.
THEOREM LifeCorrect == Spec => []LifeInv
<1>1. Inv => LifeInv BY DEF Inv, KeyInv, LifeInv
<1> QED BY <1>1, Initially, NextStep, PTL DEF Spec

\* As long as the cluster is not removed there is one system: no node gets data of another
\* one, whatever crashes, copies, rewinds and elections happen.
THEOREM OneSystem == Spec => []OneCluster
<1>1. Inv => OneCluster
  <2> SUFFICES ASSUME Inv, calm, NEW n \in Node, NEW m \in Node, Valid(disk[n].sys),
                      Valid(disk[m].sys), pc[n] # "moving", pc[m] # "moving"
               PROVE disk[n].sys = disk[m].sys /\ (Valid(init) => init = disk[n].sys)
    BY DEF OneCluster
  <2>1. KeyInv /\ Holds(n) /\ Holds(m) BY DEF Inv, Holds, Moving
  <2>2. CASE Valid(init) BY <2>1, <2>2 DEF KeyInv
  <2>3. CASE ~Valid(init) BY <2>1, <2>3 DEF KeyInv
  <2> QED BY <2>2, <2>3
<1> QED BY <1>1, Initially, NextStep, PTL DEF Spec

----------------------------------------------------------------------------
\* A former primary is checked before it follows anybody.

Due == {"check", "need", "failed"}
Starts == {"start", "start standby"}

\* What holds of a former primary from the moment its server is stopped: the start that is
\* under way was asked for together with the check.
FormerOK(n) ==
    /\ srv[n] = "replica" => (mem[n].cb => mem[n].rw \in Due) /\ ~mem[n].boot
                             /\ pc[n] \notin {"publish", "take"}
    /\ job[n] \in Starts => mem[n].rw \in Due /\ ~mem[n].boot

FormerInv == \A n \in former : FormerOK(n)

\* A step of n leaves the other nodes as they are.
OnlyNode(n) == \A k \in Node \ {n} :
    srv'[k] = srv[k] /\ mem'[k] = mem[k] /\ pc'[k] = pc[k] /\ job'[k] = job[k]

\* A step of n that neither starts a server nor finishes the check.
Keeps(n) ==
    /\ srv'[n] \in {srv[n], "down", "master"} /\ (job'[n] = job[n] \/ job'[n] \notin Starts)
    /\ (mem'[n].boot => mem[n].boot) /\ (mem'[n].cb => mem[n].cb)
    /\ mem[n].rw \in Due => mem'[n].rw \in Due
    /\ pc'[n] \in {"publish", "take"} => pc[n] \in {"publish", "take"}

\* The ways in which a step of n keeps it so.
Checks(n) ==
    \/ n \notin former'
    \/ srv'[n] # "replica" /\ job'[n] \notin Starts
    \/ former' \subseteq former /\ Keeps(n)
    \/ FormerOK(n)'

LEMMA FormerNode ==
  ASSUME TypeOK, FormerInv, NEW n \in Node, OnlyNode(n), Checks(n), former' \subseteq former \cup {n}
  PROVE FormerInv'
<1> SUFFICES ASSUME NEW k \in former' PROVE FormerOK(k)' BY DEF FormerInv
<1>1. CASE k # n
  <2>1. k \in Node /\ FormerOK(k) BY <1>1 DEF FormerInv, TypeOK
  <2> QED BY <1>1, <2>1 DEF FormerOK, OnlyNode
<1>2. CASE k = n
  <2>1. CASE srv'[n] # "replica" /\ job'[n] \notin Starts BY <1>2, <2>1 DEF FormerOK
  <2>2. CASE former' \subseteq former /\ Keeps(n)
    <3>1. FormerOK(n) BY <1>2, <2>2 DEF FormerInv
    <3> QED BY <1>2, <2>2, <3>1 DEF FormerOK, Keeps
  <2> QED BY <1>2, <2>1, <2>2 DEF Checks
<1> QED BY <1>1, <1>2

\* The steps that change neither the memory nor a server.
LEMMA FormerLoop ==
  ASSUME Inv, FormerInv, NEW n \in Node,
         \/ Load(n) \/ HandleLongActionInProgress(n) \/ WriteSystemId(n)
         \/ PublishSystemId(n) \/ CancelInitialization(n) \/ InvalidSystemId(n)
         \/ InitDb(n) \/ EnsureCleanShutdown(n) \/ CheckReinitialize(n) \/ Reinitialize(n)
         \/ Write(n) \/ StartPatroni(n) \/ KeysExpire(n)
  PROVE FormerInv'
<1>1. TypeOK BY DEF Inv
<1>2. UNCHANGED <<srv, mem, former>>
  BY DEF Load, HandleLongActionInProgress, WriteSystemId, PublishSystemId, CancelInitialization,
         InvalidSystemId, InitDb, EnsureCleanShutdown, CheckReinitialize, Reinitialize, Write,
         StartPatroni, KeysExpire, node, aux, hist
<1>3. /\ \A k \in Node \ {n} : pc'[k] = pc[k]
      /\ pc'[n] \in {"publish", "take"} => pc[n] \in {"publish", "take"}
  <2>1. \/ UNCHANGED pc \/ Goto(n, "idle") \/ Goto(n, "loaded") \/ Goto(n, "moving")
        \/ Goto(n, "take") /\ pc[n] = "publish"
    BY DEF Load, HandleLongActionInProgress, WriteSystemId, PublishSystemId, CancelInitialization,
           InvalidSystemId, InitDb, EnsureCleanShutdown, CheckReinitialize, Reinitialize, Write,
           StartPatroni, KeysExpire, loop, EndCycle
  <2> QED BY <1>1, <2>1 DEF TypeOK, Goto
<1>4. /\ \A k \in Node \ {n} : job'[k] = job[k]
      /\ job'[n] = job[n] \/ job'[n] \notin Starts
  <2>1. UNCHANGED job \/ Ends(n) \/ RunAsync(n, "reinitialize", Cluster)
    BY DEF Load, HandleLongActionInProgress, WriteSystemId, PublishSystemId, CancelInitialization,
           InvalidSystemId, InitDb, EnsureCleanShutdown, CheckReinitialize, Reinitialize, Write,
           StartPatroni, KeysExpire, bg
  <2> QED BY <1>1, <2>1 DEF TypeOK, RunAsync, Ends, Starts
<1>5. OnlyNode(n) BY <1>2, <1>3, <1>4 DEF OnlyNode
<1>6. Keeps(n) BY <1>2, <1>3, <1>4 DEF Keeps
<1> QED BY <1>1, <1>2, <1>5, <1>6, FormerNode DEF Checks

\* The steps after which the server of n does not run as a standby, and that start none.
LEMMA FormerDown ==
  ASSUME Inv, FormerInv, NEW n \in Node,
         \/ MoveDataDirectory(n) \/ EmptyDirectory(n) \/ Mismatch(n) \/ BootstrapEnds(n)
         \/ Clone(n) \/ StopForRewind(n) \/ DoReinitialize(n) \/ CrashNode(n)
  PROVE FormerInv'
<1>1. TypeOK /\ JobOK(n) BY DEF Inv, JobInv
<1>2. former' \subseteq former \cup {n}
  BY DEF MoveDataDirectory, EmptyDirectory, Mismatch, BootstrapEnds, Clone, StopForRewind,
         DoReinitialize, CrashNode, aux
<1>3. \A k \in Node \ {n} : mem'[k] = mem[k] /\ pc'[k] = pc[k]
  <2>1. \/ UNCHANGED mem \/ \E m : SetMem(n, m)
    BY DEF MoveDataDirectory, EmptyDirectory, Mismatch, BootstrapEnds, Clone, StopForRewind,
           DoReinitialize, CrashNode, Exit
  <2>2. UNCHANGED pc \/ Goto(n, "idle")
    BY DEF MoveDataDirectory, EmptyDirectory, Mismatch, BootstrapEnds, Clone, StopForRewind,
           DoReinitialize, CrashNode, Exit, EndCycle, loop
  <2> QED BY <1>1, <2>1, <2>2 DEF TypeOK, SetMem, Goto
<1>4. \A k \in Node \ {n} : srv'[k] = srv[k]
  <2>1. UNCHANGED srv \/ SetSrv(n, "down") \/ SetSrv(n, "master")
    BY DEF MoveDataDirectory, EmptyDirectory, Mismatch, BootstrapEnds, Clone, StopForRewind,
           DoReinitialize, CrashNode, ShutDown, ServerDies
  <2> QED BY <1>1, <2>1 DEF TypeOK, SetSrv
<1>5. /\ \A k \in Node \ {n} : job'[k] = job[k]
      /\ job'[n] \notin Starts
  <2>1. \/ (UNCHANGED job /\ pc[n] # "idle") \/ Ends(n) \/ Then(n, "pg_rewind") \/ Then(n, "copy")
        \/ Then(n, "clone") \/ RunAsync(n, "clone", view[n]) \/ RunAsync(n, "bootstrap", NoView)
    BY DEF MoveDataDirectory, EmptyDirectory, Mismatch, BootstrapEnds, Clone, StopForRewind,
           DoReinitialize, CrashNode, Rest, Loaded, bg
  <2> QED BY <1>1, <2>1 DEF TypeOK, RunAsync, Ends, Then, Starts, JobOK
<1>6. srv'[n] # "replica" \/ (former' \subseteq former /\ Keeps(n))
  <2>1. CASE SetSrv(n, "down") \/ SetSrv(n, "master") BY <1>1, <2>1 DEF TypeOK, SetSrv
  <2>2. CASE BootstrapEnds(n) /\ UNCHANGED <<srv, former>>
    <3>1. UNCHANGED <<mem, pc>> BY <2>2 DEF BootstrapEnds, loop
    <3> QED BY <1>5, <2>2, <3>1 DEF Keeps
  <2>3. CASE Clone(n)
    <3>1. srv[n] = "down" /\ UNCHANGED srv BY <1>1, <2>3 DEF Clone, Doing, JobOK
    <3> QED BY <3>1
  <2> QED BY <2>1, <2>2, <2>3
    DEF MoveDataDirectory, EmptyDirectory, Mismatch, BootstrapEnds, StopForRewind,
        DoReinitialize, CrashNode, ShutDown, ServerDies
<1>7. OnlyNode(n) BY <1>3, <1>4, <1>5 DEF OnlyNode
<1> QED BY <1>1, <1>2, <1>5, <1>6, <1>7, FormerNode DEF Checks

LEMMA FormerBootstrap ==
  ASSUME Inv, FormerInv, NEW n \in Node, PostBootstrap(n) \/ PostBootstrapEnds(n) \/ TakeLeader(n)
  PROVE FormerInv'
<1>1. TypeOK /\ mem[n] \in Memory BY DEF Inv, TypeOK
<1>2. UNCHANGED <<srv, former>>
  BY DEF PostBootstrap, PostBootstrapEnds, TakeLeader, node, aux, hist
<1>3. /\ \A k \in Node \ {n} : job'[k] = job[k]
      /\ job'[n] = job[n] \/ job'[n] \notin Starts
  <2>1. UNCHANGED job \/ Ends(n) \/ RunAsync(n, "post_bootstrap", NoView)
    BY DEF PostBootstrap, PostBootstrapEnds, TakeLeader, bg
  <2> QED BY <1>1, <2>1 DEF TypeOK, RunAsync, Ends, Starts
<1>4. \A k \in Node \ {n} : pc'[k] = pc[k]
  <2>1. UNCHANGED pc \/ Goto(n, "idle") \/ Goto(n, "cancel") \/ Goto(n, "publish")
    BY DEF PostBootstrap, PostBootstrapEnds, TakeLeader, EndCycle, loop
  <2> QED BY <1>1, <2>1 DEF TypeOK, Goto
<1>5. \A k \in Node \ {n} : mem'[k] = mem[k]
  <2>1. UNCHANGED mem \/ \E m : SetMem(n, m) BY DEF PostBootstrap, PostBootstrapEnds, TakeLeader
  <2> QED BY <1>1, <2>1 DEF TypeOK, SetMem
<1>6. OnlyNode(n) BY <1>2, <1>3, <1>4, <1>5 DEF OnlyNode
<1>7. Checks(n)
  <2> SUFFICES ASSUME n \in former, srv[n] = "replica" \/ job'[n] \in Starts PROVE Keeps(n)
    BY <1>2 DEF Checks
  <2>1. ~mem[n].boot /\ pc[n] \notin {"publish", "take"}
    <3>1. FormerOK(n) BY DEF FormerInv
    <3>2. CASE srv[n] = "replica" BY <3>1, <3>2 DEF FormerOK
    <3>3. CASE job'[n] \in Starts
      <4>1. job[n] \in Starts BY <1>3, <3>3
      <4> QED BY <3>1, <4>1 DEF FormerOK, Starts, Inv, JobInv, JobOK
    <3> QED BY <3>2, <3>3
  <2>2. PICK r \in {"ok", "failed"} : SetMem(n, [mem[n] EXCEPT !.resp = r]) /\ UNCHANGED pc
    BY <2>1 DEF PostBootstrap, PostBootstrapEnds, TakeLeader, loop
  <2>3. /\ [mem[n] EXCEPT !.resp = r].boot = mem[n].boot /\ [mem[n] EXCEPT !.resp = r].cb = mem[n].cb
        /\ [mem[n] EXCEPT !.resp = r].rw = mem[n].rw
    BY <1>1 DEF Memory
  <2>4. mem'[n] = [mem[n] EXCEPT !.resp = r] BY <1>1, <2>2 DEF SetMem, TypeOK
  <2> QED BY <1>2, <1>3, <2>2, <2>3, <2>4 DEF Keeps
<1> QED BY <1>1, <1>2, <1>6, <1>7, FormerNode

LEMMA FormerPostRecover == ASSUME Inv, FormerInv, NEW n \in Node, PostRecover(n) PROVE FormerInv'
<1>1. TypeOK /\ mem[n] \in Memory BY DEF Inv, TypeOK
<1>2. UNCHANGED <<srv, job, former>>
  BY DEF PostRecover, bg, aux
<1>3. /\ \A k \in Node \ {n} : pc'[k] = pc[k]
      /\ pc'[n] \in {"publish", "take"} => pc[n] \in {"publish", "take"}
  <2>1. UNCHANGED pc \/ Goto(n, "idle") BY DEF PostRecover, EndCycle, loop
  <2> QED BY <1>1, <2>1 DEF TypeOK, Goto
<1>4. PICK s \in {"initial", mem[n].rw}, t \in {"none", mem[n].task}, r \in {FALSE, mem[n].tried} :
        /\ SetMem(n, [mem[n] EXCEPT !.recovering = FALSE, !.tried = r, !.rw = s, !.task = t])
        /\ s = "initial" => mem[n].rw \in {"initial", "success"}
  <2>1. CASE srv[n] = "down"
    <3>1. [mem[n] EXCEPT !.recovering = FALSE]
            = [mem[n] EXCEPT !.recovering = FALSE, !.tried = mem[n].tried, !.rw = mem[n].rw,
                             !.task = mem[n].task]
      BY <1>1 DEF Memory
    <3> QED BY <2>1, <3>1 DEF PostRecover
  <2>2. CASE srv[n] # "down" BY <2>2 DEF PostRecover
  <2> QED BY <2>1, <2>2
<1> DEFINE m == [mem[n] EXCEPT !.recovering = FALSE, !.tried = r, !.rw = s, !.task = t]
<1>5. m.boot = mem[n].boot /\ m.cb = mem[n].cb /\ m.rw = s BY <1>1 DEF Memory
<1>6. SetMem(n, m) BY <1>4
<1> HIDE DEF m
<1>7. mem'[n] = m /\ \A k \in Node \ {n} : mem'[k] = mem[k] BY <1>1, <1>6 DEF SetMem, TypeOK
<1>8. OnlyNode(n) BY <1>2, <1>3, <1>7 DEF OnlyNode
<1>9. Keeps(n) BY <1>2, <1>3, <1>4, <1>5, <1>7 DEF Keeps, Due
<1> QED BY <1>1, <1>2, <1>8, <1>9, FormerNode DEF Checks

LEMMA FormerJoin == ASSUME Inv, FormerInv, NEW n \in Node, Join(n) PROVE FormerInv'
<1>1. TypeOK /\ JobOK(n) /\ pc[n] = "loaded" BY DEF Inv, JobInv, Join, Rest, Loaded
<1>2. UNCHANGED <<srv, job, former>> BY DEF Join, bg, aux
<1>3. CASE Exit(n)
  <2>1. /\ mem'[n] = Mem0 /\ pc'[n] = "idle"
        /\ \A k \in Node \ {n} : pc'[k] = pc[k] /\ mem'[k] = mem[k]
    BY <1>1, <1>3, ExitType
  <2>2. ~Mem0.boot /\ ~Mem0.cb BY DEF Mem0
  <2>3. job[n] = "none" BY <1>1 DEF JobOK
  <2>4. OnlyNode(n) BY <1>2, <2>1 DEF OnlyNode
  <2>5. FormerOK(n)' BY <1>2, <2>1, <2>2, <2>3 DEF FormerOK, Starts
  <2> QED BY <1>1, <1>2, <2>4, <2>5, FormerNode DEF Checks
<1>4. CASE UNCHANGED <<mem, pc>>
  <2>1. OnlyNode(n) /\ Keeps(n) BY <1>2, <1>4 DEF OnlyNode, Keeps
  <2> QED BY <1>1, <1>2, <2>1, FormerNode DEF Checks
<1> QED BY <1>3, <1>4 DEF Join

LEMMA FormerRecover == ASSUME Inv, FormerInv, NEW n \in Node, Recover(n) PROVE FormerInv'
<1> DEFINE m == mem[n]
           s == IF leader # n /\ ~Executed(m.rw) THEN Trigger(m.rw) ELSE m.rw
           t == Status(n, leader, s)
           started == [m EXCEPT !.rw = t, !.recovering = TRUE]
<1>1. /\ TypeOK /\ JobOK(n) /\ m \in Memory /\ pc[n] = "loaded" /\ ~m.boot
      /\ srv[n] = "down" /\ EndCycle(n) /\ UNCHANGED srv
  BY DEF Inv, JobInv, TypeOK, Recover, Member, Rest, Loaded, node
<1>2. former' = IF leader = n \/ m.rw = "success" \/ Passes(n, leader, s)
                THEN former \ {n} ELSE former
  BY DEF Recover
<1>3. pc'[n] = "idle" /\ \A k \in Node \ {n} : pc'[k] = pc[k] BY <1>1, EndCycleType
<1>4. \A k \in Node \ {n} : mem'[k] = mem[k] /\ job'[k] = job[k]
  <2>1. (\E x : SetMem(n, x)) /\ (\E a, x : RunAsync(n, a, x)) BY DEF Recover, Start, Repair
  <2> QED BY <1>1, <2>1 DEF SetMem, RunAsync, TypeOK
<1>5. OnlyNode(n) BY <1>1, <1>3, <1>4 DEF OnlyNode
<1>6. Checks(n)
  <2> SUFFICES ASSUME job'[n] \in Starts, n \in former' PROVE FormerOK(n)'
    BY <1>1 DEF Checks
  <2>1. leader # n /\ m.rw # "success" /\ ~Passes(n, leader, s) BY <1>2
  <2>2. s \in Due
    BY <1>1, <2>1 DEF Memory, Executed, Trigger, Due
  <2>3. t \in Due
    <3>1. t \in {s, "need", "not_need"} BY DEF Status, CheckTimelineAndLsn
    <3>2. s = "check" => t # "not_need" BY <2>1 DEF Passes
    <3>3. s # "check" => t = s BY DEF Status, CheckTimelineAndLsn
    <3> QED BY <2>2, <3>1, <3>2, <3>3 DEF Due
  <2>4. SetMem(n, started)
    <3>1. \/ \E x : RunAsync(n, "crash recovery", x) \/ RunAsync(n, "rewind", x)
                    \/ RunAsync(n, "reinitialize", x)
          \/ SetMem(n, started)
      BY DEF Recover, Repair
    <3>2. ~ \E x : RunAsync(n, "crash recovery", x) \/ RunAsync(n, "rewind", x)
                    \/ RunAsync(n, "reinitialize", x)
      BY <1>1 DEF RunAsync, TypeOK, Starts
    <3> QED BY <3>1, <3>2
  <2> HIDE DEF s, t
  <2>5. started.rw = t /\ started.boot = m.boot BY <1>1 DEF Memory
  <2>6. mem'[n] = started BY <1>1, <2>4 DEF SetMem, TypeOK
  <2> HIDE DEF started, m
  <2> QED BY <1>1, <2>3, <2>5, <2>6 DEF FormerOK
<1> QED BY <1>1, <1>2, <1>5, <1>6, FormerNode

\* A demotion asks for the check before the server is started again.
LEMMA FormerDemote ==
  ASSUME Inv, FormerInv, NEW n \in Node, NEW l, ~mem[n].boot, Demote(n, l), EndCycle(n)
  PROVE FormerInv'
<1> DEFINE m == [mem[n] EXCEPT !.rw = Trigger(@)]
<1>1. TypeOK /\ mem[n] \in Memory BY DEF Inv, TypeOK
<1>2. SetMem(n, m) /\ Start(n, l) /\ SetSrv(n, "down") /\ UNCHANGED former
  BY DEF Demote, FirstCycle
<1>3. m.rw \in Due /\ m.boot = mem[n].boot BY <1>1 DEF Memory, Trigger, Due
<1> HIDE DEF m
<1>4. /\ mem'[n] = m /\ srv'[n] = "down"
      /\ \A k \in Node \ {n} : mem'[k] = mem[k] /\ srv'[k] = srv[k] /\ job'[k] = job[k]
      /\ \A k \in Node \ {n} : pc'[k] = pc[k]
  BY <1>1, <1>2, StartType, EndCycleType DEF SetMem, SetSrv, TypeOK
<1>5. FormerOK(n)' BY <1>3, <1>4 DEF FormerOK
<1> QED BY <1>1, <1>2, <1>4, <1>5, FormerNode DEF Checks, OnlyNode

\* A standby follows a leader after the check found nothing, or with the check still to do.
LEMMA FormerFollow ==
  ASSUME Inv, FormerInv, NEW n \in Node, NEW c, pc[n] = "loaded", srv[n] = "replica",
         Follow(n, c), EndCycle(n)
  PROVE FormerInv'
<1> DEFINE s == mem[n].rw
           t == Status(n, c.leader, s)
           need == [mem[n] EXCEPT !.rw = "need"]
           m == [mem[n] EXCEPT !.rw = t]
           f == FirstCycle(n, m, FALSE)
<1>1. /\ TypeOK /\ JobOK(n) /\ mem[n] \in Memory /\ how # "none" /\ job[n] = "none"
      /\ UNCHANGED <<srv, disk>>
      /\ former' = IF Passes(n, c.leader, s) THEN former \ {n} ELSE former
  BY DEF Inv, JobInv, TypeOK, JobOK, Follow
<1>2. \A k \in Node \ {n} : pc'[k] = pc[k] /\ mem'[k] = mem[k] /\ job'[k] = job[k]
  <2>1. (UNCHANGED job \/ \E a, x : RunAsync(n, a, x)) /\ \E x : SetMem(n, x)
    BY DEF Follow, Repair, bg
  <2> QED BY <1>1, <2>1, EndCycleType DEF SetMem, RunAsync, TypeOK
<1>3. OnlyNode(n) BY <1>1, <1>2 DEF OnlyNode
<1>4. job'[n] \notin Starts
  <2>1. UNCHANGED job \/ RunAsync(n, "rewind", c) \/ RunAsync(n, "reinitialize", c)
    BY DEF Follow, Repair, bg
  <2> QED BY <1>1, <2>1 DEF RunAsync, TypeOK, Starts
<1>5. Checks(n)
  <2> SUFFICES ASSUME n \in former' PROVE FormerOK(n)' BY DEF Checks
  <2>1. FormerOK(n) /\ ~Passes(n, c.leader, s) BY <1>1 DEF FormerInv
  <2>2. ~mem[n].boot /\ (mem[n].cb => s \in Due) BY <2>1 DEF FormerOK
  <2>3. pc'[n] = "idle" BY <1>1, EndCycleType
  <2>4. CASE Possible(n, c.leader, s)
    <3>1. SetMem(n, need) BY <2>4 DEF Follow
    <3>2. need.rw \in Due /\ need.boot = mem[n].boot BY <1>1 DEF Memory, Due
    <3>3. mem'[n] = need BY <1>1, <3>1 DEF SetMem, TypeOK
    <3> HIDE DEF need
    <3> QED BY <1>4, <2>2, <2>3, <3>2, <3>3 DEF FormerOK
  <2>5. CASE ~Possible(n, c.leader, s)
    <3>1. SetMem(n, f) BY <2>5 DEF Follow
    <3>2. mem'[n] = f BY <1>1, <3>1 DEF SetMem, TypeOK
    <3>3. t \in {s, "need", "not_need"} /\ (s = "check" => t # "not_need") /\ (s # "check" => t = s)
      BY <2>1 DEF Status, CheckTimelineAndLsn, Passes
    <3> HIDE DEF t
    <3>4. m.rw = t /\ m.boot = mem[n].boot /\ m.cb = mem[n].cb BY <1>1 DEF Memory
    <3>5. ~f.boot /\ f.rw \in Due
      <4>1. CASE mem[n].cb
        <5>1. f = m BY <3>4, <4>1 DEF FirstCycle
        <5> QED BY <2>2, <3>3, <3>4, <4>1, <5>1 DEF Due
      <4>2. CASE ~mem[n].cb
        <5>1. f = [m EXCEPT !.cb = TRUE, !.rw = Trigger(@)]
          BY <1>1, <3>4, <4>2 DEF FirstCycle
        <5>2. f.rw = Trigger(m.rw) /\ f.boot = m.boot
          BY <1>1, <5>1 DEF Memory
        <5> QED BY <2>2, <3>4, <5>2 DEF Due, Trigger
      <4> QED BY <4>1, <4>2
    <3> HIDE DEF f
    <3> QED BY <1>4, <2>3, <3>2, <3>5 DEF FormerOK
  <2> QED BY <2>4, <2>5
<1> QED BY <1>1, <1>3, <1>5, FormerNode

\* A node that has the lock is a primary, or is promoted in the background.
LEMMA FormerLeads ==
  ASSUME Inv, FormerInv, NEW n \in Node, pc[n] = "loaded", EndCycle(n), UNCHANGED <<srv, former>>,
         \/ UNCHANGED <<mem, job>>
         \/ srv[n] = "master" /\ UNCHANGED job /\ \E m : SetMem(n, m)
         \/ RunAsync(n, "promote", NoView) /\ UNCHANGED mem
  PROVE FormerInv'
<1>1. TypeOK /\ job[n] = "none" BY DEF Inv, JobInv, JobOK
<1>2. pc'[n] = "idle" /\ \A k \in Node \ {n} : pc'[k] = pc[k] BY <1>1, EndCycleType
<1>3. OnlyNode(n) BY <1>1, <1>2 DEF OnlyNode, SetMem, RunAsync, TypeOK
<1>4. job'[n] \notin Starts BY <1>1 DEF RunAsync, TypeOK, Starts
<1>5. srv'[n] # "replica" \/ Keeps(n) BY <1>2, <1>4 DEF Keeps
<1> QED BY <1>1, <1>3, <1>4, <1>5, FormerNode DEF Checks

LEMMA FormerCycle ==
  ASSUME Inv, FormerInv, NEW n \in Node, Lead(n) \/ FollowLeader(n) \/ Race(n)
  PROVE FormerInv'
<1>1. /\ TypeOK /\ pc[n] = "loaded" /\ ~mem[n].boot /\ EndCycle(n) /\ srv[n] \in {"replica", "master"}
  BY DEF Inv, TypeOK, Lead, FollowLeader, Race, Member, Rest, Loaded
<1>2. \/ srv[n] # "master" /\ \E c : Follow(n, c)
      \/ \E l : Demote(n, l)
      \/ /\ UNCHANGED <<srv, former>>
         /\ \/ UNCHANGED <<mem, job>>
            \/ srv[n] = "master" /\ UNCHANGED job /\ \E m : SetMem(n, m)
            \/ RunAsync(n, "promote", NoView) /\ UNCHANGED mem
  BY DEF Lead, FollowLeader, Race, DemoteOrFollow, EnforceMasterRole, bg
<1> QED BY <1>1, <1>2, FormerDemote, FormerFollow, FormerLeads

LEMMA FormerStartServer == ASSUME Inv, FormerInv, NEW n \in Node, StartServer(n) PROVE FormerInv'
<1>1. TypeOK /\ JobOK(n) /\ job[n] \in Starts BY DEF Inv, JobInv, StartServer, Starts
<1>2. /\ UNCHANGED <<mem, pc>> /\ Ends(n) /\ former' \subseteq former \cup {n}
      /\ \/ SetSrv(n, "replica") /\ UNCHANGED former
         \/ SetSrv(n, "master")
         \/ UNCHANGED <<srv, former>>
  BY DEF StartServer, loop
<1>3. job'[n] = "none" /\ \A k \in Node \ {n} : job'[k] = job[k] BY <1>1, <1>2, EndsType
<1>4. OnlyNode(n) BY <1>1, <1>2, <1>3 DEF OnlyNode, SetSrv, TypeOK
<1>5. Checks(n)
  <2>1. CASE SetSrv(n, "replica") /\ UNCHANGED former
    <3> SUFFICES ASSUME n \in former PROVE FormerOK(n)' BY <2>1 DEF Checks
    <3>1. mem[n].rw \in Due /\ ~mem[n].boot BY <1>1 DEF FormerInv, FormerOK
    <3>2. pc[n] = "idle" BY <1>1 DEF JobOK, Starts
    <3> QED BY <1>2, <1>3, <3>1, <3>2 DEF FormerOK, Starts
  <2>2. CASE SetSrv(n, "master") BY <1>1, <1>3, <2>2 DEF Checks, SetSrv, TypeOK, Starts
  <2>3. CASE UNCHANGED <<srv, former>> BY <1>2, <1>3, <2>3 DEF Checks, Keeps, Starts
  <2> QED BY <1>2, <2>1, <2>2, <2>3
<1> QED BY <1>1, <1>2, <1>4, <1>5, FormerNode

\* The repair, the copy and the promotion.
LEMMA FormerRepair ==
  ASSUME Inv, FormerInv, NEW n \in Node, CreateReplica(n) \/ Rewind(n) \/ Promote(n)
  PROVE FormerInv'
<1>1. TypeOK /\ JobOK(n) BY DEF Inv, JobInv
<1>2. UNCHANGED pc /\ former' \subseteq former \cup {n}
  BY DEF CreateReplica, Rewind, Promote, loop
<1>3. \A k \in Node \ {n} : mem'[k] = mem[k] /\ srv'[k] = srv[k] /\ job'[k] = job[k]
  <2>1. UNCHANGED mem \/ \E m : SetMem(n, m) BY DEF CreateReplica, Rewind, Promote
  <2>2. UNCHANGED srv \/ \E s : SetSrv(n, s) BY DEF CreateReplica, Rewind, Promote
  <2>3. \E a, x : RunAsync(n, a, x) BY DEF CreateReplica, Rewind, Promote, Ends, Start
  <2> QED BY <1>1, <2>1, <2>2, <2>3 DEF SetMem, SetSrv, RunAsync, TypeOK
<1>4. OnlyNode(n) BY <1>2, <1>3 DEF OnlyNode
<1>5. CASE CreateReplica(n)
  <2>1. srv[n] = "down" /\ UNCHANGED srv BY <1>1, <1>5 DEF CreateReplica, Doing, JobOK
  <2>2. former' = former \ {n} \/ Ends(n) BY <1>5 DEF CreateReplica
  <2>3. Checks(n) BY <1>1, <2>1, <2>2, EndsType DEF Checks, Starts
  <2> QED BY <1>1, <1>2, <1>4, <2>3, FormerNode
<1>6. CASE Rewind(n)
  <2>1. srv[n] = "down" /\ UNCHANGED srv /\ Ends(n) BY <1>1, <1>6 DEF Rewind, Doing, JobOK
  <2>2. Checks(n) BY <1>1, <2>1, EndsType DEF Checks, Starts
  <2> QED BY <1>1, <1>2, <1>4, <2>2, FormerNode
<1>7. CASE Promote(n)
  <2>1. Ends(n) /\ (SetSrv(n, "master") \/ UNCHANGED <<srv, mem, former>>) BY <1>7 DEF Promote
  <2>2. job'[n] = "none" BY <1>1, <2>1, EndsType
  <2>3. srv'[n] = "master" \/ UNCHANGED <<srv, mem, former>> BY <1>1, <2>1 DEF SetSrv, TypeOK
  <2>4. Checks(n) BY <1>2, <2>2, <2>3 DEF Checks, Keeps, Starts
  <2> QED BY <1>1, <1>2, <1>4, <2>4, FormerNode
<1> QED BY <1>5, <1>6, <1>7

LEMMA FormerCheckpoint == ASSUME Inv, FormerInv, NEW n \in Node, Checkpoint(n) PROVE FormerInv'
<1>1. TypeOK /\ mem[n] \in Memory /\ UNCHANGED <<srv, pc, job, former>>
  BY DEF Inv, TypeOK, Checkpoint, loop, bg, aux
<1>2. PICK t \in {"done", "failed"} : SetMem(n, [mem[n] EXCEPT !.task = t]) BY DEF Checkpoint
<1> DEFINE m == [mem[n] EXCEPT !.task = t]
<1>3. m.boot = mem[n].boot /\ m.cb = mem[n].cb /\ m.rw = mem[n].rw BY <1>1 DEF Memory
<1>4. SetMem(n, m) BY <1>2
<1> HIDE DEF m
<1>5. mem'[n] = m /\ \A k \in Node \ {n} : mem'[k] = mem[k] BY <1>1, <1>4 DEF SetMem, TypeOK
<1>6. OnlyNode(n) /\ Keeps(n) BY <1>1, <1>3, <1>5 DEF OnlyNode, Keeps
<1> QED BY <1>1, <1>6, FormerNode DEF Checks

LEMMA FormerEnvironment ==
  ASSUME Inv, FormerInv,
         \/ \E n \in Node : CrashServer(n) \/ \E m \in Node : Replicate(n, m)
         \/ RemoveCluster
  PROVE FormerInv'
<1>1. TypeOK BY DEF Inv
<1>2. CASE (\E n, m \in Node : Replicate(n, m)) \/ RemoveCluster
  <2>1. UNCHANGED <<srv, mem, pc, job, former>>
    BY <1>2 DEF Replicate, RemoveCluster, loop, bg, aux, node
  <2> QED BY <2>1 DEF FormerInv, FormerOK
<1>3. ASSUME NEW n \in Node, CrashServer(n) PROVE FormerInv'
  <2>1. SetSrv(n, "down") /\ UNCHANGED <<mem, pc, job, former>>
    BY <1>3 DEF CrashServer, ServerDies, loop, bg, hist
  <2>2. OnlyNode(n) /\ Keeps(n) BY <1>1, <2>1 DEF OnlyNode, Keeps, SetSrv, TypeOK
  <2> QED BY <1>1, <2>1, <2>2, FormerNode DEF Checks
<1> QED BY <1>2, <1>3

LEMMA FormerNext == Inv /\ FormerInv /\ [Next]_vars => FormerInv'
<1> SUFFICES ASSUME Inv, FormerInv, [Next]_vars PROVE FormerInv' OBVIOUS
<1>1. CASE UNCHANGED vars
  <2>1. UNCHANGED <<srv, mem, pc, job, former>> BY <1>1 DEF vars, node, loop, bg, aux
  <2> QED BY <2>1 DEF FormerInv, FormerOK
<1>2. ASSUME NEW n \in Node, Cycle(n) PROVE FormerInv'
  BY <1>2, FormerLoop, FormerDown, FormerBootstrap, FormerPostRecover, FormerJoin, FormerRecover,
     FormerCycle DEF Cycle
<1>3. ASSUME NEW n \in Node, Background(n) PROVE FormerInv'
  BY <1>3, FormerLoop, FormerDown, FormerBootstrap, FormerStartServer, FormerRepair,
     FormerCheckpoint DEF Background
<1>4. ASSUME Environment PROVE FormerInv'
  BY <1>4, FormerLoop, FormerDown, FormerEnvironment DEF Environment
<1> QED BY <1>1, <1>2, <1>3, <1>4 DEF Next

\* A node that was a primary and runs as a standby is to be checked or repaired from its
\* first cycle on: a crash, a demotion, a failed start or a new Patroni process never let it
\* follow a leader on a log that nobody has compared.
THEOREM FormerCorrect == Spec => []FormerIsChecked
<1>1. Init => FormerInv
  <2> SUFFICES ASSUME Init, NEW n \in former PROVE FormerOK(n) BY DEF FormerInv
  <2>1. former = {leader} /\ leader \in Node
        /\ srv = [k \in Node |-> IF k = leader THEN "master" ELSE "replica"]
        /\ job = [k \in Node |-> "none"]
    BY DEF Init
  <2>2. srv[n] = "master" /\ job[n] = "none" BY <2>1
  <2> QED BY <2>2 DEF FormerOK, Starts
<1>2. FormerInv => FormerIsChecked BY DEF FormerInv, FormerOK, FormerIsChecked, Due
<1> QED BY <1>1, <1>2, Initially, NextStep, FormerNext, PTL DEF Spec

----------------------------------------------------------------------------
\* The control file of a leader that says it is ready shows its timeline.

Checkpointed(l) == srv[l] = "master" => disk[l].ctl = Tl(l)

\* What a node has read of its leader still says that it can be rewound from.
MayRewindFrom(v) == v.ready = "ready" => v.leader \in Node /\ Checkpointed(v.leader)

RewindOK(n) ==
    /\ job[n] \in {"promote", "rewind", "pg_rewind"} => srv[n] # "master" /\ member[n] # "ready"
    /\ job[n] \in {"rewind", "pg_rewind"} => Valid(disk[n].sys)
    /\ job[n] \in {"bootstrap", "crash recovery"} => srv[n] = "down"
    /\ job[n] = "none" => src[n] = NoView
    /\ mem[n].rw = "checkpoint" \/ mem[n].task = "done" \/ member[n] = "ready" => Checkpointed(n)
    /\ srv[n] # "down" => disk[n].state # "clean"
    /\ disk[n].state = "clean" /\ Valid(disk[n].sys) => disk[n].ctl = Tl(n)

SourceOK(n) == n \notin stale => MayRewindFrom(view[n]) /\ MayRewindFrom(src[n])

RewindInv == \A n \in Node : RewindOK(n) /\ SourceOK(n)

Elsewhere(n) == \A k \in Node \ {n} :
    /\ srv'[k] = srv[k] /\ disk'[k] = disk[k] /\ mem'[k] = mem[k] /\ member'[k] = member[k]
    /\ job'[k] = job[k] /\ src'[k] = src[k] /\ view'[k] = view[k]
    /\ k \in stale => k \in stale'

StaysCheckpointed(n) == Checkpointed(n) => Checkpointed(n)'

LEMMA RewindNode ==
  ASSUME RewindInv, NEW n \in Node, Elsewhere(n), RewindOK(n)', SourceOK(n)',
         \/ StaysCheckpointed(n)
         \/ \A k \in Node : n \in {view[k].leader, src[k].leader} => k \in stale'
  PROVE RewindInv'
<1> SUFFICES ASSUME NEW k \in Node, k # n PROVE RewindOK(k)' /\ SourceOK(k)' BY DEF RewindInv
<1>1. RewindOK(k) /\ SourceOK(k) BY DEF RewindInv
<1>2. ASSUME NEW l \in Node, l # n PROVE Checkpointed(l)' <=> Checkpointed(l)
  BY <1>2 DEF Elsewhere, Checkpointed, Tl
<1>3. RewindOK(k)' BY <1>1, <1>2 DEF RewindOK, Elsewhere, Tl
<1>4. SourceOK(k)'
  <2> SUFFICES ASSUME k \notin stale' PROVE MayRewindFrom(view[k])' /\ MayRewindFrom(src[k])'
    BY DEF SourceOK
  <2>1. /\ MayRewindFrom(view[k]) /\ MayRewindFrom(src[k])
        /\ view'[k] = view[k] /\ src'[k] = src[k]
    BY <1>1 DEF SourceOK, Elsewhere
  <2>2. ASSUME NEW v \in {view[k], src[k]}, v.ready = "ready" PROVE v.leader \in Node /\ Checkpointed(v.leader)'
    <3>1. v.leader \in Node /\ Checkpointed(v.leader) BY <2>1, <2>2 DEF MayRewindFrom
    <3>2. CASE v.leader = n BY <3>1, <3>2 DEF StaysCheckpointed
    <3>3. CASE v.leader # n BY <1>2, <3>1, <3>3
    <3> QED BY <3>1, <3>2, <3>3
  <2> QED BY <2>1, <2>2 DEF MayRewindFrom
<1> QED BY <1>3, <1>4

\* Whoever is ready has its checkpoint, also in what a node reads now.
LEMMA ClusterReady == ASSUME TypeOK, RewindInv PROVE MayRewindFrom(Cluster)
BY DEF RewindInv, RewindOK, MayRewindFrom, Cluster, TypeOK

\* What a step of n leaves to it: what it had read or given, or what it reads now.
Reads(n) ==
    \/ /\ n \in stale => n \in stale'
       /\ \E v \in {NoView, Cluster, view[n]} : view'[n].leader = v.leader /\ view'[n].ready = v.ready
       /\ src'[n] \in {NoView, Cluster, view[n], src[n]}
    \/ view'[n] \in {NoView, Cluster} /\ src'[n] \in {NoView, Cluster}

LEMMA ReadsOK ==
  ASSUME TypeOK, RewindInv, NEW n \in Node, Reads(n), Elsewhere(n), StaysCheckpointed(n)
  PROVE SourceOK(n)'
<1> SUFFICES ASSUME n \notin stale' PROVE MayRewindFrom(view[n])' /\ MayRewindFrom(src[n])'
  BY DEF SourceOK
<1>1. ASSUME NEW v, MayRewindFrom(v) PROVE v.ready = "ready" => v.leader \in Node /\ Checkpointed(v.leader)'
  <2> SUFFICES ASSUME v.ready = "ready" PROVE v.leader \in Node /\ Checkpointed(v.leader)' OBVIOUS
  <2>1. v.leader \in Node /\ Checkpointed(v.leader) BY <1>1 DEF MayRewindFrom
  <2>2. CASE v.leader = n BY <2>1, <2>2 DEF StaysCheckpointed
  <2>3. CASE v.leader # n BY <2>1, <2>3 DEF Elsewhere, Checkpointed, Tl
  <2> QED BY <2>1, <2>2, <2>3
<1>2. MayRewindFrom(NoView) BY DEF MayRewindFrom, NoView
<1>3. MayRewindFrom(Cluster) BY ClusterReady
<1>4. CASE n \notin stale
  <2>1. MayRewindFrom(view[n]) /\ MayRewindFrom(src[n]) BY <1>4 DEF RewindInv, SourceOK
  <2>2. MayRewindFrom(src[n])'
    <3>1. src'[n] \in {NoView, Cluster, view[n], src[n]} BY DEF Reads
    <3>2. MayRewindFrom(src'[n]) BY <1>2, <1>3, <2>1, <3>1
    <3> QED BY <1>1, <3>2 DEF MayRewindFrom
  <2>3. PICK v \in {NoView, Cluster, view[n]} : view'[n].leader = v.leader /\ view'[n].ready = v.ready
    BY DEF Reads
  <2>4. MayRewindFrom(v) BY <1>2, <1>3, <2>1, <2>3
  <2>5. MayRewindFrom(view[n])' BY <1>1, <2>3, <2>4 DEF MayRewindFrom
  <2> QED BY <2>2, <2>5
<1>5. CASE n \in stale
  <2>1. view'[n] \in {NoView, Cluster} /\ src'[n] \in {NoView, Cluster} BY <1>5 DEF Reads
  <2>2. MayRewindFrom(view'[n]) /\ MayRewindFrom(src'[n]) BY <1>2, <1>3, <2>1
  <2> QED BY <1>1, <2>2 DEF MayRewindFrom
<1> QED BY <1>4, <1>5

\* A step of n that leaves its data alone, starts no server and ends no checkpoint.
LeavesData(n) ==
    /\ UNCHANGED disk /\ srv'[n] \in {srv[n], "down"}
    /\ mem'[n].rw = "checkpoint" => mem[n].rw = "checkpoint" \/ mem[n].task = "done"
    /\ mem'[n].task = "done" => mem[n].task = "done"
    /\ \/ member'[n] \in {member[n], "absent", "replica", "wait"}
       \/ srv'[n] = "master" /\ mem'[n].rw = "checkpoint"
    /\ \/ job'[n] = job[n] /\ src'[n] = src[n]
       \/ job'[n] = "none" /\ src'[n] = NoView
       \/ job'[n] \in {"promote", "rewind"} /\ srv'[n] # "master" /\ member'[n] # "ready"
          /\ Valid(disk[n].sys)
       \/ job'[n] \in {"bootstrap", "crash recovery"} /\ srv'[n] = "down"
       \/ job'[n] \in {"post_bootstrap", "clone", "start", "start standby", "reinitialize"}

LEMMA LeavesDataStep ==
  ASSUME TypeOK, RewindInv, NEW n \in Node, LeavesData(n), Reads(n), Elsewhere(n)
  PROVE RewindInv'
<1>1. RewindOK(n) BY DEF RewindInv
<1>2. Tl(n)' = Tl(n) /\ disk' = disk BY DEF LeavesData, Tl
<1>3. StaysCheckpointed(n) BY <1>2 DEF LeavesData, StaysCheckpointed, Checkpointed
<1>4. RewindOK(n)'
  <2>1. /\ job'[n] \in {"promote", "rewind", "pg_rewind"} => srv'[n] # "master" /\ member'[n] # "ready"
        /\ job'[n] \in {"rewind", "pg_rewind"} => Valid(disk'[n].sys)
        /\ job'[n] \in {"bootstrap", "crash recovery"} => srv'[n] = "down"
        /\ job'[n] = "none" => src'[n] = NoView
    BY <1>1, <1>2 DEF LeavesData, RewindOK
  <2>2. mem'[n].rw = "checkpoint" \/ mem'[n].task = "done" \/ member'[n] = "ready" => Checkpointed(n)'
    BY <1>1, <1>3 DEF LeavesData, RewindOK, StaysCheckpointed
  <2>3. /\ srv'[n] # "down" => disk'[n].state # "clean"
        /\ disk'[n].state = "clean" /\ Valid(disk'[n].sys) => disk'[n].ctl = Tl(n)'
    BY <1>1, <1>2 DEF LeavesData, RewindOK
  <2> QED BY <2>1, <2>2, <2>3 DEF RewindOK
<1>5. SourceOK(n)' BY <1>3, ReadsOK
<1> QED BY <1>3, <1>4, <1>5, RewindNode

\* What touch_member may write.
LEMMA TouchedMember ==
  ASSUME TypeOK, NEW n \in Node, TouchMember(n)
  PROVE /\ \A k \in Node \ {n} : member'[k] = member[k]
        /\ member'[n] \in {"replica", "wait"} \/ (srv'[n] = "master" /\ mem'[n].rw = "checkpoint")
        /\ srv'[n] # "master" => member'[n] = "replica"
BY DEF TypeOK, TouchMember

\* The steps of the loop and of the interfaces that change neither servers nor the memory.
LEMMA RewindLoop ==
  ASSUME Inv, RewindInv, NEW n \in Node,
         \/ Load(n) \/ HandleLongActionInProgress(n) \/ WriteSystemId(n)
         \/ PublishSystemId(n) \/ CancelInitialization(n) \/ InvalidSystemId(n)
         \/ CheckReinitialize(n) \/ Reinitialize(n) \/ StartPatroni(n) \/ KeysExpire(n)
  PROVE RewindInv'
<1>1. TypeOK /\ view[n] \in View /\ RewindOK(n) BY DEF Inv, TypeOK, RewindInv
<1>2. UNCHANGED <<srv, disk, mem>>
  BY DEF Load, HandleLongActionInProgress, WriteSystemId, PublishSystemId, CancelInitialization,
         InvalidSystemId, CheckReinitialize, Reinitialize, StartPatroni, KeysExpire, node
<1>3. /\ \A k \in Node \ {n} : member'[k] = member[k]
      /\ \/ member'[n] \in {member[n], "absent", "replica", "wait"}
         \/ srv'[n] = "master" /\ mem'[n].rw = "checkpoint"
  <2>1. UNCHANGED member \/ TouchMember(n) \/ member' = [member EXCEPT ![n] = "absent"]
    BY DEF Load, HandleLongActionInProgress, WriteSystemId, PublishSystemId, CancelInitialization,
           InvalidSystemId, CheckReinitialize, Reinitialize, StartPatroni, KeysExpire, dcs, EndCycle
  <2> QED BY <1>1, <2>1, TouchedMember DEF TypeOK
<1>4. /\ \A k \in Node \ {n} : job'[k] = job[k] /\ src'[k] = src[k]
      /\ \/ job'[n] = job[n] /\ src'[n] = src[n]
         \/ job'[n] = "reinitialize" /\ src'[n] = Cluster
  <2>1. UNCHANGED <<job, src>> \/ RunAsync(n, "reinitialize", Cluster)
    BY DEF Load, HandleLongActionInProgress, WriteSystemId, PublishSystemId, CancelInitialization,
           InvalidSystemId, CheckReinitialize, Reinitialize, StartPatroni, KeysExpire, bg
  <2> QED BY <1>1, <2>1 DEF RunAsync, TypeOK
<1>5. /\ \A k \in Node \ {n} : view'[k] = view[k] /\ (k \in stale => k \in stale')
      /\ Reads(n)
  <2>1. CASE Load(n)
    <3>1. view' = [view EXCEPT ![n] = Cluster] /\ stale' = stale \ {n} /\ src' = src /\ job[n] = "none"
      BY <2>1 DEF Load, bg
    <3>2. src'[n] = NoView BY <1>1, <3>1 DEF RewindOK
    <3> QED BY <1>1, <3>1, <3>2 DEF Reads, TypeOK
  <2>2. CASE ~Load(n)
    <3>1. UNCHANGED stale
      BY <2>2 DEF HandleLongActionInProgress, WriteSystemId, PublishSystemId, CancelInitialization,
             InvalidSystemId, CheckReinitialize, Reinitialize, StartPatroni, KeysExpire, aux, hist
    <3>2. \/ UNCHANGED view \/ view' = [view EXCEPT ![n] = NoView]
          \/ view' = [view EXCEPT ![n].init = disk[n].sys]
      BY <2>2 DEF HandleLongActionInProgress, WriteSystemId, PublishSystemId, CancelInitialization,
             InvalidSystemId, CheckReinitialize, Reinitialize, StartPatroni, KeysExpire, loop, EndCycle
    <3>3. \A k \in Node \ {n} : view'[k] = view[k] BY <1>1, <3>2 DEF TypeOK
    <3>4. \E v \in {NoView, Cluster, view[n]} : view'[n].leader = v.leader /\ view'[n].ready = v.ready
      <4>1. view'[n] \in {NoView, view[n], [view[n] EXCEPT !.init = disk[n].sys]}
        BY <1>1, <3>2 DEF TypeOK
      <4>2. /\ [view[n] EXCEPT !.init = disk[n].sys].leader = view[n].leader
            /\ [view[n] EXCEPT !.init = disk[n].sys].ready = view[n].ready
        BY <1>1 DEF View
      <4> QED BY <4>1, <4>2
    <3> QED BY <1>4, <3>1, <3>3, <3>4 DEF Reads
  <2> QED BY <2>1, <2>2
<1>6. LeavesData(n) BY <1>2, <1>3, <1>4 DEF LeavesData
<1>7. Elsewhere(n) BY <1>2, <1>3, <1>4, <1>5 DEF Elsewhere
<1> QED BY <1>1, <1>5, <1>6, <1>7, LeavesDataStep

\* The steps that end a cycle, a bootstrap or a process without touching the data.
LEMMA RewindMemory ==
  ASSUME Inv, RewindInv, NEW n \in Node,
         \/ PostBootstrap(n) \/ PostBootstrapEnds(n) \/ TakeLeader(n) \/ PostRecover(n)
         \/ Join(n) \/ EmptyDirectory(n) \/ DoReinitialize(n) \/ CrashServer(n) \/ CrashNode(n)
  PROVE RewindInv'
<1>1. TypeOK /\ mem[n] \in Memory /\ view[n] \in View /\ RewindOK(n) /\ JobOK(n)
  BY DEF Inv, TypeOK, RewindInv, JobInv
<1>2. UNCHANGED <<disk, stale>>
  BY DEF PostBootstrap, PostBootstrapEnds, TakeLeader, PostRecover, Join, EmptyDirectory,
         DoReinitialize, CrashServer, CrashNode, ServerDies, node, aux, hist
<1>3. srv'[n] \in {srv[n], "down"} /\ \A k \in Node \ {n} : srv'[k] = srv[k]
  <2>1. UNCHANGED srv \/ SetSrv(n, "down")
    BY DEF PostBootstrap, PostBootstrapEnds, TakeLeader, PostRecover, Join, EmptyDirectory,
           DoReinitialize, CrashServer, CrashNode, ServerDies, node
  <2> QED BY <1>1, <2>1 DEF SetSrv, TypeOK
<1>4. /\ mem'[n].rw = "checkpoint" => mem[n].rw = "checkpoint"
      /\ mem'[n].task = "done" => mem[n].task = "done"
      /\ \A k \in Node \ {n} : mem'[k] = mem[k]
  <2>1. CASE PostRecover(n)
    <3>1. \/ SetMem(n, [mem[n] EXCEPT !.recovering = FALSE])
          \/ \E s \in {"initial", mem[n].rw}, t \in {"none", mem[n].task} :
               SetMem(n, [mem[n] EXCEPT !.recovering = FALSE, !.tried = FALSE, !.rw = s, !.task = t])
      BY <2>1 DEF PostRecover
    <3>2. PICK m : /\ SetMem(n, m) /\ m.rw \in {"initial", mem[n].rw}
                   /\ m.task \in {"none", mem[n].task}
      <4>1. [mem[n] EXCEPT !.recovering = FALSE].rw = mem[n].rw
            /\ [mem[n] EXCEPT !.recovering = FALSE].task = mem[n].task
        BY <1>1 DEF Memory
      <4>2. ASSUME NEW s \in {"initial", mem[n].rw}, NEW t \in {"none", mem[n].task}
            PROVE LET m == [mem[n] EXCEPT !.recovering = FALSE, !.tried = FALSE, !.rw = s, !.task = t]
                  IN m.rw = s /\ m.task = t
        BY <1>1 DEF Memory
      <4> QED BY <3>1, <4>1, <4>2
    <3>3. mem'[n] = m /\ \A k \in Node \ {n} : mem'[k] = mem[k]
      BY <1>1, <3>2 DEF SetMem, TypeOK
    <3> QED BY <3>2, <3>3
  <2>2. CASE ~PostRecover(n)
    <3>1. \/ UNCHANGED mem \/ SetMem(n, Mem0)
          \/ \E r \in {"ok", "failed"} : SetMem(n, [mem[n] EXCEPT !.resp = r])
          \/ SetMem(n, [mem[n] EXCEPT !.boot = FALSE])
          \/ SetMem(n, [mem[n] EXCEPT !.cb = TRUE])
          \/ SetMem(n, [mem[n] EXCEPT !.boot = TRUE, !.resp = "none"])
      BY <2>2 DEF PostBootstrap, PostBootstrapEnds, TakeLeader, Join, EmptyDirectory,
             DoReinitialize, CrashServer, CrashNode, Exit
    <3>2. Mem0.rw = "initial" /\ Mem0.task = "none" BY DEF Mem0
    <3>3. CASE UNCHANGED mem BY <3>3
    <3>4. CASE ~ UNCHANGED mem
      <4>1. PICK m : SetMem(n, m) /\ (m = Mem0 \/ (m.rw = mem[n].rw /\ m.task = mem[n].task))
        <5>1. ASSUME NEW r PROVE /\ [mem[n] EXCEPT !.resp = r].rw = mem[n].rw
                                 /\ [mem[n] EXCEPT !.resp = r].task = mem[n].task
          BY <1>1 DEF Memory
        <5>2. ASSUME NEW b PROVE /\ [mem[n] EXCEPT !.boot = b].rw = mem[n].rw
                                 /\ [mem[n] EXCEPT !.boot = b].task = mem[n].task
          BY <1>1 DEF Memory
        <5>3. /\ [mem[n] EXCEPT !.cb = TRUE].rw = mem[n].rw
              /\ [mem[n] EXCEPT !.cb = TRUE].task = mem[n].task
          BY <1>1 DEF Memory
        <5>4. /\ [mem[n] EXCEPT !.boot = TRUE, !.resp = "none"].rw = mem[n].rw
              /\ [mem[n] EXCEPT !.boot = TRUE, !.resp = "none"].task = mem[n].task
          BY <1>1 DEF Memory
        <5> QED BY <3>1, <3>4, <5>1, <5>2, <5>3, <5>4
      <4>2. mem'[n] = m /\ \A k \in Node \ {n} : mem'[k] = mem[k]
        BY <1>1, <4>1 DEF SetMem, TypeOK
      <4> QED BY <3>2, <4>1, <4>2
    <3> QED BY <3>3, <3>4
  <2> QED BY <2>1, <2>2
<1>5. /\ \A k \in Node \ {n} : member'[k] = member[k]
      /\ \/ member'[n] \in {member[n], "absent", "replica", "wait"}
         \/ srv'[n] = "master" /\ mem'[n].rw = "checkpoint"
  <2>1. UNCHANGED member \/ TouchMember(n)
    BY DEF PostBootstrap, PostBootstrapEnds, TakeLeader, PostRecover, Join, EmptyDirectory,
           DoReinitialize, CrashServer, CrashNode, dcs, EndCycle
  <2> QED BY <1>1, <2>1, TouchedMember DEF TypeOK
<1>6. /\ \A k \in Node \ {n} : job'[k] = job[k] /\ src'[k] = src[k]
      /\ \/ job'[n] = job[n] /\ src'[n] = src[n]
         \/ job'[n] = "none" /\ src'[n] = NoView
         \/ job'[n] = "bootstrap" /\ src'[n] = NoView /\ srv'[n] = "down"
         \/ job'[n] \in {"post_bootstrap", "clone"} /\ src'[n] \in {NoView, view[n], src[n]}
  <2>1. \/ UNCHANGED <<job, src>> \/ Ends(n)
        \/ RunAsync(n, "post_bootstrap", NoView) \/ RunAsync(n, "clone", view[n])
        \/ (RunAsync(n, "bootstrap", NoView) /\ SetSrv(n, "down")) \/ Then(n, "clone")
    BY DEF PostBootstrap, PostBootstrapEnds, TakeLeader, PostRecover, Join, EmptyDirectory,
           DoReinitialize, CrashServer, CrashNode, bg
  <2> QED BY <1>1, <2>1 DEF RunAsync, Ends, Then, SetSrv, TypeOK
<1>7. /\ \A k \in Node \ {n} : view'[k] = view[k]
      /\ \E v \in {NoView, view[n]} : view'[n].leader = v.leader /\ view'[n].ready = v.ready
  <2>1. \/ UNCHANGED view \/ view' = [view EXCEPT ![n] = NoView]
        \/ view' = [view EXCEPT ![n].init = disk[n].sys]
    BY DEF PostBootstrap, PostBootstrapEnds, TakeLeader, PostRecover, Join, EmptyDirectory,
           DoReinitialize, CrashServer, CrashNode, loop, EndCycle, Exit
  <2>2. view'[n] \in {NoView, view[n], [view[n] EXCEPT !.init = disk[n].sys]}
        /\ \A k \in Node \ {n} : view'[k] = view[k]
    BY <1>1, <2>1 DEF TypeOK
  <2>3. /\ [view[n] EXCEPT !.init = disk[n].sys].leader = view[n].leader
        /\ [view[n] EXCEPT !.init = disk[n].sys].ready = view[n].ready
    BY <1>1 DEF View
  <2> QED BY <2>2, <2>3
<1>8. Reads(n) BY <1>2, <1>6, <1>7 DEF Reads
<1>9. LeavesData(n) BY <1>2, <1>3, <1>4, <1>5, <1>6 DEF LeavesData
<1>10. Elsewhere(n) BY <1>2, <1>3, <1>4, <1>5, <1>6, <1>7 DEF Elsewhere
<1> QED BY <1>1, <1>8, <1>9, <1>10, LeavesDataStep

\* What the status of a node may become: a checkpoint never by a check.
LEMMA StatusKeeps ==
  ASSUME NEW n, NEW l, NEW s
  PROVE /\ Status(n, l, s) = "checkpoint" => s = "checkpoint"
        /\ Trigger(s) # "checkpoint"
BY DEF Status, CheckTimelineAndLsn, Trigger

LEMMA FirstCycleKeeps ==
  ASSUME NEW n, NEW m \in Memory, NEW busy
  PROVE /\ FirstCycle(n, m, busy).rw = "checkpoint" => m.rw = "checkpoint"
        /\ FirstCycle(n, m, busy).task = m.task
<1>1. CASE m.cb \/ busy BY <1>1 DEF FirstCycle
<1>2. CASE ~(m.cb \/ busy)
  <2> DEFINE s == IF srv[n] # "master" /\ how # "none" THEN Trigger(m.rw) ELSE m.rw
             f == [m EXCEPT !.cb = TRUE, !.rw = s]
  <2>1. FirstCycle(n, m, busy) = f BY <1>2 DEF FirstCycle
  <2>2. s = "checkpoint" => m.rw = "checkpoint" BY StatusKeeps
  <2> HIDE DEF s
  <2>3. f.rw = s /\ f.task = m.task BY DEF Memory
  <2> QED BY <2>1, <2>2, <2>3
<1> QED BY <1>1, <1>2

\* What a memory may become in the cycle of a member.
Keeping(m, n) ==
    /\ m.rw = "checkpoint" => mem[n].rw = "checkpoint" \/ mem[n].task = "done"
    /\ m.task = "done" => mem[n].task = "done"

LEMMA RwKeeps ==
  ASSUME TypeOK, NEW n \in Node, NEW s, s = "checkpoint" => mem[n].rw = "checkpoint"
  PROVE Keeping([mem[n] EXCEPT !.rw = s], n)
<1>1. mem[n] \in Memory BY DEF TypeOK
<1>2. [mem[n] EXCEPT !.rw = s].rw = s /\ [mem[n] EXCEPT !.rw = s].task = mem[n].task
  BY <1>1 DEF Memory
<1> QED BY <1>2 DEF Keeping

LEMMA DemoteKeeps ==
  ASSUME TypeOK, NEW n \in Node, NEW l, Demote(n, l)
  PROVE \E m : SetMem(n, m) /\ Keeping(m, n)
<1> DEFINE m == [mem[n] EXCEPT !.rw = Trigger(@)]
<1>1. SetMem(n, m) BY DEF Demote, FirstCycle
<1>2. Keeping(m, n) BY RwKeeps, StatusKeeps
<1> QED BY <1>1, <1>2

LEMMA FollowKeeps ==
  ASSUME TypeOK, NEW n \in Node, NEW c, Follow(n, c)
  PROVE \E m : SetMem(n, m) /\ Keeping(m, n)
<1> DEFINE t == Status(n, c.leader, mem[n].rw)
           m == [mem[n] EXCEPT !.rw = t]
<1>1. mem[n] \in Memory BY DEF TypeOK
<1>2. SetMem(n, [mem[n] EXCEPT !.rw = "need"]) \/ SetMem(n, FirstCycle(n, m, FALSE)) BY DEF Follow
<1>3. Keeping([mem[n] EXCEPT !.rw = "need"], n) BY RwKeeps
<1>4. m \in Memory /\ m.task = mem[n].task /\ m.rw = t
  BY <1>1, StatusType DEF Memory
<1>5. Keeping(m, n) BY RwKeeps, StatusKeeps
<1>6. Keeping(FirstCycle(n, m, FALSE), n) BY <1>4, <1>5, FirstCycleKeeps DEF Keeping
<1> QED BY <1>2, <1>3, <1>6

LEMMA RecoverKeeps ==
  ASSUME TypeOK, NEW n \in Node, Recover(n)
  PROVE \E m : SetMem(n, m) /\ Keeping(m, n)
<1> DEFINE s == IF leader # n /\ ~Executed(mem[n].rw) THEN Trigger(mem[n].rw) ELSE mem[n].rw
           t == Status(n, leader, s)
           tried == [mem[n] EXCEPT !.tried = TRUE]
           started == [mem[n] EXCEPT !.rw = t, !.recovering = TRUE]
<1>1. mem[n] \in Memory BY DEF TypeOK
<1>2. SetMem(n, tried) \/ SetMem(n, [mem[n] EXCEPT !.rw = "need"]) \/ SetMem(n, started)
  BY DEF Recover
<1>3. Keeping([mem[n] EXCEPT !.rw = "need"], n) BY RwKeeps
<1>4. tried.rw = mem[n].rw /\ tried.task = mem[n].task BY <1>1 DEF Memory
<1>5. t = "checkpoint" => mem[n].rw = "checkpoint" BY StatusKeeps
<1> HIDE DEF t
<1>6. started.rw = t /\ started.task = mem[n].task BY <1>1 DEF Memory
<1>7. Keeping(tried, n) BY <1>4 DEF Keeping
<1>8. Keeping(started, n) BY <1>5, <1>6 DEF Keeping
<1> QED BY <1>2, <1>3, <1>7, <1>8

LEMMA LeadKeeps ==
  ASSUME TypeOK, NEW n \in Node, SetMem(n, FirstCycle(n, EnsureCheckpointAfterPromote(mem[n]), FALSE))
                                 \/ SetMem(n, FirstCycle(n, mem[n], FALSE))
  PROVE \E m : SetMem(n, m) /\ Keeping(m, n)
<1> DEFINE e == EnsureCheckpointAfterPromote(mem[n])
<1>1. mem[n] \in Memory BY DEF TypeOK
<1>2. Keeping(mem[n], n) BY DEF Keeping
<1>3. e \in Memory /\ Keeping(e, n)
  <2>1. CASE e = mem[n] BY <1>1, <1>2, <2>1
  <2>2. CASE e = [mem[n] EXCEPT !.task = "running"] BY <1>1, <2>2 DEF Keeping, Memory
  <2>3. CASE mem[n].task = "done" /\ e = [mem[n] EXCEPT !.rw = "checkpoint"]
    BY <1>1, <2>3 DEF Keeping, Memory
  <2> QED BY <1>1, <2>1, <2>2, <2>3 DEF EnsureCheckpointAfterPromote, Memory
<1> HIDE DEF e
<1>4. Keeping(FirstCycle(n, e, FALSE), n) /\ Keeping(FirstCycle(n, mem[n], FALSE), n)
  BY <1>1, <1>2, <1>3, FirstCycleKeeps DEF Keeping
<1> QED BY <1>4 DEF e

\* The cycle of a member: a stop of the server at most, and at most one long action.
LEMMA RewindCycle ==
  ASSUME Inv, RewindInv, NEW n \in Node, Recover(n) \/ Lead(n) \/ FollowLeader(n) \/ Race(n)
  PROVE RewindInv'
<1>1. /\ TypeOK /\ RewindOK(n) /\ JobOK(n) /\ job[n] = "none" /\ Valid(disk[n].sys) /\ EndCycle(n)
      /\ srv[n] \in {"down", "replica", "master"}
  BY DEF Inv, TypeOK, RewindInv, JobInv, JobOK, Recover, Lead, FollowLeader, Race, Member, Rest, Loaded
<1>2. \/ Recover(n)
      \/ \E l : Demote(n, l)
      \/ srv[n] # "master" /\ Follow(n, view[n]) /\ UNCHANGED stale
      \/ srv[n] # "master" /\ Follow(n, Cluster)
      \/ EnforceMasterRole(n)
      \/ UNCHANGED <<srv, disk, mem, bg>>
      \/ /\ srv[n] = "master" /\ UNCHANGED <<srv, disk, bg>>
         /\ SetMem(n, FirstCycle(n, EnsureCheckpointAfterPromote(mem[n]), FALSE))
  BY DEF Lead, FollowLeader, Race, DemoteOrFollow
<1>3. UNCHANGED disk BY <1>2 DEF Recover, Demote, Follow, EnforceMasterRole, node
<1>4. srv'[n] \in {srv[n], "down"} /\ \A k \in Node \ {n} : srv'[k] = srv[k]
  <2>1. UNCHANGED srv \/ SetSrv(n, "down")
    BY <1>2 DEF Recover, Demote, Follow, EnforceMasterRole, node
  <2> QED BY <1>1, <2>1 DEF SetSrv, TypeOK
<1>5. Keeping(mem'[n], n) /\ \A k \in Node \ {n} : mem'[k] = mem[k]
  <2>1. UNCHANGED mem \/ \E m : SetMem(n, m) /\ Keeping(m, n)
    BY <1>1, <1>2, RecoverKeeps, DemoteKeeps, FollowKeeps, LeadKeeps DEF EnforceMasterRole
  <2>2. CASE UNCHANGED mem BY <2>2 DEF Keeping
  <2>3. CASE \E m : SetMem(n, m) /\ Keeping(m, n)
    <3>1. PICK m : SetMem(n, m) /\ Keeping(m, n) BY <2>3
    <3>2. mem'[n] = m /\ \A k \in Node \ {n} : mem'[k] = mem[k] BY <1>1, <3>1 DEF SetMem, TypeOK
    <3> QED BY <3>1, <3>2
  <2> QED BY <2>1, <2>2, <2>3
<1>6. /\ \A k \in Node \ {n} : member'[k] = member[k]
      /\ member'[n] \in {"replica", "wait"} \/ (srv'[n] = "master" /\ mem'[n].rw = "checkpoint")
      /\ srv'[n] # "master" => member'[n] = "replica"
  BY <1>1, TouchedMember DEF EndCycle
<1>7. view'[n] = NoView /\ \A k \in Node \ {n} : view'[k] = view[k] BY <1>1, EndCycleType
<1>8. /\ \A k \in Node \ {n} : job'[k] = job[k] /\ src'[k] = src[k]
      /\ \/ job'[n] = job[n] /\ src'[n] = src[n]
         \/ job'[n] \in {"start", "start standby"} /\ src'[n] = NoView
         \/ job'[n] = "promote" /\ src'[n] = NoView /\ srv'[n] # "master"
         \/ job'[n] = "crash recovery" /\ src'[n] = NoView /\ srv'[n] = "down"
         \/ /\ job'[n] \in {"rewind", "reinitialize"} /\ srv'[n] # "master"
            /\ src'[n] \in {view[n], Cluster} /\ (stale' = stale \/ src'[n] = Cluster)
  <2>1. CASE UNCHANGED <<job, src>> BY <2>1
  <2>2. CASE \E l : Start(n, l)
    BY <1>1, <2>2, StartType
  <2>3. CASE RunAsync(n, "promote", NoView) /\ srv[n] # "master" /\ UNCHANGED srv
    BY <1>1, <2>3 DEF RunAsync, TypeOK
  <2>4. CASE RunAsync(n, "crash recovery", NoView) /\ srv[n] = "down" /\ UNCHANGED srv
    BY <1>1, <2>4 DEF RunAsync, TypeOK
  <2>5. CASE /\ Repair(n, view[n]) \/ Repair(n, Cluster)
             /\ stale' = stale \/ Repair(n, Cluster)
             /\ srv[n] # "master" /\ UNCHANGED srv
    <3>1. Cluster \in View /\ view[n] \in View BY <1>1, ClusterType DEF TypeOK
    <3> QED BY <1>1, <2>5, <3>1, RepairType
  <2>6. CASE Recover(n)
    <3>1. srv[n] = "down" /\ UNCHANGED srv BY <2>6 DEF Recover, node
    <3>2. RunAsync(n, "crash recovery", NoView) \/ Repair(n, Cluster) \/ Start(n, leader)
      BY <2>6 DEF Recover
    <3> QED BY <2>2, <2>4, <2>5, <3>1, <3>2
  <2>7. CASE EnforceMasterRole(n) BY <2>1, <2>3, <2>7 DEF EnforceMasterRole, bg
  <2>8. CASE \E l : Demote(n, l) BY <2>2, <2>8 DEF Demote
  <2>9. CASE srv[n] # "master" /\ (Follow(n, Cluster) \/ (Follow(n, view[n]) /\ UNCHANGED stale))
    BY <2>1, <2>5, <2>9 DEF Follow, bg
  <2> QED BY <1>2, <2>1, <2>6, <2>7, <2>8, <2>9 DEF bg
<1>9. (\A k \in Node \ {n} : k \in stale => k \in stale') /\ Reads(n)
  <2>1. stale' \in {stale, stale \ {n}} BY DEF Recover, Lead, FollowLeader, Race
  <2>2. src[n] = NoView BY <1>1 DEF RewindOK
  <2> QED BY <1>7, <1>8, <2>1, <2>2 DEF Reads
<1>10. LeavesData(n) BY <1>1, <1>3, <1>4, <1>5, <1>6, <1>8 DEF LeavesData, Keeping
<1>11. Elsewhere(n) BY <1>3, <1>4, <1>5, <1>6, <1>7, <1>8, <1>9 DEF Elsewhere
<1> QED BY <1>1, <1>9, <1>10, <1>11, LeavesDataStep

\* A step of n that leaves its server down, or puts it down.
LEMMA RewindDown ==
  ASSUME TypeOK, RewindInv, NEW n \in Node, srv'[n] # "master", UNCHANGED <<member, view, stale>>,
         Elsewhere(n),
         \/ job'[n] \notin {"promote", "rewind", "pg_rewind"}
         \/ job'[n] = "pg_rewind" /\ job[n] = "rewind" /\ Valid(disk'[n].sys),
         job'[n] \in {"bootstrap", "crash recovery"} => srv'[n] = "down",
         job'[n] = "none" => src'[n] = NoView,
         src'[n] \in {NoView, src[n]},
         srv'[n] # "down" => disk'[n].state # "clean",
         disk'[n].state = "clean" /\ Valid(disk'[n].sys) => disk'[n].ctl = Tl(n)'
  PROVE RewindInv'
<1>1. Checkpointed(n)' BY DEF Checkpointed
<1>2. RewindOK(n)
  BY DEF RewindInv
<1>3. RewindOK(n)' BY <1>1, <1>2 DEF RewindOK
<1>4. StaysCheckpointed(n) BY <1>1 DEF StaysCheckpointed
<1>5. Reads(n) BY DEF Reads
<1> QED BY <1>3, <1>4, <1>5, ReadsOK, RewindNode

\* What a node is on does not depend on its control file.
LEMMA TlSame == ASSUME NEW n, disk'[n].wal = disk[n].wal PROVE Tl(n)' = Tl(n)
BY DEF Tl

LEMMA RewindShutDown ==
  ASSUME Inv, RewindInv, NEW n \in Node, Mismatch(n) \/ StopForRewind(n) \/ MoveDataDirectory(n)
  PROVE RewindInv'
<1>1. TypeOK /\ RewindOK(n) /\ JobOK(n) /\ member \in [Node -> {"absent", "replica", "wait", "ready"}]
  BY DEF Inv, JobInv, RewindInv, TypeOK
<1>2. /\ UNCHANGED <<member, stale>>
      /\ \A k \in Node \ {n} : mem'[k] = mem[k] /\ view'[k] = view[k]
  <2>1. Exit(n) \/ UNCHANGED <<mem, view>>
    BY DEF Mismatch, StopForRewind, MoveDataDirectory, loop
  <2> QED BY <1>1, <2>1, ExitType DEF Mismatch, StopForRewind, MoveDataDirectory, dcs, aux
<1>3. CASE Mismatch(n)
  <2>1. ShutDown(n) /\ Exit(n) /\ UNCHANGED <<job, src>> /\ pc[n] = "loaded" /\ view[n] \in View
    BY <1>1, <1>3 DEF Mismatch, Rest, Loaded, bg, TypeOK
  <2>2. job[n] = "none" BY <1>1, <2>1 DEF JobOK
  <2>3. view'[n] = NoView BY <1>1, <2>1, ExitType
  <2>4. /\ srv'[n] = "down" /\ disk'[n].sys = disk[n].sys /\ disk'[n].wal = disk[n].wal
        /\ \A k \in Node \ {n} : srv'[k] = srv[k] /\ disk'[k] = disk[k]
        /\ IF srv[n] = "down" THEN disk'[n] = disk[n] ELSE disk'[n].state = "clean" /\ disk'[n].ctl = Tl(n)
    BY <1>1, <2>1, ShutDownType
  <2>5. Elsewhere(n) BY <1>2, <2>1, <2>4 DEF Elsewhere
  <2>6. Checkpointed(n)' BY <2>4 DEF Checkpointed
  <2>7. Tl(n)' = Tl(n) BY <2>4, TlSame
  <2>8. RewindOK(n)' BY <1>1, <2>1, <2>2, <2>4, <2>6, <2>7 DEF RewindOK
  <2>9. Reads(n) BY <1>2, <2>1, <2>3 DEF Reads
  <2>10. StaysCheckpointed(n) BY <2>6 DEF StaysCheckpointed
  <2> QED BY <1>1, <2>5, <2>8, <2>9, <2>10, ReadsOK, RewindNode
<1>4. CASE MoveDataDirectory(n)
  <2>1. /\ SetSrv(n, "down") /\ disk' = [disk EXCEPT ![n] = Empty] /\ Exit(n) /\ UNCHANGED <<job, src>>
        /\ pc[n] = "moving"
    BY <1>4 DEF MoveDataDirectory, bg
  <2>2. job[n] = "none" BY <1>1, <2>1 DEF JobOK
  <2>3. view'[n] = NoView BY <1>1, <2>1, ExitType
  <2>4. /\ srv'[n] = "down" /\ ~Valid(disk'[n].sys)
        /\ \A k \in Node \ {n} : srv'[k] = srv[k] /\ disk'[k] = disk[k]
    BY <1>1, <2>1, EmptyType DEF SetSrv, TypeOK
  <2>5. Elsewhere(n) BY <1>2, <2>1, <2>4 DEF Elsewhere
  <2>6. Checkpointed(n)' BY <2>4 DEF Checkpointed
  <2>7. RewindOK(n)' BY <1>1, <2>1, <2>2, <2>4, <2>6 DEF RewindOK
  <2>8. Reads(n) BY <1>2, <2>1, <2>3 DEF Reads
  <2>9. StaysCheckpointed(n) BY <2>6 DEF StaysCheckpointed
  <2> QED BY <1>1, <2>5, <2>7, <2>8, <2>9, ReadsOK, RewindNode
<1>5. CASE StopForRewind(n)
  <2>1. ShutDown(n) /\ RunAsync(n, "pg_rewind", src[n]) /\ UNCHANGED view /\ job[n] = "rewind"
    BY <1>5 DEF StopForRewind, Then, Doing, loop
  <2>2. /\ srv'[n] = "down" /\ disk'[n].sys = disk[n].sys /\ disk'[n].wal = disk[n].wal
        /\ \A k \in Node \ {n} : srv'[k] = srv[k] /\ disk'[k] = disk[k]
        /\ IF srv[n] = "down" THEN disk'[n] = disk[n] ELSE disk'[n].state = "clean" /\ disk'[n].ctl = Tl(n)
    BY <1>1, <2>1, ShutDownType
  <2>3. /\ job'[n] = "pg_rewind" /\ src'[n] = src[n]
        /\ \A k \in Node \ {n} : job'[k] = job[k] /\ src'[k] = src[k]
    BY <1>1, <2>1 DEF RunAsync, TypeOK
  <2>4. Elsewhere(n) BY <1>2, <2>2, <2>3 DEF Elsewhere
  <2>5. Tl(n)' = Tl(n) BY <2>2, TlSame
  <2>6. Valid(disk'[n].sys) BY <1>1, <2>1, <2>2 DEF RewindOK
  <2>7. disk'[n].state = "clean" /\ Valid(disk'[n].sys) => disk'[n].ctl = Tl(n)'
    BY <1>1, <2>2, <2>5 DEF RewindOK
  <2> QED BY <1>1, <1>2, <2>1, <2>2, <2>3, <2>4, <2>6, <2>7, RewindDown
<1> QED BY <1>3, <1>4, <1>5

\* Only the data and the memory of n change, and it has a checkpoint or runs no primary.
LEMMA RewindData ==
  ASSUME TypeOK, RewindInv, NEW n \in Node, UNCHANGED <<srv, member, job, src, view, stale>>,
         \A k \in Node \ {n} : disk'[k] = disk[k] /\ mem'[k] = mem[k],
         disk'[n].sys = disk[n].sys, srv[n] # "down", disk'[n].state = disk[n].state,
         StaysCheckpointed(n),
         mem'[n].rw = "checkpoint" \/ mem'[n].task = "done" \/ member'[n] = "ready" => Checkpointed(n)'
  PROVE RewindInv'
<1>1. RewindOK(n) BY DEF RewindInv
<1>2. disk'[n].state # "clean" BY <1>1 DEF RewindOK
<1>3. RewindOK(n)' BY <1>1, <1>2 DEF RewindOK
<1>4. Elsewhere(n) /\ Reads(n) BY DEF Elsewhere, Reads
<1> QED BY <1>3, <1>4, ReadsOK, RewindNode

\* The job of n ends, or another starts, and nothing else happens.
LEMMA RewindJob ==
  ASSUME TypeOK, RewindInv, NEW n \in Node, UNCHANGED <<srv, disk, mem, member, view, stale>>,
         Ends(n)
  PROVE RewindInv'
<1>1. job'[n] = "none" /\ src'[n] = NoView /\ \A k \in Node \ {n} : job'[k] = job[k] /\ src'[k] = src[k]
  BY EndsType
<1>2. LeavesData(n) /\ Elsewhere(n) /\ Reads(n) BY <1>1 DEF LeavesData, Elsewhere, Reads
<1> QED BY <1>2, LeavesDataStep

LEMMA RewindCopy ==
  ASSUME Inv, RewindInv, NEW n \in Node, InitDb(n) \/ Clone(n) \/ CreateReplica(n)
  PROVE RewindInv'
<1>1. /\ TypeOK /\ RewindOK(n) /\ JobOK(n) /\ srv[n] = "down"
      /\ UNCHANGED <<srv, member, view, stale>>
  BY DEF Inv, JobInv, RewindInv, InitDb, Clone, CreateReplica, Doing, RewindOK, JobOK, dcs, loop, aux
<1>2. \A k \in Node \ {n} : mem'[k] = mem[k]
  <2>1. UNCHANGED mem \/ \E m : SetMem(n, m) BY DEF InitDb, Clone, CreateReplica
  <2> QED BY <1>1, <2>1 DEF SetMem, TypeOK
<1>3. PICK d : SetDisk(n, d) /\ (d.state = "clean" => ~Valid(d.sys))
  <2>1. CASE InitDb(n) \/ Clone(n) BY <2>1, EmptyType DEF InitDb, Clone
  <2>2. CASE CreateReplica(n)
    <3> DEFINE m == src[n].leader
               d == [disk[m] EXCEPT !.ctl = Tl(m)]
    <3>1. SetDisk(n, Empty) \/ (SetDisk(n, d) /\ srv[m] # "down") BY <2>2 DEF CreateReplica
    <3>2. CASE SetDisk(n, Empty) BY <3>2, EmptyType
    <3>3. CASE SetDisk(n, d) /\ srv[m] # "down"
      <4>1. m \in Node BY <1>1, <2>2 DEF CreateReplica, Doing, JobOK, TypeOK, View
      <4>2. disk[m].state # "clean" /\ disk[m] \in Disk BY <1>1, <3>3, <4>1 DEF RewindInv, RewindOK, TypeOK
      <4>3. Tl(m) \in Nat BY <1>1, <4>1, TlType
      <4>4. d.state = disk[m].state BY <4>2, <4>3, CtlType
      <4> HIDE DEF d
      <4> QED BY <3>3, <4>2, <4>4
    <3> QED BY <3>1, <3>2, <3>3
  <2> QED BY <2>1, <2>2
<1>4. disk'[n] = d /\ \A k \in Node \ {n} : disk'[k] = disk[k] BY <1>1, <1>3 DEF SetDisk, TypeOK
<1>5. /\ \A k \in Node \ {n} : job'[k] = job[k] /\ src'[k] = src[k]
      /\ src'[n] \in {NoView, src[n]} /\ job'[n] \notin {"promote", "rewind", "pg_rewind"}
      /\ job'[n] = "none" => src'[n] = NoView
  <2>1. (UNCHANGED <<job, src>> /\ job[n] = "bootstrap") \/ Ends(n) \/ Then(n, "copy") \/ Start(n, leader)
    BY DEF InitDb, Clone, CreateReplica, Doing, bg
  <2>2. CASE Start(n, leader) BY <1>1, <2>2, StartType
  <2>3. CASE ~Start(n, leader) BY <1>1, <2>1, <2>3 DEF Ends, Then, RunAsync, TypeOK
  <2> QED BY <2>2, <2>3
<1>6. Elsewhere(n) BY <1>1, <1>2, <1>4, <1>5 DEF Elsewhere
<1> QED BY <1>1, <1>3, <1>4, <1>5, <1>6, RewindDown

\* A server that starts as a primary has made a checkpoint.
LEMMA RewindPrimary ==
  ASSUME TypeOK, RewindInv, NEW n \in Node, SetSrv(n, "master"), NEW d, SetDisk(n, d),
         d.state = "dirty", d.ctl = Tl(n)', Ends(n), UNCHANGED <<member, view, mem, stale>>
  PROVE RewindInv'
<1>1. /\ srv'[n] = "master" /\ disk'[n] = d
      /\ \A k \in Node \ {n} : srv'[k] = srv[k] /\ disk'[k] = disk[k]
  BY DEF SetSrv, SetDisk, TypeOK
<1>2. job'[n] = "none" /\ src'[n] = NoView /\ \A k \in Node \ {n} : job'[k] = job[k] /\ src'[k] = src[k]
  BY EndsType
<1>3. Checkpointed(n)' BY <1>1 DEF Checkpointed
<1>4. RewindOK(n)' BY <1>1, <1>2, <1>3 DEF RewindOK
<1>5. Elsewhere(n) /\ Reads(n) /\ StaysCheckpointed(n)
  BY <1>1, <1>2, <1>3 DEF Elsewhere, Reads, StaysCheckpointed
<1> QED BY <1>4, <1>5, ReadsOK, RewindNode

LEMMA RewindBootstrapEnds ==
  ASSUME Inv, RewindInv, NEW n \in Node, BootstrapEnds(n) PROVE RewindInv'
<1>1. TypeOK /\ Ends(n) /\ UNCHANGED <<member, view, mem, stale>>
  BY DEF Inv, BootstrapEnds, dcs, loop
<1>2. CASE UNCHANGED <<srv, disk>> BY <1>1, <1>2, RewindJob
<1>3. CASE ~UNCHANGED <<srv, disk>>
  <2> DEFINE w == <<1>>
             d == [sys |-> systems + 2, wal |-> w, ctl |-> 1, state |-> "dirty"]
  <2>1. SetSrv(n, "master") /\ SetDisk(n, d) BY <1>3 DEF BootstrapEnds
  <2>2. w # <<>> /\ w[Len(w)] = 1 OBVIOUS
  <2>3. d.wal = w /\ d.ctl = 1 /\ d.state = "dirty" OBVIOUS
  <2> HIDE DEF d, w
  <2>4. disk'[n] = d BY <1>1, <2>1 DEF SetDisk, TypeOK
  <2>5. d.ctl = Tl(n)' BY <2>2, <2>3, <2>4 DEF Tl
  <2> QED BY <1>1, <2>1, <2>3, <2>5, RewindPrimary
<1> QED BY <1>2, <1>3

LEMMA RewindStartServer ==
  ASSUME Inv, RewindInv, NEW n \in Node, StartServer(n) PROVE RewindInv'
<1> DEFINE standby == [disk[n] EXCEPT !.state = "standby"]
           primary == Checkpoints(disk[n], "dirty", Tl(n))
<1>1. TypeOK /\ Ends(n) /\ disk[n] \in Disk /\ UNCHANGED <<member, view, mem, stale>>
  BY DEF Inv, TypeOK, StartServer, dcs, loop
<1>2. \/ SetSrv(n, "replica") /\ SetDisk(n, standby)
      \/ SetSrv(n, "master") /\ SetDisk(n, primary)
      \/ UNCHANGED <<srv, disk>>
  BY DEF StartServer, Checkpoints
<1>3. CASE UNCHANGED <<srv, disk>> BY <1>1, <1>3, RewindJob
<1>4. CASE SetSrv(n, "master") /\ SetDisk(n, primary)
  <2>1. Tl(n) \in Nat BY <1>1, TlType
  <2>2. primary.state = "dirty" /\ primary.ctl = Tl(n) /\ primary.wal = disk[n].wal
    BY <1>1, <2>1, CheckpointsType
  <2> HIDE DEF primary
  <2>3. disk'[n] = primary BY <1>1, <1>4 DEF SetDisk, TypeOK
  <2>4. primary.ctl = Tl(n)' BY <2>2, <2>3, TlSame
  <2> QED BY <1>1, <1>4, <2>2, <2>4, RewindPrimary
<1>5. CASE SetSrv(n, "replica") /\ SetDisk(n, standby)
  <2>1. standby.state = "standby" BY <1>1, StateType
  <2> HIDE DEF standby
  <2>2. /\ srv'[n] = "replica" /\ disk'[n] = standby
        /\ \A k \in Node \ {n} : srv'[k] = srv[k] /\ disk'[k] = disk[k]
    BY <1>1, <1>5 DEF SetSrv, SetDisk, TypeOK
  <2>3. job'[n] = "none" /\ src'[n] = NoView /\ \A k \in Node \ {n} : job'[k] = job[k] /\ src'[k] = src[k]
    BY <1>1, EndsType
  <2>4. Elsewhere(n) BY <1>1, <2>2, <2>3 DEF Elsewhere
  <2> QED BY <1>1, <2>1, <2>2, <2>3, <2>4, RewindDown
<1> QED BY <1>2, <1>3, <1>4, <1>5

LEMMA RewindCleanShutdown ==
  ASSUME Inv, RewindInv, NEW n \in Node, EnsureCleanShutdown(n) PROVE RewindInv'
<1> DEFINE d == Checkpoints(disk[n], "clean", Tl(n))
<1>1. /\ TypeOK /\ RewindOK(n) /\ Ends(n) /\ UNCHANGED <<srv, member, view, mem, stale>>
      /\ srv[n] = "down"
  BY DEF Inv, RewindInv, RewindOK, EnsureCleanShutdown, Doing, dcs, loop, hist
<1>2. UNCHANGED disk \/ SetDisk(n, d) BY DEF EnsureCleanShutdown, Checkpoints
<1>3. CASE UNCHANGED disk BY <1>1, <1>3, RewindJob
<1>4. CASE SetDisk(n, d)
  <2>1. d.wal = disk[n].wal /\ d.ctl = Tl(n) BY <1>1, CleanType
  <2> HIDE DEF d
  <2>2. disk'[n] = d /\ \A k \in Node \ {n} : disk'[k] = disk[k] BY <1>1, <1>4 DEF SetDisk, TypeOK
  <2>3. disk'[n].ctl = Tl(n)' BY <2>1, <2>2, TlSame
  <2>4. job'[n] = "none" /\ src'[n] = NoView /\ \A k \in Node \ {n} : job'[k] = job[k] /\ src'[k] = src[k]
    BY <1>1, EndsType
  <2>5. Elsewhere(n) BY <1>1, <2>2, <2>4 DEF Elsewhere
  <2> QED BY <1>1, <2>3, <2>4, <2>5, RewindDown
<1> QED BY <1>2, <1>3, <1>4

\* pg_rewind leaves the directory of a standby, or does nothing.
LEMMA PgRewindData ==
  ASSUME TypeOK, NEW n \in Node, NEW m \in Node
  PROVE LET d == PgRewind(n, m) IN
        d = disk[n] \/ (disk[n].ctl # disk[m].ctl /\ d.state = "standby" /\ d.wal = disk[m].wal)
<1>1. disk[m] \in Disk BY DEF TypeOK
<1>2. [disk[m] EXCEPT !.state = "standby"].state = "standby"
      /\ [disk[m] EXCEPT !.state = "standby"].wal = disk[m].wal
  BY <1>1, StateType
<1> QED BY <1>2 DEF PgRewind

LEMMA RewindRewind ==
  ASSUME Inv, RewindInv, NEW n \in Node, Rewind(n) PROVE RewindInv'
<1> DEFINE m == src[n].leader
<1>1. /\ TypeOK /\ RewindOK(n) /\ JobOK(n) /\ Ends(n) /\ UNCHANGED <<srv, member, view, stale>>
      /\ srv[n] = "down" /\ m \in Node
  BY DEF Inv, JobInv, JobOK, RewindInv, Rewind, Doing, dcs, loop, TypeOK, View
<1>2. UNCHANGED disk \/ SetDisk(n, Empty) \/ SetDisk(n, PgRewind(n, m)) BY DEF Rewind
<1>3. /\ \A k \in Node \ {n} : disk'[k] = disk[k]
      /\ disk'[n].state = "clean" /\ Valid(disk'[n].sys) => disk'[n] = disk[n]
  <2>1. CASE UNCHANGED disk BY <2>1
  <2>2. CASE SetDisk(n, Empty) BY <1>1, <2>2, EmptyType DEF SetDisk, TypeOK
  <2>3. CASE SetDisk(n, PgRewind(n, m)) BY <1>1, <2>3, PgRewindData DEF SetDisk, TypeOK
  <2> QED BY <1>2, <2>1, <2>2, <2>3
<1>4. disk'[n].state = "clean" /\ Valid(disk'[n].sys) => disk'[n].ctl = Tl(n)'
  BY <1>1, <1>3 DEF RewindOK, Tl
<1>5. \A k \in Node \ {n} : mem'[k] = mem[k]
  <2>1. UNCHANGED mem \/ \E x : SetMem(n, x) BY DEF Rewind
  <2> QED BY <1>1, <2>1 DEF SetMem, TypeOK
<1>6. job'[n] = "none" /\ src'[n] = NoView /\ \A k \in Node \ {n} : job'[k] = job[k] /\ src'[k] = src[k]
  BY <1>1, EndsType
<1>7. Elsewhere(n) BY <1>1, <1>3, <1>5, <1>6 DEF Elsewhere
<1> QED BY <1>1, <1>4, <1>6, <1>7, RewindDown

\* The new primary has no checkpoint on its timeline: it does not say it is ready, and whoever
\* has read that it was is stale.
LEMMA RewindPromote ==
  ASSUME Inv, RewindInv, NEW n \in Node, Promote(n) PROVE RewindInv'
<1>1. TypeOK /\ RewindOK(n) /\ SourceOK(n) /\ Ends(n) /\ job[n] = "promote" /\ UNCHANGED <<member, view>>
  BY DEF Inv, RewindInv, Promote, Doing, dcs, loop
<1>2. CASE UNCHANGED <<srv, disk, mem, stale>> BY <1>1, <1>2, RewindJob
<1>3. CASE ~UNCHANGED <<srv, disk, mem, stale>>
  <2> DEFINE w == Append(disk[n].wal, Tl(n) + 1)
             d == [disk[n] EXCEPT !.wal = w, !.state = "dirty"]
             m == [mem[n] EXCEPT !.rw = "initial", !.task = "none"]
  <2>1. /\ SetSrv(n, "master") /\ SetDisk(n, d) /\ SetMem(n, m)
        /\ stale' = stale \cup {k \in Node : n \in {view[k].leader, src[k].leader}}
    BY <1>3 DEF Promote
  <2>2. disk[n] \in Disk /\ mem[n] \in Memory BY <1>1 DEF TypeOK
  <2> HIDE DEF w
  <2>3. d.state = "dirty" BY <2>2 DEF Disk
  <2>4. m.rw = "initial" /\ m.task = "none" BY <2>2 DEF Memory
  <2> HIDE DEF d, m
  <2>5. /\ srv'[n] = "master" /\ disk'[n] = d /\ mem'[n] = m
        /\ \A k \in Node \ {n} : srv'[k] = srv[k] /\ disk'[k] = disk[k] /\ mem'[k] = mem[k]
    BY <1>1, <2>1 DEF SetSrv, SetDisk, SetMem, TypeOK
  <2>6. job'[n] = "none" /\ src'[n] = NoView /\ \A k \in Node \ {n} : job'[k] = job[k] /\ src'[k] = src[k]
    BY <1>1, EndsType
  <2>7. Elsewhere(n) BY <1>1, <2>1, <2>5, <2>6 DEF Elsewhere
  <2>8. RewindOK(n)' BY <1>1, <2>3, <2>4, <2>5, <2>6 DEF RewindOK
  <2>9. SourceOK(n)'
    <3> SUFFICES ASSUME n \notin stale' PROVE MayRewindFrom(view[n])' /\ MayRewindFrom(src[n])'
      BY DEF SourceOK
    <3>1. MayRewindFrom(view[n]) /\ view[n].leader # n /\ view'[n] = view[n]
      BY <1>1, <2>1 DEF SourceOK
    <3>2. ASSUME NEW l \in Node, l # n PROVE Checkpointed(l)' <=> Checkpointed(l)
      BY <3>2, <2>5 DEF Checkpointed, Tl
    <3>3. MayRewindFrom(view[n])' BY <3>1, <3>2 DEF MayRewindFrom
    <3>4. MayRewindFrom(src[n])' BY <2>6 DEF MayRewindFrom, NoView
    <3> QED BY <3>3, <3>4
  <2> QED BY <1>1, <2>1, <2>7, <2>8, <2>9, RewindNode
<1> QED BY <1>2, <1>3

LEMMA RewindCheckpoint ==
  ASSUME Inv, RewindInv, NEW n \in Node, Checkpoint(n) PROVE RewindInv'
<1>1. /\ TypeOK /\ RewindOK(n) /\ mem[n] \in Memory /\ disk[n] \in Disk
      /\ UNCHANGED <<srv, member, job, src, view, stale>>
  BY DEF Inv, RewindInv, TypeOK, Checkpoint, dcs, loop, bg, aux
<1>2. CASE srv[n] = "master"
  <2> DEFINE d == [disk[n] EXCEPT !.ctl = Tl(n)]
             m == [mem[n] EXCEPT !.task = "done"]
  <2>1. SetDisk(n, d) /\ SetMem(n, m) BY <1>2 DEF Checkpoint
  <2>2. Tl(n) \in Nat BY <1>1, TlType
  <2>3. d.wal = disk[n].wal /\ d.sys = disk[n].sys /\ d.state = disk[n].state /\ d.ctl = Tl(n)
    BY <1>1, <2>2, CtlType
  <2> HIDE DEF d, m
  <2>4. /\ disk'[n] = d /\ mem'[n] = m
        /\ \A k \in Node \ {n} : disk'[k] = disk[k] /\ mem'[k] = mem[k]
    BY <1>1, <2>1 DEF SetDisk, SetMem, TypeOK
  <2>5. Checkpointed(n)' BY <2>3, <2>4, TlSame DEF Checkpointed
  <2>6. StaysCheckpointed(n) BY <2>5 DEF StaysCheckpointed
  <2> QED BY <1>1, <1>2, <2>3, <2>4, <2>5, <2>6, RewindData
<1>3. CASE srv[n] # "master"
  <2> DEFINE m == [mem[n] EXCEPT !.task = "failed"]
  <2>1. SetMem(n, m) /\ UNCHANGED disk BY <1>3 DEF Checkpoint
  <2>2. m.rw = mem[n].rw /\ m.task = "failed" BY <1>1 DEF Memory
  <2> HIDE DEF m
  <2>3. mem'[n] = m /\ \A k \in Node \ {n} : mem'[k] = mem[k] BY <1>1, <2>1 DEF SetMem, TypeOK
  <2>4. LeavesData(n) /\ Elsewhere(n) /\ Reads(n)
    BY <1>1, <2>1, <2>2, <2>3 DEF LeavesData, Elsewhere, Reads
  <2> QED BY <1>1, <2>4, LeavesDataStep
<1> QED BY <1>2, <1>3

\* A primary writes on its timeline.
LEMMA RewindWrite ==
  ASSUME Inv, RewindInv, NEW n \in Node, Write(n) PROVE RewindInv'
<1> DEFINE w == Append(disk[n].wal, Tl(n))
           d == [disk[n] EXCEPT !.wal = w]
<1>1. /\ TypeOK /\ RewindOK(n) /\ disk[n] \in Disk /\ disk[n].wal \in Seq(Nat) /\ Tl(n) \in Nat
      /\ srv[n] = "master" /\ SetDisk(n, d)
      /\ UNCHANGED <<srv, mem, member, job, src, view, stale>>
  BY TlType DEF Inv, RewindInv, TypeOK, Disk, Write, dcs, loop, bg, aux
<1>2. w # <<>> /\ w[Len(w)] = Tl(n)
  <2>1. /\ Len(w) = Len(disk[n].wal) + 1 /\ w[Len(disk[n].wal) + 1] = Tl(n) /\ w \in Seq(Nat)
    BY <1>1, AppendProperties
  <2>2. Len(disk[n].wal) \in Nat BY <1>1, LenProperties
  <2> QED BY <2>1, <2>2, EmptySeq
<1> HIDE DEF w
<1>3. d.wal = w /\ d.ctl = disk[n].ctl /\ d.sys = disk[n].sys /\ d.state = disk[n].state
  BY <1>1 DEF Disk
<1> HIDE DEF d
<1>4. disk'[n] = d /\ \A k \in Node \ {n} : disk'[k] = disk[k] BY <1>1 DEF SetDisk, TypeOK
<1>5. Tl(n)' = Tl(n) BY <1>2, <1>3, <1>4 DEF Tl
<1>6. StaysCheckpointed(n) BY <1>1, <1>3, <1>4, <1>5 DEF StaysCheckpointed, Checkpointed
<1>7. mem[n].rw = "checkpoint" \/ mem[n].task = "done" \/ member[n] = "ready" => Checkpointed(n)'
  BY <1>1, <1>6 DEF RewindOK, StaysCheckpointed
<1> QED BY <1>1, <1>3, <1>4, <1>6, <1>7, RewindData

LEMMA RewindReplicate ==
  ASSUME Inv, RewindInv, NEW n \in Node, NEW m \in Node, Replicate(n, m) PROVE RewindInv'
<1> DEFINE w == SubSeq(disk[n].wal, 1, Len(disk[m].wal) + 1)
           c == w[Len(w)]
           d == [disk[m] EXCEPT !.wal = w, !.ctl = c]
<1>1. /\ TypeOK /\ RewindOK(m) /\ disk[m] \in Disk /\ srv[m] = "replica" /\ SetDisk(m, d)
      /\ UNCHANGED <<srv, mem, member, job, src, view, stale>>
  BY DEF Inv, RewindInv, TypeOK, Replicate, dcs, loop, bg, aux
<1> HIDE DEF w, c
<1>2. d.sys = disk[m].sys /\ d.state = disk[m].state BY <1>1 DEF Disk
<1> HIDE DEF d
<1>3. disk'[m] = d /\ \A k \in Node \ {m} : disk'[k] = disk[k] BY <1>1 DEF SetDisk, TypeOK
<1>4. Checkpointed(m)' /\ StaysCheckpointed(m) BY <1>1 DEF Checkpointed, StaysCheckpointed
<1> QED BY <1>1, <1>2, <1>3, <1>4, RewindData

LEMMA RewindRemove == ASSUME Inv, RewindInv, RemoveCluster PROVE RewindInv'
<1>1. /\ UNCHANGED <<srv, disk, mem, job, src, view, stale>>
      /\ member' = [k \in Node |-> "absent"]
  BY DEF RemoveCluster, node, loop, bg
<1>2. \A k \in Node : Checkpointed(k)' <=> Checkpointed(k) BY <1>1 DEF Checkpointed, Tl
<1>3. \A k \in Node : RewindOK(k)' BY <1>1, <1>2 DEF RewindInv, RewindOK, Tl
<1>4. \A k \in Node : SourceOK(k)' BY <1>1, <1>2 DEF RewindInv, SourceOK, MayRewindFrom
<1> QED BY <1>3, <1>4 DEF RewindInv

LEMMA RewindNext == Inv /\ RewindInv /\ [Next]_vars => RewindInv'
<1> SUFFICES ASSUME Inv, RewindInv, [Next]_vars PROVE RewindInv' OBVIOUS
<1>1. CASE UNCHANGED vars
  <2>1. UNCHANGED <<srv, disk, mem, member, job, src, view, stale>>
    BY <1>1 DEF vars, dcs, node, loop, bg, aux
  <2> QED BY <2>1 DEF RewindInv, RewindOK, SourceOK, MayRewindFrom, Checkpointed, Tl
<1>2. ASSUME NEW n \in Node, Cycle(n) PROVE RewindInv'
  BY <1>2, RewindLoop, RewindMemory, RewindCycle, RewindShutDown DEF Cycle
<1>3. ASSUME NEW n \in Node, Background(n) PROVE RewindInv'
  BY <1>3, RewindMemory, RewindCopy, RewindBootstrapEnds, RewindStartServer, RewindCleanShutdown,
     RewindShutDown, RewindRewind, RewindPromote, RewindCheckpoint DEF Background
<1>4. ASSUME Environment PROVE RewindInv'
  BY <1>4, RewindLoop, RewindMemory, RewindWrite, RewindReplicate, RewindRemove DEF Environment
<1> QED BY <1>1, <1>2, <1>3, <1>4 DEF Next

LEMMA RewindInit == Init => RewindInv
<1> SUFFICES ASSUME Init, NEW n \in Node PROVE RewindOK(n) /\ SourceOK(n) BY DEF RewindInv
<1>1. /\ job[n] = "none" /\ src[n] = NoView /\ view[n] = NoView
  BY DEF Init
<1>2. SourceOK(n) BY <1>1 DEF SourceOK, MayRewindFrom, NoView
<1>3. CASE member = [k \in Node |-> "replica"] /\ srv = [k \in Node |-> "down"]
           /\ disk = [k \in Node |-> Empty] /\ mem = [k \in Node |-> Mem0]
  BY <1>1, <1>2, <1>3, EmptyType DEF RewindOK, Checkpointed
<1>4. CASE /\ disk = [k \in Node |-> [sys |-> 2, wal |-> <<1>>, ctl |-> 1,
                                state |-> IF k = leader THEN "dirty" ELSE "standby"]]
           /\ srv = [k \in Node |-> IF k = leader THEN "master" ELSE "replica"]
  <2> DEFINE w == <<1>>
             s == IF n = leader THEN "dirty" ELSE "standby"
  <2>1. w # <<>> /\ w[Len(w)] = 1 OBVIOUS
  <2> HIDE DEF w
  <2>2. s # "clean" OBVIOUS
  <2> HIDE DEF s
  <2>3. disk[n] = [sys |-> 2, wal |-> w, ctl |-> 1, state |-> s] BY <1>4 DEF w, s
  <2>4. disk[n].wal = w /\ disk[n].ctl = 1 /\ disk[n].state = s BY <2>3
  <2>5. Tl(n) = 1 BY <2>1, <2>4 DEF Tl
  <2>6. Checkpointed(n) BY <2>4, <2>5 DEF Checkpointed
  <2> QED BY <1>1, <1>2, <2>2, <2>4, <2>6 DEF RewindOK
<1> QED BY <1>3, <1>4 DEF Init

\* pg_rewind is the only step that makes the status of a node that is about to be rewound a success.
LEMMA OnlyRewind ==
  ASSUME Inv, [Next]_vars, NEW n \in Node, job[n] = "pg_rewind",
         mem'[n].rw = "success", mem[n].rw # "success"
  PROVE Rewind(n)
<1>1. TypeOK /\ JobOK(n) /\ pc[n] = "idle" /\ mem[n] \in Memory BY DEF Inv, JobInv, JobOK, TypeOK
<1>2. mem' # mem OBVIOUS
<1>3. ASSUME NEW k \in Node, k # n, NEW m, SetMem(k, m) PROVE FALSE
  BY <1>1, <1>3 DEF SetMem, TypeOK
<1>4. ASSUME NEW k \in Node, Cycle(k) PROVE FALSE
  <2>1. UNCHANGED mem \/ \E m : SetMem(k, m)
    BY <1>4 DEF Cycle, Load, HandleLongActionInProgress, WriteSystemId, PostBootstrap,
           PublishSystemId, TakeLeader, CancelInitialization, MoveDataDirectory, PostRecover,
           EmptyDirectory, InvalidSystemId, Mismatch, Join, Recover, Lead, FollowLeader, Race,
           Exit, DemoteOrFollow, Demote, Follow, EnforceMasterRole
  <2>2. k = n BY <1>2, <1>3, <2>1
  <2>3. UNCHANGED mem
    BY <1>1, <1>4, <2>2 DEF Cycle, Load, HandleLongActionInProgress, WriteSystemId, PostBootstrap,
           PublishSystemId, TakeLeader, CancelInitialization, MoveDataDirectory, PostRecover,
           EmptyDirectory, InvalidSystemId, Mismatch, Join, Recover, Lead, FollowLeader, Race,
           Rest, Loaded, Member
  <2> QED BY <1>2, <2>3
<1>5. ASSUME NEW k \in Node, Background(k) PROVE Rewind(n)
  <2>1. UNCHANGED mem \/ \E m : SetMem(k, m)
    BY <1>5 DEF Background, InitDb, BootstrapEnds, PostBootstrapEnds, Clone, CreateReplica,
           StartServer, EnsureCleanShutdown, StopForRewind, Rewind, Promote, Checkpoint, DoReinitialize
  <2>2. k = n BY <1>2, <1>3, <2>1
  <2>3. Rewind(n) \/ Checkpoint(n)
    BY <1>5, <2>2 DEF Background, InitDb, BootstrapEnds, PostBootstrapEnds, Clone, CreateReplica,
           StartServer, EnsureCleanShutdown, StopForRewind, Promote, DoReinitialize, Doing
  <2>4. ~Checkpoint(n)
    <3> SUFFICES ASSUME Checkpoint(n) PROVE FALSE OBVIOUS
    <3>1. PICK t \in {"done", "failed"} : SetMem(n, [mem[n] EXCEPT !.task = t]) BY DEF Checkpoint
    <3>2. [mem[n] EXCEPT !.task = t].rw = mem[n].rw BY <1>1 DEF Memory
    <3> QED BY <1>1, <3>1, <3>2 DEF SetMem, TypeOK
  <2> QED BY <2>3, <2>4
<1>6. ~Environment
  <2> SUFFICES ASSUME Environment PROVE FALSE OBVIOUS
  <2>1. PICK k \in Node : CrashNode(k)
    BY <1>2 DEF Environment, CheckReinitialize, Reinitialize, Write, CrashServer, StartPatroni,
           KeysExpire, Replicate, RemoveCluster
  <2>2. SetMem(k, Mem0) /\ Mem0.rw # "success" BY <2>1 DEF CrashNode, Exit, Mem0
  <2>3. CASE k = n BY <1>1, <2>2, <2>3 DEF SetMem, TypeOK
  <2> QED BY <1>3, <2>2, <2>3
<1>7. ~UNCHANGED vars BY <1>2 DEF vars
<1> QED BY <1>4, <1>5, <1>6, <1>7 DEF Next


\* A rewind that reports success has left the log of the leader, or the leader was promoted
\* again since the node read that it may be used: whenever that was, whatever crashed between.
THEOREM RewindCorrect == Spec => RewindWorks
<1>1. Inv /\ RewindInv /\ [Next]_vars =>
        \A n \in Node \ stale : LET l == src[n].leader IN
          /\ job[n] = "pg_rewind" /\ mem'[n].rw = "success" /\ mem[n].rw # "success"
          /\ Tl(n) # Tl(l)
          => IsPrefixOf(disk'[n].wal, disk[l].wal)
  <2> SUFFICES ASSUME Inv, RewindInv, [Next]_vars, NEW n \in Node, n \notin stale, job[n] = "pg_rewind",
                      mem'[n].rw = "success", mem[n].rw # "success", Tl(n) # Tl(src[n].leader)
               PROVE IsPrefixOf(disk'[n].wal, disk[src[n].leader].wal)
    OBVIOUS
  <2> DEFINE l == src[n].leader
  <2>1. Rewind(n) BY OnlyRewind
  <2>2. TypeOK /\ JobOK(n) /\ RewindOK(n) /\ MayRewindFrom(src[n]) /\ mem[n] \in Memory
    BY DEF Inv, TypeOK, JobInv, RewindInv, SourceOK
  <2>3. /\ src[n].ready = "ready" /\ srv[l] = "master" /\ disk[n].state = "clean"
        /\ SetDisk(n, PgRewind(n, l))
    <3>1. \/ UNCHANGED mem \/ SetMem(n, [mem[n] EXCEPT !.rw = "initial"])
          \/ SetMem(n, [mem[n] EXCEPT !.rw = "failed"])
          \/ /\ src[n].ready = "ready" /\ srv[l] = "master" /\ disk[n].state = "clean"
             /\ SetDisk(n, PgRewind(n, l))
      BY <2>1 DEF Rewind
    <3>2. ASSUME NEW s, SetMem(n, [mem[n] EXCEPT !.rw = s]) PROVE mem'[n].rw = s
      BY <2>2, <3>2 DEF SetMem, TypeOK, Memory
    <3> QED BY <3>1, <3>2
  <2>4. l \in Node /\ disk[l].ctl = Tl(l) BY <2>2, <2>3 DEF MayRewindFrom, Checkpointed
  <2>5. disk[n].ctl = Tl(n) BY <2>2, <2>3 DEF RewindOK
  <2>6. PgRewind(n, l).wal = disk[l].wal
    <3>1. disk[l] \in Disk BY <2>2, <2>4 DEF TypeOK
    <3>2. [disk[l] EXCEPT !.state = "standby"].wal = disk[l].wal BY <3>1, StateType
    <3> QED BY <2>4, <2>5, <3>2 DEF PgRewind
  <2>7. disk'[n].wal = disk[l].wal BY <2>2, <2>3, <2>6 DEF SetDisk, TypeOK
  <2>8. Len(disk[l].wal) \in Nat BY <2>2, <2>4, LenProperties DEF TypeOK, Disk
  <2> QED BY <2>7, <2>8 DEF IsPrefixOf
<1> QED BY <1>1, Initially, RewindInit, NextStep, RewindNext, PTL DEF Spec, RewindWorks

=============================================================================
