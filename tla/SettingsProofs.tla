--------------------------- MODULE SettingsProofs ---------------------------
(***************************************************************************)
(* Proofs about Settings, for any margin, loop_wait, and device: the       *)
(* timeout of the watchdog follows the ttl, and a scheduled restart is not *)
(* run twice.                                                              *)
(***************************************************************************)
EXTENDS Settings, TLAPS

WatchdogConf == [mode : Modes, ttl : Nat]

Facade == [conf : WatchdogConf, act : WatchdogConf, active : BOOLEAN,
           impl : {"device", "null"}, open : BOOLEAN, dev : Nat, fixed : BOOLEAN]

Server == [up : BOOLEAN, start : Nat \ {0}, par : {1, 2}, pending : BOOLEAN]

TypeOK ==
    /\ cfg \in [idx : Nat, val : Values \cup {Absent}]
    /\ view \in [idx : Nat, val : Values \cup {Absent}]
    /\ client \in [idx : Nat, val : Values] \cup {NoClient}
    /\ file \in Modes \cup {"broken"}
    /\ conf \in [dyn : Values, seen : Nat, mode : Modes, cache : Values, save : BOOLEAN]
    /\ lock \in BOOLEAN /\ primary \in BOOLEAN
    /\ lease \in Nat /\ ttl \in Nat
    /\ wd \in Facade /\ pg \in Server

\* Who is active, who is open.
RoleInv ==
    /\ wd.open => wd.active
    /\ wd.active /\ lock => primary
    /\ wd.open /\ ~wd.fixed => primary

\* The ttl that renews the lease is the one that the watchdog is told.
SameTtl == "reload" \notin flaws => ttl = wd.conf.ttl

\* A device that was not set since its activation has the timeout of that.
TimeoutInv ==
    wd.open /\ ~wd.fixed /\ "back" \notin flaws /\ wd.conf.ttl = wd.act.ttl
    => wd.dev = Timeout(wd.act.ttl)

DeviceInv == TypeOK /\ RoleInv /\ SameTtl /\ TimeoutInv /\ DeviceWithinLease

\* While the loop waits for the time of a restart, nothing starts the server.
SleepInv ==
    pc = "sleep" => job = "none" /\ (sched.start = 0 \/ pg.start = sched.start)

----------------------------------------------------------------------------
\* The facade.

\* Its device has the timeout of its activation unless the ttl has changed since.
AsActivated(w) ==
    w.open /\ ~w.fixed /\ w.conf.ttl = w.act.ttl => w.dev = Timeout(w.act.ttl)

LEMMA TimeoutType == ASSUME NEW t \in Nat PROVE Timeout(t) \in Nat
BY SettingsAssumption DEF Timeout

\* An activation takes over the configuration and sets the device by it.
LEMMA ActivateFacts ==
  ASSUME NEW w \in Facade, NEW opens \in BOOLEAN
  PROVE LET a == Activate(w, opens)
        IN  /\ a \in Facade
            /\ a.conf = w.conf /\ a.act = w.conf
            /\ a.active = w.active /\ a.fixed = w.fixed
            /\ a.open /\ ~w.fixed => a.dev = Timeout(w.conf.ttl)
<1> DEFINE act == [w EXCEPT !.act = w.conf]
           new == Timeout(w.conf.ttl)
           dev == IF w.fixed THEN Fixed ELSE new
<1>1. new \in Nat BY TimeoutType DEF Facade, WatchdogConf
<1>2. dev \in Nat BY <1>1, SettingsAssumption
<1>3. act \in Facade /\ act.conf = w.conf /\ act.act = w.conf
      /\ act.active = w.active /\ act.fixed = w.fixed
  BY DEF Facade
<1>4. Activate(w, opens) \in {Null(act), [act EXCEPT !.open = TRUE, !.dev = dev]}
  BY DEF Activate
<1> HIDE DEF act, new, dev
<1>5. CASE Activate(w, opens) = Null(act)
  BY <1>3, <1>5 DEF Null, Facade
<1>6. CASE Activate(w, opens) = [act EXCEPT !.open = TRUE, !.dev = dev]
  <2>1. ~w.fixed => dev = new BY DEF dev
  <2> QED BY <1>2, <1>3, <1>6, <2>1 DEF Facade, new
<1> QED BY <1>4, <1>5, <1>6

\* After keepalive an open device that takes the timeout of the ttl has it.
LEMMA KeepaliveFacts ==
  ASSUME NEW w \in Facade, NEW opens \in BOOLEAN, w.open => w.active
  PROVE LET k == Keepalive(w, opens)
        IN  /\ k \in Facade
            /\ k.conf = w.conf /\ k.active = w.active /\ k.fixed = w.fixed
            /\ k.open => k.active
            /\ AsActivated(w) => AsActivated(k)
            /\ AsActivated(w) /\ k.open /\ Takes(k, Timeout(w.conf.ttl))
                  => k.dev = Timeout(w.conf.ttl)
<1>1. CASE ~w.active \/ w.conf = w.act
  BY <1>1 DEF Keepalive, AsActivated, Takes
<1>2. CASE w.active /\ w.conf # w.act
  <2> DEFINE w1 == IF w.conf.mode # "off" /\ w.act.mode = "off"
                   THEN Activate(Device(w), opens) ELSE w
             new == Timeout(w1.conf.ttl)
  <2>1. /\ w1 \in Facade
        /\ w1.conf = w.conf /\ w1.active = w.active /\ w1.fixed = w.fixed
        /\ AsActivated(w) => AsActivated(w1)
    <3>1. CASE w1 = w BY <3>1
    <3>2. CASE w1 = Activate(Device(w), opens)
      <4>1. /\ Device(w) \in Facade /\ Device(w).conf = w.conf
            /\ Device(w).active = w.active /\ Device(w).fixed = w.fixed
        BY DEF Device, Facade
      <4> HIDE DEF w1
      <4> QED BY <3>2, <4>1, ActivateFacts DEF AsActivated
    <3> QED BY <3>1, <3>2
  <2>2. Keepalive(w, opens)
          = IF new # Timeout(w1.act.ttl) /\ w1.open /\ Takes(w1, new)
            THEN [w1 EXCEPT !.dev = new] ELSE w1
    BY <1>2 DEF Keepalive
  <2> HIDE DEF w1
  <2>3. w1.conf.ttl \in Nat /\ w1.act.ttl \in Nat BY <2>1 DEF Facade, WatchdogConf
  <2>4. new \in Nat /\ new = Timeout(w.conf.ttl) BY <2>1, <2>3, TimeoutType
  <2>5. CASE new # Timeout(w1.act.ttl) /\ w1.open /\ Takes(w1, new)
    <3>1. Keepalive(w, opens) = [w1 EXCEPT !.dev = new] BY <2>2, <2>5
    <3>2. w1.conf.ttl # w1.act.ttl BY <2>5
    <3> HIDE DEF new
    <3> QED BY <1>2, <2>1, <2>4, <3>1, <3>2 DEF Facade, AsActivated
  <2>6. CASE ~(new # Timeout(w1.act.ttl) /\ w1.open /\ Takes(w1, new))
    <3>1. Keepalive(w, opens) = w1 BY <2>2, <2>6
    <3>2. ASSUME AsActivated(w), w1.open, Takes(w1, new)
          PROVE w1.dev = new
      <4>1. new = Timeout(w1.act.ttl) /\ new > 0 BY <2>6, <3>2 DEF Takes
      <4>2. w1.conf.ttl = w1.act.ttl
        BY <2>3, <4>1, SettingsAssumption DEF Timeout
      <4>3. AsActivated(w1) BY <2>1, <3>2
      <4> QED BY <3>2, <4>1, <4>2, <4>3 DEF AsActivated, Takes
    <3> QED BY <1>2, <2>1, <2>4, <3>1, <3>2
  <2> QED BY <2>5, <2>6
<1> QED BY <1>1, <1>2

\* A new configuration never opens the device nor sets it.
LEMMA ReloadFacts ==
  ASSUME NEW w \in Facade, NEW m \in Modes, NEW t \in Nat, NEW par, w.open => w.active
  PROVE LET r == ReloadWatchdog(w, [ttl |-> t, par |-> par, mode |-> m])
        IN  /\ r \in Facade
            /\ r.conf.ttl = t /\ r.active = w.active /\ r.fixed = w.fixed
            /\ r.open => w.open /\ r.act = w.act /\ r.dev = w.dev
<1> DEFINE new == [mode |-> m, ttl |-> t]
           w1 == [w EXCEPT !.conf = new]
           w2 == IF m = "off" THEN [Null(w1) EXCEPT !.act = new] ELSE w1
<1>1. new \in WatchdogConf /\ new.ttl = t BY DEF WatchdogConf
<1>2. ReloadWatchdog(w, [ttl |-> t, par |-> par, mode |-> m])
        = IF w.active THEN w2 ELSE [w2 EXCEPT !.act = new]
  BY DEF ReloadWatchdog
<1> HIDE DEF new
<1>3. /\ w1 \in Facade /\ w1.conf = new /\ w1.active = w.active /\ w1.fixed = w.fixed
      /\ w1.open = w.open /\ w1.act = w.act /\ w1.dev = w.dev
  BY <1>1 DEF Facade
<1>4. /\ [Null(w1) EXCEPT !.act = new] \in Facade
      /\ [Null(w1) EXCEPT !.act = new].conf = new
      /\ [Null(w1) EXCEPT !.act = new].active = w.active
      /\ [Null(w1) EXCEPT !.act = new].fixed = w.fixed
      /\ ~[Null(w1) EXCEPT !.act = new].open
  BY <1>1 DEF Facade, Null
<1> HIDE DEF w1
<1>5. /\ w2 \in Facade /\ w2.conf = new /\ w2.active = w.active /\ w2.fixed = w.fixed
      /\ w2.open => w.open /\ w2.act = w.act /\ w2.dev = w.dev
  BY <1>3, <1>4
<1> HIDE DEF w2
<1>6. CASE w.active BY <1>1, <1>2, <1>5, <1>6
<1>7. CASE ~w.active
  <2>1. /\ [w2 EXCEPT !.act = new] \in Facade /\ [w2 EXCEPT !.act = new].conf = new
        /\ [w2 EXCEPT !.act = new].active = w.active
        /\ [w2 EXCEPT !.act = new].fixed = w.fixed
        /\ ~[w2 EXCEPT !.act = new].open
    BY <1>1, <1>5, <1>7 DEF Facade
  <2> QED BY <1>1, <1>2, <1>7, <2>1
<1> QED BY <1>6, <1>7

----------------------------------------------------------------------------
\* Facts about the steps of several actions.

LEMMA SetDynamicType ==
  ASSUME NEW c, c \in [dyn : Values, seen : Nat, mode : Modes, cache : Values, save : BOOLEAN],
         NEW new, new \in [idx : Nat, val : Values]
  PROVE SetDynamic(c, new)
          \in [dyn : Values, seen : Nat, mode : Modes, cache : Values, save : BOOLEAN]
BY DEF SetDynamic

\* reload_config, as the actions of the loop make it.
LEMMA ReloadStep ==
  ASSUME TypeOK, RoleInv,
         NEW c, c \in [dyn : Values, seen : Nat, mode : Modes, cache : Values, save : BOOLEAN],
         Reload(c)
  PROVE /\ wd' \in Facade /\ pg' \in Server /\ ttl' \in Nat /\ pg'.start = pg.start
        /\ lock' \in BOOLEAN /\ UNCHANGED <<primary, lease>>
        /\ RoleInv' /\ (TimeoutInv => TimeoutInv') /\ (SameTtl => SameTtl')
<1> DEFINE eff == Effective(c)
           r == ReloadWatchdog(wd, eff)
<1>1. /\ c.dyn.ttl \in Nat /\ c.dyn.par \in {1, 2} /\ c.mode \in Modes
      /\ eff = [ttl |-> c.dyn.ttl, par |-> c.dyn.par, mode |-> c.mode]
  BY DEF Values, Ttls, Effective
<1>2. wd \in Facade /\ pg \in Server /\ ttl \in Nat /\ (wd.open => wd.active)
  BY DEF TypeOK, RoleInv
<1>3. /\ r \in Facade /\ r.conf.ttl = c.dyn.ttl
      /\ r.active = wd.active /\ r.fixed = wd.fixed
      /\ r.open => wd.open /\ r.act = wd.act /\ r.dev = wd.dev
  BY <1>1, <1>2, ReloadFacts
<1>4. wd' = r BY DEF Reload
<1>5. pg' \in Server /\ ttl' \in Nat /\ pg'.start = pg.start
  <2>1. \/ pg' = [pg EXCEPT !.par = eff.par, !.pending = Running /\ eff.par # ServerPar]
           /\ ttl' = eff.ttl
        \/ UNCHANGED <<pg, ttl>>
    BY DEF Reload, SetTtl
  <2>2. CASE UNCHANGED <<pg, ttl>> BY <1>2, <2>2
  <2>3. CASE /\ pg' = [pg EXCEPT !.par = eff.par, !.pending = Running /\ eff.par # ServerPar]
             /\ ttl' = eff.ttl
    <3>1. eff.par \in {1, 2} /\ eff.ttl \in Nat BY <1>1
    <3>2. (Running /\ eff.par # ServerPar) \in BOOLEAN OBVIOUS
    <3> HIDE DEF eff
    <3> QED BY <1>2, <2>3, <3>1, <3>2 DEF Server
  <2> QED BY <2>1, <2>2, <2>3
<1>6. RoleInv' /\ lock' \in BOOLEAN /\ UNCHANGED <<primary, lease>>
  <2>1. lock' = FALSE \/ lock' = lock BY DEF Reload, SetTtl
  <2>2. lock \in BOOLEAN BY DEF TypeOK
  <2>3. (lock' => lock) /\ lock' \in BOOLEAN
    <3>1. CASE lock' = FALSE BY <3>1, Zenon
    <3>2. CASE lock' = lock BY <2>2, <3>2
    <3> QED BY <2>1, <3>1, <3>2, Zenon
  <2>4. UNCHANGED <<primary, lease>> BY DEF Reload
  <2> HIDE DEF r
  <2> QED BY <1>3, <1>4, <2>3, <2>4 DEF RoleInv
<1>7. ASSUME SameTtl PROVE SameTtl'
  <2>1. \/ ttl' = eff.ttl
        \/ flaws' = Back \cup {"reload"}
    BY DEF Reload, SetTtl
  <2>2. eff.ttl = c.dyn.ttl BY <1>1
  <2> HIDE DEF r, eff
  <2> QED BY <1>3, <1>4, <2>1, <2>2 DEF SameTtl
<1>8. ASSUME TimeoutInv PROVE TimeoutInv'
  <2>1. "back" \in Back => "back" \in flaws' BY DEF Reload
  <2>2. SUFFICES ASSUME wd'.open, ~wd'.fixed, "back" \notin flaws', wd'.conf.ttl = wd'.act.ttl
                 PROVE wd'.dev = Timeout(wd'.act.ttl)
    BY DEF TimeoutInv
  <2> HIDE DEF r
  <2>3. wd.open /\ ~wd.fixed /\ wd.active /\ wd'.act = wd.act /\ wd'.dev = wd.dev
    BY <1>2, <1>3, <1>4, <2>2
  <2>4. wd.conf.ttl = wd.act.ttl /\ "back" \notin flaws
    BY <2>1, <2>2, <2>3 DEF Back
  <2> QED BY <1>8, <2>3, <2>4 DEF TimeoutInv
<1> QED BY <1>3, <1>4, <1>5, <1>6, <1>7, <1>8

\* keepalive when the lock is held.
LEMMA KeepaliveStep ==
  ASSUME TypeOK, RoleInv, SameTtl, TimeoutInv, lock, NEW opens \in BOOLEAN
  PROVE LET k == Keepalive(wd, opens)
        IN  /\ k \in Facade /\ k.conf = wd.conf /\ k.active = wd.active
            /\ k.open => k.active /\ primary
            /\ "back" \notin flaws => AsActivated(k)
            /\ "back" \notin flaws /\ k.open /\ Takes(k, Timeout(k.conf.ttl))
                  => k.dev = Timeout(k.conf.ttl)
<1> DEFINE k == Keepalive(wd, opens)
<1>1. wd \in Facade /\ (wd.open => wd.active) BY DEF TypeOK, RoleInv
<1>2. /\ k \in Facade
      /\ k.conf = wd.conf /\ k.active = wd.active /\ k.fixed = wd.fixed
      /\ k.open => k.active
      /\ AsActivated(wd) => AsActivated(k)
      /\ AsActivated(wd) /\ k.open /\ Takes(k, Timeout(wd.conf.ttl))
            => k.dev = Timeout(wd.conf.ttl)
  BY <1>1, KeepaliveFacts
<1>3. "back" \notin flaws => AsActivated(wd) BY DEF TimeoutInv, AsActivated
<1> HIDE DEF k
<1> QED BY <1>2, <1>3 DEF RoleInv, k

\* enforce_master_role: a device that runs is left alone; one that is activated has the timeout
\* of the configuration.
LEMMA EnforceStep ==
  ASSUME TypeOK, NEW w \in Facade, NEW opens \in BOOLEAN, EnforceMasterRole(w, opens),
         w.open => w.active, w.open /\ ~w.fixed => primary
  PROVE /\ wd' \in Facade /\ lock' \in BOOLEAN /\ primary' \in BOOLEAN
        /\ pg' \in Server /\ pg'.start = pg.start
        /\ RoleInv' /\ wd'.conf = w.conf
        /\ AsActivated(w) => AsActivated(wd')
        /\ w.open => wd' = w
        /\ ~w.open /\ wd'.open /\ ~wd'.fixed => wd'.dev = Timeout(w.conf.ttl)
<1>1. pg' \in Server /\ pg'.start = pg.start
  <2>1. [pg EXCEPT !.up = FALSE] \in Server /\ [pg EXCEPT !.up = FALSE].start = pg.start
    BY DEF TypeOK, Server
  <2>2. pg' = pg \/ pg' = [pg EXCEPT !.up = FALSE] BY DEF EnforceMasterRole
  <2> QED BY <2>1, <2>2 DEF TypeOK
<1>2. CASE w.open
  <2>1. wd' = w /\ lock' = TRUE /\ primary' = TRUE BY <1>2 DEF EnforceMasterRole
  <2> QED BY <1>1, <1>2, <2>1 DEF RoleInv
<1>3. CASE ~w.open
  <2> DEFINE a == Activate(w, opens)
             new == [a EXCEPT !.active = TRUE]
  <2>1. /\ a \in Facade /\ a.conf = w.conf /\ a.act = w.conf /\ a.fixed = w.fixed
        /\ a.open /\ ~w.fixed => a.dev = Timeout(w.conf.ttl)
    BY ActivateFacts
  <2>2. \/ /\ Activated(new)
           /\ wd' = new /\ lock' = TRUE /\ primary' = TRUE
        \/ /\ ~Activated(new) /\ primary
           /\ wd' = Demoted(new) /\ lock' = FALSE /\ primary' = FALSE
        \/ /\ ~Activated(new) /\ ~primary
           /\ wd' = new /\ lock' = FALSE /\ primary' = FALSE
    BY <1>3 DEF EnforceMasterRole, TypeOK
  <2> HIDE DEF a
  <2>3. /\ new \in Facade /\ new.conf = w.conf /\ new.act = w.conf /\ new.fixed = w.fixed
        /\ new.active
        /\ new.open /\ ~w.fixed => new.dev = Timeout(w.conf.ttl)
    BY <2>1 DEF Facade
  <2> HIDE DEF new
  <2>4. Timeout(w.conf.ttl) \in Nat BY TimeoutType DEF Facade, WatchdogConf
  <2>5. ASSUME new.open, ~new.fixed PROVE Activated(new)
    <3>1. new.dev = Timeout(new.conf.ttl) /\ Timeout(new.conf.ttl) \in Nat
      BY <2>3, <2>4, <2>5
    <3>2. new.dev <= Timeout(new.conf.ttl) BY <3>1
    <3> QED BY <2>5, <3>2 DEF Activated
  <2>6. Demoted(new) \in {new, Disable(new)} /\ ~Demoted(new).open
    BY <2>3 DEF Demoted, Disable, Facade
  <2>7. /\ Demoted(new) \in Facade /\ Demoted(new).conf = w.conf
    BY <2>3, <2>6 DEF Disable, Facade
  <2>8. CASE wd' = new
    <3>1. RoleInv' BY <2>2, <2>3, <2>5, <2>8 DEF RoleInv
    <3>2. AsActivated(wd') BY <2>3, <2>8 DEF AsActivated
    <3> QED BY <1>1, <1>3, <2>2, <2>3, <2>8, <3>1, <3>2
  <2>9. CASE wd' = Demoted(new) /\ ~primary' /\ ~lock'
    <3>1. RoleInv' BY <2>6, <2>9 DEF RoleInv
    <3>2. AsActivated(wd') BY <2>6, <2>9 DEF AsActivated
    <3> QED BY <1>1, <1>3, <2>2, <2>6, <2>7, <2>9, <3>1, <3>2
  <2> QED BY <2>2, <2>8, <2>9
<1> QED BY <1>2, <1>3

\* A demotion.
LEMMA DemoteStep ==
  ASSUME TypeOK, RoleInv, SameTtl, TimeoutInv, Demote, wd' = Demoted(wd), ttl' = ttl
  PROVE /\ wd' \in Facade /\ lock' \in BOOLEAN /\ primary' \in BOOLEAN
        /\ pg' \in Server /\ pg'.start = pg.start
        /\ RoleInv' /\ SameTtl' /\ TimeoutInv' /\ DeviceWithinLease'
<1>1. wd' \in Facade /\ wd'.conf = wd.conf /\ ~wd'.open
  BY DEF Demoted, Disable, Facade, TypeOK
<1>2. lock' = FALSE /\ primary' = FALSE /\ flaws' = flaws \ {"back", "retaken"}
  BY DEF Demote
<1>3. pg' \in Server /\ pg'.start = pg.start BY DEF Demote, Server, TypeOK
<1> QED BY <1>1, <1>2, <1>3
        DEF RoleInv, SameTtl, TimeoutInv, DeviceWithinLease, TimeoutMatches

\* update_lock and no more
LEMMA UpdateLockStep ==
  ASSUME TypeOK, RoleInv, SameTtl, TimeoutInv, UpdateLock, lock,
         UNCHANGED <<lock, primary, ttl>>
  PROVE /\ wd' \in Facade /\ lease' \in Nat
        /\ RoleInv' /\ SameTtl' /\ TimeoutInv' /\ DeviceWithinLease'
<1>1. PICK opens \in BOOLEAN : wd' = Keepalive(wd, opens) BY DEF UpdateLock
<1>2. lease' = ttl /\ ttl \in Nat /\ flaws' = flaws \ {"retaken"}
  BY DEF TypeOK, UpdateLock, Renewed
<1>3. /\ wd' \in Facade /\ wd'.conf = wd.conf /\ wd'.active = wd.active
      /\ wd'.open => wd'.active /\ primary
      /\ "back" \notin flaws => AsActivated(wd')
      /\ "back" \notin flaws /\ wd'.open /\ Takes(wd', Timeout(wd'.conf.ttl))
            => wd'.dev = Timeout(wd'.conf.ttl)
  BY <1>1, KeepaliveStep
<1>4. RoleInv' BY <1>3 DEF RoleInv
<1>5. SameTtl' BY <1>2, <1>3 DEF SameTtl
<1>6. TimeoutInv' BY <1>2, <1>3 DEF TimeoutInv, AsActivated
<1>7. Timeout(lease') \in Nat BY <1>2, TimeoutType
<1>8. DeviceWithinLease'
  BY <1>2, <1>3, <1>5, <1>7 DEF DeviceWithinLease, TimeoutMatches, SameTtl
<1> QED BY <1>2, <1>3, <1>4, <1>5, <1>6, <1>8

\* The master role with the lock that was just renewed.
LEMMA LeadStep ==
  ASSUME TypeOK, RoleInv, SameTtl, TimeoutInv, Lead
  PROVE /\ wd' \in Facade /\ lease' \in Nat /\ lock' \in BOOLEAN /\ primary' \in BOOLEAN
        /\ pg' \in Server /\ pg'.start = pg.start
        /\ RoleInv' /\ SameTtl' /\ TimeoutInv' /\ DeviceWithinLease'
<1>1. PICK opens \in BOOLEAN : EnforceMasterRole(Keepalive(wd, opens), opens) BY DEF Lead
<1> DEFINE k == Keepalive(wd, opens)
<1>2. lease' = ttl /\ ttl' = ttl /\ ttl \in Nat /\ flaws' = flaws \ {"retaken"} /\ lock
  BY DEF TypeOK, Lead, Renewed
<1>3. /\ k \in Facade /\ k.conf = wd.conf
      /\ k.open => k.active /\ primary
      /\ "back" \notin flaws => AsActivated(k)
      /\ "back" \notin flaws /\ k.open /\ Takes(k, Timeout(k.conf.ttl))
            => k.dev = Timeout(k.conf.ttl)
  BY <1>2, KeepaliveStep
<1> HIDE DEF k
<1>4. /\ wd' \in Facade /\ lock' \in BOOLEAN /\ primary' \in BOOLEAN
      /\ pg' \in Server /\ pg'.start = pg.start
      /\ RoleInv' /\ wd'.conf = k.conf
      /\ AsActivated(k) => AsActivated(wd')
      /\ k.open => wd' = k
      /\ ~k.open /\ wd'.open /\ ~wd'.fixed => wd'.dev = Timeout(k.conf.ttl)
  BY <1>1, <1>3, EnforceStep DEF k
<1>5. SameTtl' BY <1>2, <1>3, <1>4 DEF SameTtl
<1>6. TimeoutInv' BY <1>2, <1>3, <1>4 DEF TimeoutInv, AsActivated
<1>7. Timeout(lease') \in Nat BY <1>2, TimeoutType
<1>8. ASSUME wd'.open, flaws' = {}, Takes(wd', Timeout(wd'.conf.ttl))
      PROVE wd'.dev = Timeout(lease')
  <2>1. wd'.dev = Timeout(wd'.conf.ttl)
    BY <1>2, <1>3, <1>4, <1>8 DEF Takes
  <2>2. ttl' = wd'.conf.ttl BY <1>5, <1>8 DEF SameTtl
  <2> QED BY <1>2, <2>1, <2>2
<1>9. DeviceWithinLease' BY <1>7, <1>8 DEF DeviceWithinLease, TimeoutMatches
<1> QED BY <1>2, <1>4, <1>5, <1>6, <1>9

\* The master role with a new key.
LEMMA AcquireStep ==
  ASSUME TypeOK, RoleInv, SameTtl, TimeoutInv, AcquireLock
  PROVE /\ wd' \in Facade /\ lease' \in Nat /\ lock' \in BOOLEAN /\ primary' \in BOOLEAN
        /\ pg' \in Server /\ pg'.start = pg.start
        /\ RoleInv' /\ SameTtl' /\ TimeoutInv' /\ DeviceWithinLease'
<1>1. PICK opens \in BOOLEAN : EnforceMasterRole(wd, opens) BY DEF AcquireLock
<1>2. /\ lease' = ttl /\ ttl' = ttl /\ ttl \in Nat /\ wd \in Facade
      /\ flaws' = IF primary /\ wd.open THEN flaws \cup {"retaken"} ELSE flaws
  BY DEF TypeOK, AcquireLock, Renewed
<1>3. (wd.open => wd.active) /\ (wd.open /\ ~wd.fixed => primary) BY DEF RoleInv
<1>4. /\ wd' \in Facade /\ lock' \in BOOLEAN /\ primary' \in BOOLEAN
      /\ pg' \in Server /\ pg'.start = pg.start
      /\ RoleInv' /\ wd'.conf = wd.conf
      /\ AsActivated(wd) => AsActivated(wd')
      /\ wd.open => wd' = wd
      /\ ~wd.open /\ wd'.open /\ ~wd'.fixed => wd'.dev = Timeout(wd.conf.ttl)
  BY <1>1, <1>2, <1>3, EnforceStep
<1>5. SameTtl' BY <1>2, <1>4 DEF SameTtl
<1>6. TimeoutInv' BY <1>2, <1>4 DEF TimeoutInv, AsActivated
<1>7. Timeout(lease') \in Nat BY <1>2, TimeoutType
<1>8. ASSUME wd'.open, flaws' = {}, Takes(wd', Timeout(wd'.conf.ttl))
      PROVE wd'.dev = Timeout(lease')
  <2>1. ~(primary /\ wd.open) BY <1>2, <1>8
  <2>2. ~wd.open BY <1>3, <1>4, <1>8, <2>1 DEF Takes
  <2>3. wd'.dev = Timeout(wd'.conf.ttl) BY <1>4, <1>8, <2>2 DEF Takes
  <2>4. ttl' = wd'.conf.ttl BY <1>5, <1>8 DEF SameTtl
  <2> QED BY <1>2, <2>3, <2>4
<1>9. DeviceWithinLease' BY <1>7, <1>8 DEF DeviceWithinLease, TimeoutMatches
<1> QED BY <1>2, <1>4, <1>5, <1>6, <1>9

----------------------------------------------------------------------------
\* The actions.

\* Every step keeps every variable in its type.
LEMMA TypeStep == ASSUME TypeOK, RoleInv, SameTtl, TimeoutInv, [Next]_vars PROVE TypeOK'
<1> USE DEF dcs, local, role, server, aux
<1>1. CASE TakeSignal BY <1>1 DEF TakeSignal, TypeOK
<1>2. CASE ReadLocal BY <1>2 DEF ReadLocal, TypeOK
<1>3. CASE ReloadConfig
  <2>1. /\ wd' \in Facade /\ pg' \in Server /\ ttl' \in Nat /\ lock' \in BOOLEAN
        /\ UNCHANGED <<primary, lease>>
    BY <1>3, ReloadStep DEF ReloadConfig, TypeOK
  <2> QED BY <1>3, <2>1 DEF ReloadConfig, TypeOK
<1>4. CASE NoSignal BY <1>4 DEF NoSignal, TypeOK
<1>5. CASE LoadCluster BY <1>5 DEF LoadCluster, TypeOK
<1>6. CASE LongAction
  <2>1. CASE lock
    <3>1. wd' \in Facade /\ lease' \in Nat BY <1>6, <2>1, UpdateLockStep DEF LongAction
    <3> QED BY <1>6, <2>1, <3>1 DEF LongAction, TypeOK
  <2>2. CASE ~lock /\ primary
    <3>1. Demote /\ wd' = Demoted(wd) /\ UNCHANGED <<ttl, lease>>
      BY <1>6, <2>2 DEF LongAction
    <3> QED BY <1>6, <3>1, DemoteStep DEF LongAction, TypeOK
  <2>3. CASE ~lock /\ ~primary BY <1>6, <2>3 DEF LongAction, TypeOK
  <2> QED BY <2>1, <2>2, <2>3 DEF TypeOK
<1>7. CASE Recover BY <1>7 DEF Recover, Renewed, Disable, Facade, TypeOK
<1>8. CASE Lead BY <1>8, LeadStep DEF Lead, TypeOK
<1>9. CASE LoseLock
  <2>1. CASE primary
    <3>1. Demote /\ wd' = Demoted(wd) /\ UNCHANGED <<ttl, lease>>
      BY <1>9, <2>1 DEF LoseLock
    <3> QED BY <1>9, <3>1, DemoteStep DEF LoseLock, TypeOK
  <2>2. CASE ~primary BY <1>9, <2>2 DEF LoseLock, TypeOK
  <2> QED BY <2>1, <2>2
<1>10. CASE AcquireLock BY <1>10, AcquireStep DEF AcquireLock, TypeOK
<1>11. CASE Follow
  <2>1. CASE primary
    <3>1. Demote /\ wd' = Demoted(wd) /\ UNCHANGED <<ttl, lease>>
      BY <1>11, <2>1 DEF Follow
    <3> QED BY <1>11, <3>1, DemoteStep DEF Follow, TypeOK
  <2>2. CASE ~primary BY <1>11, <2>2 DEF Follow, TypeOK
  <2> QED BY <2>1, <2>2
<1>12. CASE Evaluate BY <1>12 DEF Evaluate, TypeOK
<1>13. CASE RunScheduledRestart BY <1>13 DEF RunScheduledRestart, TypeOK
<1>14. CASE ApplyDynamic
  <2> DEFINE c == IF view.val = Absent THEN conf ELSE SetDynamic(conf, view)
  <2>1. c \in [dyn : Values, seen : Nat, mode : Modes, cache : Values, save : BOOLEAN]
    BY SetDynamicType DEF TypeOK
  <2> HIDE DEF c
  <2>2. /\ conf' = c
        /\ IF c.dyn # conf.dyn THEN Reload(c) ELSE UNCHANGED <<wd, pg, ttl, role, flaws>>
    BY <1>14 DEF ApplyDynamic, c
  <2>3. /\ wd' \in Facade /\ pg' \in Server /\ ttl' \in Nat /\ lock' \in BOOLEAN
        /\ UNCHANGED <<primary, lease>>
    <3>1. CASE c.dyn # conf.dyn
      <4>1. Reload(c) BY <2>2, <3>1
      <4> QED BY <2>1, <4>1, ReloadStep
    <3>2. CASE c.dyn = conf.dyn BY <2>2, <3>2 DEF TypeOK
    <3> QED BY <3>1, <3>2
  <2> QED BY <1>14, <2>1, <2>2, <2>3 DEF ApplyDynamic, TypeOK
<1>15. CASE SaveCache BY <1>15 DEF SaveCache, TypeOK
<1>16. CASE StartServer
  <2>1. KeepsOldPar \in BOOLEAN BY DEF KeepsOldPar
  <2>2. \/ pg' = [pg EXCEPT !.up = TRUE, !.start = @ + 1, !.pending = KeepsOldPar]
        \/ pg' = [pg EXCEPT !.up = FALSE, !.pending = FALSE]
    BY <1>16 DEF StartServer
  <2>3. pg' \in Server
    <3>1. pg.start + 1 \in Nat \ {0} /\ pg \in Server BY DEF Server, TypeOK
    <3>2. CASE pg' = [pg EXCEPT !.up = TRUE, !.start = pg.start + 1, !.pending = KeepsOldPar]
      <4> HIDE DEF TypeOK
      <4> DEFINE s == pg.start + 1
      <4>1. s \in Nat \ {0} /\ pg' = [pg EXCEPT !.up = TRUE, !.start = s, !.pending = KeepsOldPar]
        BY <3>1, <3>2
      <4> HIDE DEF s
      <4> QED BY <2>1, <3>1, <4>1 DEF Server
    <3>3. CASE pg' = [pg EXCEPT !.up = FALSE, !.pending = FALSE] BY <3>1, <3>3 DEF Server
    <3> QED BY <2>2, <3>2, <3>3
  <2> QED BY <1>16, <2>3 DEF StartServer, TypeOK
<1>17. CASE ScheduleFutureRestart BY <1>17 DEF ScheduleFutureRestart, TypeOK
<1>18. CASE DeleteFutureRestart BY <1>18 DEF DeleteFutureRestart, TypeOK
<1>19. CASE Restart BY <1>19 DEF Restart, TypeOK
<1>20. CASE ReadConfig BY <1>20 DEF ReadConfig, Clients, TypeOK
<1>21. CASE PatchConfig
  <2>1. client.val \in Values BY <1>21 DEF PatchConfig, TypeOK
  <2>2. \A t \in Ttls : [client.val EXCEPT !.ttl = t] \in Values BY <2>1 DEF Values
  <2>3. \A p \in {1, 2} : [client.val EXCEPT !.par = p] \in Values BY <2>1 DEF Values
  <2>4. cfg' = cfg \/ \E v \in Values : Write(v)
    <3>1. CASE client.idx = cfg.idx
      <4>1. \/ \E t \in Ttls : Write([client.val EXCEPT !.ttl = t])
            \/ \E p \in {1, 2} : Write([client.val EXCEPT !.par = p])
        BY <1>21, <3>1 DEF PatchConfig
      <4> QED BY <2>2, <2>3, <4>1
    <3>2. CASE client.idx # cfg.idx BY <1>21, <3>2 DEF PatchConfig
    <3> QED BY <3>1, <3>2
  <2>5. cfg' \in [idx : Nat, val : Values \cup {Absent}] BY <2>4 DEF Write, TypeOK
  <2> QED BY <1>21, <2>5 DEF PatchConfig, Clients, TypeOK
<1>22. CASE PutConfig BY <1>22 DEF PutConfig, Clients, Write, TypeOK
<1>23. CASE WipeConfig BY <1>23 DEF WipeConfig, Clients, TypeOK
<1>24. CASE EditFile BY <1>24 DEF EditFile, TypeOK
<1>25. CASE Signal BY <1>25 DEF Signal, TypeOK
<1>26. CASE CrashServer BY <1>26 DEF CrashServer, Server, TypeOK
<1>27. CASE RestartPatroni
  <2> DEFINE old == [conf EXCEPT !.mode = file, !.dyn = conf.cache, !.seen = 0, !.save = FALSE]
             c == IF cfg.val = Absent THEN old ELSE SetDynamic(old, cfg)
             new == [mode |-> c.mode, ttl |-> c.dyn.ttl]
  <2>1. old \in [dyn : Values, seen : Nat, mode : Modes, cache : Values, save : BOOLEAN]
    BY <1>27 DEF RestartPatroni, TypeOK
  <2>2. c \in [dyn : Values, seen : Nat, mode : Modes, cache : Values, save : BOOLEAN]
    <3> HIDE DEF old
    <3> QED BY <2>1, SetDynamicType DEF TypeOK
  <2> HIDE DEF old, c
  <2>3. /\ conf' = c /\ ttl' = c.dyn.ttl
        /\ wd' = [wd EXCEPT !.conf = new, !.act = new, !.active = FALSE, !.open = FALSE,
                            !.impl = IF c.mode = "off" THEN "null" ELSE "device"]
        /\ pg' = [pg EXCEPT !.up = FALSE, !.par = c.dyn.par, !.pending = FALSE]
        /\ lock' = FALSE /\ primary' = FALSE
        /\ UNCHANGED <<dcs, file, view, lease>>
    BY <1>27 DEF RestartPatroni, Effective, old, c
  <2>4. c.dyn.ttl \in Nat /\ c.dyn.par \in {1, 2} /\ new \in WatchdogConf
    BY <2>2 DEF Values, Ttls, WatchdogConf
  <2> HIDE DEF new
  <2>5. wd' \in Facade BY <2>3, <2>4 DEF Facade, TypeOK
  <2>6. pg' \in Server BY <2>3, <2>4 DEF Server, TypeOK
  <2> QED BY <2>2, <2>3, <2>4, <2>5, <2>6 DEF TypeOK
<1>28. CASE UNCHANGED vars BY <1>28 DEF vars, TypeOK
<1> QED
  BY <1>1, <1>2, <1>3, <1>4, <1>5, <1>6, <1>7, <1>8, <1>9, <1>10, <1>11, <1>12, <1>13,
     <1>14, <1>15, <1>16, <1>17, <1>18, <1>19, <1>20, <1>21, <1>22, <1>23, <1>24, <1>25,
     <1>26, <1>27, <1>28 DEF Next, Loop, Environment

\* The steps that change neither the watchdog, nor the ttls, nor the role, and do not
\* enter the part of the loop that DeviceWithinLease is about.
LEMMA OtherSteps ==
  ASSUME DeviceInv, UNCHANGED <<wd, ttl, lease, lock, primary, flaws>>,
         pc' \in {"apply", "evaluate", "sleep"} =>
            pc \in {"apply", "evaluate", "sleep"} \/ ~primary
  PROVE RoleInv' /\ SameTtl' /\ TimeoutInv' /\ DeviceWithinLease'
BY DEF DeviceInv, RoleInv, SameTtl, TimeoutInv, DeviceWithinLease, TimeoutMatches

\* Every step keeps the watchdog and the lease together.
LEMMA DeviceStep == ASSUME DeviceInv, [Next]_vars PROVE DeviceInv'
<1> USE DEF dcs, local, role, server, aux
<1>0. TypeOK /\ RoleInv /\ SameTtl /\ TimeoutInv BY DEF DeviceInv
<1> SUFFICES RoleInv' /\ SameTtl' /\ TimeoutInv' /\ DeviceWithinLease'
  BY <1>0, TypeStep DEF DeviceInv
<1>1. CASE TakeSignal BY <1>1, OtherSteps DEF TakeSignal, Goto
<1>2. CASE ReadLocal BY <1>2, OtherSteps DEF ReadLocal, Goto
<1>3. CASE ReloadConfig
  <2>1. RoleInv' /\ SameTtl' /\ TimeoutInv'
    BY <1>0, <1>3, ReloadStep DEF ReloadConfig, TypeOK
  <2>2. DeviceWithinLease' BY <1>3 DEF ReloadConfig, Goto, DeviceWithinLease, TimeoutMatches
  <2> QED BY <2>1, <2>2
<1>4. CASE NoSignal BY <1>4, OtherSteps DEF NoSignal, Goto
<1>5. CASE LoadCluster BY <1>5, OtherSteps DEF LoadCluster, Goto
<1>6. CASE LongAction
  <2>1. CASE lock BY <1>0, <1>6, <2>1, UpdateLockStep DEF LongAction
  <2>2. CASE ~lock /\ primary BY <1>0, <1>6, <2>2, DemoteStep DEF LongAction
  <2>3. CASE ~lock /\ ~primary BY <1>6, <2>3, OtherSteps DEF LongAction, Goto
  <2> QED BY <2>1, <2>2, <2>3 DEF TypeOK
<1>7. CASE Recover
  <2>1. /\ wd' \in Facade /\ wd'.conf = wd.conf /\ ~wd'.open /\ ~wd'.active
    BY <1>0, <1>7 DEF Recover, Disable, Facade, TypeOK
  <2> QED BY <1>0, <1>7, <2>1
          DEF Recover, RoleInv, SameTtl, TimeoutInv, DeviceWithinLease, TimeoutMatches
<1>8. CASE Lead BY <1>0, <1>8, LeadStep
<1>9. CASE LoseLock
  <2>1. CASE primary BY <1>0, <1>9, <2>1, DemoteStep DEF LoseLock
  <2>2. CASE ~primary
    BY <1>0, <1>9, <2>2
       DEF LoseLock, RoleInv, SameTtl, TimeoutInv, DeviceWithinLease, TimeoutMatches
  <2> QED BY <2>1, <2>2
<1>10. CASE AcquireLock BY <1>0, <1>10, AcquireStep
<1>11. CASE Follow
  <2>1. CASE primary BY <1>0, <1>11, <2>1, DemoteStep DEF Follow
  <2>2. CASE ~primary BY <1>11, <2>2, OtherSteps DEF Follow
  <2> QED BY <2>1, <2>2
<1>12. CASE Evaluate BY <1>12, OtherSteps DEF Evaluate, Goto
<1>13. CASE RunScheduledRestart BY <1>13, OtherSteps DEF RunScheduledRestart, Goto
<1>14. CASE ApplyDynamic
  <2> DEFINE c == IF view.val = Absent THEN conf ELSE SetDynamic(conf, view)
  <2>1. c \in [dyn : Values, seen : Nat, mode : Modes, cache : Values, save : BOOLEAN]
    BY <1>0, SetDynamicType DEF TypeOK
  <2> HIDE DEF c
  <2>2. IF c.dyn # conf.dyn THEN Reload(c) ELSE UNCHANGED <<wd, pg, ttl, role, flaws>>
    BY <1>14 DEF ApplyDynamic, c
  <2>3. RoleInv' /\ SameTtl' /\ TimeoutInv'
    <3>1. CASE c.dyn # conf.dyn
      <4>1. Reload(c) BY <2>2, <3>1
      <4> QED BY <1>0, <2>1, <4>1, ReloadStep
    <3>2. CASE c.dyn = conf.dyn
      BY <1>0, <1>14, <2>2, <3>2 DEF ApplyDynamic, RoleInv, SameTtl, TimeoutInv
    <3> QED BY <3>1, <3>2
  <2>4. DeviceWithinLease' BY <1>14 DEF ApplyDynamic, Goto, DeviceWithinLease, TimeoutMatches
  <2> QED BY <2>3, <2>4
<1>15. CASE SaveCache BY <1>15, OtherSteps DEF SaveCache, Goto
<1>16. CASE StartServer BY <1>16, OtherSteps DEF StartServer
<1>17. CASE ScheduleFutureRestart BY <1>17, OtherSteps DEF ScheduleFutureRestart
<1>18. CASE DeleteFutureRestart BY <1>18, OtherSteps DEF DeleteFutureRestart
<1>19. CASE Restart BY <1>19, OtherSteps DEF Restart
<1>20. CASE ReadConfig BY <1>20, OtherSteps DEF ReadConfig, Clients
<1>21. CASE PatchConfig BY <1>21, OtherSteps DEF PatchConfig, Clients
<1>22. CASE PutConfig BY <1>22, OtherSteps DEF PutConfig, Clients
<1>23. CASE WipeConfig BY <1>23, OtherSteps DEF WipeConfig, Clients
<1>24. CASE EditFile BY <1>24, OtherSteps DEF EditFile
<1>25. CASE Signal BY <1>25, OtherSteps DEF Signal
<1>26. CASE CrashServer BY <1>26, OtherSteps DEF CrashServer
<1>27. CASE RestartPatroni
  <2> DEFINE old == [conf EXCEPT !.mode = file, !.dyn = conf.cache, !.seen = 0, !.save = FALSE]
             c == IF cfg.val = Absent THEN old ELSE SetDynamic(old, cfg)
             new == [mode |-> c.mode, ttl |-> c.dyn.ttl]
  <2> HIDE DEF old, c
  <2>1. /\ ttl' = c.dyn.ttl
        /\ wd' = [wd EXCEPT !.conf = new, !.act = new, !.active = FALSE, !.open = FALSE,
                            !.impl = IF c.mode = "off" THEN "null" ELSE "device"]
        /\ lock' = FALSE /\ primary' = FALSE
    BY <1>27 DEF RestartPatroni, Effective, old, c
  <2>2. ~wd'.open /\ ~wd'.active /\ wd'.conf.ttl = c.dyn.ttl
    BY <1>0, <2>1 DEF Facade, TypeOK
  <2> QED BY <2>1, <2>2 DEF RoleInv, SameTtl, TimeoutInv, DeviceWithinLease, TimeoutMatches
<1>28. CASE UNCHANGED vars BY <1>28, OtherSteps DEF vars
<1> QED
  BY <1>1, <1>2, <1>3, <1>4, <1>5, <1>6, <1>7, <1>8, <1>9, <1>10, <1>11, <1>12, <1>13,
     <1>14, <1>15, <1>16, <1>17, <1>18, <1>19, <1>20, <1>21, <1>22, <1>23, <1>24, <1>25,
     <1>26, <1>27, <1>28 DEF Next, Loop, Environment

\* The loop decides to wait for a restart only if the server was not restarted since, and
\* holds the executor lock from then on.
LEMMA SleepStep == ASSUME TypeOK, SleepInv, [Next]_vars PROVE SleepInv'
<1> USE DEF dcs, local, role, server, aux, Goto
<1>1. CASE Evaluate
  <2>1. pg.start # 0 BY DEF TypeOK, Server
  <2>2. SUFFICES ASSUME pc' = "sleep" PROVE SleepInv' BY DEF SleepInv
  <2> QED BY <1>1, <2>1, <2>2 DEF Evaluate, SleepInv
<1>2. CASE Next /\ ~Evaluate
  <2>1. SUFFICES ASSUME pc' = "sleep" PROVE SleepInv' BY DEF SleepInv
  <2>2. ~\/ TakeSignal \/ ReadLocal \/ ReloadConfig \/ NoSignal \/ LoadCluster
         \/ LongAction \/ Recover \/ Lead \/ LoseLock \/ AcquireLock \/ Follow
         \/ RunScheduledRestart \/ ApplyDynamic \/ SaveCache \/ RestartPatroni
    BY <2>1 DEF TakeSignal, ReadLocal, ReloadConfig, NoSignal, LoadCluster, LongAction, Recover,
        Lead, LoseLock, AcquireLock, Follow, RunScheduledRestart, ApplyDynamic, SaveCache,
        RestartPatroni
  <2>3. ~(ScheduleFutureRestart \/ DeleteFutureRestart \/ Restart)
    BY <2>1 DEF ScheduleFutureRestart, DeleteFutureRestart, Restart, LockFree
  <2>4. ~StartServer BY <2>1 DEF StartServer, SleepInv
  <2>5. CASE ReadConfig \/ PatchConfig \/ PutConfig \/ WipeConfig
    BY <2>5 DEF ReadConfig, PatchConfig, PutConfig, WipeConfig, Clients, SleepInv
  <2>6. CASE EditFile \/ Signal BY <2>6 DEF EditFile, Signal, SleepInv
  <2>7. CASE CrashServer BY <2>7 DEF CrashServer, SleepInv, TypeOK, Server
  <2> QED BY <1>2, <2>2, <2>3, <2>4, <2>5, <2>6, <2>7 DEF Next, Loop, Environment
<1>3. CASE UNCHANGED vars BY <1>3 DEF vars, SleepInv
<1> QED BY <1>1, <1>2, <1>3

----------------------------------------------------------------------------
\* The theorems.

LEMMA Initially == Init => DeviceInv /\ SleepInv
<1> SUFFICES ASSUME Init PROVE DeviceInv /\ SleepInv OBVIOUS
<1>1. PICK mode \in Modes, fixed \in BOOLEAN :
        /\ file = mode
        /\ conf = [dyn |-> [ttl |-> 2, par |-> ServerPar], seen |-> 1, mode |-> mode,
                   cache |-> [ttl |-> 2, par |-> ServerPar], save |-> FALSE]
        /\ wd = [conf |-> [mode |-> mode, ttl |-> 2], act |-> [mode |-> mode, ttl |-> 2],
                 impl |-> IF mode = "off" THEN "null" ELSE "device",
                 active |-> FALSE, open |-> FALSE, dev |-> 0, fixed |-> fixed]
  BY DEF Init
<1>2. wd \in Facade BY <1>1 DEF Facade, WatchdogConf
<1>3. TypeOK
  <2>1. [ttl |-> 2, par |-> ServerPar] \in Values BY DEF Values, Ttls, ServerPar
  <2>2. pg \in Server BY DEF Init, Server, ServerPar
  <2>3. file \in Modes BY <1>1
  <2>4. conf \in [dyn : Values, seen : Nat, mode : Modes, cache : Values, save : BOOLEAN]
    BY <1>1, <2>1
  <2>5. cfg \in [idx : Nat, val : Values \cup {Absent}] /\ view = cfg BY <2>1 DEF Init
  <2>6. /\ client = NoClient /\ lock = FALSE /\ primary = FALSE
        /\ lease = 2 /\ ttl = 2
    BY DEF Init
  <2> QED BY <1>2, <2>2, <2>3, <2>4, <2>5, <2>6 DEF TypeOK
<1>4. RoleInv /\ SameTtl /\ TimeoutInv /\ DeviceWithinLease
  BY <1>1 DEF Init, RoleInv, SameTtl, TimeoutInv, DeviceWithinLease, TimeoutMatches
<1> QED BY <1>3, <1>4 DEF Init, DeviceInv, SleepInv

\* The device of a leader that has renewed its key fires before the key expires, whether a new
\* ttl costs it the key or not.  Not so if the device takes no timeout, if the configuration went
\* back to that of the activation, if a reload failed halfway, or if a primary has taken a lost
\* key again and not yet renewed it.
THEOREM DeviceSafe == Spec => []DeviceWithinLease
<1>1. Init => DeviceInv BY Initially
<1>2. DeviceInv /\ [Next]_vars => DeviceInv' BY DeviceStep
<1>3. DeviceInv => DeviceWithinLease BY DEF DeviceInv
<1> QED BY <1>1, <1>2, <1>3, PTL DEF Spec

\* A scheduled restart is dropped when the server has been restarted in the meantime.
THEOREM RestartOnce == Spec => RestartedOnce
<1>1. Init => DeviceInv /\ SleepInv BY Initially
<1>2. DeviceInv /\ SleepInv /\ [Next]_vars => (DeviceInv /\ SleepInv)'
  BY DeviceStep, SleepStep DEF DeviceInv
<1>3. DeviceInv /\ SleepInv /\ [Next]_vars
        => [pc = "sleep" /\ job' # job /\ sched.start # 0 => pg.start = sched.start]_vars
  BY DEF SleepInv
<1> QED BY <1>1, <1>2, <1>3, PTL DEF Spec, RestartedOnce
=============================================================================
