----------------------------- MODULE PrimaryLock -----------------------------
(***************************************************************************)
(* What the HA loop, the leader key and the watchdog promise together: a   *)
(* lock with at most one owner, and writers that start only under the lock *)
(* and have stopped before the lock moves on.                              *)
(***************************************************************************)
CONSTANTS Node, None

VARIABLES
    holder,     \* the owner of the lock
    writers     \* the nodes whose server can commit writes

LockInit == holder = None /\ writers = {}

Grant(n) == holder = None /\ holder' = n /\ UNCHANGED writers

Release == holder # None /\ writers = {} /\ holder' = None /\ UNCHANGED writers

StartWriting(n) ==
    /\ holder = n /\ writers = {}
    /\ writers' = {n}
    /\ UNCHANGED holder

StopWriting(n) ==
    /\ n \in writers
    /\ writers' = writers \ {n}
    /\ UNCHANGED holder

LockNext ==
    \/ Release
    \/ \E n \in Node : Grant(n) \/ StartWriting(n) \/ StopWriting(n)

LockSpec == LockInit /\ [][LockNext]_<<holder, writers>>
=============================================================================
