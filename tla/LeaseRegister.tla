---------------------------- MODULE LeaseRegister ----------------------------
(***************************************************************************)
(* What a back-end of the DCS promises of the leader key: it changes hands *)
(* only through being free, it becomes free only through a request of its  *)
(* owner to give it up or when its lease is over, and a renewal never      *)
(* shortens the lease.                                                     *)
(***************************************************************************)
EXTENDS Integers

CONSTANTS Node, None

VARIABLES
    holder,     \* the owner of the key
    due,        \* when its lease is over; only read while there is an owner
    asked,      \* who has a request under way to give the key up
    now         \* real time

registerVars == <<holder, due, asked, now>>

RegisterInit == holder = None /\ asked = {} /\ now = 0

Grant(n) ==
    /\ holder = None /\ holder' = n
    /\ due' \in Int /\ asked' \subseteq asked
    /\ UNCHANGED now

Renew(n) ==
    /\ holder = n
    /\ due' \in Int /\ due' >= due
    /\ asked' \subseteq asked
    /\ UNCHANGED <<holder, now>>

Ask(n) == asked' = asked \cup {n} /\ UNCHANGED <<holder, due, now>>

\* Requests are lost or refused, or the last one of a node has arrived.
Settle == asked' \subseteq asked /\ UNCHANGED <<holder, due, now>>

GiveUp(n) ==
    /\ holder = n /\ n \in asked
    /\ holder' = None /\ asked' \subseteq asked
    /\ UNCHANGED now

Lapse ==
    /\ holder # None /\ now >= due
    /\ holder' = None /\ asked' \subseteq asked
    /\ UNCHANGED now

Advance == now' = now + 1 /\ UNCHANGED <<holder, due, asked>>

RegisterNext ==
    \/ Lapse \/ Settle \/ Advance
    \/ \E n \in Node : Grant(n) \/ Renew(n) \/ Ask(n) \/ GiveUp(n)

RegisterSpec == RegisterInit /\ [][RegisterNext]_registerVars
=============================================================================
