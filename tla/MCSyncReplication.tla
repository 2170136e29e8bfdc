-------------------------- MODULE MCSyncReplication --------------------------
\* Instances of SyncReplication for TLC.
EXTENDS SyncReplication, TLC

CONSTANTS a, b, c

\* Every server knows one synchronous standby.
Ring == (a :> {b}) @@ (b :> {c}) @@ (c :> {a})

\* The value '*', or the list of all others.
AllOthers == [n \in Node |-> Node \ {n}]

Symmetry == Permutations(CommitId)
=============================================================================
