----------------------------- MODULE MCRaftStore -----------------------------
EXTENDS RaftStore, TLC
NodeSymmetry == Permutations(Node)

\* What becomes of a lease that is over no longer matters.
LeaseOver(n) == lease[n] # None /\ now >= lease[n] + Ttl - Skew

View == <<now, offset, logVars, flight, raftVars, call, told,
          [n \in Node |-> IF LeaseOver(n) THEN None ELSE lease[n]]>>
=============================================================================
